----------------------------- MODULE Admission -----------------------------
(***************************************************************************)
(* The submission of one actor's links: submit_telegram_media with its     *)
(* optimistic retries, the commands that arm a mode or a content mark for  *)
(* the next link, and the transaction of admit_inner that charges the      *)
(* quotas, consumes both and inserts the operation.                        *)
(*                                                                         *)
(* Abstractions.  A message stands for everything that a Telegram update   *)
(* says: `Kind` gives the type of the command, its own mode and its chat.  *)
(* Its number is Telegram's, and with the chat it is the idempotency key,  *)
(* so that a key has one intent.  An update may be delivered any number of *)
(* times.  The tables of one actor are modelled; another actor's rows are  *)
(* never read, but for the global capacity (see DownloadQueue).  Handlers  *)
(* interleave at every await, also within one chat: the code asks nothing  *)
(* of the dispatcher.  Time is counted in ticks, Second of them a second.  *)
(***************************************************************************)
EXTENDS Integers, Sequences, FiniteSets, FiniteSetsExt

CONSTANTS
    Handler,            \* tasks that handle updates
    Message,            \* message numbers
    Kind,               \* [Message -> [type, mode, chat]]
    Mode,               \* requested media modes
    NoMode,             \* mode IS NULL
    Chat,               \* chats in which the actor marks
    Window,             \* windows of the quota
    Duration,           \* ticks of every window
    LimitChoices,       \* limits the settings may hold
    IsOwner,            \* the actor is the configured owner
    MaxPendingActor,    \* admission policy
    MaxTries,           \* rounds of submit_telegram_media
    Second,             \* ticks of a second
    MaxTime             \* bound on the clock

Type == {"arm", "mark", "plain", "explicit", "other"}

ASSUME AdmissionAssumption ==
    /\ Message \subseteq Nat \ {0}
    /\ Kind \in [Message -> [type: Type, mode: Mode, chat: Chat]]
    /\ NoMode \notin Mode
    /\ Duration \in [Window -> Nat \ {0}]
    /\ LimitChoices \subseteq [Window -> Nat \ {0}]
    /\ IsOwner \in BOOLEAN
    /\ {MaxPendingActor, MaxTries, Second} \subseteq Nat \ {0}
    /\ MaxTime \in Nat

\* The three windows of charge; the settings have a largest limit for each
\* (downloader_settings.rs: from one to a million).
ASSUME QuotaAssumption ==
    /\ Window \subseteq {"minute", "hour", "day"}
    /\ \A w \in Window : \E l \in LimitChoices : \A k \in LimitChoices : k[w] <= l[w]

VARIABLES
    clock,              \* the time of quota_now
    allowed,            \* role and ban of the actor allow downloads
    limits,             \* the limits in force
    rates,              \* rate_limits: count and reset_at of every window
    deferred,           \* runtime_deferred_media of the private chat
    mark,               \* the actor's row of runtime_nsfw_marks exists
    markSeen,           \* runtime_nsfw_mark_events, 0 for no row
    journal,            \* what was armed, marked and admitted, in order of commit
    handler             \* what every handler is doing

admissionVars == <<clock, allowed, limits, rates, deferred, mark, markSeen, journal, handler>>

\* message = 0: no row.  A row without a mode is a consumed one.
Deferred == [message: Nat, mode: Mode \cup {NoMode}]
NoDeferred == [message |-> 0, mode |-> NoMode]

\* An entry of the journal: an effective arm or mark, or an operation, with the
\* mode and the forced bit of its request.
Entry == [message: Message, mode: Mode, forced: BOOLEAN, at: Nat, pending: BOOLEAN]

HandlerStep == {"idle", "authorize", "arm", "mark", "replay", "read", "prepare", "admit", "conflict",
                "recheck"}
IdleHandler == [pc |-> "idle", message |-> 0, expected |-> NoDeferred, tries |-> 0]

TypeOf(m) == Kind[m].type
IsLink(m) == TypeOf(m) \in {"plain", "explicit", "other"}
\* The links that come with a trusted Telegram context.
IsMedia(m) == TypeOf(m) \in {"plain", "explicit"}

AdmissionInit ==
    /\ clock = 0
    /\ allowed = TRUE
    /\ limits \in LimitChoices
    /\ rates = [w \in Window |-> [count |-> 0, reset |-> 0]]
    /\ deferred = NoDeferred
    /\ mark = FALSE
    /\ markSeen = [c \in Chat |-> 0]
    /\ journal = <<>>
    /\ handler = [h \in Handler |-> IdleHandler]

----------------------------------------------------------------------------
(* The tables.                                                             *)

\* admit_existing: the operation of the message's key.
Existing(m) == \E i \in 1..Len(journal) : journal[i].message = m /\ IsLink(m)

\* admit_counts
Pending == {i \in 1..Len(journal) : journal[i].pending}

\* A window that ended, or was never opened, begins with this admission.
CurrentRate(w, now) ==
    IF rates[w].reset > now THEN rates[w] ELSE [count |-> 0, reset |-> now + Duration[w]]

\* Mutant of Full: the last window of the loop decides.
FullLast(now) ==
    {w \in Window : /\ CurrentRate(w, now).count >= limits[w]
                     /\ \A v \in Window : Duration[v] <= Duration[w]}

Full(now) == {w \in Window : CurrentRate(w, now).count >= limits[w]}

CeilDiv(n, d) == (n + d - 1) \div d

\* Mutant of RetryAfter: the first full window decides.
RetryAfterFirst(now) ==
    IF IsOwner \/ Full(now) = {} THEN 0
    ELSE Min({CeilDiv(CurrentRate(w, now).reset - now, Second) : w \in Full(now)})

\* charge: what a refused submission is told, in seconds; 0 if it is not refused.
RetryAfter(now) ==
    IF IsOwner \/ Full(now) = {} THEN 0
    ELSE Max({CeilDiv(CurrentRate(w, now).reset - now, Second) : w \in Full(now)})

\* Mutant of Charged: a window that begins is not charged.
ChargedOpen(now) ==
    IF IsOwner THEN rates
    ELSE [w \in Window |-> [CurrentRate(w, now) EXCEPT !.count = IF rates[w].reset > now THEN @ + 1 ELSE @]]

\* charge: every window, or none for the owner.
Charged(now) ==
    IF IsOwner THEN rates
    ELSE [w \in Window |-> [CurrentRate(w, now) EXCEPT !.count = @ + 1]]

\* Mutant of Watermark: an older message writes too.
WatermarkAnyAge(message, mode) == [message |-> message, mode |-> mode]

\* deferred_media_arm, deferred_media_consume: only a newer message writes.
Watermark(message, mode) ==
    IF deferred.message < message THEN [message |-> message, mode |-> mode] ELSE deferred

Enter(m, mode, forced) ==
    journal' = Append(journal, [message |-> m, mode |-> mode, forced |-> forced, at |-> clock,
                                pending |-> IsLink(m)])

----------------------------------------------------------------------------
(* Handlers.                                                               *)

TablesSame == UNCHANGED <<rates, deferred, mark, markSeen, journal>>
WorldSame == UNCHANGED <<clock, allowed, limits>>

At(h, pc) == handler[h].pc = pc
MessageOf(h) == handler[h].message

Goto(h, pc) == handler' = [handler EXCEPT ![h].pc = pc]
Return(h) == handler' = [handler EXCEPT ![h] = IdleHandler]

\* handle_message: an update, perhaps again.
Deliver(h, m) ==
    /\ At(h, "idle")
    /\ handler' = [handler EXCEPT ![h] = [IdleHandler EXCEPT !.pc = "authorize", !.message = m]]
    /\ TablesSame /\ WorldSame

\* authorize_request, authorize_chat
Authorize(h) ==
    /\ At(h, "authorize")
    /\ IF allowed
       THEN Goto(h, CASE TypeOf(MessageOf(h)) = "arm" -> "arm"
                      [] TypeOf(MessageOf(h)) = "mark" -> "mark"
                      [] OTHER -> "replay")
       ELSE Return(h)
    /\ TablesSame /\ WorldSame

\* arm_deferred_media.  An older command, or one again, changes nothing and is
\* answered like the first.
Arm(h) ==
    LET m == MessageOf(h)
    IN  /\ At(h, "arm")
        /\ IF allowed /\ deferred.message < m
           THEN deferred' = Watermark(m, Kind[m].mode) /\ Enter(m, Kind[m].mode, FALSE)
           ELSE UNCHANGED <<deferred, journal>>
        /\ Return(h)
        /\ UNCHANGED <<rates, mark, markSeen>> /\ WorldSame

\* Mutant of Mark: a mark that comes again arms again.
MarkAgain(h) ==
    LET m == MessageOf(h)
    IN  /\ At(h, "mark")
        /\ IF allowed /\ ~mark
           THEN /\ mark' = TRUE
                /\ markSeen' = [markSeen EXCEPT ![Kind[m].chat] = m]
                /\ IF \E i \in 1..Len(journal) : journal[i].message = m
                   THEN UNCHANGED journal ELSE Enter(m, Kind[m].mode, FALSE)
           ELSE UNCHANGED <<markSeen, mark, journal>>
        /\ Return(h)
        /\ UNCHANGED <<rates, deferred>> /\ WorldSame

\* mark_next_nsfw
Mark(h) ==
    LET m == MessageOf(h)
        c == Kind[m].chat
    IN  /\ At(h, "mark")
        /\ IF allowed /\ markSeen[c] < m
           THEN markSeen' = [markSeen EXCEPT ![c] = m] /\ mark' = TRUE /\ Enter(m, Kind[m].mode, FALSE)
           ELSE UNCHANGED <<markSeen, mark, journal>>
        /\ Return(h)
        /\ UNCHANGED <<rates, deferred>> /\ WorldSame

\* replay_telegram_media, replay_network_admission: an operation of this message
\* is the answer.
Replay(h) ==
    /\ At(h, "replay")
    /\ IF Existing(MessageOf(h)) THEN Return(h)
       ELSE Goto(h, IF IsMedia(MessageOf(h)) THEN "read" ELSE "prepare")
    /\ TablesSame /\ WorldSame

\* deferred_media_state: the version that the preparation rests on.
Read(h) ==
    /\ At(h, "read")
    /\ handler' = [handler EXCEPT ![h].pc = "prepare", ![h].expected = deferred]
    /\ TablesSame /\ WorldSame

\* submit_telegram_context up to the transaction: it authorizes again and may find
\* a dialog in the way (a conflict), open one, or fail on preferences and network.
Prepare(h) ==
    /\ At(h, "prepare")
    /\ \/ allowed /\ Goto(h, "admit")
       \/ allowed /\ IsMedia(MessageOf(h)) /\ Goto(h, "conflict")
       \/ Return(h)
    /\ TablesSame /\ WorldSame

\* The mode of the request: that of the command, or for a plain link the armed
\* one, if its command is older.
ResolvedMode(m, expected) ==
    IF TypeOf(m) = "plain" /\ expected.message < m /\ expected.mode # NoMode
    THEN expected.mode ELSE Kind[m].mode

\* The checks of admit_inner that a media link has to pass before the capacity.
ContextHolds(h) == IsMedia(MessageOf(h)) => deferred = handler[h].expected /\ allowed

\* Mutant of Insert: the mode is not taken from a version that is still current.
InsertStale(h) ==
    LET m == MessageOf(h)
    IN  /\ Cardinality(Pending) < MaxPendingActor
        /\ RetryAfter(clock) = 0
        /\ rates' = Charged(clock)
        /\ mark' = FALSE
        /\ Enter(m, ResolvedMode(m, handler[h].expected), mark)
        /\ deferred' = IF IsMedia(m) THEN Watermark(m, NoMode) ELSE deferred
        /\ UNCHANGED markSeen

\* admit_inner: the transaction of a new operation.
Insert(h) ==
    LET m == MessageOf(h)
    IN  /\ ContextHolds(h)
        /\ Cardinality(Pending) < MaxPendingActor
        /\ RetryAfter(clock) = 0
        /\ rates' = Charged(clock)
        /\ mark' = FALSE
        /\ Enter(m, ResolvedMode(m, handler[h].expected), mark)
        /\ deferred' = IF IsMedia(m) THEN Watermark(m, NoMode) ELSE deferred
        /\ UNCHANGED markSeen

\* Mutant of Admit: the key is looked up before the transaction only.
AdmitUnchecked(h) ==
    /\ At(h, "admit") /\ Insert(h) /\ Return(h)
    /\ WorldSame

\* admit_inner: the key again, the context, the capacity and the quota.
Admit(h) ==
    LET m == MessageOf(h)
    IN  /\ At(h, "admit")
        /\ \/ /\ Existing(m)
              /\ Return(h) /\ TablesSame
           \/ /\ ~Existing(m) /\ IsMedia(m) /\ deferred # handler[h].expected
              /\ Goto(h, "conflict") /\ TablesSame
           \/ ~Existing(m) /\ Insert(h) /\ Return(h)
           \/ /\ ~Existing(m)
              /\ \/ IsMedia(m) /\ deferred = handler[h].expected /\ ~allowed
                 \/ ContextHolds(h) /\ Cardinality(Pending) >= MaxPendingActor
                 \/ ContextHolds(h) /\ RetryAfter(clock) # 0
              /\ Return(h) /\ TablesSame
        /\ WorldSame

\* After a conflict: an operation that another handler of the message inserted is
\* the answer.
Conflict(h) ==
    /\ At(h, "conflict")
    /\ IF Existing(MessageOf(h)) THEN Return(h) ELSE Goto(h, "recheck")
    /\ TablesSame /\ WorldSame

\* Mutant of Recheck: no bound on the rounds.
RecheckForever(h) ==
    /\ At(h, "recheck")
    /\ IF deferred = handler[h].expected THEN Return(h)
       ELSE handler' = [handler EXCEPT ![h].pc = "read", ![h].tries = @ + 1]
    /\ TablesSame /\ WorldSame

\* ... and a version that has changed is a reason to try again.
Recheck(h) ==
    /\ At(h, "recheck")
    /\ IF deferred = handler[h].expected \/ handler[h].tries + 1 = MaxTries
       THEN Return(h)
       ELSE handler' = [handler EXCEPT ![h].pc = "read", ![h].tries = @ + 1]
    /\ TablesSame /\ WorldSame

\* The task is dropped at an await, or the process dies.
Abort(h) ==
    /\ ~At(h, "idle")
    /\ Return(h)
    /\ TablesSame /\ WorldSame

----------------------------------------------------------------------------
(* Elsewhere.                                                              *)

Tick ==
    /\ clock < MaxTime
    /\ clock' = clock + 1
    /\ UNCHANGED <<allowed, limits, handler>> /\ TablesSame

\* The actor is banned, restricted or let in again.
ChangeAuthority ==
    /\ allowed' = ~allowed
    /\ UNCHANGED <<clock, limits, handler>> /\ TablesSame

\* The settings dl.rate_limit_* are read by every admission.
ChangeLimits ==
    /\ limits' \in LimitChoices
    /\ UNCHANGED <<clock, allowed, handler>> /\ TablesSame

\* The queue settles an operation.
Finish(i) ==
    /\ journal[i].pending
    /\ journal' = [journal EXCEPT ![i].pending = FALSE]
    /\ UNCHANGED <<rates, deferred, mark, markSeen, handler>> /\ WorldSame

AdmissionNext ==
    \/ \E h \in Handler : \/ \E m \in Message : Deliver(h, m)
                          \/ Authorize(h) \/ Arm(h) \/ Mark(h) \/ Replay(h) \/ Read(h)
                          \/ Prepare(h) \/ Admit(h) \/ Conflict(h) \/ Recheck(h) \/ Abort(h)
    \/ Tick \/ ChangeAuthority \/ ChangeLimits
    \/ \E i \in 1..Len(journal) : Finish(i)

AdmissionSpec == AdmissionInit /\ [][AdmissionNext]_admissionVars

----------------------------------------------------------------------------
(* Properties.                                                             *)

AdmissionTypeOK ==
    /\ clock \in Nat
    /\ allowed \in BOOLEAN /\ mark \in BOOLEAN
    /\ limits \in LimitChoices
    /\ rates \in [Window -> [count: Nat, reset: Nat]]
    /\ deferred \in Deferred
    /\ markSeen \in [Chat -> Nat]
    /\ journal \in Seq(Entry)
    /\ handler \in [Handler -> [pc: HandlerStep, message: Message \cup {0}, expected: Deferred, tries: 0..(MaxTries - 1)]]

Links == {i \in 1..Len(journal) : IsLink(journal[i].message)}
Private == {i \in 1..Len(journal) : TypeOf(journal[i].message) \in {"arm", "plain", "explicit"}}

\* However often an update is delivered and however its handlers interleave, a
\* message has one operation (admit_existing, unique key).
AdmittedOnce ==
    \A i, j \in Links : journal[i].message = journal[j].message => i = j

\* Entry j armed a mode that entry i, a later one, has to use: its command is
\* older than the link, and no newer message of the chat was there before i.
Armed(i, j) ==
    /\ j < i
    /\ TypeOf(journal[j].message) = "arm"
    /\ journal[j].message < journal[i].message
    /\ \A k \in Private : k < i => journal[k].message <= journal[j].message

\* A plain link gets the mode of the newest command if no link has used or passed
\* it, and its own otherwise: no arm is used twice, by an older link, by a stale
\* preparation or after a replayed command (submit_telegram_media, admit_inner).
ModeFollowsCommands ==
    \A i \in Links :
        LET m == journal[i].message
            arms == {j \in Private : Armed(i, j)}
        IN  IF TypeOf(m) = "plain" /\ arms # {}
            THEN \A j \in arms : journal[i].mode = journal[j].mode
            ELSE journal[i].mode = Kind[m].mode

\* A mark forces one operation: at every moment no more operations were forced
\* than marks were given, delivered twice or not (mark_next_nsfw, admit_inner).
MarkForcesOnce ==
    \A n \in 1..Len(journal) :
        Cardinality({i \in 1..n : journal[i].forced})
            <= Cardinality({journal[i].message : i \in {j \in 1..n : TypeOf(journal[j].message) = "mark"}})

\* What is armed stays armed, through refusals, conflicts and dropped tasks, until
\* a newer message of the chat replaces it or a new operation uses it.
ArmedUntilUsed ==
    [][/\ deferred' # deferred => deferred'.message > deferred.message /\ Len(journal') > Len(journal)
       /\ mark /\ ~mark' => Len(journal') > Len(journal) /\ journal'[Len(journal')].forced]_admissionVars

Since(t) == {i \in Links : journal[i].at >= t}

\* Every window counts the operations since it began: replays and refusals are not
\* charged, and no window without the others (charge).
ChargedExactly ==
    \A w \in Window : ~IsOwner /\ rates[w].reset > clock =>
        rates[w].count = Cardinality(Since(rates[w].reset - Duration[w]))

\* Windows are anchored, so a burst may straddle two of them: any span of a
\* window's length still has fewer than twice the largest limit.
BurstBounded ==
    ~IsOwner => \A w \in Window : \A i \in Links :
        Cardinality({j \in Since(journal[i].at) : journal[j].at < journal[i].at + Duration[w]})
            < 2 * Max({l[w] : l \in LimitChoices})

\* A refused actor who comes back after the seconds named is not refused again, and
\* a second earlier he would be: the answer is the maximum over the full windows,
\* rounded up (charge).
RetryIsExact ==
    LET wait == RetryAfter(clock)
    IN  wait # 0 => /\ RetryAfter(clock + wait * Second) = 0
                    /\ RetryAfter(clock + (wait - 1) * Second) # 0

\* Every message has at most one operation and the rows keep their shape, however
\* its handlers interleave (submit_telegram_media, admit_existing).
OneOperationEach == AdmissionTypeOK /\ AdmittedOnce

\* The quotas hold exactly: what is charged, what a burst may reach and what a
\* refused actor is told (charge).
QuotasHold == ChargedExactly /\ BurstBounded /\ RetryIsExact
=============================================================================
