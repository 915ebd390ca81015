------------------------------- MODULE Menus --------------------------------
(***************************************************************************)
(* Reconciliation of Telegram command menus (yoink-telegram menus.rs and   *)
(* menu_contact_update.rs, yoink-identity menu_contacts.rs and             *)
(* invalidation.rs).  One worker brings the menu of every target to what   *)
(* the identity store says it should be, request after request, while      *)
(* permissions change, people block the bot and come back, and requests    *)
(* fail, are applied without an answer, or are applied late.  A menu is    *)
(* the version of the decision it shows; which commands it holds is left   *)
(* out.  A target has its own contact and may depend on one of its chat.   *)
(***************************************************************************)
EXTENDS Naturals, Sequences

CONSTANTS
    TargetOrder,  \* the targets in the order of access_targets_after
    ChatOf,       \* per target: the contact of its chat (itself for a private chat)
    MaxDecisions, \* bound: committed changes of access
    MaxMoves,     \* bound: departures and returns per contact
    MaxTroubles   \* bound: failed, unanswered and late requests, and restarts

Targets == {TargetOrder[i] : i \in 1..Len(TargetOrder)}
Contacts == Targets \cup {ChatOf[t] : t \in Targets}

\* What the constants of an instance satisfy.
MenuAssumption ==
    /\ MaxDecisions \in Nat /\ MaxMoves \in Nat /\ MaxTroubles \in Nat
    /\ TargetOrder \in Seq(Targets) /\ DOMAIN ChatOf = Targets

VARIABLES
    due,       \* per target: the version of the decision its menu should show
    menu,      \* per target: what the base menu at Telegram shows
    override,  \* per target: a language override hides the base menu
    late,      \* requests Telegram applies after the worker gave up on them
    cleaned,   \* CleanedApi.deleted
    moves,     \* per contact: departures and returns so far; odd is away
    contact,   \* per contact: the persisted state
    dirty,     \* the watch has a value the worker has not seen
    worker,
    troubles

menuVars == <<due, menu, override, late, cleaned, moves, contact, dirty, worker, troubles>>

Away(c) == moves[c] % 2 = 1
Reachable(t) == ~Away(t) /\ ~Away(ChatOf[t])
AtRest(at) == [at |-> at, i |-> 0, stage |-> "read", retry |-> FALSE, version |-> 0,
               doing |-> "none", revision |-> 0, chatRevision |-> 0, answer |-> "none"]
Waiting == AtRest("wait")
Retrying == AtRest("retry")
AtTarget(i, stage, retry) == [AtRest("target") EXCEPT !.i = i, !.stage = stage, !.retry = retry]
Target == TargetOrder[worker.i]
InStage(s) == worker.at = "target" /\ worker.stage = s

MenuTypeOK ==
    /\ due \in [Targets -> 0..MaxDecisions] /\ menu \in [Targets -> 0..MaxDecisions]
    /\ cleaned \subseteq Targets /\ dirty \in BOOLEAN
    /\ \A c \in Contacts : contact[c].seen <= moves[c]
    /\ \A t \in cleaned : ~override[t]

---------------------------------------------------------------------------
(* What changes around the worker. *)

\* A committed change of role, language, permission or group, then invalidate().
Decide(t) ==
    /\ due[t] < MaxDecisions /\ due' = [due EXCEPT ![t] = @ + 1] /\ dirty' = TRUE
    /\ UNCHANGED <<menu, override, late, cleaned, moves, contact, worker, troubles>>

Move(c) ==
    /\ moves[c] < MaxMoves /\ moves' = [moves EXCEPT ![c] = @ + 1]
    /\ UNCHANGED <<due, menu, override, late, cleaned, contact, dirty, worker, troubles>>

\* What the k-th piece of evidence about a contact says.
Returned(k) == k % 2 = 0

\* observe: evidence that is not newer is dropped; a return wakes the worker.
ObserveContact(c, k) ==
    LET s == contact[c] IN
    /\ IF k <= s.seen THEN UNCHANGED <<contact, dirty>>
       ELSE /\ contact' = [contact EXCEPT ![c] =
                   [revision |-> s.revision + 1, unavailable |-> ~Returned(k), seen |-> k]]
            /\ dirty' = (dirty \/ (s.unavailable /\ Returned(k)))
    /\ UNCHANGED <<due, menu, override, late, cleaned, moves, worker, troubles>>

\* A request the worker timed out on still reaches Telegram.
LateRequestApplied ==
    /\ late # <<>> /\ late' = Tail(late)
    /\ menu' = [menu EXCEPT ![Head(late).target] = Head(late).version]
    /\ UNCHANGED <<due, override, cleaned, moves, contact, dirty, worker, troubles>>

---------------------------------------------------------------------------
(* run and pass. *)

Pass == AtTarget(1, "read", FALSE)
NextTarget(retry) == AtTarget(worker.i + 1, "read", retry)

\* The watch is marked as seen before the first state is read; the interval needs no signal.
Wake ==
    /\ worker \in {Waiting, Retrying}
    /\ dirty' = FALSE /\ worker' = Pass
    /\ UNCHANGED <<due, menu, override, late, cleaned, moves, contact, troubles>>

PassEnds ==
    /\ InStage("read") /\ worker.i > Len(TargetOrder)
    /\ worker' = IF worker.retry THEN Retrying ELSE Waiting
    /\ UNCHANGED <<due, menu, override, late, cleaned, moves, contact, dirty, troubles>>

\* target: the menu is decided from a fresh snapshot.
ReadTarget ==
    /\ InStage("read") /\ worker.i <= Len(TargetOrder)
    /\ worker' = [worker EXCEPT !.stage = "clear", !.version = due[Target]]
    /\ UNCHANGED <<due, menu, override, late, cleaned, moves, contact, dirty, troubles>>

Available(t) == ~contact[t].unavailable /\ ~contact[ChatOf[t]].unavailable

\* begin_menu_contact, for each of the requests of personalized.
Ask ==
    /\ InStage("clear") \/ InStage("set")
    /\ worker' =
           IF ~Available(Target) THEN NextTarget(worker.retry)
           ELSE IF worker.stage = "clear" /\ Target \in cleaned THEN [worker EXCEPT !.stage = "set"]
           ELSE [worker EXCEPT !.stage = "asked", !.doing = worker.stage,
                    !.revision = contact[Target].revision,
                    !.chatRevision = contact[ChatOf[Target]].revision]
    /\ UNCHANGED <<due, menu, override, late, cleaned, moves, contact, dirty, troubles>>

Effect ==
    IF worker.doing = "set"
    THEN menu' = [menu EXCEPT ![Target] = worker.version] /\ UNCHANGED override
    ELSE override' = [override EXCEPT ![Target] = FALSE] /\ UNCHANGED menu

Heard(answer) == worker' = [worker EXCEPT !.stage = "answered", !.answer = answer]

TelegramApplies ==
    /\ InStage("asked") /\ Reachable(Target) /\ Effect /\ Heard("ok")
    /\ UNCHANGED <<due, late, cleaned, moves, contact, dirty, troubles>>

TelegramRefuses ==
    /\ InStage("asked") /\ ~Reachable(Target)
    /\ Heard(IF Away(ChatOf[Target]) THEN "chat" ELSE "target")
    /\ UNCHANGED <<due, menu, override, late, cleaned, moves, contact, dirty, troubles>>

\* A failure, a lost answer, a request that is applied late, or a rate limit.
RequestFails ==
    /\ InStage("asked") /\ troubles < MaxTroubles /\ troubles' = troubles + 1
    /\ \/ Heard("retry") /\ UNCHANGED <<menu, override, late>>
       \/ Heard("retry") /\ Reachable(Target) /\ Effect /\ UNCHANGED late
       \/ /\ Heard("retry") /\ worker.doing = "set" /\ UNCHANGED <<menu, override>>
          /\ late' = Append(late, [target |-> Target, version |-> worker.version])
       \/ Heard("limited") /\ UNCHANGED <<menu, override, late>>
    /\ UNCHANGED <<due, cleaned, moves, contact, dirty>>

Proceed ==
    /\ InStage("answered") /\ worker.answer = "ok"
    /\ IF worker.doing = "clear"
       THEN /\ cleaned' = cleaned \cup {Target}
            /\ worker' = [AtTarget(worker.i, "set", worker.retry) EXCEPT !.version = worker.version]
       ELSE worker' = NextTarget(worker.retry) /\ UNCHANGED cleaned
    /\ UNCHANGED <<due, menu, override, late, moves, contact, dirty, troubles>>

\* Mutant of StillCurrent: a refusal is believed whatever was heard since.
StillCurrentAlways(c, revision) == TRUE

StillCurrent(c, revision) == contact[c].revision = revision

\* reject_menu_contact: the chat, or the target alone.
RejectContact ==
    LET c == IF worker.answer = "chat" THEN ChatOf[Target] ELSE Target
        revision == IF worker.answer = "chat" THEN worker.chatRevision ELSE worker.revision
    IN  /\ InStage("answered") /\ worker.answer \in {"chat", "target"}
        /\ contact' = IF StillCurrent(c, revision)
                      THEN [contact EXCEPT ![c].revision = @ + 1, ![c].unavailable = TRUE]
                      ELSE contact
        /\ worker' = NextTarget(worker.retry)
        /\ UNCHANGED <<due, menu, override, late, cleaned, moves, dirty, troubles>>

\* A rate limit ends the pass; any other failure is recorded and the pass goes on.
NoteFailure ==
    /\ InStage("answered") /\ worker.answer \in {"retry", "limited"}
    /\ worker' = IF worker.answer = "limited" THEN Retrying ELSE NextTarget(TRUE)
    /\ UNCHANGED <<due, menu, override, late, cleaned, moves, contact, dirty, troubles>>

\* initialize, after the process was started again: what is kept in memory is gone.
RestartBot ==
    /\ troubles < MaxTroubles /\ troubles' = troubles + 1
    /\ cleaned' = {} /\ dirty' = FALSE /\ worker' = Pass
    /\ UNCHANGED <<due, menu, override, late, moves, contact>>

MenuInit ==
    /\ due = [t \in Targets |-> 0] /\ menu = [t \in Targets |-> 0]
    /\ override \in [Targets -> BOOLEAN] /\ late = <<>> /\ cleaned = {}
    /\ moves = [c \in Contacts |-> 0]
    /\ contact = [c \in Contacts |-> [revision |-> 0, unavailable |-> FALSE, seen |-> 0]]
    /\ dirty = FALSE /\ worker = Pass /\ troubles = 0

WorkerStep ==
    \/ Wake \/ PassEnds \/ ReadTarget \/ Ask \/ TelegramApplies \/ TelegramRefuses
    \/ RequestFails \/ Proceed \/ RejectContact \/ NoteFailure

MenuNext ==
    \/ \E t \in Targets : Decide(t)
    \/ \E c \in Contacts : Move(c) \/ \E k \in 1..moves[c] : ObserveContact(c, k)
    \/ LateRequestApplied \/ WorkerStep \/ RestartBot

\* The newest thing to report about somebody is that he is back.
ReturnReported(c) == ~Away(c) /\ moves[c] > 0 /\ ObserveContact(c, moves[c])

\* The worker runs, its timer fires, and every request is answered or times out.  Whoever
\* comes back is heard of; a departure need not be reported.
MenuFairness ==
    /\ WF_menuVars(WorkerStep)
    /\ \A c \in Contacts : WF_menuVars(ReturnReported(c))

MenuSpec == MenuInit /\ [][MenuNext]_menuVars /\ MenuFairness

---------------------------------------------------------------------------
(* Properties. *)

MenusAgree == \A t \in Targets : Reachable(t) => menu[t] = due[t] /\ ~override[t]
=============================================================================
