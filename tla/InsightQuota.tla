---------------------------- MODULE InsightQuota ----------------------------
(***************************************************************************)
(* The requests of one user to the insight service (yoink-insight          *)
(* service.rs): the daily quota with its reservations, the checks after    *)
(* each outside call, the cache, and the fence that shutdown waits for.    *)
(*                                                                         *)
(* A request is a future: it can end by itself, be cancelled, time out or  *)
(* be dropped with its connection.  A dropped one leaves its reservation   *)
(* to a spawned cleanup.  Content, prompts and providers are external.     *)
(***************************************************************************)
EXTENDS Naturals, FiniteSets

CONSTANTS
    Requests,       \* requests of the user over time
    SummaryLimit,   \* accepted summaries a day (0: no limit), over all commands
    TldrLimit,      \* accepted short summaries a day (0: no limit)
    MaxDays,        \* bound: midnights that pass
    MaxRoutes,      \* bound: changes of the route or of a credential
    MaxDbFaults     \* bound: failed deletions and crashes

\* What the constants of an instance satisfy.
ASSUME QuotaAssumption ==
    /\ IsFiniteSet(Requests)
    /\ SummaryLimit \in Nat /\ TldrLimit \in Nat
    /\ MaxDays \in Nat /\ MaxRoutes \in Nat /\ MaxDbFaults \in Nat

VARIABLES
    ask,          \* the requests: where they are, what they read
    reservation,  \* insight_native_reservations: the day of each row, or NoDay
    usage,        \* insight_usage_log: day of the ok entry, day it was reserved
    stored,       \* routes under which insight_native_cache has an entry
    granted,      \* the user's grant as the database has it
    path,         \* revision of the routes the database yields
    today,
    quotaClosing, \* admission is closed
    dbClosed,     \* the fence was passed and the database is closed
    quotaFaults

quotaVars == <<ask, reservation, usage, stored, granted, path, today, quotaClosing, dbClosed, quotaFaults>>
quotaEnv == <<granted, path, today, quotaClosing, dbClosed, quotaFaults>>

NoDay == MaxDays + 1
Days == 0..MaxDays
NoAsk == [pc |-> "idle", feature |-> "tldr", path |-> 0, armed |-> FALSE, token |-> FALSE, result |-> "none"]
NoUsage == [day |-> NoDay, reserved |-> NoDay]
Features == {"summary", "tldr"}

\* A request that owns its future; its cleanup may outlive it.
Running == {r \in Requests : ask[r].pc \notin {"idle", "cleanup", "done"}}

QuotaTypeOK ==
    /\ \A r \in Requests : ask[r].feature \in Features /\ reservation[r] \in Days \cup {NoDay}
    /\ stored \subseteq 0..MaxRoutes /\ today \in Days

---------------------------------------------------------------------------
(* Reading, reserving and the cache. *)

\* QuotaLifecycle::admit under its lock: no owner is registered after closing.
Admit(r, feature) ==
    /\ ask[r].pc = "idle" /\ ~quotaClosing
    /\ ask' = [ask EXCEPT ![r] = [NoAsk EXCEPT !.pc = "read", !.feature = feature, !.token = TRUE]]
    /\ UNCHANGED <<reservation, usage, stored, quotaEnv>>

Go(r, pc) == [ask EXCEPT ![r].pc = pc]
Refuse(r) == [ask EXCEPT ![r].pc = "release", ![r].result = "error"]

\* Settings and routes; a short summary reserves before anything is fetched.
ReadRoutes(r) ==
    /\ ask[r].pc = "read"
    /\ ask' = IF granted
              THEN [Go(r, IF ask[r].feature = "tldr" THEN "reserve" ELSE "lookup") EXCEPT ![r].path = path]
              ELSE Refuse(r)
    /\ UNCHANGED <<reservation, usage, stored, quotaEnv>>

Limit(feature) == IF feature = "summary" THEN SummaryLimit ELSE TldrLimit

Counts(feature, r) == feature = "summary" \/ ask[r].feature = "tldr"

\* Mutant of Spent: only finished requests are counted.
SpentFinished(feature) == Cardinality({r \in Requests : usage[r].day = today /\ Counts(feature, r)})

\* What the statement counts: ok entries and reservations of today.
Spent(feature) ==
    Cardinality({r \in Requests : usage[r].day = today /\ Counts(feature, r)})
        + Cardinality({r \in Requests : reservation[r] = today /\ Counts(feature, r)})

Reserve(r) ==
    LET feature == ask[r].feature
    IN  /\ ask[r].pc = "reserve"
        /\ IF quotaClosing \/ ~granted \/ (Limit(feature) > 0 /\ Spent(feature) >= Limit(feature))
           THEN ask' = Refuse(r) /\ UNCHANGED reservation
           ELSE /\ reservation' = [reservation EXCEPT ![r] = today]
                /\ ask' = [Go(r, IF feature = "tldr" THEN "lookup" ELSE "generate") EXCEPT ![r].armed = TRUE]
        /\ UNCHANGED <<usage, stored, quotaEnv>>

\* The entry is keyed by what the request read; a hit is logged, not charged.
Lookup(r) ==
    /\ ask[r].pc = "lookup"
    /\ ask' = CASE ~granted -> Refuse(r)
                [] granted /\ ask[r].path \in stored -> [Go(r, "release") EXCEPT ![r].result = "cached"]
                [] OTHER -> Go(r, "fetch")
    /\ UNCHANGED <<reservation, usage, stored, quotaEnv>>

\* Content and research; the sink asks for the grant around each phase.
Fetch(r) ==
    /\ ask[r].pc = "fetch"
    /\ \/ ask' = Go(r, IF ask[r].feature = "tldr" THEN "generate" ELSE "reserve")
       \/ ask' = Refuse(r)
    /\ UNCHANGED <<reservation, usage, stored, quotaEnv>>

Generate(r) ==
    /\ ask[r].pc = "generate"
    /\ ask' = Go(r, "check") \/ ask' = Refuse(r)
    /\ UNCHANGED <<reservation, usage, stored, quotaEnv>>

\* The grant and the routes are compared again; entry, log and the end of the
\* reservation are one transaction.
Commit(r) ==
    /\ ask[r].pc = "check"
    /\ IF granted /\ path = ask[r].path
       THEN /\ ask' = [Go(r, "release") EXCEPT ![r].armed = FALSE, ![r].result = "ok"]
            /\ usage' = [usage EXCEPT ![r] = [day |-> today, reserved |-> reservation[r]]]
            /\ reservation' = [reservation EXCEPT ![r] = NoDay]
            /\ stored' = stored \cup {path}
       ELSE ask' = Refuse(r) /\ UNCHANGED <<usage, reservation, stored>>
    /\ UNCHANGED quotaEnv

---------------------------------------------------------------------------
(* The end of a request. *)

Deleted(r) == [reservation EXCEPT ![r] = NoDay]
Over(r) == [ask EXCEPT ![r].pc = "done", ![r].token = FALSE]

\* Mutant of Dropped: the cleanup registers itself instead of taking the token.
DroppedWithoutToken(r) ==
    IF ask[r].armed THEN [ask EXCEPT ![r].pc = "cleanup", ![r].token = FALSE] ELSE Over(r)

\* The guard's drop moves the token into the task that deletes the row.
Dropped(r) == IF ask[r].armed THEN [ask EXCEPT ![r].pc = "cleanup"] ELSE Over(r)

\* release, then the guard is dropped: armed still if the deletion failed.
Release(r) ==
    /\ ask[r].pc = "release"
    /\ \/ ~ask[r].armed /\ ask' = Over(r) /\ UNCHANGED <<reservation, quotaFaults>>
       \/ ask[r].armed /\ ask' = Over(r) /\ reservation' = Deleted(r) /\ UNCHANGED quotaFaults
       \/ /\ ask[r].armed /\ quotaFaults < MaxDbFaults /\ quotaFaults' = quotaFaults + 1
          /\ ask' = Dropped(r) /\ UNCHANGED reservation
    /\ UNCHANGED <<usage, stored, granted, path, today, quotaClosing, dbClosed>>

\* Cancellation or the deadline drops the operation and releases.
Interrupt(r) ==
    /\ r \in Running /\ ask[r].pc # "release"
    /\ ask' = Refuse(r)
    /\ UNCHANGED <<reservation, usage, stored, quotaEnv>>

\* The caller's future is dropped at any await.
DropOwner(r) ==
    /\ r \in Running
    /\ ask' = Dropped(r)
    /\ UNCHANGED <<reservation, usage, stored, quotaEnv>>

Cleanup(r) ==
    /\ ask[r].pc = "cleanup"
    /\ ask' = Over(r)
    /\ \/ ~dbClosed /\ reservation' = Deleted(r) /\ UNCHANGED quotaFaults
       \/ (dbClosed \/ quotaFaults < MaxDbFaults) /\ UNCHANGED reservation
              /\ quotaFaults' = IF dbClosed THEN quotaFaults ELSE quotaFaults + 1
    /\ UNCHANGED <<usage, stored, granted, path, today, quotaClosing, dbClosed>>

\* The expiry is past the deadline of the request, so only rows whose owner is
\* gone meet it.
ExpireReservation(r) ==
    /\ reservation[r] # NoDay /\ ask[r].pc = "done"
    /\ reservation' = Deleted(r)
    /\ UNCHANGED <<ask, usage, stored, quotaEnv>>

---------------------------------------------------------------------------
(* The surroundings. *)

ChangeGrant ==
    /\ granted' = ~granted
    /\ UNCHANGED <<ask, reservation, usage, stored, path, today, quotaClosing, dbClosed, quotaFaults>>

ChangeRoute ==
    /\ path < MaxRoutes /\ path' = path + 1
    /\ UNCHANGED <<ask, reservation, usage, stored, granted, today, quotaClosing, dbClosed, quotaFaults>>

Midnight ==
    /\ today < MaxDays /\ today' = today + 1
    /\ UNCHANGED <<ask, reservation, usage, stored, granted, path, quotaClosing, dbClosed, quotaFaults>>

CloseQuota ==
    /\ ~quotaClosing /\ quotaClosing' = TRUE
    /\ UNCHANGED <<ask, reservation, usage, stored, granted, path, today, dbClosed, quotaFaults>>

\* shutdown_quota_cleanup returns when no token is left; then the database goes.
PassFence ==
    /\ quotaClosing /\ ~dbClosed /\ \A r \in Requests : ~ask[r].token
    /\ dbClosed' = TRUE
    /\ UNCHANGED <<ask, reservation, usage, stored, granted, path, today, quotaClosing, quotaFaults>>

\* The next process starts with the rows and without the futures.
CrashOrRestart ==
    /\ \/ quotaFaults < MaxDbFaults /\ quotaFaults' = quotaFaults + 1 /\ ask' = [r \in Requests |->
              IF r \in Running \/ ask[r].pc = "cleanup" THEN [ask[r] EXCEPT !.pc = "done", !.token = FALSE] ELSE ask[r]]
       \/ dbClosed /\ (\A r \in Requests : ask[r].pc # "cleanup") /\ UNCHANGED <<ask, quotaFaults>>
    /\ quotaClosing' = FALSE /\ dbClosed' = FALSE
    /\ UNCHANGED <<reservation, usage, stored, granted, path, today>>

QuotaInit ==
    /\ ask = [r \in Requests |-> NoAsk] /\ reservation = [r \in Requests |-> NoDay]
    /\ usage = [r \in Requests |-> NoUsage] /\ stored = {}
    /\ granted = TRUE /\ path = 0 /\ today = 0
    /\ quotaClosing = FALSE /\ dbClosed = FALSE /\ quotaFaults = 0

QuotaNext ==
    \/ \E r \in Requests :
           \/ \E feature \in Features : Admit(r, feature)
           \/ ReadRoutes(r) \/ Reserve(r) \/ Lookup(r) \/ Fetch(r) \/ Generate(r) \/ Commit(r)
           \/ Release(r) \/ Interrupt(r) \/ DropOwner(r) \/ Cleanup(r) \/ ExpireReservation(r)
    \/ ChangeGrant \/ ChangeRoute \/ Midnight \/ CloseQuota \/ PassFence \/ CrashOrRestart

QuotaSpec == QuotaInit /\ [][QuotaNext]_quotaVars

---------------------------------------------------------------------------
(* Properties. *)

\* The daily limit holds for what is admitted on a day: concurrent requests, those
\* that are dropped or fail, crashes and midnight never let more answers through
\* than reservations of that day allow (a reservation of the day before is charged
\* to that day even if its answer comes after midnight).
QuotaHolds ==
    /\ QuotaTypeOK
    /\ \A feature \in Features, day \in Days : Limit(feature) > 0 =>
           Cardinality({r \in Requests : usage[r].reserved = day /\ ask[r].feature = feature}) <= Limit(feature)

\* When the fence lets the database be closed no request and no cleanup is left to
\* use it, and the reservations that remain were left by a fault: none is leaked by
\* a cancelled, dropped or refused request.
FenceHolds ==
    /\ dbClosed => Running = {} /\ \A r \in Requests : ask[r].pc # "cleanup"
    /\ quotaFaults = 0 => \A r \in Requests : ask[r].pc = "done" => reservation[r] = NoDay

\* Insight is spent as agreed: reservations within the limits of the day and
\* settled before the database closes (service.rs).
SpendingIsAgreed == QuotaHolds /\ FenceHolds
=============================================================================
