--------------------------- MODULE DownloadQueue ---------------------------
(***************************************************************************)
(* The durable download queue of yoink-storage: the tables                 *)
(* runtime_operations and runtime_delivery_units and the transactions      *)
(* store.rs and cache.rs run on them.  Every action is one transaction of  *)
(* the single, serialized database connection.                             *)
(*                                                                         *)
(* Abstractions.                                                           *)
(*  - An operation is identified by what the unique index ranges over, its *)
(*    actor and idempotency key.  Its request is immutable: no statement   *)
(*    of this module writes it.                                            *)
(*  - Time is two facts about a row: whether its lease is still live       *)
(*    (lease_expires_at > now) and, for a queued row, whether it is        *)
(*    available (available_at <= now).  The available rows are kept in     *)
(*    `ready`, in the order of available_at, the order a claim reads.      *)
(*  - A claim is the pair of an operation and an attempt.  The statement   *)
(*    that increments attempt also stores the fresh lease token and the    *)
(*    worker id, so the three columns of the fence change together.        *)
(*  - Columns no statement reads back (progress, timestamps, message ids,  *)
(*    content_failure) are left out; failure_code is a Boolean.            *)
(***************************************************************************)
EXTENDS Naturals, Sequences, FiniteSets, FiniteSetsExt, SequencesExt

CONSTANTS
    Op,                 \* operations: pairs of an actor and an idempotency key
    Actor,              \* Telegram users
    ActorOf,            \* the actor of every operation
    Bot,                \* bot ids
    BotOf,              \* the bot of every operation's delivery target
    MaxAttempts,        \* policy.max_attempts, 1..100 in the code
    RetryDelay,         \* policy.retry_delay in seconds, 0..300 in the code
    MaxPendingGlobal,   \* policy.max_pending_global
    MaxPendingActor,    \* policy.max_pending_actor
    MaxActiveActor,     \* claim.max_active_actor
    MaxArtifacts,       \* most artifacts of one delivery, 100 in the code
    MaxUnit,            \* most artifacts of one delivery unit, 10 in the code
    ExpireLimit,        \* LIMIT of expire_leases_select.sql, 100 in the code
    NoOp,               \* what a claim that found nothing returns
    NoBot               \* an unfiltered claim

ASSUME ConstantsAssumption ==
    /\ IsFiniteSet(Op)
    /\ ActorOf \in [Op -> Actor]
    /\ BotOf \in [Op -> Bot]
    /\ NoOp \notin Op
    /\ NoBot \notin Bot
    /\ MaxAttempts \in Nat \ {0}
    /\ RetryDelay \in Nat
    /\ MaxPendingGlobal \in Nat \ {0}
    /\ MaxPendingActor \in Nat \ {0}
    /\ MaxActiveActor \in Nat \ {0}
    /\ MaxArtifacts \in Nat \ {0}
    /\ MaxUnit \in Nat \ {0}
    /\ ExpireLimit \in Nat \ {0}

VARIABLES
    operations,         \* runtime_operations with the delivery units of each row
    ready               \* the available queued rows, by available_at

vars == <<operations, ready>>

Terminal == {"succeeded", "failed", "cancelled", "delivery_partial", "delivery_unknown"}
Active == {"running", "delivering"}
Pending == {"queued"} \cup Active
Status == {"absent"} \cup Pending \cup Terminal

UnitStatus == {"sending", "sent", "rejected", "unknown"}
StopReason == {"cancel", "denied", "nsfw_blocked", "nsfw_policy_unavailable", "shutdown"}

Unit == [attempt: Nat, ordinal: Nat, count: Nat \ {0}, status: UnitStatus]

\* planned = 0 stands for a NULL planned_artifact_count.
Row == [status: Status, cancel: BOOLEAN, attempt: Nat, max: Nat, live: BOOLEAN,
        planned: Nat, delivered: Nat, bypass: BOOLEAN, code: BOOLEAN,
        units: SUBSET Unit]

AbsentRow ==
    [status |-> "absent", cancel |-> FALSE, attempt |-> 0, max |-> MaxAttempts,
     live |-> FALSE, planned |-> 0, delivered |-> 0, bypass |-> FALSE,
     code |-> FALSE, units |-> {}]

Init ==
    /\ operations = [o \in Op |-> AbsentRow]
    /\ ready = <<>>

----------------------------------------------------------------------------
(* Helpers.                                                                *)

\* The rows that count towards capacity, and towards an actor's active work.
PendingOps(table) == {o \in Op : table[o].status \in Pending}
ActiveOf(table, a) == {o \in Op : ActorOf[o] = a /\ table[o].status \in Active}

CurrentUnits(r) == {u \in r.units : u.attempt = r.attempt}
UnitsIn(r, st) == {u \in CurrentUnits(r) : u.status = st}

\* The artifacts of a set of units, and the sum of artifact_count over the units
\* of the attempt that were sent.
ArtifactsOf(us) == UNION {{u} \X (1..u.count) : u \in us}
SentCount(r) == Cardinality(ArtifactsOf(UnitsIn(r, "sent")))

\* UPDATE runtime_delivery_units SET status = to WHERE attempt matches AND status = from.
Marked(r, from, to) ==
    {IF u.attempt = r.attempt /\ u.status = from THEN [u EXCEPT !.status = to] ELSE u : u \in r.units}

\* The row leaves the worker: worker_id, lease_token and lease_expires_at become NULL.
Released(r, st) == [r EXCEPT !.status = st, !.live = FALSE]

\* The fence of every claimant's statement: same attempt, and the lease is live.
Fenced(c) ==
    /\ operations[c[1]].attempt = c[2]
    /\ operations[c[1]].live

\* Write row r of operation o.  A row that returns to the queue is available at
\* once when its delay is zero, and otherwise when MakeAvailable says so.
Commit(o, r, delay) ==
    /\ operations' = [operations EXCEPT ![o] = r]
    /\ ready' = IF r.status = "queued" /\ delay = 0 THEN Append(ready, o) ELSE ready

----------------------------------------------------------------------------
(* Admission and cancellation.                                             *)

\* Mutant of Admit: both limits compared with > instead of >=.
AdmitOverLimit(o) ==
    /\ operations[o].status = "absent"
    /\ Cardinality(PendingOps(operations)) <= MaxPendingGlobal
    /\ Cardinality({p \in PendingOps(operations) : ActorOf[p] = ActorOf[o]}) <= MaxPendingActor
    /\ Commit(o, [AbsentRow EXCEPT !.status = "queued"], 0)

\* The inserting path of admit_inner: the key is new and both limits leave room.
Admit(o) ==
    /\ operations[o].status = "absent"
    /\ Cardinality(PendingOps(operations)) < MaxPendingGlobal
    /\ Cardinality({p \in PendingOps(operations) : ActorOf[p] = ActorOf[o]}) < MaxPendingActor
    /\ Commit(o, [AbsentRow EXCEPT !.status = "queued"], 0)

\* Mutant of RequestCancel: the status filter of cancel.sql is dropped.
CancelAnyStatus(o) ==
    /\ operations[o].status # "absent"
    /\ operations' = [operations EXCEPT ![o].cancel = TRUE]
    /\ UNCHANGED ready

\* request_cancel: a queued row is cancelled at once, an active one is only marked.
RequestCancel(o) ==
    /\ operations[o].status \in Pending
    /\ operations' = [operations EXCEPT
            ![o].cancel = TRUE,
            ![o].status = IF @ = "queued" THEN "cancelled" ELSE @]
    /\ IF o \in ToSet(ready)
       THEN \E i \in DOMAIN ready : ready[i] = o /\ ready' = RemoveAt(ready, i)
       ELSE UNCHANGED ready

----------------------------------------------------------------------------
(* Time.                                                                   *)

\* The clock passes lease_expires_at.
LeaseExpires(o) ==
    /\ operations[o].status \in Active
    /\ operations[o].live
    /\ operations' = [operations EXCEPT ![o].live = FALSE]
    /\ UNCHANGED ready

\* The clock reaches available_at.
MakeAvailable(o) ==
    /\ operations[o].status = "queued"
    /\ o \notin ToSet(ready)
    /\ ready' = Append(ready, o)
    /\ UNCHANGED operations

----------------------------------------------------------------------------
(* Claiming.                                                               *)

\* Mutant of Expired: only the leases of running operations are reconciled.
ExpiredRunning == {o \in Op : operations[o].status = "running" /\ ~operations[o].live}

\* The rows expire_leases_select.sql finds.
Expired == {o \in Op : operations[o].status \in Active /\ ~operations[o].live}

\* The CASE of expire_lease_operation.sql.
ExpiredStatus(r) ==
    IF r.status = "delivering" /\ UnitsIn(r, "unknown") # {} THEN "delivery_unknown"
    ELSE IF r.status = "delivering" /\ r.delivered > 0 THEN "delivery_partial"
    ELSE IF r.status = "delivering" /\ r.planned = 0 THEN "delivery_unknown"
    ELSE IF r.cancel THEN "cancelled"
    ELSE IF r.attempt >= r.max THEN "failed"
    ELSE "queued"

\* Mutant of ExpireRow: expire_lease_units.sql is not run, so an open unit is
\* still "sending" when the row is reconciled.
ExpireRowUnmarked(r) == Released(r, ExpiredStatus(r))

\* Mutant of ExpireRow: a row that expires starts over without the cancellation
\* its owner asked for.
ExpireRowForgetsCancel(r) ==
    LET fresh == [r EXCEPT !.units = Marked(r, "sending", "unknown"), !.cancel = FALSE]
    IN  Released(fresh, ExpiredStatus(fresh))

\* expire_lease_units.sql followed by expire_lease_operation.sql.
ExpireRow(r) ==
    LET marked == [r EXCEPT !.units = Marked(r, "sending", "unknown")]
    IN  Released(marked, ExpiredStatus(marked))

\* Mutant of Claimable: off by one in the actor's active work.
ClaimableOverLimit(table, b, o) ==
    /\ table[o].status = "queued"
    /\ ~table[o].cancel
    /\ table[o].attempt < table[o].max
    /\ b = NoBot \/ BotOf[o] = b
    /\ Cardinality(ActiveOf(table, ActorOf[o])) <= MaxActiveActor

\* The WHERE clause of claim_select.sql and claim_for_bot_select.sql.
Claimable(table, b, o) ==
    /\ table[o].status = "queued"
    /\ ~table[o].cancel
    /\ table[o].attempt < table[o].max
    /\ b = NoBot \/ BotOf[o] = b
    /\ Cardinality(ActiveOf(table, ActorOf[o])) < MaxActiveActor

\* claim_update.sql clears failure_code, claim_for_bot_update.sql keeps it.
ClaimRow(r, b) ==
    [r EXCEPT !.status = "running", !.attempt = @ + 1, !.live = TRUE,
              !.code = @ /\ b # NoBot,
              !.planned = 0, !.delivered = 0]

\* claim_filtered: one transaction expires a batch of dead leases and then hands
\* out the first claimable row (o), or none (o = NoOp).
Claim(b, o) ==
    \E S \in kSubset(Min({Cardinality(Expired), ExpireLimit}), Expired) :
        LET table == [p \in Op |-> IF p \in S THEN ExpireRow(operations[p]) ELSE operations[p]]
            requeued == {p \in S : table[p].status = "queued"}
        IN  \E q \in IF RetryDelay = 0 THEN {ready \o s : s \in SetToSeqs(requeued)} ELSE {ready} :
              \/ /\ o = NoOp
                 /\ \A i \in DOMAIN q : ~Claimable(table, b, q[i])
                 /\ operations' = table
                 /\ ready' = q
              \/ /\ o \in Op
                 /\ Claimable(table, b, o)
                 /\ operations' = [table EXCEPT ![o] = ClaimRow(table[o], b)]
                 /\ \E i \in DOMAIN q :
                       /\ q[i] = o
                       /\ \A j \in 1..(i - 1) : ~Claimable(table, b, q[j])
                       /\ ready' = RemoveAt(q, i)

----------------------------------------------------------------------------
(* What a claimant does with a running operation.                          *)

Running(c) == Fenced(c) /\ operations[c[1]].status = "running"

\* Mutant of Complete: a status Store::get does not know.
CompleteUndecodable(c) ==
    /\ Running(c)
    /\ Commit(c[1], Released(operations[c[1]], "completed"), RetryDelay)

\* complete: the direct path, without a delivery.
Complete(c) ==
    /\ Running(c)
    /\ Commit(c[1], Released(operations[c[1]], "succeeded"), RetryDelay)

\* Mutant of Fail: a retryable failure goes back to the queue although the owner
\* has cancelled the operation.
FailIgnoringCancel(c, retryable, code) ==
    LET r == operations[c[1]]
    IN  /\ Running(c)
        /\ Commit(c[1],
                  [Released(r, IF retryable /\ r.attempt < r.max THEN "queued" ELSE "failed")
                   EXCEPT !.code = code],
                  RetryDelay)

\* fail_with_code.
Fail(c, retryable, code) ==
    LET r == operations[c[1]]
    IN  /\ Running(c)
        /\ Commit(c[1],
                  [Released(r, IF r.cancel THEN "cancelled"
                               ELSE IF retryable /\ r.attempt < r.max THEN "queued"
                               ELSE "failed")
                   EXCEPT !.code = code /\ ~r.cancel],
                  RetryDelay)

\* acknowledge_cancel.
AckCancel(c) ==
    /\ Running(c)
    /\ operations[c[1]].cancel
    /\ Commit(c[1], Released(operations[c[1]], "cancelled"), RetryDelay)

----------------------------------------------------------------------------
(* Delivery of one message (begin_delivery and its outcomes).              *)

Delivering(c) == Fenced(c) /\ operations[c[1]].status = "delivering"

BeginDelivery(c) ==
    /\ Running(c)
    /\ ~operations[c[1]].cancel
    /\ Commit(c[1], [operations[c[1]] EXCEPT !.status = "delivering"], RetryDelay)

\* complete_delivery, delivery_unknown and reject_delivery differ in the status only.
EndDelivery(c, st) ==
    /\ Delivering(c)
    /\ Commit(c[1], Released(operations[c[1]], st), RetryDelay)

CompleteDelivery(c) == EndDelivery(c, "succeeded")
DeliveryUnknown(c) == EndDelivery(c, "delivery_unknown")
RejectDelivery(c) == EndDelivery(c, "failed")

----------------------------------------------------------------------------
(* Delivery in journalled units.                                           *)

BeginBatch(c, total) ==
    /\ Running(c)
    /\ ~operations[c[1]].cancel
    /\ Commit(c[1], [operations[c[1]] EXCEPT !.status = "delivering",
                                             !.planned = total, !.delivered = 0],
              RetryDelay)

\* The WHERE clause of begin_delivery_unit.sql; k follows the highest ordinal.
MayBeginUnit(c, k, n) ==
    LET r == operations[c[1]]
    IN  /\ Delivering(c)
        /\ r.planned # 0
        /\ ~r.cancel
        /\ \A u \in CurrentUnits(r) : u.ordinal < k
        /\ k > 0 => \E u \in CurrentUnits(r) : u.ordinal = k - 1
        /\ r.delivered = SentCount(r)
        /\ n <= MaxUnit
        /\ n + r.delivered <= r.planned
        /\ \A u \in CurrentUnits(r) : u.status = "sent"

\* begin_delivery_unit: the unit is journalled before anything is sent.
BeginUnit(c, k, n) ==
    /\ MayBeginUnit(c, k, n)
    /\ Commit(c[1],
              [operations[c[1]] EXCEPT
                  !.units = @ \cup {[attempt |-> c[2], ordinal |-> k, count |-> n, status |-> "sending"]}],
              RetryDelay)

\* The unit a settling statement names, still open.
OpenUnit(c, k, u) ==
    /\ Delivering(c)
    /\ u \in UnitsIn(operations[c[1]], "sending")
    /\ u.ordinal = k

Settled(r, u, st) == (r.units \ {u}) \cup {[u EXCEPT !.status = st]}

\* Mutant of CompleteUnit: the unit is confirmed, the update of the count is lost.
CompleteUnitUncounted(c, k) ==
    LET r == operations[c[1]]
    IN  \E u \in r.units :
          LET row == [r EXCEPT !.units = Settled(r, u, "sent")]
          IN  /\ OpenUnit(c, k, u)
              /\ Commit(c[1],
                        IF row.delivered + u.count = r.planned THEN Released(row, "succeeded") ELSE row,
                        RetryDelay)

\* complete_delivery_unit: both updates, or neither.
CompleteUnit(c, k) ==
    LET r == operations[c[1]]
    IN  \E u \in r.units :
          LET row == [r EXCEPT !.units = Settled(r, u, "sent"), !.delivered = @ + u.count]
          IN  /\ OpenUnit(c, k, u)
              /\ r.delivered = SentCount(r)
              /\ Commit(c[1],
                        IF row.delivered = r.planned THEN Released(row, "succeeded") ELSE row,
                        RetryDelay)

\* The CASE of reject_delivery_unit_operation.sql.
RejectedStatus(r, after) ==
    IF r.delivered > 0 THEN "delivery_partial"
    ELSE IF r.cancel THEN "cancelled"
    ELSE IF after > 0 /\ r.attempt < r.max THEN "queued"
    ELSE "failed"

\* reject_delivery_unit; `after` is the retry-after of a flood limit in seconds,
\* a positive number, or 0 when the rejection carries none.
RejectUnit(c, k, after) ==
    LET r == operations[c[1]]
    IN  \E u \in r.units :
          /\ OpenUnit(c, k, u)
          /\ Commit(c[1],
                    Released([r EXCEPT !.units = Settled(r, u, "rejected")], RejectedStatus(r, after)),
                    Max({RetryDelay, after}))

\* unknown_delivery_unit.
UnknownUnit(c, k) ==
    LET r == operations[c[1]]
    IN  \E u \in r.units :
          /\ OpenUnit(c, k, u)
          /\ Commit(c[1], Released([r EXCEPT !.units = Settled(r, u, "unknown")], "delivery_unknown"),
                    RetryDelay)

\* The CASE of stop_delivery_batch.sql.
StoppedStatus(r, reason) ==
    IF UnitsIn(r, "unknown") # {} THEN "delivery_unknown"
    ELSE IF r.delivered > 0 THEN "delivery_partial"
    ELSE IF r.cancel \/ reason = "cancel" THEN "cancelled"
    ELSE IF reason = "shutdown" /\ r.attempt < r.max THEN "queued"
    ELSE "failed"

\* stop_delivery_batch: an open unit becomes unknown, unless the claimant says
\* "cancel" and no cancellation is recorded.
StopBatch(c, reason) ==
    LET r == operations[c[1]]
        marked == [r EXCEPT !.units = IF reason = "cancel" /\ ~r.cancel THEN @
                                      ELSE Marked(r, "sending", "unknown")]
    IN  /\ Delivering(c)
        /\ Commit(c[1], Released(marked, StoppedStatus(marked, reason)), RetryDelay)

\* Mutant of RequeueInvalidCache: an operation may bypass the cache again.
RequeueInvalidCacheAgain(c) ==
    LET r == operations[c[1]]
    IN  \E u \in r.units :
          /\ OpenUnit(c, 0, u)
          /\ ~r.cancel
          /\ r.delivered = 0
          /\ Commit(c[1],
                    [Released([r EXCEPT !.units = Settled(r, u, "rejected")], "queued")
                     EXCEPT !.max = @ + 1, !.bypass = TRUE, !.planned = 0],
                    0)

\* What requeue_invalid_cache requires of the row and of its open first unit u.
MayRequeue(c, u) ==
    LET r == operations[c[1]]
    IN  /\ OpenUnit(c, 0, u)
        /\ ~r.cancel
        /\ ~r.bypass
        /\ r.delivered = 0
        /\ \A v \in CurrentUnits(r) \ {u} : v.status \notin {"sending", "unknown", "sent"}

\* requeue_invalid_cache: the cached file id was refused, so the first unit is
\* rejected and the operation runs again, once, without the cache.
RequeueInvalidCache(c) ==
    LET r == operations[c[1]]
    IN  \E u \in r.units :
          /\ MayRequeue(c, u)
          /\ Commit(c[1],
                    [Released([r EXCEPT !.units = Settled(r, u, "rejected")], "queued")
                     EXCEPT !.max = @ + 1, !.bypass = TRUE, !.planned = 0],
                    0)

----------------------------------------------------------------------------
Claimant(c) ==
    \/ Complete(c) \/ AckCancel(c)
    \/ \E retryable, code \in BOOLEAN : Fail(c, retryable, code)
    \/ BeginDelivery(c) \/ CompleteDelivery(c) \/ DeliveryUnknown(c) \/ RejectDelivery(c)
    \/ \E total \in 1..MaxArtifacts : BeginBatch(c, total)
    \/ \E k \in 0..(MaxArtifacts - 1) :
          \/ \E n \in 1..MaxUnit : BeginUnit(c, k, n)
          \/ CompleteUnit(c, k)
          \/ \E after \in 0..1 : RejectUnit(c, k, after)
          \/ UnknownUnit(c, k)
    \/ \E reason \in StopReason : StopBatch(c, reason)
    \/ RequeueInvalidCache(c)

Next ==
    \/ \E o \in Op : \/ Admit(o) \/ RequestCancel(o) \/ LeaseExpires(o) \/ MakeAvailable(o)
    \/ \E b \in Bot \cup {NoBot}, o \in Op \cup {NoOp} : Claim(b, o)
    \/ \E o \in Op : \E a \in 1..operations[o].attempt : Claimant(<<o, a>>)

Spec == Init /\ [][Next]_vars

----------------------------------------------------------------------------
(* Properties.                                                             *)

\* Every row has the columns the schema declares, its status one that
\* Store::get can decode, and the available rows are operations.
TypeOK ==
    /\ operations \in [Op -> Row]
    /\ ready \in Seq(Op)

\* An operation that waits for another attempt, or runs one, has no delivery
\* unit that may have reached the chat: every unit it ever journalled was
\* definitely rejected.  (docs/architecture/overview.md: "An ambiguous send must
\* not trigger an automatic resend"; expire_lease_operation.sql,
\* reject_delivery_unit_operation.sql, stop_delivery_batch.sql.)
NoResend ==
    \A o \in Op : operations[o].status \in {"queued", "running"} =>
        \A u \in operations[o].units : u.status = "rejected"

\* A queued row is never stuck: no cancellation is recorded on it and it has an
\* attempt left, so claim_select.sql will return it once it is available.
QueuedIsClaimable ==
    \A o \in Op : operations[o].status = "queued" =>
        /\ ~operations[o].cancel
        /\ operations[o].attempt < operations[o].max

\* delivered_artifact_count always agrees with the journal and stays below the
\* plan while units are delivered, and equals the plan when a journalled
\* delivery ends well by its last unit.
JournalAgrees ==
    \A o \in Op :
        LET r == operations[o]
        IN  /\ r.status = "delivering" => r.delivered = SentCount(r)
            /\ r.status = "delivering" /\ r.planned > 0 => r.delivered < r.planned
            /\ r.status = "delivery_partial" => 0 < r.delivered /\ r.delivered < r.planned

\* Attempts are bounded: the configured number, and exactly one more for an
\* operation whose cached file id was refused (requeue_invalid_cache).
AttemptsBounded ==
    \A o \in Op :
        LET r == operations[o]
        IN  /\ r.attempt <= r.max
            /\ r.max = MaxAttempts + (IF r.bypass THEN 1 ELSE 0)

\* The pending limits of the admission policy hold for ever, whatever returns to
\* the queue (admit_inner checks them only when a row is inserted).
CapacityHolds ==
    /\ Cardinality(PendingOps(operations)) <= MaxPendingGlobal
    /\ \A a \in Actor :
          Cardinality({o \in PendingOps(operations) : ActorOf[o] = a}) <= MaxPendingActor

\* No actor has more running and delivering operations than the claim policy
\* allows (claim_for_bot_select.sql).
ActiveBounded ==
    \A a \in Actor : Cardinality(ActiveOf(operations, a)) <= MaxActiveActor

\* The limits of the admission and of the claim policy hold together, whatever
\* expires, is requeued or is cancelled in between (admit_counts.sql,
\* claim_for_bot_select.sql).
LimitsHold == CapacityHolds /\ ActiveBounded

\* Once a cancellation is recorded it is not forgotten, and no further attempt
\* begins: not after a failure, an expired lease or a rejected delivery.
CancelIsFinal ==
    [][\A o \in Op : operations[o].cancel =>
            operations'[o].cancel /\ operations'[o].attempt = operations[o].attempt]_vars

\* A terminal row and its journal are never written again, by whatever claim.
TerminalIsFinal ==
    [][\A o \in Op : operations[o].status \in Terminal => operations'[o] = operations[o]]_vars

\* Every row has the columns of the schema, one that waits can be claimed, and
\* attempts stay within the policy (decode_operation, claim_for_bot_select.sql,
\* requeue_invalid_cache).
RowsAreSound == TypeOK /\ QueuedIsClaimable /\ AttemptsBounded

\* What is decided about an operation stays decided: its cancellation and its
\* outcome (request_cancel, the fence of every later statement).
DecisionsAreFinal == CancelIsFinal /\ TerminalIsFinal
=============================================================================
