------------------------ MODULE DownloadQueueProofs ------------------------
(***************************************************************************)
(* Proofs about DownloadQueue, for every set of operations, every limit    *)
(* and every number of attempts.                                           *)
(*                                                                         *)
(* Every transaction writes whole rows, so the inductive invariant is a    *)
(* property of one row (RowOK), and each row function is shown to keep it. *)
(***************************************************************************)
EXTENDS DownloadQueue, FiniteSetTheorems, TLAPS

\* The units of finished attempts were all rejected, and a queued or running
\* row has no others; while a row delivers, each unit of its attempt is open or
\* confirmed, at most one is open, and none is confirmed before
\* delivered_artifact_count says so.
JournalOK(r) ==
    /\ \A u \in r.units : u.attempt <= r.attempt
    /\ \A u \in r.units : u.attempt < r.attempt => u.status = "rejected"
    /\ r.status \in {"absent", "queued", "running"} => \A u \in r.units : u.status = "rejected"
    /\ r.status = "running" => CurrentUnits(r) = {}
    /\ r.status = "delivering" =>
          /\ \A u \in CurrentUnits(r) : u.status \in {"sending", "sent"}
          /\ \A u, v \in CurrentUnits(r) : u.status = "sending" /\ v.status = "sending" => u = v
          /\ r.delivered = 0 => \A u \in CurrentUnits(r) : u.status = "sending"

\* What every row satisfies in every reachable state.
RowOK(r) ==
    /\ r \in Row
    /\ r.live => r.status \in Active
    /\ r.attempt <= r.max
    /\ r.max = MaxAttempts + (IF r.bypass THEN 1 ELSE 0)
    /\ r.status \in {"absent", "queued"} => ~r.cancel /\ r.attempt < r.max
    /\ r.status = "absent" => r.attempt = 0
    /\ JournalOK(r)

RowsOK == operations \in [Op -> Row] /\ \A o \in Op : RowOK(operations[o])

USE DEF Terminal, Active, Pending, Status, UnitStatus

----------------------------------------------------------------------------
(* Facts about single rows.                                                *)

\* What is left of RowOK when the status is about to change.
Releasable(r) ==
    /\ r \in Row
    /\ r.attempt <= r.max
    /\ r.max = MaxAttempts + (IF r.bypass THEN 1 ELSE 0)
    /\ \A u \in r.units : u.attempt <= r.attempt
    /\ \A u \in r.units : u.attempt < r.attempt => u.status = "rejected"

\* Releasing a row keeps RowOK, provided a row that returns to the queue has
\* neither a cancellation nor a unit that was not rejected.
LEMMA ReleasedOK ==
    ASSUME NEW r, NEW st \in Terminal \cup {"queued"}, Releasable(r),
           st = "queued" => /\ ~r.cancel
                            /\ r.attempt < r.max
                            /\ \A u \in r.units : u.status = "rejected"
    PROVE  RowOK(Released(r, st))
  BY DEF RowOK, JournalOK, Releasable, Released, Row

\* Rewriting the open units of the current attempt.
LEMMA MarkedOK ==
    ASSUME NEW r, RowOK(r), NEW to \in UnitStatus
    PROVE  LET m == [r EXCEPT !.units = Marked(r, "sending", to)]
           IN  /\ Releasable(m)
               /\ m.status = r.status /\ m.cancel = r.cancel /\ m.delivered = r.delivered
               /\ \A u \in m.units : u \in r.units \/ (u.attempt = r.attempt /\ u.status = to /\ CurrentUnits(r) # {})
               /\ to # "sending" => \A u \in m.units : u.attempt = r.attempt => u.status # "sending"
<1> DEFINE us == Marked(r, "sending", to)
<1>1. /\ us \in SUBSET Unit
      /\ \A u \in us : /\ u.attempt <= r.attempt
                       /\ u \in r.units \/ (u.attempt = r.attempt /\ u.status = to /\ CurrentUnits(r) # {})
                       /\ to # "sending" => (u.attempt = r.attempt => u.status # "sending")
  BY DEF RowOK, JournalOK, Marked, Row, Unit, CurrentUnits
<1> HIDE DEF us
<1> DEFINE m == [r EXCEPT !.units = us]
<1>2. /\ m \in Row
      /\ m.units = us /\ m.attempt = r.attempt /\ m.max = r.max /\ m.bypass = r.bypass
      /\ m.status = r.status /\ m.cancel = r.cancel /\ m.delivered = r.delivered
  BY <1>1 DEF RowOK, Row
<1>3. \A u \in us : u.attempt < r.attempt => u.status = "rejected"
  BY <1>1 DEF RowOK, JournalOK, Row, Unit
<1>4. Releasable(m)
  BY <1>1, <1>2, <1>3 DEF Releasable, RowOK
<1> QED
  BY <1>1, <1>2, <1>4 DEF us

\* An expired row is a row again, and returns to the queue only when nothing of
\* it can have reached the chat.
LEMMA ExpireRowOK ==
    ASSUME NEW r, RowOK(r), r.status \in Active
    PROVE  RowOK(ExpireRow(r))
<1> DEFINE m == [r EXCEPT !.units = Marked(r, "sending", "unknown")]
<1>1. /\ Releasable(m)
      /\ m.status = r.status /\ m.delivered = r.delivered
      /\ \A u \in m.units :
            u \in r.units \/ (u.attempt = r.attempt /\ u.status = "unknown" /\ CurrentUnits(r) # {})
      /\ \A u \in m.units : u.attempt = r.attempt => u.status # "sending"
  BY MarkedOK
<1>2. m.attempt = r.attempt
  BY DEF RowOK, Row
<1> HIDE DEF m
<1>3. ExpiredStatus(m) \in Terminal \cup {"queued"}
  BY DEF ExpiredStatus
<1>4. ASSUME ExpiredStatus(m) = "queued"
      PROVE  /\ ~m.cancel
             /\ m.attempt < m.max
             /\ m.status = "delivering" => m.delivered = 0 /\ UnitsIn(m, "unknown") = {}
  BY <1>4, <1>1 DEF ExpiredStatus, Releasable, Row
<1>5. ASSUME ExpiredStatus(m) = "queued", NEW u \in m.units
      PROVE  u.status = "rejected"
  <2>1. CASE r.status = "running"
    BY <2>1, <1>1, <1>5 DEF RowOK, JournalOK
  <2>2. CASE r.status = "delivering"
    BY <2>2, <1>1, <1>2, <1>4, <1>5 DEF RowOK, JournalOK, Row, Unit, CurrentUnits, UnitsIn
  <2> QED
    BY <2>1, <2>2
<1>6. RowOK(Released(m, ExpiredStatus(m)))
  BY <1>1, <1>3, <1>4, <1>5, ReleasedOK
<1> QED
  BY <1>6 DEF m, ExpireRow

\* A claimed row starts an attempt with an empty journal of its own.
LEMMA ClaimRowOK ==
    ASSUME NEW r, NEW b, RowOK(r), r.status = "queued"
    PROVE  RowOK(ClaimRow(r, b))
<1> DEFINE code == r.code /\ b # NoBot
           c == [r EXCEPT !.status = "running", !.attempt = @ + 1, !.live = TRUE,
                          !.code = code, !.planned = 0, !.delivered = 0]
<1>0. r \in Row /\ c = ClaimRow(r, b)
  BY Zenon DEF RowOK, ClaimRow
<1>a. code \in BOOLEAN
  BY <1>0 DEF Row
<1> HIDE DEF code
<1>1. /\ c \in Row
      /\ c.status = "running" /\ c.attempt = r.attempt + 1 /\ c.max = r.max
      /\ c.bypass = r.bypass /\ c.units = r.units
  <2>1. /\ r.attempt + 1 \in Nat /\ "running" \in Status /\ TRUE \in BOOLEAN /\ 0 \in Nat
    BY <1>0 DEF Row
  <2> QED
    BY <1>0, <1>a, <2>1 DEF Row
<1> HIDE DEF c
<1>2. \A u \in c.units : u.attempt <= r.attempt /\ u.status = "rejected" /\ u.attempt \in Nat
  BY <1>1 DEF RowOK, JournalOK, Row, Unit
<1>3. CurrentUnits(c) = {}
  BY <1>1, <1>2 DEF CurrentUnits, RowOK, Row
<1>4. RowOK(c)
  BY <1>1, <1>2, <1>3 DEF RowOK, JournalOK, Row
<1> QED
  BY <1>0, <1>4

\* Settling an open unit of the current attempt.
LEMMA SettledOK ==
    ASSUME NEW r, RowOK(r), NEW st \in UnitStatus,
           NEW u \in r.units, u.attempt = r.attempt, u.status = "sending"
    PROVE  LET m == [r EXCEPT !.units = Settled(r, u, st)]
           IN  /\ Releasable(m)
               /\ m.cancel = r.cancel /\ m.attempt = r.attempt /\ m.max = r.max
               /\ m.delivered = r.delivered /\ m.planned = r.planned /\ m.bypass = r.bypass
               /\ m.status = r.status /\ m.live = r.live
               /\ m.units = Settled(r, u, st)
               /\ \A v \in m.units : (v \in r.units /\ v # u) \/ (v.attempt = r.attempt /\ v.status = st)
<1> DEFINE us == Settled(r, u, st)
<1>1. /\ us \in SUBSET Unit
      /\ \A v \in us : (v \in r.units /\ v # u) \/ (v.attempt = r.attempt /\ v.status = st)
  BY DEF RowOK, Settled, Row, Unit
<1> HIDE DEF us
<1> DEFINE m == [r EXCEPT !.units = us]
<1>2. /\ m \in Row
      /\ m.units = us /\ m.attempt = r.attempt /\ m.max = r.max /\ m.bypass = r.bypass
      /\ m.status = r.status /\ m.cancel = r.cancel /\ m.delivered = r.delivered
      /\ m.planned = r.planned /\ m.live = r.live
  BY <1>1 DEF RowOK, Row
<1>3. \A v \in us : v.attempt <= r.attempt /\ (v.attempt < r.attempt => v.status = "rejected")
  BY <1>1 DEF RowOK, JournalOK, Row, Unit
<1>4. Releasable(m)
  BY <1>2, <1>3 DEF Releasable, RowOK
<1> QED
  BY <1>1, <1>2, <1>4 DEF us

\* A delivery that stops at an open or a closed unit.
LEMMA StoppedOK ==
    ASSUME NEW r, RowOK(r), r.status = "delivering", NEW reason \in StopReason
    PROVE  LET m == [r EXCEPT !.units = IF reason = "cancel" /\ ~r.cancel THEN @
                                        ELSE Marked(r, "sending", "unknown")]
           IN  RowOK(Released(m, StoppedStatus(m, reason)))
<1>1. CASE reason = "cancel" /\ ~r.cancel
  <2>1. r = [r EXCEPT !.units = r.units] /\ Releasable(r)
    BY DEF RowOK, JournalOK, Releasable, Row
  <2>2. StoppedStatus(r, reason) \in Terminal
    BY <1>1 DEF StoppedStatus
  <2> QED
    BY <1>1, <2>1, <2>2, ReleasedOK
<1>2. CASE ~(reason = "cancel" /\ ~r.cancel)
  <2> DEFINE m == [r EXCEPT !.units = Marked(r, "sending", "unknown")]
  <2>1. /\ Releasable(m)
        /\ m.status = r.status /\ m.delivered = r.delivered /\ m.cancel = r.cancel
        /\ \A u \in m.units :
              u \in r.units \/ (u.attempt = r.attempt /\ u.status = "unknown" /\ CurrentUnits(r) # {})
        /\ \A u \in m.units : u.attempt = r.attempt => u.status # "sending"
    BY MarkedOK
  <2>2. m.attempt = r.attempt
    BY DEF RowOK, Row
  <2> HIDE DEF m
  <2>3. StoppedStatus(m, reason) \in Terminal \cup {"queued"}
    BY DEF StoppedStatus
  <2>4. ASSUME StoppedStatus(m, reason) = "queued"
        PROVE  /\ ~m.cancel
               /\ m.attempt < m.max
               /\ m.delivered = 0
               /\ UnitsIn(m, "unknown") = {}
    BY <2>4, <2>1 DEF StoppedStatus, Releasable, Row
  <2>5. ASSUME StoppedStatus(m, reason) = "queued", NEW u \in m.units
        PROVE  u.status = "rejected"
    BY <2>1, <2>2, <2>4, <2>5 DEF RowOK, JournalOK, Row, Unit, CurrentUnits, UnitsIn
  <2>6. RowOK(Released(m, StoppedStatus(m, reason)))
    BY <2>1, <2>3, <2>4, <2>5, ReleasedOK
  <2>7. m = [r EXCEPT !.units = IF reason = "cancel" /\ ~r.cancel THEN @
                                ELSE Marked(r, "sending", "unknown")]
    BY <1>2 DEF m
  <2> QED
    BY <2>6, <2>7
<1> QED
  BY <1>1, <1>2

----------------------------------------------------------------------------
(* Facts about the table.                                                  *)

Inv == RowsOK /\ ready \in Seq(Op)

\* Writing a good row keeps the invariant.
LEMMA CommitOK ==
    ASSUME Inv, NEW o \in Op, NEW r, NEW d, RowOK(r), Commit(o, r, d)
    PROVE  Inv'
  BY DEF Inv, RowsOK, RowOK, Commit

LEMMA InitInv == Init => Inv
<1> SUFFICES ASSUME Init PROVE Inv
  OBVIOUS
<1>1. RowOK(AbsentRow)
  BY ConstantsAssumption DEF RowOK, JournalOK, AbsentRow, Row, CurrentUnits
<1>2. AbsentRow \in Row
  BY <1>1 DEF RowOK
<1> QED
  BY <1>1, <1>2 DEF Init, Inv, RowsOK

\* A claimant of a running row.
LEMMA RunningSteps ==
    ASSUME Inv, NEW o \in Op, NEW a \in Nat,
           \/ Complete(<<o, a>>) \/ AckCancel(<<o, a>>)
           \/ \E retryable, code \in BOOLEAN : Fail(<<o, a>>, retryable, code)
           \/ BeginDelivery(<<o, a>>)
           \/ \E total \in 1..MaxArtifacts : BeginBatch(<<o, a>>, total)
    PROVE  Inv'
<1> DEFINE r == operations[o]
<1>1. RowOK(r) /\ r.status = "running"
  BY DEF Inv, RowsOK, Complete, AckCancel, Fail, BeginDelivery, BeginBatch, Running
<1>2. r \in Row /\ Releasable(r) /\ \A u \in r.units : u.status = "rejected"
  BY <1>1 DEF RowOK, JournalOK, Releasable
<1>3. CASE Complete(<<o, a>>) \/ AckCancel(<<o, a>>)
  <2>1. PICK st \in Terminal : Commit(o, Released(r, st), RetryDelay)
    BY <1>3 DEF Complete, AckCancel
  <2> QED
    BY <2>1, <1>2, ReleasedOK, CommitOK
<1>4. ASSUME NEW retryable \in BOOLEAN, NEW code \in BOOLEAN, Fail(<<o, a>>, retryable, code)
      PROVE  Inv'
  <2> DEFINE st == IF r.cancel THEN "cancelled"
                   ELSE IF retryable /\ r.attempt < r.max THEN "queued" ELSE "failed"
             shown == code /\ ~r.cancel
             f == [Released(r, st) EXCEPT !.code = shown]
  <2>1. RowOK(Released(r, st))
    BY <1>2, ReleasedOK
  <2>2. shown \in BOOLEAN
    BY <1>2 DEF Row
  <2>3. Commit(o, f, RetryDelay)
    BY <1>4 DEF Fail
  <2> HIDE DEF st, shown
  <2>4. RowOK(f)
    BY <2>1, <2>2 DEF RowOK, JournalOK, CurrentUnits, Row
  <2> QED
    BY <2>3, <2>4, CommitOK
<1>5. CASE BeginDelivery(<<o, a>>)
  <2>1. RowOK([r EXCEPT !.status = "delivering"])
    BY <1>1 DEF RowOK, JournalOK, CurrentUnits, Row
  <2> QED
    BY <1>5, <2>1, CommitOK DEF BeginDelivery
<1>6. ASSUME NEW total \in 1..MaxArtifacts, BeginBatch(<<o, a>>, total)
      PROVE  Inv'
  <2> DEFINE d == [r EXCEPT !.status = "delivering", !.planned = total, !.delivered = 0]
  <2>1. total \in Nat
    BY ConstantsAssumption
  <2>2. /\ d \in Row
        /\ d.status = "delivering" /\ d.attempt = r.attempt /\ d.max = r.max
        /\ d.bypass = r.bypass /\ d.units = r.units
    BY <1>2, <2>1 DEF Row
  <2>3. Commit(o, d, RetryDelay)
    BY <1>6 DEF BeginBatch
  <2> HIDE DEF d
  <2>4. RowOK(d)
    BY <1>1, <2>2 DEF RowOK, JournalOK, CurrentUnits
  <2> QED
    BY <2>3, <2>4, CommitOK
<1> QED
  BY <1>3, <1>4, <1>5, <1>6

\* A claimant of a delivering row that ends the delivery without naming a unit.
LEMMA StopSteps ==
    ASSUME Inv, NEW o \in Op, NEW a \in Nat,
           \/ CompleteDelivery(<<o, a>>) \/ DeliveryUnknown(<<o, a>>) \/ RejectDelivery(<<o, a>>)
           \/ \E reason \in StopReason : StopBatch(<<o, a>>, reason)
    PROVE  Inv'
<1> DEFINE r == operations[o]
<1>1. RowOK(r) /\ r.status = "delivering"
  BY DEF Inv, RowsOK, CompleteDelivery, DeliveryUnknown, RejectDelivery, EndDelivery, StopBatch, Delivering
<1>2. CASE CompleteDelivery(<<o, a>>) \/ DeliveryUnknown(<<o, a>>) \/ RejectDelivery(<<o, a>>)
  <2>1. PICK st \in Terminal : Commit(o, Released(r, st), RetryDelay)
    BY <1>2 DEF CompleteDelivery, DeliveryUnknown, RejectDelivery, EndDelivery
  <2>2. Releasable(r)
    BY <1>1 DEF RowOK, JournalOK, Releasable
  <2> QED
    BY <2>1, <2>2, ReleasedOK, CommitOK
<1>3. ASSUME NEW reason \in StopReason, StopBatch(<<o, a>>, reason)
      PROVE  Inv'
  BY <1>1, <1>3, StoppedOK, CommitOK DEF StopBatch
<1> QED
  BY <1>2, <1>3

\* Opening a unit.
LEMMA BeginUnitStep ==
    ASSUME Inv, NEW o \in Op, NEW a \in Nat, NEW k \in 0..(MaxArtifacts - 1), NEW n \in 1..MaxUnit,
           BeginUnit(<<o, a>>, k, n)
    PROVE  Inv'
<1> DEFINE r == operations[o]
           u == [attempt |-> a, ordinal |-> k, count |-> n, status |-> "sending"]
           us == r.units \cup {u}
           b == [r EXCEPT !.units = us]
<1>1. RowOK(r) /\ r \in Row /\ r.status = "delivering" /\ r.attempt = a
  BY DEF Inv, RowsOK, RowOK, BeginUnit, MayBeginUnit, Delivering, Fenced
<1>2. u \in Unit /\ u.attempt = a /\ u.status = "sending"
  BY ConstantsAssumption DEF Unit
<1>3. Commit(o, b, RetryDelay)
  BY DEF BeginUnit
<1> HIDE DEF u
<1>4. us \in SUBSET Unit
  BY <1>1, <1>2 DEF Row
<1>5. /\ b \in Row
      /\ b.units = us /\ b.attempt = r.attempt /\ b.max = r.max /\ b.bypass = r.bypass
      /\ b.status = r.status /\ b.delivered = r.delivered
  BY <1>1, <1>4 DEF Row
<1> HIDE DEF b
<1>6. /\ \A v \in us : v \in r.units \/ (v.attempt = r.attempt /\ v.status = "sending")
      /\ b.delivered = 0 => \A v \in CurrentUnits(r) : v.status = "sending"
      /\ \A v \in CurrentUnits(b) : (v \in CurrentUnits(r) /\ v.status = "sent") \/ v = u
  BY <1>1, <1>2, <1>5 DEF RowOK, JournalOK, CurrentUnits, BeginUnit, MayBeginUnit
<1>7. JournalOK(b)
  BY <1>1, <1>2, <1>5, <1>6 DEF RowOK, JournalOK, Row
<1>8. RowOK(b)
  BY <1>1, <1>5, <1>7 DEF RowOK
<1> QED
  BY <1>3, <1>8, CommitOK

\* Settling a unit.
LEMMA SettleSteps ==
    ASSUME Inv, NEW o \in Op, NEW a \in Nat, NEW k \in 0..(MaxArtifacts - 1),
           \/ CompleteUnit(<<o, a>>, k)
           \/ \E after \in 0..1 : RejectUnit(<<o, a>>, k, after)
           \/ UnknownUnit(<<o, a>>, k)
    PROVE  Inv'
<1> DEFINE r == operations[o]
           M(u, st) == [r EXCEPT !.units = Settled(r, u, st)]
<1>1. RowOK(r) /\ r \in Row
  BY DEF Inv, RowsOK, RowOK
<1>2. ASSUME NEW u, OpenUnit(<<o, a>>, k, u)
      PROVE  /\ r.status = "delivering"
             /\ u \in r.units /\ u.attempt = r.attempt /\ u.status = "sending"
  BY <1>2 DEF OpenUnit, Delivering, UnitsIn, CurrentUnits
<1>3. CASE UnknownUnit(<<o, a>>, k)
  <2>1. PICK u \in r.units : /\ OpenUnit(<<o, a>>, k, u)
                             /\ Commit(o, Released(M(u, "unknown"), "delivery_unknown"), RetryDelay)
    BY <1>3 DEF UnknownUnit
  <2>2. Releasable(M(u, "unknown"))
    BY <1>1, <1>2, <2>1, SettledOK
  <2> QED
    BY <2>1, <2>2, ReleasedOK, CommitOK
<1>4. ASSUME NEW after \in 0..1, RejectUnit(<<o, a>>, k, after)
      PROVE  Inv'
  <2>1. PICK u \in r.units :
            /\ OpenUnit(<<o, a>>, k, u)
            /\ Commit(o, Released(M(u, "rejected"), RejectedStatus(r, after)), Max({RetryDelay, after}))
    BY <1>4 DEF RejectUnit
  <2> DEFINE m == M(u, "rejected")
             st == RejectedStatus(r, after)
  <2>2. /\ Releasable(m)
        /\ m.cancel = r.cancel /\ m.attempt = r.attempt /\ m.max = r.max
        /\ \A v \in m.units : (v \in r.units /\ v # u) \/ (v.attempt = r.attempt /\ v.status = "rejected")
    BY <1>1, <1>2, <2>1, SettledOK
  <2>3. st \in Terminal \cup {"queued"} /\ (st = "queued" => ~r.cancel /\ r.attempt < r.max /\ r.delivered = 0)
    BY <1>1 DEF RejectedStatus, Row
  <2> HIDE DEF m, st
  <2>4. st = "queued" => \A v \in m.units : v.status = "rejected"
    \* The other units of the attempt are confirmed, and with nothing delivered there are none.
    BY <1>1, <1>2, <2>1, <2>2, <2>3 DEF RowOK, JournalOK, CurrentUnits, Row, Unit
  <2>5. RowOK(Released(m, st))
    BY <2>2, <2>3, <2>4, ReleasedOK
  <2> QED
    BY <2>1, <2>5, CommitOK DEF m, st
<1>5. CASE CompleteUnit(<<o, a>>, k)
  <2>1. PICK u \in r.units :
            LET row == [r EXCEPT !.units = Settled(r, u, "sent"), !.delivered = @ + u.count]
            IN  /\ OpenUnit(<<o, a>>, k, u)
                /\ Commit(o, IF row.delivered = r.planned THEN Released(row, "succeeded") ELSE row,
                          RetryDelay)
    BY <1>5 DEF CompleteUnit
  <2> DEFINE m == M(u, "sent")
             row == [r EXCEPT !.units = Settled(r, u, "sent"), !.delivered = @ + u.count]
  <2>2. /\ Releasable(m)
        /\ m.units = Settled(r, u, "sent") /\ m.attempt = r.attempt /\ m.max = r.max
        /\ m.bypass = r.bypass /\ m.status = r.status /\ m.live = r.live
        /\ \A v \in m.units : (v \in r.units /\ v # u) \/ (v.attempt = r.attempt /\ v.status = "sent")
    BY <1>1, <1>2, <2>1, SettledOK
  <2>3. u.count \in Nat /\ u.count > 0 /\ r.delivered \in Nat
    BY <1>1 DEF Row, Unit
  <2>4. row = [m EXCEPT !.delivered = r.delivered + u.count]
    BY <1>1 DEF Row
  <2> HIDE DEF m
  <2>5. /\ row \in Row
        /\ row.units = m.units /\ row.attempt = r.attempt /\ row.max = r.max /\ row.bypass = r.bypass
        /\ row.status = "delivering" /\ row.delivered > 0
    <3> DEFINE d == r.delivered + u.count
    <3>1. m \in Row /\ r.status = "delivering" /\ d \in Nat /\ d > 0
      BY <1>2, <2>1, <2>2, <2>3 DEF Releasable
    <3>2. row = [m EXCEPT !.delivered = d]
      BY <2>4
    <3> HIDE DEF row, d
    <3> QED
      BY <2>2, <3>1, <3>2 DEF Row
  <2> HIDE DEF row
  <2>6. Releasable(row)
    BY <1>1, <2>2, <2>5 DEF Releasable
  <2>7. \A v \in CurrentUnits(row) : v.status = "sent"
    BY <1>1, <1>2, <2>1, <2>2, <2>5 DEF RowOK, JournalOK, CurrentUnits
  <2>8. RowOK(row)
    BY <2>5, <2>6, <2>7 DEF RowOK, JournalOK, Releasable
  <2>9. RowOK(Released(row, "succeeded"))
    BY <2>6, ReleasedOK
  <2>10. Commit(o, IF row.delivered = r.planned THEN Released(row, "succeeded") ELSE row, RetryDelay)
    BY <2>1 DEF row
  <2> QED
    BY <2>8, <2>9, <2>10, CommitOK
<1> QED
  BY <1>3, <1>4, <1>5

\* The refused cache entry: the only unit is rejected before the row is queued.
LEMMA RequeueStep ==
    ASSUME Inv, NEW o \in Op, NEW a \in Nat, RequeueInvalidCache(<<o, a>>)
    PROVE  Inv'
<1> DEFINE r == operations[o]
<1>1. RowOK(r) /\ r \in Row
  BY DEF Inv, RowsOK, RowOK
<1>2. PICK u \in r.units :
          /\ OpenUnit(<<o, a>>, 0, u)
          /\ ~r.cancel
          /\ ~r.bypass
          /\ \A v \in CurrentUnits(r) \ {u} : v.status \notin {"sending", "unknown", "sent"}
          /\ Commit(o, [Released([r EXCEPT !.units = Settled(r, u, "rejected")], "queued")
                        EXCEPT !.max = @ + 1, !.bypass = TRUE, !.planned = 0], 0)
  BY DEF RequeueInvalidCache, MayRequeue
<1> DEFINE m == [r EXCEPT !.units = Settled(r, u, "rejected")]
           q == [Released(m, "queued") EXCEPT !.max = @ + 1, !.bypass = TRUE, !.planned = 0]
<1>3. u.attempt = r.attempt /\ u.status = "sending"
  BY <1>2 DEF OpenUnit, Delivering, UnitsIn, CurrentUnits
<1>4. /\ Releasable(m)
      /\ m.cancel = r.cancel /\ m.attempt = r.attempt /\ m.max = r.max
      /\ \A v \in m.units : (v \in r.units /\ v # u) \/ (v.attempt = r.attempt /\ v.status = "rejected")
  BY <1>1, <1>3, SettledOK
<1>5. Commit(o, q, 0)
  BY <1>2
<1> HIDE DEF m
<1>6. \A v \in m.units : v.status = "rejected"
  BY <1>1, <1>2, <1>4 DEF RowOK, JournalOK, CurrentUnits, Row, Unit
<1>7. /\ q \in Row
      /\ q.status = "queued" /\ q.live = FALSE /\ q.cancel = r.cancel /\ q.attempt = r.attempt
      /\ q.max = r.max + 1 /\ q.bypass = TRUE /\ q.units = m.units
  <2>1. m \in Row /\ m.max + 1 \in Nat
    BY <1>4 DEF Releasable, Row
  <2>2. q = [m EXCEPT !.status = "queued", !.live = FALSE, !.max = m.max + 1,
                      !.bypass = TRUE, !.planned = 0]
    BY <2>1 DEF Released, Row
  <2> HIDE DEF q
  <2> QED
    BY <1>4, <2>1, <2>2 DEF Row
<1> HIDE DEF q
<1>8. RowOK(q)
  BY <1>1, <1>2, <1>4, <1>6, <1>7, ConstantsAssumption DEF RowOK, JournalOK, Releasable, Row
<1> QED
  BY <1>5, <1>8, CommitOK

\* The steps of owners and of the clock.
LEMMA OwnerSteps ==
    ASSUME Inv, NEW o \in Op, Admit(o) \/ RequestCancel(o) \/ LeaseExpires(o) \/ MakeAvailable(o)
    PROVE  Inv'
<1> DEFINE r == operations[o]
<1>1. RowOK(r) /\ r \in Row
  BY DEF Inv, RowsOK, RowOK
<1>2. CASE Admit(o)
  <2> DEFINE n == [AbsentRow EXCEPT !.status = "queued"]
  <2>1. /\ n \in Row
        /\ n.status = "queued" /\ n.cancel = FALSE /\ n.attempt = 0 /\ n.max = MaxAttempts
        /\ n.live = FALSE /\ n.bypass = FALSE /\ n.units = {}
    BY ConstantsAssumption DEF AbsentRow, Row
  <2>2. Commit(o, n, 0)
    BY <1>2 DEF Admit
  <2> HIDE DEF n
  <2>3. RowOK(n)
    BY <2>1, ConstantsAssumption DEF RowOK, JournalOK
  <2> QED
    BY <2>2, <2>3, CommitOK
<1>3. CASE RequestCancel(o)
  <2> DEFINE st == IF r.status = "queued" THEN "cancelled" ELSE r.status
             c == [r EXCEPT !.cancel = TRUE, !.status = st]
  <2>1. operations' = [operations EXCEPT ![o] = c]
    BY <1>3, <1>1 DEF RequestCancel, Inv, RowsOK, Row
  <2>2. st \in Terminal \cup Active
    BY <1>3 DEF RequestCancel
  <2>3. /\ c \in Row
        /\ c.status = st /\ c.live = r.live /\ c.attempt = r.attempt /\ c.max = r.max
        /\ c.bypass = r.bypass /\ c.units = r.units /\ c.delivered = r.delivered
    BY <1>1, <2>2 DEF Row
  <2> HIDE DEF c
  <2>4. RowOK(c)
    BY <1>1, <2>2, <2>3 DEF RowOK, JournalOK, CurrentUnits
  <2>5. ready' \in Seq(Op)
    <3>1. CASE ready' = ready
      BY <3>1 DEF Inv
    <3>2. ASSUME NEW i \in DOMAIN ready, ready' = RemoveAt(ready, i)
          PROVE  ready' \in Seq(Op)
      BY <3>2 DEF RemoveAt, Inv
    <3> QED
      BY <1>3, <3>1, <3>2 DEF RequestCancel
  <2> QED
    BY <2>1, <2>3, <2>4, <2>5 DEF Inv, RowsOK
<1>4. CASE LeaseExpires(o)
  <2> DEFINE e == [r EXCEPT !.live = FALSE]
  <2>1. operations' = [operations EXCEPT ![o] = e] /\ ready' = ready
    BY <1>4 DEF LeaseExpires
  <2>2. r \in Row
    BY <1>1 DEF RowOK
  <2>3. /\ e \in Row /\ ~e.live
        /\ e.status = r.status /\ e.cancel = r.cancel /\ e.attempt = r.attempt
        /\ e.max = r.max /\ e.bypass = r.bypass /\ e.units = r.units
        /\ e.delivered = r.delivered
    BY <2>2 DEF Row
  <2> HIDE DEF e
  <2>4. JournalOK(e)
    BY <1>1, <2>3 DEF RowOK, JournalOK, CurrentUnits
  <2>5. RowOK(e)
    BY <1>1, <2>2, <2>3, <2>4 DEF RowOK
  <2> QED
    BY <2>1, <2>3, <2>5 DEF Inv, RowsOK
<1>5. CASE MakeAvailable(o)
  BY <1>5 DEF MakeAvailable, Inv, RowsOK, RowOK, JournalOK, CurrentUnits
<1> QED
  BY <1>2, <1>3, <1>4, <1>5

\* A claim, with the expiry batch that precedes it.
LEMMA ClaimStep ==
    ASSUME Inv, NEW b, NEW o \in Op \cup {NoOp}, Claim(b, o)
    PROVE  Inv'
<1> DEFINE Table(S) == [p \in Op |-> IF p \in S THEN ExpireRow(operations[p]) ELSE operations[p]]
           Back(S) == {p \in S : Table(S)[p].status = "queued"}
<1>1. PICK S \in SUBSET Expired :
          \E q \in IF RetryDelay = 0 THEN {ready \o s : s \in SetToSeqs(Back(S))} ELSE {ready} :
              \/ operations' = Table(S) /\ ready' = q
              \/ /\ o \in Op
                 /\ Claimable(Table(S), b, o)
                 /\ operations' = [Table(S) EXCEPT ![o] = ClaimRow(Table(S)[o], b)]
                 /\ \E i \in DOMAIN q : ready' = RemoveAt(q, i)
  BY DEF Claim, kSubset
<1>2. PICK q \in IF RetryDelay = 0 THEN {ready \o s : s \in SetToSeqs(Back(S))} ELSE {ready} :
              \/ operations' = Table(S) /\ ready' = q
              \/ /\ o \in Op
                 /\ Claimable(Table(S), b, o)
                 /\ operations' = [Table(S) EXCEPT ![o] = ClaimRow(Table(S)[o], b)]
                 /\ \E i \in DOMAIN q : ready' = RemoveAt(q, i)
  BY <1>1
<1>3. q \in Seq(Op)
  <2>1. CASE RetryDelay = 0
    <3>1. PICK s \in SetToSeqs(Back(S)) : q = ready \o s
      BY <1>2, <2>1
    <3>2. Back(S) \subseteq Op
      BY DEF Expired
    <3>3. IsFiniteSet(Back(S)) /\ Cardinality(Back(S)) \in Nat
      BY <3>2, ConstantsAssumption, FS_Subset, FS_CardinalityType
    <3> HIDE DEF Back
    <3>4. s \in [1..Cardinality(Back(S)) -> Op]
      BY <3>1, <3>2 DEF SetToSeqs
    <3>5. s \in Seq(Op)
      BY <3>3, <3>4
    <3> QED
      BY <3>1, <3>5 DEF Inv
  <2>2. CASE RetryDelay # 0
    BY <1>2, <2>2 DEF Inv
  <2> QED
    BY <2>1, <2>2
<1>4. \A p \in Op : RowOK(Table(S)[p])
  BY ExpireRowOK DEF Inv, RowsOK, Expired
<1> HIDE DEF Table
<1>5. Table(S) \in [Op -> Row]
  BY <1>4 DEF Table, RowOK
<1>6. CASE operations' = Table(S) /\ ready' = q
  BY <1>3, <1>4, <1>5, <1>6 DEF Inv, RowsOK
<1>7. CASE /\ o \in Op
           /\ Claimable(Table(S), b, o)
           /\ operations' = [Table(S) EXCEPT ![o] = ClaimRow(Table(S)[o], b)]
           /\ \E i \in DOMAIN q : ready' = RemoveAt(q, i)
  <2>1. RowOK(ClaimRow(Table(S)[o], b))
    BY <1>4, <1>7, ClaimRowOK DEF Claimable
  <2>2. ready' \in Seq(Op)
    BY <1>3, <1>7 DEF RemoveAt
  <2> QED
    BY <1>4, <1>5, <1>7, <2>1, <2>2 DEF Inv, RowsOK, RowOK
<1> QED
  BY <1>2, <1>6, <1>7

----------------------------------------------------------------------------
LEMMA NextInv == Inv /\ [Next]_vars => Inv'
<1> SUFFICES ASSUME Inv, [Next]_vars PROVE Inv'
  OBVIOUS
<1>1. ASSUME NEW o \in Op, Admit(o) \/ RequestCancel(o) \/ LeaseExpires(o) \/ MakeAvailable(o)
      PROVE  Inv'
  BY <1>1, OwnerSteps
<1>2. ASSUME NEW b \in Bot \cup {NoBot}, NEW o \in Op \cup {NoOp}, Claim(b, o)
      PROVE  Inv'
  BY <1>2, ClaimStep
<1>3. ASSUME NEW o \in Op, NEW a \in 1..operations[o].attempt, Claimant(<<o, a>>)
      PROVE  Inv'
  <2>1. a \in Nat
    BY DEF Inv, RowsOK, Row
  <2> QED
    BY <1>3, <2>1, RunningSteps, StopSteps, BeginUnitStep, SettleSteps, RequeueStep DEF Claimant
<1>4. CASE UNCHANGED vars
  BY <1>4 DEF vars, Inv, RowsOK, RowOK, JournalOK, CurrentUnits
<1> QED
  BY <1>1, <1>2, <1>3, <1>4 DEF Next

\* Every reachable table satisfies the inductive invariant.
THEOREM Invariance == Spec => []Inv
  BY InitInv, NextInv, PTL DEF Spec

\* Type correctness: every status stays one Store::get can decode.
THEOREM TypeCorrect == Spec => []TypeOK
<1>1. Inv => TypeOK
  BY DEF Inv, RowsOK, TypeOK
<1> QED
  BY <1>1, Invariance, PTL

\* No operation is queued or run again once a unit of it may have reached the
\* chat, whatever the order of claims, expiries, cancellations and late calls.
THEOREM NeverResends == Spec => []NoResend
<1>1. Inv => NoResend
  BY DEF Inv, RowsOK, RowOK, JournalOK, NoResend
<1> QED
  BY <1>1, Invariance, PTL

\* No queued row is stuck.
THEOREM NeverStuck == Spec => []QueuedIsClaimable
<1>1. Inv => QueuedIsClaimable
  BY DEF Inv, RowsOK, RowOK, QueuedIsClaimable
<1> QED
  BY <1>1, Invariance, PTL

\* The number of attempts is bounded by the policy and one cache bypass.
THEOREM BoundedAttempts == Spec => []AttemptsBounded
<1>1. Inv => AttemptsBounded
  BY DEF Inv, RowsOK, RowOK, AttemptsBounded
<1> QED
  BY <1>1, Invariance, PTL

----------------------------------------------------------------------------
(* What a step may do to a row.                                            *)

\* Row x follows row r: the attempt and the cancellation are kept.
Keeps(r, x) == x.attempt = r.attempt /\ x.cancel = r.cancel

\* Writing columns of a row that are neither.
LEMMA KeepsColumns ==
    ASSUME NEW r \in Row, NEW st, NEW us, NEW n
    PROVE  /\ Keeps(r, Released(r, st))
           /\ Keeps(r, Released([r EXCEPT !.units = us], st))
           /\ Keeps(r, [r EXCEPT !.units = us])
           /\ Keeps(r, [r EXCEPT !.units = us, !.delivered = n])
           /\ Keeps(r, Released([r EXCEPT !.units = us, !.delivered = n], st))
  BY DEF Keeps, Released, Row

\* A claimant writes one active row and keeps its attempt and its cancellation.
LEMMA ClaimantKeeps ==
    ASSUME Inv, NEW o \in Op, NEW a \in Nat, Claimant(<<o, a>>)
    PROVE  /\ operations[o].status \in Active
           /\ \E x : operations' = [operations EXCEPT ![o] = x] /\ Keeps(operations[o], x)
<1> DEFINE r == operations[o]
           Goal == /\ r.status \in Active
                   /\ \E x : operations' = [operations EXCEPT ![o] = x] /\ Keeps(r, x)
<1>1. r \in Row
  BY DEF Inv, RowsOK
<1>2. CASE Complete(<<o, a>>) \/ AckCancel(<<o, a>>)
  <2>1. PICK st : r.status \in Active /\ Commit(o, Released(r, st), RetryDelay)
    BY <1>2 DEF Complete, AckCancel, Running
  <2> QED
    BY <1>1, <2>1, KeepsColumns DEF Commit
<1>3. ASSUME NEW retryable \in BOOLEAN, NEW code \in BOOLEAN, Fail(<<o, a>>, retryable, code)
      PROVE  Goal
  <2>1. PICK st, c : r.status \in Active /\ Commit(o, [Released(r, st) EXCEPT !.code = c], RetryDelay)
    BY <1>3 DEF Fail, Running
  <2>2. Keeps(r, [Released(r, st) EXCEPT !.code = c])
    BY <1>1 DEF Keeps, Released, Row
  <2> QED
    BY <2>1, <2>2 DEF Commit
<1>4. CASE BeginDelivery(<<o, a>>)
  <2>1. Keeps(r, [r EXCEPT !.status = "delivering"])
    BY <1>1 DEF Keeps, Row
  <2> QED
    BY <1>4, <2>1 DEF BeginDelivery, Running, Commit
<1>5. CASE CompleteDelivery(<<o, a>>) \/ DeliveryUnknown(<<o, a>>) \/ RejectDelivery(<<o, a>>)
  <2>1. PICK st : r.status \in Active /\ Commit(o, Released(r, st), RetryDelay)
    BY <1>5 DEF CompleteDelivery, DeliveryUnknown, RejectDelivery, EndDelivery, Delivering
  <2> QED
    BY <1>1, <2>1, KeepsColumns DEF Commit
<1>6. ASSUME NEW total \in 1..MaxArtifacts, BeginBatch(<<o, a>>, total)
      PROVE  Goal
  <2>1. Keeps(r, [r EXCEPT !.status = "delivering", !.planned = total, !.delivered = 0])
    BY <1>1 DEF Keeps, Row
  <2> QED
    BY <1>6, <2>1 DEF BeginBatch, Running, Commit
<1>7. ASSUME NEW k, NEW n, BeginUnit(<<o, a>>, k, n)
      PROVE  Goal
  <2> DEFINE us == r.units \cup {[attempt |-> a, ordinal |-> k, count |-> n, status |-> "sending"]}
  <2>1. r.status \in Active /\ Commit(o, [r EXCEPT !.units = us], RetryDelay)
    BY <1>7 DEF BeginUnit, MayBeginUnit, Delivering
  <2> HIDE DEF us
  <2> QED
    BY <1>1, <2>1, KeepsColumns DEF Commit
<1>8. ASSUME NEW k, CompleteUnit(<<o, a>>, k)
      PROVE  Goal
  <2> DEFINE Sent(u) == [r EXCEPT !.units = Settled(r, u, "sent"), !.delivered = r.delivered + u.count]
  <2>1. PICK u \in r.units :
            /\ OpenUnit(<<o, a>>, k, u)
            /\ Commit(o, IF Sent(u).delivered = r.planned THEN Released(Sent(u), "succeeded") ELSE Sent(u),
                      RetryDelay)
    BY <1>8 DEF CompleteUnit
  <2>2. Keeps(r, Sent(u)) /\ Keeps(r, Released(Sent(u), "succeeded"))
    BY <1>1, KeepsColumns
  <2>3. r.status \in Active
    BY <2>1 DEF OpenUnit, Delivering
  <2> HIDE DEF Sent
  <2> QED
    BY <2>1, <2>2, <2>3 DEF Commit
<1>9. ASSUME NEW k, UnknownUnit(<<o, a>>, k) \/ \E after \in 0..1 : RejectUnit(<<o, a>>, k, after)
      PROVE  Goal
  <2> DEFINE M(u, st) == [r EXCEPT !.units = Settled(r, u, st)]
  <2>1. PICK u \in r.units :
            /\ OpenUnit(<<o, a>>, k, u)
            /\ \/ Commit(o, Released(M(u, "unknown"), "delivery_unknown"), RetryDelay)
               \/ \E after \in 0..1 :
                     Commit(o, Released(M(u, "rejected"), RejectedStatus(r, after)), Max({RetryDelay, after}))
    BY <1>9 DEF UnknownUnit, RejectUnit
  <2>2. \A to, st : Keeps(r, Released(M(u, to), st))
    BY <1>1, KeepsColumns
  <2>3. r.status \in Active
    BY <2>1 DEF OpenUnit, Delivering
  <2> HIDE DEF M
  <2> QED
    BY <2>1, <2>2, <2>3 DEF Commit
<1>10. ASSUME NEW reason \in StopReason, StopBatch(<<o, a>>, reason)
       PROVE  Goal
  <2> DEFINE us == IF reason = "cancel" /\ ~r.cancel THEN r.units ELSE Marked(r, "sending", "unknown")
             m == [r EXCEPT !.units = us]
  <2>1. r.status \in Active /\ Commit(o, Released(m, StoppedStatus(m, reason)), RetryDelay)
    BY <1>10 DEF StopBatch, Delivering
  <2>2. \A st : Keeps(r, Released(m, st))
    BY <1>1, KeepsColumns
  <2> HIDE DEF m
  <2> QED
    BY <2>1, <2>2 DEF Commit
<1>11. CASE RequeueInvalidCache(<<o, a>>)
  <2> DEFINE Back(u) == [Released([r EXCEPT !.units = Settled(r, u, "rejected")], "queued")
                         EXCEPT !.max = @ + 1, !.bypass = TRUE, !.planned = 0]
  <2>1. PICK u \in r.units : r.status \in Active /\ Commit(o, Back(u), 0)
    BY <1>11 DEF RequeueInvalidCache, MayRequeue, OpenUnit, Delivering
  <2>2. Keeps(r, Back(u))
    BY <1>1 DEF Keeps, Released, Row
  <2> HIDE DEF Back
  <2> QED
    BY <2>1, <2>2 DEF Commit
<1> HIDE DEF Goal
<1>12. Goal
  BY <1>2, <1>3, <1>4, <1>5, <1>6, <1>7, <1>8, <1>9, <1>10, <1>11 DEF Claimant, Goal
<1> QED
  BY <1>12 DEF Goal

\* Expiring a lease keeps both as well.
LEMMA ExpireKeeps ==
    ASSUME NEW r \in Row
    PROVE  Keeps(r, ExpireRow(r))
  BY KeepsColumns DEF ExpireRow

\* What a step may do to the row of operation o.
FinalRow(o) ==
    /\ operations[o].cancel => operations'[o].cancel /\ operations'[o].attempt = operations[o].attempt
    /\ operations[o].status \in Terminal => operations'[o] = operations[o]
    /\ operations'[o].attempt >= operations[o].attempt

LEMMA StepIsFinal ==
    ASSUME Inv, [Next]_vars, NEW o \in Op
    PROVE  FinalRow(o)
<1>1. operations \in [Op -> Row] /\ \A p \in Op : operations[p].attempt \in Nat
  BY DEF Inv, RowsOK, Row
<1>2. ASSUME NEW p \in Op, Admit(p) \/ RequestCancel(p) \/ LeaseExpires(p) \/ MakeAvailable(p)
      PROVE  FinalRow(o)
  <2>1. operations[p].status = "absent" => ~operations[p].cancel /\ operations[p].attempt = 0
    BY DEF Inv, RowsOK, RowOK
  <2>2. CASE Admit(p)
    BY <1>1, <2>1, <2>2 DEF Admit, Commit, FinalRow, AbsentRow
  <2>3. CASE RequestCancel(p)
    BY <1>1, <2>3 DEF RequestCancel, FinalRow, Row
  <2>4. CASE LeaseExpires(p)
    BY <1>1, <2>4 DEF LeaseExpires, FinalRow, Row
  <2>5. CASE MakeAvailable(p)
    BY <1>1, <2>5 DEF MakeAvailable, FinalRow
  <2> QED
    BY <1>2, <2>2, <2>3, <2>4, <2>5
<1>3. ASSUME NEW b \in Bot \cup {NoBot}, NEW p \in Op \cup {NoOp}, Claim(b, p)
      PROVE  FinalRow(o)
  <2> DEFINE Table(S) == [q \in Op |-> IF q \in S THEN ExpireRow(operations[q]) ELSE operations[q]]
  <2>1. PICK S \in SUBSET Expired :
            \/ operations' = Table(S)
            \/ /\ p \in Op
               /\ Claimable(Table(S), b, p)
               /\ operations' = [Table(S) EXCEPT ![p] = ClaimRow(Table(S)[p], b)]
    BY <1>3 DEF Claim, kSubset
  <2>2. /\ Keeps(operations[o], Table(S)[o])
        /\ operations[o].status \in Terminal => Table(S)[o] = operations[o]
    BY <1>1, ExpireKeeps DEF Keeps, Expired
  <2>3. Table(S)[o] \in Row
    BY ExpireRowOK DEF Inv, RowsOK, RowOK, Expired
  <2>4. Table(S) = [q \in Op |-> Table(S)[q]]
    OBVIOUS
  <2> HIDE DEF Table
  <2>5. CASE operations' = Table(S)
    BY <1>1, <2>2, <2>5 DEF Keeps, FinalRow
  <2>6. CASE /\ p \in Op
             /\ Claimable(Table(S), b, p)
             /\ operations' = [Table(S) EXCEPT ![p] = ClaimRow(Table(S)[p], b)]
    <3>1. CASE p = o
      <4>1. Table(S)[o].status = "queued" /\ ~Table(S)[o].cancel
        BY <2>6, <3>1 DEF Claimable
      <4>2. operations'[o] = ClaimRow(Table(S)[o], b)
        BY <2>4, <2>6, <3>1
      <4>3. ClaimRow(Table(S)[o], b).attempt = Table(S)[o].attempt + 1
        BY <2>3 DEF ClaimRow, Row
      <4> QED
        BY <1>1, <2>2, <4>1, <4>2, <4>3 DEF Keeps, FinalRow
    <3>2. CASE p # o
      <4>1. operations'[o] = Table(S)[o]
        BY <2>4, <2>6, <3>2
      <4> QED
        BY <1>1, <2>2, <4>1 DEF Keeps, FinalRow
    <3> QED
      BY <3>1, <3>2
  <2> QED
    BY <2>1, <2>5, <2>6
<1>4. ASSUME NEW p \in Op, NEW a \in 1..operations[p].attempt, Claimant(<<p, a>>)
      PROVE  FinalRow(o)
  <2>1. a \in Nat
    BY <1>1 DEF Row
  <2>2. PICK x : /\ operations[p].status \in Active
                 /\ operations' = [operations EXCEPT ![p] = x]
                 /\ Keeps(operations[p], x)
    BY <1>4, <2>1, ClaimantKeeps
  <2> QED
    BY <1>1, <2>2 DEF Keeps, FinalRow
<1>5. CASE UNCHANGED vars
  BY <1>1, <1>5 DEF vars, FinalRow
<1> QED
  BY <1>2, <1>3, <1>4, <1>5 DEF Next

\* A recorded cancellation is never forgotten and no attempt begins after it,
\* whatever fails, expires or is rejected (claim_for_bot_select.sql, fail.sql,
\* expire_lease_operation.sql).
THEOREM CancellationIsFinal == Spec => CancelIsFinal
<1> DEFINE Kept == \A o \in Op : operations[o].cancel =>
                       operations'[o].cancel /\ operations'[o].attempt = operations[o].attempt
<1>1. Inv /\ [Next]_vars => [Kept]_vars
  BY StepIsFinal DEF FinalRow
<1> QED
  BY <1>1, Invariance, PTL DEF Spec, CancelIsFinal

\* No statement of any claim, stale or not, writes a terminal row or its journal.
THEOREM TerminalRowsAreFinal == Spec => TerminalIsFinal
<1> DEFINE Kept == \A o \in Op : operations[o].status \in Terminal => operations'[o] = operations[o]
<1>1. Inv /\ [Next]_vars => [Kept]_vars
  BY StepIsFinal DEF FinalRow
<1> QED
  BY <1>1, Invariance, PTL DEF Spec, TerminalIsFinal

\* Rows of the schema that can be claimed while they wait, within their attempts:
\* the rows the statements leave behind are always ones they accept again.
THEOREM SoundRows == Spec => []RowsAreSound
<1>1. Inv => RowsAreSound
  <2>1. Inv => TypeOK
    BY DEF Inv, RowsOK, TypeOK
  <2>2. Inv => QueuedIsClaimable /\ AttemptsBounded
    BY DEF Inv, RowsOK, RowOK, QueuedIsClaimable, AttemptsBounded
  <2> QED
    BY <2>1, <2>2 DEF RowsAreSound
<1> QED
  BY <1>1, Invariance, PTL

\* Cancellations and outcomes are final.
THEOREM FinalDecisions == Spec => DecisionsAreFinal
  BY CancellationIsFinal, TerminalRowsAreFinal DEF DecisionsAreFinal

----------------------------------------------------------------------------
(* The journal counts what it delivers.                                    *)

\* As many artifacts as the unit counts.
LEMMA UnitArtifacts ==
    ASSUME NEW u, NEW n \in Nat
    PROVE  IsFiniteSet({u} \X (1..n)) /\ Cardinality({u} \X (1..n)) = n
<1>1. IsFiniteSet({u}) /\ Cardinality({u}) = 1
  BY FS_Singleton
<1>2. IsFiniteSet(1..n) /\ Cardinality(1..n) = n
  <2>1. 1 \in Int /\ n \in Int
    OBVIOUS
  <2>2. IsFiniteSet(1..n) /\ Cardinality(1..n) = IF 1 > n THEN 0 ELSE n - 1 + 1
    BY <2>1, FS_Interval
  <2> QED
    BY <2>2
<1>3. IsFiniteSet({u} \X (1..n)) /\ Cardinality({u} \X (1..n)) = Cardinality({u}) * Cardinality(1..n)
  BY <1>1, <1>2, FS_Product
<1> QED
  BY <1>1, <1>2, <1>3

LEMMA ArtifactsFinite ==
    ASSUME NEW us, IsFiniteSet(us), us \subseteq Unit
    PROVE  IsFiniteSet(ArtifactsOf(us))
<1> DEFINE Pieces == {{u} \X (1..u.count) : u \in us}
           f == [u \in us |-> {u} \X (1..u.count)]
<1>1. f \in Surjection(us, Pieces)
  BY DEF Surjection
<1>2. IsFiniteSet(Pieces)
  BY <1>1, FS_Surjection
<1>3. ASSUME NEW T \in Pieces PROVE IsFiniteSet(T)
  <2>1. PICK u \in us : T = {u} \X (1..u.count)
    OBVIOUS
  <2>2. u.count \in Nat
    BY DEF Unit
  <2> QED
    BY <2>1, <2>2, UnitArtifacts
<1> QED
  BY <1>2, <1>3, FS_UNION DEF ArtifactsOf

\* The artifacts of one more unit are counted on top of the others.
LEMMA ArtifactsAdd ==
    ASSUME NEW us, IsFiniteSet(us), us \subseteq Unit, NEW u \in Unit, u \notin us
    PROVE  Cardinality(ArtifactsOf(us \cup {u})) = Cardinality(ArtifactsOf(us)) + u.count
<1> DEFINE A == ArtifactsOf(us)
           P == {u} \X (1..u.count)
<1>1. u.count \in Nat /\ u.count > 0
  BY DEF Unit
<1>3. IsFiniteSet(P) /\ Cardinality(P) = u.count
  BY <1>1, UnitArtifacts
<1>4. IsFiniteSet(A) /\ Cardinality(A) \in Nat
  BY ArtifactsFinite, FS_CardinalityType
<1>5. A \cap P = {} /\ ArtifactsOf(us \cup {u}) = A \cup P
  BY DEF ArtifactsOf
<1>6. Cardinality({}) = 0
  BY FS_EmptySet
<1> HIDE DEF A, P
<1>7. Cardinality(A \cup P) = Cardinality(A) + Cardinality(P) - Cardinality(A \cap P)
  BY <1>3, <1>4, FS_Union
<1>8. Cardinality(A \cap P) = 0
  BY <1>5, <1>6
<1>9. Cardinality(A \cup P) = Cardinality(A) + u.count
  BY <1>1, <1>3, <1>4, <1>7, <1>8
<1> QED
  BY <1>5, <1>9 DEF A

LEMMA ArtifactsNone == Cardinality(ArtifactsOf({})) = 0
<1>1. ArtifactsOf({}) = {}
  BY DEF ArtifactsOf
<1> QED
  BY <1>1, FS_EmptySet

\* What the counters of a row say while it is run, delivered and given up: the
\* confirmed artifacts are those of the journal, and what is still open fits in
\* what is left of the plan.
Counted(r) ==
    /\ IsFiniteSet(r.units)
    /\ r.status = "running" => r.planned = 0 /\ r.delivered = 0
    /\ r.status = "delivering" =>
          /\ r.delivered = SentCount(r)
          /\ \A u, v \in CurrentUnits(r) : u.ordinal = v.ordinal => u = v
          /\ r.planned > 0 => r.delivered < r.planned
          /\ r.planned = 0 => CurrentUnits(r) = {}
          /\ \A u \in UnitsIn(r, "sending") : r.delivered + u.count <= r.planned
    /\ r.status = "delivery_partial" => 0 < r.delivered /\ r.delivered < r.planned

RowsCounted == \A o \in Op : Counted(operations[o])

\* A delivering row that has confirmed something has a plan, and not all of it.
LEMMA PartialOfPlan ==
    ASSUME NEW r, r \in Row, Counted(r), r.status = "delivering", r.delivered > 0
    PROVE  r.delivered < r.planned
<1>1. r.planned \in Nat /\ r.delivered \in Nat
  BY DEF Row
<1>2. CASE r.planned = 0
  <2>1. UnitsIn(r, "sent") = {}
    BY <1>2 DEF Counted, UnitsIn
  <2> QED
    BY <2>1, <1>1, ArtifactsNone DEF Counted, SentCount
<1>3. CASE r.planned # 0
  BY <1>1, <1>3 DEF Counted
<1> QED
  BY <1>2, <1>3

\* A released row is counted, if a partial outcome is one.
LEMMA ReleasedCounted ==
    ASSUME NEW r, r \in Row, IsFiniteSet(r.units), NEW st \in Terminal \cup {"queued"},
           st = "delivery_partial" => 0 < r.delivered /\ r.delivered < r.planned
    PROVE  Counted(Released(r, st))
  BY DEF Counted, Released, Row

\* Marking keeps the number of units finite.
LEMMA MarkedFinite ==
    ASSUME NEW r, IsFiniteSet(r.units), NEW from, NEW to
    PROVE  IsFiniteSet(Marked(r, from, to))
<1> DEFINE f == [u \in r.units |-> IF u.attempt = r.attempt /\ u.status = from
                                   THEN [u EXCEPT !.status = to] ELSE u]
<1>1. f \in Surjection(r.units, Marked(r, from, to))
  BY DEF Surjection, Marked
<1> QED
  BY <1>1, FS_Surjection

LEMMA SettledFinite ==
    ASSUME NEW r, IsFiniteSet(r.units), NEW u, NEW st
    PROVE  IsFiniteSet(Settled(r, u, st))
<1>1. IsFiniteSet(r.units \ {u})
  BY FS_RemoveElement
<1> QED
  BY <1>1, FS_AddElement DEF Settled

LEMMA ExpireRowCounted ==
    ASSUME NEW r, RowOK(r), Counted(r), r.status \in Active
    PROVE  Counted(ExpireRow(r))
<1> DEFINE m == [r EXCEPT !.units = Marked(r, "sending", "unknown")]
<1>1. /\ m \in Row /\ m.status = r.status /\ m.delivered = r.delivered
  BY MarkedOK DEF Releasable
<1>2. r \in Row /\ m.planned = r.planned /\ IsFiniteSet(m.units)
  BY MarkedFinite DEF RowOK, Row, Counted
<1> HIDE DEF m
<1>3. ExpiredStatus(m) \in Terminal \cup {"queued"}
  BY DEF ExpiredStatus
<1>4. ASSUME ExpiredStatus(m) = "delivery_partial"
      PROVE  0 < m.delivered /\ m.delivered < m.planned
  BY <1>1, <1>2, <1>4, PartialOfPlan DEF ExpiredStatus
<1>5. Counted(Released(m, ExpiredStatus(m)))
  BY <1>1, <1>2, <1>3, <1>4, ReleasedCounted
<1> QED
  BY <1>5 DEF m, ExpireRow

LEMMA ClaimRowCounted ==
    ASSUME NEW r, NEW b, r \in Row, Counted(r)
    PROVE  Counted(ClaimRow(r, b))
  BY Zenon DEF Counted, ClaimRow, Row

LEMMA StoppedCounted ==
    ASSUME NEW r, RowOK(r), Counted(r), r.status = "delivering", NEW reason \in StopReason
    PROVE  LET m == [r EXCEPT !.units = IF reason = "cancel" /\ ~r.cancel THEN @
                                        ELSE Marked(r, "sending", "unknown")]
           IN  Counted(Released(m, StoppedStatus(m, reason)))
<1> DEFINE us == IF reason = "cancel" /\ ~r.cancel THEN r.units ELSE Marked(r, "sending", "unknown")
           m == [r EXCEPT !.units = us]
<1>1. r \in Row /\ us \in SUBSET Unit /\ IsFiniteSet(us)
  <2>1. Marked(r, "sending", "unknown") \in SUBSET Unit
    BY MarkedOK DEF Releasable, RowOK, Row
  <2>2. IsFiniteSet(Marked(r, "sending", "unknown")) /\ IsFiniteSet(r.units)
    BY MarkedFinite DEF Counted
  <2> QED
    BY <2>1, <2>2 DEF RowOK, Row
<1> HIDE DEF us
<1>2. m \in Row /\ IsFiniteSet(m.units) /\ m.delivered = r.delivered /\ m.planned = r.planned
  BY <1>1 DEF Row
<1> HIDE DEF m
<1>3. StoppedStatus(m, reason) \in Terminal \cup {"queued"}
  BY DEF StoppedStatus
<1>4. ASSUME StoppedStatus(m, reason) = "delivery_partial"
      PROVE  0 < m.delivered /\ m.delivered < m.planned
  BY <1>1, <1>2, <1>4, PartialOfPlan DEF StoppedStatus
<1>5. Counted(Released(m, StoppedStatus(m, reason)))
  BY <1>2, <1>3, <1>4, ReleasedCounted
<1> QED
  BY <1>5 DEF m, us

\* A new unit fits in what is left of the plan and has an ordinal of its own.
LEMMA BeginUnitCounted ==
    ASSUME Inv, RowsCounted, NEW o \in Op, NEW a \in Nat, NEW k \in Nat, NEW n \in Nat \ {0},
           MayBeginUnit(<<o, a>>, k, n)
    PROVE  LET u == [attempt |-> a, ordinal |-> k, count |-> n, status |-> "sending"]
           IN  Counted([operations[o] EXCEPT !.units = @ \cup {u}])
<1> DEFINE r == operations[o]
           u == [attempt |-> a, ordinal |-> k, count |-> n, status |-> "sending"]
           us == r.units \cup {u}
           b == [r EXCEPT !.units = us]
<1>1. /\ r \in Row /\ Counted(r) /\ r.status = "delivering" /\ r.attempt = a
      /\ r.planned # 0 /\ r.delivered = SentCount(r) /\ n + r.delivered <= r.planned
      /\ \A v \in CurrentUnits(r) : v.ordinal < k /\ v.status = "sent"
  BY DEF Inv, RowsOK, RowsCounted, MayBeginUnit, Delivering, Fenced
<1>2. u.attempt = a /\ u.ordinal = k /\ u.count = n /\ u.status = "sending"
  OBVIOUS
<1> HIDE DEF u
<1>3. /\ b.units = us /\ b.attempt = a /\ b.status = "delivering"
      /\ b.delivered = r.delivered /\ b.planned = r.planned
  BY <1>1 DEF Row
<1> HIDE DEF b
<1>4. CurrentUnits(b) = CurrentUnits(r) \cup {u}
  BY <1>1, <1>2, <1>3 DEF CurrentUnits
<1>5. UnitsIn(b, "sent") = UnitsIn(r, "sent") /\ UnitsIn(b, "sending") = {u}
  BY <1>1, <1>2, <1>4 DEF UnitsIn
<1>6. IsFiniteSet(b.units)
  BY <1>1, <1>3, FS_AddElement DEF Counted
<1>7. SentCount(b) = b.delivered
  BY <1>1, <1>3, <1>5 DEF SentCount
<1>8. /\ b.planned > 0 /\ b.delivered < b.planned
      /\ b.delivered + u.count <= b.planned
  BY <1>1, <1>2, <1>3 DEF Row
<1>9. \A v, w \in CurrentUnits(b) : v.ordinal = w.ordinal => v = w
  <2>1. \A v \in CurrentUnits(r) : v.ordinal \in Nat
    BY <1>1 DEF CurrentUnits, Row, Unit
  <2> QED
    BY <1>1, <1>2, <1>4, <2>1 DEF Counted
<1>10. Counted(b)
  BY <1>3, <1>5, <1>6, <1>7, <1>8, <1>9 DEF Counted
<1> QED
  BY <1>10 DEF b, u

\* A confirmed unit is counted once.
LEMMA ConfirmedCount ==
    ASSUME NEW r, RowOK(r), Counted(r), r.status = "delivering",
           NEW u \in UnitsIn(r, "sending")
    PROVE  LET row == [r EXCEPT !.units = Settled(r, u, "sent"), !.delivered = @ + u.count]
           IN  row.delivered # row.planned => Counted(row)
<1> DEFINE sent == [u EXCEPT !.status = "sent"]
           d == r.delivered + u.count
           us == (r.units \ {u}) \cup {sent}
           row == [r EXCEPT !.units = us, !.delivered = d]
<1>1. /\ r \in Row /\ u \in Unit /\ u \in CurrentUnits(r) /\ u.attempt = r.attempt
      /\ r.delivered \in Nat /\ r.planned \in Nat /\ u.count \in Nat /\ u.count > 0
  BY DEF RowOK, Row, Unit, UnitsIn, CurrentUnits
<1>2. /\ sent \in Unit /\ sent.attempt = u.attempt /\ sent.ordinal = u.ordinal
      /\ sent.count = u.count /\ sent.status = "sent" /\ sent # u
  BY <1>1 DEF Unit, UnitsIn
<1> HIDE DEF sent
<1>3. /\ row.units = us /\ row.attempt = r.attempt /\ row.status = "delivering"
      /\ row.delivered = d /\ row.planned = r.planned
  BY <1>1 DEF Row
<1> HIDE DEF row, d
<1>4. CurrentUnits(row) = (CurrentUnits(r) \ {u}) \cup {sent}
  BY <1>1, <1>2, <1>3 DEF CurrentUnits
<1>5. /\ \A v \in CurrentUnits(r) \ {u} : v.ordinal # u.ordinal /\ v.status # "sending"
      /\ sent \notin CurrentUnits(r)
  BY <1>1, <1>2 DEF Counted, RowOK, JournalOK, UnitsIn
<1>6. UnitsIn(row, "sent") = UnitsIn(r, "sent") \cup {sent} /\ UnitsIn(row, "sending") = {}
  BY <1>2, <1>4, <1>5 DEF UnitsIn
<1>7. SentCount(row) = row.delivered
  <2>1. /\ UnitsIn(r, "sent") \subseteq Unit /\ IsFiniteSet(UnitsIn(r, "sent"))
        /\ sent \notin UnitsIn(r, "sent")
    <3>1. UnitsIn(r, "sent") \in SUBSET r.units /\ IsFiniteSet(r.units)
      BY DEF UnitsIn, CurrentUnits, Counted
    <3> QED
      BY <1>1, <1>5, <3>1, FS_Subset DEF Row, UnitsIn
  <2>2. Cardinality(ArtifactsOf(UnitsIn(r, "sent") \cup {sent}))
            = Cardinality(ArtifactsOf(UnitsIn(r, "sent"))) + u.count
    BY <1>2, <2>1, ArtifactsAdd
  <2> QED
    BY <1>3, <1>6, <2>2 DEF SentCount, Counted, d
<1>8. IsFiniteSet(row.units)
  <2>1. IsFiniteSet(r.units \ {u})
    BY FS_RemoveElement DEF Counted
  <2> QED
    BY <1>3, <2>1, FS_AddElement
<1>9. /\ row.planned > 0 /\ row.delivered <= row.planned
  BY <1>1, <1>3 DEF Counted, d
<1>10. \A v, w \in CurrentUnits(row) : v.ordinal = w.ordinal => v = w
  BY <1>1, <1>2, <1>4, <1>5 DEF Counted
<1>11. row.delivered # row.planned => Counted(row)
  <2>1. row.delivered \in Nat /\ row.planned \in Nat
    BY <1>1, <1>3 DEF d
  <2> QED
    BY <2>1, <1>3, <1>6, <1>7, <1>8, <1>9, <1>10 DEF Counted
<1> QED
  BY <1>11 DEF row, d, Settled, sent

\* Columns that are not counters.
LEMMA SameCounters ==
    ASSUME NEW r, NEW x, Counted(r), x.units = r.units, x.attempt = r.attempt,
           x.planned = r.planned, x.delivered = r.delivered,
           x.status = r.status \/ x.status \in (Terminal \ {"delivery_partial"}) \cup {"queued"}
    PROVE  Counted(x)
  BY DEF Counted, CurrentUnits, UnitsIn, SentCount

LEMMA CommitCounted ==
    ASSUME Inv, RowsCounted, NEW o \in Op, NEW r, NEW d, Commit(o, r, d), Counted(r)
    PROVE  RowsCounted'
  BY DEF Inv, RowsOK, RowsCounted, Commit

\* A running row has counted nothing yet, and a delivery starts from there.
LEMMA RunningCounted ==
    ASSUME Inv, RowsCounted, NEW o \in Op, NEW a \in Nat,
           \/ Complete(<<o, a>>) \/ AckCancel(<<o, a>>)
           \/ \E retryable, code \in BOOLEAN : Fail(<<o, a>>, retryable, code)
           \/ BeginDelivery(<<o, a>>)
           \/ \E total \in 1..MaxArtifacts : BeginBatch(<<o, a>>, total)
    PROVE  RowsCounted'
<1> DEFINE r == operations[o]
<1>1. /\ r \in Row /\ Counted(r) /\ IsFiniteSet(r.units) /\ r.status = "running"
      /\ r.planned = 0 /\ r.delivered = 0 /\ CurrentUnits(r) = {}
  BY DEF Inv, RowsOK, RowOK, JournalOK, RowsCounted, Counted, Complete, AckCancel, Fail,
         BeginDelivery, BeginBatch, Running
<1>2. CASE Complete(<<o, a>>) \/ AckCancel(<<o, a>>)
  <2>1. PICK st \in {"succeeded", "cancelled"} : Commit(o, Released(r, st), RetryDelay)
    BY <1>2 DEF Complete, AckCancel
  <2> QED
    BY <1>1, <2>1, ReleasedCounted, CommitCounted
<1>3. ASSUME NEW retryable \in BOOLEAN, NEW code \in BOOLEAN, Fail(<<o, a>>, retryable, code)
      PROVE  RowsCounted'
  <2> DEFINE st == IF r.cancel THEN "cancelled"
                   ELSE IF retryable /\ r.attempt < r.max THEN "queued" ELSE "failed"
             shown == code /\ ~r.cancel
             x == [Released(r, st) EXCEPT !.code = shown]
  <2>1. Commit(o, x, RetryDelay)
    BY <1>3 DEF Fail
  <2>2. st \in {"cancelled", "queued", "failed"}
    OBVIOUS
  <2> HIDE DEF st, shown
  <2>3. x.units = r.units /\ x.attempt = r.attempt /\ x.planned = r.planned
        /\ x.delivered = r.delivered /\ x.status = st
    BY <1>1 DEF Released, Row
  <2>4. Counted(x)
    BY <1>1, <2>2, <2>3, SameCounters
  <2> QED
    BY <2>1, <2>4, CommitCounted
<1>4. ASSUME NEW total \in Nat
      PROVE  /\ Counted([r EXCEPT !.status = "delivering", !.planned = total, !.delivered = 0])
             /\ Counted([r EXCEPT !.status = "delivering"])
  <2>1. ASSUME NEW x, x.units = r.units, x.attempt = r.attempt, x.planned \in Nat,
               x.delivered = 0, x.status = "delivering"
        PROVE  Counted(x)
    <3>1. CurrentUnits(x) = {} /\ UnitsIn(x, "sent") = {} /\ UnitsIn(x, "sending") = {}
      BY <1>1, <2>1 DEF CurrentUnits, UnitsIn
    <3>2. SentCount(x) = 0
      BY <3>1, ArtifactsNone DEF SentCount
    <3> QED
      BY <1>1, <2>1, <3>1, <3>2 DEF Counted
  <2> DEFINE x == [r EXCEPT !.status = "delivering", !.planned = total, !.delivered = 0]
             y == [r EXCEPT !.status = "delivering"]
  <2>2. /\ x.units = r.units /\ x.attempt = r.attempt /\ x.planned = total
        /\ x.delivered = 0 /\ x.status = "delivering"
    BY <1>1 DEF Row
  <2>3. /\ y.units = r.units /\ y.attempt = r.attempt /\ y.planned = 0
        /\ y.delivered = 0 /\ y.status = "delivering"
    BY <1>1 DEF Row
  <2> HIDE DEF x, y
  <2>4. Counted(x) /\ Counted(y)
    BY <2>1, <2>2, <2>3
  <2> QED
    BY <2>4 DEF x, y
<1>5. CASE BeginDelivery(<<o, a>>)
  <2>1. Commit(o, [r EXCEPT !.status = "delivering"], RetryDelay)
    BY <1>5 DEF BeginDelivery
  <2> QED
    BY <1>4, <2>1, CommitCounted
<1>6. ASSUME NEW total \in 1..MaxArtifacts, BeginBatch(<<o, a>>, total)
      PROVE  RowsCounted'
  <2>1. total \in Nat
    BY ConstantsAssumption
  <2>2. Commit(o, [r EXCEPT !.status = "delivering", !.planned = total, !.delivered = 0], RetryDelay)
    BY <1>6 DEF BeginBatch
  <2> QED
    BY <1>4, <2>1, <2>2, CommitCounted
<1> QED
  BY <1>2, <1>3, <1>5, <1>6

\* The ends of a delivery.
LEMMA DeliveryCounted ==
    ASSUME Inv, RowsCounted, NEW o \in Op, NEW a \in Nat,
           \/ CompleteDelivery(<<o, a>>) \/ DeliveryUnknown(<<o, a>>) \/ RejectDelivery(<<o, a>>)
           \/ \E reason \in StopReason : StopBatch(<<o, a>>, reason)
           \/ RequeueInvalidCache(<<o, a>>)
    PROVE  RowsCounted'
<1> DEFINE r == operations[o]
<1>1. RowOK(r) /\ r \in Row /\ Counted(r) /\ IsFiniteSet(r.units)
  BY DEF Inv, RowsOK, RowOK, RowsCounted, Counted
<1>2. CASE CompleteDelivery(<<o, a>>) \/ DeliveryUnknown(<<o, a>>) \/ RejectDelivery(<<o, a>>)
  <2>1. PICK st \in {"succeeded", "delivery_unknown", "failed"} : Commit(o, Released(r, st), RetryDelay)
    BY <1>2 DEF CompleteDelivery, DeliveryUnknown, RejectDelivery, EndDelivery
  <2> QED
    BY <1>1, <2>1, ReleasedCounted, CommitCounted
<1>3. ASSUME NEW reason \in StopReason, StopBatch(<<o, a>>, reason)
      PROVE  RowsCounted'
  <2>1. r.status = "delivering"
    BY <1>3 DEF StopBatch, Delivering
  <2> QED
    BY <1>1, <1>3, <2>1, StoppedCounted, CommitCounted DEF StopBatch
<1>4. CASE RequeueInvalidCache(<<o, a>>)
  <2>1. PICK u \in r.units :
            Commit(o, [Released([r EXCEPT !.units = Settled(r, u, "rejected")], "queued")
                       EXCEPT !.max = @ + 1, !.bypass = TRUE, !.planned = 0], 0)
    BY <1>4 DEF RequeueInvalidCache
  <2> DEFINE q == [Released([r EXCEPT !.units = Settled(r, u, "rejected")], "queued")
                   EXCEPT !.max = @ + 1, !.bypass = TRUE, !.planned = 0]
  <2>2. q.status = "queued" /\ q.units = Settled(r, u, "rejected")
    BY <1>1 DEF Released, Row
  <2>3. Counted(q)
    BY <1>1, <2>2, SettledFinite DEF Counted
  <2> QED
    BY <2>1, <2>3, CommitCounted
<1> QED
  BY <1>2, <1>3, <1>4

\* The steps that open or settle a unit.
LEMMA UnitCounted ==
    ASSUME Inv, RowsCounted, NEW o \in Op, NEW a \in Nat, NEW k \in 0..(MaxArtifacts - 1),
           \/ \E n \in 1..MaxUnit : BeginUnit(<<o, a>>, k, n)
           \/ CompleteUnit(<<o, a>>, k)
           \/ \E after \in 0..1 : RejectUnit(<<o, a>>, k, after)
           \/ UnknownUnit(<<o, a>>, k)
    PROVE  RowsCounted'
<1> DEFINE r == operations[o]
           M(u, st) == [r EXCEPT !.units = Settled(r, u, st)]
<1>1. RowOK(r) /\ r \in Row /\ Counted(r) /\ IsFiniteSet(r.units)
  BY DEF Inv, RowsOK, RowOK, RowsCounted, Counted
<1>2. ASSUME NEW u, OpenUnit(<<o, a>>, k, u)
      PROVE  /\ r.status = "delivering" /\ u \in UnitsIn(r, "sending")
             /\ u \in r.units /\ u.attempt = r.attempt /\ u.status = "sending"
  BY <1>2 DEF OpenUnit, Delivering, UnitsIn, CurrentUnits
<1>3. ASSUME NEW n \in 1..MaxUnit, BeginUnit(<<o, a>>, k, n)
      PROVE  RowsCounted'
  <2>1. k \in Nat /\ n \in Nat \ {0}
    BY ConstantsAssumption
  <2>2. Counted([r EXCEPT !.units = @ \cup {[attempt |-> a, ordinal |-> k, count |-> n,
                                             status |-> "sending"]}])
    BY <1>3, <2>1, BeginUnitCounted DEF BeginUnit
  <2> QED
    BY <1>3, <2>2, CommitCounted DEF BeginUnit
<1>4. CASE CompleteUnit(<<o, a>>, k)
  <2> DEFINE Sent(u) == [r EXCEPT !.units = Settled(r, u, "sent"), !.delivered = @ + u.count]
  <2>1. PICK u \in r.units :
            /\ OpenUnit(<<o, a>>, k, u)
            /\ Commit(o, IF Sent(u).delivered = r.planned THEN Released(Sent(u), "succeeded") ELSE Sent(u),
                      RetryDelay)
    BY <1>4 DEF CompleteUnit
  <2>2. Sent(u).planned = r.planned /\ Sent(u).units = Settled(r, u, "sent")
    BY <1>1 DEF Row
  <2>3. Sent(u).delivered # r.planned => Counted(Sent(u))
    BY <1>1, <1>2, <2>1, <2>2, ConfirmedCount
  <2>4. Counted(Released(Sent(u), "succeeded"))
    <3> DEFINE x == Released(Sent(u), "succeeded")
    <3>1. x.status = "succeeded" /\ x.units = Settled(r, u, "sent")
      BY <1>1 DEF Released, Row
    <3> QED
      BY <1>1, <3>1, SettledFinite DEF Counted
  <2> HIDE DEF Sent
  <2> QED
    BY <2>1, <2>3, <2>4, CommitCounted
<1>5. CASE UnknownUnit(<<o, a>>, k)
  <2>1. PICK u \in r.units : /\ OpenUnit(<<o, a>>, k, u)
                             /\ Commit(o, Released(M(u, "unknown"), "delivery_unknown"), RetryDelay)
    BY <1>5 DEF UnknownUnit
  <2>2. M(u, "unknown") \in Row /\ IsFiniteSet(M(u, "unknown").units)
    BY <1>1, <1>2, <2>1, SettledOK, SettledFinite DEF Releasable
  <2> QED
    BY <2>1, <2>2, ReleasedCounted, CommitCounted
<1>6. ASSUME NEW after \in 0..1, RejectUnit(<<o, a>>, k, after)
      PROVE  RowsCounted'
  <2>1. PICK u \in r.units :
            /\ OpenUnit(<<o, a>>, k, u)
            /\ Commit(o, Released(M(u, "rejected"), RejectedStatus(r, after)), Max({RetryDelay, after}))
    BY <1>6 DEF RejectUnit
  <2> DEFINE m == M(u, "rejected")
             st == RejectedStatus(r, after)
  <2>2. /\ m \in Row /\ IsFiniteSet(m.units)
        /\ m.delivered = r.delivered /\ m.planned = r.planned
    BY <1>1, <1>2, <2>1, SettledOK, SettledFinite DEF Releasable
  <2>3. /\ st \in Terminal \cup {"queued"}
        /\ st = "delivery_partial" => r.delivered > 0
    BY DEF RejectedStatus
  <2>4. st = "delivery_partial" => 0 < m.delivered /\ m.delivered < m.planned
    BY <1>1, <1>2, <2>1, <2>2, <2>3, PartialOfPlan
  <2> HIDE DEF m, st
  <2>5. Counted(Released(m, st))
    BY <2>2, <2>3, <2>4, ReleasedCounted
  <2> QED
    BY <2>1, <2>5, CommitCounted DEF m, st
<1> QED
  BY <1>3, <1>4, <1>5, <1>6

\* The steps of owners and of the clock.
LEMMA OwnerCounted ==
    ASSUME Inv, RowsCounted, NEW o \in Op,
           Admit(o) \/ RequestCancel(o) \/ LeaseExpires(o) \/ MakeAvailable(o)
    PROVE  RowsCounted'
<1> DEFINE r == operations[o]
<1>1. r \in Row /\ Counted(r) /\ operations \in [Op -> Row]
  BY DEF Inv, RowsOK, RowOK, RowsCounted
<1>2. CASE Admit(o)
  <2>1. Counted([AbsentRow EXCEPT !.status = "queued"])
    BY FS_EmptySet DEF Counted, AbsentRow
  <2> QED
    BY <1>2, <2>1, CommitCounted DEF Admit
<1>3. CASE RequestCancel(o)
  <2> DEFINE st == IF r.status = "queued" THEN "cancelled" ELSE r.status
             c == [r EXCEPT !.cancel = TRUE, !.status = st]
  <2>1. operations' = [operations EXCEPT ![o] = c]
    BY <1>3, <1>1 DEF RequestCancel, Row
  <2>2. /\ c.units = r.units /\ c.attempt = r.attempt /\ c.planned = r.planned
        /\ c.delivered = r.delivered /\ (c.status = r.status \/ c.status = "cancelled")
    BY <1>1 DEF Row
  <2> HIDE DEF c
  <2>3. Counted(c)
    BY <1>1, <2>2, SameCounters
  <2> QED
    BY <1>1, <2>1, <2>3 DEF RowsCounted
<1>4. CASE LeaseExpires(o)
  <2> DEFINE e == [r EXCEPT !.live = FALSE]
  <2>1. operations' = [operations EXCEPT ![o] = e]
    BY <1>4 DEF LeaseExpires
  <2>2. /\ e.units = r.units /\ e.attempt = r.attempt /\ e.planned = r.planned
        /\ e.delivered = r.delivered /\ e.status = r.status
    BY <1>1 DEF Row
  <2>3. Counted(e)
    BY <1>1, <2>2, SameCounters
  <2> QED
    BY <1>1, <2>1, <2>3 DEF RowsCounted
<1>5. CASE MakeAvailable(o)
  BY <1>5 DEF MakeAvailable, RowsCounted
<1> QED
  BY <1>2, <1>3, <1>4, <1>5

LEMMA ClaimCounted ==
    ASSUME Inv, RowsCounted, NEW b, NEW o \in Op \cup {NoOp}, Claim(b, o)
    PROVE  RowsCounted'
<1> DEFINE Table(S) == [p \in Op |-> IF p \in S THEN ExpireRow(operations[p]) ELSE operations[p]]
<1>1. PICK S \in SUBSET Expired :
          \/ operations' = Table(S)
          \/ /\ o \in Op
             /\ Claimable(Table(S), b, o)
             /\ operations' = [Table(S) EXCEPT ![o] = ClaimRow(Table(S)[o], b)]
  BY DEF Claim, kSubset
<1>2. \A p \in Op : RowOK(Table(S)[p]) /\ Counted(Table(S)[p])
  BY ExpireRowOK, ExpireRowCounted DEF Inv, RowsOK, RowsCounted, Expired
<1>3. Table(S) = [p \in Op |-> Table(S)[p]]
  OBVIOUS
<1> HIDE DEF Table
<1>4. CASE operations' = Table(S)
  BY <1>2, <1>4 DEF RowsCounted
<1>5. CASE /\ o \in Op
           /\ operations' = [Table(S) EXCEPT ![o] = ClaimRow(Table(S)[o], b)]
  <2>1. Counted(ClaimRow(Table(S)[o], b))
    BY <1>2, <1>5, ClaimRowCounted DEF RowOK
  <2> QED
    BY <1>2, <1>3, <1>5, <2>1 DEF RowsCounted
<1> QED
  BY <1>1, <1>4, <1>5

LEMMA NextCounted == Inv /\ RowsCounted /\ [Next]_vars => RowsCounted'
<1> SUFFICES ASSUME Inv, RowsCounted, [Next]_vars PROVE RowsCounted'
  OBVIOUS
<1>1. ASSUME NEW o \in Op, Admit(o) \/ RequestCancel(o) \/ LeaseExpires(o) \/ MakeAvailable(o)
      PROVE  RowsCounted'
  BY <1>1, OwnerCounted
<1>2. ASSUME NEW b \in Bot \cup {NoBot}, NEW o \in Op \cup {NoOp}, Claim(b, o)
      PROVE  RowsCounted'
  BY <1>2, ClaimCounted
<1>3. ASSUME NEW o \in Op, NEW a \in 1..operations[o].attempt, Claimant(<<o, a>>)
      PROVE  RowsCounted'
  <2>1. a \in Nat
    BY DEF Inv, RowsOK, Row
  <2> QED
    BY <1>3, <2>1, RunningCounted, DeliveryCounted, UnitCounted DEF Claimant
<1>4. CASE UNCHANGED vars
  BY <1>4 DEF vars, RowsCounted, Counted, CurrentUnits, UnitsIn, SentCount
<1> QED
  BY <1>1, <1>2, <1>3, <1>4 DEF Next

\* Every reachable row counts what its journal confirms.
THEOREM CountsInvariance == Spec => []RowsCounted
<1>1. Init => RowsCounted
  <2>1. Counted(AbsentRow)
    BY FS_EmptySet DEF Counted, AbsentRow
  <2> QED
    BY <2>1 DEF Init, RowsCounted
<1> QED
  BY <1>1, NextCounted, Invariance, PTL DEF Spec

\* delivered_artifact_count is the sum of the confirmed units of the attempt for
\* as long as a row is delivered, stays below the plan until the last unit, and a
\* partial outcome is neither nothing nor everything.
THEOREM JournalsAgree == Spec => []JournalAgrees
<1>1. Inv /\ RowsCounted => JournalAgrees
  BY DEF RowsCounted, Counted, JournalAgrees
<1> QED
  BY <1>1, Invariance, CountsInvariance, PTL

----------------------------------------------------------------------------
(* The limits.                                                             *)

\* The rows of actor a that count towards capacity.
PendingOf(table, a) == {o \in PendingOps(table) : ActorOf[o] = a}

\* Fewer operations, or one more where there was room, stay within a limit.
LEMMA Shrinks ==
    ASSUME NEW S \in SUBSET Op, NEW T \in SUBSET S, NEW n \in Nat, Cardinality(S) <= n
    PROVE  Cardinality(T) <= n
<1>1. IsFiniteSet(S)
  BY ConstantsAssumption, FS_Subset
<1>2. /\ IsFiniteSet(T) /\ Cardinality(T) <= Cardinality(S)
      /\ Cardinality(S) \in Nat /\ Cardinality(T) \in Nat
  BY <1>1, FS_Subset, FS_CardinalityType
<1> QED
  BY <1>2

LEMMA GrowsByOne ==
    ASSUME NEW S \in SUBSET Op, NEW o \in Op, NEW T \in SUBSET (S \cup {o}), NEW n \in Nat,
           Cardinality(S) < n
    PROVE  Cardinality(T) <= n
<1>1. IsFiniteSet(S) /\ IsFiniteSet(S \cup {o}) /\ Cardinality(S) \in Nat
  BY ConstantsAssumption, FS_Subset, FS_AddElement, FS_CardinalityType
<1>2. Cardinality(S \cup {o}) <= Cardinality(S) + 1 /\ Cardinality(S \cup {o}) \in Nat
  <2>1. Cardinality(S \cup {o}) = IF o \in S THEN Cardinality(S) ELSE Cardinality(S) + 1
    BY <1>1, FS_AddElement
  <2> QED
    BY <1>1, <2>1
<1>3. S \cup {o} \in SUBSET Op /\ Cardinality(S \cup {o}) <= n
  BY <1>1, <1>2
<1> QED
  BY <1>3, Shrinks

\* Only an admission adds to the pending operations, and only a claim to the
\* active ones.
NoneAdded ==
    /\ PendingOps(operations') \subseteq PendingOps(operations)
    /\ \A a \in Actor : ActiveOf(operations', a) \subseteq ActiveOf(operations, a)

LEMMA NoneAddedHolds ==
    ASSUME LimitsHold, NoneAdded
    PROVE  LimitsHold'
<1>1. /\ MaxPendingGlobal \in Nat /\ MaxPendingActor \in Nat /\ MaxActiveActor \in Nat
  BY ConstantsAssumption
<1>2. Cardinality(PendingOps(operations')) <= MaxPendingGlobal
  <2>1. PendingOps(operations) \in SUBSET Op
    BY DEF PendingOps
  <2> QED
    BY <1>1, <2>1, Shrinks DEF LimitsHold, CapacityHolds, NoneAdded
<1>3. ASSUME NEW a \in Actor
      PROVE  /\ Cardinality({p \in PendingOps(operations') : ActorOf[p] = a}) <= MaxPendingActor
             /\ Cardinality(ActiveOf(operations', a)) <= MaxActiveActor
  <2> DEFINE S == {p \in PendingOps(operations) : ActorOf[p] = a}
             T == {p \in PendingOps(operations') : ActorOf[p] = a}
  <2>1. S \in SUBSET Op /\ T \in SUBSET S /\ Cardinality(S) <= MaxPendingActor
    BY DEF PendingOps, NoneAdded, LimitsHold, CapacityHolds
  <2>2. /\ ActiveOf(operations, a) \in SUBSET Op
        /\ ActiveOf(operations', a) \in SUBSET ActiveOf(operations, a)
        /\ Cardinality(ActiveOf(operations, a)) <= MaxActiveActor
    BY DEF ActiveOf, NoneAdded, LimitsHold, ActiveBounded
  <2> HIDE DEF S, T
  <2>3. Cardinality(T) <= MaxPendingActor
    BY <1>1, <2>1, Shrinks
  <2>4. Cardinality(ActiveOf(operations', a)) <= MaxActiveActor
    BY <1>1, <2>2, Shrinks
  <2> QED
    BY <2>3, <2>4 DEF T
<1> QED
  BY <1>2, <1>3 DEF LimitsHold, CapacityHolds, ActiveBounded, PendingOps, ActiveOf

\* The check of admit_inner and the insertion are one transaction.
LEMMA AdmitHolds ==
    ASSUME Inv, LimitsHold, NEW o \in Op, Admit(o)
    PROVE  LimitsHold'
<1> DEFINE n == [AbsentRow EXCEPT !.status = "queued"]
<1>1. /\ MaxPendingGlobal \in Nat /\ MaxPendingActor \in Nat /\ MaxActiveActor \in Nat
  BY ConstantsAssumption
<1>2. /\ operations \in [Op -> Row] /\ operations' = [operations EXCEPT ![o] = n]
      /\ n.status = "queued"
  BY DEF Admit, Commit, Inv, RowsOK, AbsentRow
<1>3. /\ \A p \in Op : operations'[p].status \in Pending => p = o \/ operations[p].status \in Pending
      /\ \A p \in Op : operations'[p].status \in Active => operations[p].status \in Active
  BY <1>2
<1>4. Cardinality(PendingOps(operations')) <= MaxPendingGlobal
  <2>1. PendingOps(operations) \in SUBSET Op /\ PendingOps(operations') \in SUBSET (PendingOps(operations) \cup {o})
    BY <1>3 DEF PendingOps
  <2> QED
    BY <1>1, <2>1, GrowsByOne DEF Admit
<1>5. ASSUME NEW a \in Actor
      PROVE  /\ Cardinality(PendingOf(operations', a)) <= MaxPendingActor
             /\ Cardinality(ActiveOf(operations', a)) <= MaxActiveActor
  <2>1. /\ PendingOf(operations, a) \in SUBSET Op
        /\ Cardinality(PendingOf(operations, a)) <= MaxPendingActor
    BY DEF PendingOf, PendingOps, LimitsHold, CapacityHolds
  <2>2. Cardinality(ActiveOf(operations', a)) <= MaxActiveActor
    <3>1. /\ ActiveOf(operations, a) \in SUBSET Op
          /\ ActiveOf(operations', a) \in SUBSET ActiveOf(operations, a)
          /\ Cardinality(ActiveOf(operations, a)) <= MaxActiveActor
      BY <1>3 DEF ActiveOf, LimitsHold, ActiveBounded
    <3> QED
      BY <1>1, <3>1, Shrinks
  <2>3. CASE ActorOf[o] = a
    <3>1. PendingOf(operations', a) \in SUBSET (PendingOf(operations, a) \cup {o})
      BY <1>3 DEF PendingOf, PendingOps
    <3>2. Cardinality(PendingOf(operations, a)) < MaxPendingActor
      BY <2>3 DEF Admit, PendingOf
    <3> QED
      BY <1>1, <2>1, <2>2, <3>1, <3>2, GrowsByOne
  <2>4. CASE ActorOf[o] # a
    <3>1. PendingOf(operations', a) \in SUBSET PendingOf(operations, a)
      BY <1>3, <2>4 DEF PendingOf, PendingOps
    <3> QED
      BY <1>1, <2>1, <2>2, <3>1, Shrinks
  <2> QED
    BY <2>3, <2>4
<1> QED
  BY <1>4, <1>5 DEF LimitsHold, CapacityHolds, ActiveBounded, PendingOf, PendingOps, ActiveOf

\* So are the count of claim_for_bot_select.sql and the claim, after the expiry.
LEMMA ClaimHolds ==
    ASSUME Inv, LimitsHold, NEW b, NEW o \in Op \cup {NoOp}, Claim(b, o)
    PROVE  LimitsHold'
<1> DEFINE Table(S) == [p \in Op |-> IF p \in S THEN ExpireRow(operations[p]) ELSE operations[p]]
<1>1. PICK S \in SUBSET Expired :
          \/ operations' = Table(S)
          \/ /\ o \in Op
             /\ Claimable(Table(S), b, o)
             /\ operations' = [Table(S) EXCEPT ![o] = ClaimRow(Table(S)[o], b)]
  BY DEF Claim, kSubset
<1> DEFINE t == Table(S)
<1>2. /\ \A p \in Op : t[p] = operations[p] \/ (operations[p].status \in Active /\ t[p] = ExpireRow(operations[p]))
      /\ t = [p \in Op |-> t[p]]
  BY DEF Expired
<1>3. \A p \in Op : /\ t[p] \in Row
                    /\ t[p].status \in Pending => operations[p].status \in Pending
                    /\ t[p].status \in Active => operations[p].status \in Active
  <2>1. \A p \in Op : operations[p].status \in Active => ExpireRow(operations[p]) \in Row
    BY ExpireRowOK DEF Inv, RowsOK, RowOK
  <2>2. \A r : r \in Row => ExpireRow(r).status \in Terminal \cup {"queued"}
    BY DEF ExpireRow, Released, ExpiredStatus, Row
  <2> HIDE DEF t
  <2> QED
    BY <1>2, <2>1, <2>2 DEF Inv, RowsOK
<1> HIDE DEF t
<1>4. CASE operations' = t
  <2>1. NoneAdded
    BY <1>3, <1>4 DEF NoneAdded, PendingOps, ActiveOf
  <2> QED
    BY <2>1, NoneAddedHolds
<1>5. CASE /\ o \in Op
           /\ Claimable(t, b, o)
           /\ operations' = [t EXCEPT ![o] = ClaimRow(t[o], b)]
  <2>1. /\ MaxPendingGlobal \in Nat /\ MaxPendingActor \in Nat /\ MaxActiveActor \in Nat
    BY ConstantsAssumption
  <2>2. /\ \A p \in Op : p # o => operations'[p] = t[p]
        /\ t[o].status = "queued"
    BY <1>2, <1>5 DEF Claimable
  <2>3. PendingOps(operations') \subseteq PendingOps(operations)
    BY <1>3, <2>2 DEF PendingOps
  <2>4. Cardinality(PendingOps(operations')) <= MaxPendingGlobal
    <3>1. PendingOps(operations) \in SUBSET Op
      BY DEF PendingOps
    <3> QED
      BY <2>1, <2>3, <3>1, Shrinks DEF LimitsHold, CapacityHolds
  <2>5. ASSUME NEW a \in Actor
        PROVE  /\ Cardinality(PendingOf(operations', a)) <= MaxPendingActor
               /\ Cardinality(ActiveOf(operations', a)) <= MaxActiveActor
    <3>1. /\ PendingOf(operations, a) \in SUBSET Op
          /\ PendingOf(operations', a) \in SUBSET PendingOf(operations, a)
          /\ Cardinality(PendingOf(operations, a)) <= MaxPendingActor
      BY <2>3 DEF PendingOf, PendingOps, LimitsHold, CapacityHolds
    <3>2. Cardinality(PendingOf(operations', a)) <= MaxPendingActor
      BY <2>1, <3>1, Shrinks
    <3>3. CASE ActorOf[o] = a
      <4>1. ActiveOf(t, a) \in SUBSET Op /\ ActiveOf(operations', a) \in SUBSET (ActiveOf(t, a) \cup {o})
        BY <2>2 DEF ActiveOf
      <4>2. Cardinality(ActiveOf(t, a)) < MaxActiveActor
        BY <1>5, <3>3 DEF Claimable
      <4> QED
        BY <1>5, <2>1, <3>2, <4>1, <4>2, GrowsByOne
    <3>4. CASE ActorOf[o] # a
      <4>1. /\ ActiveOf(operations, a) \in SUBSET Op
            /\ ActiveOf(operations', a) \in SUBSET ActiveOf(operations, a)
            /\ Cardinality(ActiveOf(operations, a)) <= MaxActiveActor
        BY <1>3, <2>2, <3>4 DEF ActiveOf, LimitsHold, ActiveBounded
      <4> QED
        BY <2>1, <3>2, <4>1, Shrinks
    <3> QED
      BY <3>3, <3>4
  <2> QED
    BY <2>4, <2>5 DEF LimitsHold, CapacityHolds, ActiveBounded, PendingOf, PendingOps, ActiveOf
<1> QED
  BY <1>1, <1>4, <1>5 DEF t

LEMMA NextHolds == Inv /\ LimitsHold /\ [Next]_vars => LimitsHold'
<1> SUFFICES ASSUME Inv, LimitsHold, [Next]_vars PROVE LimitsHold'
  OBVIOUS
<1>1. operations \in [Op -> Row]
  BY DEF Inv, RowsOK
<1>2. ASSUME NEW o \in Op, Admit(o) PROVE LimitsHold'
  BY <1>2, AdmitHolds
<1>3. ASSUME NEW o \in Op, RequestCancel(o) \/ LeaseExpires(o) \/ MakeAvailable(o)
      PROVE  LimitsHold'
  <2>1. NoneAdded
    <3>1. CASE RequestCancel(o)
      BY <1>1, <3>1 DEF RequestCancel, NoneAdded, PendingOps, ActiveOf, Row
    <3>2. CASE LeaseExpires(o)
      BY <1>1, <3>2 DEF LeaseExpires, NoneAdded, PendingOps, ActiveOf, Row
    <3>3. CASE MakeAvailable(o)
      BY <3>3 DEF MakeAvailable, NoneAdded, PendingOps, ActiveOf
    <3> QED
      BY <1>3, <3>1, <3>2, <3>3
  <2> QED
    BY <2>1, NoneAddedHolds
<1>4. ASSUME NEW b \in Bot \cup {NoBot}, NEW o \in Op \cup {NoOp}, Claim(b, o)
      PROVE  LimitsHold'
  BY <1>4, ClaimHolds
<1>5. ASSUME NEW o \in Op, NEW a \in 1..operations[o].attempt, Claimant(<<o, a>>)
      PROVE  LimitsHold'
  <2>1. a \in Nat
    BY <1>1 DEF Row
  <2>2. /\ operations[o].status \in Active
        /\ \E x : operations' = [operations EXCEPT ![o] = x]
    BY <1>5, <2>1, ClaimantKeeps
  <2>3. NoneAdded
    BY <1>1, <2>2 DEF NoneAdded, PendingOps, ActiveOf
  <2> QED
    BY <2>3, NoneAddedHolds
<1>6. CASE UNCHANGED vars
  BY <1>6 DEF vars, LimitsHold, CapacityHolds, ActiveBounded, PendingOps, ActiveOf
<1> QED
  BY <1>2, <1>3, <1>4, <1>5, <1>6 DEF Next

\* The limits of the policies hold in every reachable state, whatever returns to
\* the queue after the check.
THEOREM LimitsAlwaysHold == Spec => []LimitsHold
<1>1. Init => LimitsHold
  <2> SUFFICES ASSUME Init PROVE LimitsHold
    OBVIOUS
  <2>1. /\ PendingOps(operations) = {}
        /\ \A a \in Actor : /\ {o \in PendingOps(operations) : ActorOf[o] = a} = {}
                            /\ ActiveOf(operations, a) = {}
    BY DEF Init, PendingOps, ActiveOf, AbsentRow
  <2>2. Cardinality({}) = 0
    BY FS_EmptySet
  <2>3. /\ MaxPendingGlobal \in Nat /\ MaxPendingActor \in Nat /\ MaxActiveActor \in Nat
    BY ConstantsAssumption
  <2> QED
    BY <2>1, <2>2, <2>3 DEF LimitsHold, CapacityHolds, ActiveBounded
<1> QED
  BY <1>1, NextHolds, Invariance, PTL DEF Spec
=============================================================================
