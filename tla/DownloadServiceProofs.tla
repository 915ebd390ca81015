----------------------- MODULE DownloadServiceProofs -----------------------
(***************************************************************************)
(* The download service implements the queue: every step of its workers,   *)
(* of its surroundings and of its faults is a step of DownloadQueue or     *)
(* leaves the queue alone, so that the theorems of the queue hold of the   *)
(* service.                                                                *)
(*                                                                         *)
(* DownloadQueue lets a claimant of any attempt that was handed out call   *)
(* any statement with any legal argument.  WorkerOK says why a worker is   *)
(* such a claimant: its claim names an attempt of the row, its plan is one *)
(* of the possible plans until it has begun, and the unit it names is      *)
(* within the limit.                                                       *)
(*                                                                         *)
(* What the service records and reports agrees with the chat.  ChatInv     *)
(* ties the row of an operation to the messages in its chat, the requests  *)
(* that are still on the wire, and the workers that hold a claim of it:    *)
(* every message in the chat has its unit in the journal, every confirmed  *)
(* unit is in the chat, and whoever may still send or settle has an open   *)
(* unit of the row's own attempt, of which there is only one.              *)
(***************************************************************************)
EXTENDS DownloadService, DownloadQueueProofs, SequenceTheorems

\* What the heartbeat's channel may hold: the cancellation, at most once, while
\* the task runs, and one more event when it has ended.
BeatEvents == {s \in Seq(Event) : Len(s) <= 1 /\ \A i \in 1..Len(s) : s[i] = "cancelled"}
EndEvents == {s \in Seq(Event) : Len(s) <= 2}

Call == [retryable: BOOLEAN, code: BOOLEAN, strict: BOOLEAN]

WorkerState ==
    [pc: Step, claim: (Op \X Nat) \cup {NoClaim}, cached: BOOLEAN, plan: Seq(1..MaxUnit), ordinal: Nat,
     beat: BOOLEAN, events: EndEvents, beatFailed: BOOLEAN, cancelSeen: BOOLEAN,
     outcome: Outcome, reason: StopReason, call: Call]

\* A worker with the record r is a claimant the queue knows.
WorkerOK(r, table) ==
    /\ r.beat => r.events \in BeatEvents
    /\ r.pc \notin {"idle", "stopped"} =>
          r.claim \in Op \X Nat /\ 1 <= r.claim[2] /\ r.claim[2] <= table[r.claim[1]].attempt
    /\ r.pc \in {"authorize", "lookup", "execute"} => r.ordinal = 0
    /\ r.pc \in {"planned", "check", "begin"} => r.plan \in Plans
    /\ r.pc \in {"open", "announce", "send", "settle"} => r.plan # <<>>
    /\ r.ordinal + Len(r.plan) <= MaxArtifacts

ServiceInv ==
    /\ Inv
    /\ worker \in [Worker -> WorkerState]
    /\ \A w \in Worker : WorkerOK(worker[w], operations)
    /\ stopping \in BOOLEAN
    /\ faults \in 0..MaxFaults

USE DEF Step, Event, Outcome, StopReason

----------------------------------------------------------------------------
(* The records a worker may have next.                                     *)

LEMMA IdleOK ==
    ASSUME NEW table, NEW pc \in {"idle", "stopped"}
    PROVE  /\ IdleWorker \in WorkerState
           /\ [IdleWorker EXCEPT !.pc = pc] \in WorkerState
           /\ WorkerOK(IdleWorker, table)
           /\ WorkerOK([IdleWorker EXCEPT !.pc = pc], table)
<1>1. <<>> \in Seq(1..MaxUnit) /\ Len(<<>>) = 0 /\ <<>> \in Seq(Event)
  OBVIOUS
<1>2. IdleWorker \in WorkerState
  BY <1>1 DEF IdleWorker, WorkerState, Call, EndEvents
<1> DEFINE x == [IdleWorker EXCEPT !.pc = pc]
<1>3. /\ IdleWorker.pc = "idle" /\ IdleWorker.plan = <<>> /\ IdleWorker.ordinal = 0
      /\ IdleWorker.beat = FALSE
  BY DEF IdleWorker
<1>4. /\ x \in WorkerState
      /\ x.pc = pc /\ x.plan = <<>> /\ x.ordinal = 0 /\ x.beat = FALSE
  BY <1>2, <1>3 DEF WorkerState
<1> HIDE DEF x
<1>5. \A y : y.pc \in {"idle", "stopped"} /\ y.plan = <<>> /\ y.ordinal = 0 /\ y.beat = FALSE
              => WorkerOK(y, table)
  BY <1>1, ConstantsAssumption DEF WorkerOK
<1> QED
  BY <1>2, <1>3, <1>4, <1>5 DEF x

\* The worker moves on with its claim and its plan.
LEMMA GotoOK ==
    ASSUME NEW table, NEW r \in WorkerState, WorkerOK(r, table), NEW pc \in Step,
           r.pc \notin {"idle", "stopped"} \/ pc \in {"idle", "stopped"},
           pc \in {"authorize", "lookup", "execute"} => r.ordinal = 0,
           pc \in {"planned", "check", "begin"} => r.plan \in Plans,
           pc \in {"open", "announce", "send", "settle"} => r.plan # <<>>
    PROVE  LET x == [r EXCEPT !.pc = pc]
           IN  x \in WorkerState /\ WorkerOK(x, table)
  BY DEF WorkerState, WorkerOK

\* The worker moves on to a pending fail or to a pending stop.
LEMMA ToFailOK ==
    ASSUME NEW table, NEW r \in WorkerState, WorkerOK(r, table), r.pc \notin {"idle", "stopped"},
           NEW retryable \in BOOLEAN, NEW code \in BOOLEAN, NEW strict \in BOOLEAN
    PROVE  LET x == [r EXCEPT !.pc = "fail",
                              !.call = [retryable |-> retryable, code |-> code, strict |-> strict]]
           IN  x \in WorkerState /\ WorkerOK(x, table)
<1> DEFINE call == [retryable |-> retryable, code |-> code, strict |-> strict]
<1>1. call \in Call
  BY DEF Call
<1> HIDE DEF call
<1>2. [r EXCEPT !.pc = "fail", !.call = call] \in WorkerState
  BY <1>1 DEF WorkerState
<1>3. WorkerOK([r EXCEPT !.pc = "fail", !.call = call], table)
  BY DEF WorkerState, WorkerOK
<1> QED
  BY <1>2, <1>3 DEF call

LEMMA ToStopOK ==
    ASSUME NEW table, NEW r \in WorkerState, WorkerOK(r, table), r.pc \notin {"idle", "stopped"},
           NEW reason \in StopReason
    PROVE  LET x == [r EXCEPT !.pc = "stop", !.reason = reason]
           IN  x \in WorkerState /\ WorkerOK(x, table)
  BY DEF WorkerState, WorkerOK

\* The artifacts are there, from the cache or from the executor.
LEMMA PlannedOK ==
    ASSUME NEW table, NEW r \in WorkerState, WorkerOK(r, table), r.pc \in {"lookup", "execute"},
           NEW p \in Plans, NEW cached \in BOOLEAN
    PROVE  LET x == [r EXCEPT !.pc = "planned", !.cached = cached, !.plan = p]
               y == [r EXCEPT !.pc = "planned", !.plan = p]
           IN  x \in WorkerState /\ WorkerOK(x, table) /\ y \in WorkerState /\ WorkerOK(y, table)
<1>1. p \in Seq(1..MaxUnit) /\ Len(p) <= MaxArtifacts
  BY ServiceAssumption, ConstantsAssumption
<1>2. /\ [r EXCEPT !.pc = "planned", !.cached = cached, !.plan = p] \in WorkerState
      /\ [r EXCEPT !.pc = "planned", !.plan = p] \in WorkerState
  BY <1>1 DEF WorkerState
<1>3. 0 + Len(p) <= MaxArtifacts
  BY <1>1, ConstantsAssumption
<1>4. /\ WorkerOK([r EXCEPT !.pc = "planned", !.cached = cached, !.plan = p], table)
      /\ WorkerOK([r EXCEPT !.pc = "planned", !.plan = p], table)
  BY <1>3 DEF WorkerState, WorkerOK
<1> QED
  BY <1>2, <1>4

\* An outcome to be settled, or another one.
LEMMA ToSettleOK ==
    ASSUME NEW table, NEW r \in WorkerState, WorkerOK(r, table),
           r.pc \in {"announce", "send", "settle"}, NEW outcome \in Outcome
    PROVE  LET x == [r EXCEPT !.pc = "settle", !.outcome = outcome]
               y == [r EXCEPT !.outcome = outcome]
           IN  x \in WorkerState /\ WorkerOK(x, table) /\ y \in WorkerState /\ WorkerOK(y, table)
<1>1. /\ [r EXCEPT !.pc = "settle", !.outcome = outcome] \in WorkerState
      /\ [r EXCEPT !.outcome = outcome] \in WorkerState
  BY DEF WorkerState
<1>2. WorkerOK([r EXCEPT !.outcome = outcome], table)
  BY DEF WorkerState, WorkerOK
<1>3. WorkerOK([r EXCEPT !.pc = "settle", !.outcome = outcome], table)
  BY DEF WorkerState, WorkerOK
<1> QED
  BY <1>1, <1>2, <1>3

\* The next unit: the plan loses its head.
LEMMA AdvanceOK ==
    ASSUME NEW table, NEW r \in WorkerState, WorkerOK(r, table), r.pc = "settle"
    PROVE  LET x == [r EXCEPT !.pc = "unit", !.plan = Tail(@), !.ordinal = @ + 1, !.outcome = "none"]
           IN  x \in WorkerState /\ WorkerOK(x, table)
<1> DEFINE p == Tail(r.plan)
           k == r.ordinal + 1
<1>1. r.plan \in Seq(1..MaxUnit) /\ r.plan # <<>> /\ r.ordinal \in Nat
  BY DEF WorkerState, WorkerOK
<1>2. p \in Seq(1..MaxUnit) /\ Len(p) = Len(r.plan) - 1 /\ Len(r.plan) \in Nat /\ k \in Nat
  <2>1. p \in Seq(1..MaxUnit) /\ Len(p) = Len(r.plan) - 1
    BY <1>1, HeadTailProperties
  <2>2. Len(r.plan) \in Nat
    BY <1>1, LenProperties
  <2>3. k \in Nat
    BY <1>1
  <2> QED
    BY <2>1, <2>2, <2>3
<1>3. k + Len(p) <= MaxArtifacts
  <2>1. r.ordinal + Len(r.plan) <= MaxArtifacts
    BY DEF WorkerOK
  <2> QED
    BY <1>1, <1>2, <2>1, ConstantsAssumption
<1> HIDE DEF p, k
<1> DEFINE x == [r EXCEPT !.pc = "unit", !.plan = p, !.ordinal = k, !.outcome = "none"]
<1>4. x \in WorkerState
  BY <1>2 DEF WorkerState
<1>5. WorkerOK(x, table)
  BY <1>2, <1>3 DEF WorkerState, WorkerOK
<1> QED
  BY <1>4, <1>5 DEF p, k

\* The heartbeat reports, and goes on or ends.
LEMMA BeatOK ==
    ASSUME NEW table, NEW r \in WorkerState, WorkerOK(r, table), r.beat
    PROVE  /\ "cancelled" \notin ToSet(r.events) =>
                LET x == [r EXCEPT !.events = Append(@, "cancelled")]
                IN  x \in WorkerState /\ WorkerOK(x, table)
           /\ \A e \in {"stale", "database"} :
                LET x == [r EXCEPT !.events = Append(@, e), !.beat = FALSE]
                IN  x \in WorkerState /\ WorkerOK(x, table)
<1>1. r.events \in BeatEvents
  BY DEF WorkerOK
<1>2. r.events \in Seq(Event) /\ Len(r.events) \in Nat /\ Len(r.events) <= 1
  BY <1>1, LenProperties DEF BeatEvents
<1>3. ASSUME "cancelled" \notin ToSet(r.events)
      PROVE  LET x == [r EXCEPT !.events = Append(@, "cancelled")]
             IN  x \in WorkerState /\ WorkerOK(x, table)
  <2> DEFINE s == Append(r.events, "cancelled")
  <2>1. Len(r.events) = 0
    <3>1. DOMAIN r.events = 1..Len(r.events)
      BY <1>2, LenProperties
    <3>2. \A i \in 1..Len(r.events) : r.events[i] = "cancelled" /\ r.events[i] # "cancelled"
      BY <1>1, <1>3, <3>1 DEF ToSet, BeatEvents
    <3> QED
      BY <1>2, <3>2
  <2>2. s \in Seq(Event) /\ Len(s) = 1 /\ s[1] = "cancelled"
    <3>1. "cancelled" \in Event
      OBVIOUS
    <3>2. s \in Seq(Event) /\ Len(s) = Len(r.events) + 1 /\ s[Len(r.events) + 1] = "cancelled"
      BY <1>2, <3>1, AppendProperties
    <3> QED
      BY <2>1, <3>2
  <2> HIDE DEF s
  <2>3. s \in EndEvents /\ s \in BeatEvents
    <3>1. \A i \in 1..1 : i = 1
      OBVIOUS
    <3>2. \A i \in 1..Len(s) : s[i] = "cancelled"
      BY <2>2, <3>1
    <3>3. Len(s) <= 1 /\ Len(s) <= 2
      BY <2>2
    <3> QED
      BY <2>2, <3>2, <3>3, Zenon DEF EndEvents, BeatEvents
  <2>4. [r EXCEPT !.events = s] \in WorkerState
    BY <2>3 DEF WorkerState
  <2>5. WorkerOK([r EXCEPT !.events = s], table)
    BY <2>3 DEF WorkerState, WorkerOK
  <2> QED
    BY <2>4, <2>5 DEF s
<1>4. ASSUME NEW e \in {"stale", "database"}
      PROVE  LET x == [r EXCEPT !.events = Append(@, e), !.beat = FALSE]
             IN  x \in WorkerState /\ WorkerOK(x, table)
  <2> DEFINE s == Append(r.events, e)
  <2>1. s \in Seq(Event) /\ Len(s) <= 2
    BY <1>2, AppendProperties
  <2>2. s \in EndEvents
    BY <2>1 DEF EndEvents
  <2> HIDE DEF s
  <2>3. [r EXCEPT !.events = s, !.beat = FALSE] \in WorkerState
    BY <2>2 DEF WorkerState
  <2>4. WorkerOK([r EXCEPT !.events = s, !.beat = FALSE], table)
    BY DEF WorkerState, WorkerOK
  <2> QED
    BY <2>3, <2>4 DEF s
<1> QED
  BY <1>3, <1>4

\* The worker takes the first event of the channel.
LEMMA HearOK ==
    ASSUME NEW table, NEW r \in WorkerState, WorkerOK(r, table), r.events # <<>>,
           NEW c \in BOOLEAN, NEW b \in BOOLEAN
    PROVE  LET x == [r EXCEPT !.events = Tail(@), !.cancelSeen = c, !.beatFailed = b]
           IN  x \in WorkerState /\ WorkerOK(x, table)
<1> DEFINE s == Tail(r.events)
<1>1. r.events \in Seq(Event) /\ Len(r.events) \in Nat /\ Len(r.events) <= 2
  BY LenProperties DEF WorkerState, EndEvents
<1>2. s \in Seq(Event) /\ Len(s) = Len(r.events) - 1
  BY <1>1, HeadTailProperties
<1>3. s \in EndEvents
  BY <1>1, <1>2 DEF EndEvents
<1>4. r.beat => s \in BeatEvents
  BY <1>1, <1>2 DEF WorkerOK, BeatEvents
<1> HIDE DEF s
<1>5. [r EXCEPT !.events = s, !.cancelSeen = c, !.beatFailed = b] \in WorkerState
  BY <1>3 DEF WorkerState
<1>6. WorkerOK([r EXCEPT !.events = s, !.cancelSeen = c, !.beatFailed = b], table)
  BY <1>4 DEF WorkerState, WorkerOK
<1> QED
  BY <1>5, <1>6 DEF s

----------------------------------------------------------------------------
(* Steps.                                                                  *)

\* A worker's record stays good while the queue moves on: attempts only grow.
LEMMA LaterOK ==
    ASSUME Inv, [Next]_vars, NEW r \in WorkerState, WorkerOK(r, operations)
    PROVE  WorkerOK(r, operations')
<1>1. CASE r.pc \in {"idle", "stopped"}
  BY <1>1 DEF WorkerOK
<1>2. CASE r.pc \notin {"idle", "stopped"}
  <2>1. r.claim \in Op \X Nat /\ r.claim[1] \in Op /\ r.claim[2] \in Nat
    BY <1>2 DEF WorkerOK
  <2>2. /\ operations'[r.claim[1]].attempt >= operations[r.claim[1]].attempt
        /\ operations[r.claim[1]].attempt \in Nat /\ operations'[r.claim[1]].attempt \in Nat
    <3>1. operations[r.claim[1]] \in Row /\ operations'[r.claim[1]] \in Row
      BY <2>1, NextInv DEF Inv, RowsOK
    <3> QED
      BY <2>1, <3>1, StepIsFinal DEF FinalRow, Row
  <2>3. r.claim[2] <= operations'[r.claim[1]].attempt
    BY <1>2, <2>1, <2>2 DEF WorkerOK
  <2> QED
    BY <1>2, <2>3 DEF WorkerOK
<1> QED
  BY <1>1, <1>2

\* Worker w gets the record x and the queue takes a step, or none.
Moves(w, x) == worker' = [worker EXCEPT ![w] = x] /\ x \in WorkerState /\ WorkerOK(x, operations')

LEMMA MovesOK ==
    ASSUME ServiceInv, [Next]_vars, NEW w \in Worker, NEW x, Moves(w, x),
           stopping' \in BOOLEAN, faults' \in 0..MaxFaults
    PROVE  ServiceInv'
<1>1. Inv'
  BY NextInv DEF ServiceInv
<1>2. worker' \in [Worker -> WorkerState]
  BY DEF ServiceInv, Moves
<1>3. ASSUME NEW v \in Worker PROVE WorkerOK(worker'[v], operations')
  <2>1. CASE v = w
    BY <2>1 DEF ServiceInv, Moves
  <2>2. CASE v # w
    <3>1. worker'[v] = worker[v] /\ worker[v] \in WorkerState /\ WorkerOK(worker[v], operations)
      BY <2>2 DEF ServiceInv, Moves
    <3> QED
      BY <3>1, LaterOK DEF ServiceInv
  <2> QED
    BY <2>1, <2>2
<1> QED
  BY <1>1, <1>2, <1>3 DEF ServiceInv

\* A claimant's statement is a step of the queue.
LEMMA ClaimantSteps ==
    ASSUME ServiceInv, NEW w \in Worker, worker[w].pc \notin {"idle", "stopped"}
    PROVE  /\ Claimant(ClaimOf(w)) => Next
           /\ OpOf(w) \in Op
<1>1. /\ worker[w].claim \in Op \X Nat
      /\ 1 <= worker[w].claim[2] /\ worker[w].claim[2] <= operations[worker[w].claim[1]].attempt
  BY DEF ServiceInv, WorkerOK
<1> DEFINE o == worker[w].claim[1]
           a == worker[w].claim[2]
<1>2. o \in Op /\ a \in Nat /\ worker[w].claim = <<o, a>>
  BY <1>1
<1>3. operations[o].attempt \in Nat
  BY <1>2 DEF ServiceInv, Inv, RowsOK, Row
<1>4. a \in 1..operations[o].attempt
  BY <1>1, <1>2, <1>3
<1>5. ClaimOf(w) = <<o, a>> /\ OpOf(w) = o
  BY <1>2 DEF ClaimOf, OpOf
<1> HIDE DEF o, a
<1> QED
  BY <1>2, <1>4, <1>5 DEF Next

\* A step that leaves the queue alone.
LEMMA Quiet == QueueSame => [Next]_vars
  BY DEF QueueSame, vars

\* The ways on from an action, whatever step of the queue it contains.
LEMMA WaysOn ==
    ASSUME ServiceInv, [Next]_vars, NEW w \in Worker, faults' \in 0..MaxFaults
    PROVE  /\ Leave(w) => ServiceInv'
           /\ Die(w) => ServiceInv'
           /\ worker[w].pc \notin {"idle", "stopped"} /\ stopping' = stopping =>
                /\ \A a, b, c \in BOOLEAN : ToFail(w, a, b, c) => ServiceInv'
                /\ \A reason \in StopReason : ToStop(w, reason) => ServiceInv'
                /\ \A pc \in {"ack", "unit", "stopped"} : Goto(w, pc) => ServiceInv'
                /\ worker[w].pc = "authorize" /\ Goto(w, "lookup") => ServiceInv'
                /\ worker[w].pc = "lookup" /\ Goto(w, "execute") => ServiceInv'
                /\ worker[w].pc = "planned" /\ Goto(w, "check") => ServiceInv'
                /\ worker[w].pc = "check" /\ Goto(w, "begin") => ServiceInv'
                /\ worker[w].pc = "unit" /\ worker[w].plan # <<>> /\ Goto(w, "open") => ServiceInv'
                /\ worker[w].pc = "open" /\ Goto(w, "announce") => ServiceInv'
                /\ worker[w].pc = "announce" /\ Goto(w, "send") => ServiceInv'
<1> DEFINE r == worker[w]
<1>1. /\ r \in WorkerState /\ WorkerOK(r, operations) /\ WorkerOK(r, operations')
      /\ stopping \in BOOLEAN
  BY LaterOK DEF ServiceInv
<1>2. ASSUME Leave(w) PROVE ServiceInv'
  <2>1. Moves(w, IdleWorker) /\ stopping' = stopping
    BY <1>2, IdleOK DEF Moves, Leave, Become
  <2> QED
    BY <1>1, <2>1, MovesOK
<1>3. ASSUME Die(w) PROVE ServiceInv'
  <2>1. Moves(w, [IdleWorker EXCEPT !.pc = "stopped"]) /\ stopping' = TRUE
    BY <1>3, IdleOK DEF Moves, Die, Become
  <2> QED
    BY <2>1, MovesOK
<1>4. ASSUME r.pc \notin {"idle", "stopped"}, stopping' = stopping,
             NEW a \in BOOLEAN, NEW b \in BOOLEAN, NEW c \in BOOLEAN, ToFail(w, a, b, c)
      PROVE  ServiceInv'
  <2> DEFINE x == [r EXCEPT !.pc = "fail", !.call = [retryable |-> a, code |-> b, strict |-> c]]
  <2>1. Become(w, x)
    BY <1>4 DEF ToFail
  <2>2. x \in WorkerState /\ WorkerOK(x, operations')
    BY <1>1, <1>4, ToFailOK
  <2> HIDE DEF x
  <2> QED
    BY <1>1, <1>4, <2>1, <2>2, MovesOK DEF Moves, Become
<1>5. ASSUME r.pc \notin {"idle", "stopped"}, stopping' = stopping,
             NEW reason \in StopReason, ToStop(w, reason)
      PROVE  ServiceInv'
  <2> DEFINE x == [r EXCEPT !.pc = "stop", !.reason = reason]
  <2>1. Become(w, x)
    BY <1>5 DEF ToStop
  <2>2. x \in WorkerState /\ WorkerOK(x, operations')
    BY <1>1, <1>5, ToStopOK
  <2> HIDE DEF x
  <2> QED
    BY <1>1, <1>5, <2>1, <2>2, MovesOK DEF Moves, Become
<1>6. ASSUME r.pc \notin {"idle", "stopped"}, stopping' = stopping,
             NEW pc \in Step, Goto(w, pc),
             pc \in {"authorize", "lookup", "execute"} => r.ordinal = 0,
             pc \in {"planned", "check", "begin"} => r.plan \in Plans,
             pc \in {"open", "announce", "send", "settle"} => r.plan # <<>>
      PROVE  ServiceInv'
  <2> DEFINE x == [r EXCEPT !.pc = pc]
  <2>1. Become(w, x)
    BY <1>6 DEF Goto
  <2>2. x \in WorkerState /\ WorkerOK(x, operations')
    BY <1>1, <1>6, GotoOK
  <2> HIDE DEF x
  <2> QED
    BY <1>1, <1>6, <2>1, <2>2, MovesOK DEF Moves, Become
<1>7. /\ r.pc \in {"authorize", "lookup", "execute"} => r.ordinal = 0
      /\ r.pc \in {"planned", "check", "begin"} => r.plan \in Plans
      /\ r.pc \in {"open", "announce", "send", "settle"} => r.plan # <<>>
  BY <1>1 DEF WorkerOK
<1> QED
  BY <1>2, <1>3, <1>4, <1>5, <1>6, <1>7

\* A claim hands out an attempt of its own.
LEMMA ClaimedAttempt ==
    ASSUME Inv, NEW b, NEW o \in Op, Claim(b, o)
    PROVE  operations'[o].attempt # 0
<1> DEFINE Table(S) == [q \in Op |-> IF q \in S THEN ExpireRow(operations[q]) ELSE operations[q]]
<1>1. PICK S \in SUBSET Expired : operations' = [Table(S) EXCEPT ![o] = ClaimRow(Table(S)[o], b)]
  BY ConstantsAssumption DEF Claim, kSubset
<1>2. Table(S)[o] \in Row
  BY ExpireRowOK DEF Inv, RowsOK, RowOK, Expired
<1>3. operations'[o] = ClaimRow(Table(S)[o], b)
  BY <1>1
<1> HIDE DEF Table
<1>4. ClaimRow(Table(S)[o], b).attempt = Table(S)[o].attempt + 1 /\ Table(S)[o].attempt \in Nat
  BY <1>2 DEF ClaimRow, Row
<1> QED
  BY <1>3, <1>4

\* The worker loop and the heartbeat.
LEMMA LoopSteps ==
    ASSUME ServiceInv, NEW w \in Worker, Poll(w) \/ Exit(w) \/ TakeEvent(w) \/ HearEvent(w)
    PROVE  [Next]_vars /\ ServiceInv'
<1> DEFINE r == worker[w]
<1>1. /\ r \in WorkerState /\ WorkerOK(r, operations)
      /\ stopping \in BOOLEAN /\ faults \in 0..MaxFaults
  BY DEF ServiceInv
<1>2. CASE Poll(w)
  <2>1. PICK o \in Op \cup {NoOp} :
            /\ Claim(OurBot, o)
            /\ IF o = NoOp THEN UNCHANGED worker
               ELSE Become(w, [IdleWorker EXCEPT !.pc = "authorize",
                                                 !.claim = <<o, operations'[o].attempt>>,
                                                 !.beat = TRUE])
    BY <1>2 DEF Poll
  <2>2. [Next]_vars
    BY <2>1, ServiceAssumption DEF Next
  <2>3. stopping' = stopping /\ faults' = faults
    BY <1>2 DEF Poll, ChatSame
  <2>4. CASE o = NoOp
    <3>1. worker' = worker
      BY <2>1, <2>4
    <3>2. Inv' /\ \A v \in Worker : WorkerOK(worker'[v], operations')
      BY <2>2, <3>1, NextInv, LaterOK DEF ServiceInv
    <3> QED
      BY <2>2, <2>3, <3>1, <3>2 DEF ServiceInv
  <2>5. CASE o # NoOp
    <3> DEFINE n == operations'[o].attempt
               x == [IdleWorker EXCEPT !.pc = "authorize", !.claim = <<o, n>>, !.beat = TRUE]
    <3>1. o \in Op
      BY <2>1, <2>5
    <3>2. n \in Nat /\ n >= 1
      <4>1. Inv' /\ operations'[o] \in Row
        BY <2>2, <3>1, NextInv DEF ServiceInv, Inv, RowsOK
      <4>2. n \in Nat
        BY <4>1 DEF Row
      <4>3. n # 0
        BY <2>1, <3>1, ClaimedAttempt DEF ServiceInv
      <4> QED
        BY <4>2, <4>3
    <3>3. Become(w, x)
      BY <2>1, <2>5
    <3>4. x \in WorkerState /\ WorkerOK(x, operations')
      <4> HIDE DEF n
      <4>1. <<o, n>> \in Op \X Nat /\ <<o, n>>[1] = o /\ <<o, n>>[2] = n
        BY <3>1, <3>2
      <4>2. n <= operations'[o].attempt
        BY <3>2 DEF n
      <4> DEFINE c == <<o, n>>
      <4> HIDE DEF c
      <4>3. c \in Op \X Nat /\ 1 <= c[2] /\ c[2] <= operations'[c[1]].attempt
        BY <3>2, <4>1, <4>2 DEF c
      <4>4. <<>> \in Seq(1..MaxUnit) /\ Len(<<>>) = 0 /\ <<>> \in BeatEvents
        BY DEF BeatEvents
      <4> DEFINE y == [IdleWorker EXCEPT !.pc = "authorize", !.claim = c, !.beat = TRUE]
      <4>5. IdleWorker \in WorkerState
        BY IdleOK
      <4>6. /\ IdleWorker.plan = <<>> /\ IdleWorker.ordinal = 0 /\ IdleWorker.events = <<>>
        BY DEF IdleWorker
      <4>7. y \in WorkerState
        BY <4>3, <4>5 DEF WorkerState
      <4>8. /\ y.pc = "authorize" /\ y.claim = c /\ y.plan = <<>> /\ y.ordinal = 0
            /\ y.events = <<>>
        BY <4>5, <4>6 DEF WorkerState
      <4> HIDE DEF y
      <4>9. WorkerOK(y, operations')
        BY <4>3, <4>4, <4>8, ConstantsAssumption DEF WorkerOK
      <4> QED
        BY <4>7, <4>9 DEF y, c
    <3> HIDE DEF x
    <3> QED
      BY <1>1, <2>2, <2>3, <3>3, <3>4, MovesOK DEF Moves, Become
  <2> QED
    BY <2>4, <2>5
<1>3. CASE Exit(w)
  <2>1. [Next]_vars /\ faults' = faults /\ stopping' = stopping
    BY <1>3, Quiet DEF Exit, ChatSame
  <2>2. LET x == [r EXCEPT !.pc = "stopped"] IN x \in WorkerState /\ WorkerOK(x, operations')
    BY <1>1, <2>1, LaterOK, GotoOK DEF ServiceInv
  <2> QED
    BY <1>1, <1>3, <2>1, <2>2, MovesOK DEF Exit, Goto, Become, Moves
<1>4. CASE TakeEvent(w)
  <2>1. [Next]_vars /\ faults' = faults
    BY <1>4, Quiet DEF TakeEvent, ChatSame
  <2> QED
    BY <1>1, <1>4, <2>1, WaysOn DEF TakeEvent
<1>5. CASE HearEvent(w)
  <2>1. [Next]_vars /\ faults' = faults /\ stopping' = stopping
    BY <1>5, Quiet DEF HearEvent, ChatSame
  <2> DEFINE c == r.cancelSeen \/ Head(r.events) = "cancelled"
             b == r.beatFailed \/ Head(r.events) # "cancelled"
             x == [r EXCEPT !.events = Tail(@), !.cancelSeen = c, !.beatFailed = b]
  <2>2. Become(w, x) /\ r.events # <<>>
    BY <1>5 DEF HearEvent
  <2>3. c \in BOOLEAN /\ b \in BOOLEAN
    BY <1>1 DEF WorkerState
  <2>4. WorkerOK(r, operations')
    BY <1>1, <2>1, LaterOK DEF ServiceInv
  <2> HIDE DEF c, b
  <2>5. x \in WorkerState /\ WorkerOK(x, operations')
    BY <1>1, <2>2, <2>3, <2>4, HearOK
  <2> HIDE DEF x
  <2> QED
    BY <1>1, <2>1, <2>2, <2>5, MovesOK DEF Moves, Become
<1> QED
  BY <1>2, <1>3, <1>4, <1>5

\* process_claim up to the delivery.
LEMMA PrepareSteps ==
    ASSUME ServiceInv, NEW w \in Worker,
           \/ Authorize(w) \/ Lookup(w) \/ Execute(w) \/ ProgressStale(w) \/ Interrupt(w)
           \/ FailCall(w) \/ AckCall(w) \/ Check(w) \/ Begin(w)
    PROVE  [Next]_vars /\ ServiceInv'
<1> DEFINE r == worker[w]
<1>1. /\ r \in WorkerState /\ WorkerOK(r, operations)
      /\ stopping \in BOOLEAN /\ faults \in 0..MaxFaults
  BY DEF ServiceInv
<1>2. faults' = faults
  BY DEF Authorize, Lookup, Execute, ProgressStale, Interrupt, FailCall, AckCall, Check, Begin, ChatSame
<1>3. r.pc \notin {"idle", "stopped"}
  BY DEF Authorize, Lookup, Execute, ProgressStale, Interrupt, FailCall, AckCall, Check, Begin, At
<1>4. CASE Authorize(w)
  <2>1. [Next]_vars /\ stopping' = stopping
    BY <1>4, Quiet DEF Authorize
  <2> QED
    BY <1>1, <1>2, <1>3, <1>4, <2>1, WaysOn DEF Authorize, At
<1>5. CASE Lookup(w)
  <2>1. [Next]_vars /\ stopping' = stopping /\ r.pc = "lookup"
    BY <1>5, Quiet DEF Lookup, At
  <2>2. ASSUME NEW p \in Plans, Become(w, [r EXCEPT !.pc = "planned", !.cached = TRUE, !.plan = p])
        PROVE  ServiceInv'
    <3> DEFINE x == [r EXCEPT !.pc = "planned", !.cached = TRUE, !.plan = p]
    <3>1. x \in WorkerState /\ WorkerOK(x, operations')
      BY <1>1, <2>1, LaterOK, PlannedOK DEF ServiceInv
    <3>2. Become(w, x)
      BY <2>2
    <3> HIDE DEF x
    <3> QED
      BY <1>1, <1>2, <2>1, <3>1, <3>2, MovesOK DEF Moves, Become
  <2> QED
    BY <1>1, <1>2, <1>3, <1>5, <2>1, <2>2, WaysOn DEF Lookup
<1>6. CASE Execute(w)
  <2>1. [Next]_vars /\ stopping' = stopping /\ r.pc = "execute"
    BY <1>6, Quiet DEF Execute, At
  <2>2. ASSUME NEW p \in Plans, Become(w, [r EXCEPT !.pc = "planned", !.plan = p])
        PROVE  ServiceInv'
    <3> DEFINE x == [r EXCEPT !.pc = "planned", !.plan = p]
    <3>1. x \in WorkerState /\ WorkerOK(x, operations')
      BY <1>1, <2>1, LaterOK, PlannedOK DEF ServiceInv
    <3>2. Become(w, x)
      BY <2>2
    <3> HIDE DEF x
    <3> QED
      BY <1>1, <1>2, <2>1, <3>1, <3>2, MovesOK DEF Moves, Become
  <2> QED
    BY <1>1, <1>2, <1>3, <1>6, <2>1, <2>2, WaysOn DEF Execute
<1>7. CASE ProgressStale(w)
  <2>1. [Next]_vars
    BY <1>7, Quiet DEF ProgressStale
  <2> QED
    BY <1>1, <1>2, <1>7, <2>1, WaysOn DEF ProgressStale
<1>8. CASE Interrupt(w)
  <2>1. [Next]_vars /\ stopping' = stopping
    BY <1>8, Quiet DEF Interrupt
  <2> QED
    BY <1>1, <1>2, <1>3, <1>8, <2>1, WaysOn DEF Interrupt
<1>9. CASE FailCall(w)
  <2>1. r.call.retryable \in BOOLEAN /\ r.call.code \in BOOLEAN
    BY <1>1 DEF WorkerState, Call
  <2>2. [Next]_vars
    <3>1. CASE Fail(ClaimOf(w), r.call.retryable, r.call.code)
      BY <1>3, <2>1, <3>1, ClaimantSteps DEF Claimant
    <3> QED
      BY <1>9, <3>1, Quiet DEF FailCall
  <2> QED
    BY <1>1, <1>2, <1>9, <2>2, WaysOn DEF FailCall
<1>10. CASE AckCall(w)
  <2>1. [Next]_vars
    BY <1>3, <1>10, Quiet, ClaimantSteps DEF AckCall, Claimant
  <2> QED
    BY <1>1, <1>2, <1>10, <2>1, WaysOn DEF AckCall
<1>11. CASE Check(w)
  <2>1. [Next]_vars /\ stopping' = stopping
    BY <1>11, Quiet DEF Check
  <2> QED
    BY <1>1, <1>2, <1>3, <1>11, <2>1, WaysOn DEF Check, At
<1>12. CASE Begin(w)
  <2>1. TotalOf(r.plan) \in 1..MaxArtifacts
    BY <1>1, <1>12, ServiceAssumption DEF Begin, At, WorkerOK
  <2>2. [Next]_vars
    <3>1. CASE BeginBatch(ClaimOf(w), TotalOf(r.plan))
      BY <1>3, <2>1, <3>1, ClaimantSteps DEF Claimant
    <3> QED
      BY <1>12, <3>1, Quiet DEF Begin
  <2> QED
    BY <1>1, <1>2, <1>3, <1>12, <2>2, WaysOn DEF Begin
<1> QED
  BY <1>4, <1>5, <1>6, <1>7, <1>8, <1>9, <1>10, <1>11, <1>12

\* The delivery loop.
LEMMA DeliverySteps ==
    ASSUME ServiceInv, NEW w \in Worker,
           NextUnit(w) \/ StopCall(w) \/ Open(w) \/ Announce(w) \/ Answer(w) \/ Settle(w)
    PROVE  [Next]_vars /\ ServiceInv'
<1> DEFINE r == worker[w]
<1>1. /\ r \in WorkerState /\ WorkerOK(r, operations)
      /\ stopping \in BOOLEAN /\ faults \in 0..MaxFaults
  BY DEF ServiceInv
<1>2. faults' = faults
  BY DEF NextUnit, StopCall, Open, Announce, Answer, Settle, ChatSame, ToSettle
<1>3. r.pc \in {"unit", "stop", "open", "announce", "send", "settle"}
  BY DEF NextUnit, StopCall, Open, Announce, Answer, Settle, At
<1>4. r.pc \in {"open", "announce", "send", "settle"} =>
          r.ordinal \in 0..(MaxArtifacts - 1) /\ Head(r.plan) \in 1..MaxUnit
  <2> SUFFICES ASSUME r.pc \in {"open", "announce", "send", "settle"}
               PROVE  r.ordinal \in 0..(MaxArtifacts - 1) /\ Head(r.plan) \in 1..MaxUnit
    OBVIOUS
  <2>1. /\ r.plan \in Seq(1..MaxUnit) /\ r.plan # <<>> /\ r.ordinal \in Nat
        /\ r.ordinal + Len(r.plan) <= MaxArtifacts
    BY <1>1 DEF WorkerState, WorkerOK
  <2>2. Len(r.plan) \in Nat /\ Len(r.plan) # 0 /\ Head(r.plan) \in 1..MaxUnit
    BY <2>1, LenProperties, HeadTailProperties, EmptySeq
  <2> QED
    BY <2>1, <2>2, ConstantsAssumption
<1>5. ASSUME NEW outcome \in Outcome, r.pc \in {"announce", "send"}, ToSettle(w, outcome)
      PROVE  [Next]_vars /\ ServiceInv'
  <2>1. [Next]_vars /\ stopping' = stopping
    BY <1>5, Quiet DEF ToSettle
  <2> DEFINE x == [r EXCEPT !.pc = "settle", !.outcome = outcome]
  <2>2. x \in WorkerState /\ WorkerOK(x, operations')
    BY <1>1, <1>5, <2>1, LaterOK, ToSettleOK DEF ServiceInv
  <2>3. Become(w, x)
    BY <1>5 DEF ToSettle
  <2> HIDE DEF x
  <2> QED
    BY <1>1, <1>2, <2>1, <2>2, <2>3, MovesOK DEF Moves, Become
<1>6. CASE NextUnit(w)
  <2>1. [Next]_vars /\ r.pc = "unit"
    BY <1>6, Quiet DEF NextUnit, At
  <2>2. CASE r.plan = <<>>
    BY <1>1, <1>2, <1>6, <2>1, <2>2, WaysOn DEF NextUnit
  <2>3. CASE r.plan # <<>>
    <3>1. /\ stopping' = stopping
          /\ \/ Goto(w, "open")
             \/ \E reason \in StopReason : ToStop(w, reason)
      BY <1>6, <2>3 DEF NextUnit
    <3> QED
      BY <1>1, <1>2, <2>1, <2>3, <3>1, WaysOn
  <2> QED
    BY <2>2, <2>3
<1>7. CASE StopCall(w)
  <2>1. r.reason \in StopReason
    BY <1>1 DEF WorkerState
  <2>2. [Next]_vars
    <3>1. CASE StopBatch(ClaimOf(w), r.reason)
      BY <1>3, <2>1, <3>1, ClaimantSteps DEF Claimant
    <3> QED
      BY <1>7, <3>1, Quiet DEF StopCall
  <2> QED
    BY <1>1, <1>2, <1>7, <2>2, WaysOn DEF StopCall
<1>8. CASE Open(w)
  <2>1. r.pc = "open"
    BY <1>8 DEF Open, At
  <2>2. [Next]_vars
    <3>1. CASE BeginUnit(ClaimOf(w), r.ordinal, Head(r.plan))
      BY <1>4, <2>1, <3>1, ClaimantSteps DEF Claimant
    <3> QED
      BY <1>8, <3>1, Quiet DEF Open
  <2> QED
    BY <1>1, <1>2, <1>8, <2>1, <2>2, WaysOn DEF Open
<1>9. CASE Announce(w)
  <2>1. r.pc = "announce"
    BY <1>9 DEF Announce, At
  <2>2. CASE \E outcome \in Outcome : ToSettle(w, outcome)
    BY <1>5, <2>1, <2>2
  <2>3. CASE Goto(w, "send") /\ stopping' = stopping /\ QueueSame
    BY <1>1, <1>2, <2>1, <2>3, Quiet, WaysOn
  <2> QED
    BY <1>9, <2>2, <2>3 DEF Announce
<1>10. CASE Answer(w)
  <2>1. r.pc = "send" /\ \E outcome \in Outcome : ToSettle(w, outcome)
    BY <1>10 DEF Answer, At
  <2> QED
    BY <1>5, <2>1
<1>11. CASE Settle(w)
  <2>1. r.pc = "settle"
    BY <1>11 DEF Settle, At
  <2>2. [Next]_vars
    <3>1. ASSUME \/ CompleteUnit(ClaimOf(w), r.ordinal) \/ UnknownUnit(ClaimOf(w), r.ordinal)
                 \/ \E after \in 0..1 : RejectUnit(ClaimOf(w), r.ordinal, after)
                 \/ RequeueInvalidCache(ClaimOf(w))
          PROVE  Next
      <4>1. r.ordinal \in 0..(MaxArtifacts - 1) /\ r.pc \notin {"idle", "stopped"}
        BY <1>4, <2>1
      <4> HIDE DEF r
      <4>2. Claimant(ClaimOf(w))
        BY <3>1, <4>1 DEF Claimant
      <4> QED
        BY <4>1, <4>2, ClaimantSteps DEF r
    <3>2. 0 \in 0..1 /\ 1 \in 0..1
      OBVIOUS
    <3> QED
      BY <1>11, <3>1, <3>2, Quiet DEF Settle
  <2>3. CASE Advance(w)
    <3> DEFINE x == [r EXCEPT !.pc = "unit", !.plan = Tail(@), !.ordinal = @ + 1, !.outcome = "none"]
    <3>1. Become(w, x) /\ stopping' = stopping
      BY <2>3 DEF Advance
    <3>2. x \in WorkerState /\ WorkerOK(x, operations')
      BY <1>1, <2>1, <2>2, LaterOK, AdvanceOK DEF ServiceInv
    <3> HIDE DEF x
    <3> QED
      BY <1>1, <1>2, <2>2, <3>1, <3>2, MovesOK DEF Moves, Become
  <2>4. CASE Become(w, [r EXCEPT !.outcome = "rejected"]) /\ stopping' = stopping
    <3> DEFINE x == [r EXCEPT !.outcome = "rejected"]
    <3>1. x \in WorkerState /\ WorkerOK(x, operations')
      BY <1>1, <2>1, <2>2, LaterOK, ToSettleOK DEF ServiceInv
    <3>2. Become(w, x)
      BY <2>4
    <3> HIDE DEF x
    <3> QED
      BY <1>1, <1>2, <2>2, <2>4, <3>1, <3>2, MovesOK DEF Moves, Become
  <2>5. CASE Leave(w)
    BY <1>1, <1>2, <2>2, <2>5, WaysOn
  <2> QED
    BY <1>11, <2>2, <2>3, <2>4, <2>5 DEF Settle
<1> QED
  BY <1>6, <1>7, <1>8, <1>9, <1>10, <1>11

\* The heartbeat task.
LEMMA HeartbeatSteps ==
    ASSUME ServiceInv, NEW w \in Worker, Heartbeat(w) \/ HeartbeatError(w)
    PROVE  [Next]_vars /\ ServiceInv'
<1> DEFINE r == worker[w]
<1>1. /\ r \in WorkerState /\ WorkerOK(r, operations)
      /\ stopping \in BOOLEAN /\ faults \in 0..MaxFaults /\ MaxFaults \in Nat
  BY ServiceAssumption DEF ServiceInv
<1>2. [Next]_vars /\ stopping' = stopping /\ r.beat
  BY Quiet DEF Heartbeat, HeartbeatError
<1>3. faults' \in 0..MaxFaults
  BY <1>1 DEF Heartbeat, HeartbeatError, ChatSame
<1>4. WorkerOK(r, operations')
  BY <1>1, <1>2, LaterOK DEF ServiceInv
<1> DEFINE Beats(e) == [r EXCEPT !.events = Append(@, e)]
           Ends(e) == [r EXCEPT !.events = Append(@, e), !.beat = FALSE]
<1>5. CASE "cancelled" \notin ToSet(r.events) /\ Become(w, Beats("cancelled"))
  <2>1. Beats("cancelled") \in WorkerState /\ WorkerOK(Beats("cancelled"), operations')
    BY <1>1, <1>2, <1>4, <1>5, BeatOK
  <2> HIDE DEF Beats
  <2> QED
    BY <1>1, <1>2, <1>3, <1>5, <2>1, MovesOK DEF Moves, Become
<1>6. ASSUME NEW e \in {"stale", "database"}, Become(w, Ends(e))
      PROVE  ServiceInv'
  <2>1. Ends(e) \in WorkerState /\ WorkerOK(Ends(e), operations')
    BY <1>1, <1>2, <1>4, BeatOK
  <2> HIDE DEF Ends
  <2> QED
    BY <1>1, <1>2, <1>3, <1>6, <2>1, MovesOK DEF Moves, Become
<1> QED
  BY <1>2, <1>5, <1>6 DEF Heartbeat, HeartbeatError, CancelReported

\* Telegram, the faults, the owners and the clock.
LEMMA OtherSteps ==
    ASSUME ServiceInv,
           \/ \E w \in Worker : DatabaseError(w)
           \/ \E m \in wire : Accept(m) \/ Lose(m)
           \/ Shutdown \/ Crash \/ Restart \/ Elsewhere
    PROVE  [Next]_vars /\ ServiceInv'
<1>1. /\ stopping \in BOOLEAN /\ faults \in 0..MaxFaults /\ MaxFaults \in Nat
      /\ worker \in [Worker -> WorkerState]
  BY ServiceAssumption DEF ServiceInv
<1>2. ASSUME NEW w \in Worker, DatabaseError(w) PROVE [Next]_vars /\ ServiceInv'
  <2>1. [Next]_vars /\ Die(w) /\ faults' \in 0..MaxFaults
    BY <1>1, <1>2, Quiet DEF DatabaseError
  <2> QED
    BY <2>1, WaysOn
<1>3. ASSUME [Next]_vars, worker' = worker, stopping' \in BOOLEAN, faults' \in 0..MaxFaults
      PROVE  ServiceInv'
  BY <1>1, <1>3, NextInv, LaterOK DEF ServiceInv
<1>4. ASSUME NEW m, Accept(m) \/ Lose(m) PROVE [Next]_vars /\ ServiceInv'
  <2>1. [Next]_vars /\ worker' = worker /\ stopping' = stopping /\ faults' = faults
    BY <1>4, Quiet DEF Accept, Lose
  <2> QED
    BY <1>1, <1>3, <2>1
<1>5. CASE Shutdown
  <2>1. [Next]_vars /\ worker' = worker /\ stopping' = TRUE /\ faults' \in 0..MaxFaults
    BY <1>1, <1>5, Quiet DEF Shutdown
  <2> QED
    BY <1>3, <2>1
<1>6. CASE Crash \/ Restart
  <2>1. /\ [Next]_vars /\ worker' = [w \in Worker |-> IdleWorker]
        /\ stopping' = FALSE /\ faults' \in 0..MaxFaults
    BY <1>1, <1>6, Quiet DEF Crash, Restart, ChatSame
  <2>2. IdleWorker \in WorkerState /\ WorkerOK(IdleWorker, operations')
    BY IdleOK
  <2> QED
    BY <2>1, <2>2, NextInv DEF ServiceInv
<1>7. CASE Elsewhere
  <2>1. [Next]_vars /\ worker' = worker /\ stopping' = stopping /\ faults' = faults
    BY <1>7 DEF Elsewhere, ChatSame, Next
  <2> QED
    BY <1>1, <1>3, <2>1
<1> QED
  BY <1>2, <1>4, <1>5, <1>6, <1>7

----------------------------------------------------------------------------
(* The service implements the queue.                                       *)

LEMMA ServiceInitInv == ServiceInit => ServiceInv
<1> SUFFICES ASSUME ServiceInit PROVE ServiceInv
  OBVIOUS
<1>1. Inv
  BY InitInv DEF ServiceInit
<1>2. IdleWorker \in WorkerState /\ WorkerOK(IdleWorker, operations)
  BY IdleOK
<1>3. faults \in 0..MaxFaults
  BY ServiceAssumption DEF ServiceInit
<1> QED
  BY <1>1, <1>2, <1>3 DEF ServiceInit, ServiceInv

\* Every step of the service is one of the queue, or leaves the queue alone.
LEMMA ServiceStep == ServiceInv /\ [ServiceNext]_serviceVars => [Next]_vars /\ ServiceInv'
<1> SUFFICES ASSUME ServiceInv, [ServiceNext]_serviceVars
             PROVE  [Next]_vars /\ ServiceInv'
  OBVIOUS
<1>1. ASSUME NEW w \in Worker, Work(w) PROVE [Next]_vars /\ ServiceInv'
  BY <1>1, LoopSteps, PrepareSteps, DeliverySteps DEF Work
<1>2. ASSUME NEW w \in Worker, Heartbeat(w) \/ HeartbeatError(w) PROVE [Next]_vars /\ ServiceInv'
  BY <1>2, HeartbeatSteps
<1>3. CASE UNCHANGED serviceVars
  <2>1. vars' = vars /\ Inv
    BY <1>3 DEF serviceVars, vars, ServiceInv
  <2>2. Inv'
    BY <2>1, NextInv
  <2> QED
    BY <1>3, <2>1, <2>2 DEF serviceVars, ServiceInv
<1> QED
  BY <1>1, <1>2, <1>3, OtherSteps DEF ServiceNext

\* Every worker is a claimant the queue knows, whatever crashes and stops.
THEOREM ServiceInvariance == ServiceSpec => []ServiceInv
  BY ServiceInitInv, ServiceStep, PTL DEF ServiceSpec

\* Type correctness of the service; the unbounded channel of start_heartbeat
\* holds two events at most.
THEOREM ServiceTypeCorrect == ServiceSpec => []ServiceTypeOK
<1>1. ServiceInv => ServiceTypeOK
  <2> SUFFICES ASSUME ServiceInv PROVE ServiceTypeOK
    OBVIOUS
  <2>1. TypeOK
    BY DEF ServiceInv, Inv, RowsOK, TypeOK
  <2>2. \A w \in Worker : worker[w] \in WorkerState
    BY DEF ServiceInv
  <2> QED
    BY <2>1, <2>2 DEF ServiceInv, ServiceTypeOK, WorkerState, EndEvents
<1> QED
  BY <1>1, ServiceInvariance, PTL

\* The worker loop, run_claim and deliver use the statements of the queue only
\* as DownloadQueue allows: the service implements the queue.
THEOREM ServiceImplementsQueue == ServiceSpec => Spec
<1>1. ServiceInit => Init
  BY DEF ServiceInit
<1> QED
  BY <1>1, ServiceStep, ServiceInvariance, PTL DEF ServiceSpec, Spec

\* No operation of the running service is queued or run again once a unit of it
\* may have reached the chat.
THEOREM ServiceNeverResends == ServiceSpec => []NoResend
  BY ServiceImplementsQueue, NeverResends, PTL

----------------------------------------------------------------------------
(* What the download service records and reports agrees with the chat, for *)
(* every number of workers, operations, attempts and units.                *)

Message == [op: Op, attempt: Nat, ordinal: Nat, count: 1..MaxUnit]

\* The statuses of an operation whose delivery was begun and not taken back.
Delivered == {"delivering", "delivery_partial", "delivery_unknown", "succeeded"}

IsOpen(u) == u.status \in {"sending", "unknown"}

\* The row r agrees with the messages s of its chat.
ChatAgrees(r, s) ==
    /\ \A i \in 1..Len(s) : s[i].ordinal = i - 1 /\ s[i].attempt = r.attempt
    /\ r.status \notin Delivered => s = <<>> /\ r.delivered = 0
    /\ r.status \in Delivered =>
          /\ r.delivered = SentCount(r)
          /\ \A u, v \in CurrentUnits(r) : u.ordinal = v.ordinal \/ (IsOpen(u) /\ IsOpen(v)) => u = v
          /\ \A i \in 1..Len(s) : \E u \in CurrentUnits(r) :
                u.ordinal = i - 1 /\ u.count = s[i].count /\ u.status # "rejected"
          /\ \A u \in UnitsIn(r, "sent") : u.ordinal < Len(s) /\ s[u.ordinal + 1].count = u.count
    /\ r.status \in {"delivery_partial", "succeeded"} => r.delivered > 0
    /\ r.status = "succeeded" => r.planned = r.delivered /\ CurrentUnits(r) = UnitsIn(r, "sent")

\* The row still waits for its unit of ordinal k and n artifacts.
Awaits(r, k, n) ==
    /\ r.status \in {"delivering", "delivery_unknown"}
    /\ \E u \in CurrentUnits(r) : u.ordinal = k /\ u.count = n /\ IsOpen(u)

\* The request m on the wire is for the open unit of the row, which is next in the chat.
Known(r, s, m) == m.attempt = r.attempt /\ m.ordinal = Len(s) /\ Awaits(r, m.ordinal, m.count)

\* The outcomes after which nothing can arrive any more.
Untouched == {"rejected", "retry_after", "invalid_file_id", "not_started"}

\* The worker with the record x, which has a claim of row r; quiet says that no
\* request of the operation is on the wire.
Holds(r, s, quiet, x) ==
    /\ x.pc \in {"announce", "send", "settle"} =>
          x.claim[2] = r.attempt /\ Awaits(r, x.ordinal, Head(x.plan))
    /\ x.pc = "announce" \/ (x.pc = "settle" /\ x.outcome \in Untouched) => quiet /\ Len(s) = x.ordinal
    /\ x.pc = "settle" => x.outcome # "none" /\ (x.outcome = "delivered" => x.ordinal < Len(s))
    /\ x.pc \in {"unit", "open", "stop"} /\ x.claim[2] = r.attempt /\ r.status = "delivering" =>
          CurrentUnits(r) = UnitsIn(r, "sent")

Busy(x) == x.pc \notin {"idle", "stopped"}
\* No request of operation o.
NoneOf(o, requests) == \A m \in requests : m.op # o

ChatInv ==
    /\ chat \in [Op -> Seq(Message)]
    /\ wire \subseteq Message
    /\ \A o \in Op : ChatAgrees(operations[o], chat[o])
    /\ \A m \in wire : Known(operations[m.op], chat[m.op], m)
    /\ \A w \in Worker : Busy(worker[w]) =>
          Holds(operations[OpOf(w)], chat[OpOf(w)], NoneOf(OpOf(w), wire), worker[w])
    /\ \A v, w \in Worker :
          Busy(worker[v]) /\ Busy(worker[w]) /\ worker[v].claim = worker[w].claim => v = w

----------------------------------------------------------------------------
(* Rows.                                                                   *)

\* A row that confirmed nothing has no confirmed unit.
LEMMA NoneSent ==
    ASSUME NEW r, r \in Row, IsFiniteSet(r.units), SentCount(r) = 0
    PROVE  UnitsIn(r, "sent") = {}
<1> DEFINE us == UnitsIn(r, "sent")
           A == ArtifactsOf(us)
<1>1. us \subseteq Unit /\ us \subseteq r.units
  BY DEF UnitsIn, CurrentUnits, Row
<1>2. IsFiniteSet(A)
  <2>1. IsFiniteSet(us)
    BY <1>1, FS_Subset
  <2> QED
    BY <1>1, <2>1, ArtifactsFinite
<1>3. A = {}
  <2>1. Cardinality(A) = 0
    BY DEF SentCount
  <2> HIDE DEF A
  <2> QED
    BY <1>2, <2>1, FS_EmptySet
<1>4. ASSUME NEW u \in us PROVE FALSE
  <2>1. u.count \in Nat \ {0}
    BY <1>1 DEF Unit
  <2>2. <<u, 1>> \in {u} \X (1..u.count)
    BY <2>1
  <2>3. <<u, 1>> \in A
    BY <2>2 DEF ArtifactsOf
  <2> QED
    BY <1>3, <2>3
<1> QED
  BY <1>4

\* A row that confirmed nothing while every unit but the next one is confirmed
\* has an empty chat.
LEMMA EmptyChat ==
    ASSUME NEW r, r \in Row, IsFiniteSet(r.units), NEW s \in Seq(Message), ChatAgrees(r, s),
           r.status \in Delivered, r.delivered = 0,
           \A u \in CurrentUnits(r) : u.status = "sent" \/ Len(s) <= u.ordinal
    PROVE  s = <<>>
<1>1. UnitsIn(r, "sent") = {}
  BY NoneSent DEF ChatAgrees
<1>2. Len(s) \in Nat
  BY LenProperties
<1>3. ASSUME Len(s) # 0 PROVE FALSE
  <2>1. 1 \in 1..Len(s)
    BY <1>2, <1>3
  <2>2. PICK u \in CurrentUnits(r) : u.ordinal = 1 - 1
    BY <2>1 DEF ChatAgrees
  <2>3. u.status = "sent" \/ Len(s) <= 0
    BY <2>2
  <2>4. u.status # "sent"
    BY <1>1 DEF UnitsIn
  <2> QED
    BY <1>2, <1>3, <2>3, <2>4
<1> QED
  BY <1>3, EmptySeq

\* What a step that is not its claimant's does to a row, seen from the chat, the
\* wire and the workers.
Carries(r, x, s) ==
    /\ ChatAgrees(x, s)
    /\ \A m : Known(r, s, m) => Known(x, s, m)
    /\ \A q, y : Holds(r, s, q, y) => Holds(x, s, q, y)

\* Neither its delivery nor its status changes.
LEMMA CarriesSame ==
    ASSUME NEW r, NEW x, NEW s, ChatAgrees(r, s),
           x.status = r.status, x.attempt = r.attempt, x.units = r.units,
           x.planned = r.planned, x.delivered = r.delivered
    PROVE  Carries(r, x, s)
<1>1. CurrentUnits(x) = CurrentUnits(r) /\ \A st : UnitsIn(x, st) = UnitsIn(r, st)
  BY DEF CurrentUnits, UnitsIn
<1>2. SentCount(x) = SentCount(r)
  BY <1>1 DEF SentCount
<1>3. ChatAgrees(x, s)
  BY <1>1, <1>2, Zenon DEF ChatAgrees
<1>4. \A k, n : Awaits(r, k, n) => Awaits(x, k, n)
  BY <1>1, Zenon DEF Awaits
<1>5. \A m : Known(r, s, m) => Known(x, s, m)
  BY <1>4, Zenon DEF Known
<1>6. \A q, y : Holds(r, s, q, y) => Holds(x, s, q, y)
  BY <1>1, <1>4, Zenon DEF Holds
<1> QED
  BY <1>3, <1>5, <1>6 DEF Carries

\* The row is not delivered before the step, and no delivery is begun.
LEMMA CarriesOutside ==
    ASSUME NEW r, NEW x, NEW s, ChatAgrees(r, s),
           r.status \notin Delivered, x.status \notin Delivered, x.delivered = 0
    PROVE  Carries(r, x, s)
<1>1. s = <<>> /\ Len(s) = 0
  BY DEF ChatAgrees
<1>2. ChatAgrees(x, s)
  BY <1>1 DEF ChatAgrees, Delivered
<1>3. \A k, n : ~Awaits(r, k, n)
  BY DEF Awaits, Delivered
<1>4. \A m : Known(r, s, m) => Known(x, s, m)
  BY <1>3 DEF Known
<1>5. \A q, y : Holds(r, s, q, y) => Holds(x, s, q, y)
  BY <1>3, Zenon DEF Holds, Delivered
<1> QED
  BY <1>2, <1>4, <1>5 DEF Carries

\* begin_delivery_batch: the row has no unit of its attempt yet.
LEMMA CarriesBegin ==
    ASSUME NEW r, RowOK(r), NEW s, ChatAgrees(r, s), r.status = "running", NEW total
    PROVE  LET x == [r EXCEPT !.status = "delivering", !.planned = total, !.delivered = 0]
           IN  Carries(r, x, s) /\ CurrentUnits(x) = {}
<1> DEFINE x == [r EXCEPT !.status = "delivering", !.planned = total, !.delivered = 0]
<1>1. /\ x.status = "delivering" /\ x.delivered = 0 /\ x.attempt = r.attempt
      /\ x.units = r.units
  BY DEF RowOK, Row
<1> HIDE DEF x
<1>2. CurrentUnits(x) = {} /\ \A st : UnitsIn(x, st) = {}
  BY <1>1 DEF RowOK, JournalOK, CurrentUnits, UnitsIn
<1>3. s = <<>> /\ Len(s) = 0
  BY DEF ChatAgrees, Delivered
<1>4. SentCount(x) = 0
  BY <1>2, ArtifactsNone DEF SentCount
<1>5. ChatAgrees(x, s)
  BY <1>1, <1>2, <1>3, <1>4 DEF ChatAgrees, Delivered
<1>6. \A k, n : ~Awaits(r, k, n)
  BY DEF Awaits
<1>7. \A m : Known(r, s, m) => Known(x, s, m)
  BY <1>6 DEF Known
<1>8. \A q, y : Holds(r, s, q, y) => Holds(x, s, q, y)
  BY <1>2, <1>6, Zenon DEF Holds
<1> QED
  BY <1>2, <1>5, <1>7, <1>8 DEF Carries, x

\* A step out of a delivery in which no unit was open.
LEMMA CarriesClosed ==
    ASSUME NEW r, NEW x, NEW s, ChatAgrees(x, s), x.status # "delivering",
           \A u \in CurrentUnits(r) : u.status = "sent"
    PROVE  Carries(r, x, s)
<1>1. \A k, n : ~Awaits(r, k, n)
  BY DEF Awaits, IsOpen
<1>2. \A m : Known(r, s, m) => Known(x, s, m)
  BY <1>1 DEF Known
<1>3. \A q, y : Holds(r, s, q, y) => Holds(x, s, q, y)
  BY <1>1, Zenon DEF Holds
<1> QED
  BY <1>2, <1>3 DEF Carries

\* A step that leaves an open unit open, and the operation with an unknown outcome.
LEMMA CarriesUnknown ==
    ASSUME NEW r, NEW x, NEW s, ChatAgrees(x, s), x.status = "delivery_unknown",
           x.attempt = r.attempt, \A k, n : Awaits(r, k, n) => Awaits(x, k, n)
    PROVE  Carries(r, x, s)
<1>1. \A m : Known(r, s, m) => Known(x, s, m)
  BY Zenon DEF Known
<1>2. \A q, y : Holds(r, s, q, y) => Holds(x, s, q, y)
  BY Zenon DEF Holds
<1> QED
  BY <1>1, <1>2 DEF Carries

\* The journal of the attempt with other statuses: f gives every unit its own.
Remarks(r, x, f) ==
    /\ x.attempt = r.attempt
    /\ CurrentUnits(x) = {f[u] : u \in CurrentUnits(r)}
    /\ \A u \in CurrentUnits(r) :
          /\ f[u].ordinal = u.ordinal /\ f[u].count = u.count
          /\ IsOpen(f[u]) => IsOpen(u)
          /\ u.status = "sent" => f[u] = u
          /\ f[u].status = "sent" => u.status = "sent"

LEMMA RemarkedAgrees ==
    ASSUME NEW r, NEW x, NEW s \in Seq(Message), NEW f,
           ChatAgrees(r, s), r.status = "delivering",
           x.status \in {"delivery_unknown", "delivery_partial"}, x.delivered = r.delivered,
           x.status = "delivery_partial" => x.delivered > 0,
           Remarks(r, x, f),
           \A u \in CurrentUnits(r) :
              /\ f[u].status = "rejected" => u.status = "rejected" \/ Len(s) <= u.ordinal
              /\ u.ordinal \in Nat
    PROVE  ChatAgrees(x, s)
<1>1. UnitsIn(x, "sent") = UnitsIn(r, "sent")
  BY Zenon DEF Remarks, UnitsIn
<1>2. SentCount(x) = SentCount(r)
  BY <1>1 DEF SentCount
<1>3. Len(s) \in Nat
  BY LenProperties
<1>4. ASSUME NEW u \in CurrentUnits(x), NEW v \in CurrentUnits(x),
             u.ordinal = v.ordinal \/ (IsOpen(u) /\ IsOpen(v))
      PROVE  u = v
  <2>1. PICK a \in CurrentUnits(r), b \in CurrentUnits(r) : u = f[a] /\ v = f[b]
    BY DEF Remarks
  <2>2. a.ordinal = b.ordinal \/ (IsOpen(a) /\ IsOpen(b))
    BY <1>4, <2>1 DEF Remarks
  <2>3. a = b
    BY <2>2 DEF ChatAgrees, Delivered
  <2> QED
    BY <2>1, <2>3
<1>5. ASSUME NEW i \in 1..Len(s)
      PROVE  \E u \in CurrentUnits(x) : u.ordinal = i - 1 /\ u.count = s[i].count /\ u.status # "rejected"
  <2>1. PICK u \in CurrentUnits(r) : u.ordinal = i - 1 /\ u.count = s[i].count /\ u.status # "rejected"
    BY DEF ChatAgrees, Delivered
  <2>2. ~(Len(s) <= u.ordinal)
    BY <1>3, <2>1
  <2>3. f[u].status # "rejected"
    BY <2>1, <2>2
  <2> QED
    BY <2>1, <2>3 DEF Remarks
<1>6. \A u \in UnitsIn(x, "sent") : u.ordinal < Len(s) /\ s[u.ordinal + 1].count = u.count
  BY <1>1 DEF ChatAgrees, Delivered
<1>7. \A i \in 1..Len(s) : s[i].ordinal = i - 1 /\ s[i].attempt = x.attempt
  BY DEF ChatAgrees, Remarks
<1>8. r.delivered = SentCount(r)
  BY DEF ChatAgrees, Delivered
<1> QED
  BY <1>2, <1>4, <1>5, <1>6, <1>7, <1>8 DEF ChatAgrees, Delivered

LEMMA StillAwaits ==
    ASSUME NEW r, NEW x, NEW f, x.status = "delivery_unknown", Remarks(r, x, f),
           \A u \in CurrentUnits(r) : IsOpen(u) => IsOpen(f[u]),
           NEW k, NEW n, Awaits(r, k, n)
    PROVE  Awaits(x, k, n)
<1>1. PICK u \in CurrentUnits(r) : u.ordinal = k /\ u.count = n /\ IsOpen(u)
  BY DEF Awaits
<1>2. /\ f[u] \in CurrentUnits(x)
      /\ f[u].ordinal = k /\ f[u].count = n /\ IsOpen(f[u])
  BY <1>1 DEF Remarks
<1> QED
  BY <1>2 DEF Awaits

\* The operation is given up or goes back to the queue with an empty chat.
LEMMA GivenUp ==
    ASSUME NEW r, RowOK(r), Counted(r), NEW s \in Seq(Message), ChatAgrees(r, s),
           r.status = "delivering", r.delivered = 0,
           \A u \in CurrentUnits(r) : u.status = "sent" \/ Len(s) <= u.ordinal,
           NEW x, x.status \notin Delivered, x.delivered = 0
    PROVE  ChatAgrees(x, s)
<1>1. s = <<>>
  BY EmptyChat DEF RowOK, Counted, Delivered
<1> QED
  BY <1>1 DEF ChatAgrees, Delivered

\* Marking the open units of the attempt, if there are any.
LEMMA MarkedRemarks ==
    ASSUME NEW r \in Row, NEW x, x.attempt = r.attempt, x.units = Marked(r, "sending", "unknown")
    PROVE  \E f : /\ Remarks(r, x, f)
                  /\ \A u \in CurrentUnits(r) :
                        /\ f[u].status = "rejected" => u.status = "rejected"
                        /\ IsOpen(u) => IsOpen(f[u])
                        /\ u.status = "sending" => f[u].status = "unknown"
<1> DEFINE Mark(u) == [u EXCEPT !.status = "unknown"]
           f == [u \in CurrentUnits(r) |-> IF u.status = "sending" THEN Mark(u) ELSE u]
<1>1. CurrentUnits(r) \subseteq Unit
  BY DEF CurrentUnits, Row
<1>2. \A u \in Unit : /\ Mark(u) \in Unit /\ Mark(u).attempt = u.attempt /\ Mark(u).ordinal = u.ordinal
                      /\ Mark(u).count = u.count /\ Mark(u).status = "unknown"
  BY DEF Unit, UnitStatus
<1>3. x.units = {IF u.attempt = r.attempt /\ u.status = "sending" THEN Mark(u) ELSE u : u \in r.units}
  BY DEF Marked
<1> HIDE DEF Mark
<1>4. CurrentUnits(x) = {f[u] : u \in CurrentUnits(r)}
  <2>1. r.units \subseteq Unit
    BY DEF Row
  <2>2. ASSUME NEW v \in CurrentUnits(x) PROVE v \in {f[u] : u \in CurrentUnits(r)}
    <3>1. PICK u \in r.units : v = IF u.attempt = r.attempt /\ u.status = "sending" THEN Mark(u) ELSE u
      BY <1>3 DEF CurrentUnits
    <3>2. u.attempt = r.attempt
      BY <1>2, <2>1, <3>1 DEF CurrentUnits
    <3>3. u \in CurrentUnits(r)
      BY <3>2 DEF CurrentUnits
    <3> QED
      BY <3>1, <3>2, <3>3
  <2>3. ASSUME NEW u \in CurrentUnits(r) PROVE f[u] \in CurrentUnits(x)
    <3>1. u \in r.units /\ u.attempt = r.attempt
      BY DEF CurrentUnits
    <3>2. f[u] \in x.units
      BY <1>3, <3>1
    <3>3. f[u].attempt = r.attempt
      BY <1>2, <2>1, <3>1
    <3> QED
      BY <3>2, <3>3 DEF CurrentUnits
  <2> QED
    BY <2>2, <2>3
<1>5. ASSUME NEW u \in CurrentUnits(r)
      PROVE  /\ f[u].ordinal = u.ordinal /\ f[u].count = u.count
             /\ IsOpen(f[u]) => IsOpen(u)
             /\ IsOpen(u) => IsOpen(f[u])
             /\ u.status = "sent" => f[u] = u
             /\ f[u].status = "sent" => u.status = "sent"
             /\ f[u].status = "rejected" => u.status = "rejected"
             /\ u.status = "sending" => f[u].status = "unknown"
  BY <1>1, <1>2 DEF IsOpen
<1> HIDE DEF f
<1> QED
  BY <1>4, <1>5 DEF Remarks

\* A lease that runs out.
LEMMA CarriesExpire ==
    ASSUME NEW r, RowOK(r), Counted(r), r.status \in Active, NEW s \in Seq(Message), ChatAgrees(r, s)
    PROVE  Carries(r, ExpireRow(r), s)
<1> DEFINE m == [r EXCEPT !.units = Marked(r, "sending", "unknown")]
           x == ExpireRow(r)
           st == ExpiredStatus(m)
<1>1. r \in Row /\ m \in Row
  BY MarkedOK DEF RowOK, Releasable, UnitStatus
<1>2. /\ m.status = r.status /\ m.attempt = r.attempt /\ m.delivered = r.delivered
      /\ m.planned = r.planned /\ m.units = Marked(r, "sending", "unknown")
  BY <1>1 DEF Row
<1>3. /\ x.status = st /\ x.attempt = r.attempt /\ x.units = Marked(r, "sending", "unknown")
      /\ x.delivered = r.delivered /\ x.planned = r.planned
  BY <1>1, <1>2 DEF ExpireRow, Released, Row
<1> HIDE DEF m, x
<1>4. CASE r.status = "running"
  <2>1. x.status \notin Delivered
    BY <1>2, <1>3, <1>4 DEF ExpiredStatus, Delivered
  <2>2. x.delivered = 0
    BY <1>3, <1>4 DEF Counted
  <2> QED
    BY <1>4, <2>1, <2>2, CarriesOutside DEF x, Delivered
<1>5. CASE r.status = "delivering"
  <2>1. /\ \A u \in CurrentUnits(r) : u.status \in {"sending", "sent"} /\ u.ordinal \in Nat
        /\ CurrentUnits(m) = CurrentUnits(x)
    BY <1>1, <1>2, <1>3, <1>5 DEF RowOK, JournalOK, CurrentUnits, Row, Unit
  <2>2. PICK f : /\ Remarks(r, x, f)
                 /\ \A u \in CurrentUnits(r) :
                       /\ f[u].status = "rejected" => u.status = "rejected"
                       /\ IsOpen(u) => IsOpen(f[u])
                       /\ u.status = "sending" => f[u].status = "unknown"
    BY <1>1, <1>3, MarkedRemarks
  <2>3. \A u \in CurrentUnits(r) : f[u].status # "rejected"
    BY <2>1, <2>2
  <2>4. CASE \E u \in CurrentUnits(r) : u.status = "sending"
    <3>1. x.status = "delivery_unknown"
      <4>1. UnitsIn(m, "unknown") # {}
        BY <2>1, <2>2, <2>4 DEF UnitsIn, Remarks
      <4> QED
        BY <1>2, <1>3, <1>5, <4>1 DEF ExpiredStatus
    <3>2. ChatAgrees(x, s)
      BY <1>3, <1>5, <2>1, <2>2, <2>3, <3>1, RemarkedAgrees
    <3>3. \A k, n : Awaits(r, k, n) => Awaits(x, k, n)
      BY <2>2, <3>1, StillAwaits
    <3> QED
      BY <1>3, <3>1, <3>2, <3>3, CarriesUnknown DEF x
  <2>5. CASE \A u \in CurrentUnits(r) : u.status # "sending"
    <3>1. \A u \in CurrentUnits(r) : u.status = "sent"
      BY <2>1, <2>5
    <3>2. x.status # "delivering"
      BY <1>3 DEF ExpiredStatus
    <3>3. ChatAgrees(x, s)
      <4>1. CASE x.status \in Delivered
        <5>1. x.status \in {"delivery_unknown", "delivery_partial"}
          BY <1>3, <4>1 DEF ExpiredStatus, Delivered
        <5>2. x.status = "delivery_partial" => x.delivered > 0
          BY <1>2, <1>3 DEF ExpiredStatus
        <5> QED
          BY <1>3, <1>5, <2>1, <2>2, <2>3, <5>1, <5>2, RemarkedAgrees
      <4>2. CASE x.status \notin Delivered
        <5>1. r.delivered = 0
          BY <1>1, <1>2, <1>3, <1>5, <4>2 DEF ExpiredStatus, Delivered, Row
        <5> QED
          BY <1>3, <1>5, <3>1, <4>2, <5>1, GivenUp
      <4> QED
        BY <4>1, <4>2
    <3> QED
      BY <3>1, <3>2, <3>3, CarriesClosed DEF x
  <2> QED
    BY <2>4, <2>5
<1> QED
  BY <1>4, <1>5 DEF Active

\* What a worker with an open unit knows of the row it settles.
LEMMA OpenFacts ==
    ASSUME NEW r, RowOK(r), r.status = "delivering", NEW s, ChatAgrees(r, s),
           NEW u \in UnitsIn(r, "sending")
    PROVE  /\ u \in CurrentUnits(r) /\ u \in Unit /\ u.attempt = r.attempt /\ u.ordinal \in Nat
           /\ \A v \in CurrentUnits(r) : /\ v \in Unit /\ v.attempt = r.attempt /\ v.ordinal \in Nat
                                         /\ v # u => v.status = "sent" /\ v.ordinal # u.ordinal
  BY DEF RowOK, JournalOK, ChatAgrees, UnitsIn, CurrentUnits, Row, Unit, IsOpen, Delivered

\* The open unit is settled with another status.
LEMMA SettledRemarks ==
    ASSUME NEW r, RowOK(r), r.status = "delivering", NEW s, ChatAgrees(r, s),
           NEW u \in UnitsIn(r, "sending"), NEW st \in {"rejected", "unknown"},
           NEW x, x.attempt = r.attempt, x.units = Settled(r, u, st)
    PROVE  \E f : /\ Remarks(r, x, f)
                  /\ f[u].status = st
                  /\ \A v \in CurrentUnits(r) : v # u => f[v] = v
<1> DEFINE z == [u EXCEPT !.status = st]
           f == [v \in CurrentUnits(r) |-> IF v = u THEN z ELSE v]
<1>1. /\ u \in CurrentUnits(r) /\ u \in Unit /\ u.attempt = r.attempt /\ u.status = "sending"
      /\ \A v \in CurrentUnits(r) : v \in Unit /\ (v # u => v.status = "sent")
  BY OpenFacts DEF UnitsIn
<1>2. z.attempt = u.attempt /\ z.ordinal = u.ordinal /\ z.count = u.count /\ z.status = st
  BY <1>1 DEF Unit, UnitStatus
<1>3. x.units = (r.units \ {u}) \cup {z}
  BY DEF Settled
<1> HIDE DEF z
<1>4. CurrentUnits(x) = (CurrentUnits(r) \ {u}) \cup {z}
  BY <1>1, <1>2, <1>3 DEF CurrentUnits
<1>5. CurrentUnits(x) = {f[v] : v \in CurrentUnits(r)}
  BY <1>1, <1>4
<1>6. ASSUME NEW v \in CurrentUnits(r)
      PROVE  /\ f[v].ordinal = v.ordinal /\ f[v].count = v.count
             /\ IsOpen(f[v]) => IsOpen(v)
             /\ v.status = "sent" => f[v] = v
             /\ f[v].status = "sent" => v.status = "sent"
             /\ v # u => f[v] = v
  BY <1>1, <1>2 DEF IsOpen
<1>7. f[u].status = st
  BY <1>1, <1>2
<1> HIDE DEF f
<1> QED
  BY <1>5, <1>6, <1>7 DEF Remarks

\* unknown_delivery_unit.
LEMMA CarriesUnknownUnit ==
    ASSUME NEW r, RowOK(r), r.status = "delivering", NEW s \in Seq(Message), ChatAgrees(r, s),
           NEW u \in UnitsIn(r, "sending")
    PROVE  Carries(r, Released([r EXCEPT !.units = Settled(r, u, "unknown")], "delivery_unknown"), s)
<1> DEFINE x == Released([r EXCEPT !.units = Settled(r, u, "unknown")], "delivery_unknown")
<1>1. /\ x.status = "delivery_unknown" /\ x.attempt = r.attempt /\ x.delivered = r.delivered
      /\ x.units = Settled(r, u, "unknown")
  BY DEF RowOK, Row, Released
<1> HIDE DEF x
<1>2. PICK f : /\ Remarks(r, x, f)
               /\ f[u].status = "unknown"
               /\ \A v \in CurrentUnits(r) : v # u => f[v] = v
  BY <1>1, SettledRemarks
<1>3. \A v \in CurrentUnits(r) :
         /\ f[v].status # "rejected" /\ v.ordinal \in Nat
         /\ IsOpen(v) => IsOpen(f[v])
  BY <1>2, OpenFacts DEF IsOpen
<1>4. ChatAgrees(x, s)
  BY <1>1, <1>2, <1>3, RemarkedAgrees
<1>5. \A k, n : Awaits(r, k, n) => Awaits(x, k, n)
  BY <1>1, <1>2, <1>3, StillAwaits
<1> QED
  BY <1>1, <1>4, <1>5, CarriesUnknown DEF x

\* reject_delivery_unit, of a unit that has not arrived.
LEMMA RejectedAgrees ==
    ASSUME NEW r, RowOK(r), Counted(r), r.status = "delivering", NEW s \in Seq(Message),
           ChatAgrees(r, s), NEW u \in UnitsIn(r, "sending"), Len(s) = u.ordinal, NEW after
    PROVE  ChatAgrees(Released([r EXCEPT !.units = Settled(r, u, "rejected")], RejectedStatus(r, after)), s)
<1> DEFINE st == RejectedStatus(r, after)
           x == Released([r EXCEPT !.units = Settled(r, u, "rejected")], st)
<1>1. /\ x.status = st /\ x.attempt = r.attempt /\ x.delivered = r.delivered
      /\ x.units = Settled(r, u, "rejected")
  BY DEF RowOK, Row, Released
<1> HIDE DEF x
<1>2. PICK f : /\ Remarks(r, x, f)
               /\ f[u].status = "rejected"
               /\ \A v \in CurrentUnits(r) : v # u => f[v] = v
  BY <1>1, SettledRemarks
<1>3. Len(s) \in Nat /\ Len(s) <= u.ordinal
  BY LenProperties
<1>4. \A v \in CurrentUnits(r) :
         /\ v.ordinal \in Nat
         /\ v.status = "sent" \/ Len(s) <= v.ordinal
         /\ f[v].status = "rejected" => v.status = "rejected" \/ Len(s) <= v.ordinal
  BY <1>2, <1>3, OpenFacts
<1>5. CASE r.delivered > 0
  <2>1. x.status = "delivery_partial"
    BY <1>1, <1>5 DEF RejectedStatus
  <2> QED
    BY <1>1, <1>2, <1>4, <1>5, <2>1, RemarkedAgrees DEF x
<1>6. CASE ~(r.delivered > 0)
  <2>1. x.status \notin Delivered
    BY <1>1, <1>6 DEF RejectedStatus, Delivered
  <2>2. r.delivered = 0
    BY <1>6 DEF RowOK, Row
  <2> QED
    BY <1>1, <1>4, <2>1, <2>2, GivenUp DEF x
<1> QED
  BY <1>5, <1>6

\* requeue_invalid_cache, of a first unit that has not arrived.
LEMMA RequeuedAgrees ==
    ASSUME NEW r, RowOK(r), r.status = "delivering", r.delivered = 0, NEW s \in Seq(Message),
           ChatAgrees(r, s), Len(s) = 0, NEW u
    PROVE  ChatAgrees([Released([r EXCEPT !.units = Settled(r, u, "rejected")], "queued")
                       EXCEPT !.max = @ + 1, !.bypass = TRUE, !.planned = 0], s)
<1> DEFINE x == [Released([r EXCEPT !.units = Settled(r, u, "rejected")], "queued")
                 EXCEPT !.max = @ + 1, !.bypass = TRUE, !.planned = 0]
<1>1. x.status = "queued" /\ x.delivered = 0
  BY DEF RowOK, Row, Released
<1> HIDE DEF x
<1>2. s = <<>>
  BY EmptySeq
<1> QED
  BY <1>1, <1>2 DEF ChatAgrees, Delivered, x

\* stop_delivery_batch, between two units.
LEMMA CarriesStop ==
    ASSUME NEW r, RowOK(r), Counted(r), r.status = "delivering", NEW s \in Seq(Message),
           ChatAgrees(r, s), CurrentUnits(r) = UnitsIn(r, "sent"), NEW reason
    PROVE  LET m == [r EXCEPT !.units = IF reason = "cancel" /\ ~r.cancel THEN @
                                        ELSE Marked(r, "sending", "unknown")]
           IN  Carries(r, Released(m, StoppedStatus(m, reason)), s)
<1> DEFINE us == IF reason = "cancel" /\ ~r.cancel THEN r.units ELSE Marked(r, "sending", "unknown")
           m == [r EXCEPT !.units = us]
           x == Released(m, StoppedStatus(m, reason))
<1>1. \A u \in CurrentUnits(r) : u.status = "sent" /\ u.ordinal \in Nat
  BY DEF UnitsIn, CurrentUnits, RowOK, Row, Unit
<1>2. us = r.units
  <2>1. Marked(r, "sending", "unknown") = r.units
    BY <1>1 DEF Marked, CurrentUnits
  <2> QED
    BY <2>1
<1>3. /\ m.status = r.status /\ m.attempt = r.attempt /\ m.delivered = r.delivered
      /\ m.planned = r.planned /\ m.units = r.units
  BY <1>2 DEF RowOK, Row
<1>4. /\ x.status = StoppedStatus(m, reason) /\ x.attempt = r.attempt /\ x.units = r.units
      /\ x.delivered = r.delivered /\ x.planned = r.planned
  BY <1>2 DEF Released, RowOK, Row
<1> HIDE DEF us, m, x
<1>5. UnitsIn(m, "unknown") = {} /\ CurrentUnits(x) = CurrentUnits(r)
  BY <1>1, <1>3, <1>4 DEF UnitsIn, CurrentUnits
<1>6. x.status # "delivering"
  BY <1>4 DEF StoppedStatus
<1>7. ChatAgrees(x, s)
  <2>1. CASE r.delivered > 0
    <3>1. x.status = "delivery_partial"
      BY <1>3, <1>4, <1>5, <2>1 DEF StoppedStatus
    <3> DEFINE f == [u \in CurrentUnits(r) |-> u]
    <3>2. Remarks(r, x, f) /\ \A u \in CurrentUnits(r) : f[u].status # "rejected"
      BY <1>1, <1>4, <1>5 DEF Remarks
    <3> HIDE DEF f
    <3> QED
      BY <1>1, <1>4, <2>1, <3>1, <3>2, RemarkedAgrees
  <2>2. CASE ~(r.delivered > 0)
    <3>1. x.status \notin Delivered
      BY <1>3, <1>4, <1>5, <2>2 DEF StoppedStatus, Delivered
    <3>2. r.delivered = 0
      BY <2>2 DEF RowOK, Row
    <3> QED
      BY <1>1, <1>4, <3>1, <3>2, GivenUp
  <2> QED
    BY <2>1, <2>2
<1> QED
  BY <1>1, <1>6, <1>7, CarriesClosed DEF x, m, us

\* complete_delivery_unit, of a unit that is in the chat: every unit is confirmed then.
LEMMA CompletedAgrees ==
    ASSUME NEW r, RowOK(r), Counted(r), r.status = "delivering", NEW s \in Seq(Message),
           ChatAgrees(r, s), NEW u \in UnitsIn(r, "sending"), u.ordinal < Len(s)
    PROVE  LET row == [r EXCEPT !.units = Settled(r, u, "sent"), !.delivered = @ + u.count]
               x == IF row.delivered = r.planned THEN Released(row, "succeeded") ELSE row
           IN  ChatAgrees(x, s) /\ CurrentUnits(x) = UnitsIn(x, "sent")
<1> DEFINE z == [u EXCEPT !.status = "sent"]
           d == r.delivered + u.count
           us == Settled(r, u, "sent")
           row == [r EXCEPT !.units = us, !.delivered = d]
           x == IF row.delivered = r.planned THEN Released(row, "succeeded") ELSE row
<1>1. /\ r \in Row /\ u \in Unit /\ u \in CurrentUnits(r) /\ u.attempt = r.attempt
      /\ u.status = "sending" /\ u.count \in Nat /\ u.count > 0 /\ u.ordinal \in Nat
      /\ r.delivered \in Nat /\ r.planned \in Nat
      /\ \A v \in CurrentUnits(r) \ {u} : v.status = "sent" /\ v.ordinal # u.ordinal /\ v.ordinal \in Nat
  BY OpenFacts DEF RowOK, Row, Unit, UnitsIn
<1>2. /\ z \in Unit /\ z.attempt = u.attempt /\ z.ordinal = u.ordinal
      /\ z.count = u.count /\ z.status = "sent" /\ z # u
  BY <1>1 DEF Unit, UnitStatus
<1>3. us = (r.units \ {u}) \cup {z}
  BY DEF Settled
<1>4. d \in Nat /\ d > 0
  BY <1>1
<1> HIDE DEF z, us
<1>5. /\ x.units = us /\ x.attempt = r.attempt /\ x.delivered = d /\ x.planned = r.planned
      /\ x.status = "delivering" \/ (x.status = "succeeded" /\ x.planned = d)
  BY <1>1 DEF Row, Released
<1> HIDE DEF x, row, d
<1>6. CurrentUnits(x) = (CurrentUnits(r) \ {u}) \cup {z}
  BY <1>1, <1>2, <1>3, <1>5 DEF CurrentUnits
<1>7. UnitsIn(r, "sent") = CurrentUnits(r) \ {u} /\ z \notin CurrentUnits(r)
  BY <1>1, <1>2 DEF UnitsIn
<1>8. UnitsIn(x, "sent") = CurrentUnits(x) /\ UnitsIn(x, "sent") = UnitsIn(r, "sent") \cup {z}
  BY <1>1, <1>2, <1>6, <1>7 DEF UnitsIn
<1>9. SentCount(x) = d
  <2>1. UnitsIn(r, "sent") \subseteq Unit /\ IsFiniteSet(UnitsIn(r, "sent")) /\ z \notin UnitsIn(r, "sent")
    <3>1. UnitsIn(r, "sent") \in SUBSET r.units /\ IsFiniteSet(r.units)
      BY DEF UnitsIn, CurrentUnits, Counted
    <3> QED
      BY <1>1, <1>7, <3>1, FS_Subset DEF Row
  <2>2. Cardinality(ArtifactsOf(UnitsIn(r, "sent") \cup {z})) = Cardinality(ArtifactsOf(UnitsIn(r, "sent"))) + u.count
    BY <1>2, <2>1, ArtifactsAdd
  <2> QED
    BY <1>8, <2>2 DEF SentCount, Counted, d
<1>10. /\ \A i \in 1..Len(s) : s[i].ordinal = i - 1 /\ s[i].attempt = r.attempt
       /\ \A v, w \in CurrentUnits(r) : v.ordinal = w.ordinal => v = w
       /\ \A i \in 1..Len(s) : \E v \in CurrentUnits(r) : v.ordinal = i - 1 /\ v.count = s[i].count
       /\ \A v \in UnitsIn(r, "sent") : v.ordinal < Len(s) /\ s[v.ordinal + 1].count = v.count
  BY DEF ChatAgrees, Delivered
<1>11. s[u.ordinal + 1].count = u.count
  <2>1. u.ordinal + 1 \in 1..Len(s) /\ (u.ordinal + 1) - 1 = u.ordinal
    BY <1>1, LenProperties
  <2> DEFINE i == u.ordinal + 1
  <2> HIDE DEF i
  <2>2. PICK v \in CurrentUnits(r) : v.ordinal = i - 1 /\ v.count = s[i].count
    BY <1>10, <2>1 DEF i
  <2>3. v = u
    BY <1>1, <1>10, <2>1, <2>2 DEF i
  <2> QED
    BY <2>2, <2>3 DEF i
<1>12. \A v, w \in CurrentUnits(x) : v.ordinal = w.ordinal \/ (IsOpen(v) /\ IsOpen(w)) => v = w
  <2>1. \A v \in CurrentUnits(x) : ~IsOpen(v)
    BY <1>8 DEF UnitsIn, IsOpen
  <2> QED
    BY <1>1, <1>2, <1>6, <1>10, <2>1
<1>13. ASSUME NEW i \in 1..Len(s)
       PROVE  \E v \in CurrentUnits(x) : v.ordinal = i - 1 /\ v.count = s[i].count /\ v.status # "rejected"
  <2>1. PICK v \in CurrentUnits(r) : v.ordinal = i - 1 /\ v.count = s[i].count
    BY <1>10
  <2>2. CASE v = u
    BY <1>2, <1>6, <2>1, <2>2
  <2>3. CASE v # u
    BY <1>1, <1>6, <2>1, <2>3
  <2> QED
    BY <2>2, <2>3
<1>14. \A v \in UnitsIn(x, "sent") : v.ordinal < Len(s) /\ s[v.ordinal + 1].count = v.count
  BY <1>2, <1>8, <1>10, <1>11
<1>15. ChatAgrees(x, s)
  BY <1>4, <1>5, <1>8, <1>9, <1>10, <1>12, <1>13, <1>14 DEF ChatAgrees, Delivered
<1> QED
  BY <1>8, <1>15 DEF x, row, us, d

\* begin_delivery_unit: the new unit is the one the chat lacks next.
LEMMA OpenedAgrees ==
    ASSUME Inv, NEW o \in Op, NEW a \in Nat, NEW k \in Nat, NEW n \in Nat \ {0},
           MayBeginUnit(<<o, a>>, k, n), NEW s \in Seq(Message), ChatAgrees(operations[o], s)
    PROVE  LET u == [attempt |-> a, ordinal |-> k, count |-> n, status |-> "sending"]
               x == [operations[o] EXCEPT !.units = @ \cup {u}]
           IN  /\ ChatAgrees(x, s) /\ Awaits(x, k, n) /\ Len(s) = k /\ x.attempt = a
               /\ operations[o].attempt = a
               /\ \A j, i : ~Awaits(operations[o], j, i)
<1> DEFINE r == operations[o]
           u == [attempt |-> a, ordinal |-> k, count |-> n, status |-> "sending"]
           us == r.units \cup {u}
           x == [r EXCEPT !.units = us]
<1>1. /\ r \in Row /\ r.status = "delivering" /\ r.attempt = a
      /\ \A v \in CurrentUnits(r) : v.ordinal < k /\ v.status = "sent"
      /\ k > 0 => \E v \in CurrentUnits(r) : v.ordinal = k - 1
  BY DEF Inv, RowsOK, MayBeginUnit, Delivering, Fenced
<1>2. u.attempt = a /\ u.ordinal = k /\ u.count = n /\ u.status = "sending"
  OBVIOUS
<1> HIDE DEF u
<1>3. /\ x.units = us /\ x.attempt = a /\ x.status = "delivering"
      /\ x.delivered = r.delivered /\ x.planned = r.planned
  BY <1>1 DEF Row
<1> HIDE DEF x
<1>4. CurrentUnits(x) = CurrentUnits(r) \cup {u}
  BY <1>1, <1>2, <1>3 DEF CurrentUnits
<1>5. UnitsIn(x, "sent") = UnitsIn(r, "sent")
  BY <1>2, <1>4 DEF UnitsIn
<1>6. SentCount(x) = SentCount(r)
  BY <1>5 DEF SentCount
<1>7. \A v \in CurrentUnits(r) : v.ordinal \in Nat
  BY <1>1 DEF CurrentUnits, Row, Unit
<1>8. /\ \A i \in 1..Len(s) : s[i].ordinal = i - 1 /\ s[i].attempt = r.attempt
      /\ \A v, w \in CurrentUnits(r) : v.ordinal = w.ordinal => v = w
      /\ \A i \in 1..Len(s) : \E v \in CurrentUnits(r) :
            v.ordinal = i - 1 /\ v.count = s[i].count /\ v.status # "rejected"
      /\ \A v \in UnitsIn(r, "sent") : v.ordinal < Len(s) /\ s[v.ordinal + 1].count = v.count
      /\ r.delivered = SentCount(r)
  BY <1>1 DEF ChatAgrees, Delivered
<1>9. Len(s) = k
  <2>1. Len(s) \in Nat
    BY LenProperties
  <2>2. ~(Len(s) > k)
    <3> SUFFICES ASSUME Len(s) > k PROVE FALSE
      OBVIOUS
    <3>1. k + 1 \in 1..Len(s)
      BY <2>1
    <3>2. PICK v \in CurrentUnits(r) : v.ordinal = (k + 1) - 1
      BY <1>8, <3>1
    <3> QED
      BY <1>1, <1>7, <3>2
  <2>3. ~(Len(s) < k)
    <3> SUFFICES ASSUME Len(s) < k PROVE FALSE
      OBVIOUS
    <3>1. PICK v \in CurrentUnits(r) : v.ordinal = k - 1
      BY <1>1, <2>1
    <3>2. v \in UnitsIn(r, "sent")
      BY <1>1 DEF UnitsIn
    <3> QED
      BY <1>8, <2>1, <3>1, <3>2
  <2> QED
    BY <2>1, <2>2, <2>3
<1>10. ASSUME NEW v \in CurrentUnits(x), NEW w \in CurrentUnits(x),
              v.ordinal = w.ordinal \/ (IsOpen(v) /\ IsOpen(w))
       PROVE  v = w
  <2>1. \A y \in CurrentUnits(r) : ~IsOpen(y) /\ y.ordinal # u.ordinal
    BY <1>1, <1>2, <1>7 DEF IsOpen
  <2> QED
    BY <1>4, <1>8, <1>10, <2>1
<1>11. ChatAgrees(x, s)
  BY <1>1, <1>3, <1>4, <1>5, <1>6, <1>8, <1>10 DEF ChatAgrees, Delivered
<1>12. Awaits(x, k, n)
  BY <1>2, <1>3, <1>4 DEF Awaits, IsOpen
<1>13. \A j, i : ~Awaits(r, j, i)
  BY <1>1 DEF Awaits, IsOpen
<1> QED
  BY <1>1, <1>3, <1>9, <1>11, <1>12, <1>13 DEF x, u

\* Telegram accepts the request for the open unit.
LEMMA ArrivedAgrees ==
    ASSUME NEW r, r \in Row, NEW s \in Seq(Message), ChatAgrees(r, s), NEW m \in Message, Known(r, s, m)
    PROVE  ChatAgrees(r, Append(s, m))
<1> DEFINE t == Append(s, m)
<1>1. /\ Len(s) \in Nat /\ Len(t) = Len(s) + 1 /\ t[Len(s) + 1] = m
      /\ \A i \in 1..Len(s) : t[i] = s[i]
  BY LenProperties, AppendProperties
<1>2. \A i \in 1..Len(t) : i \in 1..Len(s) \/ i = Len(s) + 1
  BY <1>1
<1> HIDE DEF t
<1>3. r.status \in {"delivering", "delivery_unknown"} /\ m.ordinal = Len(s) /\ m.attempt = r.attempt
  BY DEF Known, Awaits
<1>4. PICK u \in CurrentUnits(r) : u.ordinal = m.ordinal /\ u.count = m.count /\ IsOpen(u)
  BY DEF Known, Awaits
<1>5. \A i \in 1..Len(t) : t[i].ordinal = i - 1 /\ t[i].attempt = r.attempt
  BY <1>1, <1>2, <1>3 DEF ChatAgrees
<1>6. ASSUME NEW i \in 1..Len(t)
      PROVE  \E v \in CurrentUnits(r) : v.ordinal = i - 1 /\ v.count = t[i].count /\ v.status # "rejected"
  <2>1. CASE i \in 1..Len(s)
    BY <1>1, <1>3, <2>1 DEF ChatAgrees, Delivered
  <2>2. CASE i = Len(s) + 1
    BY <1>1, <1>3, <1>4, <2>2 DEF IsOpen
  <2> QED
    BY <1>2, <2>1, <2>2
<1>7. ASSUME NEW v \in UnitsIn(r, "sent")
      PROVE  v.ordinal < Len(t) /\ t[v.ordinal + 1].count = v.count
  <2>1. v.ordinal \in Nat
    BY DEF UnitsIn, CurrentUnits, Row, Unit
  <2>2. v.ordinal < Len(s) /\ s[v.ordinal + 1].count = v.count
    BY <1>3 DEF ChatAgrees, Delivered
  <2>3. v.ordinal + 1 \in 1..Len(s)
    BY <1>1, <2>1, <2>2
  <2> QED
    BY <1>1, <2>1, <2>2, <2>3
<1>8. ChatAgrees(r, t)
  BY <1>3, <1>5, <1>6, <1>7 DEF ChatAgrees, Delivered
<1> QED
  BY <1>8 DEF t

\* Only one request can be known to a row.
LEMMA KnownOnce ==
    ASSUME NEW r, NEW s, ChatAgrees(r, s), NEW m \in Message, NEW n \in Message,
           m.op = n.op, Known(r, s, m), Known(r, s, n)
    PROVE  m = n
<1>1. \A u, v \in CurrentUnits(r) : u.ordinal = v.ordinal => u = v
  BY DEF ChatAgrees, Known, Awaits, Delivered
<1>2. m.count = n.count /\ m.ordinal = n.ordinal /\ m.attempt = n.attempt
  BY <1>1 DEF Known, Awaits
<1> QED
  BY <1>2 DEF Message

----------------------------------------------------------------------------
(* The queue, without the worker.                                          *)

LEMMA CarriesTrans ==
    ASSUME NEW r, NEW x, NEW y, NEW s, Carries(r, x, s), Carries(x, y, s)
    PROVE  Carries(r, y, s)
  BY Zenon DEF Carries

AllCarry == \A o \in Op : Carries(operations[o], operations'[o], chat[o])

\* The chats and the rows they belong to.
LEMMA ChatFacts ==
    ASSUME ServiceInv, RowsCounted, ChatInv, NEW o \in Op
    PROVE  /\ operations[o] \in Row /\ RowOK(operations[o]) /\ Counted(operations[o])
           /\ operations = [p \in Op |-> operations[p]]
           /\ chat[o] \in Seq(Message) /\ ChatAgrees(operations[o], chat[o])
           /\ Carries(operations[o], operations[o], chat[o])
  BY CarriesSame DEF ServiceInv, Inv, RowsOK, RowsCounted, ChatInv

\* One row is written: what it carries, all carry.
LEMMA OneCarries ==
    ASSUME ServiceInv, RowsCounted, ChatInv, NEW o \in Op, NEW x,
           operations' = [operations EXCEPT ![o] = x], Carries(operations[o], x, chat[o])
    PROVE  AllCarry
  BY ChatFacts DEF AllCarry

LEMMA OwnerCarries ==
    ASSUME ServiceInv, RowsCounted, ChatInv, NEW o \in Op,
           Admit(o) \/ RequestCancel(o) \/ LeaseExpires(o) \/ MakeAvailable(o)
    PROVE  AllCarry
<1> DEFINE r == operations[o]
<1>1. r \in Row /\ RowOK(r) /\ ChatAgrees(r, chat[o])
  BY ChatFacts
<1>2. CASE Admit(o)
  <2> DEFINE x == [AbsentRow EXCEPT !.status = "queued"]
  <2>1. operations' = [operations EXCEPT ![o] = x] /\ r.status = "absent"
    BY <1>2 DEF Admit, Commit
  <2>2. x.status = "queued" /\ x.delivered = 0
    BY DEF AbsentRow
  <2> HIDE DEF x
  <2> QED
    BY <1>1, <2>1, <2>2, CarriesOutside, OneCarries DEF Delivered
<1>3. CASE RequestCancel(o)
  <2> DEFINE st == IF r.status = "queued" THEN "cancelled" ELSE r.status
             x == [r EXCEPT !.cancel = TRUE, !.status = st]
  <2>1. operations' = [operations EXCEPT ![o] = x]
    BY <1>1, <1>3, ChatFacts DEF RequestCancel, Row
  <2>2. /\ x.status = st /\ x.attempt = r.attempt /\ x.units = r.units
        /\ x.planned = r.planned /\ x.delivered = r.delivered
    BY <1>1 DEF Row
  <2> HIDE DEF x
  <2>3. CASE r.status = "queued"
    <3>1. r.status \notin Delivered /\ x.status \notin Delivered /\ x.delivered = 0
      BY <1>1, <2>2, <2>3 DEF Delivered, ChatAgrees
    <3> QED
      BY <1>1, <2>1, <3>1, CarriesOutside, OneCarries
  <2>4. CASE r.status # "queued"
    BY <1>1, <2>1, <2>2, <2>4, CarriesSame, OneCarries
  <2> QED
    BY <2>3, <2>4
<1>4. CASE LeaseExpires(o)
  <2> DEFINE x == [r EXCEPT !.live = FALSE]
  <2>1. operations' = [operations EXCEPT ![o] = x]
    BY <1>4 DEF LeaseExpires
  <2>2. /\ x.status = r.status /\ x.attempt = r.attempt /\ x.units = r.units
        /\ x.planned = r.planned /\ x.delivered = r.delivered
    BY <1>1 DEF Row
  <2> HIDE DEF x
  <2> QED
    BY <1>1, <2>1, <2>2, CarriesSame, OneCarries
<1>5. CASE MakeAvailable(o)
  BY <1>5, ChatFacts DEF MakeAvailable, AllCarry
<1> QED
  BY <1>2, <1>3, <1>4, <1>5

LEMMA ClaimCarries ==
    ASSUME ServiceInv, RowsCounted, ChatInv, NEW b, NEW p \in Op \cup {NoOp}, Claim(b, p)
    PROVE  AllCarry
<1> DEFINE Table(S) == [q \in Op |-> IF q \in S THEN ExpireRow(operations[q]) ELSE operations[q]]
<1>1. PICK S \in SUBSET Expired :
          \/ operations' = Table(S)
          \/ /\ p \in Op
             /\ Claimable(Table(S), b, p)
             /\ operations' = [Table(S) EXCEPT ![p] = ClaimRow(Table(S)[p], b)]
  BY ConstantsAssumption DEF Claim, kSubset
<1>2. ASSUME NEW o \in Op
      PROVE  Carries(operations[o], Table(S)[o], chat[o])
  <2>1. CASE o \in S
    <3>1. operations[o].status \in Active
      BY <2>1 DEF Expired
    <3>2. Carries(operations[o], ExpireRow(operations[o]), chat[o])
      BY <3>1, ChatFacts, CarriesExpire
    <3> QED
      BY <2>1, <3>2
  <2>2. CASE o \notin S
    BY <2>2, ChatFacts
  <2> QED
    BY <2>1, <2>2
<1>3. \A o \in Op : Table(S)[o] \in Row
  BY ExpireRowOK DEF ServiceInv, Inv, RowsOK, RowOK, Expired
<1>4. Table(S) = [q \in Op |-> Table(S)[q]]
  OBVIOUS
<1> HIDE DEF Table
<1>5. CASE operations' = Table(S)
  BY <1>2, <1>5 DEF AllCarry
<1>6. CASE /\ p \in Op
           /\ Claimable(Table(S), b, p)
           /\ operations' = [Table(S) EXCEPT ![p] = ClaimRow(Table(S)[p], b)]
  <2> DEFINE r == Table(S)[p]
             x == ClaimRow(r, b)
  <2>1. r.status = "queued" /\ r \in Row
    BY <1>3, <1>6 DEF Claimable
  <2>2. x.status = "running" /\ x.delivered = 0
    BY <2>1 DEF ClaimRow, Row
  <2>3. Carries(operations[p], r, chat[p])
    BY <1>2, <1>6
  <2>4. \A o \in Op : operations'[o] = IF o = p THEN x ELSE Table(S)[o]
    BY <1>4, <1>6
  <2> HIDE DEF r, x
  <2>5. Carries(r, x, chat[p])
    BY <2>1, <2>2, <2>3, CarriesOutside DEF Carries, Delivered
  <2>6. Carries(operations[p], x, chat[p])
    BY <2>3, <2>5, CarriesTrans
  <2> QED
    BY <1>2, <2>4, <2>6 DEF AllCarry
<1> QED
  BY <1>1, <1>5, <1>6

----------------------------------------------------------------------------
(* Steps, seen from the chat.                                              *)

\* A busy worker has a claim of an operation.
LEMMA BusyClaim ==
    ASSUME ServiceInv, NEW w \in Worker, Busy(worker[w])
    PROVE  /\ worker[w] \in WorkerState /\ WorkerOK(worker[w], operations)
           /\ worker[w].claim \in Op \X Nat /\ OpOf(w) \in Op
           /\ worker[w].claim = <<OpOf(w), worker[w].claim[2]>>
           /\ worker[w].claim[2] \in Nat
           /\ ClaimOf(w) = worker[w].claim /\ ClaimOf(w)[1] = OpOf(w) /\ ClaimOf(w)[2] = worker[w].claim[2]
<1>1. worker[w] \in WorkerState /\ WorkerOK(worker[w], operations)
  BY DEF ServiceInv
<1>2. worker[w].claim \in Op \X Nat
  BY <1>1 DEF WorkerOK, Busy
<1> QED
  BY <1>1, <1>2 DEF OpOf, ClaimOf

\* What a worker holds does not suffer from fewer requests on the wire.
LEMMA HoldsQuieter ==
    ASSUME NEW r, NEW s, NEW q, NEW p, NEW x, Holds(r, s, q, x), q => p
    PROVE  Holds(r, s, p, x)
  BY Zenon DEF Holds

\* Worker w gets the record x.
LEMMA WorkerMoves ==
    ASSUME ServiceInv, ChatInv, NEW w \in Worker, NEW x, worker' = [worker EXCEPT ![w] = x],
           chat' = chat, wire' \subseteq wire,
           \A o \in Op : ChatAgrees(operations'[o], chat[o]),
           \A m \in wire' : Known(operations'[m.op], chat[m.op], m),
           \A v \in Worker : v # w /\ Busy(worker[v]) =>
              Holds(operations'[OpOf(v)], chat[OpOf(v)], NoneOf(OpOf(v), wire), worker[v]),
           Busy(x) => /\ Holds(operations'[x.claim[1]], chat[x.claim[1]], NoneOf(x.claim[1], wire'), x)
                      /\ \/ Busy(worker[w]) /\ x.claim = worker[w].claim
                         \/ \A v \in Worker : v # w /\ Busy(worker[v]) => worker[v].claim # x.claim
    PROVE  ChatInv'
<1>1. worker'[w] = x /\ \A v \in Worker : v # w => worker'[v] = worker[v]
  BY DEF ServiceInv
<1>2. ASSUME NEW v \in Worker, Busy(worker'[v])
      PROVE  Holds(operations'[worker'[v].claim[1]], chat'[worker'[v].claim[1]],
                   NoneOf(worker'[v].claim[1], wire'), worker'[v])
  <2>1. CASE v = w
    BY <1>1, <1>2, <2>1
  <2>2. CASE v # w
    <3> DEFINE o == worker[v].claim[1]
    <3>1. worker'[v] = worker[v] /\ Busy(worker[v])
      BY <1>1, <1>2, <2>2
    <3>2. Holds(operations'[o], chat[o], NoneOf(o, wire), worker[v])
      BY <2>2, <3>1 DEF OpOf
    <3>3. NoneOf(o, wire) => NoneOf(o, wire')
      BY DEF NoneOf
    <3>4. Holds(operations'[o], chat[o], NoneOf(o, wire'), worker[v])
      BY <3>2, <3>3, HoldsQuieter
    <3> QED
      BY <3>1, <3>4
  <2> QED
    BY <2>1, <2>2
<1>3. ASSUME NEW u \in Worker, NEW v \in Worker, Busy(worker'[u]), Busy(worker'[v]),
             worker'[u].claim = worker'[v].claim
      PROVE  u = v
  BY <1>1, <1>3 DEF ChatInv
<1>4. chat' \in [Op -> Seq(Message)] /\ wire' \subseteq Message
  BY DEF ChatInv
<1>5. \A o \in Op : ChatAgrees(operations'[o], chat'[o])
  OBVIOUS
<1>6. \A m \in wire' : Known(operations'[m.op], chat'[m.op], m)
  OBVIOUS
<1> QED
  BY <1>2, <1>3, <1>4, <1>5, <1>6 DEF ChatInv, OpOf

\* Nobody but worker w changes, and every row carries what the others hold.
LEMMA CarryMoves ==
    ASSUME ServiceInv, RowsCounted, ChatInv, AllCarry, NEW w \in Worker, NEW x,
           worker' = [worker EXCEPT ![w] = x], chat' = chat, wire' \subseteq wire,
           Busy(x) => /\ Holds(operations'[x.claim[1]], chat[x.claim[1]], NoneOf(x.claim[1], wire'), x)
                      /\ \/ Busy(worker[w]) /\ x.claim = worker[w].claim
                         \/ \A v \in Worker : v # w /\ Busy(worker[v]) => worker[v].claim # x.claim
    PROVE  ChatInv'
<1>1. \A o \in Op : ChatAgrees(operations'[o], chat[o])
  BY DEF AllCarry, Carries
<1>2. \A m \in wire' : Known(operations'[m.op], chat[m.op], m)
  BY DEF AllCarry, Carries, ChatInv, Message
<1>3. \A v \in Worker : v # w /\ Busy(worker[v]) =>
         Holds(operations'[OpOf(v)], chat[OpOf(v)], NoneOf(OpOf(v), wire), worker[v])
  <2> SUFFICES ASSUME NEW v \in Worker, Busy(worker[v])
               PROVE  Holds(operations'[OpOf(v)], chat[OpOf(v)], NoneOf(OpOf(v), wire), worker[v])
    OBVIOUS
  <2>1. OpOf(v) \in Op
    BY BusyClaim
  <2>2. Carries(operations[OpOf(v)], operations'[OpOf(v)], chat[OpOf(v)])
    BY <2>1 DEF AllCarry
  <2>3. Holds(operations[OpOf(v)], chat[OpOf(v)], NoneOf(OpOf(v), wire), worker[v])
    BY DEF ChatInv
  <2> QED
    BY <2>2, <2>3, Zenon DEF Carries
<1> QED
  BY <1>1, <1>2, <1>3, WorkerMoves, Zenon

\* Whoever is busy after the step was so before, with the same record.
LEMMA CarryStays ==
    ASSUME ServiceInv, RowsCounted, ChatInv, AllCarry, chat' = chat, wire' \subseteq wire,
           \A v \in Worker : Busy(worker'[v]) => worker'[v] = worker[v]
    PROVE  ChatInv'
<1>1. \A o \in Op : ChatAgrees(operations'[o], chat'[o])
  BY DEF AllCarry, Carries
<1>2. \A m \in wire' : Known(operations'[m.op], chat'[m.op], m)
  BY DEF AllCarry, Carries, ChatInv, Message
<1>3. ASSUME NEW v \in Worker, Busy(worker'[v])
      PROVE  Holds(operations'[worker'[v].claim[1]], chat'[worker'[v].claim[1]],
                   NoneOf(worker'[v].claim[1], wire'), worker'[v])
  <2> DEFINE o == worker[v].claim[1]
  <2>1. worker'[v] = worker[v] /\ Busy(worker[v])
    BY <1>3
  <2>2. o \in Op /\ o = OpOf(v)
    BY <2>1, BusyClaim DEF OpOf
  <2>3. Holds(operations[o], chat[o], NoneOf(o, wire), worker[v])
    BY <2>1 DEF ChatInv, OpOf
  <2>4. Holds(operations'[o], chat[o], NoneOf(o, wire), worker[v])
    BY <2>2, <2>3, Zenon DEF AllCarry, Carries
  <2>5. NoneOf(o, wire) => NoneOf(o, wire')
    BY DEF NoneOf
  <2> QED
    BY <2>1, <2>4, <2>5, HoldsQuieter
<1>4. \A v, u \in Worker : Busy(worker'[v]) /\ Busy(worker'[u]) /\ worker'[v].claim = worker'[u].claim => v = u
  BY DEF ChatInv
<1>5. chat' \in [Op -> Seq(Message)] /\ wire' \subseteq Message
  BY DEF ChatInv
<1> QED
  BY <1>1, <1>2, <1>3, <1>4, <1>5 DEF ChatInv, OpOf

LEMMA SameCarries ==
    ASSUME ServiceInv, RowsCounted, ChatInv, operations' = operations
    PROVE  AllCarry
  BY ChatFacts DEF AllCarry

\* Worker w moves on with its claim while the queue and the chats stay as they are.
LEMMA MyMoves ==
    ASSUME ServiceInv, RowsCounted, ChatInv, NEW w \in Worker, NEW x,
           worker' = [worker EXCEPT ![w] = x], operations' = operations, chat' = chat, wire' \subseteq wire,
           Busy(x) => /\ Busy(worker[w]) /\ x.claim = worker[w].claim
                      /\ Holds(operations[OpOf(w)], chat[OpOf(w)], NoneOf(OpOf(w), wire'), x)
    PROVE  ChatInv'
<1>1. Busy(x) => /\ Holds(operations'[x.claim[1]], chat[x.claim[1]], NoneOf(x.claim[1], wire'), x)
                 /\ Busy(worker[w]) /\ x.claim = worker[w].claim
  BY DEF OpOf
<1>2. AllCarry
  BY SameCarries
<1> QED
  BY <1>1, <1>2, CarryMoves, Zenon

\* Whoever claims another attempt of the row holds nothing of this one.
LEMMA OthersHold ==
    ASSUME NEW r, NEW y, NEW s, NEW q, NEW p, NEW x, Holds(r, s, q, x),
           y.attempt = r.attempt, x.claim[2] # r.attempt
    PROVE  Holds(y, s, p, x)
  BY Zenon DEF Holds

\* Worker w writes the row of its own attempt.
LEMMA MyRowMoves ==
    ASSUME ServiceInv, RowsCounted, ChatInv, NEW w \in Worker, NEW x, NEW y,
           Busy(worker[w]), worker' = [worker EXCEPT ![w] = x], chat' = chat, wire' \subseteq wire,
           operations' = [operations EXCEPT ![OpOf(w)] = y],
           worker[w].claim[2] = operations[OpOf(w)].attempt, y.attempt = operations[OpOf(w)].attempt,
           ChatAgrees(y, chat[OpOf(w)]),
           \A m \in wire' : m.op = OpOf(w) => Known(y, chat[OpOf(w)], m),
           Busy(x) => x.claim = worker[w].claim /\ Holds(y, chat[OpOf(w)], NoneOf(OpOf(w), wire'), x)
    PROVE  ChatInv'
<1> DEFINE o == OpOf(w)
<1>1. o \in Op /\ worker[w].claim = <<o, operations[o].attempt>>
  BY BusyClaim
<1>2. operations'[o] = y /\ \A p \in Op : p # o => operations'[p] = operations[p]
  BY <1>1, ChatFacts
<1>3. \A p \in Op : ChatAgrees(operations'[p], chat[p])
  BY <1>2, ChatFacts
<1>4. \A m \in wire' : Known(operations'[m.op], chat[m.op], m)
  BY <1>2 DEF ChatInv, Message
<1>5. ASSUME NEW v \in Worker, v # w, Busy(worker[v])
      PROVE  Holds(operations'[OpOf(v)], chat[OpOf(v)], NoneOf(OpOf(v), wire), worker[v])
  <2>1. Holds(operations[OpOf(v)], chat[OpOf(v)], NoneOf(OpOf(v), wire), worker[v])
    BY <1>5 DEF ChatInv
  <2>2. OpOf(v) \in Op /\ worker[v].claim = <<OpOf(v), worker[v].claim[2]>>
    BY <1>5, BusyClaim
  <2>3. worker[v].claim # worker[w].claim
    BY <1>5 DEF ChatInv
  <2>4. CASE OpOf(v) = o
    <3>1. worker[v].claim[2] # operations[o].attempt
      BY <1>1, <2>2, <2>3, <2>4
    <3>2. Holds(operations[o], chat[o], NoneOf(o, wire), worker[v])
      BY <2>1, <2>4
    <3>3. Holds(y, chat[o], NoneOf(o, wire), worker[v])
      BY <3>1, <3>2, OthersHold
    <3> QED
      BY <1>2, <2>4, <3>3
  <2>5. CASE OpOf(v) # o
    BY <1>2, <2>1, <2>2, <2>5
  <2> QED
    BY <2>4, <2>5
<1>6. Busy(x) => /\ Holds(operations'[x.claim[1]], chat[x.claim[1]], NoneOf(x.claim[1], wire'), x)
                 /\ Busy(worker[w]) /\ x.claim = worker[w].claim
  BY <1>2 DEF OpOf
<1> QED
  BY <1>3, <1>4, <1>5, <1>6, WorkerMoves, Zenon

----------------------------------------------------------------------------
(* Steps that write no row of their claim.                                 *)

\* A worker that leaves its claim or dies holds nothing.
LEMMA LetsGo ==
    ASSUME ServiceInv, RowsCounted, ChatInv, AllCarry, NEW w \in Worker, Leave(w) \/ Die(w),
           chat' = chat, wire' \subseteq wire
    PROVE  ChatInv'
<1>1. PICK x : worker' = [worker EXCEPT ![w] = x] /\ x.pc \in {"idle", "stopped"}
  <2>1. IdleWorker.pc = "idle" /\ [IdleWorker EXCEPT !.pc = "stopped"].pc = "stopped"
    BY DEF IdleWorker
  <2> QED
    BY <2>1 DEF Leave, Die, Become
<1>2. ~Busy(x)
  BY <1>1 DEF Busy
<1> QED
  BY <1>1, <1>2, CarryMoves, Zenon

\* The steps of a claim at which nothing is held.
Before == {"authorize", "lookup", "execute", "ack", "fail", "planned", "check", "begin"}

LEMMA HoldsBefore ==
    ASSUME NEW r, NEW s, NEW q, NEW x, x.pc \in Before
    PROVE  Holds(r, s, q, x)
  BY DEF Holds, Before

\* What a worker holds depends on its step, its claim, its unit and its outcome.
LEMMA HoldsSame ==
    ASSUME NEW r, NEW s, NEW q, NEW x, NEW y, Holds(r, s, q, x), y.claim = x.claim,
           \/ y.pc = x.pc /\ y.ordinal = x.ordinal /\ y.plan = x.plan /\ y.outcome = x.outcome
           \/ {x.pc, y.pc} \subseteq {"unit", "open", "stop"}
    PROVE  Holds(r, s, q, y)
<1>1. CASE y.pc = x.pc /\ y.ordinal = x.ordinal /\ y.plan = x.plan /\ y.outcome = x.outcome
  BY <1>1, Zenon DEF Holds
<1>2. CASE {x.pc, y.pc} \subseteq {"unit", "open", "stop"}
  BY <1>2 DEF Holds
<1> QED
  BY <1>1, <1>2

\* Worker w goes on to a step before its delivery.
LEMMA GoesOn ==
    ASSUME ServiceInv, RowsCounted, ChatInv, NEW w \in Worker, NEW x, Become(w, x), Busy(worker[w]),
           x.pc \in Before, x.claim = worker[w].claim, QueueSame, ChatSame
    PROVE  ChatInv'
<1>1. Holds(operations[OpOf(w)], chat[OpOf(w)], NoneOf(OpOf(w), wire'), x)
  BY HoldsBefore
<1>2. worker' = [worker EXCEPT ![w] = x] /\ operations' = operations /\ chat' = chat /\ wire' \subseteq wire
  BY DEF Become, QueueSame, ChatSame
<1> QED
  BY <1>1, <1>2, MyMoves, Zenon

\* The same with what it holds.
LEMMA KeepsHold ==
    ASSUME ServiceInv, RowsCounted, ChatInv, NEW w \in Worker, NEW x, Become(w, x), Busy(worker[w]),
           x.claim = worker[w].claim, QueueSame, chat' = chat, wire' = wire,
           \/ /\ x.pc = worker[w].pc /\ x.ordinal = worker[w].ordinal
              /\ x.plan = worker[w].plan /\ x.outcome = worker[w].outcome
           \/ {x.pc, worker[w].pc} \subseteq {"unit", "open", "stop"}
    PROVE  ChatInv'
<1>1. Holds(operations[OpOf(w)], chat[OpOf(w)], NoneOf(OpOf(w), wire), worker[w])
  BY DEF ChatInv
<1>2. Holds(operations[OpOf(w)], chat[OpOf(w)], NoneOf(OpOf(w), wire), x)
  BY <1>1, HoldsSame
<1>3. worker' = [worker EXCEPT ![w] = x] /\ operations' = operations
  BY DEF Become, QueueSame
<1> QED
  BY <1>2, <1>3, MyMoves, Zenon

\* The ways on, and what they keep.
LEMMA WaysKeep ==
    ASSUME ServiceInv, RowsCounted, ChatInv, NEW w \in Worker, Busy(worker[w]), QueueSame, ChatSame
    PROVE  /\ Leave(w) \/ Die(w) => ChatInv'
           /\ \A pc \in Before : Goto(w, pc) => ChatInv'
           /\ \A a, b, c : ToFail(w, a, b, c) => ChatInv'
           /\ worker[w].pc = "unit" /\ Goto(w, "open") => ChatInv'
           /\ worker[w].pc = "unit" => \A reason : ToStop(w, reason) => ChatInv'
<1>1. /\ operations' = operations /\ chat' = chat /\ wire' = wire /\ wire' \subseteq wire
      /\ worker[w] \in WorkerState
  BY DEF QueueSame, ChatSame, ServiceInv
<1>2. Leave(w) \/ Die(w) => ChatInv'
  BY <1>1, SameCarries, LetsGo
<1>3. ASSUME NEW pc \in Before, Goto(w, pc) PROVE ChatInv'
  <2> DEFINE x == [worker[w] EXCEPT !.pc = pc]
  <2>1. x.pc \in Before /\ x.claim = worker[w].claim /\ Become(w, x)
    BY <1>1, <1>3 DEF WorkerState, Goto
  <2> HIDE DEF x
  <2> QED
    BY <2>1, GoesOn
<1>4. ASSUME NEW a, NEW b, NEW c, ToFail(w, a, b, c) PROVE ChatInv'
  <2> DEFINE x == [worker[w] EXCEPT !.pc = "fail", !.call = [retryable |-> a, code |-> b, strict |-> c]]
  <2>1. x.pc \in Before /\ x.claim = worker[w].claim /\ Become(w, x)
    BY <1>1, <1>4 DEF WorkerState, ToFail, Before
  <2> HIDE DEF x
  <2> QED
    BY <2>1, GoesOn
<1>5. ASSUME worker[w].pc = "unit", Goto(w, "open") PROVE ChatInv'
  <2> DEFINE x == [worker[w] EXCEPT !.pc = "open"]
  <2>1. x.pc = "open" /\ x.claim = worker[w].claim /\ Become(w, x)
    BY <1>1, <1>5 DEF WorkerState, Goto
  <2> HIDE DEF x
  <2> QED
    BY <1>1, <1>5, <2>1, KeepsHold
<1>6. ASSUME worker[w].pc = "unit", NEW reason, ToStop(w, reason) PROVE ChatInv'
  <2> DEFINE x == [worker[w] EXCEPT !.pc = "stop", !.reason = reason]
  <2>1. x.pc = "stop" /\ x.claim = worker[w].claim /\ Become(w, x)
    BY <1>1, <1>6 DEF WorkerState, ToStop
  <2> HIDE DEF x
  <2> QED
    BY <1>1, <1>6, <2>1, KeepsHold
<1> QED
  BY <1>2, <1>3, <1>4, <1>5, <1>6

\* worker_loop, its events and process_claim up to the delivery.
LEMMA QuietSteps ==
    ASSUME ServiceInv, RowsCounted, ChatInv, NEW w \in Worker,
           \/ Exit(w) \/ TakeEvent(w) \/ Authorize(w) \/ Lookup(w) \/ Execute(w)
           \/ ProgressStale(w) \/ Interrupt(w) \/ Check(w) \/ NextUnit(w)
    PROVE  ChatInv'
<1> USE DEF At
<1>1. worker[w] \in WorkerState
  BY DEF ServiceInv
<1>2. CASE Exit(w)
  <2> DEFINE x == [worker[w] EXCEPT !.pc = "stopped"]
  <2>1. ~Busy(x) /\ worker' = [worker EXCEPT ![w] = x] /\ wire' \subseteq wire
    BY <1>1, <1>2 DEF Exit, Goto, Become, Busy, WorkerState, ChatSame
  <2>2. operations' = operations /\ chat' = chat
    BY <1>2 DEF Exit, QueueSame, ChatSame
  <2> HIDE DEF x
  <2> QED
    BY <2>1, <2>2, MyMoves, Zenon
<1>3. CASE TakeEvent(w)
  <2>1. Busy(worker[w]) /\ QueueSame /\ ChatSame /\ (Goto(w, "ack") \/ Leave(w) \/ Die(w))
    BY <1>3 DEF TakeEvent, Busy
  <2> QED
    BY <2>1, WaysKeep DEF Before
<1>4. CASE Authorize(w)
  <2>1. /\ Busy(worker[w]) /\ QueueSame /\ ChatSame
        /\ (Goto(w, "lookup") \/ Goto(w, "check") \/ ToFail(w, FALSE, FALSE, TRUE))
    BY <1>4 DEF Authorize, Busy
  <2> QED
    BY <2>1, WaysKeep DEF Before
<1>5. ASSUME NEW p \in Plans, NEW b \in BOOLEAN, Busy(worker[w]), QueueSame, ChatSame,
             Become(w, [worker[w] EXCEPT !.pc = "planned", !.cached = b, !.plan = p])
      PROVE  ChatInv'
  <2> DEFINE x == [worker[w] EXCEPT !.pc = "planned", !.cached = b, !.plan = p]
  <2>1. x.pc \in Before /\ x.claim = worker[w].claim
    BY <1>1 DEF WorkerState, Before
  <2>2. Become(w, x)
    BY <1>5
  <2> HIDE DEF x
  <2> QED
    BY <1>5, <2>1, <2>2, GoesOn
<1>6. CASE Lookup(w)
  <2>1. Busy(worker[w]) /\ QueueSame /\ ChatSame
    BY <1>6 DEF Lookup, Busy
  <2>2. \/ \E p \in Plans : Become(w, [worker[w] EXCEPT !.pc = "planned", !.cached = TRUE, !.plan = p])
        \/ Goto(w, "execute")
    BY <1>6 DEF Lookup
  <2>3. CASE Goto(w, "execute")
    BY <2>1, <2>3, WaysKeep DEF Before
  <2> QED
    BY <2>1, <2>2, <2>3, <1>5
<1>7. CASE Execute(w)
  <2>1. Busy(worker[w]) /\ QueueSame /\ ChatSame
    BY <1>7 DEF Execute, Busy
  <2>2. \/ \E p \in Plans : Become(w, [worker[w] EXCEPT !.pc = "planned", !.plan = p])
        \/ \E a, b, c : ToFail(w, a, b, c)
    BY <1>7 DEF Execute
  <2>3. ASSUME NEW p \in Plans, Become(w, [worker[w] EXCEPT !.pc = "planned", !.plan = p])
        PROVE  ChatInv'
    <3> DEFINE x == [worker[w] EXCEPT !.pc = "planned", !.plan = p]
    <3>1. x.pc \in Before /\ x.claim = worker[w].claim
      BY <1>1 DEF WorkerState, Before
    <3>2. Become(w, x)
      BY <2>3
    <3> HIDE DEF x
    <3> QED
      BY <2>1, <3>1, <3>2, GoesOn
  <2> QED
    BY <2>1, <2>2, <2>3, WaysKeep
<1>8. CASE ProgressStale(w)
  <2>1. Busy(worker[w]) /\ QueueSame /\ ChatSame /\ Leave(w)
    BY <1>8 DEF ProgressStale, Busy
  <2> QED
    BY <2>1, WaysKeep
<1>9. CASE Interrupt(w)
  <2>1. Busy(worker[w]) /\ QueueSame /\ ChatSame /\ ToFail(w, TRUE, FALSE, FALSE)
    BY <1>9 DEF Interrupt, Busy
  <2> QED
    BY <2>1, WaysKeep
<1>10. CASE Check(w)
  <2>1. Busy(worker[w]) /\ QueueSame /\ ChatSame /\ Goto(w, "begin")
    BY <1>10 DEF Check, Busy
  <2> QED
    BY <2>1, WaysKeep DEF Before
<1>11. CASE NextUnit(w)
  <2>1. /\ Busy(worker[w]) /\ QueueSame /\ ChatSame /\ worker[w].pc = "unit"
        /\ (Leave(w) \/ Goto(w, "open") \/ \E reason : ToStop(w, reason))
    BY <1>11 DEF NextUnit, Busy
  <2> QED
    BY <2>1, WaysKeep
<1> QED
  BY <1>2, <1>3, <1>4, <1>6, <1>7, <1>8, <1>9, <1>10, <1>11

\* The heartbeat task, its events during a delivery, and a database error.
LEMMA BeatSteps ==
    ASSUME ServiceInv, RowsCounted, ChatInv, NEW w \in Worker,
           Heartbeat(w) \/ HeartbeatError(w) \/ HearEvent(w) \/ DatabaseError(w)
    PROVE  ChatInv'
<1>1. worker[w] \in WorkerState
  BY DEF ServiceInv
<1>2. operations' = operations /\ ready' = ready /\ chat' = chat /\ wire' = wire
  BY DEF Heartbeat, HeartbeatError, HearEvent, DatabaseError, QueueSame, ChatSame
<1>3. CASE DatabaseError(w)
  <2>1. Die(w)
    BY <1>3 DEF DatabaseError
  <2> QED
    BY <1>2, <2>1, SameCarries, LetsGo
<1>4. CASE Heartbeat(w) \/ HeartbeatError(w) \/ HearEvent(w)
  <2>1. PICK x : /\ worker' = [worker EXCEPT ![w] = x] /\ x.claim = worker[w].claim
                 /\ x.pc = worker[w].pc /\ x.ordinal = worker[w].ordinal
                 /\ x.plan = worker[w].plan /\ x.outcome = worker[w].outcome
    <3> DEFINE Kept(x) == /\ x.claim = worker[w].claim
                          /\ x.pc = worker[w].pc /\ x.ordinal = worker[w].ordinal
                          /\ x.plan = worker[w].plan /\ x.outcome = worker[w].outcome
               Told(e) == [worker[w] EXCEPT !.events = e]
               Ended(e) == [worker[w] EXCEPT !.events = e, !.beat = FALSE]
    <3>1. \A e : Kept(Told(e)) /\ Kept(Ended(e))
      BY <1>1 DEF WorkerState
    <3>2. CASE Heartbeat(w)
      <4>1. PICK e : worker' = [worker EXCEPT ![w] = Told(e)] \/ worker' = [worker EXCEPT ![w] = Ended(e)]
        BY <1>1, <3>2 DEF Heartbeat, Become, WorkerState
      <4> HIDE DEF Told, Ended
      <4> QED
        BY <3>1, <4>1
    <3>3. CASE HeartbeatError(w)
      <4>1. PICK e : worker' = [worker EXCEPT ![w] = Ended(e)]
        BY <1>1, <3>3 DEF HeartbeatError, Become, WorkerState
      <4> HIDE DEF Ended
      <4> QED
        BY <3>1, <4>1
    <3>4. CASE HearEvent(w)
      <4> DEFINE Heard(e, c, b) == [worker[w] EXCEPT !.events = e, !.cancelSeen = c, !.beatFailed = b]
      <4>1. \A e, c, b : Kept(Heard(e, c, b))
        BY <1>1 DEF WorkerState
      <4>2. PICK e, c, b : worker' = [worker EXCEPT ![w] = Heard(e, c, b)]
        BY <3>4 DEF HearEvent, Become
      <4> HIDE DEF Heard
      <4> QED
        BY <4>1, <4>2
    <3> QED
      BY <1>4, <3>2, <3>3, <3>4
  <2>2. CASE Busy(worker[w])
    BY <1>2, <2>1, <2>2, KeepsHold DEF Become, QueueSame
  <2>3. CASE ~Busy(worker[w])
    <3>1. ~Busy(x) /\ wire' \subseteq wire
      BY <1>2, <2>1, <2>3 DEF Busy
    <3> QED
      BY <1>2, <2>1, <3>1, MyMoves, Zenon
  <2> QED
    BY <2>2, <2>3
<1> QED
  BY <1>3, <1>4

\* A claim hands out an attempt that nobody has claimed.
LEMMA ClaimedGrows ==
    ASSUME ServiceInv, NEW b, NEW o \in Op, Claim(b, o)
    PROVE  operations'[o].attempt > operations[o].attempt
<1> DEFINE Table(S) == [q \in Op |-> IF q \in S THEN ExpireRow(operations[q]) ELSE operations[q]]
<1>1. PICK S \in SUBSET Expired : operations' = [Table(S) EXCEPT ![o] = ClaimRow(Table(S)[o], b)]
  BY ConstantsAssumption DEF Claim, kSubset
<1>2. Table(S)[o] \in Row /\ operations[o] \in Row
  BY ExpireRowOK DEF ServiceInv, Inv, RowsOK, RowOK, Expired
<1>3. operations'[o] = ClaimRow(Table(S)[o], b)
  BY <1>1
<1>4. Table(S)[o].attempt = operations[o].attempt
  BY <1>2, ExpireKeeps DEF Keeps
<1> HIDE DEF Table
<1>5. ClaimRow(Table(S)[o], b).attempt = Table(S)[o].attempt + 1 /\ Table(S)[o].attempt \in Nat
  BY <1>2 DEF ClaimRow, Row
<1> QED
  BY <1>3, <1>4, <1>5

\* claim_for_bot: the claim is the worker's alone.
LEMMA PollStep ==
    ASSUME ServiceInv, RowsCounted, ChatInv, NEW w \in Worker, Poll(w)
    PROVE  ChatInv'
<1>1. PICK o \in Op \cup {NoOp} :
          /\ Claim(OurBot, o)
          /\ IF o = NoOp THEN UNCHANGED worker
             ELSE Become(w, [IdleWorker EXCEPT !.pc = "authorize",
                                               !.claim = <<o, operations'[o].attempt>>,
                                               !.beat = TRUE])
  BY DEF Poll
<1>2. AllCarry
  BY <1>1, ClaimCarries
<1>3. chat' = chat /\ wire' = wire /\ wire' \subseteq wire
  BY DEF Poll, ChatSame
<1>4. CASE o = NoOp
  BY <1>1, <1>2, <1>3, <1>4, CarryStays
<1>5. CASE o # NoOp
  <2> DEFINE n == operations'[o].attempt
             x == [IdleWorker EXCEPT !.pc = "authorize", !.claim = <<o, n>>, !.beat = TRUE]
  <2>1. o \in Op
    BY <1>1, <1>5
  <2>2. worker' = [worker EXCEPT ![w] = x]
    BY <1>1, <1>5 DEF Become
  <2>3. x.pc = "authorize" /\ x.claim = <<o, n>>
    BY DEF IdleWorker
  <2>4. n > operations[o].attempt /\ operations[o].attempt \in Nat
    BY <1>1, <2>1, ClaimedGrows, ChatFacts DEF Row
  <2> HIDE DEF x
  <2>5. \A r, s, q : Holds(r, s, q, x)
    BY <2>3, HoldsBefore DEF Before
  <2>6. ASSUME NEW v \in Worker, Busy(worker[v]), worker[v].claim = x.claim
        PROVE  FALSE
    <3>1. WorkerOK(worker[v], operations)
      BY DEF ServiceInv
    <3>2. n \in Nat /\ n <= operations[o].attempt
      BY <2>3, <2>6, <3>1 DEF WorkerOK, Busy
    <3> QED
      BY <2>4, <3>2
  <2> HIDE DEF n
  <2> QED
    BY <1>2, <1>3, <2>2, <2>5, <2>6, CarryMoves, Zenon
<1> QED
  BY <1>4, <1>5

\* Submission, cancellation, time, faults, and requests that are lost.
LEMMA SurroundingSteps ==
    ASSUME ServiceInv, RowsCounted, ChatInv,
           Shutdown \/ Crash \/ Restart \/ Elsewhere \/ UNCHANGED serviceVars \/ \E m \in wire : Lose(m)
    PROVE  ChatInv'
<1>1. chat' = chat /\ wire' \subseteq wire
  BY DEF Shutdown, Crash, Restart, Elsewhere, ChatSame, serviceVars, Lose
<1>2. ~Busy(IdleWorker)
  BY DEF Busy, IdleWorker
<1>3. \A v \in Worker : Busy(worker'[v]) => worker'[v] = worker[v]
  BY <1>2 DEF Shutdown, Crash, Restart, Elsewhere, serviceVars, Lose
<1>4. AllCarry
  <2>1. CASE Elsewhere
    BY <2>1, OwnerCarries DEF Elsewhere
  <2>2. CASE ~Elsewhere
    BY <2>2, SameCarries DEF Shutdown, Crash, Restart, serviceVars, Lose, QueueSame
  <2> QED
    BY <2>1, <2>2
<1> QED
  BY <1>1, <1>3, <1>4, CarryStays, Zenon

\* fail_with_code, acknowledge_cancel: the row is not delivered yet.
LEMMA EndsCarry ==
    ASSUME ServiceInv, RowsCounted, ChatInv, NEW o \in Op, NEW a,
           AckCancel(<<o, a>>) \/ \E retryable, code : Fail(<<o, a>>, retryable, code)
    PROVE  AllCarry
<1> DEFINE r == operations[o]
<1>1. r \in Row /\ ChatAgrees(r, chat[o])
  BY ChatFacts
<1>2. r.status = "running"
  BY DEF AckCancel, Fail, Running
<1>3. PICK x : operations' = [operations EXCEPT ![o] = x] /\ x.status \notin Delivered /\ x.delivered = r.delivered
  <2>1. CASE AckCancel(<<o, a>>)
    <3>1. Released(r, "cancelled").status = "cancelled" /\ Released(r, "cancelled").delivered = r.delivered
      BY <1>1 DEF Released, Row
    <3> QED
      BY <2>1, <3>1 DEF AckCancel, Commit, Delivered
  <2>2. ASSUME NEW retryable, NEW code, Fail(<<o, a>>, retryable, code)
        PROVE  \E x : operations' = [operations EXCEPT ![o] = x] /\ x.status \notin Delivered /\ x.delivered = r.delivered
    <3> DEFINE st == IF r.cancel THEN "cancelled"
                     ELSE IF retryable /\ r.attempt < r.max THEN "queued" ELSE "failed"
               x == [Released(r, st) EXCEPT !.code = code /\ ~r.cancel]
    <3>1. operations' = [operations EXCEPT ![o] = x]
      BY <2>2 DEF Fail, Commit
    <3>2. x.status = st /\ x.delivered = r.delivered
      BY <1>1 DEF Released, Row
    <3> HIDE DEF x
    <3> QED
      BY <3>1, <3>2 DEF Delivered
  <2> QED
    BY <2>1, <2>2
<1>4. r.status \notin Delivered /\ x.delivered = 0
  BY <1>1, <1>2, <1>3 DEF Delivered, ChatAgrees
<1> QED
  BY <1>1, <1>3, <1>4, CarriesOutside, OneCarries

LEMMA EndSteps ==
    ASSUME ServiceInv, RowsCounted, ChatInv, NEW w \in Worker, FailCall(w) \/ AckCall(w)
    PROVE  ChatInv'
<1>1. Busy(worker[w]) /\ ChatSame /\ (Leave(w) \/ Die(w))
  BY DEF FailCall, AckCall, At, Busy
<1>2. ClaimOf(w) = <<OpOf(w), worker[w].claim[2]>> /\ OpOf(w) \in Op
  BY <1>1, BusyClaim
<1>3. AllCarry
  <2>1. CASE QueueSame
    BY <2>1, SameCarries DEF QueueSame
  <2>2. CASE ~QueueSame
    <3>1. AckCancel(ClaimOf(w)) \/ \E retryable, code : Fail(ClaimOf(w), retryable, code)
      BY <2>2 DEF FailCall, AckCall
    <3> QED
      BY <1>2, <3>1, EndsCarry
  <2> QED
    BY <2>1, <2>2
<1> QED
  BY <1>1, <1>3, LetsGo DEF ChatSame

----------------------------------------------------------------------------
(* The delivery.                                                           *)

\* begin_delivery_batch.
LEMMA BeginStep ==
    ASSUME ServiceInv, RowsCounted, ChatInv, NEW w \in Worker, Begin(w)
    PROVE  ChatInv'
<1> DEFINE o == OpOf(w)
           r == operations[o]
           total == TotalOf(worker[w].plan)
           y == [r EXCEPT !.status = "delivering", !.planned = total, !.delivered = 0]
           x == [worker[w] EXCEPT !.pc = "unit"]
<1>1. Busy(worker[w]) /\ ChatSame /\ worker[w] \in WorkerState
  BY DEF Begin, At, Busy, ServiceInv
<1>2. ClaimOf(w) = <<o, worker[w].claim[2]>> /\ o \in Op /\ ClaimOf(w)[1] = o
  BY <1>1, BusyClaim
<1>3. chat' = chat /\ wire' = wire /\ wire' \subseteq wire
  BY <1>1 DEF ChatSame
<1>4. CASE QueueSame /\ Leave(w)
  BY <1>1, <1>4, WaysKeep
<1>5. CASE BeginBatch(ClaimOf(w), total) /\ Goto(w, "unit")
  <2>1. operations' = [operations EXCEPT ![o] = y] /\ r.status = "running"
    BY <1>2, <1>5 DEF BeginBatch, Running, Commit
  <2>2. RowOK(r) /\ ChatAgrees(r, chat[o]) /\ operations'[o] = y
    BY <1>2, <2>1, ChatFacts
  <2>3. x.pc = "unit" /\ x.claim = worker[w].claim /\ worker' = [worker EXCEPT ![w] = x]
    BY <1>1, <1>5 DEF WorkerState, Goto, Become
  <2>4. Carries(r, y, chat[o]) /\ CurrentUnits(y) = {}
    BY <2>1, <2>2, CarriesBegin
  <2> HIDE DEF x, y
  <2>5. AllCarry
    BY <1>2, <2>1, <2>4, OneCarries
  <2>6. CurrentUnits(y) = UnitsIn(y, "sent")
    BY <2>4 DEF UnitsIn
  <2>7. Holds(y, chat[o], NoneOf(o, wire'), x)
    BY <2>3, <2>6 DEF Holds
  <2>8. x.claim[1] = o
    BY <2>3 DEF OpOf
  <2> QED
    BY <1>1, <1>3, <2>2, <2>3, <2>5, <2>7, <2>8, CarryMoves, Zenon
<1> QED
  BY <1>4, <1>5 DEF Begin

\* stop_delivery_batch: no unit of the delivery is open.
LEMMA StopStep ==
    ASSUME ServiceInv, RowsCounted, ChatInv, NEW w \in Worker, StopCall(w)
    PROVE  ChatInv'
<1> DEFINE o == OpOf(w)
           r == operations[o]
           reason == worker[w].reason
           m == [r EXCEPT !.units = IF reason = "cancel" /\ ~r.cancel THEN @
                                    ELSE Marked(r, "sending", "unknown")]
           y == Released(m, StoppedStatus(m, reason))
<1>1. Busy(worker[w]) /\ ChatSame /\ Leave(w) /\ worker[w].pc = "stop"
  BY DEF StopCall, At, Busy
<1>2. /\ ClaimOf(w) = <<o, worker[w].claim[2]>> /\ o \in Op
      /\ ClaimOf(w)[1] = o /\ ClaimOf(w)[2] = worker[w].claim[2]
  BY <1>1, BusyClaim
<1>3. chat' = chat /\ wire' \subseteq wire
  BY <1>1 DEF ChatSame
<1>4. CASE QueueSame
  BY <1>1, <1>4, WaysKeep
<1>5. CASE StopBatch(ClaimOf(w), reason)
  <2>1. /\ operations' = [operations EXCEPT ![o] = y] /\ r.status = "delivering"
        /\ worker[w].claim[2] = r.attempt
    BY <1>2, <1>5 DEF StopBatch, Delivering, Fenced, Commit
  <2>2. /\ r \in Row /\ RowOK(r) /\ Counted(r) /\ ChatAgrees(r, chat[o]) /\ chat[o] \in Seq(Message)
    BY <1>2, ChatFacts
  <2>3. Holds(r, chat[o], NoneOf(o, wire), worker[w])
    BY <1>1 DEF ChatInv
  <2>4. CurrentUnits(r) = UnitsIn(r, "sent")
    BY <1>1, <2>1, <2>3 DEF Holds
  <2>5. Carries(r, y, chat[o])
    BY <2>1, <2>2, <2>4, CarriesStop
  <2> HIDE DEF y
  <2>6. AllCarry
    BY <1>2, <2>1, <2>5, OneCarries
  <2> QED
    BY <1>1, <1>3, <2>6, LetsGo
<1> QED
  BY <1>4, <1>5 DEF StopCall

\* begin_delivery_unit: all that came before has been confirmed, so that no
\* request of the operation is on the wire.
LEMMA OpenStep ==
    ASSUME ServiceInv, RowsCounted, ChatInv, NEW w \in Worker, Open(w)
    PROVE  ChatInv'
<1> DEFINE o == OpOf(w)
           r == operations[o]
           a == worker[w].claim[2]
           k == worker[w].ordinal
           n == Head(worker[w].plan)
           u == [attempt |-> a, ordinal |-> k, count |-> n, status |-> "sending"]
           y == [r EXCEPT !.units = @ \cup {u}]
           x == [worker[w] EXCEPT !.pc = "announce"]
<1>1. Busy(worker[w]) /\ ChatSame /\ worker[w] \in WorkerState /\ worker[w].pc = "open"
  BY DEF Open, At, Busy, ServiceInv
<1>2. ClaimOf(w) = <<o, a>> /\ o \in Op /\ a \in Nat
  BY <1>1, BusyClaim
<1>3. chat' = chat /\ wire' = wire /\ wire' \subseteq wire
  BY <1>1 DEF ChatSame
<1>4. CASE QueueSame /\ Leave(w)
  BY <1>1, <1>4, WaysKeep
<1>5. CASE BeginUnit(ClaimOf(w), k, n) /\ Goto(w, "announce")
  <2>1. MayBeginUnit(<<o, a>>, k, n) /\ operations' = [operations EXCEPT ![o] = y]
    BY <1>2, <1>5 DEF BeginUnit, Commit
  <2>2. k \in Nat /\ n \in Nat \ {0}
    <3>1. worker[w].plan \in Seq(1..MaxUnit) /\ worker[w].plan # <<>> /\ k \in Nat
      BY <1>1 DEF WorkerState, ServiceInv, WorkerOK
    <3>2. n \in 1..MaxUnit
      BY <3>1, HeadTailProperties
    <3> QED
      BY <3>1, <3>2, ConstantsAssumption
  <2>3. chat[o] \in Seq(Message) /\ ChatAgrees(r, chat[o])
    BY <1>2, ChatFacts
  <2>4. Inv
    BY DEF ServiceInv
  <2>5. /\ ChatAgrees(y, chat[o]) /\ Awaits(y, k, n) /\ Len(chat[o]) = k /\ y.attempt = a
        /\ r.attempt = a /\ \A j, i : ~Awaits(r, j, i)
    BY <1>2, <2>1, <2>2, <2>3, <2>4, OpenedAgrees
  <2>6. /\ x.pc = "announce" /\ x.claim = worker[w].claim /\ worker' = [worker EXCEPT ![w] = x]
        /\ x.ordinal = k /\ x.plan = worker[w].plan
    BY <1>1, <1>5 DEF WorkerState, Goto, Become
  <2>7. NoneOf(o, wire')
    BY <1>3, <2>5 DEF NoneOf, ChatInv, Known
  <2>8. Holds(y, chat[o], NoneOf(o, wire'), x)
    BY <2>5, <2>6, <2>7 DEF Holds
  <2>9. \A m \in wire' : m.op = o => Known(y, chat[o], m)
    BY <2>7 DEF NoneOf
  <2> HIDE DEF x, y
  <2> QED
    BY <1>1, <1>3, <2>1, <2>5, <2>6, <2>8, <2>9, MyRowMoves, Zenon
<1> QED
  BY <1>4, <1>5 DEF Open

\* What a worker that announces, sends or settles is about.
LEMMA SendFacts ==
    ASSUME ServiceInv, RowsCounted, ChatInv, NEW w \in Worker,
           worker[w].pc \in {"announce", "send", "settle"}
    PROVE  /\ Busy(worker[w]) /\ worker[w] \in WorkerState /\ OpOf(w) \in Op
           /\ worker[w].claim = <<OpOf(w), operations[OpOf(w)].attempt>>
           /\ ClaimOf(w) = <<OpOf(w), operations[OpOf(w)].attempt>>
           /\ worker[w].claim[2] = operations[OpOf(w)].attempt
           /\ Holds(operations[OpOf(w)], chat[OpOf(w)], NoneOf(OpOf(w), wire), worker[w])
           /\ Awaits(operations[OpOf(w)], worker[w].ordinal, Head(worker[w].plan))
           /\ Request(w) \in Message
           /\ Request(w).op = OpOf(w) /\ Request(w).attempt = operations[OpOf(w)].attempt
           /\ Request(w).ordinal = worker[w].ordinal /\ Request(w).count = Head(worker[w].plan)
<1>1. Busy(worker[w])
  BY DEF Busy
<1>2. /\ worker[w] \in WorkerState /\ OpOf(w) \in Op /\ WorkerOK(worker[w], operations)
      /\ worker[w].claim = <<OpOf(w), worker[w].claim[2]>> /\ worker[w].claim[2] \in Nat
      /\ ClaimOf(w) = worker[w].claim
  BY <1>1, BusyClaim
<1>3. Holds(operations[OpOf(w)], chat[OpOf(w)], NoneOf(OpOf(w), wire), worker[w])
  BY <1>1 DEF ChatInv
<1>4. /\ worker[w].claim[2] = operations[OpOf(w)].attempt
      /\ Awaits(operations[OpOf(w)], worker[w].ordinal, Head(worker[w].plan))
  BY <1>3 DEF Holds
<1>5. worker[w].ordinal \in Nat /\ Head(worker[w].plan) \in 1..MaxUnit
  BY <1>2, HeadTailProperties DEF WorkerOK, WorkerState
<1>6. Request(w) = [op |-> OpOf(w), attempt |-> operations[OpOf(w)].attempt,
                    ordinal |-> worker[w].ordinal, count |-> Head(worker[w].plan)]
  BY <1>2, <1>4 DEF Request
<1>7. Request(w) \in Message
  BY <1>2, <1>4, <1>5, <1>6 DEF Message
<1> QED
  BY <1>1, <1>2, <1>3, <1>4, <1>6, <1>7

\* The send ends with an outcome.
LEMMA Settles ==
    ASSUME ServiceInv, RowsCounted, ChatInv, NEW w \in Worker,
           worker[w].pc \in {"announce", "send"}, NEW outcome, ToSettle(w, outcome), outcome # "none",
           chat' = chat, wire' \subseteq wire,
           outcome \in Untouched => NoneOf(OpOf(w), wire') /\ Len(chat[OpOf(w)]) = worker[w].ordinal,
           outcome = "delivered" => worker[w].ordinal < Len(chat[OpOf(w)])
    PROVE  ChatInv'
<1> DEFINE x == [worker[w] EXCEPT !.pc = "settle", !.outcome = outcome]
<1>1. /\ Busy(worker[w]) /\ worker[w] \in WorkerState
      /\ Holds(operations[OpOf(w)], chat[OpOf(w)], NoneOf(OpOf(w), wire), worker[w])
  BY SendFacts
<1>2. /\ x.pc = "settle" /\ x.outcome = outcome /\ x.claim = worker[w].claim
      /\ x.ordinal = worker[w].ordinal /\ x.plan = worker[w].plan
  BY <1>1 DEF WorkerState
<1>3. worker' = [worker EXCEPT ![w] = x] /\ operations' = operations
  BY DEF ToSettle, Become, QueueSame
<1> HIDE DEF x
<1>4. Holds(operations[OpOf(w)], chat[OpOf(w)], NoneOf(OpOf(w), wire'), x)
  BY <1>1, <1>2, Zenon DEF Holds
<1> QED
  BY <1>1, <1>2, <1>3, <1>4, MyMoves, Zenon

\* deliver_media up to the first poll of the upload.
LEMMA AnnounceStep ==
    ASSUME ServiceInv, RowsCounted, ChatInv, NEW w \in Worker, Announce(w)
    PROVE  ChatInv'
<1> DEFINE o == OpOf(w)
           r == operations[o]
           m == Request(w)
           x == [worker[w] EXCEPT !.pc = "send"]
<1>1. /\ Busy(worker[w]) /\ worker[w] \in WorkerState /\ worker[w].pc = "announce" /\ o \in Op
      /\ worker[w].claim = <<o, r.attempt>> /\ worker[w].claim[2] = r.attempt
      /\ Holds(r, chat[o], NoneOf(o, wire), worker[w]) /\ m \in Message
      /\ Awaits(r, worker[w].ordinal, Head(worker[w].plan))
      /\ m.op = o /\ m.attempt = r.attempt /\ m.ordinal = worker[w].ordinal
      /\ m.count = Head(worker[w].plan)
  BY SendFacts DEF Announce, At
<1>2. NoneOf(o, wire) /\ Len(chat[o]) = worker[w].ordinal
  BY <1>1 DEF Holds
<1>3. chat' = chat
  BY DEF Announce
<1>4. ASSUME NEW outcome \in Untouched \cup {"unknown"}, ToSettle(w, outcome), wire' = wire
      PROVE  ChatInv'
  <2>1. outcome # "none" /\ outcome # "delivered" /\ wire' \subseteq wire
    BY <1>4 DEF Untouched
  <2> QED
    BY <1>1, <1>2, <1>3, <1>4, <2>1, Settles
<1>5. CASE wire' = wire \cup {m} /\ Goto(w, "send") /\ QueueSame
  <2>1. /\ worker' = [worker EXCEPT ![w] = x] /\ x.pc = "send" /\ x.claim = worker[w].claim
        /\ x.ordinal = worker[w].ordinal /\ x.plan = worker[w].plan
    BY <1>1, <1>5 DEF Goto, Become, WorkerState
  <2> HIDE DEF x
  <2>2. operations' = operations
    BY <1>5 DEF QueueSame
  <2>3. worker'[w] = x /\ \A v \in Worker : v # w => worker'[v] = worker[v]
    BY <2>1 DEF ServiceInv
  <2>4. Known(r, chat[o], m)
    BY <1>1, <1>2 DEF Known
  <2>5. \A p \in wire' : Known(operations[p.op], chat[p.op], p)
    BY <1>1, <1>5, <2>4 DEF ChatInv
  <2>6. ASSUME NEW v \in Worker, Busy(worker'[v])
        PROVE  Holds(operations[worker'[v].claim[1]], chat[worker'[v].claim[1]],
                     NoneOf(worker'[v].claim[1], wire'), worker'[v])
    <3>1. CASE v = w
      <4>1. Holds(r, chat[o], NoneOf(o, wire'), x)
        BY <1>1, <2>1 DEF Holds
      <4>2. x.claim[1] = o
        BY <1>1, <2>1
      <4> QED
        BY <2>3, <3>1, <4>1, <4>2
    <3>2. CASE v # w
      <4> DEFINE p == OpOf(v)
      <4>1. worker'[v] = worker[v] /\ Busy(worker[v])
        BY <2>3, <2>6, <3>2
      <4>2. worker[v].claim = <<p, worker[v].claim[2]>> /\ worker[v].claim[1] = p
        BY <4>1, BusyClaim
      <4>3. Holds(operations[p], chat[p], NoneOf(p, wire), worker[v])
        BY <4>1 DEF ChatInv
      <4>4. CASE p = o
        <5>1. worker[v].claim[2] # r.attempt
          BY <1>1, <3>2, <4>1, <4>2, <4>4 DEF ChatInv
        <5>2. Holds(r, chat[o], NoneOf(o, wire'), worker[v])
          BY <4>3, <4>4, <5>1, OthersHold
        <5> QED
          BY <4>1, <4>2, <4>4, <5>2
      <4>5. CASE p # o
        <5>1. NoneOf(p, wire) => NoneOf(p, wire')
          BY <1>1, <1>5, <4>5 DEF NoneOf
        <5> QED
          BY <4>1, <4>2, <4>3, <5>1, HoldsQuieter
      <4> QED
        BY <4>4, <4>5
    <3> QED
      BY <3>1, <3>2
  <2>7. \A v, u \in Worker : Busy(worker'[v]) /\ Busy(worker'[u]) /\ worker'[v].claim = worker'[u].claim => v = u
    <3>1. \A v \in Worker : worker'[v].claim = worker[v].claim /\ (Busy(worker'[v]) => Busy(worker[v]))
      BY <1>1, <2>1, <2>3
    <3> QED
      BY <3>1, Zenon DEF ChatInv
  <2>8. chat' \in [Op -> Seq(Message)] /\ wire' \subseteq Message
    BY <1>1, <1>3, <1>5 DEF ChatInv
  <2>9. \A p \in Op : ChatAgrees(operations'[p], chat'[p])
    BY <1>3, <2>2 DEF ChatInv
  <2> QED
    BY <1>3, <2>2, <2>5, <2>6, <2>7, <2>8, <2>9 DEF ChatInv, OpOf
<1> QED
  BY <1>4, <1>5 DEF Announce, Untouched

\* The send ends: an acceptance is in the chat, and a refusal leaves no request.
LEMMA AnswerStep ==
    ASSUME ServiceInv, RowsCounted, ChatInv, NEW w \in Worker, Answer(w)
    PROVE  ChatInv'
<1> DEFINE o == OpOf(w)
           r == operations[o]
           m == Request(w)
<1>1. /\ worker[w].pc = "send" /\ o \in Op /\ m \in Message
      /\ m.op = o /\ m.ordinal = worker[w].ordinal /\ worker[w] \in WorkerState
  BY SendFacts DEF Answer, At
<1>2. chat' = chat /\ wire' \subseteq wire
  BY DEF Answer
<1>3. chat[o] \in Seq(Message) /\ ChatAgrees(r, chat[o])
  BY <1>1, ChatFacts
<1>4. CASE Accepted(m) /\ ToSettle(w, "delivered")
  <2>1. PICK i \in DOMAIN chat[o] : chat[o][i] = m
    BY <1>1, <1>4 DEF Accepted
  <2>2. i \in 1..Len(chat[o]) /\ Len(chat[o]) \in Nat
    BY <1>3, <2>1, LenProperties
  <2>3. worker[w].ordinal = i - 1
    BY <1>1, <1>3, <2>1, <2>2 DEF ChatAgrees
  <2>4. worker[w].ordinal < Len(chat[o])
    BY <2>2, <2>3
  <2> QED
    BY <1>1, <1>2, <1>4, <2>4, Settles DEF Untouched
<1>5. ASSUME NEW outcome \in {"rejected", "retry_after", "invalid_file_id"},
             m \in wire, wire' = wire \ {m}, ToSettle(w, outcome)
      PROVE  ChatInv'
  <2>1. Known(r, chat[o], m)
    BY <1>1, <1>5 DEF ChatInv
  <2>2. ASSUME NEW n \in wire', n.op = o PROVE FALSE
    <3>1. n \in Message /\ Known(r, chat[o], n)
      BY <1>2, <2>2 DEF ChatInv
    <3>2. m = n
      BY <1>1, <1>3, <2>1, <2>2, <3>1, KnownOnce
    <3> QED
      BY <1>5, <3>2
  <2>3. NoneOf(o, wire')
    BY <2>2 DEF NoneOf
  <2>4. Len(chat[o]) = worker[w].ordinal
    BY <1>1, <2>1 DEF Known
  <2> QED
    BY <1>1, <1>2, <1>5, <2>3, <2>4, Settles
<1>6. CASE ToSettle(w, "unknown")
  BY <1>1, <1>2, <1>6, Settles DEF Untouched
<1> QED
  BY <1>4, <1>5, <1>6 DEF Answer

\* The row of a worker's attempt is written, with no request on the wire, and the
\* worker lets go of it.
LEMMA WritesAndLeaves ==
    ASSUME ServiceInv, RowsCounted, ChatInv, NEW w \in Worker, worker[w].pc = "settle", NEW y,
           Leave(w), ChatSame, operations' = [operations EXCEPT ![OpOf(w)] = y],
           y.attempt = operations[OpOf(w)].attempt, ChatAgrees(y, chat[OpOf(w)]), NoneOf(OpOf(w), wire)
    PROVE  ChatInv'
<1>1. Busy(worker[w]) /\ worker[w].claim[2] = operations[OpOf(w)].attempt
  BY SendFacts
<1>2. /\ worker' = [worker EXCEPT ![w] = IdleWorker] /\ ~Busy(IdleWorker)
      /\ chat' = chat /\ wire' \subseteq wire /\ wire' = wire
  BY DEF Leave, Become, Busy, IdleWorker, ChatSame
<1>3. \A m \in wire' : m.op = OpOf(w) => Known(y, chat[OpOf(w)], m)
  BY <1>2 DEF NoneOf
<1> QED
  BY <1>1, <1>2, <1>3, MyRowMoves, Zenon

\* What a settling statement finds.
LEMMA SettleFacts ==
    ASSUME ServiceInv, RowsCounted, ChatInv, NEW w \in Worker, worker[w].pc = "settle",
           NEW k, NEW u, OpenUnit(ClaimOf(w), k, u)
    PROVE  LET r == operations[OpOf(w)]
           IN  /\ r \in Row /\ RowOK(r) /\ Counted(r) /\ r.status = "delivering" /\ Inv
               /\ chat[OpOf(w)] \in Seq(Message) /\ ChatAgrees(r, chat[OpOf(w)])
               /\ u \in UnitsIn(r, "sending") /\ u.ordinal = k
<1>1. OpOf(w) \in Op /\ ClaimOf(w)[1] = OpOf(w)
  BY SendFacts
<1> QED
  BY <1>1, ChatFacts DEF OpenUnit, Delivering, ServiceInv

\* complete_delivery_unit: the unit has arrived.
LEMMA CompleteStep ==
    ASSUME ServiceInv, RowsCounted, ChatInv, NEW w \in Worker, worker[w].pc = "settle",
           worker[w].outcome = "delivered", CompleteUnit(ClaimOf(w), worker[w].ordinal), Advance(w), ChatSame
    PROVE  ChatInv'
<1> DEFINE o == OpOf(w)
           r == operations[o]
           s == chat[o]
           k == worker[w].ordinal
           Row2(u) == [r EXCEPT !.units = Settled(r, u, "sent"), !.delivered = @ + u.count]
           Y(u) == IF Row2(u).delivered = r.planned THEN Released(Row2(u), "succeeded") ELSE Row2(u)
           x == [worker[w] EXCEPT !.pc = "unit", !.plan = Tail(@), !.ordinal = @ + 1, !.outcome = "none"]
<1>1. /\ Busy(worker[w]) /\ worker[w] \in WorkerState /\ o \in Op /\ ClaimOf(w) = <<o, r.attempt>>
      /\ ClaimOf(w)[1] = o
      /\ worker[w].claim[2] = r.attempt /\ Holds(r, s, NoneOf(o, wire), worker[w])
  BY SendFacts
<1>2. PICK u \in r.units : /\ OpenUnit(ClaimOf(w), k, u)
                           /\ Commit(o, Y(u), RetryDelay)
  BY <1>1 DEF CompleteUnit
<1>3. /\ r \in Row /\ RowOK(r) /\ Counted(r) /\ r.status = "delivering"
      /\ s \in Seq(Message) /\ ChatAgrees(r, s) /\ u \in UnitsIn(r, "sending") /\ u.ordinal = k
  BY <1>2, SettleFacts
<1>4. u.ordinal < Len(s)
  BY <1>1, <1>3 DEF Holds
<1>5. ChatAgrees(Y(u), s) /\ CurrentUnits(Y(u)) = UnitsIn(Y(u), "sent")
  BY <1>3, <1>4, CompletedAgrees
<1>6. Y(u).attempt = r.attempt
  <2>1. Row2(u).attempt = r.attempt /\ Released(Row2(u), "succeeded").attempt = r.attempt
    BY <1>3 DEF Released, Row
  <2> QED
    BY <2>1
<1>7. operations' = [operations EXCEPT ![o] = Y(u)]
  BY <1>2 DEF Commit
<1>8. ASSUME NEW m \in wire, m.op = o PROVE FALSE
  <2>1. Known(r, s, m)
    BY <1>8 DEF ChatInv
  <2>2. PICK v \in CurrentUnits(r) : v.ordinal = Len(s) /\ IsOpen(v)
    BY <2>1 DEF Known, Awaits
  <2>3. u \in CurrentUnits(r) /\ IsOpen(u)
    BY <1>3 DEF UnitsIn, IsOpen
  <2>4. u = v
    BY <1>3, <2>2, <2>3 DEF ChatAgrees, Delivered
  <2> QED
    BY <1>3, <1>4, <2>2, <2>4, LenProperties
<1>9. /\ x.pc = "unit" /\ x.claim = worker[w].claim /\ worker' = [worker EXCEPT ![w] = x]
      /\ chat' = chat /\ wire' = wire /\ wire' \subseteq wire
  BY <1>1 DEF WorkerState, Advance, Become, ChatSame
<1> HIDE DEF x, Y
<1>10. Holds(Y(u), s, NoneOf(o, wire'), x)
  BY <1>5, <1>9 DEF Holds
<1>11. \A m \in wire' : m.op = o => Known(Y(u), s, m)
  BY <1>8, <1>9
<1> QED
  BY <1>1, <1>5, <1>6, <1>7, <1>9, <1>10, <1>11, MyRowMoves, Zenon

\* unknown_delivery_unit: the unit stays open, in the outcome as in the journal.
LEMMA UnknownStep ==
    ASSUME ServiceInv, RowsCounted, ChatInv, NEW w \in Worker, worker[w].pc = "settle",
           UnknownUnit(ClaimOf(w), worker[w].ordinal), Leave(w), ChatSame
    PROVE  ChatInv'
<1> DEFINE o == OpOf(w)
           r == operations[o]
           k == worker[w].ordinal
           Y(u) == Released([r EXCEPT !.units = Settled(r, u, "unknown")], "delivery_unknown")
<1>1. o \in Op /\ ClaimOf(w)[1] = o
  BY SendFacts
<1>2. PICK u \in r.units : OpenUnit(ClaimOf(w), k, u) /\ Commit(o, Y(u), RetryDelay)
  BY <1>1 DEF UnknownUnit
<1>3. /\ RowOK(r) /\ r.status = "delivering"
      /\ chat[o] \in Seq(Message) /\ ChatAgrees(r, chat[o]) /\ u \in UnitsIn(r, "sending")
  BY <1>2, SettleFacts
<1>4. Carries(r, Y(u), chat[o])
  BY <1>3, CarriesUnknownUnit
<1>5. operations' = [operations EXCEPT ![o] = Y(u)]
  BY <1>2 DEF Commit
<1> HIDE DEF Y
<1>6. AllCarry
  BY <1>1, <1>4, <1>5, OneCarries
<1>7. chat' = chat /\ wire' \subseteq wire
  BY DEF ChatSame
<1> QED
  BY <1>6, <1>7, LetsGo

\* reject_delivery_unit and requeue_invalid_cache: the unit never arrives.
LEMMA RejectStep ==
    ASSUME ServiceInv, RowsCounted, ChatInv, NEW w \in Worker, worker[w].pc = "settle",
           worker[w].outcome \in Untouched, Leave(w), ChatSame,
           \/ \E after : RejectUnit(ClaimOf(w), worker[w].ordinal, after)
           \/ RequeueInvalidCache(ClaimOf(w))
    PROVE  ChatInv'
<1> DEFINE o == OpOf(w)
           r == operations[o]
           s == chat[o]
           k == worker[w].ordinal
           M(u) == [r EXCEPT !.units = Settled(r, u, "rejected")]
           Back(u) == [Released(M(u), "queued") EXCEPT !.max = @ + 1, !.bypass = TRUE, !.planned = 0]
<1>1. /\ Busy(worker[w]) /\ o \in Op /\ ClaimOf(w)[1] = o
      /\ Holds(r, s, NoneOf(o, wire), worker[w])
  BY SendFacts
<1>2. NoneOf(o, wire) /\ Len(s) = k
  BY <1>1 DEF Holds
<1>3. r \in Row
  BY <1>1, ChatFacts
<1>4. ASSUME NEW after, RejectUnit(ClaimOf(w), k, after) PROVE ChatInv'
  <2> DEFINE Y(u) == Released(M(u), RejectedStatus(r, after))
  <2>1. PICK u \in r.units : /\ OpenUnit(ClaimOf(w), k, u)
                             /\ Commit(o, Y(u), Max({RetryDelay, after}))
    BY <1>1, <1>4 DEF RejectUnit
  <2>2. /\ RowOK(r) /\ Counted(r) /\ r.status = "delivering" /\ s \in Seq(Message)
        /\ ChatAgrees(r, s) /\ u \in UnitsIn(r, "sending") /\ u.ordinal = k
    BY <2>1, SettleFacts
  <2>3. ChatAgrees(Y(u), s)
    BY <1>2, <2>2, RejectedAgrees
  <2>4. Y(u).attempt = r.attempt
    BY <1>3 DEF Released, Row
  <2>5. operations' = [operations EXCEPT ![o] = Y(u)]
    BY <2>1 DEF Commit
  <2> HIDE DEF Y
  <2> QED
    BY <1>2, <2>3, <2>4, <2>5, WritesAndLeaves
<1>5. CASE RequeueInvalidCache(ClaimOf(w))
  <2>1. PICK u \in r.units : OpenUnit(ClaimOf(w), 0, u) /\ r.delivered = 0 /\ Commit(o, Back(u), 0)
    BY <1>1, <1>5 DEF RequeueInvalidCache, MayRequeue
  <2>2. /\ RowOK(r) /\ Counted(r) /\ r.status = "delivering" /\ s \in Seq(Message) /\ ChatAgrees(r, s)
        /\ u \in UnitsIn(r, "sending") /\ u.ordinal = 0
    BY <2>1, SettleFacts
  <2>3. k = 0
    <3>1. Awaits(r, k, Head(worker[w].plan))
      BY SendFacts
    <3>2. PICK v \in CurrentUnits(r) : v.ordinal = k /\ IsOpen(v)
      BY <3>1 DEF Awaits
    <3>3. u \in CurrentUnits(r) /\ IsOpen(u)
      BY <2>2 DEF UnitsIn, IsOpen
    <3>4. u = v
      BY <2>2, <3>2, <3>3 DEF ChatAgrees, Delivered
    <3> QED
      BY <2>2, <3>2, <3>4
  <2>4. ChatAgrees(Back(u), s)
    BY <1>2, <2>1, <2>2, <2>3, RequeuedAgrees
  <2>5. Back(u).attempt = r.attempt
    BY <1>3 DEF Released, Row
  <2>6. operations' = [operations EXCEPT ![o] = Back(u)]
    BY <2>1 DEF Commit
  <2> HIDE DEF Back
  <2> QED
    BY <1>2, <2>4, <2>5, <2>6, WritesAndLeaves
<1> QED
  BY <1>4, <1>5

LEMMA SettleStep ==
    ASSUME ServiceInv, RowsCounted, ChatInv, NEW w \in Worker, Settle(w)
    PROVE  ChatInv'
<1> DEFINE c == ClaimOf(w)
           k == worker[w].ordinal
           outcome == IF worker[w].beatFailed THEN "unknown" ELSE worker[w].outcome
<1>1. worker[w].pc = "settle" /\ ChatSame
  BY DEF Settle, At
<1>2. Busy(worker[w]) /\ worker[w] \in WorkerState
  BY <1>1, SendFacts
<1>3. outcome # "unknown" => worker[w].outcome = outcome
  OBVIOUS
<1>4. \/ outcome = "delivered" /\ CompleteUnit(c, k) /\ Advance(w)
      \/ outcome = "unknown" /\ UnknownUnit(c, k) /\ Leave(w)
      \/ /\ outcome \in Untouched /\ Leave(w)
         /\ (\E after : RejectUnit(c, k, after)) \/ RequeueInvalidCache(c)
      \/ /\ outcome = "invalid_file_id" /\ Become(w, [worker[w] EXCEPT !.outcome = "rejected"])
         /\ QueueSame
      \/ QueueSame /\ Leave(w)
  BY DEF Settle, Untouched
<1>5. CASE outcome = "delivered" /\ CompleteUnit(c, k) /\ Advance(w)
  BY <1>1, <1>3, <1>5, CompleteStep
<1>6. CASE UnknownUnit(c, k) /\ Leave(w)
  BY <1>1, <1>6, UnknownStep
<1>7. CASE /\ outcome \in Untouched /\ Leave(w)
           /\ (\E after : RejectUnit(c, k, after)) \/ RequeueInvalidCache(c)
  <2>1. worker[w].outcome \in Untouched
    BY <1>3, <1>7 DEF Untouched
  <2> QED
    BY <1>1, <1>7, <2>1, RejectStep
<1>8. CASE /\ outcome = "invalid_file_id" /\ Become(w, [worker[w] EXCEPT !.outcome = "rejected"])
           /\ QueueSame
  <2> DEFINE x == [worker[w] EXCEPT !.outcome = "rejected"]
  <2>1. /\ x.pc = "settle" /\ x.outcome = "rejected" /\ x.claim = worker[w].claim
        /\ x.ordinal = k /\ x.plan = worker[w].plan /\ worker' = [worker EXCEPT ![w] = x]
    BY <1>1, <1>2, <1>8 DEF WorkerState, Become
  <2>2. Holds(operations[OpOf(w)], chat[OpOf(w)], NoneOf(OpOf(w), wire), worker[w])
    BY <1>2 DEF ChatInv
  <2>3. worker[w].outcome \in Untouched /\ worker[w].outcome # "none"
    BY <1>3, <1>8 DEF Untouched
  <2> HIDE DEF x
  <2>4. operations' = operations /\ chat' = chat /\ wire' = wire /\ wire' \subseteq wire
    BY <1>1, <1>8 DEF QueueSame, ChatSame
  <2>5. Holds(operations[OpOf(w)], chat[OpOf(w)], NoneOf(OpOf(w), wire'), x)
    BY <1>1, <2>1, <2>2, <2>3, <2>4, Zenon DEF Holds
  <2> QED
    BY <1>2, <2>1, <2>4, <2>5, MyMoves, Zenon
<1>9. CASE QueueSame /\ Leave(w)
  BY <1>1, <1>2, <1>9, WaysKeep
<1> QED
  BY <1>4, <1>5, <1>6, <1>7, <1>8, <1>9

\* A request is accepted: it is the next message of its chat, and the last
\* request of its operation.
LEMMA AcceptStep ==
    ASSUME ServiceInv, RowsCounted, ChatInv, NEW m \in wire, Accept(m)
    PROVE  ChatInv'
<1> DEFINE o == m.op
           r == operations[o]
           s == chat[o]
           t == Append(s, m)
<1>1. m \in Message /\ o \in Op /\ Known(r, s, m)
  BY DEF ChatInv, Message
<1>2. r \in Row /\ s \in Seq(Message) /\ ChatAgrees(r, s)
  BY <1>1, ChatFacts
<1>3. /\ operations' = operations /\ worker' = worker /\ wire' = wire \ {m}
      /\ chat' = [chat EXCEPT ![o] = t] /\ chat \in [Op -> Seq(Message)]
  BY DEF Accept, QueueSame, ChatInv
<1>4. ChatAgrees(r, t) /\ t \in Seq(Message) /\ Len(t) = Len(s) + 1 /\ Len(s) \in Nat
  BY <1>1, <1>2, ArrivedAgrees, AppendProperties, LenProperties
<1> HIDE DEF t
<1>5. chat'[o] = t /\ \A p \in Op : p # o => chat'[p] = chat[p]
  BY <1>1, <1>3
<1>6. chat' \in [Op -> Seq(Message)] /\ wire' \subseteq Message
  BY <1>3, <1>4 DEF ChatInv
<1>7. \A p \in Op : ChatAgrees(operations'[p], chat'[p])
  BY <1>3, <1>4, <1>5 DEF ChatInv
<1>8. ASSUME NEW n \in wire' PROVE Known(operations'[n.op], chat'[n.op], n)
  <2>1. n \in Message /\ n.op \in Op /\ Known(operations[n.op], chat[n.op], n) /\ n # m
    BY <1>3, <1>8 DEF ChatInv, Message
  <2>2. n.op # o
    BY <1>1, <1>2, <2>1, KnownOnce
  <2> QED
    BY <1>3, <1>5, <2>1, <2>2
<1>9. ASSUME NEW v \in Worker, Busy(worker'[v])
      PROVE  Holds(operations'[worker'[v].claim[1]], chat'[worker'[v].claim[1]],
                   NoneOf(worker'[v].claim[1], wire'), worker'[v])
  <2> DEFINE p == OpOf(v)
             x == worker[v]
  <2>1. Busy(x) /\ worker'[v] = x /\ x.claim[1] = p /\ p \in Op /\ x \in WorkerState
    BY <1>3, <1>9, BusyClaim DEF OpOf
  <2>2. Holds(operations[p], chat[p], NoneOf(p, wire), x)
    BY <2>1 DEF ChatInv
  <2>3. CASE p = o
    <3>1. ~NoneOf(o, wire)
      BY DEF NoneOf
    <3>2. x.pc # "announce" /\ ~(x.pc = "settle" /\ x.outcome \in Untouched)
      BY <2>2, <2>3, <3>1, Zenon DEF Holds
    <3>3. x.pc = "settle" => x.outcome # "none" /\ (x.outcome = "delivered" => x.ordinal < Len(t))
      BY <1>4, <2>1, <2>2, <2>3 DEF Holds, WorkerState
    <3>4. /\ x.pc \in {"announce", "send", "settle"} =>
                x.claim[2] = r.attempt /\ Awaits(r, x.ordinal, Head(x.plan))
          /\ x.pc \in {"unit", "open", "stop"} /\ x.claim[2] = r.attempt /\ r.status = "delivering" =>
                CurrentUnits(r) = UnitsIn(r, "sent")
      BY <2>2, <2>3, Zenon DEF Holds
    <3>5. Holds(r, t, NoneOf(o, wire'), x)
      BY <3>2, <3>3, <3>4, Zenon DEF Holds
    <3> QED
      BY <1>3, <1>5, <2>1, <2>3, <3>5
  <2>4. CASE p # o
    <3>1. NoneOf(p, wire) => NoneOf(p, wire')
      BY <1>3 DEF NoneOf
    <3>2. chat'[p] = chat[p] /\ operations'[p] = operations[p]
      BY <1>3, <1>5, <2>1, <2>4
    <3>3. Holds(operations[p], chat[p], NoneOf(p, wire'), x)
      BY <2>2, <3>1, HoldsQuieter
    <3> QED
      BY <2>1, <3>2, <3>3
  <2> QED
    BY <2>3, <2>4
<1>10. \A v, w \in Worker : Busy(worker'[v]) /\ Busy(worker'[w]) /\ worker'[v].claim = worker'[w].claim => v = w
  BY <1>3 DEF ChatInv
<1> QED
  BY <1>6, <1>7, <1>8, <1>9, <1>10 DEF ChatInv, OpOf

----------------------------------------------------------------------------
(* The invariant.                                                          *)

LEMMA ChatInit == ServiceInit => ChatInv
<1> SUFFICES ASSUME ServiceInit PROVE ChatInv
  OBVIOUS
<1>1. \A o \in Op : operations[o] = AbsentRow /\ chat[o] = <<>>
  BY DEF ServiceInit, Init
<1>2. ChatAgrees(AbsentRow, <<>>)
  BY DEF ChatAgrees, AbsentRow, Delivered
<1>3. \A w \in Worker : ~Busy(worker[w])
  BY DEF ServiceInit, IdleWorker, Busy
<1>4. chat \in [Op -> Seq(Message)] /\ wire = {}
  BY DEF ServiceInit
<1> QED
  BY <1>1, <1>2, <1>3, <1>4, Zenon DEF ChatInv

LEMMA ChatStep == ServiceInv /\ RowsCounted /\ ChatInv /\ [ServiceNext]_serviceVars => ChatInv'
<1> SUFFICES ASSUME ServiceInv, RowsCounted, ChatInv, [ServiceNext]_serviceVars
             PROVE  ChatInv'
  OBVIOUS
<1>1. ASSUME NEW w \in Worker, Work(w) \/ Heartbeat(w) \/ HeartbeatError(w) \/ DatabaseError(w)
      PROVE  ChatInv'
  BY <1>1, PollStep, QuietSteps, BeatSteps, EndSteps, BeginStep, StopStep, OpenStep, AnnounceStep,
     AnswerStep, SettleStep, Zenon DEF Work
<1> QED
  BY <1>1, AcceptStep, SurroundingSteps, Zenon DEF ServiceNext

\* The records of the queue, the requests on the wire and the workers agree with
\* the chat in every reachable state, whatever is lost, refused or accepted late
\* and whatever crashes and stops.
THEOREM ChatInvariance == ServiceSpec => []ChatInv
<1>1. ServiceSpec => []RowsCounted
  BY ServiceImplementsQueue, CountsInvariance, PTL
<1> QED
  BY <1>1, ChatInit, ChatStep, ServiceInvariance, PTL DEF ServiceSpec

----------------------------------------------------------------------------
(* The artifacts in the chat.                                              *)

LEMMA ArrivedFinite ==
    ASSUME NEW s \in Seq(Message)
    PROVE  IsFiniteSet(ArtifactsIn(s)) /\ Cardinality(ArtifactsIn(s)) \in Nat
<1> DEFINE I == 1..Len(s)
           Pieces == {{i} \X (1..s[i].count) : i \in I}
           f == [i \in I |-> {i} \X (1..s[i].count)]
<1>1. Len(s) \in Nat /\ DOMAIN s = I /\ \A i \in I : s[i] \in Message
  BY LenProperties
<1>2. IsFiniteSet(I)
  BY <1>1, FS_Interval
<1>3. f \in Surjection(I, Pieces)
  BY DEF Surjection
<1>4. IsFiniteSet(Pieces)
  BY <1>2, <1>3, FS_Surjection
<1>5. ASSUME NEW T \in Pieces PROVE IsFiniteSet(T)
  <2>1. PICK i \in I : T = {i} \X (1..s[i].count)
    OBVIOUS
  <2>2. s[i].count \in Nat
    BY <1>1, <2>1, ConstantsAssumption DEF Message
  <2> QED
    BY <2>1, <2>2, UnitArtifacts
<1>6. ArtifactsIn(s) = UNION Pieces
  BY <1>1 DEF ArtifactsIn
<1> HIDE DEF Pieces
<1>7. IsFiniteSet(ArtifactsIn(s))
  BY <1>4, <1>5, <1>6, FS_UNION
<1> QED
  BY <1>7, FS_CardinalityType

LEMMA ArrivedNone == Cardinality(ArtifactsIn(<<>>)) = 0
<1>1. ArtifactsIn(<<>>) = {}
  BY DEF ArtifactsIn
<1> QED
  BY <1>1, FS_EmptySet

\* One more message adds its artifacts.
LEMMA ArrivedAdds ==
    ASSUME NEW s \in Seq(Message), NEW m \in Message
    PROVE  Cardinality(ArtifactsIn(Append(s, m))) = Cardinality(ArtifactsIn(s)) + m.count
<1> DEFINE t == Append(s, m)
           n == Len(s) + 1
           A == ArtifactsIn(s)
           P == {n} \X (1..m.count)
<1>1. Len(s) \in Nat /\ n \in Nat /\ DOMAIN s = 1..Len(s) /\ m.count \in Nat
  BY LenProperties, ConstantsAssumption DEF Message
<1>2. DOMAIN t = 1..n /\ t[n] = m /\ \A i \in 1..Len(s) : t[i] = s[i]
  <2>1. t \in Seq(Message) /\ Len(t) = n /\ t[n] = m /\ \A i \in 1..Len(s) : t[i] = s[i]
    BY AppendProperties
  <2> QED
    BY <2>1, LenProperties
<1>3. 1..n = (1..Len(s)) \cup {n} /\ n \notin 1..Len(s)
  BY <1>1
<1> HIDE DEF t, n
<1>4. ArtifactsIn(t) = A \cup P
  BY <1>1, <1>2, <1>3 DEF ArtifactsIn
<1>5. A \cap P = {}
  BY <1>1, <1>3 DEF ArtifactsIn
<1>6. IsFiniteSet(P) /\ Cardinality(P) = m.count
  BY <1>1, UnitArtifacts
<1>7. IsFiniteSet(A) /\ Cardinality(A) \in Nat
  BY ArrivedFinite
<1>8. Cardinality({}) = 0
  BY FS_EmptySet
<1> HIDE DEF A, P
<1>9. Cardinality(A \cup P) = Cardinality(A) + Cardinality(P) - Cardinality(A \cap P)
  BY <1>6, <1>7, FS_Union
<1>10. Cardinality(A \cap P) = 0
  BY <1>5, <1>8
<1>11. Cardinality(A \cup P) = Cardinality(A) + m.count
  BY <1>1, <1>6, <1>7, <1>9, <1>10
<1> QED
  BY <1>4, <1>11 DEF A, t

\* The confirmed artifacts are in the chat; all of the chat is confirmed when
\* every unit is.
LEMMA SentHasArrived ==
    ASSUME NEW r \in Row, IsFiniteSet(r.units), NEW s \in Seq(Message), ChatAgrees(r, s), r.status \in Delivered
    PROVE  /\ SentCount(r) <= Cardinality(ArtifactsIn(s))
           /\ CurrentUnits(r) = UnitsIn(r, "sent") => SentCount(r) = Cardinality(ArtifactsIn(s))
<1> DEFINE us == UnitsIn(r, "sent")
           A == ArtifactsOf(us)
           B == ArtifactsIn(s)
           f == [p \in A |-> <<p[1].ordinal + 1, p[2]>>]
<1>1. Len(s) \in Nat /\ DOMAIN s = 1..Len(s)
  BY LenProperties
<1>2. us \subseteq Unit /\ us \subseteq CurrentUnits(r)
  BY DEF UnitsIn, CurrentUnits, Row
<1>3. \A u \in us : u.ordinal \in Nat /\ u.ordinal < Len(s) /\ s[u.ordinal + 1].count = u.count
  BY <1>2 DEF ChatAgrees, Unit
<1>4. \A u, v \in us : u.ordinal = v.ordinal => u = v
  BY <1>2 DEF ChatAgrees
<1> HIDE DEF us
<1>5. ASSUME NEW p \in A
      PROVE  \E u \in us : \E j \in 1..u.count : p = <<u, j>>
  BY <1>5 DEF ArtifactsOf
<1>6. ASSUME NEW u \in us, NEW j \in 1..u.count
      PROVE  <<u, j>> \in A /\ f[<<u, j>>] = <<u.ordinal + 1, j>> /\ <<u.ordinal + 1, j>> \in B
  <2>1. <<u, j>> \in A
    BY <1>6 DEF ArtifactsOf
  <2>2. u.ordinal + 1 \in DOMAIN s
    BY <1>1, <1>3
  <2>3. <<u.ordinal + 1, j>> \in {u.ordinal + 1} \X (1..s[u.ordinal + 1].count)
    BY <1>3
  <2>4. <<u.ordinal + 1, j>> \in B
    BY <2>2, <2>3 DEF ArtifactsIn
  <2> QED
    BY <2>1, <2>4
<1>7. f \in [A -> B]
  <2>1. ASSUME NEW p \in A PROVE f[p] \in B
    <3>1. PICK u \in us : \E j \in 1..u.count : p = <<u, j>>
      BY <1>5
    <3>2. PICK j \in 1..u.count : p = <<u, j>>
      BY <3>1
    <3>3. f[<<u, j>>] = <<u.ordinal + 1, j>> /\ <<u.ordinal + 1, j>> \in B
      BY <1>6
    <3> QED
      BY <3>2, <3>3
  <2> QED
    BY <2>1
<1>8. ASSUME NEW p \in A, NEW q \in A, f[p] = f[q] PROVE p = q
  <2>1. PICK u \in us : \E j \in 1..u.count : p = <<u, j>>
    BY <1>5
  <2>2. PICK j \in 1..u.count : p = <<u, j>>
    BY <2>1
  <2>3. PICK v \in us : \E k \in 1..v.count : q = <<v, k>>
    BY <1>5
  <2>4. PICK k \in 1..v.count : q = <<v, k>>
    BY <2>3
  <2>5. u.ordinal + 1 = v.ordinal + 1 /\ j = k
    BY <1>6, <1>8, <2>2, <2>4
  <2>6. u = v
    BY <1>3, <1>4, <2>5
  <2> QED
    BY <2>2, <2>4, <2>5, <2>6
<1>9. f \in Injection(A, B)
  BY <1>7, <1>8 DEF Injection, IsInjective
<1>10. IsFiniteSet(B)
  BY ArrivedFinite
<1>11. ASSUME CurrentUnits(r) = us PROVE f \in Surjection(A, B)
  <2>1. ASSUME NEW b \in B PROVE \E p \in A : f[p] = b
    <3>1. PICK i \in DOMAIN s : b \in {i} \X (1..s[i].count)
      BY DEF ArtifactsIn
    <3>2. PICK j \in 1..s[i].count : b = <<i, j>>
      BY <3>1
    <3>3. i \in 1..Len(s)
      BY <1>1
    <3>4. PICK u \in CurrentUnits(r) : u.ordinal = i - 1 /\ u.count = s[i].count
      BY <3>3 DEF ChatAgrees
    <3>5. u \in us /\ j \in 1..u.count /\ u.ordinal + 1 = i
      BY <1>11, <1>1, <3>2, <3>3, <3>4
    <3>6. <<u, j>> \in A /\ f[<<u, j>>] = <<u.ordinal + 1, j>>
      BY <1>6, <3>5
    <3> QED
      BY <3>2, <3>5, <3>6
  <2> QED
    BY <1>7, <2>1 DEF Surjection
<1> HIDE DEF A, B, f
<1>12. Cardinality(A) <= Cardinality(B) /\ (Cardinality(A) = Cardinality(B) <=> f \in Surjection(A, B))
  BY <1>9, <1>10, FS_Injection
<1> QED
  BY <1>11, <1>12 DEF SentCount, A, B, us

\* A reported number of artifacts is in the chat, and all of the plan is there
\* when the operation has succeeded (complete_delivery_unit).
LEMMA RowHasArrived ==
    ASSUME NEW r \in Row, IsFiniteSet(r.units), NEW s \in Seq(Message), ChatAgrees(r, s)
    PROVE  /\ r.delivered <= Cardinality(ArtifactsIn(s))
           /\ r.status \notin Delivered => Cardinality(ArtifactsIn(s)) = 0
           /\ r.status \in {"delivery_partial", "succeeded"} => Cardinality(ArtifactsIn(s)) > 0
           /\ r.status = "succeeded" => r.planned = Cardinality(ArtifactsIn(s))
<1>1. Cardinality(ArtifactsIn(s)) \in Nat /\ r.delivered \in Nat
  BY ArrivedFinite DEF Row
<1>2. CASE r.status \notin Delivered
  BY <1>1, <1>2, ArrivedNone DEF ChatAgrees, Delivered
<1>3. CASE r.status \in Delivered
  <2>1. r.delivered = SentCount(r)
    BY <1>3 DEF ChatAgrees
  <2>2. /\ SentCount(r) <= Cardinality(ArtifactsIn(s))
        /\ CurrentUnits(r) = UnitsIn(r, "sent") => SentCount(r) = Cardinality(ArtifactsIn(s))
    BY <1>3, SentHasArrived
  <2>3. r.status \in {"delivery_partial", "succeeded"} => r.delivered > 0
    BY DEF ChatAgrees
  <2>4. r.status = "succeeded" => r.planned = r.delivered /\ CurrentUnits(r) = UnitsIn(r, "sent")
    BY DEF ChatAgrees
  <2> QED
    BY <1>1, <1>3, <2>1, <2>2, <2>3, <2>4
<1> QED
  BY <1>2, <1>3

\* At every moment the records have their types, the chat shows a prefix of the units of
\* one attempt, and what the records call delivered has arrived.
THEOREM RecordsAlwaysMatchChat == ServiceSpec => []RecordsMatchChat
<1>1. ServiceInv /\ RowsCounted /\ ChatInv => ChatIsPrefix /\ RecordedHasArrived
  <2> SUFFICES ASSUME ServiceInv, RowsCounted, ChatInv, NEW o \in Op
               PROVE  /\ \A i \in DOMAIN chat[o] : chat[o][i].ordinal = i - 1 /\ chat[o][i].attempt = chat[o][1].attempt
                      /\ operations[o].status \notin {"queued", "running"} => operations[o].delivered <= Arrived(o)
                      /\ operations[o].status = "succeeded" => operations[o].planned = Arrived(o)
    BY DEF ChatIsPrefix, RecordedHasArrived
  <2>1. /\ operations[o] \in Row /\ IsFiniteSet(operations[o].units)
        /\ chat[o] \in Seq(Message) /\ ChatAgrees(operations[o], chat[o])
    BY ChatFacts DEF Counted
  <2>2. ASSUME NEW i \in DOMAIN chat[o]
        PROVE  chat[o][i].ordinal = i - 1 /\ chat[o][i].attempt = chat[o][1].attempt
    <3>1. i \in 1..Len(chat[o]) /\ 1 \in 1..Len(chat[o])
      BY <2>1, LenProperties
    <3> QED
      BY <2>1, <3>1 DEF ChatAgrees
  <2> QED
    BY <2>1, <2>2, RowHasArrived DEF Arrived
<1>2. ServiceSpec => []RowsCounted
  BY ServiceImplementsQueue, CountsInvariance, PTL
<1>3. ServiceTypeOK /\ ChatIsPrefix /\ RecordedHasArrived => RecordsMatchChat
  BY DEF RecordsMatchChat
<1> QED
  BY <1>1, <1>2, <1>3, ServiceInvariance, ChatInvariance, ServiceTypeCorrect, PTL

----------------------------------------------------------------------------
(* The contract.                                                           *)

\* Nothing but an admission makes an operation known, and nothing forgets one.
SameKnown(o) == operations'[o].status = "absent" <=> operations[o].status = "absent"

LEMMA KnownOperations ==
    ASSUME Inv, [Next]_vars, \A p \in Op : ~Admit(p), NEW o \in Op
    PROVE  SameKnown(o)
<1>1. operations \in [Op -> Row] /\ RowOK(operations[o]) /\ RowOK(operations'[o])
  BY NextInv DEF Inv, RowsOK
<1>2. ASSUME NEW p \in Op, RequestCancel(p) \/ LeaseExpires(p) \/ MakeAvailable(p)
      PROVE  SameKnown(o)
  <2>1. CASE RequestCancel(p)
    BY <1>1, <2>1 DEF RequestCancel, SameKnown, Row
  <2>2. CASE LeaseExpires(p)
    BY <1>1, <2>2 DEF LeaseExpires, SameKnown, Row
  <2>3. CASE MakeAvailable(p)
    BY <2>3 DEF MakeAvailable, SameKnown
  <2> QED
    BY <1>2, <2>1, <2>2, <2>3
<1>3. ASSUME NEW b \in Bot \cup {NoBot}, NEW p \in Op \cup {NoOp}, Claim(b, p)
      PROVE  SameKnown(o)
  <2> DEFINE Table(S) == [q \in Op |-> IF q \in S THEN ExpireRow(operations[q]) ELSE operations[q]]
  <2>1. PICK S \in SUBSET Expired :
            \/ operations' = Table(S)
            \/ /\ p \in Op
               /\ Claimable(Table(S), b, p)
               /\ operations' = [Table(S) EXCEPT ![p] = ClaimRow(Table(S)[p], b)]
    BY <1>3, ConstantsAssumption DEF Claim, kSubset
  <2>2. Table(S)[o] \in Row
    BY <1>1, ExpireRowOK DEF Inv, RowsOK, RowOK, Expired
  <2>3. Table(S)[o].status = "absent" <=> operations[o].status = "absent"
    <3>1. ASSUME o \in S PROVE ExpireRow(operations[o]).status # "absent" /\ operations[o].status # "absent"
      <4> DEFINE m == [operations[o] EXCEPT !.units = Marked(operations[o], "sending", "unknown")]
      <4>1. ExpireRow(operations[o]) = Released(m, ExpiredStatus(m))
        BY DEF ExpireRow
      <4>2. ExpiredStatus(m) # "absent"
        BY DEF ExpiredStatus
      <4>3. \A st : Released(m, st).status = st
        BY <1>1 DEF Released, Row
      <4> HIDE DEF m
      <4>4. ExpireRow(operations[o]).status # "absent"
        BY <4>1, <4>2, <4>3
      <4> QED
        BY <3>1, <4>4 DEF Expired, Active
    <3> QED
      BY <3>1
  <2>4. Table(S) = [q \in Op |-> Table(S)[q]]
    OBVIOUS
  <2> HIDE DEF Table
  <2>5. CASE operations' = Table(S)
    BY <2>3, <2>5 DEF SameKnown
  <2>6. CASE /\ p \in Op
             /\ Claimable(Table(S), b, p)
             /\ operations' = [Table(S) EXCEPT ![p] = ClaimRow(Table(S)[p], b)]
    <3>1. CASE p = o
      <4>1. operations'[o] = ClaimRow(Table(S)[o], b) /\ Table(S)[o].status = "queued"
        BY <2>4, <2>6, <3>1 DEF Claimable
      <4>2. ClaimRow(Table(S)[o], b).status = "running"
        BY <2>2 DEF ClaimRow, Row
      <4> QED
        BY <2>3, <4>1, <4>2 DEF SameKnown
    <3>2. CASE p # o
      <4>1. operations'[o] = Table(S)[o]
        BY <2>4, <2>6, <3>2
      <4> QED
        BY <2>3, <4>1 DEF SameKnown
    <3> QED
      BY <3>1, <3>2
  <2> QED
    BY <2>1, <2>5, <2>6
<1>4. ASSUME NEW p \in Op, NEW a \in 1..operations[p].attempt, Claimant(<<p, a>>)
      PROVE  SameKnown(o)
  <2>1. a \in Nat /\ operations[p].attempt \in Nat /\ operations[p].attempt # 0
    BY <1>1 DEF Row
  <2>2. PICK x : /\ operations[p].status \in Active
                 /\ operations' = [operations EXCEPT ![p] = x]
                 /\ Keeps(operations[p], x)
    BY <1>4, <2>1, ClaimantKeeps
  <2>3. CASE p = o
    <3>1. operations'[o].attempt # 0
      BY <1>1, <2>1, <2>2, <2>3 DEF Keeps
    <3> QED
      BY <1>1, <2>2, <2>3, <3>1 DEF RowOK, SameKnown
  <2>4. CASE p # o
    BY <1>1, <2>2, <2>4 DEF SameKnown
  <2> QED
    BY <2>3, <2>4
<1>5. CASE UNCHANGED vars
  BY <1>5 DEF vars, SameKnown
<1>6. CASE Next
  <2>1. CASE \E p \in Op : RequestCancel(p) \/ LeaseExpires(p) \/ MakeAvailable(p)
    BY <1>2, <2>1
  <2>2. CASE \E b \in Bot \cup {NoBot}, p \in Op \cup {NoOp} : Claim(b, p)
    BY <1>3, <2>2
  <2>3. CASE \E p \in Op : \E a \in 1..operations[p].attempt : Claimant(<<p, a>>)
    BY <1>4, <2>3
  <2> QED
    BY <1>6, <2>1, <2>2, <2>3, Zenon DEF Next
<1> QED
  BY <1>5, <1>6

\* What the contract calls the outcome of an operation.
OutcomeOf(r) == IF r.status \in Pending THEN "open" ELSE r.status
Outcomes == [o \in Op |-> OutcomeOf(operations[o])]
Arrivals == [o \in Op |-> Arrived(o)]

\* A step by which nothing arrives and nothing is submitted reports outcomes.
LEMMA ReportStep ==
    ASSUME ServiceInv, RowsCounted, ChatInv, [Next]_vars, Inv', RowsCounted', ChatInv', chat' = chat,
           \A p \in Op : ~Admit(p)
    PROVE  Contract!Report
<1>1. \A o \in Op : operations'[o] \in Row /\ operations[o] \in Row
  BY DEF ServiceInv, Inv, RowsOK
<1>2. Outcomes' \in [Op -> {"absent", "open"} \cup Contract!Result]
  <2>1. ASSUME NEW o \in Op PROVE OutcomeOf(operations'[o]) \in {"absent", "open"} \cup Contract!Result
    BY <1>1 DEF OutcomeOf, Contract!Result, Row, Status, Pending, Active, Terminal
  <2> QED
    BY <2>1 DEF Outcomes
<1>3. ASSUME NEW o \in Op, Outcomes'[o] # Outcomes[o]
      PROVE  /\ Outcomes[o] = "open" /\ Outcomes'[o] \in Contract!Result
             /\ Outcomes'[o] \in {"failed", "cancelled"} => Arrivals[o] = 0
             /\ Outcomes'[o] \in {"succeeded", "delivery_partial"} => Arrivals[o] > 0
  <2> DEFINE r == operations[o]
             x == operations'[o]
  <2>1. Outcomes[o] = OutcomeOf(r) /\ Outcomes'[o] = OutcomeOf(x) /\ Arrivals[o] = Cardinality(ArtifactsIn(chat[o]))
    BY DEF Outcomes, Arrivals, Arrived
  <2>2. /\ x.status = "absent" <=> r.status = "absent"
        /\ r.status \in Terminal => x = r
    BY KnownOperations, StepIsFinal DEF ServiceInv, FinalRow, SameKnown
  <2>3. r.status \in Pending /\ x.status \in Terminal
    BY <1>1, <1>3, <2>1, <2>2 DEF OutcomeOf, Row, Status, Pending, Active, Terminal
  <2>4. /\ x \in Row /\ IsFiniteSet(x.units) /\ chat[o] \in Seq(Message) /\ ChatAgrees(x, chat[o])
    BY <1>1 DEF RowsCounted, Counted, ChatInv
  <2>5. /\ x.status \notin Delivered => Arrivals[o] = 0
        /\ x.status \in {"delivery_partial", "succeeded"} => Arrivals[o] > 0
    BY <2>1, <2>4, RowHasArrived
  <2> QED
    BY <2>1, <2>3, <2>5 DEF OutcomeOf, Delivered, Contract!Result, Pending, Active, Terminal
<1>4. Arrivals' = Arrivals
  BY DEF Arrivals, Arrived
<1> QED
  BY <1>2, <1>3, <1>4 DEF Contract!Report, Contract!Reportable, Outcomes, Arrivals, OutcomeOf

\* Every step of the service keeps the contract: an admission submits, an
\* acceptance arrives, and whatever else ends an operation reports it.
LEMMA ContractStep ==
    ASSUME ServiceInv, RowsCounted, ChatInv, [ServiceNext]_serviceVars, RowsCounted', ChatInv'
    PROVE  [Contract!Next]_Contract!contractVars
<1>1. [Next]_vars /\ Inv'
  BY ServiceStep DEF ServiceInv
<1>2. CASE UNCHANGED serviceVars
  BY <1>2 DEF serviceVars, Contract!contractVars, Arrived
<1>3. ASSUME NEW m \in wire, Accept(m)
      PROVE  Contract!Next
  <2> DEFINE o == m.op
             s == chat[o]
  <2>1. m \in Message /\ o \in Op /\ Known(operations[o], s, m) /\ m.count \in 1..MaxUnit
    BY DEF ChatInv, Message
  <2>2. operations[o].status \in {"delivering", "delivery_unknown"}
    BY <2>1 DEF Known, Awaits
  <2>3. operations' = operations /\ chat' = [chat EXCEPT ![o] = Append(s, m)] /\ chat \in [Op -> Seq(Message)]
    BY <1>3 DEF Accept, QueueSame, ChatInv
  <2>4. Cardinality(ArtifactsIn(Append(s, m))) = Cardinality(ArtifactsIn(s)) + m.count
    BY <2>1, <2>3, ArrivedAdds
  <2>5. Outcomes' = Outcomes /\ Outcomes[o] \in {"open", "delivery_unknown"}
    BY <2>1, <2>2, <2>3 DEF Outcomes, OutcomeOf, Pending, Active
  <2>6. \A p \in Op : Arrivals'[p] = IF p = o THEN Arrivals[p] + m.count ELSE Arrivals[p]
    BY <2>1, <2>3, <2>4 DEF Arrivals, Arrived
  <2>7. Arrivals' = [Arrivals EXCEPT ![o] = @ + m.count]
    BY <2>6 DEF Arrivals
  <2>8. Contract!Arrive(o, m.count)
    BY <2>5, <2>7 DEF Contract!Arrive, Outcomes, Arrivals, OutcomeOf
  <2> QED
    BY <2>1, <2>8 DEF Contract!Next
<1>4. ASSUME NEW o \in Op, Admit(o), chat' = chat
      PROVE  Contract!Next
  <2> DEFINE x == [AbsentRow EXCEPT !.status = "queued"]
  <2>1. operations' = [operations EXCEPT ![o] = x] /\ operations[o].status = "absent" /\ operations \in [Op -> Row]
    BY <1>4 DEF Admit, Commit, ServiceInv, Inv, RowsOK
  <2>2. x.status = "queued"
    BY DEF AbsentRow
  <2> HIDE DEF x
  <2>3. Outcomes' = [Outcomes EXCEPT ![o] = "open"] /\ Outcomes[o] = "absent"
    BY <2>1, <2>2 DEF Outcomes, OutcomeOf, Pending, Active
  <2>4. Arrivals' = Arrivals
    BY <1>4 DEF Arrivals, Arrived
  <2>5. Contract!Submit(o)
    BY <2>3, <2>4 DEF Contract!Submit, Outcomes, Arrivals, OutcomeOf
  <2> QED
    BY <2>5 DEF Contract!Next
<1>5. CASE chat' = chat /\ \A o \in Op : ~Admit(o)
  BY <1>1, <1>5, ReportStep DEF Contract!Next
<1>6. (\E m \in wire : Accept(m)) \/ chat' = chat
  BY DEF ServiceNext, serviceVars, Lose, Shutdown, Crash, Restart, Elsewhere, ChatSame, HeartbeatError,
         DatabaseError, Heartbeat, Work, Poll, Exit, TakeEvent, Authorize, Lookup, Execute, ProgressStale,
         Interrupt, FailCall, AckCall, Check, Begin, NextUnit, StopCall, Open, Announce, HearEvent, Answer, Settle
<1> QED
  BY <1>1, <1>2, <1>3, <1>4, <1>5, <1>6

\* The service keeps the contract with whoever submitted an operation: what is
\* reported agrees with what arrived, then and later.
THEOREM ServiceKeepsContract == ServiceSpec => KeepsContract
<1>1. ServiceInit => Contract!Init
  <2> SUFFICES ASSUME ServiceInit PROVE Contract!Init
    OBVIOUS
  <2>1. \A o \in Op : operations[o] = AbsentRow /\ Arrived(o) = 0
    BY ArrivedNone DEF ServiceInit, Init, Arrived
  <2>2. \A o \in Op : operations[o].status = "absent"
    BY <2>1 DEF AbsentRow
  <2> QED
    BY <2>1, <2>2 DEF Contract!Init, Pending, Active
<1>2. ServiceSpec => []RowsCounted
  BY ServiceImplementsQueue, CountsInvariance, PTL
<1>3. ServiceInv /\ RowsCounted /\ ChatInv /\ [ServiceNext]_serviceVars /\ RowsCounted' /\ ChatInv'
      => [Contract!Next]_Contract!contractVars
  BY ContractStep
<1> QED
  BY <1>1, <1>2, <1>3, ServiceInvariance, ChatInvariance, PTL DEF ServiceSpec, KeepsContract, Contract!Spec
=============================================================================
