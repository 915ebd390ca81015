--------------------------- MODULE DownloadService ---------------------------
(***************************************************************************)
(* The download workers of yoink-downloads (DownloadService::run,          *)
(* worker_loop, process_claim, the heartbeat task and the supervisor) at   *)
(* work on the durable queue, with Telegram and the operating system       *)
(* around them.                                                            *)
(*                                                                         *)
(* One action is one await of the code: a transaction of the queue, an     *)
(* authorization, the executor, the send of one unit.  Between two actions *)
(* of a worker everything else may happen: other workers, its own          *)
(* heartbeat, the lease running out, a cancellation, a shutdown, a crash.  *)
(*                                                                         *)
(* Abstractions.                                                           *)
(*  - Authorization, credentials, content policy, cache lookup and the     *)
(*    executor are choices: each may give any of its results.              *)
(*  - A delivery is its plan: the sizes of its units (Albums).             *)
(*  - Telegram holds the requests that were sent and neither accepted nor  *)
(*    refused yet (wire); a request survives the death of its sender.      *)
(*  - Metrics, captions, diagnostics and the publication of confirmed      *)
(*    files in the media cache do not touch the queue and are left out.    *)
(***************************************************************************)
EXTENDS DownloadQueue

CONSTANTS
    Worker,             \* config.concurrency workers
    OurBot,             \* delivery.bot_id()
    Plans,              \* possible plans: sequences of unit sizes
    MaxFaults           \* bound: crashes, shutdown signals and database errors

\* The number of artifacts of a plan.
TotalOf(p) == MapThenSumSet(LAMBDA i : p[i], DOMAIN p)

ASSUME ServiceAssumption ==
    /\ OurBot \in Bot
    /\ Plans \subseteq Seq(1..MaxUnit)
    /\ \A p \in Plans : Len(p) \in 1..MaxArtifacts /\ TotalOf(p) \in 1..MaxArtifacts
    /\ MaxFaults \in Nat

VARIABLES
    worker,             \* the state of every worker task and its heartbeat task
    stopping,           \* the shutdown token is cancelled
    wire,               \* send requests under way to Telegram
    chat,               \* what Telegram accepted, per operation, in order
    faults              \* faults so far

serviceVars == <<operations, ready, worker, stopping, wire, chat, faults>>

NoClaim == <<NoOp, 0>>

\* The states of a worker task, named for what it awaits next.
Step == {"idle", "authorize", "lookup", "execute", "ack", "fail", "planned", "check", "begin",
         "unit", "open", "announce", "send", "settle", "stop", "stopped"}
Event == {"cancelled", "stale", "database"}
Outcome == {"none", "delivered", "rejected", "not_started", "invalid_file_id", "retry_after", "unknown"}

\* A worker between two claims.  `call` are the arguments of a pending fail, and
\* whether a stale lease makes the worker return an error; `reason` is that of a
\* pending stop; `beat` says that the heartbeat task runs, `events` is its channel.
IdleWorker ==
    [pc |-> "idle", claim |-> NoClaim, cached |-> FALSE, plan |-> <<>>, ordinal |-> 0,
     beat |-> FALSE, events |-> <<>>, beatFailed |-> FALSE, cancelSeen |-> FALSE,
     outcome |-> "none", reason |-> "denied",
     call |-> [retryable |-> FALSE, code |-> FALSE, strict |-> FALSE]]

ServiceInit ==
    /\ Init
    /\ worker = [w \in Worker |-> IdleWorker]
    /\ stopping = FALSE
    /\ wire = {}
    /\ chat = [o \in Op |-> <<>>]
    /\ faults = 0

----------------------------------------------------------------------------
(* Ways on.                                                                *)

At(w, pc) == worker[w].pc = pc
ClaimOf(w) == worker[w].claim
OpOf(w) == worker[w].claim[1]

Become(w, rec) == worker' = [worker EXCEPT ![w] = rec]
Goto(w, pc) == Become(w, [worker[w] EXCEPT !.pc = pc])

\* process_claim returns Ok: the heartbeat task is aborted with its handle.
Leave(w) == Become(w, IdleWorker) /\ UNCHANGED stopping

\* process_claim returns Err: worker_loop ends, supervise_workers cancels the
\* shutdown token for the siblings.
Die(w) == Become(w, [IdleWorker EXCEPT !.pc = "stopped"]) /\ stopping' = TRUE

\* A pending fail, and a pending stop_delivery_batch.
ToFail(w, retryable, code, strict) ==
    Become(w, [worker[w] EXCEPT !.pc = "fail",
                                !.call = [retryable |-> retryable, code |-> code, strict |-> strict]])
ToStop(w, reason) == Become(w, [worker[w] EXCEPT !.pc = "stop", !.reason = reason])

\* Parts of the state an action leaves alone.
QueueSame == UNCHANGED <<operations, ready>>
ChatSame == UNCHANGED <<wire, chat, faults>>

----------------------------------------------------------------------------
(* worker_loop.                                                            *)

\* The worker polls the queue.  A claim starts the heartbeat.  process_claim first
\* tests claim.cancel_requested, which is never set: a queued row carries no
\* cancellation (QueuedIsClaimable) and the claim does not write the column.
Poll(w) ==
    /\ At(w, "idle") /\ ~stopping
    /\ \E o \in Op \cup {NoOp} :
          /\ Claim(OurBot, o)
          /\ IF o = NoOp THEN UNCHANGED worker
             ELSE Become(w, [IdleWorker EXCEPT !.pc = "authorize",
                                               !.claim = <<o, operations'[o].attempt>>,
                                               !.beat = TRUE])
    /\ UNCHANGED stopping /\ ChatSame

Exit(w) ==
    /\ At(w, "idle") /\ stopping
    /\ Goto(w, "stopped")
    /\ UNCHANGED stopping /\ QueueSame /\ ChatSame

----------------------------------------------------------------------------
(* The heartbeat task.                                                     *)

CancelReported(w) == worker[w].cancelSeen \/ "cancelled" \in ToSet(worker[w].events)

\* A live lease is extended, which leaves it live; a cancellation is reported
\* once.  A stale lease is reported and ends the task.
Heartbeat(w) ==
    /\ worker[w].beat
    /\ \/ /\ Fenced(ClaimOf(w)) /\ operations[OpOf(w)].cancel /\ ~CancelReported(w)
          /\ Become(w, [worker[w] EXCEPT !.events = Append(@, "cancelled")])
       \/ /\ ~Fenced(ClaimOf(w))
          /\ Become(w, [worker[w] EXCEPT !.events = Append(@, "stale"), !.beat = FALSE])
    /\ UNCHANGED stopping /\ QueueSame /\ ChatSame

\* The heartbeat statement fails, which ends the task.
HeartbeatError(w) ==
    /\ worker[w].beat /\ faults < MaxFaults
    /\ Become(w, [worker[w] EXCEPT !.events = Append(@, "database"), !.beat = FALSE])
    /\ faults' = faults + 1
    /\ UNCHANGED <<stopping, wire, chat>> /\ QueueSame

\* finish_heartbeat_event, on the executor loop and right before the delivery.
TakeEvent(w) ==
    /\ worker[w].pc \in {"execute", "check"}
    /\ worker[w].events # <<>>
    /\ LET event == Head(worker[w].events)
       IN  \/ event = "cancelled" /\ Goto(w, "ack") /\ UNCHANGED stopping
           \/ event = "stale" /\ Leave(w)
           \/ event = "database" /\ Die(w)
    /\ QueueSame /\ ChatSame

----------------------------------------------------------------------------
(* process_claim up to the delivery.                                       *)

\* authorize_request and profile.resolve, at the start and again once the
\* artifacts are there: a refusal fails the operation for good.
Authorize(w) ==
    /\ \/ At(w, "authorize") /\ (Goto(w, "lookup") \/ ToFail(w, FALSE, FALSE, TRUE))
       \/ At(w, "planned") /\ ~stopping /\ (Goto(w, "check") \/ ToFail(w, FALSE, FALSE, TRUE))
    /\ UNCHANGED stopping /\ QueueSame /\ ChatSame

\* The media cache answers, unless the claim bypasses it; else the executor runs.
Lookup(w) ==
    /\ At(w, "lookup")
    /\ \/ /\ ~operations[OpOf(w)].bypass
          /\ \E p \in Plans : Become(w, [worker[w] EXCEPT !.pc = "planned", !.cached = TRUE, !.plan = p])
       \/ Goto(w, "execute")
    /\ UNCHANGED stopping /\ QueueSame /\ ChatSame

\* The executor ends: with artifacts, with none or too many, or with an error.
Execute(w) ==
    /\ At(w, "execute")
    /\ \/ \E p \in Plans : Become(w, [worker[w] EXCEPT !.pc = "planned", !.plan = p])
       \/ ToFail(w, FALSE, FALSE, TRUE)
       \/ \E retryable \in BOOLEAN : ToFail(w, retryable, TRUE, FALSE)
    /\ UNCHANGED stopping /\ QueueSame /\ ChatSame

\* A progress report finds the lease stale.
ProgressStale(w) ==
    /\ At(w, "execute") /\ ~Running(ClaimOf(w))
    /\ Leave(w)
    /\ QueueSame /\ ChatSame

\* Shutdown: the executor is stopped and reaped (or reports that it was), or the
\* artifacts are given up before the delivery.
Interrupt(w) ==
    /\ stopping /\ worker[w].pc \in {"execute", "planned", "check"}
    /\ At(w, "check") => worker[w].events = <<>>
    /\ ToFail(w, TRUE, FALSE, FALSE)
    /\ UNCHANGED stopping /\ QueueSame /\ ChatSame

\* store.fail: a stale lease is ignored, or is an error of the worker.
FailCall(w) ==
    LET call == worker[w].call
    IN  /\ At(w, "fail")
        /\ \/ Fail(ClaimOf(w), call.retryable, call.code) /\ Leave(w)
           \/ /\ ~Running(ClaimOf(w)) /\ QueueSame
              /\ IF call.strict THEN Die(w) ELSE Leave(w)
        /\ ChatSame

AckCall(w) ==
    /\ At(w, "ack")
    /\ \/ AckCancel(ClaimOf(w))
       \/ ~(Running(ClaimOf(w)) /\ operations[OpOf(w)].cancel) /\ QueueSame
    /\ Leave(w)
    /\ ChatSame

\* No heartbeat event and no shutdown: go on to the delivery.
Check(w) ==
    /\ At(w, "check") /\ worker[w].events = <<>> /\ ~stopping
    /\ Goto(w, "begin")
    /\ UNCHANGED stopping /\ QueueSame /\ ChatSame

\* begin_delivery_batch; when it refuses, the lease is left to run out.
Begin(w) ==
    /\ At(w, "begin")
    /\ \/ /\ BeginBatch(ClaimOf(w), TotalOf(worker[w].plan))
          /\ Goto(w, "unit") /\ UNCHANGED stopping
       \/ /\ ~(Running(ClaimOf(w)) /\ ~operations[OpOf(w)].cancel) /\ QueueSame
          /\ Leave(w)
    /\ ChatSame

----------------------------------------------------------------------------
(* The delivery loop of process_claim.                                     *)

\* The head of the loop: after the last unit the claim is done; a shutdown or a
\* cancellation seen stops the delivery; so does a refusal by authorization,
\* credentials or content policy.
NextUnit(w) ==
    /\ At(w, "unit")
    /\ IF worker[w].plan = <<>> THEN Leave(w)
       ELSE /\ UNCHANGED stopping
            /\ IF worker[w].cancelSeen THEN ToStop(w, "cancel")
               ELSE IF stopping THEN ToStop(w, "shutdown")
               ELSE \/ Goto(w, "open")
                    \/ \E reason \in {"denied", "nsfw_blocked", "nsfw_policy_unavailable"} : ToStop(w, reason)
    /\ QueueSame /\ ChatSame

\* stop_delivery: whether the lease was stale makes no difference.
StopCall(w) ==
    /\ At(w, "stop")
    /\ \/ StopBatch(ClaimOf(w), worker[w].reason)
       \/ ~Delivering(ClaimOf(w)) /\ QueueSame
    /\ Leave(w)
    /\ ChatSame

\* begin_delivery_unit; when it refuses, the lease is left to run out.
Open(w) ==
    LET k == worker[w].ordinal
        n == Head(worker[w].plan)
    IN  /\ At(w, "open")
        /\ \/ /\ BeginUnit(ClaimOf(w), k, n)
              /\ Goto(w, "announce") /\ UNCHANGED stopping
           \/ /\ ~MayBeginUnit(ClaimOf(w), k, n) /\ QueueSame
              /\ Leave(w)
        /\ ChatSame

\* The request of the unit a worker delivers.
Request(w) ==
    [op |-> OpOf(w), attempt |-> ClaimOf(w)[2], ordinal |-> worker[w].ordinal,
     count |-> Head(worker[w].plan)]

\* activity_cancel: a child of the shutdown token that heartbeat events cancel too.
ActivityCancelled(w) == stopping \/ worker[w].cancelSeen \/ worker[w].beatFailed

ToSettle(w, outcome) ==
    /\ Become(w, [worker[w] EXCEPT !.pc = "settle", !.outcome = outcome])
    /\ UNCHANGED <<stopping, faults>> /\ QueueSame

\* deliver_media before the first poll of the upload: it may refuse the unit, it
\* does not start once its activity is cancelled, and the deadline may pass.
Announce(w) ==
    /\ At(w, "announce")
    /\ \/ ToSettle(w, "rejected") /\ UNCHANGED <<wire, chat>>
       \/ ActivityCancelled(w) /\ ToSettle(w, "not_started") /\ UNCHANGED <<wire, chat>>
       \/ ToSettle(w, "unknown") /\ UNCHANGED <<wire, chat>>
       \/ /\ ~ActivityCancelled(w)
          /\ wire' = wire \cup {Request(w)}
          /\ Goto(w, "send")
          /\ UNCHANGED <<stopping, chat, faults>> /\ QueueSame

\* The select loop takes a heartbeat event while a delivery is under way.
HearEvent(w) ==
    /\ worker[w].pc \in {"announce", "send"}
    /\ worker[w].events # <<>>
    /\ LET event == Head(worker[w].events)
       IN  Become(w, [worker[w] EXCEPT !.events = Tail(@),
                                       !.cancelSeen = @ \/ event = "cancelled",
                                       !.beatFailed = @ \/ event # "cancelled"])
    /\ UNCHANGED stopping /\ QueueSame /\ ChatSame

Accepted(m) == \E i \in DOMAIN chat[m.op] : chat[m.op][i] = m

\* Mutant of Answer: a lost answer counts as a delivery.
AnswerTrusting(w) ==
    /\ At(w, "send")
    /\ ToSettle(w, "delivered") /\ UNCHANGED <<wire, chat>>

\* Mutant of Answer: the deadline counts as a rejection.
AnswerDeadlineRejects(w) ==
    /\ At(w, "send")
    /\ \/ Accepted(Request(w)) /\ ToSettle(w, "delivered") /\ UNCHANGED <<wire, chat>>
       \/ ToSettle(w, "rejected") /\ UNCHANGED <<wire, chat>>

\* The send ends: with receipts once the request is accepted; with a refusal,
\* after which Telegram forgets the request; or without a usable answer, or at
\* the deadline, in which case the request may still be accepted later.
Answer(w) ==
    /\ At(w, "send")
    /\ \/ Accepted(Request(w)) /\ ToSettle(w, "delivered") /\ UNCHANGED <<wire, chat>>
       \/ /\ Request(w) \in wire
          /\ \E outcome \in {"rejected", "retry_after"} \cup
                            (IF worker[w].cached THEN {"invalid_file_id"} ELSE {}) :
                ToSettle(w, outcome)
          /\ wire' = wire \ {Request(w)} /\ UNCHANGED chat
       \/ ToSettle(w, "unknown") /\ UNCHANGED <<wire, chat>>

\* The next unit of the loop.
Advance(w) ==
    /\ Become(w, [worker[w] EXCEPT !.pc = "unit", !.plan = Tail(@), !.ordinal = @ + 1,
                                   !.outcome = "none"])
    /\ UNCHANGED stopping

\* The statement that records the outcome.  A lost heartbeat turns every outcome
\* into an unknown one; a cached file id that Telegram refuses for the first unit
\* first tries to run the operation again without the cache.
Settle(w) ==
    LET c == ClaimOf(w)
        k == worker[w].ordinal
        outcome == IF worker[w].beatFailed THEN "unknown" ELSE worker[w].outcome
        requeue == outcome = "invalid_file_id" /\ k = 0
        open == \E u \in operations[OpOf(w)].units : OpenUnit(c, k, u)
    IN  /\ At(w, "settle")
        /\ \/ outcome = "delivered" /\ CompleteUnit(c, k) /\ Advance(w)
           \/ outcome = "unknown" /\ UnknownUnit(c, k) /\ Leave(w)
           \/ outcome = "retry_after" /\ RejectUnit(c, k, 1) /\ Leave(w)
           \/ /\ outcome \in {"rejected", "not_started", "invalid_file_id"} /\ ~requeue
              /\ RejectUnit(c, k, 0) /\ Leave(w)
           \/ requeue /\ RequeueInvalidCache(c) /\ Leave(w)
           \/ /\ requeue /\ \A u \in operations[OpOf(w)].units : ~MayRequeue(c, u)
              /\ Become(w, [worker[w] EXCEPT !.outcome = "rejected"])
              /\ UNCHANGED stopping /\ QueueSame
           \/ ~requeue /\ ~open /\ QueueSame /\ Leave(w)
        /\ ChatSame

----------------------------------------------------------------------------
(* The surroundings.                                                       *)

\* The worker awaits the database, for a statement or for the reads of an
\* authorization, and an error of it ends the worker.
UsesDatabase(w) ==
    /\ worker[w].pc \notin {"lookup", "check", "announce", "send", "stopped"}
    /\ worker[w].pc \in {"idle", "planned", "unit"} => ~stopping
    /\ At(w, "unit") => worker[w].plan # <<>> /\ ~worker[w].cancelSeen

DatabaseError(w) ==
    /\ UsesDatabase(w)
    /\ faults < MaxFaults
    /\ Die(w)
    /\ faults' = faults + 1
    /\ QueueSame /\ UNCHANGED <<wire, chat>>

Accept(m) ==
    /\ wire' = wire \ {m}
    /\ chat' = [chat EXCEPT ![m.op] = Append(@, m)]
    /\ UNCHANGED <<worker, stopping, faults>> /\ QueueSame

Lose(m) ==
    /\ wire' = wire \ {m}
    /\ UNCHANGED <<worker, stopping, chat, faults>> /\ QueueSame

Shutdown ==
    /\ ~stopping /\ faults < MaxFaults
    /\ stopping' = TRUE /\ faults' = faults + 1
    /\ UNCHANGED <<worker, wire, chat>> /\ QueueSame

\* The process dies and is started again.
Crash ==
    /\ faults < MaxFaults
    /\ worker' = [w \in Worker |-> IdleWorker]
    /\ stopping' = FALSE /\ faults' = faults + 1
    /\ UNCHANGED <<wire, chat>> /\ QueueSame

\* Once every worker has returned the process exits and is started again
\* (restart: unless-stopped in docker-compose.yaml).
Restart ==
    /\ \A w \in Worker : At(w, "stopped")
    /\ worker' = [w \in Worker |-> IdleWorker]
    /\ stopping' = FALSE
    /\ QueueSame /\ ChatSame

\* Submission, cancellation and the passage of time.
Elsewhere ==
    /\ \E o \in Op : Admit(o) \/ RequestCancel(o) \/ LeaseExpires(o) \/ MakeAvailable(o)
    /\ UNCHANGED <<worker, stopping>> /\ ChatSame

----------------------------------------------------------------------------
Work(w) ==
    \/ Poll(w) \/ Exit(w) \/ TakeEvent(w)
    \/ Authorize(w) \/ Lookup(w) \/ Execute(w) \/ ProgressStale(w) \/ Interrupt(w)
    \/ FailCall(w) \/ AckCall(w) \/ Check(w) \/ Begin(w)
    \/ NextUnit(w) \/ StopCall(w) \/ Open(w) \/ Announce(w) \/ HearEvent(w) \/ Answer(w) \/ Settle(w)

ServiceNext ==
    \/ \E w \in Worker : Work(w) \/ Heartbeat(w) \/ HeartbeatError(w) \/ DatabaseError(w)
    \/ \E m \in wire : Accept(m) \/ Lose(m)
    \/ Shutdown \/ Crash \/ Restart \/ Elsewhere

ServiceSpec == ServiceInit /\ [][ServiceNext]_serviceVars

\* A lease that no heartbeat extends runs out.
Abandoned(o) ==
    /\ LeaseExpires(o)
    /\ \A w \in Worker : ~(worker[w].beat /\ ClaimOf(w) = <<o, operations[o].attempt>>)
    /\ UNCHANGED <<worker, stopping>> /\ ChatSame

Available(o) == MakeAvailable(o) /\ UNCHANGED <<worker, stopping>> /\ ChatSame

\* Tasks are scheduled, the executor and the delivery have deadlines, time
\* passes, and the container is started again.  Telegram, the owner and the
\* faults owe nothing.
Fairness ==
    /\ \A w \in Worker : WF_serviceVars(Work(w))
    /\ \A o \in Op : WF_serviceVars(Abandoned(o)) /\ WF_serviceVars(Available(o))
    /\ WF_serviceVars(Restart)

FairService == ServiceSpec /\ Fairness

----------------------------------------------------------------------------
(* Properties.                                                             *)

\* Types, and the heartbeat's channel never holds more than one cancellation and
\* the event that ends the task (start_heartbeat): the worker cannot fall behind.
ServiceTypeOK ==
    /\ TypeOK
    /\ \A w \in Worker : /\ worker[w].pc \in Step
                         /\ worker[w].claim \in (Op \X Nat) \cup {NoClaim}
                         /\ worker[w].plan \in Seq(1..MaxUnit)
                         /\ worker[w].events \in Seq(Event) /\ Len(worker[w].events) <= 2
                         /\ worker[w].outcome \in Outcome
                         /\ worker[w].reason \in StopReason
    /\ stopping \in BOOLEAN
    /\ faults \in 0..MaxFaults

\* At every moment the chat shows a prefix, in order and without repetition, of
\* the units of one single attempt: no crash, expired lease, lost answer, retry
\* or second worker ever sends a unit twice or starts a delivery over
\* (docs/architecture/overview.md: "An ambiguous send must not trigger an
\* automatic resend").
ChatIsPrefix ==
    \A o \in Op : \A i \in DOMAIN chat[o] :
        chat[o][i].ordinal = i - 1 /\ chat[o][i].attempt = chat[o][1].attempt

\* The number of artifacts in the chat.
ArtifactsIn(s) == UNION {{i} \X (1..s[i].count) : i \in DOMAIN s}
Arrived(o) == Cardinality(ArtifactsIn(chat[o]))

\* What the journal calls delivered has arrived, and all of the plan has when the
\* operation succeeded (complete_delivery_unit is only called with receipts).
RecordedHasArrived ==
    \A o \in Op :
        /\ operations[o].status \notin {"queued", "running"} => operations[o].delivered <= Arrived(o)
        /\ operations[o].status = "succeeded" => operations[o].planned = Arrived(o)

\* The service keeps the contract: what is reported agrees with the chat, now and
\* later, however sends, answers, leases and restarts interleave.
Contract ==
    INSTANCE DeliveryContract WITH
        outcome <- [o \in Op |-> IF operations[o].status \in Pending THEN "open" ELSE operations[o].status],
        arrived <- [o \in Op |-> Arrived(o)]

KeepsContract == Contract!Spec

\* A shutdown that comes before the upload has started does not end an operation
\* that has an attempt left (docs/architecture/persistence.md: "The persistent
\* file preserves admitted operations across process restarts").
ShutdownKeepsOperation ==
    [][\A w \in Worker :
          LET o == OpOf(w)
          IN  /\ worker[w].outcome = "not_started"
              /\ ~operations[o].cancel
              /\ operations[o].attempt < operations[o].max
              /\ operations[o].delivered = 0
              => operations'[o].status # "failed"]_serviceVars

\* What the records say is what the chat shows.
RecordsMatchChat == ServiceTypeOK /\ ChatIsPrefix /\ RecordedHasArrived

IsPending(o) == operations[o].status \in Pending
=============================================================================
