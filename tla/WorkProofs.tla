----------------------------- MODULE WorkProofs -----------------------------
(***************************************************************************)
(* Proofs about the work behind the queue, for every value of the          *)
(* constants: executor runs (yoink-executor), jobs of the inbox and the    *)
(* commands that save links (yoink-inbox, yoink-telegram), command menus   *)
(* and progress notices (yoink-telegram).  Each component has an inductive *)
(* invariant of its own; the last theorem is about all of them, as MCLive  *)
(* puts them side by side.                                                 *)
(***************************************************************************)
EXTENDS MCLive, SequenceTheorems, FiniteSetTheorems, TLAPS

-----------------------------------------------------------------------------
(* Runs of the executor. *)

Answers == {"none", "cancelled", "io", "spawn", "timeout", "workspace", "protocol", "exited", "completed", "unsafe"}

ExecTyped ==
    /\ ExecTypeOK
    /\ written \in [Runs -> Seq(Frames)] /\ budget \in [Runs -> Nat]
    /\ frames \in [Runs -> Seq(Frames)] /\ relayed \in [Runs -> {"nothing", "progress"}]
    /\ result \in [Runs -> Answers]

\* The terminal frame ends the stream; a run that succeeded has one and exited well.
TerminalIsLast(r) == \A i \in 1..Len(frames[r]) : frames[r][i] = "terminal" => i = Len(frames[r])

Succeeded(r) == reader[r] # "open" /\ exitOk[r] /\ frames[r] # <<>> /\ frames[r][Len(frames[r])] = "terminal"

\* What a run has left at each of its steps, and what its answer rests on.
RunInv(r) ==
    /\ pc[r] \in {"idle", "prepare", "spawn", "joining", "validating", "ended"} => alive[r] = {}
    /\ pc[r] \in {"idle", "prepare", "ended"} => ~workspace[r]
    /\ pc[r] \in {"idle", "prepare", "spawn", "joining", "validating"} => ~zombie[r]
    /\ pc[r] = "ended" /\ r \in owned => ~zombie[r]
    /\ pc[r] \in {"idle", "prepare", "spawn", "running", "joining", "validating"} => result[r] = "none"
    /\ TerminalIsLast(r)
    /\ pc[r] = "validating" \/ result[r] = "completed" => Succeeded(r)

\* The executor closes only when the runs it owns are over.
OwnersAtRest == owned \subseteq Runs /\ (admission = "closed" => \A r \in owned : pc[r] \in {"idle", "ended"})

ExecInv ==
    /\ ExecTyped
    /\ \A r \in Runs : RunInv(r)
    /\ OwnersAtRest

LEMMA ExecStarts == RunsAssumption /\ ExecInit => ExecInv
<1> SUFFICES ASSUME RunsAssumption, ExecInit PROVE ExecInv
    OBVIOUS
<1>1. ExecTyped
  BY DEF ExecInit, ExecTyped, ExecTypeOK, RunsAssumption, Answers
<1>2. ASSUME NEW r \in Runs PROVE RunInv(r)
  BY DEF ExecInit, RunInv, TerminalIsLast, Succeeded
<1> QED BY <1>1, <1>2 DEF ExecInit, ExecInv, OwnersAtRest

LEMMA StartKeeps == ASSUME ExecInv, NEW r \in Runs, Start(r) PROVE ExecInv'
<1>1. ExecTyped'
  BY DEF ExecInv, ExecTyped, ExecTypeOK, Answers, Start, processVars, streamVars
<1>2. ASSUME NEW q \in Runs PROVE RunInv(q)'
  BY DEF ExecInv, ExecTyped, ExecTypeOK, RunInv, TerminalIsLast, Succeeded, Start, processVars, streamVars
<1>3. OwnersAtRest'
  BY DEF ExecInv, ExecTyped, ExecTypeOK, OwnersAtRest, Start, processVars, streamVars
<1> QED BY <1>1, <1>2, <1>3 DEF ExecInv

LEMMA PrepareKeeps == ASSUME ExecInv, NEW r \in Runs, Prepare(r) PROVE ExecInv'
<1>1. ExecTyped'
  BY DEF ExecInv, ExecTyped, ExecTypeOK, Answers, Prepare, Return, processVars, streamVars
<1>2. ASSUME NEW q \in Runs PROVE RunInv(q)'
  BY DEF ExecInv, ExecTyped, ExecTypeOK, RunInv, TerminalIsLast, Succeeded, Prepare, Return, processVars, streamVars
<1>3. OwnersAtRest'
  BY DEF ExecInv, ExecTyped, ExecTypeOK, OwnersAtRest, Prepare, Return, processVars, streamVars
<1> QED BY <1>1, <1>2, <1>3 DEF ExecInv

LEMMA SpawnKeeps == ASSUME ExecInv, NEW r \in Runs, Spawn(r) PROVE ExecInv'
<1>1. ExecTyped'
  <2>1. {"leader"} \in SUBSET Processes
    BY DEF Processes
  <2>2. /\ pc' \in [Runs -> {"idle", "prepare", "spawn", "running", "joining", "validating", "ending", "ended"}]
        /\ workspace' \in [Runs -> BOOLEAN] /\ reader' \in [Runs -> {"none", "open", "ok", "error"}]
        /\ caller' \in [Runs -> {"waiting", "answered", "gone"}] /\ result' \in [Runs -> Answers]
    BY DEF ExecInv, ExecTyped, ExecTypeOK, Answers, Spawn, Return
  <2>3. alive' \in [Runs -> SUBSET Processes]
    BY <2>1 DEF ExecInv, ExecTyped, ExecTypeOK, Spawn
  <2> QED BY <2>2, <2>3 DEF ExecInv, ExecTyped, ExecTypeOK, Spawn
<1>2. ASSUME NEW q \in Runs PROVE RunInv(q)'
  BY DEF ExecInv, ExecTyped, ExecTypeOK, RunInv, TerminalIsLast, Succeeded, Spawn, Return, Processes, processVars, streamVars
<1>3. OwnersAtRest'
  BY DEF ExecInv, ExecTyped, ExecTypeOK, OwnersAtRest, Spawn, Return, Processes, processVars, streamVars
<1> QED BY <1>1, <1>2, <1>3 DEF ExecInv

LEMMA ForkKeeps == ASSUME ExecInv, NEW r \in Runs, Fork(r) PROVE ExecInv'
<1>1. ExecTyped'
  BY DEF ExecInv, ExecTyped, ExecTypeOK, Answers, Fork, Processes, processVars, streamVars
<1>2. ASSUME NEW q \in Runs PROVE RunInv(q)'
  BY DEF ExecInv, ExecTyped, ExecTypeOK, RunInv, TerminalIsLast, Succeeded, Fork, Processes, processVars, streamVars
<1>3. OwnersAtRest'
  BY DEF ExecInv, ExecTyped, ExecTypeOK, OwnersAtRest, Fork, Processes, processVars, streamVars
<1> QED BY <1>1, <1>2, <1>3 DEF ExecInv

LEMMA OverflowKeeps == ASSUME ExecInv, NEW r \in Runs, Overflow(r) PROVE ExecInv'
<1>1. ExecTyped'
  BY DEF ExecInv, ExecTyped, ExecTypeOK, Answers, Overflow, TerminateGroup, Killed, ZombieAfterKill, processVars, streamVars
<1>2. ASSUME NEW q \in Runs PROVE RunInv(q)'
  BY DEF ExecInv, ExecTyped, ExecTypeOK, RunInv, TerminalIsLast, Succeeded, Overflow, TerminateGroup, Killed, ZombieAfterKill, processVars, streamVars
<1>3. OwnersAtRest'
  BY DEF ExecInv, ExecTyped, ExecTypeOK, OwnersAtRest, Overflow, TerminateGroup, Killed, ZombieAfterKill, processVars, streamVars
<1> QED BY <1>1, <1>2, <1>3 DEF ExecInv

LEMMA EndOfStreamKeeps == ASSUME ExecInv, NEW r \in Runs, EndOfStream(r) PROVE ExecInv'
<1>1. ExecTyped'
  BY DEF ExecInv, ExecTyped, ExecTypeOK, Answers, EndOfStream, processVars, streamVars
<1>2. ASSUME NEW q \in Runs PROVE RunInv(q)'
  BY DEF ExecInv, ExecTyped, ExecTypeOK, RunInv, TerminalIsLast, Succeeded, EndOfStream, processVars, streamVars
<1>3. OwnersAtRest'
  BY DEF ExecInv, ExecTyped, ExecTypeOK, OwnersAtRest, EndOfStream, processVars, streamVars
<1> QED BY <1>1, <1>2, <1>3 DEF ExecInv

LEMMA InterruptKeeps == ASSUME ExecInv, NEW r \in Runs, Interrupt(r) PROVE ExecInv'
<1>1. ExecTyped'
  BY DEF ExecInv, ExecTyped, ExecTypeOK, Answers, Interrupt, Finish, TerminateGroup, Killed, ZombieAfterKill, processVars, streamVars
<1>2. ASSUME NEW q \in Runs PROVE RunInv(q)'
  BY DEF ExecInv, ExecTyped, ExecTypeOK, RunInv, TerminalIsLast, Succeeded, Interrupt, Finish, TerminateGroup, Killed, ZombieAfterKill, processVars, streamVars
<1>3. OwnersAtRest'
  BY DEF ExecInv, ExecTyped, ExecTypeOK, OwnersAtRest, Interrupt, Finish, TerminateGroup, Killed, ZombieAfterKill, processVars, streamVars
<1> QED BY <1>1, <1>2, <1>3 DEF ExecInv

LEMMA MonitorKeeps == ASSUME ExecInv, NEW r \in Runs, Monitor(r) PROVE ExecInv'
<1>1. ExecTyped'
  BY DEF ExecInv, ExecTyped, ExecTypeOK, Answers, Monitor, Finish, processVars, streamVars
<1>2. ASSUME NEW q \in Runs PROVE RunInv(q)'
  BY DEF ExecInv, ExecTyped, ExecTypeOK, RunInv, TerminalIsLast, Succeeded, Monitor, Finish, processVars, streamVars
<1>3. OwnersAtRest'
  BY DEF ExecInv, ExecTyped, ExecTypeOK, OwnersAtRest, Monitor, Finish, processVars, streamVars
<1> QED BY <1>1, <1>2, <1>3 DEF ExecInv

LEMMA WaitedKeeps == ASSUME ExecInv, NEW r \in Runs, Waited(r) PROVE ExecInv'
<1>1. ExecTyped'
  BY DEF ExecInv, ExecTyped, ExecTypeOK, Answers, Waited, Killed, processVars, streamVars
<1>2. ASSUME NEW q \in Runs PROVE RunInv(q)'
  BY DEF ExecInv, ExecTyped, ExecTypeOK, RunInv, TerminalIsLast, Succeeded, Waited, Killed, processVars, streamVars
<1>3. OwnersAtRest'
  BY DEF ExecInv, ExecTyped, ExecTypeOK, OwnersAtRest, Waited, Killed, processVars, streamVars
<1> QED BY <1>1, <1>2, <1>3 DEF ExecInv

LEMMA JoinKeeps == ASSUME ExecInv, NEW r \in Runs, Join(r) PROVE ExecInv'
<1>1. ExecTyped'
  BY DEF ExecInv, ExecTyped, ExecTypeOK, Answers, Join, Finish, TerminalRead, processVars, streamVars
<1>2. ASSUME NEW q \in Runs PROVE RunInv(q)'
  BY DEF ExecInv, ExecTyped, ExecTypeOK, RunInv, TerminalIsLast, Succeeded, Join, Finish, TerminalRead, processVars, streamVars
<1>3. OwnersAtRest'
  BY DEF ExecInv, ExecTyped, ExecTypeOK, OwnersAtRest, Join, Finish, TerminalRead, processVars, streamVars
<1> QED BY <1>1, <1>2, <1>3 DEF ExecInv

LEMMA ValidateKeeps == ASSUME ExecInv, NEW r \in Runs, Validate(r) PROVE ExecInv'
<1>1. ExecTyped'
  BY DEF ExecInv, ExecTyped, ExecTypeOK, Answers, Validate, Finish, processVars, streamVars
<1>2. ASSUME NEW q \in Runs PROVE RunInv(q)'
  BY DEF ExecInv, ExecTyped, ExecTypeOK, RunInv, TerminalIsLast, Succeeded, Validate, Finish, processVars, streamVars
<1>3. OwnersAtRest'
  BY DEF ExecInv, ExecTyped, ExecTypeOK, OwnersAtRest, Validate, Finish, processVars, streamVars
<1> QED BY <1>1, <1>2, <1>3 DEF ExecInv

LEMMA EndKeeps == ASSUME ExecInv, NEW r \in Runs, End(r) PROVE ExecInv'
<1>1. ExecTyped'
  BY DEF ExecInv, ExecTyped, ExecTypeOK, Answers, End, Return, Killed, processVars, streamVars
<1>2. ASSUME NEW q \in Runs PROVE RunInv(q)'
  BY DEF ExecInv, ExecTyped, ExecTypeOK, RunInv, TerminalIsLast, Succeeded, End, Return, Killed, processVars, streamVars
<1>3. OwnersAtRest'
  BY DEF ExecInv, ExecTyped, ExecTypeOK, OwnersAtRest, End, Return, Killed, processVars, streamVars
<1> QED BY <1>1, <1>2, <1>3 DEF ExecInv

LEMMA CancelKeeps == ASSUME ExecInv, NEW r \in Runs, Cancel(r) PROVE ExecInv'
<1>1. ExecTyped'
  BY DEF ExecInv, ExecTyped, ExecTypeOK, Answers, Cancel, processVars, streamVars
<1>2. ASSUME NEW q \in Runs PROVE RunInv(q)'
  BY DEF ExecInv, ExecTyped, ExecTypeOK, RunInv, TerminalIsLast, Succeeded, Cancel, processVars, streamVars
<1>3. OwnersAtRest'
  BY DEF ExecInv, ExecTyped, ExecTypeOK, OwnersAtRest, Cancel, processVars, streamVars
<1> QED BY <1>1, <1>2, <1>3 DEF ExecInv

LEMMA DropCallerKeeps == ASSUME ExecInv, NEW r \in Runs, DropCaller(r) PROVE ExecInv'
<1>1. ExecTyped'
  BY DEF ExecInv, ExecTyped, ExecTypeOK, Answers, DropCaller, TerminateGroup, Killed, ZombieAfterKill, processVars, streamVars
<1>2. ASSUME NEW q \in Runs PROVE RunInv(q)'
  BY DEF ExecInv, ExecTyped, ExecTypeOK, RunInv, TerminalIsLast, Succeeded, DropCaller, TerminateGroup, Killed, ZombieAfterKill, processVars, streamVars
<1>3. OwnersAtRest'
  BY DEF ExecInv, ExecTyped, ExecTypeOK, OwnersAtRest, DropCaller, TerminateGroup, Killed, ZombieAfterKill, processVars, streamVars
<1> QED BY <1>1, <1>2, <1>3 DEF ExecInv

LEMMA ReapOrphanKeeps == ASSUME ExecInv, NEW r \in Runs, ReapOrphan(r) PROVE ExecInv'
<1>1. ExecTyped'
  BY DEF ExecInv, ExecTyped, ExecTypeOK, Answers, ReapOrphan, processVars, streamVars
<1>2. ASSUME NEW q \in Runs PROVE RunInv(q)'
  BY DEF ExecInv, ExecTyped, ExecTypeOK, RunInv, TerminalIsLast, Succeeded, ReapOrphan, processVars, streamVars
<1>3. OwnersAtRest'
  BY DEF ExecInv, ExecTyped, ExecTypeOK, OwnersAtRest, ReapOrphan, processVars, streamVars
<1> QED BY <1>1, <1>2, <1>3 DEF ExecInv

LEMMA WriteKeeps == ASSUME ExecInv, NEW r \in Runs, NEW frame \in Frames, Write(r, frame) PROVE ExecInv'
<1>1. ExecTyped'
  <2>1. Append(written[r], frame) \in Seq(Frames) /\ budget[r] - 1 \in Nat
    BY AppendProperties DEF ExecInv, ExecTyped, Write
  <2> QED BY <2>1 DEF ExecInv, ExecTyped, ExecTypeOK, Write, processVars
<1>2. ASSUME NEW q \in Runs PROVE RunInv(q)'
  BY DEF ExecInv, RunInv, TerminalIsLast, Succeeded, Write, processVars
<1>3. OwnersAtRest'
  BY DEF ExecInv, OwnersAtRest, Write, processVars
<1> QED BY <1>1, <1>2, <1>3 DEF ExecInv

LEMMA ExitKeeps == ASSUME ExecInv, NEW r \in Runs, NEW process \in Processes, Exit(r, process) PROVE ExecInv'
<1>1. ExecTyped'
  BY DEF ExecInv, ExecTyped, ExecTypeOK, Exit, streamVars
<1>2. ASSUME NEW q \in Runs PROVE RunInv(q)'
  BY DEF ExecInv, ExecTyped, ExecTypeOK, RunInv, TerminalIsLast, Succeeded, Exit, streamVars
<1>3. OwnersAtRest'
  BY DEF ExecInv, OwnersAtRest, Exit, streamVars
<1> QED BY <1>1, <1>2, <1>3 DEF ExecInv

LEMMA ReadFrameKeeps == ASSUME ExecInv, NEW r \in Runs, ReadFrame(r) PROVE ExecInv'
<1> DEFINE frame == Head(written[r])
<1>1. /\ reader[r] = "open" /\ written[r] # <<>> /\ written' = [written EXCEPT ![r] = Tail(@)]
      /\ UNCHANGED <<owned, pc, exitOk, workspace, budget, cancel, caller, result, admission>>
  BY DEF ReadFrame
<1>2. frame \in Frames /\ Tail(written[r]) \in Seq(Frames)
  BY <1>1, HeadTailProperties DEF ExecInv, ExecTyped
<1>3. CASE Accepts(r, frame)
  <2>1. /\ frames' = [frames EXCEPT ![r] = Append(@, frame)]
        /\ relayed' = [relayed EXCEPT ![r] = IF frame # "terminal" THEN frame ELSE @]
        /\ UNCHANGED <<reader, alive, zombie>>
    BY <1>3 DEF ReadFrame
  <2>2. frames[r] \in Seq(Frames) /\ Len(frames[r]) \in Nat /\ DOMAIN frames[r] = 1..Len(frames[r])
    BY LenProperties DEF ExecInv, ExecTyped
  <2>3. /\ Append(frames[r], frame) \in Seq(Frames) /\ Len(Append(frames[r], frame)) = Len(frames[r]) + 1
        /\ \A i \in 1..Len(frames[r]) : Append(frames[r], frame)[i] = frames[r][i]
    BY <1>2, <2>2, AppendProperties
  <2>4. \A i \in 1..Len(frames[r]) : frames[r][i] # "terminal"
    BY <1>3, <2>2 DEF Accepts
  <2>5. frame \in {"progress", "terminal"}
    BY <1>2, <1>3 DEF Accepts, Frames
  <2>6. ExecTyped'
    <3>1. frames' \in [Runs -> Seq(Frames)] /\ written' \in [Runs -> Seq(Frames)]
      BY <1>1, <1>2, <2>1, <2>3 DEF ExecInv, ExecTyped
    <3>2. relayed' \in [Runs -> {"nothing", "progress"}]
      BY <2>1, <2>5 DEF ExecInv, ExecTyped
    <3> QED BY <1>1, <2>1, <3>1, <3>2 DEF ExecInv, ExecTyped, ExecTypeOK
  <2>7. ASSUME NEW q \in Runs PROVE RunInv(q)'
    <3>1. CASE q # r
      BY <1>1, <2>1, <3>1 DEF ExecInv, ExecTyped, RunInv, TerminalIsLast, Succeeded
    <3>2. CASE q = r
      <4>1. frames'[r] = Append(frames[r], frame)
        BY <2>1 DEF ExecInv, ExecTyped
      <4>2. TerminalIsLast(r)'
        BY <2>2, <2>3, <2>4, <4>1 DEF TerminalIsLast
      <4>3. ~(pc[r] = "validating" \/ result[r] = "completed")
        BY <1>1 DEF ExecInv, RunInv, Succeeded
      <4> QED BY <1>1, <2>1, <3>2, <4>2, <4>3 DEF ExecInv, RunInv
    <3> QED BY <3>1, <3>2
  <2>8. OwnersAtRest'
    BY <1>1 DEF ExecInv, OwnersAtRest
  <2> QED BY <2>6, <2>7, <2>8 DEF ExecInv
<1>4. CASE ~Accepts(r, frame)
  <2>1. /\ reader' = [reader EXCEPT ![r] = "error"] /\ TerminateGroup(r)
        /\ UNCHANGED <<frames, relayed>>
    BY <1>4 DEF ReadFrame
  <2>2. ExecTyped'
    BY <1>1, <1>2, <2>1 DEF ExecInv, ExecTyped, ExecTypeOK, TerminateGroup, Killed, ZombieAfterKill
  <2>3. ASSUME NEW q \in Runs PROVE RunInv(q)'
    BY <1>1, <2>1 DEF ExecInv, ExecTyped, ExecTypeOK, RunInv, TerminalIsLast, Succeeded, TerminateGroup,
                      Killed, ZombieAfterKill
  <2>4. OwnersAtRest'
    BY <1>1 DEF ExecInv, OwnersAtRest
  <2> QED BY <2>2, <2>3, <2>4 DEF ExecInv
<1> QED BY <1>3, <1>4

LEMMA ShutdownKeeps == ASSUME ExecInv, BeginShutdown \/ EndShutdown PROVE ExecInv'
<1>1. ExecTyped'
  BY DEF ExecInv, ExecTyped, ExecTypeOK, BeginShutdown, EndShutdown, processVars, streamVars
<1>2. ASSUME NEW q \in Runs PROVE RunInv(q)'
  BY DEF ExecInv, RunInv, TerminalIsLast, Succeeded, BeginShutdown, EndShutdown, processVars, streamVars
<1>3. OwnersAtRest'
  BY DEF ExecInv, OwnersAtRest, BeginShutdown, EndShutdown, processVars, streamVars
<1> QED BY <1>1, <1>2, <1>3 DEF ExecInv

LEMMA ExecStutters == ASSUME ExecInv, UNCHANGED execVars PROVE ExecInv'
<1>1. ExecTyped' /\ OwnersAtRest'
  BY DEF ExecInv, ExecTyped, ExecTypeOK, OwnersAtRest, execVars
<1>2. ASSUME NEW q \in Runs PROVE RunInv(q)'
  BY DEF ExecInv, RunInv, TerminalIsLast, Succeeded, execVars
<1> QED BY <1>1, <1>2 DEF ExecInv

LEMMA ExecStep == ExecInv /\ [ExecNext]_execVars => ExecInv'
<1> SUFFICES ASSUME ExecInv, [ExecNext]_execVars PROVE ExecInv'
    OBVIOUS
<1>1. ASSUME NEW r \in Runs, Executor(r) PROVE ExecInv'
  BY <1>1, PrepareKeeps, SpawnKeeps, ReadFrameKeeps, EndOfStreamKeeps, InterruptKeeps, WaitedKeeps,
     JoinKeeps, ValidateKeeps, EndKeeps DEF Executor
<1>2. ASSUME NEW r \in Runs, WorkerActs(r) PROVE ExecInv'
  BY <1>2, WriteKeeps, ForkKeeps, ExitKeeps DEF WorkerActs
<1> QED BY <1>1, <1>2, StartKeeps, OverflowKeeps, MonitorKeeps, CancelKeeps, DropCallerKeeps, ReapOrphanKeeps,
           ShutdownKeeps, ExecStutters DEF ExecNext

LEMMA ExecHolds == ExecInv => NothingSurvives /\ OwnWorkOnly
  BY DEF ExecInv, ExecTyped, RunInv, OwnersAtRest, Succeeded, NothingSurvives, OwnWorkOnly

\* A run that is over left neither a process nor a workspace behind, and a result is
\* what its own worker reported, however the caller, the worker, a timeout and the
\* shutdown come between (yoink-executor run, terminate_group).
THEOREM RunsOwnTheirWork ==
    ASSUME RunsAssumption
    PROVE  ExecInit /\ [][ExecNext]_execVars => [](NothingSurvives /\ OwnWorkOnly)
<1> QED BY ExecStarts, ExecStep, ExecHolds, PTL

-----------------------------------------------------------------------------
(* Jobs of the inbox, and the commands that save links. *)

Kinds == {"enrich", "classify"}
JobStates == {"absent", "ready", "running", "done", "failed"}
Dispositions == {"absent", "prepared", "sending", "confirmed"}

ItemRow == [status : ItemStatus, ruled : BOOLEAN, id : Nat, source : Messages \cup {"web"},
            reply : Messages \cup {"none"}]
JobRow == [item : Items \cup {"none"}, kind : Kinds \cup {"none"}, state : JobStates, attempts : Nat,
           due : BOOLEAN, token : Nat, live : BOOLEAN]
ClaimRow == [job : 0..MaxJobs, token : Nat, stage : {"none", "read", "work"}]
EffectRow == [state : Dispositions, item : Nat, created : BOOLEAN, text : Nat, bound : BOOLEAN]
HandlingRow == [pc : {"idle", "new", "dispatch", "sending", "done"}, message : Messages \cup {"none"},
                answer : EffectRow]

JobsTyped ==
    /\ item \in [Items -> ItemRow] /\ job \in [1..MaxJobs -> JobRow]
    /\ nextJob \in 1..(MaxJobs + 1) /\ nextToken \in Nat \ {0} /\ claim \in ClaimRow
    /\ spent \in [1..MaxJobs -> Nat]

CommandsTyped ==
    /\ effect \in [Messages -> EffectRow] /\ handling \in [Deliveries -> HandlingRow]
    /\ \A d \in Deliveries : handling[d].pc \in {"new", "dispatch", "sending"} => handling[d].message \in Messages

\* A row that runs has its lease and counts the claims that were not given back.
RowInv(j) ==
    /\ j >= nextJob => job[j].state = "absent" /\ spent[j] = 0
    /\ (job[j].state = "running") <=> (job[j].token # 0)
    /\ job[j].state = "running" => job[j].attempts > 0
    /\ job[j].state # "absent" => job[j].attempts = spent[j] /\ job[j].item \in Items

\* The unique index: one active job per item and kind.
OneActive ==
    \A j, k \in 1..MaxJobs :
        Active(j) /\ Active(k) /\ job[j].item = job[k].item /\ job[j].kind = job[k].kind => j = k

\* An item that waits has the job it waits for.
Enriching(i) == \E j \in 1..MaxJobs : Active(j) /\ job[j].item = i /\ job[j].kind = "enrich"
Classifying(i) ==
    \E j \in 1..MaxJobs : (Active(j) \/ job[j].state = "failed") /\ job[j].item = i /\ job[j].kind = "classify"

WaitInv(i) ==
    ~item[i].ruled => /\ item[i].status = "pending" => Enriching(i)
                      /\ item[i].status = "enriched" => Classifying(i)

JobsInv ==
    /\ JobsTyped /\ CommandsTyped /\ OneActive
    /\ claim.stage # "none" => claim.job \in 1..MaxJobs
    /\ \A j \in 1..MaxJobs : RowInv(j)
    /\ \A i \in Items : WaitInv(i)

LEMMA JobsStart == InboxJobsAssumption /\ JobsInit => JobsInv
<1> SUFFICES ASSUME InboxJobsAssumption, JobsInit PROVE JobsInv
    OBVIOUS
<1>1. JobsTyped
  BY SMT DEF JobsInit, JobsTyped, InboxJobsAssumption, NoItem, NoJob, NoClaim, ItemRow, JobRow, ClaimRow, ItemStatus, JobStates
<1>2. CommandsTyped
  BY DEF JobsInit, CommandsTyped, NoEffect, NoHandling, EffectRow, HandlingRow, Dispositions
<1>3. OneActive /\ \A i \in Items : WaitInv(i)
  BY DEF JobsInit, OneActive, Active, NoJob, WaitInv, NoItem
<1>4. \A j \in 1..MaxJobs : RowInv(j)
  BY DEF JobsInit, RowInv, NoJob
<1> QED BY <1>1, <1>2, <1>3, <1>4 DEF JobsInv, JobsInit, NoClaim


\* Row z is row with these fields written.
Written(z, row, state, token, live, dueNow, attempts) ==
    /\ z \in JobRow /\ z.item = row.item /\ z.kind = row.kind /\ z.state = state /\ z.token = token
    /\ z.live = live /\ z.due = dueNow /\ z.attempts = attempts

LEMMA RowRead == ASSUME NEW q \in JobRow PROVE Written(q, q, q.state, q.token, q.live, q.due, q.attempts)
  BY DEF Written

LEMMA LiveWritten == ASSUME NEW q \in JobRow, NEW b \in BOOLEAN, NEW z, z = [q EXCEPT !.live = b]
                     PROVE Written(z, q, q.state, q.token, b, q.due, q.attempts)
  BY DEF JobRow, Written
LEMMA DueWritten == ASSUME NEW q \in JobRow, NEW b \in BOOLEAN, NEW z, z = [q EXCEPT !.due = b]
                     PROVE Written(z, q, q.state, q.token, q.live, b, q.attempts)
  BY DEF JobRow, Written
LEMMA EndWritten == ASSUME NEW q \in JobRow, NEW state \in JobStates, NEW z,
                           z = [q EXCEPT !.state = state, !.token = 0, !.live = FALSE]
                    PROVE  Written(z, q, state, 0, FALSE, q.due, q.attempts)
  BY DEF JobRow, Written
LEMMA ClaimWritten == ASSUME NEW q \in JobRow, NEW t \in Nat, NEW z,
                           z = [q EXCEPT !.state = "running", !.token = t, !.live = TRUE, !.due = FALSE, !.attempts = @ + 1]
                    PROVE  Written(z, q, "running", t, TRUE, FALSE, q.attempts + 1)
<1>1. "running" \in JobStates /\ q.attempts + 1 \in Nat
  BY DEF JobStates, JobRow
<1>2. PICK n \in Nat : n = q.attempts + 1
  BY <1>1
<1>3. PICK t1, t2 : t1 = TRUE /\ t2 = FALSE
  OBVIOUS
<1>4. z = [q EXCEPT !.state = "running", !.token = t, !.live = t1, !.due = t2, !.attempts = n]
  BY <1>2, <1>3
<1>5. z \in JobRow
  BY <1>1, <1>3, <1>4 DEF JobRow
<1>6. /\ z.item = q.item /\ z.kind = q.kind /\ z.state = "running" /\ z.token = t
      /\ z.live = t1 /\ z.due = t2 /\ z.attempts = n
  BY <1>4 DEF JobRow
<1> QED BY <1>2, <1>3, <1>5, <1>6 DEF Written
LEMMA ReleaseWritten == ASSUME NEW q \in JobRow, q.attempts > 0, NEW z,
                           z = [q EXCEPT !.state = "ready", !.token = 0, !.live = FALSE, !.attempts = @ - 1]
                    PROVE  Written(z, q, "ready", 0, FALSE, q.due, q.attempts - 1)
<1>1. "ready" \in JobStates /\ q.attempts - 1 \in Nat
  BY DEF JobStates, JobRow
<1> QED BY <1>1 DEF JobRow, Written

LEMMA ActiveKept == ASSUME JobsInv, NEW j \in 1..MaxJobs, NEW z \in JobRow, job' = [job EXCEPT ![j] = z],
                            z.item = job[j].item, z.kind = job[j].kind,
                            z.state \in {"ready", "running"} => Active(j)
                     PROVE /\ OneActive' /\ job' \in [1..MaxJobs -> JobRow] /\ job'[j] = z
                           /\ \A k \in 1..MaxJobs : k # j => job'[k] = job[k]
  BY DEF JobsInv, JobsTyped, OneActive, Active

LEMMA WorkKept == ASSUME JobsInv, NEW j \in 1..MaxJobs, NEW z \in JobRow, job' = [job EXCEPT ![j] = z],
                            z.item = job[j].item, z.kind = job[j].kind, NEW i \in Items
                     PROVE /\ z.state \in {"ready", "running"} \/ job[j].item # i \/ job[j].kind # "enrich" =>
                                  (Enriching(i) => Enriching(i)')
                           /\ \/ z.state \in {"ready", "running", "failed"} \/ job[j].item # i
                              \/ job[j].kind # "classify"
                              => (Classifying(i) => Classifying(i)')
  BY DEF JobsInv, JobsTyped, Active, Enriching, Classifying

LEMMA RowsKept == ASSUME JobsInv, NEW j \in 1..MaxJobs, NEW z \in JobRow, job' = [job EXCEPT ![j] = z],
                         nextJob' = nextJob, spent' \in [1..MaxJobs -> Nat], \A k \in 1..MaxJobs : k # j => spent'[k] = spent[k],
                         job[j].state # "absent", (z.state = "running") <=> (z.token # 0),
                         z.state = "running" => z.attempts > 0, z.attempts = spent'[j], z.item = job[j].item
                  PROVE  \A k \in 1..MaxJobs : RowInv(k)'
  BY DEF JobsInv, JobsTyped, RowInv

LEMMA StatusWritten ==
    ASSUME NEW q \in ItemRow, NEW s \in ItemStatus, NEW z, z = [q EXCEPT !.status = s]
    PROVE  z \in ItemRow /\ z.status = s /\ z.ruled = q.ruled
  BY DEF ItemRow

LEMMA RuledWritten ==
    ASSUME InboxJobsAssumption, NEW i, item[i] \in ItemRow, NEW status \in ItemStatus,
           NEW outcome \in RuleOutcomes(status), NEW z, z = Ruled(i, outcome)
    PROVE  z \in ItemRow /\ (~z.ruled => z.status = status /\ ~item[i].ruled)
<1>1. /\ outcome.status \in ItemStatus /\ outcome.ruled \in BOOLEAN
      /\ ~outcome.ruled => outcome.status = status
  <2>1. CASE outcome = [status |-> status, ruled |-> FALSE]
    BY <2>1
  <2>2. CASE outcome \in {[status |-> s, ruled |-> TRUE] : s \in RuleStatus}
    <3>1. PICK s \in RuleStatus : outcome = [status |-> s, ruled |-> TRUE]
      BY <2>2
    <3>2. s \in ItemStatus
      BY DEF InboxJobsAssumption, ItemStatus
    <3> QED BY <3>1, <3>2
  <2> QED BY <2>1, <2>2 DEF RuleOutcomes
<1>2. PICK q \in ItemRow : q = item[i]
  OBVIOUS
<1>3. PICK s, r : s = outcome.status /\ r = (q.ruled \/ outcome.ruled)
  OBVIOUS
<1>4. z = [q EXCEPT !.status = s, !.ruled = r]
  BY <1>2, <1>3 DEF Ruled
<1>5. r \in BOOLEAN
  BY <1>1, <1>3
<1>6. z \in ItemRow /\ z.status = s /\ z.ruled = r
  BY <1>1, <1>3, <1>4, <1>5 DEF ItemRow
<1> QED BY <1>1, <1>2, <1>3, <1>6 DEF ItemRow

LEMMA ArchiveKeeps == ASSUME JobsInv, InboxJobsAssumption, NEW i \in Items, Archive(i) PROVE JobsInv'
<1>1. PICK z : z = [item[i] EXCEPT !.status = "archived"]
  OBVIOUS
<1>2. item' = [item EXCEPT ![i] = z]
  BY <1>1 DEF Archive
<1>3. z \in ItemRow /\ z.status = "archived"
  <2>1. "archived" \in ItemStatus /\ item[i] \in ItemRow
    BY DEF ItemStatus, JobsInv, JobsTyped
  <2> QED BY <1>1, <2>1, StatusWritten
<1>4. JobsTyped' /\ OneActive' /\ \A j \in 1..MaxJobs : RowInv(j)'
  BY <1>2, <1>3 DEF Archive, JobsInv, JobsTyped, OneActive, Active, RowInv
<1>5. CommandsTyped'
  BY DEF JobsInv, CommandsTyped, Archive, commandVars
<1>6. ASSUME NEW r \in Items PROVE WaitInv(r)'
  BY <1>2, <1>3 DEF Archive, JobsInv, JobsTyped, WaitInv, Enriching, Classifying, Active
<1> QED BY <1>4, <1>5, <1>6 DEF Archive, JobsInv

LEMMA DeleteItemKeeps == ASSUME JobsInv, NEW i \in Items, DeleteItem(i) PROVE JobsInv'
<1>1. NoItem \in ItemRow /\ NoItem.status = "absent"
  BY DEF NoItem, ItemRow, ItemStatus
<1>2. NoJob \in JobRow /\ NoJob.state = "absent" /\ NoJob.token = 0
  BY DEF NoJob, JobRow, JobStates
<1>3. ASSUME NEW j \in 1..MaxJobs
      PROVE  job'[j] = IF job[j].item = i THEN NoJob ELSE job[j]
  BY DEF DeleteItem
<1>4. JobsTyped'
  BY <1>1, <1>2 DEF DeleteItem, JobsInv, JobsTyped
<1>5. OneActive'
  BY <1>2, <1>3 DEF JobsInv, OneActive, Active
<1>6. ASSUME NEW j \in 1..MaxJobs PROVE RowInv(j)'
  BY <1>2, <1>3 DEF DeleteItem, JobsInv, RowInv
<1>7. ASSUME NEW r \in Items PROVE WaitInv(r)'
  <2>1. CASE r = i
    BY <1>1, <2>1 DEF DeleteItem, JobsInv, JobsTyped, WaitInv
  <2>2. CASE r # i
    BY <1>3, <2>2 DEF DeleteItem, JobsInv, JobsTyped, WaitInv, Enriching, Classifying, Active
  <2> QED BY <2>1, <2>2
<1>8. CommandsTyped'
  BY DEF JobsInv, CommandsTyped, DeleteItem, commandVars
<1> QED BY <1>4, <1>5, <1>6, <1>7, <1>8 DEF DeleteItem, JobsInv

\* A row that is active becomes z, which is active too.
Moves(j, z) ==
    /\ job' = [job EXCEPT ![j] = z] /\ z \in JobRow /\ Active(j)
    /\ z.item = job[j].item /\ z.kind = job[j].kind /\ z.state \in {"ready", "running"}
    /\ (z.state = "running") <=> (z.token # 0)
    /\ z.state = "running" => z.attempts > 0
    /\ z.attempts = spent'[j] /\ spent' \in [1..MaxJobs -> Nat]
    /\ \A k \in 1..MaxJobs : k # j => spent'[k] = spent[k]
    /\ UNCHANGED <<item, nextJob, effect, handling>>

ClaimMoves ==
    nextToken' \in Nat \ {0} /\ claim' \in ClaimRow /\ (claim'.stage # "none" => claim'.job \in 1..MaxJobs)

LEMMA RowStays == ASSUME JobsInv, NEW j \in 1..MaxJobs, NEW z, Moves(j, z), ClaimMoves PROVE JobsInv'
<1>1. OneActive' /\ job' \in [1..MaxJobs -> JobRow]
  BY ActiveKept DEF Moves
<1>2. JobsTyped'
  BY <1>1 DEF JobsInv, JobsTyped, Moves, ClaimMoves
<1>3. job[j].state # "absent"
  BY DEF Active, Moves
<1>4. \A k \in 1..MaxJobs : RowInv(k)'
  BY <1>3, RowsKept DEF Moves
<1>5. ASSUME NEW i \in Items PROVE WaitInv(i)'
  <2>1. (Enriching(i) => Enriching(i)') /\ (Classifying(i) => Classifying(i)')
    BY WorkKept DEF Moves
  <2> QED BY <2>1 DEF JobsInv, WaitInv, Moves
<1>6. CommandsTyped'
  BY DEF JobsInv, CommandsTyped, Moves
<1> QED BY <1>1, <1>2, <1>4, <1>5, <1>6 DEF JobsInv, ClaimMoves

LEMMA BackoffEndsKeeps == ASSUME JobsInv, NEW j \in 1..MaxJobs, BackoffEnds(j) PROVE JobsInv'
<1>1. PICK z : z = [job[j] EXCEPT !.due = TRUE]
  OBVIOUS
<1>2. job' = [job EXCEPT ![j] = z]
  BY <1>1 DEF BackoffEnds
<1>3. job[j] \in JobRow
  BY DEF JobsInv, JobsTyped
<1>4. Written(z, job[j], job[j].state, job[j].token, job[j].live, TRUE, job[j].attempts)
  BY <1>1, <1>3, DueWritten
<1>5. job[j].state = "ready" /\ Active(j) /\ RowInv(j)
  BY DEF BackoffEnds, Active, JobsInv
<1>6. Moves(j, z)
  BY <1>2, <1>4, <1>5 DEF Moves, Written, RowInv, BackoffEnds, JobsInv, JobsTyped, commandVars
<1>7. ClaimMoves
  BY DEF ClaimMoves, BackoffEnds, JobsInv, JobsTyped
<1> QED BY <1>6, <1>7, RowStays

LEMMA LeaseLapsesKeeps == ASSUME JobsInv, NEW j \in 1..MaxJobs, LeaseLapses(j) PROVE JobsInv'
<1>1. PICK z : z = [job[j] EXCEPT !.live = FALSE]
  OBVIOUS
<1>2. job' = [job EXCEPT ![j] = z]
  BY <1>1 DEF LeaseLapses
<1>3. job[j] \in JobRow
  BY DEF JobsInv, JobsTyped
<1>4. Written(z, job[j], job[j].state, job[j].token, FALSE, job[j].due, job[j].attempts)
  BY <1>1, <1>3, LiveWritten
<1>5. job[j].state = "running" /\ Active(j) /\ RowInv(j)
  BY DEF LeaseLapses, Active, JobsInv
<1>6. Moves(j, z)
  BY <1>2, <1>4, <1>5 DEF Moves, Written, RowInv, LeaseLapses, JobsInv, JobsTyped, commandVars
<1>7. ClaimMoves
  BY DEF ClaimMoves, LeaseLapses, JobsInv, JobsTyped
<1> QED BY <1>6, <1>7, RowStays

LEMMA ClaimJobKeeps == ASSUME JobsInv, ClaimJob PROVE JobsInv'
<1>1. PICK j \in 1..MaxJobs :
           /\ Claimable(j)
           /\ job' = [job EXCEPT ![j].state = "running", ![j].token = nextToken,
                                 ![j].live = TRUE, ![j].due = FALSE, ![j].attempts = @ + 1]
           /\ claim' = [job |-> j, token |-> nextToken, stage |-> "read"]
           /\ spent' = [spent EXCEPT ![j] = @ + 1]
  BY DEF ClaimJob
<1>2. PICK z : z = [job[j] EXCEPT !.state = "running", !.token = nextToken, !.live = TRUE, !.due = FALSE,
                                  !.attempts = @ + 1]
  OBVIOUS
<1>3. job[j] \in JobRow /\ nextToken \in Nat \ {0} /\ job[j].attempts \in Nat /\ spent \in [1..MaxJobs -> Nat]
  BY DEF JobsInv, JobsTyped, JobRow
<1>4. job' = [job EXCEPT ![j] = z]
  BY <1>1, <1>2 DEF JobsInv, JobsTyped
<1>5. Written(z, job[j], "running", nextToken, TRUE, FALSE, job[j].attempts + 1)
  BY <1>2, <1>3, ClaimWritten
<1>6. Active(j) /\ RowInv(j)
  BY <1>1 DEF Claimable, Active, JobsInv
<1>7. /\ spent' \in [1..MaxJobs -> Nat] /\ spent'[j] = job[j].attempts + 1
      /\ \A k \in 1..MaxJobs : k # j => spent'[k] = spent[k]
  BY <1>1, <1>3, <1>6 DEF RowInv, Active
<1>8. claim' \in ClaimRow /\ claim'.job \in 1..MaxJobs /\ nextToken' \in Nat \ {0}
  BY <1>1, <1>3 DEF ClaimRow, ClaimJob
<1>9. Moves(j, z)
  <2>1. nextToken # 0 /\ job[j].attempts + 1 > 0
    BY <1>3
  <2>2. UNCHANGED <<item, nextJob, effect, handling>>
    BY DEF ClaimJob, commandVars
  <2> QED BY <1>4, <1>5, <1>6, <1>7, <2>1, <2>2 DEF Moves, Written
<1>10. ClaimMoves
  BY <1>8 DEF ClaimMoves
<1> QED BY <1>9, <1>10, RowStays

LEMMA LoopKeeps == ASSUME JobsInv, Shutdown \/ Restart \/ UNCHANGED jobVars PROVE JobsInv'
<1>1. UNCHANGED <<item, job, nextJob, nextToken, claim, spent, commandVars>>
  BY DEF Shutdown, Restart, jobVars
<1>2. JobsTyped' /\ CommandsTyped' /\ OneActive' /\ (claim'.stage # "none" => claim'.job \in 1..MaxJobs)
  BY <1>1 DEF JobsInv, JobsTyped, CommandsTyped, OneActive, Active, commandVars
<1>3. ASSUME NEW j \in 1..MaxJobs PROVE RowInv(j)'
  BY <1>1 DEF JobsInv, RowInv
<1>4. ASSUME NEW i \in Items PROVE WaitInv(i)'
  BY <1>1 DEF JobsInv, WaitInv, Enriching, Classifying, Active
<1> QED BY <1>2, <1>3, <1>4 DEF JobsInv

LEMMA ClaimFree == ASSUME InboxJobsAssumption PROVE NoClaim \in ClaimRow /\ NoClaim.stage = "none"
  BY DEF NoClaim, ClaimRow, InboxJobsAssumption

LEMMA CrashKeeps == ASSUME JobsInv, InboxJobsAssumption, Crash PROVE JobsInv'
<1>1. NoHandling \in HandlingRow /\ Handled \in HandlingRow /\ NoHandling.pc = "idle" /\ Handled.pc = "done"
  BY DEF NoHandling, Handled, HandlingRow, NoEffect, EffectRow, Dispositions
<1>2. CommandsTyped'
  BY <1>1 DEF JobsInv, CommandsTyped, Crash
<1>3. JobsTyped' /\ OneActive' /\ claim'.stage = "none"
  <2>1. NoClaim \in ClaimRow /\ NoClaim.stage = "none"
    BY ClaimFree
  <2> QED BY <2>1 DEF JobsInv, JobsTyped, OneActive, Active, Crash
<1>4. ASSUME NEW j \in 1..MaxJobs PROVE RowInv(j)'
  BY DEF JobsInv, RowInv, Crash
<1>5. ASSUME NEW i \in Items PROVE WaitInv(i)'
  BY DEF JobsInv, WaitInv, Enriching, Classifying, Active, Crash
<1> QED BY <1>2, <1>3, <1>4, <1>5 DEF JobsInv

LEMMA SweepRuleKeeps == ASSUME JobsInv, InboxJobsAssumption, SweepRule PROVE JobsInv'
<1>1. PICK outcome :
           /\ \A i \in Items : outcome[i] \in RuleOutcomes(item[i].status)
           /\ item' = [i \in Items |-> IF item[i].status \in {"absent", "archived"} THEN item[i]
                                       ELSE Ruled(i, outcome[i])]
  BY DEF SweepRule
<1>2. ASSUME NEW i \in Items
      PROVE  item'[i] \in ItemRow /\ (~item'[i].ruled => item'[i].status = item[i].status /\ ~item[i].ruled)
  <2>1. item[i] \in ItemRow /\ item[i].status \in ItemStatus
    BY DEF JobsInv, JobsTyped, ItemRow
  <2>2. CASE item[i].status \in {"absent", "archived"}
    BY <1>1, <2>1, <2>2
  <2>3. CASE item[i].status \notin {"absent", "archived"}
    <3>1. item'[i] = Ruled(i, outcome[i]) /\ outcome[i] \in RuleOutcomes(item[i].status)
      BY <1>1, <2>3
    <3> QED BY <2>1, <3>1, RuledWritten
  <2> QED BY <2>2, <2>3
<1>3. JobsTyped' /\ CommandsTyped' /\ OneActive'
  BY <1>1, <1>2 DEF JobsInv, JobsTyped, CommandsTyped, OneActive, Active, SweepRule, commandVars
<1>4. ASSUME NEW j \in 1..MaxJobs PROVE RowInv(j)'
  BY DEF JobsInv, RowInv, SweepRule
<1>5. ASSUME NEW i \in Items PROVE WaitInv(i)'
  BY <1>2 DEF JobsInv, WaitInv, Enriching, Classifying, Active, SweepRule
<1> QED BY <1>3, <1>4, <1>5 DEF JobsInv, SweepRule

\* A row that is active ends; only its item changes.
Closes(j, z) ==
    /\ job' = [job EXCEPT ![j] = z] /\ z \in JobRow /\ Active(j)
    /\ z.item = job[j].item /\ z.kind = job[j].kind /\ z.state \in {"done", "failed"}
    /\ z.token = 0 /\ z.attempts = job[j].attempts
    /\ item' \in [Items -> ItemRow] /\ \A i \in Items : i # job[j].item => item'[i] = item[i]
    /\ \A i \in Items : i = job[j].item => WaitInv(i)'
    /\ UNCHANGED <<nextJob, nextToken, spent, effect, handling>>

LEMMA RowCloses == ASSUME JobsInv, NEW j \in 1..MaxJobs, NEW z, Closes(j, z), ClaimMoves PROVE JobsInv'
<1>1. OneActive' /\ job' \in [1..MaxJobs -> JobRow]
  BY ActiveKept DEF Closes
<1>2. JobsTyped'
  BY <1>1 DEF JobsInv, JobsTyped, Closes, ClaimMoves
<1>3. job[j].state # "absent" /\ RowInv(j)
  BY DEF Active, Closes, JobsInv
<1>4. \A k \in 1..MaxJobs : RowInv(k)'
  <2>1. z.attempts = spent'[j] /\ spent' \in [1..MaxJobs -> Nat]
    BY <1>3 DEF Closes, RowInv, JobsInv, JobsTyped
  <2> QED BY <1>3, <2>1, RowsKept DEF Closes
<1>5. ASSUME NEW i \in Items PROVE WaitInv(i)'
  <2>1. CASE i = job[j].item
    BY <2>1 DEF Closes
  <2>2. CASE i # job[j].item
    <3>1. (Enriching(i) => Enriching(i)') /\ (Classifying(i) => Classifying(i)')
      BY <2>2, WorkKept DEF Closes
    <3> QED BY <2>2, <3>1 DEF JobsInv, WaitInv, Closes
  <2> QED BY <2>1, <2>2
<1>6. CommandsTyped'
  BY DEF JobsInv, CommandsTyped, Closes
<1> QED BY <1>1, <1>2, <1>4, <1>5, <1>6 DEF JobsInv, ClaimMoves

\* What a claim that is still live says of its row.
LEMMA LiveRow ==
    ASSUME JobsInv, claim.stage # "none", Live, NEW j, j = claim.job
    PROVE  /\ j \in 1..MaxJobs /\ job[j] \in JobRow /\ job[j].state = "running" /\ Active(j)
           /\ job[j].item \in Items /\ item[job[j].item] \in ItemRow /\ item[job[j].item].status \in ItemStatus
           /\ job[j].attempts = spent[j] /\ job[j].attempts > 0 /\ job[j].token # 0
  BY DEF JobsInv, JobsTyped, Live, Active, RowInv, ItemRow

LEMMA RowEnds ==
    ASSUME JobsInv, claim.stage # "none", Live, NEW j, j = claim.job, NEW state \in {"done", "failed"},
           job' = Ended(j, state)
    PROVE  \E z \in JobRow : /\ job' = [job EXCEPT ![j] = z]
                             /\ z.item = job[j].item /\ z.kind = job[j].kind /\ z.state = state
                             /\ z.token = 0 /\ z.attempts = job[j].attempts
<1>1. PICK z : z = [job[j] EXCEPT !.state = state, !.token = 0, !.live = FALSE]
  OBVIOUS
<1>2. job[j] \in JobRow /\ state \in JobStates
  BY LiveRow DEF JobStates
<1>3. Written(z, job[j], state, 0, FALSE, job[j].due, job[j].attempts)
  BY <1>1, <1>2, EndWritten
<1>4. job' = [job EXCEPT ![j] = z]
  BY <1>1, LiveRow DEF Ended, JobsInv, JobsTyped
<1> QED BY <1>3, <1>4 DEF Written

\* A claim that is dropped without effect.
LEMMA Forgets ==
    ASSUME JobsInv, InboxJobsAssumption, claim' \in ClaimRow, claim'.stage # "none" => claim'.job \in 1..MaxJobs,
           UNCHANGED <<item, job, nextJob, nextToken, spent, commandVars>>
    PROVE  JobsInv'
<1>1. JobsTyped' /\ CommandsTyped' /\ OneActive'
  BY DEF JobsInv, JobsTyped, CommandsTyped, OneActive, Active, commandVars
<1>2. ASSUME NEW j \in 1..MaxJobs PROVE RowInv(j)'
  BY DEF JobsInv, RowInv
<1>3. ASSUME NEW i \in Items PROVE WaitInv(i)'
  BY DEF JobsInv, WaitInv, Enriching, Classifying, Active
<1> QED BY <1>1, <1>2, <1>3 DEF JobsInv

LEMMA ReadItemKeeps == ASSUME JobsInv, InboxJobsAssumption, ReadItem PROVE JobsInv'
<1>1. PICK j : j = claim.job
  OBVIOUS
<1>2. claim.stage = "read" /\ UNCHANGED <<item, nextJob, nextToken, stopping, restarts, spent, commandVars>>
  BY DEF ReadItem
<1>3. CASE Live /\ item[job[j].item].status \in Over
  <2>1. job' = Ended(j, "done") /\ claim' = NoClaim
    BY <1>1, <1>3 DEF ReadItem
  <2>2. PICK z \in JobRow : /\ job' = [job EXCEPT ![j] = z]
                            /\ z.item = job[j].item /\ z.kind = job[j].kind /\ z.state = "done"
                            /\ z.token = 0 /\ z.attempts = job[j].attempts
    BY <1>1, <1>2, <1>3, <2>1, RowEnds
  <2>3. \A i \in Items : i = job[j].item => WaitInv(i)'
    BY <1>2, <1>3, <2>2 DEF WaitInv, Over
  <2>4. Closes(j, z)
    BY <1>1, <1>2, <1>3, <2>2, <2>3, LiveRow DEF Closes, JobsInv, JobsTyped, commandVars
  <2>5. ClaimMoves
    BY <1>2, <2>1, ClaimFree DEF ClaimMoves, JobsInv, JobsTyped
  <2> QED BY <1>1, <1>2, <1>3, <2>4, <2>5, LiveRow, RowCloses
<1>4. CASE ~Live
  <2>1. job' = job /\ claim' = NoClaim
    BY <1>4 DEF ReadItem
  <2> QED BY <1>2, <2>1, ClaimFree, Forgets
<1>5. CASE Live /\ item[job[j].item].status \notin Over
  <2>1. job' = job /\ claim' = [claim EXCEPT !.stage = "work"]
    BY <1>1, <1>5 DEF ReadItem
  <2>2. claim' \in ClaimRow /\ claim'.job \in 1..MaxJobs
    BY <1>2, <2>1 DEF ClaimRow, JobsInv, JobsTyped
  <2> QED BY <1>2, <2>1, <2>2, Forgets
<1> QED BY <1>3, <1>4, <1>5

LEMMA ReleaseKeeps == ASSUME JobsInv, InboxJobsAssumption, Release PROVE JobsInv'
<1>1. PICK j : j = claim.job
  OBVIOUS
<1>2. /\ claim.stage \in {"read", "work"} /\ claim' = NoClaim
      /\ UNCHANGED <<item, nextJob, nextToken, stopping, restarts, commandVars>>
  BY DEF Release
<1>3. CASE Live
  <2>1. job' = GiveBack(j) /\ spent' = [spent EXCEPT ![j] = @ - 1]
    BY <1>1, <1>3 DEF Release
  <2>2. /\ j \in 1..MaxJobs /\ job[j] \in JobRow /\ Active(j)
        /\ job[j].attempts = spent[j] /\ job[j].attempts > 0
    BY <1>1, <1>2, <1>3, LiveRow
  <2>3. PICK z : z = [job[j] EXCEPT !.state = "ready", !.token = 0, !.live = FALSE, !.attempts = @ - 1]
    OBVIOUS
  <2>4. job' = [job EXCEPT ![j] = z]
    BY <2>1, <2>2, <2>3 DEF GiveBack, JobsInv, JobsTyped
  <2>5. Written(z, job[j], "ready", 0, FALSE, job[j].due, job[j].attempts - 1)
    BY <2>2, <2>3, ReleaseWritten
  <2>6. /\ spent' \in [1..MaxJobs -> Nat] /\ spent'[j] = job[j].attempts - 1
        /\ \A k \in 1..MaxJobs : k # j => spent'[k] = spent[k]
    BY <2>1, <2>2 DEF JobsInv, JobsTyped
  <2>7. Moves(j, z)
    BY <1>2, <2>2, <2>4, <2>5, <2>6 DEF Moves, Written, commandVars
  <2>8. ClaimMoves
    BY <1>2, ClaimFree DEF ClaimMoves, JobsInv, JobsTyped
  <2> QED BY <2>2, <2>7, <2>8, RowStays
<1>4. CASE ~Live
  <2>1. job' = job /\ spent' = spent
    BY <1>4 DEF Release
  <2> QED BY <1>2, <2>1, ClaimFree, Forgets
<1> QED BY <1>3, <1>4

LEMMA ApplyClassificationKeeps == ASSUME JobsInv, InboxJobsAssumption, ApplyClassification PROVE JobsInv'
<1>1. PICK j : j = claim.job
  OBVIOUS
<1>2. /\ claim.stage = "work" /\ job[j].kind = "classify" /\ claim' = NoClaim
      /\ UNCHANGED <<nextJob, nextToken, stopping, restarts, spent, commandVars>>
  BY <1>1 DEF ApplyClassification
<1>3. CASE ~Live
  <2>1. job' = job /\ item' = item
    BY <1>3 DEF ApplyClassification
  <2> QED BY <1>2, <2>1, ClaimFree, Forgets
<1>4. CASE Live
  <2>1. PICK i : i = job[j].item
    OBVIOUS
  <2>2. /\ j \in 1..MaxJobs /\ job[j] \in JobRow /\ Active(j) /\ i \in Items /\ item[i] \in ItemRow
    BY <1>1, <1>2, <1>4, <2>1, LiveRow
  <2>3. job' = Ended(j, "done")
    BY <1>1, <1>4 DEF ApplyClassification
  <2>4. PICK z \in JobRow : /\ job' = [job EXCEPT ![j] = z]
                            /\ z.item = job[j].item /\ z.kind = job[j].kind /\ z.state = "done"
                            /\ z.token = 0 /\ z.attempts = job[j].attempts
    BY <1>1, <1>2, <1>4, <2>3, RowEnds
  <2>5. /\ item' \in [Items -> ItemRow] /\ \A r \in Items : r # i => item'[r] = item[r]
        /\ ~item'[i].ruled => item'[i].status \notin {"pending", "enriched"}
    <3>1. CASE item[i].status \in Over
      <4>1. item' = item
        BY <1>1, <1>4, <2>1, <3>1 DEF ApplyClassification
      <4> QED BY <3>1, <4>1 DEF JobsInv, JobsTyped, Over
    <3>2. CASE item[i].status \notin Over
      <4>1. PICK outcome \in RuleOutcomes("classified") : item' = [item EXCEPT ![i] = Ruled(i, outcome)]
        BY <1>1, <1>4, <2>1, <3>2 DEF ApplyClassification
      <4>2. PICK x : x = Ruled(i, outcome)
        OBVIOUS
      <4>3. "classified" \in ItemStatus
        BY DEF ItemStatus
      <4>4. x \in ItemRow /\ (~x.ruled => x.status = "classified")
        BY <2>2, <4>1, <4>2, <4>3, RuledWritten
      <4> QED BY <2>2, <4>1, <4>2, <4>4 DEF JobsInv, JobsTyped
    <3> QED BY <3>1, <3>2
  <2>6. WaitInv(i)'
    BY <2>5 DEF WaitInv
  <2>8. Closes(j, z)
    BY <1>2, <2>1, <2>2, <2>4, <2>5, <2>6 DEF Closes, commandVars
  <2>9. ClaimMoves
    BY <1>2, ClaimFree DEF ClaimMoves, JobsInv, JobsTyped
  <2> QED BY <2>2, <2>8, <2>9, RowCloses
<1> QED BY <1>3, <1>4

LEMMA FailJobKeeps ==
    ASSUME JobsInv, InboxJobsAssumption, NEW error \in PipelineErrors, FailJob(error) PROVE JobsInv'
<1>1. PICK j : j = claim.job
  OBVIOUS
<1>2. /\ claim.stage \in {"read", "work"} /\ claim' = NoClaim
      /\ UNCHANGED <<nextJob, nextToken, stopping, restarts, spent, commandVars>>
  BY DEF FailJob
<1>3. CASE ~Live
  <2>1. job' = job /\ item' = item
    BY <1>3 DEF FailJob
  <2> QED BY <1>2, <2>1, ClaimFree, Forgets
<1>4. CASE Live
  <2>1. PICK i, retry : i = job[j].item /\ retry = (Retryable(error) /\ job[j].attempts < MaxJobAttempts)
    OBVIOUS
  <2>2. /\ j \in 1..MaxJobs /\ job[j] \in JobRow /\ Active(j) /\ i \in Items /\ item[i] \in ItemRow
        /\ job[j].attempts = spent[j]
    BY <1>1, <1>2, <1>4, <2>1, LiveRow
  <2>3. job' = Failed(j, retry) /\ item' = ItemAfterFailure(j, retry)
    BY <1>1, <1>4, <2>1 DEF FailJob
  <2>4. ClaimMoves
    BY <1>2, ClaimFree DEF ClaimMoves, JobsInv, JobsTyped
  <2>5. CASE retry
    <3>1. PICK z : z = [job[j] EXCEPT !.state = "ready", !.token = 0, !.live = FALSE]
      OBVIOUS
    <3>2. job' = [job EXCEPT ![j] = z] /\ item' = item
      BY <2>2, <2>3, <2>5, <3>1 DEF Failed, ItemAfterFailure, JobsInv, JobsTyped
    <3>3. "ready" \in JobStates
      BY DEF JobStates
    <3>4. Written(z, job[j], "ready", 0, FALSE, job[j].due, job[j].attempts)
      BY <2>2, <3>1, <3>3, EndWritten
    <3>5. Moves(j, z)
      BY <1>2, <2>2, <3>2, <3>4 DEF Moves, Written, JobsInv, JobsTyped, commandVars
    <3> QED BY <2>2, <2>4, <3>5, RowStays
  <2>6. CASE ~retry
    <3>1. job' = Ended(j, "failed")
      BY <2>3, <2>6 DEF Failed
    <3>2. PICK z \in JobRow : /\ job' = [job EXCEPT ![j] = z]
                              /\ z.item = job[j].item /\ z.kind = job[j].kind /\ z.state = "failed"
                              /\ z.token = 0 /\ z.attempts = job[j].attempts
      BY <1>1, <1>2, <1>4, <3>1, RowEnds
    <3>3. CASE job[j].kind = "enrich" /\ item[i].status # "archived"
      <4>1. PICK x : x = [item[i] EXCEPT !.status = "failed"]
        OBVIOUS
      <4>2. item' = [item EXCEPT ![i] = x]
        BY <2>1, <2>2, <2>3, <2>6, <3>3, <4>1 DEF ItemAfterFailure, JobsInv, JobsTyped
      <4>3. "failed" \in ItemStatus
        BY DEF ItemStatus
      <4>4. x \in ItemRow /\ x.status = "failed"
        BY <2>2, <4>1, <4>3, StatusWritten
      <4>5. /\ item' \in [Items -> ItemRow] /\ \A r \in Items : r # i => item'[r] = item[r]
            /\ item'[i].status = "failed"
        BY <2>2, <4>2, <4>4 DEF JobsInv, JobsTyped
      <4>6. Closes(j, z)
        BY <1>2, <2>1, <2>2, <3>2, <4>5 DEF Closes, WaitInv, commandVars
      <4> QED BY <2>2, <2>4, <4>6, RowCloses
    <3>4. CASE ~(job[j].kind = "enrich" /\ item[i].status # "archived")
      <4>1. item' = item
        BY <2>1, <2>3, <3>4 DEF ItemAfterFailure
      <4>2. WaitInv(i)'
        <5>1. CASE item[i].status = "archived"
          BY <4>1, <5>1 DEF WaitInv
        <5>2. CASE job[j].kind # "enrich"
          <6>1. (Enriching(i) => Enriching(i)') /\ (Classifying(i) => Classifying(i)')
            BY <2>2, <3>2, <5>2, WorkKept
          <6> QED BY <2>2, <4>1, <6>1 DEF WaitInv, JobsInv
        <5> QED BY <3>4, <5>1, <5>2
      <4>3. Closes(j, z)
        BY <1>2, <2>1, <2>2, <3>2, <4>1, <4>2 DEF Closes, JobsInv, JobsTyped, commandVars
      <4> QED BY <2>2, <2>4, <4>3, RowCloses
    <3> QED BY <3>3, <3>4
  <2> QED BY <2>5, <2>6
<1> QED BY <1>3, <1>4

Held(i, kind) == \E j \in 1..MaxJobs : Active(j) /\ job[j].item = i /\ job[j].kind = kind

\* What enqueueing adds to the table.
LEMMA EnqueuedRow ==
    ASSUME JobsInv, InboxJobsAssumption, NEW i \in Items, NEW kind \in Kinds, nextJob <= MaxJobs, NEW q, q = Enqueued(job, nextJob, i, kind)
    PROVE  /\ nextJob \in 1..MaxJobs /\ nextJob + 1 \in 1..(MaxJobs + 1)
           /\ Held(i, kind) => q = job
           /\ ~Held(i, kind) =>
                  \E z \in JobRow : /\ q = [job EXCEPT ![nextJob] = z] /\ z.item = i /\ z.kind = kind
                                    /\ z.state = "ready" /\ z.token = 0 /\ z.attempts = 0
<1>1. nextJob \in 1..MaxJobs /\ nextJob + 1 \in 1..(MaxJobs + 1)
  BY DEF JobsInv, JobsTyped, InboxJobsAssumption
<1>2. CASE Held(i, kind)
  BY <1>1, <1>2 DEF Held, Enqueued, Active
<1>3. CASE ~Held(i, kind)
  <2>1. PICK z : z = [NoJob EXCEPT !.item = i, !.kind = kind, !.state = "ready", !.due = TRUE]
    OBVIOUS
  <2>2. "ready" \in JobStates
    BY DEF JobStates
  <2>3. z \in JobRow /\ z.item = i /\ z.kind = kind /\ z.state = "ready" /\ z.token = 0 /\ z.attempts = 0
    BY <2>1, <2>2 DEF NoJob, JobRow, Kinds
  <2>4. q = [job EXCEPT ![nextJob] = z]
    BY <1>3, <2>1 DEF Held, Enqueued, Active
  <2> QED BY <1>1, <1>3, <2>3, <2>4
<1> QED BY <1>1, <1>2, <1>3

\* What it leaves.
LEMMA Enqueues ==
    ASSUME JobsInv, InboxJobsAssumption, NEW i \in Items, NEW kind \in Kinds, nextJob <= MaxJobs,
           job' = Enqueued(job, nextJob, i, kind), nextJob' = nextJob + 1, spent' = spent
    PROVE  /\ job' \in [1..MaxJobs -> JobRow] /\ nextJob' \in 1..(MaxJobs + 1) /\ OneActive'
           /\ \A k \in 1..MaxJobs : RowInv(k)'
           /\ kind = "enrich" => Enriching(i)'
           /\ \A r \in Items : (Enriching(r) => Enriching(r)') /\ (Classifying(r) => Classifying(r)')
<1>1. /\ nextJob \in 1..MaxJobs /\ nextJob + 1 \in 1..(MaxJobs + 1)
      /\ Held(i, kind) => job' = job
      /\ ~Held(i, kind) =>
             \E z \in JobRow : /\ job' = [job EXCEPT ![nextJob] = z] /\ z.item = i /\ z.kind = kind
                               /\ z.state = "ready" /\ z.token = 0 /\ z.attempts = 0
  BY EnqueuedRow
<1>2. CASE Held(i, kind)
  <2>1. job' = job
    BY <1>1, <1>2
  <2>2. \A k \in 1..MaxJobs : RowInv(k)'
    BY <1>1, <2>1 DEF JobsInv, JobsTyped, RowInv
  <2> QED BY <1>1, <1>2, <2>1, <2>2 DEF JobsInv, JobsTyped, OneActive, Active, Held, Enriching, Classifying
<1>3. CASE ~Held(i, kind)
  <2>1. PICK z \in JobRow : /\ job' = [job EXCEPT ![nextJob] = z] /\ z.item = i /\ z.kind = kind
                            /\ z.state = "ready" /\ z.token = 0 /\ z.attempts = 0
    BY <1>1, <1>3
  <2>2. /\ job' \in [1..MaxJobs -> JobRow] /\ job'[nextJob] = z
        /\ \A k \in 1..MaxJobs : k # nextJob => job'[k] = job[k]
    BY <1>1, <2>1 DEF JobsInv, JobsTyped
  <2>3. job[nextJob].state = "absent" /\ spent[nextJob] = 0
    BY <1>1 DEF JobsInv, JobsTyped, RowInv
  <2>4. OneActive'
    BY <1>1, <1>3, <2>1, <2>2 DEF JobsInv, OneActive, Active, Held
  <2>5. ASSUME NEW k \in 1..MaxJobs PROVE RowInv(k)'
    <3>1. RowInv(k)
      BY DEF JobsInv
    <3> QED BY <1>1, <2>1, <2>2, <2>3, <3>1 DEF RowInv
  <2>6. /\ kind = "enrich" => Enriching(i)'
        /\ \A r \in Items : (Enriching(r) => Enriching(r)') /\ (Classifying(r) => Classifying(r)')
    BY <1>1, <2>1, <2>2, <2>3 DEF Enriching, Classifying, Active
  <2> QED BY <1>1, <2>2, <2>4, <2>5, <2>6
<1> QED BY <1>2, <1>3

\* A new item with its job, for a user at the web or for a command.
LEMMA IngestedKeeps ==
    ASSUME JobsInv, InboxJobsAssumption, NEW i \in Items, NEW source \in Messages \cup {"web"}, Ingested(i, source),
           UNCHANGED <<nextToken, claim, spent>>, CommandsTyped'
    PROVE  JobsInv'
<1>1. item[i].status = "absent" /\ nextJob <= MaxJobs /\ job' = Enqueued(job, nextJob, i, "enrich") /\ nextJob' = nextJob + 1
  BY DEF Ingested
<1>2. PICK outcome \in RuleOutcomes("pending") :
          item' = [item EXCEPT ![i] = [Ruled(i, outcome) EXCEPT !.id = nextJob, !.source = source]]
  BY DEF Ingested
<1>3. "enrich" \in Kinds /\ "pending" \in ItemStatus /\ item[i] \in ItemRow /\ nextJob \in Nat
  BY DEF Kinds, ItemStatus, JobsInv, JobsTyped
<1>4. PICK x : x = Ruled(i, outcome)
  OBVIOUS
<1>5. x \in ItemRow /\ (~x.ruled => x.status = "pending")
  BY <1>3, <1>4, RuledWritten
<1>6. PICK y : y = [x EXCEPT !.id = nextJob, !.source = source]
  OBVIOUS
<1>7. y \in ItemRow /\ y.status = x.status /\ y.ruled = x.ruled
  BY <1>3, <1>5, <1>6 DEF ItemRow
<1>8. item' = [item EXCEPT ![i] = y]
  BY <1>2, <1>4, <1>6
<1>9. /\ job' \in [1..MaxJobs -> JobRow] /\ nextJob' \in 1..(MaxJobs + 1) /\ OneActive'
      /\ \A k \in 1..MaxJobs : RowInv(k)'
      /\ Enriching(i)'
      /\ \A r \in Items : (Enriching(r) => Enriching(r)') /\ (Classifying(r) => Classifying(r)')
  BY <1>1, <1>3, Enqueues
<1>10. item' \in [Items -> ItemRow] /\ item'[i] = y /\ \A r \in Items : r # i => item'[r] = item[r]
  BY <1>7, <1>8 DEF JobsInv, JobsTyped
<1>11. JobsTyped'
  BY <1>9, <1>10 DEF JobsInv, JobsTyped
<1>12. ASSUME NEW r \in Items PROVE WaitInv(r)'
  BY <1>5, <1>7, <1>9, <1>10 DEF JobsInv, WaitInv
<1> QED BY <1>9, <1>11, <1>12 DEF JobsInv

LEMMA IngestKeeps == ASSUME JobsInv, InboxJobsAssumption, NEW i \in Items, Ingest(i) PROVE JobsInv'
<1>1. Ingested(i, "web") /\ UNCHANGED <<nextToken, claim, spent>>
  BY DEF Ingest
<1>2. CommandsTyped'
  BY DEF Ingest, JobsInv, CommandsTyped, commandVars
<1> QED BY <1>1, <1>2, IngestedKeeps

LEMMA ReclassifyKeeps == ASSUME JobsInv, InboxJobsAssumption, NEW i \in Items, Reclassify(i) PROVE JobsInv'
<1>1. "classify" \in Kinds
  BY DEF Kinds
<1>2. /\ nextJob <= MaxJobs /\ job' = Enqueued(job, nextJob, i, "classify") /\ nextJob' = nextJob + 1
      /\ UNCHANGED <<item, nextToken, claim, stopping, restarts, spent, commandVars>>
  BY DEF Reclassify
<1>3. /\ job' \in [1..MaxJobs -> JobRow] /\ nextJob' \in 1..(MaxJobs + 1) /\ OneActive'
      /\ \A k \in 1..MaxJobs : RowInv(k)'
      /\ \A r \in Items : (Enriching(r) => Enriching(r)') /\ (Classifying(r) => Classifying(r)')
  BY <1>1, <1>2, Enqueues
<1>4. JobsTyped' /\ CommandsTyped'
  BY <1>2, <1>3 DEF JobsInv, JobsTyped, CommandsTyped, commandVars
<1>5. ASSUME NEW r \in Items PROVE WaitInv(r)'
  BY <1>2, <1>3 DEF JobsInv, WaitInv
<1> QED BY <1>2, <1>3, <1>4, <1>5 DEF JobsInv

LEMMA ApplyContentKeeps == ASSUME JobsInv, InboxJobsAssumption, ApplyContent PROVE JobsInv'
<1>1. PICK j : j = claim.job
  OBVIOUS
<1>2. /\ claim.stage = "work" /\ job[j].kind = "enrich" /\ claim' = NoClaim
      /\ UNCHANGED <<nextToken, stopping, restarts, spent, commandVars>>
  BY <1>1 DEF ApplyContent
<1>3. CASE ~Live
  <2>1. job' = job /\ item' = item /\ nextJob' = nextJob
    BY <1>3 DEF ApplyContent
  <2> QED BY <1>2, <2>1, ClaimFree, Forgets
<1>4. CASE Live
  <2>1. PICK i : i = job[j].item
    OBVIOUS
  <2>2. /\ j \in 1..MaxJobs /\ job[j] \in JobRow /\ job[j].state = "running" /\ Active(j) /\ i \in Items /\ item[i] \in ItemRow
        /\ job[j].attempts = spent[j]
    BY <1>1, <1>2, <1>4, <2>1, LiveRow
  <2>3. ClaimMoves
    BY <1>2, ClaimFree DEF ClaimMoves, JobsInv, JobsTyped
  <2>4. CASE item[i].status \in Over
    <3>1. job' = Ended(j, "done") /\ item' = item /\ nextJob' = nextJob
      BY <1>1, <1>4, <2>1, <2>4 DEF ApplyContent
    <3>2. PICK z \in JobRow : /\ job' = [job EXCEPT ![j] = z]
                              /\ z.item = job[j].item /\ z.kind = job[j].kind /\ z.state = "done"
                              /\ z.token = 0 /\ z.attempts = job[j].attempts
      BY <1>1, <1>2, <1>4, <3>1, RowEnds
    <3>3. WaitInv(i)'
      BY <2>4, <3>1 DEF WaitInv, Over
    <3>4. Closes(j, z)
      BY <1>2, <2>1, <2>2, <3>1, <3>2, <3>3 DEF Closes, JobsInv, JobsTyped, commandVars
    <3> QED BY <2>2, <2>3, <3>4, RowCloses
  <2>5. CASE item[i].status \notin Over
    <3>0. PICK status \in ContentStatus : \E queued :
              /\ queued = IF status = "failed" THEN job ELSE Enqueued(job, nextJob, i, "classify")
              /\ item' = [item EXCEPT ![i].status = status]
              /\ job' = [queued EXCEPT ![j] = Ended(j, "done")[j]]
              /\ nextJob' = NextId(queued)
              /\ nextJob <= MaxJobs
      BY <1>1, <1>4, <2>1, <2>5 DEF ApplyContent
    <3>1. PICK queued :
              /\ queued = IF status = "failed" THEN job ELSE Enqueued(job, nextJob, i, "classify")
              /\ item' = [item EXCEPT ![i].status = status]
              /\ job' = [queued EXCEPT ![j] = Ended(j, "done")[j]]
              /\ nextJob' = NextId(queued)
              /\ nextJob <= MaxJobs
      BY <3>0
    <3>2. PICK z : z = [job[j] EXCEPT !.state = "done", !.token = 0, !.live = FALSE]
      OBVIOUS
    <3>3. /\ z \in JobRow /\ z.item = i /\ z.kind = "enrich" /\ z.state = "done"
          /\ z.token = 0 /\ z.attempts = job[j].attempts
      <4>1. "done" \in JobStates
        BY DEF JobStates
      <4>2. Written(z, job[j], "done", 0, FALSE, job[j].due, job[j].attempts)
        BY <2>2, <3>2, <4>1, EndWritten
      <4> QED BY <1>2, <2>1, <4>2 DEF Written
    <3>4. job' = [queued EXCEPT ![j] = z]
      <4>1. Ended(j, "done")[j] = z
        BY <2>2, <3>2 DEF Ended, JobsInv, JobsTyped
      <4> QED BY <3>1, <4>1
    <3>5. /\ item' \in [Items -> ItemRow] /\ \A r \in Items : r # i => item'[r] = item[r]
          /\ item'[i].status = status
      <4>1. PICK x : x = [item[i] EXCEPT !.status = status]
        OBVIOUS
      <4>2. status \in ItemStatus
        BY DEF ContentStatus, ItemStatus
      <4>3. x \in ItemRow /\ x.status = status
        BY <2>2, <4>1, <4>2, StatusWritten
      <4>4. item' = [item EXCEPT ![i] = x]
        BY <3>1, <4>1
      <4> QED BY <2>2, <4>3, <4>4 DEF JobsInv, JobsTyped
    <3>6. CASE queued = job
      <4>1. job' = [job EXCEPT ![j] = z] /\ nextJob' = nextJob
        BY <3>1, <3>4, <3>6 DEF NextId
      <4>2. status = "enriched" => Classifying(i)
        <5>1. ASSUME status = "enriched" PROVE Held(i, "classify")
          <6>1. queued = Enqueued(job, nextJob, i, "classify") /\ "classify" \in Kinds
            BY <3>1, <5>1 DEF Kinds
          <6>2. SUFFICES ASSUME ~Held(i, "classify") PROVE FALSE
            OBVIOUS
          <6>3. PICK y \in JobRow : queued = [job EXCEPT ![nextJob] = y] /\ y.state = "ready"
            BY <2>2, <3>1, <6>1, <6>2, EnqueuedRow
          <6>4. nextJob \in 1..MaxJobs
            BY <2>2, <3>1, <6>1, EnqueuedRow
          <6>5. job[nextJob].state = "absent"
            BY <6>4 DEF JobsInv, JobsTyped, RowInv
          <6> QED BY <3>6, <6>3, <6>4, <6>5 DEF JobsInv, JobsTyped
        <5> QED BY <5>1 DEF Held, Classifying
      <4>3. Classifying(i) => Classifying(i)'
        BY <1>2, <2>2, <3>3, <4>1, <2>1, WorkKept
      <4>4. WaitInv(i)'
        BY <3>5, <4>2, <4>3 DEF WaitInv, ContentStatus
      <4>5. Closes(j, z)
        BY <1>2, <2>1, <2>2, <3>3, <3>5, <4>1, <4>4 DEF Closes, commandVars
      <4> QED BY <2>2, <2>3, <4>5, RowCloses
    <3>7. CASE queued # job
      <4>1. status = "enriched" /\ queued = Enqueued(job, nextJob, i, "classify") /\ "classify" \in Kinds
        BY <3>1, <3>7 DEF ContentStatus, Kinds
      <4>2. /\ nextJob \in 1..MaxJobs /\ nextJob + 1 \in 1..(MaxJobs + 1) /\ ~Held(i, "classify")
        BY <2>2, <3>1, <3>7, <4>1, EnqueuedRow
      <4>3. PICK y \in JobRow : /\ queued = [job EXCEPT ![nextJob] = y] /\ y.item = i /\ y.kind = "classify"
                                /\ y.state = "ready" /\ y.token = 0 /\ y.attempts = 0
        BY <2>2, <3>1, <4>1, <4>2, EnqueuedRow
      <4>4. nextJob' = nextJob + 1
        BY <3>1, <3>7 DEF NextId
      <4>5. job[nextJob].state = "absent" /\ spent[nextJob] = 0 /\ nextJob # j
        BY <2>2, <4>2 DEF JobsInv, JobsTyped, RowInv
      <4>6. /\ job' \in [1..MaxJobs -> JobRow] /\ job'[nextJob] = y /\ job'[j] = z
            /\ \A k \in 1..MaxJobs : k \notin {j, nextJob} => job'[k] = job[k]
        BY <2>2, <3>3, <3>4, <4>2, <4>3, <4>5 DEF JobsInv, JobsTyped
      <4>7. OneActive'
        BY <2>2, <3>3, <4>2, <4>3, <4>5, <4>6 DEF JobsInv, OneActive, Active, Held
      <4>8. ASSUME NEW k \in 1..MaxJobs PROVE RowInv(k)'
        <5>1. RowInv(k) /\ nextJob \in Nat
          BY <4>2 DEF JobsInv
        <5>2. spent' = spent
          BY <1>2
        <5> QED BY <2>2, <3>3, <4>2, <4>3, <4>4, <4>5, <4>6, <5>1, <5>2 DEF RowInv
      <4>9. ASSUME NEW r \in Items PROVE WaitInv(r)'
        <5>1. CASE r = i
          <6>1. Classifying(i)'
            BY <4>2, <4>3, <4>6 DEF Classifying, Active
          <6> QED BY <3>5, <4>1, <5>1, <6>1 DEF WaitInv
        <5>2. CASE r # i
          <6>1. (Enriching(r) => Enriching(r)') /\ (Classifying(r) => Classifying(r)')
            BY <2>1, <4>5, <4>6, <5>2 DEF Enriching, Classifying, Active
          <6> QED BY <3>5, <5>2, <6>1 DEF JobsInv, WaitInv
        <5> QED BY <5>1, <5>2
      <4>10. JobsTyped' /\ CommandsTyped'
        BY <1>2, <2>3, <3>5, <4>2, <4>4, <4>6 DEF JobsInv, JobsTyped, CommandsTyped, ClaimMoves, commandVars
      <4> QED BY <2>3, <4>7, <4>8, <4>9, <4>10 DEF JobsInv, ClaimMoves
    <3> QED BY <3>6, <3>7
  <2> QED BY <2>4, <2>5
<1> QED BY <1>3, <1>4

LEMMA RowsOfCommands ==
    /\ NoHandling \in HandlingRow /\ Handled \in HandlingRow /\ NoEffect \in EffectRow
    /\ NoHandling.pc = "idle" /\ Handled.pc = "done"
  BY DEF NoHandling, Handled, HandlingRow, NoEffect, EffectRow, Dispositions

\* A command moves from one step to the next.
LEMMA HandlingWritten ==
    ASSUME NEW q \in HandlingRow, NEW step \in {"idle", "new", "dispatch", "sending", "done"}, NEW m \in Messages,
           NEW answer \in EffectRow, NEW z, z = [pc |-> step, message |-> m, answer |-> answer]
    PROVE  z \in HandlingRow /\ z.pc = step /\ z.message = m /\ z.answer = answer
  BY DEF HandlingRow

\* A step of a command that touches neither items nor jobs.
LEMMA CommandOnly == ASSUME JobsInv, UNCHANGED <<item, jobTable>>, CommandsTyped' PROVE JobsInv'
<1>1. JobsTyped' /\ OneActive' /\ (claim'.stage # "none" => claim'.job \in 1..MaxJobs)
  BY DEF JobsInv, JobsTyped, OneActive, Active, jobTable
<1>2. ASSUME NEW j \in 1..MaxJobs PROVE RowInv(j)'
  BY DEF JobsInv, RowInv, jobTable
<1>3. ASSUME NEW i \in Items PROVE WaitInv(i)'
  BY DEF JobsInv, WaitInv, Enriching, Classifying, Active, jobTable
<1> QED BY <1>1, <1>2, <1>3 DEF JobsInv

LEMMA ReceiveKeeps == ASSUME JobsInv, NEW d \in Deliveries, NEW m \in Messages, Receive(d, m) PROVE JobsInv'
<1>1. UNCHANGED <<item, jobTable>> /\ effect' = effect
  BY DEF Receive
<1>2. CASE Ends(d)
  BY <1>1, <1>2, RowsOfCommands, CommandOnly DEF Ends, JobsInv, CommandsTyped
<1>3. CASE ~Ends(d)
  <2>1. PICK step, z : /\ step = IF effect[m].state = "absent" THEN "new" ELSE "dispatch"
                       /\ z = [pc |-> step, message |-> m, answer |-> effect[m]]
                       /\ handling' = [handling EXCEPT ![d] = z]
    BY <1>3 DEF Receive
  <2>2. z \in HandlingRow /\ z.message \in Messages
    BY <2>1, HandlingWritten, RowsOfCommands DEF JobsInv, CommandsTyped
  <2>3. CommandsTyped'
    BY <1>1, <2>1, <2>2 DEF JobsInv, CommandsTyped
  <2> QED BY <1>1, <2>3, CommandOnly
<1> QED BY <1>2, <1>3

LEMMA RenderListKeeps == ASSUME JobsInv, NEW d \in Deliveries, RenderList(d) PROVE JobsInv'
<1>1. UNCHANGED <<item, jobTable>> /\ effect' = effect /\ handling[d].pc = "new"
  BY DEF RenderList, At
<1>2. PICK q, a : q = handling[d] /\ a = [q.answer EXCEPT !.text = nextJob]
  OBVIOUS
<1>3. q \in HandlingRow /\ nextJob \in Nat /\ q.message \in Messages
  BY <1>1, <1>2 DEF JobsInv, JobsTyped, CommandsTyped
<1>4. a \in EffectRow
  BY <1>2, <1>3 DEF HandlingRow, EffectRow
<1>5. PICK z : z = [q EXCEPT !.pc = "dispatch", !.answer = a]
  OBVIOUS
<1>6. handling' = [handling EXCEPT ![d] = z]
  BY <1>2, <1>3, <1>5 DEF RenderList, JobsInv, CommandsTyped, HandlingRow
<1>7. z \in HandlingRow /\ z.message = q.message
  BY <1>3, <1>4, <1>5 DEF HandlingRow
<1>8. CommandsTyped'
  BY <1>1, <1>3, <1>6, <1>7 DEF JobsInv, CommandsTyped
<1> QED BY <1>1, <1>8, CommandOnly

LEMMA DispositionWritten ==
    ASSUME NEW a \in EffectRow, NEW s \in Dispositions, NEW z, z = [a EXCEPT !.state = s]
    PROVE  /\ z \in EffectRow /\ z.state = s /\ z.item = a.item /\ z.created = a.created
           /\ z.text = a.text /\ z.bound = a.bound
  BY DEF EffectRow

LEMMA BeginAnswerKeeps == ASSUME JobsInv, NEW d \in Deliveries, BeginAnswer(d) PROVE JobsInv'
<1>1. UNCHANGED <<item, jobTable>> /\ handling[d].pc = "dispatch"
  BY DEF BeginAnswer, At
<1>2. PICK m, a : m = handling[d].message /\ a = handling[d].answer
  OBVIOUS
<1>3. m \in Messages /\ a \in EffectRow
  BY <1>1, <1>2 DEF JobsInv, CommandsTyped, HandlingRow
<1>4. CASE Ends(d) /\ effect' = effect
  BY <1>1, <1>4, RowsOfCommands, CommandOnly DEF Ends, JobsInv, CommandsTyped
<1>5. CASE ~(Ends(d) /\ effect' = effect)
  <2>1. PICK e, z : /\ e = [a EXCEPT !.state = "sending"] /\ z = [NoHandling EXCEPT !.pc = "sending", !.message = m]
                    /\ effect' = [effect EXCEPT ![m] = e] /\ handling' = [handling EXCEPT ![d] = z]
    BY <1>2, <1>5 DEF BeginAnswer
  <2>2. e \in EffectRow
    <3>1. "sending" \in Dispositions
      BY DEF Dispositions
    <3> QED BY <1>3, <2>1, <3>1, DispositionWritten
  <2>3. z \in HandlingRow /\ z.message = m
    BY <1>3, <2>1, RowsOfCommands DEF NoHandling, HandlingRow
  <2>4. CommandsTyped'
    BY <1>3, <2>1, <2>2, <2>3 DEF JobsInv, CommandsTyped
  <2> QED BY <1>1, <2>4, CommandOnly
<1> QED BY <1>4, <1>5

LEMMA SendAnswerKeeps == ASSUME JobsInv, NEW d \in Deliveries, SendAnswer(d) PROVE JobsInv'
<1>1. /\ UNCHANGED <<item, jobTable>> /\ handling[d].pc = "sending" /\ handling' = [handling EXCEPT ![d] = Handled]
  BY DEF SendAnswer, At, Ends
<1>2. PICK m : m = handling[d].message
  OBVIOUS
<1>3. m \in Messages /\ effect[m] \in EffectRow
  BY <1>1, <1>2 DEF JobsInv, CommandsTyped
<1>4. PICK e : e = [effect[m] EXCEPT !.state = "confirmed"]
  OBVIOUS
<1>5. effect' \in {effect, [effect EXCEPT ![m] = e]}
  BY <1>2, <1>4 DEF SendAnswer
<1>6. e \in EffectRow
  <2>1. "confirmed" \in Dispositions
    BY DEF Dispositions
  <2> QED BY <1>3, <1>4, <2>1, DispositionWritten
<1>7. CommandsTyped'
  BY <1>1, <1>3, <1>5, <1>6, RowsOfCommands DEF JobsInv, CommandsTyped
<1> QED BY <1>1, <1>7, CommandOnly

LEMMA EndHandlingKeeps == ASSUME JobsInv, NEW d \in Deliveries, EndHandling(d) PROVE JobsInv'
  BY RowsOfCommands, CommandOnly DEF EndHandling, Ends, JobsInv, CommandsTyped

LEMMA PrepareSaveKeeps == ASSUME JobsInv, InboxJobsAssumption, NEW d \in Deliveries, PrepareSave(d) PROVE JobsInv'
<1>1. /\ handling[d].pc = "new" /\ UNCHANGED <<nextToken, claim, stopping, restarts, spent, posts>>
  BY DEF PrepareSave, At
<1>2. PICK m, i : m = handling[d].message /\ i = LinkOf[m]
  OBVIOUS
<1>3. m \in Messages /\ handling[d] \in HandlingRow
  BY <1>1, <1>2 DEF JobsInv, CommandsTyped
<1>4. i \in Items
  BY <1>2, <1>3 DEF PrepareSave, InboxJobsAssumption
<1>5. effect' \in [Messages -> EffectRow]
  <2>1. ASSUME NEW created \in BOOLEAN, NEW id \in Nat PROVE SaveResult(created, id) \in EffectRow
    <3>1. "prepared" \in Dispositions
      BY DEF Dispositions
    <3> QED BY <3>1, RowsOfCommands DEF SaveResult, EffectRow
  <2>2. nextJob \in Nat /\ item[i].id \in Nat
    BY <1>4 DEF JobsInv, JobsTyped, ItemRow
  <2> QED BY <1>2, <1>3, <2>1, <2>2 DEF PrepareSave, JobsInv, CommandsTyped
<1>6. CommandsTyped'
  <2>1. PICK a : a = effect'[m]
    OBVIOUS
  <2>2. PICK z : z = [handling[d] EXCEPT !.pc = "dispatch", !.answer = a]
    OBVIOUS
  <2>3. handling' = [handling EXCEPT ![d] = z]
    BY <1>2, <2>1, <2>2 DEF PrepareSave, JobsInv, CommandsTyped
  <2>4. a \in EffectRow
    BY <1>3, <1>5, <2>1
  <2>5. z \in HandlingRow /\ z.message = m
    BY <1>2, <1>3, <2>2, <2>4 DEF HandlingRow
  <2> QED BY <1>3, <1>5, <2>3, <2>5 DEF JobsInv, CommandsTyped
<1>7. CASE Ingested(i, m)
  BY <1>1, <1>3, <1>4, <1>6, <1>7, IngestedKeeps
<1>8. CASE ~Ingested(i, m)
  <2>1. UNCHANGED <<item, jobTable>>
    BY <1>1, <1>2, <1>8 DEF PrepareSave, jobTable
  <2> QED BY <1>6, <2>1, CommandOnly
<1> QED BY <1>7, <1>8

LEMMA BindReceiptKeeps == ASSUME JobsInv, NEW m \in Messages, BindReceipt(m) PROVE JobsInv'
<1>1. PICK e : e = [effect[m] EXCEPT !.bound = TRUE]
  OBVIOUS
<1>2. /\ effect' = [effect EXCEPT ![m] = e] /\ handling' = handling /\ UNCHANGED jobTable
  BY <1>1 DEF BindReceipt
<1>3. e \in EffectRow
  BY <1>1 DEF EffectRow, JobsInv, CommandsTyped
<1>4. CommandsTyped'
  BY <1>2, <1>3 DEF JobsInv, CommandsTyped
<1>5. item' \in [Items -> ItemRow] /\ \A i \in Items : item'[i].status = item[i].status /\ item'[i].ruled = item[i].ruled
  <2>1. CASE item' = item
    BY <2>1 DEF JobsInv, JobsTyped
  <2>2. CASE item' # item
    <3>1. PICK i, x : /\ i = LinkOf[m] /\ x = [item[i] EXCEPT !.reply = m]
                      /\ item' = [item EXCEPT ![i] = x]
      BY <2>2 DEF BindReceipt
    <3>2. ASSUME i \in Items PROVE x \in ItemRow /\ x.status = item[i].status /\ x.ruled = item[i].ruled
      BY <3>1, <3>2 DEF JobsInv, JobsTyped, ItemRow
    <3> QED BY <3>1, <3>2 DEF JobsInv, JobsTyped
  <2> QED BY <2>1, <2>2
<1>6. JobsTyped' /\ OneActive' /\ (claim'.stage # "none" => claim'.job \in 1..MaxJobs)
  BY <1>2, <1>5 DEF JobsInv, JobsTyped, OneActive, Active, jobTable
<1>7. ASSUME NEW j \in 1..MaxJobs PROVE RowInv(j)'
  BY <1>2 DEF JobsInv, RowInv, jobTable
<1>8. ASSUME NEW i \in Items PROVE WaitInv(i)'
  BY <1>2, <1>5 DEF JobsInv, WaitInv, Enriching, Classifying, Active, jobTable
<1> QED BY <1>4, <1>6, <1>7, <1>8 DEF JobsInv

LEMMA JobsStep == InboxJobsAssumption /\ JobsInv /\ [JobsNext]_jobVars => JobsInv'
<1> SUFFICES ASSUME InboxJobsAssumption, JobsInv, [JobsNext]_jobVars PROVE JobsInv'
    OBVIOUS
<1>1. ASSUME Runtime PROVE JobsInv'
  BY <1>1, ClaimJobKeeps, ReadItemKeeps, ApplyContentKeeps, ApplyClassificationKeeps, ReleaseKeeps, FailJobKeeps
     DEF Runtime
<1>2. ASSUME Command PROVE JobsInv'
  BY <1>2, ReceiveKeeps, PrepareSaveKeeps, RenderListKeeps, BeginAnswerKeeps, SendAnswerKeeps, EndHandlingKeeps,
     BindReceiptKeeps DEF Command
<1> QED BY <1>1, <1>2, IngestKeeps, ArchiveKeeps, DeleteItemKeeps, ReclassifyKeeps, SweepRuleKeeps, BackoffEndsKeeps,
           LeaseLapsesKeeps, LoopKeeps, CrashKeeps DEF JobsNext

LEMMA JobsHold == JobsInv => NobodyWaitsForNothing /\ AttemptsAreReal
<1> SUFFICES ASSUME JobsInv PROVE NobodyWaitsForNothing /\ AttemptsAreReal
    OBVIOUS
<1>1. JobsTypeOK
  BY DEF JobsInv, JobsTyped, JobsTypeOK, ItemRow, JobRow, JobStates, RowInv
<1>2. NobodyWaitsForNothing
  BY <1>1 DEF JobsInv, NobodyWaitsForNothing, WaitInv, Enriching, Classifying
<1>3. AttemptsAreReal
  BY DEF JobsInv, AttemptsAreReal, OneActive, RowInv
<1> QED BY <1>2, <1>3

\* No item waits for a job that does not exist, unless a rule of the user set it aside,
\* and attempts are the claims that were not given back, whatever lapses, restarts,
\* deletions and reclassifications come between (yoink-inbox store.rs).
THEOREM NobodyWaits ==
    ASSUME InboxJobsAssumption
    PROVE  JobsInit /\ [][JobsNext]_jobVars => [](NobodyWaitsForNothing /\ AttemptsAreReal)
<1> QED BY JobsStart, JobsStep, JobsHold, PTL

\* Nothing was sent yet.
Open(m) == effect[m].state \in {"absent", "prepared"}

\* One attempt per command: whoever sends is alone, and nobody sends twice.
PostInv ==
    /\ posts \in [Messages -> {0, 1}]
    /\ \A m \in Messages : /\ posts[m] = 1 => effect[m].state \in {"sending", "confirmed"}
                           /\ effect[m].state = "confirmed" => posts[m] = 1
                           /\ effect[m].bound => effect[m].state = "confirmed"
                           /\ effect[m].state = "absent" => ~effect[m].created
                           /\ effect[m].created => 0 < effect[m].item /\ effect[m].item < nextJob
    /\ \A d \in Deliveries : LET m == handling[d].message  answer == handling[d].answer IN
           /\ At(d, "sending") => effect[m].state = "sending" /\ posts[m] = 0
           /\ At(d, "new") => ~answer.created /\ ~answer.bound
           /\ At(d, "dispatch") => /\ Open(m) => ~answer.bound
                                   /\ effect[m].state = "absent" => ~answer.created
    /\ \A d, e \in Deliveries : At(d, "sending") /\ At(e, "sending") /\ handling[d].message = handling[e].message => d = e

\* Who saved an item is who says so; ids are not used again.
SourceInv(i) ==
    /\ item[i].id < nextJob
    /\ item[i].status = "absent" => item[i].reply = "none" /\ item[i].source = "web"
    /\ item[i].source # "web" => effect[item[i].source].created /\ effect[item[i].source].item = item[i].id
    /\ item[i].reply # "none" => item[i].reply = item[i].source /\ effect[item[i].reply].state = "confirmed"
    /\ \A m \in Messages : LinkOf[m] = i /\ effect[m].created /\ effect[m].item = item[i].id => item[i].source = m

TellInv == JobsInv /\ PostInv /\ \A i \in Items : SourceInv(i)

LEMMA TellHolds == InboxJobsAssumption /\ TellInv => SavesAreTold
<1> SUFFICES ASSUME InboxJobsAssumption, TellInv PROVE SavesAreTold
    OBVIOUS
<1>1. ASSUME NEW m \in Messages PROVE posts[m] <= 1 /\ (effect[m].bound => posts[m] = 1)
  BY DEF TellInv, PostInv
<1>2. ASSUME NEW i \in Items PROVE SourceInv(i)
  BY DEF TellInv
<1> QED BY <1>1, <1>2 DEF SavesAreTold, SourceInv

LEMMA TellStarts == InboxJobsAssumption /\ JobsInit => TellInv
<1> SUFFICES ASSUME InboxJobsAssumption, JobsInit PROVE TellInv
    OBVIOUS
<1>1. PostInv
  BY DEF JobsInit, PostInv, At, NoHandling, NoEffect
<1>2. ASSUME NEW i \in Items PROVE SourceInv(i)
  BY DEF JobsInit, SourceInv, NoItem, NoEffect
<1> QED BY <1>1, <1>2, JobsStart DEF TellInv

\* A step that leaves the commands alone keeps what it knows of every item, or
\* deletes it, and reuses no id.
Labelled(i) ==
    \/ /\ item'[i].id = item[i].id /\ item'[i].source = item[i].source /\ item'[i].reply = item[i].reply
       /\ item'[i].status = "absent" => item[i].status = "absent"
    \/ item'[i] = NoItem

LEMMA LabelsKept ==
    ASSUME TellInv, \A i \in Items : Labelled(i), UNCHANGED commandVars, nextJob' \in Nat, nextJob' >= nextJob
    PROVE  PostInv' /\ \A i \in Items : SourceInv(i)'
<1>1. PostInv'
  <2>1. ASSUME NEW m \in Messages PROVE effect[m].created => effect[m].item < nextJob'
    BY DEF TellInv, PostInv, JobsInv, JobsTyped, CommandsTyped, EffectRow
  <2> QED BY <2>1 DEF TellInv, PostInv, At, Open, commandVars
<1>2. ASSUME NEW i \in Items PROVE SourceInv(i)'
  <2>1. item[i] \in ItemRow /\ item[i].id \in Nat /\ nextJob \in Nat /\ nextJob > 0
    BY DEF TellInv, JobsInv, JobsTyped, ItemRow
  <2>2. CASE /\ item'[i].id = item[i].id /\ item'[i].source = item[i].source /\ item'[i].reply = item[i].reply
             /\ item'[i].status = "absent" => item[i].status = "absent"
    BY <2>1, <2>2 DEF TellInv, SourceInv, commandVars
  <2>3. CASE item'[i].id = 0 /\ item'[i].source = "web" /\ item'[i].reply = "none"
    <3>1. \A m \in Messages : effect'[m].created => effect'[m].item # 0
      BY <1>1, <2>1 DEF TellInv, PostInv, JobsInv, CommandsTyped, EffectRow, commandVars
    <3> QED BY <2>1, <2>3, <3>1 DEF SourceInv
  <2> QED BY <2>2, <2>3 DEF Labelled, NoItem
<1> QED BY <1>1, <1>2

\* What a step makes of an item's status, and of nothing else.
LEMMA StatusKeepsLabels ==
    ASSUME NEW q \in ItemRow, NEW s, s # "absent", NEW z, z = [q EXCEPT !.status = s]
    PROVE  z.id = q.id /\ z.source = q.source /\ z.reply = q.reply /\ z.status # "absent"
  BY DEF ItemRow

LEMMA RulesKeepLabels ==
    ASSUME InboxJobsAssumption, NEW i, item[i] \in ItemRow, NEW status, status # "absent",
           NEW outcome \in RuleOutcomes(status), NEW z, z = Ruled(i, outcome)
    PROVE  z.id = item[i].id /\ z.source = item[i].source /\ z.reply = item[i].reply /\ z.status # "absent"
<1>0. outcome.status # "absent"
  <2>1. CASE outcome = [status |-> status, ruled |-> FALSE]
    BY <2>1
  <2>2. CASE outcome \in {[status |-> s, ruled |-> TRUE] : s \in RuleStatus}
    <3>1. PICK s \in RuleStatus : outcome = [status |-> s, ruled |-> TRUE]
      BY <2>2
    <3> QED BY <3>1 DEF InboxJobsAssumption
  <2> QED BY <2>1, <2>2 DEF RuleOutcomes
<1>1. PICK q \in ItemRow : q = item[i]
  OBVIOUS
<1>2. PICK s, r : s = outcome.status /\ r = (q.ruled \/ outcome.ruled)
  OBVIOUS
<1>3. z = [q EXCEPT !.status = s, !.ruled = r]
  BY <1>1, <1>2 DEF Ruled
<1>4. z.id = q.id /\ z.source = q.source /\ z.reply = q.reply /\ z.status = s
  BY <1>3 DEF ItemRow
<1> QED BY <1>0, <1>1, <1>2, <1>4

LEMMA OneLabel ==
    ASSUME JobsInv, NEW i, NEW z, item' = [item EXCEPT ![i] = z],
           i \in Items => /\ z.id = item[i].id /\ z.source = item[i].source /\ z.reply = item[i].reply
                          /\ z.status # "absent"
    PROVE  \A r \in Items : Labelled(r)
  BY DEF JobsInv, JobsTyped, Labelled

LEMMA StepsKeepLabels ==
    ASSUME InboxJobsAssumption, JobsInv,
           \/ \E i \in Items : Archive(i) \/ DeleteItem(i) \/ Reclassify(i)
           \/ SweepRule \/ Runtime \/ Shutdown \/ Restart
           \/ \E j \in 1..MaxJobs : BackoffEnds(j) \/ LeaseLapses(j)
    PROVE  (\A i \in Items : Labelled(i)) /\ UNCHANGED commandVars /\ nextJob' \in Nat /\ nextJob' >= nextJob
<1>1. nextJob \in Nat /\ \A i \in Items : item[i] \in ItemRow
  BY DEF JobsInv, JobsTyped
<1>2. item' = item => \A i \in Items : Labelled(i)
  BY DEF Labelled
<1>3. CASE \E i \in Items : Archive(i)
  <2>0. PICK i \in Items : item' = [item EXCEPT ![i] = [item[i] EXCEPT !.status = "archived"]]
    BY <1>3 DEF Archive
  <2>1. PICK z : z = [item[i] EXCEPT !.status = "archived"] /\ item' = [item EXCEPT ![i] = z]
    BY <2>0
  <2>2. z.id = item[i].id /\ z.source = item[i].source /\ z.reply = item[i].reply /\ z.status # "absent"
    BY <1>1, <2>1, StatusKeepsLabels
  <2>3. \A r \in Items : Labelled(r)
    BY <2>1, <2>2, OneLabel
  <2> QED BY <1>1, <1>3, <2>3 DEF Archive
<1>4. CASE \E i \in Items : DeleteItem(i)
  <2>1. PICK i \in Items : item' = [item EXCEPT ![i] = NoItem] /\ UNCHANGED <<nextJob, commandVars>>
    BY <1>4 DEF DeleteItem
  <2>2. \A r \in Items : Labelled(r)
    BY <2>1 DEF Labelled, JobsInv, JobsTyped
  <2> QED BY <1>1, <2>1, <2>2
<1>5. CASE \E i \in Items : Reclassify(i)
  BY <1>1, <1>2, <1>5 DEF Reclassify
<1>6. CASE SweepRule
  <2>1. PICK outcome : (\A i \in Items : outcome[i] \in RuleOutcomes(item[i].status)) /\ item' = [i \in Items |-> IF item[i].status \in {"absent", "archived"} THEN item[i]
                                                ELSE Ruled(i, outcome[i])]
    BY <1>6 DEF SweepRule
  <2>2. ASSUME NEW i \in Items PROVE Labelled(i)
    <3>1. item'[i] = item[i] \/ (item'[i] = Ruled(i, outcome[i]) /\ item[i].status # "absent")
      BY <2>1
    <3>2. item'[i] = Ruled(i, outcome[i]) /\ item[i].status # "absent" => Labelled(i)
      BY <1>1, <2>1, RulesKeepLabels DEF Labelled
    <3> QED BY <3>1, <3>2 DEF Labelled
  <2> QED BY <1>1, <1>6, <2>2 DEF SweepRule
<1>7. CASE Shutdown \/ Restart \/ \E j \in 1..MaxJobs : BackoffEnds(j) \/ LeaseLapses(j)
  BY <1>1, <1>2, <1>7 DEF Shutdown, Restart, BackoffEnds, LeaseLapses
<1>8. CASE Runtime
  <2>1. CASE ClaimJob \/ ReadItem \/ Release
    <3>1. item' = item /\ nextJob' = nextJob /\ UNCHANGED commandVars
      BY <2>1 DEF ClaimJob, ReadItem, Release
    <3> QED BY <1>1, <1>2, <3>1
  <2>2. CASE ApplyContent
    <3>1. UNCHANGED commandVars /\ nextJob' \in {nextJob, nextJob + 1}
      BY <2>2 DEF ApplyContent, NextId
    <3>2. item' = item \/ \E i, z : \E s \in {"enriched", "failed"} : z = [item[i] EXCEPT !.status = s] /\ item' = [item EXCEPT ![i] = z]
      BY <2>2 DEF ApplyContent, ContentStatus
    <3>3. ASSUME NEW i, NEW z, NEW s \in {"enriched", "failed"}, z = [item[i] EXCEPT !.status = s], item' = [item EXCEPT ![i] = z]
          PROVE  \A r \in Items : Labelled(r)
      <4>1. i \in Items => /\ z.id = item[i].id /\ z.source = item[i].source /\ z.reply = item[i].reply
                           /\ z.status # "absent"
        <5>1. ASSUME i \in Items PROVE item[i] \in ItemRow
          BY <1>1, <5>1
        <5>2. s # "absent"
          OBVIOUS
        <5> QED BY <3>3, <5>1, <5>2, StatusKeepsLabels
      <4> QED BY <3>3, <4>1, OneLabel
    <3>4. \A r \in Items : Labelled(r)
      BY <1>2, <3>2, <3>3
    <3> QED BY <1>1, <3>1, <3>4
  <2>3. CASE ApplyClassification
    <3>1. item' = item \/ \E i, z : \E outcome \in RuleOutcomes("classified") : z = Ruled(i, outcome) /\ item' = [item EXCEPT ![i] = z]
      BY <2>3 DEF ApplyClassification
    <3>2. ASSUME NEW i, NEW outcome \in RuleOutcomes("classified"), NEW z, z = Ruled(i, outcome), item' = [item EXCEPT ![i] = z]
          PROVE  \A r \in Items : Labelled(r)
      <4>1. i \in Items => /\ z.id = item[i].id /\ z.source = item[i].source /\ z.reply = item[i].reply
                           /\ z.status # "absent"
        <5>1. ASSUME i \in Items PROVE item[i] \in ItemRow
          BY <1>1, <5>1
        <5>2. "classified" # "absent"
          OBVIOUS
        <5> QED BY <3>2, <5>1, <5>2, RulesKeepLabels
      <4> QED BY <3>2, <4>1, OneLabel
    <3>3. \A r \in Items : Labelled(r)
      BY <1>2, <3>1, <3>2
    <3>4. nextJob' = nextJob /\ UNCHANGED commandVars
      BY <2>3 DEF ApplyClassification
    <3> QED BY <1>1, <3>3, <3>4
  <2>4. CASE \E error \in PipelineErrors : FailJob(error)
    <3>1. item' = item \/ \E i, z : \E s \in {"enriched", "failed"} : z = [item[i] EXCEPT !.status = s] /\ item' = [item EXCEPT ![i] = z]
      BY <2>4 DEF FailJob, ItemAfterFailure
    <3>2. ASSUME NEW i, NEW z, NEW s \in {"enriched", "failed"}, z = [item[i] EXCEPT !.status = s], item' = [item EXCEPT ![i] = z]
          PROVE  \A r \in Items : Labelled(r)
      <4>1. i \in Items => /\ z.id = item[i].id /\ z.source = item[i].source /\ z.reply = item[i].reply
                           /\ z.status # "absent"
        <5>1. ASSUME i \in Items PROVE item[i] \in ItemRow
          BY <1>1, <5>1
        <5>2. s # "absent"
          OBVIOUS
        <5> QED BY <3>2, <5>1, <5>2, StatusKeepsLabels
      <4> QED BY <3>2, <4>1, OneLabel
    <3>3. \A r \in Items : Labelled(r)
      BY <1>2, <3>1, <3>2
    <3>4. nextJob' = nextJob /\ UNCHANGED commandVars
      BY <2>4 DEF FailJob
    <3> QED BY <1>1, <3>3, <3>4
  <2> QED BY <1>8, <2>1, <2>2, <2>3, <2>4 DEF Runtime
<1> QED BY <1>3, <1>4, <1>5, <1>6, <1>7, <1>8

\* An item that a new job brings.
LEMMA Fresh ==
    ASSUME InboxJobsAssumption, JobsInv, NEW i \in Items, NEW source \in Messages \cup {"web"}, Ingested(i, source)
    PROVE  /\ item[i].status = "absent" /\ nextJob \in Nat \ {0} /\ nextJob' = nextJob + 1
           /\ \E y : /\ item' = [item EXCEPT ![i] = y] /\ y.id = nextJob /\ y.source = source /\ y.reply = item[i].reply /\ y.status # "absent"
<1>1. item[i].status = "absent" /\ nextJob' = nextJob + 1 /\ nextJob \in Nat \ {0}
  BY DEF Ingested, JobsInv, JobsTyped
<1>2. PICK outcome \in RuleOutcomes("pending") :
          item' = [item EXCEPT ![i] = [Ruled(i, outcome) EXCEPT !.id = nextJob, !.source = source]]
  BY DEF Ingested
<1>3. item[i] \in ItemRow /\ "pending" \in ItemStatus /\ "pending" # "absent"
  BY DEF JobsInv, JobsTyped, ItemStatus
<1>4. PICK x : x = Ruled(i, outcome)
  OBVIOUS
<1>5. x \in ItemRow /\ x.reply = item[i].reply /\ x.status # "absent"
  BY <1>3, <1>4, RuledWritten, RulesKeepLabels
<1>6. PICK y : y = [x EXCEPT !.id = nextJob, !.source = source]
  OBVIOUS
<1>7. y.id = nextJob /\ y.source = source /\ y.reply = x.reply /\ y.status = x.status
  BY <1>5, <1>6 DEF ItemRow
<1> QED BY <1>1, <1>2, <1>4, <1>5, <1>6, <1>7

LEMMA IngestTells == ASSUME InboxJobsAssumption, TellInv, NEW i \in Items, Ingest(i) PROVE TellInv'
<1>1. JobsInv /\ JobsInv'
  BY IngestKeeps DEF TellInv
<1>2. /\ nextJob \in Nat \ {0} /\ nextJob' = nextJob + 1
      /\ \E y : item' = [item EXCEPT ![i] = y] /\ y.id = nextJob /\ y.source = "web" /\ y.reply = item[i].reply /\ y.status # "absent"
  BY <1>1, Fresh DEF Ingest
<1>3. PICK y : item' = [item EXCEPT ![i] = y] /\ y.id = nextJob /\ y.source = "web" /\ y.reply = item[i].reply /\ y.status # "absent"
  BY <1>2
<1>4. UNCHANGED commandVars
  BY DEF Ingest
<1>5. PostInv'
  <2>1. ASSUME NEW m \in Messages PROVE effect[m].created => effect[m].item < nextJob'
    BY <1>1, <1>2 DEF TellInv, PostInv, JobsInv, CommandsTyped, EffectRow
  <2> QED BY <1>4, <2>1 DEF TellInv, PostInv, At, Open, commandVars
<1>6. ASSUME NEW r \in Items PROVE SourceInv(r)'
  <2>1. item'[r] = IF r = i THEN y ELSE item[r]
    BY <1>1, <1>3 DEF JobsInv, JobsTyped
  <2>2. item[r].id \in Nat /\ SourceInv(r)
    BY <1>1 DEF TellInv, JobsInv, JobsTyped, ItemRow
  <2>3. CASE r # i
    BY <1>2, <1>4, <2>1, <2>2, <2>3 DEF SourceInv, commandVars
  <2>4. CASE r = i
    <3>1. \A m \in Messages : effect[m].created => effect[m].item # nextJob
      BY <1>1, <1>2 DEF TellInv, PostInv, JobsInv, CommandsTyped, EffectRow
    <3>2. item[i].reply = "none"
      BY <1>1, <2>2, <2>4, <1>2 DEF SourceInv, Ingest, Ingested
    <3> QED BY <1>2, <1>3, <1>4, <2>1, <2>4, <3>1, <3>2 DEF SourceInv, commandVars
  <2> QED BY <2>3, <2>4
<1> QED BY <1>1, <1>5, <1>6 DEF TellInv

LEMMA CrashTells == ASSUME InboxJobsAssumption, TellInv, Crash PROVE TellInv'
<1>1. UNCHANGED <<item, nextJob, effect, posts>>
  BY DEF Crash
<1>2. ASSUME NEW d \in Deliveries PROVE handling'[d].pc \in {"idle", "done"}
  BY RowsOfCommands DEF Crash
<1>3. PostInv' /\ \A i \in Items : SourceInv(i)'
  BY <1>1, <1>2 DEF TellInv, PostInv, SourceInv, At, Open
<1> QED BY <1>3, CrashKeeps DEF TellInv

\* A delivery that moves while the ledger and the items stay.
LEMMA HandlingTells ==
    ASSUME TellInv, JobsInv', NEW d \in Deliveries, NEW z \in HandlingRow, handling' = [handling EXCEPT ![d] = z],
           UNCHANGED <<item, nextJob, effect, posts>>, z.pc # "sending",
           z.pc = "new" => ~z.answer.created /\ ~z.answer.bound,
           z.pc = "dispatch" => /\ Open(z.message) => ~z.answer.bound
                                /\ effect[z.message].state = "absent" => ~z.answer.created
    PROVE  TellInv'
<1>1. \A e \in Deliveries : handling'[e] = IF e = d THEN z ELSE handling[e]
  BY DEF TellInv, JobsInv, CommandsTyped
<1>2. PostInv'
  BY <1>1 DEF TellInv, PostInv, At, Open
<1>3. \A i \in Items : SourceInv(i)'
  BY DEF TellInv, SourceInv
<1> QED BY <1>2, <1>3 DEF TellInv

LEMMA EndTells ==
    ASSUME TellInv, JobsInv', NEW d \in Deliveries, Ends(d), UNCHANGED <<item, nextJob, effect, posts>> PROVE TellInv'
<1>1. handling' = [handling EXCEPT ![d] = Handled] /\ Handled \in HandlingRow /\ Handled.pc = "done"
  BY RowsOfCommands DEF Ends
<1> QED BY <1>1, HandlingTells

LEMMA ReceiveTells == ASSUME TellInv, NEW d \in Deliveries, NEW m \in Messages, Receive(d, m) PROVE TellInv'
<1>1. JobsInv' /\ UNCHANGED <<item, nextJob, effect, posts>>
  BY ReceiveKeeps DEF TellInv, Receive, jobTable
<1>2. CASE Ends(d)
  BY <1>1, <1>2, EndTells
<1>3. CASE ~Ends(d)
  <2>1. PICK step, z : /\ step = IF effect[m].state = "absent" THEN "new" ELSE "dispatch"
                       /\ z = [pc |-> step, message |-> m, answer |-> effect[m]]
                       /\ handling' = [handling EXCEPT ![d] = z] /\ Open(m)
    BY <1>3 DEF Receive, Open
  <2>2. z \in HandlingRow /\ z.message = m /\ z.pc = step /\ z.answer = effect[m]
    BY <2>1, HandlingWritten DEF TellInv, JobsInv, CommandsTyped
  <2>3. ~effect[m].bound /\ (effect[m].state = "absent" => ~effect[m].created)
    BY <2>1 DEF TellInv, PostInv, Open
  <2>4. /\ z.pc # "sending" /\ (z.pc = "new" => ~z.answer.created /\ ~z.answer.bound)
        /\ z.pc = "dispatch" => /\ Open(z.message) => ~z.answer.bound
                                /\ effect[z.message].state = "absent" => ~z.answer.created
    BY <2>1, <2>2, <2>3
  <2> QED BY <1>1, <2>1, <2>2, <2>4, HandlingTells
<1> QED BY <1>2, <1>3

LEMMA RenderListTells == ASSUME TellInv, NEW d \in Deliveries, RenderList(d) PROVE TellInv'
<1>1. JobsInv' /\ UNCHANGED <<item, nextJob, effect, posts>> /\ handling[d].pc = "new"
  BY RenderListKeeps DEF TellInv, RenderList, jobTable, At
<1>2. PICK q, a : q = handling[d] /\ a = [q.answer EXCEPT !.text = nextJob]
  OBVIOUS
<1>3. q \in HandlingRow /\ nextJob \in Nat /\ q.message \in Messages /\ ~q.answer.created /\ ~q.answer.bound
  BY <1>1, <1>2 DEF TellInv, PostInv, JobsInv, JobsTyped, CommandsTyped, At
<1>4. a \in EffectRow /\ ~a.created /\ ~a.bound
  BY <1>2, <1>3 DEF HandlingRow, EffectRow
<1>5. PICK z : z = [q EXCEPT !.pc = "dispatch", !.answer = a]
  OBVIOUS
<1>6. handling' = [handling EXCEPT ![d] = z]
  BY <1>2, <1>3, <1>5 DEF RenderList, TellInv, JobsInv, CommandsTyped, HandlingRow
<1>7. z \in HandlingRow /\ z.pc = "dispatch" /\ z.answer = a
  BY <1>3, <1>4, <1>5 DEF HandlingRow
<1> QED BY <1>1, <1>4, <1>6, <1>7, HandlingTells

LEMMA PrepareSaveTells == ASSUME InboxJobsAssumption, TellInv, NEW d \in Deliveries, PrepareSave(d) PROVE TellInv'
<1>1. /\ JobsInv /\ JobsInv' /\ handling[d].pc = "new" /\ posts' = posts
      /\ effect' \in [Messages -> EffectRow] /\ handling' \in [Deliveries -> HandlingRow]
  BY PrepareSaveKeeps DEF TellInv, PrepareSave, At, JobsInv, CommandsTyped
<1>2. PICK m, i, a, z : /\ m = handling[d].message /\ i = LinkOf[m] /\ a = effect'[m]
                        /\ z = [handling[d] EXCEPT !.pc = "dispatch", !.answer = a]
  OBVIOUS
<1>3. /\ m \in Messages /\ handling[d] \in HandlingRow /\ i \in Items
      /\ effect \in [Messages -> EffectRow] /\ nextJob \in Nat \ {0}
  BY <1>1, <1>2 DEF TellInv, JobsInv, JobsTyped, CommandsTyped, PrepareSave, InboxJobsAssumption
<1>4. handling' = [handling EXCEPT ![d] = z]
  BY <1>2 DEF PrepareSave, TellInv, JobsInv, CommandsTyped
<1>5. z.pc = "dispatch" /\ z.message = m /\ z.answer = a
  BY <1>2, <1>3 DEF HandlingRow
<1>6. \A e \in Deliveries : handling'[e] = IF e = d THEN z ELSE handling[e]
  BY <1>4 DEF TellInv, JobsInv, CommandsTyped
<1>7. CASE Answered(m)
  <2>1. effect[m].state # "absent" /\ UNCHANGED <<item, job, nextJob, effect>>
    BY <1>2, <1>7 DEF PrepareSave, Answered, Ingested
  <2>2. Open(m) => ~a.bound
    BY <1>2, <1>3, <2>1 DEF TellInv, PostInv, Open
  <2>3. z \in HandlingRow
    BY <1>2, <1>3, <1>1, <2>1 DEF HandlingRow
  <2> QED BY <1>1, <1>2, <1>4, <1>5, <2>1, <2>2, <2>3, HandlingTells
<1>8. CASE ~Answered(m)
  <2>1. effect[m].state = "absent" /\ ~effect[m].created /\ ~effect[m].bound /\ posts[m] = 0
    BY <1>3, <1>8 DEF Answered, TellInv, PostInv
  <2>0. PICK created \in BOOLEAN, id \in Nat :
            /\ effect' = [effect EXCEPT ![m] = SaveResult(created, id)]
            /\ created => id = nextJob /\ Ingested(i, m)
            /\ ~created => item[i].status # "absent" /\ UNCHANGED <<item, job, nextJob>>
    <3>1. CASE Ingested(i, m) /\ effect' = [effect EXCEPT ![m] = SaveResult(TRUE, nextJob)]
      BY <1>3, <3>1
    <3>2. CASE /\ item[i].status # "absent" /\ effect' = [effect EXCEPT ![m] = SaveResult(FALSE, item[i].id)]
               /\ UNCHANGED <<item, job, nextJob>>
      <4>1. item[i].id \in Nat
        BY <1>3 DEF TellInv, JobsInv, JobsTyped, ItemRow
      <4> QED BY <3>2, <4>1
    <3> QED BY <1>2, <1>8, <3>1, <3>2 DEF PrepareSave
  <2>2. PICK x :
            /\ effect' = [effect EXCEPT ![m] = x] /\ x = SaveResult(created, id)
            /\ created => id = nextJob /\ Ingested(i, m)
            /\ ~created => item[i].status # "absent" /\ UNCHANGED <<item, job, nextJob>>
    BY <2>0
  <2>3. /\ x.state = "prepared" /\ x.created = created /\ x.item = id /\ x.bound = FALSE
    BY <2>2 DEF SaveResult, NoEffect
  <2>4. \A n \in Messages : effect'[n] = IF n = m THEN x ELSE effect[n]
    BY <1>3, <2>2
  <2>5. nextJob' \in Nat /\ nextJob' >= nextJob /\ (created => nextJob' = nextJob + 1)
    <3>1. CASE created
      <4>1. nextJob' = nextJob + 1
        BY <2>2, <3>1 DEF Ingested
      <4> QED BY <1>3, <3>1, <4>1
    <3>2. CASE ~created
      <4>1. nextJob' = nextJob
        BY <2>2, <3>2
      <4> QED BY <1>3, <3>2, <4>1
    <3> QED BY <3>1, <3>2
  <2>6. a = x
    BY <1>2, <1>3, <2>4
  <2>7. PostInv'
    <3>1. ASSUME NEW n \in Messages
          PROVE  /\ posts'[n] = 1 => effect'[n].state \in {"sending", "confirmed"}
                 /\ effect'[n].state = "confirmed" => posts'[n] = 1
                 /\ effect'[n].bound => effect'[n].state = "confirmed"
                 /\ effect'[n].state = "absent" => ~effect'[n].created
                 /\ effect'[n].created => 0 < effect'[n].item /\ effect'[n].item < nextJob'
      <4>1. CASE n = m
        BY <1>1, <1>3, <2>1, <2>2, <2>3, <2>4, <2>5, <4>1
      <4>2. CASE n # m
        <5>1. effect'[n] = effect[n] /\ posts'[n] = posts[n] /\ effect[n] \in EffectRow
          BY <1>1, <1>3, <2>4, <4>2
        <5> QED BY <1>3, <2>5, <5>1 DEF TellInv, PostInv, EffectRow
      <4> QED BY <4>1, <4>2
    <3>2. ASSUME NEW e \in Deliveries
          PROVE  LET n == handling'[e].message  answer == handling'[e].answer IN
                 /\ handling'[e].pc = "sending" => effect'[n].state = "sending" /\ posts'[n] = 0
                 /\ handling'[e].pc = "new" => ~answer.created /\ ~answer.bound
                 /\ handling'[e].pc = "dispatch" =>
                        /\ effect'[n].state \in {"absent", "prepared"} => ~answer.bound
                        /\ effect'[n].state = "absent" => ~answer.created
      <4>1. CASE e = d
        BY <1>3, <1>5, <1>6, <2>3, <2>4, <2>6, <4>1
      <4>2. CASE e # d
        <5>1. handling'[e] = handling[e]
          BY <1>6, <4>2
        <5>2. CASE handling[e].pc \in {"new", "dispatch", "sending"}
          <6>1. handling[e].message \in Messages
            BY <5>2 DEF TellInv, JobsInv, CommandsTyped
          <6> QED BY <1>1, <2>1, <2>3, <2>4, <5>1, <6>1 DEF TellInv, PostInv, At, Open
        <5> QED BY <5>1, <5>2
      <4> QED BY <4>1, <4>2
    <3>3. \A e, f \in Deliveries : handling'[e].pc = "sending" /\ handling'[f].pc = "sending"
                                   /\ handling'[e].message = handling'[f].message => e = f
      BY <1>5, <1>6 DEF TellInv, PostInv, At
    <3>4. posts' \in [Messages -> {0, 1}]
      BY <1>1 DEF TellInv, PostInv
    <3> QED BY <3>1, <3>2, <3>3, <3>4 DEF PostInv, At, Open
  <2>8. ASSUME NEW r \in Items PROVE SourceInv(r)'
    <3>1. /\ SourceInv(r) /\ item[r].id \in Nat /\ item[r] \in ItemRow /\ item[r].source # m /\ (item[r].reply # m \/ item[r].reply = "none")
          /\ item[r].source \in Messages \cup {"web"} /\ item[r].reply \in Messages \cup {"none"}
      <4>1. SourceInv(r) /\ item[r] \in ItemRow /\ m # "web"
        BY <1>3 DEF TellInv, JobsInv, JobsTyped, InboxJobsAssumption
      <4>2. item[r].id \in Nat /\ item[r].source \in Messages \cup {"web"} /\ item[r].reply \in Messages \cup {"none"}
        BY <4>1 DEF ItemRow
      <4>3. item[r].source # m
        BY <2>1, <4>1 DEF SourceInv
      <4>4. item[r].reply # m \/ item[r].reply = "none"
        BY <2>1, <4>1, <4>3 DEF SourceInv
      <4> QED BY <4>1, <4>2, <4>3, <4>4
    <3>2. CASE ~created
      BY <1>3, <2>2, <2>3, <2>4, <3>1, <3>2 DEF SourceInv
    <3>3. CASE created
      <4>1. PICK y : /\ item' = [item EXCEPT ![i] = y] /\ y.id = nextJob /\ y.source = m
                     /\ y.reply = item[i].reply /\ y.status # "absent" /\ item[i].status = "absent"
        BY <1>1, <1>3, <2>2, <3>3, Fresh
      <4>2. item'[r] = IF r = i THEN y ELSE item[r]
        BY <4>1 DEF TellInv, JobsInv, JobsTyped
      <4>3. ASSUME NEW n \in Messages, n # m, effect'[n].created PROVE effect'[n].item # nextJob
        BY <1>3, <2>4, <4>3 DEF TellInv, PostInv, EffectRow
      <4>4. CASE r = i
        <5>1. item[r].reply = "none"
          BY <3>1, <4>1, <4>4 DEF SourceInv
        <5>2. item'[r].id = nextJob /\ item'[r].source = m /\ item'[r].reply = "none" /\ item'[r].status # "absent"
          BY <4>1, <4>2, <4>4, <5>1
        <5>3. effect'[m].created /\ effect'[m].item = nextJob
          BY <1>3, <2>2, <2>3, <2>4, <3>3
        <5>4. nextJob < nextJob'
          BY <1>3, <2>5, <3>3
        <5> QED BY <4>3, <5>2, <5>3, <5>4 DEF SourceInv
      <4>5. CASE r # i
        BY <1>2, <1>3, <2>3, <2>4, <2>5, <3>1, <3>3, <4>2, <4>5 DEF SourceInv
      <4> QED BY <4>4, <4>5
    <3> QED BY <3>2, <3>3
  <2> QED BY <1>1, <2>7, <2>8 DEF TellInv
<1> QED BY <1>7, <1>8

\* The row of an answer changes: what was said of an item is still said.
LEMMA RowTells ==
    ASSUME TellInv, NEW m \in Messages, NEW e, effect' = [effect EXCEPT ![m] = e], UNCHANGED <<item, nextJob>>,
           effect[m].created => e.created /\ e.item = effect[m].item,
           e.created => effect[m].created,
           effect[m].state = "confirmed" => e.state = "confirmed"
    PROVE  \A i \in Items : SourceInv(i)'
<1> SUFFICES ASSUME NEW i \in Items PROVE SourceInv(i)'
    OBVIOUS
<1>1. \A n \in Messages : effect'[n] = IF n = m THEN e ELSE effect[n]
  BY DEF TellInv, JobsInv, CommandsTyped
<1>2. SourceInv(i) /\ item[i].source \in Messages \cup {"web"} /\ item[i].reply \in Messages \cup {"none"}
  BY DEF TellInv, JobsInv, JobsTyped, ItemRow
<1> QED BY <1>1, <1>2 DEF SourceInv

LEMMA BeginAnswerTells == ASSUME TellInv, NEW d \in Deliveries, BeginAnswer(d) PROVE TellInv'
<1>1. JobsInv' /\ UNCHANGED <<item, nextJob, posts>> /\ handling[d].pc = "dispatch"
  BY BeginAnswerKeeps DEF TellInv, BeginAnswer, At, jobTable
<1>2. PICK m, a : m = handling[d].message /\ a = handling[d].answer
  OBVIOUS
<1>3. m \in Messages /\ a \in EffectRow /\ effect \in [Messages -> EffectRow] /\ effect[m] \in EffectRow
  BY <1>1, <1>2 DEF TellInv, JobsInv, CommandsTyped, HandlingRow
<1>4. CASE Ends(d) /\ effect' = effect
  BY <1>1, <1>4, EndTells
<1>5. CASE ~(Ends(d) /\ effect' = effect)
  <2>1. PICK e, z : /\ e = [a EXCEPT !.state = "sending"] /\ z = [NoHandling EXCEPT !.pc = "sending", !.message = m]
                    /\ effect' = [effect EXCEPT ![m] = e] /\ handling' = [handling EXCEPT ![d] = z]
    BY <1>2, <1>5 DEF BeginAnswer
  <2>2. effect[m].state = "absent" \/ (effect[m].state = "prepared" /\ Same(effect[m], a))
    BY <1>2, <1>5 DEF BeginAnswer
  <2>3. e.state = "sending" /\ e.item = a.item /\ e.created = a.created /\ e.bound = a.bound
    <3>1. "sending" \in Dispositions
      BY DEF Dispositions
    <3> QED BY <1>3, <2>1, <3>1, DispositionWritten
  <2>4. z.pc = "sending" /\ z.message = m
    BY <1>3, <2>1 DEF NoHandling
  <2>5. /\ Open(m) /\ ~a.bound /\ posts[m] = 0 /\ (effect[m].state = "absent" => ~a.created /\ ~effect[m].created)
        /\ effect[m].state = "prepared" => a.created = effect[m].created /\ a.item = effect[m].item
    <3>1. Open(m)
      BY <2>2 DEF Open
    <3>2. ~a.bound /\ (effect[m].state = "absent" => ~a.created /\ ~effect[m].created)
      BY <1>1, <1>2, <1>3, <3>1 DEF TellInv, PostInv, At
    <3>3. posts[m] = 0
      BY <1>3, <2>2 DEF TellInv, PostInv
    <3>4. effect[m].state = "prepared" => a.created = effect[m].created /\ a.item = effect[m].item
      BY <2>2 DEF Same
    <3> QED BY <3>1, <3>2, <3>3, <3>4
  <2>6. \A n \in Messages : effect'[n] = IF n = m THEN e ELSE effect[n]
    BY <1>3, <2>1
  <2>7. \A f \in Deliveries : handling'[f] = IF f = d THEN z ELSE handling[f]
    BY <2>1 DEF TellInv, JobsInv, CommandsTyped
  <2>8. \A i \in Items : SourceInv(i)'
    BY <1>1, <1>3, <2>1, <2>2, <2>3, <2>5, RowTells
  <2>9. PostInv'
    <3>1. ASSUME NEW n \in Messages
          PROVE  /\ posts'[n] = 1 => effect'[n].state \in {"sending", "confirmed"}
                 /\ effect'[n].state = "confirmed" => posts'[n] = 1
                 /\ effect'[n].bound => effect'[n].state = "confirmed"
                 /\ effect'[n].state = "absent" => ~effect'[n].created
                 /\ effect'[n].created => 0 < effect'[n].item /\ effect'[n].item < nextJob'
      <4>1. CASE n = m
        BY <1>1, <1>3, <2>2, <2>3, <2>5, <2>6, <4>1 DEF TellInv, PostInv
      <4>2. CASE n # m
        BY <1>1, <2>6, <4>2 DEF TellInv, PostInv
      <4> QED BY <4>1, <4>2
    <3>2. ASSUME NEW f \in Deliveries
          PROVE  LET n == handling'[f].message  answer == handling'[f].answer IN
                 /\ handling'[f].pc = "sending" => effect'[n].state = "sending" /\ posts'[n] = 0
                 /\ handling'[f].pc = "new" => ~answer.created /\ ~answer.bound
                 /\ handling'[f].pc = "dispatch" =>
                        /\ effect'[n].state \in {"absent", "prepared"} => ~answer.bound
                        /\ effect'[n].state = "absent" => ~answer.created
      <4>1. CASE f = d
        BY <1>1, <1>3, <2>3, <2>4, <2>5, <2>6, <2>7, <4>1
      <4>2. CASE f # d
        <5>1. handling'[f] = handling[f]
          BY <2>7, <4>2
        <5>2. CASE handling[f].pc \in {"new", "dispatch", "sending"}
          <6>1. handling[f].message \in Messages
            BY <5>2 DEF TellInv, JobsInv, CommandsTyped
          <6> QED BY <1>1, <2>3, <2>5, <2>6, <5>1, <6>1 DEF TellInv, PostInv, At, Open
        <5> QED BY <5>1, <5>2
      <4> QED BY <4>1, <4>2
    <3>3. ASSUME NEW f \in Deliveries, NEW g \in Deliveries, handling'[f].pc = "sending", handling'[g].pc = "sending",
                 handling'[f].message = handling'[g].message
          PROVE  f = g
      <4>1. \A h \in Deliveries : handling[h].pc = "sending" => handling[h].message # m
        BY <2>5 DEF TellInv, PostInv, At, Open
      <4> QED BY <2>4, <2>7, <3>3, <4>1 DEF TellInv, PostInv, At
    <3>4. posts' \in [Messages -> {0, 1}]
      BY <1>1 DEF TellInv, PostInv
    <3> QED BY <3>1, <3>2, <3>3, <3>4 DEF PostInv, At, Open
  <2> QED BY <1>1, <2>8, <2>9 DEF TellInv
<1> QED BY <1>4, <1>5

LEMMA SendAnswerTells == ASSUME TellInv, NEW d \in Deliveries, SendAnswer(d) PROVE TellInv'
<1>1. /\ JobsInv' /\ UNCHANGED <<item, nextJob>> /\ handling[d].pc = "sending"
      /\ handling' = [handling EXCEPT ![d] = Handled]
  BY SendAnswerKeeps DEF TellInv, SendAnswer, At, Ends, jobTable
<1>2. PICK m : m = handling[d].message
  OBVIOUS
<1>3. m \in Messages /\ effect \in [Messages -> EffectRow] /\ effect[m] \in EffectRow
  BY <1>1, <1>2 DEF TellInv, JobsInv, CommandsTyped
<1>4. effect[m].state = "sending" /\ posts[m] = 0
  BY <1>1, <1>2 DEF TellInv, PostInv, At
<1>5. posts' = [posts EXCEPT ![m] = 1]
  BY <1>2, <1>3, <1>4 DEF SendAnswer, TellInv, PostInv
<1>6. PICK e : /\ effect' = [effect EXCEPT ![m] = e] /\ e.state \in {"sending", "confirmed"}
               /\ e.item = effect[m].item /\ e.created = effect[m].created /\ e.bound = effect[m].bound
  <2>1. CASE effect' = effect
    <3>1. effect' = [effect EXCEPT ![m] = effect[m]]
      BY <1>3, <2>1
    <3> QED BY <1>4, <3>1
  <2>2. CASE effect' # effect
    <3>1. PICK x : x = [effect[m] EXCEPT !.state = "confirmed"] /\ effect' = [effect EXCEPT ![m] = x]
      BY <1>2, <2>2 DEF SendAnswer
    <3>2. "confirmed" \in Dispositions
      BY DEF Dispositions
    <3>3. /\ x.state = "confirmed" /\ x.item = effect[m].item /\ x.created = effect[m].created
          /\ x.bound = effect[m].bound
      BY <1>3, <3>1, <3>2, DispositionWritten
    <3> QED BY <3>1, <3>3
  <2> QED BY <2>1, <2>2
<1>7. \A n \in Messages : effect'[n] = IF n = m THEN e ELSE effect[n]
  BY <1>3, <1>6
<1>8. \A f \in Deliveries : handling'[f] = IF f = d THEN Handled ELSE handling[f]
  BY <1>1 DEF TellInv, JobsInv, CommandsTyped
<1>9. \A i \in Items : SourceInv(i)'
  BY <1>1, <1>3, <1>4, <1>6, RowTells
<1>10. PostInv'
  <2>1. ASSUME NEW n \in Messages
        PROVE  /\ posts'[n] = 1 => effect'[n].state \in {"sending", "confirmed"}
               /\ effect'[n].state = "confirmed" => posts'[n] = 1
               /\ effect'[n].bound => effect'[n].state = "confirmed"
               /\ effect'[n].state = "absent" => ~effect'[n].created
               /\ effect'[n].created => 0 < effect'[n].item /\ effect'[n].item < nextJob'
    <3>1. posts'[n] = IF n = m THEN 1 ELSE posts[n]
      BY <1>5 DEF TellInv, PostInv
    <3>2. CASE n = m
      <4>1. ~effect[m].bound /\ (effect[m].created => 0 < effect[m].item /\ effect[m].item < nextJob)
        BY <1>3, <1>4 DEF TellInv, PostInv
      <4> QED BY <1>1, <1>3, <1>6, <1>7, <3>1, <3>2, <4>1
    <3>3. CASE n # m
      BY <1>1, <1>7, <3>1, <3>3 DEF TellInv, PostInv
    <3> QED BY <3>2, <3>3
  <2>2. ASSUME NEW f \in Deliveries
        PROVE  LET n == handling'[f].message  answer == handling'[f].answer IN
               /\ handling'[f].pc = "sending" => effect'[n].state = "sending" /\ posts'[n] = 0
               /\ handling'[f].pc = "new" => ~answer.created /\ ~answer.bound
               /\ handling'[f].pc = "dispatch" =>
                      /\ effect'[n].state \in {"absent", "prepared"} => ~answer.bound
                      /\ effect'[n].state = "absent" => ~answer.created
    <3>1. CASE f = d
      BY <1>8, <3>1, RowsOfCommands
    <3>2. CASE f # d /\ handling[f].pc \in {"new", "dispatch", "sending"}
      <4>1. handling[f].message \in Messages /\ handling'[f] = handling[f]
        BY <1>8, <3>2 DEF TellInv, JobsInv, CommandsTyped
      <4>2. handling[f].pc = "sending" => handling[f].message # m
        BY <1>1, <1>2, <3>2 DEF TellInv, PostInv, At
      <4>3. \A n \in Messages : n # m => posts'[n] = posts[n]
        BY <1>5 DEF TellInv, PostInv
      <4> QED BY <1>6, <1>7, <4>1, <4>2, <4>3 DEF TellInv, PostInv, At, Open
    <3> QED BY <1>8, <3>1, <3>2
  <2>3. \A f, g \in Deliveries : handling'[f].pc = "sending" /\ handling'[g].pc = "sending"
                                 /\ handling'[f].message = handling'[g].message => f = g
    BY <1>8, RowsOfCommands DEF TellInv, PostInv, At
  <2>4. posts' \in [Messages -> {0, 1}]
    BY <1>5 DEF TellInv, PostInv
  <2> QED BY <2>1, <2>2, <2>3, <2>4 DEF PostInv, At, Open
<1> QED BY <1>1, <1>9, <1>10 DEF TellInv

LEMMA EndHandlingTells == ASSUME TellInv, NEW d \in Deliveries, EndHandling(d) PROVE TellInv'
  BY EndHandlingKeeps, EndTells DEF TellInv, EndHandling, jobTable

LEMMA BindReceiptTells == ASSUME TellInv, NEW m \in Messages, BindReceipt(m) PROVE TellInv'
<1>1. JobsInv /\ JobsInv' /\ nextJob' = nextJob /\ handling' = handling /\ posts' = posts
  BY BindReceiptKeeps DEF TellInv, BindReceipt, jobTable
<1>2. PICK e, i : e = [effect[m] EXCEPT !.bound = TRUE] /\ i = LinkOf[m]
  OBVIOUS
<1>3. /\ effect' = [effect EXCEPT ![m] = e] /\ effect \in [Messages -> EffectRow] /\ effect[m] \in EffectRow
      /\ effect[m].state = "confirmed" /\ effect[m].created
  BY <1>1, <1>2 DEF BindReceipt, Unbound, JobsInv, CommandsTyped
<1>4. e.state = "confirmed" /\ e.created /\ e.item = effect[m].item
  BY <1>2, <1>3 DEF EffectRow
<1>5. \A n \in Messages : effect'[n] = IF n = m THEN e ELSE effect[n]
  BY <1>3
<1>6. PostInv'
  BY <1>1, <1>3, <1>4, <1>5 DEF TellInv, PostInv, At, Open
<1>7. ASSUME NEW r \in Items PROVE SourceInv(r)'
  <2>1. SourceInv(r) /\ item[r] \in ItemRow /\ item \in [Items -> ItemRow]
    BY <1>1 DEF TellInv, JobsInv, JobsTyped
  <2>2. item[r].source \in Messages \cup {"web"} /\ item[r].reply \in Messages \cup {"none"}
    BY <2>1 DEF ItemRow
  <2>3. CASE item'[r] = item[r]
    BY <1>1, <1>3, <1>4, <1>5, <2>1, <2>2, <2>3 DEF SourceInv
  <2>4. CASE item'[r] # item[r]
    <3>1. PICK x : x = [item[i] EXCEPT !.reply = m] /\ item' = [item EXCEPT ![i] = x] /\ item[i].id = effect[m].item
      BY <1>2, <2>4 DEF BindReceipt
    <3>2. r = i /\ item'[r] = x
      BY <2>1, <2>4, <3>1
    <3>3. x.id = item[r].id /\ x.source = item[r].source /\ x.reply = m /\ x.status = item[r].status
      BY <2>1, <3>1, <3>2 DEF ItemRow
    <3>4. item[r].source = m
      BY <1>2, <1>3, <2>1, <3>1, <3>2 DEF SourceInv
    <3>5. item[r].status # "absent"
      <4>1. item[r].reply \in {"none", m} /\ item[r].source # "web"
        BY <1>2, <2>4, <3>2 DEF BindReceipt
      <4> QED BY <2>1, <4>1 DEF SourceInv
    <3> QED BY <1>1, <1>3, <1>4, <1>5, <2>1, <2>2, <3>2, <3>3, <3>4, <3>5 DEF SourceInv
  <2> QED BY <2>3, <2>4
<1> QED BY <1>1, <1>6, <1>7 DEF TellInv

LEMMA TellStep == InboxJobsAssumption /\ TellInv /\ [JobsNext]_jobVars => TellInv'
<1> SUFFICES ASSUME InboxJobsAssumption, TellInv, [JobsNext]_jobVars PROVE TellInv'
    OBVIOUS
<1>1. JobsInv /\ JobsInv'
  BY JobsStep DEF TellInv
<1>2. ASSUME \/ \E i \in Items : Archive(i) \/ DeleteItem(i) \/ Reclassify(i)
             \/ SweepRule \/ Runtime \/ Shutdown \/ Restart
             \/ \E j \in 1..MaxJobs : BackoffEnds(j) \/ LeaseLapses(j)
      PROVE  TellInv'
  <2>1. (\A i \in Items : Labelled(i)) /\ UNCHANGED commandVars /\ nextJob' \in Nat /\ nextJob' >= nextJob
    BY <1>1, <1>2, StepsKeepLabels
  <2> QED BY <1>1, <2>1, LabelsKept DEF TellInv
<1>3. ASSUME Command PROVE TellInv'
  BY <1>3, ReceiveTells, PrepareSaveTells, RenderListTells, BeginAnswerTells, SendAnswerTells, EndHandlingTells,
     BindReceiptTells DEF Command
<1>4. ASSUME UNCHANGED jobVars PROVE TellInv'
  BY <1>1, <1>4 DEF TellInv, PostInv, SourceInv, At, Open, jobVars, commandVars
<1> QED BY <1>2, <1>3, <1>4, IngestTells, CrashTells DEF JobsNext

\* A command is answered once, with what it did, and the reply bound to an item belongs
\* to the command that saved it, although updates are delivered again, to two tasks at
\* once and across restarts (yoink-telegram inbox_runtime.rs).
THEOREM SavesAlwaysTold ==
    ASSUME InboxJobsAssumption
    PROVE  JobsInit /\ [][JobsNext]_jobVars => []SavesAreTold
<1> QED BY TellStarts, TellStep, TellHolds, PTL

-----------------------------------------------------------------------------
(* Command menus. *)

WorkerRecords ==
    [at : {"target", "wait", "retry"}, i : Nat, stage : {"read", "clear", "set", "asked", "answered"},
     retry : BOOLEAN, version : 0..MaxDecisions, doing : {"none", "clear", "set"}, revision : Nat,
     chatRevision : Nat, answer : {"none", "ok", "chat", "target", "retry", "limited"}]
LateRequests == Seq([target : Targets, version : 0..MaxDecisions])
ContactRows == [revision : Nat, unavailable : BOOLEAN, seen : Nat]

MenuStore ==
    /\ due \in [Targets -> 0..MaxDecisions] /\ menu \in [Targets -> 0..MaxDecisions]
    /\ override \in [Targets -> BOOLEAN] /\ late \in LateRequests

MenuContacts ==
    /\ moves \in [Contacts -> Nat] /\ contact \in [Contacts -> ContactRows]
    /\ \A c \in Contacts : contact[c].seen <= moves[c]

MenuCleaned ==
    /\ cleaned \subseteq Targets /\ dirty \in BOOLEAN
    /\ \A t \in cleaned : ~override[t]

\* The worker is at a target until it has read past the last one, and a language
\* override that Telegram confirmed as deleted is gone before it is remembered.
WorkerOK ==
    /\ worker \in WorkerRecords
    /\ worker.at = "target" => worker.i # 0 /\ (worker.stage # "read" => worker.i <= Len(TargetOrder))
    /\ InStage("asked") => worker.doing # "none"
    /\ InStage("answered") /\ worker.answer = "ok" /\ worker.doing = "clear" => ~override[Target]

MenuInv == MenuStore /\ MenuContacts /\ MenuCleaned /\ WorkerOK

LEMMA TargetIsTarget ==
    ASSUME MenuAssumption, WorkerOK, worker.at = "target", worker.i <= Len(TargetOrder)
    PROVE  Target \in Targets
<1>1. worker.i \in 1..Len(TargetOrder)
  BY DEF WorkerOK, WorkerRecords, MenuAssumption
<1> QED
  BY <1>1 DEF Target, Targets

LEMMA ChatIsContact ==
    ASSUME NEW t \in Targets
    PROVE  t \in Contacts /\ ChatOf[t] \in Contacts
BY DEF Contacts

LEMMA WorkerTyped ==
    ASSUME NEW i \in Nat, NEW r \in BOOLEAN, NEW s \in {"read", "set"}, MenuAssumption
    PROVE  /\ AtTarget(i, s, r) \in WorkerRecords
           /\ AtTarget(i, s, r).at = "target" /\ AtTarget(i, s, r).i = i
           /\ AtTarget(i, s, r).stage = s
           /\ Waiting \in WorkerRecords /\ Waiting.at = "wait" /\ Waiting.stage = "read"
           /\ Retrying \in WorkerRecords /\ Retrying.at = "retry" /\ Retrying.stage = "read"
<1>1. 0 \in 0..MaxDecisions
  BY DEF MenuAssumption
<1>2. AtRest("target") \in WorkerRecords /\ AtRest("target").at = "target"
  BY <1>1 DEF WorkerRecords, AtRest
<1>3. AtTarget(i, s, r) \in WorkerRecords
  BY <1>2 DEF AtTarget, WorkerRecords
<1>4. /\ AtTarget(i, s, r).at = "target" /\ AtTarget(i, s, r).i = i
      /\ AtTarget(i, s, r).stage = s
  BY <1>2 DEF AtTarget, WorkerRecords
<1>5. Waiting \in WorkerRecords /\ Waiting.at = "wait" /\ Waiting.stage = "read"
  BY <1>1 DEF WorkerRecords, AtRest, Waiting
<1>6. Retrying \in WorkerRecords /\ Retrying.at = "retry" /\ Retrying.stage = "read"
  BY <1>1 DEF WorkerRecords, AtRest, Retrying
<1> QED
  BY <1>3, <1>4, <1>5, <1>6

\* A worker that begins a target, or waits.
LEMMA WorkerBegins ==
    ASSUME NEW i \in Nat \ {0}, NEW r \in BOOLEAN, MenuAssumption
    PROVE  /\ worker' \in {AtTarget(i, "read", r), Waiting, Retrying} => WorkerOK'
<1>1. SUFFICES ASSUME worker' \in {AtTarget(i, "read", r), Waiting, Retrying} PROVE WorkerOK'
  OBVIOUS
<1>2. worker' \in WorkerRecords
  BY <1>1, WorkerTyped
<1>3. worker'.stage = "read" /\ (worker'.at = "target" => worker'.i = i)
  BY <1>1, WorkerTyped
<1> QED
  BY <1>2, <1>3 DEF WorkerOK, InStage

LEMMA PassBegins ==
    ASSUME MenuAssumption, worker' \in {AtTarget(1, "read", FALSE), Waiting, Retrying}
    PROVE  WorkerOK'
<1>1. ASSUME NEW i \in Nat \ {0}, NEW r \in BOOLEAN, i = 1, r = FALSE PROVE WorkerOK'
  BY <1>1, WorkerBegins
<1>2. 1 \in Nat \ {0} /\ FALSE \in BOOLEAN
  OBVIOUS
<1> QED
  BY <1>1, <1>2

LEMMA NextTargetBegins ==
    ASSUME MenuAssumption, WorkerOK, NEW r \in BOOLEAN, worker' = NextTarget(r)
    PROVE  WorkerOK'
<1>1. worker.i + 1 \in Nat \ {0}
  BY DEF WorkerOK, WorkerRecords
<1> QED
  BY <1>1, WorkerBegins DEF NextTarget

LEMMA MenuInitial == MenuAssumption /\ MenuInit => MenuInv
<1> SUFFICES ASSUME MenuAssumption, MenuInit PROVE MenuInv
  OBVIOUS
<1>1. MenuStore
  <2>1. 0 \in 0..MaxDecisions
    BY DEF MenuAssumption
  <2> QED
    BY <2>1, EmptySeq DEF MenuStore, MenuInit, LateRequests
<1>2. MenuContacts
  <2>1. contact \in [Contacts -> ContactRows]
    BY DEF MenuInit, ContactRows
  <2> QED
    BY <2>1 DEF MenuContacts, MenuInit
<1>3. MenuCleaned
  BY DEF MenuCleaned, MenuInit
<1>4. WorkerOK
  <2>1. worker \in WorkerRecords
    BY WorkerTyped DEF MenuInit, Pass
  <2>2. worker.stage = "read" /\ worker.i = 1
    BY WorkerTyped DEF MenuInit, Pass
  <2> QED
    BY <2>1, <2>2 DEF WorkerOK, InStage
<1> QED
  BY <1>1, <1>2, <1>3, <1>4 DEF MenuInv

\* What Telegram does with the worker's request.
LEMMA EffectKeeps ==
    ASSUME MenuAssumption, MenuInv, InStage("asked"), Effect
    PROVE  /\ menu' \in [Targets -> 0..MaxDecisions] /\ override' \in [Targets -> BOOLEAN]
           /\ \A t \in Targets : ~override[t] => ~override'[t]
           /\ worker.doing = "clear" => ~override'[Target]
<1>1. worker.at = "target" /\ worker.stage = "asked" /\ worker \in WorkerRecords /\ WorkerOK
  BY DEF MenuInv, WorkerOK, InStage
<1>2. Target \in Targets
  <2>1. worker.i <= Len(TargetOrder)
    BY <1>1 DEF WorkerOK
  <2> QED
    BY <1>1, <2>1, TargetIsTarget
<1>3. worker.version \in 0..MaxDecisions /\ worker.doing \in {"clear", "set"}
  BY <1>1 DEF WorkerOK, WorkerRecords, InStage
<1>4. menu \in [Targets -> 0..MaxDecisions] /\ override \in [Targets -> BOOLEAN]
  BY DEF MenuInv, MenuStore
<1>5. CASE worker.doing = "set"
  BY <1>2, <1>3, <1>4, <1>5 DEF Effect
<1>6. CASE worker.doing = "clear"
  BY <1>2, <1>3, <1>4, <1>6 DEF Effect
<1> QED
  BY <1>3, <1>5, <1>6

\* The worker notes what it heard of its request.
LEMMA HeardKeeps ==
    ASSUME MenuInv, InStage("asked"), NEW a \in {"ok", "chat", "target", "retry", "limited"}, Heard(a),
           a = "ok" /\ worker.doing = "clear" => ~override'[Target]
    PROVE  WorkerOK'
<1>1. worker.at = "target" /\ worker.stage = "asked" /\ worker \in WorkerRecords /\ WorkerOK
  BY DEF MenuInv, WorkerOK, InStage
<1>2. worker' = [worker EXCEPT !.stage = "answered", !.answer = a]
  BY DEF Heard
<1>3. worker' \in WorkerRecords
  BY <1>1, <1>2 DEF WorkerRecords
<1>4. /\ worker'.at = "target" /\ worker'.stage = "answered" /\ worker'.answer = a
      /\ worker'.i = worker.i /\ worker'.doing = worker.doing
  BY <1>1, <1>2 DEF WorkerRecords
<1>5. Target' = Target
  BY <1>4 DEF Target
<1>6. worker.i # 0 /\ worker.i <= Len(TargetOrder)
  BY <1>1 DEF WorkerOK
<1> QED
  BY <1>3, <1>4, <1>5, <1>6 DEF WorkerOK, InStage

LEMMA DecideKeeps ==
    ASSUME MenuAssumption, MenuInv, NEW t \in Targets, Decide(t)
    PROVE  MenuInv'
<1>1. MenuStore'
  <2>1. due[t] + 1 \in 0..MaxDecisions
    BY DEF MenuInv, MenuStore, Decide, MenuAssumption
  <2> QED
    BY <2>1 DEF MenuInv, MenuStore, Decide
<1>2. MenuContacts'
  BY DEF MenuInv, MenuContacts, Decide
<1>3. MenuCleaned'
  BY DEF MenuInv, MenuCleaned, Decide
<1>4. WorkerOK'
  BY DEF MenuInv, WorkerOK, Decide, InStage, Target
<1> QED
  BY <1>1, <1>2, <1>3, <1>4 DEF MenuInv

LEMMA MoveKeeps ==
    ASSUME MenuInv, NEW c \in Contacts, Move(c)
    PROVE  MenuInv'
<1>1. MenuStore'
  BY DEF MenuInv, MenuStore, Move
<1>2. MenuContacts'
  <2>1. moves \in [Contacts -> Nat] /\ contact \in [Contacts -> ContactRows]
    BY DEF MenuInv, MenuContacts
  <2>2. moves' \in [Contacts -> Nat] /\ \A d \in Contacts : moves[d] <= moves'[d]
    BY <2>1 DEF Move
  <2>3. \A d \in Contacts : contact[d].seen \in Nat
    BY <2>1 DEF ContactRows
  <2>4. \A d \in Contacts : contact[d].seen <= moves[d]
    BY DEF MenuInv, MenuContacts
  <2>5. \A d \in Contacts : contact[d].seen <= moves'[d]
    BY <2>1, <2>2, <2>3, <2>4
  <2> QED
    BY <2>1, <2>2, <2>5 DEF MenuContacts, Move
<1>3. MenuCleaned'
  BY DEF MenuInv, MenuCleaned, Move
<1>4. WorkerOK'
  BY DEF MenuInv, WorkerOK, Move, InStage, Target
<1> QED
  BY <1>1, <1>2, <1>3, <1>4 DEF MenuInv

LEMMA EvidenceTyped ==
    ASSUME NEW k \in Nat, NEW n \in Nat
    PROVE  LET row == [revision |-> n, unavailable |-> ~Returned(k), seen |-> k] IN
           row \in ContactRows /\ row.seen = k
<1>1. (~Returned(k)) \in BOOLEAN
  <2>1. CASE Returned(k)
    BY <2>1
  <2>2. CASE ~Returned(k)
    BY <2>2
  <2> QED
    BY <2>1, <2>2
<1> QED
  BY <1>1 DEF ContactRows

LEMMA ObserveKeeps ==
    ASSUME MenuInv, NEW c \in Contacts, NEW k \in 1..moves[c], ObserveContact(c, k)
    PROVE  MenuInv'
<1>0. moves \in [Contacts -> Nat] /\ contact \in [Contacts -> ContactRows]
  BY DEF MenuInv, MenuContacts
<1>1. MenuStore'
  BY DEF MenuInv, MenuStore, ObserveContact
<1>2. MenuContacts'
  <2>1. CASE k <= contact[c].seen
    BY <2>1 DEF MenuInv, MenuContacts, ObserveContact
  <2>2. CASE ~(k <= contact[c].seen)
    <3> DEFINE row == [revision |-> contact[c].revision + 1, unavailable |-> ~Returned(k), seen |-> k]
    <3>1. contact' = [contact EXCEPT ![c] = row] /\ moves' = moves
      BY <2>2 DEF ObserveContact
    <3>2. row \in ContactRows /\ row.seen = k
      <4>1. k \in Nat /\ contact[c].revision + 1 \in Nat
        BY <1>0 DEF ContactRows
      <4> QED
        BY <4>1, EvidenceTyped
    <3>3. k <= moves[c]
      BY <1>0
    <3> HIDE DEF row
    <3>4. contact' \in [Contacts -> ContactRows]
      BY <1>0, <3>1, <3>2
    <3>5. ASSUME NEW d \in Contacts PROVE contact'[d].seen <= moves'[d]
      <4>1. CASE d = c
        BY <4>1, <1>0, <3>1, <3>2, <3>3
      <4>2. CASE d # c
        BY <4>2, <1>0, <3>1 DEF MenuInv, MenuContacts
      <4> QED
        BY <4>1, <4>2
    <3> QED
      BY <1>0, <3>1, <3>4, <3>5 DEF MenuContacts
  <2> QED
    BY <2>1, <2>2
<1>3. MenuCleaned'
  <2>1. dirty' \in BOOLEAN
    <3>1. CASE k <= contact[c].seen
      BY <3>1 DEF MenuInv, MenuCleaned, ObserveContact
    <3>2. CASE ~(k <= contact[c].seen)
      BY <3>2 DEF ObserveContact
    <3> QED
      BY <3>1, <3>2
  <2> QED
    BY <2>1 DEF MenuInv, MenuCleaned, ObserveContact
<1>4. WorkerOK'
  BY DEF MenuInv, WorkerOK, ObserveContact, InStage, Target
<1> QED
  BY <1>1, <1>2, <1>3, <1>4 DEF MenuInv

LEMMA LateKeeps ==
    ASSUME MenuInv, LateRequestApplied
    PROVE  MenuInv'
<1>1. MenuStore'
  <2>1. late \in LateRequests /\ late # <<>> /\ late' = Tail(late)
    BY DEF MenuInv, MenuStore, LateRequestApplied
  <2>2. Head(late) \in [target : Targets, version : 0..MaxDecisions] /\ late' \in LateRequests
    <3> DEFINE R == [target : Targets, version : 0..MaxDecisions]
    <3>1. late \in Seq(R)
      BY <2>1 DEF LateRequests
    <3> HIDE DEF R
    <3>2. Head(late) \in R /\ Tail(late) \in Seq(R)
      BY <2>1, <3>1, HeadTailProperties
    <3> QED
      BY <2>1, <3>2 DEF R, LateRequests
  <2>3. menu' \in [Targets -> 0..MaxDecisions]
    BY <2>2 DEF MenuInv, MenuStore, LateRequestApplied
  <2> QED
    BY <2>2, <2>3 DEF MenuInv, MenuStore, LateRequestApplied
<1>2. MenuContacts'
  BY DEF MenuInv, MenuContacts, LateRequestApplied
<1>3. MenuCleaned'
  BY DEF MenuInv, MenuCleaned, LateRequestApplied
<1>4. WorkerOK'
  BY DEF MenuInv, WorkerOK, LateRequestApplied, InStage, Target
<1> QED
  BY <1>1, <1>2, <1>3, <1>4 DEF MenuInv

\* The steps that leave the menus and the contacts alone.
LEMMA StoreStays ==
    ASSUME MenuInv, UNCHANGED <<due, menu, override, late, moves, contact>>
    PROVE  MenuStore' /\ MenuContacts'
<1>1. MenuStore'
  BY DEF MenuInv, MenuStore
<1>2. MenuContacts'
  BY DEF MenuInv, MenuContacts
<1> QED
  BY <1>1, <1>2

LEMMA PassKeeps ==
    ASSUME MenuAssumption, MenuInv, Wake \/ PassEnds \/ RestartBot
    PROVE  MenuInv'
<1>1. MenuStore' /\ MenuContacts'
  BY StoreStays DEF Wake, PassEnds, RestartBot
<1>2. MenuCleaned'
  BY DEF MenuInv, MenuCleaned, Wake, PassEnds, RestartBot
<1>3. WorkerOK'
  <2>1. worker' \in {AtTarget(1, "read", FALSE), Waiting, Retrying}
    BY DEF Wake, PassEnds, RestartBot, Pass
  <2> QED
    BY <2>1, PassBegins
<1> QED
  BY <1>1, <1>2, <1>3 DEF MenuInv

LEMMA ReadKeeps ==
    ASSUME MenuAssumption, MenuInv, ReadTarget
    PROVE  MenuInv'
<1>1. MenuStore' /\ MenuContacts'
  BY StoreStays DEF ReadTarget
<1>2. MenuCleaned'
  BY DEF MenuInv, MenuCleaned, ReadTarget
<1>3. WorkerOK'
  <2>1. worker.at = "target" /\ worker \in WorkerRecords /\ WorkerOK /\ worker.i <= Len(TargetOrder)
    BY DEF MenuInv, WorkerOK, ReadTarget, InStage
  <2>2. due[Target] \in 0..MaxDecisions
    BY <2>1, TargetIsTarget DEF MenuInv, MenuStore
  <2>3. worker' = [worker EXCEPT !.stage = "clear", !.version = due[Target]]
    BY DEF ReadTarget
  <2>4. worker' \in WorkerRecords
    BY <2>1, <2>2, <2>3 DEF WorkerRecords
  <2>5. worker'.stage = "clear" /\ worker'.i = worker.i /\ worker'.at = "target"
    BY <2>1, <2>3 DEF WorkerRecords
  <2>6. worker.i # 0
    BY <2>1 DEF WorkerOK
  <2> QED
    BY <2>1, <2>4, <2>5, <2>6 DEF WorkerOK, InStage
<1> QED
  BY <1>1, <1>2, <1>3 DEF MenuInv

LEMMA AskKeeps ==
    ASSUME MenuAssumption, MenuInv, Ask
    PROVE  MenuInv'
<1>1. MenuStore' /\ MenuContacts'
  BY StoreStays DEF Ask
<1>2. MenuCleaned'
  BY DEF MenuInv, MenuCleaned, Ask
<1>3. WorkerOK'
  <2>1. /\ worker.at = "target" /\ worker.stage \in {"clear", "set"} /\ worker \in WorkerRecords
        /\ WorkerOK /\ worker.i <= Len(TargetOrder) /\ worker.i # 0
    BY DEF MenuInv, WorkerOK, Ask, InStage
  <2>2. Target \in Contacts /\ ChatOf[Target] \in Contacts
    BY <2>1, TargetIsTarget, ChatIsContact
  <2>3. contact[Target].revision \in Nat /\ contact[ChatOf[Target]].revision \in Nat
    <3>1. \A c \in Contacts : contact[c].revision \in Nat
      BY DEF MenuInv, MenuContacts, ContactRows
    <3> QED
      BY <2>2, <3>1
  <2>4. worker.retry \in BOOLEAN
    BY <2>1 DEF WorkerRecords
  <2>5. CASE worker' = NextTarget(worker.retry)
    BY <2>1, <2>4, <2>5, NextTargetBegins
  <2>6. CASE worker' = [worker EXCEPT !.stage = "set"]
    <3>1. worker' \in WorkerRecords
      BY <2>1, <2>6 DEF WorkerRecords
    <3>2. worker'.stage = "set" /\ worker'.i = worker.i /\ worker'.at = "target"
      BY <2>1, <2>6 DEF WorkerRecords
    <3> QED
      BY <2>1, <3>1, <3>2 DEF WorkerOK, InStage
  <2>7. CASE worker' = [worker EXCEPT !.stage = "asked", !.doing = worker.stage,
                            !.revision = contact[Target].revision,
                            !.chatRevision = contact[ChatOf[Target]].revision]
    <3>1. worker' \in WorkerRecords
      BY <2>1, <2>3, <2>7 DEF WorkerRecords
    <3>2. /\ worker'.stage = "asked" /\ worker'.i = worker.i /\ worker'.at = "target"
          /\ worker'.doing = worker.stage
      BY <2>1, <2>7 DEF WorkerRecords
    <3> QED
      BY <2>1, <3>1, <3>2 DEF WorkerOK, InStage
  <2> QED
    BY <2>5, <2>6, <2>7 DEF Ask
<1> QED
  BY <1>1, <1>2, <1>3 DEF MenuInv

LEMMA RequestKeeps ==
    ASSUME MenuAssumption, MenuInv, TelegramApplies \/ TelegramRefuses \/ RequestFails
    PROVE  MenuInv'
<1>0. /\ InStage("asked") /\ worker \in WorkerRecords /\ WorkerOK
      /\ due' = due /\ cleaned' = cleaned /\ moves' = moves /\ contact' = contact /\ dirty' = dirty
  BY DEF MenuInv, WorkerOK, TelegramApplies, TelegramRefuses, RequestFails
<1>1. MenuContacts'
  BY <1>0 DEF MenuInv, MenuContacts
<1>2. ASSUME Effect, late' = late PROVE MenuStore' /\ MenuCleaned'
  <2>1. MenuStore'
    BY <1>0, <1>2, EffectKeeps DEF MenuInv, MenuStore
  <2>2. MenuCleaned'
    BY <1>0, <1>2, EffectKeeps DEF MenuInv, MenuCleaned
  <2> QED
    BY <2>1, <2>2
<1>3. ASSUME menu' = menu, override' = override, late' \in LateRequests PROVE MenuStore' /\ MenuCleaned'
  BY <1>0, <1>3 DEF MenuInv, MenuStore, MenuCleaned
<1>4. late \in LateRequests
  BY DEF MenuInv, MenuStore
<1>5. CASE TelegramApplies
  <2>1. Effect /\ late' = late /\ Heard("ok")
    BY <1>5 DEF TelegramApplies
  <2>2. WorkerOK'
    BY <1>0, <2>1, EffectKeeps, HeardKeeps
  <2> QED
    BY <1>1, <1>2, <2>1, <2>2 DEF MenuInv
<1>6. CASE TelegramRefuses
  <2>1. /\ menu' = menu /\ override' = override /\ late' = late
        /\ Heard(IF Away(ChatOf[Target]) THEN "chat" ELSE "target")
    BY <1>6 DEF TelegramRefuses
  <2>2. WorkerOK'
    <3>1. CASE Heard("chat")
      BY <1>0, <3>1, HeardKeeps
    <3>2. CASE Heard("target")
      BY <1>0, <3>2, HeardKeeps
    <3> QED
      BY <2>1, <3>1, <3>2
  <2> QED
    BY <1>1, <1>3, <1>4, <2>1, <2>2 DEF MenuInv
<1>7. CASE RequestFails
  <2>1. WorkerOK'
    <3>1. CASE Heard("retry")
      BY <1>0, <3>1, HeardKeeps
    <3>2. CASE Heard("limited")
      BY <1>0, <3>2, HeardKeeps
    <3> QED
      BY <1>7, <3>1, <3>2 DEF RequestFails
  <2>2. \/ Effect /\ late' = late
        \/ menu' = menu /\ override' = override /\ late' = late
        \/ /\ menu' = menu /\ override' = override
           /\ late' = Append(late, [target |-> Target, version |-> worker.version])
    BY <1>7 DEF RequestFails
  <2>3. [target |-> Target, version |-> worker.version] \in [target : Targets, version : 0..MaxDecisions]
    <3>1. worker.i <= Len(TargetOrder) /\ worker.at = "target"
      BY <1>0 DEF WorkerOK, InStage
    <3>2. Target \in Targets /\ worker.version \in 0..MaxDecisions
      BY <1>0, <3>1, TargetIsTarget DEF WorkerRecords
    <3> QED
      BY <3>2
  <2>4. Append(late, [target |-> Target, version |-> worker.version]) \in LateRequests
    BY <1>4, <2>3 DEF LateRequests
  <2>5. MenuStore' /\ MenuCleaned'
    <3>1. CASE Effect /\ late' = late
      BY <1>2, <3>1
    <3>2. CASE menu' = menu /\ override' = override /\ late' = late
      BY <1>3, <1>4, <3>2
    <3>3. CASE /\ menu' = menu /\ override' = override
               /\ late' = Append(late, [target |-> Target, version |-> worker.version])
      BY <1>3, <2>4, <3>3
    <3> QED
      BY <2>2, <3>1, <3>2, <3>3
  <2> QED
    BY <1>1, <2>1, <2>5 DEF MenuInv
<1> QED
  BY <1>5, <1>6, <1>7

LEMMA ProceedKeeps ==
    ASSUME MenuAssumption, MenuInv, Proceed
    PROVE  MenuInv'
<1>0. /\ worker.at = "target" /\ worker.stage = "answered" /\ worker.answer = "ok" /\ InStage("answered")
      /\ worker \in WorkerRecords /\ WorkerOK /\ worker.i <= Len(TargetOrder) /\ worker.i # 0
  BY DEF MenuInv, WorkerOK, Proceed, InStage
<1>1. MenuStore' /\ MenuContacts'
  BY StoreStays DEF Proceed
<1>2. MenuCleaned'
  <2>1. CASE worker.doing = "clear"
    <3>1. ~override[Target] /\ Target \in Targets
      BY <1>0, <2>1, TargetIsTarget DEF WorkerOK
    <3>2. cleaned' = cleaned \cup {Target} /\ dirty' = dirty /\ override' = override
      BY <2>1 DEF Proceed
    <3> QED
      BY <3>1, <3>2 DEF MenuInv, MenuCleaned
  <2>2. CASE worker.doing # "clear"
    BY <2>2 DEF MenuInv, MenuCleaned, Proceed
  <2> QED
    BY <2>1, <2>2
<1>3. WorkerOK'
  <2>1. worker.retry \in BOOLEAN /\ worker.i \in Nat /\ worker.version \in 0..MaxDecisions
    BY <1>0 DEF WorkerRecords
  <2>2. CASE worker' = NextTarget(worker.retry)
    BY <1>0, <2>1, <2>2, NextTargetBegins
  <2>3. CASE worker' = [AtTarget(worker.i, "set", worker.retry) EXCEPT !.version = worker.version]
    <3> DEFINE w == AtTarget(worker.i, "set", worker.retry)
    <3>1. w \in WorkerRecords /\ w.at = "target" /\ w.i = worker.i /\ w.stage = "set"
      BY <2>1, WorkerTyped
    <3> HIDE DEF w
    <3>2. worker' = [w EXCEPT !.version = worker.version]
      BY <2>3 DEF w
    <3>3. worker' \in WorkerRecords
      BY <2>1, <3>1, <3>2 DEF WorkerRecords
    <3>4. worker'.at = "target" /\ worker'.i = worker.i /\ worker'.stage = "set"
      BY <3>1, <3>2 DEF WorkerRecords
    <3> QED
      BY <1>0, <3>3, <3>4 DEF WorkerOK, InStage
  <2> QED
    BY <2>2, <2>3 DEF Proceed
<1> QED
  BY <1>1, <1>2, <1>3 DEF MenuInv

LEMMA RejectKeeps ==
    ASSUME MenuAssumption, MenuInv, RejectContact
    PROVE  MenuInv'
<1>0. /\ worker.at = "target" /\ worker \in WorkerRecords /\ WorkerOK /\ worker.i <= Len(TargetOrder)
      /\ worker' = NextTarget(worker.retry)
  BY DEF MenuInv, WorkerOK, RejectContact, InStage
<1>1. MenuStore'
  BY DEF MenuInv, MenuStore, RejectContact
<1>2. MenuContacts'
  <2> DEFINE c == IF worker.answer = "chat" THEN ChatOf[Target] ELSE Target
  <2>1. c \in Contacts
    BY <1>0, TargetIsTarget, ChatIsContact
  <2>2. moves' = moves /\ (contact' = contact \/
            contact' = [contact EXCEPT ![c].revision = @ + 1, ![c].unavailable = TRUE])
    BY DEF RejectContact
  <2> HIDE DEF c
  <2>3. contact \in [Contacts -> ContactRows]
    BY DEF MenuInv, MenuContacts
  <2>4. contact' \in [Contacts -> ContactRows]
    BY <2>1, <2>2, <2>3 DEF ContactRows
  <2>5. \A d \in Contacts : contact'[d].seen = contact[d].seen
    BY <2>1, <2>2, <2>3 DEF ContactRows
  <2> QED
    BY <2>2, <2>4, <2>5 DEF MenuInv, MenuContacts
<1>3. MenuCleaned'
  BY DEF MenuInv, MenuCleaned, RejectContact
<1>4. WorkerOK'
  <2>1. worker.retry \in BOOLEAN
    BY <1>0 DEF WorkerRecords
  <2> QED
    BY <1>0, <2>1, NextTargetBegins
<1> QED
  BY <1>1, <1>2, <1>3, <1>4 DEF MenuInv

LEMMA FailureKeeps ==
    ASSUME MenuAssumption, MenuInv, NoteFailure
    PROVE  MenuInv'
<1>1. MenuStore' /\ MenuContacts'
  BY StoreStays DEF NoteFailure
<1>2. MenuCleaned'
  BY DEF MenuInv, MenuCleaned, NoteFailure
<1>3. WorkerOK'
  <2>1. worker' = Retrying \/ worker' = NextTarget(TRUE)
    BY DEF NoteFailure
  <2>2. CASE worker' = Retrying
    <3>1. worker' \in {AtTarget(1, "read", FALSE), Waiting, Retrying}
      BY <2>2
    <3> QED
      BY <3>1, PassBegins
  <2>3. CASE worker' = NextTarget(TRUE)
    BY <2>3, NextTargetBegins DEF MenuInv
  <2> QED
    BY <2>1, <2>2, <2>3
<1> QED
  BY <1>1, <1>2, <1>3 DEF MenuInv

LEMMA MenuStep ==
    ASSUME MenuAssumption, MenuInv, [MenuNext]_menuVars
    PROVE  MenuInv'
<1>1. CASE UNCHANGED menuVars
  BY <1>1 DEF menuVars, MenuInv, MenuStore, MenuContacts, MenuCleaned, WorkerOK, InStage, Target
<1>2. CASE \E t \in Targets : Decide(t)
  BY <1>2, DecideKeeps
<1>3. CASE \E c \in Contacts : Move(c) \/ \E k \in 1..moves[c] : ObserveContact(c, k)
  BY <1>3, MoveKeeps, ObserveKeeps
<1>4. CASE LateRequestApplied
  BY <1>4, LateKeeps
<1>5. CASE WorkerStep
  BY <1>5, PassKeeps, ReadKeeps, AskKeeps, RequestKeeps, ProceedKeeps, RejectKeeps, FailureKeeps DEF WorkerStep
<1>6. CASE RestartBot
  BY <1>6, PassKeeps
<1> QED
  BY <1>1, <1>2, <1>3, <1>4, <1>5, <1>6 DEF MenuNext

\* The menus keep their types, an observation is never newer than what happened, and
\* an override the worker remembers as deleted is gone (yoink-telegram menus.rs).
THEOREM MenusTyped ==
    ASSUME MenuAssumption
    PROVE  MenuInit /\ [][MenuNext]_menuVars => []MenuTypeOK
<1>1. MenuInit => MenuInv
  BY MenuInitial
<1>2. MenuInv /\ [MenuNext]_menuVars => MenuInv'
  BY MenuStep
<1>3. MenuInv => MenuTypeOK
  BY DEF MenuInv, MenuStore, MenuContacts, MenuCleaned, MenuTypeOK
<1> QED
  BY <1>1, <1>2, <1>3, PTL

-----------------------------------------------------------------------------
(* Progress notices. *)

NoticeRows == [message : ProgressMessages \cup {"none"}, last : LastTexts, finished : BOOLEAN]
LoopRecords == [at : {"idle", "due", "input", "notice", "edit", "advance"}, row : NoticeRows,
                status : Statuses, text : LastTexts, finish : BOOLEAN]

\* The operation and what is counted.
OperationTyped ==
    /\ opStatus \in Statuses /\ opRetries \in 0..MaxOpRetries /\ inPrivate \in BOOLEAN
    /\ noticeFaults \in 0..MaxNoticeFaults /\ deniedStatus \in BOOLEAN

MessagesTyped ==
    /\ replyAt \in [Replies -> {"unsent", "sent", "over"}]
    /\ shown \in [ProgressMessages -> Statuses \cup {"absent", "text", "deleted"}]
    /\ unreachable \subseteq ProgressMessages

\* A row names a message, and so does the one the loop read.
NoticeTyped ==
    /\ notice \in NoticeRows /\ (notice # NoNotice => notice.message \in ProgressMessages)

LoopTyped ==
    /\ noticeLoop \in LoopRecords
    /\ noticeLoop.at # "idle" => noticeLoop.row.message \in ProgressMessages

ProgressInv == OperationTyped /\ MessagesTyped /\ NoticeTyped /\ LoopTyped

LEMMA IdleTyped ==
    /\ NoticeIdle \in LoopRecords /\ NoticeIdle.at = "idle"
    /\ NoNotice \in NoticeRows
<1>1. NoNotice \in NoticeRows
  BY DEF NoNotice, NoticeRows, LastTexts
<1>2. "queued" \in Statuses /\ "none" \in LastTexts
  BY DEF Statuses, Working, LastTexts
<1> QED
  BY <1>1, <1>2 DEF NoticeIdle, LoopRecords

LEMMA NoticesTyped ==
    ASSUME NEW m \in ProgressMessages, NEW l \in LastTexts, NEW f \in BOOLEAN
    PROVE  Notice(m, l, f) \in NoticeRows /\ Notice(m, l, f).message = m
BY DEF Notice, NoticeRows

LEMMA ProgressInitial == ASSUME ProgressAssumption, ProgressInit PROVE ProgressInv
<1>1. OperationTyped
  <2>1. opStatus \in Statuses /\ inPrivate \in BOOLEAN
    BY DEF ProgressInit, Statuses, Working
  <2>2. opRetries \in 0..MaxOpRetries /\ noticeFaults \in 0..MaxNoticeFaults
    BY DEF ProgressInit, ProgressAssumption
  <2>3. deniedStatus \in BOOLEAN
    BY DEF ProgressInit
  <2> QED
    BY <2>1, <2>2, <2>3 DEF OperationTyped
<1>2. MessagesTyped
  BY DEF MessagesTyped, ProgressInit, ProgressMessages
<1>3. NoticeTyped
  <2>1. "input" \in ProgressMessages /\ "marker" \in LastTexts
    BY DEF ProgressMessages, LastTexts
  <2>2. CASE inPrivate
    <3>1. notice = Notice("input", "marker", FALSE)
      BY <2>2 DEF ProgressInit
    <3> QED
      BY <2>1, <3>1, NoticesTyped DEF NoticeTyped
  <2>3. CASE ~inPrivate
    BY <2>3, IdleTyped DEF NoticeTyped, ProgressInit
  <2> QED
    BY <2>2, <2>3
<1>4. LoopTyped
  BY IdleTyped DEF LoopTyped, ProgressInit
<1> QED
  BY <1>1, <1>2, <1>3, <1>4 DEF ProgressInv

\* The loop goes on to the call of advance.
LEMMA AdvancesTyped ==
    ASSUME LoopTyped, noticeLoop.at # "idle", NEW t \in LastTexts, NEW f \in BOOLEAN,
           NoticeAdvances(t, f)
    PROVE  LoopTyped'
<1>1. noticeLoop' = [noticeLoop EXCEPT !.at = "advance", !.text = t, !.finish = f]
  BY DEF NoticeAdvances
<1>2. noticeLoop' \in LoopRecords /\ noticeLoop'.row = noticeLoop.row
  BY <1>1 DEF LoopTyped, LoopRecords
<1> QED
  BY <1>2 DEF LoopTyped

\* The loop goes on to a request, with the status it holds or the one it read.
LEMMA GoesTyped ==
    ASSUME LoopTyped, noticeLoop.at # "idle", NEW a \in {"input", "notice", "edit"}, NEW s \in Statuses,
           noticeLoop' = [noticeLoop EXCEPT !.at = a, !.status = s] \/ noticeLoop' = [noticeLoop EXCEPT !.at = a]
    PROVE  LoopTyped'
<1>1. noticeLoop' \in LoopRecords /\ noticeLoop'.row = noticeLoop.row
  BY DEF LoopTyped, LoopRecords
<1> QED
  BY <1>1 DEF LoopTyped

LEMMA TerminalTyped == \A s : NoticeTerminal(s) \in BOOLEAN
BY DEF NoticeTerminal

LEMMA OperationMovesKeeps == ASSUME ProgressAssumption, ProgressInv, OperationMoves PROVE ProgressInv'
<1>1. OperationTyped'
  <2>1. opStatus' \in Statuses
    BY DEF OperationMoves, Statuses, Working, Outcomes
  <2>2. opRetries' \in 0..MaxOpRetries
    BY DEF ProgressInv, OperationTyped, OperationMoves, ProgressAssumption
  <2> QED
    BY <2>1, <2>2 DEF ProgressInv, OperationTyped, OperationMoves
<1>2. MessagesTyped'
  BY DEF ProgressInv, MessagesTyped, OperationMoves
<1>3. NoticeTyped' /\ LoopTyped'
  BY DEF ProgressInv, NoticeTyped, LoopTyped, OperationMoves
<1> QED
  BY <1>1, <1>2, <1>3 DEF ProgressInv

LEMMA ReplyKeeps ==
    ASSUME ProgressInv, NEW r \in Replies, ReplySent(r) \/ RegisterReply(r)
    PROVE  ProgressInv'
<1>1. OperationTyped' /\ LoopTyped'
  BY DEF ProgressInv, OperationTyped, LoopTyped, ReplySent, RegisterReply
<1>2. MessagesTyped'
  <2>1. replyAt' \in [Replies -> {"unsent", "sent", "over"}]
    BY DEF ProgressInv, MessagesTyped, ReplySent, RegisterReply
  <2>2. "queued" \in Statuses
    BY DEF Statuses, Working
  <2>3. shown' \in [ProgressMessages -> Statuses \cup {"absent", "text", "deleted"}]
    BY <2>2 DEF ProgressInv, MessagesTyped, ReplySent, RegisterReply
  <2> QED
    BY <2>1, <2>3 DEF ProgressInv, MessagesTyped, ReplySent, RegisterReply
<1>3. NoticeTyped'
  <2>1. CASE notice' = notice
    BY <2>1 DEF ProgressInv, NoticeTyped
  <2>2. CASE notice' = Notice(r, "none", FALSE)
    <3>1. r \in ProgressMessages /\ "none" \in LastTexts
      BY DEF ProgressMessages, LastTexts
    <3> QED
      BY <2>2, <3>1, NoticesTyped DEF NoticeTyped
  <2> QED
    BY <2>1, <2>2 DEF ReplySent, RegisterReply, ReplyRegistered
<1> QED
  BY <1>1, <1>2, <1>3 DEF ProgressInv

LEMMA FaultTyped ==
    ASSUME ProgressAssumption, OperationTyped, NoticeFault \/ noticeFaults' = noticeFaults, LoopStays,
           deniedStatus' \in BOOLEAN
    PROVE  OperationTyped'
BY DEF OperationTyped, NoticeFault, LoopStays, ProgressAssumption

\* The loop reads the row and the operation.
LEMMA ReadingKeeps ==
    ASSUME ProgressAssumption, ProgressInv, DueNotice \/ StatusRead \/ StatusDenied \/ StatusFails
    PROVE  ProgressInv'
<1>1. OperationTyped'
  <2>1. deniedStatus' \in BOOLEAN
    BY DEF ProgressInv, OperationTyped, DueNotice, StatusRead, StatusDenied, StatusFails, NoticeUntouched
  <2> QED
    BY <2>1, FaultTyped DEF ProgressInv, DueNotice, StatusRead, StatusDenied, StatusFails
<1>2. MessagesTyped' /\ NoticeTyped'
  BY DEF ProgressInv, MessagesTyped, NoticeTyped, DueNotice, StatusRead, StatusDenied, StatusFails,
         NoticeUntouched, LoopStays
<1>3. LoopTyped'
  <2>0. "none" \in LastTexts /\ LoopTyped /\ opStatus \in Statuses
    BY DEF LastTexts, ProgressInv, OperationTyped
  <2>1. CASE DueNotice
    <3>1. notice \in NoticeRows /\ notice.message \in ProgressMessages
      BY <2>1 DEF ProgressInv, NoticeTyped, DueNotice
    <3>2. noticeLoop' = [NoticeIdle EXCEPT !.at = "due", !.row = notice]
      BY <2>1 DEF DueNotice
    <3>3. noticeLoop' \in LoopRecords /\ noticeLoop'.row = notice
      BY <3>1, <3>2, IdleTyped DEF LoopRecords
    <3> QED
      BY <3>1, <3>3 DEF LoopTyped
  <2>2. CASE StatusRead
    <3>1. noticeLoop.at # "idle"
      BY <2>2 DEF StatusRead
    <3>2. \/ \E a \in {"input", "notice", "edit"} :
                 noticeLoop' = [noticeLoop EXCEPT !.at = a, !.status = opStatus]
          \/ NoticeAdvances("none", NoticeTerminal(opStatus))
      BY <2>2 DEF StatusRead
    <3> QED
      BY <2>0, <3>1, <3>2, GoesTyped, AdvancesTyped, TerminalTyped
  <2>3. CASE StatusDenied \/ StatusFails
    <3>1. noticeLoop.at # "idle" /\ (NoticeAdvances("none", TRUE) \/ NoticeAdvances("none", FALSE))
      BY <2>3 DEF StatusDenied, StatusFails
    <3> QED
      BY <2>0, <3>1, AdvancesTyped
  <2> QED
    BY <2>1, <2>2, <2>3
<1> QED
  BY <1>1, <1>2, <1>3 DEF ProgressInv

LEMMA DoomedIsMessage ==
    ASSUME LoopTyped, noticeLoop.at \in {"input", "notice"}
    PROVE  Doomed \in ProgressMessages
BY DEF LoopTyped, Doomed, ProgressMessages

LEMMA AfterRemovalTyped ==
    ASSUME LoopTyped, noticeLoop.at \in {"input", "notice"}, AfterRemoval
    PROVE  LoopTyped'
<1>1. "none" \in LastTexts /\ "empty" \in LastTexts
  BY DEF LastTexts
<1>2. noticeLoop.status \in Statuses
  BY DEF LoopTyped, LoopRecords
<1>3. CASE noticeLoop' = [noticeLoop EXCEPT !.at = "notice"]
  BY <1>2, <1>3, GoesTyped
<1>4. CASE NoticeAdvances("none", TRUE)
  BY <1>1, <1>4, AdvancesTyped
<1>5. CASE NoticeAdvances("empty", TRUE)
  BY <1>1, <1>5, AdvancesTyped
<1> QED
  BY <1>3, <1>4, <1>5 DEF AfterRemoval

\* The loop deletes a message.
LEMMA DeletingKeeps ==
    ASSUME ProgressAssumption, ProgressInv, MessageDeleted \/ DeletionRefused \/ DeletionRetried
    PROVE  ProgressInv'
<1>0. LoopTyped /\ noticeLoop.at \in {"input", "notice"} /\ noticeLoop.at # "idle"
  BY DEF ProgressInv, MessageDeleted, DeletionRefused, DeletionRetried
<1>1. OperationTyped'
  <2>1. deniedStatus' \in BOOLEAN
    BY DEF ProgressInv, OperationTyped, MessageDeleted, DeletionRefused, DeletionRetried
  <2> QED
    BY <2>1, FaultTyped DEF ProgressInv, MessageDeleted, DeletionRefused, DeletionRetried
<1>2. MessagesTyped'
  <2>1. Doomed \in ProgressMessages
    BY <1>0, DoomedIsMessage
  <2>2. shown' \in {shown, [shown EXCEPT ![Doomed] = "deleted"]}
    BY DEF MessageDeleted, DeletionRefused, DeletionRetried
  <2>3. unreachable' \in {unreachable, unreachable \cup {Doomed}} /\ replyAt' = replyAt
    BY DEF MessageDeleted, DeletionRefused, DeletionRetried, LoopStays
  <2>4. shown' \in [ProgressMessages -> Statuses \cup {"absent", "text", "deleted"}]
    BY <2>2 DEF ProgressInv, MessagesTyped
  <2> QED
    BY <2>1, <2>3, <2>4 DEF ProgressInv, MessagesTyped
<1>3. NoticeTyped'
  BY DEF ProgressInv, NoticeTyped, MessageDeleted, DeletionRefused, DeletionRetried
<1>4. LoopTyped'
  <2>1. CASE AfterRemoval
    BY <1>0, <2>1, AfterRemovalTyped
  <2>2. CASE NoticeAdvances("none", FALSE)
    <3>1. "none" \in LastTexts
      BY DEF LastTexts
    <3> QED
      BY <1>0, <2>2, <3>1, AdvancesTyped
  <2> QED
    BY <2>1, <2>2 DEF MessageDeleted, DeletionRefused, DeletionRetried
<1> QED
  BY <1>1, <1>2, <1>3, <1>4 DEF ProgressInv

\* The loop edits a message.
LEMMA EditingKeeps ==
    ASSUME ProgressAssumption, ProgressInv, EditAcknowledged \/ EditStopped \/ EditRetried
    PROVE  ProgressInv'
<1>0. /\ LoopTyped /\ noticeLoop.at = "edit" /\ noticeLoop.at # "idle"
      /\ noticeLoop.status \in Statuses /\ noticeLoop.row.message \in ProgressMessages
  BY DEF ProgressInv, LoopTyped, LoopRecords, EditAcknowledged, EditStopped, EditRetried
<1>1. OperationTyped'
  <2>1. deniedStatus' \in BOOLEAN
    BY DEF ProgressInv, OperationTyped, EditAcknowledged, EditStopped, EditRetried
  <2>2. NoticeFault \/ noticeFaults' = noticeFaults
    BY DEF EditAcknowledged, EditStopped, EditRetried
  <2> QED
    BY <2>1, <2>2, FaultTyped DEF ProgressInv, EditAcknowledged, EditStopped, EditRetried
<1>2. MessagesTyped'
  <2>1. shown' = shown \/ shown' = NoticeEdited
    BY DEF EditAcknowledged, EditStopped, EditRetried
  <2>2. unreachable' \in {unreachable, unreachable \cup {noticeLoop.row.message}} /\ replyAt' = replyAt
    BY DEF EditAcknowledged, EditStopped, EditRetried, LoopStays
  <2>3. shown' \in [ProgressMessages -> Statuses \cup {"absent", "text", "deleted"}]
    BY <1>0, <2>1 DEF ProgressInv, MessagesTyped, NoticeEdited
  <2> QED
    BY <1>0, <2>2, <2>3 DEF ProgressInv, MessagesTyped
<1>3. NoticeTyped'
  BY DEF ProgressInv, NoticeTyped, EditAcknowledged, EditStopped, EditRetried
<1>4. LoopTyped'
  <2>1. /\ noticeLoop.status \in LastTexts /\ "empty" \in LastTexts /\ "none" \in LastTexts
        /\ NoticeTerminal(noticeLoop.status) \in BOOLEAN
    BY <1>0, TerminalTyped DEF LastTexts
  <2>2. \/ NoticeAdvances(noticeLoop.status, NoticeTerminal(noticeLoop.status))
        \/ NoticeAdvances("empty", NoticeTerminal(noticeLoop.status))
        \/ NoticeAdvances("none", FALSE)
    BY DEF EditAcknowledged, EditStopped, EditRetried
  <2> QED
    BY <1>0, <2>1, <2>2, AdvancesTyped
<1> QED
  BY <1>1, <1>2, <1>3, <1>4 DEF ProgressInv

LEMMA AdvanceKeeps ==
    ASSUME ProgressAssumption, ProgressInv, AdvanceNotice \/ AdvanceFails
    PROVE  ProgressInv'
<1>1. OperationTyped'
  <2>1. deniedStatus' \in BOOLEAN
    BY DEF ProgressInv, OperationTyped, AdvanceNotice, AdvanceFails, NoticeUntouched
  <2> QED
    BY <2>1, FaultTyped DEF ProgressInv, AdvanceNotice, AdvanceFails
<1>2. MessagesTyped'
  BY DEF ProgressInv, MessagesTyped, AdvanceNotice, AdvanceFails, NoticeUntouched, LoopStays
<1>3. NoticeTyped'
  <2>1. CASE notice' = notice
    BY <2>1 DEF ProgressInv, NoticeTyped
  <2>2. CASE NoticeMatches(noticeLoop.row) /\ AdvanceNotice
    <3>1. /\ notice' = [notice EXCEPT !.last = IF noticeLoop.text = "none" THEN @ ELSE noticeLoop.text,
                                      !.finished = noticeLoop.finish]
          /\ noticeLoop.at = "advance" /\ notice.message = noticeLoop.row.message
      BY <2>2 DEF AdvanceNotice, NoticeMatches
    <3>2. notice \in NoticeRows /\ noticeLoop.text \in LastTexts /\ noticeLoop.finish \in BOOLEAN
      BY DEF ProgressInv, NoticeTyped, LoopTyped, LoopRecords
    <3>3. noticeLoop.row.message \in ProgressMessages
      BY <3>1 DEF ProgressInv, LoopTyped
    <3>4. notice' \in NoticeRows /\ notice'.message = notice.message
      BY <3>1, <3>2 DEF NoticeRows
    <3> QED
      BY <3>1, <3>3, <3>4 DEF NoticeTyped
  <2> QED
    BY <2>1, <2>2 DEF AdvanceNotice, AdvanceFails, NoticeUntouched
<1>4. LoopTyped'
  BY IdleTyped DEF LoopTyped, AdvanceNotice, AdvanceFails
<1> QED
  BY <1>1, <1>2, <1>3, <1>4 DEF ProgressInv

LEMMA OutsideKeeps ==
    ASSUME ProgressAssumption, ProgressInv, ProgressCrash \/ \E r \in Replies : UserDeletes(r)
    PROVE  ProgressInv'
<1>1. OperationTyped'
  BY DEF ProgressInv, OperationTyped, ProgressCrash, UserDeletes, LoopStays, NoticeFault, ProgressAssumption
<1>2. MessagesTyped'
  BY DEF ProgressInv, MessagesTyped, ProgressCrash, UserDeletes, LoopStays
<1>3. NoticeTyped'
  BY DEF ProgressInv, NoticeTyped, ProgressCrash, UserDeletes
<1>4. LoopTyped'
  BY IdleTyped DEF ProgressInv, LoopTyped, ProgressCrash, UserDeletes
<1> QED
  BY <1>1, <1>2, <1>3, <1>4 DEF ProgressInv

LEMMA ProgressStep ==
    ASSUME ProgressAssumption, ProgressInv, [ProgressNext]_progressVars
    PROVE  ProgressInv'
<1>1. CASE UNCHANGED progressVars
  BY <1>1 DEF progressVars, ProgressInv, OperationTyped, MessagesTyped, NoticeTyped, LoopTyped
<1>2. CASE OperationMoves
  BY <1>2, OperationMovesKeeps
<1>3. CASE \E r \in Replies : ReplySent(r) \/ RegisterReply(r)
  BY <1>3, ReplyKeeps
<1>4. CASE DueNotice \/ StatusRead \/ StatusDenied \/ StatusFails
  BY <1>4, ReadingKeeps
<1>5. CASE MessageDeleted \/ DeletionRefused \/ DeletionRetried
  BY <1>5, DeletingKeeps
<1>6. CASE EditAcknowledged \/ EditStopped \/ EditRetried
  BY <1>6, EditingKeeps
<1>7. CASE AdvanceNotice \/ AdvanceFails
  BY <1>7, AdvanceKeeps
<1>8. CASE ProgressCrash \/ \E r \in Replies : UserDeletes(r)
  BY <1>8, OutsideKeeps
<1> QED
  BY <1>1, <1>2, <1>3, <1>4, <1>5, <1>6, <1>7, <1>8 DEF ProgressNext

-----------------------------------------------------------------------------
(* What a finished notice shows. *)

\* Telegram shows no more of the message than it will ever show.
Gone(m) == shown[m] = "deleted" \/ m \in unreachable
Shows(m) == shown[m] = (IF opStatus = "succeeded" THEN "deleted" ELSE opStatus) \/ Gone(m)
InputRemoved == opStatus = "succeeded" /\ inPrivate => Gone("input")

\* A row whose message was sent: the marker stands for the input alone, an empty text
\* for a message that cannot change any more.
RowTrue(row) ==
    /\ row.message = "input" <=> InputOnly(row)
    /\ row.last = "empty" => Gone(row.message)
    /\ \A r \in Replies : row.message = r => replyAt[r] # "unsent"

NoticeTrue ==
    notice # NoNotice =>
        /\ RowTrue(notice)
        /\ notice.last \in Outcomes => notice.finished
        /\ notice.finished /\ ~deniedStatus =>
               NoticeTerminal(opStatus) /\ InputRemoved /\ (InputOnly(notice) \/ Shows(notice.message))

\* What the loop read is an unfinished row; what it is about to do is due.
ReadTrue ==
    /\ RowTrue(noticeLoop.row) /\ noticeLoop.row.last \notin Outcomes
    /\ notice # NoNotice
    /\ notice.message = noticeLoop.row.message => ~notice.finished

RemovalTrue ==
    /\ opStatus = "succeeded" /\ (noticeLoop.at = "input" => inPrivate)
    /\ noticeLoop.at = "notice" => InputRemoved

EditTrue ==
    /\ ~InputOnly(noticeLoop.row) /\ noticeLoop.status # "succeeded"
    /\ NoticeTerminal(noticeLoop.status) => opStatus = noticeLoop.status

AdvanceTrue ==
    /\ noticeLoop.text # "marker" /\ (InputOnly(noticeLoop.row) => noticeLoop.text = "none")
    /\ noticeLoop.text \in Outcomes => noticeLoop.finish
    /\ noticeLoop.text = "empty" => Gone(noticeLoop.row.message)
    /\ noticeLoop.finish /\ ~deniedStatus =>
           /\ NoticeTerminal(opStatus) /\ InputRemoved
           /\ InputOnly(noticeLoop.row) \/ Shows(noticeLoop.row.message)

LoopTrue ==
    /\ noticeLoop.at # "idle" => ReadTrue
    /\ noticeLoop.at \in {"input", "notice"} => RemovalTrue
    /\ noticeLoop.at = "edit" => EditTrue
    /\ noticeLoop.at = "advance" => AdvanceTrue

ShownInv == ProgressInv /\ NoticeTrue /\ LoopTrue

\* What a step may do to a message that was sent, and never does to an outcome.
LEMMA MessagesStay ==
    ASSUME ProgressInv, [ProgressNext]_progressVars, NEW m \in ProgressMessages,
           \A r \in Replies : m = r => replyAt[r] # "unsent"
    PROVE  /\ \/ shown'[m] \in {shown[m], "deleted"}
              \/ noticeLoop.at = "edit" /\ noticeLoop.row.message = m /\ shown[m] # "deleted"
           /\ unreachable \subseteq unreachable'
           /\ \A r \in Replies : m = r => replyAt'[r] # "unsent"
<1>0. /\ shown \in [ProgressMessages -> Statuses \cup {"absent", "text", "deleted"}]
      /\ replyAt \in [Replies -> {"unsent", "sent", "over"}]
  BY DEF ProgressInv, MessagesTyped
<1>1. CASE UNCHANGED progressVars \/ OperationMoves
  BY <1>1 DEF progressVars, OperationMoves
<1>2. CASE \E r \in Replies : ReplySent(r) \/ RegisterReply(r)
  <2> PICK r \in Replies : ReplySent(r) \/ RegisterReply(r)
    BY <1>2
  <2>1. unreachable' = unreachable /\ \A q \in Replies : q # r => replyAt'[q] = replyAt[q]
    BY <1>0 DEF ReplySent, RegisterReply
  <2>2. replyAt'[r] # "unsent"
    BY <1>0 DEF ReplySent, RegisterReply
  <2>3. shown'[m] = shown[m]
    BY <1>0 DEF ReplySent, RegisterReply
  <2> QED
    BY <2>1, <2>2, <2>3
<1>3. CASE DueNotice \/ StatusRead \/ StatusDenied \/ StatusFails \/ AdvanceNotice \/ AdvanceFails
  BY <1>3 DEF DueNotice, StatusRead, StatusDenied, StatusFails, AdvanceNotice, AdvanceFails,
              NoticeUntouched, LoopStays
<1>4. CASE MessageDeleted \/ DeletionRefused \/ DeletionRetried
  <2>1. shown' \in {shown, [shown EXCEPT ![Doomed] = "deleted"]} /\ replyAt' = replyAt
    BY <1>4 DEF MessageDeleted, DeletionRefused, DeletionRetried, LoopStays
  <2>2. unreachable \subseteq unreachable'
    BY <1>4 DEF MessageDeleted, DeletionRefused, DeletionRetried
  <2> QED
    BY <1>0, <2>1, <2>2
<1>5. CASE EditAcknowledged \/ EditStopped \/ EditRetried
  <2>1. /\ noticeLoop.at = "edit" /\ replyAt' = replyAt
        /\ shown' = shown \/ (shown' = NoticeEdited /\ shown[noticeLoop.row.message] # "deleted")
    BY <1>5 DEF EditAcknowledged, EditStopped, EditRetried, LoopStays
  <2>2. unreachable \subseteq unreachable'
    BY <1>5 DEF EditAcknowledged, EditStopped, EditRetried
  <2> QED
    BY <1>0, <2>1, <2>2 DEF NoticeEdited
<1>6. CASE ProgressCrash
  BY <1>0, <1>6 DEF ProgressCrash
<1>7. CASE \E r \in Replies : UserDeletes(r)
  BY <1>0, <1>7 DEF UserDeletes, LoopStays
<1> QED
  BY <1>1, <1>2, <1>3, <1>4, <1>5, <1>6, <1>7 DEF ProgressNext

LEMMA OutcomesStay ==
    ASSUME ProgressInv, [ProgressNext]_progressVars
    PROVE  /\ inPrivate' = inPrivate /\ (deniedStatus => deniedStatus')
           /\ NoticeTerminal(opStatus) => opStatus' = opStatus
<1>1. CASE OperationMoves
  BY <1>1 DEF OperationMoves, NoticeTerminal, Outcomes
<1>2. CASE UNCHANGED progressVars
  BY <1>2 DEF progressVars
<1>3. CASE \E r \in Replies : ReplySent(r) \/ RegisterReply(r) \/ UserDeletes(r)
  BY <1>3 DEF ReplySent, RegisterReply, UserDeletes, LoopStays
<1>4. CASE DueNotice \/ StatusRead \/ StatusFails \/ AdvanceNotice \/ AdvanceFails
  <2>1. UNCHANGED <<opStatus, inPrivate, deniedStatus>>
    BY <1>4 DEF DueNotice, StatusRead, StatusFails, AdvanceNotice, AdvanceFails, NoticeUntouched, LoopStays
  <2> QED
    BY <2>1
<1>5. CASE StatusDenied \/ ProgressCrash
  <2>1. inPrivate' = inPrivate /\ opStatus' = opStatus
    BY <1>5 DEF StatusDenied, ProgressCrash, LoopStays
  <2>2. CASE StatusDenied
    BY <2>1, <2>2 DEF StatusDenied
  <2>3. CASE ProgressCrash
    BY <2>1, <2>3 DEF ProgressCrash
  <2> QED
    BY <1>5, <2>2, <2>3
<1>6. CASE MessageDeleted \/ DeletionRefused \/ DeletionRetried
  <2>1. UNCHANGED <<opStatus, inPrivate, deniedStatus>>
    BY <1>6 DEF MessageDeleted, DeletionRefused, DeletionRetried, LoopStays
  <2> QED
    BY <2>1
<1>7. CASE EditAcknowledged \/ EditStopped \/ EditRetried
  <2>1. UNCHANGED <<opStatus, inPrivate, deniedStatus>>
    BY <1>7 DEF EditAcknowledged, EditStopped, EditRetried, LoopStays
  <2> QED
    BY <2>1
<1> QED
  BY <1>1, <1>2, <1>3, <1>4, <1>5, <1>6, <1>7 DEF ProgressNext

\* What was true of a row stays true of it.
LEMMA RowsStayTrue ==
    ASSUME ProgressInv, [ProgressNext]_progressVars, NEW row, row.message \in ProgressMessages,
           row.message = "input" <=> InputOnly(row),
           row.last = "empty" => shown[row.message] = "deleted" \/ row.message \in unreachable,
           \A r \in Replies : row.message = r => replyAt[r] # "unsent"
    PROVE  /\ row.last = "empty" => shown'[row.message] = "deleted" \/ row.message \in unreachable'
           /\ \A r \in Replies : row.message = r => replyAt'[r] # "unsent"
BY MessagesStay

\* The input is no reply, so what was removed of it stays removed.
LEMMA InputStaysRemoved ==
    ASSUME ProgressAssumption, ProgressInv, [ProgressNext]_progressVars, NoticeTerminal(opStatus), InputRemoved
    PROVE  InputRemoved'
<1>1. "input" \in ProgressMessages /\ \A r \in Replies : "input" = r => replyAt[r] # "unsent"
  BY DEF ProgressMessages, ProgressAssumption
<1>2. /\ shown["input"] = "deleted" => shown'["input"] = "deleted"
      /\ unreachable \subseteq unreachable'
  BY <1>1, MessagesStay
<1> QED
  BY <1>2, OutcomesStay DEF InputRemoved, Gone

\* A finished row keeps what it shows, because the loop edits only what is not finished.
LEMMA ShowsStays ==
    ASSUME ProgressInv, [ProgressNext]_progressVars, NoticeTerminal(opStatus), NEW m \in ProgressMessages,
           \A r \in Replies : m = r => replyAt[r] # "unsent",
           ~(noticeLoop.at = "edit" /\ noticeLoop.row.message = m),
           shown[m] = (IF opStatus = "succeeded" THEN "deleted" ELSE opStatus) \/ shown[m] = "deleted"
               \/ m \in unreachable
    PROVE  shown'[m] = (IF opStatus' = "succeeded" THEN "deleted" ELSE opStatus') \/ shown'[m] = "deleted"
               \/ m \in unreachable'
BY MessagesStay, OutcomesStay

LEMMA ShownInitial == ASSUME ProgressAssumption, ProgressInit PROVE ShownInv
<1>1. ProgressInv
  BY ProgressInitial
<1>2. NoticeTrue
  <2>1. CASE inPrivate
    <3>1. notice.message = "input" /\ notice.last = "marker" /\ ~notice.finished
      BY <2>1 DEF ProgressInit, Notice
    <3> QED
      BY <3>1 DEF NoticeTrue, RowTrue, InputOnly, Outcomes, ProgressAssumption
  <2>2. CASE ~inPrivate
    BY <2>2 DEF NoticeTrue, ProgressInit
  <2> QED
    BY <2>1, <2>2
<1>3. LoopTrue
  BY IdleTyped DEF LoopTrue, ProgressInit
<1> QED
  BY <1>1, <1>2, <1>3 DEF ShownInv

\* The row stays what it is.
LEMMA SameNotice ==
    ASSUME ProgressAssumption, ShownInv, [ProgressNext]_progressVars, notice' = notice
    PROVE  NoticeTrue'
<1> SUFFICES ASSUME notice # NoNotice PROVE NoticeTrue'
  BY DEF NoticeTrue
<1>0. ProgressInv /\ NoticeTrue /\ LoopTrue /\ notice.message \in ProgressMessages
  BY DEF ShownInv, ProgressInv, NoticeTyped
<1>1. RowTrue(notice) /\ (notice.last \in Outcomes => notice.finished)
  BY <1>0 DEF NoticeTrue
<1>2. RowTrue(notice)'
  BY <1>0, <1>1, RowsStayTrue DEF RowTrue, Gone, InputOnly
<1>3. ASSUME notice.finished, ~deniedStatus'
      PROVE  NoticeTerminal(opStatus)' /\ InputRemoved' /\ (InputOnly(notice)' \/ Shows(notice.message)')
  <2>1. ~deniedStatus
    BY <1>0, <1>3, OutcomesStay
  <2>2. NoticeTerminal(opStatus) /\ InputRemoved /\ (InputOnly(notice) \/ Shows(notice.message))
    BY <1>0, <1>3, <2>1 DEF NoticeTrue
  <2>3. NoticeTerminal(opStatus)' /\ InputRemoved'
    BY <1>0, <2>2, OutcomesStay, InputStaysRemoved
  <2>4. ~(noticeLoop.at = "edit" /\ noticeLoop.row.message = notice.message)
    BY <1>0, <1>3 DEF LoopTrue, ReadTrue
  <2>5. InputOnly(notice)' \/ Shows(notice.message)'
    <3>1. CASE InputOnly(notice)
      BY <3>1 DEF InputOnly
    <3>2. CASE Shows(notice.message)
      BY <1>0, <1>1, <2>2, <2>4, <3>2, ShowsStays DEF Shows, Gone, RowTrue
    <3> QED
      BY <2>2, <3>1, <3>2
  <2> QED
    BY <2>3, <2>5
<1> QED
  BY <1>1, <1>2, <1>3 DEF NoticeTrue

LEMMA NoticeStep ==
    ASSUME ProgressAssumption, ShownInv, [ProgressNext]_progressVars
    PROVE  NoticeTrue'
<1>0. /\ ProgressInv /\ NoticeTrue /\ LoopTrue
      /\ replyAt \in [Replies -> {"unsent", "sent", "over"}]
  BY DEF ShownInv, ProgressInv, MessagesTyped
<1>1. CASE notice' = notice
  BY <1>1, SameNotice
<1>2. CASE \E r \in Replies : RegisterReply(r) /\ notice' # notice
  <2> PICK r \in Replies : RegisterReply(r) /\ notice' # notice
    BY <1>2
  <2>1. notice' = Notice(r, "none", FALSE) /\ replyAt' = [replyAt EXCEPT ![r] = "over"]
    BY DEF RegisterReply, ReplyRegistered
  <2>2. notice'.message = r /\ notice'.last = "none" /\ ~notice'.finished
    BY <2>1 DEF Notice
  <2>3. r # "input" /\ replyAt'[r] # "unsent"
    BY <1>0, <2>1 DEF ProgressAssumption
  <2> QED
    BY <2>2, <2>3 DEF NoticeTrue, RowTrue, InputOnly, Outcomes
<1>3. CASE AdvanceNotice /\ notice' # notice
  <2> DEFINE text == noticeLoop.text
  <2>1. /\ notice' = [notice EXCEPT !.last = IF text = "none" THEN @ ELSE text, !.finished = noticeLoop.finish]
        /\ noticeLoop.at = "advance" /\ notice.message = noticeLoop.row.message /\ ~notice.finished
        /\ UNCHANGED <<opStatus, inPrivate, replyAt, shown, unreachable, deniedStatus>>
    BY <1>3 DEF AdvanceNotice, NoticeMatches, LoopStays
  <2>2. ReadTrue /\ AdvanceTrue /\ notice # NoNotice /\ RowTrue(notice) /\ notice.last \notin Outcomes
    BY <1>0, <2>1 DEF LoopTrue, ReadTrue, NoticeTrue
  <2>3. /\ notice'.message = notice.message /\ notice'.finished = noticeLoop.finish
        /\ notice'.last = IF text = "none" THEN notice.last ELSE text
    BY <1>0, <2>1 DEF ProgressInv, NoticeTyped, NoticeRows
  <2>4. InputOnly(notice) <=> InputOnly(noticeLoop.row)
    BY <2>1, <2>2 DEF RowTrue, ReadTrue
  <2>5. notice'.message = "input" <=> notice'.last = "marker"
    BY <2>2, <2>3, <2>4 DEF RowTrue, AdvanceTrue, InputOnly
  <2>6. RowTrue(notice)'
    <3>1. notice'.last = "empty" => shown'[notice'.message] = "deleted" \/ notice'.message \in unreachable'
      BY <2>1, <2>2, <2>3 DEF RowTrue, AdvanceTrue, Gone
    <3>2. \A r \in Replies : notice'.message = r => replyAt'[r] # "unsent"
      BY <2>1, <2>2, <2>3 DEF RowTrue
    <3> QED
      BY <2>5, <3>1, <3>2 DEF RowTrue, Gone, InputOnly
  <2>7. notice'.last \in Outcomes => notice'.finished
    BY <2>2, <2>3 DEF AdvanceTrue
  <2>8. ASSUME notice'.finished, ~deniedStatus'
        PROVE  NoticeTerminal(opStatus)' /\ InputRemoved' /\ (InputOnly(notice)' \/ Shows(notice.message)')
    <3>1. NoticeTerminal(opStatus) /\ InputRemoved /\ (InputOnly(noticeLoop.row) \/ Shows(noticeLoop.row.message))
      BY <2>1, <2>2, <2>3, <2>8 DEF AdvanceTrue
    <3>2. NoticeTerminal(opStatus)' /\ InputRemoved'
      BY <2>1, <3>1 DEF InputRemoved, Gone
    <3>3. InputOnly(noticeLoop.row) => InputOnly(notice)'
      BY <2>2, <2>3, <2>4 DEF InputOnly, AdvanceTrue
    <3>4. Shows(noticeLoop.row.message) => Shows(notice.message)'
      BY <2>1, <2>3 DEF Shows, Gone
    <3> QED
      BY <3>1, <3>2, <3>3, <3>4
  <2> QED
    BY <2>6, <2>7, <2>8 DEF NoticeTrue
<1> QED
  <2>1. \/ notice' = notice \/ AdvanceNotice
        \/ \E r \in Replies : RegisterReply(r)
    BY DEF ProgressNext, progressVars, OperationMoves, ReplySent, UserDeletes, DueNotice, StatusRead, StatusDenied,
           StatusFails, MessageDeleted, DeletionRefused, DeletionRetried, EditAcknowledged, EditStopped,
           EditRetried, AdvanceFails, ProgressCrash, NoticeUntouched
  <2> QED
    BY <1>1, <1>2, <1>3, <2>1
\* The loop does nothing: what it is about to do is still due.
LEMMA LoopWaits ==
    ASSUME ProgressAssumption, ShownInv, [ProgressNext]_progressVars, noticeLoop' = noticeLoop
    PROVE  LoopTrue'
<1> SUFFICES ASSUME noticeLoop.at # "idle" PROVE LoopTrue'
  BY DEF LoopTrue
<1>0. /\ ProgressInv /\ NoticeTrue /\ LoopTrue /\ ReadTrue /\ noticeLoop.row.message \in ProgressMessages
      /\ RowTrue(noticeLoop.row)
  BY DEF ShownInv, ProgressInv, LoopTyped, LoopTrue, ReadTrue
<1>1. RowTrue(noticeLoop.row)'
  BY <1>0, RowsStayTrue DEF RowTrue, Gone, InputOnly
<1>2. notice' # NoNotice /\ (notice'.message = noticeLoop.row.message => ~notice'.finished)
  <2>1. CASE notice' = notice
    BY <1>0, <2>1 DEF ReadTrue
  <2>2. CASE \E r \in Replies : notice' = Notice(r, "none", FALSE)
    BY <2>2 DEF Notice, NoNotice
  <2>3. notice' = notice \/ \E r \in Replies : RegisterReply(r)
    <3>1. ~AdvanceNotice
      BY IdleTyped DEF AdvanceNotice
    <3> QED
      BY <3>1 DEF ProgressNext, progressVars, OperationMoves, ReplySent, UserDeletes, DueNotice, StatusRead, StatusDenied,
           StatusFails, MessageDeleted, DeletionRefused, DeletionRetried, EditAcknowledged, EditStopped,
           EditRetried, AdvanceFails, ProgressCrash, NoticeUntouched
  <2> QED
    BY <2>1, <2>2, <2>3 DEF RegisterReply, ReplyRegistered
<1>3. ReadTrue'
  BY <1>0, <1>1, <1>2 DEF ReadTrue
<1>4. noticeLoop.at \in {"input", "notice"} => RemovalTrue'
  <2> SUFFICES ASSUME noticeLoop.at \in {"input", "notice"} PROVE RemovalTrue'
    OBVIOUS
  <2>1. RemovalTrue /\ NoticeTerminal(opStatus)
    BY <1>0 DEF LoopTrue, RemovalTrue, NoticeTerminal, Outcomes
  <2>2. InputRemoved => InputRemoved'
    BY <1>0, <2>1, InputStaysRemoved
  <2> QED
    BY <1>0, <2>1, <2>2, OutcomesStay DEF RemovalTrue
<1>5. noticeLoop.at = "edit" => EditTrue'
  BY <1>0, OutcomesStay DEF LoopTrue, EditTrue, NoticeTerminal, InputOnly
<1>6. noticeLoop.at = "advance" => AdvanceTrue'
  <2> SUFFICES ASSUME noticeLoop.at = "advance" PROVE AdvanceTrue'
    OBVIOUS
  <2>1. AdvanceTrue
    BY <1>0 DEF LoopTrue
  <2>2. noticeLoop.text = "empty" => Gone(noticeLoop.row.message)'
    BY <1>0, <2>1, MessagesStay DEF AdvanceTrue, Gone, RowTrue
  <2>3. ASSUME noticeLoop.finish, ~deniedStatus'
        PROVE  /\ NoticeTerminal(opStatus)' /\ InputRemoved'
               /\ InputOnly(noticeLoop.row)' \/ Shows(noticeLoop.row.message)'
    <3>1. /\ NoticeTerminal(opStatus) /\ InputRemoved
          /\ InputOnly(noticeLoop.row) \/ Shows(noticeLoop.row.message)
      BY <1>0, <2>1, <2>3, OutcomesStay DEF AdvanceTrue
    <3>2. NoticeTerminal(opStatus)' /\ InputRemoved'
      BY <1>0, <3>1, OutcomesStay, InputStaysRemoved
    <3>3. CASE InputOnly(noticeLoop.row)
      BY <3>2, <3>3 DEF InputOnly
    <3>4. CASE Shows(noticeLoop.row.message)
      BY <1>0, <3>1, <3>2, <3>4, ShowsStays DEF Shows, Gone, RowTrue
    <3> QED
      BY <3>1, <3>3, <3>4
  <2> QED
    BY <2>1, <2>2, <2>3 DEF AdvanceTrue, InputOnly
<1> QED
  BY <1>3, <1>4, <1>5, <1>6 DEF LoopTrue

\* A step of the loop that keeps the row it read.
LEMMA NoticeRowKept ==
    ASSUME ProgressAssumption, ShownInv, [ProgressNext]_progressVars, noticeLoop.at # "idle",
           noticeLoop'.row = noticeLoop.row, notice' = notice
    PROVE  ReadTrue'
<1>0. /\ ProgressInv /\ ReadTrue /\ noticeLoop.row.message \in ProgressMessages
      /\ RowTrue(noticeLoop.row)
  BY DEF ShownInv, ProgressInv, LoopTyped, LoopTrue, ReadTrue
<1>1. RowTrue(noticeLoop.row)'
  BY <1>0, RowsStayTrue DEF RowTrue, Gone, InputOnly
<1> QED
  BY <1>0, <1>1 DEF ReadTrue

LEMMA DueTrue ==
    ASSUME ProgressAssumption, ShownInv, [ProgressNext]_progressVars, DueNotice
    PROVE  LoopTrue'
<1>0. ProgressInv /\ NoticeTrue /\ notice # NoNotice /\ ~notice.finished
  BY DEF ShownInv, DueNotice
<1>1. noticeLoop'.at = "due" /\ noticeLoop'.row = notice
  BY DEF DueNotice, NoticeIdle
<1>2. RowTrue(notice) /\ notice.last \notin Outcomes
  BY <1>0 DEF NoticeTrue
<1>3. /\ notice' = notice /\ shown' = shown /\ unreachable' = unreachable /\ replyAt' = replyAt
  BY DEF DueNotice, NoticeUntouched, LoopStays
<1>4. ReadTrue'
  BY <1>0, <1>1, <1>2, <1>3 DEF ReadTrue, RowTrue, Gone, InputOnly
<1> QED
  BY <1>1, <1>4 DEF LoopTrue

LEMMA AdvancesHold ==
    ASSUME NEW t, NEW f, ProgressInv, NoticeAdvances(t, f)
    PROVE  /\ noticeLoop'.at = "advance" /\ noticeLoop'.row = noticeLoop.row
           /\ noticeLoop'.text = t /\ noticeLoop'.finish = f
BY DEF NoticeAdvances, ProgressInv, LoopTyped, LoopRecords

\* The loop gives up for now.
LEMMA LaterTrue ==
    ASSUME ProgressAssumption, ShownInv, [ProgressNext]_progressVars, noticeLoop.at # "idle",
           notice' = notice, NEW f \in BOOLEAN, NoticeAdvances("none", f), f => deniedStatus'
    PROVE  LoopTrue'
<1>1. /\ noticeLoop'.at = "advance" /\ noticeLoop'.row = noticeLoop.row
      /\ noticeLoop'.text = "none" /\ noticeLoop'.finish = f
  BY AdvancesHold DEF ShownInv
<1>2. ReadTrue'
  BY <1>1, NoticeRowKept
<1>3. AdvanceTrue'
  BY <1>1 DEF AdvanceTrue, Outcomes
<1> QED
  BY <1>1, <1>2, <1>3 DEF LoopTrue

LEMMA StatusTrue ==
    ASSUME ProgressAssumption, ShownInv, [ProgressNext]_progressVars, StatusRead
    PROVE  LoopTrue'
<1>0. /\ ProgressInv /\ LoopTrue /\ noticeLoop.at = "due" /\ noticeLoop.at # "idle" /\ ReadTrue
      /\ noticeLoop \in LoopRecords
  BY DEF ShownInv, ProgressInv, LoopTyped, StatusRead, LoopTrue
<1>1. /\ UNCHANGED <<opStatus, inPrivate, shown, unreachable, replyAt>> /\ notice' = notice
      /\ deniedStatus' = deniedStatus
  BY DEF StatusRead, NoticeUntouched, LoopStays
<1> DEFINE go(at) == noticeLoop' = [noticeLoop EXCEPT !.at = at, !.status = opStatus]
<1>2. ASSUME NEW at \in {"input", "notice", "edit"}, go(at)
      PROVE  noticeLoop'.at = at /\ noticeLoop'.row = noticeLoop.row /\ noticeLoop'.status = opStatus
  BY <1>0, <1>2 DEF LoopRecords
<1>3. CASE opStatus = "succeeded" /\ inPrivate
  <2>1. go("input")
    BY <1>3 DEF StatusRead
  <2>2. noticeLoop'.at = "input" /\ noticeLoop'.row = noticeLoop.row
    BY <1>2, <2>1
  <2>3. ReadTrue'
    BY <1>0, <1>1, <2>2, NoticeRowKept
  <2> QED
    BY <1>1, <1>3, <2>2, <2>3 DEF LoopTrue, RemovalTrue
<1>4. CASE opStatus = "succeeded" /\ ~inPrivate
  <2>1. go("notice")
    BY <1>4 DEF StatusRead
  <2>2. noticeLoop'.at = "notice" /\ noticeLoop'.row = noticeLoop.row
    BY <1>2, <2>1
  <2>3. ReadTrue'
    BY <1>0, <1>1, <2>2, NoticeRowKept
  <2> QED
    BY <1>1, <1>4, <2>2, <2>3 DEF LoopTrue, RemovalTrue, InputRemoved
<1>5. CASE opStatus # "succeeded" /\ (InputOnly(noticeLoop.row) \/ noticeLoop.row.last \in {"empty", opStatus})
  <2>1. NoticeAdvances("none", NoticeTerminal(opStatus))
    BY <1>5 DEF StatusRead
  <2>2. /\ noticeLoop'.at = "advance" /\ noticeLoop'.row = noticeLoop.row
        /\ noticeLoop'.text = "none" /\ noticeLoop'.finish = NoticeTerminal(opStatus)
    BY <1>0, <2>1, AdvancesHold
  <2>3. ReadTrue'
    BY <1>0, <1>1, <2>2, NoticeRowKept
  <2>4. ASSUME NoticeTerminal(opStatus)
        PROVE  InputRemoved' /\ (InputOnly(noticeLoop.row)' \/ Shows(noticeLoop.row.message)')
    <3>1. InputRemoved'
      BY <1>1, <1>5 DEF InputRemoved
    <3>2. CASE InputOnly(noticeLoop.row)
      BY <2>2, <3>1, <3>2 DEF InputOnly
    <3>3. CASE noticeLoop.row.last = "empty"
      <4>1. Gone(noticeLoop.row.message)
        BY <1>0, <3>3 DEF ReadTrue, RowTrue
      <4> QED
        BY <1>1, <2>2, <3>1, <4>1 DEF Shows, Gone
    <3>4. noticeLoop.row.last # opStatus
      BY <1>0, <2>4 DEF ReadTrue, NoticeTerminal
    <3> QED
      BY <1>5, <3>2, <3>3, <3>4
  <2>5. AdvanceTrue'
    BY <1>1, <2>2, <2>4 DEF AdvanceTrue, NoticeTerminal, Outcomes
  <2> QED
    BY <2>2, <2>3, <2>5 DEF LoopTrue
<1>6. CASE opStatus # "succeeded" /\ ~(InputOnly(noticeLoop.row) \/ noticeLoop.row.last \in {"empty", opStatus})
  <2>1. go("edit")
    BY <1>6 DEF StatusRead
  <2>2. noticeLoop'.at = "edit" /\ noticeLoop'.row = noticeLoop.row /\ noticeLoop'.status = opStatus
    BY <1>2, <2>1
  <2>3. ReadTrue'
    BY <1>0, <1>1, <2>2, NoticeRowKept
  <2>4. EditTrue'
    BY <1>1, <1>6, <2>2 DEF EditTrue, InputOnly
  <2> QED
    BY <2>2, <2>3, <2>4 DEF LoopTrue
<1> QED
  BY <1>3, <1>4, <1>5, <1>6

\* A deletion that Telegram decided: the message it was about is gone.
LEMMA RemovedTrue ==
    ASSUME ProgressAssumption, ShownInv, [ProgressNext]_progressVars, noticeLoop.at \in {"input", "notice"},
           AfterRemoval, notice' = notice, opStatus' = opStatus, inPrivate' = inPrivate,
           shown'[Doomed] = "deleted" \/ Doomed \in unreachable'
    PROVE  LoopTrue'
<1>0. /\ ProgressInv /\ LoopTrue /\ noticeLoop.at # "idle" /\ RemovalTrue
      /\ noticeLoop \in LoopRecords /\ NoticeTerminal(opStatus)
  BY DEF ShownInv, ProgressInv, LoopTyped, LoopTrue, RemovalTrue, NoticeTerminal, Outcomes
<1>1. InputRemoved'
  <2>1. CASE noticeLoop.at = "input"
    BY <2>1 DEF Doomed, InputRemoved, Gone
  <2>2. CASE noticeLoop.at = "notice"
    BY <1>0, <2>2, InputStaysRemoved DEF RemovalTrue
  <2> QED
    BY <2>1, <2>2
<1>2. CASE noticeLoop.at = "input" /\ ~InputOnly(noticeLoop.row)
  <2>1. noticeLoop' = [noticeLoop EXCEPT !.at = "notice"]
    BY <1>2 DEF AfterRemoval
  <2>2. noticeLoop'.at = "notice" /\ noticeLoop'.row = noticeLoop.row
    BY <1>0, <2>1 DEF LoopRecords
  <2>3. ReadTrue'
    BY <1>0, <2>2, NoticeRowKept
  <2> QED
    BY <1>0, <1>1, <2>2, <2>3 DEF LoopTrue, RemovalTrue
<1>3. CASE ~(noticeLoop.at = "input" /\ ~InputOnly(noticeLoop.row))
  <2>1. NoticeAdvances(IF InputOnly(noticeLoop.row) THEN "none" ELSE "empty", TRUE)
    BY <1>3 DEF AfterRemoval
  <2>2. /\ noticeLoop'.at = "advance" /\ noticeLoop'.row = noticeLoop.row /\ noticeLoop'.finish
        /\ noticeLoop'.text = IF InputOnly(noticeLoop.row) THEN "none" ELSE "empty"
    BY <1>0, <2>1, AdvancesHold
  <2>3. ReadTrue'
    BY <1>0, <2>2, NoticeRowKept
  <2>4. ~InputOnly(noticeLoop.row) => Gone(noticeLoop.row.message)'
    BY <1>3, <2>2 DEF Doomed, Gone
  <2>5. NoticeTerminal(opStatus)'
    BY <1>0
  <2>6. AdvanceTrue'
    BY <1>1, <2>2, <2>4, <2>5 DEF AdvanceTrue, Shows, InputOnly
  <2> QED
    BY <2>2, <2>3, <2>6 DEF LoopTrue
<1> QED
  BY <1>2, <1>3

\* An edit that was acknowledged, or is not tried again.
LEMMA EditedTrue ==
    ASSUME ProgressAssumption, ShownInv, [ProgressNext]_progressVars, EditAcknowledged \/ EditStopped
    PROVE  LoopTrue'
<1>0. /\ ProgressInv /\ noticeLoop.at = "edit" /\ noticeLoop.at # "idle" /\ EditTrue
      /\ noticeLoop.row.message \in ProgressMessages /\ noticeLoop.status \in Statuses
      /\ shown \in [ProgressMessages -> Statuses \cup {"absent", "text", "deleted"}]
  BY DEF ShownInv, ProgressInv, LoopTyped, LoopRecords, MessagesTyped, LoopTrue, EditAcknowledged, EditStopped
<1>1. notice' = notice /\ opStatus' = opStatus /\ inPrivate' = inPrivate
  BY DEF EditAcknowledged, EditStopped, LoopStays
<1> DEFINE m == noticeLoop.row.message
<1>2. PICK t \in {noticeLoop.status, "empty"} :
          /\ NoticeAdvances(t, NoticeTerminal(noticeLoop.status))
          /\ t = noticeLoop.status => shown'[m] = noticeLoop.status
          /\ t = "empty" => shown'[m] = "deleted" \/ m \in unreachable'
  <2>1. CASE EditAcknowledged
    <3>1. shown'[m] = noticeLoop.status
      BY <1>0, <2>1 DEF EditAcknowledged, NoticeEdited
    <3>2. noticeLoop.status # "empty"
      BY <1>0 DEF Statuses, Working, Outcomes
    <3> QED
      BY <2>1, <3>1, <3>2 DEF EditAcknowledged
  <2>2. CASE EditStopped
    <3>1. shown'[m] = "deleted" \/ m \in unreachable'
      BY <2>2 DEF EditStopped
    <3>2. noticeLoop.status # "empty"
      BY <1>0 DEF Statuses, Working, Outcomes
    <3> QED
      BY <2>2, <3>1, <3>2 DEF EditStopped
  <2> QED
    BY <2>1, <2>2
<1>3. /\ noticeLoop'.at = "advance" /\ noticeLoop'.row = noticeLoop.row
      /\ noticeLoop'.text = t /\ noticeLoop'.finish = NoticeTerminal(noticeLoop.status)
  BY <1>0, <1>2, AdvancesHold
<1>4. ReadTrue'
  BY <1>0, <1>1, <1>3, NoticeRowKept
<1>5. t # "marker" /\ (t = "empty" => t # noticeLoop.status) /\ (t \in Outcomes => NoticeTerminal(noticeLoop.status))
  BY <1>0 DEF Statuses, Working, Outcomes, NoticeTerminal
<1>6. ASSUME NoticeTerminal(noticeLoop.status)
      PROVE  NoticeTerminal(opStatus)' /\ InputRemoved' /\ Shows(m)'
  <2>1. opStatus = noticeLoop.status /\ opStatus # "succeeded"
    BY <1>0, <1>6 DEF EditTrue
  <2> QED
    BY <1>1, <1>2, <1>3, <1>6, <2>1 DEF InputRemoved, Shows, Gone
<1>7. ~InputOnly(noticeLoop.row)
  BY <1>0 DEF EditTrue
<1>8. t = "empty" => Gone(m)'
  BY <1>2, <1>3 DEF Gone
<1>9. AdvanceTrue'
  BY <1>3, <1>5, <1>6, <1>7, <1>8 DEF AdvanceTrue, InputOnly
<1> QED
  BY <1>3, <1>4, <1>9 DEF LoopTrue

LEMMA LoopStepTrue ==
    ASSUME ProgressAssumption, ShownInv, [ProgressNext]_progressVars
    PROVE  LoopTrue'
<1>1. CASE noticeLoop' = noticeLoop
  BY <1>1, LoopWaits
<1>2. CASE noticeLoop' = NoticeIdle
  BY <1>2, IdleTyped DEF LoopTrue
<1>3. CASE DueNotice
  BY <1>3, DueTrue
<1>4. CASE StatusRead
  BY <1>4, StatusTrue
<1>5. CASE StatusDenied
  <2>1. noticeLoop.at # "idle" /\ notice' = notice /\ NoticeAdvances("none", TRUE) /\ deniedStatus'
    BY <1>5 DEF StatusDenied
  <2> QED
    BY <2>1, LaterTrue
<1>6. CASE StatusFails \/ DeletionRetried \/ EditRetried
  <2>1. noticeLoop.at # "idle" /\ notice' = notice /\ NoticeAdvances("none", FALSE)
    BY <1>6 DEF StatusFails, DeletionRetried, EditRetried, NoticeUntouched
  <2> QED
    BY <2>1, LaterTrue
<1>7. CASE MessageDeleted \/ DeletionRefused
  <2>1. /\ noticeLoop.at \in {"input", "notice"} /\ AfterRemoval /\ notice' = notice
        /\ opStatus' = opStatus /\ inPrivate' = inPrivate
    BY <1>7 DEF MessageDeleted, DeletionRefused, LoopStays
  <2>2. Doomed \in ProgressMessages /\ shown \in [ProgressMessages -> Statuses \cup {"absent", "text", "deleted"}]
    BY <2>1, DoomedIsMessage DEF ShownInv, ProgressInv, MessagesTyped
  <2>3. shown'[Doomed] = "deleted" \/ Doomed \in unreachable'
    BY <1>7, <2>2 DEF MessageDeleted, DeletionRefused
  <2> QED
    BY <2>1, <2>3, RemovedTrue
<1>8. CASE EditAcknowledged \/ EditStopped
  BY <1>8, EditedTrue
<1> QED
  <2>1. CASE UNCHANGED progressVars \/ OperationMoves \/ \E r \in Replies : ReplySent(r) \/ RegisterReply(r) \/ UserDeletes(r)
    BY <1>1, <2>1 DEF progressVars, OperationMoves, ReplySent, RegisterReply, UserDeletes
  <2>2. CASE AdvanceNotice \/ AdvanceFails \/ ProgressCrash
    BY <1>2, <2>2 DEF AdvanceNotice, AdvanceFails, ProgressCrash
  <2> QED
    BY <1>3, <1>4, <1>5, <1>6, <1>7, <1>8, <2>1, <2>2 DEF ProgressNext

\* A row is finished only when its message shows the outcome of the operation, in
\* every order of registrations, moves of the operation, failed requests, deletions
\* by the user and restarts (yoink-telegram progress.rs update, advance).
THEOREM FinishedNoticesShow ==
    ASSUME ProgressAssumption
    PROVE  ProgressInit /\ [][ProgressNext]_progressVars => [](ProgressTypeOK /\ FinishedIsShown)
<1>1. ProgressInit => ShownInv
  BY ShownInitial
<1>2. ShownInv /\ [ProgressNext]_progressVars => ShownInv'
  BY ProgressStep, NoticeStep, LoopStepTrue DEF ShownInv
<1>3. ShownInv => ProgressTypeOK
  BY DEF ShownInv, ProgressInv, OperationTyped, MessagesTyped, NoticeTyped, LoopTyped, ProgressTypeOK, NoticeRows, LoopRecords
<1>4. ShownInv => FinishedIsShown
  BY DEF ShownInv, NoticeTrue, FinishedIsShown, OutcomeStands, ShowsOutcome, InputRemoved, Shows, Gone
<1> QED
  BY <1>1, <1>2, <1>3, <1>4, PTL

-----------------------------------------------------------------------------
(* The work behind the queue, side by side. *)

\* A step of the suite is a step of one component; the others stay.
LEMMA SuiteSteps ==
    [SuiteNext]_suiteVars =>
        [ExecNext]_execVars /\ [JobsNext]_jobVars /\ [MenuNext]_menuVars /\ [ProgressNext]_progressVars
<1> SUFFICES ASSUME [SuiteNext]_suiteVars
             PROVE  [ExecNext]_execVars /\ [JobsNext]_jobVars /\ [MenuNext]_menuVars /\ [ProgressNext]_progressVars
  OBVIOUS
<1>1. CASE UNCHANGED suiteVars
  BY <1>1 DEF suiteVars
<1>2. CASE ExecOnly /\ ExecNext
  BY <1>2 DEF ExecOnly
<1>3. CASE (JobsOnly \/ SavesOnly \/ ResavesOnly \/ RepeatsOnly) /\ JobsNext
  BY <1>3 DEF JobsOnly, SavesOnly, ResavesOnly, RepeatsOnly
<1>4. CASE MenusOnly /\ MenuNext
  BY <1>4 DEF MenusOnly
<1>5. CASE ProgressOnly /\ ProgressNext
  BY <1>5 DEF ProgressOnly
<1>6. CASE ServiceOnly \/ InboxOnly
  BY <1>6 DEF ServiceOnly, InboxOnly
<1> QED
  BY <1>1, <1>2, <1>3, <1>4, <1>5, <1>6 DEF SuiteNext

\* Work has an owner, in the suite of every size: runs leave nothing behind and report
\* their own work, no item waits for a job that does not exist, attempts count what
\* was tried, commands are answered once with what they did, and a notice is finished
\* only when it shows the outcome (yoink-executor, yoink-inbox, yoink-telegram).
THEOREM WorkAlwaysOwned ==
    ASSUME RunsAssumption, InboxJobsAssumption, MenuAssumption, ProgressAssumption
    PROVE  SuiteSpec => []WorkIsOwned
<1>1. SuiteInit => ExecInit /\ JobsInit /\ MenuInit /\ ProgressInit
  BY DEF SuiteInit
<1>2. /\ ExecInit /\ [][ExecNext]_execVars => [](NothingSurvives /\ OwnWorkOnly)
      /\ JobsInit /\ [][JobsNext]_jobVars => [](NobodyWaitsForNothing /\ AttemptsAreReal)
      /\ JobsInit /\ [][JobsNext]_jobVars => []SavesAreTold
      /\ MenuInit /\ [][MenuNext]_menuVars => []MenuTypeOK
      /\ ProgressInit /\ [][ProgressNext]_progressVars => [](ProgressTypeOK /\ FinishedIsShown)
  BY RunsOwnTheirWork, NobodyWaits, SavesAlwaysTold, MenusTyped, FinishedNoticesShow
<1>3. /\ NothingSurvives /\ OwnWorkOnly /\ NobodyWaitsForNothing /\ AttemptsAreReal /\ SavesAreTold
      /\ MenuTypeOK /\ ProgressTypeOK /\ FinishedIsShown
      => WorkIsOwned
  BY DEF WorkIsOwned
<1> QED
  BY <1>1, <1>2, <1>3, SuiteSteps, PTL DEF SuiteSpec
=============================================================================
