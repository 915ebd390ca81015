---------------------------- MODULE ExecutorRuns ----------------------------
(***************************************************************************)
(* The life of a worker process group (yoink-executor/src/lib.rs): the     *)
(* workspace, the spawned leader and what it forks, the task that reads    *)
(* its frames, the select loop with cancellation, deadline and workspace   *)
(* monitor, and the kill and reap at the end.                              *)
(*                                                                         *)
(* A "media" run lives in its caller's future and dies with it; an "owned" *)
(* run (music, full content) is a tracked task that outlives a dropped     *)
(* caller and is awaited by the shutdown.  The worker is not trusted: it   *)
(* writes any frames, forks, hangs or exits as it likes.  Process ids are  *)
(* taken to be unique, and SIGKILL to act at once.                         *)
(***************************************************************************)
EXTENDS Naturals, Sequences, FiniteSets

CONSTANTS
    Runs,      \* the executions
    MaxFrames  \* bound: frames a worker writes

\* What the constants of an instance satisfy.
RunsAssumption == MaxFrames \in Nat

\* What a line of the worker's output can be: progress or the terminal event
\* of this attempt, or a line with another identity or no event at all.
Frames == {"progress", "terminal", "alien"}
Processes == {"leader", "child"}

VARIABLES
    owned,     \* the runs that execute_music_owned or execute_full_content_owned start
    pc,        \* where execute_inner stands
    alive,     \* the processes of the group that run
    zombie,    \* the leader has exited and was not waited for
    exitOk,    \* the exit status of the leader
    workspace, \* the temporary directory exists
    written,   \* the frames in the pipe
    budget,    \* frames the worker may still write
    reader,    \* the task on stdout: "none", "open", "ok" or "error"
    frames,    \* the frames the reader has accepted, in order
    relayed,   \* what was published on the progress channel
    cancel,    \* the cancellation token of the run
    caller,    \* the caller waits, is answered, or has dropped the future
    result,    \* what the run returns
    admission  \* the owned runs: "open", "closing" or "closed" (shutdown returned)

execVars == <<owned, pc, alive, zombie, exitOk, workspace, written, budget, reader, frames,
              relayed, cancel, caller, result, admission>>

processVars == <<owned, alive, zombie, exitOk>>
streamVars == <<written, budget, reader, frames, relayed>>

ExecTypeOK ==
    /\ pc \in [Runs -> {"idle", "prepare", "spawn", "running", "joining", "validating", "ending", "ended"}]
    /\ alive \in [Runs -> SUBSET Processes]
    /\ zombie \in [Runs -> BOOLEAN] /\ exitOk \in [Runs -> BOOLEAN]
    /\ workspace \in [Runs -> BOOLEAN] /\ cancel \in [Runs -> BOOLEAN]
    /\ reader \in [Runs -> {"none", "open", "ok", "error"}]
    /\ caller \in [Runs -> {"waiting", "answered", "gone"}]
    /\ admission \in {"open", "closing", "closed"}

---------------------------------------------------------------------------
(* Starting. *)

\* The admission lock makes the test of the shutdown and the spawn of the
\* owner one step; without an owner the future simply starts.
Start(r) ==
    /\ pc[r] = "idle" /\ caller[r] = "waiting"
    /\ IF r \in owned /\ admission # "open"
       THEN /\ pc' = [pc EXCEPT ![r] = "ended"]
            /\ result' = [result EXCEPT ![r] = "cancelled"]
            /\ caller' = [caller EXCEPT ![r] = "answered"]
       ELSE pc' = [pc EXCEPT ![r] = "prepare"] /\ UNCHANGED <<result, caller>>
    /\ UNCHANGED <<processVars, streamVars, workspace, cancel, admission>>

\* Leaving before there is a process: the workspace goes with its handle.
Return(r, answer) ==
    /\ pc' = [pc EXCEPT ![r] = "ended"]
    /\ workspace' = [workspace EXCEPT ![r] = FALSE]
    /\ result' = [result EXCEPT ![r] = answer]
    /\ caller' = [caller EXCEPT ![r] = IF @ = "gone" THEN @ ELSE "answered"]

Prepare(r) ==
    /\ pc[r] = "prepare"
    /\ \/ cancel[r] /\ Return(r, "cancelled")
       \/ ~cancel[r] /\ Return(r, "io")
       \/ /\ ~cancel[r]
          /\ pc' = [pc EXCEPT ![r] = "spawn"]
          /\ workspace' = [workspace EXCEPT ![r] = TRUE]
          /\ UNCHANGED <<result, caller>>
    /\ UNCHANGED <<processVars, streamVars, cancel, admission>>

Spawn(r) ==
    /\ pc[r] = "spawn"
    /\ \/ /\ cancel[r] /\ Return(r, "cancelled") /\ UNCHANGED <<alive, reader>>
       \/ /\ ~cancel[r] /\ Return(r, "spawn") /\ UNCHANGED <<alive, reader>>
       \/ /\ ~cancel[r]
          /\ pc' = [pc EXCEPT ![r] = "running"]
          /\ alive' = [alive EXCEPT ![r] = {"leader"}]
          /\ reader' = [reader EXCEPT ![r] = "open"]
          /\ UNCHANGED <<workspace, result, caller>>
    /\ UNCHANGED <<owned, zombie, exitOk, written, budget, frames, relayed, cancel, admission>>

---------------------------------------------------------------------------
(* The worker: the launcher either confines itself and becomes the worker  *)
(* or exits with an error; the worker does what it likes.                  *)

Write(r, frame) ==
    /\ alive[r] # {} /\ budget[r] > 0
    /\ written' = [written EXCEPT ![r] = Append(@, frame)]
    /\ budget' = [budget EXCEPT ![r] = @ - 1]
    /\ UNCHANGED <<pc, processVars, workspace, reader, frames, relayed, cancel, caller, result, admission>>

Fork(r) ==
    /\ "leader" \in alive[r]
    /\ alive' = [alive EXCEPT ![r] = Processes]
    /\ UNCHANGED <<owned, pc, zombie, exitOk, streamVars, workspace, cancel, caller, result, admission>>

Exit(r, process) ==
    /\ process \in alive[r]
    /\ alive' = [alive EXCEPT ![r] = @ \ {process}]
    /\ IF process = "leader"
       THEN zombie' = [zombie EXCEPT ![r] = TRUE] /\ exitOk' \in {exitOk, [exitOk EXCEPT ![r] = TRUE]}
       ELSE UNCHANGED <<zombie, exitOk>>
    /\ UNCHANGED <<owned, pc, streamVars, workspace, cancel, caller, result, admission>>

\* terminate_group: SIGKILL to whatever is left of the group.
Killed(r) == [alive EXCEPT ![r] = {}]
ZombieAfterKill(r) == [zombie EXCEPT ![r] = @ \/ "leader" \in alive[r]]
TerminateGroup(r) == alive' = Killed(r) /\ zombie' = ZombieAfterKill(r)

---------------------------------------------------------------------------
(* The reader of stdout. *)

\* Mutant of Accepts: the identity of a line is not compared.
AcceptsAnyIdentity(r, frame) == "terminal" \notin {frames[r][i] : i \in DOMAIN frames[r]}

\* parse_line: nothing after the terminal event, and only this attempt's events
\* (a full content run takes no progress either, which only removes behaviours).
Accepts(r, frame) ==
    /\ frame # "alien"
    /\ "terminal" \notin {frames[r][i] : i \in DOMAIN frames[r]}

ReadFrame(r) ==
    LET frame == Head(written[r])
    IN  /\ reader[r] = "open" /\ written[r] # <<>>
        /\ written' = [written EXCEPT ![r] = Tail(@)]
        /\ IF Accepts(r, frame)
           THEN /\ frames' = [frames EXCEPT ![r] = Append(@, frame)]
                /\ relayed' = [relayed EXCEPT ![r] = IF frame # "terminal" THEN frame ELSE @]
                /\ UNCHANGED <<reader, alive, zombie>>
           ELSE /\ reader' = [reader EXCEPT ![r] = "error"]
                /\ TerminateGroup(r)
                /\ UNCHANGED <<frames, relayed>>
        /\ UNCHANGED <<owned, pc, exitOk, workspace, budget, cancel, caller, result, admission>>

\* More output than allowed, on stdout or stderr.
Overflow(r) ==
    /\ reader[r] = "open" /\ alive[r] # {}
    /\ reader' = [reader EXCEPT ![r] = "error"]
    /\ TerminateGroup(r)
    /\ UNCHANGED <<owned, pc, exitOk, workspace, written, budget, frames, relayed, cancel, caller, result, admission>>

\* The pipe ends when no process of the group holds it any more.
EndOfStream(r) ==
    /\ reader[r] = "open" /\ written[r] = <<>> /\ alive[r] = {}
    /\ reader' = [reader EXCEPT ![r] = "ok"]
    /\ UNCHANGED <<pc, processVars, workspace, written, budget, frames, relayed, cancel, caller, result, admission>>

---------------------------------------------------------------------------
(* The select loop, the join and the validation. *)

Finish(r, answer) ==
    /\ pc' = [pc EXCEPT ![r] = "ending"]
    /\ result' = [result EXCEPT ![r] = answer]

\* Mutant of Interrupt: the loop waits for a cancellation only.
InterruptCancelledOnly(r) ==
    /\ pc[r] \in {"running", "joining", "validating"}
    /\ cancel[r] /\ Finish(r, "cancelled")
    /\ TerminateGroup(r)
    /\ UNCHANGED <<owned, exitOk, streamVars, workspace, cancel, caller, admission>>

\* Cancellation and the deadline are awaited in all three places.
Interrupt(r) ==
    /\ pc[r] \in {"running", "joining", "validating"}
    /\ \/ cancel[r] /\ Finish(r, "cancelled")
       \/ Finish(r, "timeout")
    /\ TerminateGroup(r)
    /\ UNCHANGED <<owned, exitOk, streamVars, workspace, cancel, caller, admission>>

\* The periodic check of the workspace finds too much or a file it forbids.
Monitor(r) ==
    /\ pc[r] = "running"
    /\ Finish(r, "workspace")
    /\ UNCHANGED <<processVars, streamVars, workspace, cancel, caller, admission>>

\* The leader is reaped and its descendants are killed, so that the pipe ends.
Waited(r) ==
    /\ pc[r] = "running" /\ zombie[r]
    /\ pc' = [pc EXCEPT ![r] = "joining"]
    /\ alive' = Killed(r)
    /\ zombie' = [zombie EXCEPT ![r] = FALSE]
    /\ UNCHANGED <<owned, exitOk, streamVars, workspace, cancel, caller, result, admission>>

TerminalRead(r) == \E i \in DOMAIN frames[r] : frames[r][i] = "terminal"

Join(r) ==
    /\ pc[r] = "joining" /\ reader[r] \in {"ok", "error"}
    /\ \/ reader[r] = "error" /\ Finish(r, "protocol")
       \/ reader[r] = "ok" /\ (Finish(r, "workspace") \/ Finish(r, "io"))
       \/ reader[r] = "ok" /\ ~exitOk[r] /\ Finish(r, "exited")
       \/ reader[r] = "ok" /\ exitOk[r] /\ ~TerminalRead(r) /\ Finish(r, "protocol")
       \/ /\ reader[r] = "ok" /\ exitOk[r] /\ TerminalRead(r)
          /\ pc' = [pc EXCEPT ![r] = "validating"] /\ UNCHANGED result
    /\ UNCHANGED <<processVars, streamVars, workspace, cancel, caller, admission>>

\* The terminal event is a completion whose artifacts are safe, or it is not.
Validate(r) ==
    /\ pc[r] = "validating"
    /\ Finish(r, "completed") \/ Finish(r, "unsafe")
    /\ UNCHANGED <<processVars, streamVars, workspace, cancel, caller, admission>>

\* Mutant of End: the group is not killed on the way out.
EndWithoutKill(r) ==
    /\ pc[r] = "ending"
    /\ Return(r, result[r])
    /\ zombie' = [zombie EXCEPT ![r] = FALSE]
    /\ UNCHANGED <<owned, alive, exitOk, streamVars, cancel, admission>>

\* On the way out: kill, reap, forget the guard; then the workspace goes.
End(r) ==
    /\ pc[r] = "ending"
    /\ Return(r, result[r])
    /\ alive' = Killed(r)
    /\ zombie' = [zombie EXCEPT ![r] = FALSE]
    /\ UNCHANGED <<owned, exitOk, streamVars, cancel, admission>>

---------------------------------------------------------------------------
(* Cancellation, dropped callers and the shutdown. *)

Cancel(r) ==
    /\ caller[r] = "waiting" /\ ~cancel[r]
    /\ cancel' = [cancel EXCEPT ![r] = TRUE]
    /\ UNCHANGED <<pc, processVars, streamVars, workspace, caller, result, admission>>

\* A dropped media future takes its process group with it (ProcessGroupGuard,
\* kill_on_drop) and its workspace; an owned run only learns of a cancellation.
DropCaller(r) ==
    /\ caller[r] = "waiting" /\ pc[r] \notin {"idle", "ended"}
    /\ caller' = [caller EXCEPT ![r] = "gone"]
    /\ IF r \in owned
       THEN /\ cancel' = [cancel EXCEPT ![r] = TRUE]
            /\ UNCHANGED <<pc, alive, zombie, workspace, reader>>
       ELSE /\ pc' = [pc EXCEPT ![r] = "ended"]
            /\ TerminateGroup(r)
            /\ reader' = [reader EXCEPT ![r] = "none"]
            /\ workspace' = [workspace EXCEPT ![r] = FALSE]
            /\ UNCHANGED cancel
    /\ UNCHANGED <<owned, exitOk, written, budget, frames, relayed, result, admission>>

\* Tokio reaps the leader of a future that was dropped.
ReapOrphan(r) ==
    /\ pc[r] = "ended" /\ zombie[r]
    /\ zombie' = [zombie EXCEPT ![r] = FALSE]
    /\ UNCHANGED <<owned, pc, alive, exitOk, streamVars, workspace, cancel, caller, result, admission>>

\* shutdown_music and shutdown_full_content: admission is closed under the
\* lock, the watcher of every owner cancels it.
BeginShutdown ==
    /\ admission = "open"
    /\ admission' = "closing"
    /\ cancel' = [r \in Runs |-> cancel[r] \/ (r \in owned /\ pc[r] # "idle")]
    /\ UNCHANGED <<pc, processVars, streamVars, workspace, caller, result>>

EndShutdown ==
    /\ admission = "closing"
    /\ \A r \in owned : pc[r] \in {"idle", "ended"}
    /\ admission' = "closed"
    /\ UNCHANGED <<pc, processVars, streamVars, workspace, cancel, caller, result>>

ExecInit ==
    /\ owned \in SUBSET Runs
    /\ pc = [r \in Runs |-> "idle"] /\ alive = [r \in Runs |-> {}]
    /\ zombie = [r \in Runs |-> FALSE] /\ exitOk = [r \in Runs |-> FALSE]
    /\ workspace = [r \in Runs |-> FALSE] /\ written = [r \in Runs |-> <<>>]
    /\ budget = [r \in Runs |-> MaxFrames] /\ reader = [r \in Runs |-> "none"]
    /\ frames = [r \in Runs |-> <<>>] /\ relayed = [r \in Runs |-> "nothing"]
    /\ cancel = [r \in Runs |-> FALSE] /\ caller = [r \in Runs |-> "waiting"]
    /\ result = [r \in Runs |-> "none"] /\ admission = "open"

Executor(r) ==
    \/ Prepare(r) \/ Spawn(r) \/ ReadFrame(r) \/ EndOfStream(r) \/ Interrupt(r)
    \/ Waited(r) \/ Join(r) \/ Validate(r) \/ End(r)

WorkerActs(r) ==
    \/ \E frame \in Frames : Write(r, frame)
    \/ Fork(r)
    \/ \E process \in Processes : Exit(r, process)

ExecNext ==
    \/ \E r \in Runs : \/ Start(r) \/ Executor(r) \/ WorkerActs(r) \/ Overflow(r) \/ Monitor(r)
                       \/ Cancel(r) \/ DropCaller(r) \/ ReapOrphan(r)
    \/ BeginShutdown \/ EndShutdown

\* The runtime polls every ready task, the timers fire and the kernel reaps:
\* each of these steps is taken when it stays possible.  Nothing is assumed of
\* the worker, of the callers, of the cancellations or of the monitor.
ExecFairness ==
    /\ \A r \in Runs : WF_execVars(Executor(r))
    /\ WF_execVars(EndShutdown)

---------------------------------------------------------------------------
(* Properties. *)

\* A run that is over has left neither a process nor a workspace behind,
\* whichever way it ended, and a shutdown that has returned has seen every
\* owned run to its end and lets none begin.
NothingSurvives ==
    /\ ExecTypeOK
    /\ \A r \in Runs : pc[r] = "ended" => alive[r] = {} /\ ~workspace[r] /\ (r \in owned => ~zombie[r])
    /\ admission = "closed" => \A r \in owned : pc[r] \in {"idle", "ended"}

\* What a run reports was said by its own worker: progress and completion come
\* from frames with this attempt's identity, a completion is the last of them and
\* comes from a leader that exited well, and nobody writes in the workspace any
\* more when its artifacts are opened.
OwnWorkOnly ==
    \A r \in Runs :
        /\ relayed[r] \in {"nothing", "progress"}
        /\ result[r] = "completed" =>
               exitOk[r] /\ frames[r] # <<>> /\ frames[r][Len(frames[r])] = "terminal"
        /\ pc[r] = "validating" => alive[r] = {}

HasStarted(r) == pc[r] # "idle"
HasEnded(r) == pc[r] = "ended"
IsClosing == admission = "closing"
=============================================================================
