---------------------------- MODULE StatsImports ----------------------------
(***************************************************************************)
(* Imports of exported chats (yoink-stats: imports.rs, imports/desktop.rs; *)
(* yoink-http/stats_imports.rs).  An upload reserves capacity, is read     *)
(* into memory, becomes a job that parses it in a blocking closure and     *)
(* writes it in one transaction.  Requests are dropped, jobs time out or   *)
(* are cancelled at shutdown, closures run to their end regardless.        *)
(***************************************************************************)
EXTENDS Naturals, FiniteSets

CONSTANTS
    Uploads,   \* requests; an upload and the job it becomes share a name
    MaxImports \* max_jobs: capacity and rows of the job table

\* What the constants of an instance satisfy.
ImportsAssumption == MaxImports \in Nat \ {0}

VARIABLES
    owner,      \* the actor is the owner and not blocked
    intake,     \* per upload, who holds its reservation: the request, the job, a closure
    upload,     \* per upload: "idle", "reading", "waiting", "gone"
    task,       \* per upload: "none", "parse", "insert", "committing", "ended"
    jobs,       \* per upload, its row: "none", "running", "done" or "error"
    imported,   \* uploads whose transaction was committed, with the owner's standing then
    closed, cancelled, drained

importVars == <<owner, intake, upload, task, jobs, imported, closed, cancelled, drained>>

ImportsTypeOK ==
    /\ intake \in [Uploads -> SUBSET {"request", "job", "closure"}]
    /\ Cardinality({u \in Uploads : jobs[u] # "none"}) <= MaxImports
    /\ \A u \in Uploads : /\ upload[u] \in {"idle", "reading", "waiting", "gone"}
                          /\ task[u] \in {"none", "parse", "insert", "committing", "ended"}
                          /\ jobs[u] \in {"none", "running", "done", "error"}

Reserved == {u \in Uploads : intake[u] # {}}
Take(u, holder) == intake' = [intake EXCEPT ![u] = @ \cup {holder}]
Drop(u, holders) == intake' = [intake EXCEPT ![u] = @ \ holders]

OwnerChanges ==
    /\ owner' = ~owner
    /\ UNCHANGED <<intake, upload, task, jobs, imported, closed, cancelled, drained>>

---------------------------------------------------------------------------
(* The request. *)

\* authorize and reserve_input come before the body is read.
ReserveInput(u) ==
    /\ upload[u] = "idle" /\ owner /\ ~closed /\ Cardinality(Reserved) < MaxImports
    /\ Take(u, "request") /\ upload' = [upload EXCEPT ![u] = "reading"]
    /\ UNCHANGED <<owner, task, jobs, imported, closed, cancelled, drained>>

\* by_path: the file is read in a closure that shares the reservation.
ReadByPath(u) ==
    /\ upload[u] = "reading"
    /\ Take(u, "closure") /\ upload' = [upload EXCEPT ![u] = "waiting"]
    /\ UNCHANGED <<owner, task, jobs, imported, closed, cancelled, drained>>

PathRead(u) ==
    /\ "closure" \in intake[u] /\ task[u] = "none"
    /\ Drop(u, {"closure"})
    /\ upload' = [upload EXCEPT ![u] = IF @ = "waiting" THEN "reading" ELSE @]
    /\ UNCHANGED <<owner, task, jobs, imported, closed, cancelled, drained>>

\* Disconnected, timed out or invalid.
DropRequest(u) ==
    /\ upload[u] \in {"reading", "waiting"}
    /\ Drop(u, {"request"}) /\ upload' = [upload EXCEPT ![u] = "gone"]
    /\ UNCHANGED <<owner, task, jobs, imported, closed, cancelled, drained>>

TableFull == Cardinality({u \in Uploads : jobs[u] # "none"}) = MaxImports
Evictable == {u \in Uploads : jobs[u] \in {"done", "error"}}

\* start_reserved: a full table loses a finished job (the oldest; any of them here).
StartReserved(u, evicted) ==
    /\ upload[u] = "reading" /\ owner /\ ~closed
    /\ IF TableFull THEN evicted \in Evictable ELSE evicted = u
    /\ jobs' = [v \in Uploads |-> IF v = u THEN "running" ELSE IF v = evicted THEN "none" ELSE jobs[v]]
    /\ task' = [task EXCEPT ![u] = "parse"]
    /\ intake' = [intake EXCEPT ![u] = {"job", "closure"}]
    /\ upload' = [upload EXCEPT ![u] = "gone"]
    /\ UNCHANGED <<owner, imported, closed, cancelled, drained>>

\* Forbidden, closed, or no row to be had.
RefuseStart(u) ==
    /\ upload[u] = "reading" /\ (~owner \/ closed \/ (TableFull /\ Evictable = {}))
    /\ Drop(u, {"request"}) /\ upload' = [upload EXCEPT ![u] = "gone"]
    /\ UNCHANGED <<owner, task, jobs, imported, closed, cancelled, drained>>

---------------------------------------------------------------------------
(* The job: desktop_inner. *)

\* Mutant of Held: the job gives its reservation up when the export is parsed.
HeldUntilParsed(u) == intake' = [intake EXCEPT ![u] = {}]

\* The parsed export keeps the reservation of its job.
Held(u) == Drop(u, {"closure"})

ParseEnds(u) ==
    /\ "closure" \in intake[u] /\ task[u] \in {"parse", "ended"}
    /\ Held(u)
    /\ task' = [task EXCEPT ![u] = IF @ = "parse" THEN "insert" ELSE @]
    /\ UNCHANGED <<owner, upload, jobs, imported, closed, cancelled, drained>>

\* import_owner, before the rows and again before the commit.
InsertRows(u) ==
    /\ task[u] = "insert" /\ owner
    /\ task' = [task EXCEPT ![u] = "committing"]
    /\ UNCHANGED <<owner, intake, upload, jobs, imported, closed, cancelled, drained>>

EndJob(u, status) ==
    /\ task' = [task EXCEPT ![u] = "ended"] /\ Drop(u, {"job"})
    /\ jobs' = [jobs EXCEPT ![u] = IF @ = "none" THEN @ ELSE status]

CommitImport(u) ==
    /\ task[u] = "committing" /\ EndJob(u, "done")
    /\ imported' = imported \cup {u}
    /\ UNCHANGED <<owner, upload, closed, cancelled, drained>>

\* A refusal or an error rolls everything back.
ImportFails(u) ==
    /\ task[u] \in {"parse", "insert"} /\ EndJob(u, "error")
    /\ UNCHANGED <<owner, upload, imported, closed, cancelled, drained>>

\* The timeout, or the cancellation at shutdown; it may hit a commit that is done.
StopImport(u, committed) ==
    /\ task[u] \in {"parse", "insert", "committing"} /\ EndJob(u, "error")
    /\ committed => task[u] = "committing"
    /\ imported' = IF committed THEN imported \cup {u} ELSE imported
    /\ UNCHANGED <<owner, upload, closed, cancelled, drained>>

---------------------------------------------------------------------------
(* Shutdown. *)

StopAdmission ==
    /\ ~closed /\ closed' = TRUE
    /\ UNCHANGED <<owner, intake, upload, task, jobs, imported, cancelled, drained>>

CancelAll ==
    /\ ~cancelled /\ closed' = TRUE /\ cancelled' = TRUE
    /\ UNCHANGED <<owner, intake, upload, task, jobs, imported, drained>>

\* The tracker is empty: no job and no closure.
Drain ==
    /\ ~drained
    /\ \A u \in Uploads : task[u] \in {"none", "ended"} /\ "closure" \notin intake[u]
    /\ closed /\ drained' = TRUE
    /\ UNCHANGED <<owner, intake, upload, task, jobs, imported, closed, cancelled>>

ImportsInit ==
    /\ owner = TRUE /\ intake = [u \in Uploads |-> {}] /\ upload = [u \in Uploads |-> "idle"]
    /\ task = [u \in Uploads |-> "none"] /\ jobs = [u \in Uploads |-> "none"]
    /\ imported = {} /\ closed = FALSE /\ cancelled = FALSE /\ drained = FALSE

ImportsNext ==
    \/ OwnerChanges \/ StopAdmission \/ CancelAll \/ Drain
    \/ \E u \in Uploads :
           \/ ReserveInput(u) \/ ReadByPath(u) \/ PathRead(u) \/ DropRequest(u) \/ RefuseStart(u)
           \/ \E evicted \in Uploads : StartReserved(u, evicted)
           \/ ParseEnds(u) \/ InsertRows(u) \/ CommitImport(u) \/ ImportFails(u)
           \/ \E committed \in BOOLEAN : StopImport(u, committed)

ImportsSpec == ImportsInit /\ [][ImportsNext]_importVars

---------------------------------------------------------------------------
(* Properties. *)

\* A running job keeps its row until it ends; an upload that holds a reservation always
\* finds a row for its job, since a row that is not finished has a reservation of its own;
\* a job that says done has committed; and once the tracker has drained no job runs.
ImportsAreOwned ==
    /\ \A u \in Uploads : task[u] \in {"parse", "insert", "committing"} => jobs[u] = "running"
    /\ \A u \in Uploads : upload[u] = "reading" => ~(TableFull /\ Evictable = {})
    /\ \A u \in Uploads : jobs[u] = "done" => u \in imported
    /\ drained => \A u \in Uploads : task[u] \in {"none", "ended"}
=============================================================================
