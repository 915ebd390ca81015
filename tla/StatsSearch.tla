---------------------------- MODULE StatsSearch -----------------------------
(***************************************************************************)
(* Search and analytics over recorded messages (yoink-stats-search:        *)
(* service.rs, engine/mod.rs; yoink-stats: filtered.rs, lib.rs,            *)
(* imports/desktop.rs).  Triggers note every change of a message; a search *)
(* brings the Tantivy index up to date inside one write transaction and    *)
(* answers from it.  Work on the index is a closure in the blocking pool:  *)
(* when its request is dropped the closure still runs, at any time, for    *)
(* only the lock of the operation is granted in order, not the one of the  *)
(* index.  Analytics read the rows in batches, each under a connection of  *)
(* its own.  The process crashes and the database is replaced by an older  *)
(* copy.                                                                   *)
(***************************************************************************)
EXTENDS Naturals

CONSTANTS
    MessageIds,
    MaxWrites,    \* bound: changes of messages
    MaxMishaps    \* bound: cancelled operations, crashes, restores

\* What the constants of an instance satisfy; 0 is the cursor before the first message.
SearchAssumption ==
    MessageIds \subseteq Nat \ {0} /\ MaxWrites \in Nat /\ MaxMishaps \in Nat

VARIABLES
    rows,       \* stats_messages: the version of each message, 0 for none
    writes, mishaps,
    source,     \* source_revision, which moves with stats_runtime_revision
    acknowledged,
    dirty,      \* stats_search_dirty
    file,       \* identity of the database file
    backup,     \* a copy of the database
    documents,  \* the committed index, which the reader sees
    binding,    \* the commit payload: file and revision
    pending,    \* the index writer's uncommitted view
    needsRebuild,
    operation,  \* the search or refresh that holds the operation lock and the transaction
    detached,   \* the closures of cancelled operations that still have to run
    lastReset,  \* the mishaps there had been when the index was last emptied (an observer)
    health,     \* whether a closure came too late since the last rebuild (an observer)
    answer,     \* what the running search saw, and the rows it should have seen
    scan,       \* an aggregate over all rows
    report      \* what the last aggregate saw, and the rows at its end

database == <<rows, writes, source, acknowledged, dirty, file, backup>>
index == <<documents, binding, pending, needsRebuild>>
late == <<lastReset, health>>
searchVars == <<database, mishaps, index, operation, detached, late, answer, scan, report>>

Nothing == [id \in MessageIds |-> 0]
NoOperation == [phase |-> "idle", search |-> FALSE, rebuild |-> FALSE, todo |-> {}]
NoBinding == [file |-> 0, revision |-> 0]
NoAnswer == [seen |-> Nothing, rows |-> Nothing]
NoScan == [phase |-> "idle", fence |-> 0, cursor |-> 0, seen |-> Nothing]

SearchTypeOK ==
    /\ rows \in [MessageIds -> 0..MaxWrites] /\ dirty \subseteq MessageIds
    /\ acknowledged \in 0..source /\ binding.revision \in 0..MaxWrites
    /\ operation.phase \in {"idle", "reset", "batches", "query", "commit"}
    /\ operation.todo \subseteq MessageIds
    /\ \A c \in detached : c.kind \in {"reset", "update", "commit"} /\ c.nr \in 1..mishaps
    /\ health \in {"sound", "spoilt", "healing"}

---------------------------------------------------------------------------
(* Writers.  An immediate transaction excludes them. *)

Change(ids) ==
    /\ operation.phase = "idle" /\ writes < MaxWrites
    /\ rows' = [id \in MessageIds |-> IF id \in ids THEN writes + 1 ELSE rows[id]]
    /\ writes' = writes + 1 /\ source' = source + 1 /\ dirty' = dirty \cup ids
    /\ UNCHANGED <<mishaps, acknowledged, file, backup, index, operation, detached, late, answer, scan, report>>

\* A message or an edit is observed.
RecordMessage(id) == Change({id})

\* Only messages that are not there are imported, all in one transaction.
ImportDesktop ==
    /\ \E id \in MessageIds : rows[id] = 0
    /\ Change({id \in MessageIds : rows[id] = 0})

TakeBackup ==
    /\ operation.phase = "idle"
    /\ backup' = [rows |-> rows, source |-> source, acknowledged |-> acknowledged, dirty |-> dirty]
    /\ UNCHANGED <<rows, writes, source, acknowledged, dirty, file, mishaps, index, operation,
                   detached, late, answer, scan, report>>

---------------------------------------------------------------------------
(* search, refresh and rebuild: synchronize. *)

\* payload = binding
Bound == binding = [file |-> file, revision |-> acknowledged]

\* Mutant of Distrust: an operation that is given up leaves the writer trusted.
DistrustNot == UNCHANGED needsRebuild

\* Until the transaction is committed the writer may hold half of an update.
Distrust == needsRebuild' = TRUE

\* force is rebuild().
Begin(search, force) ==
    LET mismatch == force \/ needsRebuild \/ ~Bound
        rebuild == mismatch \/ (source # acknowledged /\ dirty = {}) IN
    /\ operation.phase = "idle"
    /\ IF ~mismatch /\ source = acknowledged /\ dirty = {}
       THEN /\ operation' = [NoOperation EXCEPT !.phase = "query", !.search = search]
            /\ UNCHANGED needsRebuild
       ELSE /\ operation' = [phase |-> IF rebuild THEN "reset" ELSE "batches", search |-> search,
                             rebuild |-> rebuild,
                             todo |-> IF rebuild THEN {id \in MessageIds : rows[id] # 0} ELSE dirty]
            /\ Distrust
    /\ UNCHANGED <<database, mishaps, documents, binding, pending, detached, late, answer, scan, report>>

Here == [file |-> file, revision |-> source]

ResetIndex ==
    /\ operation.phase = "reset"
    /\ operation' = [operation EXCEPT !.phase = "batches"] /\ pending' = Nothing
    /\ lastReset' = mishaps /\ health' = IF health = "spoilt" THEN "healing" ELSE health
    /\ UNCHANGED <<database, mishaps, documents, binding, needsRebuild, detached, answer, scan, report>>

UpdateBatch(id) ==
    /\ operation.phase = "batches" /\ id \in operation.todo
    /\ operation' = [operation EXCEPT !.todo = @ \ {id}]
    /\ pending' = [pending EXCEPT ![id] = rows[id]]
    /\ UNCHANGED <<database, mishaps, documents, binding, needsRebuild, detached, late, answer, scan, report>>

\* Tantivy's commit is atomic, and the reader is reloaded with it.
CommitIndex ==
    /\ operation.phase = "batches" /\ operation.todo = {}
    /\ operation' = [operation EXCEPT !.phase = "query"]
    /\ documents' = pending /\ binding' = Here
    /\ health' = IF health = "healing" THEN "sound" ELSE health
    /\ UNCHANGED <<database, mishaps, pending, needsRebuild, detached, lastReset, answer, scan, report>>

\* The dirty rows are cleared in the transaction; a search then reads the index.
QueryIndex ==
    /\ operation.phase = "query"
    /\ operation' = [operation EXCEPT !.phase = "commit"]
    /\ answer' = IF operation.search THEN [seen |-> documents, rows |-> rows] ELSE answer
    /\ UNCHANGED <<database, mishaps, index, detached, late, scan, report>>

CommitOperation ==
    /\ operation.phase = "commit"
    /\ operation' = NoOperation /\ needsRebuild' = FALSE
    /\ dirty' = {} /\ acknowledged' = source /\ answer' = NoAnswer
    /\ UNCHANGED <<rows, writes, source, file, backup, mishaps, documents, binding, pending, detached, late,
                   scan, report>>

\* The closure that may be under way when the operation is given up.
Executing ==
    LET closure == [nr |-> mishaps + 1, kind |-> "reset", id |-> 0, version |-> 0, binding |-> NoBinding] IN
    CASE operation.phase = "reset" -> {closure}
      [] operation.phase = "batches" /\ operation.todo # {} ->
             {[closure EXCEPT !.kind = "update", !.id = id, !.version = rows[id]] : id \in operation.todo}
      [] operation.phase = "batches" /\ operation.todo = {} ->
             {[closure EXCEPT !.kind = "commit", !.binding = Here]}
      [] OTHER -> {}

\* An error, or the request is dropped: the transaction is rolled back, while a closure
\* that was handed to the blocking pool (left) runs to its end.
Abandon(left) ==
    /\ operation.phase # "idle" /\ mishaps < MaxMishaps
    /\ mishaps' = mishaps + 1 /\ operation' = NoOperation /\ detached' = detached \cup left
    /\ answer' = NoAnswer
    /\ UNCHANGED <<database, index, late, scan, report>>

\* The closure gets the lock of the index, which nobody grants in order: it may be
\* after later operations have emptied the index and filled it again.
DetachedRuns(c) ==
    /\ c \in detached /\ detached' = detached \ {c}
    /\ pending' = CASE c.kind = "reset" -> Nothing
                    [] c.kind = "update" -> [pending EXCEPT ![c.id] = c.version]
                    [] OTHER -> pending
    /\ IF c.kind = "commit"
       THEN documents' = pending /\ binding' = c.binding ELSE UNCHANGED <<documents, binding>>
    /\ lastReset' = IF c.kind = "reset" /\ c.nr > lastReset THEN c.nr ELSE lastReset
    /\ health' = IF c.nr <= lastReset THEN "spoilt" ELSE health
    /\ UNCHANGED <<database, mishaps, needsRebuild, operation, answer, scan, report>>

---------------------------------------------------------------------------
(* Restarts. *)

Stopped ==
    /\ mishaps < MaxMishaps /\ mishaps' = mishaps + 1
    /\ operation' = NoOperation /\ detached' = {} /\ scan' = NoScan
    /\ health' = IF health = "healing" THEN "spoilt" ELSE health
    /\ needsRebuild' = FALSE /\ answer' = NoAnswer /\ report' = NoAnswer
    /\ UNCHANGED <<writes, backup, lastReset>>

\* What the writer had not committed is gone.
CrashSearch ==
    /\ Stopped /\ pending' = documents
    /\ UNCHANGED <<rows, source, acknowledged, dirty, file, documents, binding>>

\* An operator restores the copy as a new file.
RestoreBackup ==
    /\ Stopped /\ pending' = documents
    /\ rows' = backup.rows /\ source' = backup.source
    /\ acknowledged' = backup.acknowledged /\ dirty' = backup.dirty /\ file' = file + 1
    /\ UNCHANGED <<documents, binding>>

\* recover_search_at: a fresh directory, which the closures still under way do not have.
RecoverSearchAt ==
    /\ operation.phase = "idle" /\ documents # Nothing
    /\ documents' = Nothing /\ pending' = Nothing /\ binding' = NoBinding /\ needsRebuild' = FALSE
    /\ detached' = {} /\ health' = "sound"
    /\ UNCHANGED <<database, mishaps, operation, lastReset, answer, scan, report>>

---------------------------------------------------------------------------
(* Analytics: aggregate. *)

StartScan ==
    /\ scan.phase = "idle"
    /\ scan' = [NoScan EXCEPT !.phase = "reading", !.fence = source]
    /\ report' = NoAnswer
    /\ UNCHANGED <<database, mishaps, index, operation, detached, late, answer>>

\* The key after the cursor; the revision is compared on every connection.
ScanBatch(id) ==
    /\ scan.phase = "reading" /\ source = scan.fence
    /\ id > scan.cursor /\ \A other \in MessageIds : other > scan.cursor => id <= other
    /\ scan' = [scan EXCEPT !.cursor = id, !.seen[id] = rows[id]]
    /\ UNCHANGED <<database, mishaps, index, operation, detached, late, answer, report>>

EndScan ==
    /\ scan.phase = "reading" /\ \A id \in MessageIds : id <= scan.cursor
    /\ scan' = NoScan
    /\ report' = IF source = scan.fence THEN [seen |-> scan.seen, rows |-> rows] ELSE report
    /\ UNCHANGED <<database, mishaps, index, operation, detached, late, answer>>

\* Unavailable: something was written meanwhile.
ScanFenced ==
    /\ scan.phase = "reading" /\ source # scan.fence
    /\ scan' = NoScan
    /\ UNCHANGED <<database, mishaps, index, operation, detached, late, answer, report>>

SearchInit ==
    /\ rows = Nothing /\ writes = 0 /\ mishaps = 0
    /\ source = 0 /\ acknowledged = 0 /\ dirty = {} /\ file = 1
    /\ backup = [rows |-> Nothing, source |-> 0, acknowledged |-> 0, dirty |-> {}]
    /\ documents = Nothing /\ pending = Nothing /\ binding = NoBinding /\ needsRebuild = FALSE
    /\ operation = NoOperation /\ detached = {} /\ scan = NoScan
    /\ lastReset = 0 /\ health = "sound"
    /\ answer = NoAnswer /\ report = NoAnswer

SearchNext ==
    \/ \E id \in MessageIds : RecordMessage(id) \/ UpdateBatch(id) \/ ScanBatch(id)
    \/ ImportDesktop \/ TakeBackup
    \/ \E search, force \in BOOLEAN : Begin(search, force)
    \/ ResetIndex \/ CommitIndex \/ QueryIndex \/ CommitOperation
    \/ \E left \in {{}} \cup {{c} : c \in Executing} : Abandon(left)
    \/ \E c \in detached : DetachedRuns(c)
    \/ CrashSearch \/ RestoreBackup \/ RecoverSearchAt
    \/ StartScan \/ EndScan \/ ScanFenced

SearchSpec == SearchInit /\ [][SearchNext]_searchVars

---------------------------------------------------------------------------
(* Properties. *)

\* Every aggregate reads rows that all stood in the table together.  Every search answers
\* from an index that holds exactly the messages of its own transaction, whatever was
\* cancelled, lost in a crash or restored before, unless the closure of a cancelled
\* operation got at the index only after it had been emptied again; and then only until
\* the next rebuild is committed.
ReadsAreSnapshots ==
    /\ health = "sound" => answer.seen = answer.rows
    /\ report.seen = report.rows
=============================================================================
