----------------------------- MODULE Publication -----------------------------
(***************************************************************************)
(* How a database file comes to its name and who owns it: the processes    *)
(* that publish one (the importer, backup and restore) and the processes   *)
(* that own one (server, migrate) meet at the directory, through the file  *)
(* and through its ".yoink-lock" sidecar (yoink-db publication.rs, lib.rs, *)
(* yoink-ops, yoink-import), and the migration ledger that says which      *)
(* schema the file has (yoink-storage schema.rs).                          *)
(*                                                                         *)
(* A lock file is an inode: it can be unlinked while processes hold it     *)
(* open, and an advisory lock belongs to the inode, not to the name.  Each *)
(* system call is a step, so other processes come between any two; a crash *)
(* releases the locks of the process and leaves its files.                 *)
(*                                                                         *)
(* A source is copied in two parts, so that a copy of a source that moves  *)
(* on in between can be told from a copy of one state.                     *)
(***************************************************************************)
EXTENDS Naturals, FiniteSets, Sequences

CONSTANTS
    Publishers,      \* processes that publish to the name
    PublisherKind,   \* "import", "backup" or "restore", for each
    Runtimes,        \* processes that own the database under the name
    MayCreate,       \* those of them that may create and migrate it (migrate)
    Creates,         \* the schema objects that each migration of this release creates
    Tables,          \* those of them that are tables
    MaxSourceMoves,  \* bound: changes of the source during copies
    MaxLaunches      \* bound: starts of processes; the inodes that may exist

\* The holder of a lock that is free.
NoProcess == "nobody"

ASSUME PublicationAssumption ==
    /\ IsFiniteSet(Publishers) /\ IsFiniteSet(Runtimes) /\ Publishers \cap Runtimes = {}
    /\ NoProcess \notin Publishers \cup Runtimes
    /\ PublisherKind \in [Publishers -> {"import", "backup", "restore"}]
    /\ MayCreate \subseteq Runtimes
    /\ Creates # <<>> /\ Creates \in Seq({Creates[v] : v \in DOMAIN Creates})
    /\ \A v, w \in DOMAIN Creates : v # w => Creates[v] \cap Creates[w] = {}
    /\ MaxSourceMoves \in Nat /\ MaxLaunches \in Nat

VARIABLES
    databaseFile,    \* what is under the name: nothing, a database of migrate or a published copy
    lockFile,        \* the inode under the sidecar's name, 0 if there is none
    lockHolder,      \* the process that holds each inode's lock
    inodes,          \* inodes created so far
    sourceState,     \* the state the source is in
    process,         \* each process: its step, the inode it opened and what it staged
    launches         \* starts so far

publicationVars == <<databaseFile, lockFile, lockHolder, inodes, sourceState, process, launches>>

Processes == Publishers \cup Runtimes
Inodes == 1 .. MaxLaunches + 1

-----------------------------------------------------------------------------
(* The migration ledger (schema.rs).                                       *)

Migrations == DOMAIN Creates
SchemaVersion == Len(Creates)

\* The objects of a database that the first v migrations have run on, and how
\* many tables the code expects then (the ledger is one of them).
ObjectsAt(v) == UNION {Creates[w] : w \in 1 .. v}
ExpectedTables(v) == Cardinality(ObjectsAt(v) \cap Tables) + 1

\* Digests tell texts apart: the SQL of a migration by its version and edition,
\* the schema by its objects.
Checksum(v) == <<v, "released">>
Recorded(v, objects) == [version |-> v, success |-> TRUE, checksum |-> Checksum(v), fingerprint |-> objects]

\* A database by the layout of its ledger table, the ledger's rows and its
\* other objects.
Blank == [layout |-> "none", ledger |-> <<>>, objects |-> {}]
Released(v) == [layout |-> "ours", objects |-> ObjectsAt(v),
                ledger |-> [w \in 1 .. v |-> Recorded(w, ObjectsAt(w))]]

\* What is not this release's: a later one, an edition of a migration that was
\* never released, an object made by hand, another program's file or ledger.
Strangers ==
    LET all == Released(SchemaVersion) IN
    {[all EXCEPT !.ledger = Append(@, Recorded(SchemaVersion + 1, ObjectsAt(SchemaVersion)))],
     [all EXCEPT !.ledger[1].checksum = <<1, "edited">>],
     [Released(1) EXCEPT !.objects = @ \cup {"by hand"}],
     [Blank EXCEPT !.objects = {"by hand"}],
     [Released(1) EXCEPT !.layout = "other"]}

Schemas == {Blank} \cup {Released(v) : v \in Migrations} \cup Strangers

\* validate_history: the rows are this release's first migrations, in order.
HistoryValid(ledger) ==
    /\ Len(ledger) <= SchemaVersion
    /\ \A v \in DOMAIN ledger : /\ ledger[v].version = v /\ ledger[v].success
                                /\ ledger[v].checksum = Checksum(v)

\* schema_hash fails unless the tables are as many as the migration expects.
FingerprintValid(schema, v) ==
    /\ Cardinality(schema.objects \cap Tables) + 1 = ExpectedTables(v)
    /\ schema.ledger[v].fingerprint = schema.objects

\* verify_connection: the whole ledger and the fingerprint of its last row.
SchemaIsCurrent(schema) ==
    /\ schema.layout = "ours"
    /\ HistoryValid(schema.ledger) /\ Len(schema.ledger) = SchemaVersion
    /\ FingerprintValid(schema, SchemaVersion)

\* migrate: what must hold before the first statement of a migration.
Recognised(schema) ==
    LET applied == Len(schema.ledger) IN
    /\ schema.layout # "other"
    /\ HistoryValid(schema.ledger)
    /\ IF applied = 0 THEN schema.objects = {} ELSE FingerprintValid(schema, applied)

\* The missing migrations one after the other, each recorded with the
\* fingerprint of the schema it leaves.
Migrated(schema) ==
    LET applied == Len(schema.ledger)
        After(v) == schema.objects \cup UNION {Creates[w] : w \in applied + 1 .. v} IN
    [layout |-> "ours", objects |-> After(SchemaVersion),
     ledger |-> [v \in Migrations |-> IF v <= applied THEN schema.ledger[v] ELSE Recorded(v, After(v))]]

-----------------------------------------------------------------------------
\* A file by the states of the source its two parts were copied from (and an
\* import by its sequence), by whether the engine can open it and by its
\* schema; migrate creates an empty database.
NoFile == [parts |-> <<>>, archive |-> FALSE, schema |-> Blank]
DatabaseOf(schema) == [parts |-> <<0, 0>>, archive |-> FALSE, schema |-> schema]

Away == [at |-> "away", inode |-> 0, staged |-> <<>>, schema |-> Blank, creates |-> FALSE]

PublicationTypeOK ==
    /\ lockFile \in {0} \cup Inodes
    /\ lockHolder \in [Inodes -> Processes \cup {NoProcess}]
    /\ inodes \in 0 .. MaxLaunches + 1
    /\ Len(databaseFile.schema.ledger) <= SchemaVersion + 1
    /\ sourceState \in 1 .. MaxSourceMoves + 1
    /\ launches \in 0 .. MaxLaunches
    /\ \A p \in Processes :
         process[p].at \in {"away", "absent", "created", "reserved", "copying", "tables", "copied", "snapshot", "valid",
                            "verified", "renamed", "dropping", "removing", "unlinked",
                            "looked", "opened", "checked", "locked", "owning", "migrated", "serving"}

\* A new installation, or one of an earlier or later release.
PublicationInit ==
    /\ databaseFile \in {NoFile} \cup {DatabaseOf(schema) : schema \in Schemas}
    /\ lockFile = IF databaseFile = NoFile THEN 0 ELSE 1
    /\ lockHolder = [i \in Inodes |-> NoProcess]
    /\ inodes = lockFile
    /\ sourceState = 1
    /\ process = [p \in Processes |-> Away]
    /\ launches = 0

AtStep(p, step) == process[p].at = step
MovesTo(p, step) == process' = [process EXCEPT ![p].at = step]
InodeOf(p) == process[p].inode
Named(p) == InodeOf(p) # 0 /\ lockFile = InodeOf(p)

FilesStay == UNCHANGED <<databaseFile, lockFile, inodes>>
SourceStays == UNCHANGED <<sourceState, launches>>

Launch == launches < MaxLaunches /\ launches' = launches + 1

\* try_lock_exclusive: succeeds also for the process that has the lock.
Lockable(p) == lockHolder[InodeOf(p)] \in {NoProcess, p}
LockTaken(p) == lockHolder' = [lockHolder EXCEPT ![InodeOf(p)] = p]
Unlocked(p) == [i \in Inodes |-> IF lockHolder[i] = p THEN NoProcess ELSE lockHolder[i]]

-----------------------------------------------------------------------------
(* Publishers: DestinationGuard::reserve. *)

EnsureAbsent(p) ==
    /\ AtStep(p, "away") /\ Launch
    /\ databaseFile = NoFile /\ lockFile = 0
    /\ MovesTo(p, "absent")
    /\ FilesStay /\ UNCHANGED <<lockHolder, sourceState>>

\* create_new: fails when the sidecar has appeared meanwhile.
CreateReservation(p) ==
    /\ AtStep(p, "absent")
    /\ IF lockFile = 0
       THEN /\ inodes' = inodes + 1
            /\ lockFile' = inodes'
            /\ process' = [process EXCEPT ![p].at = "created", ![p].inode = inodes']
       ELSE process' = [process EXCEPT ![p] = Away] /\ UNCHANGED <<inodes, lockFile>>
    /\ UNCHANGED <<databaseFile, lockHolder>> /\ SourceStays

LockReservation(p) ==
    /\ AtStep(p, "created")
    /\ IF Lockable(p)
       THEN LockTaken(p) /\ MovesTo(p, IF Named(p) THEN "reserved" ELSE "dropping")
       ELSE MovesTo(p, "dropping") /\ UNCHANGED lockHolder
    /\ FilesStay /\ SourceStays

-----------------------------------------------------------------------------
(* Publishers: staging a copy. *)

Staging == FilesStay /\ SourceStays /\ UNCHANGED lockHolder

\* The importer: begin_snapshot, REPEATABLE READ, in a file it has migrated.
BeginSnapshot(p) ==
    /\ AtStep(p, "reserved") /\ PublisherKind[p] = "import"
    /\ process' = [process EXCEPT ![p].at = "copying", ![p].staged = <<sourceState>>,
                                  ![p].schema = Migrated(Blank)]
    /\ Staging

\* Mutant: the importer reads every table as it is at the time.
LaterPartLive(p) == sourceState

\* The state the later tables are read in: that of the snapshot.
LaterPart(p) == process[p].staged[1]

CopyTables(p) ==
    /\ AtStep(p, "copying") /\ PublisherKind[p] = "import"
    /\ process' = [process EXCEPT ![p].at = "tables", ![p].staged = Append(@, LaterPart(p))]
    /\ Staging

\* A source sequence is read live, not in the snapshot, and lags behind rows
\* that were inserted with ids of their own; each state of the source adds a
\* row whose id is the state.
HighWater(p, sequence) == IF sequence > process[p].staged[2] THEN sequence ELSE process[p].staged[2]

PreserveSequences(p) ==
    /\ AtStep(p, "tables")
    /\ \E sequence \in {0, sourceState} :
         process' = [process EXCEPT ![p].at = "copied", ![p].staged = Append(@, HighWater(p, sequence))]
    /\ Staging

\* The source is not one of the reviewed schemas, or its data break a
\* constraint that the reviewed live schema lacks.
CatalogRefused(p) ==
    /\ AtStep(p, "copying") /\ PublisherKind[p] = "import"
    /\ MovesTo(p, "dropping")
    /\ Staging

\* A row has a value that has no exact native form, or is too large.
RowRefused(p) ==
    /\ AtStep(p, "tables")
    /\ MovesTo(p, "dropping")
    /\ Staging

\* A backup: one VACUUM INTO under the only connection of a verified store.
VacuumInto(p) ==
    /\ AtStep(p, "reserved") /\ PublisherKind[p] = "backup"
    /\ process' = [process EXCEPT ![p].at = "copied", ![p].staged = <<sourceState, sourceState>>,
                                  ![p].schema = Migrated(Blank)]
    /\ Staging

\* A restore: an archive of any release, which may change while it is read.
OpenArchive(p) ==
    /\ AtStep(p, "reserved") /\ PublisherKind[p] = "restore"
    /\ \E schema \in Schemas :
         process' = [process EXCEPT ![p].at = "copying", ![p].staged = <<sourceState>>, ![p].schema = schema]
    /\ Staging

\* archive::decode compares the digest and the metadata of the open file.
ArchiveUnchanged(p) == process[p].staged[1] = sourceState

TransferArchive(p) ==
    /\ AtStep(p, "copying") /\ PublisherKind[p] = "restore"
    /\ process' = [process EXCEPT ![p].at = IF ArchiveUnchanged(p) THEN "copied" ELSE "dropping",
                                  ![p].staged = Append(@, sourceState)]
    /\ Staging

\* The importer's digests, foreign keys, integrity and schema.
ValidateImport(p) ==
    /\ AtStep(p, "copied") /\ PublisherKind[p] = "import"
    /\ MovesTo(p, IF SchemaIsCurrent(process[p].schema) THEN "valid" ELSE "dropping")
    /\ Staging

\* Backup and restore: schema, integrity, foreign keys, checkpoint, empty WAL.
ValidateStaged(p) ==
    /\ AtStep(p, "copied") /\ PublisherKind[p] # "import"
    /\ LET accepted == IF PublisherKind[p] = "backup" THEN "snapshot" ELSE "valid" IN
       MovesTo(p, IF SchemaIsCurrent(process[p].schema) THEN accepted ELSE "dropping")
    /\ Staging

\* The snapshot becomes an archive that the engine cannot open.
EncodeArchive(p) ==
    /\ AtStep(p, "snapshot")
    /\ MovesTo(p, "valid")
    /\ Staging

\* An error or the cancellation that is checked before each stage.
StagingFails(p) ==
    /\ \E step \in {"reserved", "copying", "tables", "copied", "snapshot", "valid"} : AtStep(p, step)
    /\ MovesTo(p, "dropping")
    /\ Staging

-----------------------------------------------------------------------------
(* Publishers: DestinationGuard::publish and the end of the reservation. *)

VerifyReservation(p) ==
    /\ AtStep(p, "valid")
    /\ MovesTo(p, IF databaseFile = NoFile /\ Named(p) THEN "verified" ELSE "dropping")
    /\ Staging

\* renameat NOREPLACE: from here on the sidecar is kept.
RenameStaged(p) ==
    /\ AtStep(p, "verified")
    /\ IF databaseFile = NoFile
       THEN /\ databaseFile' = [parts |-> process[p].staged, schema |-> process[p].schema,
                              archive |-> PublisherKind[p] = "backup"]
            /\ MovesTo(p, "renamed")
       ELSE MovesTo(p, "dropping") /\ UNCHANGED databaseFile
    /\ SourceStays /\ UNCHANGED <<lockFile, inodes, lockHolder>>

\* The directory is synced, or its durability is reported as uncertain.
ReleasePublished(p) ==
    /\ AtStep(p, "renamed")
    /\ lockHolder' = Unlocked(p)
    /\ process' = [process EXCEPT ![p] = Away]
    /\ FilesStay /\ SourceStays

\* Mutant: the reservation is removed without a look at its lock.
MayRemoveUnheld(p) == TRUE

\* A failed publisher takes its lock again before it removes the sidecar.
MayRemove(p) == Lockable(p)

DropReservation(p) ==
    /\ AtStep(p, "dropping")
    /\ IF Lockable(p) THEN LockTaken(p) ELSE UNCHANGED lockHolder
    /\ MovesTo(p, IF MayRemove(p) THEN "removing" ELSE "unlinked")
    /\ FilesStay /\ SourceStays

\* The name is removed if it is still the publisher's inode.
RemoveReservation(p) ==
    /\ AtStep(p, "removing")
    /\ lockFile' = IF Named(p) THEN 0 ELSE lockFile
    /\ MovesTo(p, "unlinked")
    /\ SourceStays /\ UNCHANGED <<databaseFile, inodes, lockHolder>>

UnlockReservation(p) ==
    /\ AtStep(p, "unlinked")
    /\ lockHolder' = Unlocked(p)
    /\ process' = [process EXCEPT ![p] = Away]
    /\ FilesStay /\ SourceStays

-----------------------------------------------------------------------------
(* Owners: Database::open and close. *)

\* DatabaseConfig::open decides whether to create before anything is locked.
LookForDatabase(o) ==
    /\ AtStep(o, "away") /\ Launch
    /\ process' = [process EXCEPT ![o].at = "looked",
                                  ![o].creates = o \in MayCreate /\ databaseFile = NoFile]
    /\ FilesStay /\ UNCHANGED <<lockHolder, sourceState>>

\* The sidecar is opened, or created when there is none.
OpenLock(o) ==
    /\ AtStep(o, "looked")
    /\ IF lockFile = 0 THEN inodes' = inodes + 1 /\ lockFile' = inodes'
                       ELSE UNCHANGED <<inodes, lockFile>>
    /\ process' = [process EXCEPT ![o].at = "opened", ![o].inode = lockFile']
    /\ UNCHANGED <<databaseFile, lockHolder>> /\ SourceStays

\* The opened inode must have one name.
CheckLock(o) ==
    /\ AtStep(o, "opened")
    /\ process' = [process EXCEPT ![o] = IF Named(o) THEN [@ EXCEPT !.at = "checked"] ELSE Away]
    /\ FilesStay /\ SourceStays /\ UNCHANGED lockHolder

TakeLock(o) ==
    /\ AtStep(o, "checked")
    /\ IF Lockable(o) THEN LockTaken(o) /\ MovesTo(o, "locked")
                      ELSE process' = [process EXCEPT ![o] = Away] /\ UNCHANGED lockHolder
    /\ FilesStay /\ SourceStays

Owning(o) == \E step \in {"owning", "migrated", "serving"} : AtStep(o, step)

Quits(o) == /\ lockHolder' = Unlocked(o)
            /\ process' = [process EXCEPT ![o] = Away]

\* A missing database is created by the process that found none, an existing
\* one opened by the others; anything else unlocks and reports an error.
OpenOrCreate(o) ==
    /\ AtStep(o, "locked")
    /\ LET creates == databaseFile = NoFile /\ process[o].creates
           opens == databaseFile # NoFile /\ ~process[o].creates /\ ~databaseFile.archive IN
       /\ databaseFile' = IF creates THEN DatabaseOf(Blank) ELSE databaseFile
       /\ IF creates \/ opens THEN MovesTo(o, "owning") /\ UNCHANGED lockHolder
                             ELSE Quits(o)
    /\ SourceStays /\ UNCHANGED <<lockFile, inodes>>

\* migrate: every missing migration in one transaction, and verified in it; a
\* schema that is not recognised is left as it is.
MigrateSchema(o) ==
    /\ AtStep(o, "owning") /\ o \in MayCreate
    /\ IF Recognised(databaseFile.schema) /\ SchemaIsCurrent(Migrated(databaseFile.schema))
       THEN /\ databaseFile' = [databaseFile EXCEPT !.schema = Migrated(@)]
            /\ MovesTo(o, "migrated") /\ UNCHANGED lockHolder
       ELSE Quits(o) /\ UNCHANGED databaseFile
    /\ SourceStays /\ UNCHANGED <<lockFile, inodes>>

\* The server's startup, and check-schema: nothing but the current schema.
VerifySchema(o) ==
    /\ AtStep(o, "owning") /\ o \notin MayCreate
    /\ IF SchemaIsCurrent(databaseFile.schema) THEN MovesTo(o, "serving") /\ UNCHANGED lockHolder
                                               ELSE Quits(o)
    /\ FilesStay /\ SourceStays

\* The process ends, or its migration failed and was rolled back.
CloseDatabase(o) ==
    /\ Owning(o)
    /\ Quits(o)
    /\ FilesStay /\ SourceStays

-----------------------------------------------------------------------------
(* The surroundings. *)

\* SIGKILL: the locks are released, the sidecar and the staging stay.
ProcessDies(p) ==
    /\ ~AtStep(p, "away")
    /\ lockHolder' = Unlocked(p)
    /\ process' = [process EXCEPT ![p] = Away]
    /\ FilesStay /\ SourceStays

SourceMoves ==
    /\ sourceState <= MaxSourceMoves
    /\ sourceState' = sourceState + 1
    /\ FilesStay /\ UNCHANGED <<lockHolder, process, launches>>

PublicationNext ==
    \/ \E p \in Publishers :
         \/ EnsureAbsent(p) \/ CreateReservation(p) \/ LockReservation(p)
         \/ BeginSnapshot(p) \/ CatalogRefused(p) \/ CopyTables(p) \/ RowRefused(p)
         \/ PreserveSequences(p) \/ ValidateImport(p)
         \/ VacuumInto(p) \/ OpenArchive(p) \/ TransferArchive(p) \/ ValidateStaged(p) \/ EncodeArchive(p)
         \/ StagingFails(p)
         \/ VerifyReservation(p) \/ RenameStaged(p) \/ ReleasePublished(p)
         \/ DropReservation(p) \/ RemoveReservation(p) \/ UnlockReservation(p)
    \/ \E o \in Runtimes :
         \/ LookForDatabase(o) \/ OpenLock(o) \/ CheckLock(o) \/ TakeLock(o) \/ OpenOrCreate(o)
         \/ MigrateSchema(o) \/ VerifySchema(o) \/ CloseDatabase(o)
    \/ \E p \in Processes : ProcessDies(p)
    \/ SourceMoves

PublicationSpec == PublicationInit /\ [][PublicationNext]_publicationVars

-----------------------------------------------------------------------------
(* Properties. *)

PublishStep ==
    /\ databaseFile' # databaseFile =>
         IF databaseFile = NoFile
         THEN /\ databaseFile'.parts[1] = databaseFile'.parts[2]
              /\ Len(databaseFile'.parts) = 3 => databaseFile'.parts[3] >= databaseFile'.parts[2]
              /\ databaseFile'.parts[1] > 0 => databaseFile'.schema = Released(SchemaVersion)
         ELSE /\ databaseFile' = [databaseFile EXCEPT !.schema = Released(SchemaVersion)]
              /\ databaseFile.schema \in {Blank} \cup {Released(v) : v \in Migrations}
              /\ \A o \in Runtimes : ~AtStep(o, "serving")
    /\ lockFile # 0 /\ lockFile' # lockFile => lockHolder[lockFile] \in Publishers

\* What appears under the name is one state of its source, complete and of
\* the current schema, with sequences beyond every id it holds, and nothing is
\* taken away from another process: a database that exists is never replaced
\* or removed and only ever migrated forward, all the way and from a schema
\* that a release left, never below a process that serves it, and a sidecar
\* loses its name only to the publisher that holds its lock (Reservation::drop:
\* "Never unlink after releasing the lock", "A lost acquisition must also
\* respect that owner"; import.md: "Atomic no-replace publication must not
\* replace an existing destination that appeared during the import").
PublishesWholeFiles == [][PublicationTypeOK' /\ PublishStep]_publicationVars

\* "An advisory exclusive sidecar lock prevents a second owner" (decision
\* 0003): two processes never have the database open at the same time.
OneOwner == \A o, q \in Runtimes : Owning(o) /\ Owning(q) => o = q
=============================================================================
