----------------------------- MODULE ServerLife -----------------------------
(***************************************************************************)
(* The life of the server process (yoink-server/src/runtime.rs and         *)
(* product_runtime.rs): a startup that builds the configured parts one     *)
(* after the other and may fail, time out or be abandoned at any await;    *)
(* the adapter tasks; the registries that admit work; and the shutdown     *)
(* that joins, closes and drains them in a fixed order and closes the      *)
(* database at the very end.                                               *)
(*                                                                         *)
(* Work is what uses the database or a worker on somebody's behalf and is  *)
(* spawned beside the task that started it.  Some of it is in a registry   *)
(* the process keeps (a Telegram handler, a guarded HTTP request, an       *)
(* Insight execution, a Music search, a Stats import, a blocking closure   *)
(* of the search index, the launcher child of a check); the rest is loose: *)
(* only the task it belongs to waits for it.  What run returns is left     *)
(* out.                                                                    *)
(***************************************************************************)
EXTENDS Naturals, Sequences, FiniteSets

CONSTANTS Configurations, \* sets of configured parts to explore
          MaxWork,        \* work of one owner at a time
          MaxStarted      \* work that is started at all

\* prepare, in its order
PrepareOrder ==
    <<"database", "auth", "telegram", "media", "insight", "inbox", "music", "stats">>
Parts == {PrepareOrder[k] : k \in DOMAIN PrepareOrder}

ASSUME LifeAssumption ==
    /\ MaxWork \in Nat \ {0} /\ MaxStarted \in Nat /\ Configurations \subseteq SUBSET Parts

Tasks == {"http", "cookies", "health", "inbox", "jobs", "notices", "downloads", "telegram"}

\* Loose work, and the task that waits for it: connections with a request no registry
\* counts, device polls, downloads, inline queries and the content of an inbox job.
LooseOf == [plain |-> "http", poll |-> "cookies", download |-> "downloads",
            query |-> "telegram", content |-> "inbox"]
Loose == DOMAIN LooseOf

Registered == {"handler", "request", "insight_child", "insight", "music_child", "music",
               "import", "search"}
Owners == Registered \cup Loose

VARIABLES
    config,     \* the configured parts
    phase,      \* "starting", "running", "stopping", "ended"
    built,      \* parts kept outside of the future that startup may abandon
    checking,   \* the part being built has begun work of its own
    tasks,      \* tasks of the JoinSet
    left,       \* tasks that ended before the work they should have waited for
    cancelled,  \* the tasks' token
    ready,      \* SystemService readiness
    closed,     \* registries that admit no more
    working,    \* [owner -> work that has not ended]
    step,       \* the shutdown's place in its order
    overrun,    \* the deadline of the shutdown has passed
    store,      \* "unopened", "open", "closed": the database and its lock
    started     \* work started so far

lifeVars == <<config, phase, built, checking, tasks, left, cancelled, ready, closed,
              working, step, overrun, store, started>>

\* stop_and_drain, then the products, then the database
ShutdownOrder == <<"tasks", "handler", "request", "insight_child", "insight",
                   "music_child", "music", "import", "search", "database">>
Stage == ShutdownOrder[step]

LifeTypeOK ==
    /\ config \subseteq Parts /\ built \subseteq Parts \cup {"routes"}
    /\ phase \in {"starting", "running", "stopping", "ended"} /\ checking \in BOOLEAN
    /\ tasks \subseteq Tasks /\ left \subseteq Tasks
    /\ cancelled \in BOOLEAN /\ ready \in BOOLEAN /\ overrun \in BOOLEAN
    /\ closed \subseteq Owners
    /\ working \in [Owners -> 0..MaxWork]
    /\ step \in 0..Len(ShutdownOrder)
    /\ store \in {"unopened", "open", "closed"} /\ started \in 0..MaxStarted

\* run_impl binds and serves HTTP before anything else is built
LifeInit ==
    /\ config \in Configurations /\ phase = "starting" /\ built = {} /\ checking = FALSE
    /\ tasks = {"http"} /\ left = {} /\ cancelled = FALSE /\ ready = FALSE /\ closed = {}
    /\ working = [o \in Owners |-> 0]
    /\ step = 0 /\ overrun = FALSE /\ store = "unopened" /\ started = 0

-----------------------------------------------------------------------------
(* Startup: the parts in their order; a part that misses another fails, as *)
(* does any error on the way (AbandonStartup).                             *)

Needs == [database |-> {}, auth |-> {"database"}, telegram |-> {},
          media |-> {"database", "telegram"}, insight |-> {"database"},
          inbox |-> {"database"}, music |-> {"database", "telegram"},
          stats |-> {"database", "telegram"}]

Due(p) ==
    /\ phase = "starting" /\ p \in config \ built /\ Needs[p] \subseteq built
    /\ \A j, k \in DOMAIN PrepareOrder :
           PrepareOrder[k] = p /\ j < k => PrepareOrder[j] \notin config \ built

Built(p) ==
    /\ Due(p) /\ built' = built \cup {p}
    /\ UNCHANGED <<config, phase, tasks, left, cancelled, ready, closed, step,
                   overrun, store, started>>

\* Database::open: kept from here on, whatever verify_schema says next
OpenDatabase ==
    /\ Due("database") /\ store = "unopened" /\ store' = "open"
    /\ UNCHANGED <<config, phase, built, checking, tasks, left, cancelled, ready,
                   closed, working, step, overrun, started>>

InstallDatabase == store = "open" /\ Built("database") /\ UNCHANGED <<checking, working>>
InstallAuth == Built("auth") /\ UNCHANGED <<checking, working>>
PrepareTelegram == Built("telegram") /\ UNCHANGED <<checking, working>>

\* The launcher checks of media and inbox die with the future (kill_on_drop).
BuildMedia == Built("media") /\ UNCHANGED <<checking, working>>
BuildInbox == Built("inbox") /\ UNCHANGED <<checking, working>>

\* What the construction of a part waits for and the process keeps: the launcher child
\* of Insight (insight_preflight) or Music (check_worker), the opening of the index.
Check(p, o) ==
    /\ Due(p) /\ ~checking /\ checking' = TRUE /\ working' = [working EXCEPT ![o] = 1]
    /\ UNCHANGED <<config, phase, built, tasks, left, cancelled, ready, closed,
                   step, overrun, store, started>>

Checked(p, o) ==
    /\ checking /\ working[o] = 0 /\ Built(p) /\ checking' = FALSE /\ UNCHANGED working

BuildInsight == Check("insight", "insight_child") \/ Checked("insight", "insight_child")
BuildMusic == Check("music", "music_child") \/ Checked("music", "music_child")
BuildStats == Check("stats", "search") \/ Checked("stats", "search")

\* install_with_stats_imports
InstallRoutes ==
    /\ phase = "starting" /\ config \subseteq built /\ "routes" \notin built
    /\ "auth" \in config /\ config \cap {"insight", "music", "stats"} # {}
    /\ built' = built \cup {"routes"}
    /\ UNCHANGED <<config, phase, checking, tasks, left, cancelled, ready, closed,
                   working, step, overrun, store, started>>

\* However startup ends, device polls are cleaned up and the database is watched.
Attendants ==
    {t \in {"cookies"} : "media" \in built} \cup {t \in {"health"} : store = "open"}

\* the tasks of the parts, the Telegram adapter last, and readiness
Ready ==
    /\ phase = "starting" /\ config \subseteq built
    /\ "auth" \in config /\ config \cap {"insight", "music", "stats"} # {}
           => "routes" \in built
    /\ phase' = "running" /\ ready' = TRUE
    /\ tasks' = tasks \cup Attendants
           \cup {t \in {"inbox"} : "inbox" \in built}
           \cup {t \in {"notices"} : {"inbox", "telegram"} \subseteq built}
           \cup {t \in {"jobs"} : "stats" \in built}
           \cup {t \in {"downloads"} : "media" \in built}
           \cup {t \in {"telegram"} : "telegram" \in built}
    /\ UNCHANGED <<config, built, checking, left, cancelled, closed, working, step,
                   overrun, store, started>>

\* stop_and_drain: readiness, product requests, handlers, the token
StopAndDrain ==
    /\ phase' = "stopping" /\ ready' = FALSE /\ cancelled' = TRUE /\ step' = 1

\* A task that ends by itself has waited for what belongs to it; one that panicked, or
\* gave up waiting (the drain limit of an inbox job), has not.
Waited(t) ==
    /\ \A o \in Loose : LooseOf[o] = t => working[o] = 0
    /\ t = "cookies" => "poll" \in closed

TaskGone(t) == left' = IF Waited(t) THEN left ELSE left \cup {t}

\* Telegram's task stops Music as it goes, however it goes (ProductStop).
StoppedWith(gone) == {o \in {"music"} : "telegram" \in gone}

\* an error of prepare, its deadline, a signal, or the end of the HTTP task
AbandonStartup ==
    /\ phase = "starting" /\ StopAndDrain
    /\ \/ tasks' = tasks \cup Attendants /\ UNCHANGED left
       \/ tasks' = (tasks \ {"http"}) \cup Attendants /\ TaskGone("http")
    /\ closed' = closed \cup {"handler", "request"} /\ checking' = FALSE
    /\ UNCHANGED <<config, built, working, overrun, store, started>>

\* supervise: a signal, or the end of any task (adapter_exit)
StopServer ==
    /\ phase = "running" /\ StopAndDrain
    /\ \E gone \in {{}} \cup {{t} : t \in tasks} :
           /\ tasks' = tasks \ gone
           /\ closed' = closed \cup {"handler", "request"} \cup StoppedWith(gone)
           /\ \/ gone = {} /\ UNCHANGED left
              \/ \E t \in gone : TaskGone(t)
    /\ UNCHANGED <<config, built, checking, working, overrun, store, started>>

-----------------------------------------------------------------------------
(* Work. *)

\* who may start it; a connection that outlives its task goes on with one request
MayStart(o) ==
    \/ o \in {"handler", "query"} /\ "telegram" \in tasks
    \/ o = "plain" /\ "http" \in tasks
    \/ o = "download" /\ "downloads" \in tasks
    \/ o = "content" /\ "inbox" \in tasks
    \/ o = "request" /\ "http" \in tasks /\ ready /\ "routes" \in built
    \/ o = "poll" /\ "media" \in built /\ working["plain"] > 0
    \/ /\ o = "insight" /\ "insight" \in built
       /\ working["handler"] > 0 \/ working["plain"] > 0
    \/ o = "music" /\ "music" \in built /\ working["handler"] > 0
    \/ o = "import" /\ {"routes", "stats"} \subseteq built /\ working["request"] > 0
    \/ /\ o = "search" /\ "stats" \in built
       /\ \/ working["handler"] > 0 \/ working["request"] > 0
          \/ working["import"] > 0 \/ "jobs" \in tasks

\* Queries, downloads and inbox jobs look at the token, the others at their registry; the
\* tracker of the index takes what comes.
StartWork(o) ==
    /\ phase # "ended" /\ started < MaxStarted /\ working[o] < MaxWork
    /\ MayStart(o) /\ o \notin closed
    /\ o \in {"query", "download", "content"} => ~cancelled
    /\ working' = [working EXCEPT ![o] = @ + 1] /\ started' = started + 1
    /\ UNCHANGED <<config, phase, built, checking, tasks, left, cancelled, ready,
                   closed, step, overrun, store>>

\* done, or ended by its own cancellation; a child is killed and reaped
EndWork(o) ==
    /\ working[o] > 0
    /\ working' = [working EXCEPT ![o] = @ - 1]
    /\ UNCHANGED <<config, phase, built, checking, tasks, left, cancelled, ready,
                   closed, step, overrun, store, started>>

\* drain_cookie_oauth begins when the token is cancelled: no poll is accepted any more
DrainPolls ==
    /\ cancelled /\ "cookies" \in tasks /\ "poll" \notin closed
    /\ closed' = closed \cup {"poll"}
    /\ UNCHANGED <<config, phase, built, checking, tasks, left, cancelled, ready,
                   working, step, overrun, store, started>>

\* A cancelled task ends.
EndTask(t) ==
    /\ phase = "stopping" /\ t \in tasks /\ tasks' = tasks \ {t}
    /\ TaskGone(t)
    /\ closed' = closed \cup StoppedWith({t})
    /\ UNCHANGED <<config, phase, built, checking, cancelled, ready, working, step,
                   overrun, store, started>>

-----------------------------------------------------------------------------
(* Shutdown. *)

\* What a stage waits for; the tracker of the index is waited for in every case.
Drained(s) == IF s = "tasks" THEN tasks = {} ELSE working[s] = 0

\* A stage closes its registry as it begins.  Insight's handlers are handlers, which are
\* drained before.
DrainStage ==
    /\ phase = "stopping" /\ Stage # "database" /\ Drained(Stage)
    /\ step' = step + 1
    /\ closed' = closed \cup ({ShutdownOrder[step + 1]} \ {"search", "database"})
    /\ UNCHANGED <<config, phase, built, checking, tasks, left, cancelled, ready,
                   working, overrun, store, started>>

\* Mutant of Overrun: an expired deadline abandons the cleanup.
OverrunAbandons ==
    /\ phase = "stopping" /\ step <= 3 /\ ~overrun /\ overrun' = TRUE
    /\ left' = left \cup tasks /\ tasks' = {} /\ step' = Len(ShutdownOrder)
    /\ UNCHANGED <<config, phase, built, checking, cancelled, ready, closed,
                   working, store, started>>

\* The deadline of the first three stages: tasks are aborted and joined, handlers and
\* requests are waited for without a deadline.
Overrun ==
    /\ phase = "stopping" /\ step <= 3 /\ ~overrun /\ overrun' = TRUE
    /\ left' = left \cup tasks /\ tasks' = {} /\ step' = 2
    /\ closed' = closed \cup StoppedWith(tasks)
    /\ UNCHANGED <<config, phase, built, checking, cancelled, ready, working, store,
                   started>>

\* finish_database: Database::close waits for the connection and unlocks the sidecar
\* file; it has a deadline of its own.
FinishDatabase ==
    /\ phase = "stopping" /\ Stage = "database" /\ phase' = "ended"
    /\ store' \in {store} \cup {s \in {"closed"} : store = "open"}
    /\ UNCHANGED <<config, built, checking, tasks, left, cancelled, ready, closed,
                   working, step, overrun, started>>

LifeNext ==
    \/ OpenDatabase \/ InstallDatabase \/ InstallAuth \/ PrepareTelegram \/ BuildMedia
    \/ BuildInsight \/ BuildInbox \/ BuildMusic \/ BuildStats \/ InstallRoutes \/ Ready
    \/ AbandonStartup \/ StopServer
    \/ \E o \in Owners : StartWork(o) \/ EndWork(o)
    \/ \E t \in Tasks : EndTask(t)
    \/ DrainPolls \/ DrainStage \/ Overrun \/ FinishDatabase

LifeSpec == LifeInit /\ [][LifeNext]_lifeVars

-----------------------------------------------------------------------------
\* The database closes last: when the process gives its database and the lock up, no
\* task runs, nothing a registry counts is at work or can still begin, not even what a
\* startup began and never published; and loose work is left only where its task was
\* aborted at the deadline, has panicked or gave up waiting.
\* docs/architecture/products.md: "Factory cancellation before Stats publication does
\* not lose ownership of blocking index work" and "Database close is last. Cleanup is
\* not abandoned at an expired adapter deadline."
ClosesLast ==
    /\ LifeTypeOK
    /\ phase = "ended" =>
           /\ tasks = {}
           /\ \A o \in Registered : working[o] = 0 /\ (MayStart(o) => o \in closed)
           /\ \A o \in Loose : working[o] > 0 => LooseOf[o] \in left
=============================================================================
