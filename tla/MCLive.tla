------------------------------- MODULE MCLive -------------------------------
(***************************************************************************)
(* What must happen in the end: downloads settle, completions are          *)
(* recorded, executions, jobs and notices end, menus agree. This module    *)
(* extends the components that do the work behind the queue, the download  *)
(* service and the notifications are instances. A behaviour is about one   *)
(* component, as in MCDownloads, and the fairness of that component holds. *)
(***************************************************************************)
EXTENDS ExecutorRuns, InboxJobs, Menus, Progress

CONSTANTS
    Components,     \* the components a run explores
    NoToken, NoIdentity     \* no token and no identity of a text effect

VARIABLES
    component,      \* the component this behaviour is about
    s1, s2, s3, s4, s5, s6, s7, s8   \* its variables, in the order of its module

\* The variables a component leaves alone.
From8 == <<s8>>
From1 == <<s1, s2, s3, s4, s5, s6, s7, From8>>
Unused8 == s8 = 0
Unused1 == s1 = 0 /\ s2 = 0 /\ s3 = 0 /\ s4 = 0 /\ s5 = 0 /\ s6 = 0 /\ s7 = 0 /\ Unused8

suiteVars == <<component, execVars, jobVars, menuVars, progressVars, s1, s2, s3, s4, s5, s6, s7, s8>>

-----------------------------------------------------------------------------
(* Instances. *)

\* A member and the group of the member; one link, two commands that save it and
\* a listing.
OneMember == <<"m">>
OneGroup == [m |-> "g"]
OneLink == [m1 |-> "i", m2 |-> "i", m3 |-> NoLink]

\* Four sizes of the jobs: without commands, and two deliveries of commands while the
\* runtime rests, one delivery with two jobs, or two deliveries with one job.
NoCommands == handling' = handling
FewJobs(n) == /\ nextJob' <= n + 1 /\ \A j \in 1..MaxJobs : job'[j].attempts <= 1
              /\ \A i \in Items : ~item'[i].ruled
TwoDeliveries == FewJobs(2) /\ restarts' = 0 /\ claim' = claim
OneDelivery == FewJobs(2) /\ restarts' <= 1 /\ handling'["d2"] = NoHandling
Repetition == FewJobs(1) /\ restarts' <= 1

Service == INSTANCE DownloadService WITH
    Op <- {"o"}, Actor <- {"a"}, ActorOf <- [o |-> "a"], Bot <- {"b"}, BotOf <- [o |-> "b"],
    MaxAttempts <- 2, RetryDelay <- 1, MaxPendingGlobal <- 1, MaxPendingActor <- 1,
    MaxActiveActor <- 1, MaxArtifacts <- 2, MaxUnit <- 2, ExpireLimit <- 1,
    NoOp <- "no operation", NoBot <- "no bot", Worker <- {"w"}, OurBot <- "b",
    Plans <- {<<1, 1>>}, MaxFaults <- 2,
    operations <- s1, ready <- s2, worker <- s3, stopping <- s4, wire <- s5, chat <- s6,
    faults <- s7

\* Two completions of an item that is not deleted.
Inbox == INSTANCE InboxNotifications WITH
    Token <- (1..2) \X (1..2), Identity <- 1..2, Dispatcher <- {"d"}, NoToken <- NoToken,
    NoIdentity <- NoIdentity, Item <- {"i"}, Deletable <- {}, MaxNotes <- 2, MaxSends <- 2,
    MaxCrashes <- 2,
    effects <- s1, dispatcher <- s2, posted <- s3, accepted <- s4, items <- s5, notes <- s6,
    runner <- s7, crashes <- s8

ASSUME InstancesAssumption ==
    /\ RunsAssumption
    /\ InboxJobsAssumption
    /\ MenuAssumption
    /\ ProgressAssumption
    /\ Service!ServiceAssumption
    /\ Inbox!InboxAssumption

-----------------------------------------------------------------------------
(* One component per behaviour. *)

SuiteInit ==
    /\ component \in Components
    /\ ExecInit /\ (component = "exec" \/ owned = {})
    /\ JobsInit
    /\ MenuInit /\ (component = "menus" \/ override = [t \in Targets |-> FALSE])
    /\ ProgressInit /\ (component = "progress" \/ ~inPrivate)
    /\ \/ component = "exec" /\ Unused1
       \/ component = "jobs" /\ Unused1
       \/ component = "saves" /\ Unused1
       \/ component = "resaves" /\ Unused1
       \/ component = "repeats" /\ Unused1
       \/ component = "menus" /\ Unused1
       \/ component = "progress" /\ Unused1
       \/ component = "service" /\ Service!ServiceInit /\ Unused8
       \/ component = "inbox" /\ Inbox!InboxInit

\* Only the component of this behaviour moves.
ExecOnly == component = "exec" /\ UNCHANGED <<component, jobVars, menuVars, progressVars, From1>>
JobsOnly == component = "jobs" /\ UNCHANGED <<component, execVars, menuVars, progressVars, From1>>
SavesOnly == component = "saves" /\ UNCHANGED <<component, execVars, menuVars, progressVars, From1>>
ResavesOnly == component = "resaves" /\ UNCHANGED <<component, execVars, menuVars, progressVars, From1>>
RepeatsOnly == component = "repeats" /\ UNCHANGED <<component, execVars, menuVars, progressVars, From1>>
MenusOnly == component = "menus" /\ UNCHANGED <<component, execVars, jobVars, progressVars, From1>>
ProgressOnly == component = "progress" /\ UNCHANGED <<component, execVars, jobVars, menuVars, From1>>
ServiceOnly == component = "service" /\ UNCHANGED <<component, execVars, jobVars, menuVars, progressVars, From8>>
InboxOnly == component = "inbox" /\ UNCHANGED <<component, execVars, jobVars, menuVars, progressVars>>

SuiteNext ==
    \/ ExecOnly /\ ExecNext
    \/ JobsOnly /\ JobsNext /\ NoCommands
    \/ SavesOnly /\ JobsNext /\ TwoDeliveries
    \/ ResavesOnly /\ JobsNext /\ OneDelivery
    \/ RepeatsOnly /\ JobsNext /\ Repetition
    \/ MenusOnly /\ MenuNext
    \/ ProgressOnly /\ ProgressNext
    \/ ServiceOnly /\ Service!ServiceNext
    \/ InboxOnly /\ Inbox!InboxNext

\* The fairness of each component, as its module states it.  One component runs in
\* a behaviour, so weak fairness of a disjunction over the components is the
\* conjunction of theirs.
SuiteFairness ==
    /\ WF_suiteVars(\/ ServiceOnly /\ Service!Work("w")
                    \/ InboxOnly /\ Inbox!Tick("d")
                    \/ ExecOnly /\ Executor("r")
                    \/ JobsOnly /\ Runtime
                    \/ MenusOnly /\ WorkerStep
                    \/ ProgressOnly /\ OperationMoves)
    /\ WF_suiteVars(\/ ServiceOnly /\ Service!Abandoned("o")
                    \/ InboxOnly /\ Inbox!LeaseLapses(1)
                    \/ ExecOnly /\ EndShutdown
                    \/ JobsOnly /\ Restart
                    \/ MenusOnly /\ ReturnReported("m")
                    \/ ProgressOnly /\ LoopStep)
    /\ WF_suiteVars(\/ ServiceOnly /\ Service!Available("o")
                    \/ InboxOnly /\ Inbox!LeaseLapses(2)
                    \/ MenusOnly /\ ReturnReported("g")
                    \/ ProgressOnly /\ RegisterReply("r1"))
    /\ WF_suiteVars(\/ ServiceOnly /\ Service!Restart
                    \/ ProgressOnly /\ RegisterReply("r2"))
    /\ \A j \in 1..3 :
           /\ WF_suiteVars(JobsOnly /\ BackoffEnds(j))
           /\ WF_suiteVars(JobsOnly /\ LeaseAbandoned(j))

SuiteSpec == SuiteInit /\ [][SuiteNext]_suiteVars /\ SuiteFairness

-----------------------------------------------------------------------------
(* Properties. *)

(* A behaviour is bounded, so what must happen in the end has happened when it has come
   to rest: <>[] also excludes that it is undone again and again. *)

\* Every admitted operation reaches a terminal status, whatever worker, lease or
\* process is lost on the way (yoink-downloads lib.rs, yoink-storage).
EverySettles == <>[](component = "service" => ~Service!IsPending("o"))

\* "Record a delivery-ledger result, including after claim expiry/restart": a send
\* does not stay open, and an edit whose receipt is in the ledger is acknowledged
\* (notifications.rs).
InboxSettles ==
    <>[](component = "inbox" =>
             \A n \in 1..2 : /\ ~Inbox!IsSending(n)
                             /\ (\E k \in 1..2 : Inbox!IsConfirmed(n, k)) => Inbox!IsAcked(n))

\* Every run that starts ends, however the worker behaves, and the shutdown returns
\* (yoink-executor).
EveryRunEnds ==
    <>[](component = "exec" => (HasStarted("r") => HasEnded("r")) /\ ~IsClosing)

\* Every job ends in spite of crashes, stalls and shutdowns (yoink-inbox store.rs).
EveryJobEnds == <>[](component = "jobs" => \A j \in 1..3 : ~Active(j))

\* Once access, people and Telegram come to rest, the menu of everybody who can be
\* reached is, and stays, the one the last committed decision gives, whatever
\* refusals, late requests and returns overtook one another (menu_contacts.rs).
MenusConverge == <>[](component = "menus" => MenusAgree)

\* Every tracked notice ends with the operation's outcome, also when the
\* registration overtakes or follows the end of the operation, when edits time
\* out and when the process restarts; only an actor who may no longer read the
\* operation keeps a stale notice (progress.rs).
OutcomeIsShown == <>[](component = "progress" => OutcomeStands)

\* Work has an owner: a run that is over left neither a process nor a workspace
\* behind and reports what its own worker said; no item waits for a job that does
\* not exist and attempts count what was tried (yoink-executor, yoink-inbox); a
\* command of the inbox is answered once, with what it did (inbox_runtime.rs).
\* A notice is finished only when it shows the outcome (progress.rs).
WorkIsOwned ==
    /\ NothingSurvives /\ OwnWorkOnly
    /\ NobodyWaitsForNothing /\ AttemptsAreReal
    /\ SavesAreTold
    /\ MenuTypeOK
    /\ ProgressTypeOK /\ FinishedIsShown
=============================================================================
