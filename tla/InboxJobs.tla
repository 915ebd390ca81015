----------------------------- MODULE InboxJobs -----------------------------
(***************************************************************************)
(* The durable jobs of the inbox (yoink-inbox store, pipeline, rules; the  *)
(* loop is yoink-server inbox_runtime): ingestion, leased claims, work     *)
(* outside the database, fenced publication, retries, and the items the    *)
(* jobs carry from pending to classified; and the commands that save links *)
(* and list them (yoink-telegram inbox_runtime).                           *)
(*                                                                         *)
(* One runtime claims one job at a time; users archive, delete and         *)
(* reclassify meanwhile, grants come and go, leases lapse and the process  *)
(* restarts.  Ids of jobs grow; the queue serves the lowest one.  What a   *)
(* job extracts, prompts or stores of an item is left out.  The id of an   *)
(* item is the id of its enrichment.  A command may be delivered several   *)
(* times; the row of its answer in the ledger of texts is reduced here to  *)
(* what the handler sees of it (TextEffects has the rest), and the text of *)
(* a denial, an effect of its own without an item, is left out.            *)
(***************************************************************************)
EXTENDS Naturals, FiniteSets

CONSTANTS
    Items,          \* normalized urls of one user
    RuleStatus,     \* the statuses that the user's rules set
    MaxJobs,        \* bound: jobs ever enqueued
    MaxJobAttempts, \* INBOX_MAX_ATTEMPTS
    MaxRestarts,    \* bound: shutdowns, crashes and stalls beyond a lease
    Messages,       \* commands of the user
    LinkOf,         \* per message: the item it saves, or NoLink for a listing
    Deliveries      \* bound: handlings of the updates that carry them

NoLink == "no link"

\* What the constants of an instance satisfy.
InboxJobsAssumption ==
    /\ RuleStatus \subseteq {"archived", "classified", "pending"}
    /\ MaxJobs \in Nat /\ MaxRestarts \in Nat /\ MaxJobAttempts \in Nat \ {0}
    /\ \A m \in Messages : LinkOf[m] \in Items \cup {NoLink} /\ m # "web"

ItemStatus == {"absent", "pending", "enriched", "classified", "archived", "failed"}
NoClaim == [job |-> 0, token |-> 0, stage |-> "none"]

VARIABLES
    item,      \* each item: its status, whether a rule has ever set it, its id,
               \* the message that saved it ("web": none) and the one bound to it
    job,       \* the rows of inbox_jobs by id
    nextJob,   \* the AUTOINCREMENT counter
    nextToken, \* claims ever made: the lease tokens
    claim,     \* what the runtime holds in memory
    stopping,  \* the cancellation token of the runtime
    restarts,  \* restarts and stalls so far
    spent,     \* history: claims of a job that were not given back
    effect,    \* runtime_text_effects of the commands' answers
    handling,  \* the deliveries of the commands
    posts      \* history: answers sent to a command

commandVars == <<effect, handling, posts>>
jobVars == <<item, job, nextJob, nextToken, claim, stopping, restarts, spent, commandVars>>

NoItem == [status |-> "absent", ruled |-> FALSE, id |-> 0, source |-> "web", reply |-> "none"]
NoEffect == [state |-> "absent", item |-> 0, created |-> FALSE, text |-> 0, bound |-> FALSE]
NoHandling == [pc |-> "idle", message |-> "none", answer |-> NoEffect]
Handled == [NoHandling EXCEPT !.pc = "done"]

NoJob == [item |-> "none", kind |-> "none", state |-> "absent", attempts |-> 0,
          due |-> FALSE, token |-> 0, live |-> FALSE]

Active(j) == job[j].state \in {"ready", "running"}

JobsTypeOK ==
    /\ \A i \in Items : item[i].status \in ItemStatus /\ item[i].ruled \in BOOLEAN
    /\ \A j \in 1..MaxJobs :
           /\ job[j].state \in {"absent", "ready", "running", "done", "failed"}
           /\ job[j].attempts \in Nat
           /\ (job[j].state = "running") <=> (job[j].token # 0)

---------------------------------------------------------------------------
(* Items and rules. *)

\* The unique index on active jobs makes a second one a no-op.
Enqueued(jobs, next, i, kind) ==
    IF \E j \in 1..MaxJobs : jobs[j].state \in {"ready", "running"} /\ jobs[j].item = i /\ jobs[j].kind = kind
    THEN jobs
    ELSE [jobs EXCEPT ![next] = [NoJob EXCEPT !.item = i, !.kind = kind, !.state = "ready", !.due = TRUE]]

NextId(jobs) == IF jobs = job THEN nextJob ELSE nextJob + 1

\* run_rules: no rule matches, or the ones that do archive the item or give it
\* a status of the user's choice.
RuleOutcomes(status) ==
    {[status |-> status, ruled |-> FALSE]}
        \cup {[status |-> s, ruled |-> TRUE] : s \in RuleStatus}

Ruled(i, outcome) == [item[i] EXCEPT !.status = outcome.status, !.ruled = @ \/ outcome.ruled]

\* ingest_on for a link that is not there yet.
Ingested(i, source) ==
    /\ item[i].status = "absent" /\ nextJob <= MaxJobs
    /\ \E outcome \in RuleOutcomes("pending") :
           item' = [item EXCEPT ![i] = [Ruled(i, outcome) EXCEPT !.id = nextJob, !.source = source]]
    /\ job' = Enqueued(job, nextJob, i, "enrich")
    /\ nextJob' = nextJob + 1

\* One transaction: the item, its job and the effects of the rules.
Ingest(i) ==
    /\ Ingested(i, "web")
    /\ UNCHANGED <<nextToken, claim, stopping, restarts, spent, commandVars>>

Archive(i) ==
    /\ item[i].status \notin {"absent", "archived"}
    /\ item' = [item EXCEPT ![i].status = "archived"]
    /\ UNCHANGED <<job, nextJob, nextToken, claim, stopping, restarts, spent, commandVars>>

\* A hard deletion; the foreign key takes the jobs along.
DeleteItem(i) ==
    /\ item[i].status # "absent"
    /\ item' = [item EXCEPT ![i] = NoItem]
    /\ job' = [j \in 1..MaxJobs |-> IF job[j].item = i THEN NoJob ELSE job[j]]
    /\ UNCHANGED <<nextJob, nextToken, claim, stopping, restarts, spent, commandVars>>

Reclassify(i) ==
    /\ item[i].status # "absent" /\ nextJob <= MaxJobs
    /\ job' = Enqueued(job, nextJob, i, "classify") /\ job' # job
    /\ nextJob' = nextJob + 1
    /\ UNCHANGED <<item, nextToken, claim, stopping, restarts, spent, commandVars>>

\* sweep_rule runs the rules of a trigger over the items that are not archived.
SweepRule ==
    /\ \E outcome \in [Items -> UNION {RuleOutcomes(item[i].status) : i \in Items}] :
           /\ \A i \in Items : outcome[i] \in RuleOutcomes(item[i].status)
           /\ item' = [i \in Items |-> IF item[i].status \in {"absent", "archived"} THEN item[i]
                                       ELSE Ruled(i, outcome[i])]
    /\ item' # item
    /\ UNCHANGED <<job, nextJob, nextToken, claim, stopping, restarts, spent, commandVars>>

---------------------------------------------------------------------------
(* The runtime. *)

\* Mutant of Claimable: a lapsed lease is not taken over.
ClaimableReadyOnly(j) == job[j].state = "ready" /\ job[j].due

Claimable(j) ==
    \/ job[j].state = "ready" /\ job[j].due
    \/ job[j].state = "running" /\ ~job[j].live

ClaimJob ==
    /\ claim = NoClaim /\ ~stopping
    /\ \E j \in 1..MaxJobs :
           /\ Claimable(j) /\ \A k \in 1..(j - 1) : ~Claimable(k)
           /\ job' = [job EXCEPT ![j].state = "running", ![j].token = nextToken,
                                 ![j].live = TRUE, ![j].due = FALSE, ![j].attempts = @ + 1]
           /\ claim' = [job |-> j, token |-> nextToken, stage |-> "read"]
           /\ spent' = [spent EXCEPT ![j] = @ + 1]
    /\ nextToken' = nextToken + 1
    /\ UNCHANGED <<item, nextJob, stopping, restarts, commandVars>>

\* live: the row still belongs to this claim and its lease has not lapsed.
Live ==
    /\ job[claim.job].state = "running"
    /\ job[claim.job].token = claim.token
    /\ job[claim.job].live

Over == {"archived", "failed"}

\* The row as it is left by done and fail_job.
Ended(j, state) == [job EXCEPT ![j].state = state, ![j].token = 0, ![j].live = FALSE]

\* The status is read before the work: nothing to do for an item that is over.
ReadItem ==
    LET j == claim.job  i == job[j].item
    IN  /\ claim.stage = "read"
        /\ IF ~Live \/ item[i].status \in Over
           THEN /\ job' = IF Live THEN Ended(j, "done") ELSE job
                /\ claim' = NoClaim
           ELSE claim' = [claim EXCEPT !.stage = "work"] /\ UNCHANGED job
        /\ UNCHANGED <<item, nextJob, nextToken, stopping, restarts, spent, commandVars>>

\* extract_content falls back from one provider to the next; when none yields
\* text the content is marked failed, which is a result and not an error.
ContentStatus == {"enriched", "failed"}

\* apply_content: an item that is over meanwhile keeps its status and gets no
\* classification.
ApplyContent ==
    LET j == claim.job  i == job[j].item
    IN  /\ claim.stage = "work" /\ job[j].kind = "enrich"
        /\ claim' = NoClaim
        /\ \/ /\ ~Live /\ UNCHANGED <<item, job, nextJob>>
           \/ /\ Live /\ item[i].status \in Over
              /\ job' = Ended(j, "done") /\ UNCHANGED <<item, nextJob>>
           \/ /\ Live /\ item[i].status \notin Over \cup {"absent"} /\ nextJob <= MaxJobs
              /\ \E status \in ContentStatus :
                     LET queued == IF status = "failed" THEN job ELSE Enqueued(job, nextJob, i, "classify")
                     IN  /\ item' = [item EXCEPT ![i].status = status]
                         /\ job' = [queued EXCEPT ![j] = Ended(j, "done")[j]]
                         /\ nextJob' = NextId(queued)
        /\ UNCHANGED <<nextToken, stopping, restarts, spent, commandVars>>

\* apply_classification, with the rules of item_classified.
ApplyClassification ==
    LET j == claim.job  i == job[j].item
    IN  /\ claim.stage = "work" /\ job[j].kind = "classify"
        /\ claim' = NoClaim
        /\ \/ ~Live /\ UNCHANGED <<item, job>>
           \/ Live /\ item[i].status \in Over /\ job' = Ended(j, "done") /\ UNCHANGED item
           \/ /\ Live /\ item[i].status \notin Over
              /\ \E outcome \in RuleOutcomes("classified") : item' = [item EXCEPT ![i] = Ruled(i, outcome)]
              /\ job' = Ended(j, "done")
        /\ UNCHANGED <<nextJob, nextToken, stopping, restarts, spent, commandVars>>

\* Mutant of GiveBack: the release of a claim keeps its attempt.
GiveBackSpent(j) == [job EXCEPT ![j].state = "ready", ![j].token = 0, ![j].live = FALSE]

\* A shutdown gives the claim back with its attempt.
GiveBack(j) ==
    [job EXCEPT ![j].state = "ready", ![j].token = 0, ![j].live = FALSE, ![j].attempts = @ - 1]

\* Retries wait; a last failure also ends an enrichment's item.
Failed(j, retry) ==
    IF retry THEN [job EXCEPT ![j].state = "ready", ![j].token = 0, ![j].live = FALSE]
    ELSE Ended(j, "failed")

\* Mutant of ItemAfterFailure: a failed enrichment leaves its item pending.
ItemAfterFailureKept(j, retry) == item

ItemAfterFailure(j, retry) ==
    LET i == job[j].item
    IN  IF job[j].kind = "enrich" /\ ~retry /\ item[i].status # "archived"
        THEN [item EXCEPT ![i].status = "failed"] ELSE item

\* The pipeline asks for the grant before and after each outside call.
PipelineErrors == {"external", "rate_limited", "database", "forbidden", "completion", "invalid"}

Retryable(error) == error \in {"external", "rate_limited", "database"}

\* The error of the pipeline, or the job deadline, which counts as external.
FailJob(error) ==
    LET j == claim.job  retry == Retryable(error) /\ job[j].attempts < MaxJobAttempts
    IN  /\ claim.stage \in {"read", "work"}
        /\ claim' = NoClaim
        /\ IF Live
           THEN job' = Failed(j, retry) /\ item' = ItemAfterFailure(j, retry)
           ELSE UNCHANGED <<job, item>>
        /\ UNCHANGED <<nextJob, nextToken, stopping, restarts, spent, commandVars>>

\* The owner shuts down while a job runs: the claim is given back, unless the
\* drained work published after all.
Release ==
    LET j == claim.job
    IN  /\ stopping /\ claim.stage \in {"read", "work"}
        /\ claim' = NoClaim
        /\ IF Live
           THEN job' = GiveBack(j) /\ spent' = [spent EXCEPT ![j] = @ - 1]
           ELSE UNCHANGED <<job, spent>>
        /\ UNCHANGED <<item, nextJob, nextToken, stopping, restarts, commandVars>>

---------------------------------------------------------------------------
(* Time, shutdown and crash. *)

BackoffEnds(j) ==
    /\ job[j].state = "ready" /\ ~job[j].due
    /\ job' = [job EXCEPT ![j].due = TRUE]
    /\ UNCHANGED <<item, nextJob, nextToken, claim, stopping, restarts, spent, commandVars>>

\* The lease is longer than the job deadline: it outlives a claim unless its
\* holder crashed or was stalled.
LeaseLapses(j) ==
    /\ job[j].state = "running" /\ job[j].live
    /\ IF claim.job = j THEN restarts < MaxRestarts /\ restarts' = restarts + 1 ELSE UNCHANGED restarts
    /\ job' = [job EXCEPT ![j].live = FALSE]
    /\ UNCHANGED <<item, nextJob, nextToken, claim, stopping, spent, commandVars>>

Shutdown ==
    /\ ~stopping /\ restarts < MaxRestarts
    /\ stopping' = TRUE /\ restarts' = restarts + 1
    /\ UNCHANGED <<item, job, nextJob, nextToken, claim, spent, commandVars>>

Restart ==
    /\ stopping /\ claim = NoClaim
    /\ stopping' = FALSE
    /\ UNCHANGED <<item, job, nextJob, nextToken, claim, restarts, spent, commandVars>>

Crash ==
    /\ restarts < MaxRestarts
    /\ restarts' = restarts + 1
    /\ claim' = NoClaim /\ stopping' = FALSE
    /\ handling' = [d \in Deliveries |-> IF handling[d].pc = "idle" THEN NoHandling ELSE Handled]
    /\ UNCHANGED <<item, job, nextJob, nextToken, spent, effect, posts>>

---------------------------------------------------------------------------
(* The commands: handle and prepare_save.  Authorization is a free choice. *)
(* What handle does last, reconcile_bindings, is BindReceipt, which the    *)
(* tick of the runtime does as well.                                       *)

jobTable == <<job, nextJob, nextToken, claim, stopping, restarts, spent>>

At(d, step) == handling[d].pc = step
Ends(d) == handling' = [handling EXCEPT ![d] = Handled]

\* The answer of an earlier delivery is looked for before anything is done.
Receive(d, m) ==
    /\ At(d, "idle")
    /\ \/ /\ effect[m].state \in {"absent", "prepared"}
          /\ handling' = [handling EXCEPT ![d] =
                 [pc |-> IF effect[m].state = "absent" THEN "new" ELSE "dispatch",
                  message |-> m, answer |-> effect[m]]]
       \/ effect[m].state \notin {"absent", "prepared"} /\ Ends(d)
    /\ UNCHANGED <<item, jobTable, effect, posts>>

\* What a save did, as its answer tells it.
SaveResult(created, id) == [NoEffect EXCEPT !.state = "prepared", !.item = id, !.created = created]

\* Mutant of Answered: prepare_save does not look for the answer again.
AnsweredNever(m) == FALSE

Answered(m) == effect[m].state # "absent"

\* One transaction: the answer that is there, or the link and its answer.
PrepareSave(d) ==
    LET m == handling[d].message  i == LinkOf[m] IN
    /\ At(d, "new") /\ i # NoLink
    /\ \/ /\ Answered(m) /\ UNCHANGED <<item, job, nextJob, effect>>
       \/ /\ ~Answered(m) /\ Ingested(i, m)
          /\ effect' = [effect EXCEPT ![m] = SaveResult(TRUE, nextJob)]
       \/ /\ ~Answered(m) /\ item[i].status # "absent"
          /\ effect' = [effect EXCEPT ![m] = SaveResult(FALSE, item[i].id)]
          /\ UNCHANGED <<item, job, nextJob>>
    /\ handling' = [handling EXCEPT ![d].pc = "dispatch", ![d].answer = effect'[m]]
    /\ UNCHANGED <<nextToken, claim, stopping, restarts, spent, posts>>

\* A listing is rendered from what is there now.
RenderList(d) ==
    /\ At(d, "new") /\ LinkOf[handling[d].message] = NoLink
    /\ handling' = [handling EXCEPT ![d].pc = "dispatch", ![d].answer.text = nextJob]
    /\ UNCHANGED <<item, jobTable, effect, posts>>

Same(e, answer) == <<e.item, e.created, e.text>> = <<answer.item, answer.created, answer.text>>

\* dispatch: begin_text admits one delivery of one answer; another answer is a
\* conflict, and of an attempt that began only the outcome is returned.
BeginAnswer(d) ==
    LET m == handling[d].message  answer == handling[d].answer
        admitted == effect[m].state = "absent" \/ (effect[m].state = "prepared" /\ Same(effect[m], answer))
    IN
    /\ At(d, "dispatch")
    /\ IF admitted
       THEN /\ effect' = [effect EXCEPT ![m] = [answer EXCEPT !.state = "sending"]]
            /\ handling' = [handling EXCEPT ![d] = [NoHandling EXCEPT !.pc = "sending", !.message = m]]
       ELSE Ends(d) /\ UNCHANGED effect
    /\ UNCHANGED <<item, jobTable, posts>>

\* The request with its deadline; only a receipt that fits confirms it.
SendAnswer(d) ==
    LET m == handling[d].message IN
    /\ At(d, "sending") /\ Ends(d)
    /\ posts' = [posts EXCEPT ![m] = @ + 1]
    /\ effect' \in {effect, [effect EXCEPT ![m].state = "confirmed"]}
    /\ UNCHANGED <<item, jobTable>>

\* Denied, an error, or a request that was never made.
EndHandling(d) ==
    /\ ~At(d, "idle") /\ ~At(d, "done") /\ Ends(d)
    /\ UNCHANGED <<item, jobTable, effect, posts>>

Unbound(m) == effect[m].state = "confirmed" /\ effect[m].created /\ ~effect[m].bound

\* The first binding of the very item wins.
BindReceipt(m) ==
    LET i == LinkOf[m] IN
    /\ Unbound(m)
    /\ item' = IF item[i].id = effect[m].item /\ item[i].source # "web" /\ item[i].reply \in {"none", m}
               THEN [item EXCEPT ![i].reply = m] ELSE item
    /\ effect' = [effect EXCEPT ![m].bound = TRUE]
    /\ UNCHANGED <<jobTable, handling, posts>>

Command ==
    \/ \E d \in Deliveries :
           \/ \E m \in Messages : Receive(d, m)
           \/ PrepareSave(d) \/ RenderList(d) \/ BeginAnswer(d) \/ SendAnswer(d) \/ EndHandling(d)
    \/ \E m \in Messages : BindReceipt(m)

JobsInit ==
    /\ item = [i \in Items |-> NoItem]
    /\ job = [j \in 1..MaxJobs |-> NoJob]
    /\ nextJob = 1 /\ nextToken = 1 /\ claim = NoClaim
    /\ stopping = FALSE /\ restarts = 0 /\ spent = [j \in 1..MaxJobs |-> 0]
    /\ effect = [m \in Messages |-> NoEffect] /\ posts = [m \in Messages |-> 0]
    /\ handling = [d \in Deliveries |-> NoHandling]

Runtime ==
    \/ ClaimJob \/ ReadItem \/ ApplyContent \/ ApplyClassification \/ Release
    \/ \E error \in PipelineErrors : FailJob(error)

JobsNext ==
    \/ \E i \in Items : Ingest(i) \/ Archive(i) \/ DeleteItem(i) \/ Reclassify(i)
    \/ SweepRule
    \/ Runtime
    \/ Command
    \/ \E j \in 1..MaxJobs : BackoffEnds(j) \/ LeaseLapses(j)
    \/ Shutdown \/ Restart \/ Crash

\* Nobody works on the job any more.
LeaseAbandoned(j) == LeaseLapses(j) /\ claim.job # j

\* The loop runs while the process does and is started again; time passes.
JobsFairness ==
    /\ WF_jobVars(Runtime) /\ WF_jobVars(Restart)
    /\ \A j \in 1..MaxJobs : WF_jobVars(BackoffEnds(j)) /\ WF_jobVars(LeaseAbandoned(j))

---------------------------------------------------------------------------
(* Properties. *)

\* No item is left waiting for a job that does not exist: a pending one has an
\* enrichment ahead, an enriched one a classification that is ahead or has
\* failed for good, whatever archives, failures, crashes and stale claims came
\* between (items whose status a rule chose are the user's business).
NobodyWaitsForNothing ==
    /\ JobsTypeOK
    /\ \A i \in Items : ~item[i].ruled =>
           /\ item[i].status = "pending" =>
                  \E j \in 1..MaxJobs : Active(j) /\ job[j].item = i /\ job[j].kind = "enrich"
           /\ item[i].status = "enriched" =>
                  \E j \in 1..MaxJobs : /\ Active(j) \/ job[j].state = "failed"
                                        /\ job[j].item = i /\ job[j].kind = "classify"

\* Attempts count what was really tried: a claim that a shutdown gave back costs
\* nothing and is given back once; two active jobs never do the same work.
AttemptsAreReal ==
    \A j \in 1..MaxJobs : job[j].state # "absent" =>
        /\ job[j].attempts = spent[j]
        /\ \A k \in 1..MaxJobs : Active(j) /\ Active(k) /\ job[j].item = job[k].item
                                     /\ job[j].kind = job[k].kind => j = k

\* A command is answered at most once, however often it is delivered, and the answer
\* tells what it did: a link that a command saved is there together with the answer
\* that says so, no other answer claims it, and completions edit that answer and no
\* other (inbox_runtime.rs: "makes the original creator result win even when identical
\* Telegram updates race"; "First binding wins").
SavesAreTold ==
    /\ \A m \in Messages : posts[m] <= 1 /\ (effect[m].bound => posts[m] = 1)
    /\ \A i \in Items :
           /\ item[i].source # "web" =>
                  effect[item[i].source].created /\ effect[item[i].source].item = item[i].id
           /\ item[i].reply # "none" =>
                  item[i].reply = item[i].source /\ effect[item[i].reply].state = "confirmed"
           /\ \A m \in Messages : LinkOf[m] = i /\ effect[m].created /\ effect[m].item = item[i].id
                  => item[i].source = m
=============================================================================
