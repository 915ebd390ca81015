# Verification of yoink-core

TLA+ models of the parts of yoink-core that decide what is done once, what is
done again, who may do it and what is reported: the download queue with its
workers, cache, dialogs, credentials and notices; submission with its quotas and
one-shot commands; accounts, memberships and keys; polling and routing; the text
ledger, the inbox, GitHub mutations, insight, music and statistics; the database
files and the life of the server. TLC checks the modules on small instances,
TLAPS proves the main invariants of most of them for every size.

    tlc -config MCDownloads.cfg MCDownloads         # one run
    tlapm DownloadQueueProofs.tla                   # one module of proofs

`PROJECT.json` holds the tables that go with this text: the components and their
sources, the runs, mutants for every checked property, the source lines of
every definition, the findings, the hazards and the theorems.

## 1. The system

yoink-core is one Rust process (`backend/crates`) with a private Turso database.
One owner process has the database file and one serialized connection, so that
every transaction is atomic and transactions run one after the other; everything
between two transactions interleaves. Around the process are Telegram (polling,
sends and edits, all of which may succeed without a usable answer), a confined
media worker process, GitHub and other providers, and an operator who stops,
kills and restarts the container.

A download goes this way: a command is *admitted* into `runtime_operations`; a
worker task *claims* the row under a lease, which a heartbeat task of its own
extends; the claimant authorizes again, looks into the media cache or runs the
executor, cuts the artifacts into units, journals every unit before it is sent,
sends it and records the outcome. Whoever claims next first reconciles the
leases that ran out. A text (reply, notification) goes through
`runtime_text_effects`: a row per token decides whether the single attempt may
be made, and proves afterwards what became of it. A classified inbox link leaves
a row in `inbox_notifications`, which a periodic tick claims, passes through the
ledger of texts and acknowledges.

Four patterns recur, and they are where the code is hard. *Read, leave the
database, come back and write*: the writer must find out whether what it read is
still so (revisions, generations, watermarks, content). *Effects outside the
database*: the effect may have happened although the answer is lost, so the
attempt is journalled first and never repeated blindly. *Futures that are
dropped*: any await may be the last one, in a shutdown, a timeout or a closed
connection. *The same update twice*: Telegram repeats what was not confirmed, and
handlers run again after a restart.

### Inventory

| Component | State | Operations | Interacts with | What is hard | What makes it correct |
| --- | --- | --- | --- | --- | --- |
| Download queue | operations and delivery units | admit, cancel, claim with reconciliation, complete, fail, begin and settle units, stop, requeue | workers, commands | stale claimants, crash in a send, counters in two tables | no resend after an ambiguous unit, terminal rows final, limits hold, no stuck row |
| Download workers | per task: claim, heartbeat, plan, outcome | poll, process_claim, heartbeat, supervision | queue, executor, Telegram | every await may lose lease, owner or process | records and reports agree with the chat; everything settles |
| Submission | quota windows, marks, armed modes | arm, mark, submit, charge | queue, dialogs | check and use apart; redelivery | one operation per message, in the mode asked for, charged once |
| Plan and albums | none, one delivery | plan, preflight, validate, replay | workers, cache, Telegram | two tables of media types that must agree | every planned unit can be sent and replayed |
| Media cache | batches by key, clear watermark | look up, publish, refuse, clear, evict | workers, owner | three transactions with Telegram between | a batch leaves for a reason of its own and does not return |
| Executor | process groups, workspaces | start, read, interrupt, kill, reap | workers, music, inbox | forks, dropped callers, shutdown | nothing survives its run; every run ends |
| Network profiles | frozen references, identities | authorize, prepare, resolve, refresh | cookies, settings | rows and role change between submission, authorization and run | a job runs with what was frozen, or not at all |
| Cookies, device flow | cookie rows, tokens, sessions | upload, remove, token, web write, validate, poll, drain | providers | slow validation against newer choices | the last choice is stored; what was handed out is kept |
| Dialogs | quality and cut sessions with revisions | press, type, confirm, submit, hand over | submission | old buttons, redelivery, restart between two transactions | one operation per message, as shown last |
| Settings | preferences and language with revisions | press, patch, reset | all pages of the user | two writers in one tick | a press acts on what its page showed |
| Content policy | rules, revision, group policy | edit, import, judge | workers | rules change between units | each unit judged by one moment's rules |
| Progress notices | one notice per operation | register, render, edit, clean up | queue, Telegram | late edits and registrations | the outcome is shown in the end |
| Text effects | token rows | prepare, begin, confirm, seal, bind; dispatch | everything that writes texts | races for a token, death around a send | one attempt, proven absence, real receipts |
| Inbox notifications | outbox with leases | admit, claim, send, recover, record | ledger, items | two ledgers without a common transaction | one edit per completion, in order |
| Inbox jobs | jobs with leases, items, answers to commands | save, list, enqueue, claim, publish, fail, cancel | users, Telegram, restart | a lease that lapses in a publication; a command that comes twice | no item waits for nothing; every job ends; a save is told once |
| GitHub ledger | intents, folders, lists | prepare, send, reconcile, adopt, sync | GitHub and other clients | ambiguous effects, stale snapshots | sent once; links survive |
| Polling | offset, batch, per-chat queues | fetch, observe, confirm, serve | Telegram | confirmation against observation | what is confirmed was observed |
| Routing | one message at a time | ask features, authorize, act, reply | every product | authority changes at every await | only those get answers who are due one |
| Menus | due versions, contacts | pass, refuse, return | identity, Telegram | answers that are late or lost | menus agree in the end |
| Accounts | roles, tokens, approvals, topics, grants | sign in, administrate, scan topics | HTTP, bot, user session | a token's role is old; a scan takes many pages | changes by the hand of who may make them |
| Memberships | reports, generations, tags | observe, delete, revoke | polling, routing | late reports | a grant ends with what it rests on |
| API keys | keys, scopes, events | create, revoke, use | HTTP | authenticated in one transaction, served in another | a key answers what it may |
| Insight | reservations, streams, OAuth flows, keys | reserve, settle, stream, connect, probe | providers, ledger | drops, midnight, abandoned flows | spent as agreed; one whole answer; no token returns |
| Music, inline | cards, audio, registry of actors | resolve, show, supersede | providers, ledger | providers drift, newer queries | shown once; only the newest answers |
| Stats, search | people, messages, dirty queue, index | ingest, sync, import, search, report | Telegram, files | order of reports; two stores | no observation undone; snapshots |
| Database files | file, sidecar lock, inodes | open, publish, back up, restore, import, migrate | operators | system calls of several processes | whole files; one owner |
| Server | tasks, registries, drain | start, drain, abort, close | everyone | deadline against running work | the database closes last |
| HTTP plumbing, i18n, front ends, Python | none that interleaves | request and response | | | |

## 2. Modules

| Module | Models | Checked by |
| --- | --- | --- |
| `DownloadQueue`, `DownloadQueueProofs` | the queue's transactions; theorems | `MCDownloads`, TLAPS |
| `DownloadService`, `DownloadServiceProofs` | workers, heartbeats, supervisor, Telegram, faults (extends `DownloadQueue`); theorems on the queue's use, the chat and the contract | `MCDownloads`, `MCLive`, TLAPS |
| `DeliveryContract` | what the submitter is promised (abstract) | refined by `DownloadService` |
| `Albums` | planning; kinds, albums, answers, replay | `MCDownloads` |
| `MediaCache`, `Dialogs`, `ContentPolicy`, `NetworkProfile`, `Credentials`, `Settings`, `DownloadsProofs` | one component each; their theorems | `MCDownloads`, TLAPS |
| `Admission`, `AdmissionProofs` | submissions of one actor; theorems | `MCAccess`, TLAPS |
| `TextEffects` | ledger and dispatch of texts | `MCAccess`, TLAPS |
| `Accounts`, `Grants`, `Polling`, `ServerLife`, `Publication`, `AccessProofs` | one component each; their theorems | `MCAccess`, TLAPS |
| `Commands`, `Dispatch` | what a text asks for; what becomes of a message (extends `Commands`) | `MCAccess` |
| `InlineQueries`, `Music` | one component each | `MCAccess` |
| `InboxNotifications` | outbox and runtime ticks (extends `TextEffects`) | `MCProducts`, `MCLive`, TLAPS |
| `GithubLedger`, `InsightOAuth`, `InsightQuota` | one component each | `MCProducts`, TLAPS |
| `StatsIngestion`, `StatsSearch`, `StatsImports` | one component each | `MCProducts`, TLAPS |
| `ProductsProofs` | theorems of `TextEffects`, `InboxNotifications`, `GithubLedger`, `InsightOAuth`, `InsightQuota` and the three of the statistics | TLAPS |
| `InsightStream`, `InsightByok`, `StatsCommands` | one component each | `MCProducts` |
| `ExecutorRuns`, `InboxJobs`, `Menus`, `Progress`, `WorkProofs` | one component each, with fairness; their theorems | `MCLive`, TLAPS |

Operators whose comment begins with *Mutant of* are plausible bugs of the
definition that follows. Nothing refers to them; each is there to show that a
property would notice that bug.

### Suites

`MCDownloads`, `MCAccess`, `MCProducts` and `MCLive` instantiate several
components side by side, so that one run checks a whole side of the system.
Components whose interaction matters are composed in a module of their own
(`DownloadService` with the queue, `InboxNotifications` with the ledger,
`Albums` with the plan); those in a suite share no state that their properties
speak of, and their product would only multiply states. A behaviour of a suite is
therefore about *one* component: the initial state chooses `component`, and
`SuiteNext` steps that one. The variables `s1`, `s2`, ... are those of the chosen
component in the order of its module, and an instance maps them back. The modules
a suite extends keep their own variables, so that the very definitions that TLC
checks are the ones proved about: `MCDownloads` extends `DownloadService` (and
with it the queue) and the six modules that `DownloadsProofs` is about, `MCAccess`
extends `Admission`, `TextEffects`, `Accounts`, `Grants`, `Polling`, `ServerLife`
and `Publication`, `MCProducts` extends `InboxNotifications`, `GithubLedger`,
`InsightOAuth`, `InsightQuota`, `StatsIngestion`, `StatsSearch` and `StatsImports`,
`MCLive` extends `ExecutorRuns`, `InboxJobs`, `Menus` and `Progress`. `WorkProofs` and
the end of `ProductsProofs` are about the suite's own specification. A property of a suite says for each component what must
hold while it is the chosen one.

`x1` and `x2` are the interchangeable pair of every component that has one (two
handlers, two calls, two requests): one symmetry set serves the whole suite.

### DownloadQueue

`operations` is the table `runtime_operations`, one record per row, with the
rows of `runtime_delivery_units` in its field `units`; a row that was not
inserted has status `absent`. Every action is one function of `store.rs` (or
`requeue_invalid_cache` of `cache.rs`) with the SQL it runs: the `WHERE` clause
is the guard, the `SET` clause the new record, and the `CASE` expressions are
operators of their own (`ExpiredStatus`, `RejectedStatus`, `StoppedStatus`).
A statement that changes nothing because its guard fails is a stuttering step,
which is why refusals are not separate actions.

Time is reduced to the two comparisons the statements make. `live` is
`lease_expires_at > now`; `LeaseExpires` lets it become false at any moment.
`available_at <= now` is membership in `ready`, a sequence in the order of
`available_at`, which is the order the claim reads in; `MakeAvailable` lets a
delayed row enter at any moment. A claim is `<<operation, attempt>>`: worker id,
lease token and attempt are written by the same statement, so a claimant whose
attempt is the row's is the one whose token is. `Next` lets a claimant of *every*
attempt so far issue *every* statement at any time, with any argument: the queue
is checked and proved without any trust in the workers.

`Claim` is the whole of `claim_filtered`: it expires up to `ExpireLimit` dead
leases (any subset of that size: the statement's order among them is that of the
expiry times, which are not kept), requeues what may run again, and takes the
first claimable row.

### DownloadService

`DownloadService` extends the queue with the tasks that use it. `worker[w].pc`
is named for what `process_claim` awaits next, and one action is what happens up
to the next await:

| Action | Code |
| --- | --- |
| `Poll`, `Exit` | `worker_loop` |
| `Heartbeat`, `HeartbeatError` | `start_heartbeat` |
| `TakeEvent` | `finish_heartbeat_event` |
| `Authorize`, `Lookup`, `Execute`, `ProgressStale`, `Interrupt` | `process_claim` up to the artifacts |
| `FailCall`, `AckCall`, `Check`, `Begin` | its calls to the store |
| `NextUnit`, `Open`, `Announce`, `HearEvent`, `Answer`, `Settle`, `StopCall` | the delivery loop, `deliver_media`, `guard_upload_start` |
| `Die`, `Restart` | an error of `process_claim`, `supervise_workers`, the container |
| `Accept`, `Lose` | Telegram, external |
| `Shutdown`, `Crash`, `DatabaseError` | the faults |

A call that finds a stale lease follows the code: some calls ignore it, others
(`strict`) return an error, which ends the worker and with it the service.
`wire` are the requests that left and that Telegram neither accepted nor
refused. A request survives its sender: Telegram may accept it after the
deadline, after the lease and after the process.

`DeliveryContract` is what the submitter sees: an outcome per operation and the
number of artifacts in the chat. Artifacts arrive only while the outcome is open
or `delivery_unknown`; `failed` and `cancelled` are reported only when nothing
arrived, `succeeded` and `delivery_partial` only when something did. The
refinement maps every pending status to `open` and counts the chat.

### Admission

One actor's messages: commands that arm a mode or a content mark for the next
link, and links. `handler[h]` is the task of one update, `pc` what it awaits
next; `Deliver` may hand any message to any idle handler, again and out of order.

| Action | Code |
| --- | --- |
| `Deliver`, `Authorize` | `handle_message`, `authorize_request` |
| `Arm`, `Mark` | `arm_deferred_media`, `mark_next_nsfw`, whole transactions |
| `Replay`, `Read`, `Conflict`, `Recheck` | the rounds of `submit_telegram_media` |
| `Prepare` | `submit_telegram_context` up to the transaction |
| `Admit` with `Insert`, `Charged`, `RetryAfter` | `admit_inner`, `quota::charge` |
| `Finish` | the queue settles an operation, which makes room |
| `ChangeAuthority`, `ChangeLimits`, `Tick`, `Abort` | a ban, the settings, the clock, a dropped task |

`deferred`, `mark`, `markSeen` and `rates` are the actor's rows of the tables of
the same names. `journal` is history: what was armed, marked and admitted, in
the order of commit; the operations in it are the actor's rows of
`runtime_operations`. Three types of links are told apart: `plain` and `explicit`
links of the private chat come with a trusted context, and only the plain one
asks for the armed mode; `other` links come from a group.

The dispatcher runs the updates of one chat one after the other. The module does
not use this: the code's own version check is what is checked. A message number
stands for its chat too, and with it for the idempotency key; its intent never
changes, since edited messages are not taken for commands. Preferences, network
authority and the dialog of `submit_telegram_context` are a free choice of
`Prepare`: it goes on, meets a conflict, or ends.

### TextEffects

`effects` is `runtime_text_effects`. `BeginText` is the admission to the one
attempt; `PostText`, `AnswerText`, `RecordText` are the rest of
`dispatch_entities`, with Telegram's acceptance (`AcceptText`, external) at any
later time; `AbortText` is the death of the task at any await. `posted` and
`accepted` remember what left and what arrived. `SealText` is
`seal_text_absence`, `BindText` `mark_text_bound`.

### InboxNotifications

`notes` is the outbox in its order; `runner[d]` is a tick of the runtime with
what it has read. The text of a note is dispatched through the actions of
`TextEffects`, with the dispatcher of the same name. The outbox and the ledger
are written by different transactions, and the module is about what happens
between them: `BeginSend` commits `sending` in the outbox, `DispatchText` in the
ledger, `Return` the receipt, `RecordOutcome` the acknowledgement. `Recover`
seals what never reached the ledger. Two runtimes are allowed because a lease,
not the process, is what the code relies on.

### Around a download

`MediaCache`: an operation looks up, sends and publishes in three transactions;
`Advances` is the test whether a publication may replace what the key holds,
`clearMark` the watermark of `/uncache`. `Albums` follows one delivery through
`plan_delivery_units`, the sender's preflight, Telegram's answer and a replay
from file ids; `UploadKind` and `MediaKind` are the two tables of media types,
in two crates, that must agree. `ContentPolicy` has the rules with
their revision, edits over HTTP with or without it, and the verdict that is
taken for the delivery and again for each unit. `NetworkProfile` freezes
references at submission and resolves them when the job runs; a reference carries
a version, the hash of content, metadata and time of its row. A submission and every
attempt are authorized in a transaction of their own (`AuthorizeSubmission`,
`AuthorizeAttempt`), and the format, the refresh, `PrepareNetwork` and `Resolve` go on
with that snapshot of role and time: cookies and settings are those of the present
transaction, the identity may be of an earlier one, and a demotion or ban in between
goes unnoticed until the next authorization (for an attempt, the one before its
artifacts are delivered).

`Credentials` has, side by side, one user's cookie of one domain with its four
writers (a document, a url to fetch, the web, the refresh) and two readers that ask
the provider without the database, and the device flow: `Protected` is the part of
a poll that neither a timeout nor the shutdown may cut, because the provider hands
the credential out once. `Settings` has pages that stay in the chat and buttons that
carry the revision of the page; `NextRevision` is
the clock or one more than the old revision, without which two writers in one tick agree on a
revision. `Dialogs` holds the rows of the quality and the cut session, buttons
of every revision that was ever shown, the admission between two transactions,
and the hand-over.

`ExecutorRuns` follows processes rather than data: leader and forked children,
zombies, the pipe, the reader task, the select loop, and who kills and reaps
in which order. `Progress` has the operation's status as its environment, the row
of the notice, and the loop that reads the row, reads the operation, edits and
advances the row it read.

### Who may do what

`Accounts`: a request is authenticated from a token (`Authenticate`) and carried
out later, in a transaction that reads the roles again (`ActorRole`). The topics
of a group, role overrides and feature grants are changed in the same way. A scan
of topics is authorised before every page (`ScanPage`) and in the transaction that
keeps what it found (`ScanThreadNames`), which switches on only what nobody had
switched. A message outside of topics is allowed as long as no topic is switched
on, so a scan can close a group's general chat; `ThreadAllowed` is that rule.
`Grants` holds the permissions of groups and the keys of machines, which have
nothing in common but whom they let in. Groups: `events` is what happened, in order; reports of it are applied
late and again; `MemberGeneration` ties a member's report to the generation of
the bot's presence. Keys: `AuthenticateKey` and the answer are separate
transactions. `Commands` holds the parsers: a text is a sequence of words, a word
is what the parsers tell words apart by, and a result that may fail is the set of
its one value, or empty. The loop of `parse_command` over the options of a media
command is a fold (`ReadOptions`); the limits of the domain are tests of their own.
`Dispatch` is one message through all features, one step per await, with
`ChangeAuthority` in between: the reply to a dialog, the products in turn, the
help that is put together section by section, registration, the command and its
service call. `Recheck` is the test before a group reply. `AnswersAreDue` says what
may be told, and to whom; `WorkIsAsked`, that a service did only what the text
asked for; `ParsersAgree`, that a clip or a playlist typed in two forms is the
same one and within the limits. `MCAccess` instantiates the module twice:
`Routing` with three kinds of servers and some fifty texts, one of each form a
handler asks for, `Parsing` with thousands of texts on a server without products.
`Polling`: observers commit before the offset moves; a restart asks from zero.
`InlineQueries`: the registry's lock makes `BeginQuery` one step; everything
after it races with newer queries. `Music`: cards are journalled by their place
among the resolved links, audio by link.

### Inbox, insight, statistics

`GithubLedger`: `intent` holds the rows of the ledger, `remote` GitHub's lists,
which others change too; `SyncFetch` and `SyncApply` are the two halves of a star
synchronisation. `InboxJobs`: a claim is a token; publication and failure are
fenced by it. A command of Telegram is received, saved and prepared in one
transaction (`PrepareSave`), begun, sent and bound, with crashes in between;
`effect` is its row of the text ledger, reduced to the states that `TextEffects`
tells apart, and whether its sender may use the inbox is a free choice. `InsightQuota`: a dropped request leaves its reservation to a
spawned cleanup, which the fence waits for. `InsightStream`: the execution and a
heartbeat write pages under one lock, over the text ledger, and the end of the
execution drops what is being written. `InsightOAuth`: generations of flows.
`InsightByok`: save and probe with a provider call in the middle.

`StatsIngestion`: updates, a roster synchronisation and the refresh of names,
with revisions and floors. `StatsSearch`: the triggers' dirty queue, an index
that commits on its own, distrust after a failure, and reports that read in
batches. An operation that is cancelled may leave a closure behind, which nobody
waits for: it gets the lock of the index at any later time (`detached`,
`DetachedRuns`). `health` observes whether one of them came after the index had been
emptied again. `StatsCommands`: an answer as a manifest with one text effect per part.
`StatsImports`: capacity, closures that cannot be stopped, one transaction.
`Menus`: one worker, contacts with revisions, requests that are applied late.

### Files and process

`Publication` has inodes and names apart: a lock belongs to an inode, a sidecar
file can be unlinked while it is held, and every system call is a step. A source
is copied in two parts, so that a copy of two states can be told from a copy of
one. A schema is the layout and the rows of its migration ledger and the objects it
has: `migrate` validates the history (`HistoryValid`), runs what is missing
(`Migrated`), and opening compares the whole ledger and the last fingerprint.

`ServerLife` is parameterised by the `Configurations` to explore: which parts
(`database`, `auth`, `media`, ..., in the order of `prepare`) the server builds.
The startup may fail, time out or be abandoned at every await; then come the
adapter tasks of a configuration, the registries that admit work, and the
shutdown, one stage of `ShutdownOrder` after the other, up to the close of the
database. Work is either `Registered`, so that a stage of the shutdown waits for
it, or `Loose`: a download, a device poll, an inline query or a plain HTTP
request is awaited only by the task that started it. A task that is aborted at
the deadline leaves its loose work behind (`left`).

## 3. Runs

| Run | Expect | What it shows |
| --- | --- | --- |
| `service_delivery` | pass | One operation, two workers, their heartbeats and one fault; three artifacts as units of two and one, two attempts. Queue: `NoResend`, `RowsAreSound`, `JournalAgrees`, `DecisionsAreFinal`; what is recorded has arrived and the chat is a prefix of one attempt's units (`RecordsMatchChat`); the service implements `DeliveryContract` (`KeepsContract`); what an attempt runs with: `RunsAsFrozen`, and cookies and device flow: `CredentialsAreKept` |
| `downloads` | pass | Three operations of one owner against two pending and one active: `LimitsHold`; `DialogsAreSound`; albums and keyboards: `OffersAreAccepted`; `PolicyHolds`; `CacheChangesAreDue`; settings: `PressIsInformed` |
| `access` | pass | Submission: `OneOperationEach`, `ModeFollowsCommands`, `MarkForcesOnce`, `ArmedUntilUsed`; texts: `EffectsAreSound`, `OutcomeIsFinal`; memberships and keys: `GrantsGovern`; routing, inline, music: `RepliesAreDue`; server: `ClosesLast` |
| `quotas_accounts_files` | pass | `QuotasHold`: counts are exact, bursts bounded, the named delay exact; accounts: `AuthorityHolds`; polling: `ConfirmedIsObserved`; files: `PublishesWholeFiles` |
| `products` | pass | `NotificationsAreSound`; GitHub: `MutationsAreSound`; insight: `SpendingIsAgreed` (quota), `AnswersAreWhole` (streaming and own keys), `NoTokenReturns`; statistics: `StatisticsAgree` (with `AnswersAreWhole` for commands) |
| `live` | pass | `EverySettles`, `InboxSettles`, `EveryRunEnds`, `EveryJobEnds`, `MenusConverge`, `OutcomeIsShown`; and `WorkIsOwned`, an invariant: executor and jobs, the commands that save links, types of the menus, and notices that are finished only when they show the outcome |
| `service_shutdown` | violation | A shutdown just before the upload fails the operation |
| `inbox_deleted` | violation | A hard deletion stops the recovery for ever |
| `ledger_stale_sync` | violation | A stale snapshot unlinks a folder |
| `insight_final` | violation | A dropped flush blocks the final one |
| `stats_roster` | violation | A newer report loses to an older one |
| `publication_owner` | violation | Two owners of one database |

Deadlock checking is off: every component rests at the bounds of its
environment, and liveness is what says that it rests in the right place.

### Mutants

Every property of a passing run has a mutant in `PROJECT.json`, and some that join
several parts have one for each of them (`StatisticsAgree`: observations, names, search).
Otherwise every other part
has a mutant operator in its module as well, and each of them was found by the
same property in the same run: for instance `UnitGrowsOverLimit`
and `MayChooseOnce` (`OffersAreAccepted`), `CutLinksDraft` and `CutDeleteStaysReady`
(`DialogsAreSound`), `ProtectedNot` (`CredentialsAreKept`), `LiveThrough`
(`GrantsGovern`), `EvictableAny` (`RepliesAreDue`), `FullLast` and
`RetryAfterFirst` (`QuotasHold`), `PlaylistRangeUnbounded`, `IgnoredTextless` and
`RecheckSkipped` (`RepliesAreDue`), `SyncFoldersAgain` (`MutationsAreSound`),
`AcceptsAnyIdentity` (`WorkIsOwned`).

### Bounds

- Queue: one operation is enough for delivery: rows do not read each other except
  through limits and the order of `ready`, which `downloads` covers with three
  operations of one actor. Two attempts and the bypass give three claims of a
  row: a stale claimant, one between, and the current one. Units of two and one
  artifacts are a unit that is not a multiple of the limit and a plan of two.
  `ExpireLimit` is one, so that a claim leaves an expired row behind.
- Service: two workers are a stale one and its successor. `MaxFaults` counts
  shutdowns, crashes and database errors; expired leases, lost answers,
  cancellations and refusals are not bounded by it.
- Submission: two handlers, two arms, two plain links and a mark. `MaxTries` is
  two where the code has eight rounds: a first and a repeated one, and the end.
  The proofs hold for every value. Quotas: four links, windows of two and three
  ticks, `MaxTime` three, so that both end and begin again; two
  ticks are a second, so that remainders occur; the three windows are two.
- Texts: two tokens, two identities, three dispatchers. Notifications: two notes
  are an earlier and a later edit; `MaxSends` bounds the retries of one note.
- Cache: three operations on one key, two clears: a stale, a current and a later
  batch. Albums: every list of up to five artifacts of three categories, units of
  three. Dialogs: three messages of seven kinds, two clips, three revisions: a
  dialog, its successor and what is typed between. Cookies: three messages of
  which any may be late. Device flow: two sessions, two polls. Settings: two
  pages of every pair of kinds, two handlings, two instants.
- Accounts: owner and one other, two topics of which one is outside of topics, one
  request at a time against two commits.
  Memberships: three events, one deletion. Keys: one key, two calls. Polling: four
  updates of two chats, batches of two, three lives. Inline: two actors, three
  queries, room for one actor, a window of two ticks that ends once. Music: two
  links of a command or a card, two handlers, one drift, one crash. Routing: one
  topic and the private chat, two changes of authority. Parsing: every text of up
  to three words of eleven, alone and after `/video` and `/cut`, of up to two after
  the other commands that read links, and options with values that fit and that do not. Files: three publishers, two
  runtimes, three launches. Server: three
  configurations with different tasks and registries, one piece of work of an
  owner at a time, three in all.
- GitHub: two intents, two folders and one fault, in three sizes whose product would be
  too large: two requests with one list and a change by others, with two lists and none,
  and a single request at a time with two lists and a change.
  Streaming: two deltas, two deliveries. Ingestion: two updates, two readers; and one
  update, one rename and two seconds, which is what a name needs that was sent before a
  refresh began and arrives after it was stored. Search: two messages, at most three
  changes and mishaps together: a cancelled operation, its closure and what came
  between; aggregates, which share only the rows with the search, have an instance of their own.
- Liveness: one operation, two faults; two notes, two crashes; one run, two
  frames; one item, three jobs, two restarts; for saves one link, two commands that
  save it and a listing, two deliveries, one crash; a member and a group, two moves;
  two replies, one retry, two faults. The faults end, as the properties need.

Symmetry is used in runs of invariants and action properties only.

### Fairness

Stated in `MCLive`, per component: weak fairness of every task of the process (the
tokio scheduler; sends, statements and executions have deadlines), of the clock
(an abandoned lease runs out, a delay or back-off passes), of the restart
(`restart: unless-stopped` in `docker-compose.yaml`) and, for menus, of
Telegram's report that a person came back. Nothing is assumed of providers, of
users or of faults, whose number is bounded. For notices, the operation is
assumed to move, which `EverySettles` shows of the queue.

Only one component runs in a behaviour, so that weak fairness of a disjunction
over the components is the conjunction of theirs, and TLC has four conditions to
check instead of a dozen. The behaviours are bounded, so every fair one comes to
rest, and `<>[]P` says that it rests in `P`.

## 4. Proofs

`DownloadQueueProofs` proves `Spec => []Inv` (theorem `Invariance`) and from it `TypeOK`,
`NoResend`, `QueuedIsClaimable` and `AttemptsBounded`, for every finite set of
operations, every map of actors and bots and all limits, from
`ConstantsAssumption` alone. `NoResend` is not inductive: it says nothing of a
row that is *delivering*, and the next step of such a row decides whether it may
return to the queue. The invariant (`RowOK` of
every row) adds: no unit belongs to an attempt beyond the row's, and those of
earlier attempts were all rejected; a running row has journalled nothing yet in
its attempt; while a row delivers, its units are open or sent, at most one is
open, and none is sent while `delivered_artifact_count` is zero (so that the
tests of `delivered` in the `CASE` expressions really look at the journal); only
active rows have a live lease. Every transaction writes whole rows, so the proof
has one lemma per row function (`Released`, `Marked`, `ExpireRow`, `ClaimRow`,
...) and one step per action; `Claim` composes `ExpireRow` and `ClaimRow`.
From the same invariant follow the action properties `CancelIsFinal` and
`TerminalIsFinal`: a claimant's statement needs an active row and keeps its
cancellation, attempt and creation (`ClaimantKeeps`), and no other action writes
a row that is over.

`DownloadServiceProofs` proves `ServiceSpec => Spec`: what the workers do, under
all their interleavings, crashes, lost answers and restarts, is what the queue
allows, so the queue's theorems are theorems of the service
(`ServiceNeverResends` states one of them). The queue accepts the statements
of any claimant whose attempt was handed out, and any plan within the limit. That
a worker is such a claimant is the invariant `WorkerOK`: outside of its idle loop
its claim names an attempt of the row (attempts only grow, `LaterOK`); its plan is
a possible one until it has begun, and afterwards the part not sent, with
`ordinal + Len(plan)` within the limit; and while the heartbeat task runs its
channel holds the cancellation at most. The types of the
service, a part of `RecordsMatchChat`, come with it: the channel, unbounded in the
code, never holds more than two events.

`AdmissionProofs` proves `AdmittedOnce`, `ModeFollowsCommands` and the action
property `ArmedUntilUsed` for any messages, handlers, modes, windows and limits.
`ModeFollowsCommands` speaks of the history, the code of one row. The invariant
`DeferredIsNewest` connects them: the row holds the newest number among the
private messages that took effect, and a mode exactly if that message is a
command. `HandlerOK` says what type of message a handler has at each step. A link is
inserted while the row still equals the version its mode was resolved from, so
that what it read of the row is true of the history at the commit.

The queue's counters need a second invariant, `RowsCounted` (theorem
`CountsInvariance`): in a delivering row `delivered_artifact_count` is the number
of artifacts of the confirmed units, ordinals do not repeat, and what is still
open fits into what is left of the plan. `JournalsAgree` (`JournalAgrees`) follows.
`LimitsAlwaysHold` (`LimitsHold`) compares the owner's pending and active rows of
two states: no action but `Admit` makes a row pending and no action but `Claim`
makes one active, and each of them counts first, over the table that the expiry
of the same transaction leaves.

`DownloadServiceProofs` proves in its second half `RecordsMatchChat` and
`KeepsContract`, the refinement of `DeliveryContract`, for any number of workers,
operations, attempts, plans and faults. The invariant `ChatInv` has four parts:
the row agrees with its chat (`ChatAgrees`: ordinals in order, all of the row's
attempt, every confirmed unit there); every request on the wire is for the open
unit of its row, which is the next in the chat (`Known`); what a worker holds in
its hands agrees with its row (`Holds`); and no two workers hold the same claim. A
stale worker needs no exception: its claim names an older attempt, and
`Holds` says nothing of it, because the statements of the queue refuse it. The
refinement then follows action by action: the chat grows in `Accept` alone, where
the row is open or unknown, and a queue action leaves the outcome unchanged or
takes it from `open` to one that the chat bears out.

`AdmissionProofs` proves of the quotas `QuotasHold`, for any windows, durations,
changing limits and clocks. `WindowFacts` is the invariant of one window: the
counter is the number of operations since the window began; the window began
with an admission; fewer than the largest limit were admitted in the
length of a window before that. Hence a span of one length meets two windows at
most and holds fewer than twice the limit. And `MarkForcesOnce`: at every moment of
the history no more operations were forced than marks were given, fewer while one
waits (`MarkInv`); the numbers in `markSeen` are what keeps a redelivered mark from
counting twice. `QuotaAssumption` says that every window's limit has a largest
value, as the range that `downloader_settings.rs` accepts (1 to 1000000) gives it.

`ProductsProofs` proves of `TextEffects` the properties `EffectsAreSound`
(`SingleAttempt`, `ProofOfAbsence`, `TrueReceipts`) and `OutcomeIsFinal`, for any
number of tokens, identities and dispatchers. None of
them is inductive alone. `Held` ties a running dispatcher to its row: the row
says `sending` with the dispatcher's identity, no other dispatcher holds the
token, and nothing was posted while the dispatcher has yet to post.
`PostedIsRecorded` ties what was posted to the identity of the row.

On top of it, `NotificationsAreSound` of the outbox, for any number of notes,
items, runtimes and crashes. The invariant `InboxInv` relates two ledgers without
a common transaction (`KnownRow`): send tokens beyond the current one are absent,
those before it sealed, a row that may be claimed has its last token sealed, an
acknowledged one has it confirmed. With `TextInv` (sealed was never posted,
one post per token) a note is posted once over all of its tokens. `Ordered` gives
the order of the reply, `RunnerBound` what a tick may still believe.

`NoTokenReturns` of the device flow rests on one comparison: generations only
grow, and what a disconnection was about (`revokedUpTo`, `leaving`) is older than
the flow the user is shown. `SpendingIsAgreed` of the quota: what was reserved
on a day *or is still reserved* stays within the limit (`ChargedWithin`: the row
of the log and the reservation are written at different moments), every future
has its token and every reservation the guard that releases it (`FuturesAreHeld`).

`MutationsAreSound` of the GitHub ledger, for any handlers, intents, folders, lists,
foreign changes and faults. A posted request outlives its handler, and reconciliation,
adoption or another handler may have settled the row meanwhile, so the invariant
`LedgerInv` says per step what a handler may still believe (`RequestFits`): whoever is
about to post is the only one (`OnePoster`), its row is neither prepared nor rejected, and
nothing was posted yet; a refusal that is still to be recorded proves that the request
is off the wire. `IntentFits` ties the row to the wire and to its folder: the reserved
folder of a creation is used up, so a rejected one never reappears, because
synchronisation takes fresh folders only. That a synchronisation gives no list to two
folders is the lemma `SameRank`: it hands the n-th new list to the n-th fresh folder.

`AccessProofs` proves `ConfirmedIsObserved` of the poll, for any updates, chats,
batch sizes, failures and lives: the response begins at the oldest update that is
not confirmed, what `place` has passed is observed by every observer, and so is
everything that left the response (`PollInv`). `AuthorityHolds` of accounts needs
no more than types (`AccountsTyped`): the actor's role is read in the transaction
that writes. `ClosesLast` of the server, for every set of configurations and any
amount of work: the stages that the shutdown has passed are drained and admit
nothing (`StagesArePassed`), and loose work has a task that waits for it or is
remembered as one that did not (`LooseIsOwned`).

`GrantsGovern`, for any users, reports, deletions, keys and requests, has an
invariant for each half. `MemberSound` is about generations alone: a row of the
bot's present generation was reported after every departure of the bot that the
database knows of, because a report older than the bot's last one is put into the
generation before, and a deletion or another presence of the bot begins a new one
(`BotSound` keeps the generation positive from the first report on, which is why
"the generation before" exists). The order in which Telegram delivers is not needed
for it. `RevocationSound` says that what the owner revoked has neither a row nor a
tag's grant left. `KeySound` and `CallsSound` are about the history `good` and the
last use of a key.

`PublishesWholeFiles` of the database files, for any publishers, runtimes,
migrations and crashes, is about steps: what comes to stand under the name is
whole and current, a database is only migrated forward, and a sidecar loses its
name only to the holder of its lock. A publisher renames what it examined some
system calls before, so the invariant `PubInv` follows what it staged
(`FitsStep`: two equal halves, a current schema, by the step it has reached);
while a sidecar is being removed its lock is with the remover
(`RemovalsAreLocked`, for the inode that the remover opened, whatever the name
means by then); a process past the owner check has a database, and one that serves
has a current one (`OwnersHaveDatabase`); and each launch makes one inode at most
(`InodesAreLaunched`). Two lemmas carry the schema: `MigrationCompletes` (the missing
migrations leave exactly the released schema, whatever prefix had been applied) and
`StrangersStayOut` (no foreign history is recognised).

`DownloadsProofs` is about what stands around the queue, for every value of the
constants.

- *Dialogs* (`DialogsAreSound`). That a message becomes one operation is not
  inductive, since a link has two ways to one: its own dialog and the cut that the
  dialog hands over to. `Handed` says of a message that no quality dialog will admit
  it any more, and `HandedStays` that this is for ever: a dialog that is cutting
  stays so until a later message replaces it. Every row of a cut, and every operation
  out of one, is about a message that was handed over and not admitted
  (`CutSound`, `OperationSound`); an open dialog that nobody claimed was not admitted
  (`QualitySound`); and the handler of a confirmation still has the row it claimed
  (`HandlerSound`), because a chat's updates are handled one at a time and a claimed
  row refuses every edit. A restart between the claim, the admission and the last
  transaction leaves a claimed row whose operation, if there is one, shows what the
  row shows.
- *Credentials* (`CredentialsAreKept`). `CookieInv` ties the row to what was
  chosen last and the watermark to the messages that were heard. `DeviceInv` follows
  a success that Google gives out once: it is carried by a poll within its budget,
  staged in its row, saved or excused; a row stays at least as long as the budget of
  the poll that asks for it (`PollSound`), at most one poll runs per session, and
  only a session past its life is collected.
- *Network profiles* (`RunsAsFrozen`): contents are numbered as they are written
  and a job's reference is to one that was written before, so that equality of the
  version decides equality of the content. Nothing in the invariant ties an identity to
  the present role: what is proved of a shared cookie is that the settings want one when
  it is resolved and that the attempt's own authorization found an administrator. The
  identity the submission was authorized with does not carry over to an attempt.
- *Content policy* (`PolicyHolds`): the rows of a listing are those of its
  revision, and an older revision is never the current one again; a unit's verdict is
  one that the policy had since the unit before it.
- *Media cache* (`CacheChangesAreDue`): what is published is over, and under a
  watermark that has not gone back since.
- *Settings* (`PressIsInformed`): a page or a handler that names the current
  revision shows the current values (`PageTrue`, `HandlerTrue`), because every
  write raises the revision, also within one tick of the clock.

`ProductsProofs` ends with the statistics (`StatisticsAlwaysAgree`, of the suite's
specification). *Ingestion*: what the tables show is at least as new as every observation
that was counted, because a reader writes only what no counted observation changed since
its revision, and it read later; a floor is a second whose name is remembered. *Search*
(`ReadsAreAlwaysSnapshots`): the payload of the index names the file and the revision it
was built from (`PayloadInv`), and while it is the database's own and nothing distrusts the
writer, the documents are the rows of the acknowledged revision (`IndexInv`). A closure of an operation that was cancelled after the index was last emptied is
timely: as long as one is still to run the writer is distrusted and nothing has been
written since (`ClosureInv`), so the next operation empties what it does. One that is
late when it runs makes `health` spoilt, and only a rebuild that begins afterwards and is
committed makes it sound again. *Imports* (`UploadInv`, `WithinCapacity`):
those who hold an upload, its closure and its job agree, and neither uploads nor jobs
exceed their capacity.

`WorkProofs` proves `WorkIsOwned` of the suite's specification (`WorkAlwaysOwned`), with
one invariant per component. *Executor*: a run that is over has no living process, a
zombie only if its caller was dropped, and no workspace; a success is one that its own
worker reported last. *Jobs*
(`JobsInv`): at most one active job per item, a claim of the present token on a row that is
running, and an item that waits has its job or was set aside by a rule of its user. *Saves* (`TellInv`)
needs more than types of the handlers: the label under which an item was saved names the one
command whose transaction inserted it, and an answer in hand says what its own transaction
found. *Menus*: types, and an observation is never newer than what happened. *Notices*
(`ShownInv`): what a row says was shown is on the way or in the message, and the loop
advances the row that it read. It uses that an edit which timed out takes effect before
the next one or never, as the model does.

Assumptions on constants are those of the modules (`ConstantsAssumption`,
`ServiceAssumption`, `AdmissionAssumption`, `QuotaAssumption`, `TextAssumption`,
`InboxAssumption`, `LedgerAssumption`, `OAuthAssumption`, `PollingAssumption`, `AccountAssumption`,
`GrantsAssumption`, `LifeAssumption`, `PublicationAssumption`, `IngestionAssumption`,
`SearchAssumption`, `ImportsAssumption`, `RunsAssumption`, `InboxJobsAssumption`,
`MenuAssumption`, `ProgressAssumption`, and those of the six modules of `DownloadsProofs`): finite sets, limits and bounds that are numbers;
of the migrations that they create distinct objects, and of the name of a free
lock that it is no process. TLC evaluates each of them in a run. The inductive invariants were all checked by TLC
as invariants of the same runs before they were proved.

Only model-checked:

- liveness, since fairness and `ENABLED` are out of the prover's reach, and with it
  `OffersAreAccepted`, which asks of the keyboards whether a press is `ENABLED`;
- the best partition of `Albums` (`DeliveriesConform`), an induction over data;
- what `SelectSeq` and other recursive operators return in `Music` and
  `InlineQueries`;
- `AnswersAreWhole` (streams, own keys, the commands of the statistics) and
  `RepliesAreDue` (routing, inline queries, music): section 7 puts them in order.

## 5. Findings

1. *Shutdown before the upload* (`service_shutdown`). The refusal of
   `guard_upload_start` is recorded as one of Telegram's and the operation fails
   for good, while a shutdown one await earlier requeues it.
2. *Deleted item* (`inbox_deleted`). A receipt that a crash left unrecorded cannot
   be recorded once its item is deleted, and the recovery fails at every tick.
3. *Stale synchronisation* (`ledger_stale_sync`). Lists fetched while a creation
   was unsettled are applied after it: the folder loses its link and the list
   comes back as a second folder.
4. *Dropped flush* (`insight_final`). The token of a flush that was dropped
   between the ledger's commit and `revision += 1` is used again with another
   text; the conflict ends the answer before it is shown.
5. *Roster floor* (`stats_roster`). A member's row is kept because a report came
   during the synchronisation, and the floor of the same synchronisation refuses
   the newer report that follows. One bot, no import.
6. *Unlinked lock* (`publication_owner`). A runtime locks a sidecar inode that was
   unlinked after its link count was read; another one makes a new sidecar file.
   `verify_files` notices the difference later, when both have the database open.

Two more need no run, since one statement shows them; the models follow the
code. `docs/architecture/persistence.md:31` says that workers claim in creation
order, and `claim_for_bot_select.sql` orders by `available_at` first, so a
retried row is passed over by younger ones. `claim_for_bot_update.sql` does not
clear `failure_code`, as `claim_update.sql` does and
`yoink-storage/tests/queue.rs:308` asserts of it: the code of the attempt before
stays on the row while the next one runs.

Seen while modelling, and within what the documentation allows: updates in the
per-chat queues are lost when the process ends, since the offset has confirmed
them; an observation that always fails stops the server at every restart; a
folder deleted locally while its mutation is in flight, and a creation of unknown
outcome without candidates, stay active until the user decides; a reservation
made before midnight is not counted on the new day; a delayed disconnection may
clear the token of a newer flow; a closure of a cancelled search that gets the
index lock only after a later operation has emptied the index writes old versions into
it or commits it under an old revision, and searches may answer from what it left until
the next rebuild is committed (`StatsSearch` shows it: `health` is then `spoilt`, and
`StatisticsAgree` claims nothing of a search in that time; `service.rs:273-303` has no test of
age); a demotion or ban between the authorization of a submission or an attempt and
the preparation or resolution that follows takes effect at the next authorization; an import that timed out may have been committed, and
importing again changes nothing; and, when the deadline of the shutdown passes,
`ServerLife` shows work that no stage waits for: a download, an inline query, an
unguarded HTTP request or a device poll outlives the task that was aborted and
may be at work when the database closes (`ClosesLast` speaks of tasks and
registered work; `docs/architecture/products.md:62` promises the drain of the
latter, and `cookie_oauth.rs:244` asks the runtime to drain the polls before the
close).

## 6. Not modelled

- Reads: listings, history, reports, metrics, health. They change no state.
- Formats: parsing of commands, cookie files, frames, archives and updates;
  rendering of texts, captions, keyboards and menus; scoring of searches; matching
  of rules against text. Where the outcome matters it is a choice of the model or a
  table.
- HTTP plumbing, the calls that the user session passes on, translations, domain types, configuration,
  front ends, the Python worker and the Python reference.
- Of `admit_inner`: the conflict of a key whose intent differs (no state changes,
  and Telegram's keys have one intent). `retry_notification`: no runtime code
  calls it. The inbox command that starts a synchronisation of stars.
- Assumed: process ids are not reused while a run is being ended; the bot's own
  membership reports come in order; a restored database is a new inode; a request
  to Telegram that timed out takes effect before the next one for the same message
  or never, in `Progress`.
- The mutation `join` of `GithubLedger` puts a repository into one list; the code's
  request replaces all lists of the repository at once. `StatsIngestion` has one clock for Telegram and the
  server, so that an update is never dated after it was reported.
- Most modules model one user, one group or one chat: the rows of different ones
  are not read together, except by the limits named above.

## 7. Plan

Done: the modules of section 2, the suites, and the theorems of `DownloadQueue`,
`DownloadService` with its refinement, `Admission`, `TextEffects`,
`InboxNotifications`, `GithubLedger`, `InsightOAuth`, `InsightQuota`, `Polling`, `Accounts`,
`Grants`, `ServerLife`, `Publication`, `StatsIngestion`, `StatsSearch`, `StatsImports`,
`ExecutorRuns`, `InboxJobs`, `Menus`, `Progress`, and of the six modules of `DownloadsProofs`.

Next theorems, in order: `AnswersAreWhole` of `InsightByok` and `InsightStream`,
`RepliesAreDue` of `Dispatch`. Next models: the composition of `Credentials`
with `NetworkProfile` (one credential, its refresh and its use), and of `Polling`
with `Admission` (updates that are confirmed before their submission commits).
