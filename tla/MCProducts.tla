----------------------------- MODULE MCProducts -----------------------------
(***************************************************************************)
(* The products beside downloads: the inbox with its notifications and its *)
(* ledger of GitHub mutations, insight with its quotas, streams and        *)
(* credentials, and the statistics. A behaviour is about one of them, as   *)
(* in MCDownloads; the notifications, the ledger, the device flow, the     *)
(* quota and the statistics are extended, the others are instances.        *)
(***************************************************************************)
EXTENDS InboxNotifications, GithubLedger, InsightOAuth, InsightQuota, StatsIngestion, StatsSearch, StatsImports, TLC

CONSTANTS
    Components,     \* the components a run explores
    x1, x2, x3              \* handlers, requests, readers, ...; x1 and x2 are interchangeable

VARIABLES
    component,      \* the component this behaviour is about
    s1, s2, s3, s4, s5, s6, s7, s8, s9, s10, s11, s12, s13, s14, s15, s16   \* its variables, in the order of its module

\* The variables a component leaves alone.
From10 == <<s10, s11, s12, s13, s14, s15, s16>>
From9 == <<s9, From10>>
From1 == <<s1, s2, s3, s4, s5, s6, s7, s8, From9>>
Unused10 == s10 = 0 /\ s11 = 0 /\ s12 = 0 /\ s13 = 0 /\ s14 = 0 /\ s15 = 0 /\ s16 = 0
Unused9 == s9 = 0 /\ Unused10
Unused1 == s1 = 0 /\ s2 = 0 /\ s3 = 0 /\ s4 = 0 /\ s5 = 0 /\ s6 = 0 /\ s7 = 0 /\ s8 = 0 /\ Unused9

suiteVars == <<component, allVars, oauthVars, ledgerVars, quotaVars, ingestionVars, searchVars, importVars, s1, s2, s3, s4, s5, s6, s7, s8, s9, s10, s11, s12, s13, s14, s15, s16>>

-----------------------------------------------------------------------------
(* Instances. *)

\* Three sizes of the ledger: one list, two lists that only this user changes,
\* and a single request beside other clients.
OneList == \A l \in Lists : l > 1 => remote'[l] = NoRemote
OneUser == foreign' = 0
OneRequest == Cardinality({h \in Handlers : handler'[h] # Idle}) <= 1

\* Two sizes of the ingestion: two updates without a rename, one update with one.
NoRename == title' = 1
OneUpdate == Len(updates') <= 1

\* The operations on the index, and the aggregates, which only writers disturb.
NoAggregate == scan' = NoScan /\ writes' + mishaps' <= 3
NoIndexing == operation' = NoOperation

Stream == INSTANCE InsightStream WITH
    Routes <- 2, MaxDeltas <- 2, FinalPages <- 2, MaxLost <- 1, MaxDeliveries <- 2,
    chatKind <- s1, work <- s2, exec <- s3, draft <- s4, flush <- s5, effects <- s6,
    sealed <- s7, chat <- s8, previewed <- s9, permitted <- s10, cancelled <- s11,
    stopped <- s12, deliveries <- s13, lost <- s14, startedOver <- s15, cutShort <- s16

Byok == INSTANCE InsightByok WITH
    Calls <- {x1, x2}, Models <- {"a", "b"}, MaxByokWrites <- 3,
    byok <- s1, call <- s2, nextKey <- s3, writes <- s4, accepted <- s5, discarded <- s6,
    mayManage <- s7, shownFor <- s8

Commands == INSTANCE StatsCommands WITH
    Handlings <- {x1, x2}, Parts <- 2, MaxRecounts <- 1, MaxRulings <- 2, MaxRestarts <- 1,
    counts <- s1, standing <- s2, belongs <- s3, rulings <- s4, restarts <- s5,
    manifest <- s6, parts <- s7, handling <- s8, posted <- s9

ASSUME InstancesAssumption ==
    /\ IngestionAssumption
    /\ SearchAssumption
    /\ ImportsAssumption
    /\ Stream!StreamAssumption
    /\ Byok!ByokAssumption
    /\ Commands!CommandsAssumption

-----------------------------------------------------------------------------
(* One component per behaviour. *)

SuiteInit ==
    /\ component \in Components
    /\ InboxInit
    /\ OAuthInit
    /\ LedgerInit
    /\ QuotaInit
    /\ IngestionInit
    /\ SearchInit
    /\ ImportsInit
    /\ \/ component = "inbox" /\ Unused1
       \/ component = "oauth" /\ Unused1
       \/ component = "ledger" /\ Unused1
       \/ component = "lists" /\ Unused1
       \/ component = "clients" /\ Unused1
       \/ component = "quota" /\ Unused1
       \/ component = "ingestion" /\ Unused1
       \/ component = "names" /\ Unused1
       \/ component = "search" /\ Unused1
       \/ component = "analytics" /\ Unused1
       \/ component = "imports" /\ Unused1
       \/ component = "stream" /\ Stream!StreamInit
       \/ component = "byok" /\ Byok!ByokInit /\ Unused9
       \/ component = "commands" /\ Commands!CommandsInit /\ Unused10

\* Only the component of this behaviour moves.
InboxOnly == component = "inbox" /\ UNCHANGED <<component, oauthVars, ledgerVars, quotaVars, ingestionVars, searchVars, importVars, From1>>
OauthOnly == component = "oauth" /\ UNCHANGED <<component, allVars, ledgerVars, quotaVars, ingestionVars, searchVars, importVars, From1>>
LedgerOnly == component = "ledger" /\ UNCHANGED <<component, allVars, oauthVars, quotaVars, ingestionVars, searchVars, importVars, From1>>
ListsOnly == component = "lists" /\ UNCHANGED <<component, allVars, oauthVars, quotaVars, ingestionVars, searchVars, importVars, From1>>
ClientsOnly == component = "clients" /\ UNCHANGED <<component, allVars, oauthVars, quotaVars, ingestionVars, searchVars, importVars, From1>>
QuotaOnly == component = "quota" /\ UNCHANGED <<component, allVars, oauthVars, ledgerVars, ingestionVars, searchVars, importVars, From1>>
IngestionOnly == component = "ingestion" /\ UNCHANGED <<component, allVars, oauthVars, ledgerVars, quotaVars, searchVars, importVars, From1>>
NamesOnly == component = "names" /\ UNCHANGED <<component, allVars, oauthVars, ledgerVars, quotaVars, searchVars, importVars, From1>>
SearchOnly == component = "search" /\ UNCHANGED <<component, allVars, oauthVars, ledgerVars, quotaVars, ingestionVars, importVars, From1>>
AnalyticsOnly == component = "analytics" /\ UNCHANGED <<component, allVars, oauthVars, ledgerVars, quotaVars, ingestionVars, importVars, From1>>
ImportsOnly == component = "imports" /\ UNCHANGED <<component, allVars, oauthVars, ledgerVars, quotaVars, ingestionVars, searchVars, From1>>
StreamOnly == component = "stream" /\ UNCHANGED <<component, allVars, oauthVars, ledgerVars, quotaVars, ingestionVars, searchVars, importVars>>
ByokOnly == component = "byok" /\ UNCHANGED <<component, allVars, oauthVars, ledgerVars, quotaVars, ingestionVars, searchVars, importVars, From9>>
CommandsOnly == component = "commands" /\ UNCHANGED <<component, allVars, oauthVars, ledgerVars, quotaVars, ingestionVars, searchVars, importVars, From10>>

SuiteNext ==
    \/ InboxOnly /\ InboxNext
    \/ OauthOnly /\ OAuthNext
    \/ LedgerOnly /\ LedgerNext /\ OneList
    \/ ListsOnly /\ LedgerNext /\ OneUser
    \/ ClientsOnly /\ LedgerNext /\ OneRequest
    \/ QuotaOnly /\ QuotaNext
    \/ IngestionOnly /\ IngestionNext /\ NoRename
    \/ NamesOnly /\ IngestionNext /\ OneUpdate
    \/ SearchOnly /\ SearchNext /\ NoAggregate
    \/ AnalyticsOnly /\ SearchNext /\ NoIndexing
    \/ ImportsOnly /\ ImportsNext
    \/ StreamOnly /\ Stream!StreamNext
    \/ ByokOnly /\ Byok!ByokNext
    \/ CommandsOnly /\ Commands!CommandsNext

SuiteSpec == SuiteInit /\ [][SuiteNext]_suiteVars

\* x1 and x2 are interchangeable in every component.
PairSymmetry == Permutations({x1, x2})

-----------------------------------------------------------------------------
(* Properties. *)

\* A question has one answer: of one route, never started over once a part of it
\* was shown, settled when the handling ends, and a statistics command is
\* answered with the parts of one report (insight_runtime.rs, stats commands);
\* a stored key counts as tested only if the provider accepted it as it is
\* (management.rs).
AnswersAreWhole ==
    /\ component = "stream" => Stream!OneAnswer /\ Stream!EndsSettled
    /\ component = "commands" => Commands!CommandsTypeOK /\ Commands!OneAnswerPerCommand
    /\ component = "byok" => Byok!ByokIsProbed

\* The statistics agree with what was observed: no accepted observation is
\* undone by an older one, a search and a report read one state of the messages,
\* and an import is owned until it is committed (ingestion.rs, yoink-stats-search,
\* imports.rs).
StatisticsAgree ==
    /\ IngestionTypeOK /\ ObservationsStand
    /\ SearchTypeOK /\ ReadsAreSnapshots
    /\ ImportsTypeOK /\ ImportsAreOwned
=============================================================================
