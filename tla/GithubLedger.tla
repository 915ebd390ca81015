---------------------------- MODULE GithubLedger ----------------------------
(***************************************************************************)
(* The ledger of GitHub mutations of one user (yoink-inbox mutations.rs,   *)
(* lists.rs, the handlers of http.rs) and the list synchronisation that    *)
(* writes the same folders (store.rs apply_stars_with_lists, lists::apply).*)
(*                                                                         *)
(* Handlers run concurrently and may be dropped between any two awaits; a  *)
(* request that was posted may be accepted later or never, and its answer  *)
(* be lost.  GitHub is external: lists with or without the wanted name and *)
(* with or without the repository, which other clients change as well.     *)
(* Of the mutations "create" cannot be observed afterwards; "rename",      *)
(* "remove" and "join" (a membership) can, and stand for star and unstar   *)
(* too.  Names, slugs, icons and the order of folders are left out.        *)
(***************************************************************************)
EXTENDS Naturals, FiniteSets

CONSTANTS
    Handlers,    \* concurrent requests of the user
    Intents,     \* ids of intents: 1..n in the order of their admission
    Folders,     \* local folder ids: 1..n in the order of their creation
    Lists,       \* ids of remote lists: 1..n in the order of their creation
    MutationKinds, \* the mutations that are asked for
    MaxForeign,  \* bound: changes by other clients
    MaxFaults    \* bound: crashes and dropped requests

\* What the constants of an instance satisfy.
ASSUME LedgerAssumption ==
    /\ Intents \subseteq Nat \ {0} /\ Folders \subseteq Nat \ {0} /\ Lists \subseteq Nat \ {0}
    /\ IsFiniteSet(Folders) /\ IsFiniteSet(Lists)
    /\ MutationKinds \subseteq {"create", "rename", "remove", "join"}
    /\ MaxForeign \in Nat /\ MaxFaults \in Nat

NoList == 0
NoFolder == 0
Idle == [pc |-> "idle", intent |-> 0, seen |-> {}, outcome |-> "none"]

VARIABLES
    intent,   \* the rows of inbox_gh_mutations
    folder,   \* the rows of inbox_gh_folders: does it exist, which list it shows
    remote,   \* GitHub: the lists, whether they have the name, hold the repository
    handler,  \* the requests being served
    wire,     \* intents whose request was posted and not yet decided by GitHub
    acceptedLists, \* history: list each accepted request acted on
    sends,    \* history: requests posted per intent
    snapshot, \* what a running synchronisation has fetched: the lists that exist
    syncing,  \* a synchronisation runs
    foreign, faults

ledgerVars == <<intent, folder, remote, handler, wire, acceptedLists, sends, snapshot, syncing, foreign, faults>>
historyVars == <<acceptedLists, sends>>

NoIntent == [kind |-> "none", state |-> "absent", folder |-> NoFolder, list |-> NoList,
             baseline |-> {}, result |-> NoList]
\* Folder ids come from AUTOINCREMENT: that of a deleted folder is not given again.
Unused == [there |-> FALSE, used |-> FALSE, link |-> NoList]
Gone == [there |-> FALSE, used |-> TRUE, link |-> NoList]
Linked(l) == [there |-> TRUE, used |-> TRUE, link |-> l]
NoRemote == [there |-> FALSE, named |-> FALSE, member |-> FALSE]

ActiveStates == {"prepared", "sending", "unknown", "confirmed"}
ActiveIntents == {n \in Intents : intent[n].state \in ActiveStates}
Existing == {l \in Lists : remote[l].there}
IsNext(x, set) == x \in set /\ \A y \in set : x <= y
UsedIntents == {n \in Intents : intent[n].state # "absent"}

LedgerTypeOK ==
    /\ \A n \in Intents : intent[n].state \in ActiveStates \cup {"absent", "applied", "rejected"}
    /\ \A f \in Folders : folder[f].link \in Lists \cup {NoList}
    /\ snapshot \subseteq Lists /\ wire \subseteq Intents

---------------------------------------------------------------------------
(* Admission. *)

FreshFolders == {f \in Folders : ~folder[f].used}

\* An equal request joins the active intent; a different one is refused, and so
\* is an edit of a folder without a list.  A create reserves its folder.
Prepare(h, n, kind, f) ==
    /\ handler[h].pc = "idle" /\ ActiveIntents = {} /\ IsNext(n, Intents \ UsedIntents)
    /\ IF kind = "create"
       THEN IsNext(f, FreshFolders) /\ folder' = [folder EXCEPT ![f] = Linked(NoList)]
       ELSE folder[f].there /\ folder[f].link # NoList /\ UNCHANGED folder
    /\ intent' = [intent EXCEPT ![n] = [NoIntent EXCEPT !.kind = kind, !.state = "prepared",
                                                        !.folder = f, !.list = folder[f].link]]
    /\ handler' = [handler EXCEPT ![h] = [Idle EXCEPT !.pc = "drive", !.intent = n]]
    /\ UNCHANGED <<remote, wire, historyVars, snapshot, syncing, foreign, faults>>

\* The same request again, or a call of reconcile.
Join(h, n) ==
    /\ handler[h].pc = "idle" /\ intent[n].state \in ActiveStates
    /\ handler' = [handler EXCEPT ![h] = [Idle EXCEPT !.pc = "drive", !.intent = n]]
    /\ UNCHANGED <<intent, folder, remote, wire, historyVars, snapshot, syncing, foreign, faults>>

\* The desired state of an idempotent mutation, as reconcile reads it.
Observed(n) ==
    LET l == intent[n].list
    IN  CASE intent[n].kind = "create" -> FALSE
          [] intent[n].kind = "rename" -> remote[l].there /\ remote[l].named
          [] intent[n].kind = "remove" -> ~remote[l].there
          [] intent[n].kind = "join" -> remote[l].there /\ remote[l].member

\* drive: the state of the intent decides what the handler does next; what it
\* reads of GitHub may be old when it is used.
Drive(h) ==
    LET n == handler[h].intent
        goes(pc) == [handler EXCEPT ![h].pc = pc]
    IN  /\ handler[h].pc = "drive"
        /\ handler' = CASE intent[n].state = "prepared" -> [goes("begin") EXCEPT ![h].seen = Existing]
                        [] intent[n].state \in {"sending", "unknown"} ->
                               [goes("record") EXCEPT ![h].outcome = IF Observed(n) THEN "observed" ELSE "unknown"]
                        [] intent[n].state = "confirmed" -> goes("apply")
                        [] OTHER -> [handler EXCEPT ![h] = Idle]
        /\ UNCHANGED <<intent, folder, remote, wire, historyVars, snapshot, syncing, foreign, faults>>

---------------------------------------------------------------------------
(* The send boundary. *)

\* Mutant of MayBegin: the statement does not compare the state.
MayBeginAnyState(n) == intent[n].state \in ActiveStates

\* begin_mutation_send: only one handler takes the intent from prepared.
MayBegin(n) == intent[n].state = "prepared"

BeginMutation(h) ==
    LET n == handler[h].intent
    IN  /\ handler[h].pc = "begin"
        /\ IF MayBegin(n)
           THEN /\ intent' = [intent EXCEPT ![n].state = "sending", ![n].baseline = handler[h].seen]
                /\ handler' = [handler EXCEPT ![h].pc = "post"]
           ELSE /\ handler' = [handler EXCEPT ![h] = Idle] /\ UNCHANGED intent
        /\ UNCHANGED <<folder, remote, wire, historyVars, snapshot, syncing, foreign, faults>>

PostMutation(h) ==
    LET n == handler[h].intent
    IN  /\ handler[h].pc = "post"
        /\ handler' = [handler EXCEPT ![h].pc = "answer"]
        /\ wire' = wire \cup {n}
        /\ sends' = [sends EXCEPT ![n] = @ + 1]
        /\ UNCHANGED <<intent, folder, remote, acceptedLists, snapshot, syncing, foreign, faults>>

\* GitHub acts on a posted request, which may be long after its handler is gone.
Accept(n) ==
    /\ n \in wire /\ wire' = wire \ {n}
    /\ \E l \in Lists :
           /\ IF intent[n].kind = "create"
              THEN IsNext(l, {x \in Lists : remote[x] = NoRemote /\ x \notin acceptedLists})
              ELSE l = intent[n].list
           /\ intent[n].kind \in {"rename", "join"} => remote[l].there
           /\ acceptedLists' = acceptedLists \cup {IF intent[n].kind = "create" THEN l ELSE NoList}
           /\ remote' = CASE intent[n].kind = "create" -> [remote EXCEPT ![l] = [there |-> TRUE, named |-> TRUE, member |-> FALSE]]
                          [] intent[n].kind = "rename" -> [remote EXCEPT ![l].named = TRUE]
                          [] intent[n].kind = "remove" -> [remote EXCEPT ![l].there = FALSE]
                          [] intent[n].kind = "join" -> [remote EXCEPT ![l].member = TRUE]
           /\ handler' = [h \in Handlers |->
                              IF handler[h].pc = "answer" /\ handler[h].intent = n
                              THEN [handler[h] EXCEPT !.outcome = "ok", !.seen = {l}] ELSE handler[h]]
    /\ UNCHANGED <<intent, folder, sends, snapshot, syncing, foreign, faults>>

\* A refusal (403, 429) proves that nothing happened.
RefuseMutation(h) ==
    LET n == handler[h].intent
    IN  /\ handler[h].pc = "answer" /\ n \in wire
        /\ wire' = wire \ {n}
        /\ handler' = [handler EXCEPT ![h].pc = "record", ![h].outcome = "refused"]
        /\ UNCHANGED <<intent, folder, remote, historyVars, snapshot, syncing, foreign, faults>>

\* The answer arrives, or anything else ends the wait: time, transport, shutdown.
AnswerArrives(h) ==
    /\ handler[h].pc = "answer"
    /\ \/ /\ handler[h].outcome = "ok"
          /\ handler' = [handler EXCEPT ![h].pc = "record"]
       \/ handler' = [handler EXCEPT ![h].pc = "record", ![h].outcome = "unknown"]
    /\ UNCHANGED <<intent, folder, remote, wire, historyVars, snapshot, syncing, foreign, faults>>

---------------------------------------------------------------------------
(* Recording and applying. *)

ResultOf(h, n) == IF intent[n].kind = "create" THEN CHOOSE l \in handler[h].seen : TRUE ELSE intent[n].list

\* confirm_mutation, unknown_mutation and reject_mutation with their guards: the
\* intent may have been recorded by another handler meanwhile.
Record(h) ==
    LET n == handler[h].intent  outcome == handler[h].outcome
    IN  /\ handler[h].pc = "record"
        /\ \/ /\ outcome \in {"ok", "observed", "adopted"}
              /\ intent' = IF intent[n].state \in {"sending", "unknown"}
                           THEN [intent EXCEPT ![n].state = "confirmed",
                                    ![n].result = IF outcome = "observed" THEN intent[n].list ELSE ResultOf(h, n)]
                           ELSE intent
              /\ handler' = [handler EXCEPT ![h].pc = "apply"] /\ UNCHANGED folder
           \/ /\ outcome = "unknown"
              /\ intent' = IF intent[n].state = "sending" THEN [intent EXCEPT ![n].state = "unknown"] ELSE intent
              /\ handler' = [handler EXCEPT ![h] = Idle] /\ UNCHANGED folder
           \/ /\ outcome = "refused"
              /\ IF intent[n].state = "sending"
                 THEN /\ intent' = [intent EXCEPT ![n].state = "rejected"]
                      /\ folder' = IF intent[n].kind = "create"
                                   THEN [folder EXCEPT ![intent[n].folder] = Gone] ELSE folder
                 ELSE UNCHANGED <<intent, folder>>
              /\ handler' = [handler EXCEPT ![h] = Idle]
        /\ UNCHANGED <<remote, wire, historyVars, snapshot, syncing, foreign, faults>>

\* Another folder already shows the created list: it replaces the reserved one.
Importer(n) == {f \in Folders : folder[f].there /\ folder[f].link = intent[n].result /\ f # intent[n].folder}

Applied(n) ==
    LET f == intent[n].folder
    IN  CASE intent[n].kind = "create" /\ Importer(n) # {} -> [folder EXCEPT ![f] = Gone]
          [] intent[n].kind = "create" /\ Importer(n) = {} -> [folder EXCEPT ![f].link = intent[n].result]
          [] intent[n].kind = "remove" ->
                 IF folder[f].link = intent[n].list THEN [folder EXCEPT ![f] = Gone] ELSE folder
          [] OTHER -> folder

\* The folder an edit or a membership is about still shows the same list, and
\* the reserved folder of a create is there; otherwise the intent stays confirmed.
MayApply(n) ==
    LET f == intent[n].folder
    IN  CASE intent[n].kind = "create" -> folder[f].there
          [] intent[n].kind = "remove" -> TRUE
          [] OTHER -> folder[f].there /\ folder[f].link = intent[n].list

ApplyMutation(h) ==
    LET n == handler[h].intent
    IN  /\ handler[h].pc = "apply"
        /\ handler' = [handler EXCEPT ![h] = Idle]
        /\ IF intent[n].state = "confirmed" /\ MayApply(n)
           THEN folder' = Applied(n) /\ intent' = [intent EXCEPT ![n].state = "applied"]
           ELSE UNCHANGED <<folder, intent>>
        /\ UNCHANGED <<remote, wire, historyVars, snapshot, syncing, foreign, faults>>

\* adopt_create: the user names a list that is new since the baseline and has
\* the wanted name.
AdoptCreate(h, n, l) ==
    /\ handler[h].pc = "idle"
    /\ intent[n].kind = "create" /\ intent[n].state \in {"sending", "unknown"}
    /\ l \in Existing \ intent[n].baseline /\ remote[l].named
    /\ handler' = [handler EXCEPT ![h] = [pc |-> "record", intent |-> n, seen |-> {l}, outcome |-> "adopted"]]
    /\ UNCHANGED <<intent, folder, remote, wire, historyVars, snapshot, syncing, foreign, faults>>

\* cancel_prepared_mutation: only before the send boundary.
CancelPrepared(n) ==
    /\ intent[n].state = "prepared"
    /\ intent' = [intent EXCEPT ![n].state = "rejected"]
    /\ folder' = IF intent[n].kind = "create" THEN [folder EXCEPT ![intent[n].folder] = Gone] ELSE folder
    /\ UNCHANGED <<remote, handler, wire, historyVars, snapshot, syncing, foreign, faults>>

---------------------------------------------------------------------------
(* Synchronisation, other clients, faults. *)

\* The job fetches all lists, page after page, before it opens a transaction.
SyncFetch ==
    /\ ~syncing /\ syncing' = TRUE
    /\ snapshot' = Existing
    /\ UNCHANGED <<intent, folder, remote, handler, wire, historyVars, foreign, faults>>

\* The lists that no folder shows.
NewLists == {l \in snapshot : \A f \in Folders : ~(folder[f].there /\ folder[f].link = l)}

\* The new lists go to fresh folders in order: the n-th to the n-th.
Takes(f, l, new) ==
    /\ f \in FreshFolders /\ l \in new
    /\ Cardinality({g \in FreshFolders : g < f}) = Cardinality({k \in new : k < l})

\* Mutant of SyncFolders: a list that some folder shows is imported again.
SyncFoldersAgain ==
    [f \in Folders |-> IF \E l \in Lists : Takes(f, l, snapshot)
                       THEN Linked(CHOOSE l \in Lists : Takes(f, l, snapshot)) ELSE folder[f]]

\* lists::apply: lists that no folder shows get one, folders of lists that are gone
\* lose their link.
SyncFolders ==
    [f \in Folders |->
        IF \E l \in Lists : Takes(f, l, NewLists) THEN Linked(CHOOSE l \in Lists : Takes(f, l, NewLists))
        ELSE IF folder[f].link \in snapshot THEN folder[f] ELSE [folder[f] EXCEPT !.link = NoList]]

\* An active mutation makes the synchronisation fail and try again later.
SyncApply ==
    /\ syncing /\ syncing' = FALSE /\ snapshot' = {}
    /\ \/ ActiveIntents # {} /\ UNCHANGED folder
       \/ ActiveIntents = {} /\ Cardinality(NewLists) <= Cardinality(FreshFolders) /\ folder' = SyncFolders
    /\ UNCHANGED <<intent, remote, handler, wire, historyVars, foreign, faults>>

\* Local deletion is allowed for linked folders; the reserved one is hidden.
DeleteFolder(f) ==
    /\ folder[f].there
    /\ \A n \in ActiveIntents : intent[n].kind = "create" => intent[n].folder # f
    /\ folder' = [folder EXCEPT ![f] = Gone]
    /\ UNCHANGED <<intent, remote, handler, wire, historyVars, snapshot, syncing, foreign, faults>>

ForeignChange ==
    /\ foreign < MaxForeign /\ foreign' = foreign + 1
    /\ \E l \in Lists :
           \/ /\ remote[l] = NoRemote /\ l \notin acceptedLists /\ \A k \in Lists : k < l => remote[k] # NoRemote
              /\ \E named \in BOOLEAN : remote' = [remote EXCEPT ![l] = [there |-> TRUE, named |-> named, member |-> FALSE]]
              /\ acceptedLists' = acceptedLists
           \/ /\ remote[l].there
              /\ \/ remote' = [remote EXCEPT ![l].there = FALSE]
                 \/ remote' = [remote EXCEPT ![l].named = ~@]
                 \/ remote' = [remote EXCEPT ![l].member = ~@]
              /\ acceptedLists' = acceptedLists
    /\ UNCHANGED <<intent, folder, handler, wire, sends, snapshot, syncing, faults>>

\* A handler is dropped with its connection, or all of them with the process.
DropHandler(h) ==
    /\ handler[h] # Idle /\ faults < MaxFaults /\ faults' = faults + 1
    /\ handler' = [handler EXCEPT ![h] = Idle]
    /\ UNCHANGED <<intent, folder, remote, wire, historyVars, snapshot, syncing, foreign>>

LedgerInit ==
    /\ intent = [n \in Intents |-> NoIntent]
    /\ folder = [f \in Folders |-> Unused]
    /\ remote = [l \in Lists |-> NoRemote]
    /\ handler = [h \in Handlers |-> Idle]
    /\ wire = {} /\ acceptedLists = {} /\ sends = [n \in Intents |-> 0]
    /\ snapshot = {} /\ syncing = FALSE /\ foreign = 0 /\ faults = 0

LedgerNext ==
    \/ \E h \in Handlers :
           \/ \E n \in Intents, kind \in MutationKinds, f \in Folders : Prepare(h, n, kind, f)
           \/ \E n \in Intents : Join(h, n) \/ \E l \in Lists : AdoptCreate(h, n, l)
           \/ Drive(h) \/ BeginMutation(h) \/ PostMutation(h) \/ RefuseMutation(h) \/ AnswerArrives(h) \/ Record(h)
           \/ ApplyMutation(h) \/ DropHandler(h)
    \/ \E n \in Intents : Accept(n) \/ CancelPrepared(n)
    \/ SyncFetch \/ SyncApply \/ ForeignChange
    \/ \E f \in Folders : DeleteFolder(f)

LedgerSpec == LedgerInit /\ [][LedgerNext]_ledgerVars

---------------------------------------------------------------------------
(* Properties. *)

\* Uncertain remote effects are never repeated: an intent is posted once in its
\* life, across handlers, reconciliation and crashes, no second one begins before it
\* is settled, and what was refused or cancelled has not acted and will not.
SentOnce ==
    /\ LedgerTypeOK
    /\ Cardinality(ActiveIntents) <= 1
    /\ \A n \in Intents :
           /\ sends[n] <= 1
           /\ intent[n].state \in {"prepared", "rejected"} => n \notin wire
           /\ intent[n].state \in {"absent", "prepared"} => sends[n] = 0

\* Two folders never show the same list, whichever of synchronisation, creation
\* and adoption came first, and a settled create leaves no reserved folder behind.
OneFolderPerList ==
    /\ \A f, g \in Folders :
           folder[f].there /\ folder[g].there /\ folder[f].link # NoList /\ folder[f].link = folder[g].link => f = g
    /\ \A n \in Intents : intent[n].state = "rejected" /\ intent[n].kind = "create" => ~folder[intent[n].folder].there

\* docs/features/inbox/contracts.md:3: "Inbox preserves caller ownership, saved
\* metadata, explicit remote intent [...]": a folder whose remote list was created
\* for it stays linked to it while the list exists.
LinkSurvives ==
    [][\A f \in Folders :
           LET l == folder[f].link
           IN  folder[f].there /\ folder'[f].there /\ l # NoList /\ l \in acceptedLists /\ remote[l].there
                   => folder'[f].link = l]_ledgerVars

\* A mutation is sent to GitHub at most once, one at a time, and no list is linked
\* to two folders (mutations.rs, lists.rs).
MutationsAreSound == SentOnce /\ OneFolderPerList
=============================================================================
