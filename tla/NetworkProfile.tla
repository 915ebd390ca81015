--------------------------- MODULE NetworkProfile ---------------------------
(***************************************************************************)
(* Credentials of download jobs (profile/mod.rs, profile/oauth_refresh.rs).*)
(* prepare_network freezes, at admission, which cookie and which proxy a   *)
(* job will use; resolve looks them up again when the job runs, attempt    *)
(* after attempt, while the user and the administrators change cookies,    *)
(* settings and roles.  Cookies and settings are written by other modules; *)
(* here their writers are the environment.  A reference has no content,    *)
(* only a version: the hash of content, metadata and time of the row.      *)
(*                                                                         *)
(* Who the user is, is read in a transaction of its own, before the rows:  *)
(* a submission and every attempt are authorized once, and go on with that *)
(* snapshot of the identity (role, grants and time) whatever becomes of    *)
(* the user meanwhile.  Authorization, the format, the refresh, the        *)
(* preparation and the admission are a step each.                          *)
(***************************************************************************)
EXTENDS Naturals

CONSTANTS
    Jobs,
    ProxyUrls,     \* personal proxy URLs
    MaxContents,   \* bound: contents written over time
    MaxChanges,    \* bound: changes of settings and role
    MaxMoments     \* bound: the clock of updated_at and of expiry

\* What the constants of an instance satisfy.
NetworkAssumption ==
    /\ MaxContents \in Nat /\ MaxChanges \in Nat /\ MaxMoments \in Nat
    /\ "none" \notin ProxyUrls /\ "system" \notin ProxyUrls

VARIABLES
    personal,  \* the user's row for the domain, or NoCredential
    pool,      \* a shared row, or NoCredential
    written,   \* contents written so far
    moment,
    settings,  \* dl_user_settings: [proxyOn, proxy, usePool, oauth, container]
    role,
    automatic, \* the domain is one of system_proxy_domains
    changes,
    job,       \* per job: where it is and what was frozen
    used       \* per job: its last attempt, the identity it has and what it ran with

networkVars == <<personal, pool, written, moment, settings, role, automatic, changes, job, used>>

NoCredential == [content |-> 0]
CredentialRow(c, oauth) == [content |-> c, at |-> moment, oauth |-> oauth, valid |-> TRUE]
Usable(c) == c # NoCredential /\ c.valid

\* An access token lives for one moment.
TokenFresh(c, now) == now <= c.at

\* IdentitySnapshot: the role with its grants, and the time of the database.
Identity == [role |-> role, now |-> moment]
NewJob == [pc |-> "new"]
NoUse == [pc |-> "none"]

Containers == {"mp4", "webm"}

NetworkTypeOK ==
    /\ personal.content \in 0..MaxContents /\ pool.content \in 0..MaxContents
    /\ settings \in [proxyOn : BOOLEAN, proxy : ProxyUrls \cup {"none"}, usePool : BOOLEAN, oauth : BOOLEAN,
                     container : Containers]
    /\ role \in {"user", "admin", "banned"} /\ automatic \in BOOLEAN

---------------------------------------------------------------------------
(* What a reference names. *)

\* Mutant of Version: the row is known by the time of its last write.
VersionByTime(c) == [at |-> c.at]

\* cookie_version: the hash covers the content, the metadata and the time.
Version(c) == [content |-> c.content, at |-> c.at]

\* shared_cookies is granted to administrators; the snapshot says who is one.
PoolAllowed(identity) == settings.usePool /\ identity.role = "admin"

\* choose_proxy under the present settings; "none" is the direct route.
ProxyDue ==
    CASE settings.proxyOn /\ settings.proxy # "none" -> settings.proxy
      [] settings.proxyOn /\ settings.proxy = "none" -> "system"
      [] ~settings.proxyOn /\ automatic -> "system"
      [] ~settings.proxyOn /\ ~automatic -> "none"

\* The sources select_candidate may pick; the seed decides between two.
Candidates(identity) ==
    LET own == IF Usable(personal) THEN {"personal"} ELSE {}
        shared == IF Usable(pool) /\ PoolAllowed(identity) THEN {"pool"} ELSE {}
    IN  IF settings.oauth /\ Usable(personal) /\ personal.oauth THEN own ELSE own \cup shared

Source(s) == IF s = "personal" THEN personal ELSE pool

---------------------------------------------------------------------------
(* submit_preferred_context: authorization and the format. *)

Blocked == role = "banned"

\* authorize_request: the rest of the submission uses this snapshot.
AuthorizeSubmission(j) ==
    /\ job[j] = NewJob
    /\ job' = [job EXCEPT ![j] = IF Blocked THEN [pc |-> "refused"] ELSE [pc |-> "authorized", by |-> Identity]]
    /\ UNCHANGED <<personal, pool, written, moment, settings, role, automatic, changes, used>>

\* resolve_format_values: what was asked for goes before what is saved, and a
\* WebM file needs the Opus codec to be asked for.
FormatResolves(opus) == settings.container = "webm" => opus

\* The resolved format is part of the request from here on.
SubmitPreferred(j) ==
    /\ job[j].pc = "authorized"
    /\ \E opus \in BOOLEAN :
         job' = [job EXCEPT ![j] =
                    IF FormatResolves(opus)
                    THEN [pc |-> "submitted", by |-> job[j].by, format |-> <<settings.container, opus>>]
                    ELSE [pc |-> "refused"]]
    /\ UNCHANGED <<personal, pool, written, moment, settings, role, automatic, changes, used>>

---------------------------------------------------------------------------
(* refresh_before_admission. *)

NeedsRefresh == settings.oauth /\ Usable(personal) /\ personal.oauth /\ ~TokenFresh(personal, moment)

Ready(j) == [pc |-> "ready", by |-> job[j].by, format |-> job[j].format]

NoRefresh(j) ==
    /\ job[j].pc = "submitted" /\ ~NeedsRefresh
    /\ job' = [job EXCEPT ![j] = Ready(j)]
    /\ UNCHANGED <<personal, pool, written, moment, settings, role, automatic, changes, used>>

\* The row and then the user's present role are read, and the provider is asked
\* without the database.  A row that changes between the two reads is one that the
\* transaction below refuses.
SnapshotForRefresh(j) ==
    /\ job[j].pc = "submitted" /\ NeedsRefresh
    /\ job' = [job EXCEPT ![j] =
                   IF Blocked THEN [pc |-> "refused"]
                   ELSE [pc |-> "refreshing", read |-> personal, role |-> role, by |-> job[j].by,
                         format |-> job[j].format]]
    /\ UNCHANGED <<personal, pool, written, moment, settings, role, automatic, changes, used>>

SameRow(c) == Usable(personal) /\ Version(personal) = Version(c)

\* Version, role and mode are compared in the transaction that writes.
Refresh(j) ==
    /\ job[j].pc = "refreshing" /\ written < MaxContents
    /\ IF SameRow(job[j].read) /\ role = job[j].role /\ settings.oauth
       THEN /\ written' = written + 1
            /\ personal' = CredentialRow(written', TRUE)
            /\ job' = [job EXCEPT ![j] = Ready(j)]
       ELSE /\ job' = [job EXCEPT ![j] = [pc |-> "refused"]]
            /\ UNCHANGED <<personal, written>>
    /\ UNCHANGED <<pool, moment, settings, role, automatic, changes, used>>

RefreshFails(j) ==
    /\ job[j].pc = "refreshing"
    /\ job' = [job EXCEPT ![j] = [pc |-> "refused"]]
    /\ UNCHANGED <<personal, pool, written, moment, settings, role, automatic, changes, used>>

---------------------------------------------------------------------------
(* prepare_network: the rows are those of its transaction, the identity is the one the *)
(* submission was authorized with, which validate_identity has found unblocked.        *)

\* OAuth credentials serve their own mode only, while they are fresh.
Serves(c, s, identity) == c.oauth => settings.oauth /\ s = "personal" /\ TokenFresh(c, identity.now)

Frozen(j, cookie, content) ==
    [pc |-> "prepared", cookie |-> cookie, proxy |-> ProxyDue, content |-> content, format |-> job[j].format]

PrepareNetwork(j) ==
    LET candidates == Candidates(job[j].by) IN
    /\ job[j].pc = "ready"
    /\ \/ /\ candidates = {}
          /\ job' = [job EXCEPT ![j] = Frozen(j, [source |-> "none"], 0)]
       \/ \E s \in candidates :
              /\ Serves(Source(s), s, job[j].by)
              /\ job' = [job EXCEPT ![j] = Frozen(j, [source |-> s, version |-> Version(Source(s))],
                                                  Source(s).content)]
       \/ /\ \E s \in candidates : ~Serves(Source(s), s, job[j].by)
          /\ job' = [job EXCEPT ![j] = [pc |-> "refused"]]
    /\ UNCHANGED <<personal, pool, written, moment, settings, role, automatic, changes, used>>

\* The store's transaction authorizes the actor of a Telegram message once more.
AdmitNetwork(j) ==
    /\ job[j].pc = "prepared"
    /\ \E telegram \in BOOLEAN :
         job' = [job EXCEPT ![j] = IF telegram /\ Blocked THEN [pc |-> "refused"]
                                                       ELSE [job[j] EXCEPT !.pc = "frozen"]]
    /\ UNCHANGED <<personal, pool, written, moment, settings, role, automatic, changes, used>>

---------------------------------------------------------------------------
(* An attempt (process_claim): authorization, then resolve. *)

\* Attempts may follow one another, or a claim that went stale be overtaken by the next;
\* each has an identity of its own.
AuthorizeAttempt(j) ==
    /\ job[j].pc = "frozen"
    /\ used' = [used EXCEPT ![j] = IF Blocked THEN NoUse ELSE [pc |-> "authorized", by |-> Identity]]
    /\ UNCHANGED <<personal, pool, written, moment, settings, role, automatic, changes, job>>

\* The proxy that is due now is the one that was frozen; a direct route does not
\* bypass a proxy that was switched on meanwhile.
RouteHolds(frozen) == frozen = ProxyDue

CookieHolds(reference, identity) ==
    \/ reference.source = "none"
    \/ /\ reference.source # "none"
       /\ reference.source = "pool" => PoolAllowed(identity)
       /\ Usable(Source(reference.source))
       /\ Version(Source(reference.source)) = reference.version
       /\ Serves(Source(reference.source), reference.source, identity)

\* What the worker is told: the frozen request with the resolved credentials.
WorkerRequest(j) ==
    [pc |-> "ran", proxy |-> job[j].proxy, due |-> ProxyDue, format |-> job[j].format,
     content |-> IF job[j].cookie.source = "none" THEN 0 ELSE Source(job[j].cookie.source).content,
     shared |-> job[j].cookie.source = "pool", wanted |-> settings.usePool, as |-> used[j].by.role]

Resolve(j) ==
    /\ used[j].pc = "authorized"
    /\ RouteHolds(job[j].proxy) /\ CookieHolds(job[j].cookie, used[j].by)
    /\ used' = [used EXCEPT ![j] = WorkerRequest(j)]
    /\ UNCHANGED <<personal, pool, written, moment, settings, role, automatic, changes, job>>

\* StaleReference or SharedAccessDenied: the claim fails the operation, unless another
\* claim has taken it over.
ResolveRefused(j) ==
    /\ used[j].pc = "authorized"
    /\ ~RouteHolds(job[j].proxy) \/ ~CookieHolds(job[j].cookie, used[j].by)
    /\ used' = [used EXCEPT ![j] = NoUse]
    /\ UNCHANGED <<personal, pool, written, moment, settings, role, automatic, changes, job>>

---------------------------------------------------------------------------
(* The writers around it. *)

WritePersonal(oauth) ==
    /\ written < MaxContents /\ written' = written + 1
    /\ personal' = CredentialRow(written', oauth)
    /\ UNCHANGED <<pool, moment, settings, role, automatic, changes, job, used>>

WritePool ==
    /\ written < MaxContents /\ written' = written + 1
    /\ pool' = CredentialRow(written', FALSE)
    /\ UNCHANGED <<personal, moment, settings, role, automatic, changes, job, used>>

RemovePersonal ==
    /\ personal # NoCredential /\ personal' = NoCredential
    /\ UNCHANGED <<pool, written, moment, settings, role, automatic, changes, job, used>>

\* web_cookie_validate marks the row.
MarkPersonal ==
    /\ personal # NoCredential
    /\ personal' = [personal EXCEPT !.valid = ~@]
    /\ UNCHANGED <<pool, written, moment, settings, role, automatic, changes, job, used>>

ChangeSettings ==
    /\ changes < MaxChanges /\ changes' = changes + 1
    /\ \/ settings' = [settings EXCEPT !.proxyOn = ~@]
       \/ \E p \in ProxyUrls \cup {"none"} : settings' = [settings EXCEPT !.proxy = p]
       \/ settings' = [settings EXCEPT !.usePool = ~@]
       \/ settings' = [settings EXCEPT !.oauth = ~@]
       \/ \E c \in Containers : settings' = [settings EXCEPT !.container = c]
    /\ UNCHANGED <<personal, pool, written, moment, role, automatic, job, used>>

ChangeRole ==
    /\ changes < MaxChanges /\ changes' = changes + 1
    /\ role' \in {"user", "admin", "banned"} \ {role}
    /\ UNCHANGED <<personal, pool, written, moment, settings, automatic, job, used>>

MomentPasses ==
    /\ moment < MaxMoments /\ moment' = moment + 1
    /\ UNCHANGED <<personal, pool, written, settings, role, automatic, changes, job, used>>

NetworkInit ==
    /\ personal = NoCredential /\ pool = NoCredential /\ written = 0 /\ moment = 0
    /\ settings = [proxyOn |-> FALSE, proxy |-> "none", usePool |-> TRUE, oauth |-> TRUE,
                   container |-> "mp4"]
    /\ role \in {"user", "admin"} /\ automatic \in BOOLEAN /\ changes = 0
    /\ job = [j \in Jobs |-> NewJob] /\ used = [j \in Jobs |-> NoUse]

NetworkNext ==
    \/ \E j \in Jobs :
           \/ AuthorizeSubmission(j) \/ SubmitPreferred(j)
           \/ NoRefresh(j) \/ SnapshotForRefresh(j) \/ Refresh(j) \/ RefreshFails(j)
           \/ PrepareNetwork(j) \/ AdmitNetwork(j)
           \/ AuthorizeAttempt(j) \/ Resolve(j) \/ ResolveRefused(j)
    \/ \E oauth \in BOOLEAN : WritePersonal(oauth)
    \/ WritePool \/ RemovePersonal \/ MarkPersonal \/ ChangeSettings \/ ChangeRole \/ MomentPasses

NetworkSpec == NetworkInit /\ [][NetworkNext]_networkVars

---------------------------------------------------------------------------
(* Properties. *)

\* An attempt runs with exactly the content that was frozen at admission, or with none,
\* over the route the settings demand when the references are resolved, with a shared
\* cookie only if the settings want one then and the attempt itself was authorized as a
\* user who may use it, however long ago the submission was and whatever the user is by
\* now, and in the format of the submission, which the worker accepts, whatever was
\* replaced, removed or switched in between.
RunsAsFrozen ==
    /\ NetworkTypeOK
    /\ \A j \in Jobs :
          used[j].pc = "ran" =>
            /\ used[j].content = job[j].content /\ used[j].proxy = used[j].due
            /\ used[j].shared => used[j].wanted /\ used[j].as = "admin"
            /\ used[j].format = job[j].format /\ (used[j].format[1] = "webm" => used[j].format[2])
=============================================================================
