------------------------------ MODULE Accounts ------------------------------
(***************************************************************************)
(* Accounts, sign-in and administration (yoink-auth, yoink-access,         *)
(* yoink-identity profile.rs, admin.rs, admin/groups.rs and lib.rs, the    *)
(* scan of topics in yoink-user-session, and the HTTP handlers in front of *)
(* them).  A request is authenticated from its token first and authorised  *)
(* later, in the transaction that carries it out, while others change who  *)
(* may do what.  Roles are numbered in the order of Role.  There is one    *)
(* group and one feature; what a tag grants is the matter of Memberships,  *)
(* the provider grant that of InsightByok.                                 *)
(***************************************************************************)
EXTENDS Naturals

CONSTANTS
    People,
    ConfiguredOwner,  \* owner_id
    Requests,
    Topics,           \* threads of the group; 0: messages outside of topics (NULL)
    FeatureRole,      \* default_min_role of the feature, NoRole for None
    MaxCommits        \* bound: requests carried out

Banned == 0
Restricted == 1
Member == 2
Administrator == 4
OwnerRole == 5
GivenRoles == {Banned, Member, Administrator}
NoRole == 9

ASSUME AccountAssumption ==
    /\ ConfiguredOwner \in People /\ MaxCommits \in Nat
    /\ Topics \subseteq Nat /\ FeatureRole \in 0..5 \cup {NoRole}

VARIABLES
    account,     \* per person: NoAccount or the row of users
    token,       \* per person: "none" or the role claimed when it was issued
    approval,    \* the registration policy is approved_only
    groupPolicy, \* [enabled, auto]
    threads,     \* thread_policies, per topic: "none", "on" or "off"
    local,       \* per person: the role override in the group, or NoRole
    grant,       \* user_permissions, per person: "none", "held" or "expired"
    request,
    commits,
    byWhom       \* who carried out the last change, and how (an observer)

groupVars == <<groupPolicy, threads, local>>
accountVars == <<account, token, approval, groupVars, grant, request, commits, byWhom>>

NoAccount == [role |-> NoRole, ban |-> FALSE]
NoAccessToken == [claim |-> NoRole]
NoRequest == [pc |-> "none"]
Nobody == [who |-> "nobody", op |-> "none"]

Operations == {"role", "ban", "override", "group", "topic", "scan", "grant", "revoke", "policy", "use"}
KnownRequest == [pc : {"known", "scanning", "scanned"}, actor : People, claim : 0..5, op : Operations,
                 target : People, value : GivenRoles, found : SUBSET Topics]

\* A token names an account; the row of an account has a role.
WholeRows ==
    \A p \in People : /\ token[p] # NoAccessToken => account[p] # NoAccount
                      /\ account[p].role = NoRole => account[p].ban = FALSE

AccountTypeOK ==
    /\ account \in [People -> [role : 0..5 \cup {NoRole}, ban : BOOLEAN]]
    /\ token \in [People -> [claim : 0..5 \cup {NoRole}]]
    /\ local \in [People -> 0..5 \cup {NoRole}]
    /\ approval \in BOOLEAN
    /\ groupPolicy \in [enabled : BOOLEAN, auto : GivenRoles]
    /\ threads \in [Topics -> {"none", "on", "off"}]
    /\ grant \in [People -> {"none", "held", "expired"}]
    /\ request \in [Requests -> {NoRequest} \cup KnownRequest]
    /\ commits \in 0..MaxCommits
    /\ WholeRows

Blocked(p) == account[p].role = Banned \/ account[p].ban
\* A block is looked at before the configured owner is raised.
RoleOf(p) == IF p = ConfiguredOwner /\ ~Blocked(p) THEN OwnerRole ELSE account[p].role

---------------------------------------------------------------------------
(* The snapshot and the decision: check_access, in private or in a topic   *)
(* of the group, and effective_grant.                                      *)

LocalRole(p) ==
    IF local[p] # NoRole THEN local[p]
    ELSE IF RoleOf(p) = Restricted /\ groupPolicy.enabled /\ groupPolicy.auto > Restricted
    THEN groupPolicy.auto ELSE RoleOf(p)

\* A topic without a policy is open while no policy is enabled.
ThreadAllowed(t) ==
    IF threads[t] # "none" THEN threads[t] = "on" ELSE \A u \in Topics : threads[u] # "on"

EffectiveRole(p, scope) == IF scope = "group" THEN LocalRole(p) ELSE RoleOf(p)

CheckAccess(p, scope, topic, minimum) ==
    /\ account[p] # NoAccount /\ ~Blocked(p)
    /\ scope = "group" => groupPolicy.enabled /\ ThreadAllowed(topic)
    /\ EffectiveRole(p, scope) >= minimum

\* Blocking comes before every source; then the owner, a grant that has not
\* expired, and the role the feature is given to.
EffectiveGrant(p, scope) ==
    /\ ~Blocked(p)
    /\ \/ EffectiveRole(p, scope) = OwnerRole
       \/ grant[p] = "held"
       \/ FeatureRole # NoRole /\ EffectiveRole(p, scope) >= FeatureRole

---------------------------------------------------------------------------
(* Sign-in. *)

RegistrationRole(p) ==
    IF p = ConfiguredOwner THEN OwnerRole ELSE IF approval THEN Restricted ELSE Member

\* verify_webapp, register and issue_token: who is blocked gets no new token.
IssueToken(p) ==
    /\ account[p] = NoAccount \/ ~Blocked(p)
    /\ account' = IF account[p] = NoAccount
                  THEN [account EXCEPT ![p] = [role |-> RegistrationRole(p), ban |-> FALSE]]
                  ELSE account
    /\ token' = [token EXCEPT ![p] = [claim |-> IF account[p] = NoAccount
                                               THEN RegistrationRole(p) ELSE RoleOf(p)]]
    /\ byWhom' = [who |-> p, op |-> "register"]
    /\ UNCHANGED <<approval, groupVars, grant, request, commits>>

TokenExpires(p) ==
    /\ token[p] # NoAccessToken /\ token' = [token EXCEPT ![p] = NoAccessToken]
    /\ UNCHANGED <<account, approval, groupVars, grant, request, commits, byWhom>>

\* What the handlers read from a request of each kind.
Fits(p, op, target, value) ==
    /\ op \in {"group", "topic", "scan", "policy", "use"} => target = p
    /\ op = "ban" => value # Administrator
    /\ op \in {"topic", "scan", "policy", "grant", "revoke"} => value = Member

\* authenticated_id: the token says who it is; its role is not used again.
Authenticate(r, p, op, target, value) ==
    /\ request[r] = NoRequest /\ token[p] # NoAccessToken /\ commits < MaxCommits
    /\ Fits(p, op, target, value)
    /\ request' = [request EXCEPT ![r] =
           [pc |-> "known", actor |-> p, claim |-> token[p].claim, op |-> op,
            target |-> target, value |-> value, found |-> {}]]
    /\ UNCHANGED <<account, token, approval, groupVars, grant, commits, byWhom>>

---------------------------------------------------------------------------
(* The transactions. *)

\* Mutant of ActorRole: the role is the one the token was issued with.
ActorRoleClaimed(q) == q.claim

\* admin_auth: the role of the actor as the transaction sees it.
ActorRole(q) ==
    IF account[q.actor] = NoAccount \/ Blocked(q.actor) THEN Banned ELSE RoleOf(q.actor)

Administrates(q) == ActorRole(q) >= Administrator

\* Nobody changes an owner; administrators are the owner's.
MayUpdate(q) ==
    LET target == account[q.target].role IN
    /\ Administrates(q) /\ account[q.target] # NoAccount
    /\ target # OwnerRole /\ q.target # ConfiguredOwner
    /\ ActorRole(q) # OwnerRole => target # Administrator
    /\ q.op = "role" =>
           /\ ActorRole(q) # OwnerRole => q.value < Administrator
           /\ q.target = q.actor => q.value <= ActorRole(q)

Done(r) ==
    /\ request' = [request EXCEPT ![r] = NoRequest] /\ commits' = commits + 1
    /\ byWhom' = [who |-> request[r].actor, op |-> request[r].op]

Waits(r, op) == request[r].pc = "known" /\ request[r].op = op /\ commits < MaxCommits

AdminUpdateUser(r) ==
    LET q == request[r] IN
    /\ Waits(r, "role") \/ Waits(r, "ban")
    /\ MayUpdate(q)
    /\ account' = IF q.op = "role" THEN [account EXCEPT ![q.target].role = q.value]
                  ELSE [account EXCEPT ![q.target].ban = (q.value = Banned)]
    /\ Done(r) /\ UNCHANGED <<token, approval, groupVars, grant>>

MemberUpsert(r) ==
    LET q == request[r] IN
    /\ Waits(r, "override") /\ Administrates(q) /\ account[q.target] # NoAccount
    /\ local' = [local EXCEPT ![q.target] = q.value]
    /\ Done(r) /\ UNCHANGED <<account, token, approval, groupPolicy, threads, grant>>

MemberDelete(r) ==
    LET q == request[r] IN
    /\ Waits(r, "override") /\ Administrates(q) /\ local[q.target] # NoRole
    /\ local' = [local EXCEPT ![q.target] = NoRole]
    /\ Done(r) /\ UNCHANGED <<account, token, approval, groupPolicy, threads, grant>>

GroupPolicyUpdate(r) ==
    LET q == request[r] IN
    /\ Waits(r, "group") /\ Administrates(q)
    /\ \/ groupPolicy' = [groupPolicy EXCEPT !.auto = q.value]
       \/ groupPolicy' = [groupPolicy EXCEPT !.enabled = ~@]
    /\ Done(r) /\ UNCHANGED <<account, token, approval, threads, local, grant>>

ThreadUpsert(r, t, enabled) ==
    /\ Waits(r, "topic") /\ Administrates(request[r])
    /\ threads' = [threads EXCEPT ![t] = IF enabled THEN "on" ELSE "off"]
    /\ Done(r) /\ UNCHANGED <<account, token, approval, groupPolicy, local, grant>>

ThreadDelete(r, t) ==
    /\ Waits(r, "topic") /\ Administrates(request[r]) /\ threads[t] # "none"
    /\ threads' = [threads EXCEPT ![t] = "none"]
    /\ Done(r) /\ UNCHANGED <<account, token, approval, groupPolicy, local, grant>>

\* Nobody decides over the configured owner; administrators are the owner's.
MayGrant(q) ==
    /\ Administrates(q) /\ account[q.target] # NoAccount /\ q.target # ConfiguredOwner
    /\ RoleOf(q.target) >= Administrator => ActorRole(q) = OwnerRole

\* admin_grant_permission
GrantPermission(r) ==
    LET q == request[r] IN
    /\ Waits(r, "grant") /\ MayGrant(q)
    /\ grant' = [grant EXCEPT ![q.target] = "held"]
    /\ Done(r) /\ UNCHANGED <<account, token, approval, groupVars>>

\* admin_revoke_permission: no row is no error.
RevokePermission(r) ==
    LET q == request[r] IN
    /\ Waits(r, "revoke") /\ MayGrant(q)
    /\ grant' = [grant EXCEPT ![q.target] = "none"]
    /\ Done(r) /\ UNCHANGED <<account, token, approval, groupVars>>

\* expires_at of a grant passes; the row stays.
GrantExpires(p) ==
    /\ grant[p] = "held" /\ grant' = [grant EXCEPT ![p] = "expired"]
    /\ UNCHANGED <<account, token, approval, groupVars, request, commits, byWhom>>

---------------------------------------------------------------------------
(* The scan of topics: pages from the user session, then one transaction.  *)

\* configuration_authorized for the owner.
ScanAuthority(q) == ActorRole(q) = OwnerRole

\* scan: the owner, then the group, before the session is asked.
BeginScan(r) ==
    /\ Waits(r, "scan") /\ ScanAuthority(request[r])
    /\ request' = [request EXCEPT ![r].pc = "scanning"]
    /\ UNCHANGED <<account, token, approval, groupVars, grant, commits, byWhom>>

\* Authority is asked again before every page.  A topic that comes twice, a page
\* too many or an answer of another shape ends the scan (Refuse).
ScanPage(r, page) ==
    LET q == request[r] IN
    /\ q.pc = "scanning" /\ ScanAuthority(q)
    /\ page \subseteq Topics \ ({0} \cup q.found)
    /\ \E pc \in IF page = {} THEN {"scanned"} ELSE {"scanning", "scanned"} :
           request' = [request EXCEPT ![r].pc = pc, ![r].found = @ \cup page]
    /\ UNCHANGED <<account, token, approval, groupVars, grant, commits, byWhom>>

\* admin_scan_thread.sql: a new row is enabled, an old one keeps its flag.
Scanned(found) == [t \in Topics |-> IF t \in found /\ threads[t] = "none" THEN "on" ELSE threads[t]]

ScanThreadNames(r) ==
    /\ request[r].pc = "scanned" /\ commits < MaxCommits /\ ScanAuthority(request[r])
    /\ threads' = Scanned(request[r].found)
    /\ Done(r) /\ UNCHANGED <<account, token, approval, groupPolicy, local, grant>>

---------------------------------------------------------------------------
\* admin_update_bot_settings is the owner's.
UpdatePolicy(r) ==
    /\ Waits(r, "policy") /\ ActorRole(request[r]) = OwnerRole
    /\ approval' = ~approval
    /\ Done(r) /\ UNCHANGED <<account, token, groupVars, grant>>

\* A handler that asks for a role and a feature in the scope it came from.
Serve(r) ==
    LET q == request[r] IN
    /\ Waits(r, "use")
    /\ \E scope \in {"private", "group"}, topic \in Topics :
           CheckAccess(q.actor, scope, topic, q.value) /\ EffectiveGrant(q.actor, scope)
    /\ Done(r) /\ UNCHANGED <<account, token, approval, groupVars, grant>>

\* Unauthorized, Forbidden, NotFound or Unavailable: the transaction is rolled back.
Refuse(r) ==
    /\ request[r] # NoRequest
    /\ request' = [request EXCEPT ![r] = NoRequest]
    /\ UNCHANGED <<account, token, approval, groupVars, grant, commits, byWhom>>

BanExpires(p) ==
    /\ account[p].ban /\ account' = [account EXCEPT ![p].ban = FALSE]
    /\ byWhom' = [who |-> p, op |-> "time"]
    /\ UNCHANGED <<token, approval, groupVars, grant, request, commits>>

AccountInit ==
    /\ account \in [People -> {NoAccount} \cup [role : {Administrator, OwnerRole}, ban : {FALSE}]]
    /\ \A p \in People : account[p].role = OwnerRole <=> p = ConfiguredOwner
    /\ token = [p \in People |-> NoAccessToken] /\ approval \in BOOLEAN
    /\ groupPolicy = [enabled |-> TRUE, auto |-> Member]
    /\ threads = [t \in Topics |-> "none"]
    /\ local = [p \in People |-> NoRole] /\ grant = [p \in People |-> "none"]
    /\ request = [r \in Requests |-> NoRequest] /\ commits = 0 /\ byWhom = Nobody

Operation(r) ==
    \/ AdminUpdateUser(r) \/ MemberUpsert(r) \/ MemberDelete(r) \/ GroupPolicyUpdate(r)
    \/ \E t \in Topics : ThreadDelete(r, t) \/ \E enabled \in BOOLEAN : ThreadUpsert(r, t, enabled)
    \/ \E page \in SUBSET Topics : ScanPage(r, page)
    \/ BeginScan(r) \/ ScanThreadNames(r) \/ GrantPermission(r) \/ RevokePermission(r)
    \/ UpdatePolicy(r) \/ Serve(r) \/ Refuse(r)

AccountNext ==
    \/ \E p \in People : IssueToken(p) \/ TokenExpires(p) \/ BanExpires(p) \/ GrantExpires(p)
    \/ \E r \in Requests, p, target \in People, value \in GivenRoles, op \in Operations :
           Authenticate(r, p, op, target, value)
    \/ \E r \in Requests : Operation(r)

AccountSpec == AccountInit /\ [][AccountNext]_accountVars

---------------------------------------------------------------------------
(* Properties. *)

Ranked(p) == account[p] # NoAccount /\ ~Blocked(p) /\ RoleOf(p) >= Administrator

AuthorityStep ==
    /\ commits' # commits => ~Blocked(byWhom'.who)
    /\ groupVars' # groupVars => Ranked(byWhom'.who)
    /\ byWhom'.op = "scan" /\ threads' # threads =>
           /\ RoleOf(byWhom'.who) = OwnerRole
           /\ \A t \in Topics : threads[t] \in {"none", threads'[t]}
    /\ \A p \in People : <<grant[p], grant'[p]>> \notin {<<x, x>> : x \in {"none", "held", "expired"}}
                                                     \cup {<<"held", "expired">>} =>
           /\ Ranked(byWhom'.who) /\ p # ConfiguredOwner
           /\ RoleOf(p) >= Administrator => RoleOf(byWhom'.who) = OwnerRole
    /\ \A p \in People :
           account'[p] # account[p] /\ byWhom'.op \notin {"register", "time"} =>
               /\ Ranked(byWhom'.who) /\ p # ConfiguredOwner
               /\ Administrator \in {account[p].role, account'[p].role} =>
                      RoleOf(byWhom'.who) = OwnerRole

\* Whatever is carried out, the person behind it is not blocked at that moment; standing,
\* grants and policy change by the hand of somebody who administrates at that moment;
\* nobody becomes or ceases to be an administrator but by an owner's hand; and the
\* configured owner cannot be locked out.  What a token said when it was issued does not
\* matter, nor what the owner could do when a scan of topics began: the scan writes only
\* while he is the owner, and closes or opens no topic that already has a policy
\* (user-session.md: "without deleting manual policies or changing existing enabled flags").
AuthorityHolds == [][AccountTypeOK' /\ AuthorityStep]_accountVars
=============================================================================
