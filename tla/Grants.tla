------------------------------- MODULE Grants -------------------------------
(***************************************************************************)
(* What lets somebody in besides a role: the features that a group gives   *)
(* its tagged members (yoink-identity membership.rs, admin.rs,             *)
(* admin/groups.rs; the order of delivery is raw_polling.rs), and the keys *)
(* that administrators give to machines (admin/api_keys.rs, m2m.rs,        *)
(* yoink-http m2m.rs).                                                     *)
(*                                                                         *)
(* Telegram reports who joined and left a group; a tagged member holds the *)
(* features the owner mapped to the tag.  Reports are replayed after a     *)
(* crash and user reports may be late.  One bot, one group, one tag and    *)
(* one feature.                                                            *)
(*                                                                         *)
(* A machine's request authenticates in one transaction and is served in   *)
(* another.  Key material is the key's identity: a raw key that was never  *)
(* issued is a key that is absent.                                         *)
(***************************************************************************)
EXTENDS Integers, Sequences

CONSTANTS
    Users,
    MaxEvents,        \* bound: what happens in the group
    MaxDeletions,     \* bound: deletions of the group
    Keys,             \* keys that may be issued
    Calls,            \* requests of machines
    Admins,           \* administrators at the start
    ScopeSets,        \* sets of scopes that are asked for, valid or not
    Never,            \* no expiry
    MaxKeyClock       \* bound: seconds

\* What the constants of an instance satisfy.
ASSUME GrantsAssumption ==
    /\ MaxEvents \in Nat /\ MaxDeletions \in Nat /\ "bot" \notin Users
    /\ Keys # {} /\ MaxKeyClock \in Nat

VARIABLES
    events,       \* what happened in the group; the index is (occurred_at, update_id)
    seen,         \* the events delivered so far
    applied,      \* the events whose observation was Applied (an observer)
    groupRow,     \* "none", "disabled" or "enabled"
    suppressed,   \* the group is in membership_group_suppressions
    deletions,
    botRow,       \* membership_bots
    memberRow,    \* membership_users, per user
    registered,   \* users with an account
    mapped,       \* the tag map gives the tag the feature
    muted,        \* users in membership_feature_suppressions
    stored,       \* the user_permissions row: "none", "manual", "expired" or "tag"
    since,        \* users observed since the group was last deleted (an observer)
    revoked,      \* users whose last explicit decision is an owner's revocation (an observer)
    keys,         \* rows of api_keys
    admins,       \* callers whose role is administrator or above
    keyClock,
    calls,        \* each request: key, operation, progress
    eventLog,     \* rows of events: the request that made each
    serviceReady, \* snapshot().ready
    good          \* history: each request's key was live and had the scope since it came

memberGroupVars == <<groupRow, suppressed, deletions>>
grantVars == <<mapped, muted, stored, revoked>>
observations == <<applied, botRow, memberRow, registered, since>>
membershipVars == <<events, seen, memberGroupVars, observations, grantVars>>
keyVars == <<keys, admins, keyClock, calls, eventLog, serviceReady, good>>
grantsVars == <<membershipVars, keyVars>>

NoBot == [key |-> 0, present |-> FALSE, generation |-> 0]
NoMember == [key |-> 0, present |-> FALSE, generation |-> 0, tag |-> FALSE]

Ops == {"status", "users", "groups", "events", "event"}
Absent == [there |-> FALSE, revoked |-> FALSE, expires |-> Never, scopes |-> {},
           used |-> -1, revokedAt |-> Never]
Idle == [at |-> "idle", key |-> CHOOSE k \in Keys : TRUE, op |-> "status"]

---------------------------------------------------------------------------
(* What happens in the group, and its delivery. *)

Happen(subject, present, tag) ==
    /\ Len(events) < MaxEvents
    /\ subject = "bot" => ~tag
    /\ events' = Append(events, [subject |-> subject, present |-> present, tag |-> tag /\ present])
    /\ UNCHANGED <<seen, memberGroupVars, observations, grantVars>>

\* The bot's own reports arrive in order; a user's may be late.  Any may be repeated.
Deliverable(k) ==
    events[k].subject = "bot" =>
        \A i \in 1..(k - 1) : events[i].subject = "bot" => i \in seen

---------------------------------------------------------------------------
(* observe_membership. *)

OldKey(subject) == IF subject = "bot" THEN botRow.key ELSE memberRow[subject].key

BotGeneration(present) ==
    IF botRow.key = 0 \/ botRow.present # present THEN botRow.generation + 1 ELSE botRow.generation

\* Mutant of MemberGeneration: a late report counts for the present generation.
MemberGenerationNow(k) == botRow.generation

\* A report from before the bot's last one belongs to the generation before.
MemberGeneration(k) ==
    IF k < botRow.key /\ botRow.generation > 0 THEN botRow.generation - 1 ELSE botRow.generation

ObserveBot(k) ==
    /\ botRow' = [key |-> k, present |-> events[k].present, generation |-> BotGeneration(events[k].present)]
    /\ groupRow' = IF groupRow = "none" /\ events[k].present THEN "disabled" ELSE groupRow
    /\ applied' = applied \cup {k}
    /\ UNCHANGED <<memberRow, registered, since>>

ObserveUser(k) ==
    LET u == events[k].subject IN
    /\ groupRow # "none"
    /\ memberRow' = [memberRow EXCEPT ![u] =
           [key |-> k, present |-> events[k].present,
            generation |-> MemberGeneration(k), tag |-> events[k].tag]]
    /\ registered' = registered \cup {u}
    /\ since' = since \cup {u}
    /\ applied' = applied \cup {k}
    /\ UNCHANGED <<botRow, groupRow>>

\* Stale, duplicate, suppressed, or of a group nobody knows: only the contact is noted.
Ignored(k) ==
    \/ suppressed \/ k <= OldKey(events[k].subject)
    \/ groupRow = "none" /\ events[k].subject # "bot"

ObserveMembership(k) ==
    /\ Deliverable(k) /\ seen' = seen \cup {k}
    /\ IF Ignored(k) THEN UNCHANGED <<observations, groupRow>>
       ELSE IF events[k].subject = "bot" THEN ObserveBot(k) ELSE ObserveUser(k)
    /\ UNCHANGED <<events, suppressed, deletions, grantVars>>

---------------------------------------------------------------------------
(* Groups. *)

\* group_create, enabled by an administrator's update; creation ends the suppression.
GroupCreate ==
    /\ groupRow = "none" /\ groupRow' = "enabled" /\ suppressed' = FALSE
    /\ UNCHANGED <<events, seen, deletions, observations, grantVars>>

GroupUpdate ==
    /\ groupRow # "none" /\ groupRow' = IF groupRow = "enabled" THEN "disabled" ELSE "enabled"
    /\ UNCHANGED <<events, seen, suppressed, deletions, observations, grantVars>>

\* Mutant of GroupDelete: the rows of the members are left current.
GroupDeleteUnfenced ==
    /\ groupRow # "none" /\ deletions < MaxDeletions
    /\ groupRow' = "none" /\ suppressed' = TRUE /\ deletions' = deletions + 1
    /\ since' = {}
    /\ UNCHANGED <<events, seen, applied, botRow, memberRow, registered, grantVars>>

\* Suppression, and a new generation for whoever comes back.
GroupDelete ==
    /\ groupRow # "none" /\ deletions < MaxDeletions
    /\ groupRow' = "none" /\ suppressed' = TRUE /\ deletions' = deletions + 1
    /\ botRow' = IF botRow = NoBot THEN NoBot ELSE [botRow EXCEPT !.generation = @ + 1]
    /\ since' = {}
    /\ UNCHANGED <<events, seen, applied, memberRow, registered, grantVars>>

---------------------------------------------------------------------------
(* Permissions. *)

\* membership_active_tags
ActiveTag(u) ==
    LET r == memberRow[u] IN
    /\ groupRow = "enabled" /\ ~suppressed
    /\ r.present /\ r.tag /\ botRow.present
    /\ r.generation = botRow.generation

AutomaticGrant(u) == ActiveTag(u) /\ mapped /\ u \notin muted
Granted(u) == stored[u] \in {"manual", "tag"} \/ AutomaticGrant(u)

\* Administrators do not decide over what a tag gives.
MayDecide(actor, u) ==
    \/ actor = "owner"
    \/ /\ actor = "admin" /\ stored[u] # "tag"
       /\ stored[u] = "none" => ~AutomaticGrant(u)

\* A grant ends the suppression.
AdminGrantPermission(actor, u) ==
    /\ u \in registered /\ MayDecide(actor, u)
    /\ muted' = muted \ {u} /\ stored' = [stored EXCEPT ![u] = "manual"] /\ revoked' = revoked \ {u}
    /\ UNCHANGED <<events, seen, memberGroupVars, observations, mapped>>

\* The owner's revocation outlives the row.
AdminRevokePermission(actor, u) ==
    /\ u \in registered /\ MayDecide(actor, u)
    /\ IF actor = "owner"
       THEN muted' = muted \cup {u} /\ revoked' = revoked \cup {u}
       ELSE UNCHANGED <<muted, revoked>>
    /\ stored' = [stored EXCEPT ![u] = "none"]
    /\ UNCHANGED <<events, seen, memberGroupVars, observations, mapped>>

\* expires_at of a manual grant passes.
PermissionExpires(u) ==
    /\ stored[u] = "manual" /\ stored' = [stored EXCEPT ![u] = "expired"]
    /\ UNCHANGED <<events, seen, memberGroupVars, observations, mapped, muted, revoked>>

AdminUpdateTagMap ==
    /\ mapped' = ~mapped
    /\ UNCHANGED <<events, seen, memberGroupVars, observations, muted, stored, revoked>>

MembershipInit ==
    /\ events = <<>> /\ seen = {} /\ applied = {}
    /\ groupRow \in {"none", "enabled"} /\ suppressed = FALSE /\ deletions = 0
    /\ botRow = NoBot /\ memberRow = [u \in Users |-> NoMember]
    /\ registered = {} /\ since = {} /\ mapped = TRUE /\ muted = {} /\ revoked = {}
    /\ stored \in [Users -> {"none", "tag"}]

MembershipNext ==
    \/ \E subject \in Users \cup {"bot"}, present, tag \in BOOLEAN : Happen(subject, present, tag)
    \/ \E k \in 1..Len(events) : ObserveMembership(k)
    \/ GroupCreate \/ GroupUpdate \/ GroupDelete
    \/ \E actor \in {"owner", "admin"}, u \in Users :
           AdminGrantPermission(actor, u) \/ AdminRevokePermission(actor, u)
    \/ \E u \in Users : PermissionExpires(u)
    \/ AdminUpdateTagMap

-----------------------------------------------------------------------------
(* Scopes. *)

KnownScopes == {"users:read", "groups:read", "events:read", "events:write", "health:read"}

Wildcards == {"users:*", "groups:*", "events:*", "health:*", "other:*"}

\* valid_scope: a wildcard of any namespace is valid.
ValidScope(s) == s \in {"*"} \cup Wildcards \cup KnownScopes

RequiredScope(op) ==
    CASE op = "status" -> "health:read"
      [] op = "users" -> "users:read"
      [] op = "groups" -> "groups:read"
      [] op = "events" -> "events:read"
      [] op = "event" -> "events:write"

Namespace(op) ==
    CASE op = "status" -> "health:*"
      [] op = "users" -> "users:*"
      [] op = "groups" -> "groups:*"
      [] op \in {"events", "event"} -> "events:*"

\* has_scope
HasScope(scopes, op) ==
    \/ "*" \in scopes
    \/ RequiredScope(op) \in scopes
    \/ Namespace(op) \in scopes

-----------------------------------------------------------------------------
(* Administration. *)

\* api_key_create: authority and scopes are checked inside the transaction.  No
\* scopes at all mean every scope.
CreateKey(a, k, scopes, expires) ==
    /\ a \in admins
    /\ ~keys[k].there
    /\ \A s \in scopes : ValidScope(s)
    /\ keys' = [keys EXCEPT ![k] = [Absent EXCEPT !.there = TRUE, !.expires = expires,
                                                   !.scopes = scopes]]
    /\ UNCHANGED <<admins, keyClock, calls, eventLog, serviceReady>>

\* api_key_revoke, which may be repeated
RevokeKey(a, k) ==
    /\ a \in admins
    /\ keys[k].there
    /\ keys' = [keys EXCEPT ![k].revoked = TRUE,
                            ![k].revokedAt = IF keys[k].revoked THEN @ ELSE keyClock]
    /\ UNCHANGED <<admins, keyClock, calls, eventLog, serviceReady>>

\* A creator's later role change leaves the keys as they are.
AdminLeaves(a) ==
    /\ a \in admins
    /\ admins' = admins \ {a}
    /\ UNCHANGED <<keys, keyClock, calls, eventLog, serviceReady>>

-----------------------------------------------------------------------------
(* Machines. *)

\* Mutant: a key lives through the second of its expiry.
LiveThrough(k) == keys[k].there /\ ~keys[k].revoked
                    /\ (keys[k].expires = Never \/ keys[k].expires >= keyClock)

\* m2m_authenticate: revoked or expired means no key.
Live(k) == keys[k].there /\ ~keys[k].revoked
             /\ (keys[k].expires = Never \/ keys[k].expires > keyClock)

\* readiness_and_no_store: no request enters before the service is serviceReady.
CallArrives(c, k, op) ==
    /\ calls[c].at = "idle"
    /\ calls' = [calls EXCEPT ![c] = [at |-> IF serviceReady THEN "sent" ELSE "refused",
                                      key |-> k, op |-> op]]
    /\ UNCHANGED <<keys, admins, keyClock, eventLog, serviceReady>>

\* key of yoink-http: the use is recorded before the scope is looked at.
AuthenticateKey(c) ==
    LET k == calls[c].key
    IN  /\ calls[c].at = "sent"
        /\ keys' = IF Live(k) THEN [keys EXCEPT ![k].used = keyClock] ELSE keys
        /\ calls' = [calls EXCEPT ![c].at =
                       CASE ~Live(k) -> "unauthorized"
                         [] Live(k) /\ ~HasScope(keys[k].scopes, calls[c].op) -> "forbidden"
                         [] OTHER -> "allowed"]
        /\ UNCHANGED <<admins, keyClock, eventLog, serviceReady>>

\* m2m_event_create
RecordEvent(c) ==
    /\ calls[c].at = "allowed" /\ calls[c].op = "event"
    /\ eventLog' = Append(eventLog, c)
    /\ calls' = [calls EXCEPT ![c].at = "served"]
    /\ UNCHANGED <<keys, admins, keyClock, serviceReady>>

\* status, users, user and groups read a snapshot.
AnswerRead(c) ==
    /\ calls[c].at = "allowed" /\ calls[c].op \in {"status", "users", "groups"}
    /\ calls' = [calls EXCEPT ![c].at = "served"]
    /\ UNCHANGED <<keys, admins, keyClock, eventLog, serviceReady>>

\* m2m_events
AnswerEvents(c) ==
    /\ calls[c].at = "allowed" /\ calls[c].op = "events"
    /\ calls' = [calls EXCEPT ![c].at = "served"]
    /\ UNCHANGED <<keys, admins, keyClock, eventLog, serviceReady>>

\* A bad query or body is refused after the key was accepted.
BadQuery(c) ==
    /\ calls[c].at = "allowed"
    /\ calls' = [calls EXCEPT ![c].at = "refused"]
    /\ UNCHANGED <<keys, admins, keyClock, eventLog, serviceReady>>

KeyClockTicks ==
    /\ keyClock < MaxKeyClock
    /\ keyClock' = keyClock + 1
    /\ UNCHANGED <<keys, admins, calls, eventLog, serviceReady>>

BecomesReady ==
    /\ ~serviceReady /\ serviceReady' = TRUE
    /\ UNCHANGED <<keys, admins, keyClock, calls, eventLog>>

-----------------------------------------------------------------------------

KeysInit ==
    /\ keys = [k \in Keys |-> Absent]
    /\ admins = Admins
    /\ keyClock = 0
    /\ calls = [c \in Calls |-> Idle]
    /\ eventLog = <<>>
    /\ serviceReady = FALSE
    /\ good = [c \in Calls |-> FALSE]

KeysStep ==
    \/ \E a \in Admins, k \in Keys, scopes \in ScopeSets, expires \in {Never} \cup 0 .. MaxKeyClock :
          CreateKey(a, k, scopes, expires)
    \/ \E a \in Admins, k \in Keys : RevokeKey(a, k)
    \/ \E a \in Admins : AdminLeaves(a)
    \/ \E c \in Calls, k \in Keys, op \in Ops : CallArrives(c, k, op)
    \/ \E c \in Calls : AuthenticateKey(c)
    \/ \E c \in Calls : RecordEvent(c)
    \/ \E c \in Calls : AnswerRead(c)
    \/ \E c \in Calls : AnswerEvents(c)
    \/ \E c \in Calls : BadQuery(c)
    \/ KeyClockTicks
    \/ BecomesReady

\* What an administrator would say of a request's key, whatever the code checks.
Entitled(row, time, op) ==
    /\ row.there /\ ~row.revoked
    /\ row.expires # Never => time < row.expires
    /\ \E s \in row.scopes : s = "*" \/ s = RequiredScope(op) \/ s = Namespace(op)

KeysNext ==
    /\ KeysStep
    /\ good' = [c \in Calls |->
                  \/ calls[c].at # "idle" /\ good[c]
                  \/ calls'[c].at # "idle"
                       /\ Entitled(keys'[calls'[c].key], keyClock', calls'[c].op)]

GrantsInit == MembershipInit /\ KeysInit

\* Groups and keys have nothing in common but whom they let in.
GrantsNext ==
    \/ MembershipNext /\ UNCHANGED keyVars
    \/ KeysNext /\ UNCHANGED membershipVars

GrantsSpec == GrantsInit /\ [][GrantsNext]_grantsVars

-----------------------------------------------------------------------------
(* Properties. *)

MembershipTypeOK ==
    /\ groupRow \in {"none", "disabled", "enabled"} /\ suppressed \in BOOLEAN
    /\ botRow.generation \in 0..(MaxEvents + MaxDeletions)
    /\ \A u \in Users : memberRow[u].key \in 0..MaxEvents /\ memberRow[u].generation <= botRow.generation
    /\ suppressed => groupRow = "none"

KeysTypeOK ==
    /\ \A k \in Keys : /\ keys[k].used \in -1 .. MaxKeyClock
                       /\ \A s \in keys[k].scopes : ValidScope(s)
    /\ admins \subseteq Admins
    /\ keyClock \in 0 .. MaxKeyClock
    /\ \A c \in Calls : calls[c].at \in {"idle", "sent", "allowed", "served", "refused",
                                         "unauthorized", "forbidden"}
    /\ eventLog \in Seq(Calls)
    /\ serviceReady \in BOOLEAN /\ good \in [Calls -> BOOLEAN]

\* A tag gives a feature only on the word of a report in which the user is present with
\* the tag, that no departure of the bot the database knows of follows, and that was
\* taken in after the group was last deleted; and what the owner revoked stays revoked,
\* whatever is reported, until somebody grants it again.
GrantsAreLive ==
    \A u \in Users :
        /\ ActiveTag(u) =>
               /\ events[memberRow[u].key].present /\ events[memberRow[u].key].tag
               /\ \A k \in applied :
                      events[k].subject = "bot" /\ ~events[k].present => k < memberRow[u].key
               /\ u \in since
        /\ u \in revoked => ~Granted(u)

\* A request that is served, and an event that is on record, came with a key that
\* was live and had the scope at some moment since the request arrived; and a key
\* that was refused shows no use: its last use lies before its expiry and not after
\* its revocation (m2m_authenticate, key, m2m_event_create).
KeysGovern ==
    /\ \A c \in Calls : calls[c].at \in {"allowed", "served"} => good[c]
    /\ \A n \in DOMAIN eventLog : good[eventLog[n]] /\ calls[eventLog[n]].op = "event"
    /\ \A k \in Keys : /\ keys[k].expires # Never => keys[k].used < keys[k].expires
                       /\ keys[k].revokedAt # Never => keys[k].used <= keys[k].revokedAt

\* Nobody is let in who may not be: a grant of a group ends with the membership,
\* the deletion or the revocation it rests on, and a key answers only what its
\* scopes, its expiry and its revocation allow (membership.rs, api_keys.rs).
GrantsGovern == MembershipTypeOK /\ GrantsAreLive /\ KeysTypeOK /\ KeysGovern
=============================================================================
