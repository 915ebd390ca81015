--------------------------- MODULE StatsIngestion ---------------------------
(***************************************************************************)
(* What Stats knows of the people of a group (yoink-stats/ingestion.rs and *)
(* the triggers of sql/native.sql).  Updates are taken in one transaction  *)
(* each, late and repeated ones included; a roster synchronization and the *)
(* hourly refresh of names read Telegram over several requests and write   *)
(* what they read in a transaction of their own.  One bot, one group and   *)
(* one user, whose presence and name carry version numbers.                *)
(***************************************************************************)
EXTENDS Naturals, Sequences

CONSTANTS
    Readers,     \* runs of sync_members and of refresh_usernames that get as far as writing
    MaxUpdates,  \* bound: updates Telegram reports
    MaxRenames,  \* bound: renames that no update reports
    MaxSeconds   \* bound: seconds that pass

\* What the constants of an instance satisfy.
IngestionAssumption ==
    MaxUpdates \in Nat /\ MaxRenames \in Nat /\ MaxSeconds \in Nat

VARIABLES
    second,     \* the clock of Telegram and of the server
    presence,   \* version of the user's true presence in the group
    title,      \* version of the user's true name
    began,      \* the true name at the start of each second (an observer)
    updates,    \* reported so far; the index is the update id
    enabled,    \* groups.enabled
    taken,      \* updates processed while the group was enabled
    counted,    \* the member and name observations the watermarks let in (an observer)
    memberSeen, \* version in stats_group_members
    nameSeen,   \* version in stats_user_latest_name, 0 for none
    marks,      \* stats_ingestion_watermarks per kind: the last counted update
    floors,     \* stats_roster_floors and refresh_floor
    revision,   \* stats_runtime_revision
    subject,    \* stats_subject_revisions per kind
    fence,      \* stats_refresh_fences
    readers     \* the synchronizations and refreshes

world == <<second, presence, title, began, updates>>
people == <<memberSeen, nameSeen, marks, floors, revision, subject, fence, counted>>
ingestionVars == <<world, enabled, taken, people, readers>>

Kinds == {"member", "name"}
NotReading == [phase |-> "idle", kind |-> "name", started |-> 0, floor |-> 0, presence |-> 0, title |-> 0]

IngestionTypeOK ==
    /\ memberSeen \in 0..presence /\ nameSeen \in 0..title
    /\ taken \subseteq 1..Len(updates)
    /\ \A kind \in Kinds : marks[kind] \in 0..Len(updates) /\ floors[kind] \in 0..second
                           /\ subject[kind] \in 0..revision
    /\ fence \in 0..revision
    /\ \A r \in Readers : readers[r].phase \in {"idle", "started", "read", "done"}
                          /\ readers[r].started <= revision

---------------------------------------------------------------------------
(* Telegram. *)

Report(kind) ==
    updates' = Append(updates, [kind |-> kind, presence |-> presence', title |-> title, date |-> second])

\* The user joins or leaves: a chat_member update.
MoveUser ==
    /\ Len(updates) < MaxUpdates /\ presence' = presence + 1 /\ Report("member")
    /\ UNCHANGED <<second, title, began, enabled, taken, people, readers>>

\* A message, with the name its author has at that time.
PostMessage ==
    /\ Len(updates) < MaxUpdates /\ UNCHANGED presence /\ Report("message")
    /\ UNCHANGED <<second, title, began, enabled, taken, people, readers>>

RenameUser ==
    /\ title <= MaxRenames /\ title' = title + 1
    /\ UNCHANGED <<second, presence, began, updates, enabled, taken, people, readers>>

SecondPasses ==
    /\ second < MaxSeconds /\ second' = second + 1 /\ began' = Append(began, title)
    /\ UNCHANGED <<presence, title, updates, enabled, taken, people, readers>>

SetEnabled ==
    /\ enabled' = ~enabled
    /\ UNCHANGED <<world, taken, people, readers>>

---------------------------------------------------------------------------
(* observe_raw_update. *)

\* watermark: one bot, so the later date wins, then the later update.
Fresh(kind, k) ==
    LET old == marks[kind] IN
    \/ old = 0
    \/ updates[k].date > updates[old].date
    \/ updates[k].date = updates[old].date /\ k > old

MemberCounts(k) ==
    /\ updates[k].kind = "member"
    /\ ~(floors["member"] > updates[k].date) /\ Fresh("member", k)

\* Mutant of NameCounts: a name sent before the last refresh began still counts.
NameCountsAnyTime(k) ==
    (updates[k].kind = "member" \/ k \notin taken) /\ Fresh("name", k)

\* A message that was already recorded is not looked at again.
NameCounts(k) ==
    /\ updates[k].kind = "member" \/ k \notin taken
    /\ ~(updates[k].date < floors["name"]) /\ Fresh("name", k)

\* Every counted observation moves the revision and the subject's, by the triggers.
Observe(k) ==
    LET counts == {kind \in Kinds : IF kind = "member" THEN MemberCounts(k) ELSE NameCounts(k)} IN
    /\ marks' = [kind \in Kinds |-> IF kind \in counts THEN k ELSE marks[kind]]
    /\ revision' = IF counts = {} THEN revision ELSE revision + 1
    /\ subject' = [kind \in Kinds |-> IF kind \in counts THEN revision + 1 ELSE subject[kind]]
    /\ memberSeen' = IF "member" \in counts THEN updates[k].presence ELSE memberSeen
    /\ nameSeen' = IF "name" \in counts THEN updates[k].title ELSE nameSeen
    /\ counted' = [kind \in Kinds |-> IF kind \in counts THEN counted[kind] \cup {k} ELSE counted[kind]]
    /\ UNCHANGED <<floors, fence>>

ObserveRawUpdate(k) ==
    /\ IF enabled THEN Observe(k) /\ taken' = taken \cup {k} ELSE UNCHANGED <<people, taken>>
    /\ UNCHANGED <<world, enabled, readers>>

---------------------------------------------------------------------------
(* sync_members and refresh_usernames. *)

\* The revision and the second are noted before the first request.
StartReading(r, kind) ==
    /\ readers[r].phase = "idle"
    /\ readers' = [readers EXCEPT ![r] =
           [NotReading EXCEPT !.phase = "started", !.kind = kind, !.started = revision, !.floor = second]]
    /\ UNCHANGED <<world, enabled, taken, people>>

\* get_chat_members page by page, or lookup_name.
ReadTelegram(r) ==
    /\ readers[r].phase = "started"
    /\ readers' = [readers EXCEPT ![r].phase = "read", ![r].presence = presence, ![r].title = title]
    /\ UNCHANGED <<world, enabled, taken, people>>

\* An incomplete roster, a lost permission, or no name found.
ReadingFails(r) ==
    /\ readers[r].phase \in {"started", "read"}
    /\ readers' = [readers EXCEPT ![r] = NotReading]
    /\ UNCHANGED <<world, enabled, taken, people>>

\* Mutant of Untouched: what changed since the reading began is overwritten.
UntouchedAlways(kind, r) == TRUE

\* unchanged
Untouched(kind, r) == subject[kind] <= readers[r].started

Later(a, b) == IF a > b THEN a ELSE b

\* refreshed_name: the revision moves even when the name is the one stored.
RefreshedName(r, counts) ==
    /\ nameSeen' = IF counts THEN readers[r].title ELSE nameSeen
    /\ subject' = [kind \in Kinds |->
           IF kind = "name"
           THEN IF counts THEN revision' ELSE subject["name"]
           ELSE IF readers[r].kind = "member" /\ Untouched("member", r) THEN revision' ELSE subject["member"]]

\* A name is refreshed when the user is there and nothing was observed meanwhile.
ApplyNames(r) ==
    /\ readers[r].kind = "name" /\ readers[r].phase = "read"
    /\ revision' = IF Untouched("name", r) THEN revision + 1 ELSE revision
    /\ RefreshedName(r, Untouched("name", r))
    /\ floors' = IF Untouched("name", r)
                 THEN [floors EXCEPT !["name"] = Later(@, readers[r].floor)] ELSE floors
    /\ readers' = [readers EXCEPT ![r].phase = "done"]
    /\ UNCHANGED <<world, enabled, taken, memberSeen, marks, fence, counted>>

\* Members that changed since are kept; the floor of the group advances for all of them.
\* Presence versions are odd for a user who is in the group.
ApplyRoster(r) ==
    LET names == readers[r].presence % 2 = 1 /\ Untouched("member", r) /\ Untouched("name", r) IN
    /\ readers[r].kind = "member" /\ readers[r].phase = "read"
    /\ fence <= readers[r].started
    /\ memberSeen' = IF Untouched("member", r) THEN readers[r].presence ELSE memberSeen
    /\ revision' = revision + 1
    /\ RefreshedName(r, names)
    /\ floors' = [kind \in Kinds |->
           IF kind = "member" \/ names THEN Later(floors[kind], readers[r].floor) ELSE floors[kind]]
    /\ fence' = revision'
    /\ readers' = [readers EXCEPT ![r].phase = "done"]
    /\ UNCHANGED <<world, enabled, taken, marks, counted>>

\* A newer roster was committed meanwhile.
RosterOvertaken(r) ==
    /\ readers[r].kind = "member" /\ readers[r].phase = "read" /\ fence > readers[r].started
    /\ readers' = [readers EXCEPT ![r].phase = "done"]
    /\ UNCHANGED <<world, enabled, taken, people>>

IngestionInit ==
    /\ second = 1 /\ presence = 0 /\ title = 1 /\ began = <<1>> /\ updates = <<>>
    /\ enabled = TRUE /\ taken = {} /\ counted = [kind \in Kinds |-> {}]
    /\ memberSeen = 0 /\ nameSeen = 0
    /\ marks = [kind \in Kinds |-> 0] /\ floors = [kind \in Kinds |-> 0]
    /\ revision = 0 /\ subject = [kind \in Kinds |-> 0] /\ fence = 0
    /\ readers = [r \in Readers |-> NotReading]

IngestionNext ==
    \/ MoveUser \/ PostMessage \/ RenameUser \/ SecondPasses \/ SetEnabled
    \/ \E k \in 1..Len(updates) : ObserveRawUpdate(k)
    \/ \E r \in Readers :
           \/ \E kind \in Kinds : StartReading(r, kind)
           \/ ReadTelegram(r) \/ ReadingFails(r)
           \/ ApplyNames(r) \/ ApplyRoster(r) \/ RosterOvertaken(r)

IngestionSpec == IngestionInit /\ [][IngestionNext]_ingestionVars

---------------------------------------------------------------------------
(* Properties. *)

\* What was read from Telegram before an update never undoes that update, and an update
\* that comes late or twice never undoes a newer one: neither the presence nor the name
\* shown is older than any observation that was counted, and once a refresh of names has
\* been stored the name is one the user still had in the second the refresh began.
ObservationsStand ==
    /\ \A k \in counted["member"] : memberSeen >= updates[k].presence
    /\ \A k \in counted["name"] : nameSeen >= updates[k].title
    /\ floors["name"] > 0 => nameSeen >= began[floors["name"]]

\* Expected to fail.  Updates count in Telegram's order ("Canonical Telegram ordering",
\* sql/native.sql:1): when every update was processed, the stored presence is the last
\* one reported.
RosterConverges == taken = 1..Len(updates) => memberSeen = presence
=============================================================================
