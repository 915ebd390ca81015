---------------------------- MODULE StatsCommands ---------------------------
(***************************************************************************)
(* The /stats command (yoink-telegram/stats_runtime.rs, yoink-stats:       *)
(* commands.rs, lib.rs).  A command's answer is computed once, stored as a *)
(* manifest with one text effect per part, and sent part by part; the same *)
(* update may be handled again after a crash.  Roles are local, membership *)
(* is looked up at Telegram.  One command of one actor about one group.    *)
(***************************************************************************)
EXTENDS Naturals, Sequences

CONSTANTS
    Handlings,     \* handlings of the update: the first and its replays
    Parts,         \* parts of the answer
    MaxRecounts,   \* bound: changes of what the answer is computed from
    MaxRulings,    \* bound: changes of the actor's role and membership
    MaxRestarts    \* bound: crashes

\* What the constants of an instance satisfy.
CommandsAssumption ==
    Parts \in Nat \ {0} /\ MaxRecounts \in Nat /\ MaxRulings \in Nat /\ MaxRestarts \in Nat

VARIABLES
    counts,      \* version of the recorded messages
    standing,    \* the actor: "admin", "user" or "blocked"
    belongs,     \* Telegram: the actor is a member of the group
    rulings, restarts,
    manifest,    \* version of the stored answer, 0 for none
    parts,       \* outcome of each part's text effect
    handling,
    posted       \* what the chat shows: part, version and whether the actor could have it

stable == <<counts, standing, belongs, rulings, restarts>>
commandVars == <<stable, manifest, parts, handling, posted>>

NoHandling == [phase |-> "idle", version |-> 0, member |-> FALSE, part |-> 1, lawful |-> FALSE]

CommandsTypeOK ==
    /\ manifest \in 0..counts /\ parts \in [1..Parts -> {"none", "prepared", "started", "confirmed", "failed"}]
    /\ \A h \in Handlings :
           /\ handling[h].phase \in {"idle", "compute", "preflight", "prepare", "part", "lookup", "admit",
                                     "send", "settle", "done"}
           /\ handling[h].version \in 0..counts /\ handling[h].part \in 1..(Parts + 1)
    /\ manifest = 0 <=> \A p \in 1..Parts : parts[p] = "none"

Set(h, record) == handling' = [handling EXCEPT ![h] = record]
At(h, phase) == handling[h].phase = phase
Goto(h, phase) == Set(h, [handling[h] EXCEPT !.phase = phase])

---------------------------------------------------------------------------
(* Surroundings. *)

Recount ==
    /\ counts <= MaxRecounts /\ counts' = counts + 1
    /\ UNCHANGED <<standing, belongs, rulings, restarts, manifest, parts, handling, posted>>

Rule(new, member) ==
    /\ rulings < MaxRulings /\ rulings' = rulings + 1
    /\ standing' = new /\ belongs' = member
    /\ UNCHANGED <<counts, restarts, manifest, parts, handling, posted>>

---------------------------------------------------------------------------
(* Authority. *)

\* role and authorize: an administrator needs no membership.
Lookup == standing # "blocked" /\ (standing = "admin" \/ belongs)

\* command_authority_on: the role inside the transaction, the membership as looked up.
Authorized(h) == standing # "blocked" /\ (standing = "admin" \/ handling[h].member)

---------------------------------------------------------------------------
(* command_snapshot. *)

\* A stored manifest is used as it is.
StartHandling(h) ==
    /\ At(h, "idle")
    /\ Set(h, IF manifest # 0 THEN [handling[h] EXCEPT !.phase = "part", !.version = manifest]
              ELSE [handling[h] EXCEPT !.phase = "compute"])
    /\ UNCHANGED <<stable, manifest, parts, posted>>

\* command_result; a refusal ends the command.
Compute(h) ==
    /\ At(h, "compute")
    /\ Set(h, IF Lookup THEN [handling[h] EXCEPT !.phase = "preflight", !.version = counts]
              ELSE [handling[h] EXCEPT !.phase = "done"])
    /\ UNCHANGED <<stable, manifest, parts, posted>>

\* command_preflight asks Telegram before the transaction.
Preflight(h) ==
    /\ handling[h].phase \in {"preflight", "lookup"}
    /\ Set(h, IF Lookup
              THEN [handling[h] EXCEPT !.member = belongs, !.phase = IF @ = "lookup" THEN "admit" ELSE "prepare"]
              ELSE [handling[h] EXCEPT !.phase = "done"])
    /\ UNCHANGED <<stable, manifest, parts, posted>>

\* The manifest and every part are prepared in one transaction.
PrepareManifest(h) ==
    /\ At(h, "prepare")
    /\ IF manifest # 0
       THEN /\ Set(h, [handling[h] EXCEPT !.phase = "part", !.version = manifest])
            /\ UNCHANGED <<manifest, parts>>
       ELSE IF Authorized(h)
       THEN /\ manifest' = handling[h].version /\ parts' = [p \in 1..Parts |-> "prepared"]
            /\ Goto(h, "part")
       ELSE Goto(h, "done") /\ UNCHANGED <<manifest, parts>>
    /\ UNCHANGED <<stable, posted>>

---------------------------------------------------------------------------
(* The parts, in order. *)

\* A part whose outcome is known is passed over when confirmed and ends the command otherwise.
NextPart(h) ==
    /\ At(h, "part")
    /\ LET p == handling[h].part IN
       Set(h, IF p > Parts THEN [handling[h] EXCEPT !.phase = "done"]
              ELSE IF parts[p] = "prepared" THEN [handling[h] EXCEPT !.phase = "lookup"]
              ELSE IF parts[p] = "confirmed" THEN [handling[h] EXCEPT !.part = p + 1]
              ELSE [handling[h] EXCEPT !.phase = "done"])
    /\ UNCHANGED <<stable, manifest, parts, posted>>

\* Mutant of Unsent: the state read before the transaction is trusted.
UnsentBefore(h) == TRUE

\* text_effect_on in the transaction
Unsent(h) == parts[handling[h].part] = "prepared"

\* begin_text in the transaction that checks the authority.
AdmitPart(h) ==
    /\ At(h, "admit")
    /\ IF ~Unsent(h)
       THEN Goto(h, "part") /\ UNCHANGED parts
       ELSE IF Authorized(h)
       THEN /\ Set(h, [handling[h] EXCEPT !.phase = "send", !.lawful = standing # "blocked"])
            /\ parts' = [parts EXCEPT ![handling[h].part] = "started"]
       ELSE Goto(h, "done") /\ UNCHANGED parts
    /\ UNCHANGED <<stable, manifest, posted>>

\* The message reaches the chat, or is refused.
SendPart(h, reaches) ==
    /\ At(h, "send")
    /\ posted' = IF reaches THEN Append(posted, <<handling[h].part, handling[h].version, handling[h].lawful>>) ELSE posted
    /\ IF reaches THEN Goto(h, "settle") /\ UNCHANGED parts
       ELSE Goto(h, "done") /\ parts' = [parts EXCEPT ![handling[h].part] = "failed"]
    /\ UNCHANGED <<stable, manifest>>

SettlePart(h) ==
    /\ At(h, "settle")
    /\ parts' = [parts EXCEPT ![handling[h].part] = "confirmed"]
    /\ Set(h, [handling[h] EXCEPT !.phase = "part", !.part = @ + 1])
    /\ UNCHANGED <<stable, manifest, posted>>

\* A crash: the update is handled again.
RestartCommands ==
    /\ restarts < MaxRestarts /\ restarts' = restarts + 1
    /\ handling' = [h \in Handlings |-> NoHandling]
    /\ UNCHANGED <<counts, standing, belongs, rulings, manifest, parts, posted>>

CommandsInit ==
    /\ counts = 1 /\ standing = "user" /\ belongs = TRUE /\ rulings = 0 /\ restarts = 0
    /\ manifest = 0 /\ parts = [p \in 1..Parts |-> "none"]
    /\ handling = [h \in Handlings |-> NoHandling] /\ posted = <<>>

CommandsNext ==
    \/ Recount \/ RestartCommands
    \/ \E new \in {"admin", "user", "blocked"}, member \in BOOLEAN : Rule(new, member)
    \/ \E h \in Handlings :
           \/ StartHandling(h) \/ Compute(h) \/ Preflight(h) \/ PrepareManifest(h)
           \/ NextPart(h) \/ AdmitPart(h) \/ SettlePart(h)
           \/ \E reaches \in BOOLEAN : SendPart(h, reaches)

CommandsSpec == CommandsInit /\ [][CommandsNext]_commandVars

---------------------------------------------------------------------------
(* Properties. *)

\* The chat shows the parts of one answer, in order and each once, however often the
\* update is handled and whatever is recorded meanwhile, and no part that was let through
\* while its actor was blocked.
OneAnswerPerCommand ==
    \A i \in 1..Len(posted) : posted[i] = <<i, manifest, TRUE>>
=============================================================================
