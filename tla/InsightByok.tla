---------------------------- MODULE InsightByok ----------------------------
(***************************************************************************)
(* A user's own provider key (yoink-insight management.rs): saving and     *)
(* probing call the provider between two visits of the database, while     *)
(* other calls replace, clear or delete the key.  The provider is          *)
(* external: it accepts or rejects a key, and may change its mind.         *)
(*                                                                         *)
(* A key is a number; a saved row is the key, the model and updated_at.    *)
(***************************************************************************)
EXTENDS Naturals

CONSTANTS
    Calls,      \* calls of save_byok, probe_byok and test_byok_input over time
    Models,     \* models the user may name
    MaxByokWrites  \* bound: writes of the row (each has its own updated_at)

\* What the constants of an instance satisfy.
ByokAssumption == MaxByokWrites \in Nat

VARIABLES
    byok,       \* insight_user_byok: [key, model, updated, tested, error], key 0: none
    call,       \* the calls: [pc, kind, key, model, snapshot, ok]
    nextKey,    \* the next key the user types in
    writes,
    accepted,   \* <<key, model>> pairs a probe accepted
    discarded,  \* keys that were deleted, cleared or replaced
    mayManage,  \* byok is enabled for the user
    shownFor    \* rows whose probe result was shown as current: <<row, key>>

byokVars == <<byok, call, nextKey, writes, accepted, discarded, mayManage, shownFor>>

NoKey == [key |-> 0, model |-> "none", updated |-> 0, tested |-> FALSE, error |-> FALSE]
Empty == 0
NoCall == [pc |-> "idle", kind |-> "save", key |-> 0, model |-> "none", snapshot |-> NoKey, ok |-> FALSE]
Stored == byok # NoKey

ByokTypeOK == byok.updated \in 0..MaxByokWrites /\ byok.tested \in BOOLEAN /\ discarded \subseteq 1..nextKey

\* byok_revision: everything but the result of the last test.
Revision(row) == [key |-> row.key, model |-> row.model, updated |-> row.updated]

Replaced(key) == IF byok.key \in {0, key} THEN discarded ELSE discarded \cup {byok.key}

---------------------------------------------------------------------------
(* save_byok_with_cancel: a new key, or the stored one with another model. *)

BeginSave(c, model, typed) ==
    /\ call[c].pc = "idle" /\ mayManage
    /\ typed \/ byok.key # 0
    /\ call' = [call EXCEPT ![c] = [NoCall EXCEPT !.pc = "call", !.model = model, !.snapshot = byok,
                                        !.key = IF typed THEN nextKey ELSE byok.key]]
    /\ nextKey' = IF typed THEN nextKey + 1 ELSE nextKey
    /\ UNCHANGED <<byok, writes, accepted, discarded, mayManage, shownFor>>

\* probe_byok reads the row; test_byok_input probes a typed key or the stored one.
BeginProbe(c, kind) ==
    /\ call[c].pc = "idle" /\ mayManage /\ byok.key # 0
    /\ call' = [call EXCEPT ![c] = [NoCall EXCEPT !.pc = "call", !.kind = kind, !.key = byok.key,
                                        !.model = byok.model, !.snapshot = byok]]
    /\ UNCHANGED <<byok, nextKey, writes, accepted, discarded, mayManage, shownFor>>

\* catalogue_call
ProviderAnswers(c) ==
    /\ call[c].pc = "call"
    /\ \E ok \in BOOLEAN :
           /\ call' = [call EXCEPT ![c].pc = "store", ![c].ok = ok]
           /\ accepted' = IF ok THEN accepted \cup {<<call[c].key, call[c].model>>} ELSE accepted
    /\ UNCHANGED <<byok, nextKey, writes, discarded, mayManage, shownFor>>

\* Cancelled or timed out by its caller.
GiveUp(c) ==
    /\ call[c].pc \in {"call", "store"}
    /\ call' = [call EXCEPT ![c].pc = "over"]
    /\ UNCHANGED <<byok, nextKey, writes, accepted, discarded, mayManage, shownFor>>

\* Mutant of Unchanged: the row is written whatever it has become.
UnchangedAssumed(c) == TRUE

\* credential_changed: the row must be the one the call began with.
Unchanged(c) == Revision(byok) = Revision(call[c].snapshot)

\* A failed replacement keeps tested_at and records the error.
Save(c) ==
    /\ call[c].pc = "store" /\ call[c].kind = "save" /\ writes < MaxByokWrites
    /\ call' = [call EXCEPT ![c].pc = "over"]
    /\ IF mayManage /\ Unchanged(c)
       THEN /\ byok' = [key |-> call[c].key, model |-> call[c].model, updated |-> writes + 1,
                        tested |-> call[c].ok \/ byok.tested, error |-> ~call[c].ok]
            /\ writes' = writes + 1 /\ discarded' = Replaced(call[c].key)
       ELSE UNCHANGED <<byok, writes, discarded>>
    /\ UNCHANGED <<nextKey, accepted, mayManage, shownFor>>

\* The UPDATE repeats the comparison in its WHERE clause.
StoreProbe(c) ==
    /\ call[c].pc = "store" /\ call[c].kind = "probe" /\ writes < MaxByokWrites
    /\ call' = [call EXCEPT ![c].pc = "over"]
    /\ IF mayManage /\ Stored /\ Unchanged(c)
       THEN /\ byok' = [byok EXCEPT !.updated = writes + 1, !.tested = @ \/ call[c].ok, !.error = ~call[c].ok]
            /\ writes' = writes + 1
       ELSE UNCHANGED <<byok, writes>>
    /\ UNCHANGED <<nextKey, accepted, discarded, mayManage, shownFor>>

\* test_byok_input reports without writing, unless the key it used has changed.
ReportTest(c) ==
    /\ call[c].pc = "store" /\ call[c].kind = "test"
    /\ call' = [call EXCEPT ![c].pc = "over"]
    /\ shownFor' = IF mayManage /\ Unchanged(c) THEN shownFor \cup {<<byok.key, call[c].key>>} ELSE shownFor
    /\ UNCHANGED <<byok, nextKey, writes, accepted, discarded, mayManage>>

---------------------------------------------------------------------------
(* One visit of the database each. *)

\* Saving a blank key.
ClearKey ==
    /\ mayManage /\ Stored /\ writes < MaxByokWrites
    /\ byok' = [byok EXCEPT !.key = Empty, !.updated = writes + 1, !.tested = FALSE, !.error = TRUE]
    /\ writes' = writes + 1 /\ discarded' = Replaced(Empty)
    /\ UNCHANGED <<call, nextKey, accepted, mayManage, shownFor>>

\* delete_byok asks for no more than the user's access.
DeleteKey ==
    /\ Stored /\ byok' = NoKey /\ discarded' = Replaced(Empty)
    /\ UNCHANGED <<call, nextKey, writes, accepted, mayManage, shownFor>>

\* byok_toggle, grant and revoke.
ToggleByok ==
    /\ mayManage' = ~mayManage
    /\ UNCHANGED <<byok, call, nextKey, writes, accepted, discarded, shownFor>>

ByokInit ==
    /\ byok = NoKey /\ call = [c \in Calls |-> NoCall] /\ nextKey = 1 /\ writes = 0
    /\ accepted = {} /\ discarded = {} /\ mayManage = TRUE /\ shownFor = {}

ByokNext ==
    \/ \E c \in Calls :
           \/ \E model \in Models, typed \in BOOLEAN : BeginSave(c, model, typed)
           \/ \E kind \in {"probe", "test"} : BeginProbe(c, kind)
           \/ ProviderAnswers(c) \/ GiveUp(c) \/ Save(c) \/ StoreProbe(c) \/ ReportTest(c)
    \/ ClearKey \/ DeleteKey \/ ToggleByok

ByokSpec == ByokInit /\ [][ByokNext]_byokVars

---------------------------------------------------------------------------
(* Properties. *)

\* The row that byok routes and grants accept (tested, no error) holds a key and a
\* model that the provider accepted together; a key that was replaced, cleared or
\* deleted is not brought back by a call that read it before; and a test is never
\* shown as that of a key it did not use.
ByokIsProbed ==
    /\ ByokTypeOK
    /\ byok.tested /\ ~byok.error => <<byok.key, byok.model>> \in accepted
    /\ byok.key \notin discarded
    /\ \A shown \in shownFor : shown[1] = shown[2]
=============================================================================
