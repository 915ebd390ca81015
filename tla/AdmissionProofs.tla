-------------------------- MODULE AdmissionProofs --------------------------
(***************************************************************************)
(* Theorems about Admission, for any messages, handlers, windows and       *)
(* limits: a message has one operation, an armed mode goes to the right    *)
(* link and stays armed until then, a mark forces one operation, and the   *)
(* quotas hold: counts, bursts and the answer to a refused actor.          *)
(*                                                                         *)
(* ModeFollowsCommands speaks of the journal only.  The invariant          *)
(* DeferredIsNewest ties the row of runtime_deferred_media to it: the row  *)
(* carries the newest message of the chat, and a mode if and only if that  *)
(* message is a command.  A link is inserted when the row is still the one *)
(* its mode was resolved from, so that the row speaks for the journal.     *)
(*                                                                         *)
(* Of the quotas, ChargedExactly is inductive but BurstBounded is not: a   *)
(* span may begin before the open window.  WindowFacts also counts what    *)
(* the last window's length before it saw.                                 *)
(***************************************************************************)
EXTENDS Admission, SequenceTheorems, FiniteSetTheorems, TLAPS

HandlerState == [pc: HandlerStep, message: Message \cup {0}, expected: Deferred, tries: 0..(MaxTries - 1)]

\* What a handler is at, it does for a message of the right type.
HandlerOK(r) ==
    /\ r.pc # "idle" => r.message \in Message
    /\ r.pc = "arm" => TypeOf(r.message) = "arm"
    /\ r.pc = "mark" => TypeOf(r.message) = "mark"
    /\ r.pc \in HandlerStep \ {"idle", "authorize", "arm", "mark"} => IsLink(r.message)

DeferredIsNewest ==
    /\ \A k \in Private : journal[k].message <= deferred.message
    /\ deferred.message # 0 => \E k \in Private : journal[k].message = deferred.message
    /\ deferred.mode # NoMode =>
          \A k \in Private : journal[k].message = deferred.message =>
              TypeOf(journal[k].message) = "arm" /\ journal[k].mode = deferred.mode
    /\ deferred.mode = NoMode =>
          \A k \in Private : TypeOf(journal[k].message) = "arm" => journal[k].message < deferred.message
    /\ deferred.message = 0 => deferred.mode = NoMode

AdmissionInv ==
    /\ AdmissionTypeOK
    /\ \A h \in Handler : HandlerOK(handler[h])
    /\ DeferredIsNewest
    /\ ModeFollowsCommands
    /\ AdmittedOnce

USE DEF HandlerStep, Type

----------------------------------------------------------------------------
(* The journal.                                                            *)

LEMMA AppendEntry ==
    ASSUME NEW s \in Seq(Entry), NEW e \in Entry
    PROVE  /\ Append(s, e) \in Seq(Entry)
           /\ Len(s) \in Nat
           /\ Len(Append(s, e)) = Len(s) + 1
           /\ \A i \in 1..Len(s) : Append(s, e)[i] = s[i] /\ s[i] \in Entry
           /\ Append(s, e)[Len(s) + 1] = e
  BY AppendProperties, LenProperties, ElementOfSeq

\* The row and the properties of the journal depend on its messages and modes.
LEMMA SameEntries ==
    ASSUME Len(journal') = Len(journal), deferred' = deferred,
           \A i \in 1..Len(journal) : /\ journal'[i].message = journal[i].message
                                      /\ journal'[i].mode = journal[i].mode
    PROVE  /\ DeferredIsNewest => DeferredIsNewest'
           /\ ModeFollowsCommands => ModeFollowsCommands'
           /\ AdmittedOnce => AdmittedOnce'
<1>1. Links' = Links /\ Private' = Private
  BY DEF Links, Private, IsLink, TypeOf
<1>2. Links \subseteq 1..Len(journal) /\ Private \subseteq 1..Len(journal)
  BY DEF Links, Private
<1>3. DeferredIsNewest => DeferredIsNewest'
  BY <1>1, <1>2 DEF DeferredIsNewest, TypeOf
<1>4. AdmittedOnce => AdmittedOnce'
  BY <1>1, <1>2 DEF AdmittedOnce
<1>5. \A i \in Links, j \in Private : Armed(i, j)' <=> Armed(i, j)
  BY <1>1, <1>2 DEF Armed, TypeOf
<1>6. \A i \in Links : {j \in Private : Armed(i, j)}' = {j \in Private : Armed(i, j)}
  BY <1>1, <1>5
<1>7. ModeFollowsCommands => ModeFollowsCommands'
  BY <1>1, <1>2, <1>6 DEF ModeFollowsCommands, TypeOf
<1> QED
  BY <1>3, <1>4, <1>7

\* Command j is the one that a link with message m, admitted now, has to use.
Usable(m, j) ==
    /\ TypeOf(journal[j].message) = "arm"
    /\ journal[j].message < m
    /\ \A k \in Private : journal[k].message <= journal[j].message

\* The mode of a link that is admitted now.
RightMode(m, mode) ==
    IF TypeOf(m) = "plain" /\ \E j \in Private : Usable(m, j)
    THEN \A j \in Private : Usable(m, j) => mode = journal[j].mode
    ELSE mode = Kind[m].mode

\* The row of the chat says which command that is.
LEMMA RowIsRight ==
    ASSUME AdmissionTypeOK, DeferredIsNewest, NEW m \in Message
    PROVE  RightMode(m, ResolvedMode(m, deferred))
<1>1. /\ m \in Nat /\ deferred.message \in Nat
      /\ \A k \in Private : journal[k].message \in Nat
  <2>1. \A k \in Private : journal[k] \in Entry
    BY ElementOfSeq DEF AdmissionTypeOK, Private
  <2> QED
    BY <2>1, AdmissionAssumption DEF AdmissionTypeOK, Deferred, Entry
<1>2. CASE TypeOf(m) # "plain"
  BY <1>2 DEF RightMode, ResolvedMode
<1>3. CASE TypeOf(m) = "plain"
  <2>1. CASE deferred.mode # NoMode /\ deferred.message < m
    <3>1. ResolvedMode(m, deferred) = deferred.mode
      BY <1>3, <2>1 DEF ResolvedMode
    <3>2. PICK k \in Private : journal[k].message = deferred.message
      BY <2>1 DEF DeferredIsNewest
    <3>3. Usable(m, k)
      BY <2>1, <3>2 DEF Usable, DeferredIsNewest
    <3>4. \A j \in Private : Usable(m, j) => journal[j].message = deferred.message
      BY <1>1, <3>2 DEF Usable, DeferredIsNewest
    <3>5. \A j \in Private : Usable(m, j) => journal[j].mode = deferred.mode
      BY <2>1, <3>4 DEF DeferredIsNewest
    <3> QED
      BY <1>3, <3>1, <3>3, <3>5 DEF RightMode
  <2>2. CASE ~(deferred.mode # NoMode /\ deferred.message < m)
    <3>1. ResolvedMode(m, deferred) = Kind[m].mode
      BY <2>2 DEF ResolvedMode
    <3>2. ASSUME NEW j \in Private, Usable(m, j) PROVE FALSE
      <4>1. journal[j].message <= deferred.message /\ journal[j].message < m
        BY <3>2 DEF DeferredIsNewest, Usable
      <4>2. CASE deferred.mode = NoMode
        <5>1. journal[j].message < deferred.message
          BY <3>2, <4>2 DEF DeferredIsNewest, Usable
        <5>2. PICK k \in Private : journal[k].message = deferred.message
          BY <1>1, <5>1 DEF DeferredIsNewest
        <5>3. deferred.message <= journal[j].message
          BY <3>2, <5>2 DEF Usable
        <5> QED
          BY <1>1, <5>1, <5>3
      <4>3. CASE deferred.mode # NoMode
        <5>1. m <= deferred.message /\ deferred.message # 0
          BY <1>1, <2>2, <4>3, AdmissionAssumption DEF DeferredIsNewest
        <5>2. PICK k \in Private : journal[k].message = deferred.message
          BY <5>1 DEF DeferredIsNewest
        <5>3. deferred.message <= journal[j].message
          BY <3>2, <5>2 DEF Usable
        <5> QED
          BY <1>1, <4>1, <5>1, <5>3
      <4> QED
        BY <4>2, <4>3
    <3> QED
      BY <3>1, <3>2 DEF RightMode
  <2> QED
    BY <2>1, <2>2
<1> QED
  BY <1>2, <1>3

\* The journal with one more entry.
LEMMA NewEntry ==
    ASSUME AdmissionTypeOK, ModeFollowsCommands, AdmittedOnce,
           NEW e \in Entry, journal' = Append(journal, e),
           IsLink(e.message) => ~Existing(e.message) /\ RightMode(e.message, e.mode)
    PROVE  /\ journal' \in Seq(Entry)
           /\ ModeFollowsCommands' /\ AdmittedOnce'
           /\ \A k \in Private : k \in Private' /\ journal'[k] = journal[k]
           /\ \A k \in Private' : (k = Len(journal) + 1 /\ journal'[k] = e) \/ k \in Private
           /\ TypeOf(e.message) \in {"arm", "plain", "explicit"} =>
                  Len(journal) + 1 \in Private' /\ journal'[Len(journal) + 1] = e
           /\ TypeOf(e.message) \notin {"arm", "plain", "explicit"} => Private' = Private
<1>0. Len(journal) \in Nat
  BY LenProperties DEF AdmissionTypeOK
<1> PICK n \in Nat : n = Len(journal) + 1
  BY <1>0
<1>1. /\ journal' \in Seq(Entry)
      /\ Len(journal) \in Nat /\ Len(journal') = n
      /\ \A i \in 1..Len(journal) : journal'[i] = journal[i]
      /\ journal'[n] = e
  BY AppendEntry DEF AdmissionTypeOK
<1>2. \A i : i \in 1..n <=> i \in 1..Len(journal) \/ i = n
  BY <1>1
<1>3. n \notin 1..Len(journal) /\ \A i \in 1..Len(journal) : i < n /\ i \in Nat
  BY <1>1
<1>4. \A i : i \in Links' <=> i \in Links \/ (i = n /\ IsLink(e.message))
  BY <1>1, <1>2, <1>3 DEF Links, IsLink, TypeOf
<1>5. \A i : i \in Private' <=>
          i \in Private \/ (i = n /\ TypeOf(e.message) \in {"arm", "plain", "explicit"})
  BY <1>1, <1>2, <1>3 DEF Private, TypeOf
<1>6. Links \subseteq 1..Len(journal) /\ Private \subseteq 1..Len(journal)
  BY DEF Links, Private
<1>7. \A k \in Private : journal'[k] = journal[k]
  BY <1>1, <1>6
<1>8. AdmittedOnce'
  <2>1. ~Existing(e.message) /\ IsLink(e.message) => \A i \in Links : journal[i].message # e.message
    BY <1>6 DEF Existing
  <2>2. \A i \in Links' : \/ i \in Links /\ journal'[i] = journal[i]
                          \/ i = n /\ journal'[i] = e /\ ~Existing(e.message) /\ IsLink(e.message)
    BY <1>1, <1>4, <1>6
  <2> SUFFICES ASSUME NEW i \in Links', NEW j \in Links', journal'[i].message = journal'[j].message
               PROVE  i = j
    BY DEF AdmittedOnce
  <2>3. CASE i \in Links /\ journal'[i] = journal[i] /\ j \in Links /\ journal'[j] = journal[j]
    BY <2>3 DEF AdmittedOnce
  <2> QED
    BY <2>1, <2>2, <2>3
<1>9. \A i \in Links, j \in Private : Armed(i, j)' <=> Armed(i, j)
  <2> SUFFICES ASSUME NEW i \in Links, NEW j \in Private
               PROVE  Armed(i, j)' <=> Armed(i, j)
    OBVIOUS
  <2>1. journal'[i] = journal[i] /\ journal'[j] = journal[j] /\ i < n /\ i \in Nat /\ n \in Nat
    BY <1>1, <1>3, <1>6
  <2>2. ~(n < i)
    BY <2>1
  <2>3. (\A k \in Private' : k < i => journal'[k].message <= journal'[j].message)
            <=> (\A k \in Private : k < i => journal[k].message <= journal[j].message)
    BY <1>5, <1>7, <2>1, <2>2
  <2> QED
    BY <2>1, <2>3 DEF Armed, TypeOf
<1>10. \A i \in Links : ~Armed(i, n)'
  <2>1. \A i \in Links : ~(n < i)
    BY <1>1, <1>3, <1>6
  <2> QED
    BY <2>1 DEF Armed
<1>11. IsLink(e.message) => \A j \in Private : Armed(n, j)' <=> Usable(e.message, j)
  <2> SUFFICES ASSUME NEW j \in Private, IsLink(e.message)
               PROVE  Armed(n, j)' <=> Usable(e.message, j)
    OBVIOUS
  <2>1. journal'[n] = e /\ journal'[j] = journal[j] /\ j < n /\ ~(n < n)
    BY <1>1, <1>3, <1>6
  <2>2. (\A k \in Private' : k < n => journal'[k].message <= journal'[j].message)
            <=> (\A k \in Private : journal[k].message <= journal[j].message)
    BY <1>3, <1>5, <1>6, <1>7, <2>1
  <2> QED
    BY <2>1, <2>2 DEF Armed, Usable, TypeOf
<1>12. ~Armed(n, n)'
  <2>1. ~(n < n)
    BY <1>1
  <2> QED
    BY <2>1 DEF Armed
<1>13. ASSUME NEW i \in Links'
       PROVE  LET m == journal'[i].message
                  arms == {j \in Private' : Armed(i, j)'}
              IN  IF TypeOf(m) = "plain" /\ arms # {}
                  THEN \A j \in arms : journal'[i].mode = journal'[j].mode
                  ELSE journal'[i].mode = Kind[m].mode
  <2> DEFINE arms == {j \in Private' : Armed(i, j)'}
  <2>1. CASE i \in Links
    <3>1. arms = {j \in Private : Armed(i, j)}
      BY <1>5, <1>9, <1>10, <2>1
    <3>2. journal'[i] = journal[i]
      BY <1>1, <1>6, <2>1
    <3> QED
      BY <1>7, <2>1, <3>1, <3>2 DEF ModeFollowsCommands
  <2>2. CASE i = n /\ IsLink(e.message)
    <3>1. arms = {j \in Private : Usable(e.message, j)}
      BY <1>5, <1>11, <1>12, <2>2
    <3>2. journal'[i] = e /\ RightMode(e.message, e.mode)
      BY <1>1, <2>2
    <3> HIDE DEF arms
    <3>3. (arms # {}) <=> \E j \in Private : Usable(e.message, j)
      BY <3>1
    <3>4. \A j \in arms : j \in Private /\ Usable(e.message, j) /\ journal'[j].mode = journal[j].mode
      BY <1>7, <3>1
    <3> QED
      BY <3>2, <3>3, <3>4 DEF RightMode, arms
  <2> QED
    BY <1>4, <2>1, <2>2
<1>14. ModeFollowsCommands'
  BY <1>13 DEF ModeFollowsCommands, TypeOf
<1> QED
  BY <1>1, <1>5, <1>7, <1>8, <1>14

----------------------------------------------------------------------------
(* Steps.                                                                  *)

HandlersOK == handler \in [Handler -> HandlerState] /\ \A h \in Handler : HandlerOK(handler[h])

\* What is left of the invariant when the tables stay as they are.
LEMMA QuietStep ==
    ASSUME AdmissionInv, TablesSame, HandlersOK',
           clock' \in Nat, allowed' \in BOOLEAN, limits' \in LimitChoices
    PROVE  AdmissionInv'
<1>1. journal' = journal /\ deferred' = deferred /\ Len(journal') = Len(journal)
  BY DEF TablesSame
<1>2. DeferredIsNewest' /\ ModeFollowsCommands' /\ AdmittedOnce'
  BY <1>1, SameEntries DEF AdmissionInv
<1>3. AdmissionTypeOK'
  BY DEF AdmissionInv, AdmissionTypeOK, TablesSame, HandlersOK, HandlerState
<1> QED
  BY <1>2, <1>3 DEF AdmissionInv, HandlersOK

\* A handler that moves on.
LEMMA Moves ==
    ASSUME AdmissionInv, NEW h \in Handler, NEW x \in HandlerState, HandlerOK(x),
           handler' = [handler EXCEPT ![h] = x]
    PROVE  HandlersOK'
<1>1. handler \in [Handler -> HandlerState] /\ \A g \in Handler : HandlerOK(handler[g])
  BY DEF AdmissionInv, AdmissionTypeOK, HandlerState
<1>2. \A g \in Handler : handler'[g] = IF g = h THEN x ELSE handler[g]
  BY <1>1
<1>3. handler' \in [Handler -> HandlerState]
  BY <1>1
<1>4. \A g \in Handler : HandlerOK(handler'[g])
  BY <1>1, <1>2
<1> QED
  BY <1>3, <1>4 DEF HandlersOK, HandlerOK, TypeOf, IsLink

LEMMA HandlerTyped ==
    ASSUME AdmissionInv, NEW h \in Handler
    PROVE  /\ handler[h] \in HandlerState /\ HandlerOK(handler[h])
           /\ clock \in Nat /\ allowed \in BOOLEAN /\ limits \in LimitChoices
  BY DEF AdmissionInv, AdmissionTypeOK, HandlerState

LEMMA ReturnOK ==
    ASSUME AdmissionInv, NEW h \in Handler, Return(h)
    PROVE  HandlersOK'
<1>1. MaxTries \in Nat \ {0}
  BY AdmissionAssumption
<1>2. IdleHandler \in HandlerState
  BY <1>1 DEF IdleHandler, HandlerState, Deferred, NoDeferred
<1>3. HandlerOK(IdleHandler)
  BY DEF HandlerOK, IdleHandler
<1> QED
  BY <1>2, <1>3, Moves DEF Return

LEMMA GotoOK ==
    ASSUME AdmissionInv, NEW h \in Handler, NEW pc \in HandlerStep \ {"idle", "authorize"}, Goto(h, pc),
           ~At(h, "idle"),
           pc = "arm" => TypeOf(MessageOf(h)) = "arm",
           pc = "mark" => TypeOf(MessageOf(h)) = "mark",
           pc \notin {"arm", "mark"} => IsLink(MessageOf(h))
    PROVE  HandlersOK'
<1> DEFINE x == [handler[h] EXCEPT !.pc = pc]
<1>1. handler[h] \in HandlerState /\ HandlerOK(handler[h]) /\ handler[h].pc # "idle"
  BY HandlerTyped DEF At
<1>2. x \in HandlerState
  BY <1>1 DEF HandlerState
<1>3. x.pc = pc /\ x.message = handler[h].message
  BY <1>1 DEF HandlerState
<1> HIDE DEF x
<1>4. HandlerOK(x)
  BY <1>1, <1>3 DEF HandlerOK, MessageOf
<1>5. handler' = [handler EXCEPT ![h] = x]
  BY DEF Goto, x
<1> QED
  BY <1>2, <1>4, <1>5, Moves

\* The steps that leave the tables alone.
LEMMA HandlerSteps ==
    ASSUME AdmissionInv, NEW h \in Handler,
           \/ \E m \in Message : Deliver(h, m)
           \/ Authorize(h) \/ Replay(h) \/ Read(h) \/ Prepare(h) \/ Conflict(h) \/ Recheck(h) \/ Abort(h)
    PROVE  AdmissionInv'
<1> DEFINE r == handler[h]
<1>1. r \in HandlerState /\ HandlerOK(r) /\ deferred \in Deferred /\ MaxTries \in Nat \ {0}
  BY HandlerTyped, AdmissionAssumption DEF AdmissionInv, AdmissionTypeOK
<1>2. TablesSame /\ WorldSame
  BY DEF Deliver, Authorize, Replay, Read, Prepare, Conflict, Recheck, Abort
<1> SUFFICES HandlersOK'
  BY <1>2, HandlerTyped, QuietStep DEF WorldSame
<1>3. ASSUME NEW m \in Message, Deliver(h, m) PROVE HandlersOK'
  <2> DEFINE x == [IdleHandler EXCEPT !.pc = "authorize", !.message = m]
  <2>0. IdleHandler \in HandlerState
    BY <1>1 DEF IdleHandler, HandlerState, Deferred, NoDeferred
  <2>1. x \in HandlerState
    BY <2>0 DEF HandlerState
  <2>2. HandlerOK(x)
    BY <2>0 DEF HandlerOK, HandlerState
  <2>3. handler' = [handler EXCEPT ![h] = x]
    BY <1>3 DEF Deliver
  <2> HIDE DEF x
  <2> QED
    BY <2>1, <2>2, <2>3, Moves
<1>4. CASE Authorize(h)
  <2>1. r.message \in Message /\ ~At(h, "idle")
    BY <1>1, <1>4 DEF Authorize, At, HandlerOK
  <2>2. TypeOf(r.message) \in Type
    BY <2>1, AdmissionAssumption DEF TypeOf
  <2>3. CASE Return(h)
    BY <2>3, ReturnOK
  <2>4. CASE Goto(h, "arm") /\ TypeOf(r.message) = "arm"
    BY <2>1, <2>4, GotoOK DEF MessageOf
  <2>5. CASE Goto(h, "mark") /\ TypeOf(r.message) = "mark"
    BY <2>1, <2>5, GotoOK DEF MessageOf
  <2>6. CASE Goto(h, "replay") /\ TypeOf(r.message) \notin {"arm", "mark"}
    BY <2>1, <2>2, <2>6, GotoOK DEF MessageOf, IsLink
  <2> QED
    BY <1>4, <2>3, <2>4, <2>5, <2>6 DEF Authorize, MessageOf
<1>5. CASE Read(h)
  <2> DEFINE x == [r EXCEPT !.pc = "prepare", !.expected = deferred]
  <2>1. x \in HandlerState
    BY <1>1 DEF HandlerState
  <2>2. HandlerOK(x)
    BY <1>1, <1>5 DEF HandlerState, HandlerOK, Read, At
  <2>3. handler' = [handler EXCEPT ![h] = x]
    BY <1>5 DEF Read
  <2> HIDE DEF x
  <2> QED
    BY <2>1, <2>2, <2>3, Moves
<1>6. CASE Recheck(h)
  <2>1. CASE Return(h)
    BY <2>1, ReturnOK
  <2>2. CASE ~Return(h)
    <3> DEFINE x == [r EXCEPT !.pc = "read", !.tries = @ + 1]
    <3>1. r.tries + 1 \in 0..(MaxTries - 1)
      BY <1>1, <1>6, <2>2 DEF Recheck, HandlerState
    <3>2. x \in HandlerState
      BY <1>1, <3>1 DEF HandlerState
    <3>3. HandlerOK(x)
      BY <1>1, <1>6 DEF HandlerState, HandlerOK, Recheck, At
    <3>4. handler' = [handler EXCEPT ![h] = x]
      BY <1>6, <2>2 DEF Recheck
    <3> HIDE DEF x
    <3> QED
      BY <3>2, <3>3, <3>4, Moves
  <2> QED
    BY <2>1, <2>2
<1>7. CASE Replay(h) \/ Prepare(h) \/ Conflict(h) \/ Abort(h)
  <2>1. CASE Return(h)
    BY <2>1, ReturnOK
  <2>2. CASE ~Return(h)
    <3>1. /\ IsLink(r.message) /\ ~At(h, "idle")
          /\ \E pc \in {"read", "prepare", "admit", "conflict", "recheck"} : Goto(h, pc)
      BY <1>1, <1>7, <2>2 DEF Replay, Prepare, Conflict, Abort, At, HandlerOK
    <3> QED
      BY <3>1, GotoOK DEF MessageOf
  <2> QED
    BY <2>1, <2>2
<1> QED
  BY <1>3, <1>4, <1>5, <1>6, <1>7

\* The row after an entry of the chat that is a command.
LEMMA ArmedRow ==
    ASSUME AdmissionTypeOK, DeferredIsNewest, ModeFollowsCommands, AdmittedOnce,
           NEW e \in Entry, TypeOf(e.message) = "arm", journal' = Append(journal, e),
           deferred.message < e.message,
           deferred' = [message |-> e.message, mode |-> e.mode]
    PROVE  /\ journal' \in Seq(Entry) /\ deferred' \in Deferred
           /\ DeferredIsNewest' /\ ModeFollowsCommands' /\ AdmittedOnce'
<1>0. ~IsLink(e.message)
  BY DEF IsLink
<1>1. /\ journal' \in Seq(Entry) /\ ModeFollowsCommands' /\ AdmittedOnce'
      /\ \A k \in Private' : journal'[k] = e \/ (k \in Private /\ journal'[k] = journal[k])
      /\ \E k \in Private' : journal'[k] = e
  BY <1>0, NewEntry
<1>2. /\ e.message \in Nat \ {0} /\ e.mode \in Mode /\ e.mode # NoMode /\ deferred.message \in Nat
      /\ \A k \in Private : journal[k].message \in Nat
  <2>1. \A k \in Private : journal[k] \in Entry
    BY ElementOfSeq DEF AdmissionTypeOK, Private
  <2> QED
    BY <2>1, AdmissionAssumption DEF AdmissionTypeOK, Deferred, Entry
<1>3. deferred'.message = e.message /\ deferred'.mode = e.mode /\ deferred' \in Deferred
  BY <1>2 DEF Deferred
<1>4. \A k \in Private : journal[k].message < e.message
  BY <1>2 DEF DeferredIsNewest
<1>5. DeferredIsNewest'
  <2>1. \A k \in Private' : journal'[k].message <= deferred'.message
    <3> SUFFICES ASSUME NEW k \in Private' PROVE journal'[k].message <= deferred'.message
      OBVIOUS
    <3>1. CASE journal'[k] = e
      BY <1>2, <1>3, <3>1
    <3>2. CASE k \in Private /\ journal'[k] = journal[k]
      BY <1>2, <1>3, <1>4, <3>2
    <3> QED
      BY <1>1, <3>1, <3>2
  <2>2. \E k \in Private' : journal'[k].message = deferred'.message
    BY <1>1, <1>3
  <2>3. \A k \in Private' : journal'[k].message = deferred'.message => journal'[k] = e
    <3> SUFFICES ASSUME NEW k \in Private' PROVE journal'[k].message = deferred'.message => journal'[k] = e
      OBVIOUS
    <3>1. CASE journal'[k] = e
      BY <1>3, <3>1
    <3>2. CASE k \in Private /\ journal'[k] = journal[k]
      BY <1>2, <1>3, <1>4, <3>2
    <3> QED
      BY <1>1, <3>1, <3>2
  <2> QED
    BY <1>2, <1>3, <2>1, <2>2, <2>3 DEF DeferredIsNewest, TypeOf
<1> QED
  BY <1>1, <1>3, <1>5

\* The row after a link of the chat.
LEMMA PassedRow ==
    ASSUME AdmissionTypeOK, DeferredIsNewest, ModeFollowsCommands, AdmittedOnce,
           NEW e \in Entry, IsMedia(e.message), journal' = Append(journal, e),
           ~Existing(e.message), RightMode(e.message, e.mode),
           deferred' = Watermark(e.message, NoMode)
    PROVE  /\ journal' \in Seq(Entry) /\ deferred' \in Deferred
           /\ DeferredIsNewest' /\ ModeFollowsCommands' /\ AdmittedOnce'
<1>0. IsLink(e.message) /\ TypeOf(e.message) \in {"plain", "explicit"}
  BY DEF IsLink, IsMedia
<1>1. /\ journal' \in Seq(Entry) /\ ModeFollowsCommands' /\ AdmittedOnce'
      /\ \A k \in Private' : journal'[k] = e \/ (k \in Private /\ journal'[k] = journal[k])
      /\ \A k \in Private : k \in Private' /\ journal'[k] = journal[k]
      /\ \E k \in Private' : journal'[k] = e
  BY <1>0, NewEntry
<1>2. /\ e.message \in Nat \ {0} /\ deferred.message \in Nat /\ deferred \in Deferred
      /\ \A k \in Private : journal[k].message \in Nat
  <2>1. \A k \in Private : journal[k] \in Entry
    BY ElementOfSeq DEF AdmissionTypeOK, Private
  <2> QED
    BY <2>1, AdmissionAssumption DEF AdmissionTypeOK, Deferred, Entry
<1>3. CASE deferred.message < e.message
  <2>1. deferred'.message = e.message /\ deferred'.mode = NoMode /\ deferred' \in Deferred
    BY <1>2, <1>3 DEF Deferred, Watermark
  <2>2. \A k \in Private : journal[k].message < e.message
    BY <1>2, <1>3 DEF DeferredIsNewest
  <2>3. \A k \in Private' : journal'[k].message <= deferred'.message
    <3> SUFFICES ASSUME NEW k \in Private' PROVE journal'[k].message <= deferred'.message
      OBVIOUS
    <3>1. CASE journal'[k] = e
      BY <1>2, <2>1, <3>1
    <3>2. CASE k \in Private /\ journal'[k] = journal[k]
      BY <1>2, <2>1, <2>2, <3>2
    <3> QED
      BY <1>1, <3>1, <3>2
  <2>4. \E k \in Private' : journal'[k].message = deferred'.message
    BY <1>1, <2>1
  <2>5. \A k \in Private' : TypeOf(journal'[k].message) = "arm" => journal'[k].message < deferred'.message
    BY <1>0, <1>1, <2>1, <2>2
  <2>6. DeferredIsNewest'
    BY <2>1, <2>3, <2>4, <2>5 DEF DeferredIsNewest, TypeOf
  <2> QED
    BY <1>1, <2>1, <2>6
<1>4. CASE ~(deferred.message < e.message)
  <2>1. deferred' = deferred
    BY <1>4 DEF Watermark
  <2>2. \A k \in Private' : journal'[k].message <= deferred.message
    <3> SUFFICES ASSUME NEW k \in Private' PROVE journal'[k].message <= deferred.message
      OBVIOUS
    <3>1. CASE journal'[k] = e
      BY <1>2, <1>4, <3>1
    <3>2. CASE k \in Private /\ journal'[k] = journal[k]
      BY <3>2 DEF DeferredIsNewest
    <3> QED
      BY <1>1, <3>1, <3>2
  <2>3. deferred.message # 0 /\ \E k \in Private' : journal'[k].message = deferred.message
    <3>1. deferred.message # 0
      BY <1>2, <1>4
    <3>2. PICK k \in Private : journal[k].message = deferred.message
      BY <3>1 DEF DeferredIsNewest
    <3>3. k \in Private' /\ journal'[k] = journal[k]
      BY <1>1
    <3> QED
      BY <3>1, <3>2, <3>3
  <2>4. deferred.mode # NoMode =>
            \A k \in Private' : journal'[k].message = deferred.message =>
                TypeOf(journal'[k].message) = "arm" /\ journal'[k].mode = deferred.mode
    <3> SUFFICES ASSUME deferred.mode # NoMode, NEW k \in Private',
                        journal'[k].message = deferred.message
                 PROVE  TypeOf(journal'[k].message) = "arm" /\ journal'[k].mode = deferred.mode
      OBVIOUS
    <3>1. PICK l \in Private : journal[l].message = deferred.message
      BY <2>3 DEF DeferredIsNewest
    <3>2. TypeOf(deferred.message) = "arm"
      BY <3>1 DEF DeferredIsNewest
    <3>3. journal'[k] # e
      BY <1>0, <3>2
    <3> QED
      BY <1>1, <3>3 DEF DeferredIsNewest
  <2>5. deferred.mode = NoMode =>
            \A k \in Private' : TypeOf(journal'[k].message) = "arm" => journal'[k].message < deferred.message
    BY <1>0, <1>1 DEF DeferredIsNewest
  <2>6. DeferredIsNewest'
    BY <2>1, <2>2, <2>3, <2>4, <2>5 DEF DeferredIsNewest, TypeOf
  <2> QED
    BY <1>1, <1>2, <2>1, <2>6
<1> QED
  BY <1>3, <1>4

\* The row after an entry that is not one of the chat.
LEMMA ForeignEntry ==
    ASSUME AdmissionTypeOK, DeferredIsNewest, ModeFollowsCommands, AdmittedOnce,
           NEW e \in Entry, TypeOf(e.message) \in {"mark", "other"}, journal' = Append(journal, e),
           IsLink(e.message) => ~Existing(e.message) /\ RightMode(e.message, e.mode),
           deferred' = deferred
    PROVE  /\ journal' \in Seq(Entry)
           /\ DeferredIsNewest' /\ ModeFollowsCommands' /\ AdmittedOnce'
<1>1. /\ journal' \in Seq(Entry) /\ ModeFollowsCommands' /\ AdmittedOnce'
      /\ Private' = Private
      /\ \A k \in Private : journal'[k] = journal[k]
  BY NewEntry
<1>2. DeferredIsNewest'
  BY <1>1 DEF DeferredIsNewest, TypeOf
<1> QED
  BY <1>1, <1>2

\* The steps that write the tables.
LEMMA ArmStep ==
    ASSUME AdmissionInv, NEW h \in Handler, Arm(h)
    PROVE  AdmissionInv'
<1> DEFINE m == handler[h].message
           e == [message |-> m, mode |-> Kind[m].mode, forced |-> FALSE, at |-> clock, pending |-> IsLink(m)]
<1>1. /\ AdmissionTypeOK /\ DeferredIsNewest /\ ModeFollowsCommands /\ AdmittedOnce
      /\ m \in Message /\ TypeOf(m) = "arm" /\ clock \in Nat
  BY HandlerTyped DEF AdmissionInv, Arm, At, HandlerOK
<1>2. HandlersOK' /\ WorldSame
  BY ReturnOK DEF Arm
<1>3. CASE allowed /\ deferred.message < m
  <2>1. Kind[m].mode \in Mode
    BY <1>1, AdmissionAssumption
  <2>2. e \in Entry /\ e.message = m /\ e.mode = Kind[m].mode
    BY <1>1, <2>1 DEF Entry, IsLink
  <2>3. journal' = Append(journal, e) /\ deferred' = [message |-> m, mode |-> Kind[m].mode]
    BY <1>3 DEF Arm, MessageOf, Enter, Watermark
  <2> HIDE DEF e
  <2>4. /\ journal' \in Seq(Entry) /\ deferred' \in Deferred
        /\ DeferredIsNewest' /\ ModeFollowsCommands' /\ AdmittedOnce'
    BY <1>1, <1>3, <2>2, <2>3, ArmedRow
  <2>5. UNCHANGED <<rates, mark, markSeen, clock, allowed, limits>>
    BY <1>2 DEF Arm, WorldSame
  <2>6. AdmissionTypeOK'
    BY <1>1, <1>2, <2>4, <2>5 DEF AdmissionTypeOK, HandlersOK, HandlerState
  <2> QED
    BY <1>2, <2>4, <2>6 DEF AdmissionInv, HandlersOK
<1>4. CASE ~(allowed /\ deferred.message < m)
  BY <1>2, <1>4, HandlerTyped, QuietStep DEF Arm, MessageOf, TablesSame, WorldSame
<1> QED
  BY <1>3, <1>4

LEMMA MarkStep ==
    ASSUME AdmissionInv, NEW h \in Handler, Mark(h)
    PROVE  AdmissionInv'
<1> DEFINE m == handler[h].message
           e == [message |-> m, mode |-> Kind[m].mode, forced |-> FALSE, at |-> clock, pending |-> IsLink(m)]
<1>1. /\ AdmissionTypeOK /\ DeferredIsNewest /\ ModeFollowsCommands /\ AdmittedOnce
      /\ m \in Message /\ TypeOf(m) = "mark" /\ clock \in Nat
  BY HandlerTyped DEF AdmissionInv, Mark, At, HandlerOK
<1>2. HandlersOK' /\ WorldSame
  BY ReturnOK DEF Mark
<1>3. CASE allowed /\ markSeen[Kind[m].chat] < m
  <2>1. Kind[m].mode \in Mode /\ Kind[m].chat \in Chat /\ m \in Nat
    BY <1>1, AdmissionAssumption
  <2>2. e \in Entry /\ e.message = m
    BY <1>1, <2>1 DEF Entry, IsLink
  <2>3. journal' = Append(journal, e) /\ deferred' = deferred /\ ~IsLink(m)
    BY <1>1, <1>3 DEF Mark, MessageOf, Enter, IsLink
  <2> HIDE DEF e
  <2>4. /\ journal' \in Seq(Entry)
        /\ DeferredIsNewest' /\ ModeFollowsCommands' /\ AdmittedOnce'
    BY <1>1, <2>2, <2>3, ForeignEntry
  <2>5. /\ UNCHANGED <<rates, clock, allowed, limits, deferred>> /\ mark' = TRUE
        /\ markSeen' = [markSeen EXCEPT ![Kind[m].chat] = m]
    BY <1>2, <1>3 DEF Mark, WorldSame, MessageOf
  <2>6. AdmissionTypeOK'
    BY <1>1, <1>2, <2>1, <2>4, <2>5 DEF AdmissionTypeOK, HandlersOK, HandlerState
  <2> QED
    BY <1>2, <2>4, <2>6 DEF AdmissionInv, HandlersOK
<1>4. CASE ~(allowed /\ markSeen[Kind[m].chat] < m)
  BY <1>2, <1>4, HandlerTyped, QuietStep DEF Mark, MessageOf, TablesSame, WorldSame
<1> QED
  BY <1>3, <1>4

LEMMA ChargedTyped ==
    ASSUME AdmissionTypeOK
    PROVE  Charged(clock) \in [Window -> [count: Nat, reset: Nat]]
<1>1. \A w \in Window : CurrentRate(w, clock) \in [count: Nat, reset: Nat]
  BY AdmissionAssumption DEF AdmissionTypeOK, CurrentRate
<1>2. \A w \in Window : [CurrentRate(w, clock) EXCEPT !.count = @ + 1] \in [count: Nat, reset: Nat]
  BY <1>1
<1> QED
  BY <1>2 DEF Charged, AdmissionTypeOK

LEMMA AdmitStep ==
    ASSUME AdmissionInv, NEW h \in Handler, Admit(h)
    PROVE  AdmissionInv'
<1> DEFINE m == handler[h].message
           mode == ResolvedMode(m, handler[h].expected)
           e == [message |-> m, mode |-> mode, forced |-> mark, at |-> clock, pending |-> IsLink(m)]
<1>1. /\ AdmissionTypeOK /\ DeferredIsNewest /\ ModeFollowsCommands /\ AdmittedOnce
      /\ m \in Message /\ IsLink(m) /\ clock \in Nat /\ mark \in BOOLEAN
      /\ handler[h].expected \in Deferred
  BY HandlerTyped DEF AdmissionInv, AdmissionTypeOK, Admit, At, HandlerOK, HandlerState
<1>2. /\ WorldSame
      /\ \/ Return(h) /\ TablesSame
         \/ Goto(h, "conflict") /\ TablesSame
         \/ ~Existing(m) /\ Insert(h) /\ Return(h)
  BY DEF Admit, MessageOf
<1>3. CASE Return(h) /\ TablesSame
  BY <1>2, <1>3, ReturnOK, HandlerTyped, QuietStep DEF WorldSame
<1>4. CASE Goto(h, "conflict") /\ TablesSame
  <2>1. HandlersOK'
    BY <1>1, <1>4, GotoOK DEF Admit, At, MessageOf
  <2> QED
    BY <1>2, <1>4, <2>1, HandlerTyped, QuietStep DEF WorldSame
<1>5. CASE ~Existing(m) /\ Insert(h) /\ Return(h)
  <2>1. HandlersOK'
    BY <1>5, ReturnOK
  <2>2. mode \in Mode
    <3>1. Kind[m].mode \in Mode
      BY <1>1, AdmissionAssumption
    <3> QED
      BY <1>1, <3>1 DEF ResolvedMode, Deferred
  <2>3. e \in Entry /\ e.message = m /\ e.mode = mode
    BY <1>1, <2>2 DEF Entry, IsLink
  <2>4. RightMode(m, mode)
    <3>1. CASE IsMedia(m)
      <4>1. handler[h].expected = deferred
        BY <1>5, <3>1 DEF Insert, ContextHolds, MessageOf
      <4> QED
        BY <1>1, <4>1, RowIsRight
    <3>2. CASE ~IsMedia(m)
      BY <3>2 DEF IsMedia, RightMode, ResolvedMode
    <3> QED
      BY <3>1, <3>2
  <2>5. /\ journal' = Append(journal, e)
        /\ rates' = Charged(clock) /\ mark' = FALSE /\ markSeen' = markSeen
        /\ deferred' = IF IsMedia(m) THEN Watermark(m, NoMode) ELSE deferred
    BY <1>5 DEF Insert, MessageOf, Enter
  <2> HIDE DEF e, mode
  <2>6. /\ journal' \in Seq(Entry) /\ deferred' \in Deferred
        /\ DeferredIsNewest' /\ ModeFollowsCommands' /\ AdmittedOnce'
    <3>1. CASE IsMedia(m)
      BY <1>1, <1>5, <2>3, <2>4, <2>5, <3>1, PassedRow
    <3>2. CASE ~IsMedia(m)
      <4>1. TypeOf(m) \in {"mark", "other"} /\ deferred' = deferred /\ deferred \in Deferred
        BY <1>1, <2>5, <3>2 DEF IsMedia, IsLink, AdmissionTypeOK
      <4> QED
        BY <1>1, <1>5, <2>3, <2>4, <2>5, <4>1, ForeignEntry
    <3> QED
      BY <3>1, <3>2
  <2>7. AdmissionTypeOK'
    BY <1>1, <1>2, <2>1, <2>5, <2>6, ChargedTyped
       DEF AdmissionTypeOK, HandlersOK, HandlerState, WorldSame
  <2> QED
    BY <2>1, <2>6, <2>7 DEF AdmissionInv, HandlersOK
<1> QED
  BY <1>2, <1>3, <1>4, <1>5

LEMMA OtherSteps ==
    ASSUME AdmissionInv,
           Tick \/ ChangeAuthority \/ ChangeLimits \/ \E i \in 1..Len(journal) : Finish(i)
    PROVE  AdmissionInv'
<1>1. handler' = handler /\ HandlersOK /\ clock \in Nat /\ allowed \in BOOLEAN /\ limits \in LimitChoices
  <2>1. handler' = handler
    BY DEF Tick, ChangeAuthority, ChangeLimits, Finish
  <2>2. HandlersOK /\ clock \in Nat /\ allowed \in BOOLEAN /\ limits \in LimitChoices
    BY DEF AdmissionInv, AdmissionTypeOK, HandlersOK, HandlerState
  <2> QED
    BY <2>1, <2>2
<1>2. HandlersOK'
  BY <1>1 DEF HandlersOK, HandlerOK, TypeOf, IsLink
<1>3. CASE Tick \/ ChangeAuthority \/ ChangeLimits
  <2>1. TablesSame /\ clock' \in Nat /\ allowed' \in BOOLEAN /\ limits' \in LimitChoices
    <3>1. CASE Tick
      BY <1>1, <3>1 DEF Tick
    <3>2. CASE ChangeAuthority \/ ChangeLimits
      BY <1>1, <3>2, Zenon DEF ChangeAuthority, ChangeLimits
    <3> QED
      BY <1>3, <3>1, <3>2
  <2> QED
    BY <1>2, <2>1, QuietStep
<1>4. ASSUME NEW i \in 1..Len(journal), Finish(i) PROVE AdmissionInv'
  <2> DEFINE e == [journal[i] EXCEPT !.pending = FALSE]
  <2>1. journal \in Seq(Entry) /\ Len(journal) \in Nat /\ \A k \in 1..Len(journal) : journal[k] \in Entry
    BY ElementOfSeq, LenProperties DEF AdmissionInv, AdmissionTypeOK
  <2>2. e \in Entry /\ e.message = journal[i].message /\ e.mode = journal[i].mode
    BY <2>1 DEF Entry
  <2>3. journal' = [journal EXCEPT ![i] = e]
    BY <1>4 DEF Finish
  <2> HIDE DEF e
  <2>4. /\ journal' \in Seq(Entry) /\ Len(journal') = Len(journal)
        /\ \A k \in 1..Len(journal) : journal'[k] = IF k = i THEN e ELSE journal[k]
    BY <2>1, <2>2, <2>3, ExceptSeq
  <2>5. deferred' = deferred
    BY <1>4 DEF Finish
  <2>6. DeferredIsNewest' /\ ModeFollowsCommands' /\ AdmittedOnce'
    <3>1. \A k \in 1..Len(journal) : /\ journal'[k].message = journal[k].message
                                     /\ journal'[k].mode = journal[k].mode
      BY <2>2, <2>4
    <3> QED
      BY <2>4, <2>5, <3>1, SameEntries DEF AdmissionInv
  <2>7. AdmissionTypeOK'
    BY <1>2, <1>4, <2>4, <2>5
       DEF AdmissionInv, AdmissionTypeOK, HandlersOK, HandlerState, Finish, WorldSame
  <2> QED
    BY <1>2, <2>6, <2>7 DEF AdmissionInv, HandlersOK
<1> QED
  BY <1>3, <1>4

----------------------------------------------------------------------------
(* The theorems.                                                           *)

LEMMA AdmissionInitInv == AdmissionInit => AdmissionInv
<1> SUFFICES ASSUME AdmissionInit PROVE AdmissionInv
  OBVIOUS
<1>1. IdleHandler \in HandlerState /\ HandlerOK(IdleHandler)
  <2>1. MaxTries \in Nat \ {0}
    BY AdmissionAssumption
  <2> QED
    BY <2>1 DEF IdleHandler, HandlerState, HandlerOK, Deferred, NoDeferred
<1>2. journal = <<>> /\ Len(journal) = 0 /\ journal \in Seq(Entry)
  BY DEF AdmissionInit
<1>3. Links = {} /\ Private = {}
  BY <1>2 DEF Links, Private
<1>4. AdmissionTypeOK
  BY <1>1, <1>2 DEF AdmissionInit, AdmissionTypeOK, Deferred, NoDeferred, HandlerState
<1>5. DeferredIsNewest
  BY <1>3 DEF DeferredIsNewest, AdmissionInit, NoDeferred
<1>6. ModeFollowsCommands /\ AdmittedOnce
  BY <1>3 DEF ModeFollowsCommands, AdmittedOnce
<1>7. \A h \in Handler : HandlerOK(handler[h])
  BY <1>1 DEF AdmissionInit
<1> QED
  BY <1>4, <1>5, <1>6, <1>7 DEF AdmissionInv

LEMMA AdmissionNextInv == AdmissionInv /\ [AdmissionNext]_admissionVars => AdmissionInv'
<1> SUFFICES ASSUME AdmissionInv, [AdmissionNext]_admissionVars PROVE AdmissionInv'
  OBVIOUS
<1>1. CASE AdmissionNext
  BY <1>1, HandlerSteps, ArmStep, MarkStep, AdmitStep, OtherSteps DEF AdmissionNext
<1>2. CASE UNCHANGED admissionVars
  <2>1. HandlersOK /\ handler' = handler
    BY <1>2 DEF AdmissionInv, AdmissionTypeOK, HandlersOK, HandlerState, admissionVars
  <2>2. HandlersOK'
    BY <2>1 DEF HandlersOK, HandlerOK, TypeOf, IsLink
  <2> QED
    BY <1>2, <2>2, QuietStep DEF AdmissionInv, AdmissionTypeOK, admissionVars, TablesSame
<1> QED
  BY <1>1, <1>2

\* The inductive invariant: the row of runtime_deferred_media speaks for the chat.
THEOREM AdmissionInvariance == AdmissionSpec => []AdmissionInv
  BY AdmissionInitInv, AdmissionNextInv, PTL DEF AdmissionSpec

\* Type correctness; the rounds of submit_telegram_media stay within their bound.
THEOREM AdmissionTypeCorrect == AdmissionSpec => []AdmissionTypeOK
<1>1. AdmissionInv => AdmissionTypeOK
  BY DEF AdmissionInv
<1> QED
  BY <1>1, AdmissionInvariance, PTL

\* A message has one operation, however often it is delivered.
THEOREM OneOperation == AdmissionSpec => []AdmittedOnce
<1>1. AdmissionInv => AdmittedOnce
  BY DEF AdmissionInv
<1> QED
  BY <1>1, AdmissionInvariance, PTL

\* A plain link gets the mode of the newest command that is its own to use.
THEOREM RightModes == AdmissionSpec => []ModeFollowsCommands
<1>1. AdmissionInv => ModeFollowsCommands
  BY DEF AdmissionInv
<1> QED
  BY <1>1, AdmissionInvariance, PTL

\* What is armed stays armed until a newer message or a new operation takes it.
THEOREM StaysArmed == AdmissionSpec => ArmedUntilUsed
<1> DEFINE Kept == /\ deferred' # deferred =>
                          deferred'.message > deferred.message /\ Len(journal') > Len(journal)
                   /\ mark /\ ~mark' =>
                          Len(journal') > Len(journal) /\ journal'[Len(journal')].forced
<1>1. AdmissionInv /\ [AdmissionNext]_admissionVars => [Kept]_admissionVars
  <2> SUFFICES ASSUME AdmissionInv, AdmissionNext PROVE Kept
    OBVIOUS
  <2>1. /\ journal \in Seq(Entry) /\ Len(journal) \in Nat
        /\ deferred \in Deferred /\ deferred.message \in Nat /\ mark \in BOOLEAN
    BY LenProperties DEF AdmissionInv, AdmissionTypeOK, Deferred
  <2>2. ASSUME NEW e, journal' = Append(journal, e)
        PROVE  Len(journal') > Len(journal) /\ journal'[Len(journal')] = e
    BY <2>1, <2>2
  <2>3. ASSUME NEW h \in Handler, Arm(h) PROVE Kept
    <3>1. MessageOf(h) \in Nat
      BY <2>3, HandlerTyped, AdmissionAssumption DEF Arm, At, MessageOf, HandlerOK
    <3>2. mark' = mark
      BY <2>3 DEF Arm
    <3>3. deferred' # deferred => deferred'.message > deferred.message /\ Len(journal') > Len(journal)
      BY <2>1, <2>2, <2>3, <3>1 DEF Arm, Enter, Watermark
    <3> QED
      BY <3>2, <3>3
  <2>4. ASSUME NEW h \in Handler, Mark(h) PROVE Kept
    BY <2>4 DEF Mark
  <2>5. ASSUME NEW h \in Handler, Admit(h) PROVE Kept
    <3>1. MessageOf(h) \in Nat
      BY <2>5, HandlerTyped, AdmissionAssumption DEF Admit, At, MessageOf, HandlerOK
    <3>2. CASE TablesSame
      BY <3>2 DEF TablesSame
    <3>3. CASE Insert(h)
      <4> DEFINE m == MessageOf(h)
                 e == [message |-> m, mode |-> ResolvedMode(m, handler[h].expected), forced |-> mark,
                       at |-> clock, pending |-> IsLink(m)]
      <4>1. /\ journal' = Append(journal, e) /\ e.forced = mark
            /\ deferred' = IF IsMedia(m) THEN Watermark(m, NoMode) ELSE deferred
        BY <3>3 DEF Insert, Enter
      <4> HIDE DEF e
      <4>2. Len(journal') > Len(journal) /\ journal'[Len(journal')].forced = mark
        BY <2>2, <4>1
      <4>3. deferred' # deferred => deferred'.message > deferred.message
        BY <2>1, <3>1, <4>1 DEF Watermark
      <4> QED
        BY <4>2, <4>3
    <3> QED
      BY <2>5, <3>2, <3>3 DEF Admit
  <2>6. CASE deferred' = deferred /\ mark' = mark
    BY <2>6
  <2> QED
    BY <2>3, <2>4, <2>5, <2>6
       DEF AdmissionNext, Deliver, Authorize, Replay, Read, Prepare, Conflict, Recheck, Abort,
           Tick, ChangeAuthority, ChangeLimits, Finish, TablesSame
<1> QED
  BY <1>1, AdmissionInvariance, PTL DEF AdmissionSpec, ArmedUntilUsed

\* Both together: a message has at most one operation, in rows that keep their shape.
THEOREM OneOperationEachMessage == AdmissionSpec => []OneOperationEach
<1>1. AdmissionInv => OneOperationEach
  BY DEF AdmissionInv, OneOperationEach
<1> QED
  BY <1>1, AdmissionInvariance, PTL

----------------------------------------------------------------------------
(* The quotas.                                                             *)

\* The largest limit that window w may have.
MaxLimit(w) == Max({l[w] : l \in LimitChoices})

\* When the operations of a set L were admitted.
Times == [j \in Links |-> journal[j].at]

\* A window with counter r and duration D, of operations L admitted at the times
\* `at`, at the time c.  M is its largest limit.  It began with an admission; all
\* that came before it ended a window's length ago, but for fewer than M.
WindowFacts(L, at, r, c, D, M) ==
    LET start == r.reset - D
    IN  /\ r.count = Cardinality({j \in L : at[j] >= start}) /\ r.count <= M
        /\ r.reset <= c + D
        /\ r.reset = 0 => L = {}
        /\ r.reset # 0 => \E j \in L : at[j] = start
        /\ \A j \in L : at[j] < r.reset
        /\ Cardinality({j \in L : start - D < at[j] /\ at[j] < start}) < M
        /\ \A i \in L : Cardinality({j \in L : at[j] >= at[i] /\ at[j] < at[i] + D}) < 2 * M

QuotaInv ==
    /\ \A j \in Links : journal[j].at <= clock
    /\ ~IsOwner => \A w \in Window : WindowFacts(Links, Times, rates[w], clock, Duration[w], MaxLimit(w))

\* The operations of a span that begins when operation i was admitted.
SpanOf(L, at, i, D) == {j \in L : at[j] >= at[i] /\ at[j] < at[i] + D}

\* A subset has no more elements; two sets together no more than both.
LEMMA Fewer ==
    ASSUME NEW S, IsFiniteSet(S), NEW T, T \subseteq S
    PROVE  IsFiniteSet(T) /\ Cardinality(T) \in Nat /\ Cardinality(S) \in Nat /\ Cardinality(T) <= Cardinality(S)
  BY FS_Subset, FS_CardinalityType

LEMMA FewerThanBoth ==
    ASSUME NEW S, IsFiniteSet(S), NEW T, IsFiniteSet(T), NEW U, U \subseteq S \cup T
    PROVE  Cardinality(U) <= Cardinality(S) + Cardinality(T)
<1>1. IsFiniteSet(S \cup T) /\ Cardinality(S \cup T) = Cardinality(S) + Cardinality(T) - Cardinality(S \cap T)
  BY FS_Union
<1>2. IsFiniteSet(S \cap T)
  BY FS_Intersection
<1>3. /\ Cardinality(S) \in Nat /\ Cardinality(T) \in Nat /\ Cardinality(S \cap T) \in Nat
      /\ Cardinality(S \cup T) \in Nat /\ Cardinality(U) \in Nat
      /\ Cardinality(U) <= Cardinality(S \cup T)
  BY <1>1, <1>2, FS_CardinalityType, Fewer
<1> QED
  BY <1>1, <1>3

\* Time goes on.
LEMMA WindowLater ==
    ASSUME NEW L, NEW at, NEW r \in [count: Nat, reset: Nat], NEW c \in Nat, NEW D \in Nat, NEW M,
           WindowFacts(L, at, r, c, D, M)
    PROVE  WindowFacts(L, at, r, c + 1, D, M)
  BY DEF WindowFacts

\* One more operation in a window that goes on.
LEMMA WindowGoesOn ==
    ASSUME NEW L, IsFiniteSet(L), NEW at \in [L -> Nat], NEW n, n \notin L,
           NEW c \in Nat, \A j \in L : at[j] <= c,
           NEW at2 \in [L \cup {n} -> Nat], \A j \in L : at2[j] = at[j], at2[n] = c,
           NEW r \in [count: Nat, reset: Nat], NEW D \in Nat \ {0}, NEW M \in Nat \ {0},
           WindowFacts(L, at, r, c, D, M), r.reset > c, r.count < M
    PROVE  WindowFacts(L \cup {n}, at2, [r EXCEPT !.count = @ + 1], c, D, M)
<1> DEFINE s == r.reset - D
           K == L \cup {n}
           r2 == [r EXCEPT !.count = @ + 1]
           In == {j \in L : at[j] >= s}
           Early == {j \in L : s - D < at[j] /\ at[j] < s}
<1>1. /\ s \in Int /\ s <= c /\ r.count \in Nat /\ r2.count = r.count + 1 /\ r2.reset = r.reset
      /\ IsFiniteSet(K) /\ r.reset \in Nat
  BY FS_AddElement DEF WindowFacts
<1>2. {j \in K : at2[j] >= s} = In \cup {n}
  BY <1>1
<1>3. IsFiniteSet(In) /\ n \notin In /\ Cardinality(In) = r.count
  BY Fewer DEF WindowFacts
<1>4. Cardinality({j \in K : at2[j] >= s}) = r.count + 1
  <2> HIDE DEF In
  <2> QED
    BY <1>2, <1>3, FS_AddElement
<1>5. {j \in K : s - D < at2[j] /\ at2[j] < s} = Early
  BY <1>1
<1>6. IsFiniteSet(Early) /\ Cardinality(Early) < M /\ Cardinality(Early) \in Nat
  BY Fewer DEF WindowFacts
<1>7. ASSUME NEW i \in K
      PROVE  Cardinality(SpanOf(K, at2, i, D)) < 2 * M
  <2>1. at2[i] \in Nat
    OBVIOUS
  <2>2. CASE at2[i] >= s
    <3>1. SpanOf(K, at2, i, D) \subseteq In \cup {n}
      BY <1>2, <2>1, <2>2, <1>1 DEF SpanOf
    <3> HIDE DEF In
    <3> DEFINE In2 == In \cup {n}
               Sp == SpanOf(K, at2, i, D)
    <3>2. Cardinality(In2) = r.count + 1 /\ IsFiniteSet(In2) /\ Sp \subseteq In2
      BY <1>3, <3>1, FS_AddElement
    <3> HIDE DEF In2, Sp
    <3>3. Cardinality(Sp) <= r.count + 1 /\ Cardinality(Sp) \in Nat
      BY <3>2, Fewer
    <3>4. r.count + 1 <= M /\ M < 2 * M /\ r.count \in Nat
      BY <1>1
    <3> QED
      BY <3>3, <3>4 DEF Sp
  <2>3. CASE at2[i] < s /\ at2[i] > s - D
    <3>1. SpanOf(K, at2, i, D) \subseteq Early \cup (In \cup {n})
      BY <1>1, <2>1, <2>3 DEF SpanOf
    <3> HIDE DEF In, Early
    <3>2. Cardinality(In \cup {n}) = r.count + 1 /\ IsFiniteSet(In \cup {n})
      BY <1>3, FS_AddElement
    <3>3. Cardinality(SpanOf(K, at2, i, D)) <= Cardinality(Early) + (r.count + 1)
      BY <1>6, <3>1, <3>2, FewerThanBoth
    <3>4. IsFiniteSet(SpanOf(K, at2, i, D))
      BY <1>1, Fewer DEF SpanOf
    <3> QED
      BY <1>1, <1>6, <3>3, <3>4, FS_CardinalityType
  <2>4. CASE at2[i] <= s - D
    <3>1. i \in L /\ at2[i] = at[i] /\ at[i] \in Nat
      BY <1>1, <2>4
    <3>2. SpanOf(K, at2, i, D) = SpanOf(L, at, i, D)
      BY <1>1, <2>4, <3>1 DEF SpanOf
    <3> QED
      BY <3>1, <3>2 DEF WindowFacts, SpanOf
  <2> QED
    BY <1>1, <2>1, <2>2, <2>3, <2>4
<1>8. r2.reset <= c + D /\ r2.reset # 0 /\ r2.count <= M
  BY <1>1 DEF WindowFacts
<1>9. (\E j \in K : at2[j] = s) /\ \A j \in K : at2[j] < r2.reset
  BY <1>1 DEF WindowFacts
<1> HIDE DEF Early
<1> QED
  BY <1>1, <1>4, <1>5, <1>6, <1>7, <1>8, <1>9 DEF WindowFacts, SpanOf

\* The first operation of a window.
LEMMA WindowBegins ==
    ASSUME NEW L, IsFiniteSet(L), NEW at \in [L -> Nat], NEW n, n \notin L,
           NEW c \in Nat, \A j \in L : at[j] <= c,
           NEW at2 \in [L \cup {n} -> Nat], \A j \in L : at2[j] = at[j], at2[n] = c,
           NEW r \in [count: Nat, reset: Nat], NEW D \in Nat \ {0}, NEW M \in Nat \ {0},
           WindowFacts(L, at, r, c, D, M), r.reset <= c
    PROVE  WindowFacts(L \cup {n}, at2, [count |-> 1, reset |-> c + D], c, D, M)
<1> DEFINE s == r.reset - D
           K == L \cup {n}
           r2 == [count |-> 1, reset |-> c + D]
           In == {j \in L : at[j] >= s}
           Late == {j \in K : c - D < at2[j] /\ at2[j] < c}
<1>1. /\ s \in Int /\ r.count \in Nat /\ r.reset \in Nat /\ r2.reset - D = c /\ IsFiniteSet(K)
      /\ \A j \in L : at[j] < c /\ at[j] \in Nat
  BY FS_AddElement DEF WindowFacts
<1>2. {j \in K : at2[j] >= c} = {n}
  BY <1>1
<1>3. Cardinality({j \in K : at2[j] >= c}) = 1
  BY <1>2, FS_Singleton
<1>4. IsFiniteSet(Late) /\ Cardinality(Late) \in Nat /\ Cardinality(Late) < M
  <2>1. CASE r.reset = 0
    <3>1. Late = {}
      BY <2>1, <1>1 DEF WindowFacts
    <3> QED
      BY <3>1, FS_EmptySet
  <2>2. CASE r.reset # 0
    <3>1. PICK j \in L : at[j] = s
      BY <2>2 DEF WindowFacts
    <3>2. j \in In /\ Late \subseteq In \ {j}
      BY <1>1, <3>1
    <3>3. IsFiniteSet(In) /\ Cardinality(In) = r.count /\ r.count <= M
      BY Fewer DEF WindowFacts
    <3> HIDE DEF In, Late
    <3>4. IsFiniteSet(In \ {j}) /\ Cardinality(In \ {j}) = r.count - 1
      BY <3>2, <3>3, FS_RemoveElement
    <3>5. IsFiniteSet(Late) /\ Cardinality(Late) \in Nat /\ Cardinality(Late) <= r.count - 1
      BY <3>2, <3>4, Fewer
    <3> QED
      BY <1>1, <3>3, <3>5
  <2> QED
    BY <2>1, <2>2
<1>5. ASSUME NEW i \in K
      PROVE  Cardinality(SpanOf(K, at2, i, D)) < 2 * M
  <2>1. at2[i] \in Nat /\ at2[i] <= c
    BY <1>1
  <2>2. CASE at2[i] > c - D
    <3>1. SpanOf(K, at2, i, D) \subseteq Late \cup {n}
      BY <1>1, <2>1, <2>2 DEF SpanOf
    <3> HIDE DEF Late
    <3>2. IsFiniteSet({n}) /\ Cardinality({n}) = 1
      BY FS_Singleton
    <3>3. Cardinality(SpanOf(K, at2, i, D)) <= Cardinality(Late) + 1
      BY <1>4, <3>1, <3>2, FewerThanBoth
    <3>4. IsFiniteSet(SpanOf(K, at2, i, D))
      BY <1>1, Fewer DEF SpanOf
    <3> QED
      BY <1>4, <3>3, <3>4, FS_CardinalityType
  <2>3. CASE at2[i] <= c - D
    <3>1. i \in L /\ at2[i] = at[i]
      BY <2>3
    <3>2. SpanOf(K, at2, i, D) = SpanOf(L, at, i, D)
      BY <1>1, <2>3, <3>1 DEF SpanOf
    <3> QED
      BY <3>1, <3>2 DEF WindowFacts, SpanOf
  <2> QED
    BY <2>1, <2>2, <2>3
<1>6. (\E j \in K : at2[j] = c) /\ \A j \in K : at2[j] < c + D
  BY <1>1
<1> HIDE DEF Late
<1> QED
  BY <1>1, <1>3, <1>4, <1>5, <1>6 DEF WindowFacts, SpanOf, Late

\* The largest of the limits is one of them.
LEMMA LargestLimit ==
    ASSUME NEW w \in Window
    PROVE  /\ MaxLimit(w) \in Nat \ {0}
           /\ \A l \in LimitChoices : l[w] <= MaxLimit(w)
<1> DEFINE S == {l[w] : l \in LimitChoices}
<1>1. PICK l \in LimitChoices : \A k \in LimitChoices : k[w] <= l[w]
  BY QuotaAssumption
<1>2. \A k \in LimitChoices : k[w] \in Nat \ {0}
  BY AdmissionAssumption
<1>3. l[w] \in S /\ \A x \in S : l[w] >= x
  BY <1>1, <1>2
<1>4. MaxLimit(w) = CHOOSE x \in S : \A y \in S : x >= y
  BY DEF MaxLimit, Max
<1> HIDE DEF S
<1>5. MaxLimit(w) \in S /\ \A y \in S : MaxLimit(w) >= y
  BY <1>3, <1>4
<1> USE DEF S
<1> QED
  BY <1>2, <1>5

\* The links and their times depend on the entries.
LEMMA SameTimes ==
    ASSUME Len(journal') = Len(journal),
           \A i \in 1..Len(journal) : /\ journal'[i].message = journal[i].message
                                      /\ journal'[i].at = journal[i].at
    PROVE  Links' = Links /\ Times' = Times
<1>1. Links' = Links
  BY DEF Links, IsLink, TypeOf
<1>2. Links \subseteq 1..Len(journal)
  BY DEF Links
<1> QED
  BY <1>1, <1>2 DEF Times

LEMMA TimesTyped ==
    ASSUME AdmissionTypeOK
    PROVE  /\ Len(journal) \in Nat /\ Links \subseteq 1..Len(journal) /\ IsFiniteSet(Links)
           /\ Times \in [Links -> Nat] /\ \A j \in Links : Times[j] = journal[j].at
<1>1. Len(journal) \in Nat /\ Links \subseteq 1..Len(journal)
  BY LenProperties DEF AdmissionTypeOK, Links
<1>2. IsFiniteSet(Links)
  <2>1. PICK k \in Nat : k = Len(journal)
    BY <1>1
  <2>2. IsFiniteSet(1..k)
    BY FS_Interval
  <2> QED
    BY <1>1, <2>1, <2>2, FS_Subset
<1>3. \A j \in Links : journal[j].at \in Nat
  <2>1. \A j \in Links : journal[j] \in Entry
    BY <1>1, ElementOfSeq DEF AdmissionTypeOK
  <2> QED
    BY <2>1 DEF Entry
<1> QED
  BY <1>1, <1>2, <1>3 DEF Times

\* A step that neither charges nor inserts.
LEMMA QuotaQuiet ==
    ASSUME AdmissionTypeOK, QuotaInv, Links' = Links, Times' = Times, rates' = rates,
           clock' = clock \/ clock' = clock + 1,
           \A j \in Links : journal'[j].at = journal[j].at
    PROVE  QuotaInv'
<1>1. /\ clock \in Nat /\ \A w \in Window : Duration[w] \in Nat /\ rates[w] \in [count: Nat, reset: Nat]
      /\ \A j \in Links : Times[j] \in Nat /\ Times[j] = journal[j].at
  BY TimesTyped, AdmissionAssumption DEF AdmissionTypeOK
<1>2. \A j \in Links' : journal'[j].at <= clock'
  BY <1>1 DEF QuotaInv
<1>3. ASSUME ~IsOwner, NEW w \in Window
      PROVE  WindowFacts(Links, Times, rates[w], clock', Duration[w], MaxLimit(w))
  <2>1. WindowFacts(Links, Times, rates[w], clock, Duration[w], MaxLimit(w))
    BY <1>3 DEF QuotaInv
  <2>2. WindowFacts(Links, Times, rates[w], clock + 1, Duration[w], MaxLimit(w))
    BY <1>1, <2>1, WindowLater
  <2> QED
    BY <2>1, <2>2
<1>4. \A w \in Window : MaxLimit(w)' = MaxLimit(w)
  BY DEF MaxLimit
<1> QED
  BY <1>2, <1>3, <1>4 DEF QuotaInv

\* The windows that refuse at `now` are the full ones that have not ended.
LEMMA FullWindows ==
    ASSUME AdmissionTypeOK, NEW now \in Nat
    PROVE  /\ Full(now) \subseteq {"minute", "hour", "day"} /\ Full(now) \subseteq Window
           /\ \A w \in Window : /\ rates[w].reset \in Nat /\ rates[w].count \in Nat
                                /\ limits[w] \in Nat \ {0} /\ Duration[w] \in Nat \ {0}
                                /\ w \in Full(now) <=> rates[w].reset > now /\ rates[w].count >= limits[w]
           /\ \A w \in Full(now) : CurrentRate(w, now) = rates[w]
<1>1. \A w \in Window : /\ rates[w] \in [count: Nat, reset: Nat]
                        /\ limits[w] \in Nat \ {0} /\ Duration[w] \in Nat \ {0}
  BY AdmissionAssumption DEF AdmissionTypeOK
<1>2. \A w \in Window : w \in Full(now) <=> rates[w].reset > now /\ rates[w].count >= limits[w]
  BY <1>1 DEF Full, CurrentRate
<1>3. Full(now) \subseteq Window
  BY DEF Full
<1>4. \A w \in Full(now) : CurrentRate(w, now) = rates[w]
  BY <1>2, <1>3 DEF CurrentRate
<1> QED
  BY <1>1, <1>2, <1>3, <1>4, QuotaAssumption

\* One of three windows is the last to end.
LEMMA LastOfThree ==
    ASSUME NEW F \in SUBSET {"minute", "hour", "day"}, F # {}, NEW f \in [F -> Int]
    PROVE  \E w \in F : \A v \in F : f[v] <= f[w]
<1> SUFFICES ASSUME \A w \in F : \E v \in F : ~(f[v] <= f[w]) PROVE FALSE
  OBVIOUS
<1>1. PICK w1 \in F : TRUE
  OBVIOUS
<1>2. PICK w2 \in F : ~(f[w2] <= f[w1])
  OBVIOUS
<1>3. PICK w3 \in F : ~(f[w3] <= f[w2])
  OBVIOUS
<1>4. PICK w4 \in F : ~(f[w4] <= f[w3])
  OBVIOUS
<1>5. f[w1] \in Int /\ f[w2] \in Int /\ f[w3] \in Int /\ f[w4] \in Int
  OBVIOUS
<1>6. w1 # w2 /\ w1 # w3 /\ w1 # w4 /\ w2 # w3 /\ w2 # w4 /\ w3 # w4
  BY <1>2, <1>3, <1>4, <1>5
<1> QED
  BY <1>6

\* Seconds, rounded up.
LEMMA RoundedUp ==
    ASSUME NEW n \in Nat \ {0}, NEW d \in Nat \ {0}
    PROVE  /\ CeilDiv(n, d) \in Nat \ {0}
           /\ (CeilDiv(n, d) - 1) * d < n /\ n <= CeilDiv(n, d) * d
  BY DEF CeilDiv

\* What a refused submission is told: the time until the last of the full windows ends.
LEMMA LongestWait ==
    ASSUME AdmissionTypeOK, NEW now \in Nat, ~IsOwner, Full(now) # {}
    PROVE  /\ RetryAfter(now) \in Nat \ {0}
           /\ \E w \in Full(now) : RetryAfter(now) = CeilDiv(rates[w].reset - now, Second)
           /\ \A w \in Full(now) : CeilDiv(rates[w].reset - now, Second) <= RetryAfter(now)
<1> DEFINE F == Full(now)
           f == [w \in F |-> CeilDiv(rates[w].reset - now, Second)]
           S == {CeilDiv(CurrentRate(w, now).reset - now, Second) : w \in F}
<1>1. \A w \in F : f[w] \in Nat \ {0}
  <2>1. ASSUME NEW w \in F PROVE CeilDiv(rates[w].reset - now, Second) \in Nat \ {0}
    <3>1. PICK n \in Nat \ {0} : n = rates[w].reset - now
      BY <2>1, FullWindows
    <3>2. Second \in Nat \ {0}
      BY AdmissionAssumption
    <3> QED
      BY <3>1, <3>2, RoundedUp
  <2> QED
    BY <2>1
<1>2. PICK w \in F : \A v \in F : f[v] <= f[w]
  <2>1. F \in SUBSET {"minute", "hour", "day"} /\ f \in [F -> Int] /\ F # {}
    BY <1>1, FullWindows
  <2> HIDE DEF F, f
  <2> QED
    BY <2>1, LastOfThree
<1>3. f[w] \in S /\ \A x \in S : f[w] >= x
  <2>1. \A v \in F : CurrentRate(v, now).reset = rates[v].reset
    BY FullWindows
  <2>2. \A v \in F : f[v] = CeilDiv(CurrentRate(v, now).reset - now, Second)
    BY <2>1
  <2> HIDE DEF F, f
  <2> QED
    BY <1>2, <2>2
<1>4. RetryAfter(now) = CHOOSE x \in S : \A y \in S : x >= y
  BY DEF RetryAfter, Max
<1>5. RetryAfter(now) \in S /\ \A y \in S : RetryAfter(now) >= y
  <2> HIDE DEF S, f
  <2> QED
    BY <1>3, <1>4
<1>6. PICK v \in F : RetryAfter(now) = f[v]
  <2>1. \A u \in F : CurrentRate(u, now).reset = rates[u].reset
    BY FullWindows
  <2> QED
    BY <1>5, <2>1
<1>7. \A u \in F : RetryAfter(now) >= f[u]
  <2>1. \A u \in F : CurrentRate(u, now).reset = rates[u].reset
    BY FullWindows
  <2> QED
    BY <1>5, <2>1
<1> QED
  BY <1>1, <1>6, <1>7

LEMMA ChargedWhenFree ==
    ASSUME AdmissionTypeOK, NEW now \in Nat
    PROVE  RetryAfter(now) = 0 <=> IsOwner \/ Full(now) = {}
<1>1. IsOwner \/ Full(now) = {} => RetryAfter(now) = 0
  BY DEF RetryAfter
<1> QED
  BY <1>1, LongestWait

\* An admission: every window that goes on is charged, and every other begins.
LEMMA QuotaInsert ==
    ASSUME AdmissionTypeOK, QuotaInv, NEW e \in Entry, IsLink(e.message), e.at = clock,
           journal' = Append(journal, e), clock' = clock,
           RetryAfter(clock) = 0, rates' = Charged(clock)
    PROVE  QuotaInv'
<1>1. /\ clock \in Nat /\ Len(journal) \in Nat /\ Links \subseteq 1..Len(journal) /\ IsFiniteSet(Links)
      /\ Times \in [Links -> Nat] /\ \A j \in Links : Times[j] = journal[j].at /\ Times[j] <= clock
  BY TimesTyped DEF AdmissionTypeOK, QuotaInv
<1> PICK n \in Nat : n = Len(journal) + 1
  BY <1>1
<1>2. /\ journal \in Seq(Entry) /\ journal' \in Seq(Entry) /\ Len(journal') = n
      /\ \A i \in 1..Len(journal) : journal'[i] = journal[i]
      /\ journal'[n] = e
  BY AppendEntry DEF AdmissionTypeOK
<1>3. n \notin Links /\ \A i : i \in 1..n <=> i \in 1..Len(journal) \/ i = n
  BY <1>1
<1>4. Links' = Links \cup {n}
  BY <1>1, <1>2, <1>3 DEF Links, IsLink, TypeOf
<1>5. Times' \in [Links \cup {n} -> Nat] /\ Times'[n] = clock /\ \A j \in Links : Times'[j] = Times[j]
  <2>1. Times' = [j \in Links \cup {n} |-> journal'[j].at]
    BY <1>4 DEF Times
  <2>2. \A j \in Links : journal'[j].at = journal[j].at
    BY <1>1, <1>2
  <2> QED
    BY <1>1, <1>2, <2>1, <2>2
<1>6. \A j \in Links' : journal'[j].at <= clock'
  <2>1. \A j \in Links : journal'[j].at = Times[j]
    BY <1>1, <1>2
  <2> QED
    BY <1>1, <1>2, <1>4, <2>1
<1>7. ASSUME ~IsOwner, NEW w \in Window
      PROVE  WindowFacts(Links', Times', rates'[w], clock', Duration[w], MaxLimit(w))
  <2> DEFINE r == rates[w]
             D == Duration[w]
             M == MaxLimit(w)
  <2>1. /\ r \in [count: Nat, reset: Nat] /\ D \in Nat \ {0} /\ M \in Nat \ {0}
        /\ limits[w] <= M /\ limits[w] \in Nat \ {0}
    BY AdmissionAssumption, LargestLimit DEF AdmissionTypeOK
  <2>2. Full(clock) = {}
    BY <1>1, <1>7, ChargedWhenFree
  <2>3. r.reset > clock => r.count < limits[w]
    BY <1>1, <2>1, <2>2, FullWindows
  <2>4. rates'[w] = [CurrentRate(w, clock) EXCEPT !.count = @ + 1]
    BY <1>7 DEF Charged
  <2>5. WindowFacts(Links, Times, r, clock, D, M)
    BY <1>7 DEF QuotaInv
  <2>6. \A j \in Links : Times[j] <= clock
    BY <1>1
  <2> HIDE DEF M
  <2>7. CASE r.reset > clock
    <3>1. rates'[w] = [r EXCEPT !.count = @ + 1] /\ r.count < M
      BY <2>1, <2>3, <2>4, <2>7 DEF CurrentRate
    <3> DEFINE T2 == Times'
    <3>2. T2 \in [Links \cup {n} -> Nat] /\ T2[n] = clock /\ \A j \in Links : T2[j] = Times[j]
      BY <1>5
    <3> HIDE DEF T2, r, D
    <3>3. WindowFacts(Links \cup {n}, T2, [r EXCEPT !.count = @ + 1], clock, D, M)
      BY <1>1, <1>3, <2>1, <2>5, <2>6, <2>7, <3>1, <3>2, WindowGoesOn
    <3> QED
      BY <1>4, <3>1, <3>3 DEF T2, D, M
  <2>8. CASE ~(r.reset > clock)
    <3>1. rates'[w] = [count |-> 1, reset |-> clock + D] /\ r.reset <= clock
      <4>1. CurrentRate(w, clock) = [count |-> 0, reset |-> clock + D]
        BY <2>8 DEF CurrentRate
      <4>2. rates'[w] = [[count |-> 0, reset |-> clock + D] EXCEPT !.count = @ + 1]
        BY <2>4, <4>1
      <4>3. r.reset \in Nat /\ r.reset <= clock
        BY <1>1, <2>1, <2>8
      <4> QED
        BY <4>2, <4>3
    <3> DEFINE T2 == Times'
    <3>2. T2 \in [Links \cup {n} -> Nat] /\ T2[n] = clock /\ \A j \in Links : T2[j] = Times[j]
      BY <1>5
    <3> HIDE DEF T2, r, D
    <3>3. WindowFacts(Links \cup {n}, T2, [count |-> 1, reset |-> clock + D], clock, D, M)
      BY <1>1, <1>3, <2>1, <2>5, <2>6, <3>1, <3>2, WindowBegins
    <3> QED
      BY <1>4, <3>1, <3>3 DEF T2, D, M
  <2> QED
    BY <2>7, <2>8
<1>8. \A w \in Window : MaxLimit(w)' = MaxLimit(w)
  BY DEF MaxLimit
<1> QED
  BY <1>6, <1>7, <1>8 DEF QuotaInv

LEMMA QuotaInitInv == AdmissionInit => QuotaInv
<1> SUFFICES ASSUME AdmissionInit PROVE QuotaInv
  OBVIOUS
<1>1. Links = {}
  BY DEF AdmissionInit, Links
<1>2. ASSUME NEW w \in Window PROVE WindowFacts(Links, Times, rates[w], clock, Duration[w], MaxLimit(w))
  <2>1. rates[w] = [count |-> 0, reset |-> 0] /\ clock = 0
    BY DEF AdmissionInit
  <2>2. MaxLimit(w) \in Nat \ {0} /\ Duration[w] \in Nat \ {0}
    BY LargestLimit, AdmissionAssumption
  <2>3. \A T : {j \in {} : T[j]} = {}
    OBVIOUS
  <2> QED
    BY <1>1, <2>1, <2>2, FS_EmptySet DEF WindowFacts
<1> QED
  BY <1>1, <1>2 DEF QuotaInv

LEMMA QuotaNextInv == AdmissionInv /\ QuotaInv /\ [AdmissionNext]_admissionVars => QuotaInv'
<1> SUFFICES ASSUME AdmissionInv, QuotaInv, [AdmissionNext]_admissionVars PROVE QuotaInv'
  OBVIOUS
<1>0. /\ AdmissionTypeOK /\ Len(journal) \in Nat /\ Links \subseteq 1..Len(journal) /\ journal \in Seq(Entry)
  BY TimesTyped DEF AdmissionInv, AdmissionTypeOK
<1>1. ASSUME journal' = journal, rates' = rates, clock' = clock \/ clock' = clock + 1 PROVE QuotaInv'
  <2>1. Links' = Links /\ Times' = Times
    BY <1>1 DEF Links, Times, IsLink, TypeOf
  <2>2. \A j \in Links : journal'[j].at = journal[j].at
    BY <1>1
  <2> QED
    BY <1>0, <1>1, <2>1, <2>2, QuotaQuiet
<1>2. ASSUME NEW e \in Entry, ~IsLink(e.message), journal' = Append(journal, e),
             rates' = rates, clock' = clock
      PROVE  QuotaInv'
  <2> PICK n \in Nat : n = Len(journal) + 1
    BY <1>0
  <2>1. /\ Len(journal') = n /\ journal'[n] = e
        /\ \A i \in 1..Len(journal) : journal'[i] = journal[i]
    BY <1>0, <1>2, AppendEntry
  <2>2. \A i : i \in 1..n <=> i \in 1..Len(journal) \/ i = n
    BY <1>0
  <2>3. Links' = Links
    BY <1>2, <2>1, <2>2 DEF Links, IsLink, TypeOf
  <2>4. \A j \in Links : journal'[j].at = journal[j].at
    BY <1>0, <2>1
  <2>5. Times' = Times
    BY <2>3, <2>4 DEF Times
  <2> QED
    BY <1>0, <1>2, <2>3, <2>4, <2>5, QuotaQuiet
<1>3. ASSUME NEW h \in Handler, Arm(h) PROVE QuotaInv'
  <2> DEFINE m == MessageOf(h)
             e == [message |-> m, mode |-> Kind[m].mode, forced |-> FALSE, at |-> clock, pending |-> IsLink(m)]
  <2>1. m \in Message /\ TypeOf(m) = "arm" /\ clock \in Nat
    BY <1>3, HandlerTyped DEF Arm, At, HandlerOK, MessageOf
  <2>5. Kind[m].mode \in Mode
    BY <2>1, AdmissionAssumption
  <2>2. e \in Entry /\ e.message = m
    BY <2>1, <2>5 DEF Entry, IsLink
  <2>3. rates' = rates /\ clock' = clock /\ (journal' = journal \/ journal' = Append(journal, e))
    BY <1>3 DEF Arm, Enter, WorldSame
  <2>4. ~IsLink(m)
    BY <2>1 DEF IsLink
  <2> HIDE DEF e, m
  <2> QED
    BY <1>1, <1>2, <2>2, <2>3, <2>4
<1>4. ASSUME NEW h \in Handler, Mark(h) PROVE QuotaInv'
  <2> DEFINE m == MessageOf(h)
             e == [message |-> m, mode |-> Kind[m].mode, forced |-> FALSE, at |-> clock, pending |-> IsLink(m)]
  <2>1. m \in Message /\ TypeOf(m) = "mark" /\ clock \in Nat
    BY <1>4, HandlerTyped DEF Mark, At, HandlerOK, MessageOf
  <2>5. Kind[m].mode \in Mode
    BY <2>1, AdmissionAssumption
  <2>2. e \in Entry /\ e.message = m
    BY <2>1, <2>5 DEF Entry, IsLink
  <2>3. rates' = rates /\ clock' = clock /\ (journal' = journal \/ journal' = Append(journal, e))
    BY <1>4 DEF Mark, Enter, WorldSame
  <2>4. ~IsLink(m)
    BY <2>1 DEF IsLink
  <2> HIDE DEF e, m
  <2> QED
    BY <1>1, <1>2, <2>2, <2>3, <2>4
<1>5. ASSUME NEW h \in Handler, Admit(h) PROVE QuotaInv'
  <2>1. CASE TablesSame
    BY <1>1, <1>5, <2>1 DEF Admit, TablesSame, WorldSame
  <2>2. CASE Insert(h)
    <3> DEFINE m == MessageOf(h)
               e == [message |-> m, mode |-> ResolvedMode(m, handler[h].expected), forced |-> mark,
                     at |-> clock, pending |-> IsLink(m)]
    <3>1. /\ m \in Message /\ IsLink(m) /\ clock \in Nat /\ mark \in BOOLEAN
          /\ handler[h].expected \in Deferred
      BY <1>5, HandlerTyped DEF Admit, At, HandlerOK, MessageOf, HandlerState, AdmissionInv, AdmissionTypeOK
    <3>2. ResolvedMode(m, handler[h].expected) \in Mode
      BY <3>1, AdmissionAssumption DEF ResolvedMode, Deferred
    <3>3. e \in Entry /\ e.message = m /\ e.at = clock
      BY <3>1, <3>2 DEF Entry, IsLink
    <3>4. /\ journal' = Append(journal, e) /\ clock' = clock
          /\ RetryAfter(clock) = 0 /\ rates' = Charged(clock)
      BY <1>5, <2>2 DEF Insert, Enter, Admit, WorldSame
    <3> HIDE DEF e, m
    <3> QED
      BY <1>0, <3>1, <3>3, <3>4, QuotaInsert
  <2> QED
    BY <1>5, <2>1, <2>2 DEF Admit
<1>6. ASSUME NEW i \in 1..Len(journal), Finish(i) PROVE QuotaInv'
  <2> DEFINE e == [journal[i] EXCEPT !.pending = FALSE]
  <2>1. \A k \in 1..Len(journal) : journal[k] \in Entry
    BY <1>0, ElementOfSeq
  <2>2. e \in Entry /\ e.message = journal[i].message /\ e.at = journal[i].at
    BY <2>1 DEF Entry
  <2>3. journal' = [journal EXCEPT ![i] = e] /\ rates' = rates /\ clock' = clock
    BY <1>6 DEF Finish, WorldSame
  <2> HIDE DEF e
  <2>4. /\ Len(journal') = Len(journal)
        /\ \A k \in 1..Len(journal) : journal'[k] = IF k = i THEN e ELSE journal[k]
    BY <1>0, <2>2, <2>3, ExceptSeq
  <2>5. \A k \in 1..Len(journal) : journal'[k].message = journal[k].message /\ journal'[k].at = journal[k].at
    BY <2>2, <2>4
  <2>6. Links' = Links /\ Times' = Times
    BY <2>4, <2>5, SameTimes
  <2> QED
    BY <1>0, <2>3, <2>5, <2>6, QuotaQuiet
<1>7. ASSUME TablesSame, WorldSame PROVE QuotaInv'
  BY <1>1, <1>7 DEF TablesSame, WorldSame
<1>8. ASSUME NEW h \in Handler,
             \/ \E m \in Message : Deliver(h, m)
             \/ Authorize(h) \/ Replay(h) \/ Read(h) \/ Prepare(h) \/ Conflict(h) \/ Recheck(h) \/ Abort(h)
      PROVE  QuotaInv'
  <2>1. TablesSame /\ WorldSame
    BY <1>8, Zenon DEF Deliver, Authorize, Replay, Read, Prepare, Conflict, Recheck, Abort
  <2> QED
    BY <1>7, <2>1
<1>9. CASE Tick \/ ChangeAuthority \/ ChangeLimits \/ UNCHANGED admissionVars
  <2>1. journal' = journal /\ rates' = rates /\ (clock' = clock \/ clock' = clock + 1)
    BY <1>9 DEF Tick, ChangeAuthority, ChangeLimits, admissionVars, TablesSame
  <2> QED
    BY <1>1, <2>1
<1> QED
  BY <1>3, <1>4, <1>5, <1>6, <1>8, <1>9, Zenon DEF AdmissionNext
\* In every reachable state the windows are as WindowFacts says.
THEOREM QuotaInvariance == AdmissionSpec => [](AdmissionInv /\ QuotaInv)
<1>1. AdmissionInv /\ QuotaInv /\ [AdmissionNext]_admissionVars => QuotaInv'
  BY QuotaNextInv
<1>2. AdmissionInit => QuotaInv
  BY QuotaInitInv
<1> QED
  BY <1>1, <1>2, AdmissionInvariance, PTL DEF AdmissionSpec

\* The operations since a time, by their times.
LEMMA SinceByTimes ==
    ASSUME NEW t
    PROVE  Since(t) = {j \in Links : Times[j] >= t}
  BY DEF Since, Times

\* The count of an open window is that of the operations since it began.
LEMMA CountsAreExact == AdmissionTypeOK /\ QuotaInv => ChargedExactly
<1> SUFFICES ASSUME AdmissionTypeOK, QuotaInv, NEW w \in Window, ~IsOwner, rates[w].reset > clock
             PROVE  rates[w].count = Cardinality(Since(rates[w].reset - Duration[w]))
  BY DEF ChargedExactly
<1>1. WindowFacts(Links, Times, rates[w], clock, Duration[w], MaxLimit(w))
  BY DEF QuotaInv
<1> QED
  BY <1>1, SinceByTimes DEF WindowFacts

\* A span of a window's length has fewer operations than twice the largest limit.
LEMMA BurstsAreBounded == AdmissionTypeOK /\ QuotaInv => BurstBounded
<1> SUFFICES ASSUME AdmissionTypeOK, QuotaInv, ~IsOwner, NEW w \in Window, NEW i \in Links
             PROVE  Cardinality({j \in Since(journal[i].at) : journal[j].at < journal[i].at + Duration[w]})
                        < 2 * Max({l[w] : l \in LimitChoices})
  BY DEF BurstBounded
<1>1. WindowFacts(Links, Times, rates[w], clock, Duration[w], MaxLimit(w))
  BY DEF QuotaInv
<1>2. {j \in Since(journal[i].at) : journal[j].at < journal[i].at + Duration[w]}
        = {j \in Links : Times[j] >= Times[i] /\ Times[j] < Times[i] + Duration[w]}
  BY DEF Since, Times
<1> QED
  BY <1>1, <1>2 DEF WindowFacts, MaxLimit

\* The seconds that a refused actor is told are enough, and one less is not.
LEMMA RetriesAreExact == AdmissionTypeOK => RetryIsExact
<1> DEFINE wait == RetryAfter(clock)
<1> SUFFICES ASSUME AdmissionTypeOK, wait # 0
             PROVE  RetryAfter(clock + wait * Second) = 0 /\ RetryAfter(clock + (wait - 1) * Second) # 0
  BY DEF RetryIsExact
<1>1. clock \in Nat /\ Second \in Nat \ {0}
  BY AdmissionAssumption DEF AdmissionTypeOK
<1>2. ~IsOwner /\ Full(clock) # {}
  BY <1>1, ChargedWhenFree
<1>3. wait \in Nat \ {0}
  BY <1>1, <1>2, LongestWait
<1>4. \A w \in Full(clock) : CeilDiv(rates[w].reset - clock, Second) <= wait
  BY <1>1, <1>2, LongestWait
<1>5. PICK last \in Full(clock) : wait = CeilDiv(rates[last].reset - clock, Second)
  BY <1>1, <1>2, LongestWait
<1> HIDE DEF wait
<1> DEFINE soon == clock + (wait - 1) * Second
           late == clock + wait * Second
<1>6. soon \in Nat /\ late \in Nat /\ soon >= clock /\ late >= clock
  <2>1. \A a, b \in Nat : a * b \in Nat
    OBVIOUS
  <2>2. (wait - 1) * Second \in Nat /\ wait * Second \in Nat
    BY <1>1, <1>3, <2>1
  <2> QED
    BY <1>1, <2>2
<1>7. Full(late) = {}
  <2> SUFFICES ASSUME NEW w \in Full(late) PROVE FALSE
    OBVIOUS
  <2> HIDE DEF late
  <2>1. /\ w \in Window /\ rates[w].reset \in Nat /\ rates[w].reset > late
        /\ w \in Full(clock)
    <3>1. /\ w \in Window /\ rates[w].reset \in Nat /\ rates[w].reset > late
          /\ rates[w].count >= limits[w]
      BY <1>6, FullWindows
    <3>2. rates[w].reset > clock
      BY <1>1, <1>6, <3>1
    <3> QED
      BY <1>1, <3>1, <3>2, FullWindows
  <2> DEFINE n == rates[w].reset - clock
             k == CeilDiv(n, Second)
  <2>2. n \in Nat \ {0} /\ n > wait * Second
    BY <1>1, <1>3, <1>6, <2>1 DEF late
  <2>3. k <= wait /\ k \in Nat /\ n <= k * Second
    BY <1>1, <1>4, <2>1, <2>2, RoundedUp
  <2> HIDE DEF n, k
  <2>4. k * Second <= wait * Second
    BY <1>1, <1>3, <2>3
  <2>5. k * Second \in Int /\ wait * Second \in Int
    BY <1>1, <1>3, <2>3
  <2> QED
    BY <2>2, <2>3, <2>4, <2>5
<1>8. last \in Full(soon)
  <2>1. last \in Window /\ rates[last].reset \in Nat /\ rates[last].reset > clock /\ rates[last].count >= limits[last]
    BY <1>1, FullWindows
  <2> DEFINE n == rates[last].reset - clock
  <2>2. n \in Nat \ {0}
    BY <1>1, <2>1
  <2>3. (wait - 1) * Second < n
    BY <1>1, <1>5, <2>2, RoundedUp
  <2>4. rates[last].reset > soon
    <3>1. (wait - 1) * Second \in Int
      BY <1>1, <1>3
    <3> QED
      BY <1>1, <2>1, <2>3, <3>1
  <2> HIDE DEF soon
  <2> QED
    BY <1>6, <2>1, <2>4, FullWindows
<1> HIDE DEF soon, late
<1>9. RetryAfter(late) = 0 /\ RetryAfter(soon) # 0
  BY <1>2, <1>6, <1>7, <1>8, ChargedWhenFree
<1> QED
  BY <1>9 DEF soon, late

\* The quotas hold: exact counts, bounded bursts, exact answers (charge).
THEOREM QuotasAlwaysHold == AdmissionSpec => []QuotasHold
<1>1. AdmissionInv /\ QuotaInv => QuotasHold
  BY CountsAreExact, BurstsAreBounded, RetriesAreExact DEF QuotasHold, AdmissionInv
<1> QED
  BY <1>1, QuotaInvariance, PTL
----------------------------------------------------------------------------
(* The content marks.                                                      *)

\* The forced operations and the marks among the first n entries of a journal.
ForcedIn(s, n) == {i \in 1..n : s[i].forced}
MarksIn(s, n) == {s[i].message : i \in {j \in 1..n : TypeOf(s[j].message) = "mark"}}

\* At every moment at most as many operations were forced as marks were given, and
\* while a mark waits, fewer.  The rows know every mark that was given.
MarkInv ==
    /\ \A n \in 0..Len(journal) :
           /\ IsFiniteSet(MarksIn(journal, n))
           /\ Cardinality(ForcedIn(journal, n)) <= Cardinality(MarksIn(journal, n))
    /\ mark => Cardinality(ForcedIn(journal, Len(journal))) < Cardinality(MarksIn(journal, Len(journal)))
    /\ \A i \in 1..Len(journal) :
           TypeOf(journal[i].message) = "mark" =>
               journal[i].message <= markSeen[Kind[journal[i].message].chat]

\* Entries that differ in neither message nor forced bit are counted alike.
LEMMA SameMarks ==
    ASSUME NEW s, NEW t, NEW n \in Nat,
           \A i \in 1..n : t[i].message = s[i].message /\ t[i].forced = s[i].forced
    PROVE  ForcedIn(t, n) = ForcedIn(s, n) /\ MarksIn(t, n) = MarksIn(s, n)
  BY DEF ForcedIn, MarksIn

LEMMA FinitelyManyForced ==
    ASSUME NEW s, NEW n \in Nat
    PROVE  IsFiniteSet(ForcedIn(s, n)) /\ Cardinality(ForcedIn(s, n)) \in Nat
<1>1. IsFiniteSet(1..n) /\ ForcedIn(s, n) \subseteq 1..n
  BY FS_Interval DEF ForcedIn
<1> QED
  BY <1>1, Fewer

\* A step that leaves messages, forced bits and the rows of the marks alone.
LEMMA MarksQuiet ==
    ASSUME AdmissionTypeOK, MarkInv, Len(journal') = Len(journal), mark' = mark, markSeen' = markSeen,
           \A i \in 1..Len(journal) : /\ journal'[i].message = journal[i].message
                                      /\ journal'[i].forced = journal[i].forced
    PROVE  MarkInv'
<1> PICK n \in Nat : n = Len(journal)
  BY LenProperties DEF AdmissionTypeOK
<1>1. ASSUME NEW k \in 0..n
      PROVE  ForcedIn(journal', k) = ForcedIn(journal, k) /\ MarksIn(journal', k) = MarksIn(journal, k)
  <2>1. k \in Nat /\ \A i \in 1..k : i \in 1..n
    OBVIOUS
  <2> QED
    BY <2>1, SameMarks
<1>2. n \in 0..n
  OBVIOUS
<1> QED
  BY <1>1, <1>2, SMT DEF MarkInv, TypeOf

\* One more entry: it is counted if it is forced, and if it is a mark.
LEMMA MarkedEntry ==
    ASSUME AdmissionTypeOK, MarkInv, NEW e \in Entry, journal' = Append(journal, e),
           NEW n \in Nat, n = Len(journal) + 1
    PROVE  /\ Len(journal') = n
           /\ \A k \in 0..Len(journal) : /\ ForcedIn(journal', k) = ForcedIn(journal, k)
                                         /\ MarksIn(journal', k) = MarksIn(journal, k)
           /\ e.forced => Cardinality(ForcedIn(journal', n)) = Cardinality(ForcedIn(journal, Len(journal))) + 1
           /\ ~e.forced => Cardinality(ForcedIn(journal', n)) = Cardinality(ForcedIn(journal, Len(journal)))
           /\ TypeOf(e.message) = "mark" =>
                MarksIn(journal', n) = MarksIn(journal, Len(journal)) \cup {e.message}
           /\ TypeOf(e.message) # "mark" => MarksIn(journal', n) = MarksIn(journal, Len(journal))
           /\ \A i \in 1..Len(journal) : journal'[i] = journal[i]
           /\ journal'[n] = e
<1>1. /\ journal \in Seq(Entry) /\ Len(journal) \in Nat /\ Len(journal') = n /\ journal'[n] = e
      /\ \A i \in 1..Len(journal) : journal'[i] = journal[i]
  BY AppendEntry DEF AdmissionTypeOK
<1> PICK m \in Nat : m = Len(journal) /\ n = m + 1
  BY <1>1
<1>2. ASSUME NEW k \in 0..m
      PROVE  ForcedIn(journal', k) = ForcedIn(journal, k) /\ MarksIn(journal', k) = MarksIn(journal, k)
  <2>1. k \in Nat /\ \A i \in 1..k : i \in 1..m
    OBVIOUS
  <2> QED
    BY <1>1, <2>1, SameMarks
<1>3. \A i : i \in 1..n <=> i \in 1..m \/ i = n
  OBVIOUS
<1>4. e.forced => ForcedIn(journal', n) = ForcedIn(journal, m) \cup {n}
  BY <1>1, <1>3 DEF ForcedIn
<1>5. ~e.forced => ForcedIn(journal', n) = ForcedIn(journal, m)
  BY <1>1, <1>3 DEF ForcedIn
<1>6. n \notin ForcedIn(journal, m)
  BY DEF ForcedIn
<1>7. e.forced => Cardinality(ForcedIn(journal', n)) = Cardinality(ForcedIn(journal, m)) + 1
  BY <1>4, <1>6, FinitelyManyForced, FS_AddElement
<1>8. TypeOf(e.message) = "mark" => MarksIn(journal', n) = MarksIn(journal, m) \cup {e.message}
  BY <1>1, <1>3 DEF MarksIn
<1>9. TypeOf(e.message) # "mark" => MarksIn(journal', n) = MarksIn(journal, m)
  BY <1>1, <1>3 DEF MarksIn
<1> QED
  BY <1>1, <1>2, <1>5, <1>7, <1>8, <1>9

\* An entry that is no mark; it may use one.
LEMMA UnmarkedEntry ==
    ASSUME AdmissionTypeOK, MarkInv, NEW e \in Entry, journal' = Append(journal, e),
           TypeOf(e.message) # "mark", e.forced => mark, mark' => mark /\ ~e.forced, markSeen' = markSeen
    PROVE  MarkInv'
<1>1. Len(journal) \in Nat
  BY LenProperties DEF AdmissionTypeOK
<1> PICK m \in Nat : m = Len(journal)
  BY <1>1
<1> PICK n \in Nat : n = m + 1
  OBVIOUS
<1>2. /\ Len(journal') = n
      /\ \A k \in 0..m : ForcedIn(journal', k) = ForcedIn(journal, k) /\ MarksIn(journal', k) = MarksIn(journal, k)
      /\ e.forced => Cardinality(ForcedIn(journal', n)) = Cardinality(ForcedIn(journal, m)) + 1
      /\ ~e.forced => Cardinality(ForcedIn(journal', n)) = Cardinality(ForcedIn(journal, m))
      /\ MarksIn(journal', n) = MarksIn(journal, m)
      /\ \A i \in 1..m : journal'[i] = journal[i]
      /\ journal'[n] = e
  BY MarkedEntry
<1>3. /\ IsFiniteSet(MarksIn(journal, m)) /\ Cardinality(MarksIn(journal, m)) \in Nat
      /\ Cardinality(ForcedIn(journal, m)) \in Nat
  BY FinitelyManyForced, FS_CardinalityType DEF MarkInv
<1>4. /\ Cardinality(ForcedIn(journal', n)) <= Cardinality(MarksIn(journal', n))
      /\ mark' => Cardinality(ForcedIn(journal', n)) < Cardinality(MarksIn(journal', n))
  BY <1>2, <1>3 DEF MarkInv
<1>5. \A k \in 0..n : k \in 0..m \/ k = n
  OBVIOUS
<1>6. \A k \in 0..n : /\ IsFiniteSet(MarksIn(journal', k))
                      /\ Cardinality(ForcedIn(journal', k)) <= Cardinality(MarksIn(journal', k))
  BY <1>2, <1>3, <1>4, <1>5 DEF MarkInv
<1>7. \A i \in 1..n : i \in 1..m \/ i = n
  OBVIOUS
<1>8. \A i \in 1..n : TypeOf(journal'[i].message) = "mark" =>
          journal'[i].message <= markSeen'[Kind[journal'[i].message].chat]
  BY <1>2, <1>7 DEF MarkInv
<1> QED
  BY <1>2, <1>4, <1>6, <1>8 DEF MarkInv, TypeOf

\* A mark that is newer than all of its chat: it was never given before.
LEMMA NewMark ==
    ASSUME AdmissionTypeOK, MarkInv, NEW e \in Entry, journal' = Append(journal, e),
           TypeOf(e.message) = "mark", ~e.forced, markSeen[Kind[e.message].chat] < e.message,
           markSeen' = [markSeen EXCEPT ![Kind[e.message].chat] = e.message]
    PROVE  MarkInv'
<1>1. /\ Len(journal) \in Nat /\ e.message \in Message /\ Message \subseteq Nat
      /\ \A i \in 1..Len(journal) : journal[i].message \in Message
      /\ \A x \in Message : Kind[x].chat \in Chat
  <2>1. Len(journal) \in Nat /\ \A i \in 1..Len(journal) : journal[i] \in Entry
    BY ElementOfSeq DEF AdmissionTypeOK
  <2>2. \A i \in 1..Len(journal) : journal[i].message \in Message
    BY <2>1 DEF Entry
  <2>3. e.message \in Message
    BY DEF Entry
  <2> QED
    BY <2>1, <2>2, <2>3, AdmissionAssumption
<1> PICK m \in Nat : m = Len(journal)
  BY <1>1
<1> PICK n \in Nat : n = m + 1
  OBVIOUS
<1>2. /\ Len(journal') = n
      /\ \A k \in 0..m : ForcedIn(journal', k) = ForcedIn(journal, k) /\ MarksIn(journal', k) = MarksIn(journal, k)
      /\ Cardinality(ForcedIn(journal', n)) = Cardinality(ForcedIn(journal, m))
      /\ MarksIn(journal', n) = MarksIn(journal, m) \cup {e.message}
      /\ \A i \in 1..m : journal'[i] = journal[i]
      /\ journal'[n] = e
  BY MarkedEntry
<1>3. /\ IsFiniteSet(MarksIn(journal, m)) /\ Cardinality(MarksIn(journal, m)) \in Nat
      /\ Cardinality(ForcedIn(journal, m)) \in Nat
      /\ Cardinality(ForcedIn(journal, m)) <= Cardinality(MarksIn(journal, m))
  BY FinitelyManyForced, FS_CardinalityType DEF MarkInv
<1>4. \A c \in Chat : markSeen[c] \in Nat
  BY DEF AdmissionTypeOK
<1>5. e.message \notin MarksIn(journal, m)
  <2> SUFFICES ASSUME NEW i \in 1..m, TypeOf(journal[i].message) = "mark", journal[i].message = e.message
               PROVE  FALSE
    BY DEF MarksIn
  <2>1. e.message <= markSeen[Kind[e.message].chat]
    BY DEF MarkInv
  <2>2. e.message \in Nat /\ markSeen[Kind[e.message].chat] \in Nat
    BY <1>1, <1>4
  <2> QED
    BY <2>1, <2>2
<1>6. /\ IsFiniteSet(MarksIn(journal', n))
      /\ Cardinality(MarksIn(journal', n)) = Cardinality(MarksIn(journal, m)) + 1
  BY <1>2, <1>3, <1>5, FS_AddElement
<1>7. \A k \in 0..n : k \in 0..m \/ k = n
  OBVIOUS
<1>8. \A k \in 0..n : /\ IsFiniteSet(MarksIn(journal', k))
                      /\ Cardinality(ForcedIn(journal', k)) <= Cardinality(MarksIn(journal', k))
  <2>1. Cardinality(ForcedIn(journal', n)) <= Cardinality(MarksIn(journal', n))
    BY <1>2, <1>3, <1>6
  <2> QED
    BY <1>2, <1>6, <1>7, <2>1 DEF MarkInv
<1>9. \A i \in 1..n : i \in 1..m \/ i = n
  OBVIOUS
<1>10. ASSUME NEW c \in Chat PROVE markSeen'[c] \in Nat /\ markSeen'[c] >= markSeen[c]
  <2>1. markSeen \in [Chat -> Nat] /\ markSeen[c] \in Nat /\ e.message \in Nat
    BY <1>1, <1>4 DEF AdmissionTypeOK
  <2>2. markSeen'[c] = IF c = Kind[e.message].chat THEN e.message ELSE markSeen[c]
    BY <2>1
  <2> QED
    BY <2>1, <2>2
<1>11. markSeen'[Kind[e.message].chat] = e.message
  BY <1>1 DEF AdmissionTypeOK
<1>12. ASSUME NEW i \in 1..n, TypeOf(journal'[i].message) = "mark"
       PROVE  journal'[i].message <= markSeen'[Kind[journal'[i].message].chat]
  <2>1. CASE i = n
    <3>1. journal'[i].message = e.message /\ e.message \in Nat
      BY <1>1, <1>2, <2>1
    <3> QED
      BY <1>11, <3>1
  <2>2. CASE i \in 1..m
    <3>1. /\ journal'[i] = journal[i] /\ journal[i].message \in Nat /\ Kind[journal[i].message].chat \in Chat
          /\ journal[i].message <= markSeen[Kind[journal[i].message].chat]
      BY <1>1, <1>2, <1>12, <2>2 DEF MarkInv
    <3> QED
      BY <1>4, <1>10, <3>1
  <2> QED
    BY <1>9, <2>1, <2>2
<1>13. Cardinality(ForcedIn(journal', n)) < Cardinality(MarksIn(journal', n))
  BY <1>2, <1>3, <1>6
<1> QED
  BY <1>2, <1>8, <1>12, <1>13 DEF MarkInv, TypeOf

LEMMA MarkInitInv == AdmissionInit => MarkInv
<1> SUFFICES ASSUME AdmissionInit PROVE MarkInv
  OBVIOUS
<1>1. Len(journal) = 0 /\ mark = FALSE /\ \A n \in 0..0 : n = 0
  BY DEF AdmissionInit
<1>2. ForcedIn(journal, 0) = {} /\ MarksIn(journal, 0) = {}
  BY DEF ForcedIn, MarksIn
<1> QED
  BY <1>1, <1>2, FS_EmptySet DEF MarkInv

LEMMA MarkNextInv == AdmissionInv /\ MarkInv /\ [AdmissionNext]_admissionVars => MarkInv'
<1> SUFFICES ASSUME AdmissionInv, MarkInv, [AdmissionNext]_admissionVars PROVE MarkInv'
  OBVIOUS
<1>0. AdmissionTypeOK /\ Len(journal) \in Nat /\ journal \in Seq(Entry)
  BY LenProperties DEF AdmissionInv, AdmissionTypeOK
<1>1. ASSUME journal' = journal, mark' = mark, markSeen' = markSeen PROVE MarkInv'
  <2>1. Len(journal') = Len(journal)
    BY <1>1
  <2>2. \A i \in 1..Len(journal) : /\ journal'[i].message = journal[i].message
                                   /\ journal'[i].forced = journal[i].forced
    BY <1>1
  <2> QED
    BY <1>0, <1>1, <2>1, <2>2, MarksQuiet
<1>3. ASSUME NEW h \in Handler, Arm(h) PROVE MarkInv'
  <2> DEFINE m == MessageOf(h)
             e == [message |-> m, mode |-> Kind[m].mode, forced |-> FALSE, at |-> clock, pending |-> IsLink(m)]
  <2>1. m \in Message /\ TypeOf(m) = "arm" /\ clock \in Nat
    BY <1>3, HandlerTyped DEF Arm, At, HandlerOK, MessageOf
  <2>2. Kind[m].mode \in Mode
    BY <2>1, AdmissionAssumption
  <2>3. e \in Entry /\ e.message = m /\ ~e.forced
    BY <2>1, <2>2 DEF Entry, IsLink
  <2>4. mark' = mark /\ markSeen' = markSeen /\ (journal' = journal \/ journal' = Append(journal, e))
    BY <1>3 DEF Arm, Enter
  <2>5. TypeOf(m) # "mark"
    BY <2>1
  <2> HIDE DEF e, m
  <2> QED
    BY <1>0, <1>1, <2>3, <2>4, <2>5, UnmarkedEntry
<1>4. ASSUME NEW h \in Handler, Mark(h) PROVE MarkInv'
  <2> DEFINE m == MessageOf(h)
             e == [message |-> m, mode |-> Kind[m].mode, forced |-> FALSE, at |-> clock, pending |-> IsLink(m)]
  <2>1. m \in Message /\ TypeOf(m) = "mark" /\ clock \in Nat
    BY <1>4, HandlerTyped DEF Mark, At, HandlerOK, MessageOf
  <2>2. Kind[m].mode \in Mode
    BY <2>1, AdmissionAssumption
  <2>3. e \in Entry /\ e.message = m /\ ~e.forced
    BY <2>1, <2>2 DEF Entry, IsLink
  <2>4. CASE allowed /\ markSeen[Kind[m].chat] < m
    <3>1. journal' = Append(journal, e) /\ markSeen' = [markSeen EXCEPT ![Kind[m].chat] = m]
      BY <1>4, <2>4 DEF Mark, Enter
    <3> HIDE DEF e, m
    <3> QED
      BY <1>0, <2>1, <2>3, <2>4, <3>1, NewMark
  <2>5. CASE ~(allowed /\ markSeen[Kind[m].chat] < m)
    BY <1>1, <1>4, <2>5 DEF Mark
  <2> QED
    BY <2>4, <2>5
<1>5. ASSUME NEW h \in Handler, Admit(h) PROVE MarkInv'
  <2>1. CASE TablesSame
    BY <1>1, <2>1 DEF TablesSame
  <2>2. CASE Insert(h)
    <3> DEFINE m == MessageOf(h)
               e == [message |-> m, mode |-> ResolvedMode(m, handler[h].expected), forced |-> mark,
                     at |-> clock, pending |-> IsLink(m)]
    <3>1. /\ m \in Message /\ IsLink(m) /\ clock \in Nat /\ mark \in BOOLEAN
          /\ handler[h].expected \in Deferred
      BY <1>5, HandlerTyped DEF Admit, At, HandlerOK, MessageOf, HandlerState, AdmissionInv, AdmissionTypeOK
    <3>2. ResolvedMode(m, handler[h].expected) \in Mode
      BY <3>1, AdmissionAssumption DEF ResolvedMode, Deferred
    <3>3. e \in Entry /\ e.message = m /\ e.forced = mark
      BY <3>1, <3>2 DEF Entry, IsLink
    <3>4. journal' = Append(journal, e) /\ mark' = FALSE /\ markSeen' = markSeen
      BY <2>2 DEF Insert, Enter
    <3>5. TypeOf(m) # "mark"
      BY <3>1 DEF IsLink
    <3> HIDE DEF e, m
    <3> QED
      BY <1>0, <3>3, <3>4, <3>5, UnmarkedEntry
  <2> QED
    BY <1>5, <2>1, <2>2 DEF Admit
<1>6. ASSUME NEW i \in 1..Len(journal), Finish(i) PROVE MarkInv'
  <2> DEFINE e == [journal[i] EXCEPT !.pending = FALSE]
  <2>1. \A k \in 1..Len(journal) : journal[k] \in Entry
    BY <1>0, ElementOfSeq
  <2>2. e \in Entry /\ e.message = journal[i].message /\ e.forced = journal[i].forced
    BY <2>1 DEF Entry
  <2>3. journal' = [journal EXCEPT ![i] = e] /\ mark' = mark /\ markSeen' = markSeen
    BY <1>6 DEF Finish
  <2> HIDE DEF e
  <2>4. /\ Len(journal') = Len(journal)
        /\ \A k \in 1..Len(journal) : journal'[k] = IF k = i THEN e ELSE journal[k]
    BY <1>0, <2>2, <2>3, ExceptSeq
  <2>5. \A k \in 1..Len(journal) : journal'[k].message = journal[k].message /\ journal'[k].forced = journal[k].forced
    BY <2>2, <2>4
  <2> QED
    BY <1>0, <2>3, <2>4, <2>5, MarksQuiet
<1>8. ASSUME NEW h \in Handler,
             \/ \E m \in Message : Deliver(h, m)
             \/ Authorize(h) \/ Replay(h) \/ Read(h) \/ Prepare(h) \/ Conflict(h) \/ Recheck(h) \/ Abort(h)
      PROVE  MarkInv'
  <2>1. TablesSame
    BY <1>8, Zenon DEF Deliver, Authorize, Replay, Read, Prepare, Conflict, Recheck, Abort
  <2> QED
    BY <1>1, <2>1 DEF TablesSame
<1>9. CASE Tick \/ ChangeAuthority \/ ChangeLimits \/ UNCHANGED admissionVars
  <2>1. journal' = journal /\ mark' = mark /\ markSeen' = markSeen
    BY <1>9 DEF Tick, ChangeAuthority, ChangeLimits, admissionVars, TablesSame
  <2> QED
    BY <1>1, <2>1
<1> QED
  BY <1>3, <1>4, <1>5, <1>6, <1>8, <1>9, Zenon DEF AdmissionNext

\* A mark forces one operation, delivered twice or not (mark_next_nsfw, admit_inner).
THEOREM MarksForceOnce == AdmissionSpec => []MarkForcesOnce
<1>1. AdmissionInv /\ MarkInv => MarkForcesOnce
  <2> SUFFICES ASSUME AdmissionTypeOK, MarkInv, NEW n \in 1..Len(journal)
               PROVE  Cardinality(ForcedIn(journal, n)) <= Cardinality(MarksIn(journal, n))
    BY DEF MarkForcesOnce, ForcedIn, MarksIn, AdmissionInv
  <2>1. Len(journal) \in Nat
    BY LenProperties DEF AdmissionTypeOK
  <2>2. n \in 0..Len(journal)
    BY <2>1
  <2> QED
    BY <2>2 DEF MarkInv
<1>2. AdmissionInit => MarkInv
  BY MarkInitInv
<1>3. AdmissionInv /\ MarkInv /\ [AdmissionNext]_admissionVars => MarkInv'
  BY MarkNextInv
<1> QED
  BY <1>1, <1>2, <1>3, AdmissionInvariance, PTL DEF AdmissionSpec
=============================================================================
