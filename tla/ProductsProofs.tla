--------------------------- MODULE ProductsProofs ---------------------------
(***************************************************************************)
(* Theorems about the texts and the products beside downloads: the ledger  *)
(* of text effects, the completion edits of the inbox that use it, the     *)
(* ledger of GitHub mutations, the device flow and the quota of insight,   *)
(* and the statistics, each for every value of its constants.              *)
(***************************************************************************)
EXTENDS MCProducts, SequenceTheorems, FiniteSetTheorems, TLAPS

----------------------------------------------------------------------------
(* Text effects.  A text is posted at most once, a tombstone proves        *)
(* absence, a receipt is real, and the ledger never takes an outcome back, *)
(* for any number of tokens, identities and dispatchers.  None of these is *)
(* inductive alone: DispatcherHolds adds what ties a running dispatcher to its row.   *)
(* The row says sending with the dispatcher's own identity, no other       *)
(* dispatcher holds the token, and nothing was posted while the dispatcher *)
(* has yet to post.                                                        *)

\* A dispatcher that runs owns its token, whose row still says sending.
DispatcherHolds ==
    \A d \in Dispatcher :
        /\ dispatcher[d].pc = "idle" <=> dispatcher[d].token = NoToken
        /\ dispatcher[d].pc = "idle" => dispatcher[d] = IdleDispatcher
        /\ dispatcher[d].pc # "idle" =>
              /\ dispatcher[d].identity \in Identity
              /\ effects[dispatcher[d].token].state = "sending"
              /\ effects[dispatcher[d].token].identity = dispatcher[d].identity
              /\ \A e \in Dispatcher \ {d} : dispatcher[e].token # dispatcher[d].token
        /\ dispatcher[d].pc = "post" => posted[dispatcher[d].token] = <<>>
        /\ dispatcher[d].pc = "confirm" => dispatcher[d].receipt \in accepted[dispatcher[d].token]

\* What was posted is what the row says.
PostedIsRecorded ==
    \A t \in Token : \A k \in DOMAIN posted[t] : posted[t][k] = effects[t].identity

TextInv ==
    /\ TextTypeOK
    /\ DispatcherHolds
    /\ PostedIsRecorded
    /\ PostedAtMostOnce
    /\ AbsenceIsProven
    /\ ReceiptIsReal

\* The rows that confirm_text and unknown_text write.
LEMMA EffectRows ==
    ASSUME NEW e \in Effect, NEW n \in Nat
    PROVE  LET c == [e EXCEPT !.state = "confirmed", !.receipt = n]
               u == [e EXCEPT !.state = "unknown"]
           IN  /\ c \in Effect /\ c.state = "confirmed" /\ c.receipt = n
               /\ c.identity = e.identity /\ c.bound = e.bound
               /\ u \in Effect /\ u.state = "unknown" /\ u.receipt = e.receipt
               /\ u.identity = e.identity /\ u.bound = e.bound
<1> DEFINE c == [e EXCEPT !.state = "confirmed", !.receipt = n]
           h == [e EXCEPT !.state = "confirmed"]
           u == [e EXCEPT !.state = "unknown"]
<1>1. h \in Effect /\ u \in Effect
    BY SMT DEF Effect, EffectState
<1>2. c = [h EXCEPT !.receipt = n]
    BY SMT DEF Effect
<1>3. \A g \in Effect : [g EXCEPT !.receipt = n] \in Effect
    BY SMT DEF Effect
<1>4. c \in Effect
  <2> HIDE DEF c, h
  <2> QED BY <1>1, <1>2, <1>3
<1>5. /\ c.state = "confirmed" /\ c.receipt = n /\ c.identity = e.identity /\ c.bound = e.bound
      /\ u.state = "unknown" /\ u.receipt = e.receipt /\ u.identity = e.identity /\ u.bound = e.bound
    BY SMT DEF Effect
<1> QED BY <1>1, <1>4, <1>5

\* The steps of a dispatcher after it was admitted.
LEMMA DispatchRows ==
    ASSUME NEW w \in Dispatch, NEW n \in Nat
    PROVE  LET c == [w EXCEPT !.pc = "confirm", !.receipt = n]
           IN  /\ c \in Dispatch /\ c.pc = "confirm" /\ c.receipt = n
               /\ c.token = w.token /\ c.identity = w.identity
               /\ [w EXCEPT !.pc = "wait"] \in Dispatch
               /\ [w EXCEPT !.pc = "give_up"] \in Dispatch
<1> DEFINE c == [w EXCEPT !.pc = "confirm", !.receipt = n]
           h == [w EXCEPT !.pc = "confirm"]
<1>1. h \in Dispatch /\ [w EXCEPT !.pc = "wait"] \in Dispatch /\ [w EXCEPT !.pc = "give_up"] \in Dispatch
    BY SMT DEF Dispatch, DispatchStep
<1>2. c = [h EXCEPT !.receipt = n]
    BY SMT DEF Dispatch
<1>3. \A g \in Dispatch : [g EXCEPT !.receipt = n] \in Dispatch
    BY SMT DEF Dispatch
<1>4. c \in Dispatch
  <2> HIDE DEF c, h
  <2> QED BY <1>1, <1>2, <1>3
<1>5. c.pc = "confirm" /\ c.receipt = n /\ c.token = w.token /\ c.identity = w.identity
    BY SMT DEF Dispatch
<1> QED BY <1>1, <1>4, <1>5

\* The empty ledger satisfies the invariant.
LEMMA TextInitial == TextInit => TextInv
<1> SUFFICES ASSUME TextInit PROVE TextInv
    OBVIOUS
<1> USE TextAssumption
<1>1. TextTypeOK
    BY SMT DEF TextInit, TextTypeOK, WellFormed, Effect, NoEffect, NewEffect, EffectState, Dispatch, DispatchStep, IdleDispatcher
<1>2. DispatcherHolds /\ PostedIsRecorded /\ PostedAtMostOnce /\ AbsenceIsProven /\ ReceiptIsReal
    BY SMT DEF TextInit, DispatcherHolds, PostedIsRecorded, PostedAtMostOnce, AbsenceIsProven, ReceiptIsReal,
               NoEffect, NewEffect, IdleDispatcher
<1> QED BY <1>1, <1>2 DEF TextInv

\* A row that no dispatcher holds changes, in agreement with what was posted.
LEMMA TextRow ==
    ASSUME TextInv, NEW t \in Token, NEW r \in Effect, WellFormed(r),
           effects' = [effects EXCEPT ![t] = r],
           UNCHANGED <<dispatcher, posted, accepted>>,
           \A d \in Dispatcher : dispatcher[d].token # t,
           r.state \in {"absent", "prepared", "sealed"} => posted[t] = <<>>,
           \A k \in DOMAIN posted[t] : posted[t][k] = r.identity,
           r.state = "confirmed" => r.receipt \in accepted[t]
    PROVE  TextInv'
<1> USE TextAssumption DEF TextInv
<1>1. TextTypeOK'
    BY SMT DEF TextTypeOK, WellFormed
<1>2. DispatcherHolds'
    BY SMT DEF TextTypeOK, DispatcherHolds
<1>3. PostedIsRecorded' /\ PostedAtMostOnce'
    BY SMT DEF TextTypeOK, PostedIsRecorded, PostedAtMostOnce
<1>4. AbsenceIsProven'
    BY SMT DEF TextTypeOK, AbsenceIsProven
<1>5. ReceiptIsReal'
    BY SMT DEF TextTypeOK, ReceiptIsReal
<1> QED BY <1>1, <1>2, <1>3, <1>4, <1>5

\* Rows change without any request: prepare, seal and bind.
LEMMA TextRows ==
    ASSUME TextInv, NEW t \in Token,
           SealText(t) \/ BindText(t) \/ (\E i \in Identity : PrepareText(t, i))
    PROVE  TextInv'
<1> USE TextAssumption DEF TextInv
<1>1. CASE SealText(t)
  <2> DEFINE r == NewEffect("sealed", NoIdentity)
  <2>1. r \in Effect /\ WellFormed(r) /\ r.state = "sealed"
      BY SMT DEF NewEffect, Effect, EffectState, WellFormed
  <2>2. /\ posted[t] = <<>> /\ \A k \in DOMAIN posted[t] : FALSE
        /\ \A d \in Dispatcher : dispatcher[d].token # t
      BY <1>1, SMT DEF SealText, MaySeal, AbsenceIsProven
  <2>3. effects' = [effects EXCEPT ![t] = r] /\ UNCHANGED <<dispatcher, posted, accepted>>
      BY <1>1 DEF SealText
  <2> HIDE DEF r
  <2> QED BY <2>1, <2>2, <2>3, TextRow
<1>2. CASE BindText(t)
  <2> DEFINE r == [effects[t] EXCEPT !.bound = 1]
  <2>1. effects[t] \in Effect /\ WellFormed(effects[t]) /\ effects[t].state = "confirmed"
      BY <1>2, SMT DEF BindText, TextTypeOK
  <2>2. /\ r \in Effect /\ WellFormed(r) /\ r.state = "confirmed"
        /\ r.identity = effects[t].identity /\ r.receipt = effects[t].receipt
      BY <2>1, SMT DEF Effect, WellFormed
  <2>3. \A d \in Dispatcher : dispatcher[d].token # t
      BY <2>1, SMT DEF DispatcherHolds
  <2>4. r.receipt \in accepted[t] /\ \A k \in DOMAIN posted[t] : posted[t][k] = r.identity
      BY <2>1, <2>2, SMT DEF ReceiptIsReal, PostedIsRecorded
  <2>5. effects' = [effects EXCEPT ![t] = r] /\ UNCHANGED <<dispatcher, posted, accepted>>
      BY <1>2, SMT DEF BindText, TextTypeOK
  <2> HIDE DEF r
  <2> QED BY <2>2, <2>3, <2>4, <2>5, TextRow
<1>3. ASSUME NEW i \in Identity, PrepareText(t, i) PROVE TextInv'
  <2> DEFINE r == NewEffect("prepared", i)
  <2>1. r \in Effect /\ WellFormed(r) /\ r.state = "prepared"
      BY SMT DEF NewEffect, Effect, EffectState, WellFormed
  <2>2. /\ posted[t] = <<>> /\ \A k \in DOMAIN posted[t] : FALSE
        /\ \A d \in Dispatcher : dispatcher[d].token # t
      BY <1>3, SMT DEF PrepareText, AbsenceIsProven
  <2>3. effects' = [effects EXCEPT ![t] = r] /\ UNCHANGED <<dispatcher, posted, accepted>>
      BY <1>3 DEF PrepareText
  <2> HIDE DEF r
  <2> QED BY <2>1, <2>2, <2>3, TextRow
<1> QED BY <1>1, <1>2, <1>3

\* Admission: the row becomes sending and the dispatcher its only holder.
LEMMA TextBegins ==
    ASSUME TextInv, NEW d \in Dispatcher, NEW t \in Token, NEW i \in Identity, BeginText(d, t, i)
    PROVE  TextInv'
<1> USE TextAssumption DEF TextInv
<1>1. TextTypeOK'
    BY SMT DEF BeginText, Admissible, TextTypeOK, WellFormed, Effect, EffectState, NewEffect, Dispatch, DispatchStep
<1>2. DispatcherHolds'
    BY SMT DEF BeginText, Admissible, TextTypeOK, Effect, DispatcherHolds, NewEffect, AbsenceIsProven
<1>3. PostedIsRecorded' /\ PostedAtMostOnce'
    BY SMT DEF BeginText, Admissible, TextTypeOK, Effect, NewEffect, AbsenceIsProven,
               PostedIsRecorded, PostedAtMostOnce
<1>4. AbsenceIsProven' /\ ReceiptIsReal'
    BY SMT DEF BeginText, Admissible, TextTypeOK, Effect, NewEffect, AbsenceIsProven, ReceiptIsReal
<1> QED BY <1>1, <1>2, <1>3, <1>4

\* The one request is posted: nothing was posted before.
LEMMA TextPosts ==
    ASSUME TextInv, NEW d \in Dispatcher, PostText(d)
    PROVE  TextInv'
<1> DEFINE t == dispatcher[d].token
<1> USE TextAssumption DEF TextInv
<1>1. /\ t \in Token /\ dispatcher[d].identity \in Identity
      /\ posted[t] = <<>>
      /\ effects[t].state = "sending" /\ effects[t].identity = dispatcher[d].identity
  <2>1. dispatcher[d].pc = "post" /\ dispatcher[d] \in Dispatch
      BY DEF PostText, TextTypeOK
  <2> QED BY <2>1, SMT DEF DispatcherHolds, Dispatch
<1>2. posted' = [posted EXCEPT ![t] = <<dispatcher[d].identity>>]
    BY <1>1, SMT DEF PostText
<1>3. TextTypeOK'
  <2>1. [dispatcher[d] EXCEPT !.pc = "wait"] \in Dispatch
    <3>1. dispatcher[d] \in Dispatch
        BY DEF TextTypeOK
    <3> QED BY <3>1, DispatchRows
  <2>2. dispatcher' \in [Dispatcher -> Dispatch]
      BY <2>1, SMT DEF PostText, TextTypeOK
  <2>3. posted' \in [Token -> Seq(Identity)] /\ accepted' \in [Token -> SUBSET (Nat \ {0})]
      BY <1>1, <1>2, SMT DEF PostText, TextTypeOK
  <2>4. \A s \in Token : accepted'[s] \subseteq DOMAIN posted'[s]
      BY <1>1, <1>2, SMT DEF PostText, TextTypeOK
  <2> QED BY <2>2, <2>3, <2>4 DEF PostText, TextTypeOK, WellFormed
<1>4. DispatcherHolds'
    BY <1>1, <1>2, SMT DEF PostText, TextTypeOK, DispatcherHolds
<1>5. PostedIsRecorded' /\ PostedAtMostOnce'
    BY <1>1, <1>2, SMT DEF PostText, TextTypeOK, PostedIsRecorded, PostedAtMostOnce
<1>6. AbsenceIsProven' /\ ReceiptIsReal'
    BY <1>1, <1>2, SMT DEF PostText, TextTypeOK, AbsenceIsProven, ReceiptIsReal
<1> QED BY <1>3, <1>4, <1>5, <1>6

\* Telegram accepts a request: no row changes.
LEMMA TextAccepts ==
    ASSUME TextInv, NEW t \in Token, NEW k \in DOMAIN posted[t], AcceptText(t, k)
    PROVE  TextInv'
<1> USE DEF TextInv
<1>1. TextTypeOK'
    BY SMT DEF AcceptText, TextTypeOK, WellFormed
<1>2. DispatcherHolds'
    BY SMT DEF AcceptText, TextTypeOK, DispatcherHolds
<1>3. PostedIsRecorded' /\ PostedAtMostOnce' /\ AbsenceIsProven' /\ ReceiptIsReal'
    BY SMT DEF AcceptText, TextTypeOK, PostedIsRecorded, PostedAtMostOnce, AbsenceIsProven, ReceiptIsReal
<1> QED BY <1>1, <1>2, <1>3

\* A dispatcher dies, or goes on with its token after it has posted.
LEMMA TextGoesOn ==
    ASSUME TextInv, NEW d \in Dispatcher, NEW w \in Dispatch,
           dispatcher[d].pc # "idle",
           \/ w = IdleDispatcher
           \/ /\ w.pc \notin {"idle", "post"}
              /\ w.token = dispatcher[d].token /\ w.identity = dispatcher[d].identity
              /\ w.pc = "confirm" => w.receipt \in accepted[w.token],
           dispatcher' = [dispatcher EXCEPT ![d] = w],
           UNCHANGED <<effects, posted, accepted>>
    PROVE  TextInv'
<1> USE TextAssumption DEF TextInv
<1>1. TextTypeOK'
    BY SMT DEF TextTypeOK, WellFormed
<1>2. DispatcherHolds'
    BY SMT DEF TextTypeOK, DispatcherHolds, IdleDispatcher, Dispatch
<1>3. PostedIsRecorded' /\ PostedAtMostOnce' /\ ReceiptIsReal'
    BY DEF PostedIsRecorded, PostedAtMostOnce, ReceiptIsReal
<1>4. AbsenceIsProven'
    BY SMT DEF TextTypeOK, IdleDispatcher, AbsenceIsProven
<1> QED BY <1>1, <1>2, <1>3, <1>4

\* A dispatcher hears an answer or dies.
LEMMA TextHears ==
    ASSUME TextInv, NEW d \in Dispatcher, AnswerText(d) \/ AbortText(d)
    PROVE  TextInv'
<1> USE TextAssumption DEF TextInv
<1>1. dispatcher[d] \in Dispatch /\ dispatcher[d].pc # "idle"
  <2>1. dispatcher[d] \in Dispatch
      BY DEF TextTypeOK
  <2>2. dispatcher[d].pc # "idle"
      BY DEF AnswerText, AbortText
  <2> QED BY <2>1, <2>2
<1>2. dispatcher[d].token \in Token
    BY <1>1, SMT DEF DispatcherHolds, Dispatch
<1>3. CASE AbortText(d)
  <2>1. IdleDispatcher \in Dispatch
      BY SMT DEF IdleDispatcher, Dispatch, DispatchStep
  <2> QED BY <1>1, <1>3, <2>1, TextGoesOn DEF AbortText
<1>4. CASE AnswerText(d)
  <2>1. ASSUME NEW k \in accepted[dispatcher[d].token],
               dispatcher' = [dispatcher EXCEPT ![d] = [@ EXCEPT !.pc = "confirm", !.receipt = k]]
        PROVE  TextInv'
    <3> DEFINE w == [dispatcher[d] EXCEPT !.pc = "confirm", !.receipt = k]
    <3>1. k \in Nat
        BY <1>2, <2>1, SMT DEF TextTypeOK
    <3>2. /\ w \in Dispatch /\ w.pc = "confirm" /\ w.receipt = k
          /\ w.token = dispatcher[d].token /\ w.identity = dispatcher[d].identity
        BY <1>1, <3>1, DispatchRows
    <3>3. dispatcher' = [dispatcher EXCEPT ![d] = w] /\ UNCHANGED <<effects, posted, accepted>>
        BY <1>4, <2>1 DEF AnswerText
    <3> HIDE DEF w
    <3> QED BY <1>1, <2>1, <3>2, <3>3, TextGoesOn
  <2>2. ASSUME dispatcher' = [dispatcher EXCEPT ![d] = [@ EXCEPT !.pc = "give_up"]]
        PROVE  TextInv'
    <3> DEFINE w == [dispatcher[d] EXCEPT !.pc = "give_up"]
    <3>1. /\ w \in Dispatch /\ w.pc = "give_up"
          /\ w.token = dispatcher[d].token /\ w.identity = dispatcher[d].identity
        BY <1>1, SMT DEF Dispatch, DispatchStep
    <3>2. dispatcher' = [dispatcher EXCEPT ![d] = w] /\ UNCHANGED <<effects, posted, accepted>>
        BY <1>4, <2>2 DEF AnswerText
    <3> HIDE DEF w
    <3> QED BY <1>1, <3>1, <3>2, TextGoesOn
  <2> QED BY <1>4, <2>1, <2>2 DEF AnswerText
<1> QED BY <1>3, <1>4

\* The answer is recorded and the dispatcher lets go of the token.
LEMMA TextRecords ==
    ASSUME TextInv, NEW d \in Dispatcher, RecordText(d)
    PROVE  TextInv'
<1> DEFINE t == dispatcher[d].token
           r == effects'[t]
<1> USE TextAssumption DEF TextInv
<1>1. /\ t \in Token /\ dispatcher[d].pc # "idle" /\ dispatcher[d].receipt \in Nat
      /\ effects[t] \in Effect /\ WellFormed(effects[t]) /\ effects[t].state = "sending"
    BY SMT DEF RecordText, DispatcherHolds, TextTypeOK, Dispatch
<1>2. \A e \in Dispatcher \ {d} : dispatcher[e].token # t
    BY <1>1, SMT DEF DispatcherHolds
<1>3. \/ /\ r = [effects[t] EXCEPT !.state = "confirmed", !.receipt = dispatcher[d].receipt]
         /\ dispatcher[d].receipt \in accepted[t]
      \/ r = [effects[t] EXCEPT !.state = "unknown"]
    BY <1>1, SMT DEF RecordText, Confirmed, Undecided, DispatcherHolds, TextTypeOK
<1>4. accepted[t] \subseteq Nat \ {0}
    BY <1>1, SMT DEF TextTypeOK
<1>5. /\ r \in Effect /\ WellFormed(r) /\ r.state \in {"unknown", "confirmed"}
      /\ r.identity = effects[t].identity
      /\ r.state = "confirmed" => r.receipt \in accepted[t]
  <2> HIDE DEF r, t
  <2>1. CASE r = [effects[t] EXCEPT !.state = "unknown"]
    <3>1. /\ r \in Effect /\ r.state = "unknown" /\ r.receipt = effects[t].receipt
          /\ r.identity = effects[t].identity /\ r.bound = effects[t].bound
        BY <1>1, <2>1, EffectRows
    <3> QED BY <1>1, <3>1, SMT DEF WellFormed
  <2>2. CASE /\ r = [effects[t] EXCEPT !.state = "confirmed", !.receipt = dispatcher[d].receipt]
             /\ dispatcher[d].receipt \in accepted[t]
    <3>1. /\ r \in Effect /\ r.state = "confirmed" /\ r.receipt = dispatcher[d].receipt
          /\ r.identity = effects[t].identity /\ r.bound = effects[t].bound
      <4> DEFINE e == effects[t]
                 n == dispatcher[d].receipt
      <4>1. e \in Effect /\ n \in Nat /\ r = [e EXCEPT !.state = "confirmed", !.receipt = n]
          BY <1>1, <2>2
      <4> HIDE DEF e, n
      <4>2. /\ r \in Effect /\ r.state = "confirmed" /\ r.receipt = n
            /\ r.identity = e.identity /\ r.bound = e.bound
          BY <4>1, EffectRows, Zenon
      <4> QED BY <4>2 DEF e, n
    <3>2. dispatcher[d].receipt \in Nat \ {0}
        BY <1>4, <2>2
    <3> QED BY <1>1, <2>2, <3>1, <3>2, SMT DEF WellFormed
  <2> QED BY <1>3, <2>1, <2>2
<1>6. /\ effects' = [effects EXCEPT ![t] = r]
      /\ dispatcher' = [dispatcher EXCEPT ![d] = IdleDispatcher]
      /\ UNCHANGED <<posted, accepted>>
    BY <1>1, SMT DEF RecordText, TextTypeOK
<1> HIDE DEF r
<1>7. TextTypeOK'
  <2>1. IdleDispatcher \in Dispatch
      BY SMT DEF IdleDispatcher, Dispatch, DispatchStep
  <2> QED BY <1>1, <1>5, <1>6, <2>1, SMT DEF TextTypeOK, WellFormed
<1>8. DispatcherHolds'
    BY <1>1, <1>2, <1>6, SMT DEF TextTypeOK, IdleDispatcher, DispatcherHolds
<1>9. PostedIsRecorded' /\ PostedAtMostOnce'
    BY <1>1, <1>5, <1>6, SMT DEF TextTypeOK, PostedIsRecorded, PostedAtMostOnce
<1>10. AbsenceIsProven'
    BY <1>1, <1>5, <1>6, SMT DEF TextTypeOK, IdleDispatcher, AbsenceIsProven
<1>11. ReceiptIsReal'
    BY <1>1, <1>5, <1>6, SMT DEF TextTypeOK, PostedIsRecorded, ReceiptIsReal
<1> QED BY <1>7, <1>8, <1>9, <1>10, <1>11

\* Every step keeps the invariant.
LEMMA TextStep == TextInv /\ [TextNext]_textVars => TextInv'
<1> SUFFICES ASSUME TextInv, [TextNext]_textVars PROVE TextInv'
    OBVIOUS
<1>1. CASE UNCHANGED textVars
    BY <1>1 DEF textVars, TextInv, TextTypeOK, WellFormed, DispatcherHolds, PostedIsRecorded, PostedAtMostOnce,
                AbsenceIsProven, ReceiptIsReal
<1>2. CASE TextNext
    BY <1>2, TextRows, TextBegins, TextPosts, TextAccepts, TextHears, TextRecords DEF TextNext
<1> QED BY <1>1, <1>2

\* The invariant holds in every reachable state of the ledger.
THEOREM TextInvariance == TextSpec => []TextInv
<1> QED BY TextInitial, TextStep, PTL DEF TextSpec

\* Single attempt: no token is ever posted twice, whoever races or crashes.
THEOREM SingleAttempt == TextSpec => []PostedAtMostOnce
<1>1. TextInv => PostedAtMostOnce
    BY DEF TextInv
<1> QED BY <1>1, TextInvariance, PTL

\* A tombstone proves absence: seal_text_absence never lies about a posted text.
THEOREM ProofOfAbsence == TextSpec => []AbsenceIsProven
<1>1. TextInv => AbsenceIsProven
    BY DEF TextInv
<1> QED BY <1>1, TextInvariance, PTL

\* A receipt of the ledger stands for an accepted request with the row's identity.
THEOREM TrueReceipts == TextSpec => []ReceiptIsReal
<1>1. TextInv => ReceiptIsReal
    BY DEF TextInv
<1> QED BY <1>1, TextInvariance, PTL

\* What a step of the ledger leaves as it was.
OutcomeKept(t) ==
    /\ effects[t].state = "sealed" => effects'[t] = effects[t]
    /\ effects[t].state = "confirmed" => effects'[t] \in {effects[t], [effects[t] EXCEPT !.bound = 1]}
    /\ effects[t].state \in {"sending", "unknown"} =>
          effects'[t].state \in {"sending", "unknown", "confirmed"}

\* A dispatcher records what became of the row it holds, and touches no other.
LEMMA RecordedRow ==
    ASSUME TextInv, NEW d \in Dispatcher, RecordText(d)
    PROVE  LET s == dispatcher[d].token
           IN  /\ s \in Token /\ effects[s].state = "sending"
               /\ dispatcher[d].pc = "confirm" => effects'[s].state = "confirmed"
               /\ dispatcher[d].pc = "give_up" => effects'[s].state = "unknown"
               /\ dispatcher[d].pc \in {"confirm", "give_up"}
               /\ \A t \in Token \ {s} : effects'[t] = effects[t]
<1> USE TextAssumption DEF TextInv
<1> DEFINE s == dispatcher[d].token
<1>1. dispatcher[d] \in Dispatch /\ dispatcher[d].pc # "idle"
    BY DEF RecordText, TextTypeOK
<1>2. s \in Token /\ effects[s] \in Effect /\ effects[s].state = "sending"
    BY <1>1, SMT DEF DispatcherHolds, Dispatch, TextTypeOK
<1>3. \/ dispatcher[d].pc = "confirm" /\ effects' = [effects EXCEPT ![s] = Confirmed(@, dispatcher[d].receipt)]
      \/ dispatcher[d].pc = "give_up" /\ effects' = [effects EXCEPT ![s] = Undecided(@)]
    BY DEF RecordText
<1>4. dispatcher[d].receipt \in Nat
    BY <1>1, SMT DEF Dispatch
<1>5. /\ Confirmed(effects[s], dispatcher[d].receipt).state = "confirmed"
      /\ Undecided(effects[s]).state = "unknown"
    BY <1>2, <1>4, EffectRows DEF Confirmed, Undecided
<1> QED BY <1>2, <1>3, <1>5, SMT DEF TextTypeOK

\* No step takes an outcome back.
LEMMA OutcomesStand == ASSUME TextInv, TextNext PROVE \A t \in Token : OutcomeKept(t)
<1> USE TextAssumption DEF TextInv, OutcomeKept
<1>1. ASSUME NEW t \in Token, SealText(t) \/ BindText(t) \/ (\E i \in Identity : PrepareText(t, i))
      PROVE \A u \in Token : OutcomeKept(u)
    BY <1>1, SMT DEF SealText, BindText, PrepareText, MaySeal, TextTypeOK, Effect
<1>2. ASSUME NEW d \in Dispatcher, NEW t \in Token, NEW i \in Identity, BeginText(d, t, i)
      PROVE \A u \in Token : OutcomeKept(u)
    BY <1>2, SMT DEF BeginText, Admissible, TextTypeOK, Effect
<1>3. ASSUME NEW d \in Dispatcher, RecordText(d)
      PROVE \A u \in Token : OutcomeKept(u)
    BY <1>3, RecordedRow
<1>4. ASSUME UNCHANGED effects
      PROVE \A u \in Token : OutcomeKept(u)
    BY <1>4, SMT DEF TextTypeOK, Effect
<1> QED BY <1>1, <1>2, <1>3, <1>4 DEF TextNext, PostText, AcceptText, AnswerText, AbortText

\* Tombstones and receipts are final, and an attempt never becomes an absence.
THEOREM FinalOutcomes == TextSpec => OutcomeIsFinal
<1>1. TextInv /\ [TextNext]_textVars => [\A t \in Token : OutcomeKept(t)]_textVars
    BY OutcomesStand
<1> QED BY <1>1, TextInvariance, PTL DEF TextSpec, OutcomeIsFinal, OutcomeKept

\* The ledger of text effects as a whole: rows of the schema, one attempt, proven
\* absence and real receipts (begin_text, seal_text_absence, confirm_text).
THEOREM SoundEffects == TextSpec => []EffectsAreSound
<1>1. TextInv => EffectsAreSound
    BY DEF TextInv, EffectsAreSound
<1> QED BY <1>1, TextInvariance, PTL

----------------------------------------------------------------------------
(* The completion edits of the inbox, for any number of completions, send  *)
(* tokens, items, runners and crashes.  A note is posted with its current  *)
(* send token only: later tokens are absent, earlier ones are sealed, and  *)
(* a note that may still be claimed has its current one sealed as well.  A *)
(* claim and the send boundary are passed when every earlier note of the   *)
(* reply is acknowledged or cancelled.                                     *)

\* A runner between two of its steps.
RunnerRow == [pc: RunnerStep, queue: SUBSET Token, note: 0 .. MaxNotes, lease: Nat,
              send: 0 .. MaxSends, outcome: Outcome]

StateOf(n, k) == effects[<<n, k>>].state

\* The row r of a note has the columns of the schema.
RowOK(r) ==
    /\ r \in NoteRow
    /\ r.state \in Undelivered \cup {"acked"} => r.send # 0
    /\ r.state = "claimed" => r.lease # 0
    /\ r.state \in Blocking \cup {"acked"} => items[r.item].bound

\* The row r of note n agrees with the ledger about its send tokens.
KnownRow(n, r) ==
    /\ \A k \in 1 .. MaxSends : k > r.send => StateOf(n, k) = "absent"
    /\ \A k \in 1 .. MaxSends : k < r.send => StateOf(n, k) = "sealed"
    /\ r.send # 0 /\ r.state \in PreSend \cup {"cancelled"} => StateOf(n, r.send) = "sealed"
    /\ r.state = "acked" => StateOf(n, r.send) = "confirmed"
    /\ r.state = "absent" => r.send = 0

SendsAreKnown == \A n \in Note : KnownRow(n, notes[n])

\* Notes are admitted in their order, wait for their reply only, and pass the claim in
\* the order of the reply.
Ordered(table) ==
    /\ \A m, n \in Note : m < n /\ table[n].state # "absent" => table[m].state # "absent"
    /\ \A n \in Note : table[n].state = "waiting" => ~items[table[n].item].bound
    /\ \A m, n \in Note :
          /\ m < n /\ table[m].item = table[n].item
          /\ table[n].state = "claimed" \/ table[n].send # 0
          => table[m].state \in {"acked", "cancelled"}

\* The k-th send token of note n was handed out.
Issued(n, k) == n \in Note /\ k \in 1 .. notes[n].send

\* A runner works with tokens that were handed out, holds the row of the ledger while
\* it sends, and records what the ledger says.
RunnerBound(d) ==
    /\ \A t \in runner[d].queue : Issued(t[1], t[2])
    /\ runner[d].pc = "claimed" => runner[d].note \in Note
    /\ runner[d].pc \in {"admitted", "sending", "record"} => Issued(runner[d].note, runner[d].send)
    /\ dispatcher[d].token = IF runner[d].pc = "sending" THEN SendToken(d) ELSE NoToken
    /\ runner[d].pc = "record" =>
          /\ runner[d].outcome = "confirmed" => StateOf(runner[d].note, runner[d].send) = "confirmed"
          /\ runner[d].outcome = "not_sent" => StateOf(runner[d].note, runner[d].send) = "sealed"

RunnersAreBound == \A d \in Dispatcher : RunnerBound(d)

\* The inductive invariant.
InboxInv ==
    /\ TextInv
    /\ InboxTypeOK
    /\ runner \in [Dispatcher -> RunnerRow]
    /\ SendsAreKnown
    /\ RunnersAreBound
    /\ Ordered(notes)

LEMMA Tokens == \A n \in Note, k \in 1 .. MaxSends : <<n, k>> \in Token
<1> QED BY InboxAssumption DEF NoteToken

\* The type invariant, row by row.
LEMMA NotesTyped ==
    ASSUME TextTypeOK, runner \in [Dispatcher -> RunnerRow],
           items \in [Item -> [status: {"active", "inactive", "deleted"}, bound: BOOLEAN]]
    PROVE  InboxTypeOK <=> DOMAIN notes = Note /\ notes = [n \in Note |-> notes[n]] /\ \A n \in Note : RowOK(notes[n])
<1>1. \A d \in Dispatcher : runner[d].pc \in RunnerStep /\ runner[d].outcome \in Outcome
    BY SMT DEF RunnerRow
<1>2. ASSUME InboxTypeOK PROVE DOMAIN notes = Note /\ notes = [n \in Note |-> notes[n]] /\ \A n \in Note : RowOK(notes[n])
    BY <1>2, SMT DEF InboxTypeOK, RowOK
<1>3. ASSUME DOMAIN notes = Note, notes = [n \in Note |-> notes[n]], \A n \in Note : RowOK(notes[n]) PROVE InboxTypeOK
    BY <1>1, <1>3, SMT DEF InboxTypeOK, RowOK
<1> QED BY <1>2, <1>3

\* Nothing was admitted yet.
LEMMA InboxStarts == InboxInit => InboxInv
<1> SUFFICES ASSUME InboxInit PROVE InboxInv
    OBVIOUS
<1> USE InboxAssumption
<1> DEFINE i == CHOOSE j \in Item : TRUE
           row == [item |-> i, state |-> "absent", live |-> FALSE, lease |-> 0, send |-> 0]
<1>1. TextInv
    BY TextInitial DEF InboxInit
<1>2. i \in Item
    OBVIOUS
<1>3. row \in NoteRow
    BY <1>2, SMT DEF NoteRow, NoteState
<1>4. runner \in [Dispatcher -> RunnerRow]
    BY SMT DEF InboxInit, RunnerRow, IdleRunner, RunnerStep, Outcome
<1>5. \A n \in Note : notes[n] \in NoteRow /\ notes[n].state = "absent" /\ notes[n].send = 0
  <2>1. \A n \in Note : notes[n] = row
      BY DEF InboxInit
  <2>2. row.state = "absent" /\ row.send = 0
      OBVIOUS
  <2> HIDE DEF row
  <2> QED BY <1>3, <2>1, <2>2
<1>6. InboxTypeOK
  <2>1. \A n \in Note : RowOK(notes[n])
      BY <1>5 DEF RowOK, Undelivered, Blocking
  <2>2. DOMAIN notes = Note /\ notes = [n \in Note |-> notes[n]]
      BY DEF InboxInit
  <2>3. items \in [Item -> [status: {"active", "inactive", "deleted"}, bound: BOOLEAN]]
      BY SMT DEF InboxInit
  <2> QED BY <1>1, <1>4, <2>1, <2>2, <2>3, NotesTyped DEF TextInv
<1>7. \A n \in Note, k \in 1 .. MaxSends : StateOf(n, k) = "absent"
  <2>1. \A t \in Token : effects[t].state = "absent"
      BY SMT DEF InboxInit, TextInit, NoEffect, NewEffect
  <2> QED BY <2>1, Tokens DEF StateOf
<1>8. SendsAreKnown
    BY <1>5, <1>7, SMT DEF SendsAreKnown, KnownRow, PreSend
<1>9. RunnersAreBound
    BY SMT DEF InboxInit, TextInit, RunnersAreBound, RunnerBound, IdleRunner, IdleDispatcher
<1>10. Ordered(notes)
    BY <1>5, SMT DEF Ordered
<1> QED BY <1>1, <1>4, <1>6, <1>8, <1>9, <1>10 DEF InboxInv

----------------------------------------------------------------------------
(* What the steps of the inbox have in common.                             *)

\* What the invariant says of the rows.
LEMMA InboxTyped ==
    ASSUME InboxInv
    PROVE  /\ TextTypeOK
           /\ items \in [Item -> [status: {"active", "inactive", "deleted"}, bound: BOOLEAN]]
           /\ notes \in [Note -> NoteRow]
           /\ \A n \in Note : RowOK(notes[n]) /\ KnownRow(n, notes[n])
<1>1. TextTypeOK /\ notes \in [Note -> NoteRow]
    BY DEF InboxInv, InboxTypeOK
<1>2. items \in [Item -> [status: {"active", "inactive", "deleted"}, bound: BOOLEAN]]
    BY DEF InboxInv, InboxTypeOK
<1>3. \A n \in Note : RowOK(notes[n])
    BY SMT DEF InboxInv, InboxTypeOK, RowOK
<1> QED BY <1>1, <1>2, <1>3 DEF InboxInv, SendsAreKnown

\* A token whose outcome is open is the current one of a note beyond the boundary.
LEMMA OpenToken ==
    ASSUME InboxInv, NEW n \in Note, NEW k, Issued(n, k),
           StateOf(n, k) \notin {"sealed", "confirmed"}
    PROVE  k = notes[n].send /\ notes[n].state \in Undelivered
<1> USE InboxAssumption
<1>1. RowOK(notes[n]) /\ KnownRow(n, notes[n])
    BY InboxTyped
<1>2. notes[n].send \in 0 .. MaxSends /\ notes[n].state \in NoteState /\ k \in 1 .. MaxSends
    BY <1>1, SMT DEF RowOK, NoteRow, Issued
<1>3. k = notes[n].send
    BY <1>1, <1>2, SMT DEF KnownRow, Issued
<1> QED BY <1>1, <1>2, <1>3, SMT DEF KnownRow, Issued, NoteState, PreSend, Undelivered

\* The ledger moves on with open tokens only.
LEMMA SendsMove ==
    ASSUME InboxInv, UNCHANGED notes, NEW n \in Note, NEW k, Issued(n, k),
           StateOf(n, k) \notin {"sealed", "confirmed"},
           \A t \in Token \ {<<n, k>>} : effects'[t].state = effects[t].state
    PROVE  SendsAreKnown'
<1> USE InboxAssumption
<1>1. k = notes[n].send /\ notes[n].state \in Undelivered
    BY OpenToken
<1>2. \A m \in Note, j \in 1 .. MaxSends : m # n \/ j # k => StateOf(m, j)' = StateOf(m, j)
    BY Tokens DEF StateOf
<1>3. ASSUME NEW m \in Note PROVE KnownRow(m, notes[m])'
  <2>1. RowOK(notes[m]) /\ KnownRow(m, notes[m])
      BY InboxTyped
  <2>2. notes[m].send \in 0 .. MaxSends
      BY <2>1, SMT DEF RowOK, NoteRow
  <2>3. CASE m = n
      BY <1>1, <1>2, <2>1, <2>2, <2>3, SMT DEF KnownRow, Undelivered, PreSend
  <2>4. CASE m # n
      BY <1>2, <2>1, <2>2, <2>4, SMT DEF KnownRow, RowOK, Undelivered
  <2> QED BY <2>3, <2>4
<1> QED BY <1>3 DEF SendsAreKnown

\* A runner that does not move stays bound: outcomes are kept and sends only grow.
LEMMA RunnerWaits ==
    ASSUME InboxInv, NEW d \in Dispatcher,
           runner'[d] = runner[d], dispatcher'[d].token = dispatcher[d].token,
           \A t \in Token : effects[t].state \in {"sealed", "confirmed"} => effects'[t].state = effects[t].state,
           \A n \in Note : notes[n].send <= notes'[n].send /\ notes'[n].send \in 0 .. MaxSends
    PROVE  RunnerBound(d)'
<1> USE InboxAssumption
<1>1. \A n \in Note : notes[n].send \in 0 .. MaxSends
    BY InboxTyped, SMT DEF NoteRow
<1>2. RunnerBound(d)
    BY DEF InboxInv, RunnersAreBound
<1>3. \A n, k : Issued(n, k) => Issued(n, k)' /\ <<n, k>> \in Token
  <2> SUFFICES ASSUME NEW n, NEW k, Issued(n, k) PROVE Issued(n, k)' /\ <<n, k>> \in Token
      OBVIOUS
  <2>1. n \in Note /\ k \in 1 .. MaxSends
      BY <1>1, SMT DEF Issued
  <2> QED BY <1>1, <2>1, Tokens, SMT DEF Issued
<1>4. \A n, k : Issued(n, k) /\ StateOf(n, k) \in {"sealed", "confirmed"} => StateOf(n, k)' = StateOf(n, k)
    BY <1>3 DEF StateOf
<1>5. SendToken(d)' = SendToken(d)
    BY DEF SendToken
<1> QED BY <1>2, <1>3, <1>4, <1>5 DEF RunnerBound

\* The rows and the records of runners that the steps write.
LEMMA NoteRows ==
    ASSUME NEW r \in NoteRow, NEW x \in NoteState, NEW b \in BOOLEAN, NEW l \in Nat
    PROVE  Turned(r, x, b, l) \in NoteRow
<1> DEFINE f == [r EXCEPT !.state = x]
           g == [f EXCEPT !.live = b]
<1>1. f \in NoteRow
    BY SMT DEF NoteRow
<1> HIDE DEF f
<1>2. g \in NoteRow
    BY <1>1, SMT DEF NoteRow
<1> HIDE DEF g
<1>3. [g EXCEPT !.lease = l] \in NoteRow
    BY <1>2, SMT DEF NoteRow
<1> QED BY <1>3 DEF Turned, f, g

LEMMA RunnerRecords ==
    ASSUME NEW m \in RunnerRow, NEW pc \in RunnerStep, NEW o \in Outcome
    PROVE  [m EXCEPT !.pc = pc, !.outcome = o] \in RunnerRow
<1> DEFINE a == [m EXCEPT !.pc = pc]
<1>1. a \in RunnerRow
    BY SMT DEF RunnerRow
<1> HIDE DEF a
<1>2. [a EXCEPT !.outcome = o] \in RunnerRow
    BY <1>1, SMT DEF RunnerRow
<1> QED BY <1>2 DEF a

LEMMA RunnerSends ==
    ASSUME NEW m \in RunnerRow, NEW pc \in RunnerStep, NEW k \in 0 .. MaxSends
    PROVE  [m EXCEPT !.pc = pc, !.send = k] \in RunnerRow
<1> DEFINE a == [m EXCEPT !.pc = pc]
<1>1. a \in RunnerRow
    BY SMT DEF RunnerRow
<1> HIDE DEF a
<1>2. [a EXCEPT !.send = k] \in RunnerRow
    BY <1>1, SMT DEF RunnerRow
<1> QED BY <1>2 DEF a

LEMMA RunnerRecovers ==
    ASSUME NEW m \in RunnerRow, NEW pc \in RunnerStep, NEW n \in 0 .. MaxNotes,
           NEW k \in 0 .. MaxSends, NEW o \in Outcome
    PROVE  [m EXCEPT !.pc = pc, !.note = n, !.send = k, !.outcome = o] \in RunnerRow
<1> DEFINE a == [m EXCEPT !.pc = pc]
           f == [a EXCEPT !.note = n]
           g == [f EXCEPT !.send = k]
<1>1. a \in RunnerRow
    BY SMT DEF RunnerRow
<1> HIDE DEF a
<1>2. f \in RunnerRow
    BY <1>1, SMT DEF RunnerRow
<1> HIDE DEF f
<1>3. g \in RunnerRow
    BY <1>2, SMT DEF RunnerRow
<1> HIDE DEF g
<1>4. [g EXCEPT !.outcome = o] \in RunnerRow
    BY <1>3, SMT DEF RunnerRow
<1> QED BY <1>4 DEF a, f, g

\* A row moves on without passing the claim.
Moved(r, s) ==
    /\ s.item = r.item
    /\ s.state = "absent" <=> r.state = "absent"
    /\ r.state \in {"acked", "cancelled"} => s.state = r.state
    /\ s.state = "claimed" \/ s.send # 0 => r.state = "claimed" \/ r.send # 0
    /\ s.state = "waiting" => r.state = "waiting"

LEMMA OrderKept ==
    ASSUME NEW table, NEW next, Ordered(table), \A n \in Note : Moved(table[n], next[n])
    PROVE  Ordered(next)
<1> QED BY SMT DEF Ordered, Moved

\* Only rows of notes move.
LEMMA RowsMove ==
    ASSUME InboxInv, UNCHANGED <<effects, items>>, TextTypeOK', runner' \in [Dispatcher -> RunnerRow],
           notes' = [n \in Note |-> notes'[n]],
           \A n \in Note : RowOK(notes'[n]) /\ KnownRow(n, notes'[n])
    PROVE  InboxTypeOK' /\ SendsAreKnown'
<1>1. \A n \in Note : RowOK(notes[n])' /\ KnownRow(n, notes[n])'
    BY DEF RowOK, KnownRow, StateOf
<1>2. items' \in [Item -> [status: {"active", "inactive", "deleted"}, bound: BOOLEAN]]
    BY InboxTyped
<1>3. SendsAreKnown'
    BY <1>1 DEF SendsAreKnown
<1>4. \A d \in Dispatcher : runner'[d].pc \in RunnerStep /\ runner'[d].outcome \in Outcome
    BY SMT DEF RunnerRow
<1>5. notes' \in [Note -> NoteRow]
    BY <1>1 DEF RowOK
<1> QED BY <1>1, <1>2, <1>3, <1>4, <1>5 DEF InboxTypeOK, RowOK

\* The parts make the invariant.
LEMMA InboxParts ==
    ASSUME InboxInv, [TextNext]_textVars, InboxTypeOK', runner' \in [Dispatcher -> RunnerRow],
           SendsAreKnown', \A d \in Dispatcher : RunnerBound(d)', Ordered(notes)'
    PROVE  InboxInv'
<1>1. TextInv'
    BY TextStep DEF InboxInv
<1> QED BY <1>1 DEF InboxInv, RunnersAreBound

\* A runner whose turn is over is bound by nothing.
LEMMA RunnerRests ==
    ASSUME InboxInv, NEW d \in Dispatcher, NEW r \in Finished,
           runner' = [runner EXCEPT ![d] = r], dispatcher'[d].token = NoToken
    PROVE  runner' \in [Dispatcher -> RunnerRow] /\ RunnerBound(d)'
<1> USE InboxAssumption
<1>1. r \in RunnerRow /\ r.queue = {} /\ r.pc \in {"idle", "dispatch"}
    BY SMT DEF Finished, IdleRunner, RunnerRow, RunnerStep, Outcome
<1>2. runner'[d] = r /\ runner' \in [Dispatcher -> RunnerRow]
    BY <1>1 DEF InboxInv
<1> QED BY <1>1, <1>2, SMT DEF RunnerBound

\* Runners and the rows of notes move.
LEMMA RunnersAct ==
    ASSUME InboxInv, UNCHANGED <<textVars, items>>,
           notes' = [n \in Note |-> notes'[n]],
           \A n \in Note : /\ RowOK(notes'[n]) /\ KnownRow(n, notes'[n])
                           /\ notes[n].send <= notes'[n].send,
           Ordered(notes'),
           runner' \in [Dispatcher -> RunnerRow],
           \A e \in Dispatcher : runner'[e] = runner[e] \/ RunnerBound(e)'
    PROVE  InboxInv'
<1>1. UNCHANGED <<effects, dispatcher>> /\ TextTypeOK'
    BY TextStep DEF textVars, InboxInv, TextInv
<1>2. InboxTypeOK' /\ SendsAreKnown'
    BY <1>1, RowsMove
<1>3. \A n \in Note : notes'[n].send \in 0 .. MaxSends
    BY DEF RowOK, NoteRow
<1>4. \A e \in Dispatcher : RunnerBound(e)'
    BY <1>1, <1>3, RunnerWaits
<1>5. Ordered(notes)'
    BY DEF Ordered
<1> QED BY <1>2, <1>4, <1>5, InboxParts

LEMMA RunnerActs ==
    ASSUME InboxInv, NEW d \in Dispatcher, UNCHANGED <<textVars, items>>,
           notes' = [n \in Note |-> notes'[n]],
           \A n \in Note : /\ RowOK(notes'[n]) /\ KnownRow(n, notes'[n])
                           /\ notes[n].send <= notes'[n].send,
           Ordered(notes'),
           runner' \in [Dispatcher -> RunnerRow],
           \A e \in Dispatcher \ {d} : runner'[e] = runner[e],
           RunnerBound(d)'
    PROVE  InboxInv'
<1>1. \A e \in Dispatcher : runner'[e] = runner[e] \/ RunnerBound(e)'
    OBVIOUS
<1> QED BY <1>1, RunnersAct

\* One row moves.
LEMMA NoteMoves ==
    ASSUME InboxInv, NEW n \in Note, NEW s, RowOK(s), KnownRow(n, s), notes[n].send <= s.send,
           notes' = [notes EXCEPT ![n] = s]
    PROVE  /\ notes' = [m \in Note |-> notes'[m]]
           /\ \A m \in Note : notes'[m] = IF m = n THEN s ELSE notes[m]
           /\ \A m \in Note : /\ RowOK(notes'[m]) /\ KnownRow(m, notes'[m])
                              /\ notes[m].send <= notes'[m].send
           /\ Moved(notes[n], s) => Ordered(notes')
<1> USE InboxAssumption
<1>1. notes \in [Note -> NoteRow] /\ \A m \in Note : RowOK(notes[m]) /\ KnownRow(m, notes[m])
    BY InboxTyped
<1>2. \A m \in Note : notes'[m] = IF m = n THEN s ELSE notes[m]
    BY <1>1
<1>3. \A m \in Note : notes[m].send <= notes[m].send
    BY <1>1, SMT DEF NoteRow
<1>4. \A m \in Note : Moved(notes[m], notes[m])
    BY DEF Moved
<1>5. Moved(notes[n], s) => \A m \in Note : Moved(notes[m], notes'[m])
    BY <1>2, <1>4
<1>6. Moved(notes[n], s) => Ordered(notes')
    BY <1>5, OrderKept DEF InboxInv
<1> QED BY <1>1, <1>2, <1>3, <1>6

\* A turn ends with some rows moved.
LEMMA TurnEnds ==
    ASSUME InboxInv, NEW d \in Dispatcher, UNCHANGED <<textVars, items>>,
           dispatcher[d].token = NoToken,
           \E r \in Finished : runner' = [runner EXCEPT ![d] = r],
           notes' = [n \in Note |-> notes'[n]],
           \A n \in Note : /\ RowOK(notes'[n]) /\ KnownRow(n, notes'[n])
                           /\ notes[n].send <= notes'[n].send,
           Ordered(notes')
    PROVE  InboxInv'
<1>1. PICK r \in Finished : runner' = [runner EXCEPT ![d] = r]
    OBVIOUS
<1>2. dispatcher'[d].token = NoToken
    BY DEF textVars
<1>3. runner' \in [Dispatcher -> RunnerRow] /\ RunnerBound(d)'
    BY <1>1, <1>2, RunnerRests
<1>4. \A e \in Dispatcher \ {d} : runner'[e] = runner[e]
    BY <1>1 DEF InboxInv
<1> QED BY <1>3, <1>4, RunnerActs

\* Nothing moves but the runner's turn ends.
LEMMA RowsStay ==
    ASSUME InboxInv, UNCHANGED notes
    PROVE  /\ notes' = [n \in Note |-> notes'[n]]
           /\ \A n \in Note : /\ RowOK(notes'[n]) /\ KnownRow(n, notes'[n])
                              /\ notes[n].send <= notes'[n].send
           /\ Ordered(notes')
<1> USE InboxAssumption
<1>1. notes \in [Note -> NoteRow] /\ \A m \in Note : RowOK(notes[m]) /\ KnownRow(m, notes[m])
    BY InboxTyped
<1>2. \A m \in Note : notes[m].send <= notes[m].send
    BY <1>1, SMT DEF NoteRow
<1> QED BY <1>1, <1>2 DEF InboxInv

\* A runner after its claim.
LEMMA ClaimHeld ==
    ASSUME InboxInv, NEW d \in Dispatcher, runner[d].pc = "claimed"
    PROVE  /\ runner[d].note \in Note /\ dispatcher[d].token = NoToken
           /\ RowOK(notes[runner[d].note]) /\ KnownRow(runner[d].note, notes[runner[d].note])
<1>1. RunnerBound(d)
    BY DEF InboxInv, RunnersAreBound
<1>2. runner[d].note \in Note /\ dispatcher[d].token = NoToken
    BY <1>1 DEF RunnerBound
<1> QED BY <1>2, InboxTyped

\* A claim is given back.
LEMMA DenyStep == ASSUME InboxInv, NEW d \in Dispatcher, Deny(d) PROVE InboxInv'
<1> USE InboxAssumption
<1>1. PICK n \in Note : n = runner[d].note
    BY ClaimHeld DEF Deny
<1>2. PICK r \in NoteRow : r = notes[n]
    BY InboxTyped
<1>3. dispatcher[d].token = NoToken /\ RowOK(r) /\ KnownRow(n, r)
    BY <1>1, <1>2, ClaimHeld DEF Deny
<1>4. CASE Owns(d)
  <2>1. r.state = "claimed"
      BY <1>1, <1>2, <1>4 DEF Owns
  <2>2. PICK s : s = Turned(r, "cancelled", FALSE, 0)
      OBVIOUS
  <2>3. notes' = [notes EXCEPT ![n] = s]
      BY <1>1, <1>2, <1>4, <2>2 DEF Deny
  <2>4. s \in NoteRow /\ s.state = "cancelled" /\ s.send = r.send /\ s.item = r.item
    <3>1. "cancelled" \in NoteState /\ FALSE \in BOOLEAN /\ 0 \in Nat
        BY DEF NoteState
    <3>2. Turned(r, "cancelled", FALSE, 0) \in NoteRow
        BY <3>1, NoteRows
    <3>3. s.state = "cancelled" /\ s.send = r.send /\ s.item = r.item
        BY <2>2, SMT DEF Turned, NoteRow
    <3> QED BY <2>2, <3>2, <3>3
  <2>5. RowOK(s) /\ KnownRow(n, s) /\ Moved(r, s) /\ r.send <= s.send
      BY <1>3, <2>1, <2>4, SMT DEF RowOK, KnownRow, Moved, Undelivered, Blocking, PreSend, NoteRow
  <2> QED BY <1>2, <1>3, <2>3, <2>5, NoteMoves, TurnEnds DEF Deny
<1>5. CASE ~Owns(d)
    BY <1>3, <1>5, RowsStay, TurnEnds DEF Deny
<1> QED BY <1>4, <1>5

\* The send boundary is passed with a new token, or the claim is dropped.
LEMMA BeginStep == ASSUME InboxInv, NEW d \in Dispatcher, BeginSend(d) PROVE InboxInv'
<1> USE InboxAssumption
<1>1. PICK n \in Note : n = runner[d].note
    BY ClaimHeld DEF BeginSend
<1>2. PICK r \in NoteRow : r = notes[n]
    BY InboxTyped
<1>3. dispatcher[d].token = NoToken /\ RowOK(r) /\ KnownRow(n, r)
    BY <1>1, <1>2, ClaimHeld DEF BeginSend
<1>4. PICK s : s = [r EXCEPT !.state = "sending", !.send = r.send + 1]
    OBVIOUS
<1>5. PICK m : m = [runner[d] EXCEPT !.pc = "admitted", !.send = r.send + 1]
    OBVIOUS
<1>6. CASE Owns(d) /\ r.send < MaxSends /\ notes' = [notes EXCEPT ![n] = s] /\ runner' = [runner EXCEPT ![d] = m]
  <2>1. r.state = "claimed" /\ r.send \in 0 .. MaxSends
      BY <1>1, <1>2, <1>6, SMT DEF Owns, NoteRow
  <2>2. r.send + 1 \in 1 .. MaxSends /\ r.send + 1 \in 0 .. MaxSends
      BY <1>6, <2>1, SMT
  <2>3. s \in NoteRow /\ s.state = "sending" /\ s.send = r.send + 1 /\ s.item = r.item
    <3> DEFINE f == [r EXCEPT !.state = "sending"]
    <3>1. f \in NoteRow /\ f.item = r.item /\ f.state = "sending"
        BY SMT DEF NoteRow, NoteState
    <3>2. s = [f EXCEPT !.send = r.send + 1]
        BY <1>4
    <3> HIDE DEF f
    <3> QED BY <2>2, <3>1, <3>2, SMT DEF NoteRow
  <2>4. RowOK(s) /\ KnownRow(n, s) /\ Moved(r, s) /\ r.send <= s.send
      BY <1>3, <2>1, <2>3, SMT DEF RowOK, KnownRow, Moved, Undelivered, Blocking, PreSend
  <2>5. /\ notes' = [k \in Note |-> notes'[k]] /\ Ordered(notes')
        /\ \A k \in Note : RowOK(notes'[k]) /\ KnownRow(k, notes'[k]) /\ notes[k].send <= notes'[k].send
        /\ notes'[n] = s
      BY <1>2, <1>6, <2>4, NoteMoves
  <2>6. runner[d] \in RunnerRow /\ runner[d].pc = "claimed" /\ RunnerBound(d)
      BY DEF BeginSend, InboxInv, RunnersAreBound
  <2>7. m \in RunnerRow /\ m.pc = "admitted" /\ m.queue = runner[d].queue /\ m.note = n /\ m.send = r.send + 1
    <3>1. "admitted" \in RunnerStep
        BY DEF RunnerStep
    <3>2. m \in RunnerRow
        BY <1>5, <2>2, <2>6, <3>1, RunnerSends
    <3>3. m.pc = "admitted" /\ m.queue = runner[d].queue /\ m.note = runner[d].note /\ m.send = r.send + 1
        BY <1>5, <2>6, SMT DEF RunnerRow
    <3> QED BY <1>1, <3>2, <3>3
  <2>8. /\ runner' \in [Dispatcher -> RunnerRow] /\ runner'[d] = m
        /\ \A e \in Dispatcher \ {d} : runner'[e] = runner[e]
      BY <1>6, <2>7 DEF InboxInv
  <2>9. \A i, k : Issued(i, k) => Issued(i, k)'
    <3>1. \A i \in Note : notes[i].send \in Nat /\ notes'[i].send \in Nat
        BY <2>5, InboxTyped, SMT DEF RowOK, NoteRow
    <3> QED BY <2>5, <3>1, SMT DEF Issued
  <2>10. Issued(n, m.send)'
      BY <2>1, <2>3, <2>5, <2>7, SMT DEF Issued
  <2>11. RunnerBound(d)'
    <3>1. dispatcher'[d].token = NoToken
        BY <1>3 DEF BeginSend, textVars
    <3>2. \A t \in runner[d].queue : Issued(t[1], t[2])
        BY <2>6 DEF RunnerBound
    <3>3. \A t \in m.queue : Issued(t[1], t[2])'
        BY <2>7, <2>9, <3>2
    <3> QED BY <2>7, <2>8, <2>10, <3>1, <3>3 DEF RunnerBound
  <2> QED BY <2>5, <2>8, <2>11, RunnerActs DEF BeginSend
<1>7. CASE UNCHANGED notes /\ \E x \in Finished : runner' = [runner EXCEPT ![d] = x]
    BY <1>3, <1>7, RowsStay, TurnEnds DEF BeginSend
<1> QED BY <1>1, <1>2, <1>4, <1>5, <1>6, <1>7 DEF BeginSend

\* The sweeps of a claim keep every row in agreement with the ledger.
LEMMA SweptRow ==
    ASSUME InboxInv, NEW n \in Note
    PROVE  LET s == Swept(notes[n])
           IN  RowOK(s) /\ KnownRow(n, s) /\ Moved(notes[n], s) /\ notes[n].send <= s.send
<1> USE InboxAssumption
<1>1. PICK r \in NoteRow : r = notes[n] /\ RowOK(r) /\ KnownRow(n, r)
    BY InboxTyped
<1>2. PICK s : s = Swept(r)
    OBVIOUS
<1>3. \/ s = [r EXCEPT !.state = "unknown"] /\ r.state = "sending"
      \/ s = [r EXCEPT !.state = "cancelled"] /\ r.state \in PreSend
      \/ s = r
    BY <1>2 DEF Swept
<1>4. /\ s \in NoteRow /\ s.send = r.send /\ s.item = r.item
      /\ \/ s.state = "unknown" /\ r.state = "sending"
         \/ s.state = "cancelled" /\ r.state \in PreSend
         \/ s = r
    BY <1>3, SMT DEF NoteRow, NoteState
<1>5. RowOK(s) /\ KnownRow(n, s) /\ Moved(r, s) /\ r.send <= s.send
    BY <1>1, <1>4, SMT DEF RowOK, KnownRow, Moved, Undelivered, Blocking, PreSend, NoteRow
<1> QED BY <1>1, <1>2, <1>5

\* A runner that runs no dispatch holds no row of the ledger.
LEMMA NothingHeld ==
    ASSUME InboxInv, NEW d \in Dispatcher, runner[d].pc # "sending"
    PROVE  dispatcher[d].token = NoToken
<1> QED BY DEF InboxInv, RunnersAreBound, RunnerBound

\* A claim goes to a note of which every earlier one is acknowledged or cancelled.
LEMMA ClaimStep == ASSUME InboxInv, NEW d \in Dispatcher, ClaimNote(d) PROVE InboxInv'
<1> USE InboxAssumption
<1>1. PICK table : table = [n \in Note |-> Swept(notes[n])]
    OBVIOUS
<1>2. \A n \in Note : RowOK(table[n]) /\ KnownRow(n, table[n]) /\ notes[n].send <= table[n].send
    BY <1>1, SweptRow
<1>3. Ordered(table)
  <2>1. \A n \in Note : Moved(notes[n], table[n])
      BY <1>1, SweptRow
  <2> QED BY <2>1, OrderKept DEF InboxInv
<1>4. dispatcher[d].token = NoToken
    BY NothingHeld DEF ClaimNote
<1>5. CASE notes' = table /\ \E r \in Finished : runner' = [runner EXCEPT ![d] = r]
    BY <1>1, <1>2, <1>3, <1>4, <1>5, TurnEnds DEF ClaimNote
<1>6. ASSUME NEW n \in Eligible(table), NEW l \in 1 .. Cardinality(Dispatcher) + 1,
             notes' = [table EXCEPT ![n] = Turned(@, "claimed", TRUE, l)],
             runner' = [runner EXCEPT ![d] = [IdleRunner EXCEPT !.pc = "claimed", !.note = n, !.lease = l]]
      PROVE InboxInv'
  <2>1. n \in Note /\ table[n].state \in {"ready", "claimed"} /\ ~Blocked(table, n)
      BY <1>6 DEF Eligible
  <2>2. l \in Nat /\ l # 0
    <3>1. Cardinality(Dispatcher) \in Nat
        BY FS_CardinalityType
    <3> QED BY <3>1, SMT
  <2>3. PICK r \in NoteRow : r = table[n] /\ RowOK(r) /\ KnownRow(n, r)
      BY <1>2, <2>1 DEF RowOK
  <2>4. PICK s : s = Turned(r, "claimed", TRUE, l)
      OBVIOUS
  <2>5. s \in NoteRow /\ s.state = "claimed" /\ s.send = r.send /\ s.item = r.item /\ s.lease = l
    <3>1. s.state = "claimed" /\ s.send = r.send /\ s.item = r.item /\ s.lease = l
        BY <2>4, SMT DEF Turned, NoteRow
    <3>2. "claimed" \in NoteState /\ TRUE \in BOOLEAN
        BY DEF NoteState
    <3>3. s \in NoteRow
        BY <2>2, <2>4, <3>2, NoteRows
    <3> QED BY <3>1, <3>3
  <2>6. \A m \in Note : notes'[m] = IF m = n THEN s ELSE table[m]
      BY <1>1, <1>6, <2>1, <2>3, <2>4
  <2>7. RowOK(s) /\ KnownRow(n, s)
      BY <2>1, <2>2, <2>3, <2>5, SMT DEF RowOK, KnownRow, Undelivered, Blocking, PreSend, NoteRow
  <2>8. \A m \in Note : RowOK(notes'[m]) /\ KnownRow(m, notes'[m]) /\ notes[m].send <= notes'[m].send
      BY <1>2, <2>3, <2>5, <2>6, <2>7
  <2>9. \A m \in Note : m < n /\ table[m].item = table[n].item => table[m].state \in {"acked", "cancelled"}
    <3> SUFFICES ASSUME NEW m \in Note, m < n, table[m].item = table[n].item
                 PROVE  table[m].state \in {"acked", "cancelled"}
        OBVIOUS
    <3>1. table[m].state \in NoteState \ Blocking
        BY <1>2, <2>1 DEF Blocked, RowOK, NoteRow
    <3>2. table[m].state # "absent" /\ table[m].state # "waiting"
        BY <1>3, <2>1, <2>3, SMT DEF Ordered, RowOK, Blocking
    <3> QED BY <3>1, <3>2 DEF NoteState, Blocking
  <2>10. Ordered(notes')
    <3>1. \A m \in Note : notes'[m].state # "absent" <=> table[m].state # "absent"
        BY <2>1, <2>3, <2>5, <2>6
    <3>2. \A m \in Note : notes'[m].item = table[m].item /\ notes'[m].send = table[m].send
        BY <2>3, <2>5, <2>6
    <3>3. \A m \in Note : m # n => notes'[m] = table[m]
        BY <2>6
    <3>4. notes'[n].state = "claimed"
        BY <2>1, <2>5, <2>6
    <3> QED BY <1>3, <2>1, <2>9, <3>1, <3>2, <3>3, <3>4, SMT DEF Ordered
  <2>11. PICK m : m = [IdleRunner EXCEPT !.pc = "claimed", !.note = n, !.lease = l]
      OBVIOUS
  <2>12. m \in RunnerRow /\ m.pc = "claimed" /\ m.note = n /\ m.queue = {}
    <3>1. m = [pc |-> "claimed", queue |-> {}, note |-> n, lease |-> l, send |-> 0, outcome |-> "none"]
        BY <2>11 DEF IdleRunner
    <3>2. n \in 0 .. MaxNotes /\ 0 \in 0 .. MaxSends
        BY <2>1, SMT DEF Note
    <3> QED BY <2>2, <3>1, <3>2 DEF RunnerRow, RunnerStep, Outcome
  <2>13. /\ runner' \in [Dispatcher -> RunnerRow] /\ runner'[d] = m
         /\ \A e \in Dispatcher \ {d} : runner'[e] = runner[e]
      BY <1>6, <2>11, <2>12 DEF InboxInv
  <2>14. RunnerBound(d)'
    <3>1. dispatcher'[d].token = NoToken
        BY <1>4 DEF ClaimNote, textVars
    <3> QED BY <2>1, <2>12, <2>13, <3>1 DEF RunnerBound
  <2>15. notes' = [k \in Note |-> notes'[k]]
      BY <1>1, <1>6
  <2> QED BY <2>8, <2>10, <2>13, <2>14, <2>15, RunnerActs DEF ClaimNote
<1> QED BY <1>1, <1>5, <1>6 DEF ClaimNote

\* A lease lapses.
LEMMA LapseStep == ASSUME InboxInv, NEW n \in Note, LeaseLapses(n) PROVE InboxInv'
<1>1. PICK r \in NoteRow : r = notes[n] /\ RowOK(r) /\ KnownRow(n, r)
    BY InboxTyped
<1>2. PICK s : s = [r EXCEPT !.live = FALSE]
    OBVIOUS
<1>3. s \in NoteRow /\ s.state = r.state /\ s.send = r.send /\ s.item = r.item /\ s.lease = r.lease
  <2>1. s \in NoteRow
    <3>1. \A b \in BOOLEAN : [r EXCEPT !.live = b] \in NoteRow
        BY SMT DEF NoteRow
    <3> QED BY <1>2, <3>1
  <2>2. s.state = r.state /\ s.send = r.send /\ s.item = r.item /\ s.lease = r.lease
      BY <1>2, SMT DEF NoteRow
  <2> QED BY <2>1, <2>2
<1>4. RowOK(s) /\ KnownRow(n, s) /\ Moved(r, s) /\ r.send <= s.send
    BY <1>1, <1>3, InboxAssumption, SMT DEF RowOK, KnownRow, Moved, NoteRow
<1>5. notes' = [notes EXCEPT ![n] = s]
    BY <1>1, <1>2 DEF LeaseLapses
<1> QED BY <1>1, <1>4, <1>5, NoteMoves, RunnersAct DEF LeaseLapses, InboxInv

\* A tick begins with the tokens of its recovery.
LEMMA StartStep == ASSUME InboxInv, NEW d \in Dispatcher, StartTick(d) PROVE InboxInv'
<1> USE InboxAssumption
<1>1. PICK found : found = {<<n, notes[n].send>> : n \in {m \in Note : Recoverable(m)}}
    OBVIOUS
<1>2. PICK pc : pc = IF found = {} THEN "dispatch" ELSE "recover"
    OBVIOUS
<1>3. PICK m : m = [IdleRunner EXCEPT !.pc = pc, !.queue = found]
    OBVIOUS
<1>4. runner' = [runner EXCEPT ![d] = m] /\ UNCHANGED <<textVars, items, notes, crashes>>
    BY <1>1, <1>2, <1>3 DEF StartTick
<1>5. \A t \in found : Issued(t[1], t[2]) /\ t \in Token
  <2> SUFFICES ASSUME NEW n \in Note, Recoverable(n)
               PROVE  Issued(n, notes[n].send) /\ <<n, notes[n].send>> \in Token
      BY <1>1
  <2>1. notes[n].send \in 1 .. MaxSends
      BY InboxTyped, SMT DEF Recoverable, RowOK, NoteRow
  <2> QED BY <2>1, Tokens, SMT DEF Issued
<1>6. m \in RunnerRow /\ m.pc = pc /\ m.queue = found /\ pc \in {"dispatch", "recover"}
  <2>1. m = [pc |-> pc, queue |-> found, note |-> 0, lease |-> 0, send |-> 0, outcome |-> "none"]
      BY <1>3 DEF IdleRunner
  <2>2. 0 \in 0 .. MaxNotes /\ 0 \in 0 .. MaxSends /\ 0 \in Nat
      BY SMT
  <2>3. found \in SUBSET Token
      BY <1>5
  <2>4. pc \in {"dispatch", "recover"}
      BY <1>2
  <2> QED BY <2>1, <2>2, <2>3, <2>4 DEF RunnerRow, RunnerStep, Outcome
<1>7. /\ runner' \in [Dispatcher -> RunnerRow] /\ runner'[d] = m
      /\ \A e \in Dispatcher \ {d} : runner'[e] = runner[e]
    BY <1>4, <1>6 DEF InboxInv
<1>8. RunnerBound(d)'
  <2>1. dispatcher'[d].token = NoToken
      BY <1>4, NothingHeld DEF StartTick, textVars
  <2>2. \A t \in found : Issued(t[1], t[2])'
      BY <1>4, <1>5 DEF Issued
  <2> QED BY <1>6, <1>7, <2>1, <2>2 DEF RunnerBound
<1> QED BY <1>4, <1>7, <1>8, RowsStay, RunnerActs

\* An outcome is recorded in the row whose token it is about.
LEMMA RecordStep == ASSUME InboxInv, NEW d \in Dispatcher, RecordOutcome(d) PROVE InboxInv'
<1> USE InboxAssumption
<1>1. PICK me \in RunnerRow : me = runner[d]
    BY DEF InboxInv
<1>2. RunnerBound(d) /\ me.pc = "record" /\ dispatcher[d].token = NoToken
    BY <1>1, NothingHeld DEF RecordOutcome, InboxInv, RunnersAreBound
<1>3. PICK n \in Note : n = me.note
    BY <1>1, <1>2 DEF RunnerBound, Issued
<1>4. PICK r \in NoteRow : r = notes[n] /\ RowOK(r) /\ KnownRow(n, r)
    BY InboxTyped
<1>5. PICK s : s = Recorded(r, me.send, me.outcome)
    OBVIOUS
<1>6. notes' = [notes EXCEPT ![n] = s] /\ UNCHANGED <<textVars, items, crashes>>
    BY <1>1, <1>3, <1>4, <1>5 DEF RecordOutcome
<1>7. RowOK(s) /\ KnownRow(n, s) /\ Moved(r, s) /\ r.send <= s.send
  <2>1. CASE r.state \notin Undelivered \/ r.send # me.send
    <3>1. s = r
        BY <1>5, <2>1 DEF Recorded
    <3>2. r.send <= r.send
        BY <1>4, SMT DEF NoteRow
    <3> QED BY <1>4, <3>1, <3>2 DEF Moved
  <2>2. CASE r.state \in Undelivered /\ r.send = me.send
    <3>1. PICK x \in {"acked", "ready", "unknown"} :
             /\ x = RecordedState[me.outcome]
             /\ x = "acked" => StateOf(n, me.send) = "confirmed"
             /\ x = "ready" => StateOf(n, me.send) = "sealed"
      <4>1. me.outcome \in Outcome
          BY DEF RunnerRow
      <4>2. /\ me.outcome = "confirmed" => StateOf(n, me.send) = "confirmed"
            /\ me.outcome = "not_sent" => StateOf(n, me.send) = "sealed"
          BY <1>1, <1>2, <1>3 DEF RunnerBound
      <4> QED BY <4>1, <4>2 DEF Outcome, RecordedState
    <3>2. s = Turned(r, x, FALSE, 0)
        BY <1>5, <2>2, <3>1 DEF Recorded
    <3>3. s \in NoteRow
      <4>1. x \in NoteState /\ FALSE \in BOOLEAN /\ 0 \in Nat
          BY DEF NoteState
      <4> QED BY <3>2, <4>1, NoteRows
    <3>4. s.state = x /\ s.send = r.send /\ s.item = r.item /\ s.lease = 0
        BY <3>2, SMT DEF Turned, NoteRow
    <3> QED BY <1>4, <2>2, <3>1, <3>3, <3>4, SMT DEF RowOK, KnownRow, Moved, Undelivered, Blocking, PreSend, NoteRow
  <2> QED BY <2>1, <2>2
<1>8. CASE \E x \in Finished : runner' = [runner EXCEPT ![d] = x]
    BY <1>2, <1>4, <1>6, <1>7, <1>8, NoteMoves, TurnEnds
<1>9. ASSUME NEW rest \in SUBSET me.queue, NEW pc \in {"dispatch", "recover"},
             runner' = [runner EXCEPT ![d] = [IdleRunner EXCEPT !.pc = pc, !.queue = rest]]
      PROVE InboxInv'
  <2>1. PICK m : m = [IdleRunner EXCEPT !.pc = pc, !.queue = rest]
      OBVIOUS
  <2>2. m \in RunnerRow /\ m.pc = pc /\ m.queue = rest
    <3>1. m = [pc |-> pc, queue |-> rest, note |-> 0, lease |-> 0, send |-> 0, outcome |-> "none"]
        BY <2>1 DEF IdleRunner
    <3>2. 0 \in 0 .. MaxNotes /\ 0 \in 0 .. MaxSends /\ 0 \in Nat
        BY SMT
    <3>3. rest \in SUBSET Token
        BY DEF RunnerRow
    <3> QED BY <3>1, <3>2, <3>3 DEF RunnerRow, RunnerStep, Outcome
  <2>3. /\ runner' \in [Dispatcher -> RunnerRow] /\ runner'[d] = m
        /\ \A e \in Dispatcher \ {d} : runner'[e] = runner[e]
      BY <1>9, <2>1, <2>2 DEF InboxInv
  <2>4. /\ notes' = [k \in Note |-> notes'[k]] /\ Ordered(notes')
        /\ \A k \in Note : RowOK(notes'[k]) /\ KnownRow(k, notes'[k]) /\ notes[k].send <= notes'[k].send
      BY <1>4, <1>6, <1>7, NoteMoves
  <2>5. \A i, k : Issued(i, k) => Issued(i, k)'
    <3>1. \A i \in Note : notes[i].send \in Nat /\ notes'[i].send \in Nat
        BY <2>4, InboxTyped, SMT DEF RowOK, NoteRow
    <3> QED BY <2>4, <3>1, SMT DEF Issued
  <2>6. RunnerBound(d)'
    <3>1. dispatcher'[d].token = NoToken
        BY <1>2, <1>6 DEF textVars
    <3>2. \A t \in rest : Issued(t[1], t[2])'
        BY <1>1, <1>2, <2>5 DEF RunnerBound
    <3> QED BY <2>2, <2>3, <3>1, <3>2 DEF RunnerBound
  <2> QED BY <1>6, <2>3, <2>4, <2>6, RunnerActs
<1>10. \/ \E x \in Finished : runner' = [runner EXCEPT ![d] = x]
       \/ \E rest \in SUBSET me.queue, pc \in {"dispatch", "recover"} :
             runner' = [runner EXCEPT ![d] = [IdleRunner EXCEPT !.pc = pc, !.queue = rest]]
  <2>1. PICK rest : rest = me.queue \ {<<me.note, me.send>>}
      OBVIOUS
  <2>2. PICK pc : pc = IF rest = {} THEN "dispatch" ELSE "recover"
      OBVIOUS
  <2>3. \/ \E x \in Finished : runner' = [runner EXCEPT ![d] = x]
        \/ runner' = [runner EXCEPT ![d] = [IdleRunner EXCEPT !.pc = pc, !.queue = rest]]
      BY <1>1, <2>1, <2>2 DEF RecordOutcome
  <2> QED BY <2>1, <2>2, <2>3
<1> QED BY <1>8, <1>9, <1>10

\* The ledger moves, and runners with it; the notes stay.
LEMMA LedgerActs ==
    ASSUME InboxInv, [TextNext]_textVars, UNCHANGED <<items, notes>>, SendsAreKnown',
           runner' \in [Dispatcher -> RunnerRow],
           \A e \in Dispatcher :
              \/ runner'[e] = runner[e] /\ dispatcher'[e].token = dispatcher[e].token
              \/ RunnerBound(e)'
    PROVE  InboxInv'
<1>1. \A t \in Token : effects[t].state \in {"sealed", "confirmed"} => effects'[t].state = effects[t].state
  <2>1. CASE UNCHANGED textVars
      BY <2>1 DEF textVars
  <2>2. CASE TextNext
    <3>1. \A t \in Token : effects[t] \in Effect
        BY InboxTyped DEF TextTypeOK
    <3>2. \A t \in Token : [effects[t] EXCEPT !.bound = 1].state = effects[t].state
        BY <3>1, SMT DEF Effect
    <3> QED BY <2>2, <3>2, OutcomesStand DEF OutcomeKept, InboxInv
  <2> QED BY <2>1, <2>2
<1>2. \A n \in Note : notes[n].send <= notes'[n].send /\ notes'[n].send \in 0 .. MaxSends
    BY InboxAssumption, InboxTyped, SMT DEF NoteRow
<1>3. \A e \in Dispatcher : RunnerBound(e)'
    BY <1>1, <1>2, RunnerWaits
<1>4. TextTypeOK'
    BY TextStep DEF InboxInv, TextInv
<1>5. \A d \in Dispatcher : runner'[d].pc \in RunnerStep /\ runner'[d].outcome \in Outcome
    BY SMT DEF RunnerRow
<1>6. InboxTypeOK'
    BY <1>4, <1>5 DEF InboxInv, InboxTypeOK
<1>7. Ordered(notes)'
    BY DEF InboxInv, Ordered
<1> QED BY <1>3, <1>6, <1>7, InboxParts

\* What a row of the ledger says of its token.
LEMMA OutcomeSays ==
    ASSUME NEW e
    PROVE  /\ OutcomeOf(e) \in Outcome
           /\ OutcomeOf(e) = "confirmed" => e.state = "confirmed"
           /\ OutcomeOf(e) = "not_sent" => e.state = "sealed"
<1> QED BY DEF OutcomeOf, Outcome

\* A runner with a token that was handed out.
LEMMA TokenHeld ==
    ASSUME InboxInv, NEW d \in Dispatcher, runner[d].pc \in {"admitted", "sending", "record"}
    PROVE  /\ Issued(runner[d].note, runner[d].send) /\ SendToken(d) \in Token
           /\ runner[d].note \in Note /\ runner[d].send \in 1 .. MaxSends
<1>1. Issued(runner[d].note, runner[d].send)
    BY DEF InboxInv, RunnersAreBound, RunnerBound
<1>2. runner[d].note \in Note /\ runner[d].send \in 1 .. MaxSends
    BY <1>1, InboxTyped, InboxAssumption, SMT DEF Issued, NoteRow
<1> QED BY <1>1, <1>2, Tokens DEF SendToken

\* A runner that goes on to record what the ledger says.
LEMMA RunnerTells ==
    ASSUME InboxInv, NEW d \in Dispatcher, UNCHANGED notes,
           runner[d].pc \in {"admitted", "sending"},
           NEW o \in Outcome,
           o = "confirmed" => effects'[SendToken(d)].state = "confirmed",
           o = "not_sent" => effects'[SendToken(d)].state = "sealed",
           dispatcher'[d].token = NoToken,
           runner' = [runner EXCEPT ![d] = [@ EXCEPT !.pc = "record", !.outcome = o]]
    PROVE  /\ runner' \in [Dispatcher -> RunnerRow]
           /\ \A e \in Dispatcher \ {d} : runner'[e] = runner[e]
           /\ RunnerBound(d)'
<1>1. PICK me \in RunnerRow : me = runner[d]
    BY DEF InboxInv
<1>2. PICK m : m = [me EXCEPT !.pc = "record", !.outcome = o]
    OBVIOUS
<1>3. m \in RunnerRow
  <2>1. "record" \in RunnerStep
      BY DEF RunnerStep
  <2> QED BY <1>2, <2>1, RunnerRecords
<1>4. m.pc = "record" /\ m.outcome = o /\ m.queue = me.queue /\ m.note = me.note /\ m.send = me.send
    BY <1>2, SMT DEF RunnerRow
<1>5. runner' = [runner EXCEPT ![d] = m]
    BY <1>1, <1>2
<1>6. /\ runner' \in [Dispatcher -> RunnerRow] /\ runner'[d] = m
      /\ \A e \in Dispatcher \ {d} : runner'[e] = runner[e]
    BY <1>3, <1>5 DEF InboxInv
<1>7. Issued(me.note, me.send)' /\ \A t \in me.queue : Issued(t[1], t[2])'
    BY <1>1 DEF InboxInv, RunnersAreBound, RunnerBound, Issued
<1>8. /\ o = "confirmed" => StateOf(m.note, m.send)' = "confirmed"
      /\ o = "not_sent" => StateOf(m.note, m.send)' = "sealed"
    BY <1>1, <1>4 DEF StateOf, SendToken
<1>9. RunnerBound(d)'
    BY <1>4, <1>6, <1>7, <1>8 DEF RunnerBound
<1> QED BY <1>6, <1>9

\* A runner dispatches, or learns what became of its token.
LEMMA DispatchStepKeeps == ASSUME InboxInv, NEW d \in Dispatcher, DispatchText(d) PROVE InboxInv'
<1> USE InboxAssumption
<1>1. PICK me \in RunnerRow : me = runner[d]
    BY DEF InboxInv
<1>2. /\ me.pc = "admitted" /\ me.note \in Note /\ me.send \in 1 .. MaxSends /\ SendToken(d) \in Token
      /\ Issued(me.note, me.send) /\ SendToken(d) = <<me.note, me.send>> /\ RunnerBound(d)
    BY <1>1, TokenHeld DEF DispatchText, SendToken, InboxInv, RunnersAreBound
<1>3. CASE /\ BeginText(d, SendToken(d), me.note)
           /\ runner' = [runner EXCEPT ![d] = [@ EXCEPT !.pc = "sending"]]
  <2>1. TextNext
      BY <1>2, <1>3 DEF TextNext
  <2>2. PICK m : m = [me EXCEPT !.pc = "sending"]
      OBVIOUS
  <2>3. m \in RunnerRow /\ m.pc = "sending" /\ m.queue = me.queue /\ m.note = me.note /\ m.send = me.send
      BY <2>2, SMT DEF RunnerRow, RunnerStep
  <2>4. /\ runner' \in [Dispatcher -> RunnerRow] /\ runner'[d] = m
        /\ \A e \in Dispatcher \ {d} : runner'[e] = runner[e]
      BY <1>1, <1>3, <2>2, <2>3 DEF InboxInv
  <2>5. \A t \in Token \ {<<me.note, me.send>>} : effects'[t].state = effects[t].state
      BY <1>2, <1>3, InboxTyped DEF BeginText, TextTypeOK
  <2>6. StateOf(me.note, me.send) \notin {"sealed", "confirmed"}
      BY <1>2, <1>3 DEF BeginText, Admissible, StateOf
  <2>7. SendsAreKnown'
      BY <1>2, <2>5, <2>6, SendsMove DEF DispatchText
  <2>8. /\ dispatcher'[d].token = SendToken(d)
        /\ \A e \in Dispatcher \ {d} : dispatcher'[e].token = dispatcher[e].token
      BY <1>3, InboxTyped DEF BeginText, TextTypeOK
  <2>9. Issued(me.note, me.send)' /\ \A t \in me.queue : Issued(t[1], t[2])'
      BY <1>1, <1>2 DEF RunnerBound, Issued, DispatchText
  <2>10. SendToken(d)' = SendToken(d)
      BY <1>1, <2>3, <2>4 DEF SendToken
  <2>11. RunnerBound(d)'
      BY <2>3, <2>4, <2>8, <2>9, <2>10 DEF RunnerBound
  <2> QED BY <2>1, <2>4, <2>7, <2>8, <2>11, LedgerActs DEF DispatchText
<1>4. CASE /\ runner' = [runner EXCEPT ![d] = [@ EXCEPT !.pc = "record", !.outcome = OutcomeOf(effects[SendToken(d)])]]
           /\ UNCHANGED textVars
  <2>1. UNCHANGED effects /\ dispatcher' = dispatcher
      BY <1>4 DEF textVars
  <2>2. dispatcher'[d].token = NoToken
      BY <1>1, <1>2, <2>1, NothingHeld
  <2>3. PICK o \in Outcome : /\ o = OutcomeOf(effects[SendToken(d)])
                             /\ o = "confirmed" => effects[SendToken(d)].state = "confirmed"
                             /\ o = "not_sent" => effects[SendToken(d)].state = "sealed"
      BY OutcomeSays
  <2>4. runner' = [runner EXCEPT ![d] = [@ EXCEPT !.pc = "record", !.outcome = o]]
      BY <1>4, <2>3
  <2>5. /\ runner' \in [Dispatcher -> RunnerRow] /\ RunnerBound(d)'
        /\ \A e \in Dispatcher \ {d} : runner'[e] = runner[e]
      BY <1>1, <1>2, <2>1, <2>2, <2>3, <2>4, RunnerTells DEF DispatchText
  <2> QED BY <1>4, <2>5, RowsStay, RunnerActs DEF DispatchText
<1> QED BY <1>1, <1>3, <1>4 DEF DispatchText

\* Absence is sealed, or the ledger knows the token already.
LEMMA SealKeeps ==
    ASSUME InboxInv, UNCHANGED notes, NEW n, NEW k, Issued(n, k), <<n, k>> \in Token,
           SealText(<<n, k>>) \/ (~MaySeal(effects[<<n, k>>]) /\ UNCHANGED textVars)
    PROVE  [TextNext]_textVars /\ SendsAreKnown' /\ UNCHANGED dispatcher
<1>1. CASE SealText(<<n, k>>)
  <2>1. TextNext /\ UNCHANGED dispatcher
      BY <1>1 DEF TextNext, SealText
  <2>2. \A t \in Token \ {<<n, k>>} : effects'[t].state = effects[t].state
      BY <1>1, InboxTyped DEF SealText, TextTypeOK
  <2>3. StateOf(n, k) \notin {"sealed", "confirmed"}
      BY <1>1 DEF SealText, MaySeal, StateOf
  <2>4. n \in Note
      BY DEF Issued
  <2>5. SendsAreKnown'
      BY <2>2, <2>3, <2>4, SendsMove
  <2> QED BY <2>1, <2>5
<1>2. CASE UNCHANGED textVars
    BY <1>2 DEF textVars, InboxInv, SendsAreKnown, KnownRow, StateOf
<1> QED BY <1>1, <1>2

\* A denied send seals its absence, and says what the ledger knows.
LEMMA ForbidStep == ASSUME InboxInv, NEW d \in Dispatcher, Forbid(d) PROVE InboxInv'
<1>1. PICK n, k : /\ n = runner[d].note /\ k = runner[d].send /\ SendToken(d) = <<n, k>>
                  /\ Issued(n, k) /\ <<n, k>> \in Token
    BY TokenHeld DEF Forbid, SendToken
<1>2. [TextNext]_textVars /\ SendsAreKnown' /\ UNCHANGED dispatcher
    BY <1>1, SealKeeps DEF Forbid
<1>3. PICK o \in Outcome : /\ o = OutcomeOf(effects'[SendToken(d)])
                           /\ o = "confirmed" => effects'[SendToken(d)].state = "confirmed"
                           /\ o = "not_sent" => effects'[SendToken(d)].state = "sealed"
    BY OutcomeSays
<1>4. runner' = [runner EXCEPT ![d] = [@ EXCEPT !.pc = "record", !.outcome = o]]
    BY <1>3 DEF Forbid
<1>5. dispatcher'[d].token = NoToken
    BY <1>2, NothingHeld DEF Forbid
<1>6. /\ runner' \in [Dispatcher -> RunnerRow] /\ RunnerBound(d)'
      /\ \A e \in Dispatcher \ {d} : runner'[e] = runner[e]
    BY <1>3, <1>4, <1>5, RunnerTells DEF Forbid
<1> QED BY <1>2, <1>6, LedgerActs DEF Forbid

\* Telegram and a dispatcher that waits for it.
LEMMA NetworkStep ==
    ASSUME InboxInv, UNCHANGED inboxVars,
           \/ \E d \in Dispatcher : PostText(d) \/ AnswerText(d)
           \/ \E t \in Token : \E k \in DOMAIN posted[t] : AcceptText(t, k)
    PROVE  InboxInv'
<1>1. TextNext /\ UNCHANGED <<effects, items, notes, runner>>
    BY DEF TextNext, PostText, AnswerText, AcceptText, inboxVars
<1>2. \A e \in Dispatcher : dispatcher'[e].token = dispatcher[e].token
  <2>1. \A e \in Dispatcher : dispatcher[e] \in Dispatch
      BY InboxTyped DEF TextTypeOK
  <2>2. \A m \in Dispatch : \A n : /\ [m EXCEPT !.pc = "wait"].token = m.token
                                   /\ [m EXCEPT !.pc = "give_up"].token = m.token
                                   /\ [m EXCEPT !.pc = "confirm", !.receipt = n].token = m.token
      BY SMT DEF Dispatch
  <2>3. ASSUME NEW d \in Dispatcher, PostText(d) PROVE \A e \in Dispatcher : dispatcher'[e].token = dispatcher[e].token
      BY <2>1, <2>2, <2>3, InboxTyped DEF PostText, TextTypeOK
  <2>4. ASSUME NEW d \in Dispatcher, AnswerText(d) PROVE \A e \in Dispatcher : dispatcher'[e].token = dispatcher[e].token
    <3>1. PICK m : m \in Dispatch /\ m = dispatcher[d]
        BY <2>1
    <3>2. PICK x : x.token = m.token /\ dispatcher' = [dispatcher EXCEPT ![d] = x]
        BY <2>2, <2>4, <3>1 DEF AnswerText
    <3> QED BY <3>1, <3>2, InboxTyped DEF TextTypeOK
  <2> QED BY <2>3, <2>4 DEF AcceptText
<1>3. SendsAreKnown'
    BY <1>1 DEF InboxInv, SendsAreKnown, KnownRow, StateOf
<1>4. runner' \in [Dispatcher -> RunnerRow]
    BY <1>1 DEF InboxInv
<1> QED BY <1>1, <1>2, <1>3, <1>4, LedgerActs

\* A dispatch returns what it has recorded.
LEMMA ReturnStep == ASSUME InboxInv, NEW d \in Dispatcher, Return(d) PROVE InboxInv'
<1>1. PICK n, k : /\ n = runner[d].note /\ k = runner[d].send /\ SendToken(d) = <<n, k>>
                  /\ Issued(n, k) /\ <<n, k>> \in Token
    BY TokenHeld DEF Return, SendToken
<1>2. dispatcher[d].token = <<n, k>>
    BY <1>1 DEF Return, InboxInv, RunnersAreBound, RunnerBound
<1>3. /\ effects[<<n, k>>].state = "sending"
      /\ dispatcher[d].pc = "confirm" => effects'[<<n, k>>].state = "confirmed"
      /\ \A t \in Token \ {<<n, k>>} : effects'[t].state = effects[t].state
    BY <1>2, RecordedRow DEF Return, InboxInv
<1>4. TextNext /\ SendsAreKnown'
  <2>1. n \in Note /\ StateOf(n, k) = "sending"
      BY <1>1, <1>3 DEF Issued, StateOf
  <2>2. SendsAreKnown'
      BY <1>1, <1>3, <2>1, SendsMove DEF Return
  <2> QED BY <2>2 DEF TextNext, Return
<1>5. /\ dispatcher'[d].token = NoToken
      /\ \A e \in Dispatcher \ {d} : dispatcher'[e].token = dispatcher[e].token
    BY InboxTyped DEF Return, RecordText, TextTypeOK, IdleDispatcher
<1>6. PICK o \in Outcome : o = IF dispatcher[d].pc = "confirm" THEN "confirmed" ELSE "unknown"
    BY DEF Outcome
<1>7. /\ o = "confirmed" => effects'[SendToken(d)].state = "confirmed"
      /\ o = "not_sent" => effects'[SendToken(d)].state = "sealed"
    BY <1>1, <1>3, <1>6
<1>8. runner' = [runner EXCEPT ![d] = [@ EXCEPT !.pc = "record", !.outcome = o]]
    BY <1>6 DEF Return
<1>9. /\ runner' \in [Dispatcher -> RunnerRow] /\ RunnerBound(d)'
      /\ \A e \in Dispatcher \ {d} : runner'[e] = runner[e]
    BY <1>5, <1>7, <1>8, RunnerTells DEF Return
<1> QED BY <1>4, <1>5, <1>9, LedgerActs DEF Return

\* The first token of a recovery is sealed or known, and its outcome goes on record.
LEMMA RecoverStep == ASSUME InboxInv, NEW d \in Dispatcher, Recover(d) PROVE InboxInv'
<1> USE InboxAssumption
<1>1. PICK me \in RunnerRow : me = runner[d]
    BY DEF InboxInv
<1>2. PICK t \in me.queue :
         /\ SealText(t) \/ (~MaySeal(effects[t]) /\ UNCHANGED textVars)
         /\ runner' = [runner EXCEPT ![d] =
               IF OutcomeOf(effects'[t]) = "confirmed" /\ items[notes[t[1]].item].status = "deleted"
               THEN IdleRunner
               ELSE [@ EXCEPT !.pc = "record", !.note = t[1], !.send = t[2],
                              !.outcome = OutcomeOf(effects'[t])]]
    BY <1>1 DEF Recover
<1>3. t \in Note \X (1 .. MaxSends) /\ Issued(t[1], t[2])
    BY <1>1 DEF InboxInv, RunnersAreBound, RunnerBound, RunnerRow, NoteToken
<1>4. PICK n \in Note, k \in 1 .. MaxSends : t = <<n, k>> /\ n = t[1] /\ k = t[2]
    BY <1>3
<1>5. Issued(n, k) /\ <<n, k>> \in Token
    BY <1>3, <1>4, Tokens
<1>6. [TextNext]_textVars /\ SendsAreKnown' /\ UNCHANGED dispatcher
    BY <1>2, <1>4, <1>5, SealKeeps DEF Recover
<1>7. dispatcher'[d].token = NoToken
    BY <1>6, NothingHeld DEF Recover
<1>8. PICK o \in Outcome : /\ o = OutcomeOf(effects'[t])
                           /\ o = "confirmed" => effects'[t].state = "confirmed"
                           /\ o = "not_sent" => effects'[t].state = "sealed"
    BY OutcomeSays
<1>9. PICK m : m = [me EXCEPT !.pc = "record", !.note = n, !.send = k, !.outcome = o]
    OBVIOUS
<1>10. CASE runner' = [runner EXCEPT ![d] = IdleRunner]
  <2>1. IdleRunner \in Finished
      BY DEF Finished
  <2>2. runner' \in [Dispatcher -> RunnerRow] /\ RunnerBound(d)'
      BY <1>7, <1>10, <2>1, RunnerRests
  <2>3. \A e \in Dispatcher \ {d} : runner'[e] = runner[e]
      BY <1>10 DEF InboxInv
  <2> QED BY <1>6, <2>2, <2>3, LedgerActs DEF Recover
<1>11. CASE runner' = [runner EXCEPT ![d] = m]
  <2>1. m \in RunnerRow
    <3>1. "record" \in RunnerStep /\ n \in 0 .. MaxNotes /\ k \in 0 .. MaxSends
        BY SMT DEF RunnerStep, Note
    <3> QED BY <1>9, <3>1, RunnerRecovers
  <2>2. m.pc = "record" /\ m.outcome = o /\ m.queue = me.queue /\ m.note = n /\ m.send = k
      BY <1>9, SMT DEF RunnerRow
  <2>3. /\ runner' \in [Dispatcher -> RunnerRow] /\ runner'[d] = m
        /\ \A e \in Dispatcher \ {d} : runner'[e] = runner[e]
      BY <1>11, <2>1 DEF InboxInv
  <2>4. Issued(n, k)' /\ \A u \in me.queue : Issued(u[1], u[2])'
      BY <1>1, <1>5 DEF Recover, InboxInv, RunnersAreBound, RunnerBound, Issued
  <2>5. /\ o = "confirmed" => StateOf(m.note, m.send)' = "confirmed"
        /\ o = "not_sent" => StateOf(m.note, m.send)' = "sealed"
      BY <1>4, <1>8, <2>2 DEF StateOf
  <2>6. RunnerBound(d)'
      BY <1>7, <2>2, <2>3, <2>4, <2>5 DEF RunnerBound
  <2> QED BY <1>6, <2>3, <2>6, LedgerActs DEF Recover
<1>12. \/ runner' = [runner EXCEPT ![d] = IdleRunner]
       \/ runner' = [runner EXCEPT ![d] = m]
    BY <1>1, <1>2, <1>4, <1>8, <1>9
<1> QED BY <1>10, <1>11, <1>12

\* A crash forgets what the runner held; rows and ledger stay.
LEMMA CrashStep == ASSUME InboxInv, NEW d \in Dispatcher, Crash(d) PROVE InboxInv'
<1>1. runner' \in [Dispatcher -> RunnerRow] /\ RunnerBound(d)'
  <2>1. IdleRunner \in Finished /\ dispatcher'[d].token = NoToken
      BY InboxTyped DEF Finished, Crash, TextTypeOK, IdleDispatcher
  <2> QED BY <2>1, RunnerRests DEF Crash
<1>2. \A e \in Dispatcher \ {d} : runner'[e] = runner[e] /\ dispatcher'[e] = dispatcher[e]
    BY InboxTyped DEF Crash, InboxInv, TextTypeOK
<1>3. [TextNext]_textVars
  <2>1. CASE dispatcher[d].pc # "idle"
      BY <2>1 DEF Crash, TextNext, AbortText
  <2>2. CASE dispatcher[d].pc = "idle"
    <3>1. dispatcher[d] = IdleDispatcher
        BY <2>2 DEF InboxInv, TextInv, DispatcherHolds
    <3>2. dispatcher' = dispatcher
        BY <3>1, InboxTyped DEF Crash, TextTypeOK
    <3> QED BY <3>2 DEF Crash, textVars
  <2> QED BY <2>1, <2>2
<1>4. SendsAreKnown'
    BY DEF Crash, InboxInv, SendsAreKnown, KnownRow, StateOf
<1> QED BY <1>1, <1>2, <1>3, <1>4, LedgerActs DEF Crash

\* Items and rows move; runners and the ledger stay.
LEMMA OwnerActs ==
    ASSUME InboxInv, UNCHANGED <<textVars, runner>>,
           items' \in [Item -> [status: {"active", "inactive", "deleted"}, bound: BOOLEAN]],
           notes' = [n \in Note |-> notes'[n]],
           \A n \in Note : /\ RowOK(notes[n])' /\ KnownRow(n, notes'[n])
                           /\ notes'[n].send = notes[n].send,
           Ordered(notes)'
    PROVE  InboxInv'
<1>1. UNCHANGED <<effects, dispatcher>> /\ TextTypeOK'
    BY TextStep DEF textVars, InboxInv, TextInv
<1>2. SendsAreKnown'
    BY <1>1 DEF SendsAreKnown, KnownRow, StateOf
<1>3. runner' \in [Dispatcher -> RunnerRow]
    BY DEF InboxInv
<1>4. \A d \in Dispatcher : runner'[d].pc \in RunnerStep /\ runner'[d].outcome \in Outcome
    BY <1>3, SMT DEF RunnerRow
<1>5. InboxTypeOK'
  <2>1. notes' \in [Note -> NoteRow]
      BY DEF RowOK
  <2> QED BY <1>1, <1>4, <2>1 DEF InboxTypeOK, RowOK
<1>6. \A n \in Note : notes[n].send <= notes'[n].send /\ notes'[n].send \in 0 .. MaxSends
  <2>1. \A n \in Note : notes[n].send \in 0 .. MaxSends
      BY InboxTyped, SMT DEF NoteRow
  <2> QED BY <2>1, InboxAssumption, SMT
<1>7. \A d \in Dispatcher : RunnerBound(d)'
    BY <1>1, <1>6, RunnerWaits
<1> QED BY <1>2, <1>3, <1>5, <1>7, InboxParts

\* The status of an item is no matter to its notes until they are claimed.
LEMMA StatusStep ==
    ASSUME InboxInv, NEW i \in Item, NEW x \in {"active", "inactive", "deleted"},
           items' = [items EXCEPT ![i].status = x], UNCHANGED <<textVars, notes, runner, crashes>>
    PROVE  InboxInv'
<1>1. items \in [Item -> [status: {"active", "inactive", "deleted"}, bound: BOOLEAN]]
    BY InboxTyped
<1>2. PICK it \in [status: {"active", "inactive", "deleted"}, bound: BOOLEAN] : it = items[i]
    BY <1>1
<1>3. PICK s : s = [it EXCEPT !.status = x]
    OBVIOUS
<1>4. s \in [status: {"active", "inactive", "deleted"}, bound: BOOLEAN] /\ s.bound = it.bound
  <2>1. s.bound = it.bound
      BY <1>3
  <2>2. \A y \in {"active", "inactive", "deleted"} :
           [it EXCEPT !.status = y] \in [status: {"active", "inactive", "deleted"}, bound: BOOLEAN]
      BY SMT
  <2> QED BY <1>3, <2>1, <2>2
<1>5. items' = [items EXCEPT ![i] = s]
    BY <1>2, <1>3
<1>6. /\ items' \in [Item -> [status: {"active", "inactive", "deleted"}, bound: BOOLEAN]]
      /\ \A j \in Item : items'[j].bound = items[j].bound
    BY <1>1, <1>2, <1>4, <1>5
<1>7. \A n \in Note : RowOK(notes[n])' /\ KnownRow(n, notes'[n]) /\ notes'[n].send = notes[n].send
  <2>1. \A n \in Note : notes[n].item \in Item
      BY InboxTyped, SMT DEF NoteRow
  <2> QED BY <1>6, <2>1, InboxTyped DEF RowOK
<1>8. Ordered(notes)'
  <2>1. \A n \in Note : notes[n].item \in Item
      BY InboxTyped, SMT DEF NoteRow
  <2> QED BY <1>6, <2>1 DEF Ordered, InboxInv
<1>9. notes' = [n \in Note |-> notes'[n]]
    BY InboxTyped
<1> QED BY <1>6, <1>7, <1>8, <1>9, OwnerActs

\* The reply of an item is known, and its waiting notes are ready.
LEMMA BindStep == ASSUME InboxInv, NEW i \in Item, BindReply(i) PROVE InboxInv'
<1> USE InboxAssumption
<1>1. items \in [Item -> [status: {"active", "inactive", "deleted"}, bound: BOOLEAN]]
    BY InboxTyped
<1>2. PICK it \in [status: {"active", "inactive", "deleted"}, bound: BOOLEAN] : it = items[i]
    BY <1>1
<1>3. PICK s : s = [it EXCEPT !.bound = TRUE]
    OBVIOUS
<1>4. s \in [status: {"active", "inactive", "deleted"}, bound: BOOLEAN] /\ s.bound
  <2>1. s.bound = TRUE
      BY <1>3
  <2>2. \A y \in BOOLEAN :
           [it EXCEPT !.bound = y] \in [status: {"active", "inactive", "deleted"}, bound: BOOLEAN]
      BY SMT
  <2> QED BY <1>3, <2>1, <2>2
<1>5. items' = [items EXCEPT ![i] = s]
    BY <1>2, <1>3 DEF BindReply
<1>6. /\ items' \in [Item -> [status: {"active", "inactive", "deleted"}, bound: BOOLEAN]]
      /\ items'[i].bound /\ \A j \in Item \ {i} : items'[j] = items[j]
    BY <1>1, <1>4, <1>5
<1>7. ASSUME NEW n \in Note
      PROVE  /\ notes'[n] \in NoteRow /\ notes'[n].item = notes[n].item /\ notes'[n].send = notes[n].send
             /\ notes'[n].lease = notes[n].lease
             /\ \/ notes[n].state = "waiting" /\ notes[n].item = i /\ notes'[n].state = "ready"
                \/ ~(notes[n].state = "waiting" /\ notes[n].item = i) /\ notes'[n].state = notes[n].state
  <2>1. PICK r \in NoteRow : r = notes[n]
      BY InboxTyped
  <2>2. notes'[n] = IF r.item = i /\ r.state = "waiting" THEN [r EXCEPT !.state = "ready"] ELSE r
      BY <2>1 DEF BindReply
  <2>3. PICK q : q = [r EXCEPT !.state = "ready"]
      OBVIOUS
  <2>4. q \in NoteRow /\ q.item = r.item /\ q.send = r.send /\ q.state = "ready" /\ q.lease = r.lease
      BY <2>3, SMT DEF NoteRow, NoteState
  <2> QED BY <2>1, <2>2, <2>3, <2>4
<1>8. \A n \in Note : RowOK(notes[n]) /\ KnownRow(n, notes[n])
    BY InboxTyped
<1>9. \A n \in Note : notes[n].item \in Item
    BY InboxTyped, SMT DEF NoteRow
<1>10. ASSUME NEW n \in Note PROVE RowOK(notes[n])'
    BY <1>6, <1>7, <1>8, <1>9 DEF RowOK, Undelivered, Blocking
<1>11. ASSUME NEW n \in Note PROVE KnownRow(n, notes'[n])
    BY <1>7, <1>8 DEF KnownRow, PreSend
<1>12. Ordered(notes)'
  <2>1. Ordered(notes)
      BY DEF InboxInv
  <2>2. \A n \in Note : notes'[n].state = "waiting" => ~items'[notes'[n].item].bound
      BY <1>6, <1>7, <1>9, <2>1 DEF Ordered
  <2>3. \A m, n \in Note : m < n /\ notes'[n].state # "absent" => notes'[m].state # "absent"
      BY <1>7, <2>1 DEF Ordered
  <2>4. \A m, n \in Note :
          /\ m < n /\ notes'[m].item = notes'[n].item
          /\ notes'[n].state = "claimed" \/ notes'[n].send # 0
          => notes'[m].state \in {"acked", "cancelled"}
      BY <1>7, <2>1 DEF Ordered
  <2> QED BY <2>2, <2>3, <2>4 DEF Ordered
<1>13. notes' = [n \in Note |-> notes'[n]]
    BY DEF BindReply
<1> QED BY <1>6, <1>7, <1>10, <1>11, <1>12, <1>13, OwnerActs DEF BindReply

\* The notes that were admitted are the first ones.
LEMMA Admitted ==
    ASSUME InboxInv, NEW n \in Note, n = Cardinality({m \in Note : notes[m].state # "absent"}) + 1
    PROVE  notes[n].state = "absent" /\ \A m \in Note : m < n => notes[m].state # "absent"
<1> USE InboxAssumption
<1> DEFINE Present == {m \in Note : notes[m].state # "absent"}
<1>1. \A m, k \in Note : m < k /\ k \in Present => m \in Present
    BY DEF InboxInv, Ordered
<1>2. n \in Nat /\ n - 1 \in Nat /\ Cardinality(Present) = n - 1
  <2>1. IsFiniteSet(Note)
      BY FS_Interval DEF Note
  <2>2. Cardinality(Present) \in Nat
      BY <2>1, FS_Subset, FS_CardinalityType
  <2> QED BY <2>2, SMT DEF Note
<1>3. n \notin Present
  <2> SUFFICES ASSUME n \in Present PROVE FALSE
      OBVIOUS
  <2>1. 1 .. n \subseteq Present
    <3> SUFFICES ASSUME NEW m \in 1 .. n PROVE m \in Present
        OBVIOUS
    <3>1. m \in Note /\ (m = n \/ m < n)
        BY SMT DEF Note
    <3> HIDE DEF Present
    <3> QED BY <1>1, <3>1
  <2>2. IsFiniteSet(Present)
    <3>1. IsFiniteSet(1 .. MaxNotes) /\ Present \subseteq 1 .. MaxNotes
        BY FS_Interval DEF Note
    <3> QED BY <3>1, FS_Subset
  <2>3. Cardinality(1 .. n) <= Cardinality(Present)
      BY <2>1, <2>2, FS_Subset
  <2>4. Cardinality(1 .. n) = n
      BY <1>2, FS_Interval, SMT
  <2> QED BY <1>2, <2>3, <2>4, SMT
<1>4. ASSUME NEW m \in Note, m < n, m \notin Present PROVE FALSE
  <2>1. Present \subseteq 1 .. m - 1
      BY <1>1, <1>4, SMT DEF Note
  <2>2. m - 1 \in Nat /\ IsFiniteSet(1 .. m - 1) /\ Cardinality(1 .. m - 1) = m - 1
    <3>1. m \in Int /\ m >= 1
        BY DEF Note
    <3>2. 1 \in Int /\ m - 1 \in Int /\ m - 1 \in Nat
        BY <3>1, SMT
    <3>3. IsFiniteSet(1 .. m - 1)
        BY <3>2, FS_Interval
    <3>4. Cardinality(1 .. m - 1) = IF 1 > m - 1 THEN 0 ELSE m - 1 - 1 + 1
        BY <3>2, FS_Interval
    <3> QED BY <3>1, <3>2, <3>3, <3>4, SMT
  <2>3. Cardinality(Present) <= m - 1
      BY <2>1, <2>2, FS_Subset
  <2> QED BY <1>2, <1>4, <2>3, SMT DEF Note
<1> QED BY <1>3, <1>4

\* A completion leaves the next note, which waits for its reply or is ready.
LEMMA AdmitStep == ASSUME InboxInv, NEW i \in Item, AdmitNote(i) PROVE InboxInv'
<1> USE InboxAssumption
<1>1. PICK n \in Note :
         /\ n = Cardinality({m \in Note : notes[m].state # "absent"}) + 1
         /\ notes' = [notes EXCEPT ![n] = [@ EXCEPT !.item = i, !.state = IF items[i].bound THEN "ready" ELSE "waiting"]]
    BY DEF AdmitNote
<1>2. PICK r \in NoteRow : r = notes[n] /\ RowOK(r) /\ KnownRow(n, r)
    BY InboxTyped
<1>3. r.state = "absent" /\ r.send = 0 /\ \A m \in Note : m < n => notes[m].state # "absent"
    BY <1>1, <1>2, Admitted DEF KnownRow
<1>4. PICK x \in {"ready", "waiting"} : x = IF items[i].bound THEN "ready" ELSE "waiting"
    OBVIOUS
<1>5. PICK s : s = [r EXCEPT !.item = i, !.state = x]
    OBVIOUS
<1>6. notes' = [notes EXCEPT ![n] = s]
    BY <1>1, <1>2, <1>4, <1>5
<1>7. s \in NoteRow /\ s.item = i /\ s.state = x /\ s.send = 0
  <2> DEFINE f == [r EXCEPT !.item = i]
  <2>1. f \in NoteRow /\ f.item = i /\ f.send = r.send
      BY SMT DEF NoteRow
  <2>2. s = [f EXCEPT !.state = x]
      BY <1>5
  <2> HIDE DEF f
  <2> QED BY <1>3, <2>1, <2>2, SMT DEF NoteRow, NoteState
<1>8. RowOK(s) /\ KnownRow(n, s)
    BY <1>2, <1>3, <1>4, <1>7, SMT DEF RowOK, KnownRow, Undelivered, Blocking
<1>9. /\ notes' = [m \in Note |-> notes'[m]]
      /\ \A m \in Note : notes'[m] = IF m = n THEN s ELSE notes[m]
      /\ \A m \in Note : RowOK(notes'[m]) /\ KnownRow(m, notes'[m])
  <2>1. notes[n].send <= s.send
      BY <1>2, <1>3, <1>7, SMT
  <2> QED BY <1>6, <1>8, <2>1, NoteMoves
<1>10. Ordered(notes)'
  <2>1. Ordered(notes) /\ UNCHANGED items
      BY DEF InboxInv, AdmitNote
  <2>2. \A m \in Note : notes[m].state = "absent" => notes[m].send = 0
      BY InboxTyped DEF KnownRow
  <2>3. \A m, k \in Note : m < k /\ notes'[k].state # "absent" => notes'[m].state # "absent"
    <3> SUFFICES ASSUME NEW m \in Note, NEW k \in Note, m < k, notes'[k].state # "absent", m # n
                 PROVE  notes[m].state # "absent"
        BY <1>7, <1>9
    <3>1. CASE k = n
        BY <1>3, <3>1
    <3>2. CASE k # n
        BY <1>9, <2>1, <3>2 DEF Ordered
    <3> QED BY <3>1, <3>2
  <2>4. \A m \in Note : notes'[m].state = "waiting" => ~items'[notes'[m].item].bound
      BY <1>4, <1>7, <1>9, <2>1 DEF Ordered
  <2>5. \A m, k \in Note :
          /\ m < k /\ notes'[m].item = notes'[k].item
          /\ notes'[k].state = "claimed" \/ notes'[k].send # 0
          => notes'[m].state \in {"acked", "cancelled"}
    <3> SUFFICES ASSUME NEW m \in Note, NEW k \in Note, m < k, notes'[m].item = notes'[k].item,
                        notes'[k].state = "claimed" \/ notes'[k].send # 0
                 PROVE  notes'[m].state \in {"acked", "cancelled"}
        OBVIOUS
    <3>1. k # n
        BY <1>4, <1>7, <1>9
    <3>2. notes[k].state # "absent"
        BY <1>9, <2>2, <3>1
    <3>3. m # n
        BY <1>2, <1>3, <2>1, <3>2 DEF Ordered
    <3> QED BY <1>9, <2>1, <3>1, <3>3 DEF Ordered
  <2> QED BY <2>3, <2>4, <2>5 DEF Ordered
<1>11. \A m \in Note : notes'[m].send = notes[m].send
    BY <1>2, <1>3, <1>7, <1>9
<1>12. \A m \in Note : RowOK(notes[m])'
    BY <1>9 DEF AdmitNote, RowOK
<1> QED BY <1>9, <1>10, <1>11, <1>12, InboxTyped, OwnerActs DEF AdmitNote

LEMMA InboxStep == InboxInv /\ [InboxNext]_allVars => InboxInv'
<1> SUFFICES ASSUME InboxInv, [InboxNext]_allVars PROVE InboxInv'
    OBVIOUS
<1>1. CASE UNCHANGED allVars
    BY <1>1, RowsStay, RunnersAct DEF allVars, inboxVars, InboxInv
<1>2. ASSUME NEW d \in Dispatcher, Tick(d) PROVE InboxInv'
    BY <1>2, StartStep, RecoverStep, RecordStep, ClaimStep, BeginStep, DenyStep, DispatchStepKeeps,
       ForbidStep, NetworkStep, ReturnStep DEF Tick, Post, Answer
<1>3. ASSUME NEW d \in Dispatcher, Crash(d) PROVE InboxInv'
    BY <1>3, CrashStep
<1>4. ASSUME NEW i \in Item, DeleteItem(i) \/ (\E x \in {"active", "inactive"} : SetStatus(i, x))
      PROVE  InboxInv'
    BY <1>4, StatusStep DEF DeleteItem, SetStatus
<1>5. ASSUME NEW i \in Item, BindReply(i) \/ AdmitNote(i) PROVE InboxInv'
    BY <1>5, BindStep, AdmitStep
<1>6. ASSUME NEW n \in Note, LeaseLapses(n) PROVE InboxInv'
    BY <1>6, LapseStep
<1>7. ASSUME NEW t \in Token, NEW k \in DOMAIN posted[t], AcceptText(t, k) /\ UNCHANGED inboxVars
      PROVE  InboxInv'
    BY <1>7, NetworkStep
<1> QED BY <1>1, <1>2, <1>3, <1>4, <1>5, <1>6, <1>7 DEF InboxNext

\* The inductive invariant of the inbox and its ledger holds always.
THEOREM InboxInvariance == InboxSpec => []InboxInv
<1> QED BY InboxStarts, InboxStep, PTL DEF InboxSpec

\* Only the current send token of a note is posted, and only beyond the boundary.
LEMMA PostedCurrent ==
    ASSUME InboxInv, NEW n \in Note, NEW k \in PostedSends(n)
    PROVE  /\ k \in 1 .. MaxSends /\ k = notes[n].send
           /\ notes[n].state \in Undelivered \cup {"acked"}
           /\ notes[n].state = "acked" => accepted[<<n, k>>] # {}
<1> USE InboxAssumption
<1>1. k \in 1 .. MaxSends /\ posted[<<n, k>>] # <<>> /\ <<n, k>> \in Token
    BY Tokens DEF PostedSends
<1>2. StateOf(n, k) \notin {"absent", "sealed"}
    BY <1>1 DEF InboxInv, TextInv, AbsenceIsProven, StateOf
<1>3. RowOK(notes[n]) /\ KnownRow(n, notes[n])
    BY InboxTyped
<1>4. notes[n].send \in 0 .. MaxSends /\ notes[n].state \in NoteState
    BY <1>3, SMT DEF RowOK, NoteRow
<1>5. k = notes[n].send
    BY <1>1, <1>2, <1>3, <1>4, SMT DEF KnownRow
<1>6. notes[n].state \in Undelivered \cup {"acked"}
    BY <1>1, <1>2, <1>3, <1>4, <1>5, SMT DEF KnownRow, NoteState, PreSend, Undelivered
<1>7. notes[n].state = "acked" => accepted[<<n, k>>] # {}
    BY <1>1, <1>3, <1>5, Zenon DEF KnownRow, StateOf, InboxInv, TextInv, ReceiptIsReal
<1> QED BY <1>1, <1>5, <1>6, <1>7

\* A completion is posted at most once over all of its send tokens, in the order of
\* its reply, only beyond the durable send boundary, and what is acknowledged has
\* arrived (claim_notification, begin_notification_send, notification_outcome and
\* seal_text_absence together).
THEOREM NotificationsAlwaysSound == InboxSpec => []NotificationsAreSound
<1>1. InboxInv => NotificationsAreSound
  <2> SUFFICES ASSUME InboxInv PROVE NotificationsAreSound
      OBVIOUS
  <2>1. InboxTypeOK
      BY DEF InboxInv
  <2>2. PreSendIsUnsent
    <3> SUFFICES ASSUME NEW n \in Note, NEW k \in PostedSends(n)
                 PROVE  notes[n].state \notin PreSend \cup {"absent", "cancelled"}
        BY DEF PreSendIsUnsent
    <3> QED BY PostedCurrent DEF PreSend, Undelivered
  <2>3. EditedOnce
    <3> SUFFICES ASSUME NEW n \in Note PROVE Cardinality(PostedSends(n)) <= 1
        BY DEF EditedOnce
    <3>1. PostedSends(n) \subseteq {notes[n].send}
        BY PostedCurrent
    <3>2. IsFiniteSet({notes[n].send}) /\ Cardinality({notes[n].send}) = 1
        BY FS_Singleton
    <3> QED BY <3>1, <3>2, FS_Subset
  <2>4. EditsInOrder
    <3> SUFFICES ASSUME NEW m \in Note, NEW n \in Note, m < n, notes[m].item = notes[n].item,
                        NEW j \in PostedSends(n), NEW k \in PostedSends(m)
                 PROVE  accepted[<<m, k>>] # {}
        BY DEF EditsInOrder
    <3>1. notes[n].send # 0
      <4>1. j \in 1 .. MaxSends /\ j = notes[n].send
          BY PostedCurrent
      <4> QED BY <4>1, InboxAssumption, SMT
    <3>2. notes[m].state \in {"acked", "cancelled"}
        BY <3>1 DEF InboxInv, Ordered
    <3> QED BY <3>2, PostedCurrent DEF Undelivered
  <2>5. AckedHasArrived
    <3> SUFFICES ASSUME NEW n \in Note, notes[n].state = "acked"
                 PROVE  accepted[<<n, notes[n].send>>] # {}
        BY DEF AckedHasArrived
    <3>1. RowOK(notes[n]) /\ KnownRow(n, notes[n])
        BY InboxTyped
    <3>2. notes[n].send \in 1 .. MaxSends
        BY <3>1, InboxAssumption, SMT DEF RowOK, NoteRow
    <3> QED BY <3>1, <3>2, Tokens, Zenon DEF KnownRow, StateOf, InboxInv, TextInv, ReceiptIsReal
  <2> QED BY <2>1, <2>2, <2>3, <2>4, <2>5 DEF NotificationsAreSound
<1> QED BY <1>1, InboxInvariance, PTL

----------------------------------------------------------------------------
(* The ledger of GitHub mutations. Neither promise of MutationsAreSound is *)
(* inductive: a posted request outlives its handler, and another handler   *)
(* may have settled the intent meanwhile. LedgerInv says what a handler    *)
(* knows of its intent at each of its steps (only one is about to post,    *)
(* and nothing was posted yet; a refusal proves that the request is gone), *)
(* and which folder an intent keeps.                                       *)

IntentStates == ActiveStates \cup {"absent", "applied", "rejected"}
IntentRecords ==
    [kind : MutationKinds \cup {"none"}, state : IntentStates,
     folder : Folders \cup {NoFolder}, list : Lists \cup {NoList}, baseline : SUBSET Lists,
     result : Lists \cup {NoList}]
FolderRecords == [there : BOOLEAN, used : BOOLEAN, link : Lists \cup {NoList}]
RemoteRecords == [there : BOOLEAN, named : BOOLEAN, member : BOOLEAN]
RequestSteps == {"idle", "drive", "begin", "post", "answer", "record", "apply"}
Outcomes == {"none", "ok", "observed", "unknown", "refused", "adopted"}
HandlerRecords == [pc : RequestSteps, intent : Intents \cup {0}, seen : SUBSET Lists, outcome : Outcomes]

LedgerTyped ==
    /\ intent \in [Intents -> IntentRecords]
    /\ folder \in [Folders -> FolderRecords]
    /\ remote \in [Lists -> RemoteRecords]
    /\ handler \in [Handlers -> HandlerRecords]
    /\ wire \in SUBSET Intents /\ sends \in [Intents -> Nat] /\ snapshot \in SUBSET Lists

\* The states of an intent that was never sent, and never will be.
Unsent == {"absent", "prepared", "rejected"}

\* What an intent's row says of its request and of its folder.
IntentFits(n) ==
    /\ sends[n] <= 1
    /\ intent[n].state \in {"absent", "prepared"} => sends[n] = 0
    /\ n \in wire => sends[n] = 1 /\ intent[n].state \notin Unsent
    /\ intent[n].state # "absent" => intent[n].folder \in Folders /\ intent[n].kind \in MutationKinds
    /\ intent[n].state # "absent" /\ intent[n].kind = "create" => folder[intent[n].folder].used
    /\ intent[n].state = "rejected" /\ intent[n].kind = "create" => ~folder[intent[n].folder].there

\* What a request r being served may rely on.
RequestFits(r) ==
    r.pc # "idle" =>
        /\ r.intent \in Intents /\ intent[r.intent].state # "absent"
        /\ r.pc = "drive" => r.outcome = "none"
        /\ r.pc = "post" => sends[r.intent] = 0 /\ intent[r.intent].state \notin Unsent
        /\ r.pc = "answer" => sends[r.intent] = 1
        /\ r.pc = "record" /\ r.outcome = "refused" => sends[r.intent] = 1 /\ r.intent \notin wire
        /\ r.outcome \in {"ok", "adopted"} /\ intent[r.intent].kind = "create" => \E l \in Lists : r.seen = {l}

\* Two requests never both are about to post one intent.
OnePoster ==
    \A h, k \in Handlers :
        handler[h].pc = "post" /\ handler[k].pc = "post" /\ handler[h].intent = handler[k].intent => h = k

OneActive == \A m, n \in Intents : m \in ActiveIntents /\ n \in ActiveIntents => m = n

LinksApart ==
    \A f, g \in Folders :
        folder[f].there /\ folder[g].there /\ folder[f].link # NoList /\ folder[f].link = folder[g].link => f = g

FoldersWereUsed == \A f \in Folders : folder[f].there => folder[f].used

LedgerInv ==
    /\ LedgerTyped
    /\ \A n \in Intents : IntentFits(n)
    /\ \A h \in Handlers : RequestFits(handler[h])
    /\ OnePoster
    /\ OneActive
    /\ LinksApart
    /\ FoldersWereUsed

\* Folders are used up: none comes back, and the links stay apart.
FoldersMove ==
    /\ LinksApart' /\ FoldersWereUsed'
    /\ \A f \in Folders : folder[f].used => folder'[f].used /\ (folder'[f].there => folder[f].there)

\* A settled row stays, a row being worked on goes on; a request leaves the wire only.
RowStays(n) == intent'[n] = intent[n] /\ sends'[n] = sends[n] /\ (n \in wire' => n \in wire)

RowGoesOn(n) ==
    /\ intent[n].state \in ActiveStates /\ intent'[n].state \in ActiveStates \cup {"applied", "rejected"}
    /\ intent'[n].state # "prepared" /\ intent'[n].kind = intent[n].kind /\ intent'[n].folder = intent[n].folder
    /\ sends'[n] = sends[n] /\ (n \in wire' => n \in wire)
    /\ intent'[n].state = "rejected" =>
           /\ n \notin wire /\ (sends[n] = 1 \/ intent[n].state = "prepared")
           /\ intent[n].kind = "create" => ~folder'[intent[n].folder].there

LEMMA RowsFit ==
    ASSUME LedgerInv, LedgerTyped', FoldersMove, \A n \in Intents : RowStays(n) \/ RowGoesOn(n)
    PROVE  /\ (\A n \in Intents : IntentFits(n))'
           /\ OneActive'
           /\ \A h \in Handlers : RequestFits(handler[h])' \/ handler'[h] # handler[h]
<1>1. ASSUME NEW n \in Intents PROVE IntentFits(n)'
  <2>1. IntentFits(n) /\ intent[n].folder \in Folders \cup {NoFolder} /\ sends[n] \in Nat
      BY DEF LedgerInv, LedgerTyped, IntentRecords
  <2>2. CASE RowStays(n)
      BY <2>1, <2>2, SMT DEF RowStays, IntentFits, FoldersMove, Unsent
  <2>3. CASE RowGoesOn(n)
      BY <2>1, <2>3, SMT DEF RowGoesOn, IntentFits, FoldersMove, Unsent, ActiveStates
  <2> QED BY <2>2, <2>3
<1>2. ASSUME NEW m \in Intents, NEW n \in Intents, m \in ActiveIntents', n \in ActiveIntents' PROVE m = n
  <2>1. m \in ActiveIntents /\ n \in ActiveIntents
      BY <1>2, SMT DEF RowStays, RowGoesOn, ActiveIntents
  <2> QED BY <2>1 DEF LedgerInv, OneActive
<1>3. ASSUME NEW h \in Handlers, handler'[h] = handler[h] PROVE RequestFits(handler[h])'
  <2> DEFINE n == handler[h].intent
  <2>1. RequestFits(handler[h])
      BY DEF LedgerInv
  <2>2. CASE handler[h].pc = "idle"
      BY <1>3, <2>2 DEF RequestFits
  <2>3. CASE handler[h].pc # "idle" /\ RowStays(n)
      BY <1>3, <2>1, <2>3, SMT DEF RequestFits, RowStays, Unsent
  <2>4. CASE handler[h].pc # "idle" /\ RowGoesOn(n)
      BY <1>3, <2>1, <2>4, SMT DEF RequestFits, RowGoesOn, Unsent, ActiveStates
  <2>5. handler[h].pc # "idle" => n \in Intents
      BY <2>1 DEF RequestFits
  <2> QED BY <2>2, <2>3, <2>4, <2>5
<1> QED BY <1>1, <1>2, <1>3 DEF OneActive

\* The step of an action that lets nobody post: what changes of the requests fits.
LEMMA LedgerGoes ==
    ASSUME LedgerInv, LedgerTyped', FoldersMove, \A n \in Intents : RowStays(n) \/ RowGoesOn(n),
           \A k \in Handlers : handler'[k] # handler[k] => handler'[k].pc # "post" /\ RequestFits(handler[k])'
    PROVE  LedgerInv'
<1>1. (\A n \in Intents : IntentFits(n))' /\ OneActive' /\ (\A h \in Handlers : RequestFits(handler[h]))'
    BY RowsFit
<1>2. OnePoster'
    BY DEF LedgerInv, OnePoster
<1> QED BY <1>1, <1>2 DEF LedgerInv, FoldersMove

\* An action that leaves the folders alone moves none.
LEMMA FoldersStay == ASSUME LedgerInv, UNCHANGED folder PROVE FoldersMove
BY DEF LedgerInv, FoldersMove, LinksApart, FoldersWereUsed

LEMMA FolderGoes ==
    ASSUME LedgerInv, NEW f \in Folders, folder' = [folder EXCEPT ![f] = Gone]
    PROVE  FoldersMove /\ folder' \in [Folders -> FolderRecords] /\ ~folder'[f].there
<1>1. Gone \in FolderRecords /\ ~Gone.there /\ Gone.used
    BY DEF Gone, FolderRecords, NoList
<1> HIDE DEF Gone
<1>2. folder \in [Folders -> FolderRecords]
    BY DEF LedgerInv, LedgerTyped
<1>3. folder'[f] = Gone /\ \A g \in Folders : g # f => folder'[g] = folder[g]
    BY <1>2
<1>4. LinksApart' /\ FoldersWereUsed'
    BY <1>1, <1>3 DEF LedgerInv, LinksApart, FoldersWereUsed
<1>5. \A g \in Folders : folder[g].used => folder'[g].used /\ (folder'[g].there => folder[g].there)
    BY <1>1, <1>3
<1>6. folder' \in [Folders -> FolderRecords]
    BY <1>1, <1>2
<1> QED BY <1>1, <1>3, <1>4, <1>5, <1>6 DEF FoldersMove

\* A request alone goes on: to r, which fits.
LEMMA ServingGoes ==
    ASSUME LedgerInv, NEW h \in Handlers, NEW r \in HandlerRecords, r.pc # "post", RequestFits(r),
           handler' = [handler EXCEPT ![h] = r], UNCHANGED <<intent, folder, wire, sends, snapshot, remote>>
    PROVE  LedgerInv'
<1>1. LedgerTyped'
    BY DEF LedgerInv, LedgerTyped
<1>2. \A n \in Intents : RowStays(n)
    BY DEF RowStays
<1>3. handler'[h] = r /\ \A k \in Handlers : k # h => handler'[k] = handler[k]
    BY DEF LedgerInv, LedgerTyped
<1>4. RequestFits(handler[h])'
    BY <1>3 DEF RequestFits
<1> QED BY <1>1, <1>2, <1>3, <1>4, FoldersStay, LedgerGoes

LEMMA IdleRequest == Idle \in HandlerRecords /\ Idle.pc = "idle" /\ RequestFits(Idle)
BY DEF Idle, HandlerRecords, RequestSteps, Outcomes, RequestFits

\* A request is written field by field.
AtStep(hs, h, p) == [hs EXCEPT ![h].pc = p]
WithOutcome(hs, h, p, o) == [hs EXCEPT ![h].pc = p, ![h].outcome = o]
WithSight(hs, h, p, s) == [[hs EXCEPT ![h].pc = p] EXCEPT ![h].seen = s]

LEMMA StepWritten ==
    ASSUME NEW hs \in [Handlers -> HandlerRecords], NEW h \in Handlers, NEW p \in RequestSteps
    PROVE  \E x \in HandlerRecords :
               /\ AtStep(hs, h, p) = [hs EXCEPT ![h] = x]
               /\ x.pc = p /\ x.intent = hs[h].intent /\ x.seen = hs[h].seen /\ x.outcome = hs[h].outcome
<1>1. PICK q \in HandlerRecords : q = hs[h]
    OBVIOUS
<1>2. PICK x : x = [q EXCEPT !.pc = p]
    OBVIOUS
<1>3. AtStep(hs, h, p) = [hs EXCEPT ![h] = x]
    BY <1>1, <1>2 DEF AtStep
<1>4. x \in HandlerRecords /\ x.pc = p /\ x.intent = q.intent /\ x.seen = q.seen /\ x.outcome = q.outcome
    BY <1>2 DEF HandlerRecords, RequestSteps
<1> QED BY <1>1, <1>3, <1>4

LEMMA OutcomeWritten ==
    ASSUME NEW hs \in [Handlers -> HandlerRecords], NEW h \in Handlers, NEW p \in RequestSteps, NEW o \in Outcomes
    PROVE  \E x \in HandlerRecords :
               /\ WithOutcome(hs, h, p, o) = [hs EXCEPT ![h] = x]
               /\ x.pc = p /\ x.intent = hs[h].intent /\ x.seen = hs[h].seen /\ x.outcome = o
<1>1. PICK q \in HandlerRecords : q = hs[h]
    OBVIOUS
<1>2. PICK x : x = [q EXCEPT !.pc = p, !.outcome = o]
    OBVIOUS
<1>3. WithOutcome(hs, h, p, o) = [hs EXCEPT ![h] = x]
    BY <1>1, <1>2 DEF WithOutcome
<1>4. x \in HandlerRecords /\ x.pc = p /\ x.intent = q.intent /\ x.seen = q.seen /\ x.outcome = o
    BY <1>2 DEF HandlerRecords, RequestSteps, Outcomes
<1> QED BY <1>1, <1>3, <1>4

LEMMA SightWritten ==
    ASSUME NEW hs \in [Handlers -> HandlerRecords], NEW h \in Handlers, NEW p \in RequestSteps, NEW s \in SUBSET Lists
    PROVE  \E x \in HandlerRecords :
               /\ WithSight(hs, h, p, s) = [hs EXCEPT ![h] = x]
               /\ x.pc = p /\ x.intent = hs[h].intent /\ x.outcome = hs[h].outcome
<1>1. PICK q \in HandlerRecords : q = hs[h]
    OBVIOUS
<1>2. PICK x : x = [q EXCEPT !.pc = p, !.seen = s]
    OBVIOUS
<1>3. WithSight(hs, h, p, s) = [hs EXCEPT ![h] = x]
    BY <1>1, <1>2 DEF WithSight
<1>4. x \in HandlerRecords /\ x.pc = p /\ x.intent = q.intent /\ x.outcome = q.outcome
    BY <1>2 DEF HandlerRecords, RequestSteps
<1> QED BY <1>1, <1>3, <1>4

LEMMA RequestKnown ==
    ASSUME LedgerInv, NEW h \in Handlers
    PROVE  /\ handler[h] \in HandlerRecords /\ RequestFits(handler[h])
           /\ handler[h].pc # "idle" => handler[h].intent \in Intents /\ intent[handler[h].intent] \in IntentRecords
BY DEF LedgerInv, LedgerTyped, RequestFits

LEMMA JoinKeeps == ASSUME LedgerInv, NEW h \in Handlers, NEW n \in Intents, Join(h, n) PROVE LedgerInv'
<1> DEFINE r == [Idle EXCEPT !.pc = "drive", !.intent = n]
<1>1. r \in HandlerRecords /\ r.pc # "post"
    BY DEF Idle, HandlerRecords, RequestSteps, Outcomes
<1>2. RequestFits(r)
    BY DEF Idle, RequestFits, Join, ActiveStates
<1> QED BY <1>1, <1>2, ServingGoes DEF Join, historyVars

LEMMA AdoptKeeps ==
    ASSUME LedgerInv, NEW h \in Handlers, NEW n \in Intents, NEW l \in Lists, AdoptCreate(h, n, l)
    PROVE  LedgerInv'
<1> DEFINE r == [pc |-> "record", intent |-> n, seen |-> {l}, outcome |-> "adopted"]
<1>1. r \in HandlerRecords /\ r.pc # "post"
    BY DEF HandlerRecords, RequestSteps, Outcomes
<1>2. RequestFits(r)
    BY DEF RequestFits, AdoptCreate
<1> QED BY <1>1, <1>2, ServingGoes DEF AdoptCreate, historyVars

LEMMA DropKeeps == ASSUME LedgerInv, NEW h \in Handlers, DropHandler(h) PROVE LedgerInv'
BY IdleRequest, ServingGoes DEF DropHandler, historyVars

LEMMA DriveKeeps == ASSUME LedgerInv, NEW h \in Handlers, Drive(h) PROVE LedgerInv'
<1> DEFINE n == handler[h].intent
           q == handler[h]
<1>1. q \in HandlerRecords /\ RequestFits(q) /\ q.pc = "drive" /\ n \in Intents /\ handler \in [Handlers -> HandlerRecords]
    BY RequestKnown DEF Drive, RequestFits, LedgerInv, LedgerTyped
<1>2. intent[n].state \in IntentStates /\ q.outcome = "none" /\ intent[n].state # "absent"
    BY <1>1 DEF LedgerInv, LedgerTyped, IntentRecords, RequestFits
<1>3. Existing \in SUBSET Lists
    BY DEF Existing
<1>4. PICK x \in HandlerRecords :
          /\ handler' = [handler EXCEPT ![h] = x]
          /\ \/ x = Idle
             \/ x.pc \in {"begin", "apply"} /\ x.intent = n /\ x.outcome = "none"
             \/ x.pc = "record" /\ x.intent = n /\ x.outcome \in {"observed", "unknown"}
  <2>1. CASE intent[n].state = "prepared"
    <3>1. handler' = WithSight(handler, h, "begin", Existing)
        BY <2>1 DEF Drive, WithSight
    <3>2. "begin" \in RequestSteps
        BY DEF RequestSteps
    <3> QED BY <1>1, <1>2, <1>3, <3>1, <3>2, SightWritten
  <2>2. CASE intent[n].state \in {"sending", "unknown"}
    <3>1. PICK o \in {"observed", "unknown"} : handler' = WithOutcome(handler, h, "record", o)
        BY <2>2 DEF Drive, WithOutcome
    <3>2. "record" \in RequestSteps /\ o \in Outcomes
        BY DEF RequestSteps, Outcomes
    <3> QED BY <1>1, <3>1, <3>2, OutcomeWritten
  <2>3. CASE intent[n].state = "confirmed"
    <3>1. handler' = AtStep(handler, h, "apply")
        BY <2>3 DEF Drive, AtStep
    <3>2. "apply" \in RequestSteps
        BY DEF RequestSteps
    <3> QED BY <1>1, <1>2, <3>1, <3>2, StepWritten
  <2>4. CASE intent[n].state \in {"applied", "rejected"}
      BY <2>4, IdleRequest DEF Drive
  <2> QED BY <1>2, <2>1, <2>2, <2>3, <2>4 DEF ActiveStates, IntentStates
<1>5. RequestFits(x) /\ x.pc # "post"
    BY <1>1, <1>2, <1>4, IdleRequest DEF RequestFits
<1> QED BY <1>4, <1>5, ServingGoes DEF Drive, historyVars

LEMMA AnswerKeeps == ASSUME LedgerInv, NEW h \in Handlers, AnswerArrives(h) PROVE LedgerInv'
<1> DEFINE q == handler[h]
<1>1. q \in HandlerRecords /\ RequestFits(q) /\ q.pc = "answer" /\ handler \in [Handlers -> HandlerRecords]
    BY RequestKnown DEF LedgerInv, LedgerTyped, AnswerArrives
<1>2. q.seen \in SUBSET Lists
    BY <1>1 DEF HandlerRecords, RequestSteps, Outcomes
<1>3. PICK x \in HandlerRecords :
          /\ handler' = [handler EXCEPT ![h] = x]
          /\ x.pc = "record" /\ x.intent = q.intent /\ x.seen = q.seen
          /\ \/ x.outcome = "unknown"
             \/ q.outcome = "ok" /\ x.outcome = "ok"
  <2>1. CASE q.outcome = "ok" /\ handler' = AtStep(handler, h, "record")
      BY <1>1, <1>2, <2>1, StepWritten DEF RequestSteps
  <2>2. CASE handler' = WithOutcome(handler, h, "record", "unknown")
      BY <1>1, <1>2, <2>2, OutcomeWritten DEF RequestSteps, Outcomes
  <2> QED BY <2>1, <2>2 DEF AnswerArrives, AtStep, WithOutcome
<1>4. RequestFits(x) /\ x.pc # "post"
    BY <1>1, <1>3 DEF RequestFits
<1> QED BY <1>3, <1>4, ServingGoes DEF AnswerArrives, historyVars

LEMMA RefusalKeeps == ASSUME LedgerInv, NEW h \in Handlers, RefuseMutation(h) PROVE LedgerInv'
<1> DEFINE q == handler[h]
<1>1. q \in HandlerRecords /\ RequestFits(q) /\ q.pc = "answer" /\ handler \in [Handlers -> HandlerRecords]
    BY RequestKnown DEF LedgerInv, LedgerTyped, RefuseMutation
<1>2. q.seen \in SUBSET Lists
    BY <1>1 DEF HandlerRecords, RequestSteps, Outcomes
<1>3. PICK x \in HandlerRecords :
          /\ handler' = [handler EXCEPT ![h] = x]
          /\ x.pc = "record" /\ x.intent = q.intent /\ x.seen = q.seen /\ x.outcome = "refused"
  <2>1. handler' = WithOutcome(handler, h, "record", "refused")
      BY DEF RefuseMutation, WithOutcome
  <2> QED BY <1>1, <2>1, OutcomeWritten DEF RequestSteps, Outcomes
<1>4. handler'[h] = x /\ \A k \in Handlers : k # h => handler'[k] = handler[k]
    BY <1>1, <1>3
<1>5. LedgerTyped'
    BY <1>3 DEF LedgerInv, LedgerTyped, RefuseMutation, historyVars
<1>6. RequestFits(handler[h])'
    BY <1>1, <1>3, <1>4, SMT DEF RequestFits, RefuseMutation, historyVars
<1>7. \A n \in Intents : RowStays(n)
    BY DEF RowStays, RefuseMutation, historyVars
<1>8. \A k \in Handlers : handler'[k] # handler[k] => handler'[k].pc # "post" /\ RequestFits(handler[k])'
    BY <1>3, <1>4, <1>6
<1>9. FoldersMove
    BY FoldersStay DEF RefuseMutation
<1> QED BY <1>5, <1>7, <1>8, <1>9, LedgerGoes

\* A row is written field by field.
AtState(is, n, s) == [is EXCEPT ![n].state = s]
SentWith(is, n, b) == [is EXCEPT ![n].state = "sending", ![n].baseline = b]
ConfirmedWith(is, n, l) == [is EXCEPT ![n].state = "confirmed", ![n].result = l]

LEMMA StateWritten ==
    ASSUME NEW is \in [Intents -> IntentRecords], NEW n \in Intents, NEW s \in IntentStates
    PROVE  \E row \in IntentRecords :
               /\ AtState(is, n, s) = [is EXCEPT ![n] = row]
               /\ row.state = s /\ row.kind = is[n].kind /\ row.folder = is[n].folder
<1>1. PICK q \in IntentRecords : q = is[n]
    OBVIOUS
<1>2. PICK row : row = [q EXCEPT !.state = s]
    OBVIOUS
<1>3. AtState(is, n, s) = [is EXCEPT ![n] = row]
    BY <1>1, <1>2 DEF AtState
<1>4. row \in IntentRecords /\ row.state = s /\ row.kind = q.kind /\ row.folder = q.folder
    BY <1>2 DEF IntentRecords
<1> QED BY <1>1, <1>3, <1>4

LEMMA SendingWritten ==
    ASSUME NEW is \in [Intents -> IntentRecords], NEW n \in Intents, NEW b \in SUBSET Lists
    PROVE  \E row \in IntentRecords :
               /\ SentWith(is, n, b) = [is EXCEPT ![n] = row]
               /\ row.state = "sending" /\ row.kind = is[n].kind /\ row.folder = is[n].folder
<1>1. PICK q \in IntentRecords : q = is[n]
    OBVIOUS
<1>2. PICK row : row = [q EXCEPT !.state = "sending", !.baseline = b]
    OBVIOUS
<1>3. SentWith(is, n, b) = [is EXCEPT ![n] = row]
    BY <1>1, <1>2 DEF SentWith
<1>4. row \in IntentRecords /\ row.state = "sending" /\ row.kind = q.kind /\ row.folder = q.folder
    BY <1>2 DEF IntentRecords, IntentStates, ActiveStates
<1> QED BY <1>1, <1>3, <1>4

LEMMA ConfirmedWritten ==
    ASSUME NEW is \in [Intents -> IntentRecords], NEW n \in Intents, NEW l \in Lists \cup {NoList}
    PROVE  \E row \in IntentRecords :
               /\ ConfirmedWith(is, n, l) = [is EXCEPT ![n] = row]
               /\ row.state = "confirmed" /\ row.kind = is[n].kind /\ row.folder = is[n].folder
<1>1. PICK q \in IntentRecords : q = is[n]
    OBVIOUS
<1>2. PICK row : row = [q EXCEPT !.state = "confirmed", !.result = l]
    OBVIOUS
<1>3. ConfirmedWith(is, n, l) = [is EXCEPT ![n] = row]
    BY <1>1, <1>2 DEF ConfirmedWith
<1>4. row \in IntentRecords /\ row.state = "confirmed" /\ row.kind = q.kind /\ row.folder = q.folder
    BY <1>2 DEF IntentRecords, IntentStates, ActiveStates
<1> QED BY <1>1, <1>3, <1>4

\* A row that is worked on goes on to row.
LEMMA RowGoes ==
    ASSUME LedgerInv, NEW n \in Intents, NEW row \in IntentRecords, UNCHANGED <<sends, wire>>,
           intent' = [intent EXCEPT ![n] = row], row.kind = intent[n].kind, row.folder = intent[n].folder,
           intent[n].state \in ActiveStates, row.state \in ActiveStates \cup {"applied", "rejected"},
           row.state # "prepared",
           row.state = "rejected" =>
               /\ n \notin wire /\ (sends[n] = 1 \/ intent[n].state = "prepared")
               /\ row.kind = "create" => ~folder'[row.folder].there
    PROVE  /\ intent' \in [Intents -> IntentRecords] /\ intent'[n] = row
           /\ \A m \in Intents : RowStays(m) \/ RowGoesOn(m)
<1>1. intent \in [Intents -> IntentRecords]
    BY DEF LedgerInv, LedgerTyped
<1>2. intent' \in [Intents -> IntentRecords] /\ intent'[n] = row /\ \A m \in Intents : m # n => intent'[m] = intent[m]
    BY <1>1
<1>3. RowGoesOn(n)
    BY <1>2 DEF RowGoesOn
<1>4. \A m \in Intents : m # n => RowStays(m)
    BY <1>2 DEF RowStays
<1> QED BY <1>2, <1>3, <1>4

\* A request goes on to x, which fits what is then.
LEMMA RequestTurns ==
    ASSUME LedgerInv, NEW h \in Handlers, NEW x \in HandlerRecords, handler' = [handler EXCEPT ![h] = x],
           x.pc # "post", RequestFits(x)'
    PROVE  /\ handler' \in [Handlers -> HandlerRecords]
           /\ \A k \in Handlers : handler'[k] # handler[k] => handler'[k].pc # "post" /\ RequestFits(handler[k])'
<1>1. handler' \in [Handlers -> HandlerRecords] /\ handler'[h] = x /\ \A k \in Handlers : k # h => handler'[k] = handler[k]
    BY DEF LedgerInv, LedgerTyped
<1>2. RequestFits(handler[h])'
    BY <1>1 DEF RequestFits
<1> QED BY <1>1, <1>2

LEMMA RequestEnds ==
    ASSUME LedgerInv, NEW h \in Handlers, handler' = [handler EXCEPT ![h] = Idle]
    PROVE  /\ handler' \in [Handlers -> HandlerRecords]
           /\ \A k \in Handlers : handler'[k] # handler[k] => handler'[k].pc # "post" /\ RequestFits(handler[k])'
<1>1. PICK x \in HandlerRecords : x = Idle
    BY IdleRequest
<1>2. x.pc = "idle" /\ RequestFits(x)'
    BY <1>1, IdleRequest DEF RequestFits
<1> QED BY <1>1, <1>2, RequestTurns

LEMMA CancelKeeps == ASSUME LedgerInv, NEW n \in Intents, CancelPrepared(n) PROVE LedgerInv'
<1>1. intent \in [Intents -> IntentRecords] /\ IntentFits(n) /\ folder \in [Folders -> FolderRecords]
    BY DEF LedgerInv, LedgerTyped
<1>2. intent' = AtState(intent, n, "rejected") /\ "rejected" \in IntentStates
    BY DEF CancelPrepared, AtState, IntentStates
<1>3. PICK row \in IntentRecords :
          /\ intent' = [intent EXCEPT ![n] = row] /\ row.state = "rejected"
          /\ row.kind = intent[n].kind /\ row.folder = intent[n].folder
    BY <1>1, <1>2, StateWritten
<1>4. intent[n].state = "prepared" /\ n \notin wire /\ intent[n].folder \in Folders
    BY <1>1 DEF IntentFits, CancelPrepared, Unsent
<1>5. FoldersMove /\ folder' \in [Folders -> FolderRecords] /\ (row.kind = "create" => ~folder'[row.folder].there)
  <2>1. CASE intent[n].kind = "create"
      BY <1>3, <1>4, <2>1, FolderGoes DEF CancelPrepared
  <2>2. CASE intent[n].kind # "create"
      BY <1>1, <1>3, <2>2, FoldersStay DEF CancelPrepared
  <2> QED BY <2>1, <2>2
<1>6. /\ intent' \in [Intents -> IntentRecords]
      /\ \A m \in Intents : RowStays(m) \/ RowGoesOn(m)
    BY <1>3, <1>4, <1>5, RowGoes DEF CancelPrepared, historyVars, ActiveStates
<1>7. LedgerTyped'
    BY <1>5, <1>6 DEF LedgerInv, LedgerTyped, CancelPrepared, historyVars
<1> QED BY <1>5, <1>6, <1>7, LedgerGoes DEF CancelPrepared

\* What GitHub or the owner named as the list of an intent is a list.
LEMMA ResultIsList ==
    ASSUME LedgerInv, NEW h \in Handlers, handler[h].pc = "record", handler[h].outcome \in {"ok", "observed", "adopted"}
    PROVE  LET n == handler[h].intent
           IN  (IF handler[h].outcome = "observed" THEN intent[n].list ELSE ResultOf(h, n)) \in Lists \cup {NoList}
<1> DEFINE n == handler[h].intent
<1>1. n \in Intents /\ intent[n] \in IntentRecords /\ RequestFits(handler[h])
    BY RequestKnown
<1>2. intent[n].list \in Lists \cup {NoList}
    BY <1>1 DEF IntentRecords
<1>3. CASE intent[n].kind # "create"
    BY <1>2, <1>3 DEF ResultOf
<1>4. CASE intent[n].kind = "create" /\ handler[h].outcome # "observed"
  <2>1. PICK l \in Lists : handler[h].seen = {l}
      BY <1>1, <1>4 DEF RequestFits
  <2> QED BY <1>4, <2>1 DEF ResultOf
<1> QED BY <1>2, <1>3, <1>4

LEMMA RecordKeeps == ASSUME LedgerInv, NEW h \in Handlers, Record(h) PROVE LedgerInv'
<1> DEFINE q == handler[h]
<1>1. q.pc = "record"
    BY DEF Record
<1>2. PICK n \in Intents : n = q.intent
    BY <1>1, RequestKnown
<1>3. /\ q \in HandlerRecords /\ RequestFits(q) /\ intent[n] \in IntentRecords /\ n = q.intent
      /\ q.pc = "record" /\ handler \in [Handlers -> HandlerRecords] /\ intent \in [Intents -> IntentRecords]
      /\ folder \in [Folders -> FolderRecords]
    BY <1>1, <1>2, RequestKnown DEF LedgerInv, LedgerTyped
<1>4. intent[n].list \in Lists \cup {NoList} /\ intent[n].state # "absent" /\ IntentFits(n) /\ intent[n].folder \in Folders
    BY <1>3 DEF IntentRecords, RequestFits, LedgerInv, IntentFits
<1>5. UNCHANGED <<remote, wire, sends, snapshot>>
    BY DEF Record, historyVars
<1>6. "unknown" \in IntentStates /\ "rejected" \in IntentStates
    BY DEF IntentStates, ActiveStates
<1>7. CASE q.outcome \in {"ok", "observed", "adopted"} /\ handler' = AtStep(handler, h, "apply") /\ UNCHANGED folder
  <2>1. PICK found \in Lists \cup {NoList} : found = IF q.outcome = "observed" THEN intent[n].list ELSE ResultOf(h, n)
      BY <1>3, <1>4, <1>7, ResultIsList
  <2>2. \/ intent[n].state \in {"sending", "unknown"} /\ intent' = ConfirmedWith(intent, n, found)
        \/ UNCHANGED intent
      BY <1>3, <1>7, <2>1 DEF Record, ConfirmedWith
  <2>3. /\ intent' \in [Intents -> IntentRecords] /\ \A m \in Intents : RowStays(m) \/ RowGoesOn(m)
        /\ intent'[n].state # "absent" /\ intent'[n].kind = intent[n].kind
    <3>1. CASE intent[n].state \in {"sending", "unknown"} /\ intent' = ConfirmedWith(intent, n, found)
      <4>1. intent' = ConfirmedWith(intent, n, found) /\ intent \in [Intents -> IntentRecords]
          BY <1>3, <3>1
      <4>2. PICK row \in IntentRecords :
                /\ intent' = [intent EXCEPT ![n] = row]
                /\ row.state = "confirmed" /\ row.kind = intent[n].kind /\ row.folder = intent[n].folder
          BY <4>1, ConfirmedWritten
      <4>3. intent' \in [Intents -> IntentRecords] /\ intent'[n] = row /\ \A m \in Intents : RowStays(m) \/ RowGoesOn(m)
          BY <1>3, <1>5, <3>1, <4>2, RowGoes DEF ActiveStates
      <4> QED BY <4>2, <4>3
    <3>2. CASE UNCHANGED intent
        BY <1>3, <1>4, <1>5, <3>2 DEF RowStays
    <3> QED BY <2>2, <3>1, <3>2
  <2>4. PICK x \in HandlerRecords :
            /\ handler' = [handler EXCEPT ![h] = x]
            /\ x.pc = "apply" /\ x.intent = n /\ x.seen = q.seen /\ x.outcome = q.outcome
      BY <1>3, <1>7, StepWritten DEF RequestSteps
  <2>5. x.pc # "post" /\ RequestFits(x)'
      BY <1>3, <2>3, <2>4 DEF RequestFits
  <2>6. /\ handler' \in [Handlers -> HandlerRecords]
        /\ \A k \in Handlers : handler'[k] # handler[k] => handler'[k].pc # "post" /\ RequestFits(handler[k])'
      BY <2>4, <2>5, RequestTurns
  <2>7. LedgerTyped'
      BY <1>5, <1>7, <2>3, <2>6 DEF LedgerInv, LedgerTyped
  <2> QED BY <1>7, <2>3, <2>6, <2>7, FoldersStay, LedgerGoes
<1>8. CASE q.outcome \in {"unknown", "refused"} /\ handler' = [handler EXCEPT ![h] = Idle]
  <2>1. /\ handler' \in [Handlers -> HandlerRecords]
        /\ \A k \in Handlers : handler'[k] # handler[k] => handler'[k].pc # "post" /\ RequestFits(handler[k])'
      BY <1>8, RequestEnds
  <2>2. \/ UNCHANGED <<intent, folder>>
        \/ intent[n].state = "sending" /\ intent' = AtState(intent, n, "unknown") /\ UNCHANGED folder
        \/ /\ q.outcome = "refused" /\ intent[n].state = "sending" /\ intent' = AtState(intent, n, "rejected")
           /\ folder' = IF intent[n].kind = "create" THEN [folder EXCEPT ![intent[n].folder] = Gone] ELSE folder
      BY <1>3, <1>8 DEF Record, AtState
  <2>3. /\ intent' \in [Intents -> IntentRecords] /\ \A m \in Intents : RowStays(m) \/ RowGoesOn(m)
        /\ folder' \in [Folders -> FolderRecords] /\ FoldersMove
    <3>1. CASE UNCHANGED <<intent, folder>>
        BY <1>3, <1>5, <3>1, FoldersStay DEF RowStays
    <3>2. CASE intent[n].state = "sending" /\ intent' = AtState(intent, n, "unknown") /\ UNCHANGED folder
      <4>1. intent' = AtState(intent, n, "unknown") /\ intent \in [Intents -> IntentRecords]
          BY <1>3, <3>2
      <4>2. PICK row \in IntentRecords :
                /\ intent' = [intent EXCEPT ![n] = row]
                /\ row.state = "unknown" /\ row.kind = intent[n].kind /\ row.folder = intent[n].folder
          BY <4>1, <1>6, StateWritten
      <4>3. intent' \in [Intents -> IntentRecords] /\ \A m \in Intents : RowStays(m) \/ RowGoesOn(m)
          BY <1>3, <1>5, <3>2, <4>2, RowGoes DEF ActiveStates
      <4> QED BY <1>3, <3>2, <4>3, FoldersStay
    <3>3. CASE /\ q.outcome = "refused" /\ intent[n].state = "sending" /\ intent' = AtState(intent, n, "rejected")
               /\ folder' = IF intent[n].kind = "create" THEN [folder EXCEPT ![intent[n].folder] = Gone] ELSE folder
      <4>1. intent' = AtState(intent, n, "rejected") /\ intent \in [Intents -> IntentRecords]
          BY <1>3, <3>3
      <4>2. PICK row \in IntentRecords :
                /\ intent' = [intent EXCEPT ![n] = row]
                /\ row.state = "rejected" /\ row.kind = intent[n].kind /\ row.folder = intent[n].folder
          BY <4>1, <1>6, StateWritten
      <4>3. FoldersMove /\ folder' \in [Folders -> FolderRecords] /\ (row.kind = "create" => ~folder'[row.folder].there)
        <5>1. CASE intent[n].kind = "create"
            BY <1>4, <3>3, <4>2, <5>1, FolderGoes
        <5>2. CASE intent[n].kind # "create"
            BY <1>3, <3>3, <4>2, <5>2, FoldersStay
        <5> QED BY <5>1, <5>2
      <4>4. sends[n] = 1 /\ n \notin wire
          BY <1>3, <3>3 DEF RequestFits
      <4>5. intent' \in [Intents -> IntentRecords] /\ \A m \in Intents : RowStays(m) \/ RowGoesOn(m)
          BY <1>3, <1>5, <3>3, <4>2, <4>3, <4>4, RowGoes DEF ActiveStates
      <4> QED BY <4>3, <4>5
    <3> QED BY <2>2, <3>1, <3>2, <3>3
  <2>4. LedgerTyped'
      BY <1>5, <2>1, <2>3 DEF LedgerInv, LedgerTyped
  <2> QED BY <2>1, <2>3, <2>4, LedgerGoes
<1> QED BY <1>7, <1>8 DEF Record, AtStep

LEMMA ApplyKeeps == ASSUME LedgerInv, NEW h \in Handlers, ApplyMutation(h) PROVE LedgerInv'
<1>1. handler[h].pc = "apply"
    BY DEF ApplyMutation
<1>2. PICK n \in Intents : n = handler[h].intent
    BY <1>1, RequestKnown
<1>3. /\ intent \in [Intents -> IntentRecords] /\ folder \in [Folders -> FolderRecords]
      /\ intent[n] \in IntentRecords /\ intent[n].state # "absent" /\ IntentFits(n)
    BY <1>1, <1>2, RequestKnown DEF LedgerInv, LedgerTyped, RequestFits
<1>4. PICK f \in Folders : f = intent[n].folder
    BY <1>3 DEF IntentFits
<1>5. UNCHANGED <<remote, wire, sends, snapshot>> /\ handler' = [handler EXCEPT ![h] = Idle]
    BY DEF ApplyMutation, historyVars
<1>6. /\ handler' \in [Handlers -> HandlerRecords]
      /\ \A k \in Handlers : handler'[k] # handler[k] => handler'[k].pc # "post" /\ RequestFits(handler[k])'
    BY <1>5, RequestEnds
<1>7. CASE intent[n].state = "confirmed" /\ MayApply(n) /\ folder' = Applied(n) /\ intent' = AtState(intent, n, "applied")
  <2>1. "applied" \in IntentStates
      BY DEF IntentStates
  <2>2. intent' = AtState(intent, n, "applied") /\ intent \in [Intents -> IntentRecords]
      BY <1>3, <1>7
  <2>3. PICK row \in IntentRecords :
            /\ intent' = [intent EXCEPT ![n] = row] /\ row.state = "applied"
            /\ row.kind = intent[n].kind /\ row.folder = intent[n].folder
      BY <2>1, <2>2, StateWritten
  <2>4. intent' \in [Intents -> IntentRecords] /\ \A m \in Intents : RowStays(m) \/ RowGoesOn(m)
      BY <1>5, <1>7, <2>3, RowGoes DEF ActiveStates
  <2>5. intent[n].kind \in {"create", "rename", "remove", "join"} /\ intent[n].result \in Lists \cup {NoList}
      BY <1>3, LedgerAssumption DEF IntentFits, IntentRecords
  <2>6. folder' \in [Folders -> FolderRecords] /\ FoldersMove
    <3>1. CASE folder' = [folder EXCEPT ![f] = Gone]
        BY <3>1, FolderGoes
    <3>2. CASE UNCHANGED folder
        BY <1>3, <3>2, FoldersStay
    <3>3. CASE folder' = [folder EXCEPT ![f].link = intent[n].result] /\ Importer(n) = {} /\ folder[f].there
      <4>1. PICK l \in Lists \cup {NoList} : l = intent[n].result
          BY <2>5
      <4>2. PICK old \in FolderRecords : old = folder[f]
          BY <1>3
      <4>3. PICK new : new = [old EXCEPT !.link = l]
          OBVIOUS
      <4>4. new \in FolderRecords /\ new.there = old.there /\ new.used = old.used /\ new.link = l
          BY <4>3 DEF FolderRecords
      <4>5. folder' = [folder EXCEPT ![f] = new]
          BY <3>3, <4>1, <4>2, <4>3
      <4>6. folder'[f] = new /\ (\A g \in Folders : g # f => folder'[g] = folder[g]) /\ folder' \in [Folders -> FolderRecords]
          BY <1>3, <4>4, <4>5
      <4>7. \A g \in Folders : g # f => ~(folder[g].there /\ folder[g].link = l)
          BY <1>4, <3>3, <4>1 DEF Importer
      <4>8. LinksApart' /\ FoldersWereUsed'
          BY <4>2, <4>4, <4>6, <4>7 DEF LedgerInv, LinksApart, FoldersWereUsed
      <4>9. \A g \in Folders : folder[g].used => folder'[g].used /\ (folder'[g].there => folder[g].there)
          BY <4>2, <4>4, <4>6
      <4> QED BY <4>6, <4>8, <4>9 DEF FoldersMove
    <3>4. \/ folder' = [folder EXCEPT ![f] = Gone]
          \/ UNCHANGED folder
          \/ folder' = [folder EXCEPT ![f].link = intent[n].result] /\ Importer(n) = {} /\ folder[f].there
        BY <1>4, <1>7, <2>5, SMT DEF Applied, MayApply
    <3> QED BY <3>1, <3>2, <3>3, <3>4
  <2>7. LedgerTyped'
      BY <1>5, <1>6, <2>4, <2>6 DEF LedgerInv, LedgerTyped
  <2> QED BY <1>6, <2>4, <2>6, <2>7, LedgerGoes
<1>8. CASE UNCHANGED <<intent, folder>>
  <2>1. \A m \in Intents : RowStays(m)
      BY <1>5, <1>8 DEF RowStays
  <2>2. LedgerTyped'
      BY <1>5, <1>6, <1>8 DEF LedgerInv, LedgerTyped
  <2> QED BY <1>6, <1>8, <2>1, <2>2, FoldersStay, LedgerGoes
<1> QED BY <1>2, <1>7, <1>8 DEF ApplyMutation, AtState

LEMMA PosterAlone ==
    ASSUME LedgerInv, NEW h \in Handlers, \A k \in Handlers : k # h => handler'[k] = handler[k],
           \A k \in Handlers : k # h /\ handler[k].pc = "post" => handler[k].intent # handler'[h].intent
    PROVE  OnePoster'
BY DEF LedgerInv, OnePoster

LEMMA BeginKeeps == ASSUME LedgerInv, NEW h \in Handlers, BeginMutation(h) PROVE LedgerInv'
<1>1. handler[h].pc = "begin"
    BY DEF BeginMutation
<1>2. PICK n \in Intents : n = handler[h].intent
    BY <1>1, RequestKnown
<1>3. /\ intent \in [Intents -> IntentRecords] /\ handler \in [Handlers -> HandlerRecords] /\ handler[h] \in HandlerRecords
      /\ intent[n] \in IntentRecords /\ IntentFits(n) /\ RequestFits(handler[h])
    BY <1>1, <1>2, RequestKnown DEF LedgerInv, LedgerTyped
<1>4. UNCHANGED <<folder, remote, wire, sends, snapshot>>
    BY DEF BeginMutation, historyVars
<1>5. CASE intent[n].state = "prepared" /\ intent' = SentWith(intent, n, handler[h].seen) /\ handler' = AtStep(handler, h, "post")
  <2>1. PICK b \in SUBSET Lists : b = handler[h].seen
      BY <1>3 DEF HandlerRecords
  <2>2. intent' = SentWith(intent, n, b) /\ intent \in [Intents -> IntentRecords]
      BY <1>3, <1>5, <2>1
  <2>3. PICK row \in IntentRecords :
            /\ intent' = [intent EXCEPT ![n] = row] /\ row.state = "sending"
            /\ row.kind = intent[n].kind /\ row.folder = intent[n].folder
      BY <2>2, SendingWritten
  <2>4. intent' \in [Intents -> IntentRecords] /\ intent'[n] = row /\ \A m \in Intents : RowStays(m) \/ RowGoesOn(m)
      BY <1>4, <1>5, <2>3, RowGoes DEF ActiveStates
  <2>5. "post" \in RequestSteps
      BY DEF RequestSteps
  <2>6. handler' = AtStep(handler, h, "post") /\ handler \in [Handlers -> HandlerRecords]
      BY <1>3, <1>5
  <2>7. PICK x \in HandlerRecords :
            /\ handler' = [handler EXCEPT ![h] = x]
            /\ x.pc = "post" /\ x.intent = handler[h].intent /\ x.seen = handler[h].seen /\ x.outcome = handler[h].outcome
      BY <2>5, <2>6, StepWritten
  <2>8. handler' \in [Handlers -> HandlerRecords] /\ handler'[h] = x /\ \A k \in Handlers : k # h => handler'[k] = handler[k]
      BY <1>3, <2>7
  <2>9. sends'[n] = 0
      BY <1>3, <1>4, <1>5 DEF IntentFits
  <2>10. RequestFits(handler[h])'
    <3>1. x.pc = "post" /\ x.intent = n /\ intent'[n].state = "sending" /\ intent'[n].kind = intent[n].kind
        BY <1>2, <2>3, <2>4, <2>7
    <3>2. x.outcome \in {"ok", "adopted"} /\ intent[n].kind = "create" => \E l \in Lists : x.seen = {l}
        BY <1>1, <1>2, <1>3, <2>7 DEF RequestFits
    <3>3. RequestFits(x)'
        BY <2>9, <3>1, <3>2 DEF RequestFits, Unsent
    <3> QED BY <2>8, <3>3 DEF RequestFits
  <2>11. LedgerTyped'
      BY <1>4, <2>4, <2>8 DEF LedgerInv, LedgerTyped
  <2>12. \A k \in Handlers : handler[k].pc = "post" => handler[k].intent # n
      BY <1>5 DEF LedgerInv, RequestFits, Unsent
  <2>13. OnePoster'
      BY <1>2, <2>7, <2>8, <2>12, PosterAlone
  <2>14. /\ (\A m \in Intents : IntentFits(m))' /\ OneActive'
         /\ (\A k \in Handlers : RequestFits(handler[k])' \/ handler'[k] # handler[k])
      BY <1>4, <2>4, <2>11, FoldersStay, RowsFit
  <2>15. (\A k \in Handlers : RequestFits(handler[k]))'
      BY <2>8, <2>10, <2>14
  <2> QED BY <1>4, <2>11, <2>13, <2>14, <2>15, FoldersStay DEF LedgerInv, FoldersMove
<1>6. CASE handler' = [handler EXCEPT ![h] = Idle] /\ UNCHANGED intent
    BY <1>4, <1>6, IdleRequest, ServingGoes
<1> QED BY <1>2, <1>5, <1>6 DEF BeginMutation, MayBegin, SentWith, AtStep

LEMMA PostKeeps == ASSUME LedgerInv, NEW h \in Handlers, PostMutation(h) PROVE LedgerInv'
<1>1. handler[h].pc = "post"
    BY DEF PostMutation
<1>2. PICK n \in Intents : n = handler[h].intent
    BY <1>1, RequestKnown
<1>3. /\ handler \in [Handlers -> HandlerRecords] /\ sends \in [Intents -> Nat] /\ RequestFits(handler[h])
      /\ IntentFits(n) /\ intent[n] \in IntentRecords
    BY <1>1, <1>2, RequestKnown DEF LedgerInv, LedgerTyped
<1>4. UNCHANGED <<intent, folder, remote, snapshot>> /\ wire' = wire \cup {n} /\ handler' = AtStep(handler, h, "answer")
    BY <1>2 DEF PostMutation, AtStep
<1>5. sends' \in [Intents -> Nat] /\ sends'[n] = 1 /\ \A m \in Intents : m # n => sends'[m] = sends[m]
  <2>1. sends' = [sends EXCEPT ![n] = @ + 1]
      BY <1>2 DEF PostMutation
  <2>2. sends[n] = 0
      BY <1>1, <1>2, <1>3 DEF RequestFits
  <2> QED BY <1>3, <2>1, <2>2
<1>6. "answer" \in RequestSteps
    BY DEF RequestSteps
<1>7. handler' = AtStep(handler, h, "answer") /\ handler \in [Handlers -> HandlerRecords]
    BY <1>3, <1>4
<1>8. PICK x \in HandlerRecords :
          /\ handler' = [handler EXCEPT ![h] = x]
          /\ x.pc = "answer" /\ x.intent = handler[h].intent /\ x.seen = handler[h].seen /\ x.outcome = handler[h].outcome
    BY <1>6, <1>7, StepWritten
<1>9. handler' \in [Handlers -> HandlerRecords] /\ handler'[h] = x /\ \A k \in Handlers : k # h => handler'[k] = handler[k]
    BY <1>3, <1>8
<1>10. LedgerTyped'
    BY <1>4, <1>5, <1>9 DEF LedgerInv, LedgerTyped
<1>11. OnePoster'
    BY <1>8, <1>9 DEF LedgerInv, OnePoster
<1>12. ASSUME NEW m \in Intents PROVE IntentFits(m)'
  <2>1. IntentFits(m)
      BY DEF LedgerInv
  <2>2. CASE m # n
      BY <1>4, <1>5, <2>1, <2>2, SMT DEF IntentFits
  <2>3. CASE m = n
    <3>1. intent[n].state \notin Unsent
        BY <1>1, <1>2, <1>3 DEF RequestFits
    <3> QED BY <1>4, <1>5, <2>1, <2>3, <3>1, SMT DEF IntentFits, Unsent
  <2> QED BY <2>2, <2>3
<1>13. OneActive'
    BY <1>4 DEF LedgerInv, OneActive, ActiveIntents
<1>14. ASSUME NEW k \in Handlers PROVE RequestFits(handler[k])'
  <2>1. CASE k = h
    <3>1. x.intent = n /\ intent[n].state # "absent"
        BY <1>1, <1>2, <1>3, <1>8 DEF RequestFits
    <3>2. x.outcome \in {"ok", "adopted"} /\ intent[n].kind = "create" => \E l \in Lists : x.seen = {l}
        BY <1>1, <1>2, <1>3, <1>8 DEF RequestFits
    <3>3. RequestFits(x)'
        BY <1>4, <1>5, <1>8, <3>1, <3>2 DEF RequestFits
    <3> QED BY <1>9, <2>1, <3>3 DEF RequestFits
  <2>2. CASE k # h
    <3>1. PICK r \in HandlerRecords : r = handler[k] /\ r = handler'[k]
        BY <1>3, <1>9, <2>2
    <3>2. RequestFits(r) /\ (r.pc = "post" => r.intent # n)
        BY <1>1, <1>2, <2>2, <3>1 DEF LedgerInv, OnePoster
    <3>3. r.pc = "record" /\ r.outcome = "refused" => r.intent # n
        BY <1>1, <1>2, <1>3, <3>2, SMT DEF RequestFits
    <3>4. r.pc # "idle" => r.intent \in Intents
        BY <3>2 DEF RequestFits
    <3>5. RequestFits(r)'
        BY <1>4, <1>5, <3>2, <3>3, <3>4, SMT DEF RequestFits
    <3> QED BY <3>1, <3>5 DEF RequestFits
  <2> QED BY <2>1, <2>2
<1> QED BY <1>4, <1>10, <1>11, <1>12, <1>13, <1>14, FoldersStay DEF LedgerInv, FoldersMove

LEMMA AcceptKeeps == ASSUME LedgerInv, NEW n \in Intents, Accept(n) PROVE LedgerInv'
<1>1. PICK l \in Lists :
          /\ intent[n].kind \in {"rename", "join"} => remote[l].there
          /\ remote' = CASE intent[n].kind = "create" -> [remote EXCEPT ![l] = [there |-> TRUE, named |-> TRUE, member |-> FALSE]]
                         [] intent[n].kind = "rename" -> [remote EXCEPT ![l].named = TRUE]
                         [] intent[n].kind = "remove" -> [remote EXCEPT ![l].there = FALSE]
                         [] intent[n].kind = "join" -> [remote EXCEPT ![l].member = TRUE]
          /\ handler' = [h \in Handlers |->
                              IF handler[h].pc = "answer" /\ handler[h].intent = n
                              THEN [handler[h] EXCEPT !.outcome = "ok", !.seen = {l}] ELSE handler[h]]
    BY DEF Accept
<1>2. UNCHANGED <<intent, folder, sends, snapshot>> /\ wire' = wire \ {n} /\ n \in wire
    BY DEF Accept
<1>3. /\ remote \in [Lists -> RemoteRecords] /\ handler \in [Handlers -> HandlerRecords]
      /\ intent[n].kind \in {"create", "rename", "remove", "join"} /\ intent[n].state # "absent"
    BY <1>2, LedgerAssumption DEF LedgerInv, LedgerTyped, IntentFits, Unsent
<1>4. remote' \in [Lists -> RemoteRecords]
  <2>1. PICK r \in RemoteRecords : r = remote[l]
      BY <1>3
  <2>2. PICK new : /\ remote' = [remote EXCEPT ![l] = new]
                   /\ \/ new = [there |-> TRUE, named |-> TRUE, member |-> FALSE]
                      \/ new = [r EXCEPT !.named = TRUE]
                      \/ new = [r EXCEPT !.there = FALSE]
                      \/ new = [r EXCEPT !.member = TRUE]
      BY <1>1, <1>3, <2>1
  <2>3. new \in RemoteRecords
    <3>1. [there |-> TRUE, named |-> TRUE, member |-> FALSE] \in RemoteRecords
        BY DEF RemoteRecords
    <3>2. [r EXCEPT !.named = TRUE] \in RemoteRecords
        BY DEF RemoteRecords
    <3>3. [r EXCEPT !.there = FALSE] \in RemoteRecords
        BY DEF RemoteRecords
    <3>4. [r EXCEPT !.member = TRUE] \in RemoteRecords
        BY DEF RemoteRecords
    <3> QED BY <2>2, <3>1, <3>2, <3>3, <3>4
  <2> QED BY <1>3, <2>2, <2>3
<1>5. ASSUME NEW k \in Handlers
      PROVE  handler'[k] \in HandlerRecords /\ (handler'[k] # handler[k] => handler'[k].pc # "post" /\ RequestFits(handler[k])')
  <2>1. CASE handler[k].pc = "answer" /\ handler[k].intent = n
    <3>1. PICK q \in HandlerRecords : q = handler[k]
        BY <1>3
    <3>2. PICK x : x = [q EXCEPT !.outcome = "ok", !.seen = {l}]
        OBVIOUS
    <3>3. handler'[k] = x
        BY <1>1, <2>1, <3>1, <3>2
    <3>4. x \in HandlerRecords /\ x.pc = "answer" /\ x.intent = n /\ x.seen = {l}
        BY <2>1, <3>1, <3>2 DEF HandlerRecords, RequestSteps, Outcomes
    <3>5. sends[n] = 1
        BY <2>1 DEF LedgerInv, RequestFits
    <3>6. RequestFits(x)'
        BY <1>2, <1>3, <3>4, <3>5 DEF RequestFits
    <3> QED BY <3>3, <3>4, <3>6 DEF RequestFits
  <2>2. CASE ~(handler[k].pc = "answer" /\ handler[k].intent = n)
      BY <1>1, <1>3, <2>2
  <2> QED BY <2>1, <2>2
<1>6. LedgerTyped'
  <2>1. handler' \in [Handlers -> HandlerRecords]
      BY <1>1, <1>5
  <2> QED BY <1>2, <1>4, <2>1 DEF LedgerInv, LedgerTyped
<1>7. \A m \in Intents : RowStays(m)
    BY <1>2 DEF RowStays
<1> QED BY <1>2, <1>5, <1>6, <1>7, FoldersStay, LedgerGoes

LEMMA PrepareKeeps ==
    ASSUME LedgerInv, NEW h \in Handlers, NEW n \in Intents, NEW kind \in MutationKinds, NEW f \in Folders, Prepare(h, n, kind, f)
    PROVE  LedgerInv'
<1>1. /\ intent \in [Intents -> IntentRecords] /\ folder \in [Folders -> FolderRecords]
      /\ handler \in [Handlers -> HandlerRecords]
    BY DEF LedgerInv, LedgerTyped
<1>2. intent[n].state = "absent" /\ ActiveIntents = {} /\ UNCHANGED <<remote, wire, sends, snapshot>>
    BY DEF Prepare, IsNext, UsedIntents, historyVars
<1>3. PICK old \in FolderRecords : old = folder[f]
    BY <1>1
<1>4. old.link \in Lists \cup {NoList}
    BY DEF FolderRecords
<1>5. PICK row : row = [NoIntent EXCEPT !.kind = kind, !.state = "prepared", !.folder = f, !.list = old.link]
    OBVIOUS
<1>6. row \in IntentRecords /\ row.kind = kind /\ row.state = "prepared" /\ row.folder = f
    BY <1>4, <1>5 DEF NoIntent, IntentRecords, IntentStates, ActiveStates, NoList, NoFolder
<1>7. intent' \in [Intents -> IntentRecords] /\ intent'[n] = row /\ \A m \in Intents : m # n => intent'[m] = intent[m]
  <2>1. intent' = [intent EXCEPT ![n] = row]
      BY <1>3, <1>5 DEF Prepare
  <2> QED BY <1>1, <1>6, <2>1
<1>8. folder' \in [Folders -> FolderRecords] /\ FoldersMove /\ (kind = "create" => folder'[f].used)
  <2>1. CASE kind = "create"
    <3>1. PICK new : new = Linked(NoList)
        OBVIOUS
    <3>2. new \in FolderRecords /\ new.used /\ new.link = NoList
        BY <3>1 DEF Linked, FolderRecords, NoList
    <3>3. ~folder[f].used /\ folder' = [folder EXCEPT ![f] = new]
        BY <2>1, <3>1 DEF Prepare, IsNext, FreshFolders
    <3>4. folder'[f] = new /\ (\A g \in Folders : g # f => folder'[g] = folder[g]) /\ folder' \in [Folders -> FolderRecords]
        BY <1>1, <3>2, <3>3
    <3>5. LinksApart' /\ FoldersWereUsed'
        BY <3>2, <3>4 DEF LedgerInv, LinksApart, FoldersWereUsed
    <3>6. \A g \in Folders : folder[g].used => folder'[g].used /\ (folder'[g].there => folder[g].there)
        BY <3>3, <3>4
    <3> QED BY <3>2, <3>4, <3>5, <3>6 DEF FoldersMove
  <2>2. CASE kind # "create"
      BY <1>1, <2>2, FoldersStay DEF Prepare
  <2> QED BY <2>1, <2>2
<1>9. PICK x : x = [Idle EXCEPT !.pc = "drive", !.intent = n]
    OBVIOUS
<1>10. x \in HandlerRecords /\ x.pc = "drive" /\ x.intent = n /\ x.outcome = "none"
    BY <1>9 DEF Idle, HandlerRecords, RequestSteps, Outcomes
<1>11. handler' \in [Handlers -> HandlerRecords] /\ handler'[h] = x /\ \A k \in Handlers : k # h => handler'[k] = handler[k]
  <2>1. handler' = [handler EXCEPT ![h] = x]
      BY <1>9 DEF Prepare
  <2> QED BY <1>1, <1>10, <2>1
<1>12. LedgerTyped'
    BY <1>2, <1>7, <1>8, <1>11 DEF LedgerInv, LedgerTyped
<1>13. ASSUME NEW m \in Intents PROVE IntentFits(m)'
  <2>1. IntentFits(m)
      BY DEF LedgerInv
  <2>2. CASE m = n
      BY <1>2, <1>6, <1>7, <1>8, <2>1, <2>2, SMT DEF IntentFits
  <2>3. CASE m # n
      BY <1>2, <1>7, <1>8, <2>1, <2>3, SMT DEF IntentFits, FoldersMove
  <2> QED BY <2>2, <2>3
<1>14. OneActive'
  <2>1. \A m \in Intents : m # n => m \notin ActiveIntents'
      BY <1>2, <1>7 DEF ActiveIntents
  <2> QED BY <2>1 DEF OneActive
<1>15. ASSUME NEW k \in Handlers PROVE RequestFits(handler[k])'
  <2>1. CASE k = h
    <3>1. RequestFits(x)'
        BY <1>6, <1>7, <1>10 DEF RequestFits
    <3> QED BY <1>11, <2>1, <3>1 DEF RequestFits
  <2>2. CASE k # h
    <3>1. PICK r \in HandlerRecords : r = handler[k] /\ r = handler'[k]
        BY <1>1, <1>11, <2>2
    <3>2. RequestFits(r) /\ (r.pc # "idle" => r.intent \in Intents /\ r.intent # n)
        BY <1>2, <3>1 DEF LedgerInv, RequestFits
    <3>3. RequestFits(r)'
        BY <1>2, <1>7, <3>2 DEF RequestFits
    <3> QED BY <3>1, <3>3 DEF RequestFits
  <2> QED BY <2>1, <2>2
<1>16. OnePoster'
    BY <1>10, <1>11 DEF LedgerInv, OnePoster
<1> QED BY <1>8, <1>12, <1>13, <1>14, <1>15, <1>16 DEF LedgerInv, FoldersMove

\* Two members of a finite set of numbers with as many smaller ones are the same.
Below(S, f) == {x \in S : x < f}

LEMMA SameRank ==
    ASSUME NEW S, IsFiniteSet(S), S \subseteq Nat, NEW f \in S, NEW g \in S,
           Cardinality(Below(S, f)) = Cardinality(Below(S, g))
    PROVE  f = g
<1>1. ASSUME NEW a \in S, NEW b \in S, a < b, Cardinality({x \in S : x < a}) = Cardinality({x \in S : x < b}) PROVE FALSE
  <2>1. {x \in S : x < a} \in SUBSET {x \in S : x < b}
    <3>1. a \in Nat /\ b \in Nat
        OBVIOUS
    <3>2. \A x \in S : x \in Nat /\ (x < a => x < b)
        BY <1>1, <3>1
    <3> QED BY <3>2
  <2>2. IsFiniteSet({x \in S : x < b})
      BY FS_Subset
  <2>3. {x \in S : x < b} = {x \in S : x < a}
      BY <1>1, <2>1, <2>2, FS_Subset
  <2> QED BY <1>1, <2>3
<1>2. f < g \/ g < f \/ f = g
    OBVIOUS
<1>3. Cardinality({x \in S : x < f}) = Cardinality({x \in S : x < g})
    BY DEF Below
<1> QED BY <1>1, <1>2, <1>3

LEMMA FolderUnlinked == \A q \in FolderRecords : LET z == [q EXCEPT !.link = NoList]
                                                IN  z \in FolderRecords /\ z.there = q.there /\ z.used = q.used /\ z.link = NoList
BY DEF FolderRecords

LEMMA SyncKeepsFolders ==
    ASSUME LedgerInv, folder' = SyncFolders
    PROVE  FoldersMove /\ folder' \in [Folders -> FolderRecords]
<1> DEFINE chosen(f) == CHOOSE l \in Lists : Takes(f, l, NewLists)
           takes(f) == \E l \in Lists : Takes(f, l, NewLists)
<1>1. folder \in [Folders -> FolderRecords] /\ snapshot \in SUBSET Lists
    BY DEF LedgerInv, LedgerTyped
<1>2. \A f \in Folders : takes(f) => chosen(f) \in Lists /\ Takes(f, chosen(f), NewLists)
    OBVIOUS
<1>3. \A f \in Folders :
          /\ folder'[f] \in FolderRecords
          /\ takes(f) => folder'[f].there /\ folder'[f].used /\ folder'[f].link = chosen(f)
          /\ ~takes(f) => /\ folder'[f].there = folder[f].there /\ folder'[f].used = folder[f].used
                          /\ folder'[f].link \in {folder[f].link, NoList}
  <2> TAKE f \in Folders
  <2>1. PICK q \in FolderRecords : q = folder[f]
      BY <1>1
  <2>2. CASE takes(f)
    <3>1. folder'[f] = Linked(chosen(f))
        BY <2>2 DEF SyncFolders
    <3>2. PICK l \in Lists : l = chosen(f)
        BY <1>2, <2>2
    <3> HIDE DEF chosen, takes
    <3>3. Linked(l) \in FolderRecords /\ Linked(l).there /\ Linked(l).used /\ Linked(l).link = l
        BY DEF Linked, FolderRecords
    <3> QED BY <2>2, <3>1, <3>2, <3>3
  <2>3. CASE ~takes(f)
    <3>1. folder'[f] = q \/ folder'[f] = [q EXCEPT !.link = NoList]
        BY <2>1, <2>3 DEF SyncFolders
    <3> HIDE DEF chosen, takes
    <3> QED BY <2>1, <2>3, <3>1, FolderUnlinked
  <2> QED BY <2>2, <2>3
<1>4. folder' \in [Folders -> FolderRecords]
    BY <1>3 DEF SyncFolders
<1>5. \A f \in Folders : takes(f) => f \in FreshFolders /\ chosen(f) \in NewLists
    BY <1>2 DEF Takes
<1>6. ASSUME NEW f \in Folders, NEW g \in Folders, takes(f), takes(g), chosen(f) = chosen(g) PROVE f = g
  <2>1. Cardinality({x \in FreshFolders : x < f}) = Cardinality({x \in FreshFolders : x < g})
      BY <1>2, <1>6 DEF Takes
  <2>2. FreshFolders \in SUBSET Folders
      BY DEF FreshFolders
  <2>3. IsFiniteSet(FreshFolders) /\ FreshFolders \subseteq Nat
      BY <2>2, FS_Subset, LedgerAssumption
  <2>4. PICK S : S = FreshFolders
      OBVIOUS
  <2>5. f \in S /\ g \in S /\ IsFiniteSet(S) /\ S \subseteq Nat
      BY <1>5, <1>6, <2>3, <2>4
  <2>6. Cardinality(Below(S, f)) = Cardinality(Below(S, g))
      BY <2>1, <2>4 DEF Below
  <2> HIDE DEF chosen, takes
  <2> QED BY <2>5, <2>6, SameRank
<1>7. \A f \in Folders : takes(f) => ~folder[f].used /\ ~folder[f].there
    BY <1>5 DEF FreshFolders, LedgerInv, FoldersWereUsed
<1>8. \A f \in Folders, g \in Folders : takes(f) /\ ~takes(g) /\ folder[g].there => folder[g].link # chosen(f)
    BY <1>5 DEF NewLists
<1>9. \A f \in Folders : takes(f) => chosen(f) # NoList
    BY <1>2, LedgerAssumption DEF NoList
<1> HIDE DEF chosen, takes
<1>10. LinksApart'
  <2> SUFFICES ASSUME NEW f \in Folders, NEW g \in Folders, folder'[f].there, folder'[g].there,
                      folder'[f].link # NoList, folder'[f].link = folder'[g].link
               PROVE  f = g
      BY DEF LinksApart
  <2>1. CASE takes(f) /\ takes(g)
      BY <1>3, <1>6, <2>1
  <2>2. CASE takes(f) /\ ~takes(g)
      BY <1>3, <1>8, <2>2
  <2>3. CASE ~takes(f) /\ takes(g)
      BY <1>3, <1>8, <2>3
  <2>4. CASE ~takes(f) /\ ~takes(g)
      BY <1>3, <2>4 DEF LedgerInv, LinksApart
  <2> QED BY <2>1, <2>2, <2>3, <2>4
<1>11. FoldersWereUsed'
    BY <1>3 DEF LedgerInv, FoldersWereUsed
<1>12. \A f \in Folders : folder[f].used => folder'[f].used /\ (folder'[f].there => folder[f].there)
    BY <1>3, <1>7
<1> QED BY <1>4, <1>10, <1>11, <1>12 DEF FoldersMove

\* Synchronisation, deletion and other clients leave the requests alone.
LEMMA SurroundingsGo ==
    ASSUME LedgerInv, FoldersMove, folder' \in [Folders -> FolderRecords], remote' \in [Lists -> RemoteRecords],
           snapshot' \in SUBSET Lists, UNCHANGED <<intent, handler, wire, sends>>
    PROVE  LedgerInv'
<1>1. LedgerTyped'
    BY DEF LedgerInv, LedgerTyped
<1>2. \A n \in Intents : RowStays(n)
    BY DEF RowStays
<1> QED BY <1>1, <1>2, LedgerGoes

LEMMA OthersKeep ==
    ASSUME LedgerInv, SyncFetch \/ SyncApply \/ ForeignChange \/ \E f \in Folders : DeleteFolder(f)
    PROVE  LedgerInv'
<1>1. folder \in [Folders -> FolderRecords] /\ remote \in [Lists -> RemoteRecords] /\ snapshot \in SUBSET Lists
    BY DEF LedgerInv, LedgerTyped
<1>2. CASE SyncFetch
  <2>1. snapshot' \in SUBSET Lists /\ UNCHANGED <<folder, remote>> /\ UNCHANGED <<intent, handler, wire, sends>>
      BY <1>2 DEF SyncFetch, Existing, historyVars
  <2> QED BY <1>1, <2>1, FoldersStay, SurroundingsGo
<1>3. CASE SyncApply
  <2>1. snapshot' \in SUBSET Lists /\ UNCHANGED remote /\ UNCHANGED <<intent, handler, wire, sends>>
      BY <1>3 DEF SyncApply, historyVars
  <2>2. UNCHANGED folder \/ folder' = SyncFolders
      BY <1>3 DEF SyncApply
  <2> QED BY <1>1, <2>1, <2>2, FoldersStay, SyncKeepsFolders, SurroundingsGo
<1>4. CASE ForeignChange
  <2>1. UNCHANGED <<folder, snapshot>> /\ UNCHANGED <<intent, handler, wire, sends>>
      BY <1>4 DEF ForeignChange, historyVars
  <2>2. PICK l \in Lists, r \in RemoteRecords :
            /\ r = remote[l]
            /\ \/ \E named \in BOOLEAN : remote' = [remote EXCEPT ![l] = [there |-> TRUE, named |-> named, member |-> FALSE]]
               \/ remote' = [remote EXCEPT ![l] = [r EXCEPT !.there = FALSE]]
               \/ remote' = [remote EXCEPT ![l] = [r EXCEPT !.named = ~@]]
               \/ remote' = [remote EXCEPT ![l] = [r EXCEPT !.member = ~@]]
      BY <1>1, <1>4 DEF ForeignChange
  <2>3. /\ \A named \in BOOLEAN : [there |-> TRUE, named |-> named, member |-> FALSE] \in RemoteRecords
        /\ [r EXCEPT !.there = FALSE] \in RemoteRecords
        /\ [r EXCEPT !.named = ~@] \in RemoteRecords
        /\ [r EXCEPT !.member = ~@] \in RemoteRecords
      BY DEF RemoteRecords
  <2>4. \E new \in RemoteRecords : remote' = [remote EXCEPT ![l] = new]
      BY <2>2, <2>3
  <2>5. remote' \in [Lists -> RemoteRecords]
      BY <1>1, <2>4
  <2> QED BY <1>1, <2>1, <2>5, FoldersStay, SurroundingsGo
<1>5. CASE \E f \in Folders : DeleteFolder(f)
  <2>1. PICK f \in Folders : folder' = [folder EXCEPT ![f] = Gone]
      BY <1>5 DEF DeleteFolder
  <2>2. UNCHANGED <<remote, snapshot>> /\ UNCHANGED <<intent, handler, wire, sends>>
      BY <1>5 DEF DeleteFolder, historyVars
  <2> QED BY <1>1, <2>1, <2>2, FolderGoes, SurroundingsGo
<1> QED BY <1>2, <1>3, <1>4, <1>5

LEMMA LedgerStarts == LedgerInit => LedgerInv
<1> SUFFICES ASSUME LedgerInit PROVE LedgerInv
    OBVIOUS
<1>1. /\ NoIntent \in IntentRecords /\ NoIntent.state = "absent"
      /\ Unused \in FolderRecords /\ ~Unused.there /\ NoRemote \in RemoteRecords
    BY DEF NoIntent, IntentRecords, IntentStates, ActiveStates, NoList, NoFolder, Unused, FolderRecords, NoRemote, RemoteRecords
<1> HIDE DEF NoIntent, Unused, NoRemote, Idle
<1>2. LedgerTyped
    BY <1>1, IdleRequest DEF LedgerInit, LedgerTyped
<1>3. \A n \in Intents : IntentFits(n)
    BY <1>1 DEF LedgerInit, IntentFits
<1>4. OnePoster /\ \A h \in Handlers : RequestFits(handler[h])
    BY IdleRequest DEF LedgerInit, OnePoster
<1>5. OneActive
    BY <1>1 DEF LedgerInit, OneActive, ActiveIntents, ActiveStates
<1>6. LinksApart /\ FoldersWereUsed
    BY <1>1 DEF LedgerInit, LinksApart, FoldersWereUsed
<1> QED BY <1>2, <1>3, <1>4, <1>5, <1>6 DEF LedgerInv

LEMMA LedgerStep == LedgerInv /\ [LedgerNext]_ledgerVars => LedgerInv'
<1> SUFFICES ASSUME LedgerInv, [LedgerNext]_ledgerVars PROVE LedgerInv'
    OBVIOUS
<1>1. CASE UNCHANGED ledgerVars
  <2>1. UNCHANGED <<folder, remote, snapshot>> /\ UNCHANGED <<intent, handler, wire, sends>>
      BY <1>1 DEF ledgerVars
  <2>2. folder \in [Folders -> FolderRecords] /\ remote \in [Lists -> RemoteRecords] /\ snapshot \in SUBSET Lists
      BY DEF LedgerInv, LedgerTyped
  <2> QED BY <2>1, <2>2, FoldersStay, SurroundingsGo
<1>2. CASE \E h \in Handlers : \/ \E n \in Intents, kind \in MutationKinds, f \in Folders : Prepare(h, n, kind, f)
                               \/ \E n \in Intents : Join(h, n) \/ \E l \in Lists : AdoptCreate(h, n, l)
    BY <1>2, PrepareKeeps, JoinKeeps, AdoptKeeps
<1>3. CASE \E h \in Handlers : Drive(h) \/ BeginMutation(h) \/ PostMutation(h) \/ RefuseMutation(h)
    BY <1>3, DriveKeeps, BeginKeeps, PostKeeps, RefusalKeeps
<1>4. CASE \E h \in Handlers : AnswerArrives(h) \/ Record(h) \/ ApplyMutation(h) \/ DropHandler(h)
    BY <1>4, AnswerKeeps, RecordKeeps, ApplyKeeps, DropKeeps
<1>5. CASE \E n \in Intents : Accept(n) \/ CancelPrepared(n)
    BY <1>5, AcceptKeeps, CancelKeeps
<1>6. CASE SyncFetch \/ SyncApply \/ ForeignChange \/ \E f \in Folders : DeleteFolder(f)
    BY <1>6, OthersKeep
<1> QED BY <1>1, <1>2, <1>3, <1>4, <1>5, <1>6 DEF LedgerNext

\* The inductive invariant of the ledger holds always.
THEOREM LedgerInvariance == LedgerSpec => []LedgerInv
<1> QED BY LedgerStarts, LedgerStep, PTL DEF LedgerSpec

\* A mutation is sent to GitHub at most once, one at a time, whichever handlers are
\* dropped, whatever answers are lost and whoever reconciles or adopts; a refused or
\* cancelled one leaves no folder behind, and no list is linked to two folders
\* (mutations.rs, lists.rs).
THEOREM MutationsAlwaysSound == LedgerSpec => []MutationsAreSound
<1>1. LedgerInv => MutationsAreSound
  <2> SUFFICES ASSUME LedgerInv PROVE MutationsAreSound
      OBVIOUS
  <2>1. LedgerTypeOK
      BY DEF LedgerInv, LedgerTyped, IntentRecords, IntentStates, FolderRecords, LedgerTypeOK
  <2>2. Cardinality(ActiveIntents) <= 1
    <3>1. CASE ActiveIntents = {}
        BY <3>1, FS_EmptySet
    <3>2. CASE ActiveIntents # {}
      <4>1. PICK n \in Intents : ActiveIntents = {n}
          BY <3>2 DEF LedgerInv, OneActive, ActiveIntents
      <4> QED BY <4>1, FS_Singleton
    <3> QED BY <3>1, <3>2
  <2>3. \A n \in Intents : IntentFits(n)
      BY DEF LedgerInv
  <2>4. SentOnce
      BY <2>1, <2>2, <2>3 DEF SentOnce, IntentFits, Unsent
  <2>5. OneFolderPerList
      BY <2>3 DEF LedgerInv, LinksApart, IntentFits, OneFolderPerList
  <2> QED BY <2>4, <2>5 DEF MutationsAreSound
<1> QED BY <1>1, LedgerInvariance, PTL

----------------------------------------------------------------------------
(* The device flow of insight, for any number of generations and of        *)
(* disconnects.  What a disconnect was about is older than the flow the    *)
(* user is shown, and only that flow may store its token.                  *)

Flow == [generation : 0 .. MaxGenerations, status : Statuses]
DeviceStep == {"unused", "code", "poll", "token", "connected", "over"}
Leaving == [pc : {"idle", "removed", "done"}, upTo : 0 .. MaxGenerations]

OAuthTyped ==
    /\ flow \in Flow
    /\ flow.generation = 0 => flow = NoFlow
    /\ device \in [Generations -> DeviceStep]
    /\ aborted \subseteq Generations /\ lapsed \subseteq Generations
    /\ tokenRow \in 0 .. MaxGenerations /\ revokedUpTo \in 0 .. MaxGenerations
    /\ leaving \in [Disconnects -> Leaving]

\* A generation that is in use was started.
WasStarted(g) == g # 0 => device[g] # "unused"

\* The inductive invariant.
OAuthInv ==
    /\ OAuthTyped
    /\ WasStarted(flow.generation) /\ WasStarted(revokedUpTo)
    /\ \A d \in Disconnects : WasStarted(leaving[d].upTo)
    /\ flow.generation # 0 =>
          /\ revokedUpTo < flow.generation
          /\ \A d \in Disconnects : leaving[d].upTo < flow.generation

LEMMA OAuthStarts == OAuthInit => OAuthInv
<1> USE OAuthAssumption
<1> SUFFICES ASSUME OAuthInit PROVE OAuthInv
    OBVIOUS
<1>1. 0 \in 0 .. MaxGenerations
    BY SMT
<1>2. flow \in Flow /\ flow.generation = 0
    BY <1>1 DEF OAuthInit, NoFlow, Flow, Statuses
<1>3. leaving \in [Disconnects -> Leaving] /\ \A d \in Disconnects : leaving[d].upTo = 0
    BY <1>1 DEF OAuthInit, Leaving
<1> QED BY <1>1, <1>2, <1>3 DEF OAuthInit, OAuthInv, OAuthTyped, WasStarted, DeviceStep

\* The flow takes another status.
LEMMA StatusTaken ==
    ASSUME OAuthInv, NEW s \in Statuses, flow.generation # 0
    PROVE  LET f == [flow EXCEPT !.status = s]
           IN  f \in Flow /\ f.generation = flow.generation /\ f.status = s
<1>1. PICK f \in Flow : f = flow
    BY DEF OAuthInv, OAuthTyped
<1>2. \A x \in Statuses : [f EXCEPT !.status = x] \in Flow
    BY SMT DEF Flow
<1>3. [f EXCEPT !.status = s].generation = f.generation /\ [f EXCEPT !.status = s].status = s
    BY SMT DEF Flow
<1> QED BY <1>1, <1>2, <1>3

\* The pollers move, and at most the status of the flow with them.
LEMMA PollersAct ==
    ASSUME OAuthInv, UNCHANGED <<leaving, revokedUpTo>>,
           device' \in [Generations -> DeviceStep],
           \A g \in Generations : device[g] # "unused" => device'[g] # "unused",
           flow' \in Flow, flow'.generation \in {flow.generation, 0}, flow'.generation = 0 => flow' = NoFlow,
           aborted' \subseteq Generations, lapsed' \subseteq Generations, tokenRow' \in 0 .. MaxGenerations
    PROVE  OAuthInv'
<1> USE OAuthAssumption
<1>1. OAuthTyped'
    BY DEF OAuthInv, OAuthTyped
<1>2. \A g \in 0 .. MaxGenerations : WasStarted(g) => WasStarted(g)'
    BY SMT DEF WasStarted, Generations
<1>3. /\ flow.generation \in 0 .. MaxGenerations /\ revokedUpTo \in 0 .. MaxGenerations
      /\ \A d \in Disconnects : leaving[d].upTo \in 0 .. MaxGenerations
    BY SMT DEF OAuthInv, OAuthTyped, Flow, Leaving
<1>4. \A g \in 0 .. MaxGenerations : g = 0 => WasStarted(g)'
    BY DEF WasStarted
<1>5. WasStarted(flow.generation)'
  <2>1. CASE flow'.generation = 0
      BY <2>1 DEF WasStarted
  <2>2. CASE flow'.generation = flow.generation
      BY <1>2, <1>3, <2>2 DEF OAuthInv, WasStarted
  <2> QED BY <2>1, <2>2
<1>6. WasStarted(revokedUpTo)' /\ \A d \in Disconnects : WasStarted(leaving[d].upTo)'
    BY <1>2, <1>3 DEF OAuthInv, WasStarted
<1>7. flow'.generation # 0 =>
          /\ revokedUpTo' < flow'.generation
          /\ \A d \in Disconnects : leaving'[d].upTo < flow'.generation
    BY DEF OAuthInv
<1> QED BY <1>1, <1>5, <1>6, <1>7 DEF OAuthInv

\* What a poller leaves behind.
LEMMA DeviceMoves ==
    ASSUME OAuthInv, NEW g \in Generations, NEW s \in DeviceStep \ {"unused"},
           device' = [device EXCEPT ![g] = s]
    PROVE  /\ device' \in [Generations -> DeviceStep]
           /\ \A h \in Generations : device[h] # "unused" => device'[h] # "unused"
<1> QED BY DEF OAuthInv, OAuthTyped

LEMMA FlowStays ==
    ASSUME OAuthInv
    PROVE  /\ flow \in Flow
           /\ flow.generation = 0 => flow = NoFlow
           /\ aborted \subseteq Generations /\ lapsed \subseteq Generations /\ tokenRow \in 0 .. MaxGenerations
           /\ device \in [Generations -> DeviceStep]
<1> QED BY DEF OAuthInv, OAuthTyped

LEMMA NoFlowIsFlow == NoFlow \in Flow /\ NoFlow.generation = 0
<1> QED BY OAuthAssumption, SMT DEF NoFlow, Flow, Statuses

LEMMA StartFlowKeeps ==
    ASSUME OAuthInv, NEW g \in Generations, StartFlow(g)
    PROVE  OAuthInv'
<1> USE OAuthAssumption
<1>1. flow' = [generation |-> g, status |-> "pending"] /\ g \in 0 .. MaxGenerations /\ g # 0
    BY SMT DEF StartFlow, Generations
<1>2. flow' \in Flow /\ flow'.generation = g
    BY <1>1 DEF Flow, Statuses
<1>3. /\ device' \in [Generations -> DeviceStep] /\ device'[g] # "unused"
      /\ \A h \in Generations : device[h] # "unused" => device'[h] # "unused"
    BY FlowStays DEF StartFlow, DeviceStep
<1>4. \A h \in 0 .. MaxGenerations : WasStarted(h) => WasStarted(h)' /\ h < g
  <2> SUFFICES ASSUME NEW h \in 0 .. MaxGenerations, WasStarted(h) PROVE WasStarted(h)' /\ h < g
      OBVIOUS
  <2>1. CASE h = 0
      BY <1>1, <2>1, SMT DEF WasStarted
  <2>2. CASE h # 0
    <3>1. h \in Generations /\ h \in Started
        BY <2>2, SMT DEF WasStarted, Generations, Started
    <3>2. h \in 1 .. g - 1
        BY <3>1 DEF StartFlow
    <3> QED BY <1>1, <1>3, <3>1, <3>2, SMT DEF WasStarted
  <2> QED BY <2>1, <2>2
<1>5. /\ revokedUpTo \in 0 .. MaxGenerations /\ WasStarted(revokedUpTo)
      /\ \A d \in Disconnects : leaving[d].upTo \in 0 .. MaxGenerations /\ WasStarted(leaving[d].upTo)
    BY SMT DEF OAuthInv, OAuthTyped, Leaving
<1>6. aborted' \subseteq Generations
  <2>1. flow # NoFlow => flow.generation \in Generations
      BY FlowStays, SMT DEF Flow, Generations
  <2> QED BY <2>1, FlowStays DEF StartFlow
<1>7. OAuthTyped'
    BY <1>1, <1>2, <1>3, <1>6, FlowStays DEF StartFlow, OAuthInv, OAuthTyped
<1>8. UNCHANGED <<revokedUpTo, leaving>>
    BY DEF StartFlow
<1>9. WasStarted(flow.generation)'
    BY <1>2, <1>3 DEF WasStarted
<1> QED BY <1>2, <1>4, <1>5, <1>7, <1>8, <1>9 DEF OAuthInv

LEMMA PollerKeeps ==
    ASSUME OAuthInv, NEW g \in Generations,
           CodeArrives(g) \/ AdmissionDropped(g) \/ PollEnds(g) \/ TokenArrives(g) \/ ConnectionAcquired(g) \/ Persist(g)
    PROVE  OAuthInv'
<1> USE OAuthAssumption
<1>1. g # 0 /\ g \in 0 .. MaxGenerations
    BY SMT DEF Generations
<1>2. CASE CodeArrives(g) \/ TokenArrives(g) \/ ConnectionAcquired(g)
  <2>1. PICK s \in DeviceStep \ {"unused"} : device' = [device EXCEPT ![g] = s]
      BY <1>2 DEF CodeArrives, TokenArrives, ConnectionAcquired, DeviceStep
  <2>2. UNCHANGED <<flow, aborted, lapsed, tokenRow, leaving, revokedUpTo>>
      BY <1>2 DEF CodeArrives, TokenArrives, ConnectionAcquired
  <2> QED BY <2>1, <2>2, DeviceMoves, FlowStays, PollersAct
<1>3. CASE AdmissionDropped(g)
  <2>1. "over" \in DeviceStep \ {"unused"}
      BY DEF DeviceStep
  <2>2. flow' \in Flow /\ flow'.generation \in {flow.generation, 0} /\ (flow'.generation = 0 => flow' = NoFlow)
      BY <1>3, FlowStays, NoFlowIsFlow DEF AdmissionDropped
  <2>3. aborted' \subseteq Generations
      BY <1>3, FlowStays DEF AdmissionDropped
  <2> QED BY <1>3, <2>1, <2>2, <2>3, DeviceMoves, FlowStays, PollersAct DEF AdmissionDropped
<1>4. CASE PollEnds(g)
  <2>1. PICK s \in Statuses : Ended(g, s)
      BY <1>4 DEF PollEnds, Statuses
  <2>2. flow' \in Flow /\ flow'.generation \in {flow.generation, 0} /\ (flow'.generation = 0 => flow' = NoFlow)
      BY <1>1, <2>1, FlowStays, StatusTaken DEF Ended
  <2>3. "over" \in DeviceStep \ {"unused"}
      BY DEF DeviceStep
  <2> QED BY <2>1, <2>2, <2>3, DeviceMoves, FlowStays, PollersAct DEF Ended
<1>5. CASE Persist(g)
  <2>1. \/ flow' = flow
        \/ Current(g) /\ \E s \in Statuses : flow' = [flow EXCEPT !.status = s]
    <3>1. CASE ~Current(g)
        BY <1>5, <3>1 DEF Persist
    <3>2. CASE Current(g) /\ Live(g) /\ entitled
        BY <1>5, <3>2 DEF Persist, Statuses
    <3>3. CASE Current(g) /\ ~(Live(g) /\ entitled)
      <4> DEFINE s == CASE Cancelled(g) -> "cancelled"
                        [] g \in lapsed /\ ~Cancelled(g) -> "expired"
                        [] OTHER -> "error"
      <4>1. flow' = [flow EXCEPT !.status = s]
          BY <1>5, <3>3, Zenon DEF Persist
      <4>2. s \in {"cancelled", "expired", "error"}
          BY Zenon
      <4>3. s \in Statuses
          BY <4>2 DEF Statuses
      <4> HIDE DEF s
      <4> QED BY <3>3, <4>1, <4>3
    <3> QED BY <3>1, <3>2, <3>3
  <2>2. flow' \in Flow /\ flow'.generation \in {flow.generation, 0} /\ (flow'.generation = 0 => flow' = NoFlow)
      BY <1>1, <2>1, FlowStays, StatusTaken DEF Current
  <2>3. "over" \in DeviceStep \ {"unused"} /\ tokenRow' \in 0 .. MaxGenerations
      BY <1>1, <1>5, FlowStays DEF DeviceStep, Persist
  <2> QED BY <1>5, <2>2, <2>3, DeviceMoves, FlowStays, PollersAct DEF Persist
<1> QED BY <1>2, <1>3, <1>4, <1>5

LEMMA DisconnectKeeps ==
    ASSUME OAuthInv, NEW d \in Disconnects, RemoveFlow(d) \/ ClearToken(d)
    PROVE  OAuthInv'
<1> USE OAuthAssumption
<1>1. PICK l \in Leaving : l = leaving[d]
    BY DEF OAuthInv, OAuthTyped
<1>2. CASE RemoveFlow(d)
  <2>1. PICK u \in 0 .. MaxGenerations : u = IF flow = NoFlow THEN 0 ELSE flow.generation
      BY FlowStays, SMT DEF Flow
  <2>2. leaving' = [leaving EXCEPT ![d] = [pc |-> "removed", upTo |-> u]] /\ [pc |-> "removed", upTo |-> u] \in Leaving
      BY <1>2, <2>1 DEF RemoveFlow, Leaving
  <2>3. flow' = NoFlow /\ flow' \in Flow /\ flow'.generation = 0
      BY <1>2, NoFlowIsFlow DEF RemoveFlow
  <2>4. aborted' \subseteq Generations
    <3>1. flow # NoFlow => flow.generation \in Generations
        BY FlowStays, SMT DEF Flow, Generations
    <3> QED BY <1>2, <3>1, FlowStays DEF RemoveFlow
  <2>5. OAuthTyped'
      BY <1>2, <2>2, <2>3, <2>4 DEF RemoveFlow, OAuthInv, OAuthTyped
  <2>6. WasStarted(u)
      BY <2>1 DEF OAuthInv, WasStarted
  <2>7. \A e \in Disconnects : leaving'[e].upTo = IF e = d THEN u ELSE leaving[e].upTo
      BY <2>2 DEF OAuthInv, OAuthTyped
  <2>8. UNCHANGED <<device, revokedUpTo>>
      BY <1>2 DEF RemoveFlow
  <2> QED BY <2>3, <2>5, <2>6, <2>7, <2>8 DEF OAuthInv, WasStarted
<1>3. CASE ClearToken(d)
  <2>1. PICK m : m = [l EXCEPT !.pc = "done"]
      OBVIOUS
  <2>2. m \in Leaving /\ m.upTo = l.upTo
      BY <2>1, SMT DEF Leaving
  <2>3. leaving' = [leaving EXCEPT ![d] = m]
      BY <1>1, <1>3, <2>1 DEF ClearToken
  <2>4. leaving' \in [Disconnects -> Leaving] /\ \A e \in Disconnects : leaving'[e].upTo = leaving[e].upTo
      BY <1>1, <2>2, <2>3 DEF OAuthInv, OAuthTyped
  <2>5. revokedUpTo' \in {revokedUpTo, l.upTo} /\ l.upTo \in 0 .. MaxGenerations /\ tokenRow' \in {tokenRow, 0}
      BY <1>1, <1>3, SMT DEF ClearToken, Leaving
  <2>6. UNCHANGED <<flow, device, aborted, lapsed>>
      BY <1>3 DEF ClearToken
  <2>7. revokedUpTo' \in 0 .. MaxGenerations /\ tokenRow' \in 0 .. MaxGenerations
      BY <2>5, SMT DEF OAuthInv, OAuthTyped
  <2>8. OAuthTyped'
      BY <2>4, <2>6, <2>7 DEF OAuthInv, OAuthTyped
  <2>9. WasStarted(revokedUpTo') /\ (flow.generation # 0 => revokedUpTo' < flow.generation)
      BY <1>1, <2>5, <2>6 DEF OAuthInv, WasStarted
  <2> QED BY <1>1, <2>4, <2>5, <2>6, <2>8, <2>9 DEF OAuthInv, WasStarted
<1> QED BY <1>2, <1>3

LEMMA OAuthStep == OAuthInv /\ [OAuthNext]_oauthVars => OAuthInv'
<1> SUFFICES ASSUME OAuthInv, [OAuthNext]_oauthVars PROVE OAuthInv'
    OBVIOUS
<1>1. ASSUME NEW g \in Generations, Lapse(g) PROVE OAuthInv'
  <2>1. lapsed' \subseteq Generations
      BY <1>1, FlowStays DEF Lapse
  <2> QED BY <1>1, <2>1, FlowStays, PollersAct DEF Lapse
<1>2. CASE UNCHANGED oauthVars \/ ChangeEntitlement \/ StopOAuth
    BY <1>2, FlowStays, PollersAct DEF oauthVars, ChangeEntitlement, StopOAuth
<1> QED BY <1>1, <1>2, StartFlowKeeps, PollerKeeps, DisconnectKeeps DEF OAuthNext

THEOREM OAuthInvariance == OAuthSpec => []OAuthInv
<1> QED BY OAuthStarts, OAuthStep, PTL DEF OAuthSpec

\* A token is stored only as the success of the flow the user is shown, and of none
\* that a completed disconnect was about (start, poll, persist and cancel of oauth.rs).
THEOREM NoTokenEverReturns == OAuthSpec => NoTokenReturns
<1>1. OAuthInv /\ OAuthInv' /\ [OAuthNext]_oauthVars => [TokenStep /\ OAuthTypeOK']_oauthVars
  <2> SUFFICES ASSUME OAuthInv, OAuthInv', OAuthNext PROVE TokenStep /\ OAuthTypeOK'
      OBVIOUS
  <2>1. OAuthTypeOK'
      BY SMT DEF OAuthInv, OAuthTyped, Flow, OAuthTypeOK
  <2>2. ASSUME NEW g \in Generations, Persist(g), tokenRow' # tokenRow
        PROVE  flow' = [generation |-> tokenRow', status |-> "success"] /\ tokenRow' > revokedUpTo
    <3>1. tokenRow' = g /\ Live(g) /\ entitled /\ flow.generation = g
        BY <2>2 DEF Persist, Live, Current
    <3>2. flow' = [flow EXCEPT !.status = "success"] /\ flow \in Flow
        BY <2>2, <3>1, FlowStays DEF Persist, Live, Current
    <3>3. flow' = [generation |-> g, status |-> "success"]
        BY <3>1, <3>2 DEF Flow
    <3>4. g # 0 /\ g \in Int /\ revokedUpTo \in Int
        BY SMT DEF Generations, OAuthInv, OAuthTyped
    <3>5. revokedUpTo < g
        BY <3>1, <3>4 DEF OAuthInv
    <3> QED BY <3>1, <3>3, <3>4, <3>5, SMT
  <2>3. TokenStep
    <3>1. tokenRow' \in {tokenRow, 0} \/ \E g \in Generations : Persist(g)
        BY DEF OAuthNext, StartFlow, CodeArrives, AdmissionDropped, PollEnds, Ended, TokenArrives,
               ConnectionAcquired, Lapse, RemoveFlow, ClearToken, ChangeEntitlement, StopOAuth
    <3> QED BY <2>2, <3>1 DEF TokenStep
  <2> QED BY <2>1, <2>3
<1> QED BY <1>1, OAuthInvariance, OAuthStep, PTL DEF OAuthSpec, NoTokenReturns

----------------------------------------------------------------------------
(* The daily quota of insight, for any number of requests, days and any    *)
(* limits.  What counts against a day is a reservation of that day or an   *)
(* answer that was reserved on it; the statement counts what is logged or  *)
(* reserved today, which is no less, because a clock that only moves on    *)
(* never charges a day to come.                                            *)

AskStep == {"idle", "read", "reserve", "lookup", "fetch", "generate", "check", "release", "cleanup", "done"}
AskRow == [pc : AskStep, feature : Features, path : 0 .. MaxRoutes, armed : BOOLEAN, token : BOOLEAN,
           result : {"none", "error", "cached", "ok"}]
MaybeDay == Days \cup {NoDay}
UsageRow == [day : MaybeDay, reserved : MaybeDay]

QuotaTyped ==
    /\ ask \in [Requests -> AskRow]
    /\ reservation \in [Requests -> MaybeDay]
    /\ usage \in [Requests -> UsageRow]
    /\ stored \subseteq 0 .. MaxRoutes /\ path \in 0 .. MaxRoutes
    /\ today \in Days
    /\ quotaClosing \in BOOLEAN /\ dbClosed \in BOOLEAN /\ quotaFaults \in Nat

\* Nothing is charged to a day to come, and what was reserved today is logged today.
ChargedInTime ==
    \A r \in Requests :
        /\ reservation[r] # NoDay => reservation[r] <= today
        /\ usage[r].reserved # NoDay =>
              usage[r].day # NoDay /\ usage[r].reserved <= usage[r].day /\ usage[r].day <= today

\* The requests that are charged to a day.
Charged(feature, day) ==
    {r \in Requests : (usage[r].reserved = day \/ reservation[r] = day) /\ ask[r].feature = feature}

ChargedWithin ==
    \A feature \in Features, day \in Days :
        Limit(feature) > 0 => Cardinality(Charged(feature, day)) <= Limit(feature)

\* Every future has its token, and every row of a reservation its guard.
FuturesAreHeld ==
    \A r \in Requests :
        /\ ask[r].pc \notin {"idle", "done"} => ask[r].token
        /\ ask[r].pc = "idle" => reservation[r] = NoDay /\ usage[r].reserved = NoDay
        /\ reservation[r] # NoDay =>
              \/ ask[r].pc \notin {"idle", "done"} /\ ask[r].armed
              \/ ask[r].pc = "done" /\ quotaFaults > 0

\* The inductive invariant.
QuotaInv ==
    /\ QuotaTyped
    /\ ChargedInTime
    /\ ChargedWithin
    /\ FuturesAreHeld
    /\ dbClosed => quotaClosing /\ \A r \in Requests : ~ask[r].token

\* The steps write one field of a request at a time.
WithPc(a, x) == [a EXCEPT !.pc = x]
WithPath(a, x) == [a EXCEPT !.path = x]
WithArmed(a, x) == [a EXCEPT !.armed = x]
WithToken(a, x) == [a EXCEPT !.token = x]
WithResult(a, x) == [a EXCEPT !.result = x]

\* q is a request with these fields.
Row(q, pc, feature, armed, token) ==
    /\ q \in AskRow /\ q.pc = pc /\ q.feature = feature
    /\ q.armed <=> armed
    /\ q.token <=> token

LEMMA PcWritten == \A a \in AskRow : \A x \in AskStep : Row(WithPc(a, x), x, a.feature, a.armed, a.token)
<1> QED BY SMT DEF AskRow, WithPc, Row

LEMMA PathWritten == \A a \in AskRow : \A x \in 0 .. MaxRoutes : Row(WithPath(a, x), a.pc, a.feature, a.armed, a.token)
<1> QED BY SMT DEF AskRow, WithPath, Row

LEMMA ArmedWritten == \A a \in AskRow : \A x \in BOOLEAN : Row(WithArmed(a, x), a.pc, a.feature, x, a.token)
<1> QED BY SMT DEF AskRow, WithArmed, Row

LEMMA TokenWritten == \A a \in AskRow : \A x \in BOOLEAN : Row(WithToken(a, x), a.pc, a.feature, a.armed, x)
<1> QED BY SMT DEF AskRow, WithToken, Row

LEMMA ResultWritten ==
    \A a \in AskRow : \A x \in {"error", "cached", "ok"} : Row(WithResult(a, x), a.pc, a.feature, a.armed, a.token)
<1> QED BY SMT DEF AskRow, WithResult, Row

\* The request r is at the step pc now; its guard and its token are as given.
Became(r, pc, armed, token) ==
    \E q \in AskRow : ask' = [ask EXCEPT ![r] = q] /\ Row(q, pc, ask[r].feature, armed, token)

LEMMA AskGoes ==
    ASSUME ask \in [Requests -> AskRow], NEW r \in Requests, NEW pc \in AskStep, ask' = Go(r, pc)
    PROVE  Became(r, pc, ask[r].armed, ask[r].token)
<1>1. ask' = [ask EXCEPT ![r] = WithPc(ask[r], pc)]
    BY DEF Go, WithPc
<1>2. PICK q : q = WithPc(ask[r], pc)
    OBVIOUS
<1>3. Row(q, pc, ask[r].feature, ask[r].armed, ask[r].token)
    BY <1>2, PcWritten
<1>4. q \in AskRow
    BY <1>3 DEF Row
<1> QED BY <1>1, <1>2, <1>3, <1>4 DEF Became

\* It has another result, another path or another guard as well.
LEMMA AskResults ==
    ASSUME ask \in [Requests -> AskRow], NEW r \in Requests, NEW pc \in AskStep, NEW x \in {"error", "cached", "ok"},
           \/ ask' = [Go(r, pc) EXCEPT ![r].result = x]
           \/ ask' = [ask EXCEPT ![r].pc = pc, ![r].result = x]
    PROVE  Became(r, pc, ask[r].armed, ask[r].token)
<1>1. ask' = [ask EXCEPT ![r] = WithResult(WithPc(ask[r], pc), x)]
    BY DEF Go, WithPc, WithResult
<1>2. PICK q : q = WithPc(ask[r], pc)
    OBVIOUS
<1>3. Row(q, pc, ask[r].feature, ask[r].armed, ask[r].token)
    BY <1>2, PcWritten
<1>4. q \in AskRow
    BY <1>3 DEF Row
<1>5. PICK z : z = WithResult(q, x)
    OBVIOUS
<1>6. Row(z, q.pc, q.feature, q.armed, q.token)
    BY <1>4, <1>5, ResultWritten
<1>7. z \in AskRow /\ Row(z, pc, ask[r].feature, ask[r].armed, ask[r].token)
    BY <1>3, <1>6, Zenon DEF Row
<1> QED BY <1>1, <1>2, <1>5, <1>7 DEF Became

LEMMA AskReads ==
    ASSUME ask \in [Requests -> AskRow], NEW r \in Requests, NEW pc \in AskStep, NEW p \in 0 .. MaxRoutes,
           ask' = [Go(r, pc) EXCEPT ![r].path = p]
    PROVE  Became(r, pc, ask[r].armed, ask[r].token)
<1>1. ask' = [ask EXCEPT ![r] = WithPath(WithPc(ask[r], pc), p)]
    BY DEF Go, WithPc, WithPath
<1>2. PICK q : q = WithPc(ask[r], pc)
    OBVIOUS
<1>3. Row(q, pc, ask[r].feature, ask[r].armed, ask[r].token)
    BY <1>2, PcWritten
<1>4. q \in AskRow
    BY <1>3 DEF Row
<1>5. PICK z : z = WithPath(q, p)
    OBVIOUS
<1>6. Row(z, q.pc, q.feature, q.armed, q.token)
    BY <1>4, <1>5, PathWritten
<1>7. z \in AskRow /\ Row(z, pc, ask[r].feature, ask[r].armed, ask[r].token)
    BY <1>3, <1>6, Zenon DEF Row
<1> QED BY <1>1, <1>2, <1>5, <1>7 DEF Became

LEMMA AskArms ==
    ASSUME ask \in [Requests -> AskRow], NEW r \in Requests, NEW pc \in AskStep, NEW x \in {"error", "cached", "ok"},
           NEW b \in BOOLEAN,
           \/ ask' = [Go(r, pc) EXCEPT ![r].armed = b]
           \/ ask' = [Go(r, pc) EXCEPT ![r].armed = b, ![r].result = x]
    PROVE  Became(r, pc, b, ask[r].token)
<1>1. \/ ask' = [ask EXCEPT ![r] = WithArmed(WithPc(ask[r], pc), b)]
      \/ ask' = [ask EXCEPT ![r] = WithResult(WithArmed(WithPc(ask[r], pc), b), x)]
    BY DEF Go, WithPc, WithArmed, WithResult
<1>2. PICK q : q = WithPc(ask[r], pc)
    OBVIOUS
<1>3. Row(q, pc, ask[r].feature, ask[r].armed, ask[r].token)
    BY <1>2, PcWritten
<1>4. q \in AskRow
    BY <1>3 DEF Row
<1>5. PICK u : u = WithArmed(q, b)
    OBVIOUS
<1>6. Row(u, q.pc, q.feature, b, q.token)
    BY <1>4, <1>5, ArmedWritten
<1>7. u \in AskRow /\ Row(u, pc, ask[r].feature, b, ask[r].token)
    BY <1>3, <1>6, Zenon DEF Row
<1>8. PICK z : z = WithResult(u, x)
    OBVIOUS
<1>9. Row(z, u.pc, u.feature, u.armed, u.token)
    BY <1>7, <1>8, ResultWritten
<1>10. z \in AskRow /\ Row(z, pc, ask[r].feature, b, ask[r].token)
    BY <1>7, <1>9, Zenon DEF Row
<1> QED BY <1>1, <1>2, <1>5, <1>7, <1>8, <1>10 DEF Became

LEMMA AskEnds ==
    ASSUME ask \in [Requests -> AskRow], NEW r \in Requests, ask' = Over(r)
    PROVE  Became(r, "done", ask[r].armed, FALSE)
<1>1. ask' = [ask EXCEPT ![r] = WithToken(WithPc(ask[r], "done"), FALSE)]
    BY DEF Over, WithPc, WithToken
<1>2. PICK q : q = WithPc(ask[r], "done")
    OBVIOUS
<1>3. Row(q, "done", ask[r].feature, ask[r].armed, ask[r].token)
  <2>1. "done" \in AskStep
      BY DEF AskStep
  <2> QED BY <1>2, <2>1, PcWritten
<1>4. q \in AskRow
    BY <1>3 DEF Row
<1>5. PICK z : z = WithToken(q, FALSE)
    OBVIOUS
<1>6. Row(z, q.pc, q.feature, q.armed, FALSE)
    BY <1>4, <1>5, TokenWritten
<1>7. z \in AskRow /\ Row(z, "done", ask[r].feature, ask[r].armed, FALSE)
    BY <1>3, <1>6, Zenon DEF Row
<1> QED BY <1>1, <1>2, <1>5, <1>7 DEF Became

\* Nothing is charged that was not charged before.
LEMMA ChargedLess ==
    ASSUME QuotaInv, ask' \in [Requests -> AskRow],
           \A s \in Requests :
              /\ usage'[s].reserved # NoDay =>
                    usage'[s].reserved \in {usage[s].reserved, reservation[s]} /\ ask'[s].feature = ask[s].feature
              /\ reservation'[s] # NoDay =>
                    reservation'[s] = reservation[s] /\ ask'[s].feature = ask[s].feature
    PROVE  ChargedWithin'
<1> USE QuotaAssumption
<1> SUFFICES ASSUME NEW feature \in Features, NEW day \in Days, Limit(feature) > 0
             PROVE  Cardinality(Charged(feature, day)') <= Limit(feature)
    BY DEF ChargedWithin, Limit
<1>1. day # NoDay
    BY SMT DEF Days, NoDay
<1>2. Charged(feature, day)' \subseteq Charged(feature, day)
    BY <1>1 DEF Charged
<1>3. IsFiniteSet(Charged(feature, day))
    BY FS_Subset DEF Charged
<1>4. Cardinality(Charged(feature, day)) <= Limit(feature)
    BY DEF QuotaInv, ChargedWithin
<1>5. Cardinality(Charged(feature, day)') <= Cardinality(Charged(feature, day))
    BY <1>2, <1>3, FS_Subset
<1>6. /\ Cardinality(Charged(feature, day)') \in Nat
      /\ Cardinality(Charged(feature, day)) \in Nat /\ Limit(feature) \in Nat
    BY <1>2, <1>3, FS_Subset, FS_CardinalityType DEF Limit
<1> QED BY <1>4, <1>5, <1>6, SMT

\* What became of the requests when one of them moves.
LEMMA AskMoves ==
    ASSUME QuotaInv, NEW r \in Requests, NEW pc \in AskStep, NEW armed, NEW token, Became(r, pc, armed, token)
    PROVE  /\ ask' \in [Requests -> AskRow]
           /\ ask'[r].pc = pc
           /\ ask'[r].armed <=> armed
           /\ ask'[r].token <=> token
           /\ \A s \in Requests : ask'[s].feature = ask[s].feature
           /\ \A s \in Requests \ {r} : ask'[s] = ask[s]
<1>1. PICK q \in AskRow : ask' = [ask EXCEPT ![r] = q] /\ Row(q, pc, ask[r].feature, armed, token)
    BY DEF Became
<1>2. ask \in [Requests -> AskRow]
    BY DEF QuotaInv, QuotaTyped
<1>3. ask'[r] = q /\ \A s \in Requests \ {r} : ask'[s] = ask[s]
    BY <1>1, <1>2
<1> QED BY <1>1, <1>2, <1>3 DEF Row

\* A request moves on, and its reservation stays or goes.
LEMMA RequestMoves ==
    ASSUME QuotaInv, NEW r \in Requests, NEW pc \in AskStep \ {"idle"}, NEW armed, NEW token,
           Became(r, pc, armed, token),
           UNCHANGED <<usage, path, today, quotaClosing, dbClosed, stored>>,
           reservation' = reservation \/ reservation' = Deleted(r),
           quotaFaults' \in Nat, quotaFaults > 0 => quotaFaults' > 0,
           token => ask[r].token,
           pc # "done" => token,
           reservation'[r] # NoDay => (pc # "done" /\ armed) \/ (pc = "done" /\ quotaFaults' > 0)
    PROVE  QuotaInv'
<1> USE QuotaAssumption
<1>1. /\ ask' \in [Requests -> AskRow]
      /\ ask'[r].pc = pc
      /\ ask'[r].armed <=> armed
      /\ ask'[r].token <=> token
      /\ \A s \in Requests : ask'[s].feature = ask[s].feature
      /\ \A s \in Requests \ {r} : ask'[s] = ask[s]
    BY AskMoves
<1>2. reservation \in [Requests -> MaybeDay] /\ NoDay \in MaybeDay
    BY DEF QuotaInv, QuotaTyped, MaybeDay
<1>3. /\ reservation' \in [Requests -> MaybeDay]
      /\ \A s \in Requests : reservation'[s] # NoDay => reservation'[s] = reservation[s]
      /\ \A s \in Requests \ {r} : reservation'[s] = reservation[s]
    BY <1>2 DEF Deleted
<1>4. QuotaTyped'
    BY <1>1, <1>3 DEF QuotaInv, QuotaTyped
<1>5. ChargedInTime'
    BY <1>3 DEF QuotaInv, ChargedInTime
<1>6. ChargedWithin'
    BY <1>1, <1>3, ChargedLess
<1>7. FuturesAreHeld'
  <2> SUFFICES ASSUME NEW s \in Requests
               PROVE  /\ ask'[s].pc \notin {"idle", "done"} => ask'[s].token
                      /\ ask'[s].pc = "idle" => reservation'[s] = NoDay /\ usage'[s].reserved = NoDay
                      /\ reservation'[s] # NoDay =>
                            \/ ask'[s].pc \notin {"idle", "done"} /\ ask'[s].armed
                            \/ ask'[s].pc = "done" /\ quotaFaults' > 0
      BY DEF FuturesAreHeld
  <2>1. CASE s = r
      BY <1>1, <2>1
  <2>2. CASE s # r
      BY <1>1, <1>3, <2>2 DEF QuotaInv, FuturesAreHeld
  <2> QED BY <2>1, <2>2
<1>8. dbClosed' => quotaClosing' /\ \A s \in Requests : ~ask'[s].token
  <2> SUFFICES ASSUME dbClosed PROVE quotaClosing' /\ \A s \in Requests : ~ask'[s].token
      OBVIOUS
  <2>1. quotaClosing /\ \A s \in Requests : ~ask[s].token
      BY DEF QuotaInv
  <2> QED BY <1>1, <2>1
<1> QED BY <1>4, <1>5, <1>6, <1>7, <1>8 DEF QuotaInv

\* What a running request has.
LEMMA RunningHolds ==
    ASSUME QuotaInv, NEW r \in Requests, ask[r].pc \notin {"idle", "done"}
    PROVE  /\ ask[r].token
           /\ reservation[r] # NoDay => ask[r].armed
           /\ ask \in [Requests -> AskRow] /\ ask[r].pc \in AskStep /\ path \in 0 .. MaxRoutes /\ quotaFaults \in Nat
<1>1. ask[r].pc \in AskStep
    BY SMT DEF QuotaInv, QuotaTyped, AskRow
<1> QED BY <1>1 DEF QuotaInv, QuotaTyped, FuturesAreHeld

\* A request that goes on with its guard and its token as they were.
LEMMA RequestGoes ==
    ASSUME QuotaInv, NEW r \in Requests, ask[r].pc \notin {"idle", "done"},
           NEW pc \in AskStep \ {"idle", "done"}, Became(r, pc, ask[r].armed, ask[r].token),
           UNCHANGED <<reservation, usage, stored, quotaEnv>>
    PROVE  QuotaInv'
<1>1. UNCHANGED <<path, today, quotaClosing, dbClosed, quotaFaults>> /\ quotaFaults' \in Nat
    BY RunningHolds DEF quotaEnv
<1> QED BY <1>1, RunningHolds, RequestMoves

LEMMA Results == "error" \in {"error", "cached", "ok"} /\ "cached" \in {"error", "cached", "ok"} /\ "ok" \in {"error", "cached", "ok"}
<1> QED OBVIOUS

\* A request before its answer goes on or is refused.
LEMMA AskingKeeps ==
    ASSUME QuotaInv, NEW r \in Requests,
           ReadRoutes(r) \/ Lookup(r) \/ Fetch(r) \/ Generate(r) \/ Interrupt(r)
    PROVE  QuotaInv'
<1>1. ask[r].pc \notin {"idle", "done"} /\ UNCHANGED <<reservation, usage, stored, quotaEnv>>
    BY DEF ReadRoutes, Lookup, Fetch, Generate, Interrupt, Running
<1>2. ASSUME ask' = Refuse(r) PROVE QuotaInv'
  <2>1. "release" \in AskStep \ {"idle", "done"}
      BY DEF AskStep
  <2>2. Became(r, "release", ask[r].armed, ask[r].token)
      BY <1>1, <1>2, <2>1, RunningHolds, AskResults, Results DEF Refuse
  <2> QED BY <1>1, <2>1, <2>2, RequestGoes
<1>3. ASSUME NEW pc \in AskStep \ {"idle", "done"},
             \/ ask' = Go(r, pc) \/ ask' = [Go(r, pc) EXCEPT ![r].path = path]
             \/ ask' = [Go(r, pc) EXCEPT ![r].result = "cached"]
      PROVE  QuotaInv'
  <2>1. Became(r, pc, ask[r].armed, ask[r].token)
      BY <1>1, <1>3, RunningHolds, AskGoes, AskReads, AskResults, Results
  <2> QED BY <1>1, <2>1, RequestGoes
<1>4. \/ ask' = Refuse(r)
      \/ \E pc \in AskStep \ {"idle", "done"} :
            \/ ask' = Go(r, pc) \/ ask' = [Go(r, pc) EXCEPT ![r].path = path]
            \/ ask' = [Go(r, pc) EXCEPT ![r].result = "cached"]
  <2>1. {"reserve", "lookup", "fetch", "generate", "check", "release"} \subseteq AskStep \ {"idle", "done"}
      BY DEF AskStep
  <2>2. CASE ReadRoutes(r)
      BY <2>1, <2>2 DEF ReadRoutes
  <2>3. CASE Lookup(r)
      BY <2>1, <2>3, Zenon DEF Lookup
  <2>4. CASE Fetch(r) \/ Generate(r) \/ Interrupt(r)
      BY <2>1, <2>4 DEF Fetch, Generate, Interrupt
  <2> QED BY <2>2, <2>3, <2>4
<1> QED BY <1>2, <1>3, <1>4

\* A request ends: its row is deleted, or a fault or its guard is left with it.
LEMMA EndingKeeps ==
    ASSUME QuotaInv, NEW r \in Requests, Release(r) \/ DropOwner(r) \/ Cleanup(r)
    PROVE  QuotaInv'
<1> USE QuotaAssumption
<1>1. /\ ask[r].pc \notin {"idle", "done"}
      /\ UNCHANGED <<usage, path, today, quotaClosing, dbClosed, stored>>
    BY DEF Release, DropOwner, Cleanup, Running, quotaEnv
<1>2. /\ ask[r].token /\ ~dbClosed /\ ask \in [Requests -> AskRow]
      /\ reservation[r] # NoDay => ask[r].armed
      /\ quotaFaults \in Nat /\ "done" \in AskStep \ {"idle"}
  <2>1. dbClosed => ~ask[r].token
      BY DEF QuotaInv
  <2> QED BY <1>1, <2>1, RunningHolds DEF AskStep
<1>3. reservation \in [Requests -> MaybeDay]
    BY DEF QuotaInv, QuotaTyped
<1>4. ASSUME ask' = Over(r), quotaFaults' \in Nat, quotaFaults > 0 => quotaFaults' > 0,
             \/ reservation' = Deleted(r)
             \/ reservation' = reservation /\ (reservation[r] # NoDay => quotaFaults' > 0)
      PROVE  QuotaInv'
  <2>1. Became(r, "done", ask[r].armed, FALSE)
      BY <1>2, <1>4, AskEnds
  <2>2. reservation'[r] # NoDay => quotaFaults' > 0
      BY <1>3, <1>4 DEF Deleted
  <2> QED BY <1>1, <1>2, <1>4, <2>1, <2>2, RequestMoves
<1>5. ASSUME ask' = Go(r, "cleanup"), UNCHANGED reservation, quotaFaults' \in Nat, quotaFaults > 0 => quotaFaults' > 0
      PROVE  QuotaInv'
  <2>1. "cleanup" \in AskStep /\ "cleanup" \in AskStep \ {"idle"}
      BY DEF AskStep
  <2>2. Became(r, "cleanup", ask[r].armed, ask[r].token)
      BY <1>2, <1>5, <2>1, AskGoes
  <2> QED BY <1>1, <1>2, <1>5, <2>1, <2>2, RequestMoves
<1>6. /\ quotaFaults + 1 \in Nat /\ quotaFaults + 1 > 0
      /\ quotaFaults > 0 => quotaFaults + 1 > 0
    BY <1>2, SMT
<1>7. CASE Release(r)
  <2>1. CASE ~ask[r].armed /\ ask' = Over(r) /\ UNCHANGED <<reservation, quotaFaults>>
      BY <1>2, <1>4, <2>1
  <2>2. CASE ask' = Over(r) /\ reservation' = Deleted(r) /\ UNCHANGED quotaFaults
      BY <1>2, <1>4, <2>2
  <2>3. CASE ask[r].armed /\ quotaFaults' = quotaFaults + 1 /\ ask' = Dropped(r) /\ UNCHANGED reservation
      BY <1>5, <1>6, <2>3 DEF Dropped, Go
  <2> QED BY <1>7, <2>1, <2>2, <2>3 DEF Release
<1>8. CASE DropOwner(r)
  <2>1. ask' = Dropped(r) /\ UNCHANGED <<reservation, quotaFaults>>
      BY <1>8 DEF DropOwner, quotaEnv
  <2> QED BY <1>2, <1>4, <1>5, <2>1 DEF Dropped, Go
<1>9. CASE Cleanup(r)
  <2>1. CASE reservation' = Deleted(r) /\ UNCHANGED quotaFaults
      BY <1>2, <1>4, <1>9, <2>1 DEF Cleanup
  <2>2. CASE UNCHANGED reservation /\ quotaFaults' = quotaFaults + 1
      BY <1>4, <1>6, <1>9, <2>2 DEF Cleanup
  <2> QED BY <1>2, <1>9, <2>1, <2>2 DEF Cleanup
<1> QED BY <1>7, <1>8, <1>9

\* The statement counts everything that is charged to today.
LEMMA SpentCovers ==
    ASSUME QuotaInv, NEW feature \in Features
    PROVE  /\ Cardinality(Charged(feature, today)) <= Spent(feature)
           /\ Cardinality(Charged(feature, today)) \in Nat /\ Spent(feature) \in Nat
<1> USE QuotaAssumption
<1> DEFINE Logged == {r \in Requests : usage[r].day = today /\ Counts(feature, r)}
           ReservedBy == {r \in Requests : reservation[r] = today /\ Counts(feature, r)}
<1>1. \A r \in Requests : usage[r].reserved = today => usage[r].day = today
  <2> SUFFICES ASSUME NEW r \in Requests, usage[r].reserved = today PROVE usage[r].day = today
      OBVIOUS
  <2>1. usage[r].day \in MaybeDay /\ today \in Days
      BY SMT DEF QuotaInv, QuotaTyped, UsageRow
  <2>2. today # NoDay
      BY <2>1, SMT DEF Days, NoDay
  <2>3. today <= usage[r].day /\ usage[r].day <= today
      BY <2>2 DEF QuotaInv, ChargedInTime
  <2> QED BY <2>1, <2>3, SMT DEF MaybeDay, Days, NoDay
<1>2. Charged(feature, today) \subseteq Logged \cup ReservedBy
    BY <1>1 DEF Charged, Counts, Features
<1>3. IsFiniteSet(Logged) /\ IsFiniteSet(ReservedBy)
    BY FS_Subset
<1>4. /\ IsFiniteSet(Logged \cup ReservedBy)
      /\ Cardinality(Logged \cup ReservedBy) = Cardinality(Logged) + Cardinality(ReservedBy) - Cardinality(Logged \cap ReservedBy)
      /\ IsFiniteSet(Logged \cap ReservedBy)
    BY <1>3, FS_Union, FS_Subset
<1>5. /\ Cardinality(Logged) \in Nat /\ Cardinality(ReservedBy) \in Nat /\ Cardinality(Logged \cap ReservedBy) \in Nat
      /\ Cardinality(Logged \cup ReservedBy) \in Nat
    BY <1>3, <1>4, FS_CardinalityType
<1>6. Cardinality(Charged(feature, today)) <= Cardinality(Logged \cup ReservedBy)
    BY <1>2, <1>4, FS_Subset
<1>7. Cardinality(Charged(feature, today)) \in Nat
    BY <1>2, <1>4, FS_Subset, FS_CardinalityType
<1>8. Spent(feature) = Cardinality(Logged) + Cardinality(ReservedBy)
    BY DEF Spent
<1> QED BY <1>4, <1>5, <1>6, <1>7, <1>8, SMT

\* One request more is charged to a day whose limit was not reached.
LEMMA ChargedMore ==
    ASSUME QuotaInv, NEW r \in Requests, UNCHANGED <<usage, today>>,
           \A s \in Requests : ask'[s].feature = ask[s].feature,
           reservation' = [reservation EXCEPT ![r] = today],
           Limit(ask[r].feature) > 0 => Spent(ask[r].feature) < Limit(ask[r].feature)
    PROVE  ChargedWithin'
<1> USE QuotaAssumption
<1>1. reservation \in [Requests -> MaybeDay] /\ today \in Days /\ ask[r].feature \in Features
    BY SMT DEF QuotaInv, QuotaTyped, AskRow
<1>2. reservation'[r] = today /\ \A s \in Requests \ {r} : reservation'[s] = reservation[s]
    BY <1>1
<1> SUFFICES ASSUME NEW feature \in Features, NEW day \in Days, Limit(feature) > 0
             PROVE  Cardinality(Charged(feature, day)') <= Limit(feature)
    BY DEF ChargedWithin, Limit
<1>3. IsFiniteSet(Charged(feature, day)) /\ Cardinality(Charged(feature, day)) \in Nat
    BY FS_Subset, FS_CardinalityType DEF Charged
<1>4. Cardinality(Charged(feature, day)) <= Limit(feature)
    BY DEF QuotaInv, ChargedWithin
<1>5. Limit(feature) \in Nat
    BY DEF Limit
<1>6. CASE feature = ask[r].feature /\ day = today
  <2>1. Charged(feature, day)' \subseteq Charged(feature, day) \cup {r}
      BY <1>2 DEF Charged
  <2>2. IsFiniteSet(Charged(feature, day) \cup {r}) /\ Cardinality(Charged(feature, day) \cup {r}) \in Nat
      BY <1>3, FS_AddElement, FS_CardinalityType
  <2>3. Cardinality(Charged(feature, day)') <= Cardinality(Charged(feature, day) \cup {r})
      BY <2>1, <2>2, FS_Subset
  <2>4. Cardinality(Charged(feature, day)') \in Nat
      BY <2>1, <2>2, FS_Subset, FS_CardinalityType
  <2>5. Cardinality(Charged(feature, day) \cup {r}) <= Cardinality(Charged(feature, day)) + 1
    <3>1. Cardinality(Charged(feature, day) \cup {r}) \in {Cardinality(Charged(feature, day)), Cardinality(Charged(feature, day)) + 1}
        BY <1>3, FS_AddElement
    <3> QED BY <1>3, <3>1, SMT
  <2>6. /\ Cardinality(Charged(feature, day)) <= Spent(feature) /\ Spent(feature) \in Nat
        /\ Spent(feature) < Limit(feature)
      BY <1>1, <1>6, SpentCovers
  <2> QED BY <1>3, <1>5, <2>2, <2>3, <2>4, <2>5, <2>6, SMT
<1>7. CASE ~(feature = ask[r].feature /\ day = today)
  <2>1. Charged(feature, day)' \subseteq Charged(feature, day)
      BY <1>2, <1>7 DEF Charged
  <2>2. Cardinality(Charged(feature, day)') <= Cardinality(Charged(feature, day))
      BY <1>3, <2>1, FS_Subset
  <2>3. Cardinality(Charged(feature, day)') \in Nat
      BY <1>3, <2>1, FS_Subset, FS_CardinalityType
  <2> QED BY <1>3, <1>4, <1>5, <2>2, <2>3, SMT
<1> QED BY <1>6, <1>7

\* A request reserves within the limit of the day, or is refused.
LEMMA ReserveKeeps == ASSUME QuotaInv, NEW r \in Requests, Reserve(r) PROVE QuotaInv'
<1> USE QuotaAssumption
<1>1. ask[r].pc \notin {"idle", "done"} /\ UNCHANGED <<usage, stored, quotaEnv>>
    BY DEF Reserve
<1>2. /\ ask[r].token /\ ask \in [Requests -> AskRow] /\ reservation \in [Requests -> MaybeDay]
      /\ UNCHANGED <<path, today, quotaClosing, dbClosed, quotaFaults>>
    BY <1>1, RunningHolds DEF QuotaInv, QuotaTyped, quotaEnv
<1>3. CASE ask' = Refuse(r) /\ UNCHANGED reservation
  <2>1. "release" \in AskStep \ {"idle", "done"}
      BY DEF AskStep
  <2>2. Became(r, "release", ask[r].armed, ask[r].token)
      BY <1>2, <1>3, <2>1, AskResults, Results DEF Refuse
  <2> QED BY <1>1, <1>3, <2>1, <2>2, RequestGoes
<1>4. ASSUME NEW pc \in {"lookup", "generate"}, ask' = [Go(r, pc) EXCEPT ![r].armed = TRUE],
             reservation' = [reservation EXCEPT ![r] = today],
             Limit(ask[r].feature) > 0 => ~(Spent(ask[r].feature) >= Limit(ask[r].feature))
      PROVE  QuotaInv'
  <2> DEFINE b == TRUE
  <2>1. pc \in AskStep /\ b \in BOOLEAN /\ b /\ ask' = [Go(r, pc) EXCEPT ![r].armed = b]
      BY <1>4 DEF AskStep
  <2> HIDE DEF b
  <2>2. Became(r, pc, b, ask[r].token)
      BY <1>2, <2>1, AskArms, Results
  <2>3. /\ ask' \in [Requests -> AskRow]
        /\ ask'[r].pc = pc
        /\ ask'[r].armed <=> b
        /\ ask'[r].token <=> ask[r].token
        /\ \A s \in Requests : ask'[s].feature = ask[s].feature
        /\ \A s \in Requests \ {r} : ask'[s] = ask[s]
      BY <2>1, <2>2, AskMoves
  <2>4. today \in Days /\ today \in MaybeDay
      BY DEF QuotaInv, QuotaTyped, MaybeDay
  <2>5. /\ reservation' \in [Requests -> MaybeDay] /\ reservation'[r] = today
        /\ \A s \in Requests \ {r} : reservation'[s] = reservation[s]
      BY <1>2, <1>4, <2>4
  <2>6. QuotaTyped'
      BY <1>1, <1>2, <2>3, <2>5 DEF QuotaInv, QuotaTyped
  <2>7. ChargedInTime'
    <3>1. today <= today
        BY <2>4, SMT DEF Days
    <3> QED BY <1>1, <1>2, <2>5, <3>1 DEF QuotaInv, ChargedInTime
  <2>8. Limit(ask[r].feature) > 0 => Spent(ask[r].feature) < Limit(ask[r].feature)
    <3>1. ask[r].feature \in Features
        BY SMT DEF QuotaInv, QuotaTyped, AskRow
    <3>2. Spent(ask[r].feature) \in Nat /\ Limit(ask[r].feature) \in Nat
        BY <3>1, SpentCovers DEF Limit
    <3> QED BY <1>4, <3>2, SMT
  <2>9. ChargedWithin'
      BY <1>1, <1>2, <1>4, <2>3, <2>8, ChargedMore
  <2>10. FuturesAreHeld'
    <3> SUFFICES ASSUME NEW s \in Requests
                 PROVE  /\ ask'[s].pc \notin {"idle", "done"} => ask'[s].token
                        /\ ask'[s].pc = "idle" => reservation'[s] = NoDay /\ usage'[s].reserved = NoDay
                        /\ reservation'[s] # NoDay =>
                              \/ ask'[s].pc \notin {"idle", "done"} /\ ask'[s].armed
                              \/ ask'[s].pc = "done" /\ quotaFaults' > 0
        BY DEF FuturesAreHeld
    <3>1. CASE s = r
        BY <1>2, <1>4, <2>1, <2>3, <3>1
    <3>2. CASE s # r
        BY <1>1, <1>2, <2>3, <2>5, <3>2 DEF QuotaInv, FuturesAreHeld
    <3> QED BY <3>1, <3>2
  <2>11. dbClosed' => quotaClosing' /\ \A s \in Requests : ~ask'[s].token
      BY <1>2 DEF QuotaInv
  <2> QED BY <2>6, <2>7, <2>9, <2>10, <2>11 DEF QuotaInv
<1>5. \/ ask' = Refuse(r) /\ UNCHANGED reservation
      \/ \E pc \in {"lookup", "generate"} :
            /\ ask' = [Go(r, pc) EXCEPT ![r].armed = TRUE]
            /\ reservation' = [reservation EXCEPT ![r] = today]
            /\ Limit(ask[r].feature) > 0 => ~(Spent(ask[r].feature) >= Limit(ask[r].feature))
    BY DEF Reserve
<1> QED BY <1>3, <1>4, <1>5

\* An answer is logged with the day it was reserved on.
LEMMA CommitKeeps == ASSUME QuotaInv, NEW r \in Requests, Commit(r) PROVE QuotaInv'
<1> USE QuotaAssumption
<1>1. ask[r].pc \notin {"idle", "done"} /\ UNCHANGED quotaEnv
    BY DEF Commit
<1>2. /\ ask[r].token /\ ask \in [Requests -> AskRow] /\ reservation \in [Requests -> MaybeDay]
      /\ usage \in [Requests -> UsageRow] /\ today \in Days /\ path \in 0 .. MaxRoutes /\ stored \subseteq 0 .. MaxRoutes
      /\ UNCHANGED <<path, today, quotaClosing, dbClosed, quotaFaults>>
    BY <1>1, RunningHolds DEF QuotaInv, QuotaTyped, quotaEnv
<1>3. CASE ask' = Refuse(r) /\ UNCHANGED <<usage, reservation, stored>>
  <2>1. "release" \in AskStep \ {"idle", "done"}
      BY DEF AskStep
  <2>2. Became(r, "release", ask[r].armed, ask[r].token)
      BY <1>2, <1>3, <2>1, AskResults, Results DEF Refuse
  <2> QED BY <1>1, <1>3, <2>1, <2>2, RequestGoes
<1>4. CASE /\ ask' = [Go(r, "release") EXCEPT ![r].armed = FALSE, ![r].result = "ok"]
           /\ usage' = [usage EXCEPT ![r] = [day |-> today, reserved |-> reservation[r]]]
           /\ reservation' = [reservation EXCEPT ![r] = NoDay]
           /\ stored' = stored \cup {path}
  <2> DEFINE b == FALSE
  <2>1. "release" \in AskStep /\ b \in BOOLEAN /\ ask' = [Go(r, "release") EXCEPT ![r].armed = b, ![r].result = "ok"]
      BY <1>4 DEF AskStep
  <2> HIDE DEF b
  <2>2. Became(r, "release", b, ask[r].token)
      BY <1>2, <2>1, AskArms, Results
  <2>3. /\ ask' \in [Requests -> AskRow]
        /\ ask'[r].pc = "release"
        /\ ask'[r].armed <=> b
        /\ ask'[r].token <=> ask[r].token
        /\ \A s \in Requests : ask'[s].feature = ask[s].feature
        /\ \A s \in Requests \ {r} : ask'[s] = ask[s]
      BY <2>1, <2>2, AskMoves
  <2>4. NoDay \in MaybeDay /\ today \in MaybeDay /\ today # NoDay /\ today <= today
      BY <1>2, SMT DEF MaybeDay, Days, NoDay
  <2>5. /\ reservation' \in [Requests -> MaybeDay] /\ reservation'[r] = NoDay
        /\ \A s \in Requests \ {r} : reservation'[s] = reservation[s]
      BY <1>2, <1>4, <2>4
  <2>6. [day |-> today, reserved |-> reservation[r]] \in UsageRow
      BY <1>2, <2>4 DEF UsageRow
  <2>7. /\ usage' \in [Requests -> UsageRow] /\ usage'[r].day = today /\ usage'[r].reserved = reservation[r]
        /\ \A s \in Requests \ {r} : usage'[s] = usage[s]
      BY <1>2, <1>4, <2>6
  <2>8. QuotaTyped'
      BY <1>2, <1>4, <2>3, <2>5, <2>7 DEF QuotaInv, QuotaTyped
  <2>9. ChargedInTime'
      BY <1>2, <2>4, <2>5, <2>7 DEF QuotaInv, ChargedInTime
  <2>10. ChargedWithin'
      BY <2>3, <2>5, <2>7, ChargedLess
  <2>11. FuturesAreHeld'
    <3> SUFFICES ASSUME NEW s \in Requests
                 PROVE  /\ ask'[s].pc \notin {"idle", "done"} => ask'[s].token
                        /\ ask'[s].pc = "idle" => reservation'[s] = NoDay /\ usage'[s].reserved = NoDay
                        /\ reservation'[s] # NoDay =>
                              \/ ask'[s].pc \notin {"idle", "done"} /\ ask'[s].armed
                              \/ ask'[s].pc = "done" /\ quotaFaults' > 0
        BY DEF FuturesAreHeld
    <3>1. CASE s = r
        BY <1>2, <2>3, <2>5, <3>1
    <3>2. CASE s # r
        BY <1>2, <2>3, <2>5, <2>7, <3>2 DEF QuotaInv, FuturesAreHeld
    <3> QED BY <3>1, <3>2
  <2>12. dbClosed' => quotaClosing' /\ \A s \in Requests : ~ask'[s].token
      BY <1>2 DEF QuotaInv
  <2> QED BY <2>8, <2>9, <2>10, <2>11, <2>12 DEF QuotaInv
<1> QED BY <1>3, <1>4 DEF Commit

\* A request is admitted with its token while admission is open.
LEMMA AdmitKeeps ==
    ASSUME QuotaInv, NEW r \in Requests, NEW feature \in Features, Admit(r, feature)
    PROVE  QuotaInv'
<1> USE QuotaAssumption
<1>1. UNCHANGED <<reservation, usage, stored, path, today, quotaClosing, dbClosed, quotaFaults>> /\ ~quotaClosing
    BY DEF Admit, quotaEnv
<1>2. PICK q : q = [NoAsk EXCEPT !.pc = "read", !.feature = feature, !.token = TRUE]
    OBVIOUS
<1>3. q = [pc |-> "read", feature |-> feature, path |-> 0, armed |-> FALSE, token |-> TRUE, result |-> "none"]
    BY <1>2 DEF NoAsk
<1>4. q \in AskRow /\ q.pc = "read" /\ q.feature = feature
  <2>1. 0 \in 0 .. MaxRoutes
      BY SMT
  <2> QED BY <1>3, <2>1 DEF AskRow, AskStep
<1>5. q.token
    BY <1>3
<1>6. ask' = [ask EXCEPT ![r] = q] /\ ask[r].pc = "idle"
    BY <1>2 DEF Admit
<1>7. /\ ask' \in [Requests -> AskRow] /\ ask'[r] = q
      /\ \A s \in Requests \ {r} : ask'[s] = ask[s]
    BY <1>4, <1>6 DEF QuotaInv, QuotaTyped
<1>8. reservation[r] = NoDay /\ usage[r].reserved = NoDay
    BY <1>6 DEF QuotaInv, FuturesAreHeld
<1>9. QuotaTyped' /\ ChargedInTime'
    BY <1>1, <1>7 DEF QuotaInv, QuotaTyped, ChargedInTime
<1>10. ChargedWithin'
    BY <1>1, <1>7, <1>8, ChargedLess
<1>11. FuturesAreHeld'
  <2> SUFFICES ASSUME NEW s \in Requests
               PROVE  /\ ask'[s].pc \notin {"idle", "done"} => ask'[s].token
                      /\ ask'[s].pc = "idle" => reservation'[s] = NoDay /\ usage'[s].reserved = NoDay
                      /\ reservation'[s] # NoDay =>
                            \/ ask'[s].pc \notin {"idle", "done"} /\ ask'[s].armed
                            \/ ask'[s].pc = "done" /\ quotaFaults' > 0
      BY DEF FuturesAreHeld
  <2>1. CASE s = r
      BY <1>1, <1>4, <1>5, <1>7, <1>8, <2>1
  <2>2. CASE s # r
      BY <1>1, <1>7, <2>2 DEF QuotaInv, FuturesAreHeld
  <2> QED BY <2>1, <2>2
<1> QED BY <1>1, <1>9, <1>10, <1>11 DEF QuotaInv

\* Requests stay; the surroundings move on.
LEMMA SurroundingsKeep ==
    ASSUME QuotaInv,
           \/ ChangeGrant \/ ChangeRoute \/ Midnight \/ CloseQuota \/ PassFence
           \/ UNCHANGED quotaVars \/ \E r \in Requests : ExpireReservation(r)
    PROVE  QuotaInv'
<1> USE QuotaAssumption
<1>1. UNCHANGED <<ask, usage, stored, quotaFaults>>
    BY DEF ChangeGrant, ChangeRoute, Midnight, CloseQuota, PassFence, quotaVars, ExpireReservation, quotaEnv
<1>2. reservation \in [Requests -> MaybeDay] /\ NoDay \in MaybeDay /\ today \in Days /\ path \in 0 .. MaxRoutes
    BY DEF QuotaInv, QuotaTyped, MaybeDay
<1>3. /\ reservation' \in [Requests -> MaybeDay]
      /\ \A s \in Requests : reservation'[s] \in {reservation[s], NoDay}
    BY <1>2 DEF ChangeGrant, ChangeRoute, Midnight, CloseQuota, PassFence, quotaVars, ExpireReservation, Deleted
<1>4. today' \in Days /\ today <= today'
    BY <1>2, SMT DEF ChangeGrant, ChangeRoute, Midnight, CloseQuota, PassFence, quotaVars, ExpireReservation,
                     quotaEnv, Days
<1>5. path' \in 0 .. MaxRoutes
    BY <1>2, SMT DEF ChangeGrant, ChangeRoute, Midnight, CloseQuota, PassFence, quotaVars, ExpireReservation, quotaEnv
<1>6. dbClosed' => quotaClosing' /\ \A r \in Requests : ~ask[r].token
    BY Zenon DEF QuotaInv, ChangeGrant, ChangeRoute, Midnight, CloseQuota, PassFence, quotaVars, ExpireReservation, quotaEnv
<1>7. quotaClosing' \in BOOLEAN /\ dbClosed' \in BOOLEAN
    BY DEF QuotaInv, QuotaTyped, ChangeGrant, ChangeRoute, Midnight, CloseQuota, PassFence, quotaVars, ExpireReservation, quotaEnv
<1>8. QuotaTyped'
    BY <1>1, <1>3, <1>4, <1>5, <1>7 DEF QuotaInv, QuotaTyped
<1>9. ChargedInTime'
  <2> SUFFICES ASSUME NEW r \in Requests
               PROVE  /\ reservation'[r] # NoDay => reservation'[r] <= today'
                      /\ usage'[r].reserved # NoDay =>
                            usage'[r].day # NoDay /\ usage'[r].reserved <= usage'[r].day /\ usage'[r].day <= today'
      BY DEF ChargedInTime
  <2>1. /\ reservation[r] \in Nat /\ usage[r].reserved \in Nat /\ usage[r].day \in Nat
        /\ today \in Nat /\ today' \in Nat
      BY <1>2, <1>4, SMT DEF QuotaInv, QuotaTyped, UsageRow, MaybeDay, Days, NoDay
  <2>2. /\ reservation[r] # NoDay => reservation[r] <= today
        /\ usage[r].reserved # NoDay =>
              usage[r].day # NoDay /\ usage[r].reserved <= usage[r].day /\ usage[r].day <= today
      BY DEF QuotaInv, ChargedInTime
  <2>3. reservation'[r] # NoDay => reservation'[r] <= today'
      BY <1>3, <1>4, <2>1, <2>2, SMT
  <2>4. usage'[r] = usage[r]
      BY <1>1
  <2> QED BY <1>4, <2>1, <2>2, <2>3, <2>4, SMT
<1>10. ChargedWithin'
  <2>1. ask' \in [Requests -> AskRow]
      BY <1>1 DEF QuotaInv, QuotaTyped
  <2> QED BY <1>1, <1>3, <2>1, ChargedLess
<1>11. FuturesAreHeld'
    BY <1>1, <1>3 DEF QuotaInv, FuturesAreHeld
<1> QED BY <1>1, <1>6, <1>8, <1>9, <1>10, <1>11 DEF QuotaInv

\* The next process starts with the rows and without the futures.
LEMMA CrashKeeps == ASSUME QuotaInv, CrashOrRestart PROVE QuotaInv'
<1> USE QuotaAssumption
<1>1. /\ UNCHANGED <<reservation, usage, stored, path, today>>
      /\ ~dbClosed' /\ quotaClosing' \in BOOLEAN /\ dbClosed' \in BOOLEAN
    BY DEF CrashOrRestart
<1>2. ask \in [Requests -> AskRow] /\ quotaFaults \in Nat
    BY DEF QuotaInv, QuotaTyped
<1>3. CASE UNCHANGED <<ask, quotaFaults>>
  <2>1. QuotaTyped' /\ ChargedInTime' /\ ChargedWithin' /\ FuturesAreHeld'
      BY <1>1, <1>3 DEF QuotaInv, QuotaTyped, ChargedInTime, ChargedWithin, Charged, Limit, FuturesAreHeld
  <2> QED BY <1>1, <2>1 DEF QuotaInv
<1>4. CASE /\ quotaFaults' = quotaFaults + 1
           /\ ask' = [r \in Requests |-> IF r \in Running \/ ask[r].pc = "cleanup"
                                         THEN [ask[r] EXCEPT !.pc = "done", !.token = FALSE] ELSE ask[r]]
  <2>1. quotaFaults' \in Nat /\ quotaFaults' > 0
    <3>1. quotaFaults + 1 \in Nat /\ quotaFaults + 1 > 0
        BY <1>2, SMT
    <3> QED BY <1>4, <3>1
  <2>2. ASSUME NEW r \in Requests
        PROVE  /\ ask'[r] \in AskRow /\ ask'[r].feature = ask[r].feature
               /\ ask'[r].pc = IF ask[r].pc \in {"idle", "done"} THEN ask[r].pc ELSE "done"
    <3>1. ask'[r] = IF ask[r].pc \notin {"idle", "done"} THEN WithToken(WithPc(ask[r], "done"), FALSE) ELSE ask[r]
      <4>1. r \in Running \/ ask[r].pc = "cleanup" <=> ask[r].pc \notin {"idle", "done"}
          BY DEF Running
      <4> QED BY <1>4, <4>1 DEF WithToken, WithPc
    <3>2. PICK q : q = WithPc(ask[r], "done")
        OBVIOUS
    <3>3. Row(q, "done", ask[r].feature, ask[r].armed, ask[r].token)
      <4>1. "done" \in AskStep /\ ask[r] \in AskRow
          BY <1>2 DEF AskStep
      <4> QED BY <3>2, <4>1, PcWritten
    <3>4. PICK z : z = WithToken(q, FALSE)
        OBVIOUS
    <3>5. Row(z, q.pc, q.feature, q.armed, FALSE)
        BY <3>3, <3>4, TokenWritten DEF Row
    <3>6. z \in AskRow /\ z.feature = ask[r].feature /\ z.pc = "done"
        BY <3>3, <3>5 DEF Row
    <3> QED BY <1>2, <3>1, <3>2, <3>4, <3>6
  <2>3. ask' \in [Requests -> AskRow]
      BY <1>4, <2>2
  <2>4. QuotaTyped' /\ ChargedInTime'
      BY <1>1, <2>1, <2>3 DEF QuotaInv, QuotaTyped, ChargedInTime
  <2>5. ChargedWithin'
      BY <1>1, <2>2, <2>3, ChargedLess
  <2>6. FuturesAreHeld'
      BY <1>1, <2>1, <2>2 DEF QuotaInv, FuturesAreHeld
  <2> QED BY <1>1, <2>4, <2>5, <2>6 DEF QuotaInv
<1> QED BY <1>3, <1>4 DEF CrashOrRestart

LEMMA QuotaStarts == QuotaInit => QuotaInv
<1> USE QuotaAssumption
<1> SUFFICES ASSUME QuotaInit PROVE QuotaInv
    OBVIOUS
<1>1. NoDay \in MaybeDay /\ 0 \in Days /\ 0 \in 0 .. MaxRoutes
    BY SMT DEF MaybeDay, Days
<1>2. NoAsk \in AskRow /\ NoAsk.pc = "idle"
    BY <1>1 DEF NoAsk, AskRow, AskStep, Features
<1>3. NoUsage \in UsageRow /\ NoUsage.reserved = NoDay
    BY <1>1 DEF NoUsage, UsageRow
<1>4. QuotaTyped /\ ChargedInTime /\ FuturesAreHeld
    BY <1>1, <1>2, <1>3 DEF QuotaInit, QuotaTyped, ChargedInTime, FuturesAreHeld
<1>5. ChargedWithin
  <2> SUFFICES ASSUME NEW feature \in Features, NEW day \in Days, Limit(feature) > 0
               PROVE  Cardinality(Charged(feature, day)) <= Limit(feature)
      BY DEF ChargedWithin
  <2>1. day # NoDay
      BY SMT DEF Days, NoDay
  <2>2. Charged(feature, day) = {}
      BY <1>3, <2>1 DEF Charged, QuotaInit
  <2>3. Cardinality(Charged(feature, day)) = 0 /\ Limit(feature) \in Nat
      BY <2>2, FS_EmptySet DEF Limit
  <2> QED BY <2>3, SMT
<1> QED BY <1>4, <1>5 DEF QuotaInv, QuotaInit

LEMMA QuotaStep == QuotaInv /\ [QuotaNext]_quotaVars => QuotaInv'
<1> QED BY AdmitKeeps, AskingKeeps, ReserveKeeps, CommitKeeps, EndingKeeps, SurroundingsKeep, CrashKeeps DEF QuotaNext

\* The inductive invariant of the quota holds always.
THEOREM SpendingInvariance == QuotaSpec => []QuotaInv
<1> QED BY QuotaStarts, QuotaStep, PTL DEF QuotaSpec

\* The daily limits hold for what is reserved on a day, whatever requests run at once,
\* are dropped or fail, and when the fence lets the database be closed nothing uses
\* it and no reservation is leaked (reserve, commit, release, the guard's drop and
\* shutdown_quota_cleanup of service.rs).
THEOREM SpendingAlwaysAgreed == QuotaSpec => []SpendingIsAgreed
<1> USE QuotaAssumption
<1>1. QuotaInv => SpendingIsAgreed
  <2> SUFFICES ASSUME QuotaInv PROVE SpendingIsAgreed
      OBVIOUS
  <2>1. QuotaTypeOK
      BY SMT DEF QuotaInv, QuotaTyped, AskRow, MaybeDay, QuotaTypeOK
  <2>2. ASSUME NEW feature \in Features, NEW day \in Days, Limit(feature) > 0
        PROVE  Cardinality({r \in Requests : usage[r].reserved = day /\ ask[r].feature = feature}) <= Limit(feature)
    <3> DEFINE Answered == {r \in Requests : usage[r].reserved = day /\ ask[r].feature = feature}
    <3>1. Answered \subseteq Charged(feature, day)
        BY DEF Charged
    <3>2. IsFiniteSet(Charged(feature, day))
        BY FS_Subset DEF Charged
    <3>3. Cardinality(Answered) <= Cardinality(Charged(feature, day))
        BY <3>1, <3>2, FS_Subset
    <3>4. Cardinality(Charged(feature, day)) <= Limit(feature)
        BY <2>2 DEF QuotaInv, ChargedWithin
    <3>5. Cardinality(Answered) \in Nat /\ Cardinality(Charged(feature, day)) \in Nat /\ Limit(feature) \in Nat
        BY <3>1, <3>2, FS_Subset, FS_CardinalityType DEF Limit
    <3> QED BY <3>3, <3>4, <3>5, SMT
  <2>3. QuotaHolds
      BY <2>1, <2>2 DEF QuotaHolds
  <2>4. FenceHolds
    <3>1. dbClosed => \A r \in Requests : ask[r].pc \in {"idle", "done"}
        BY DEF QuotaInv, FuturesAreHeld
    <3>2. quotaFaults = 0 => \A r \in Requests : ask[r].pc = "done" => reservation[r] = NoDay
        BY DEF QuotaInv, FuturesAreHeld
    <3> QED BY <3>1, <3>2 DEF FenceHolds, Running
  <2> QED BY <2>3, <2>4 DEF SpendingIsAgreed
<1> QED BY <1>1, SpendingInvariance, PTL

-----------------------------------------------------------------------------
(* Ingestion of the statistics.  An older observation never undoes a newer one. *)

Reports == [kind : {"member", "message"}, presence : Nat, title : Nat, date : Nat]
Reading == [phase : {"idle", "started", "read", "done"}, kind : Kinds, started : Nat, floor : Nat,
            presence : Nat, title : Nat]

\* What Telegram reported: presence, name and date never go back.
WorldInv ==
    /\ second \in Nat \ {0} /\ presence \in Nat /\ title \in Nat
    /\ began \in Seq(Nat) /\ Len(began) = second
    /\ \A s \in 1..second : began[s] <= title
    /\ \A s, t \in 1..second : s <= t => began[s] <= began[t]
    /\ updates \in Seq(Reports)
    /\ \A k \in 1..Len(updates) :
           /\ updates[k].presence <= presence /\ updates[k].title <= title
           /\ updates[k].date \in 1..second /\ began[updates[k].date] <= updates[k].title
    /\ \A k, l \in 1..Len(updates) : k <= l =>
           /\ updates[k].presence <= updates[l].presence /\ updates[k].title <= updates[l].title
           /\ updates[k].date <= updates[l].date

PeopleTyped ==
    /\ taken \subseteq 1..Len(updates)
    /\ memberSeen \in Nat /\ memberSeen <= presence /\ nameSeen \in Nat /\ nameSeen <= title
    /\ marks \in [Kinds -> Nat] /\ floors \in [Kinds -> Nat] /\ subject \in [Kinds -> Nat]
    /\ counted \in [Kinds -> SUBSET (1..Len(updates))]
    /\ revision \in Nat /\ fence \in Nat /\ fence <= revision
    /\ \A kind \in Kinds : /\ marks[kind] <= Len(updates) /\ floors[kind] <= second /\ subject[kind] <= revision
                           /\ \A k \in counted[kind] : k <= marks[kind]
    /\ readers \in [Readers -> Reading]

\* A reader that finds a subject untouched read Telegram after everything that
\* is recorded of it.
ReadAfter(z) ==
    /\ z.started <= revision /\ z.floor <= second /\ z.presence <= presence /\ z.title <= title
    /\ z.phase \in {"started", "read"} =>
           0 < z.floor /\ (subject["name"] <= z.started => floors["name"] <= z.floor)
    /\ z.phase = "read" =>
           /\ began[z.floor] <= z.title
           /\ subject["member"] <= z.started => \A k \in counted["member"] : updates[k].presence <= z.presence
           /\ subject["name"] <= z.started => /\ nameSeen <= z.title
                                              /\ \A k \in counted["name"] : updates[k].title <= z.title

IngestionInv == WorldInv /\ PeopleTyped /\ ObservationsStand /\ \A r \in Readers : ReadAfter(readers[r])

LEMMA IngestionStart == IngestionAssumption /\ IngestionInit => IngestionInv
<1> SUFFICES ASSUME IngestionAssumption, IngestionInit PROVE IngestionInv
    OBVIOUS
<1>1. NotReading \in Reading /\ NotReading.phase = "idle" /\ NotReading.started = 0 /\ NotReading.floor = 0
      /\ NotReading.presence = 0 /\ NotReading.title = 0
  BY DEF NotReading, Reading, Kinds
<1>2. WorldInv
  BY DEF IngestionInit, WorldInv
<1>3. PeopleTyped
  BY <1>1 DEF IngestionInit, PeopleTyped, Kinds
<1>4. ObservationsStand
  BY DEF IngestionInit, ObservationsStand, Kinds
<1>5. ASSUME NEW r \in Readers PROVE ReadAfter(readers[r])
  BY <1>1 DEF IngestionInit, ReadAfter
<1> QED BY <1>2, <1>3, <1>4, <1>5 DEF IngestionInv

\* What the numbers are.
LEMMA IngestionNumbers ==
    ASSUME IngestionInv
    PROVE  /\ Len(updates) \in Nat /\ second \in Nat \ {0} /\ presence \in Nat /\ title \in Nat
           /\ \A k \in 1..Len(updates) : /\ updates[k] \in Reports /\ updates[k].presence \in Nat
                                         /\ updates[k].title \in Nat /\ updates[k].date \in 1..second
           /\ \A s \in 1..second : began[s] \in Nat
           /\ \A kind \in Kinds : /\ marks[kind] \in 0..Len(updates) /\ floors[kind] \in 0..second
                                  /\ subject[kind] \in 0..revision /\ counted[kind] \subseteq 1..Len(updates)
           /\ revision \in Nat /\ memberSeen \in Nat /\ nameSeen \in Nat
           /\ \A r \in Readers : readers[r] \in Reading
<1>1. Len(updates) \in Nat /\ \A k \in 1..Len(updates) : updates[k] \in Reports
  BY LenProperties, ElementOfSeq DEF IngestionInv, WorldInv
<1>2. \A s \in 1..second : began[s] \in Nat
  BY ElementOfSeq DEF IngestionInv, WorldInv
<1> QED BY <1>1, <1>2 DEF IngestionInv, WorldInv, PeopleTyped, Reports

----
\* Telegram moves on: what was reported stays.
Grows ==
    /\ \A k \in 1..Len(updates) : updates'[k] = updates[k]
    /\ Len(updates) <= Len(updates') /\ second <= second' /\ presence <= presence' /\ title <= title'
    /\ \A s \in 1..second : began'[s] = began[s]
    /\ UNCHANGED <<taken, people, readers>>

LEMMA WorldKeeps == ASSUME IngestionInv, WorldInv', Grows PROVE IngestionInv'
<1>1. Len(updates') \in Nat /\ second' \in Nat /\ presence' \in Nat /\ title' \in Nat
  BY LenProperties DEF WorldInv
<1>2. \A k \in 1..Len(updates) : k \in 1..Len(updates')
  BY <1>1, IngestionNumbers DEF Grows
<1>3. UNCHANGED <<taken, memberSeen, nameSeen, marks, floors, revision, subject, fence, counted, readers>>
  BY DEF Grows, people
<1>4. PeopleTyped'
  <2>1. \A kind \in Kinds : /\ marks[kind] <= Len(updates') /\ floors[kind] <= second'
                            /\ counted[kind] \subseteq 1..Len(updates')
    BY <1>1, <1>2, IngestionNumbers DEF Grows
  <2>2. counted \in [Kinds -> SUBSET (1..Len(updates'))] /\ taken \subseteq 1..Len(updates')
    BY <1>2, <2>1 DEF IngestionInv, PeopleTyped
  <2>3. memberSeen <= presence' /\ nameSeen <= title'
    BY <1>1, IngestionNumbers DEF IngestionInv, PeopleTyped, Grows
  <2> QED BY <1>3, <2>1, <2>2, <2>3 DEF IngestionInv, PeopleTyped
<1>5. ObservationsStand'
  <2>1. \A kind \in Kinds : \A k \in counted[kind] : updates'[k] = updates[k]
    BY IngestionNumbers DEF Grows
  <2>2. floors["name"] > 0 => began'[floors["name"]] = began[floors["name"]]
    BY IngestionNumbers DEF Grows, Kinds
  <2> QED BY <1>3, <2>1, <2>2 DEF IngestionInv, ObservationsStand, Kinds
<1>6. ASSUME NEW r \in Readers PROVE ReadAfter(readers[r])'
  <2>1. PICK z \in Reading : z = readers[r] /\ readers'[r] = z
    BY <1>3, IngestionNumbers
  <2>2. ReadAfter(z) /\ z.floor \in Nat /\ z.presence \in Nat /\ z.title \in Nat
    BY <2>1 DEF IngestionInv, Reading
  <2>3. z.floor <= second' /\ z.presence <= presence' /\ z.title <= title'
    BY <1>1, <2>2, IngestionNumbers DEF ReadAfter, Grows
  <2>4. \A kind \in Kinds : \A k \in counted[kind] : updates'[k] = updates[k]
    BY IngestionNumbers DEF Grows
  <2>5. z.phase = "read" => began'[z.floor] = began[z.floor]
    BY <2>2, IngestionNumbers DEF Grows, ReadAfter
  <2> QED BY <1>3, <2>1, <2>2, <2>3, <2>4, <2>5 DEF ReadAfter, Kinds
<1> QED BY <1>4, <1>5, <1>6 DEF IngestionInv

LEMMA ReportKeeps ==
    ASSUME IngestionInv, NEW kind \in {"member", "message"}, Report(kind), presence' \in {presence, presence + 1},
           UNCHANGED <<second, title, began, enabled, taken, people, readers>>
    PROVE  IngestionInv'
<1>1. PICK e : e = [kind |-> kind, presence |-> presence', title |-> title, date |-> second]
               /\ updates' = Append(updates, e)
  BY DEF Report
<1>2. presence' \in Nat /\ presence <= presence'
  BY IngestionNumbers
<1>3. e \in Reports /\ e.presence = presence' /\ e.title = title /\ e.date = second
  BY <1>1, <1>2, IngestionNumbers DEF Reports
<1>4. updates \in Seq(Reports)
  BY DEF IngestionInv, WorldInv
<1>5. /\ updates' \in Seq(Reports) /\ Len(updates') = Len(updates) + 1
      /\ \A k \in 1..Len(updates) : updates'[k] = updates[k]
      /\ updates'[Len(updates) + 1] = e
  BY <1>1, <1>3, <1>4, AppendProperties
<1>6. PICK n \in Nat : n = Len(updates)
  BY IngestionNumbers
<1>7. WorldInv'
  <2>1. \A k \in 1..Len(updates') : k \in 1..n \/ k = n + 1
    BY <1>5, <1>6
  <2>2. \A k \in 1..n : /\ updates[k].presence <= presence' /\ updates[k].title <= title
                        /\ updates[k].presence \in Nat /\ updates[k].title \in Nat /\ updates[k].date \in Nat
                        /\ updates[k].date <= second
    BY <1>2, <1>6, IngestionNumbers DEF IngestionInv, WorldInv
  <2>3. ASSUME NEW k \in 1..Len(updates')
        PROVE  /\ updates'[k].presence <= presence' /\ updates'[k].title <= title
               /\ updates'[k].date \in 1..second /\ began[updates'[k].date] <= updates'[k].title
    <3>1. CASE k \in 1..n
      BY <1>5, <1>6, <2>2, <3>1, IngestionNumbers DEF IngestionInv, WorldInv
    <3>2. CASE k = n + 1
      BY <1>2, <1>3, <1>5, <1>6, <3>2, IngestionNumbers DEF IngestionInv, WorldInv
    <3> QED BY <2>1, <3>1, <3>2
  <2>4. ASSUME NEW k \in 1..Len(updates'), NEW l \in 1..Len(updates'), k <= l
        PROVE  /\ updates'[k].presence <= updates'[l].presence /\ updates'[k].title <= updates'[l].title
               /\ updates'[k].date <= updates'[l].date
    <3>1. CASE l \in 1..n
      <4>1. k \in 1..n
        BY <1>5, <1>6, <2>4, <3>1
      <4> QED BY <1>5, <1>6, <2>4, <3>1, <4>1 DEF IngestionInv, WorldInv
    <3>2. CASE l = n + 1
      <4>1. CASE k \in 1..n
        BY <1>3, <1>5, <1>6, <2>2, <3>2, <4>1
      <4>2. CASE k = n + 1
        BY <1>2, <1>3, <1>5, <1>6, <3>2, <4>2, IngestionNumbers
      <4> QED BY <2>1, <4>1, <4>2
    <3> QED BY <2>1, <3>1, <3>2
  <2> QED BY <1>2, <1>5, <2>3, <2>4 DEF IngestionInv, WorldInv
<1>8. Grows
  BY <1>2, <1>5, IngestionNumbers DEF Grows
<1> QED BY <1>7, <1>8, WorldKeeps

LEMMA RenameUserKeeps == ASSUME IngestionInv, RenameUser PROVE IngestionInv'
<1>1. title' = title + 1 /\ UNCHANGED <<second, presence, began, updates, taken, people, readers>>
  BY DEF RenameUser
<1>2. title <= title' /\ title' \in Nat
  BY <1>1, IngestionNumbers
<1>3. (\A s \in 1..second : began[s] <= title') /\ \A k \in 1..Len(updates) : updates[k].title <= title'
  <2>1. ASSUME NEW s \in 1..second PROVE began[s] <= title'
    <3>1. began[s] \in Nat /\ began[s] <= title
      BY IngestionNumbers DEF IngestionInv, WorldInv
    <3> QED BY <1>1, <3>1, IngestionNumbers
  <2>2. ASSUME NEW k \in 1..Len(updates) PROVE updates[k].title <= title'
    <3>1. updates[k].title \in Nat /\ updates[k].title <= title
      BY IngestionNumbers DEF IngestionInv, WorldInv
    <3> QED BY <1>1, <3>1, IngestionNumbers
  <2> QED BY <2>1, <2>2
<1>4. WorldInv'
  BY <1>1, <1>2, <1>3 DEF IngestionInv, WorldInv
<1>5. Grows
  BY <1>1, <1>2, IngestionNumbers DEF Grows
<1> QED BY <1>4, <1>5, WorldKeeps

LEMMA SecondPassesKeeps == ASSUME IngestionInv, SecondPasses PROVE IngestionInv'
<1>1. /\ second' = second + 1 /\ began' = Append(began, title)
      /\ UNCHANGED <<presence, title, updates, taken, people, readers>>
  BY DEF SecondPasses
<1>2. began \in Seq(Nat) /\ Len(began) = second /\ title \in Nat
  BY DEF IngestionInv, WorldInv
<1>3. /\ began' \in Seq(Nat) /\ Len(began') = second + 1 /\ began'[second + 1] = title
      /\ \A s \in 1..second : began'[s] = began[s]
  BY <1>1, <1>2, AppendProperties
<1>4. PICK n \in Nat : n = second
  BY IngestionNumbers
<1>5. \A s \in 1..(n + 1) : s \in 1..n \/ s = n + 1
  BY <1>4
<1>6. WorldInv'
  <2>1. \A s \in 1..(n + 1) : began'[s] <= title
    BY <1>2, <1>3, <1>4, <1>5 DEF IngestionInv, WorldInv
  <2>2. ASSUME NEW s \in 1..(n + 1), NEW t \in 1..(n + 1), s <= t PROVE began'[s] <= began'[t]
    <3>1. CASE t \in 1..n
      <4>1. s \in 1..n
        BY <2>2, <3>1
      <4> QED BY <1>3, <1>4, <2>2, <3>1, <4>1 DEF IngestionInv, WorldInv
    <3>2. CASE t = n + 1
      BY <1>3, <1>4, <2>1, <3>2
    <3> QED BY <1>5, <3>1, <3>2
  <2>3. \A k \in 1..Len(updates) : updates[k].date \in 1..(n + 1) /\ began'[updates[k].date] = began[updates[k].date]
    BY <1>3, <1>4, IngestionNumbers
  <2> QED BY <1>1, <1>3, <1>4, <2>1, <2>2, <2>3 DEF IngestionInv, WorldInv
<1>7. Grows
  BY <1>1, <1>3, <1>4 DEF Grows, IngestionInv, WorldInv
<1> QED BY <1>6, <1>7, WorldKeeps

\* A reader moves and nothing else does.
LEMMA ReaderKeeps ==
    ASSUME IngestionInv, NEW r \in Readers, NEW z \in Reading, ReadAfter(z), readers' = [readers EXCEPT ![r] = z],
           UNCHANGED <<world, taken, people>>
    PROVE  IngestionInv'
<1>1. /\ UNCHANGED <<second, presence, title, began, updates, taken>>
      /\ UNCHANGED <<memberSeen, nameSeen, marks, floors, revision, subject, fence, counted>>
  BY DEF world, people
<1>2. WorldInv' /\ ObservationsStand'
  BY <1>1 DEF IngestionInv, WorldInv, ObservationsStand
<1>3. PeopleTyped'
  BY <1>1 DEF IngestionInv, PeopleTyped
<1>4. ASSUME NEW q \in Readers PROVE ReadAfter(readers[q])'
  <2>1. PICK y : readers'[q] = y /\ ReadAfter(y)
    BY DEF IngestionInv, PeopleTyped
  <2> QED BY <1>1, <2>1 DEF ReadAfter
<1> QED BY <1>2, <1>3, <1>4 DEF IngestionInv

LEMMA StartReadingKeeps ==
    ASSUME IngestionInv, NEW r \in Readers, NEW kind \in Kinds, StartReading(r, kind) PROVE IngestionInv'
<1>1. PICK z : /\ readers' = [readers EXCEPT ![r] = z]
               /\ z = [NotReading EXCEPT !.phase = "started", !.kind = kind, !.started = revision, !.floor = second]
  BY DEF StartReading
<1>2. z = [phase |-> "started", kind |-> kind, started |-> revision, floor |-> second, presence |-> 0, title |-> 0]
  BY <1>1 DEF NotReading
<1>3. z \in Reading
  BY <1>2, IngestionNumbers DEF Reading
<1>4. ReadAfter(z)
  BY <1>2, IngestionNumbers DEF ReadAfter, Kinds
<1> QED BY <1>1, <1>3, <1>4, ReaderKeeps DEF StartReading

LEMMA ReadTelegramKeeps == ASSUME IngestionInv, NEW r \in Readers, ReadTelegram(r) PROVE IngestionInv'
<1>1. PICK y, z : /\ y = readers[r] /\ z = [y EXCEPT !.phase = "read", !.presence = presence, !.title = title]
  OBVIOUS
<1>2. y \in Reading /\ y.phase = "started" /\ ReadAfter(y) /\ presence \in Nat /\ title \in Nat
  BY <1>1, IngestionNumbers DEF IngestionInv, ReadTelegram
<1>3. readers' = [readers EXCEPT ![r] = z]
  BY <1>1 DEF ReadTelegram, IngestionInv, PeopleTyped, Reading
<1>4. /\ z \in Reading /\ z.phase = "read" /\ z.started = y.started /\ z.floor = y.floor
      /\ z.presence = presence /\ z.title = title
  BY <1>1, <1>2 DEF Reading
<1>5. y.floor \in 1..second
  BY <1>2, IngestionNumbers DEF ReadAfter, Reading
<1>6. ReadAfter(z)
  <2>1. began[z.floor] <= z.title
    BY <1>4, <1>5 DEF IngestionInv, WorldInv
  <2>2. \A kind \in Kinds : \A k \in counted[kind] : updates[k].presence <= presence /\ updates[k].title <= title
    BY IngestionNumbers DEF IngestionInv, WorldInv
  <2>3. nameSeen <= title
    BY DEF IngestionInv, PeopleTyped
  <2> QED BY <1>2, <1>4, <2>1, <2>2, <2>3 DEF ReadAfter, Kinds
<1> QED BY <1>3, <1>4, <1>6, ReaderKeeps DEF ReadTelegram

LEMMA ReadingFailsKeeps == ASSUME IngestionInv, NEW r \in Readers, ReadingFails(r) PROVE IngestionInv'
<1>1. NotReading \in Reading
  BY DEF NotReading, Reading, Kinds
<1>2. ReadAfter(NotReading)
  BY IngestionNumbers DEF NotReading, ReadAfter
<1> QED BY <1>1, <1>2, ReaderKeeps DEF ReadingFails

\* A reader that is done is behind nothing.
LEMMA DoneReading ==
    ASSUME NEW y \in Reading, ReadAfter(y), NEW z, z = [y EXCEPT !.phase = "done"]
    PROVE  z \in Reading /\ ReadAfter(z) /\ z.phase = "done"
<1>1. /\ z \in Reading /\ z.phase = "done" /\ z.started = y.started /\ z.floor = y.floor
      /\ z.presence = y.presence /\ z.title = y.title
  BY DEF Reading
<1> QED BY <1>1 DEF ReadAfter

LEMMA RosterOvertakenKeeps == ASSUME IngestionInv, NEW r \in Readers, RosterOvertaken(r) PROVE IngestionInv'
<1>1. PICK y, z : y = readers[r] /\ z = [y EXCEPT !.phase = "done"]
  OBVIOUS
<1>2. y \in Reading /\ ReadAfter(y)
  BY <1>1, IngestionNumbers DEF IngestionInv
<1>3. readers' = [readers EXCEPT ![r] = z]
  BY <1>1 DEF RosterOvertaken
<1> QED BY <1>1, <1>2, <1>3, DoneReading, ReaderKeeps DEF RosterOvertaken

\* What is written of a subject moves its revision beyond every reader's start.
NameStays == subject'["name"] = subject["name"] /\ floors'["name"] = floors["name"] /\ nameSeen' = nameSeen
             /\ counted'["name"] = counted["name"]
NameMoves == subject'["name"] = revision + 1
MemberStays == subject'["member"] = subject["member"] /\ counted'["member"] = counted["member"]
MemberMoves == subject'["member"] = revision + 1

LEMMA ReadersKeep ==
    ASSUME IngestionInv, UNCHANGED <<second, presence, title, began, updates>>, revision' \in {revision, revision + 1},
           NameStays \/ NameMoves, MemberStays \/ MemberMoves, NEW z \in Reading, ReadAfter(z)
    PROVE  ReadAfter(z)'
<1>1. /\ revision \in Nat /\ subject["name"] \in Nat /\ subject["member"] \in Nat /\ z.started \in Nat
      /\ z.started <= revision /\ revision <= revision'
  BY IngestionNumbers DEF ReadAfter, Reading, Kinds
<1>2. ~(revision + 1 <= z.started) /\ z.started <= revision'
  BY <1>1
<1>3. \/ NameStays
      \/ subject'["name"] = revision + 1
  BY DEF NameMoves
<1>4. subject'["name"] <= z.started => /\ subject["name"] <= z.started /\ nameSeen' = nameSeen
                                       /\ counted'["name"] = counted["name"] /\ floors'["name"] = floors["name"]
  BY <1>2, <1>3 DEF NameStays
<1>5. subject'["member"] <= z.started => subject["member"] <= z.started /\ counted'["member"] = counted["member"]
  BY <1>2 DEF MemberStays, MemberMoves
<1> QED BY <1>2, <1>4, <1>5 DEF ReadAfter

LEMMA ApplyNamesKeeps == ASSUME IngestionInv, NEW r \in Readers, ApplyNames(r) PROVE IngestionInv'
<1>1. PICK y, z : y = readers[r] /\ z = [y EXCEPT !.phase = "done"]
  OBVIOUS
<1>2. /\ y \in Reading /\ ReadAfter(y) /\ y.phase = "read" /\ y.title \in Nat /\ y.floor \in Nat /\ y.started \in Nat
      /\ z \in Reading /\ ReadAfter(z) /\ z.phase = "done"
  BY <1>1, DoneReading, IngestionNumbers DEF IngestionInv, ApplyNames, Reading
<1>3. /\ readers' = [readers EXCEPT ![r] = z] /\ UNCHANGED <<second, presence, title, began, updates, taken>>
      /\ UNCHANGED <<memberSeen, marks, fence, counted>>
  BY <1>1 DEF ApplyNames, world
<1>4. CASE ~Untouched("name", r)
  <2>1. revision' = revision /\ nameSeen' = nameSeen /\ floors' = floors
    BY <1>4 DEF ApplyNames, RefreshedName
  <2>2. subject' = subject
    <3>1. \A kind \in Kinds : subject'[kind] = subject[kind]
      BY <1>1, <1>4 DEF ApplyNames, RefreshedName, Kinds
    <3> QED BY <3>1 DEF ApplyNames, RefreshedName, IngestionInv, PeopleTyped
  <2>3. UNCHANGED <<world, taken, people>>
    BY <1>3, <2>1, <2>2 DEF world, people, ApplyNames
  <2> QED BY <1>2, <1>3, <2>3, ReaderKeeps
<1>5. CASE Untouched("name", r)
  <2>1. subject["name"] <= y.started
    BY <1>1, <1>5 DEF Untouched
  <2>2. /\ revision' = revision + 1 /\ nameSeen' = y.title
        /\ floors' = [floors EXCEPT !["name"] = Later(@, y.floor)]
    BY <1>1, <1>5 DEF ApplyNames, RefreshedName
  <2>3. subject' = [kind \in Kinds |-> IF kind = "name" THEN revision + 1 ELSE subject["member"]]
    BY <1>1, <1>5, <2>2 DEF ApplyNames, RefreshedName
  <2>4. Later(floors["name"], y.floor) = y.floor /\ y.floor \in 1..second
    BY <1>2, <2>1, IngestionNumbers DEF ReadAfter, Later, Kinds
  <2>5. floors' \in [Kinds -> Nat] /\ floors'["name"] = y.floor /\ floors'["member"] = floors["member"]
    BY <2>2, <2>4 DEF IngestionInv, PeopleTyped, Kinds
  <2>6. subject' \in [Kinds -> Nat] /\ subject'["name"] = revision + 1 /\ subject'["member"] = subject["member"]
    BY <2>3, IngestionNumbers DEF Kinds
  <2>7. WorldInv'
    BY <1>3 DEF IngestionInv, WorldInv
  <2>8. PeopleTyped'
    <3>1. y.title <= title
      BY <1>2 DEF ReadAfter
    <3>2. \A kind \in Kinds : floors'[kind] <= second' /\ subject'[kind] <= revision'
      BY <1>3, <2>2, <2>4, <2>5, <2>6, IngestionNumbers DEF Kinds
    <3>3. revision' \in Nat /\ fence' <= revision'
      BY <1>3, <2>2 DEF IngestionInv, PeopleTyped
    <3> QED BY <1>2, <1>3, <2>2, <2>5, <2>6, <3>1, <3>2, <3>3 DEF IngestionInv, PeopleTyped
  <2>9. ObservationsStand'
    <3>1. (\A k \in counted["name"] : y.title >= updates[k].title) /\ y.title >= began[y.floor]
      <4>1. /\ \A k \in counted["name"] : updates[k].title <= y.title
            /\ began[y.floor] <= y.title
        BY <1>2, <2>1 DEF ReadAfter
      <4> QED BY <4>1
    <3> QED BY <1>3, <2>2, <2>5, <3>1 DEF IngestionInv, ObservationsStand
  <2>10. ASSUME NEW q \in Readers PROVE ReadAfter(readers[q])'
    <3>1. PICK x \in Reading : readers'[q] = x /\ ReadAfter(x)
      BY <1>2, <1>3, IngestionNumbers DEF IngestionInv, PeopleTyped
    <3>2. NameMoves /\ MemberStays
      BY <1>3, <2>6 DEF NameMoves, MemberStays
    <3>3. revision' \in {revision, revision + 1}
      BY <2>2
    <3>4. ReadAfter(x)'
      BY <1>3, <3>1, <3>2, <3>3, ReadersKeep
    <3> QED BY <3>1, <3>4
  <2> QED BY <2>7, <2>8, <2>9, <2>10 DEF IngestionInv
<1> QED BY <1>4, <1>5


LEMMA ApplyRosterKeeps == ASSUME IngestionInv, NEW r \in Readers, ApplyRoster(r) PROVE IngestionInv'
<1>1. PICK y, z : y = readers[r] /\ z = [y EXCEPT !.phase = "done"]
  OBVIOUS
<1>2. /\ y \in Reading /\ ReadAfter(y) /\ y.phase = "read" /\ y.kind = "member"
      /\ y.title \in Nat /\ y.presence \in Nat /\ y.floor \in Nat /\ y.started \in Nat
      /\ z \in Reading /\ ReadAfter(z) /\ z.phase = "done"
  BY <1>1, DoneReading, IngestionNumbers DEF IngestionInv, ApplyRoster, Reading
<1>3. /\ readers' = [readers EXCEPT ![r] = z] /\ UNCHANGED <<second, presence, title, began, updates, taken>>
      /\ UNCHANGED <<marks, counted>> /\ revision' = revision + 1 /\ fence' = revision + 1
  BY <1>1 DEF ApplyRoster, world
<1>4. PICK names \in BOOLEAN :
        /\ names <=> (y.presence % 2 = 1 /\ subject["member"] <= y.started /\ subject["name"] <= y.started)
        /\ nameSeen' = IF names THEN y.title ELSE nameSeen
        /\ floors' = [kind \in Kinds |-> IF kind = "member" \/ names THEN Later(floors[kind], y.floor) ELSE floors[kind]]
        /\ subject' = [kind \in Kinds |->
               IF kind = "name" THEN IF names THEN revision + 1 ELSE subject["name"]
               ELSE IF subject["member"] <= y.started THEN revision + 1 ELSE subject["member"]]
        /\ memberSeen' = IF subject["member"] <= y.started THEN y.presence ELSE memberSeen
  BY <1>1, <1>2, <1>3 DEF ApplyRoster, RefreshedName, Untouched
<1>5. y.floor \in 1..second /\ y.presence <= presence /\ y.title <= title /\ began[y.floor] <= y.title
  BY <1>2, IngestionNumbers DEF ReadAfter
<1>6. \/ /\ NameStays /\ subject["name"] \in 0..revision /\ floors["name"] \in 0..second
      \/ /\ NameMoves /\ nameSeen' = y.title /\ floors'["name"] = y.floor
         /\ \A k \in counted["name"] : updates[k].title <= y.title
  <2>1. CASE names
    <3>1. Later(floors["name"], y.floor) = y.floor
      <4>1. subject["name"] <= y.started
        BY <1>4, <2>1
      <4>2. floors["name"] <= y.floor /\ floors["name"] \in Nat
        BY <1>2, <4>1, IngestionNumbers DEF ReadAfter, Kinds
      <4> QED BY <1>2, <4>2 DEF Later
    <3> QED BY <1>2, <1>4, <2>1, <3>1 DEF NameMoves, ReadAfter, Kinds
  <2>2. CASE ~names
    BY <1>3, <1>4, <2>2, IngestionNumbers DEF NameStays, Kinds
  <2> QED BY <2>1, <2>2
<1>7. \/ MemberStays /\ memberSeen' = memberSeen /\ subject["member"] \in 0..revision
      \/ /\ MemberMoves /\ memberSeen' = y.presence
         /\ \A k \in counted["member"] : updates[k].presence <= y.presence
  <2>1. CASE subject["member"] <= y.started
    BY <1>2, <1>4, <2>1 DEF MemberMoves, ReadAfter, Kinds
  <2>2. CASE ~(subject["member"] <= y.started)
    BY <1>3, <1>4, <2>2, IngestionNumbers DEF MemberStays, Kinds
  <2> QED BY <2>1, <2>2
<1>8. floors'["member"] \in 0..second
  <2>1. floors'["member"] = Later(floors["member"], y.floor)
    BY <1>4 DEF Kinds
  <2>2. floors["member"] \in 0..second
    BY IngestionNumbers DEF Kinds
  <2> QED BY <1>5, <2>1, <2>2, IngestionNumbers DEF Later
<1>9. revision \in Nat /\ second \in Nat
  BY IngestionNumbers
<1>10. \A kind \in Kinds : floors'[kind] \in 0..second /\ subject'[kind] \in 0..(revision + 1)
  <2>1. floors'["name"] \in 0..second /\ subject'["name"] \in 0..(revision + 1)
    BY <1>5, <1>6, <1>9 DEF NameStays, NameMoves
  <2>2. subject'["member"] \in 0..(revision + 1)
    BY <1>7, <1>9 DEF MemberStays, MemberMoves
  <2> QED BY <1>8, <2>1, <2>2 DEF Kinds
<1>11. floors' \in [Kinds -> Nat] /\ subject' \in [Kinds -> Nat]
  <2>1. DOMAIN floors' = Kinds /\ DOMAIN subject' = Kinds
    BY <1>4
  <2>2. \A kind \in Kinds : floors'[kind] \in Nat /\ subject'[kind] \in Nat
    BY <1>9, <1>10
  <2>3. floors' = [kind \in Kinds |-> floors'[kind]] /\ subject' = [kind \in Kinds |-> subject'[kind]]
    BY <1>4
  <2> QED BY <2>2, <2>3
<1>12. WorldInv'
  BY <1>3 DEF IngestionInv, WorldInv
<1>13. PeopleTyped'
  <2>1. /\ memberSeen' \in Nat /\ memberSeen' <= presence
        /\ nameSeen' \in Nat /\ nameSeen' <= title
    BY <1>2, <1>5, <1>6, <1>7 DEF IngestionInv, PeopleTyped, NameStays
  <2>2. \A kind \in Kinds : floors'[kind] <= second' /\ subject'[kind] <= revision'
    BY <1>3, <1>9, <1>10
  <2>3. revision' \in Nat /\ fence' \in Nat /\ fence' <= revision'
    BY <1>3, <1>9
  <2> QED BY <1>2, <1>3, <1>11, <2>1, <2>2, <2>3 DEF IngestionInv, PeopleTyped
<1>14. ObservationsStand'
  <2>1. \A k \in counted["member"] : memberSeen' >= updates[k].presence
    BY <1>7 DEF IngestionInv, ObservationsStand
  <2>2. /\ \A k \in counted["name"] : nameSeen' >= updates[k].title
        /\ floors'["name"] > 0 => nameSeen' >= began[floors'["name"]]
    BY <1>5, <1>6 DEF IngestionInv, ObservationsStand, NameStays
  <2> QED BY <1>3, <2>1, <2>2 DEF ObservationsStand
<1>15. ASSUME NEW q \in Readers PROVE ReadAfter(readers[q])'
  <2>1. PICK x \in Reading : readers'[q] = x /\ ReadAfter(x)
    BY <1>2, <1>3, IngestionNumbers DEF IngestionInv, PeopleTyped
  <2>2. ReadAfter(x)'
    BY <1>3, <1>6, <1>7, <2>1, ReadersKeep
  <2> QED BY <2>1, <2>2
<1> QED BY <1>12, <1>13, <1>14, <1>15 DEF IngestionInv

LEMMA NothingObservedKeeps ==
    ASSUME IngestionInv, UNCHANGED <<world, people, readers>>, taken' \subseteq 1..Len(updates) PROVE IngestionInv'
<1>1. /\ UNCHANGED <<second, presence, title, began, updates, readers>>
      /\ UNCHANGED <<memberSeen, nameSeen, marks, floors, revision, subject, fence, counted>>
  BY DEF world, people
<1>2. WorldInv' /\ ObservationsStand'
  BY <1>1 DEF IngestionInv, WorldInv, ObservationsStand
<1>3. PeopleTyped'
  BY <1>1 DEF IngestionInv, PeopleTyped
<1>4. ASSUME NEW q \in Readers PROVE ReadAfter(readers[q])'
  <2>1. PICK y : readers'[q] = y /\ ReadAfter(y) /\ readers[q] = y
    BY <1>1 DEF IngestionInv
  <2> QED BY <1>1, <2>1 DEF ReadAfter
<1> QED BY <1>2, <1>3, <1>4 DEF IngestionInv

\* An update the watermark lets in is none of those it let in before, and newer than all.
LEMMA FreshIsNewer ==
    ASSUME IngestionInv, NEW kind \in Kinds, NEW k \in 1..Len(updates), Fresh(kind, k)
    PROVE  \A l \in counted[kind] :
               l <= k /\ updates[l].presence <= updates[k].presence /\ updates[l].title <= updates[k].title
<1>1. marks[kind] \in 0..Len(updates) /\ Len(updates) \in Nat
  BY IngestionNumbers
<1>2. marks[kind] <= k
  <2>1. CASE marks[kind] = 0
    BY <1>1, <2>1
  <2>2. CASE marks[kind] # 0
    <3>1. marks[kind] \in 1..Len(updates)
      BY <1>1, <2>2
    <3>2. k <= marks[kind] => updates[k].date <= updates[marks[kind]].date
      BY <3>1 DEF IngestionInv, WorldInv
    <3>3. updates[k].date \in Nat /\ updates[marks[kind]].date \in Nat
      BY <3>1, IngestionNumbers
    <3> QED BY <1>1, <2>2, <3>1, <3>2, <3>3 DEF Fresh
  <2> QED BY <2>1, <2>2
<1>3. ASSUME NEW l \in counted[kind]
      PROVE  l <= k /\ updates[l].presence <= updates[k].presence /\ updates[l].title <= updates[k].title
  <2>1. l \in 1..Len(updates) /\ l <= marks[kind]
    BY IngestionNumbers DEF IngestionInv, PeopleTyped
  <2>2. l <= k
    BY <1>1, <1>2, <2>1
  <2> QED BY <2>1, <2>2 DEF IngestionInv, WorldInv
<1> QED BY <1>3

\* What the transaction of one update writes, subject by subject.
LEMMA ObserveWrites ==
    ASSUME IngestionInv, NEW k \in 1..Len(updates), Observe(k)
    PROVE  /\ marks' \in [Kinds -> Nat] /\ subject' \in [Kinds -> Nat]
           /\ counted' \in [Kinds -> SUBSET (1..Len(updates))]
           /\ revision' \in {revision, revision + 1} /\ floors' = floors /\ fence' = fence
           /\ \A kind \in Kinds : \/ /\ marks'[kind] = marks[kind] /\ counted'[kind] = counted[kind]
                                     /\ subject'[kind] = subject[kind]
                                  \/ /\ Fresh(kind, k) /\ marks'[kind] = k /\ counted'[kind] = counted[kind] \cup {k}
                                     /\ subject'[kind] = revision + 1 /\ revision' = revision + 1
           /\ \/ memberSeen' = memberSeen /\ counted'["member"] = counted["member"]
              \/ memberSeen' = updates[k].presence /\ Fresh("member", k)
           /\ \/ nameSeen' = nameSeen /\ counted'["name"] = counted["name"]
              \/ /\ nameSeen' = updates[k].title /\ Fresh("name", k) /\ ~(updates[k].date < floors["name"])
                 /\ subject'["name"] = revision + 1
<1>1. PICK counts : /\ counts = {kind \in Kinds : IF kind = "member" THEN MemberCounts(k) ELSE NameCounts(k)}
                    /\ marks' = [kind \in Kinds |-> IF kind \in counts THEN k ELSE marks[kind]]
                    /\ revision' = IF counts = {} THEN revision ELSE revision + 1
                    /\ subject' = [kind \in Kinds |-> IF kind \in counts THEN revision + 1 ELSE subject[kind]]
                    /\ memberSeen' = IF "member" \in counts THEN updates[k].presence ELSE memberSeen
                    /\ nameSeen' = IF "name" \in counts THEN updates[k].title ELSE nameSeen
                    /\ counted' = [kind \in Kinds |-> IF kind \in counts THEN counted[kind] \cup {k} ELSE counted[kind]]
                    /\ UNCHANGED <<floors, fence>>
  BY DEF Observe
<1>2. /\ "member" \in counts => Fresh("member", k)
      /\ "name" \in counts => Fresh("name", k) /\ ~(updates[k].date < floors["name"])
  BY <1>1 DEF MemberCounts, NameCounts
<1>3. \A kind \in counts : Fresh(kind, k) /\ revision' = revision + 1
  BY <1>1, <1>2 DEF Kinds
<1>4. k \in Nat /\ revision \in Nat /\ \A kind \in Kinds : marks[kind] \in Nat /\ subject[kind] \in Nat
  BY IngestionNumbers
<1>5. marks' \in [Kinds -> Nat] /\ subject' \in [Kinds -> Nat]
  BY <1>1, <1>4
<1>6. counted' \in [Kinds -> SUBSET (1..Len(updates))]
  <2>1. \A kind \in Kinds : counted[kind] \subseteq 1..Len(updates)
    BY IngestionNumbers
  <2>2. \A kind \in Kinds : (IF kind \in counts THEN counted[kind] \cup {k} ELSE counted[kind]) \in SUBSET (1..Len(updates))
    BY <2>1
  <2> QED BY <1>1, <2>2
<1>7. ASSUME NEW kind \in Kinds
      PROVE  \/ marks'[kind] = marks[kind] /\ counted'[kind] = counted[kind] /\ subject'[kind] = subject[kind]
             \/ /\ Fresh(kind, k) /\ marks'[kind] = k /\ counted'[kind] = counted[kind] \cup {k}
                /\ subject'[kind] = revision + 1 /\ revision' = revision + 1
  <2>1. CASE kind \in counts
    BY <1>1, <1>3, <2>1
  <2>2. CASE kind \notin counts
    BY <1>1, <2>2
  <2> QED BY <2>1, <2>2
<1>8. /\ \/ memberSeen' = memberSeen /\ counted'["member"] = counted["member"]
         \/ memberSeen' = updates[k].presence /\ Fresh("member", k)
      /\ \/ nameSeen' = nameSeen /\ counted'["name"] = counted["name"]
         \/ /\ nameSeen' = updates[k].title /\ Fresh("name", k) /\ ~(updates[k].date < floors["name"])
            /\ subject'["name"] = revision + 1
  BY <1>1, <1>2 DEF Kinds
<1> QED BY <1>1, <1>5, <1>6, <1>7, <1>8

LEMMA ObserveKeeps ==
    ASSUME IngestionInv, NEW k \in 1..Len(updates), Observe(k), taken' = taken \cup {k}, UNCHANGED <<world, readers>>
    PROVE  IngestionInv'
<1>1. UNCHANGED <<second, presence, title, began, updates>>
  BY DEF world
<1>2. /\ updates[k].presence \in Nat /\ updates[k].title \in Nat /\ updates[k].date \in 1..second
      /\ updates[k].presence <= presence /\ updates[k].title <= title /\ began[updates[k].date] <= updates[k].title
  BY IngestionNumbers DEF IngestionInv, WorldInv
<1>3. \A kind \in Kinds : \/ counted'[kind] = counted[kind] /\ marks'[kind] = marks[kind]
                          \/ /\ counted'[kind] = counted[kind] \cup {k} /\ marks'[kind] = k /\ Fresh(kind, k)
  BY ObserveWrites
<1>4. WorldInv'
  BY <1>1 DEF IngestionInv, WorldInv
<1>5. revision' \in Nat /\ revision <= revision' /\ fence' \in Nat /\ fence' <= revision'
  <2>1. revision' \in {revision, revision + 1} /\ fence' = fence
    BY ObserveWrites
  <2> QED BY <2>1 DEF IngestionInv, PeopleTyped
<1>6. PeopleTyped'
  <2>1. memberSeen' \in Nat /\ memberSeen' <= presence /\ nameSeen' \in Nat /\ nameSeen' <= title
    <3>1. memberSeen' \in {memberSeen, updates[k].presence} /\ nameSeen' \in {nameSeen, updates[k].title}
      BY ObserveWrites
    <3> QED BY <1>2, <3>1 DEF IngestionInv, PeopleTyped
  <2>2. taken' \subseteq 1..Len(updates)
    BY DEF IngestionInv, PeopleTyped
  <2>3. ASSUME NEW kind \in Kinds
        PROVE  /\ marks'[kind] <= Len(updates) /\ floors'[kind] <= second /\ subject'[kind] <= revision'
               /\ \A l \in counted'[kind] : l <= marks'[kind]
    <3>1. subject'[kind] <= revision'
      <4>1. \/ subject'[kind] = subject[kind]
            \/ subject'[kind] = revision + 1 /\ revision' = revision + 1
        BY ObserveWrites
      <4> QED BY <1>5, <4>1, IngestionNumbers
    <3>2. floors'[kind] <= second
      BY ObserveWrites, IngestionNumbers
    <3>3. CASE counted'[kind] = counted[kind] /\ marks'[kind] = marks[kind]
      BY <3>1, <3>2, <3>3 DEF IngestionInv, PeopleTyped
    <3>4. CASE counted'[kind] = counted[kind] \cup {k} /\ marks'[kind] = k /\ Fresh(kind, k)
      <4>1. \A l \in counted[kind] : l <= k
        BY <3>4, FreshIsNewer
      <4> QED BY <3>1, <3>2, <3>4, <4>1
    <3> QED BY <1>3, <3>3, <3>4
  <2>4. /\ marks' \in [Kinds -> Nat] /\ subject' \in [Kinds -> Nat] /\ floors' \in [Kinds -> Nat]
        /\ counted' \in [Kinds -> SUBSET (1..Len(updates))]
    BY ObserveWrites DEF IngestionInv, PeopleTyped
  <2>5. readers' \in [Readers -> Reading]
    BY DEF IngestionInv, PeopleTyped
  <2> QED BY <1>1, <1>5, <2>1, <2>2, <2>3, <2>4, <2>5 DEF PeopleTyped
<1>7. ObservationsStand'
  <2>1. \A l \in counted'["member"] : memberSeen' >= updates[l].presence
    <3>1. CASE memberSeen' = memberSeen /\ counted'["member"] = counted["member"]
      BY <3>1 DEF IngestionInv, ObservationsStand
    <3>2. CASE memberSeen' = updates[k].presence /\ Fresh("member", k)
      <4>1. \A l \in counted["member"] : updates[l].presence <= updates[k].presence
        BY <3>2, FreshIsNewer DEF Kinds
      <4>2. counted'["member"] \subseteq counted["member"] \cup {k}
        BY <1>3 DEF Kinds
      <4> QED BY <1>2, <3>2, <4>1, <4>2
    <3> QED BY <3>1, <3>2, ObserveWrites
  <2>2. (\A l \in counted'["name"] : nameSeen' >= updates[l].title)
        /\ (floors["name"] > 0 => nameSeen' >= began[floors["name"]])
    <3>1. CASE nameSeen' = nameSeen /\ counted'["name"] = counted["name"]
      BY <3>1 DEF IngestionInv, ObservationsStand
    <3>2. CASE nameSeen' = updates[k].title /\ Fresh("name", k) /\ ~(updates[k].date < floors["name"])
      <4>1. \A l \in counted["name"] : updates[l].title <= updates[k].title
        BY <3>2, FreshIsNewer DEF Kinds
      <4>2. counted'["name"] \subseteq counted["name"] \cup {k}
        BY <1>3 DEF Kinds
      <4>3. floors["name"] > 0 => began[floors["name"]] <= updates[k].title
        <5>1. floors["name"] \in 0..second /\ second \in Nat
          BY IngestionNumbers DEF Kinds
        <5>2. HAVE floors["name"] > 0
        <5>3. floors["name"] \in 1..second /\ floors["name"] <= updates[k].date
          BY <1>2, <3>2, <5>1, <5>2
        <5>4. began[floors["name"]] <= began[updates[k].date]
          BY <1>2, <5>3 DEF IngestionInv, WorldInv
        <5>5. began[floors["name"]] \in Nat /\ began[updates[k].date] \in Nat
          BY <1>2, <5>3, IngestionNumbers
        <5> QED BY <1>2, <5>4, <5>5
      <4> QED BY <1>2, <3>2, <4>1, <4>2, <4>3
    <3> QED BY <3>1, <3>2, ObserveWrites
  <2>3. floors' = floors
    BY ObserveWrites
  <2> QED BY <1>1, <2>1, <2>2, <2>3 DEF ObservationsStand
<1>8. ASSUME NEW q \in Readers PROVE ReadAfter(readers[q])'
  <2>1. PICK x \in Reading : readers'[q] = x /\ ReadAfter(x)
    BY IngestionNumbers DEF IngestionInv
  <2>2. revision' \in {revision, revision + 1}
    BY ObserveWrites
  <2>3. (NameStays \/ NameMoves) /\ (MemberStays \/ MemberMoves)
    BY ObserveWrites DEF NameStays, NameMoves, MemberStays, MemberMoves, Kinds
  <2>4. ReadAfter(x)'
    BY <1>1, <2>1, <2>2, <2>3, ReadersKeep
  <2> QED BY <2>1, <2>4
<1> QED BY <1>4, <1>6, <1>7, <1>8 DEF IngestionInv

LEMMA ObserveRawUpdateKeeps ==
    ASSUME IngestionInv, NEW k \in 1..Len(updates), ObserveRawUpdate(k) PROVE IngestionInv'
<1>1. CASE enabled
  BY <1>1, ObserveKeeps DEF ObserveRawUpdate
<1>2. CASE ~enabled
  BY <1>2, NothingObservedKeeps DEF ObserveRawUpdate, IngestionInv, PeopleTyped
<1> QED BY <1>1, <1>2

LEMMA IngestionStep ==
    ASSUME IngestionInv, IngestionNext \/ UNCHANGED ingestionVars PROVE IngestionInv'
<1>1. CASE MoveUser
  BY <1>1, ReportKeeps DEF MoveUser
<1>2. CASE PostMessage
  BY <1>2, ReportKeeps DEF PostMessage
<1>3. CASE SetEnabled \/ UNCHANGED ingestionVars
  BY <1>3, NothingObservedKeeps DEF SetEnabled, ingestionVars, IngestionInv, PeopleTyped
<1>4. CASE \E k \in 1..Len(updates) : ObserveRawUpdate(k)
  BY <1>4, ObserveRawUpdateKeeps
<1>5. CASE \E r \in Readers : (\E kind \in Kinds : StartReading(r, kind)) \/ ReadTelegram(r) \/ ReadingFails(r)
  BY <1>5, StartReadingKeeps, ReadTelegramKeeps, ReadingFailsKeeps
<1>6. CASE \E r \in Readers : ApplyNames(r) \/ ApplyRoster(r) \/ RosterOvertaken(r)
  BY <1>6, ApplyNamesKeeps, ApplyRosterKeeps, RosterOvertakenKeeps
<1> QED BY <1>1, <1>2, <1>3, <1>4, <1>5, <1>6, RenameUserKeeps, SecondPassesKeeps DEF IngestionNext

LEMMA IngestionHolds == ASSUME IngestionInv PROVE IngestionTypeOK /\ ObservationsStand
<1>1. memberSeen \in 0..presence /\ nameSeen \in 0..title /\ taken \subseteq 1..Len(updates) /\ fence \in 0..revision
  BY DEF IngestionInv, PeopleTyped, WorldInv
<1>2. \A kind \in Kinds : marks[kind] \in 0..Len(updates) /\ floors[kind] \in 0..second /\ subject[kind] \in 0..revision
  BY IngestionNumbers
<1>3. ASSUME NEW r \in Readers
      PROVE  readers[r].phase \in {"idle", "started", "read", "done"} /\ readers[r].started <= revision
  BY IngestionNumbers DEF IngestionInv, ReadAfter, Reading
<1> QED BY <1>1, <1>2, <1>3 DEF IngestionTypeOK, IngestionInv

\* What was read from Telegram before an update never undoes it, and a late or repeated
\* update never undoes a newer one, whatever updates, synchronizations and refreshes race
\* (observe_raw_update, sync_members and refresh_usernames of ingestion.rs).  The proof
\* rests on the order of Telegram's reports and on ReadAfter: a synchronization that finds
\* a subject unchanged since it began has read Telegram after all that is recorded of it.
THEOREM ObservationsAlwaysStand ==
    IngestionAssumption => (IngestionSpec => [](IngestionTypeOK /\ ObservationsStand))
<1> SUFFICES ASSUME IngestionAssumption PROVE IngestionSpec => [](IngestionTypeOK /\ ObservationsStand)
    OBVIOUS
<1>1. IngestionInit => IngestionInv
  BY IngestionStart
<1>2. IngestionInv /\ [IngestionNext]_ingestionVars => IngestionInv'
  BY IngestionStep
<1>3. IngestionInv => IngestionTypeOK /\ ObservationsStand
  BY IngestionHolds
<1> QED BY <1>1, <1>2, <1>3, PTL DEF IngestionSpec

-----------------------------------------------------------------------------
(* Search and reports of the statistics read one state of the messages. *)

Bindings == [file : Nat, revision : Nat]
Versions == [MessageIds -> Nat]

\* The index agrees with the rows, but for the ones noted as changed.
AgreesBut(view, ids) == \A id \in MessageIds \ ids : view[id] = rows[id]

OperationRow == [phase : {"idle", "reset", "batches", "query", "commit"}, search : BOOLEAN, rebuild : BOOLEAN,
                 todo : SUBSET MessageIds]
ClosureRow == [nr : Nat \ {0}, kind : {"reset", "update", "commit"}, id : Nat, version : Nat, binding : Bindings]
ScanRow == [phase : {"idle", "reading"}, fence : Nat, cursor : Nat, seen : Versions]
Copies == [rows : [MessageIds -> 0..MaxWrites], source : Nat, acknowledged : Nat, dirty : SUBSET MessageIds]

DatabaseTyped ==
    /\ rows \in [MessageIds -> 0..MaxWrites] /\ writes \in 0..MaxWrites
    /\ source \in 0..writes /\ acknowledged \in 0..source /\ dirty \subseteq MessageIds /\ file \in Nat \ {0}
    /\ backup \in Copies /\ backup.source <= writes /\ backup.acknowledged <= backup.source

ActivityTyped ==
    /\ mishaps \in Nat /\ needsRebuild \in BOOLEAN
    /\ documents \in Versions /\ pending \in Versions /\ binding \in Bindings
    /\ operation \in OperationRow /\ scan \in ScanRow

ClosuresTyped ==
    /\ detached \subseteq ClosureRow /\ \A c \in detached : c.nr <= mishaps
    /\ lastReset \in Nat /\ lastReset <= mishaps
    /\ health \in {"sound", "spoilt", "healing"}

SearchTyped == DatabaseTyped /\ ActivityTyped /\ ClosuresTyped

\* No payload is of a file that is still to come, or of a revision beyond the bound.
PayloadInv ==
    /\ binding.file <= file /\ binding.revision <= MaxWrites
    /\ \A c \in detached : c.binding.file <= file /\ c.binding.revision <= MaxWrites

\* Unless a closure came too late: a payload that names this file at the acknowledged
\* revision tells the truth about the index, a writer that is trusted holds nothing back,
\* and an operation knows what is left to do.
IndexInv ==
    /\ health = "sound" /\ Bound => AgreesBut(documents, dirty)
    /\ health = "sound" /\ ~needsRebuild => pending = documents
    /\ operation.phase = "reset" => operation.todo = {id \in MessageIds : rows[id] # 0}
    /\ operation.phase \in {"reset", "batches"} => needsRebuild
    /\ operation.phase = "batches" /\ health # "spoilt" => AgreesBut(pending, operation.todo)
    /\ operation.phase \in {"query", "commit"} /\ health = "sound" =>
           /\ binding = [file |-> file, revision |-> source]
           /\ documents = rows /\ pending = documents
    /\ health = "healing" => needsRebuild /\ operation.phase \in {"idle", "reset", "batches"}

\* The index was not emptied since the closure was left behind.
Timely(c) == c.nr > lastReset

\* As long as a closure is not late the writer is distrusted and no operation has got
\* farther than to the reset; one that is not a reset is the oldest of them; and what one
\* will still commit is true.
ClosureInv ==
    /\ \A c \in detached : Timely(c) => needsRebuild /\ operation.phase \in {"idle", "reset"}
    /\ \A c, d \in detached : Timely(c) /\ Timely(d) /\ c.kind # "reset" /\ d # c =>
           d.kind = "reset" /\ d.nr > c.nr
    /\ \A c \in detached :
           /\ health = "sound" /\ Timely(c) /\ c.kind = "commit"
           /\ c.binding = [file |-> file, revision |-> acknowledged]
           => AgreesBut(pending, dirty)

\* While the revision stands, the aggregate has read what is there.
ScanInv ==
    scan.phase = "reading" =>
        /\ scan.fence <= source
        /\ source = scan.fence => \A id \in MessageIds : id <= scan.cursor => scan.seen[id] = rows[id]

\* Only an operation that is about to be committed has an answer.
AnswerInv == operation.phase # "commit" => answer.seen = answer.rows

SearchInv ==
    /\ SearchTyped /\ PayloadInv /\ IndexInv /\ ClosureInv /\ ScanInv
    /\ AnswerInv /\ ReadsAreSnapshots

LEMMA SearchRows ==
    ASSUME SearchAssumption
    PROVE  /\ Nothing \in Versions /\ Nothing \in [MessageIds -> 0..MaxWrites]
           /\ NoOperation \in OperationRow /\ NoOperation.phase = "idle"
           /\ NoBinding \in Bindings /\ NoBinding.file = 0 /\ NoBinding.revision = 0
           /\ NoScan \in ScanRow /\ NoScan.phase = "idle"
<1>1. Nothing \in Versions /\ Nothing \in [MessageIds -> 0..MaxWrites]
  BY DEF Nothing, Versions, SearchAssumption
<1>2. NoOperation \in OperationRow /\ NoOperation.phase = "idle"
  BY DEF NoOperation, OperationRow
<1>3. NoBinding \in Bindings /\ NoBinding.file = 0 /\ NoBinding.revision = 0
  BY DEF NoBinding, Bindings
<1>4. NoScan \in ScanRow /\ NoScan.phase = "idle"
  BY <1>1 DEF NoScan, ScanRow
<1> QED BY <1>1, <1>2, <1>3, <1>4

\* What the closure of a running operation would do.
LEMMA ClosuresRun ==
    ASSUME SearchAssumption, SearchInv, NEW c \in Executing
    PROVE  /\ c \in ClosureRow /\ c.nr = mishaps + 1
           /\ c.binding.file <= file /\ c.binding.revision <= MaxWrites
           /\ needsRebuild /\ operation.phase \in {"reset", "batches"}
           /\ c.kind # "reset" => operation.phase = "batches"
           /\ c.kind = "commit" /\ health = "sound" => AgreesBut(pending, {})
<1>0. /\ operation \in OperationRow /\ rows \in [MessageIds -> 0..MaxWrites] /\ MessageIds \subseteq Nat
      /\ file \in Nat \ {0} /\ source \in Nat /\ source <= MaxWrites /\ MaxWrites \in Nat /\ mishaps \in Nat
  BY DEF SearchInv, SearchTyped, DatabaseTyped, ActivityTyped, SearchAssumption
<1> DEFINE closure == [nr |-> mishaps + 1, kind |-> "reset", id |-> 0, version |-> 0, binding |-> NoBinding]
<1>1. NoBinding \in Bindings /\ NoBinding.file = 0 /\ NoBinding.revision = 0
  BY SearchRows
<1>2. CASE operation.phase = "reset" /\ c = closure
  <2>1. /\ c \in ClosureRow /\ c.nr = mishaps + 1 /\ c.kind = "reset"
        /\ c.binding.file = 0 /\ c.binding.revision = 0
    BY <1>0, <1>1, <1>2 DEF ClosureRow
  <2> QED BY <1>0, <1>2, <2>1 DEF SearchInv, IndexInv
<1>3. CASE /\ operation.phase = "batches"
           /\ \E id \in operation.todo : c = [closure EXCEPT !.kind = "update", !.id = id, !.version = rows[id]]
  <2>1. PICK id \in operation.todo : c = [closure EXCEPT !.kind = "update", !.id = id, !.version = rows[id]]
    BY <1>3
  <2>2. PICK n \in Nat, v \in Nat : n = id /\ v = rows[id]
    BY <1>0 DEF OperationRow
  <2>3. c = [nr |-> mishaps + 1, kind |-> "update", id |-> n, version |-> v, binding |-> NoBinding]
    BY <2>1, <2>2
  <2>4. /\ c \in ClosureRow /\ c.nr = mishaps + 1 /\ c.kind = "update"
        /\ c.binding.file = 0 /\ c.binding.revision = 0
    BY <1>0, <1>1, <2>3 DEF ClosureRow
  <2> QED BY <1>0, <1>3, <2>4 DEF SearchInv, IndexInv
<1>4. CASE operation.phase = "batches" /\ operation.todo = {} /\ c = [closure EXCEPT !.kind = "commit", !.binding = Here]
  <2>1. Here \in Bindings /\ Here.file = file /\ Here.revision = source
    BY <1>0 DEF Here, Bindings
  <2>2. c = [nr |-> mishaps + 1, kind |-> "commit", id |-> 0, version |-> 0, binding |-> Here]
    BY <1>4
  <2>3. c \in ClosureRow /\ c.nr = mishaps + 1 /\ c.binding = Here
    BY <1>0, <2>1, <2>2 DEF ClosureRow
  <2> QED BY <1>0, <1>4, <2>1, <2>3 DEF SearchInv, IndexInv
<1> QED BY <1>2, <1>3, <1>4 DEF Executing

LEMMA SearchStarts == SearchAssumption /\ SearchInit => SearchInv
<1> SUFFICES ASSUME SearchAssumption, SearchInit PROVE SearchInv
    OBVIOUS
<1>1. 0 \in 0..MaxWrites /\ [rows |-> Nothing, source |-> 0, acknowledged |-> 0, dirty |-> {}] \in Copies
  BY SearchRows DEF SearchAssumption, Copies
<1>2. SearchTyped
  <2>1. DatabaseTyped
    <3>1. backup.source = 0 /\ backup.acknowledged = 0
      BY DEF SearchInit
    <3> QED BY <1>1, <3>1, SearchRows DEF SearchInit, DatabaseTyped
  <2>2. ActivityTyped
    BY SearchRows DEF SearchInit, ActivityTyped
  <2>3. ClosuresTyped
    BY DEF SearchInit, ClosuresTyped
  <2> QED BY <2>1, <2>2, <2>3 DEF SearchTyped
<1>3. PayloadInv
  BY SearchRows DEF SearchInit, PayloadInv, SearchAssumption
<1>4. IndexInv /\ ClosureInv
  BY DEF SearchInit, IndexInv, ClosureInv, NoOperation, Bound, AgreesBut
<1>5. ScanInv /\ AnswerInv /\ ReadsAreSnapshots
  BY DEF SearchInit, ScanInv, AnswerInv, NoScan, ReadsAreSnapshots, NoAnswer
<1> QED BY <1>2, <1>3, <1>4, <1>5 DEF SearchInv

LEMMA TakeBackupKeeps == ASSUME SearchAssumption, SearchInv, TakeBackup PROVE SearchInv'
<1>1. SearchTyped'
  <2>1. DatabaseTyped'
    BY DEF SearchAssumption, SearchInv, SearchTyped, DatabaseTyped, Copies, TakeBackup, database
  <2>2. ActivityTyped'
    BY SearchRows DEF SearchInv, SearchTyped, ActivityTyped, TakeBackup, Copies, database, index
  <2>3. ClosuresTyped'
    BY DEF SearchInv, SearchTyped, ActivityTyped, ClosuresTyped, TakeBackup, database, late
  <2> QED BY <2>1, <2>2, <2>3 DEF SearchTyped
<1>2. PayloadInv'
  BY SearchRows DEF SearchAssumption, SearchInv, SearchTyped, DatabaseTyped, ActivityTyped, ClosuresTyped, PayloadInv, ClosureRow, Bindings, TakeBackup, late, database, index
<1>3. IndexInv'
  BY DEF SearchAssumption, SearchInv, SearchTyped, DatabaseTyped, ActivityTyped, PayloadInv, IndexInv, ClosureInv, Bound, AgreesBut, Nothing, OperationRow, ScanRow, Versions, Bindings, TakeBackup, late, database, index
<1>4. ClosureInv'
  BY DEF SearchAssumption, SearchInv, SearchTyped, DatabaseTyped, ActivityTyped, ClosuresTyped, ClosureRow, IndexInv, ClosureInv, Timely, AgreesBut, OperationRow, TakeBackup, late, database, index
<1>5. ScanInv'
  BY DEF SearchAssumption, SearchInv, SearchTyped, DatabaseTyped, ActivityTyped, ScanInv, ScanRow, Versions, TakeBackup, late, database, index
<1>6. AnswerInv'
  BY DEF SearchInv, AnswerInv, ReadsAreSnapshots, TakeBackup, late, database, index
<1>7. ReadsAreSnapshots'
  BY DEF SearchAssumption, SearchInv, SearchTyped, DatabaseTyped, ActivityTyped, IndexInv, AnswerInv, ReadsAreSnapshots, TakeBackup, late, database, index
<1> QED BY <1>1, <1>2, <1>3, <1>4, <1>5, <1>6, <1>7 DEF SearchInv

LEMMA UpdateBatchKeeps == ASSUME SearchAssumption, SearchInv, NEW id \in MessageIds, UpdateBatch(id) PROVE SearchInv'
<1>1. SearchTyped'
  <2>1. DatabaseTyped'
    BY DEF SearchAssumption, SearchInv, SearchTyped, DatabaseTyped, UpdateBatch, database
  <2>2. ActivityTyped'
    <3>1. rows[id] \in Nat
      BY DEF SearchInv, SearchTyped, DatabaseTyped
    <3>2. pending' \in Versions
      BY <3>1 DEF SearchInv, SearchTyped, ActivityTyped, Versions, UpdateBatch
    <3>3. operation' \in OperationRow
      BY DEF SearchInv, SearchTyped, ActivityTyped, OperationRow, UpdateBatch
    <3> QED BY <3>2, <3>3 DEF SearchInv, SearchTyped, ActivityTyped, UpdateBatch
  <2>3. ClosuresTyped'
    BY DEF SearchInv, SearchTyped, ActivityTyped, ClosuresTyped, UpdateBatch, database, late
  <2> QED BY <2>1, <2>2, <2>3 DEF SearchTyped
<1>2. PayloadInv'
  BY SearchRows DEF SearchAssumption, SearchInv, SearchTyped, DatabaseTyped, ActivityTyped, ClosuresTyped, PayloadInv, ClosureRow, Bindings, UpdateBatch, late, database, index
<1>3. IndexInv'
  BY DEF SearchAssumption, SearchInv, SearchTyped, DatabaseTyped, ActivityTyped, PayloadInv, IndexInv, ClosureInv, Bound, AgreesBut, Nothing, OperationRow, ScanRow, Versions, Bindings, UpdateBatch, late, database, index
<1>4. ClosureInv'
  BY DEF SearchAssumption, SearchInv, SearchTyped, DatabaseTyped, ActivityTyped, ClosuresTyped, ClosureRow, IndexInv, ClosureInv, Timely, AgreesBut, OperationRow, UpdateBatch, late, database, index
<1>5. ScanInv'
  BY DEF SearchAssumption, SearchInv, SearchTyped, DatabaseTyped, ActivityTyped, ScanInv, ScanRow, Versions, UpdateBatch, late, database, index
<1>6. AnswerInv'
  BY DEF SearchInv, AnswerInv, ReadsAreSnapshots, UpdateBatch, late, database, index
<1>7. ReadsAreSnapshots'
  BY DEF SearchAssumption, SearchInv, SearchTyped, DatabaseTyped, ActivityTyped, IndexInv, AnswerInv, ReadsAreSnapshots, UpdateBatch, late, database, index
<1> QED BY <1>1, <1>2, <1>3, <1>4, <1>5, <1>6, <1>7 DEF SearchInv

LEMMA CommitIndexKeeps == ASSUME SearchAssumption, SearchInv, CommitIndex PROVE SearchInv'
<1>1. SearchTyped'
  <2>1. DatabaseTyped'
    BY DEF SearchAssumption, SearchInv, SearchTyped, DatabaseTyped, CommitIndex, database
  <2>2. ActivityTyped'
    <3>1. Here \in Bindings
      BY DEF SearchInv, SearchTyped, DatabaseTyped, Here, Bindings
    <3>2. operation' \in OperationRow
      BY DEF SearchInv, SearchTyped, ActivityTyped, OperationRow, CommitIndex
    <3> QED BY <3>1, <3>2 DEF SearchInv, SearchTyped, ActivityTyped, CommitIndex
  <2>3. ClosuresTyped'
    BY DEF SearchInv, SearchTyped, ActivityTyped, ClosuresTyped, CommitIndex, database, late
  <2> QED BY <2>1, <2>2, <2>3 DEF SearchTyped
<1>2. PayloadInv'
  BY SearchRows DEF SearchAssumption, SearchInv, SearchTyped, DatabaseTyped, ActivityTyped, ClosuresTyped, PayloadInv, ClosureRow, Bindings, CommitIndex, Here, late, database, index
<1>3. IndexInv'
  BY DEF SearchAssumption, SearchInv, SearchTyped, DatabaseTyped, ActivityTyped, PayloadInv, IndexInv, ClosureInv, Bound, AgreesBut, Nothing, OperationRow, ScanRow, Versions, Bindings, CommitIndex, Here, late, database, index
<1>4. ClosureInv'
  BY DEF SearchAssumption, SearchInv, SearchTyped, DatabaseTyped, ActivityTyped, ClosuresTyped, ClosureRow, IndexInv, ClosureInv, Timely, AgreesBut, OperationRow, CommitIndex, Here, late, database, index
<1>5. ScanInv'
  BY DEF SearchAssumption, SearchInv, SearchTyped, DatabaseTyped, ActivityTyped, ScanInv, ScanRow, Versions, CommitIndex, Here, late, database, index
<1>6. AnswerInv'
  BY DEF SearchInv, AnswerInv, ReadsAreSnapshots, CommitIndex, Here, late, database, index
<1>7. ReadsAreSnapshots'
  BY DEF SearchAssumption, SearchInv, SearchTyped, DatabaseTyped, ActivityTyped, IndexInv, AnswerInv, ReadsAreSnapshots, CommitIndex, Here, late, database, index
<1> QED BY <1>1, <1>2, <1>3, <1>4, <1>5, <1>6, <1>7 DEF SearchInv

LEMMA QueryIndexKeeps == ASSUME SearchAssumption, SearchInv, QueryIndex PROVE SearchInv'
<1>1. SearchTyped'
  <2>1. DatabaseTyped'
    BY DEF SearchAssumption, SearchInv, SearchTyped, DatabaseTyped, QueryIndex, database
  <2>2. ActivityTyped'
    BY SearchRows DEF SearchInv, SearchTyped, ActivityTyped, QueryIndex, OperationRow, database, index
  <2>3. ClosuresTyped'
    BY DEF SearchInv, SearchTyped, ActivityTyped, ClosuresTyped, QueryIndex, database, late
  <2> QED BY <2>1, <2>2, <2>3 DEF SearchTyped
<1>2. PayloadInv'
  BY SearchRows DEF SearchAssumption, SearchInv, SearchTyped, DatabaseTyped, ActivityTyped, ClosuresTyped, PayloadInv, ClosureRow, Bindings, QueryIndex, late, database, index
<1>3. IndexInv'
  BY DEF SearchAssumption, SearchInv, SearchTyped, DatabaseTyped, ActivityTyped, PayloadInv, IndexInv, ClosureInv, Bound, AgreesBut, Nothing, OperationRow, ScanRow, Versions, Bindings, QueryIndex, late, database, index
<1>4. ClosureInv'
  BY DEF SearchAssumption, SearchInv, SearchTyped, DatabaseTyped, ActivityTyped, ClosuresTyped, ClosureRow, IndexInv, ClosureInv, Timely, AgreesBut, OperationRow, QueryIndex, late, database, index
<1>5. ScanInv'
  BY DEF SearchAssumption, SearchInv, SearchTyped, DatabaseTyped, ActivityTyped, ScanInv, ScanRow, Versions, QueryIndex, late, database, index
<1>6. AnswerInv'
  BY DEF SearchInv, AnswerInv, ReadsAreSnapshots, QueryIndex, late, database, index
<1>7. ReadsAreSnapshots'
  BY DEF SearchAssumption, SearchInv, SearchTyped, DatabaseTyped, ActivityTyped, IndexInv, AnswerInv, ReadsAreSnapshots, QueryIndex, late, database, index
<1> QED BY <1>1, <1>2, <1>3, <1>4, <1>5, <1>6, <1>7 DEF SearchInv

LEMMA CommitOperationKeeps == ASSUME SearchAssumption, SearchInv, CommitOperation PROVE SearchInv'
<1>1. SearchTyped'
  <2>1. DatabaseTyped'
    BY DEF SearchAssumption, SearchInv, SearchTyped, DatabaseTyped, CommitOperation, database
  <2>2. ActivityTyped'
    BY SearchRows DEF SearchInv, SearchTyped, ActivityTyped, CommitOperation, database, index
  <2>3. ClosuresTyped'
    BY DEF SearchInv, SearchTyped, ActivityTyped, ClosuresTyped, CommitOperation, database, late
  <2> QED BY <2>1, <2>2, <2>3 DEF SearchTyped
<1>2. PayloadInv'
  BY SearchRows DEF SearchAssumption, SearchInv, SearchTyped, DatabaseTyped, ActivityTyped, ClosuresTyped, PayloadInv, ClosureRow, Bindings, CommitOperation, NoOperation, NoAnswer, late, database, index
<1>3. IndexInv'
  BY DEF SearchAssumption, SearchInv, SearchTyped, DatabaseTyped, ActivityTyped, PayloadInv, IndexInv, ClosureInv, Bound, AgreesBut, Nothing, OperationRow, ScanRow, Versions, Bindings, CommitOperation, NoOperation, NoAnswer, late, database, index
<1>4. ClosureInv'
  BY DEF SearchAssumption, SearchInv, SearchTyped, DatabaseTyped, ActivityTyped, ClosuresTyped, ClosureRow, IndexInv, ClosureInv, Timely, AgreesBut, OperationRow, CommitOperation, NoOperation, NoAnswer, late, database, index
<1>5. ScanInv'
  BY DEF SearchAssumption, SearchInv, SearchTyped, DatabaseTyped, ActivityTyped, ScanInv, ScanRow, Versions, CommitOperation, NoOperation, NoAnswer, late, database, index
<1>6. AnswerInv'
  BY DEF SearchInv, AnswerInv, ReadsAreSnapshots, CommitOperation, NoOperation, NoAnswer, late, database, index
<1>7. ReadsAreSnapshots'
  BY DEF SearchAssumption, SearchInv, SearchTyped, DatabaseTyped, ActivityTyped, IndexInv, AnswerInv, ReadsAreSnapshots, CommitOperation, NoOperation, NoAnswer, late, database, index
<1> QED BY <1>1, <1>2, <1>3, <1>4, <1>5, <1>6, <1>7 DEF SearchInv

LEMMA CrashSearchKeeps == ASSUME SearchAssumption, SearchInv, CrashSearch PROVE SearchInv'
<1>1. SearchTyped'
  <2>1. DatabaseTyped'
    BY DEF SearchAssumption, SearchInv, SearchTyped, DatabaseTyped, CrashSearch, Stopped, database
  <2>2. ActivityTyped'
    <3>1. mishaps' \in Nat
      BY DEF SearchInv, SearchTyped, ActivityTyped, CrashSearch, Stopped
    <3> QED BY <3>1, SearchRows DEF SearchInv, SearchTyped, ActivityTyped, CrashSearch, Stopped
  <2>3. ClosuresTyped'
    BY DEF SearchInv, SearchTyped, ActivityTyped, ClosuresTyped, CrashSearch, Stopped
  <2> QED BY <2>1, <2>2, <2>3 DEF SearchTyped
<1>2. PayloadInv'
  BY SearchRows DEF SearchAssumption, SearchInv, SearchTyped, DatabaseTyped, ActivityTyped, ClosuresTyped, PayloadInv, ClosureRow, Bindings, CrashSearch, Stopped, NoOperation, NoScan, NoAnswer, late, database, index
<1>3. IndexInv'
  BY DEF SearchAssumption, SearchInv, SearchTyped, DatabaseTyped, ActivityTyped, PayloadInv, IndexInv, ClosureInv, Bound, AgreesBut, Nothing, OperationRow, ScanRow, Versions, Bindings, CrashSearch, Stopped, NoOperation, NoScan, NoAnswer, late, database, index
<1>4. ClosureInv'
  <2>1. detached' = {}
    BY DEF CrashSearch, Stopped
  <2> QED BY <2>1 DEF ClosureInv
<1>5. ScanInv'
  BY DEF SearchAssumption, SearchInv, SearchTyped, DatabaseTyped, ActivityTyped, ScanInv, ScanRow, Versions, CrashSearch, Stopped, NoOperation, NoScan, NoAnswer, late, database, index
<1>6. AnswerInv'
  BY DEF AnswerInv, NoAnswer, CrashSearch, Stopped
<1>7. ReadsAreSnapshots'
  BY DEF ReadsAreSnapshots, NoAnswer, CrashSearch, Stopped
<1> QED BY <1>1, <1>2, <1>3, <1>4, <1>5, <1>6, <1>7 DEF SearchInv

LEMMA RestoreBackupKeeps == ASSUME SearchAssumption, SearchInv, RestoreBackup PROVE SearchInv'
<1>1. SearchTyped'
  <2>1. DatabaseTyped'
    BY DEF SearchAssumption, SearchInv, SearchTyped, DatabaseTyped, Copies, RestoreBackup, Stopped, database
  <2>2. ActivityTyped'
    <3>1. mishaps' \in Nat
      BY DEF SearchInv, SearchTyped, ActivityTyped, RestoreBackup, Stopped
    <3> QED BY <3>1, SearchRows DEF SearchInv, SearchTyped, ActivityTyped, RestoreBackup, Stopped
  <2>3. ClosuresTyped'
    BY DEF SearchInv, SearchTyped, ActivityTyped, ClosuresTyped, RestoreBackup, Stopped
  <2> QED BY <2>1, <2>2, <2>3 DEF SearchTyped
<1>2. PayloadInv'
  BY SearchRows DEF SearchAssumption, SearchInv, SearchTyped, DatabaseTyped, ActivityTyped, ClosuresTyped, PayloadInv, ClosureRow, Bindings, RestoreBackup, Stopped, NoOperation, NoScan, NoAnswer, late, database, index
<1>3. IndexInv'
  BY DEF SearchAssumption, SearchInv, SearchTyped, DatabaseTyped, ActivityTyped, PayloadInv, IndexInv, ClosureInv, Bound, AgreesBut, Nothing, OperationRow, ScanRow, Versions, Bindings, RestoreBackup, Stopped, NoOperation, NoScan, NoAnswer, late, database, index
<1>4. ClosureInv'
  <2>1. detached' = {}
    BY DEF RestoreBackup, Stopped
  <2> QED BY <2>1 DEF ClosureInv
<1>5. ScanInv'
  BY DEF SearchAssumption, SearchInv, SearchTyped, DatabaseTyped, ActivityTyped, ScanInv, ScanRow, Versions, RestoreBackup, Stopped, NoOperation, NoScan, NoAnswer, late, database, index
<1>6. AnswerInv'
  BY DEF AnswerInv, NoAnswer, RestoreBackup, Stopped
<1>7. ReadsAreSnapshots'
  BY DEF ReadsAreSnapshots, NoAnswer, RestoreBackup, Stopped
<1> QED BY <1>1, <1>2, <1>3, <1>4, <1>5, <1>6, <1>7 DEF SearchInv

LEMMA RecoverSearchAtKeeps == ASSUME SearchAssumption, SearchInv, RecoverSearchAt PROVE SearchInv'
<1>1. SearchTyped'
  <2>1. DatabaseTyped'
    BY DEF SearchAssumption, SearchInv, SearchTyped, DatabaseTyped, RecoverSearchAt, database
  <2>2. ActivityTyped'
    BY SearchRows DEF SearchInv, SearchTyped, ActivityTyped, RecoverSearchAt, database, index
  <2>3. ClosuresTyped'
    BY DEF SearchInv, SearchTyped, ActivityTyped, ClosuresTyped, RecoverSearchAt, database, late
  <2> QED BY <2>1, <2>2, <2>3 DEF SearchTyped
<1>2. PayloadInv'
  BY SearchRows DEF SearchAssumption, SearchInv, SearchTyped, DatabaseTyped, ActivityTyped, ClosuresTyped, PayloadInv, ClosureRow, Bindings, RecoverSearchAt, late, database, index
<1>3. IndexInv'
  <2>1. /\ operation'.phase = "idle" /\ health' = "sound" /\ pending' = documents'
        /\ binding'.file = 0 /\ file' = file /\ file # 0
    BY SearchRows DEF SearchInv, SearchTyped, DatabaseTyped, RecoverSearchAt, database
  <2>2. ~Bound'
    BY <2>1 DEF Bound
  <2> QED BY <2>1, <2>2 DEF IndexInv
<1>4. ClosureInv'
  <2>1. detached' = {}
    BY DEF RecoverSearchAt
  <2> QED BY <2>1 DEF ClosureInv
<1>5. ScanInv'
  BY DEF SearchAssumption, SearchInv, SearchTyped, DatabaseTyped, ActivityTyped, ScanInv, ScanRow, Versions, RecoverSearchAt, late, database, index
<1>6. AnswerInv'
  BY DEF SearchInv, AnswerInv, ReadsAreSnapshots, RecoverSearchAt, late, database, index
<1>7. ReadsAreSnapshots'
  BY DEF SearchAssumption, SearchInv, SearchTyped, DatabaseTyped, ActivityTyped, IndexInv, AnswerInv, ReadsAreSnapshots, RecoverSearchAt, late, database, index
<1> QED BY <1>1, <1>2, <1>3, <1>4, <1>5, <1>6, <1>7 DEF SearchInv

LEMMA StartScanKeeps == ASSUME SearchAssumption, SearchInv, StartScan PROVE SearchInv'
<1>1. SearchTyped'
  <2>1. DatabaseTyped'
    BY DEF SearchAssumption, SearchInv, SearchTyped, DatabaseTyped, StartScan, database
  <2>2. ActivityTyped'
    <3>1. source \in Nat
      BY DEF SearchInv, SearchTyped, DatabaseTyped
    <3>2. scan' \in ScanRow
      BY <3>1, SearchRows DEF NoScan, ScanRow, StartScan
    <3> QED BY <3>2 DEF SearchInv, SearchTyped, ActivityTyped, StartScan, index
  <2>3. ClosuresTyped'
    BY DEF SearchInv, SearchTyped, ActivityTyped, ClosuresTyped, StartScan, database, late
  <2> QED BY <2>1, <2>2, <2>3 DEF SearchTyped
<1>2. PayloadInv'
  BY SearchRows DEF SearchAssumption, SearchInv, SearchTyped, DatabaseTyped, ActivityTyped, ClosuresTyped, PayloadInv, ClosureRow, Bindings, StartScan, NoScan, NoAnswer, late, database, index
<1>3. IndexInv'
  BY DEF SearchAssumption, SearchInv, SearchTyped, DatabaseTyped, ActivityTyped, PayloadInv, IndexInv, ClosureInv, Bound, AgreesBut, Nothing, OperationRow, ScanRow, Versions, Bindings, StartScan, NoScan, NoAnswer, late, database, index
<1>4. ClosureInv'
  BY DEF SearchAssumption, SearchInv, SearchTyped, DatabaseTyped, ActivityTyped, ClosuresTyped, ClosureRow, IndexInv, ClosureInv, Timely, AgreesBut, OperationRow, StartScan, NoScan, NoAnswer, late, database, index
<1>5. ScanInv'
  BY DEF SearchAssumption, SearchInv, SearchTyped, DatabaseTyped, ActivityTyped, ScanInv, ScanRow, Versions, StartScan, NoScan, NoAnswer, late, database, index
<1>6. AnswerInv'
  BY DEF SearchInv, AnswerInv, ReadsAreSnapshots, StartScan, NoScan, NoAnswer, late, database, index
<1>7. ReadsAreSnapshots'
  BY DEF SearchAssumption, SearchInv, SearchTyped, DatabaseTyped, ActivityTyped, IndexInv, AnswerInv, ReadsAreSnapshots, StartScan, NoScan, NoAnswer, late, database, index
<1> QED BY <1>1, <1>2, <1>3, <1>4, <1>5, <1>6, <1>7 DEF SearchInv

LEMMA ScanBatchKeeps == ASSUME SearchAssumption, SearchInv, NEW id \in MessageIds, ScanBatch(id) PROVE SearchInv'
<1>1. SearchTyped'
  <2>1. DatabaseTyped'
    BY DEF SearchAssumption, SearchInv, SearchTyped, DatabaseTyped, ScanBatch, database
  <2>2. ActivityTyped'
    <3>1. id \in Nat /\ rows[id] \in Nat /\ scan.seen \in Versions
      BY DEF SearchAssumption, SearchInv, SearchTyped, DatabaseTyped, ActivityTyped, ScanRow
    <3>2. PICK seen : seen = [scan.seen EXCEPT ![id] = rows[id]]
      OBVIOUS
    <3>3. seen \in Versions
      BY <3>1, <3>2 DEF Versions
    <3>4. scan' = [scan EXCEPT !.cursor = id, !.seen = seen] /\ scan' \in ScanRow
      BY <3>1, <3>2, <3>3 DEF SearchInv, SearchTyped, ActivityTyped, ScanBatch, ScanRow
    <3> QED BY <3>4 DEF SearchInv, SearchTyped, ActivityTyped, ScanBatch, index
  <2>3. ClosuresTyped'
    BY DEF SearchInv, SearchTyped, ActivityTyped, ClosuresTyped, ScanBatch, database, late
  <2> QED BY <2>1, <2>2, <2>3 DEF SearchTyped
<1>2. PayloadInv'
  BY SearchRows DEF SearchAssumption, SearchInv, SearchTyped, DatabaseTyped, ActivityTyped, ClosuresTyped, PayloadInv, ClosureRow, Bindings, ScanBatch, late, database, index
<1>3. IndexInv'
  BY DEF SearchAssumption, SearchInv, SearchTyped, DatabaseTyped, ActivityTyped, PayloadInv, IndexInv, ClosureInv, Bound, AgreesBut, Nothing, OperationRow, ScanRow, Versions, Bindings, ScanBatch, late, database, index
<1>4. ClosureInv'
  BY DEF SearchAssumption, SearchInv, SearchTyped, DatabaseTyped, ActivityTyped, ClosuresTyped, ClosureRow, IndexInv, ClosureInv, Timely, AgreesBut, OperationRow, ScanBatch, late, database, index
<1>5. ScanInv'
  BY DEF SearchAssumption, SearchInv, SearchTyped, DatabaseTyped, ActivityTyped, ScanInv, ScanRow, Versions, ScanBatch, late, database, index
<1>6. AnswerInv'
  BY DEF SearchInv, AnswerInv, ReadsAreSnapshots, ScanBatch, late, database, index
<1>7. ReadsAreSnapshots'
  BY DEF SearchAssumption, SearchInv, SearchTyped, DatabaseTyped, ActivityTyped, IndexInv, AnswerInv, ReadsAreSnapshots, ScanBatch, late, database, index
<1> QED BY <1>1, <1>2, <1>3, <1>4, <1>5, <1>6, <1>7 DEF SearchInv

LEMMA EndScanKeeps == ASSUME SearchAssumption, SearchInv, EndScan PROVE SearchInv'
<1>1. SearchTyped'
  <2>1. DatabaseTyped'
    BY DEF SearchAssumption, SearchInv, SearchTyped, DatabaseTyped, EndScan, database
  <2>2. ActivityTyped'
    BY SearchRows DEF SearchInv, SearchTyped, ActivityTyped, EndScan, database, index
  <2>3. ClosuresTyped'
    BY DEF SearchInv, SearchTyped, ActivityTyped, ClosuresTyped, EndScan, database, late
  <2> QED BY <2>1, <2>2, <2>3 DEF SearchTyped
<1>2. PayloadInv'
  BY SearchRows DEF SearchAssumption, SearchInv, SearchTyped, DatabaseTyped, ActivityTyped, ClosuresTyped, PayloadInv, ClosureRow, Bindings, EndScan, NoScan, late, database, index
<1>3. IndexInv'
  BY DEF SearchAssumption, SearchInv, SearchTyped, DatabaseTyped, ActivityTyped, PayloadInv, IndexInv, ClosureInv, Bound, AgreesBut, Nothing, OperationRow, ScanRow, Versions, Bindings, EndScan, NoScan, late, database, index
<1>4. ClosureInv'
  BY DEF SearchAssumption, SearchInv, SearchTyped, DatabaseTyped, ActivityTyped, ClosuresTyped, ClosureRow, IndexInv, ClosureInv, Timely, AgreesBut, OperationRow, EndScan, NoScan, late, database, index
<1>5. ScanInv'
  BY DEF SearchAssumption, SearchInv, SearchTyped, DatabaseTyped, ActivityTyped, ScanInv, ScanRow, Versions, EndScan, NoScan, late, database, index
<1>6. AnswerInv'
  BY DEF SearchInv, AnswerInv, ReadsAreSnapshots, EndScan, NoScan, late, database, index
<1>7. ReadsAreSnapshots'
  <2>1. CASE source = scan.fence
    <3>1. \A id \in MessageIds : scan.seen[id] = rows[id]
      BY <2>1 DEF SearchInv, ScanInv, EndScan
    <3>2. scan.seen = rows
      BY <3>1 DEF SearchInv, SearchTyped, DatabaseTyped, ActivityTyped, ScanRow, Versions
    <3> QED BY <2>1, <3>2 DEF EndScan, SearchInv, ReadsAreSnapshots, late
  <2>2. CASE source # scan.fence
    BY <2>2 DEF EndScan, SearchInv, ReadsAreSnapshots, late
  <2> QED BY <2>1, <2>2
<1> QED BY <1>1, <1>2, <1>3, <1>4, <1>5, <1>6, <1>7 DEF SearchInv

LEMMA ScanFencedKeeps == ASSUME SearchAssumption, SearchInv, ScanFenced PROVE SearchInv'
<1>1. SearchTyped'
  <2>1. DatabaseTyped'
    BY DEF SearchAssumption, SearchInv, SearchTyped, DatabaseTyped, ScanFenced, database
  <2>2. ActivityTyped'
    BY SearchRows DEF SearchInv, SearchTyped, ActivityTyped, ScanFenced, database, index
  <2>3. ClosuresTyped'
    BY DEF SearchInv, SearchTyped, ActivityTyped, ClosuresTyped, ScanFenced, database, late
  <2> QED BY <2>1, <2>2, <2>3 DEF SearchTyped
<1>2. PayloadInv'
  BY SearchRows DEF SearchAssumption, SearchInv, SearchTyped, DatabaseTyped, ActivityTyped, ClosuresTyped, PayloadInv, ClosureRow, Bindings, ScanFenced, NoScan, late, database, index
<1>3. IndexInv'
  BY DEF SearchAssumption, SearchInv, SearchTyped, DatabaseTyped, ActivityTyped, PayloadInv, IndexInv, ClosureInv, Bound, AgreesBut, Nothing, OperationRow, ScanRow, Versions, Bindings, ScanFenced, NoScan, late, database, index
<1>4. ClosureInv'
  BY DEF SearchAssumption, SearchInv, SearchTyped, DatabaseTyped, ActivityTyped, ClosuresTyped, ClosureRow, IndexInv, ClosureInv, Timely, AgreesBut, OperationRow, ScanFenced, NoScan, late, database, index
<1>5. ScanInv'
  BY DEF SearchAssumption, SearchInv, SearchTyped, DatabaseTyped, ActivityTyped, ScanInv, ScanRow, Versions, ScanFenced, NoScan, late, database, index
<1>6. AnswerInv'
  BY DEF SearchInv, AnswerInv, ReadsAreSnapshots, ScanFenced, NoScan, late, database, index
<1>7. ReadsAreSnapshots'
  BY DEF SearchAssumption, SearchInv, SearchTyped, DatabaseTyped, ActivityTyped, IndexInv, AnswerInv, ReadsAreSnapshots, ScanFenced, NoScan, late, database, index
<1> QED BY <1>1, <1>2, <1>3, <1>4, <1>5, <1>6, <1>7 DEF SearchInv

LEMMA ResetIndexKeeps == ASSUME SearchAssumption, SearchInv, ResetIndex PROVE SearchInv'
<1>1. SearchTyped'
  <2>1. DatabaseTyped'
    BY DEF SearchAssumption, SearchInv, SearchTyped, DatabaseTyped, ResetIndex, database
  <2>2. ActivityTyped'
    BY SearchRows DEF SearchInv, SearchTyped, ActivityTyped, ResetIndex, OperationRow, Nothing, database, index
  <2>3. ClosuresTyped'
    BY DEF SearchInv, SearchTyped, ActivityTyped, ClosuresTyped, ResetIndex, database, late
  <2> QED BY <2>1, <2>2, <2>3 DEF SearchTyped
<1>2. PayloadInv'
  BY SearchRows DEF SearchAssumption, SearchInv, SearchTyped, DatabaseTyped, ActivityTyped, ClosuresTyped, PayloadInv, ClosureRow, Bindings, ResetIndex, late, database, index
<1>3. IndexInv'
  <2>1. \A id \in MessageIds \ operation.todo : rows[id] = 0
    BY DEF SearchInv, IndexInv, SearchTyped, DatabaseTyped, ActivityTyped, ResetIndex
  <2>2. operation'.phase = "batches" /\ operation'.todo = operation.todo /\ needsRebuild /\ health' # "spoilt"
    BY DEF SearchInv, IndexInv, SearchTyped, ActivityTyped, OperationRow, ResetIndex
  <2> QED BY <2>1, <2>2 DEF SearchInv, IndexInv, Bound, AgreesBut, Nothing, ResetIndex, database
<1>4. ClosureInv'
  <2>1. \A c \in detached' : ~Timely(c)'
    BY DEF SearchInv, SearchTyped, ActivityTyped, ClosuresTyped, ClosureRow, Timely, ResetIndex
  <2> QED BY <2>1 DEF ClosureInv
<1>5. ScanInv'
  BY DEF SearchAssumption, SearchInv, SearchTyped, DatabaseTyped, ActivityTyped, ScanInv, ScanRow, Versions, ResetIndex, late, database, index
<1>6. AnswerInv'
  BY DEF SearchInv, AnswerInv, ReadsAreSnapshots, ResetIndex, late, database, index
<1>7. ReadsAreSnapshots'
  BY DEF SearchAssumption, SearchInv, SearchTyped, DatabaseTyped, ActivityTyped, IndexInv, AnswerInv, ReadsAreSnapshots, ResetIndex, late, database, index
<1> QED BY <1>1, <1>2, <1>3, <1>4, <1>5, <1>6, <1>7 DEF SearchInv

LEMMA ChangeKeeps == ASSUME SearchAssumption, SearchInv, NEW ids \in SUBSET MessageIds, Change(ids) PROVE SearchInv'
<1>1. SearchTyped'
  <2>1. DatabaseTyped'
    <3>1. writes \in Nat /\ source \in Nat /\ source <= writes /\ writes < MaxWrites /\ MaxWrites \in Nat
      BY DEF SearchInv, SearchTyped, DatabaseTyped, Change, SearchAssumption
    <3>2. rows' \in [MessageIds -> 0..MaxWrites]
      BY <3>1 DEF SearchInv, SearchTyped, DatabaseTyped, Change
    <3>3. backup.source \in Nat /\ backup.source <= writes /\ backup.acknowledged <= backup.source
      BY DEF SearchInv, SearchTyped, DatabaseTyped, Copies
    <3> QED BY <3>1, <3>2, <3>3 DEF SearchInv, SearchTyped, DatabaseTyped, Change
  <2>2. ActivityTyped'
    BY SearchRows DEF SearchInv, SearchTyped, ActivityTyped, Change, database, index
  <2>3. ClosuresTyped'
    BY DEF SearchInv, SearchTyped, ActivityTyped, ClosuresTyped, Change, database, late
  <2> QED BY <2>1, <2>2, <2>3 DEF SearchTyped
<1>2. PayloadInv'
  BY SearchRows DEF SearchAssumption, SearchInv, SearchTyped, DatabaseTyped, ActivityTyped, ClosuresTyped, PayloadInv, ClosureRow, Bindings, Change, late, database, index
<1>3. IndexInv'
  BY DEF SearchAssumption, SearchInv, SearchTyped, DatabaseTyped, ActivityTyped, PayloadInv, IndexInv, ClosureInv, Bound, AgreesBut, Nothing, OperationRow, ScanRow, Versions, Bindings, Change, late, database, index
<1>4. ClosureInv'
  BY DEF SearchAssumption, SearchInv, SearchTyped, DatabaseTyped, ActivityTyped, ClosuresTyped, ClosureRow, IndexInv, ClosureInv, Timely, AgreesBut, OperationRow, Change, late, database, index
<1>5. ScanInv'
  BY DEF SearchAssumption, SearchInv, SearchTyped, DatabaseTyped, ActivityTyped, ScanInv, ScanRow, Versions, Change, late, database, index
<1>6. AnswerInv'
  BY DEF SearchInv, AnswerInv, ReadsAreSnapshots, Change, late, database, index
<1>7. ReadsAreSnapshots'
  BY DEF SearchAssumption, SearchInv, SearchTyped, DatabaseTyped, ActivityTyped, IndexInv, AnswerInv, ReadsAreSnapshots, Change, late, database, index
<1> QED BY <1>1, <1>2, <1>3, <1>4, <1>5, <1>6, <1>7 DEF SearchInv

LEMMA SearchBeginKeeps == ASSUME SearchAssumption, SearchInv, NEW search \in BOOLEAN, NEW force \in BOOLEAN, Begin(search, force) PROVE SearchInv'
<1>1. SearchTyped'
  <2>1. DatabaseTyped'
    BY DEF SearchAssumption, SearchInv, SearchTyped, DatabaseTyped, Begin, database
  <2>2. ActivityTyped'
    <3>1. CASE ~force /\ ~needsRebuild /\ Bound /\ source = acknowledged /\ dirty = {}
      <4>1. operation' = [NoOperation EXCEPT !.phase = "query", !.search = search] /\ UNCHANGED needsRebuild
        BY <3>1 DEF Begin
      <4>2. operation' \in OperationRow
        BY <4>1 DEF OperationRow, NoOperation
      <4> QED BY <4>1, <4>2 DEF SearchInv, SearchTyped, ActivityTyped, Begin
    <3>2. CASE force \/ needsRebuild \/ ~Bound \/ (source # acknowledged /\ dirty = {})
      <4>1. operation' = [phase |-> "reset", search |-> search, rebuild |-> TRUE, todo |-> {id \in MessageIds : rows[id] # 0}]
            /\ needsRebuild' = TRUE
        BY <3>2 DEF Begin, Distrust
      <4>2. operation' \in OperationRow
        BY <4>1 DEF OperationRow
      <4> QED BY <4>1, <4>2 DEF SearchInv, SearchTyped, ActivityTyped, Begin
    <3>3. CASE ~force /\ ~needsRebuild /\ Bound /\ ~(source # acknowledged /\ dirty = {}) /\ ~(source = acknowledged /\ dirty = {})
      <4>1. operation' = [phase |-> "batches", search |-> search, rebuild |-> FALSE, todo |-> dirty] /\ needsRebuild' = TRUE
        BY <3>3 DEF Begin, Distrust
      <4>2. operation' \in OperationRow
        BY <4>1 DEF SearchInv, SearchTyped, DatabaseTyped, OperationRow
      <4> QED BY <4>1, <4>2 DEF SearchInv, SearchTyped, ActivityTyped, Begin
    <3> QED BY <3>1, <3>2, <3>3
  <2>3. ClosuresTyped'
    BY DEF SearchInv, SearchTyped, ActivityTyped, ClosuresTyped, Begin, database, late
  <2> QED BY <2>1, <2>2, <2>3 DEF SearchTyped
<1>2. PayloadInv'
  BY SearchRows DEF SearchAssumption, SearchInv, SearchTyped, DatabaseTyped, ActivityTyped, ClosuresTyped, PayloadInv, ClosureRow, Bindings, Begin, Distrust, NoOperation, late, database, index
<1>3. IndexInv'
  <2>1. operation.phase = "idle"
    BY DEF Begin
  <2>2. CASE ~force /\ ~needsRebuild /\ Bound /\ source = acknowledged /\ dirty = {}
    <3>1. operation' = [NoOperation EXCEPT !.phase = "query", !.search = search] /\ UNCHANGED needsRebuild
      BY <2>2 DEF Begin
    <3>2. operation'.phase = "query"
      BY <3>1 DEF NoOperation
    <3>3. health = "sound" => documents = rows
      <4>1. health = "sound" => \A id \in MessageIds : documents[id] = rows[id]
        BY <2>2 DEF SearchInv, IndexInv, AgreesBut
      <4> QED BY <4>1 DEF SearchInv, SearchTyped, DatabaseTyped, ActivityTyped, Versions
    <3> QED BY <2>1, <2>2, <3>1, <3>2, <3>3 DEF SearchInv, IndexInv, Bound, AgreesBut, Begin, late, database
  <2>3. CASE force \/ needsRebuild \/ ~Bound \/ (source # acknowledged /\ dirty = {})
    <3>1. /\ operation'.phase = "reset" /\ needsRebuild' /\ operation'.todo = {id \in MessageIds : rows[id] # 0}
      BY <2>3 DEF Begin, Distrust
    <3> QED BY <2>1, <3>1 DEF SearchInv, IndexInv, Bound, AgreesBut, Begin, late, database
  <2>4. CASE ~force /\ ~needsRebuild /\ Bound /\ ~(source # acknowledged /\ dirty = {}) /\ ~(source = acknowledged /\ dirty = {})
    <3>1. operation'.phase = "batches" /\ needsRebuild' /\ operation'.todo = dirty
      BY <2>4 DEF Begin, Distrust
    <3>2. health \in {"sound", "spoilt"}
      BY <2>4 DEF SearchInv, SearchTyped, ClosuresTyped, IndexInv
    <3>3. health = "sound" => pending = documents /\ AgreesBut(documents, dirty)
      BY <2>4 DEF SearchInv, IndexInv
    <3> QED BY <2>1, <2>4, <3>1, <3>2, <3>3 DEF SearchInv, IndexInv, Bound, AgreesBut, Begin, late, database
  <2> QED BY <2>2, <2>3, <2>4
<1>4. ClosureInv'
  <2>1. needsRebuild => operation'.phase = "reset" /\ needsRebuild'
    BY DEF Begin, Distrust
  <2> QED BY <2>1 DEF SearchInv, ClosureInv, Timely, AgreesBut, Begin, late, database
<1>5. ScanInv'
  BY DEF SearchAssumption, SearchInv, SearchTyped, DatabaseTyped, ActivityTyped, ScanInv, ScanRow, Versions, Begin, Distrust, NoOperation, late, database, index
<1>6. AnswerInv'
  BY DEF SearchInv, AnswerInv, Begin
<1>7. ReadsAreSnapshots'
  BY DEF SearchInv, ReadsAreSnapshots, Begin, late
<1> QED BY <1>1, <1>2, <1>3, <1>4, <1>5, <1>6, <1>7 DEF SearchInv

LEMMA DetachedRunsKeeps == ASSUME SearchAssumption, SearchInv, NEW c \in detached, DetachedRuns(c) PROVE SearchInv'
<1>1. SearchTyped'
  <2>1. DatabaseTyped'
    BY DEF SearchAssumption, SearchInv, SearchTyped, DatabaseTyped, DetachedRuns, database
  <2>2. ActivityTyped'
    <3>1. /\ c \in ClosureRow /\ pending \in Versions /\ documents \in Versions /\ Nothing \in Versions
          /\ binding \in Bindings
      BY SearchRows DEF SearchInv, SearchTyped, ActivityTyped, ClosuresTyped
    <3>2. c.version \in Nat /\ c.binding \in Bindings
      BY <3>1 DEF ClosureRow
    <3>3. pending' \in Versions
      BY <3>1, <3>2 DEF DetachedRuns, Versions
    <3>4. documents' \in Versions /\ binding' \in Bindings
      BY <3>1, <3>2 DEF DetachedRuns
    <3> QED BY <3>3, <3>4 DEF SearchInv, SearchTyped, ActivityTyped, DetachedRuns
  <2>3. ClosuresTyped'
    BY DEF SearchInv, SearchTyped, ActivityTyped, ClosuresTyped, ClosureRow, DetachedRuns
  <2> QED BY <2>1, <2>2, <2>3 DEF SearchTyped
<1>2. PayloadInv'
  BY DEF SearchInv, PayloadInv, DetachedRuns, database
<1>3. IndexInv'
  <2>1. CASE ~Timely(c)
    <3>1. health' = "spoilt" /\ UNCHANGED <<operation, needsRebuild, rows>>
      BY <2>1 DEF SearchInv, SearchTyped, ClosuresTyped, ClosureRow, Timely, DetachedRuns, database
    <3> QED BY <3>1 DEF SearchInv, IndexInv
  <2>2. CASE Timely(c)
    <3>1. UNCHANGED <<health, database, operation, needsRebuild>>
      BY <2>2 DEF SearchInv, SearchTyped, ClosuresTyped, ClosureRow, Timely, DetachedRuns
    <3>2. needsRebuild /\ operation.phase \in {"idle", "reset"}
      BY <2>2 DEF SearchInv, ClosureInv
    <3>3. CASE c.kind = "commit"
      <4>1. documents' = pending /\ binding' = c.binding
        BY <3>3 DEF DetachedRuns
      <4>2. health = "sound" /\ Bound' => AgreesBut(documents, dirty)'
        <5>1. health = "sound" /\ c.binding = [file |-> file, revision |-> acknowledged] => AgreesBut(pending, dirty)
          BY <2>2, <3>3 DEF SearchInv, ClosureInv
        <5> QED BY <3>1, <4>1, <5>1 DEF Bound, AgreesBut, database
      <4> QED BY <3>1, <3>2, <4>2 DEF SearchInv, IndexInv, database
    <3>4. CASE c.kind # "commit"
      <4>1. UNCHANGED <<documents, binding>>
        BY <3>4 DEF DetachedRuns
      <4> QED BY <3>1, <3>2, <4>1 DEF SearchInv, IndexInv, Bound, AgreesBut, database
    <3> QED BY <3>3, <3>4
  <2> QED BY <2>1, <2>2
<1>4. ClosureInv'
  <2>1. /\ detached' \subseteq detached /\ c \notin detached'
        /\ UNCHANGED <<database, operation, needsRebuild>>
    BY DEF DetachedRuns
  <2>2. \A d \in detached' : Timely(d)' => Timely(d)
    BY <2>1 DEF SearchInv, SearchTyped, ClosuresTyped, ClosureRow, Timely, DetachedRuns
  <2>3. \A d \in detached' : Timely(d)' => needsRebuild' /\ operation'.phase \in {"idle", "reset"}
    BY <2>1, <2>2 DEF SearchInv, ClosureInv
  <2>4. \A d, e \in detached' : Timely(d)' /\ Timely(e)' /\ d.kind # "reset" /\ e # d => e.kind = "reset" /\ e.nr > d.nr
    BY <2>1, <2>2 DEF SearchInv, ClosureInv
  <2>5. ASSUME NEW d \in detached', health' = "sound", Timely(d)', d.kind = "commit",
               d.binding = [file |-> file', revision |-> acknowledged']
        PROVE  AgreesBut(pending, dirty)'
    <3>1. d \in detached /\ d # c /\ Timely(d) /\ d.nr \in Nat /\ c.nr \in Nat /\ lastReset \in Nat
      BY <2>1, <2>2, <2>5 DEF SearchInv, SearchTyped, ClosuresTyped, ClosureRow
    <3>2. Timely(c) /\ health = "sound"
      BY <2>5, <3>1 DEF DetachedRuns, Timely
    <3>3. c.kind = "reset" /\ c.nr > d.nr
      BY <2>5, <3>1, <3>2 DEF SearchInv, ClosureInv
    <3>4. lastReset' = c.nr
      BY <3>2, <3>3 DEF DetachedRuns, Timely
    <3> QED BY <2>5, <3>1, <3>3, <3>4 DEF Timely
  <2> QED BY <2>3, <2>4, <2>5 DEF ClosureInv
<1>5. ScanInv'
  BY DEF SearchAssumption, SearchInv, SearchTyped, DatabaseTyped, ActivityTyped, ScanInv, ScanRow, Versions, DetachedRuns, late, database, index
<1>6. AnswerInv'
  BY DEF SearchInv, AnswerInv, DetachedRuns
<1>7. ReadsAreSnapshots'
  <2>1. health' = "sound" => health = "sound"
    BY DEF DetachedRuns
  <2> QED BY <2>1 DEF SearchInv, ReadsAreSnapshots, DetachedRuns
<1> QED BY <1>1, <1>2, <1>3, <1>4, <1>5, <1>6, <1>7 DEF SearchInv

LEMMA AbandonKeeps == ASSUME SearchAssumption, SearchInv, NEW left \in {{}} \cup {{c} : c \in Executing}, Abandon(left) PROVE SearchInv'
<1>1. SearchTyped'
  <2>1. DatabaseTyped'
    BY DEF SearchAssumption, SearchInv, SearchTyped, DatabaseTyped, Abandon, database
  <2>2. ActivityTyped'
    BY SearchRows DEF SearchInv, SearchTyped, ActivityTyped, Abandon, database, index
  <2>3. ClosuresTyped'
    <3>1. \A c \in left : c \in ClosureRow /\ c.nr = mishaps + 1
      BY ClosuresRun
    <3>2. /\ mishaps \in Nat /\ mishaps' = mishaps + 1 /\ detached' = detached \cup left
          /\ UNCHANGED <<lastReset, health>>
      BY DEF SearchInv, SearchTyped, ActivityTyped, Abandon, late
    <3>3. \A c \in detached : c \in ClosureRow /\ c.nr \in Nat /\ c.nr <= mishaps
      BY DEF SearchInv, SearchTyped, ClosuresTyped, ClosureRow
    <3>4. \A c \in detached' : c \in ClosureRow /\ c.nr <= mishaps'
      BY <3>1, <3>2, <3>3
    <3> QED BY <3>2, <3>4 DEF SearchInv, SearchTyped, ClosuresTyped
  <2> QED BY <2>1, <2>2, <2>3 DEF SearchTyped
<1>2. PayloadInv'
  <2>1. \A c \in left : c.binding.file <= file /\ c.binding.revision <= MaxWrites
    BY ClosuresRun
  <2> QED BY <2>1 DEF SearchInv, PayloadInv, Abandon, database, index
<1>3. IndexInv'
  <2>1. operation'.phase = "idle" /\ UNCHANGED <<database, index, late>>
    BY SearchRows DEF Abandon
  <2>2. health = "healing" => needsRebuild
    BY DEF SearchInv, IndexInv
  <2> QED BY <2>1, <2>2 DEF SearchInv, IndexInv, Bound, AgreesBut, late, database, index
<1>4. ClosureInv'
  <2>1. operation'.phase = "idle" /\ UNCHANGED <<database, index, late>>
    BY SearchRows DEF Abandon
  <2>2. \A c \in left :
           /\ c.nr = mishaps + 1 /\ needsRebuild
           /\ c.kind \in {"reset", "update", "commit"}
           /\ c.kind # "reset" => operation.phase = "batches"
           /\ c.kind = "commit" /\ health = "sound" => AgreesBut(pending, {})
    BY ClosuresRun DEF ClosureRow
  <2>3. \A c \in detached : /\ c \in ClosureRow /\ c.nr \in Nat /\ c.nr < mishaps + 1
                            /\ Timely(c) => needsRebuild /\ operation.phase # "batches"
    BY DEF SearchInv, SearchTyped, ActivityTyped, ClosuresTyped, ClosureRow, ClosureInv
  <2>4. \A c, d \in left : c = d
    OBVIOUS
  <2>5. detached' = detached \cup left /\ \A c : Timely(c)' <=> Timely(c)
    BY <2>1 DEF Abandon, Timely, late
  <2>6. \A c \in detached' : Timely(c)' => needsRebuild' /\ operation'.phase \in {"idle", "reset"}
    BY <2>1, <2>2, <2>3, <2>5 DEF index
  <2>7. \A c, d \in detached' : Timely(c)' /\ Timely(d)' /\ c.kind # "reset" /\ d # c => d.kind = "reset" /\ d.nr > c.nr
    <3> SUFFICES ASSUME NEW c \in detached', NEW d \in detached', Timely(c), Timely(d), c.kind # "reset", d # c
                 PROVE  d.kind = "reset" /\ d.nr > c.nr
      BY <2>5
    <3>1. CASE c \in detached /\ d \in detached
      BY <3>1 DEF SearchInv, ClosureInv
    <3>2. CASE c \in detached /\ d \in left
      BY <2>2, <2>3, <3>2 DEF SearchInv, ClosureInv
    <3>3. CASE c \in left
      BY <2>2, <2>3, <2>4, <2>5, <3>3
    <3> QED BY <2>5, <3>1, <3>2, <3>3
  <2>8. \A c \in detached' :
           /\ health' = "sound" /\ Timely(c)' /\ c.kind = "commit"
           /\ c.binding = [file |-> file', revision |-> acknowledged']
           => AgreesBut(pending, dirty)'
    <3>1. AgreesBut(pending, {}) => AgreesBut(pending, dirty)
      BY DEF AgreesBut
    <3>2. AgreesBut(pending, dirty)' <=> AgreesBut(pending, dirty)
      BY <2>1 DEF AgreesBut, database, index
    <3> QED BY <2>1, <2>2, <2>5, <3>1, <3>2 DEF SearchInv, ClosureInv, database, late
  <2> QED BY <2>6, <2>7, <2>8 DEF ClosureInv
<1>5. ScanInv'
  BY DEF SearchAssumption, SearchInv, SearchTyped, DatabaseTyped, ActivityTyped, ScanInv, ScanRow, Versions, Abandon, NoOperation, NoAnswer, late, database, index
<1>6. AnswerInv'
  BY DEF AnswerInv, NoAnswer, Abandon
<1>7. ReadsAreSnapshots'
  BY DEF SearchInv, ReadsAreSnapshots, NoAnswer, Abandon
<1> QED BY <1>1, <1>2, <1>3, <1>4, <1>5, <1>6, <1>7 DEF SearchInv

LEMMA SearchStep == SearchAssumption /\ SearchInv /\ [SearchNext]_searchVars => SearchInv'
<1> SUFFICES ASSUME SearchAssumption, SearchInv, [SearchNext]_searchVars PROVE SearchInv'
    OBVIOUS
<1>1. ASSUME UNCHANGED searchVars PROVE SearchInv'
  <2>1. UNCHANGED <<rows, writes, source, acknowledged, dirty, file, backup, mishaps, documents, binding, pending,
                    needsRebuild, operation, detached, lastReset, health, answer, scan, report>>
    BY <1>1 DEF searchVars, database, index, late
  <2>2. SearchTyped' /\ PayloadInv'
    BY <2>1 DEF SearchInv, SearchTyped, DatabaseTyped, ActivityTyped, ClosuresTyped, PayloadInv
  <2>3. IndexInv' /\ ScanInv' /\ AnswerInv' /\ ReadsAreSnapshots'
    BY <2>1 DEF SearchInv, IndexInv, ScanInv, AnswerInv, ReadsAreSnapshots, Bound, AgreesBut
  <2>4. ClosureInv'
    BY <2>1 DEF SearchInv, ClosureInv, Timely, AgreesBut
  <2> QED BY <2>2, <2>3, <2>4 DEF SearchInv
<1>2. ASSUME NEW id \in MessageIds, RecordMessage(id) PROVE SearchInv'
  BY <1>2, ChangeKeeps DEF RecordMessage
<1>3. ASSUME ImportDesktop PROVE SearchInv'
  BY <1>3, ChangeKeeps DEF ImportDesktop
<1> QED
  BY <1>1, <1>2, <1>3, TakeBackupKeeps, UpdateBatchKeeps, CommitIndexKeeps, QueryIndexKeeps, CommitOperationKeeps,
     DetachedRunsKeeps, CrashSearchKeeps, RestoreBackupKeeps, RecoverSearchAtKeeps, StartScanKeeps, ScanBatchKeeps,
     EndScanKeeps, ScanFencedKeeps, ResetIndexKeeps, SearchBeginKeeps, AbandonKeeps DEF SearchNext

LEMMA SearchHolds == SearchAssumption /\ SearchInv => SearchTypeOK /\ ReadsAreSnapshots
<1> SUFFICES ASSUME SearchAssumption, SearchInv PROVE SearchTypeOK /\ ReadsAreSnapshots
    OBVIOUS
<1>1. binding.revision \in 0..MaxWrites
  BY DEF SearchAssumption, SearchInv, SearchTyped, ActivityTyped, PayloadInv, Bindings
<1>2. \A c \in detached : c.kind \in {"reset", "update", "commit"} /\ c.nr \in 1..mishaps
  BY DEF SearchInv, SearchTyped, ActivityTyped, ClosuresTyped, ClosureRow
<1>3. /\ operation.phase \in {"idle", "reset", "batches", "query", "commit"}
      /\ operation.todo \subseteq MessageIds
  BY DEF SearchInv, SearchTyped, ActivityTyped, OperationRow
<1> QED BY <1>1, <1>2, <1>3 DEF SearchInv, SearchTyped, DatabaseTyped, ClosuresTyped, SearchTypeOK

\* Every aggregate, and every search that no late closure could have spoilt, reads one state
\* of the messages (service.rs, engine/mod.rs, filtered.rs), for every number of messages,
\* writes and mishaps.  The proof rests on ClosureInv: a closure that is not late finds the
\* writer distrusted, so nothing is answered from what it does before the next rebuild.
THEOREM ReadsAreAlwaysSnapshots ==
    SearchAssumption => (SearchSpec => [](SearchTypeOK /\ ReadsAreSnapshots))
<1> SUFFICES ASSUME SearchAssumption PROVE SearchSpec => [](SearchTypeOK /\ ReadsAreSnapshots)
    OBVIOUS
<1> QED BY SearchStarts, SearchStep, SearchHolds, PTL DEF SearchSpec

-----------------------------------------------------------------------------
(* Imports of the statistics are owned until they are over. *)

Holders == {"request", "job", "closure"}
AtWork == {"parse", "insert", "committing"}
Rows == {u \in Uploads : jobs[u] # "none"}

\* What is known of one upload: who holds its reservation while it is read, while it
\* is parsed, and while its job has a row that may not be evicted.
UploadInv(u) ==
    /\ upload[u] \in {"reading", "waiting"} => "request" \in intake[u]
    /\ upload[u] \in {"idle", "reading", "waiting"} => task[u] = "none" /\ jobs[u] = "none"
    /\ task[u] \in AtWork => jobs[u] = "running" /\ "job" \in intake[u]
    /\ jobs[u] = "running" => task[u] \in AtWork
    /\ jobs[u] = "done" => u \in imported
    /\ drained => closed /\ task[u] \in {"none", "ended"}

ImportsTyped ==
    /\ intake \in [Uploads -> SUBSET Holders]
    /\ upload \in [Uploads -> {"idle", "reading", "waiting", "gone"}]
    /\ task \in [Uploads -> {"none", "ended"} \cup AtWork]
    /\ jobs \in [Uploads -> {"none", "running", "done", "error"}]

\* Reservations and rows never exceed the capacity.
WithinCapacity ==
    /\ IsFiniteSet(Reserved) /\ Cardinality(Reserved) <= MaxImports
    /\ IsFiniteSet(Rows) /\ Cardinality(Rows) <= MaxImports

ImportsInv == ImportsTyped /\ WithinCapacity /\ \A u \in Uploads : UploadInv(u)

LEMMA ImportsStart == ImportsAssumption /\ ImportsInit => ImportsInv
<1> SUFFICES ASSUME ImportsAssumption, ImportsInit PROVE ImportsInv
    OBVIOUS
<1>1. ImportsTyped /\ \A u \in Uploads : UploadInv(u)
  BY DEF ImportsInit, ImportsTyped, UploadInv, AtWork
<1>2. Reserved = {} /\ Rows = {}
  BY DEF ImportsInit, Reserved, Rows
<1> QED BY <1>1, <1>2, FS_EmptySet DEF ImportsInv, WithinCapacity, ImportsAssumption

\* What holds fewer reservations and the same rows, or fewer, is within the capacity.
LEMMA LessIsWithin ==
    ASSUME ImportsAssumption, WithinCapacity, Reserved' \subseteq Reserved, Rows' \subseteq Rows
    PROVE  WithinCapacity'
<1>1. /\ Cardinality(Reserved) \in Nat /\ Cardinality(Rows) \in Nat /\ MaxImports \in Nat
      /\ IsFiniteSet(Reserved) /\ Cardinality(Reserved) <= MaxImports
      /\ IsFiniteSet(Rows) /\ Cardinality(Rows) <= MaxImports
  BY FS_CardinalityType DEF WithinCapacity, ImportsAssumption
<1>2. /\ IsFiniteSet(Reserved') /\ Cardinality(Reserved') \in Nat
      /\ Cardinality(Reserved') <= Cardinality(Reserved)
  BY <1>1, FS_Subset, FS_CardinalityType
<1>3. IsFiniteSet(Rows') /\ Cardinality(Rows') \in Nat /\ Cardinality(Rows') <= Cardinality(Rows)
  BY <1>1, FS_Subset, FS_CardinalityType
<1>4. /\ IsFiniteSet(Reserved') /\ Cardinality(Reserved') <= MaxImports
      /\ IsFiniteSet(Rows') /\ Cardinality(Rows') <= MaxImports
  BY <1>1, <1>2, <1>3
<1> QED BY <1>4 DEF WithinCapacity

LEMMA OwnerChangesKeeps == ASSUME ImportsAssumption, ImportsInv, OwnerChanges PROVE ImportsInv'
<1>1. ImportsTyped'
  BY DEF ImportsInv, ImportsTyped, Holders, AtWork, OwnerChanges
<1>2. ASSUME NEW v \in Uploads PROVE UploadInv(v)'
  BY DEF ImportsInv, ImportsTyped, Holders, AtWork, UploadInv, OwnerChanges
<1>3. WithinCapacity'
  <2>1. Reserved' \subseteq Reserved /\ Rows' \subseteq Rows
    BY DEF ImportsInv, ImportsTyped, UploadInv, Reserved, Rows, OwnerChanges
  <2> QED BY <2>1, LessIsWithin DEF ImportsInv
<1> QED BY <1>1, <1>2, <1>3 DEF ImportsInv

LEMMA StopAdmissionKeeps == ASSUME ImportsAssumption, ImportsInv, StopAdmission PROVE ImportsInv'
<1>1. ImportsTyped'
  BY DEF ImportsInv, ImportsTyped, Holders, AtWork, StopAdmission
<1>2. ASSUME NEW v \in Uploads PROVE UploadInv(v)'
  BY DEF ImportsInv, ImportsTyped, Holders, AtWork, UploadInv, StopAdmission
<1>3. WithinCapacity'
  <2>1. Reserved' \subseteq Reserved /\ Rows' \subseteq Rows
    BY DEF ImportsInv, ImportsTyped, UploadInv, Reserved, Rows, StopAdmission
  <2> QED BY <2>1, LessIsWithin DEF ImportsInv
<1> QED BY <1>1, <1>2, <1>3 DEF ImportsInv

LEMMA CancelAllKeeps == ASSUME ImportsAssumption, ImportsInv, CancelAll PROVE ImportsInv'
<1>1. ImportsTyped'
  BY DEF ImportsInv, ImportsTyped, Holders, AtWork, CancelAll
<1>2. ASSUME NEW v \in Uploads PROVE UploadInv(v)'
  BY DEF ImportsInv, ImportsTyped, Holders, AtWork, UploadInv, CancelAll
<1>3. WithinCapacity'
  <2>1. Reserved' \subseteq Reserved /\ Rows' \subseteq Rows
    BY DEF ImportsInv, ImportsTyped, UploadInv, Reserved, Rows, CancelAll
  <2> QED BY <2>1, LessIsWithin DEF ImportsInv
<1> QED BY <1>1, <1>2, <1>3 DEF ImportsInv

LEMMA DrainKeeps == ASSUME ImportsAssumption, ImportsInv, Drain PROVE ImportsInv'
<1>1. ImportsTyped'
  BY DEF ImportsInv, ImportsTyped, Holders, AtWork, Drain
<1>2. ASSUME NEW v \in Uploads PROVE UploadInv(v)'
  BY DEF ImportsInv, ImportsTyped, Holders, AtWork, UploadInv, Drain
<1>3. WithinCapacity'
  <2>1. Reserved' \subseteq Reserved /\ Rows' \subseteq Rows
    BY DEF ImportsInv, ImportsTyped, UploadInv, Reserved, Rows, Drain
  <2> QED BY <2>1, LessIsWithin DEF ImportsInv
<1> QED BY <1>1, <1>2, <1>3 DEF ImportsInv

LEMMA ReadByPathKeeps == ASSUME ImportsAssumption, ImportsInv, NEW u \in Uploads, ReadByPath(u) PROVE ImportsInv'
<1>1. ImportsTyped'
  BY DEF ImportsInv, ImportsTyped, Holders, AtWork, ReadByPath, Take
<1>2. ASSUME NEW v \in Uploads PROVE UploadInv(v)'
  BY DEF ImportsInv, ImportsTyped, Holders, AtWork, UploadInv, ReadByPath, Take
<1>3. WithinCapacity'
  <2>1. Reserved' \subseteq Reserved /\ Rows' \subseteq Rows
    BY DEF ImportsInv, ImportsTyped, UploadInv, Reserved, Rows, ReadByPath, Take
  <2> QED BY <2>1, LessIsWithin DEF ImportsInv
<1> QED BY <1>1, <1>2, <1>3 DEF ImportsInv

LEMMA PathReadKeeps == ASSUME ImportsAssumption, ImportsInv, NEW u \in Uploads, PathRead(u) PROVE ImportsInv'
<1>1. ImportsTyped'
  BY DEF ImportsInv, ImportsTyped, Holders, AtWork, PathRead, Drop
<1>2. ASSUME NEW v \in Uploads PROVE UploadInv(v)'
  BY DEF ImportsInv, ImportsTyped, Holders, AtWork, UploadInv, PathRead, Drop
<1>3. WithinCapacity'
  <2>1. Reserved' \subseteq Reserved /\ Rows' \subseteq Rows
    BY DEF ImportsInv, ImportsTyped, UploadInv, Reserved, Rows, PathRead, Drop
  <2> QED BY <2>1, LessIsWithin DEF ImportsInv
<1> QED BY <1>1, <1>2, <1>3 DEF ImportsInv

LEMMA DropRequestKeeps == ASSUME ImportsAssumption, ImportsInv, NEW u \in Uploads, DropRequest(u) PROVE ImportsInv'
<1>1. ImportsTyped'
  BY DEF ImportsInv, ImportsTyped, Holders, AtWork, DropRequest, Drop
<1>2. ASSUME NEW v \in Uploads PROVE UploadInv(v)'
  BY DEF ImportsInv, ImportsTyped, Holders, AtWork, UploadInv, DropRequest, Drop
<1>3. WithinCapacity'
  <2>1. Reserved' \subseteq Reserved /\ Rows' \subseteq Rows
    BY DEF ImportsInv, ImportsTyped, UploadInv, Reserved, Rows, DropRequest, Drop
  <2> QED BY <2>1, LessIsWithin DEF ImportsInv
<1> QED BY <1>1, <1>2, <1>3 DEF ImportsInv

LEMMA RefuseStartKeeps == ASSUME ImportsAssumption, ImportsInv, NEW u \in Uploads, RefuseStart(u) PROVE ImportsInv'
<1>1. ImportsTyped'
  BY DEF ImportsInv, ImportsTyped, Holders, AtWork, RefuseStart, Drop
<1>2. ASSUME NEW v \in Uploads PROVE UploadInv(v)'
  BY DEF ImportsInv, ImportsTyped, Holders, AtWork, UploadInv, RefuseStart, Drop
<1>3. WithinCapacity'
  <2>1. Reserved' \subseteq Reserved /\ Rows' \subseteq Rows
    BY DEF ImportsInv, ImportsTyped, UploadInv, Reserved, Rows, RefuseStart, Drop
  <2> QED BY <2>1, LessIsWithin DEF ImportsInv
<1> QED BY <1>1, <1>2, <1>3 DEF ImportsInv

LEMMA ParseEndsKeeps == ASSUME ImportsAssumption, ImportsInv, NEW u \in Uploads, ParseEnds(u) PROVE ImportsInv'
<1>1. ImportsTyped'
  BY DEF ImportsInv, ImportsTyped, Holders, AtWork, ParseEnds, Held, Drop
<1>2. ASSUME NEW v \in Uploads PROVE UploadInv(v)'
  BY DEF ImportsInv, ImportsTyped, Holders, AtWork, UploadInv, ParseEnds, Held, Drop
<1>3. WithinCapacity'
  <2>1. Reserved' \subseteq Reserved /\ Rows' \subseteq Rows
    BY DEF ImportsInv, ImportsTyped, UploadInv, Reserved, Rows, ParseEnds, Held, Drop
  <2> QED BY <2>1, LessIsWithin DEF ImportsInv
<1> QED BY <1>1, <1>2, <1>3 DEF ImportsInv

LEMMA InsertRowsKeeps == ASSUME ImportsAssumption, ImportsInv, NEW u \in Uploads, InsertRows(u) PROVE ImportsInv'
<1>1. ImportsTyped'
  BY DEF ImportsInv, ImportsTyped, Holders, AtWork, InsertRows
<1>2. ASSUME NEW v \in Uploads PROVE UploadInv(v)'
  BY DEF ImportsInv, ImportsTyped, Holders, AtWork, UploadInv, InsertRows
<1>3. WithinCapacity'
  <2>1. Reserved' \subseteq Reserved /\ Rows' \subseteq Rows
    BY DEF ImportsInv, ImportsTyped, UploadInv, Reserved, Rows, InsertRows
  <2> QED BY <2>1, LessIsWithin DEF ImportsInv
<1> QED BY <1>1, <1>2, <1>3 DEF ImportsInv

LEMMA CommitImportKeeps == ASSUME ImportsAssumption, ImportsInv, NEW u \in Uploads, CommitImport(u) PROVE ImportsInv'
<1>1. ImportsTyped'
  BY DEF ImportsInv, ImportsTyped, Holders, AtWork, CommitImport, EndJob, Drop
<1>2. ASSUME NEW v \in Uploads PROVE UploadInv(v)'
  BY DEF ImportsInv, ImportsTyped, Holders, AtWork, UploadInv, CommitImport, EndJob, Drop
<1>3. WithinCapacity'
  <2>1. Reserved' \subseteq Reserved /\ Rows' \subseteq Rows
    BY DEF ImportsInv, ImportsTyped, UploadInv, Reserved, Rows, CommitImport, EndJob, Drop
  <2> QED BY <2>1, LessIsWithin DEF ImportsInv
<1> QED BY <1>1, <1>2, <1>3 DEF ImportsInv

LEMMA ImportFailsKeeps == ASSUME ImportsAssumption, ImportsInv, NEW u \in Uploads, ImportFails(u) PROVE ImportsInv'
<1>1. ImportsTyped'
  BY DEF ImportsInv, ImportsTyped, Holders, AtWork, ImportFails, EndJob, Drop
<1>2. ASSUME NEW v \in Uploads PROVE UploadInv(v)'
  BY DEF ImportsInv, ImportsTyped, Holders, AtWork, UploadInv, ImportFails, EndJob, Drop
<1>3. WithinCapacity'
  <2>1. Reserved' \subseteq Reserved /\ Rows' \subseteq Rows
    BY DEF ImportsInv, ImportsTyped, UploadInv, Reserved, Rows, ImportFails, EndJob, Drop
  <2> QED BY <2>1, LessIsWithin DEF ImportsInv
<1> QED BY <1>1, <1>2, <1>3 DEF ImportsInv

LEMMA StopImportKeeps == ASSUME ImportsAssumption, ImportsInv, NEW u \in Uploads, NEW committed \in BOOLEAN, StopImport(u, committed) PROVE ImportsInv'
<1>1. ImportsTyped'
  BY DEF ImportsInv, ImportsTyped, Holders, AtWork, StopImport, EndJob, Drop
<1>2. ASSUME NEW v \in Uploads PROVE UploadInv(v)'
  BY DEF ImportsInv, ImportsTyped, Holders, AtWork, UploadInv, StopImport, EndJob, Drop
<1>3. WithinCapacity'
  <2>1. Reserved' \subseteq Reserved /\ Rows' \subseteq Rows
    BY DEF ImportsInv, ImportsTyped, UploadInv, Reserved, Rows, StopImport, EndJob, Drop
  <2> QED BY <2>1, LessIsWithin DEF ImportsInv
<1> QED BY <1>1, <1>2, <1>3 DEF ImportsInv

LEMMA ReserveInputKeeps == ASSUME ImportsAssumption, ImportsInv, NEW u \in Uploads, ReserveInput(u) PROVE ImportsInv'
<1>1. ImportsTyped'
  BY DEF ImportsInv, ImportsTyped, Holders, ReserveInput, Take
<1>2. ASSUME NEW v \in Uploads PROVE UploadInv(v)'
  BY DEF ImportsInv, ImportsTyped, AtWork, UploadInv, ReserveInput, Take
<1>3. WithinCapacity'
  <2>1. Rows' = Rows
    BY DEF ReserveInput, Rows
  <2>2. Reserved' \subseteq Reserved \cup {u}
    BY DEF ImportsInv, ImportsTyped, ReserveInput, Take, Reserved
  <2>3. /\ IsFiniteSet(Reserved) /\ Cardinality(Reserved) \in Nat /\ Cardinality(Reserved) < MaxImports
        /\ MaxImports \in Nat
    BY FS_CardinalityType DEF ImportsInv, WithinCapacity, ReserveInput, ImportsAssumption
  <2>4. IsFiniteSet(Reserved \cup {u}) /\ Cardinality(Reserved \cup {u}) <= Cardinality(Reserved) + 1
    <3>1. CASE u \in Reserved
      <4>1. Reserved \cup {u} = Reserved
        BY <3>1
      <4> QED BY <2>3, <4>1
    <3>2. CASE u \notin Reserved
      <4>1. IsFiniteSet(Reserved \cup {u}) /\ Cardinality(Reserved \cup {u}) = Cardinality(Reserved) + 1
        BY <2>3, <3>2, FS_AddElement
      <4> QED BY <2>3, <4>1
    <3> QED BY <3>1, <3>2
  <2>5. IsFiniteSet(Reserved') /\ Cardinality(Reserved') <= Cardinality(Reserved \cup {u})
        /\ Cardinality(Reserved') \in Nat /\ Cardinality(Reserved \cup {u}) \in Nat
    BY <2>2, <2>4, FS_Subset, FS_CardinalityType
  <2>6. IsFiniteSet(Reserved') /\ Cardinality(Reserved') <= MaxImports
    BY <2>3, <2>4, <2>5
  <2> QED BY <2>1, <2>6 DEF ImportsInv, WithinCapacity
<1> QED BY <1>1, <1>2, <1>3 DEF ImportsInv

\* A job that starts takes a free row, or the row of one that has ended.
LEMMA StartReservedKeeps ==
    ASSUME ImportsAssumption, ImportsInv, NEW u \in Uploads, NEW evicted \in Uploads, StartReserved(u, evicted)
    PROVE  ImportsInv'
<1>1. ImportsTyped'
  BY DEF ImportsInv, ImportsTyped, Holders, AtWork, StartReserved
<1>2. upload[u] = "reading" /\ UploadInv(u) /\ ~closed /\ jobs[u] = "none" /\ task[u] = "none"
  BY DEF ImportsInv, StartReserved, UploadInv
<1>3. evicted = u \/ jobs[evicted] \in {"done", "error"}
  BY DEF StartReserved, Evictable
<1>4. ASSUME NEW v \in Uploads PROVE UploadInv(v)'
  BY <1>2, <1>3 DEF ImportsInv, ImportsTyped, AtWork, UploadInv, StartReserved
<1>5. WithinCapacity'
  <2>1. Reserved' \subseteq Reserved
    BY <1>2 DEF ImportsInv, ImportsTyped, StartReserved, Reserved, UploadInv
  <2>2. /\ IsFiniteSet(Reserved) /\ Cardinality(Reserved) <= MaxImports /\ Cardinality(Reserved) \in Nat
        /\ IsFiniteSet(Rows) /\ Cardinality(Rows) <= MaxImports /\ Cardinality(Rows) \in Nat /\ MaxImports \in Nat
    BY FS_CardinalityType DEF ImportsInv, WithinCapacity, ImportsAssumption
  <2>3. IsFiniteSet(Reserved') /\ Cardinality(Reserved') <= MaxImports
    <3>1. /\ IsFiniteSet(Reserved') /\ Cardinality(Reserved') <= Cardinality(Reserved)
          /\ Cardinality(Reserved') \in Nat
      BY <2>1, <2>2, FS_Subset, FS_CardinalityType
    <3> QED BY <2>2, <3>1
  <2>4. u \notin Rows
    BY <1>2 DEF Rows
  <2>5. IsFiniteSet(Rows') /\ Cardinality(Rows') <= MaxImports
    <3>1. CASE evicted = u
      <4>1. Rows' = Rows \cup {u}
        BY <3>1, <1>2 DEF StartReserved, Rows
      <4>2. Cardinality(Rows) # MaxImports
        BY <1>2, <3>1 DEF StartReserved, TableFull, Evictable, Rows
      <4>3. IsFiniteSet(Rows') /\ Cardinality(Rows') = Cardinality(Rows) + 1
        BY <2>2, <2>4, <4>1, FS_AddElement
      <4> QED BY <2>2, <4>2, <4>3
    <3>2. CASE evicted # u
      <4>1. evicted \in Rows
        BY <1>3, <3>2 DEF Rows
      <4>2. Rows' = (Rows \ {evicted}) \cup {u}
        BY <3>2 DEF StartReserved, Rows
      <4>3. IsFiniteSet(Rows \ {evicted}) /\ Cardinality(Rows \ {evicted}) = Cardinality(Rows) - 1
        BY <2>2, <4>1, FS_RemoveElement
      <4>4. IsFiniteSet(Rows') /\ Cardinality(Rows') = Cardinality(Rows \ {evicted}) + 1
        BY <2>4, <4>2, <4>3, FS_AddElement
      <4> QED BY <2>2, <4>3, <4>4
    <3> QED BY <3>1, <3>2
  <2> QED BY <2>3, <2>5 DEF WithinCapacity
<1> QED BY <1>1, <1>4, <1>5 DEF ImportsInv

LEMMA ImportsStep == ImportsAssumption /\ ImportsInv /\ [ImportsNext]_importVars => ImportsInv'
<1> SUFFICES ASSUME ImportsAssumption, ImportsInv, [ImportsNext]_importVars PROVE ImportsInv'
    OBVIOUS
<1>1. ASSUME UNCHANGED importVars PROVE ImportsInv'
  BY <1>1 DEF ImportsInv, ImportsTyped, UploadInv, WithinCapacity, Reserved, Rows, importVars
<1> QED
  BY <1>1, OwnerChangesKeeps, StopAdmissionKeeps, CancelAllKeeps, DrainKeeps, ReserveInputKeeps, ReadByPathKeeps,
     PathReadKeeps, DropRequestKeeps, RefuseStartKeeps, StartReservedKeeps, ParseEndsKeeps, InsertRowsKeeps,
     CommitImportKeeps, ImportFailsKeeps, StopImportKeeps DEF ImportsNext

\* An upload that is read and a full table of running jobs would be one reservation
\* more than there are.
LEMMA ImportsHold == ImportsAssumption /\ ImportsInv => ImportsTypeOK /\ ImportsAreOwned
<1> SUFFICES ASSUME ImportsAssumption, ImportsInv PROVE ImportsTypeOK /\ ImportsAreOwned
    OBVIOUS
<1>1. ImportsTypeOK
  BY DEF ImportsInv, ImportsTyped, WithinCapacity, Rows, Holders, AtWork, ImportsTypeOK
<1>2. ASSUME NEW u \in Uploads, upload[u] = "reading", TableFull, Evictable = {} PROVE FALSE
  <2>1. UploadInv(u) /\ jobs[u] = "none" /\ u \in Reserved
    BY <1>2 DEF ImportsInv, UploadInv, Reserved
  <2>2. Rows \subseteq Reserved \ {u}
    <3>1. ASSUME NEW v \in Rows PROVE v \in Reserved \ {u}
      <4>1. v \in Uploads /\ jobs[v] = "running" /\ UploadInv(v)
        BY <1>2, <3>1 DEF ImportsInv, ImportsTyped, Evictable, Rows
      <4> QED BY <2>1, <4>1 DEF UploadInv, Reserved
    <3> QED BY <3>1
  <2>3. /\ IsFiniteSet(Reserved) /\ Cardinality(Reserved) <= MaxImports /\ Cardinality(Reserved) \in Nat
        /\ Cardinality(Rows) = MaxImports /\ MaxImports \in Nat
    BY <1>2, FS_CardinalityType DEF ImportsInv, WithinCapacity, ImportsAssumption, TableFull, Rows
  <2>4. IsFiniteSet(Reserved \ {u}) /\ Cardinality(Reserved \ {u}) = Cardinality(Reserved) - 1
    BY <2>1, <2>3, FS_RemoveElement
  <2>5. Cardinality(Rows) <= Cardinality(Reserved \ {u})
    BY <2>2, <2>4, FS_Subset
  <2> QED BY <2>3, <2>4, <2>5
<1>3. ImportsAreOwned
  BY <1>2 DEF ImportsInv, UploadInv, AtWork, ImportsAreOwned
<1> QED BY <1>1, <1>3

\* Every import is owned until it is over, for every number of uploads (imports.rs).
THEOREM ImportsAlwaysOwned == ImportsAssumption => (ImportsSpec => [](ImportsTypeOK /\ ImportsAreOwned))
<1> SUFFICES ASSUME ImportsAssumption PROVE ImportsSpec => [](ImportsTypeOK /\ ImportsAreOwned)
    OBVIOUS
<1> QED BY ImportsStart, ImportsStep, ImportsHold, PTL DEF ImportsSpec

-----------------------------------------------------------------------------
(* The statistics, side by side. *)

\* A step of the suite is a step of one component; the others stay.
LEMMA StatisticsSteps ==
    [SuiteNext]_suiteVars =>
        [IngestionNext]_ingestionVars /\ [SearchNext]_searchVars /\ [ImportsNext]_importVars
<1> SUFFICES ASSUME [SuiteNext]_suiteVars
             PROVE  [IngestionNext]_ingestionVars /\ [SearchNext]_searchVars /\ [ImportsNext]_importVars
  OBVIOUS
<1>1. CASE UNCHANGED suiteVars
  BY <1>1 DEF suiteVars
<1>2. CASE (IngestionOnly \/ NamesOnly) /\ IngestionNext
  BY <1>2 DEF IngestionOnly, NamesOnly
<1>3. CASE (SearchOnly \/ AnalyticsOnly) /\ SearchNext
  BY <1>3 DEF SearchOnly, AnalyticsOnly
<1>4. CASE ImportsOnly /\ ImportsNext
  BY <1>4 DEF ImportsOnly
<1>5. CASE InboxOnly \/ OauthOnly \/ LedgerOnly \/ ListsOnly \/ ClientsOnly \/ QuotaOnly
  BY <1>5 DEF InboxOnly, OauthOnly, LedgerOnly, ListsOnly, ClientsOnly, QuotaOnly
<1>6. CASE StreamOnly \/ ByokOnly \/ CommandsOnly
  BY <1>6 DEF StreamOnly, ByokOnly, CommandsOnly
<1> QED
  BY <1>1, <1>2, <1>3, <1>4, <1>5, <1>6 DEF SuiteNext

\* The statistics agree with what was observed, in the suite of every size: an older
\* observation never undoes a newer one, a search and a report read one state of the
\* messages, and an import is owned until it is over (ingestion.rs,
\* yoink-stats-search, imports.rs).
THEOREM StatisticsAlwaysAgree ==
    ASSUME IngestionAssumption, SearchAssumption, ImportsAssumption
    PROVE  SuiteSpec => []StatisticsAgree
<1>1. SuiteInit => IngestionInit /\ SearchInit /\ ImportsInit
  BY DEF SuiteInit
<1>2. IngestionInit /\ [][IngestionNext]_ingestionVars => [](IngestionTypeOK /\ ObservationsStand)
  BY ObservationsAlwaysStand DEF IngestionSpec
<1>3. SearchInit /\ [][SearchNext]_searchVars => [](SearchTypeOK /\ ReadsAreSnapshots)
  BY ReadsAreAlwaysSnapshots DEF SearchSpec
<1>4. ImportsInit /\ [][ImportsNext]_importVars => [](ImportsTypeOK /\ ImportsAreOwned)
  BY ImportsAlwaysOwned DEF ImportsSpec
<1>5. /\ IngestionTypeOK /\ ObservationsStand /\ SearchTypeOK /\ ReadsAreSnapshots
      /\ ImportsTypeOK /\ ImportsAreOwned
      => StatisticsAgree
  BY DEF StatisticsAgree
<1> QED
  BY <1>1, <1>2, <1>3, <1>4, <1>5, StatisticsSteps, PTL DEF SuiteSpec
=============================================================================
