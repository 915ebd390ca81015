---------------------------- MODULE TextEffects ----------------------------
(***************************************************************************)
(* The ledger of text effects (yoink-storage, text.rs) and the dispatch    *)
(* that uses it (yoink-telegram, text.rs): every text the bot sends or     *)
(* edits on behalf of a command or of a notification has a token, and the  *)
(* row of that token decides whether the one external attempt may be made. *)
(*                                                                         *)
(* Abstractions.  An identity (bot, chat, topic, message, actor, item,     *)
(* text and payload) is an opaque value that is only compared; a receipt   *)
(* is the message id of Telegram's answer, here the number of the accepted *)
(* request.  Every action on `effects` is one transaction.                 *)
(***************************************************************************)
EXTENDS Naturals, Sequences

CONSTANTS
    Token,              \* idempotency tokens of effects
    Identity,           \* immutable identities of effects
    Dispatcher,         \* tasks that dispatch
    NoToken,            \* an idle dispatcher's token
    NoIdentity          \* identity IS NULL

ASSUME TextAssumption ==
    /\ NoToken \notin Token
    /\ NoIdentity \notin Identity

VARIABLES
    effects,            \* runtime_text_effects
    dispatcher,         \* what every dispatcher is doing
    posted,             \* per token, the requests posted to Telegram
    accepted            \* per token, the requests Telegram has accepted

textVars == <<effects, dispatcher, posted, accepted>>

EffectState == {"absent", "prepared", "sending", "unknown", "confirmed", "sealed"}

\* receipt = 0 stands for NULL.
Effect == [state: EffectState, identity: Identity \cup {NoIdentity}, receipt: Nat, bound: {0, 1}]

\* A row as it is inserted: no receipt, not bound.
NewEffect(state, i) == [state |-> state, identity |-> i, receipt |-> 0, bound |-> 0]
NoEffect == NewEffect("absent", NoIdentity)

\* A dispatcher is idle, about to post the request it was admitted for, waiting
\* for the answer, or about to record what it learned.
DispatchStep == {"idle", "post", "wait", "confirm", "give_up"}
Dispatch == [pc: DispatchStep, token: Token \cup {NoToken}, identity: Identity \cup {NoIdentity}, receipt: Nat]
IdleDispatcher == [pc |-> "idle", token |-> NoToken, identity |-> NoIdentity, receipt |-> 0]

TextInit ==
    /\ effects = [t \in Token |-> NoEffect]
    /\ dispatcher = [d \in Dispatcher |-> IdleDispatcher]
    /\ posted = [t \in Token |-> <<>>]
    /\ accepted = [t \in Token |-> {}]

----------------------------------------------------------------------------
(* The ledger.                                                             *)

\* prepare_text_on: durable intent.  An existing row stays as it is.
PrepareText(t, i) ==
    /\ effects[t].state = "absent"
    /\ effects' = [effects EXCEPT ![t] = NewEffect("prepared", i)]
    /\ UNCHANGED <<dispatcher, posted, accepted>>

\* Mutant of Admissible: an effect whose outcome is unknown may be tried again.
AdmissibleAgain(e, i) ==
    \/ e.state = "absent"
    \/ e.state \in {"prepared", "unknown"} /\ e.identity = i

\* Mutant of Admissible: a late dispatch crosses the tombstone.
AdmissibleSealed(e, i) ==
    \/ e.state \in {"absent", "sealed"}
    \/ e.state = "prepared" /\ e.identity = i

\* begin_text_on returns true: the row is new, or prepared with this identity.
\* Any other row leaves the caller with false, or with Conflict when the token
\* belongs to another identity.
Admissible(e, i) ==
    \/ e.state = "absent"
    \/ e.state = "prepared" /\ e.identity = i

\* Mutant of MaySeal: an effect that is being sent is declared absent as well.
MaySealSending(e) == e.state \in {"absent", "prepared", "sending"}

\* seal_text_absence inserts the tombstone or overwrites a prepared row.
MaySeal(e) == e.state \in {"absent", "prepared"}

\* seal_text_absence: what was never admitted never will be.
SealText(t) ==
    /\ MaySeal(effects[t])
    /\ effects' = [effects EXCEPT ![t] = NewEffect("sealed", NoIdentity)]
    /\ UNCHANGED <<dispatcher, posted, accepted>>

\* Mutant of Confirmed: the receipt is not kept.
ConfirmedWithoutReceipt(e, r) ==
    IF e.state \in {"sending", "unknown"} THEN [e EXCEPT !.state = "confirmed"] ELSE e

\* The row after confirm_text, which refuses any other row.
Confirmed(e, r) ==
    IF e.state \in {"sending", "unknown"} THEN [e EXCEPT !.state = "confirmed", !.receipt = r] ELSE e

\* The row after unknown_text.
Undecided(e) == IF e.state = "sending" THEN [e EXCEPT !.state = "unknown"] ELSE e

\* mark_text_bound, or the same update by reconcile_bindings.
BindText(t) ==
    /\ effects[t].state = "confirmed" /\ effects[t].bound = 0
    /\ effects' = [effects EXCEPT ![t] = [@ EXCEPT !.bound = 1]]
    /\ UNCHANGED <<dispatcher, posted, accepted>>

----------------------------------------------------------------------------
(* dispatch_entities.                                                      *)

\* begin_text admits the dispatcher to the one attempt.
BeginText(d, t, i) ==
    /\ dispatcher[d].pc = "idle"
    /\ Admissible(effects[t], i)
    /\ effects' = [effects EXCEPT ![t] = NewEffect("sending", i)]
    /\ dispatcher' = [dispatcher EXCEPT ![d] = [pc |-> "post", token |-> t, identity |-> i, receipt |-> 0]]
    /\ UNCHANGED <<posted, accepted>>

\* The request leaves for Telegram.
PostText(d) ==
    LET t == dispatcher[d].token
    IN  /\ dispatcher[d].pc = "post"
        /\ posted' = [posted EXCEPT ![t] = Append(@, dispatcher[d].identity)]
        /\ dispatcher' = [dispatcher EXCEPT ![d] = [@ EXCEPT !.pc = "wait"]]
        /\ UNCHANGED <<effects, accepted>>

\* Telegram accepts the k-th request of a token, now or long after its sender died.
AcceptText(t, k) ==
    /\ k \in DOMAIN posted[t] \ accepted[t]
    /\ accepted' = [accepted EXCEPT ![t] = @ \cup {k}]
    /\ UNCHANGED <<effects, dispatcher, posted>>

\* Mutant of AnswerText: any answer counts as a receipt.
AnswerTextTrusting(d) ==
    /\ dispatcher[d].pc = "wait"
    /\ \E k \in DOMAIN posted[dispatcher[d].token] :
          dispatcher' = [dispatcher EXCEPT ![d] = [@ EXCEPT !.pc = "confirm", !.receipt = k]]
    /\ UNCHANGED <<effects, posted, accepted>>

\* A trusted receipt arrives; or the answer is refused, lost, untrusted or late.
AnswerText(d) ==
    /\ dispatcher[d].pc = "wait"
    /\ \/ \E k \in accepted[dispatcher[d].token] :
             dispatcher' = [dispatcher EXCEPT ![d] = [@ EXCEPT !.pc = "confirm", !.receipt = k]]
       \/ dispatcher' = [dispatcher EXCEPT ![d] = [@ EXCEPT !.pc = "give_up"]]
    /\ UNCHANGED <<effects, posted, accepted>>

\* confirm_text or unknown_text.
RecordText(d) ==
    LET t == dispatcher[d].token
    IN  /\ \/ /\ dispatcher[d].pc = "confirm"
              /\ effects' = [effects EXCEPT ![t] = Confirmed(@, dispatcher[d].receipt)]
           \/ /\ dispatcher[d].pc = "give_up"
              /\ effects' = [effects EXCEPT ![t] = Undecided(@)]
        /\ dispatcher' = [dispatcher EXCEPT ![d] = IdleDispatcher]
        /\ UNCHANGED <<posted, accepted>>

\* The task is aborted, the process dies, or the ledger fails under it.
AbortText(d) ==
    /\ dispatcher[d].pc # "idle"
    /\ dispatcher' = [dispatcher EXCEPT ![d] = IdleDispatcher]
    /\ UNCHANGED <<effects, posted, accepted>>

TextNext ==
    \/ \E t \in Token :
          \/ SealText(t) \/ BindText(t)
          \/ \E i \in Identity : PrepareText(t, i)
          \/ \E k \in DOMAIN posted[t] : AcceptText(t, k)
    \/ \E d \in Dispatcher :
          \/ PostText(d) \/ AnswerText(d) \/ RecordText(d) \/ AbortText(d)
          \/ \E t \in Token, i \in Identity : BeginText(d, t, i)

TextSpec == TextInit /\ [][TextNext]_textVars

----------------------------------------------------------------------------
(* Properties.                                                             *)

\* The schema's CHECK: a row carries an identity unless it is a tombstone, and
\* a receipt exactly when it is confirmed.
WellFormed(e) ==
    /\ e.identity = NoIdentity <=> e.state \in {"absent", "sealed"}
    /\ e.receipt # 0 <=> e.state = "confirmed"
    /\ e.bound = 1 => e.state = "confirmed"

\* Types, and the schema's constraints on every row.
TextTypeOK ==
    /\ effects \in [Token -> Effect]
    /\ \A t \in Token : WellFormed(effects[t])
    /\ dispatcher \in [Dispatcher -> Dispatch]
    /\ posted \in [Token -> Seq(Identity)]
    /\ accepted \in [Token -> SUBSET (Nat \ {0})]
    /\ \A t \in Token : accepted[t] \subseteq DOMAIN posted[t]

\* "Commit sending before exactly one external attempt" (begin_text): whatever
\* dispatchers race, die or come back, at most one request of a token is posted.
PostedAtMostOnce == \A t \in Token : Len(posted[t]) <= 1

\* "Atomic absence proof" (seal_text_absence): a token that is sealed, or not
\* admitted, was never posted and nobody is about to post it.
AbsenceIsProven ==
    \A t \in Token :
        effects[t].state \in {"absent", "prepared", "sealed"} =>
            /\ posted[t] = <<>>
            /\ \A d \in Dispatcher : dispatcher[d].token # t

\* A receipt stands for a request that Telegram accepted and that carried the
\* identity of the row.
ReceiptIsReal ==
    \A t \in Token :
        effects[t].state = "confirmed" =>
            /\ effects[t].receipt \in accepted[t]
            /\ posted[t][effects[t].receipt] = effects[t].identity

\* What the ledger has said it never takes back: a tombstone stays, a receipt
\* stays with its identity, and an attempt never turns into a proof of absence.
OutcomeIsFinal ==
    [][\A t \in Token :
          /\ effects[t].state = "sealed" => effects'[t] = effects[t]
          /\ effects[t].state = "confirmed" =>
                effects'[t] \in {effects[t], [effects[t] EXCEPT !.bound = 1]}
          /\ effects[t].state \in {"sending", "unknown"} =>
                effects'[t].state \in {"sending", "unknown", "confirmed"}]_textVars

\* A text is posted at most once, absence is proven and receipts are real, in rows
\* that satisfy the schema (text_effects.rs).
EffectsAreSound == TextTypeOK /\ PostedAtMostOnce /\ AbsenceIsProven /\ ReceiptIsReal
=============================================================================
