------------------------- MODULE InboxNotifications -------------------------
(***************************************************************************)
(* The outbox of completion edits: yoink-inbox, notifications.rs, and the  *)
(* runtime that drains it, yoink-telegram, inbox_runtime.rs, composed with *)
(* the ledger of TextEffects.                                              *)
(*                                                                         *)
(* Every classification of a saved link leaves a note that edits the bot's *)
(* reply to the save command.  The sequence of notes is Note = 1, 2, ...;  *)
(* the reply of an item stands for (chat_id, message_id); the k-th send    *)
(* token of note n is <<n, k>>.                                            *)
(*                                                                         *)
(* Abstractions.  The clock is the moment LeaseLapses(n): from then on     *)
(* lease_until <= now.  A note may be available at once, as the runtime's  *)
(* retries are.  The answer of every authorization is a free choice.  Each *)
(* action on `notes` or `effects` is one transaction.                      *)
(***************************************************************************)
EXTENDS TextEffects, FiniteSets

CONSTANTS
    Item,               \* saved links
    Deletable,          \* the items whose owner may delete them for good
    MaxNotes,           \* bound: completions
    MaxSends,           \* bound: send tokens of one note
    MaxCrashes          \* bound: crashes of the runtime

Note == 1 .. MaxNotes
NoteToken == Note \X (1 .. MaxSends)

\* What the constants of an instance satisfy.
ASSUME InboxAssumption ==
    /\ Item # {} /\ Deletable \subseteq Item /\ IsFiniteSet(Dispatcher)
    /\ MaxNotes \in Nat /\ MaxSends \in Nat /\ MaxCrashes \in Nat
    /\ Token = NoteToken
    /\ Identity = Note

VARIABLES
    items,              \* inbox_items
    notes,              \* inbox_notifications
    runner,             \* the runtime's ticks
    crashes             \* crashes so far

inboxVars == <<items, notes, runner, crashes>>
allVars == <<textVars, inboxVars>>

NoteState == {"absent", "waiting", "ready", "claimed", "sending", "unknown", "acked", "cancelled"}
PreSend == {"waiting", "ready", "claimed"}
Blocking == {"ready", "claimed", "sending", "unknown"}
Undelivered == {"sending", "unknown"}

\* live: lease_until > now; lease: lease_token, 0 for NULL; send: the number of
\* the current send token, 0 for NULL.
NoteRow == [item: Item, state: NoteState, live: BOOLEAN, lease: Nat, send: 0 .. MaxSends]

RunnerStep == {"idle", "recover", "dispatch", "claimed", "admitted", "sending", "record"}
Outcome == {"none", "confirmed", "not_sent", "unknown"}

\* queue: the send tokens the tick has selected for recovery; note, lease and send: the row
\* as it was read; outcome: what is to be recorded.
IdleRunner == [pc |-> "idle", queue |-> {}, note |-> 0, lease |-> 0, send |-> 0, outcome |-> "none"]

InboxInit ==
    /\ TextInit
    /\ items = [i \in Item |-> [status |-> "active", bound |-> FALSE]]
    /\ notes = [n \in Note |-> [item |-> CHOOSE i \in Item : TRUE, state |-> "absent",
                                live |-> FALSE, lease |-> 0, send |-> 0]]
    /\ runner = [d \in Dispatcher |-> IdleRunner]
    /\ crashes = 0

----------------------------------------------------------------------------
(* Items and completions.                                                  *)

\* A rule or the owner archives the item or sets its status again.
SetStatus(i, status) ==
    /\ items[i].status \notin {status, "deleted"}
    /\ items' = [items EXCEPT ![i].status = status]
    /\ UNCHANGED <<textVars, notes, runner, crashes>>

\* archive(hard): the notes keep their reply, their item_id becomes NULL.
DeleteItem(i) ==
    /\ i \in Deletable
    /\ items' = [items EXCEPT ![i].status = "deleted"]
    /\ UNCHANGED <<textVars, notes, runner, crashes>>

\* bind_reply or reconcile_bindings: the first confirmed reply of the item, and
\* the notes that waited for it.
BindReply(i) ==
    /\ items[i].status # "deleted" /\ ~items[i].bound
    /\ items' = [items EXCEPT ![i].bound = TRUE]
    /\ notes' = [n \in Note |-> IF notes[n].item = i /\ notes[n].state = "waiting"
                                THEN [notes[n] EXCEPT !.state = "ready"] ELSE notes[n]]
    /\ UNCHANGED <<textVars, runner, crashes>>

\* admit, in the transaction that publishes the classification.
AdmitNote(i) ==
    LET n == Cardinality({m \in Note : notes[m].state # "absent"}) + 1
    IN  /\ items[i].status = "active"
        /\ n \in Note
        /\ notes' = [notes EXCEPT ![n] = [@ EXCEPT !.item = i, !.state = IF items[i].bound THEN "ready" ELSE "waiting"]]
        /\ UNCHANGED <<textVars, items, runner, crashes>>

\* The clock passes lease_until.
LeaseLapses(n) ==
    /\ notes[n].live
    /\ notes' = [notes EXCEPT ![n] = [@ EXCEPT !.live = FALSE]]
    /\ UNCHANGED <<textVars, items, runner, crashes>>

----------------------------------------------------------------------------
(* claim_notification.                                                     *)

\* Mutant of Swept: an expired send is left as it is.
SweptNever(r) ==
    IF r.state \in PreSend /\ items[r.item].status # "active" THEN [r EXCEPT !.state = "cancelled"] ELSE r

\* The two sweeps: an expired send is quarantined, and what has not reached the
\* send boundary is cancelled with its item.
Swept(r) ==
    IF r.state = "sending" /\ ~r.live THEN [r EXCEPT !.state = "unknown"]
    ELSE IF r.state \in PreSend /\ items[r.item].status # "active" THEN [r EXCEPT !.state = "cancelled"]
    ELSE r

\* An earlier edit of the same reply is undecided.
Blocked(rows, n) ==
    \E m \in Note : m < n /\ rows[m].item = rows[n].item /\ rows[m].state \in Blocking

\* The rows the claim chooses the first of.
Eligible(rows) ==
    {n \in Note : /\ rows[n].state = "ready" \/ (rows[n].state = "claimed" /\ ~rows[n].live)
                  /\ ~Blocked(rows, n)}

\* A row in another state, with another lease.
Turned(r, state, live, lease) == [r EXCEPT !.state = state, !.live = live, !.lease = lease]

\* l is the first lease token that no other runner remembers for the note.
FreshLease(n, l) ==
    LET used == {runner[e].lease : e \in {f \in Dispatcher : runner[f].note = n}}
    IN  l \notin used /\ \A k \in 1 .. l - 1 : k \in used

\* A turn of dispatch_one is over: the batch goes on, or the tick ends.
Finished == {IdleRunner, [IdleRunner EXCEPT !.pc = "dispatch"]}

\* claim_notification: both sweeps, then the first eligible row, if any.
ClaimNote(d) ==
    LET rows == [n \in Note |-> Swept(notes[n])]
        open == Eligible(rows)
    IN  /\ runner[d].pc = "dispatch"
        /\ \/ /\ open = {}
              /\ notes' = rows
              /\ \E r \in Finished : runner' = [runner EXCEPT ![d] = r]
           \/ \E n \in open, l \in 1 .. Cardinality(Dispatcher) + 1 :
                 /\ FreshLease(n, l) /\ \A k \in open : n <= k
                 /\ notes' = [rows EXCEPT ![n] = Turned(@, "claimed", TRUE, l)]
                 /\ runner' = [runner EXCEPT ![d] = [IdleRunner EXCEPT !.pc = "claimed", !.note = n, !.lease = l]]
        /\ UNCHANGED <<textVars, items, crashes>>

----------------------------------------------------------------------------
(* dispatch_one after the claim.                                           *)

\* The fence of begin_notification_send and cancel_notification_claim.
Owns(d) ==
    LET r == notes[runner[d].note]
    IN  r.state = "claimed" /\ r.lease = runner[d].lease /\ r.live

\* begin_notification_send after its checks: the CAS across the send boundary,
\* or Uncertain.
BeginSend(d) ==
    LET n == runner[d].note
    IN  /\ runner[d].pc = "claimed"
        /\ \/ /\ Owns(d) /\ items[notes[n].item].status = "active" /\ notes[n].send < MaxSends
              /\ notes' = [notes EXCEPT ![n] = [@ EXCEPT !.state = "sending", !.send = notes[n].send + 1]]
              /\ runner' = [runner EXCEPT ![d] = [@ EXCEPT !.pc = "admitted", !.send = notes[n].send + 1]]
           \/ /\ ~(Owns(d) /\ items[notes[n].item].status = "active")
              /\ UNCHANGED notes
              /\ \E r \in Finished : runner' = [runner EXCEPT ![d] = r]
        /\ UNCHANGED <<textVars, items, crashes>>

\* Provenance, grant or route are denied: cancel_notification_claim.
Deny(d) ==
    LET n == runner[d].note
    IN  /\ runner[d].pc = "claimed"
        /\ notes' = IF Owns(d) THEN [notes EXCEPT ![n] = Turned(@, "cancelled", FALSE, 0)] ELSE notes
        /\ \E r \in Finished : runner' = [runner EXCEPT ![d] = r]
        /\ UNCHANGED <<textVars, items, crashes>>

\* The outcome that a row of the ledger stands for.
OutcomeOf(e) ==
    IF e.state = "confirmed" THEN "confirmed" ELSE IF e.state = "sealed" THEN "not_sent" ELSE "unknown"

SendToken(d) == <<runner[d].note, runner[d].send>>

\* authorize, then dispatch: the ledger admits the one attempt, or tells what
\* became of the token.
DispatchText(d) ==
    /\ runner[d].pc = "admitted"
    /\ \/ /\ BeginText(d, SendToken(d), runner[d].note)
          /\ runner' = [runner EXCEPT ![d] = [@ EXCEPT !.pc = "sending"]]
       \/ /\ ~Admissible(effects[SendToken(d)], runner[d].note)
          /\ runner' = [runner EXCEPT ![d] = [@ EXCEPT !.pc = "record", !.outcome = OutcomeOf(effects[SendToken(d)])]]
          /\ UNCHANGED textVars
    /\ UNCHANGED <<items, notes, crashes>>

\* authorize is denied after the send boundary: absence is sealed first.
Forbid(d) ==
    /\ runner[d].pc = "admitted"
    /\ SealText(SendToken(d)) \/ (~MaySeal(effects[SendToken(d)]) /\ UNCHANGED textVars)
    /\ runner' = [runner EXCEPT ![d] = [@ EXCEPT !.pc = "record", !.outcome = OutcomeOf(effects'[SendToken(d)])]]
    /\ UNCHANGED <<items, notes, crashes>>

\* The attempt of dispatch_entities.
Post(d) == PostText(d) /\ UNCHANGED inboxVars
Answer(d) == AnswerText(d) /\ UNCHANGED inboxVars

\* dispatch_entities returns what it has recorded.
Return(d) ==
    /\ runner[d].pc = "sending"
    /\ RecordText(d)
    /\ runner' = [runner EXCEPT ![d] =
                      [@ EXCEPT !.pc = "record",
                                !.outcome = IF dispatcher[d].pc = "confirm" THEN "confirmed" ELSE "unknown"]]
    /\ UNCHANGED <<items, notes, crashes>>

----------------------------------------------------------------------------
(* tick_stopping.                                                          *)

\* The rows whose fate the ledger knows, or that never reached it.
Recoverable(n) ==
    /\ notes[n].state \in Undelivered
    /\ effects[<<n, notes[n].send>>].state \in {"absent", "confirmed", "sealed"}

\* The tick begins with one read of them.
StartTick(d) ==
    LET found == {<<n, notes[n].send>> : n \in {m \in Note : Recoverable(m)}}
    IN  /\ runner[d].pc = "idle"
        /\ runner' = [runner EXCEPT ![d] = [IdleRunner EXCEPT
                         !.pc = IF found = {} THEN "dispatch" ELSE "recover", !.queue = found]]
        /\ UNCHANGED <<textVars, items, notes, crashes>>

\* They are handled in their order.
First(d, t) == t \in runner[d].queue /\ \A u \in runner[d].queue : t[1] <= u[1]

\* Mutant of Recover: a token without a row counts as not sent, unsealed.
RecoverUnsealed(d) ==
    /\ runner[d].pc = "recover"
    /\ \E t \in runner[d].queue :
          /\ First(d, t)
          /\ runner' = [runner EXCEPT ![d] =
                [@ EXCEPT !.pc = "record", !.note = t[1], !.send = t[2],
                          !.outcome = IF effects[t].state = "confirmed" THEN "confirmed" ELSE "not_sent"]]
    /\ UNCHANGED <<textVars, items, notes, crashes>>

\* seal_text_absence for the first of them, and the outcome it proves; the tick
\* fails when the receipt does not fit the note.
Recover(d) ==
    /\ runner[d].pc = "recover"
    /\ \E t \in runner[d].queue :
          /\ First(d, t)
          /\ SealText(t) \/ (~MaySeal(effects[t]) /\ UNCHANGED textVars)
          /\ runner' = [runner EXCEPT ![d] =
                IF OutcomeOf(effects'[t]) = "confirmed" /\ items[notes[t[1]].item].status = "deleted"
                THEN IdleRunner
                ELSE [@ EXCEPT !.pc = "record", !.note = t[1], !.send = t[2],
                               !.outcome = OutcomeOf(effects'[t])]]
    /\ UNCHANGED <<items, notes, crashes>>

\* The row after notification_outcome.
RecordedState == [confirmed |-> "acked", not_sent |-> "ready", unknown |-> "unknown", none |-> "unknown"]

Recorded(r, send, outcome) ==
    IF r.state \notin Undelivered \/ r.send # send THEN r
    ELSE Turned(r, RecordedState[outcome], FALSE, 0)

\* notification_outcome, then the next of the queue or of the batch.
RecordOutcome(d) ==
    LET me == runner[d]
        rest == me.queue \ {<<me.note, me.send>>}
        pc == IF rest = {} THEN "dispatch" ELSE "recover"
    IN  /\ me.pc = "record"
        /\ notes' = [notes EXCEPT ![me.note] = Recorded(@, me.send, me.outcome)]
        /\ \E r \in IF me.queue = {} THEN Finished
                    ELSE {[IdleRunner EXCEPT !.pc = pc, !.queue = rest]} :
              runner' = [runner EXCEPT ![d] = r]
        /\ UNCHANGED <<textVars, items, crashes>>

\* The process dies, or an error of the database ends the tick and the server
\* with it; it is started again.
Crash(d) ==
    /\ runner[d].pc # "idle" /\ crashes < MaxCrashes
    /\ crashes' = crashes + 1
    /\ runner' = [runner EXCEPT ![d] = IdleRunner]
    /\ dispatcher' = [dispatcher EXCEPT ![d] = IdleDispatcher]
    /\ UNCHANGED <<effects, posted, accepted, items, notes>>

----------------------------------------------------------------------------

Tick(d) ==
    \/ StartTick(d) \/ Recover(d) \/ RecordOutcome(d)
    \/ ClaimNote(d) \/ BeginSend(d) \/ Deny(d)
    \/ DispatchText(d) \/ Forbid(d) \/ Post(d) \/ Answer(d) \/ Return(d)

InboxNext ==
    \/ \E d \in Dispatcher : Tick(d) \/ Crash(d)
    \/ \E i \in Item :
          \/ DeleteItem(i) \/ BindReply(i) \/ AdmitNote(i)
          \/ \E status \in {"active", "inactive"} : SetStatus(i, status)
    \/ \E n \in Note : LeaseLapses(n)
    \/ \E t \in Token : \E k \in DOMAIN posted[t] : AcceptText(t, k) /\ UNCHANGED inboxVars

InboxSpec == InboxInit /\ [][InboxNext]_allVars

\* The runtime loops at its interval and is restarted when it dies, its lease is
\* a matter of the clock, and every request has a deadline.  Nothing is assumed
\* of Telegram, of the users or of the rules.
FairInbox ==
    /\ InboxSpec
    /\ \A d \in Dispatcher : WF_allVars(Tick(d))
    /\ \A n \in Note : WF_allVars(LeaseLapses(n))

----------------------------------------------------------------------------
(* Properties.                                                             *)

\* The send tokens of a note that were posted.
PostedSends(n) == {k \in 1 .. MaxSends : posted[<<n, k>>] # <<>>}

\* Types, and the schema's CHECKs: a send token beyond the boundary, a lease token
\* on a claim, a reply on everything that may be sent.
InboxTypeOK ==
    /\ TextTypeOK
    /\ items \in [Item -> [status: {"active", "inactive", "deleted"}, bound: BOOLEAN]]
    /\ notes \in [Note -> NoteRow]
    /\ \A n \in Note :
          /\ notes[n].state \in Undelivered \cup {"acked"} => notes[n].send # 0
          /\ notes[n].state = "claimed" => notes[n].lease # 0
          /\ notes[n].state \in Blocking \cup {"acked"} => items[notes[n].item].bound
    /\ \A d \in Dispatcher : runner[d].pc \in RunnerStep /\ runner[d].outcome \in Outcome

\* "Claimed work is repeatable only before the durable send boundary": a note that
\* may be claimed, retried or cancelled has not been posted, whatever attempts,
\* recoveries and crashes it went through.
PreSendIsUnsent ==
    \A n \in Note : notes[n].state \in PreSend \cup {"absent", "cancelled"} => PostedSends(n) = {}

\* A completion is posted at most once, over all of its send tokens.
EditedOnce == \A n \in Note : Cardinality(PostedSends(n)) <= 1

\* "Recovery serializes effects for the same reply": when a later edit of a reply
\* is posted, every earlier one that was posted has arrived, so that an older
\* completion never overwrites a newer one.
EditsInOrder ==
    \A m, n \in Note :
        /\ m < n /\ notes[m].item = notes[n].item
        /\ PostedSends(m) # {} /\ PostedSends(n) # {}
        => \A k \in PostedSends(m) : accepted[<<m, k>>] # {}

\* An acknowledged note was accepted by Telegram.
AckedHasArrived ==
    \A n \in Note : notes[n].state = "acked" => accepted[<<n, notes[n].send>>] # {}

\* A completion is posted at most once, in the order of the reply, only beyond the
\* send boundary, and what is acknowledged has arrived (notifications.rs,
\* inbox_runtime.rs).
NotificationsAreSound ==
    InboxTypeOK /\ PreSendIsUnsent /\ EditedOnce /\ EditsInOrder /\ AckedHasArrived

IsSending(n) == notes[n].state = "sending"
IsAcked(n) == notes[n].state = "acked"
IsConfirmed(n, k) == notes[n].send = k /\ effects[<<n, k>>].state = "confirmed"

\* "Record a delivery-ledger result, including after claim expiry/restart": an
\* edit whose receipt is in the ledger is acknowledged in the end.
ConfirmedIsRecorded ==
    \A n \in Note, k \in 1 .. MaxSends : IsConfirmed(n, k) ~> IsAcked(n)
=============================================================================
