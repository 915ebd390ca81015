---------------------------- MODULE InsightStream ----------------------------
(***************************************************************************)
(* One streamed insight answer (telegram insight_runtime.rs handle,        *)
(* insight_output.rs, insight streaming.rs): the execution feeds deltas,   *)
(* it and a heartbeat write pages to the chat under one lock, and the end  *)
(* of the execution drops whatever is still being written.                 *)
(*                                                                         *)
(* A page is the kind of body it belongs to and whether it is the open     *)
(* last page.  Tokens are <<page, revision>> of the request's base.        *)
(***************************************************************************)
EXTENDS Naturals, Sequences, SequencesExt, FiniteSets

CONSTANTS
    Routes,        \* number of provider routes, tried in order
    MaxDeltas,     \* bound: deltas of an attempt; each one opens a page
    FinalPages,    \* pages of the final answer
    MaxLost,       \* bound: posts whose outcome stays unknown
    MaxDeliveries  \* bound: deliveries of the update, crashes between them

\* What the constants of an instance satisfy.
StreamAssumption ==
    /\ Routes \in Nat \ {0} /\ MaxDeltas \in Nat \ {0} /\ FinalPages \in Nat \ {0}
    /\ MaxLost \in Nat /\ MaxDeliveries \in Nat \ {0}

VARIABLES
    chatKind,    \* "private" or "group"
    work,        \* the handler: "idle", "run", "finish", "done"
    exec,        \* the execution: [pc, route, emitted, from, outcome]
    draft,       \* Draft::state: [text, seen, revision, sent, drafts, fenced]
    flush,       \* the flush that holds the lock: [by, mode, pc, chunks, at]
    effects,     \* runtime_text_effects: the tokens of the request with a row
    sealed,      \* the row of the first token is a tombstone
    chat,        \* messages of the bot in the chat, a page or "gone"
    previewed,   \* an ephemeral preview was shown
    permitted,   \* the user's grant and membership
    cancelled, stopped,
    deliveries, lost,
    startedOver, \* an execution started although an answer had been shown
    cutShort     \* a flush was dropped with an admitted token in hand

streamVars == <<chatKind, work, exec, draft, flush, effects, sealed, chat, previewed, permitted, cancelled, stopped,
                deliveries, lost, startedOver, cutShort>>
streamEnv == <<chatKind, permitted, stopped, deliveries, startedOver>>

Body(kind, n) == [kind |-> kind, n |-> n]
Pending == Body("pending", 1)
Page(body, i) == [kind |-> body.kind, open |-> body.kind = "partial" /\ i = body.n]
Above == [kind |-> "above", open |-> FALSE]
Gone == [kind |-> "gone", open |-> FALSE]
NoExec == [pc |-> "idle", route |-> 1, emitted |-> FALSE, from |-> {}, outcome |-> "none"]
NewDraft == [text |-> Pending, seen |-> FALSE, revision |-> 0, sent |-> <<>>, drafts |-> chatKind = "private", fenced |-> FALSE]
NoFlush == [by |-> "none", mode |-> "stream", pc |-> "idle", chunks |-> <<>>, at |-> 0]
FirstToken == <<1, 0>>
Free == flush.by = "none"

\* require: the grant, the stop of the process and the given cancellation.
Permits(by) == permitted /\ ~stopped /\ (by = "cancelled" \/ ~cancelled)

StreamTypeOK ==
    /\ work \in {"idle", "run", "finish", "done"}
    /\ draft.text.kind \in {"pending", "partial", "final", "failed", "cancelled"}
    /\ Len(draft.sent) <= MaxDeltas + FinalPages /\ effects \subseteq (Nat \X Nat)

---------------------------------------------------------------------------
(* The handler and the execution. *)

\* Any row under the first token fences a redelivered update.
Deliver ==
    /\ work \in {"idle", "done"} /\ deliveries < MaxDeliveries
    /\ deliveries' = deliveries + 1
    /\ IF FirstToken \in effects \/ ~permitted \/ stopped
       THEN work' = "done" /\ UNCHANGED <<exec, draft, cancelled, startedOver>>
       ELSE /\ work' = "run" /\ cancelled' = FALSE
            /\ exec' = [NoExec EXCEPT !.pc = "prepare"] /\ draft' = NewDraft
            /\ startedOver' = (startedOver \/ chat # <<>> \/ previewed)
    /\ UNCHANGED <<chatKind, flush, effects, sealed, chat, previewed, permitted, stopped, lost, cutShort>>

\* phase: fetching, researching and generating show the pending text.
ShowPhase ==
    /\ work = "run" /\ exec.pc = "prepare"
    /\ exec' = [exec EXCEPT !.pc = IF Permits("exec") THEN "phase" ELSE "failed"]
    /\ UNCHANGED <<streamEnv, work, draft, flush, effects, sealed, chat, previewed, cancelled, lost, cutShort>>

StartStream ==
    /\ work = "run" /\ exec.pc = "prepare"
    /\ exec' = [exec EXCEPT !.pc = "stream"]
    /\ UNCHANGED <<streamEnv, work, draft, flush, effects, sealed, chat, previewed, cancelled, lost, cutShort>>

Deltas == IF draft.text.kind = "partial" THEN draft.text.n ELSE 0

\* event, delta: emitted is set before the sink is called; the text grows under
\* the lock; the flush is due at first and then every 1.5 seconds.
Delta ==
    /\ work = "run" /\ exec.pc = "stream" /\ Free /\ Deltas < MaxDeltas
    /\ IF Permits("exec")
       THEN /\ draft' = [draft EXCEPT !.text = Body("partial", Deltas + 1), !.seen = FALSE]
            /\ \E pc \in {"stream", "delta"} : exec' = [exec EXCEPT !.emitted = TRUE, !.from = @ \cup {exec.route}, !.pc = pc]
       ELSE exec' = [exec EXCEPT !.emitted = TRUE, !.pc = "failed"] /\ UNCHANGED draft
    /\ UNCHANGED <<streamEnv, work, flush, effects, sealed, chat, previewed, cancelled, lost, cutShort>>

\* Mutant of FallsBack: the next route is tried whatever was shown.
FallsBackAlways == exec.route < Routes

\* stream_routes: only an attempt that emitted nothing is followed by the next.
FallsBack == exec.route < Routes /\ ~exec.emitted

AttemptFails ==
    /\ work = "run" /\ exec.pc = "stream"
    /\ exec' = IF FallsBack THEN [exec EXCEPT !.route = @ + 1, !.emitted = FALSE] ELSE [exec EXCEPT !.pc = "failed"]
    /\ UNCHANGED <<streamEnv, work, draft, flush, effects, sealed, chat, previewed, cancelled, lost, cutShort>>

\* What ends the execution: its own result, cancellation or the deadline, which
\* also drop a flush of its own.
Outcomes ==
    (IF exec.pc = "prepare" \/ (exec.pc = "stream" /\ exec.emitted) THEN {"ok"} ELSE {})
        \cup (IF exec.pc \in {"prepare", "failed"} THEN {"error"} ELSE {})
        \cup (IF cancelled \/ stopped THEN {"cancelled"} ELSE {"timeout"})

\* The select loop: the heartbeat's future goes with the execution.
ExecutionEnds ==
    /\ work = "run" /\ work' = "finish"
    /\ \E outcome \in Outcomes : exec' = [exec EXCEPT !.pc = "over", !.outcome = outcome]
    /\ flush' = NoFlush
    /\ cutShort' = (cutShort \/ flush.pc \in {"begun", "posted", "sealed"})
    /\ UNCHANGED <<streamEnv, draft, effects, sealed, chat, previewed, cancelled, lost>>

---------------------------------------------------------------------------
(* flush_with_cancel. *)

\* Mutant of Padded: an error text replaces the first page only.
PaddedFinalOnly(mode, own) ==
    IF mode = "final" /\ chatKind = "group" /\ Len(own) < Len(draft.sent)
    THEN own \o [i \in 1..(Len(draft.sent) - Len(own)) |-> Above] ELSE own

\* Pages sent before and not needed now are overwritten.
Padded(mode, own) ==
    LET more == Len(draft.sent) - Len(own)
    IN  CASE mode = "failed" /\ more > 0 -> own \o [i \in 1..more |-> own[1]]
          [] mode = "final" /\ chatKind = "group" /\ more > 0 -> own \o [i \in 1..more |-> Above]
          [] OTHER -> own

Rendered(mode, body) == Padded(mode, [i \in 1..body.n |-> Page(body, i)])

\* The lock is taken, the authority asked, the body rendered.  A private chat
\* previews while it streams.
BeginFlush(by, mode, body) ==
    flush' = [by |-> by, mode |-> mode, at |-> 1, chunks |-> Rendered(mode, body),
              pc |-> IF mode = "stream" /\ draft.drafts THEN "preview" ELSE "page"]

ExecFlush ==
    /\ work = "run" /\ exec.pc \in {"phase", "delta"} /\ Free
    /\ IF Permits("exec")
       THEN BeginFlush("exec", "stream", draft.text) /\ exec' = [exec EXCEPT !.pc = "flush"]
       ELSE exec' = [exec EXCEPT !.pc = "failed"] /\ UNCHANGED flush
    /\ UNCHANGED <<streamEnv, work, draft, effects, sealed, chat, previewed, cancelled, lost, cutShort>>

\* heartbeat: new text, or a draft that must be kept alive; an error cancels.
Heartbeat ==
    /\ work = "run" /\ Free
    /\ (draft.text.kind = "partial" /\ ~draft.seen) \/ (draft.drafts /\ (draft.fenced \/ exec.pc = "phase"))
    /\ IF Permits("heart") THEN BeginFlush("heart", "stream", draft.text) /\ UNCHANGED cancelled
                           ELSE cancelled' = TRUE /\ UNCHANGED flush
    /\ UNCHANGED <<streamEnv, work, exec, draft, effects, sealed, chat, previewed, lost, cutShort>>

\* After the execution: the answer, the error text, or "Cancelled.".
Closing == CASE exec.outcome = "ok" -> [by |-> "final", mode |-> "final", body |-> Body("final", FinalPages)]
             [] exec.outcome = "cancelled" -> [by |-> "cancelled", mode |-> "failed", body |-> Body("cancelled", 1)]
             [] OTHER -> [by |-> "failed", mode |-> "failed", body |-> Body("failed", 1)]

Finish ==
    /\ work = "finish" /\ Free
    /\ IF Permits(Closing.by)
       THEN /\ draft' = [draft EXCEPT !.text = Closing.body]
            /\ BeginFlush(Closing.by, Closing.mode, Closing.body) /\ UNCHANGED work
       ELSE work' = "done" /\ UNCHANGED <<draft, flush>>
    /\ UNCHANGED <<streamEnv, exec, effects, sealed, chat, previewed, cancelled, lost, cutShort>>

\* The caller sees the error of its flush.
FlushFails ==
    /\ flush' = NoFlush
    /\ exec' = IF flush.by = "exec" THEN [exec EXCEPT !.pc = "failed"] ELSE exec
    /\ work' = IF flush.by \in {"exec", "heart"} THEN work ELSE "done"

FlushDone ==
    /\ flush' = NoFlush
    /\ exec' = IF flush.by = "exec" THEN [exec EXCEPT !.pc = IF draft.text = Pending THEN "prepare" ELSE "stream"] ELSE exec
    /\ work' = IF flush.by \in {"exec", "heart"} THEN work ELSE "done"

\* Mutant of Seals: previews do not touch the ledger.
SealsNothing == effects

\* seal_text_absence of the first token, before the first preview.
Seals == effects \cup {FirstToken}

Seal ==
    /\ flush.pc = "preview" /\ ~draft.fenced
    /\ effects' = Seals /\ sealed' = (sealed \/ FirstToken \notin effects)
    /\ flush' = [flush EXCEPT !.pc = "sealed"]
    /\ UNCHANGED <<streamEnv, work, exec, draft, chat, previewed, cancelled, lost, cutShort>>

Sealed ==
    /\ flush.pc = "sealed"
    /\ draft' = [draft EXCEPT !.fenced = TRUE, !.revision = @ + 1]
    /\ flush' = [flush EXCEPT !.pc = "preview"]
    /\ UNCHANGED <<streamEnv, work, exec, effects, sealed, chat, previewed, cancelled, lost, cutShort>>

\* The draft is shown or unavailable; a chat without drafts gets pages.
Preview ==
    /\ flush.pc = "preview" /\ draft.fenced
    /\ \/ /\ previewed' = TRUE /\ draft' = [draft EXCEPT !.seen = TRUE] /\ FlushDone
       \/ /\ draft' = [draft EXCEPT !.drafts = FALSE] /\ flush' = [flush EXCEPT !.pc = "page"]
          /\ UNCHANGED <<previewed, exec, work>>
    /\ UNCHANGED <<streamEnv, effects, sealed, chat, cancelled, lost, cutShort>>

Fresh == flush.mode = "final" /\ chatKind = "private"
Same == ~Fresh /\ flush.at <= Len(draft.sent) /\ draft.sent[flush.at].page = flush.chunks[flush.at]

SkipPage ==
    /\ flush.pc = "page" /\ flush.at <= Len(flush.chunks) /\ Same
    /\ flush' = [flush EXCEPT !.at = @ + 1]
    /\ UNCHANGED <<streamEnv, work, exec, draft, effects, sealed, chat, previewed, cancelled, lost, cutShort>>

FlushToken == <<flush.at, draft.revision>>
Tombstone == FlushToken = FirstToken /\ sealed

\* The authority again, then begin_text: a new token is admitted, the identity of a
\* known one conflicts, a sealed one reports that nothing may be sent.
BeginPage ==
    /\ flush.pc = "page" /\ flush.at <= Len(flush.chunks) /\ ~Same
    /\ IF Permits(flush.by) /\ FlushToken \notin effects
       THEN /\ effects' = effects \cup {FlushToken}
            /\ flush' = [flush EXCEPT !.pc = "begun"]
            /\ UNCHANGED <<draft, work, exec, cancelled>>
       ELSE /\ FlushFails /\ UNCHANGED effects
            /\ draft' = IF Permits(flush.by) /\ Tombstone THEN [draft EXCEPT !.revision = @ + 1] ELSE draft
            /\ cancelled' = (cancelled \/ flush.by = "heart" \/ (Permits(flush.by) /\ Tombstone))
    /\ UNCHANGED <<streamEnv, sealed, chat, previewed, lost, cutShort>>

Receipt == IF ~Fresh /\ flush.at <= Len(draft.sent) THEN draft.sent[flush.at].receipt ELSE Len(chat) + 1

\* External: Telegram shows the page; the answer may still be lost.
Post ==
    /\ flush.pc = "begun"
    /\ chat' = IF Receipt > Len(chat) THEN Append(chat, flush.chunks[flush.at])
                                     ELSE [chat EXCEPT ![Receipt] = flush.chunks[flush.at]]
    /\ flush' = [flush EXCEPT !.pc = "posted"]
    /\ UNCHANGED <<streamEnv, work, exec, draft, effects, sealed, previewed, cancelled, lost, cutShort>>

\* The receipts of a private answer replace those of the pages before it.
Confirm ==
    /\ flush.pc = "posted"
    /\ draft' = [draft EXCEPT !.revision = @ + 1,
                     !.sent = CASE Fresh -> @
                                [] ~Fresh /\ flush.at <= Len(@) -> [@ EXCEPT ![flush.at].page = flush.chunks[flush.at]]
                                [] OTHER -> Append(@, [receipt |-> Len(chat), page |-> flush.chunks[flush.at]])]
    /\ flush' = [flush EXCEPT !.pc = "page", !.at = @ + 1]
    /\ UNCHANGED <<streamEnv, work, exec, effects, sealed, chat, previewed, cancelled, lost, cutShort>>

Unconfirmed ==
    /\ flush.pc \in {"begun", "posted"} /\ lost < MaxLost
    /\ lost' = lost + 1
    /\ draft' = [draft EXCEPT !.revision = @ + 1]
    /\ cancelled' = TRUE
    /\ FlushFails
    /\ UNCHANGED <<streamEnv, effects, sealed, chat, previewed, cutShort>>

\* After a private answer the earlier pages are removed, if Telegram lets it.
EndFlush ==
    /\ flush.pc = "page" /\ flush.at > Len(flush.chunks)
    /\ \/ Fresh /\ chat' = [i \in DOMAIN chat |-> IF \E s \in ToSet(draft.sent) : s.receipt = i THEN Gone ELSE chat[i]]
       \/ UNCHANGED chat
    /\ draft' = [draft EXCEPT !.seen = TRUE]
    /\ FlushDone
    /\ UNCHANGED <<streamEnv, effects, sealed, previewed, cancelled, lost, cutShort>>

---------------------------------------------------------------------------
(* The surroundings. *)

\* /cancel of the user while the request is registered.
CancelWork ==
    /\ work \in {"run", "finish"} /\ ~cancelled /\ cancelled' = TRUE
    /\ UNCHANGED <<streamEnv, work, exec, draft, flush, effects, sealed, chat, previewed, lost, cutShort>>

RevokeStream ==
    /\ permitted /\ permitted' = FALSE
    /\ UNCHANGED <<chatKind, work, exec, draft, flush, effects, sealed, chat, previewed, cancelled, stopped, deliveries, lost, startedOver, cutShort>>

StopStream ==
    /\ ~stopped /\ stopped' = TRUE
    /\ UNCHANGED <<chatKind, work, exec, draft, flush, effects, sealed, chat, previewed, permitted, cancelled, deliveries, lost, startedOver, cutShort>>

\* The process dies; the next one gets the update again.
CrashStream ==
    /\ deliveries < MaxDeliveries /\ work \in {"run", "finish", "done"}
    /\ work' = "idle" /\ exec' = NoExec /\ flush' = NoFlush /\ stopped' = FALSE /\ cancelled' = FALSE
    /\ UNCHANGED <<chatKind, draft, effects, sealed, chat, previewed, permitted, deliveries, lost, startedOver, cutShort>>

StreamInit ==
    /\ chatKind \in {"private", "group"} /\ work = "idle" /\ exec = NoExec /\ draft = NewDraft
    /\ flush = NoFlush /\ effects = {} /\ sealed = FALSE /\ chat = <<>> /\ previewed = FALSE
    /\ permitted = TRUE /\ cancelled = FALSE /\ stopped = FALSE
    /\ deliveries = 0 /\ lost = 0 /\ startedOver = FALSE /\ cutShort = FALSE

StreamNext ==
    \/ Deliver \/ ShowPhase \/ StartStream \/ Delta \/ AttemptFails \/ ExecutionEnds
    \/ ExecFlush \/ Heartbeat \/ Finish \/ Seal \/ Sealed \/ Preview \/ SkipPage \/ BeginPage
    \/ Post \/ Confirm \/ Unconfirmed \/ EndFlush
    \/ CancelWork \/ RevokeStream \/ StopStream \/ CrashStream

StreamSpec == StreamInit /\ [][StreamNext]_streamVars

---------------------------------------------------------------------------
(* Properties. *)

\* A text the user saw grow comes from one provider, and an update that is
\* delivered again after a crash never starts a second answer over one that was
\* shown, be it a page or an ephemeral preview.
OneAnswer == StreamTypeOK /\ Cardinality(exec.from) <= 1 /\ ~startedOver

\* The pages that the chat shows of the closing text.
Closed == {i \in DOMAIN chat : chat[i] = Page(draft.text, 1)}

Settled ==
    /\ Closed # {}
    /\ draft.text.kind = "final" => Cardinality(Closed) = FinalPages
    /\ (chatKind = "private" /\ draft.text.kind = "final") \/ \A i \in DOMAIN chat : chat[i].kind \notin {"pending", "partial"}

\* A request that ended under its own power shows the whole answer, or the error on
\* every page it had written; no page goes on claiming to be partial.
EndsSettled ==
    work = "done" /\ exec.pc = "over" /\ permitted /\ ~stopped /\ lost = 0 /\ deliveries = 1
        /\ (exec.outcome = "cancelled" \/ ~cancelled) /\ ~cutShort => Settled

\* A generated answer is shown, whatever was being written when the execution ended:
\* "awaited delivery" (docs/features/insight/contracts.md:23).
AnswerIsShown ==
    work = "done" /\ exec.pc = "over" /\ permitted /\ ~stopped /\ lost = 0 /\ deliveries = 1
        /\ exec.outcome = "ok" /\ ~cancelled => Settled
=============================================================================
