------------------------------ MODULE Progress ------------------------------
(***************************************************************************)
(* The progress notice of one download operation: the reply that admitted  *)
(* it is edited while the operation runs and, in a private chat, removed   *)
(* together with the user's input once the operation succeeded             *)
(* (yoink-telegram progress.rs, yoink-storage progress.rs).                *)
(*                                                                         *)
(* Admission inserts an input-only row; the handler that admitted the      *)
(* operation registers the reply it sent, which replaces that row; one     *)
(* loop reads the due row, reads the operation, edits or deletes messages  *)
(* and then advances the row it read.  Every one of these is a step of its *)
(* own, so the operation, a registration and a restart come between them.  *)
(*                                                                         *)
(* A text is the status it is rendered from.  A request the client gave up *)
(* on takes effect before the next one or never.                           *)
(***************************************************************************)
EXTENDS Naturals, FiniteSets

CONSTANTS
    Replies,            \* replies of the handlings of the admitting message
    MaxOpRetries,       \* bound: attempts of the operation that are retried
    MaxNoticeFaults     \* bound: failed requests, denials, deletions, crashes

\* What the constants of an instance satisfy.
ProgressAssumption ==
    /\ IsFiniteSet(Replies) /\ "input" \notin Replies
    /\ MaxOpRetries \in Nat /\ MaxNoticeFaults \in Nat

VARIABLES
    opStatus,       \* runtime_operations.status
    opRetries,      \* attempts that went back to the queue
    inPrivate,      \* the operation's target is the actor's private chat
    notice,         \* the row of runtime_progress_notices, or NoNotice
    replyAt,        \* what each handling did with its reply
    shown,          \* what Telegram shows for each message
    unreachable,    \* messages Telegram refused to change for good
    deniedStatus,   \* a status read was refused to the actor
    noticeLoop,     \* the progress loop: its step and what it holds
    noticeFaults    \* faults so far

progressVars == <<opStatus, opRetries, inPrivate, notice, replyAt, shown,
                  unreachable, deniedStatus, noticeLoop, noticeFaults>>

Working == {"queued", "running", "delivering"}
Outcomes == {"succeeded", "failed", "unknown"}
Statuses == Working \cup Outcomes

\* A message is a reply or the user's own input.
ProgressMessages == Replies \cup {"input"}

\* The last_text of a row: none yet, the input-only marker, the empty text
\* of a removed notice, or the text of a status.
LastTexts == {"none", "marker", "empty"} \cup Statuses

NoNotice == [message |-> "none", last |-> "none", finished |-> TRUE]
Notice(m, last, finished) == [message |-> m, last |-> last, finished |-> finished]
InputOnly(row) == row.last = "marker"

NoticeTerminal(status) == status \in Outcomes

NoticeIdle == [at |-> "idle", row |-> NoNotice, status |-> "queued", text |-> "none", finish |-> FALSE]

ProgressTypeOK ==
    /\ opStatus \in Statuses
    /\ opRetries \in 0 .. MaxOpRetries
    /\ inPrivate \in BOOLEAN
    /\ notice \in [message : ProgressMessages \cup {"none"}, last : LastTexts, finished : BOOLEAN]
    /\ replyAt \in [Replies -> {"unsent", "sent", "over"}]
    /\ shown \in [ProgressMessages -> Statuses \cup {"absent", "text", "deleted"}]
    /\ unreachable \subseteq ProgressMessages
    /\ deniedStatus \in BOOLEAN
    /\ noticeLoop.at \in {"idle", "due", "input", "notice", "edit", "advance"}
    /\ noticeFaults \in 0 .. MaxNoticeFaults

-----------------------------------------------------------------------------
(* Admission, and the operation itself. *)

\* The admission transaction: the reference to the input of a private chat is
\* stored with the operation.
ProgressInit ==
    /\ opStatus = "queued"
    /\ opRetries = 0
    /\ inPrivate \in BOOLEAN
    /\ notice = IF inPrivate THEN Notice("input", "marker", FALSE) ELSE NoNotice
    /\ replyAt = [r \in Replies |-> "unsent"]
    /\ shown = [m \in ProgressMessages |-> IF m = "input" THEN "text" ELSE "absent"]
    /\ unreachable = {}
    /\ deniedStatus = FALSE
    /\ noticeLoop = NoticeIdle
    /\ noticeFaults = 0

\* The queue and its workers: what the download queue does with the status.
OperationMoves ==
    /\ \/ /\ opStatus = "queued"
          /\ opStatus' \in {"running", "failed"} /\ UNCHANGED opRetries
       \/ /\ opStatus = "running"
          /\ opStatus' \in {"delivering", "failed"} /\ UNCHANGED opRetries
       \/ /\ opStatus = "delivering"
          /\ opStatus' \in Outcomes /\ UNCHANGED opRetries
       \/ /\ opStatus = "running" /\ opRetries < MaxOpRetries
          /\ opStatus' = "queued" /\ opRetries' = opRetries + 1
    /\ UNCHANGED <<inPrivate, notice, replyAt, shown, unreachable, deniedStatus, noticeLoop, noticeFaults>>

-----------------------------------------------------------------------------
(* Registration. *)

\* The handler's reply is acknowledged; its text says the job is queued.
ReplySent(r) ==
    /\ replyAt[r] = "unsent"
    /\ replyAt' = [replyAt EXCEPT ![r] = "sent"]
    /\ shown' = [shown EXCEPT ![r] = "queued"]
    /\ UNCHANGED <<opStatus, opRetries, inPrivate, notice, unreachable, deniedStatus, noticeLoop, noticeFaults>>

\* The row the registration of reply r leaves: the first confirmed message
\* wins, and replaces a reference to the input alone, even a finished one.
ReplyRegistered(row, r) ==
    IF row = NoNotice \/ InputOnly(row) THEN Notice(r, "none", FALSE) ELSE row

RegisterReply(r) ==
    /\ replyAt[r] = "sent"
    /\ replyAt' = [replyAt EXCEPT ![r] = "over"]
    /\ notice' = ReplyRegistered(notice, r)
    /\ UNCHANGED <<opStatus, opRetries, inPrivate, shown, unreachable, deniedStatus, noticeLoop, noticeFaults>>

-----------------------------------------------------------------------------
(* The loop. *)

LoopStays == UNCHANGED <<opStatus, opRetries, inPrivate, replyAt>>

NoticeUntouched == UNCHANGED <<notice, shown, unreachable, deniedStatus>>

NoticeFault == /\ noticeFaults < MaxNoticeFaults
               /\ noticeFaults' = noticeFaults + 1

\* The call of advance the loop makes next.
NoticeAdvances(text, finish) ==
    noticeLoop' = [noticeLoop EXCEPT !.at = "advance", !.text = text, !.finish = finish]

DueNotice ==
    /\ noticeLoop.at = "idle"
    /\ notice # NoNotice /\ ~notice.finished
    /\ noticeLoop' = [NoticeIdle EXCEPT !.at = "due", !.row = notice]
    /\ NoticeUntouched /\ LoopStays /\ UNCHANGED noticeFaults

\* Where update goes with the record it has just read.
StatusRead ==
    /\ noticeLoop.at = "due"
    /\ LET row == noticeLoop.row
           over == NoticeTerminal(opStatus)
           go(at) == noticeLoop' = [noticeLoop EXCEPT !.at = at, !.status = opStatus] IN
       CASE opStatus = "succeeded" /\ inPrivate -> go("input")
         [] opStatus = "succeeded" /\ ~inPrivate -> go("notice")
         [] opStatus # "succeeded" /\ (InputOnly(row) \/ row.last \in {"empty", opStatus}) ->
              NoticeAdvances("none", over)
         [] OTHER -> go("edit")
    /\ NoticeUntouched /\ LoopStays /\ UNCHANGED noticeFaults

\* The actor may not read the operation any more: the notice ends as it is.
StatusDenied ==
    /\ noticeLoop.at = "due"
    /\ NoticeAdvances("none", TRUE)
    /\ deniedStatus' = TRUE
    /\ NoticeFault
    /\ UNCHANGED <<notice, shown, unreachable>> /\ LoopStays

StatusFails ==
    /\ noticeLoop.at = "due"
    /\ NoticeAdvances("none", FALSE)
    /\ NoticeFault
    /\ NoticeUntouched /\ LoopStays

\* The message the loop is about to delete, and what follows a deletion that
\* Telegram decided.
Doomed == IF noticeLoop.at = "input" THEN "input" ELSE noticeLoop.row.message

AfterRemoval ==
    IF noticeLoop.at = "input" /\ ~InputOnly(noticeLoop.row)
    THEN noticeLoop' = [noticeLoop EXCEPT !.at = "notice"]
    ELSE NoticeAdvances(IF InputOnly(noticeLoop.row) THEN "none" ELSE "empty", TRUE)

MessageDeleted ==
    /\ noticeLoop.at \in {"input", "notice"}
    /\ shown' = [shown EXCEPT ![Doomed] = "deleted"]
    /\ AfterRemoval
    /\ LoopStays /\ UNCHANGED <<notice, unreachable, deniedStatus, noticeFaults>>

DeletionRefused ==
    /\ noticeLoop.at \in {"input", "notice"}
    /\ unreachable' = unreachable \cup {Doomed}
    /\ AfterRemoval
    /\ NoticeFault
    /\ LoopStays /\ UNCHANGED <<notice, shown, deniedStatus>>

\* A timeout or a transient error: the message may be gone all the same.
DeletionRetried ==
    /\ noticeLoop.at \in {"input", "notice"}
    /\ shown' \in {shown, [shown EXCEPT ![Doomed] = "deleted"]}
    /\ NoticeAdvances("none", FALSE)
    /\ NoticeFault
    /\ LoopStays /\ UNCHANGED <<notice, unreachable, deniedStatus>>

NoticeEdited == [shown EXCEPT ![noticeLoop.row.message] = noticeLoop.status]

EditAcknowledged ==
    /\ noticeLoop.at = "edit"
    /\ shown[noticeLoop.row.message] # "deleted"
    /\ shown' = NoticeEdited
    /\ NoticeAdvances(noticeLoop.status, NoticeTerminal(noticeLoop.status))
    /\ LoopStays /\ UNCHANGED <<notice, unreachable, deniedStatus, noticeFaults>>

\* The message is gone, or Telegram refuses it for another lasting reason.
EditStopped ==
    /\ noticeLoop.at = "edit"
    /\ \/ /\ shown[noticeLoop.row.message] = "deleted"
          /\ UNCHANGED <<unreachable, noticeFaults>>
       \/ /\ shown[noticeLoop.row.message] # "deleted"
          /\ unreachable' = unreachable \cup {noticeLoop.row.message}
          /\ NoticeFault
    /\ NoticeAdvances("empty", NoticeTerminal(noticeLoop.status))
    /\ LoopStays /\ UNCHANGED <<notice, shown, deniedStatus>>

EditRetried ==
    /\ noticeLoop.at = "edit"
    /\ shown' \in {shown} \cup {s \in {NoticeEdited} : shown[noticeLoop.row.message] # "deleted"}
    /\ NoticeAdvances("none", FALSE)
    /\ NoticeFault
    /\ LoopStays /\ UNCHANGED <<notice, unreachable, deniedStatus>>

\* Mutant: the row is matched by its operation alone.
NoticeMatchesOperation(row) == notice # NoNotice /\ ~notice.finished

\* The UPDATE matches the row that was read by its message.
NoticeMatches(row) == notice.message = row.message /\ ~notice.finished

AdvanceNotice ==
    /\ noticeLoop.at = "advance"
    /\ notice' = IF NoticeMatches(noticeLoop.row)
                 THEN [notice EXCEPT !.last = IF noticeLoop.text = "none" THEN @ ELSE noticeLoop.text,
                                     !.finished = noticeLoop.finish]
                 ELSE notice
    /\ noticeLoop' = NoticeIdle
    /\ LoopStays /\ UNCHANGED <<shown, unreachable, deniedStatus, noticeFaults>>

AdvanceFails ==
    /\ noticeLoop.at = "advance"
    /\ noticeLoop' = NoticeIdle
    /\ NoticeFault
    /\ NoticeUntouched /\ LoopStays

-----------------------------------------------------------------------------
(* The user, and the process. *)

UserDeletes(r) ==
    /\ shown[r] \in Statuses
    /\ shown' = [shown EXCEPT ![r] = "deleted"]
    /\ NoticeFault
    /\ UNCHANGED <<notice, unreachable, deniedStatus, noticeLoop>> /\ LoopStays

\* A restart: the loop and the handlings that wait for Telegram are lost.
ProgressCrash ==
    /\ noticeLoop' = NoticeIdle
    /\ replyAt' = [r \in Replies |-> IF replyAt[r] = "sent" THEN "over" ELSE replyAt[r]]
    /\ NoticeFault
    /\ UNCHANGED <<opStatus, opRetries, inPrivate, notice, shown, unreachable, deniedStatus>>

LoopStep == \/ DueNotice \/ StatusRead \/ MessageDeleted \/ EditAcknowledged \/ EditStopped \/ AdvanceNotice
            \/ StatusDenied \/ StatusFails \/ DeletionRefused \/ DeletionRetried \/ EditRetried \/ AdvanceFails

ProgressNext ==
    \/ OperationMoves
    \/ \E r \in Replies : ReplySent(r) \/ RegisterReply(r) \/ UserDeletes(r)
    \/ DueNotice \/ StatusRead \/ StatusDenied \/ StatusFails
    \/ MessageDeleted \/ DeletionRefused \/ DeletionRetried
    \/ EditAcknowledged \/ EditStopped \/ EditRetried
    \/ AdvanceNotice \/ AdvanceFails
    \/ ProgressCrash

\* The queue ends its operations, the loop runs every interval, and a handler
\* registers the reply it sent.
ProgressSpec ==
    /\ ProgressInit /\ [][ProgressNext]_progressVars
    /\ WF_progressVars(OperationMoves) /\ WF_progressVars(LoopStep)
    /\ \A r \in Replies : WF_progressVars(RegisterReply(r))

-----------------------------------------------------------------------------
(* Properties. *)

\* What the row's message shows once nothing is left to do: the outcome, or
\* nothing because it was removed or Telegram refuses to change it.
ShowsOutcome ==
    \/ notice = NoNotice
    \/ /\ notice.finished
       /\ \/ InputOnly(notice)
          \/ shown[notice.message] = (IF opStatus = "succeeded" THEN "deleted" ELSE opStatus)
          \/ shown[notice.message] = "deleted"
          \/ notice.message \in unreachable
       /\ opStatus = "succeeded" /\ inPrivate => shown["input"] = "deleted" \/ "input" \in unreachable

OutcomeStands == NoticeTerminal(opStatus) /\ (deniedStatus \/ ShowsOutcome)

\* A row is finished only when its message shows the outcome, although registrations,
\* the operation, deletions and restarts come between the steps of the loop; unless
\* the actor was refused the status (progress.rs update, advance).
FinishedIsShown == notice # NoNotice /\ notice.finished => deniedStatus \/ OutcomeStands
=============================================================================
