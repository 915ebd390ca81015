------------------------------- MODULE Dialogs -------------------------------
(***************************************************************************)
(* The two conversations of a private chat: the quality dialog a link      *)
(* opens when the saved preference is "ask", and the cut dialog that       *)
(* collects clip ranges, with the hand-over from the first to the second.  *)
(*                                                                         *)
(* yoink-storage/src/{cut,quality}.rs keeps one row of each per chat and   *)
(* guards it by id and revision; yoink-downloads/src/{cut,quality}.rs      *)
(* admits the operation between two transactions; the handlers and the     *)
(* keyboards are in yoink-telegram/src/{cut,quality}.rs.  The dispatcher   *)
(* runs the updates of a chat one at a time (chat_distribution), so one    *)
(* handler is active; a restart forgets it and Telegram may deliver any    *)
(* update again, and a button may be pressed long after it was shown.      *)
(*                                                                         *)
(* A session is named by its origin message: each of them opens a new one  *)
(* only above the last message its predecessor has seen.  A clip is named  *)
(* by the message that completed it; times, formats and texts are left     *)
(* out.                                                                    *)
(***************************************************************************)
EXTENDS Integers, Sequences, FiniteSets

CONSTANTS
    MessageKinds,        \* the kinds of message that arrive
    MaxMessage,   \* bound: messages 1 .. MaxMessage
    MaxClips,     \* 20 in the code
    MaxRevision,  \* bound: revisions of a cut session
    QualityChoices,      \* the heights and Audio of a quality dialog
    Audio,        \* the choice a cut dialog refuses
    None          \* no value

CutStages == {"start", "end", "ready", "quality", "confirming", "submitted", "cancelled"}
QualityStages == {"choosing", "confirming", "submitted", "cancelled", "cutting"}
Keys == {"tg", "cut"} \X Nat

\* A row of each table.
CutRows ==
    [id : Nat, rev : Nat, stage : CutStages, origin : Nat, last : Nat, clips : Seq(Nat),
     editing : Nat \cup {None}, op : Keys \cup {None}, selected : QualityChoices \cup {None},
     original : BOOLEAN, linked : Nat \cup {None}]

QualityRows ==
    [id : Nat, rev : Nat, stage : QualityStages, origin : Nat,
     selected : QualityChoices \cup {None}, op : Keys \cup {None}, cut : Nat \cup {None}]

\* What the constants of an instance satisfy.
DialogAssumption ==
    /\ MessageKinds \subseteq {"link", "ranged", "playlist", "cut", "cutAt", "time", "cancel"}
    /\ MaxMessage \in Nat /\ MaxClips \in Nat \ {0} /\ MaxRevision \in Nat \ {0}
    /\ Audio \in QualityChoices
    /\ None \notin QualityChoices /\ None \notin Nat /\ None \notin Keys
    /\ None \notin CutRows /\ None \notin QualityRows

VARIABLES
    quality,   \* runtime_quality_sessions: the row of this chat, or None
    cut,       \* runtime_cut_sessions: the row of this chat, or None
    intents,   \* runtime_quality_media_intents: the sessions that have one
    ops,       \* the operations admitted, by idempotency key
    kinds,     \* the messages sent so far, by message id
    handler,   \* the update in progress: where it stands between transactions
    asks       \* the saved quality preference is "ask"

dialogVars == <<quality, cut, intents, ops, kinds, handler, asks>>

Idle == [pc |-> "idle"]
CutLive == {"start", "end", "ready", "quality", "confirming"}
Editable == {"ready", "quality"}

QualityOf(m) == <<"tg", m>>
CutKey(id) == <<"cut", id>>
OperationOf(key) == CHOOSE o \in ops : o.key = key
Admitted(key) == \E o \in ops : o.key = key

---------------------------------------------------------------------------
(* The rows. *)

\* The checks of decode in cut.rs: a row that fails them can be neither read
\* nor replaced any more.
CutDecodes(s) ==
    /\ s.stage \in CutStages
    /\ s.selected # Audio
    /\ s.original => s.linked # None
    /\ s.linked # None /\ ~s.original => s.stage = "cancelled"
    /\ Len(s.clips) <= MaxClips
    /\ s.editing # None => s.editing <= Len(s.clips) /\ s.stage \in {"start", "end"}
    /\ s.stage \in {"ready", "quality", "confirming", "submitted"} => s.clips # <<>>
    /\ s.stage = "cancelled" => s.clips = <<>>

\* The checks of decode in quality.rs, the revision of each stage included.
QualityDecodes(s) ==
    /\ s.rev = CASE s.stage = "choosing" -> 1
                 [] s.stage \in {"confirming", "cancelled", "cutting"} -> 2
                 [] s.stage = "submitted" -> 3
    /\ (s.stage = "cutting") <=> (s.cut # None)
    /\ (s.stage \in {"confirming", "submitted"}) <=> (s.selected # None)
    /\ (s.stage = "submitted") <=> (s.op # None)

\* Mutant of CutLinks: forgets that a claimed cut still has to be admitted.
CutLinksDraft(c, id) == c # None /\ c.linked = id /\ c.stage \in Editable \cup {"start", "end"}

CutLinks(c, id) == c # None /\ c.linked = id /\ c.stage # "cancelled"

\* put in quality.rs: the intent of the row it replaces goes, unless a live cut links it.
Kept(id) ==
    IF quality # None /\ quality.id # id /\ ~CutLinks(cut, quality.id)
    THEN intents \ {quality.id} ELSE intents

PutQuality(s) ==
    /\ quality' = s
    /\ intents' = Kept(s.id)
    /\ UNCHANGED cut

\* put in cut.rs: the intent of the quality dialog the replaced row linked goes
\* when neither the quality row nor the new cut needs it.
CutReleases(s, q) ==
    IF cut # None /\ cut.linked # None
       /\ (q = None \/ q.id # cut.linked) /\ ~CutLinks(s, cut.linked)
    THEN {cut.linked} ELSE {}

PutCut(s) ==
    /\ cut' = s
    /\ intents' = intents \ CutReleases(s, quality)
    /\ UNCHANGED quality

Require(id, rev) == cut # None /\ cut.id = id /\ cut.rev = rev

\* A delivered choice may be repeated after its transition has committed.
RequireChoiceReplay(id, rev) ==
    /\ cut # None /\ cut.id = id
    /\ \/ cut.rev = rev
       \/ cut.stage \in {"confirming", "submitted"} /\ rev + 1 = cut.rev

Bump(s) == [s EXCEPT !.rev = @ + 1]

---------------------------------------------------------------------------
(* The cut dialog: one operator per transaction of cut.rs. *)

NewCut(m, stage) ==
    [id |-> m, rev |-> 1, stage |-> stage, origin |-> m, last |-> m, clips |-> <<>>,
     editing |-> None, op |-> None, selected |-> None, original |-> FALSE, linked |-> None]

\* A message that was seen before is answered with the row as it is.
CutBegin(m, stage) ==
    /\ cut # None => m > cut.last /\ cut.stage # "confirming"
    /\ PutCut(NewCut(m, stage))

WithClip(s, m) ==
    IF s.editing # None THEN [s.clips EXCEPT ![s.editing] = m] ELSE Append(s.clips, m)

CutInput(m) ==
    /\ cut # None /\ m > cut.last /\ cut.rev < MaxRevision
    /\ \/ /\ cut.stage = "start"
          /\ PutCut([Bump(cut) EXCEPT !.stage = "end", !.last = m])
       \/ /\ cut.stage = "end"
          /\ cut.editing = None => Len(cut.clips) < MaxClips
          /\ PutCut([Bump(cut) EXCEPT !.stage = "ready", !.last = m,
                                     !.clips = WithClip(cut, m), !.editing = None])

Reopened(index) ==
    [Bump(cut) EXCEPT !.stage = "start", !.editing = index, !.selected = None, !.op = None]

CutEdit(id, rev) ==
    /\ Require(id, rev) /\ cut.stage \in Editable /\ cut.rev < MaxRevision
    /\ PutCut(Reopened(1))

CutBeginSegment(id, rev, index) ==
    /\ Require(id, rev) /\ cut.stage \in Editable /\ cut.rev < MaxRevision
    /\ IF index = None THEN Len(cut.clips) < MaxClips ELSE index \in DOMAIN cut.clips
    /\ PutCut(Reopened(index))

Without(clips, index) ==
    [i \in 1 .. Len(clips) - 1 |-> IF i < index THEN clips[i] ELSE clips[i + 1]]

\* Mutant of CutDeleteSegment: an emptied cut stays ready.
CutDeleteStaysReady(id, rev, index) ==
    /\ Require(id, rev) /\ cut.stage \in Editable /\ cut.rev < MaxRevision
    /\ index \in DOMAIN cut.clips
    /\ PutCut([Bump(cut) EXCEPT !.stage = "ready", !.clips = Without(cut.clips, index),
                                 !.editing = None, !.selected = None, !.op = None])

CutDeleteSegment(id, rev, index) ==
    /\ Require(id, rev) /\ cut.stage \in Editable /\ cut.rev < MaxRevision
    /\ index \in DOMAIN cut.clips
    /\ LET left == Without(cut.clips, index)
       IN  PutCut([Bump(cut) EXCEPT !.stage = IF left = <<>> THEN "start" ELSE "ready",
                                    !.clips = left, !.editing = None,
                                    !.selected = None, !.op = None])

CutBack(id, rev) ==
    /\ Require(id, rev) /\ cut.stage \in {"start", "end"} /\ cut.clips # <<>>
    /\ cut.rev < MaxRevision
    /\ PutCut([Bump(cut) EXCEPT !.stage = "ready", !.editing = None, !.selected = None])

\* message is None for a button.  The original request goes with the clips.
CutCancel(id, rev, message) ==
    /\ Require(id, rev) /\ cut.stage \in CutLive \ {"confirming"}
    /\ message # None => message > cut.last
    /\ PutCut([Bump(cut) EXCEPT !.stage = "cancelled", !.clips = <<>>, !.editing = None,
                                !.selected = None, !.original = FALSE,
                                !.last = IF message = None THEN @ ELSE message])

CutQuality(id, rev) ==
    /\ Require(id, rev) /\ cut.stage = "ready" /\ cut.rev < MaxRevision
    /\ PutCut([Bump(cut) EXCEPT !.stage = "quality"])

\* The row after cut_claim: the claim does not change the revision.
Claimed(s) == [s EXCEPT !.stage = IF s.stage = "submitted" THEN @ ELSE "confirming"]

MayClaim(s) ==
    \/ s.stage \in {"ready", "confirming", "submitted"}
    \/ s.stage = "quality" /\ s.selected # None

CutChosen(choice) ==
    IF cut.stage \in {"confirming", "submitted"} THEN cut
    ELSE [Bump(cut) EXCEPT !.stage = "confirming", !.selected = choice]

\* Mutant of MayChoose: a choice is accepted once.
MayChooseOnce(id, rev, choice) ==
    choice # Audio /\ RequireChoiceReplay(id, rev) /\ cut.stage = "quality"

MayChoose(id, rev, choice) ==
    /\ choice # Audio
    /\ RequireChoiceReplay(id, rev)
    /\ \/ cut.stage = "quality"
       \/ cut.stage \in {"confirming", "submitted"} /\ cut.selected = choice

CutSubmitted(id, rev, key) ==
    /\ Require(id, rev)
    /\ \/ cut.stage = "submitted" /\ cut.op = key /\ UNCHANGED <<quality, cut, intents>>
       \/ cut.stage = "confirming" /\ PutCut([cut EXCEPT !.stage = "submitted", !.op = key])

---------------------------------------------------------------------------
(* The quality dialog: one operator per transaction of quality.rs. *)

NewQuality(m) ==
    [id |-> m, rev |-> 1, stage |-> "choosing", origin |-> m,
     selected |-> None, op |-> None, cut |-> None]

QualityBegin(m) ==
    /\ quality # None => m > quality.origin /\ quality.stage # "confirming"
    /\ quality' = NewQuality(m)
    /\ intents' = Kept(m) \cup {m}
    /\ UNCHANGED cut

\* get in quality.rs.
QualityRow(id, rev) ==
    /\ quality # None /\ quality.id = id
    /\ \/ quality.rev = rev
       \/ quality.stage \in {"confirming", "cancelled"} /\ quality.rev = rev + 1

MayClaimQuality(id, rev, choice) ==
    /\ QualityRow(id, rev)
    /\ \/ quality.stage = "choosing"
       \/ quality.stage = "confirming" /\ quality.selected = choice

QualityClaimed(choice) ==
    IF quality.stage = "confirming" THEN quality
    ELSE [Bump(quality) EXCEPT !.stage = "confirming", !.selected = choice]

QualityCancel(id, rev) ==
    /\ QualityRow(id, rev) /\ quality.stage = "choosing"
    /\ PutQuality([Bump(quality) EXCEPT !.stage = "cancelled"])

QualitySubmitted(id, rev, key) ==
    /\ QualityRow(id, rev)
    /\ quality.stage = "confirming" /\ quality.rev = rev
    /\ PutQuality([Bump(quality) EXCEPT !.stage = "submitted", !.op = key])

Watermarked(c) == c # None /\ c.last >= quality.origin

\* The hand-over: the cut starts from the request of the dialog, ready when
\* the link already carries a range.
MayHandOver ==
    /\ kinds[quality.origin] # "playlist"
    /\ ~Watermarked(cut)
    /\ cut # None => cut.stage \notin CutLive

HandedOver ==
    [NewCut(quality.origin, IF kinds[quality.origin] = "ranged" THEN "ready" ELSE "start")
       EXCEPT !.clips = IF kinds[quality.origin] = "ranged" THEN <<quality.origin>> ELSE <<>>,
              !.original = TRUE, !.linked = quality.id]

LinkCurrent ==
    /\ quality.stage = "cutting" /\ cut # None
    /\ cut.id = quality.cut /\ cut.linked = quality.id

\* Pressed again, the button resumes the cut while the two rows name each other.
QualityCut(id, rev) ==
    /\ quality # None /\ quality.id = id
    /\ \/ /\ quality.stage = "choosing" /\ quality.rev = rev /\ MayHandOver
          /\ quality' = [Bump(quality) EXCEPT !.stage = "cutting", !.cut = quality.origin]
          /\ cut' = HandedOver
          /\ intents' = intents \ CutReleases(HandedOver, quality)
       \/ LinkCurrent /\ quality.rev - rev \in {0, 1} /\ UNCHANGED <<quality, cut, intents>>

---------------------------------------------------------------------------
(* Messages. *)

CutMessages(m, kind) ==
    \/ kind = "cut" /\ CutBegin(m, "start")
    \/ kind = "cutAt" /\ CutBegin(m, "end")
    \/ kind = "time" /\ CutInput(m)
    \/ kind = "cancel" /\ cut # None /\ CutCancel(cut.id, cut.rev, m)

Links == {"link", "ranged", "playlist"}

\* A cut that waits for a time takes every text for one, links included.
Swallowed == cut # None /\ cut.stage \in {"start", "end"}

\* Mutant of LinkProceeds: a dialog that was handed over no longer holds its message.
LinkProceedsAfterCut(m) ==
    /\ ~Swallowed
    /\ ~Admitted(QualityOf(m))
    /\ quality # None /\ quality.stage # "cutting" => m > quality.origin /\ quality.stage # "confirming"

\* submit_telegram_context: an admitted message is replayed, an older one than
\* the dialog is refused, a claimed dialog is not replaced.
LinkProceeds(m) ==
    /\ ~Swallowed
    /\ ~Admitted(QualityOf(m))
    /\ quality # None => m > quality.origin /\ quality.stage # "confirming"

Operation(key, link, clips, choice, media) ==
    [key |-> key, link |-> link, clips |-> clips, choice |-> choice, media |-> media]

SubmitLink(m) ==
    /\ LinkProceeds(m)
    /\ \/ asks /\ QualityBegin(m) /\ UNCHANGED ops
       \/ ~asks /\ ops' = ops \cup {Operation(QualityOf(m), m, <<>>, None, TRUE)}
          /\ UNCHANGED <<quality, cut, intents>>

Receive(m, kind) ==
    /\ handler = Idle
    /\ (CutMessages(m, kind) /\ UNCHANGED ops) \/ (kind \in Links /\ SubmitLink(m))
    /\ UNCHANGED <<handler, asks>>

NewMessage(kind) ==
    /\ Len(kinds) < MaxMessage
    /\ Receive(Len(kinds) + 1, kind)
    /\ kinds' = Append(kinds, kind)

\* The handler fails, or the process ends, before the message changes anything.
MissMessage(kind) ==
    /\ Len(kinds) < MaxMessage
    /\ kinds' = Append(kinds, kind)
    /\ UNCHANGED <<quality, cut, intents, ops, handler, asks>>

\* After a restart the updates above the last acknowledged offset come again.
Redelivery(m) == Receive(m, kinds[m]) /\ UNCHANGED kinds

---------------------------------------------------------------------------
(* Buttons: what a press does, and what the keyboards offer. *)

Confirming(key, s, link, choice, linked) ==
    [pc |-> "admit", key |-> key, rev |-> s.rev, id |-> s.id, link |-> link,
     clips |-> IF key[1] = "cut" THEN s.clips ELSE <<>>, choice |-> choice, linked |-> linked]

CutConfirm(s) ==
    /\ MayClaim(s)
    /\ PutCut(Claimed(s))
    /\ handler' = Confirming(CutKey(s.id), s, s.origin, s.selected, s.linked)

\* cut_submit: a ready clip asks for the quality first when the preference says so.
CutGo(id, rev) ==
    /\ Require(id, rev)
    /\ \/ asks /\ CutQuality(id, rev) /\ UNCHANGED handler
       \/ ~(cut.stage = "ready" /\ asks) /\ CutConfirm(cut)

CutChoose(id, rev, choice) ==
    /\ MayChoose(id, rev, choice)
    /\ CutConfirm(CutChosen(choice))

\* quality_confirm: a submitted dialog is admitted again with the same key.
QualityConfirm(id, rev, choice) ==
    /\ quality # None /\ quality.id = id
    /\ \/ /\ quality.stage = "submitted" /\ quality.selected = choice
          /\ quality.rev - rev \in 0 .. 2
          /\ UNCHANGED <<quality, cut, intents>>
          /\ handler' = [Confirming(QualityOf(quality.origin), quality, quality.origin, choice, id)
                           EXCEPT !.pc = "replay"]
       \/ /\ quality.stage # "submitted" /\ MayClaimQuality(id, rev, choice)
          /\ PutQuality(QualityClaimed(choice))
          /\ handler' = Confirming(QualityOf(quality.origin), QualityClaimed(choice),
                                   quality.origin, choice, id)

Indexes == 1 .. MaxClips

CutActions ==
    {<<"go">>, <<"edit">>, <<"add">>, <<"back">>, <<"cancel">>}
      \cup ({"e", "d"} \X Indexes) \cup ({"q"} \X QualityChoices)

QualityActions == {<<"qlcancel">>, <<"qlcut">>} \cup ({"ql"} \X QualityChoices)

\* handle_callback of cut.rs.
PressCut(act, id, rev) ==
    \/ /\ \/ act = <<"edit">> /\ CutEdit(id, rev)
          \/ act = <<"add">> /\ CutBeginSegment(id, rev, None)
          \/ act[1] = "e" /\ CutBeginSegment(id, rev, act[2])
          \/ act[1] = "d" /\ CutDeleteSegment(id, rev, act[2])
          \/ act = <<"back">> /\ CutBack(id, rev)
          \/ act = <<"cancel">> /\ CutCancel(id, rev, None)
       /\ UNCHANGED handler
    \/ act = <<"go">> /\ CutGo(id, rev)
    \/ act[1] = "q" /\ CutChoose(id, rev, act[2])

\* handle_callback of quality.rs.
PressQuality(act, id, rev) ==
    \/ act = <<"qlcancel">> /\ QualityCancel(id, rev) /\ UNCHANGED handler
    \/ act = <<"qlcut">> /\ QualityCut(id, rev) /\ UNCHANGED handler
    \/ act[1] = "ql" /\ QualityConfirm(id, rev, act[2])

\* Any revision of any session may still be on the screen; a press on one that
\* has no row any more is refused.
Sessions == {row.id : row \in {quality, cut} \ {None}}

Press(act, id, rev) ==
    /\ PressCut(act, id, rev) \/ PressQuality(act, id, rev)
    /\ UNCHANGED <<ops, kinds, asks>>

SegmentButtons(s) ==
    (IF Len(s.clips) < MaxClips THEN {<<"add">>} ELSE {})
      \cup ({"d"} \X DOMAIN s.clips)
      \cup (IF Len(s.clips) = 1 THEN {<<"edit">>} ELSE {"e"} \X DOMAIN s.clips)

\* keyboard_values of cut.rs, and of render the choice a claimed cut shows.
CutKeyboard(s) ==
    CASE s.stage = "ready" -> SegmentButtons(s) \cup {<<"go">>, <<"cancel">>}
      [] s.stage = "quality" -> SegmentButtons(s) \cup {<<"cancel">>} \cup ({"q"} \X (QualityChoices \ {Audio}))
      [] s.stage = "confirming" -> IF s.selected = None THEN {<<"go">>} ELSE {<<"q", s.selected>>}
      [] s.stage \in {"start", "end"} /\ s.clips # <<>> -> {<<"back">>, <<"cancel">>}
      [] OTHER -> {}

\* cut_availability: whether the quality dialog offers to cut.
CutAvailable ==
    IF quality.stage = "cutting" THEN LinkCurrent
    ELSE kinds[quality.origin] # "playlist" /\ ~Watermarked(cut)
         /\ (cut # None => cut.stage \notin CutLive)

\* menu_state and keyboard_values of quality.rs.
QualityKeyboard(s) ==
    CASE s.stage = "choosing" ->
             ({"ql"} \X QualityChoices) \cup {<<"qlcancel">>} \cup (IF CutAvailable THEN {<<"qlcut">>} ELSE {})
      [] s.stage = "confirming" -> {<<"ql", s.selected>>}
      [] s.stage = "cutting" /\ CutAvailable -> {<<"qlcut">>}
      [] OTHER -> {}

---------------------------------------------------------------------------
(* The two later transactions of a confirmation. *)

\* submit_quality_media and submit_preferred_request: an existing operation is
\* returned when it was admitted for the same intent.
SubmitMedia ==
    LET media == handler.linked \in intents
        o == Operation(handler.key, handler.link, handler.clips, handler.choice, media)
        same == media \/ OperationOf(handler.key) = o
    IN  /\ handler.pc \in {"admit", "replay"}
        /\ ops' = IF Admitted(handler.key) THEN ops ELSE ops \cup {o}
        /\ handler' = IF handler.pc = "replay" \/ (Admitted(handler.key) /\ ~same) THEN Idle
                      ELSE [handler EXCEPT !.pc = "admitted"]
        /\ UNCHANGED <<quality, cut, intents, kinds, asks>>

FinishConfirm ==
    /\ handler.pc = "admitted"
    /\ \/ handler.key[1] = "cut" /\ CutSubmitted(handler.id, handler.rev, handler.key)
       \/ handler.key[1] = "tg" /\ QualitySubmitted(handler.id, handler.rev, handler.key)
    /\ handler' = Idle
    /\ UNCHANGED <<ops, kinds, asks>>

\* A refusal (quota, ban, full queue), an error or the end of the process.
Abandon ==
    /\ handler # Idle
    /\ handler' = Idle
    /\ UNCHANGED <<quality, cut, intents, ops, kinds, asks>>

SetPreference ==
    /\ asks' = ~asks
    /\ UNCHANGED <<quality, cut, intents, ops, kinds, handler>>

DialogInit ==
    /\ quality = None /\ cut = None /\ intents = {} /\ ops = {} /\ kinds = <<>>
    /\ handler = Idle /\ asks \in BOOLEAN

DialogNext ==
    \/ \E kind \in MessageKinds : NewMessage(kind) \/ MissMessage(kind)
    \/ \E m \in DOMAIN kinds : Redelivery(m)
    \/ /\ handler = Idle
       /\ \E act \in CutActions \cup QualityActions, id \in Sessions, rev \in 1 .. MaxRevision + 1 :
              Press(act, id, rev)
    \/ SubmitMedia \/ FinishConfirm \/ Abandon \/ SetPreference

DialogSpec == DialogInit /\ [][DialogNext]_dialogVars

---------------------------------------------------------------------------
(* Properties. *)

\* Every row the dialogs write can be read back by their decode functions:
\* a row that cannot would lock the chat out of its dialogs for good.
RowsDecode ==
    /\ quality # None => quality.id \in DOMAIN kinds /\ QualityDecodes(quality)
    /\ cut # None => cut.id \in DOMAIN kinds /\ CutDecodes(cut)
    /\ intents \subseteq DOMAIN kinds

\* A keyboard drawn from the present rows offers no button its handler refuses
\* as stale (MaxRevision is a bound of the model and not of the code).
ButtonsWork ==
    handler = Idle =>
        /\ quality # None => \A act \in QualityKeyboard(quality) :
               ENABLED Press(act, quality.id, quality.rev)
        /\ cut # None /\ cut.rev < MaxRevision => \A act \in CutKeyboard(cut) :
               ENABLED Press(act, cut.id, cut.rev)

\* A message becomes at most one operation, whether it is admitted at once,
\* from its quality dialog or from the cut that dialog handed over to, in spite
\* of old buttons, repeated deliveries and restarts between the transactions.
OnePerMessage ==
    \A o1, o2 \in ops : o1.link = o2.link => o1 = o2

\* The operation of a claimed or submitted dialog has the clips and the quality
\* the dialog shows, a submitted dialog has one, and an operation out of a link's dialog
\* keeps the media intent the link was sent with.
AdmittedAsShown ==
    /\ cut # None /\ cut.stage = "submitted" => cut.op = CutKey(cut.id) /\ Admitted(cut.op)
    /\ quality # None /\ quality.stage = "submitted" =>
           quality.op = QualityOf(quality.origin) /\ Admitted(quality.op)
    /\ cut # None /\ Admitted(CutKey(cut.id)) =>
           LET o == OperationOf(CutKey(cut.id))
           IN  o.clips = cut.clips /\ o.choice = cut.selected /\ (o.media <=> cut.linked # None)
    /\ quality # None /\ Admitted(QualityOf(quality.origin)) =>
           LET o == OperationOf(QualityOf(quality.origin)) IN o.choice = quality.selected /\ o.media

\* What the dialogs keep in spite of old buttons, repeated deliveries and restarts: rows
\* that can be read, one operation per message, and the operation that was shown
\* (cut.rs, quality.rs of yoink-storage and yoink-telegram).
DialogsAreSound == RowsDecode /\ OnePerMessage /\ AdmittedAsShown
=============================================================================
