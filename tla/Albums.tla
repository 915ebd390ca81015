------------------------------- MODULE Albums -------------------------------
(***************************************************************************)
(* From a finished download to receipts and back to the cache: yoink-      *)
(* downloads plans units by its own table of media types (cache.rs), the   *)
(* sender of yoink-telegram checks each unit against a second table        *)
(* (sender.rs), Telegram answers with messages that may not match, and the *)
(* confirmed batch is replayed later from its file ids.                    *)
(*                                                                         *)
(* One delivery is followed through an upload and a replay.  The report of *)
(* stream links, which is one text message, is left out.                   *)
(***************************************************************************)
EXTENDS Naturals, Sequences

CONSTANTS
    MaxUnit,        \* most artifacts of one unit, 10 in the code
    MaxArtifacts    \* bound: artifacts of one delivery

\* What the constants of an instance satisfy.
AlbumsAssumption == MaxUnit \in Nat \ {0} /\ MaxArtifacts \in Nat

VARIABLES
    mediaTypes,      \* the media type of each artifact
    asFile,          \* send_as_file of the request
    replayed,        \* the units are sent by file id
    albums,          \* sizes of the planned units
    albumsSent,      \* units that were confirmed
    albumReceipts,   \* file id and kind of each artifact, as the cache keeps them
    albumMessages,   \* the messages in the chat of this request
    albumAt          \* "new", "sending", "rejected", "unknown" or "confirmed"

albumVars == <<mediaTypes, asFile, replayed, albums, albumsSent, albumReceipts, albumMessages,
               albumAt>>

MediaTypes == {"image/jpeg", "video/mp4", "audio/mpeg", "text/vtt"}
MediaKinds == {"photo", "video", "audio", "document"}

-----------------------------------------------------------------------------
(* The tables. *)

KindByType(t) == CASE t = "image/jpeg" -> "photo" [] t = "video/mp4" -> "video"
                   [] t = "audio/mpeg" -> "audio" [] t = "text/vtt" -> "document"

\* upload_kind of the planner
UploadKind(t, file) == IF file THEN "document" ELSE KindByType(t)

\* category: photos and videos share an album
CategoryOf(kind) == IF kind \in {"photo", "video"} THEN "visual" ELSE kind

\* Mutant: the sender looks at the media type alone.
MediaKindByType(t, file) == KindByType(t)

\* media_kind of the sender
MediaKind(t, file) == IF file THEN "document" ELSE KindByType(t)

\* compatible of the sender
Compatible(left, right) ==
    \/ left \in {"photo", "video"} /\ right \in {"photo", "video"}
    \/ left = right /\ left \in {"audio", "document"}

-----------------------------------------------------------------------------
(* The planner: the artifacts in their order are cut into units that       *)
(* Telegram takes in one message, an album of one category and MaxUnit     *)
(* items at most.                                                          *)

\* Mutant of UnitGrows: the limit is compared after the step.
UnitGrowsOverLimit(cats, start, end) ==
    /\ end <= Len(cats)
    /\ end - start <= MaxUnit
    /\ cats[end] = cats[start]

\* The inner loop of plan_categories goes on: artifact `end` joins the unit that
\* begins at `start`.
UnitGrows(cats, start, end) ==
    /\ end <= Len(cats)
    /\ end - start < MaxUnit
    /\ cats[end] = cats[start]

\* The position after the unit that begins at `start`.
UnitEnd(cats, start) ==
    LET end[i \in (start + 1)..(Len(cats) + 1)] ==
            IF UnitGrows(cats, start, i) THEN end[i + 1] ELSE i
    IN  end[start + 1]

\* plan_categories: the sizes of the units, from artifact `start` on.
PlanFrom(cats) ==
    LET plan[start \in 1..(Len(cats) + 1)] ==
            IF start > Len(cats) THEN <<>>
            ELSE <<UnitEnd(cats, start) - start>> \o plan[UnitEnd(cats, start)]
    IN  plan

PlanCategories(cats) == PlanFrom(cats)[1]
\* plan_delivery_units: an upload by its media type, a cached file by its kind.
PlannedKind(i) == IF replayed THEN albumReceipts[i].kind ELSE UploadKind(mediaTypes[i], asFile)

PlanDelivery ==
    /\ albumAt = "new"
    /\ albums' = PlanCategories([i \in DOMAIN mediaTypes |-> CategoryOf(PlannedKind(i))])
    /\ albumsSent' = 0
    /\ albumAt' = "sending"
    /\ UNCHANGED <<mediaTypes, asFile, replayed, albumReceipts, albumMessages>>

\* valid_cached_media: a batch that is asked for as files holds documents only.
ReplayIsValid(file) == file => \A i \in DOMAIN albumReceipts : albumReceipts[i].kind = "document"

\* A later request, with its own send_as_file, finds the batch in the cache.
ReplayBatch(file) ==
    /\ albumAt = "confirmed" /\ ~replayed
    /\ ReplayIsValid(file)
    /\ replayed' = TRUE /\ asFile' = file /\ albumAt' = "new" /\ albumMessages' = <<>>
    /\ UNCHANGED <<mediaTypes, albums, albumsSent, albumReceipts>>

-----------------------------------------------------------------------------
(* The sender. *)

\* The position before the first artifact of unit n.
UnitStart(n) ==
    LET start[k \in Nat] == IF k <= 1 THEN 0 ELSE start[k - 1] + albums[k - 1]
    IN  start[n]

\* The positions of the unit that is sent next.
NextUnit ==
    LET first == UnitStart(albumsSent + 1)
    IN  [k \in 1 .. albums[albumsSent + 1] |-> first + k]

\* preflight: the kinds of an uploaded unit
Preflight(unit) == [k \in DOMAIN unit |-> MediaKind(mediaTypes[unit[k]], asFile)]

\* preflight_cached: the kinds of a unit of cached files
PreflightCached(unit) == [k \in DOMAIN unit |-> albumReceipts[unit[k]].kind]

UnitKinds == IF replayed THEN PreflightCached(NextUnit) ELSE Preflight(NextUnit)

\* Both refuse the unit before any call of Telegram.
UnitIsSendable(kinds) ==
    /\ Len(kinds) \in 1 .. MaxUnit
    /\ \A k \in DOMAIN kinds : Compatible(kinds[1], kinds[k])
    /\ replayed /\ asFile => \A k \in DOMAIN kinds : kinds[k] = "document"

\* What Telegram may answer to a unit: the messages in their order, or messages
\* that do not match: one is missing, one is repeated, one is in another chat,
\* one carries a file of another kind.
AnswersOf(kinds) ==
    LET first == Len(albumMessages)
        exact == [k \in DOMAIN kinds |-> [id |-> first + k, kind |-> kinds[k], here |-> TRUE]]
    IN  {exact}
          \cup {SubSeq(exact, 1, Len(kinds) - 1)}
          \cup {[exact EXCEPT ![k].id = exact[1].id] : k \in 2 .. Len(kinds)}
          \cup {[exact EXCEPT ![k].here = FALSE] : k \in DOMAIN kinds}
          \cup {[exact EXCEPT ![k].kind = "other"] : k \in DOMAIN kinds}

\* Mutant: the number of messages is not compared.
ValidateMessagesThere(got, kinds) ==
    /\ \A k \in DOMAIN got : got[k].here /\ got[k].kind = kinds[k]
    /\ \A k, n \in DOMAIN got : k # n => got[k].id # got[n].id

\* validate_messages, validate_destination and media_file_id
ValidateMessages(got, kinds) ==
    /\ Len(got) = Len(kinds)
    /\ \A k \in DOMAIN got : got[k].here /\ got[k].kind = kinds[k]
    /\ \A k, n \in DOMAIN got : k # n => got[k].id # got[n].id

\* The messages are the answer to the unit: its receipts are kept, and
\* build_cached_media pairs the file ids with the planner's kinds.
UnitConfirmed(got) ==
    /\ albumMessages' = albumMessages \o got
    /\ albumsSent' = albumsSent + 1
    /\ albumAt' = IF albumsSent' = Len(albums) THEN "confirmed" ELSE "sending"
    /\ albumReceipts' =
          IF replayed THEN albumReceipts
          ELSE albumReceipts \o [k \in DOMAIN got |->
                                   [id |-> got[k].id, kind |-> PlannedKind(NextUnit[k])]]

\* deliver_media: a unit that is not sendable is rejected before any call, and an
\* answer that does not match leaves the outcome unknown.
SendUnit ==
    /\ albumAt = "sending" /\ albumsSent < Len(albums)
    /\ \E got \in AnswersOf(UnitKinds) :
          IF UnitIsSendable(UnitKinds) /\ ValidateMessages(got, UnitKinds)
          THEN UnitConfirmed(got)
          ELSE /\ albumAt' = IF UnitIsSendable(UnitKinds) THEN "unknown" ELSE "rejected"
               /\ UNCHANGED <<albumMessages, albumsSent, albumReceipts>>
    /\ UNCHANGED <<mediaTypes, asFile, replayed, albums>>

\* send_single and send_group fail, or the send is cancelled before its first poll.
UnitFails ==
    /\ albumAt = "sending" /\ albumsSent < Len(albums)
    /\ UnitIsSendable(UnitKinds)
    /\ albumAt' \in {"failed", "unknown"}
    /\ UNCHANGED <<mediaTypes, asFile, replayed, albums, albumsSent, albumReceipts, albumMessages>>

-----------------------------------------------------------------------------

AlbumsInit ==
    /\ mediaTypes \in UNION {[1 .. n -> MediaTypes] : n \in 1 .. MaxArtifacts}
    /\ asFile \in BOOLEAN
    /\ replayed = FALSE
    /\ albums = <<>> /\ albumsSent = 0 /\ albumReceipts = <<>> /\ albumMessages = <<>>
    /\ albumAt = "new"

AlbumsNext ==
    \/ PlanDelivery
    \/ SendUnit
    \/ UnitFails
    \/ \E file \in BOOLEAN : ReplayBatch(file)

AlbumsSpec == AlbumsInit /\ [][AlbumsNext]_albumVars

AlbumsTypeOK ==
    /\ mediaTypes \in Seq(MediaTypes) /\ asFile \in BOOLEAN /\ replayed \in BOOLEAN
    /\ albums \in Seq(1 .. MaxUnit) /\ albumsSent \in 0 .. Len(albums)
    /\ albumReceipts \in Seq([id : Nat, kind : MediaKinds])
    /\ albumMessages \in Seq([id : Nat, kind : MediaKinds, here : BOOLEAN])
    /\ albumAt \in {"new", "sending", "rejected", "failed", "unknown", "confirmed"}

\* The plan is the shortest one that keeps the order, mixes no categories and
\* exceeds no album: it covers every artifact exactly once, each unit is a
\* non-empty run of one category within the limit, and a unit ends early only
\* where the category changes (plan_categories).
PlanIsBestPartition ==
    LET category(i) == CategoryOf(PlannedKind(i))
    IN  albumAt # "new" =>
            /\ UnitStart(Len(albums) + 1) = Len(mediaTypes)
            /\ \A n \in DOMAIN albums :
                  LET first == UnitStart(n) + 1
                  IN  /\ albums[n] \in 1 .. MaxUnit
                      /\ \A i \in first .. (first + albums[n] - 1) : category(i) = category(first)
                      /\ n < Len(albums) /\ category(first) = category(first + albums[n])
                            => albums[n] = MaxUnit

\* The two tables of media types, the planner's and the sender's, agree, whatever
\* the options: the sender never refuses a unit the planner formed, neither of an
\* upload nor of a replay; and a delivery that counts as confirmed has one distinct
\* message for each artifact, in their order, of the kind the cache will remember,
\* so that a replay shows what the upload showed (plan_delivery_units, preflight,
\* validate_messages).
AlbumsAreSendable ==
    /\ AlbumsTypeOK /\ PlanIsBestPartition
    /\ albumAt # "rejected"
    /\ albumAt = "confirmed" =>
          /\ Len(albumMessages) = Len(mediaTypes)
          /\ \A i \in DOMAIN mediaTypes : albumMessages[i].kind = albumReceipts[i].kind
=============================================================================
