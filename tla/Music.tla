------------------------------- MODULE Music --------------------------------
(***************************************************************************)
(* Music cards and their audio (yoink-telegram music_runtime.rs,           *)
(* yoink-music service.rs and audio.rs).  One message with several links   *)
(* is handled, perhaps twice at once and again after a restart.  What the  *)
(* providers say about a link drifts from one lookup to the next.  A card  *)
(* is journalled under its place in the list of resolved links, an audio   *)
(* under its link; the shared text journal is modelled in TextEffects.     *)
(***************************************************************************)
EXTENDS Naturals, Sequences, FiniteSets

CONSTANTS
    Handlers,      \* deliveries of the message to handle_command or handle_observed_message
    LinkCount,     \* links in the message, in the order of extract_links
    TrackLinks,    \* links that resolve to a track, for which audio is sent
    MessageKinds,  \* subset of {"command", "observed", "via_card"}
    CacheEntries,  \* cache_entries
    MaxDrifts,     \* bound: changes of what a provider says
    MaxCrashes     \* bound: crashes of the process

Links == 1..LinkCount

\* What the constants of an instance satisfy.
MusicAssumption ==
    /\ LinkCount \in Nat \ {0} /\ TrackLinks \subseteq Links /\ CacheEntries \in Nat \ {0}
    /\ MessageKinds \subseteq {"command", "observed", "via_card"}
    /\ MaxDrifts \in Nat /\ MaxCrashes \in Nat

VARIABLES
    messageKind,
    drift,         \* the version the providers answer with now
    resolutions,   \* the service's cache, oldest first
    observation,   \* the journalled intent of an observed message: <<>> or its list
    cardRows,      \* per place in the list: <<>> or one row, "confirmed" or still "open"
    audioRows,     \* per link: <<>> or one row
    audioFiles,    \* resolutions with a cached file id
    sending,       \* requests on their way to Telegram
    messages,      \* what the chat shows
    permitted,     \* the actor may use music here
    handler,       \* per delivery
    lookups,       \* deliveries with provider searches that outlive their resolution
    stopping,      \* "no", "cancelled", "drained"
    crashes

musicVars == <<messageKind, drift, resolutions, observation, cardRows, audioRows, audioFiles,
               sending, messages, permitted, handler, lookups, stopping, crashes>>
journal == <<observation, cardRows, audioRows, audioFiles>>
world == <<messageKind, drift, permitted, stopping, crashes>>

Resolution == [link : Links, version : 0..MaxDrifts]
IdleHandler == [at |-> "idle", i |-> 1, results |-> <<>>]
EndedHandler == [IdleHandler EXCEPT !.at = "ended"]
Busy(h) == handler[h].at \notin {"idle", "ended"}
InStep(h, step) == handler[h].at = step /\ stopping # "drained"
Item(h) == handler[h].results[handler[h].i]
Rows(row) == {row[x] : x \in DOMAIN row}

MusicTypeOK ==
    /\ observation \in Seq(Seq(Resolution)) /\ Len(observation) <= 1
    /\ \A i \in Links : \A r \in Rows(cardRows[i]) : r.item \in Resolution
    /\ \A l \in Links : \A r \in Rows(audioRows[l]) : r.item.link = l
    /\ \A h \in Handlers : Len(handler[h].results) <= LinkCount
    /\ Len(resolutions) <= CacheEntries

Goes(h, step) == handler' = [handler EXCEPT ![h].at = step]
Ends(h) == handler' = [handler EXCEPT ![h] = EndedHandler]

---------------------------------------------------------------------------
(* What changes around the handlers. *)

Drift ==
    /\ drift < MaxDrifts /\ drift' = drift + 1
    /\ UNCHANGED <<messageKind, resolutions, journal, sending, messages, permitted, handler,
                   lookups, stopping, crashes>>

\* A ban, a lost grant, a change of membership or of the thread's policy.
Revoke ==
    /\ permitted /\ permitted' = FALSE
    /\ UNCHANGED <<messageKind, drift, resolutions, journal, sending, messages, handler,
                   lookups, stopping, crashes>>

\* cache_ttl has passed for the oldest resolution.
ResolutionExpires ==
    /\ resolutions # <<>> /\ resolutions' = Tail(resolutions)
    /\ UNCHANGED <<world, journal, sending, messages, handler, lookups>>

\* A request takes effect, whether or not its sender still waits; or it never does.
Arrive(s) ==
    /\ s \in sending /\ sending' = sending \ {s} /\ messages' = messages \cup {s}
    /\ UNCHANGED <<world, resolutions, journal, handler, lookups>>

CrashMusic ==
    /\ crashes < MaxCrashes /\ crashes' = crashes + 1
    /\ handler' = [h \in Handlers |-> IF Busy(h) THEN EndedHandler ELSE handler[h]]
    /\ lookups' = {} /\ resolutions' = <<>> /\ stopping' = "no"
    /\ UNCHANGED <<messageKind, drift, journal, sending, messages, permitted>>

---------------------------------------------------------------------------
(* handle_message up to the list of results. *)

Admit(h) ==
    /\ handler[h].at = "idle" /\ stopping = "no"
    /\ IF ~permitted THEN Ends(h)
       ELSE Goes(h, IF messageKind = "command" THEN "resolve" ELSE "snapshot")
    /\ UNCHANGED <<world, resolutions, journal, sending, messages, lookups>>

\* handle_observed_message: too old, a command, or a message without links.
Ignore(h) ==
    /\ handler[h].at = "idle" /\ stopping = "no" /\ messageKind # "command"
    /\ Ends(h)
    /\ UNCHANGED <<world, resolutions, journal, sending, messages, lookups>>

\* observed_snapshot: a message that was observed before keeps its first results.
ReadSnapshot(h) ==
    /\ InStep(h, "snapshot")
    /\ IF observation = <<>> THEN Goes(h, "resolve")
       ELSE handler' = [handler EXCEPT ![h] = [at |-> "item", i |-> 1, results |-> observation[1]]]
    /\ UNCHANGED <<world, resolutions, journal, sending, messages, lookups>>

Hit(l) == {x \in DOMAIN resolutions : resolutions[x].link = l}
Oldest(positions) == CHOOSE x \in positions : \A y \in positions : x <= y
Keep(h, r) == [handler EXCEPT ![h].at = "resolve", ![h].i = @ + 1, ![h].results = Append(@, r)]

\* resolve_inner with a cached resolution.
ResolveCached(h) ==
    /\ InStep(h, "resolve") /\ handler[h].i <= LinkCount /\ permitted
    /\ Hit(handler[h].i) # {}
    /\ handler' = Keep(h, resolutions[Oldest(Hit(handler[h].i))])
    /\ UNCHANGED <<world, resolutions, journal, sending, messages, lookups>>

\* resolve_uncached: the answer is fixed while other lookups of it still run.
AskProviders(h) ==
    /\ InStep(h, "resolve") /\ handler[h].i <= LinkCount /\ permitted
    /\ Hit(handler[h].i) = {}
    /\ handler' = [handler EXCEPT ![h].at = "asked", ![h].results =
                      Append(@, [link |-> handler[h].i, version |-> drift])]
    /\ lookups' = lookups \cup {h}
    /\ UNCHANGED <<world, resolutions, journal, sending, messages>>

\* The resolution is cached; a full cache loses its oldest entry.
ProvidersAnswer(h) ==
    LET r == handler[h].results[Len(handler[h].results)]
        room == IF Len(resolutions) >= CacheEntries THEN Tail(resolutions) ELSE resolutions
    IN
    /\ InStep(h, "asked") /\ resolutions' = Append(room, r) /\ lookups' = lookups \ {h}
    /\ handler' = [handler EXCEPT ![h].at = "resolve", ![h].i = @ + 1]
    /\ UNCHANGED <<world, journal, sending, messages>>

\* A source that is unavailable is left out of the list; its searches may still run.
ProvidersFail(h) ==
    /\ InStep(h, "asked")
    /\ handler' = [handler EXCEPT ![h].at = "resolve", ![h].i = @ + 1,
                                  ![h].results = SubSeq(@, 1, Len(@) - 1)]
    /\ UNCHANGED <<world, resolutions, journal, sending, messages, lookups>>

LookupsEnd(h) ==
    /\ h \in lookups /\ handler[h].at # "asked" /\ lookups' = lookups \ {h}
    /\ UNCHANGED <<world, resolutions, journal, sending, messages, handler>>

\* command: a last check of access; no result at all is a failure.
ResolveEnds(h) ==
    /\ InStep(h, "resolve") /\ handler[h].i > LinkCount
    /\ IF ~permitted \/ handler[h].results = <<>> THEN Ends(h)
       ELSE handler' = [handler EXCEPT ![h].i = 1, ![h].at =
                            IF messageKind = "command" THEN "item" ELSE "prepare"]
    /\ UNCHANGED <<world, resolutions, journal, sending, messages, lookups>>

\* prepare_observation_on: the first list to be committed is everybody's list.
PrepareObservation(h) ==
    /\ InStep(h, "prepare")
    /\ observation' = IF observation = <<>> THEN <<handler[h].results>> ELSE observation
    /\ handler' = [handler EXCEPT ![h].at = "item", ![h].results = observation'[1]]
    /\ UNCHANGED <<world, resolutions, cardRows, audioRows, audioFiles, sending, messages, lookups>>

\* Denied during resolution.
Denied(h) ==
    /\ handler[h].at \in {"resolve", "asked"} /\ stopping # "drained" /\ ~permitted
    /\ Ends(h)
    /\ UNCHANGED <<world, resolutions, journal, sending, messages, lookups>>

---------------------------------------------------------------------------
(* The cards. *)

NextItem(h) == handler' = [handler EXCEPT ![h].at = "item", ![h].i = @ + 1]

\* deliver_resolution_audio: an artist has no audio.
ToAudio(h) == IF Item(h).link \in TrackLinks THEN Goes(h, "audio") ELSE NextItem(h)

StartItem(h) ==
    /\ InStep(h, "item")
    /\ IF handler[h].i > Len(handler[h].results) THEN Ends(h)
       ELSE IF messageKind = "via_card" THEN ToAudio(h)
       ELSE IF ~permitted THEN Ends(h)
       ELSE Goes(h, "card")
    /\ UNCHANGED <<world, resolutions, journal, sending, messages, lookups>>

\* Mutant of SameCard: a row of this place is taken for this card.
AnyCard(row, item) == TRUE

\* begin_text: the row of this place holds the same card.
SameCard(row, item) == row.item = item

BeginCard(h) ==
    /\ InStep(h, "card")
    /\ IF cardRows[handler[h].i] = <<>>
       THEN /\ cardRows' = [cardRows EXCEPT ![handler[h].i] = <<[item |-> Item(h), outcome |-> "open"]>>]
            /\ Goes(h, "send_card")
       ELSE /\ UNCHANGED cardRows
            /\ LET row == cardRows[handler[h].i][1] IN
               IF ~SameCard(row, Item(h)) THEN Ends(h)
               ELSE IF row.outcome = "confirmed" THEN ToAudio(h)
               ELSE NextItem(h)
    /\ UNCHANGED <<world, resolutions, observation, audioRows, audioFiles, sending, messages, lookups>>

CardOf(h) == [what |-> "card", place |-> handler[h].i, item |-> Item(h)]
AudioOf(h) == [what |-> "audio", place |-> handler[h].i, item |-> Item(h)]

\* Access is checked once more; a refusal leaves the row as it is.
SendCard(h) ==
    /\ InStep(h, "send_card")
    /\ IF permitted /\ stopping = "no"
       THEN sending' = sending \cup {CardOf(h)} /\ Goes(h, "card_sent")
       ELSE Ends(h) /\ UNCHANGED sending
    /\ UNCHANGED <<world, resolutions, journal, messages, lookups>>

\* The receipt decides; confirm_text may fail without consequence for this handler.
CardConfirmed(h, saved) ==
    /\ InStep(h, "card_sent") /\ CardOf(h) \in messages
    /\ cardRows' = IF saved THEN [cardRows EXCEPT ![handler[h].i][1].outcome = "confirmed"] ELSE cardRows
    /\ ToAudio(h)
    /\ UNCHANGED <<world, resolutions, observation, audioRows, audioFiles, sending, messages, lookups>>

\* Rejected, timed out, cancelled, or a receipt that does not match: unknown_text, which
\* nobody tells from a row that was never settled.
CardUnknown(h) ==
    /\ InStep(h, "card_sent") /\ Ends(h)
    /\ UNCHANGED <<world, resolutions, journal, sending, messages, lookups>>

---------------------------------------------------------------------------
(* MusicService::send_audio. *)

\* A row answers without another send; only a confirmed one lets the handler go on.
ReplayAudio(h) ==
    /\ InStep(h, "audio") /\ audioRows[Item(h).link] # <<>>
    /\ LET row == audioRows[Item(h).link][1] IN
       IF permitted /\ row.item = Item(h) /\ row.outcome = "confirmed" THEN NextItem(h) ELSE Ends(h)
    /\ UNCHANGED <<world, resolutions, journal, sending, messages, lookups>>

\* The cached file, or one of the sources the worker tries.
FetchAudio(h) ==
    /\ InStep(h, "audio") /\ audioRows[Item(h).link] = <<>> /\ permitted
    /\ Goes(h, "begin_audio")
    /\ UNCHANGED <<world, resolutions, journal, sending, messages, lookups>>

AudioUnavailable(h) ==
    /\ InStep(h, "audio") /\ audioRows[Item(h).link] = <<>>
    /\ ~permitted \/ Item(h) \notin audioFiles
    /\ Ends(h)
    /\ UNCHANGED <<world, resolutions, journal, sending, messages, lookups>>

BeginAudio(h) ==
    /\ InStep(h, "begin_audio")
    /\ IF permitted /\ audioRows[Item(h).link] = <<>>
       THEN /\ audioRows' = [audioRows EXCEPT ![Item(h).link] = <<[item |-> Item(h), outcome |-> "open"]>>]
            /\ Goes(h, "send_audio")
       ELSE Ends(h) /\ UNCHANGED audioRows
    /\ UNCHANGED <<world, resolutions, observation, cardRows, audioFiles, sending, messages, lookups>>

SendAudio(h) ==
    /\ InStep(h, "send_audio")
    /\ IF permitted /\ stopping = "no"
       THEN sending' = sending \cup {AudioOf(h)} /\ Goes(h, "audio_sent")
       ELSE Ends(h) /\ UNCHANGED sending
    /\ UNCHANGED <<world, resolutions, journal, messages, lookups>>

AudioConfirmed(h, saved) ==
    /\ InStep(h, "audio_sent") /\ AudioOf(h) \in messages
    /\ audioRows' = IF saved THEN [audioRows EXCEPT ![Item(h).link][1].outcome = "confirmed"] ELSE audioRows
    /\ audioFiles' = audioFiles \cup {Item(h)}
    /\ NextItem(h)
    /\ UNCHANGED <<world, resolutions, observation, cardRows, sending, messages, lookups>>

AudioUnknown(h) ==
    /\ InStep(h, "audio_sent") /\ Ends(h)
    /\ UNCHANGED <<world, resolutions, journal, sending, messages, lookups>>

---------------------------------------------------------------------------
(* Shutdown. *)

\* cancel_all; stop_admission before it only keeps further deliveries out.
CancelMusic ==
    /\ stopping = "no" /\ stopping' = "cancelled"
    /\ UNCHANGED <<messageKind, drift, permitted, crashes, resolutions, journal, sending, messages,
                   handler, lookups>>

\* Every awaited step before a send ends with Cancelled.
CancelHandler(h) ==
    /\ stopping = "cancelled" /\ Busy(h) /\ handler[h].at \notin {"card_sent", "audio_sent"}
    /\ Ends(h)
    /\ UNCHANGED <<world, resolutions, journal, sending, messages, lookups>>

\* drain_handlers, then the service's tasks and the worker.
DrainMusic ==
    /\ stopping = "cancelled" /\ \A h \in Handlers : ~Busy(h)
    /\ lookups = {}
    /\ stopping' = "drained"
    /\ UNCHANGED <<messageKind, drift, permitted, crashes, resolutions, journal, sending, messages,
                   handler, lookups>>

MusicInit ==
    /\ messageKind \in MessageKinds /\ drift = 0 /\ resolutions = <<>>
    /\ observation = <<>> /\ cardRows = [i \in Links |-> <<>>] /\ audioRows = [l \in Links |-> <<>>]
    /\ audioFiles = {} /\ sending = {} /\ messages = {} /\ permitted = TRUE
    /\ handler = [h \in Handlers |-> IdleHandler] /\ lookups = {} /\ stopping = "no" /\ crashes = 0

MusicNext ==
    \/ Drift \/ Revoke \/ ResolutionExpires \/ CrashMusic \/ CancelMusic \/ DrainMusic
    \/ \E s \in sending : Arrive(s)
    \/ \E h \in Handlers :
           \/ Admit(h) \/ Ignore(h) \/ ReadSnapshot(h) \/ ResolveCached(h) \/ AskProviders(h)
           \/ ProvidersAnswer(h) \/ ProvidersFail(h) \/ LookupsEnd(h) \/ ResolveEnds(h)
           \/ PrepareObservation(h) \/ Denied(h) \/ StartItem(h) \/ BeginCard(h) \/ SendCard(h)
           \/ ReplayAudio(h) \/ FetchAudio(h) \/ AudioUnavailable(h) \/ BeginAudio(h)
           \/ SendAudio(h) \/ CancelHandler(h)
           \/ CardUnknown(h) \/ AudioUnknown(h)
           \/ \E saved \in BOOLEAN : CardConfirmed(h, saved) \/ AudioConfirmed(h, saved)

MusicSpec == MusicInit /\ [][MusicNext]_musicVars

---------------------------------------------------------------------------
(* Properties. *)

\* However often a message is handled and whatever the providers answer in between, no
\* link gets two cards or two audios, although cards are journalled by place and not by
\* link; an audio follows the card that shows the same resolution; and once the runtime
\* has drained no provider search is left.
ShownOnce ==
    LET shown == sending \cup messages IN
    /\ \A s, t \in shown : s.what = t.what /\ s.item.link = t.item.link => s = t
    /\ \A s \in shown : s.what = "audio" /\ messageKind # "via_card" =>
           \E t \in messages : t.what = "card" /\ t.item = s.item
    /\ stopping = "drained" => lookups = {} /\ \A h \in Handlers : ~Busy(h)
=============================================================================
