------------------------------ MODULE Dispatch -----------------------------
(***************************************************************************)
(* What becomes of one Telegram message (yoink-telegram/src/lib.rs,        *)
(* product_dispatch.rs, job_reply.rs): the route it needs, the features    *)
(* that are asked in turn whether the message is theirs, the actor's       *)
(* access, the command, the service call and the reply.  Every await is a  *)
(* step: an administrator may ban or promote the actor, or close a topic   *)
(* to it, between any two of them.  What the features do with a message    *)
(* they take is the subject of their own modules; here they end it.  The   *)
(* reads of the identity store are taken to succeed.                       *)
(***************************************************************************)
EXTENDS Commands

CONSTANTS Topics,          \* group chats, or topics of one
          Configurations,  \* sets of products a server may be composed of
          Texts,           \* texts of messages, sequences of words
          OpenAccess,      \* whether registration makes a user, not a restricted one
          MaxAuthority     \* changes of the actor's authority

\* What the constants of an instance satisfy.
DispatchAssumption ==
    /\ CommandsAssumption
    /\ "private" \notin Topics /\ OpenAccess \in BOOLEAN /\ MaxAuthority \in Nat
    /\ Configurations \subseteq
         SUBSET {"identity", "groups", "downloads", "music", "stats", "inbox", "insight"}

Places == Topics \cup {"private"}

VARIABLES
    products,   \* the products of this server
    owner,      \* whether the actor is the configured owner
    rank,       \* role of the actor; "none" before it is registered
    welcome,    \* topics whose policy lets the actor in
    message,    \* [place, words, asked, about, posted, document]
    stage,      \* where the handler stands
    access,     \* what private_access returned
    sections,   \* sections of the help that is put together
    reply,      \* the reply the handler holds
    told,       \* what was sent to the chat, and about which place
    acted,      \* whether a service did something for the actor
    lately,     \* history: authorised at or after the service's return
    unbanned,   \* history: not banned at some time since the arrival
    authority   \* changes so far

authorityVars == <<owner, rank, welcome, authority>>
handlerVars == <<message, stage, access, sections, reply, told, acted, lately, unbanned>>
dispatchVars == <<products, authorityVars, handlerVars>>

\* "user" is a user or more
Ranks == {"none", "banned", "restricted", "user"}
Stages == {"idle", "reply", "replied", "cancelling", "confirm", "products", "approved", "lookups",
           "music", "stats", "rest", "statsCall", "song", "inbox", "insight", "help", "access",
           "register", "pendingHelp", "dialogs", "dialog", "commands", "authorize", "call",
           "returned", "advise", "send", "end"}
Silence == [what |-> "nothing", about |-> "none"]
Answers == {"nothing", "denied", "pending", "usage", "help", "stats", "music", "error", "status",
            "result", "menu", "dialog", "record", "unavailable"}

\* `about` is the place of the operation a command names or a message replies
\* to; `posted` tells what other bot, or this one, the message came through;
\* `asked` is what its words are parsed to, as a set
NoMessage == [place |-> "private", words |-> <<>>, asked |-> {}, about |-> "none", posted |-> "no",
              document |-> FALSE]

DispatchTypeOK ==
    /\ products \in Configurations /\ owner \in BOOLEAN /\ rank \in Ranks /\ welcome \subseteq Topics
    /\ message.place \in Places /\ message.words \in Texts \cup {<<>>}
    /\ message.about \in Places \cup {"unknown", "none"} /\ stage \in Stages
    /\ Cardinality(message.asked) <= 1
    /\ access \in {"unasked", "owner", "user", "pending", "denied"}
    /\ sections \subseteq {"core", "insight", "music", "stats"}
    /\ {reply, told} \subseteq [what : Answers, about : Places \cup {"none"}]
    /\ {acted, lately, unbanned} \subseteq BOOLEAN /\ authority \in 0..MaxAuthority

DispatchInit ==
    /\ products \in Configurations /\ owner \in BOOLEAN
    /\ rank \in (IF "identity" \in products THEN Ranks ELSE {"none"}) /\ welcome \in SUBSET Topics
    /\ message = NoMessage /\ stage = "idle" /\ access = "unasked" /\ sections = {}
    /\ reply = Silence /\ told = Silence /\ acted = FALSE
    /\ lately = FALSE /\ unbanned = FALSE /\ authority = 0

-----------------------------------------------------------------------------
(* Authority, as the identity store answers it now.                        *)

Has(product) == product \in products
Private == message.place = "private"

\* authorize_target: role user or more, and the policy of the topic
FitFor(role, topics, place) == role = "user" /\ (place # "private" => place \in topics)
Fit == FitFor(rank, welcome, message.place)

\* what a restricted actor is enough for: a feature it may hold no grant of,
\* a product that may be switched off, a membership that may be missing
Allowed == rank \in {"restricted", "user"} /\ (~Private => message.place \in welcome)
Perhaps(condition) == {condition, FALSE}

\* an administrator's change, or a membership event
ChangeAuthority ==
    /\ Has("identity") /\ authority < MaxAuthority /\ authority' = authority + 1
    /\ \/ rank # "none" /\ rank' \in Ranks \ {"none", rank} /\ UNCHANGED welcome
       \/ \E t \in Topics :
            welcome' = (IF t \in welcome THEN welcome \ {t} ELSE welcome \cup {t}) /\ UNCHANGED rank
    /\ lately' = (lately \/ FitFor(rank', welcome', message.place))
    /\ unbanned' = (unbanned \/ rank' # "banned")
    /\ UNCHANGED <<products, owner, message, stage, access, sections, reply, told, acted>>

-----------------------------------------------------------------------------
(* The message.                                                            *)

Words == message.words
Begins(names) == Words # <<>> /\ IsOurs(Words[1]) /\ Words[1].name \in names
Alone(names) == Begins(names) /\ Len(Words) = 1
IsStart(word) == Begins({"start"}) /\ Tail(Words) = <<Name(word)>>
IsCommand == Words # <<>> /\ Words[1].kind = "command"

\* the command, or the link without one
Parse(words, place, posted) ==
    LET command == ParseCommand(words) IN
    IF command # {} THEN command ELSE ParsePlain(words, place = "private", posted)
Asked == message.asked
AskedOneOf(whats) == \E ask \in Asked : ask.what \in whats

AsksJob == Alone({"job", "cancel"}) /\ message.about # "none" /\ Has("downloads")
IsSong == \E i \in LinksIn(Words) : Sites[Words[i].name].music

Kept == UNCHANGED <<products, authorityVars, message, unbanned>>
GoOn(next) == stage' = next /\ UNCHANGED <<access, sections, reply, told, acted, lately>>
EndSilently == GoOn("end")

\* a reply the handler sends at once; the send may fail
SaysOf(what, about) ==
    /\ stage' = "end" /\ told' \in {Silence, [what |-> what, about |-> about]}
    /\ UNCHANGED <<access, sections, reply, lately>>
Says(what) == SaysOf(what, "none") /\ UNCHANGED acted

\* a closed registry of handlers, a server that is not ready and a message of
\* a bot or a channel end it at once
ArriveUnrouted == stage = "idle" /\ EndSilently /\ Kept

\* incoming_route: without identities the owner alone, groups when they are on
ArriveMessage ==
    /\ stage = "idle" /\ stage' = "reply"
    /\ \E place \in Places, words \in Texts \cup {<<>>} :
       \E about \in IF words # <<>> /\ words[1] \in {Slash("job"), Slash("cancel")}
                    THEN Places \cup {"unknown", "none"} ELSE {"none"},
          posted \in IF words # <<>> /\ words[1].kind # "command" /\ LinksIn(words) # {}
                     THEN {"no", "us", "other"} ELSE {"no"},
          document \in Perhaps(words = <<>>) :
         /\ IF place = "private" THEN Has("identity") \/ owner ELSE Has("groups")
         /\ message' = [place |-> place, words |-> words, asked |-> Parse(words, place, posted),
                        about |-> about, posted |-> posted, document |-> document]
    /\ unbanned' = (rank # "banned")
    /\ UNCHANGED <<products, authorityVars, access, sections, reply, told, acted, lately>>

-----------------------------------------------------------------------------
(* A reply to a message of an operation: /job or /cancel.                  *)

\* operation_by_reply: authorised, and a message of an operation of the actor
JobReply ==
    /\ stage = "reply" /\ Kept
    /\ \/ ~AsksJob /\ GoOn("products")
       \/ AsksJob /\ Fit /\ GoOn(IF message.about = "unknown" THEN "products" ELSE "replied")
       \/ AsksJob /\ ~Fit /\ (IF Private THEN Says("denied") ELSE EndSilently)

\* status_in_chat: authorised again, and only an operation of this place
InChat == message.about = message.place

JobReplied ==
    /\ stage = "replied" /\ Kept
    /\ \/ ~Fit /\ (IF Private THEN Says("denied") ELSE EndSilently)
       \/ Fit /\ ~InChat /\ GoOn("products")
       \/ Fit /\ InChat /\ Alone({"cancel"}) /\ GoOn("cancelling")
       \/ Fit /\ InChat /\ Alone({"job"}) /\ SaysOf("record", message.about) /\ UNCHANGED acted

\* cancel_in_chat asks for the status once more
JobReplyCancels ==
    /\ stage = "cancelling" /\ Kept
    /\ IF Fit THEN GoOn("confirm") ELSE Says("denied")

\* request_cancel, for a reply and for /cancel: it may be over already
CancelRequested ==
    /\ stage = "confirm" /\ Kept
    /\ \E done \in BOOLEAN :
         LET answer == [what |-> IF done THEN "result" ELSE "error",
                        about |-> IF done THEN message.about ELSE "none"] IN
         /\ acted' = done
         /\ IF AsksJob THEN SaysOf(answer.what, answer.about)
            ELSE /\ stage' = "returned" /\ reply' = answer /\ lately' = Fit
                 /\ UNCHANGED <<access, sections, told>>

-----------------------------------------------------------------------------
(* The products: help, music, statistics; then inbox and insight.          *)

\* help(): for a member of the group; music is asked for first
ProductHelp ==
    /\ stage = "products" /\ Kept
    /\ \/ Alone({"start", "help"}) /\ Has("identity") /\ stage' = "approved"
          /\ sections' \in {s \in SUBSET {"music"} : s # {} => Has("music") /\ Allowed}
          /\ UNCHANGED <<access, reply, told, acted, lately>>
       \/ (Alone({"start", "help"}) => ~Has("identity") \/ ~Private) /\ GoOn("rest")

\* then the snapshot, for statistics and the bot's own help
HelpApproved ==
    /\ stage = "approved" /\ Kept
    /\ LET more == {s \in {"stats", "core"} : Fit /\ IF s = "stats" THEN Has("stats") ELSE Private} IN
       IF sections = {} /\ "stats" \notin more THEN GoOn("rest")
       ELSE /\ stage' = "lookups" /\ sections' = sections \cup more
            /\ UNCHANGED <<access, reply, told, acted, lately>>

\* the other products' lookups, after which both are asked again
HelpLookups ==
    /\ stage = "lookups" /\ stage' = "music" /\ Kept
    /\ \E insight \in Perhaps(Has("insight") /\ Allowed) :
         sections' = sections \cup (IF insight THEN {"insight"} ELSE {})
    /\ UNCHANGED <<access, reply, told, acted, lately>>

HelpMusic ==
    /\ stage = "music" /\ stage' = "stats" /\ Kept
    /\ \E music \in Perhaps(Allowed) : sections' = IF music THEN sections ELSE sections \ {"music"}
    /\ UNCHANGED <<access, reply, told, acted, lately>>

HelpStats ==
    /\ stage = "stats" /\ Kept
    /\ IF (IF Fit THEN sections ELSE sections \ {"stats"}) = {} THEN EndSilently ELSE Says("help")

\* music_help, /stats, and with music every other message
ProductMessage ==
    /\ stage = "rest" /\ Kept
    /\ \/ /\ IsStart("music_help") /\ Has("music")
          /\ \E allowed \in Perhaps(Allowed) : Says(IF allowed THEN "help" ELSE "denied")
       \/ /\ Begins({"stats"}) /\ Has("stats")
          /\ \E allowed \in Perhaps(Fit) \cap (IF Private THEN {Fit} ELSE BOOLEAN) :
               IF allowed THEN GoOn("statsCall") ELSE EndSilently
       \/ /\ ~(IsStart("music_help") /\ Has("music")) /\ ~(Begins({"stats"}) /\ Has("stats"))
          /\ GoOn(IF Has("music") THEN "song" ELSE "inbox")

StatsCommand ==
    /\ stage = "statsCall" /\ Kept
    /\ \E what \in {"denied", "error"} \cup (IF Fit THEN {"stats"} ELSE {}) : Says(what)

\* explicit commands answer their errors, a link only if music is allowed then
MusicMessage ==
    /\ stage = "song" /\ Kept
    /\ \/ Begins({"music", "song"}) /\ Says("denied")
       \/ Begins({"music", "song"}) /\ Allowed /\ \E what \in {"music", "error"} : Says(what)
       \/ ~Begins({"music", "song"}) /\ IsSong /\ Allowed /\ \E what \in {"music", "error"} : Says(what)
       \/ ~Begins({"music", "song"}) /\ GoOn("inbox")

InboxTakes ==
    /\ stage = "inbox" /\ Kept
    /\ IF Has("inbox") /\ Begins({"save", "inbox", "stars", "stars_sync"})
       THEN EndSilently ELSE GoOn("insight")

\* insight's own commands; /cancel if it has work for it
InsightTakes ==
    /\ stage = "insight" /\ Kept
    /\ \/ Has("insight") /\ Begins({"about", "summary", "tldr"}) /\ EndSilently
       \/ Has("insight") /\ Begins({"cancel"}) /\ Tail(Words) \in {<<>>, <<Id>>} /\ EndSilently
       \/ /\ ~(Has("insight") /\ Begins({"about", "summary", "tldr"}))
          /\ GoOn(IF ~Private /\ ~Has("downloads") /\ Alone({"start", "help"}) /\ Has("insight")
                  THEN "help" ELSE "access")

\* handle_help: required once more before it is sent, or the message goes on
InsightHelps ==
    /\ stage \in {"help", "pendingHelp"} /\ Kept
    /\ \/ Allowed /\ Says("help")
       \/ IF stage = "help" THEN GoOn("access") ELSE Says("pending")

-----------------------------------------------------------------------------
(* Access.                                                                 *)

\* inline help of a private chat needs no registration
InlineHelp ==
    /\ stage = "access" /\ Private /\ IsStart("search_help") /\ Kept
    /\ \E granted \in Perhaps(Allowed) : Says(IF granted THEN "help" ELSE "denied")

AccessForRole(role) ==
    CASE role = "banned" -> "denied"
      [] role = "restricted" -> "pending"
      [] role = "user" -> IF owner THEN "owner" ELSE "user"
      [] OTHER -> "denied"

Admitted(what) ==
    CASE what = "denied" -> Says("denied")
      [] what = "pending" ->
           IF Alone({"start", "help"}) /\ Has("insight") THEN GoOn("pendingHelp") ELSE Says("pending")
      [] what \in {"owner", "user"} ->
           /\ stage' = "dialogs" /\ access' = what
           /\ UNCHANGED <<sections, reply, told, acted, lately>>

\* without identities the route let nobody but the owner in
PrivateAccess ==
    /\ stage = "access" /\ Private /\ ~IsStart("search_help") /\ Kept
    /\ IF ~Has("identity") THEN Admitted("owner")
       ELSE IF rank = "none" THEN GoOn("register") ELSE Admitted(AccessForRole(rank))

\* register: a row that appeared meanwhile keeps its role
RegisterActor ==
    /\ stage = "register"
    /\ rank' = IF rank # "none" THEN rank ELSE IF OpenAccess THEN "user" ELSE "restricted"
    /\ Admitted(AccessForRole(rank'))
    /\ UNCHANGED <<products, owner, welcome, authority, message, unbanned>>

GroupAccess == stage = "access" /\ ~Private /\ Kept /\ Admitted("user")

-----------------------------------------------------------------------------
(* Documents, texts that are none, the owner's commands and dialogs.       *)

\* Mutant of Ignored: the owner's commands are left to the service.
IgnoredTextless == Words = <<>>

\* what a stranger's private chat hears nothing of; a document has its own
\* handler, and a message without a text none
Ignored ==
    \/ Words = <<>>
    \/ Private /\ access # "owner" /\ AskedOneOf({"status", "uncache"})

\* the forms of /cut and /cancel the dialogs take in a private chat
InteractiveForm ==
    \/ Alone({"cancel"})
    \/ Begins({"cut"}) /\ Len(Words) <= 3 /\ FlagsIn(Words) = {}

CutCommand ==
    /\ stage = "dialogs" /\ ~Ignored /\ Private /\ InteractiveForm /\ Kept
    /\ CASE Len(Words) = 3 /\ ParseTime(Words[3]) = {} -> Says("usage")
         [] ~Has("downloads") /\ (Len(Words) = 3 => ParseTime(Words[3]) # {}) -> Says("unavailable")
         [] OTHER ->
              \/ ~Fit /\ Says("denied")
              \/ Fit /\ Len(Words) = 1 /\ Says("dialog")
              \/ Fit /\ Alone({"cancel"}) /\ GoOn("dialog")
              \/ Fit /\ Len(Words) > 1 /\ Says("error")
              \/ Fit /\ Len(Words) > 1 /\ acted' = TRUE /\ SaysOf("dialog", message.place)

\* an open dialog takes every text for a time; `cancel` is a second call
DialogInput ==
    /\ stage = "dialogs" /\ ~Ignored /\ Private /\ ~IsCommand /\ Has("downloads") /\ Fit /\ Kept
    /\ \/ GoOn("dialog") /\ (Words = <<Name("cancel")>> \/ (Len(Words) = 1 /\ ParseTime(Words[1]) # {}))
       \/ Says("usage") /\ Words # <<Name("cancel")>> /\ (Len(Words) = 1 => ParseTime(Words[1]) = {})

\* cut_input and cut_cancel authorise within their own call
DialogAnswers ==
    /\ stage = "dialog" /\ Kept
    /\ \/ ~Fit /\ Says("denied")
       \/ Fit /\ (Says("error") \/ EndSilently)
       \/ Fit /\ acted' = TRUE /\ SaysOf("dialog", message.place)

DialogsPass ==
    /\ stage = "dialogs" /\ Kept
    /\ ~(Private /\ InteractiveForm) \/ Ignored
    /\ IF Ignored THEN EndSilently ELSE GoOn("commands")

-----------------------------------------------------------------------------
(* The command.                                                            *)

Controls == {"uncache", "cookie", "cookie_url", "lang", "settings", "nsfw_mark", "quality", "subs",
             "proxy", "arm", "ask_end"}

\* private controls mean nothing in a group, but for the mark of an operation
CommandEnds ==
    /\ stage = "commands" /\ Kept
    /\ Asked = {} \/ (~Private /\ AskedOneOf(Controls \ {"nsfw_mark", "arm"}))
    /\ EndSilently

\* these tell the usage before they look for the service
UsageFirst == {"lang", "quality", "cookie_url"}

\* controls, the mode for the next link, and a dialog that begins with a link:
\* the service authorises within its own call
ControlCommand ==
    /\ stage = "commands" /\ Kept
    /\ \E ask \in Asked :
         /\ ask.what \in Controls /\ (~Private => ask.what \in {"nsfw_mark", "arm"})
         /\ IF \/ ask.what = "arm" /\ ~Private
               \/ ~ask.valid /\ (ask.what \in UsageFirst \/ Has("downloads"))
            THEN Says("usage")
            ELSE IF ~Has("downloads") THEN Says("unavailable")
            ELSE \/ ~Fit /\ \E what \in {"denied", "usage"} : Says(what)
                 \/ Fit /\ \E what \in {"usage", "error"} : Says(what)
                 \/ Fit /\ acted' = TRUE /\ SaysOf("result", message.place)

\* a group's command is authorised before it runs
GroupCommand ==
    /\ stage = "commands" /\ Asked # {} /\ ~AskedOneOf(Controls) /\ Kept
    /\ IF Private \/ (Has("downloads") /\ Fit /\ ~AskedOneOf({"status"}))
       THEN GoOn("authorize") ELSE EndSilently

PlainAnswer(ask) ==
    CASE ask.what = "status" -> "status"
      [] ask.what = "help" -> IF Private THEN "help" ELSE "usage"
      [] ask.what \in {"invalid", "invalid_url"} /\ Private /\ access = "user" -> "help"
      [] OTHER -> IF Has("downloads") THEN "usage" ELSE "unavailable"

PlainReply ==
    /\ stage = "authorize" /\ Kept
    /\ \E ask \in Asked :
         /\ ask.what \in {"status", "help", "invalid", "invalid_url"} \/ ~Has("downloads")
         /\ reply' = [what |-> PlainAnswer(ask), about |-> "none"]
    /\ stage' = "returned" /\ lately' = Fit
    /\ UNCHANGED <<access, sections, told, acted>>

\* the request is built before the service is called
CallService ==
    /\ stage = "authorize" /\ Has("downloads") /\ Kept
    /\ \E ask \in Asked :
         /\ ask.what \in {"media", "job", "cancel"}
         /\ IF \A media \in ask.media : RequestAccepted(media) THEN GoOn("call")
            ELSE /\ stage' = "returned" /\ lately' = Fit
                 /\ reply' = [what |-> "error", about |-> "none"]
                 /\ UNCHANGED <<access, sections, told, acted>>

\* links and the report of formats are for the actor's own chat
MayAsk(ask) ==
    Fit /\ (~Private => \A media \in ask.media : media.mode \notin {"links", "audio_links", "formats"})

\* submit_telegram_media and status_in_chat: each authorises, then works; what
\* it answers is written down, and a menu ends the handler
ServiceReturns ==
    /\ stage = "call" /\ Kept
    /\ \E ask \in Asked :
         \/ /\ stage' = "returned" /\ lately' = Fit /\ UNCHANGED <<access, sections, told>>
            /\ \/ ask.what = "media" /\ acted' = FALSE
                  /\ reply' \in {[what |-> w, about |-> "none"] : w \in {"denied", "error"}}
               \/ ask.what = "media" /\ MayAsk(ask) /\ acted' = TRUE
                  /\ reply' = [what |-> "result", about |-> message.place]
               \/ ask.what # "media" /\ ~Fit /\ acted' = FALSE
                  /\ reply' = [what |-> "denied", about |-> "none"]
               \/ ask.what # "media" /\ Fit /\ ~InChat /\ acted' = FALSE
                  /\ reply' = [what |-> "error", about |-> "none"]
               \/ ask.what = "job" /\ Fit /\ InChat /\ acted' = FALSE
                  /\ reply' = [what |-> "record", about |-> message.about]
         \/ ask.what = "media" /\ MayAsk(ask) /\ acted' = TRUE /\ SaysOf("menu", message.place)
         \/ ask.what = "cancel" /\ Fit /\ InChat /\ GoOn("confirm")

\* Mutant of Recheck: the reply goes out without another look at the actor.
RecheckSkipped ==
    /\ stage = "returned" /\ Kept
    /\ GoOn(IF AskedOneOf({"help"}) /\ Has("insight") THEN "advise" ELSE "send")

\* a group's reply is authorised once more after the work
Recheck ==
    /\ stage = "returned" /\ Kept
    /\ IF ~Private /\ ~Fit THEN EndSilently
       ELSE GoOn(IF AskedOneOf({"help"}) /\ Has("insight") THEN "advise" ELSE "send")

\* help_for adds its lines, if it has any for the actor
Advise == stage = "advise" /\ Kept /\ GoOn("send")

\* the message of an operation is registered for its progress (ProgressNotices)
SendReply == stage = "send" /\ Kept /\ SaysOf(reply.what, reply.about) /\ UNCHANGED acted

Rest ==
    /\ stage = "end"
    /\ message' = NoMessage /\ stage' = "idle" /\ access' = "unasked" /\ sections' = {}
    /\ reply' = Silence /\ told' = Silence /\ acted' = FALSE
    /\ lately' = FALSE /\ unbanned' = FALSE
    /\ UNCHANGED <<products, authorityVars>>

DispatchNext ==
    \/ ChangeAuthority \/ ArriveUnrouted \/ ArriveMessage
    \/ JobReply \/ JobReplied \/ JobReplyCancels \/ CancelRequested
    \/ ProductHelp \/ HelpApproved \/ HelpLookups \/ HelpMusic \/ HelpStats
    \/ ProductMessage \/ StatsCommand \/ MusicMessage
    \/ InboxTakes \/ InsightTakes \/ InsightHelps
    \/ InlineHelp \/ PrivateAccess \/ RegisterActor \/ GroupAccess
    \/ CutCommand \/ DialogInput \/ DialogAnswers \/ DialogsPass
    \/ CommandEnds \/ ControlCommand \/ GroupCommand \/ PlainReply
    \/ CallService \/ ServiceReturns \/ Recheck \/ Advise \/ SendReply \/ Rest

DispatchSpec == DispatchInit /\ [][DispatchNext]_dispatchVars

-----------------------------------------------------------------------------
Refusals == {"nothing", "denied", "pending", "usage", "unavailable"}

\* Whatever administrators change while a message is handled: an actor that
\* was banned all the while is refused and nothing is done for it; what a
\* group hears of a command's work was authorised after the work was done,
\* not only before; and an operation is told of in its own chat and topic
\* alone (chat_access.rs: "Transport queries must not publish a private or
\* other-topic operation into this chat").
AnswersAreDue ==
    /\ stage = "end" /\ ~unbanned /\ Has("identity") => told.what \in Refusals /\ ~acted
    /\ stage = "end" /\ ~Private /\ reply # Silence /\ told # Silence => lately
    /\ told.about # "none" => told.about = message.place

\* Nothing is done for a text that does not ask for it: a group's talk only as
\* an answer to this bot or through it (plain_url.rs: "Ordinary group chatter
\* is never an implicit request to download"), a private control never in a
\* group, the owner's command for the owner alone, a control only when its
\* arguments are valid, a request only within the domain's limits; and a link
\* in a talk asks for the clip /video asks for with the same link and times.
WorkIsAsked ==
    /\ acted /\ ~Private => /\ IsCommand \/ message.posted = "us"
                            /\ AsksJob \/ AskedOneOf({"media", "cancel", "nsfw_mark"})
    /\ acted /\ AskedOneOf({"uncache"}) => access = "owner"
    /\ acted => \A ask \in Asked : ask.valid
    /\ stage = "reply" =>
         /\ \A ask \in Asked : \A media \in ask.media : RequestIsSound(media)
         /\ ParsersAgree(Words)
=============================================================================
