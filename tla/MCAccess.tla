------------------------------ MODULE MCAccess ------------------------------
(***************************************************************************)
(* Who may do what, and what becomes of a message: the submission, the     *)
(* ledger of text effects, the accounts, the grants of groups and the keys *)
(* of the API, the polling, the life of the server and the publication of  *)
(* databases (which this module extends), the routing of commands, the     *)
(* inline queries and music. A behaviour is about one of them, as in       *)
(* MCDownloads.                                                            *)
(***************************************************************************)
EXTENDS Admission, TextEffects, Accounts, Polling, ServerLife, Publication, Grants, TLC

CONSTANTS
    Components,     \* the components a run explores
    x1, x2, x3      \* handlers, calls, queries, ...; x1 and x2 are interchangeable

VARIABLES
    component,      \* the component this behaviour is about
    s1, s2, s3, s4, s5, s6, s7, s8, s9, s10, s11, s12, s13, s14   \* its variables, in the order of its module

\* The variables a component leaves alone.
From12 == <<s12, s13, s14>>
From1 == <<s1, s2, s3, s4, s5, s6, s7, s8, s9, s10, s11, From12>>
Unused12 == s12 = 0 /\ s13 = 0 /\ s14 = 0
Unused1 == s1 = 0 /\ s2 = 0 /\ s3 = 0 /\ s4 = 0 /\ s5 = 0 /\ s6 = 0 /\ s7 = 0 /\ s8 = 0 /\ s9 = 0 /\ s10 = 0 /\ s11 = 0 /\ Unused12

suiteVars == <<component, admissionVars, textVars, accountVars, pollVars, lifeVars, publicationVars, grantsVars, s1, s2, s3, s4, s5, s6, s7, s8, s9, s10, s11, s12, s13, s14>>

-----------------------------------------------------------------------------
(* Instances. *)

Kind3(type, mode, chat) == [type |-> type, mode |-> mode, chat |-> chat]

\* audio armed, a plain link, image armed, a plain link, a mark in a group
CommandKinds == <<Kind3("arm", "audio", "private"), Kind3("plain", "video", "private"),
                  Kind3("arm", "image", "private"), Kind3("plain", "video", "private"),
                  Kind3("mark", "video", "group")>>
\* links only, one of them private
QuotaKinds == [m \in 1..4 |-> IF m = 1 THEN Kind3("explicit", "video", "private")
                                       ELSE Kind3("other", "video", "group")]

Free == {[minute |-> 9]}
FreeDuration == [minute |-> 1]
QuotaDuration == [minute |-> 2, hour |-> 3]
QuotaChoices == {[minute |-> 1, hour |-> 2], [minute |-> 2, hour |-> 4]}

\* Two chats, one update that decodes to nothing and one without a chat.
TwoChats == <<"c", "d", "c", "c">>

\* One of the first accounts, for the behaviours that are about something else.
PlainAccounts == ~approval /\ account["a"] = NoAccount

\* The links of the texts: a plain one, one with a moment, one of a music
\* host, one with an unreadable moment, one with credentials and a broken one.
SiteOf(form, music, marker, readable) ==
    [form |-> form, music |-> music, marker |-> marker, readable |-> readable]
SixSites == [a |-> SiteOf("safe", FALSE, {}, TRUE), t |-> SiteOf("safe", FALSE, {120}, TRUE),
             m |-> SiteOf("safe", TRUE, {}, TRUE), b |-> SiteOf("safe", FALSE, {}, FALSE),
             c |-> SiteOf("credentials", FALSE, {}, TRUE), x |-> SiteOf("broken", FALSE, {}, TRUE)]

Phrases == INSTANCE Commands WITH Sites <- SixSites
C(name) == Phrases!Slash(name)
N(name) == Phrases!Name(name)
L(site) == Phrases!Link(site)
W(n) == Phrases!Whole(n)
F(name) == Phrases!Flag(name)

\* a text or two for every way the handler may go
SentTexts == {
    <<C("job")>>, <<C("cancel")>>, <<C("job"), Phrases!Id>>, <<C("cancel"), Phrases!Id>>, <<C("job"), N("it")>>,
    <<C("help")>>, <<C("start"), N("search_help")>>, <<C("start"), N("music_help")>>,
    <<Phrases!SlashOther("help")>>, <<C("status")>>, <<C("stats")>>, <<C("music")>>, <<C("inbox")>>,
    <<C("about")>>, <<C("uncache"), L("a")>>, <<C("uncache")>>, <<C("cookie"), L("a")>>,
    <<C("cookie"), L("a"), N("all")>>, <<C("cookie"), N("clear")>>, <<C("lang")>>, <<C("lang"), N("all")>>,
    <<C("settings"), N("keyboard"), N("on")>>, <<C("split"), N("all")>>, <<C("nsfw"), N("mark")>>,
    <<C("quality")>>, <<C("proxy"), N("all")>>, <<C("subs")>>, <<C("audio")>>, <<C("download"), L("a")>>,
    <<C("download"), L("c")>>, <<C("link"), L("a")>>, <<C("video"), L("a")>>, <<C("video"), L("x")>>,
    <<C("cut")>>, <<C("cut"), L("a")>>, <<C("cut"), L("a"), N("all")>>, <<C("cut"), L("a"), W(1), W(2)>>,
    <<N("all")>>, <<N("cancel")>>, <<W(1)>>, <<L("a")>>, <<L("t")>>, <<L("m")>>, <<L("c")>>, <<L("t"), W(1)>>}

\* every text of a few words, behind a command or in a talk
Vocabulary == {L("a"), L("t"), L("b"), W(1), W(101), Phrases!Halves(21), Phrases!Clock(140),
               Phrases!Signed(-5), Phrases!Span(2, 4), Phrases!Span(5, -1), N("best")}
WordsUpTo(n) == UNION {[1..k -> Vocabulary] : k \in 0..n}
ManyTexts ==
    WordsUpTo(3) \cup {<<C(name)>> \o words : name \in {"video", "cut"}, words \in WordsUpTo(3)}
    \cup {<<C(name)>> \o words : name \in {"playlist", "link", "list", "image", "subs"}, words \in WordsUpTo(2)}
    \cup {<<C(name), F(flag), value, L("a")>> :
            name \in {"video", "audio", "image", "subs"}, value \in {W(720), W(0), N("true"), N("mp4"), N("en")},
            flag \in {"height", "container", "send-as-file", "gallery-zip", "subtitle-language", "unknown"}}

\* What a server is configured with: everything but downloads and the inbox, these
\* two, or nothing to do.
Servers == {Parts \ {"media", "inbox"}, {"database", "telegram", "media", "inbox"}, {"telegram"}}
OneServer == config = {"telegram"}

\* An importer, a restore and a backup; two migrations, the first with a table.
OneOfEach == [p1 |-> "import", p2 |-> "restore", p3 |-> "backup"]
TwoMigrations == <<{"table"}, {"index"}>>

\* A group that nobody knows and that gave nothing.
PlainGroup == groupRow = "none" /\ \A u \in Users : stored[u] = "none"
FourScopeSets == {{"*"}, {"events:read"}, {"events:*"}, {"nope"}}

Routing == INSTANCE Dispatch WITH
    Topics <- {"t1"},
    Configurations <- {{"identity", "groups", "downloads", "music", "stats", "inbox", "insight"}, {"identity", "groups", "insight"}, {"music"}},
    Texts <- SentTexts, Sites <- SixSites, OpenAccess <- FALSE, MaxAuthority <- 2,
    products <- s1, owner <- s2, rank <- s3, welcome <- s4, message <- s5, stage <- s6,
    access <- s7, sections <- s8, reply <- s9, told <- s10, acted <- s11, lately <- s12,
    unbanned <- s13, authority <- s14

\* Whatever is written to a server without products.
Parsing == INSTANCE Dispatch WITH
    Topics <- {}, Configurations <- {{}}, Texts <- ManyTexts, Sites <- SixSites,
    OpenAccess <- TRUE, MaxAuthority <- 0,
    products <- s1, owner <- s2, rank <- s3, welcome <- s4, message <- s5, stage <- s6,
    access <- s7, sections <- s8, reply <- s9, told <- s10, acted <- s11, lately <- s12,
    unbanned <- s13, authority <- s14

Inline == INSTANCE InlineQueries WITH
    Actors <- {"a1"}, Queries <- {x1, x2, x3}, ActorCap <- 1, TaskCap <- 2,
    LookupSlots <- 1, PerSecond <- 2, MaxClock <- 2,
    clock <- s1, window <- s2, admitted <- s3, registry <- s4, asker <- s5, allowed <- s6,
    over <- s7, stage <- s8, granted <- s9, answers <- s10, halted <- s11

Seconds == INSTANCE InlineQueries WITH
    Actors <- {"a1", "a2"}, Queries <- {x1, x2}, ActorCap <- 1, TaskCap <- 2,
    LookupSlots <- 1, PerSecond <- 2, MaxClock <- 3,
    clock <- s1, window <- s2, admitted <- s3, registry <- s4, asker <- s5, allowed <- s6,
    over <- s7, stage <- s8, granted <- s9, answers <- s10, halted <- s11

Music == INSTANCE Music WITH
    Handlers <- {x1, x2}, LinkCount <- 2, TrackLinks <- {1}, MessageKinds <- {"via_card"},
    CacheEntries <- 1, MaxDrifts <- 1, MaxCrashes <- 1,
    messageKind <- s1, drift <- s2, resolutions <- s3, observation <- s4, cardRows <- s5,
    audioRows <- s6, audioFiles <- s7, sending <- s8, messages <- s9, permitted <- s10,
    handler <- s11, lookups <- s12, stopping <- s13, crashes <- s14

Replays == INSTANCE Music WITH
    Handlers <- {x1, x2}, LinkCount <- 2, TrackLinks <- {1}, MessageKinds <- {"command"},
    CacheEntries <- 1, MaxDrifts <- 0, MaxCrashes <- 1,
    messageKind <- s1, drift <- s2, resolutions <- s3, observation <- s4, cardRows <- s5,
    audioRows <- s6, audioFiles <- s7, sending <- s8, messages <- s9, permitted <- s10,
    handler <- s11, lookups <- s12, stopping <- s13, crashes <- s14

Cards == INSTANCE Music WITH
    Handlers <- {x1}, LinkCount <- 2, TrackLinks <- {1}, MessageKinds <- {"command"},
    CacheEntries <- 1, MaxDrifts <- 1, MaxCrashes <- 1,
    messageKind <- s1, drift <- s2, resolutions <- s3, observation <- s4, cardRows <- s5,
    audioRows <- s6, audioFiles <- s7, sending <- s8, messages <- s9, permitted <- s10,
    handler <- s11, lookups <- s12, stopping <- s13, crashes <- s14

ASSUME InstancesAssumption ==
    /\ Routing!DispatchAssumption
    /\ Parsing!DispatchAssumption
    /\ Inline!InlineAssumption
    /\ Seconds!InlineAssumption
    /\ Music!MusicAssumption
    /\ Replays!MusicAssumption
    /\ Cards!MusicAssumption

-----------------------------------------------------------------------------
(* One component per behaviour. *)

SuiteInit ==
    /\ component \in Components
    /\ AdmissionInit
    /\ TextInit
    /\ AccountInit /\ (component = "accounts" \/ PlainAccounts)
    /\ PollingInit
    /\ LifeInit /\ (component = "life" \/ OneServer)
    /\ PublicationInit /\ (component = "publication" \/ databaseFile = NoFile)
    /\ GrantsInit /\ (component = "memberships" \/ PlainGroup)
    /\ \/ component = "admission" /\ Unused1
       \/ component = "text" /\ Unused1
       \/ component = "accounts" /\ Unused1
       \/ component = "polling" /\ Unused1
       \/ component = "life" /\ Unused1
       \/ component = "publication" /\ Unused1
       \/ component = "memberships" /\ Unused1
       \/ component = "keys" /\ Unused1
       \/ component = "dispatch" /\ Routing!DispatchInit
       \/ component = "parsing" /\ Parsing!DispatchInit
       \/ component = "inline" /\ Inline!InlineInit /\ Unused12
       \/ component = "seconds" /\ Seconds!InlineInit /\ Unused12
       \/ component = "music" /\ Music!MusicInit
       \/ component = "replays" /\ Replays!MusicInit
       \/ component = "cards" /\ Cards!MusicInit

SuiteNext ==
    \/ component = "admission" /\ AdmissionNext /\ UNCHANGED <<component, textVars, accountVars, pollVars, lifeVars, publicationVars, grantsVars, From1>>
    \/ component = "text" /\ TextNext /\ UNCHANGED <<component, admissionVars, accountVars, pollVars, lifeVars, publicationVars, grantsVars, From1>>
    \/ component = "accounts" /\ AccountNext /\ UNCHANGED <<component, admissionVars, textVars, pollVars, lifeVars, publicationVars, grantsVars, From1>>
    \/ component = "polling" /\ PollingNext /\ UNCHANGED <<component, admissionVars, textVars, accountVars, lifeVars, publicationVars, grantsVars, From1>>
    \/ component = "life" /\ LifeNext /\ UNCHANGED <<component, admissionVars, textVars, accountVars, pollVars, publicationVars, grantsVars, From1>>
    \/ component = "publication" /\ PublicationNext /\ UNCHANGED <<component, admissionVars, textVars, accountVars, pollVars, lifeVars, grantsVars, From1>>
    \/ component = "memberships" /\ MembershipNext /\ UNCHANGED keyVars /\ UNCHANGED <<component, admissionVars, textVars, accountVars, pollVars, lifeVars, publicationVars, From1>>
    \/ component = "keys" /\ KeysNext /\ UNCHANGED membershipVars /\ UNCHANGED <<component, admissionVars, textVars, accountVars, pollVars, lifeVars, publicationVars, From1>>
    \/ component = "dispatch" /\ Routing!DispatchNext /\ UNCHANGED <<component, admissionVars, textVars, accountVars, pollVars, lifeVars, publicationVars, grantsVars>>
    \/ component = "parsing" /\ Parsing!DispatchNext /\ UNCHANGED <<component, admissionVars, textVars, accountVars, pollVars, lifeVars, publicationVars, grantsVars>>
    \/ component = "inline" /\ Inline!InlineNext /\ UNCHANGED <<component, admissionVars, textVars, accountVars, pollVars, lifeVars, publicationVars, grantsVars, From12>>
    \/ component = "seconds" /\ Seconds!InlineNext /\ UNCHANGED <<component, admissionVars, textVars, accountVars, pollVars, lifeVars, publicationVars, grantsVars, From12>>
    \/ component = "music" /\ Music!MusicNext /\ UNCHANGED <<component, admissionVars, textVars, accountVars, pollVars, lifeVars, publicationVars, grantsVars>>
    \/ component = "replays" /\ Replays!MusicNext /\ UNCHANGED <<component, admissionVars, textVars, accountVars, pollVars, lifeVars, publicationVars, grantsVars>>
    \/ component = "cards" /\ Cards!MusicNext /\ UNCHANGED <<component, admissionVars, textVars, accountVars, pollVars, lifeVars, publicationVars, grantsVars>>

SuiteSpec == SuiteInit /\ [][SuiteNext]_suiteVars

\* x1 and x2 are interchangeable in every component.
PairSymmetry == Permutations({x1, x2})

-----------------------------------------------------------------------------
(* Properties. *)

\* What the bot says is due to whom it says it: no answer to who was banned
\* meanwhile, no answer of a query that a newer one replaced, no second card or
\* audio of one link (product_dispatch.rs, inline_search.rs, music_runtime.rs).
RepliesAreDue ==
    /\ component = "dispatch" => Routing!DispatchTypeOK /\ Routing!AnswersAreDue /\ Routing!WorkIsAsked
    /\ component = "parsing" => Parsing!DispatchTypeOK /\ Parsing!AnswersAreDue /\ Parsing!WorkIsAsked
    /\ component = "inline" => Inline!InlineTypeOK /\ Inline!NewestAnswers
    /\ component = "seconds" => Seconds!InlineTypeOK /\ Seconds!NewestAnswers
    /\ component = "music" => Music!MusicTypeOK /\ Music!ShownOnce
    /\ component = "replays" => Replays!MusicTypeOK /\ Replays!ShownOnce
    /\ component = "cards" => Cards!MusicTypeOK /\ Cards!ShownOnce
=============================================================================
