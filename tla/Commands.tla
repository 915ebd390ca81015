------------------------------ MODULE Commands ------------------------------
(***************************************************************************)
(* What a text asks for: parse_command (yoink-telegram/src/lib.rs), the    *)
(* grammar of the media commands (media_command.rs), links without a       *)
(* command (plain_url.rs) and the limits of the domain that every request  *)
(* is built with (yoink-domain).                                           *)
(*                                                                         *)
(* A text is a sequence of words, as split_whitespace gives them; what the *)
(* parsers tell words apart by is in the record.  A time is in halves of a *)
(* second.  A result that may fail is the set of the one value, or empty.  *)
(***************************************************************************)
EXTENDS Integers, FiniteSets, Sequences, SequencesExt

\* The links of an instance and what the parsers see of each: whether it is
\* "safe" (http or https, a host, no credentials, 4096 bytes at most), has
\* "credentials" or is "broken"; whether its host is one of the music hosts;
\* and its t or start marker, {} without one, and whether that is readable.
CONSTANT Sites

CommandsAssumption ==
    \A site \in DOMAIN Sites :
        /\ Sites[site].form \in {"safe", "credentials", "broken"}
        /\ Sites[site].music \in BOOLEAN /\ Sites[site].readable \in BOOLEAN
        /\ Sites[site].marker \subseteq Nat /\ Cardinality(Sites[site].marker) <= 1

Word(kind, name, value, upto) == [kind |-> kind, name |-> name, value |-> value, upto |-> upto]

Name(name) == Word("name", name, 0, 0)            \* any other word
Flag(name) == Word("flag", name, 0, 0)            \* --name
Link(site) == Word("link", site, 0, 0)
Id == Word("id", "", 0, 0)                        \* a UUID
Halves(time) == Word("number", "", time, 0)       \* digits, with .5 or without
Whole(n) == Halves(2 * n)
Clock(time) == Word("clock", "", time, 0)         \* m:ss or h:mm:ss
Signed(n) == Word("signed", "", n, 0)             \* digits after a sign
Span(first, last) == Word("span", "", first, last)  \* 2-4, -5--1

\* /name, /name@us and /name@another
Slash(name) == Word("command", name, 0, 0)
SlashUs(name) == Word("command", name, 1, 0)
SlashOther(name) == Word("command", name, 2, 0)
IsOurs(word) == word.kind = "command" /\ word.value # 2

\* the words of a text at the given places
At(words, places) == LET in == SetToSortSeq(places, <) IN [i \in DOMAIN in |-> words[in[i]]]
LinksIn(words) == {i \in DOMAIN words : words[i].kind = "link"}

-----------------------------------------------------------------------------
(* The domain's limits.                                                    *)

Distance(a, b) == IF a < b THEN b - a ELSE a - b

\* Mutant of PlaylistRange: any number of entries.
PlaylistRangeUnbounded(first, last) ==
    IF first # 0 /\ 0 \notin last /\ \A n \in last : (first > 0) = (n > 0)
    THEN {[first |-> first, last |-> last]} ELSE {}

\* PlaylistRange::new: `last` is empty for "the last -first ones".
PlaylistRange(first, last) ==
    IF /\ first # 0 /\ 0 \notin last
       /\ last = {} => first >= -100
       /\ \A n \in last : (first > 0) = (n > 0) /\ Distance(first, n) + 1 <= 100
    THEN {[first |-> first, last |-> last]} ELSE {}

EntryCount(range) ==
    IF range.last # {} THEN Distance(range.first, CHOOSE n \in range.last : TRUE) + 1
    ELSE IF range.first > 0 THEN 1 ELSE -range.first

ClipRange(start, end) == IF start < end THEN {[start |-> start, end |-> end]} ELSE {}

\* DownloadRequest::new, for what the parsers give it: no formats, no clips of
\* a list, and files for the three modes that download nothing.
ModeAccepts(media) ==
    /\ media.mode \in {"links", "audio_links", "formats", "subtitles"} =>
         media.clip = {} /\ media.playlist = {} /\ media.engine # "gallery"
    /\ media.mode \in {"links", "audio_links"} => media.height \in {0, 360, 480, 720, 1080}
    /\ media.mode \in {"audio_links", "formats", "subtitles"} => media.height = 0
RequestAccepted(media) == Sites[media.site].form = "safe" /\ ModeAccepts(media)

-----------------------------------------------------------------------------
(* Words.                                                                  *)

\* parse_time; a word with a colon that is no time is a Name
ParseTime(word) == IF word.kind \in {"number", "clock"} THEN {word.value} ELSE {}

\* an end with a colon is a time, one without is a length
InlineEnd(start, word) ==
    {IF word.kind = "clock" THEN time ELSE start + time : time \in ParseTime(word)}

\* one number is that entry, for /playlist the first so many; a fraction is no i32
PlaylistOf(word, ofPlaylist) ==
    LET one(n) == IF n < 0 THEN PlaylistRange(n, {})
                  ELSE PlaylistRange(IF ofPlaylist THEN 1 ELSE n, {n}) IN
    CASE word.kind = "span" -> PlaylistRange(word.value, {word.upto})
      [] word.kind = "signed" -> one(word.value)
      [] word.kind = "number" /\ word.value % 2 = 0 -> one(word.value \div 2)
      [] OTHER -> {}

-----------------------------------------------------------------------------
(* Media commands.                                                         *)

Plain(site, mode) == [mode |-> mode, site |-> site, playlist |-> {}, clip |-> {}, engine |-> "auto",
                      height |-> 0, overrides |-> {}]

\* parse_list: one link, for the report of its formats
ParseList(args) ==
    {[Plain(args[1].name, "formats") EXCEPT !.engine = "yt_dlp"] :
       i \in IF Len(args) = 1 THEN {j \in LinksIn(args) : Sites[args[j].name].form = "safe"} ELSE {}}

\* parse_link: the quality before it, the best without one
Qualities == [word \in {Name("best"), Name("audio")} \cup {Whole(n) : n \in {360, 480, 720, 1080}} |->
                IF word.kind = "name" THEN 0 ELSE word.value \div 2]
ParseLink(args) ==
    IF Len(args) \notin {1, 2} THEN {}
    ELSE LET quality == IF Len(args) = 1 THEN Name("best") ELSE args[1] IN
         {[media EXCEPT !.mode = IF quality = Name("audio") THEN "audio_links" ELSE "links",
                        !.height = Qualities[quality]] :
            media \in IF quality \in DOMAIN Qualities THEN ParseList(<<Last(args)>>) ELSE {}}

\* parse_overrides: which commands take an option, and its values
Takes(name, flag) ==
    CASE flag \in {"subtitle-language", "subtitle-auto"} -> name = "subs"
      [] flag \in {"height", "video-codec", "container"} -> name \notin {"audio", "image", "subs"}
      [] flag = "audio-codec" -> name \notin {"image", "subs"}
      [] flag = "send-as-file" -> name # "subs"
      [] flag = "gallery-zip" -> name = "image"
      [] OTHER -> FALSE

ValueOf(flag, word) ==
    CASE flag = "subtitle-language" -> word \in {Name("en"), Name("zh-Hans")}
      [] flag \in {"subtitle-auto", "send-as-file", "gallery-zip"} -> word \in {Name("true"), Name("false")}
      [] flag = "height" -> \/ word = Name("best")
                            \/ word.kind = "number" /\ word.value % 2 = 0 /\ word.value \div 2 \in 1 .. 100000
      [] flag = "video-codec" -> word \in {Name(n) : n \in {"h264", "h265", "av1", "vp9", "any"}}
      [] flag = "audio-codec" -> word \in {Name(n) : n \in {"best", "aac", "mp3", "opus"}}
      [] flag = "container" -> word \in {Name(n) : n \in {"mp4", "mkv", "webm"}}
      [] OTHER -> FALSE

FlagsIn(args) == {i \in DOMAIN args : args[i].kind = "flag"}

\* each option once, and a value of its own after it
OverridesValid(name, args) ==
    \A i \in FlagsIn(args) :
        /\ \A j \in FlagsIn(args) : args[i] = args[j] => i = j
        /\ i + 1 \in DOMAIN args \ FlagsIn(args)
        /\ Takes(name, args[i].name) /\ ValueOf(args[i].name, args[i + 1])
Overrides(args) == {<<args[i].name, args[i + 1]>> : i \in FlagsIn(args)}
Positional(args) == At(args, {i \in DOMAIN args : i \notin FlagsIn(args) /\ i - 1 \notin FlagsIn(args)})

\* parse_media_args: a clip or a playlist entry after the link
ParseMediaArgs(media, tail) ==
    LET site == Sites[media.site]
        timed == \/ site.marker # {} \/ \E i \in DOMAIN tail : tail[i].kind = "clock"
                 \/ Len(tail) = 2 /\ \A i \in DOMAIN tail : tail[i].kind = "number"
        starts == IF site.marker # {} THEN (IF Len(tail) = 1 THEN site.marker ELSE {})
                  ELSE IF Len(tail) = 2 THEN ParseTime(tail[1]) ELSE {}
        clips == UNION {UNION {ClipRange(start, end) : end \in InlineEnd(start, Last(tail))} : start \in starts}
    IN  IF tail = <<>> THEN {media}
        ELSE IF Len(tail) > 2 \/ ~site.readable THEN {}
        ELSE IF timed THEN {[media EXCEPT !.clip = {clip}] : clip \in clips}
        ELSE IF Len(tail) = 2 THEN {}
        ELSE {[media EXCEPT !.playlist = {range}] : range \in PlaylistOf(tail[1], FALSE)}

\* /cut: the second number is the length when it is the smaller one
CutEnd(start, word) ==
    {IF word.kind = "number" /\ time < start THEN start + time ELSE time : time \in ParseTime(word)}

ModeOf == [video |-> "video", audio |-> "audio", image |-> "image", subs |-> "subtitles",
           playlist |-> "video", cut |-> "video"]

\* parse_inner
ParseInner(name, args) ==
    LET words == Positional(args)
        at == CHOOSE i \in LinksIn(words) : TRUE
        tail == At(words, DOMAIN words \ {at})
        media == [Plain(words[at].name, ModeOf[name]) EXCEPT !.overrides = Overrides(args)]
    IN  IF \/ ~OverridesValid(name, args) \/ Cardinality(LinksIn(words)) # 1
           \/ Sites[words[at].name].form # "safe"
        THEN {}
        ELSE CASE name = "playlist" ->
                    {[media EXCEPT !.playlist = {range}, !.engine = "yt_dlp"] : range \in
                        CASE tail = <<>> -> PlaylistRange(1, {20})
                          [] Len(tail) = 1 -> PlaylistOf(tail[1], TRUE)
                          [] OTHER -> {}}
               [] name = "cut" ->
                    IF at # 1 \/ Len(tail) # 2 THEN {}
                    ELSE {[media EXCEPT !.clip = {clip}] : clip \in
                            UNION {UNION {ClipRange(start, end) : end \in CutEnd(start, tail[2])} :
                                     start \in ParseTime(tail[1])}}
               [] name \in {"subs", "image"} ->
                    IF tail # <<>> THEN {}
                    ELSE {[media EXCEPT !.engine = IF name = "subs" THEN "yt_dlp" ELSE "gallery"]}
               [] at > 1 ->
                    IF at # 2 \/ Len(tail) # 1 THEN {}
                    ELSE {[media EXCEPT !.playlist = {range}] : range \in PlaylistOf(tail[1], FALSE)}
               [] OTHER -> ParseMediaArgs(media, tail)

MediaCommands == DOMAIN ModeOf \cup {"link", "list"}
ParseMedia(name, args) ==
    CASE name = "link" -> ParseLink(args)
      [] name = "list" -> ParseList(args)
      [] OTHER -> ParseInner(name, args)

-----------------------------------------------------------------------------
(* Commands: what is asked, the media of it, and whether a control's       *)
(* arguments are valid.                                                    *)

Asks(what) == [what |-> what, media |-> {}, valid |-> TRUE]
AsksIf(what, valid) == [what |-> what, media |-> {}, valid |-> valid]
AsksFor(media) == IF media = {} THEN Asks("invalid") ELSE [what |-> "media", media |-> media, valid |-> TRUE]

\* SettingChange::new
Switches == {"keyboard", "mediainfo"}
SettingAccepts(field, word) ==
    \/ field \in Switches /\ word \in {Name("on"), Name("off"), Name("true"), Name("false")}
    \/ field = "split" /\ word.kind = "number"

\* one argument word, a link without credentials
OneSafeLink(args) == Len(args) = 1 /\ args[1].kind = "link" /\ Sites[args[1].name].form = "safe"

Parsed(name, args) ==
    CASE name = "uncache" -> AsksIf("uncache", OneSafeLink(args))
      [] name = "cookie" /\ args # <<>> /\ args[1].kind = "link" ->
           AsksIf("cookie_url", Len(args) = 1 \/ Tail(args) = <<Name("domain")>>)
      [] name = "cookie" ->
           AsksIf("cookie", args \in {<<>>, <<Name("domain")>>, <<Name("token")>>, <<Name("clear")>>,
                                      <<Name("del"), Name("domain")>>})
      [] name = "nsfw" ->
           IF args = <<Name("mark")>> THEN Asks("nsfw_mark")
           ELSE AsksIf("settings", args \in {<<>>} \cup {<<Name(n)>> : n \in {"menu", "on", "off", "reload"}})
      [] name \in {"settings", "format"} ->
           AsksIf("settings", args # <<>> => Len(args) = 2 /\ SettingAccepts(args[1].name, args[2]))
      [] name \in Switches \cup {"split"} ->
           AsksIf("settings", args # <<>> => Len(args) = 1 /\ SettingAccepts(name, args[1]))
      [] name = "clean" -> AsksIf("settings", args = <<>>)
      [] name \in {"lang", "quality", "proxy"} -> AsksIf(name, args = <<>>)
      [] name = "subs" /\ args = <<>> -> Asks("subs")
      [] name \in {"audio", "image", "video"} /\ args = <<>> -> Asks("arm")
      [] name \in {"start", "help"} -> IF args = <<>> THEN Asks("help") ELSE Asks("invalid")
      [] name = "status" -> IF args = <<>> THEN Asks("status") ELSE Asks("invalid")
      [] name = "download" ->
           IF Len(args) = 1 /\ args[1].kind = "link" /\ Sites[args[1].name].form # "broken"
           THEN AsksFor({Plain(args[1].name, "video")}) ELSE Asks("invalid")
      [] name \in {"job", "cancel"} -> IF args = <<Id>> THEN Asks(name) ELSE Asks("invalid")
      [] OTHER -> AsksFor(ParseMedia(name, args))

CommandNames == MediaCommands \cup Switches \cup
    {"uncache", "cookie", "lang", "nsfw", "clean", "settings", "format", "split", "quality", "proxy",
     "start", "help", "status", "download", "job", "cancel"}

\* parse_command: nothing for a text of no command of this bot
ParseCommand(words) ==
    IF words # <<>> /\ IsOurs(words[1]) /\ words[1].name \in CommandNames
    THEN {Parsed(words[1].name, Tail(words))} ELSE {}

\* plain_url::parse: `posted` is "us" for a card of this bot or an answer to
\* it, "other" for what another bot posted.
ParsePlain(words, private, posted) ==
    LET at == CHOOSE i \in LinksIn(words) : TRUE
        site == Sites[words[at].name]
        times == SubSeq(words, at + 1, Len(words))
        media == Plain(words[at].name, "video")
        starts == CASE Len(times) = 1 -> site.marker [] Len(times) = 2 -> ParseTime(times[1]) [] OTHER -> {}
        clips == UNION {UNION {ClipRange(start, end) : end \in InlineEnd(start, Last(times))} : start \in starts}
    IN  CASE \/ LinksIn(words) = {} \/ posted = "other" \/ (~private /\ posted # "us")
             \/ \E i \in DOMAIN words : words[i].kind = "command" -> {}
          [] Cardinality(LinksIn(words)) > 1 -> {Asks("invalid_url")}
          [] OTHER ->
               CASE site.form # "safe" -> {Asks("invalid_url")}
                 [] site.form = "safe" /\ site.music -> {}
                 [] site.form = "safe" /\ ~site.music ->
                      IF ~site.readable \/ (times # <<>> /\ clips = {}) THEN {Asks("invalid_url")}
                      ELSE IF times # <<>> THEN {AsksFor({[media EXCEPT !.clip = clips]})}
                      ELSE IF site.marker = {} THEN {AsksFor({media})}
                      ELSE {IF private THEN [AsksFor({media}) EXCEPT !.what = "ask_end"]
                            ELSE Asks("invalid_url")}

-----------------------------------------------------------------------------
\* Whatever the words: a request is within the domain's limits and never both
\* a clip and entries of a playlist, what a media command builds the domain
\* accepts (lib.rs: "closed link quality parser"), and a link in a talk asks
\* for the clip that /video asks for with the same link and times.
RequestIsSound(media) ==
    /\ Cardinality(media.playlist) + Cardinality(media.clip) <= 1
    /\ \A clip \in media.clip : clip.start < clip.end
    /\ \A range \in media.playlist : EntryCount(range) \in 1 .. 100
    /\ ModeAccepts(media)

ParsersAgree(words) ==
    \A ask \in ParsePlain(words, TRUE, "us") : \A media \in ask.media :
        LET at == CHOOSE i \in LinksIn(words) : TRUE IN
        \A named \in ParseMedia("video", SubSeq(words, at, Len(words))) :
            media.clip = named.clip /\ media.playlist = named.playlist
=============================================================================
