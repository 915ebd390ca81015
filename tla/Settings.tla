------------------------------ MODULE Settings ------------------------------
(***************************************************************************)
(* The preferences of one account: the settings row behind the menus of    *)
(* /settings, /clean, /nsfw, /subs and /proxy and behind the web page      *)
(* (yoink-downloads settings.rs and user_settings.rs), and the language in *)
(* the users row behind /lang (yoink-identity language.rs).  A menu is a   *)
(* message that stays in the chat; its buttons carry the revision it was   *)
(* rendered at.  Commands and the web page may also write without one.     *)
(***************************************************************************)
EXTENDS Integers

CONSTANTS
    Pages,         \* the menus in the chat and the open web pages
    PageKinds,     \* which kinds the pages may be of: "prefs", "subs", "clean", "proxy", "lang", "web"
    PageHandlers,     \* handlers that may run at once
    SystemProxy,   \* whether the deployment configures a proxy
    MaxInstants,   \* bound: how far the clock advances
    MaxWritings    \* bound: how many writes are tried

\* What the constants of an instance satisfy.
SettingsAssumption ==
    /\ PageKinds \subseteq [Pages -> {"prefs", "subs", "clean", "proxy", "lang", "web"}]
    /\ SystemProxy \in BOOLEAN /\ MaxInstants \in Nat \ {0} /\ MaxWritings \in Nat

\* One field of each kind: audio_codec has no reset group, the proxy URL only the web page edits.
Fields == {"audio_codec", "subs_lang", "proxy_enabled", "proxy_url"}
FieldChoices == [audio_codec |-> {"best", "mp3"}, subs_lang |-> {"en", "ru"},
            proxy_enabled |-> {"off", "on"}, proxy_url |-> {"none", "mine"}]
Defaults == [audio_codec |-> "best", subs_lang |-> "en", proxy_enabled |-> "off",
             proxy_url |-> "none"]
MenuFields == {"audio_codec", "subs_lang"}
ResetFields(g) == CASE g = "subs" -> {"subs_lang"} [] g = "proxy" -> {"proxy_enabled"}
                    [] g = "lang" -> {} [] g = "all" -> {"subs_lang", "proxy_enabled"}
Groups == {"subs", "proxy", "lang", "all"}
Anyone == -1   \* no expected revision

VARIABLES
    instant, writings,
    prefs, revision,       \* the settings row and its updated_at; 0 while there is no row
    language, langRevision,\* the language and the updated_at of the users row
    pageKind,              \* per page: its kind, which never changes
    account,               \* "allowed", "restricted" or "blocked"
    pages,                 \* per page: <<>> or what it shows with the revision its buttons carry
    handlers               \* per handler: its work; stage "idle" when it has none

settingsVars == <<instant, writings, prefs, revision, language, langRevision, account, pageKind, pages, handlers>>

---------------------------------------------------------------------------
(* What a page shows of the two rows. *)

Configured(p) == p.proxy_url # "none" \/ SystemProxy

\* settings, proxy_settings, language_settings and user_settings.
MenuView(fields) == [f \in fields |-> prefs[f]]
ProxyView == [enabled |-> prefs.proxy_enabled, configured |-> Configured(prefs)]
LanguageView == [language |-> language]
WebView == prefs
View(kind) ==
    CASE kind = "prefs" -> MenuView(MenuFields)
      [] kind = "subs"  -> MenuView({"subs_lang"})
      [] kind = "clean" -> MenuView({})
      [] kind = "proxy" -> ProxyView
      [] kind = "lang"  -> LanguageView
      [] kind = "web"   -> WebView
Revision(kind) == IF kind = "lang" THEN langRevision ELSE revision
Shot(kind) == [shown |-> View(kind), revision |-> Revision(kind)]

SetChoices(fields) == UNION {{[op |-> "set", field |-> f, value |-> v] : v \in FieldChoices[f]} : f \in fields}
ResetChoices == {[op |-> "reset", group |-> g] : g \in Groups}
ProxyChoices(on) ==
    {[op |-> "proxy", value |-> v] : v \in {x \in {"on", "off"} :
        IF on.enabled = "on" THEN x = "off" ELSE x = "on" /\ on.configured}}
LanguageChoices == {[op |-> "lang", value |-> l] : l \in {"en", "ru"}}

SettingsTypeOK ==
    /\ prefs \in [Fields -> UNION {FieldChoices[f] : f \in Fields}]
    /\ \A f \in Fields : prefs[f] \in FieldChoices[f]
    /\ revision = 0 => prefs = Defaults
    /\ \A p \in Pages : pages[p] = <<>> \/ pages[p][1].revision <= Revision(pageKind[p])

---------------------------------------------------------------------------
(* The writes, each one transaction: the standing and the revision are     *)
(* read again where the row changes.                                       *)

Telegram(kind) == kind # "web"
MayWrite(kind) == account = "allowed" \/ (account = "restricted" /\ ~Telegram(kind))
ExpectedIs(r, current) == r = Anyone \/ r = current

\* Mutant of NextRevision: the time alone orders the writes.
NextRevisionByClock(old) == IF instant > old THEN instant ELSE old

\* updated_at = max(now, updated_at + 1); a new row is stamped with the time.
NextRevision(old) == IF instant > old THEN instant ELSE old + 1

KeepPrefs == UNCHANGED <<prefs, revision>>
KeepLanguage == UNCHANGED <<language, langRevision>>
WritePrefs(p) == prefs' = p /\ revision' = NextRevision(revision)
WriteLanguage(l) == language' = l /\ langRevision' = NextRevision(langRevision)

ChangeSetting(c) == WritePrefs([prefs EXCEPT ![c.field] = c.value]) /\ KeepLanguage
ChangeProxySetting(c) == WritePrefs([prefs EXCEPT !.proxy_enabled = c.value]) /\ KeepLanguage
ResetSettings(c) ==
    /\ WritePrefs([f \in Fields |-> IF f \in ResetFields(c.group) THEN Defaults[f] ELSE prefs[f]])
    /\ IF c.group \in {"lang", "all"} THEN WriteLanguage("en") ELSE KeepLanguage
ChangeLanguage(c) == WriteLanguage(c.value) /\ KeepPrefs

Refused(kind, c, r) ==
    \/ ~MayWrite(kind)
    \/ ~ExpectedIs(r, Revision(kind))
    \/ c.op = "proxy" /\ c.value = "on" /\ ~Configured(prefs)

Write(c) ==
    \/ c.op = "set" /\ ChangeSetting(c)
    \/ c.op = "proxy" /\ ChangeProxySetting(c)
    \/ c.op = "reset" /\ ResetSettings(c)
    \/ c.op = "lang" /\ ChangeLanguage(c)

---------------------------------------------------------------------------
(* A handler: authorize, write, read the row again, show it. *)

Resting == [stage |-> "idle"]
Working(h) == handlers[h] # Resting
Goes(h, stage) == handlers' = [handlers EXCEPT ![h].stage = stage]
Ends(h) == handlers' = [handlers EXCEPT ![h] = Resting]

Start(h, p, c, r) ==
    /\ ~Working(h)
    /\ handlers' = [handlers EXCEPT ![h] =
           [page |-> p, change |-> c, expected |-> r, stage |-> "authorize",
            shown |-> IF pages[p] = <<>> THEN <<>> ELSE pages[p][1].shown]]
    /\ UNCHANGED <<instant, prefs, revision, language, langRevision, account, pages>>

Counted == writings < MaxWritings /\ writings' = writings + 1

\* A button of a menu, or a web page that sends If-Match.
Pressed(h, p, kind, choices) ==
    /\ pageKind[p] = kind /\ pages[p] # <<>> /\ Counted
    /\ \E c \in choices : Start(h, p, c, pages[p][1].revision)
PressPrefs(h, p) == Pressed(h, p, "prefs", SetChoices(MenuFields))
PressSubs(h, p)  == Pressed(h, p, "subs", SetChoices({"subs_lang"}))
PressClean(h, p) == Pressed(h, p, "clean", ResetChoices)
PressProxy(h, p) == Pressed(h, p, "proxy", ProxyChoices(pages[p][1].shown))
PressLang(h, p)  == Pressed(h, p, "lang", LanguageChoices)
PatchPage(h, p)  == Pressed(h, p, "web", SetChoices(Fields))

\* The command with a field and a value, or a web request without If-Match.
Overwrite(h, p, kind, fields) ==
    /\ pageKind[p] = kind /\ Counted
    /\ \E c \in SetChoices(fields) : Start(h, p, c, Anyone)
SettingsCommand(h, p) == Overwrite(h, p, "prefs", MenuFields)
PatchBlindly(h, p) == Overwrite(h, p, "web", Fields)

\* The command that shows the menu, the request that reads the page.
OpenPage(h, p) ==
    /\ pages[p] = <<>> /\ writings' = writings
    /\ Start(h, p, [op |-> "show"], Anyone)

AuthorizeChange(h) ==
    /\ Working(h) /\ handlers[h].stage = "authorize"
    /\ LET w == handlers[h]
       IN  IF ~MayWrite(pageKind[w.page]) THEN Ends(h)
           ELSE Goes(h, IF w.change.op = "show" THEN "read" ELSE "write")
    /\ UNCHANGED <<instant, writings, prefs, revision, language, langRevision, account, pages>>

CommitChange(h) ==
    /\ Working(h) /\ handlers[h].stage = "write"
    /\ LET w == handlers[h]
       IN  IF Refused(pageKind[w.page], w.change, w.expected)
           THEN Ends(h) /\ KeepPrefs /\ KeepLanguage
           ELSE Write(w.change) /\ Goes(h, IF w.change.op = "lang" THEN "show" ELSE "read")
    /\ UNCHANGED <<instant, writings, account, pages>>

Read(h) ==
    /\ Working(h) /\ handlers[h].stage = "read"
    /\ LET w == handlers[h]
       IN  IF ~MayWrite(pageKind[w.page]) THEN Ends(h)
           ELSE handlers' = [handlers EXCEPT ![h].stage = "show",
                                            ![h].shown = Shot(pageKind[w.page])]
    /\ UNCHANGED <<instant, writings, prefs, revision, language, langRevision, account, pages>>

\* Edits of two handlers of one menu arrive in any order, and one may be lost.
Showing(h, kinds, edited) ==
    /\ Working(h) /\ handlers[h].stage = "show" /\ pageKind[handlers[h].page] \in kinds
    /\ pages' \in {pages, [pages EXCEPT ![handlers[h].page] = edited]}
    /\ Ends(h)
    /\ UNCHANGED <<instant, writings, prefs, revision, language, langRevision, account>>
ShowPrefs(h) == Showing(h, {"prefs", "clean"}, <<handlers[h].shown>>)
ShowSubs(h)  == Showing(h, {"subs"}, <<handlers[h].shown>>)
ShowProxy(h) == Showing(h, {"proxy"}, <<handlers[h].shown>>)
ShowWeb(h)   == Showing(h, {"web"}, <<handlers[h].shown>>)
\* A language that was chosen closes its menu.
ShowLang(h)  == Showing(h, {"lang"}, IF handlers[h].change.op = "lang" THEN <<>> ELSE <<handlers[h].shown>>)

---------------------------------------------------------------------------
(* The rest of the system. *)

Passes ==
    /\ instant < MaxInstants
    /\ instant' = instant + 1
    /\ UNCHANGED <<writings, prefs, revision, language, langRevision, account, pages, handlers>>

\* An administrator changes the role or the ban of the account.
Restand ==
    /\ Counted
    /\ account' \in {"allowed", "restricted", "blocked"} \ {account}
    /\ UNCHANGED <<instant, prefs, revision, language, langRevision, pages, handlers>>

\* An administrator, or the account on its profile page, changes the language.
LanguageElsewhere ==
    /\ Counted
    /\ \E l \in {"en", "ru"} \ {language} : WriteLanguage(l)
    /\ KeepPrefs
    /\ UNCHANGED <<instant, account, pages, handlers>>

SettingsInit ==
    /\ instant = 1 /\ writings = 0
    /\ prefs = Defaults /\ revision = 0
    /\ language = "en" /\ langRevision = 1
    /\ account = "allowed" /\ pageKind \in PageKinds
    /\ pages = [p \in Pages |-> <<>>]
    /\ handlers = [h \in PageHandlers |-> Resting]

SettingsNext ==
    /\ \/ Passes \/ Restand \/ LanguageElsewhere
       \/ \E h \in PageHandlers :
             \/ AuthorizeChange(h) \/ CommitChange(h) \/ Read(h)
             \/ ShowPrefs(h) \/ ShowSubs(h) \/ ShowProxy(h) \/ ShowWeb(h) \/ ShowLang(h)
             \/ \E p \in Pages :
                   \/ PressPrefs(h, p) \/ PressSubs(h, p) \/ PressClean(h, p) \/ PressProxy(h, p)
                   \/ PressLang(h, p) \/ PatchPage(h, p)
                   \/ SettingsCommand(h, p) \/ PatchBlindly(h, p) \/ OpenPage(h, p)
    /\ UNCHANGED pageKind

SettingsSpec == SettingsInit /\ [][SettingsNext]_settingsVars

---------------------------------------------------------------------------
PressStep ==
    \A h \in PageHandlers :
       (Working(h) /\ handlers[h].stage = "write" /\ handlers[h].expected # Anyone
          /\ <<prefs', revision', language', langRevision'>> # <<prefs, revision, language, langRevision>>
          /\ handlers'[h] # handlers[h])
       => handlers[h].shown = View(pageKind[handlers[h].page])

\* A button that carries a revision changes the row only while the row is what
\* the page showed when it was pressed: no press overwrites a change the user
\* has not seen, whatever other menus, commands, pages and administrators
\* wrote, also within one tick of the clock (user_settings_patch.sql).
PressIsInformed == [][PressStep]_settingsVars
=============================================================================
