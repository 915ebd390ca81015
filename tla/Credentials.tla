---------------------------- MODULE Credentials ----------------------------
(***************************************************************************)
(* The personal cookie of one user and one domain (yoink-downloads:        *)
(* personal_cookies.rs, cookie_web.rs, cookie_web_live.rs, cookie_oauth.rs *)
(* and oauth_refresh of profile).  Telegram messages and web requests      *)
(* replace or remove it; validations and refreshes read it, ask the        *)
(* provider without holding the database, and write back what they got.    *)
(* A device session obtains it: oauth_start registers a device, oauth_poll *)
(* asks the provider in a spawned task that owns the session, and the      *)
(* provider hands a credential out once.  The provider and the delivery of *)
(* Telegram updates are external.  A deleted row's id can be given to the  *)
(* next row, so the model has one id.                                      *)
(***************************************************************************)
EXTENDS Naturals, FiniteSets

CONSTANTS
    CookieMessages,  \* Telegram messages: ids to "document", "url" or "remove"
    UrlSlots,        \* CookieUrlConfig: imports from a URL at a time
    Tokens,          \* submission tokens over time
    Lookups,         \* validations and refreshes over time
    MaxWebWrites,    \* bound: direct web uploads and removals
    DeviceSessions,  \* calls of oauth_start over time
    Polls,           \* calls of oauth_poll over time
    SessionCap,      \* sessions of a user: 8 in the code
    DeviceLife,      \* expires_in of a device
    PollSlots,       \* OAuthPollConfig::max_inflight
    Budget,          \* OAuthPollConfig::budget
    Retention,       \* OAuthPollConfig::result_retention
    MaxTime          \* bound: the clock

\* What the constants of an instance satisfy.
CredentialsAssumption ==
    /\ DOMAIN CookieMessages \subseteq Nat \ {0}
    /\ \A i \in DOMAIN CookieMessages : CookieMessages[i] \in {"document", "url", "remove"}
    /\ Tokens \cap DOMAIN CookieMessages = {}
    /\ UrlSlots \in Nat \ {0} /\ MaxWebWrites \in Nat
    /\ IsFiniteSet(DeviceSessions) /\ SessionCap \in Nat \ {0} /\ DeviceLife \in Nat \ {0}
    /\ PollSlots \in Nat \ {0} /\ Budget \in Nat \ {0}
    /\ Retention \in Nat \ {0} /\ MaxTime \in Nat

VARIABLES
    seconds,    \* the clock
    cookie,     \* the row: [origin, rotation, updated, valid], or NoCookie
    handling,   \* per message: the fetch of its handler
    reader,     \* the message whose detached file read holds the only permit, 0: none
    watermark,  \* runtime_personal_cookie_mutation_watermarks
    token,      \* per token: "unissued", "live", "gone"
    lookup,     \* per lookup: where it is and what it read
    webWrites,  \* numbers the web writes
    cookieUser, \* personal_cookies_auth and web_authorize allow the user
    chosen,     \* the choice of the user that counts (an observer)
    heard,      \* messages and tokens that had their say (an observer)
    starting,   \* per session: "idle", "asking", "done"
    row,        \* per session: its row, or NoRow
    consent,    \* per session: "waiting", "given", "taken" at the provider
    poll,       \* per poll: the spawned task
    draining,   \* OAuthWork: no poll is accepted any more
    room,       \* the credential fits the limits of the user
    saved,      \* sessions whose credential was stored
    excused     \* sessions whose credential may be lost (an observer)

cookieVars == <<cookie, handling, reader, watermark, token, lookup, webWrites, chosen, heard>>
deviceVars == <<starting, row, consent, poll, draining, room, saved, excused>>
credentialVars == <<seconds, cookieUser, cookieVars, deviceVars>>

NoCookie == [origin |-> <<"none">>]
Exists == cookie # NoCookie
Stored(origin) == [origin |-> origin, rotation |-> 0, updated |-> seconds, valid |-> TRUE]
Messages == DOMAIN CookieMessages
NoLookup == [pc |-> "idle", read |-> NoCookie]

NoRow == [expires |-> 0, next |-> 0, generation |-> 0, staged |-> FALSE]
NoPoll == [pc |-> "idle"]
PollsRunning == {p \in Polls : poll[p].pc \in {"accepted", "asking", "answered"}}
Owned(s) == \E p \in PollsRunning : poll[p].session = s
Alive == {s \in DeviceSessions : row[s] # NoRow /\ row[s].expires > seconds}
Carries(s) == \E p \in PollsRunning : poll[p].session = s /\ poll[p].pc = "answered" /\ poll[p].answer = "ready"

CredentialsTypeOK ==
    /\ cookie = NoCookie \/ (cookie.rotation \in Nat /\ cookie.updated \in 0..seconds)
    /\ watermark \in Messages \cup {0}
    /\ token \in [Tokens -> {"unissued", "live", "gone"}]
    /\ webWrites \in 0..MaxWebWrites /\ seconds \in 0..MaxTime
    /\ Cardinality(Alive) <= SessionCap
    /\ saved \cup excused \subseteq DeviceSessions
    /\ \A s \in DeviceSessions : row[s] = NoRow \/ row[s].generation \in Nat

---------------------------------------------------------------------------
(* A message is handled when its update arrives: out of order with the    *)
(* others, and again after a restart.  A document or a URL is fetched      *)
(* first, which takes time; a fetch that fails leaves everything alone.    *)

Newer(i) == watermark < i

Fetching(kind) == {i \in Messages : CookieMessages[i] = kind /\ handling[i] \in {"fetching", "reading"}}

\* personal_cookie_upload_allowed, before anything is fetched.
UploadAllowed(i) == cookieUser /\ Newer(i)

HandleDocument(i) ==
    /\ CookieMessages[i] = "document" /\ handling[i] = "idle" /\ UploadAllowed(i)
    /\ handling' = [handling EXCEPT ![i] = "fetching"]
    /\ UNCHANGED <<cookie, reader, watermark, token, lookup, webWrites, seconds, cookieUser, chosen, heard, deviceVars>>

\* A permit is waited for before the preflight and given back with the fetch.
HandleUrl(i) ==
    /\ CookieMessages[i] = "url" /\ handling[i] = "idle"
    /\ Cardinality(Fetching("url")) < UrlSlots /\ UploadAllowed(i)
    /\ handling' = [handling EXCEPT ![i] = "fetching"]
    /\ UNCHANGED <<cookie, reader, watermark, token, lookup, webWrites, seconds, cookieUser, chosen, heard, deviceVars>>

\* bounded_local_read: a thread of its own takes the permit and keeps it until the
\* read returns, also when nobody waits for it any more.
LocalReadStarts(i) ==
    /\ CookieMessages[i] = "document" /\ handling[i] = "fetching" /\ reader = 0
    /\ reader' = i /\ handling' = [handling EXCEPT ![i] = "reading"]
    /\ UNCHANGED <<cookie, watermark, token, lookup, webWrites, seconds, cookieUser, chosen, heard, deviceVars>>

LocalReadEnds ==
    /\ reader # 0
    /\ handling' = IF handling[reader] = "reading" THEN [handling EXCEPT ![reader] = "fetched"] ELSE handling
    /\ reader' = 0
    /\ UNCHANGED <<cookie, watermark, token, lookup, webWrites, seconds, cookieUser, chosen, heard, deviceVars>>

\* The body of a URL, or of a document that is not a local file.
Fetched(i) ==
    /\ handling[i] = "fetching"
    /\ handling' = [handling EXCEPT ![i] = "fetched"]
    /\ UNCHANGED <<cookie, reader, watermark, token, lookup, webWrites, seconds, cookieUser, chosen, heard, deviceVars>>

\* Transport, size, encoding, the time limit, or the process.
CookieFetchFails(i) ==
    /\ handling[i] # "idle"
    /\ handling' = [handling EXCEPT ![i] = "idle"]
    /\ UNCHANGED <<cookie, reader, watermark, token, lookup, webWrites, seconds, cookieUser, chosen, heard, deviceVars>>

\* The observer: a message is heard once, and only if none after it was.
Hears(i, origin) ==
    /\ heard' = heard \cup {i}
    /\ chosen' = IF \E j \in heard \cap Messages : j >= i THEN chosen ELSE origin

\* The watermark is asked again in the transaction that writes, and stays although the
\* content does not fit.
StorePersonalCookie(i, full) ==
    /\ handling[i] = "fetched"
    /\ handling' = [handling EXCEPT ![i] = "idle"]
    /\ IF cookieUser /\ Newer(i)
       THEN /\ watermark' = i
            /\ cookie' = IF full THEN cookie ELSE Stored(<<"message", i>>)
            /\ Hears(i, IF full THEN chosen ELSE <<"message", i>>)
       ELSE UNCHANGED <<watermark, cookie, chosen, heard>>
    /\ UNCHANGED <<reader, token, lookup, webWrites, seconds, cookieUser, deviceVars>>

RemovePersonalCookies(i) ==
    /\ CookieMessages[i] = "remove" /\ cookieUser /\ Newer(i)
    /\ watermark' = i
    /\ cookie' = NoCookie
    /\ Hears(i, NoCookie.origin)
    /\ UNCHANGED <<handling, reader, token, lookup, webWrites, seconds, cookieUser, deviceVars>>

---------------------------------------------------------------------------
(* The web: tokens, submissions, uploads and removals. *)

IssueCookieToken(t) ==
    /\ token[t] = "unissued" /\ cookieUser
    /\ token' = [token EXCEPT ![t] = "live"]
    /\ UNCHANGED <<cookie, handling, reader, watermark, lookup, webWrites, seconds, cookieUser, chosen, heard, deviceVars>>

\* revoke_cookie_tokens, and the expiry the next submission would meet.
EndTokens(gone) ==
    /\ gone # {} /\ gone \subseteq {t \in Tokens : token[t] = "live"}
    /\ token' = [t \in Tokens |-> IF t \in gone THEN "gone" ELSE token[t]]
    /\ heard' = heard \cup gone
    /\ UNCHANGED <<cookie, handling, reader, watermark, lookup, webWrites, seconds, cookieUser, chosen, deviceVars>>

RevokeCookieTokens == cookieUser /\ EndTokens({t \in Tokens : token[t] = "live"})

\* The row of the domain is updated or inserted.
WebWritten(origin) == Stored(origin)

Consumed(t) == [token EXCEPT ![t] = "gone"]

\* Cookies of every domain and the end of the token commit together; a refusal of one
\* domain (capacity) rolls all of it back and the token stays.
SubmitCookieToken(t) ==
    /\ token[t] = "live" /\ cookieUser
    /\ cookie' = WebWritten(<<"token", t>>)
    /\ token' = Consumed(t)
    /\ chosen' = IF t \in heard THEN chosen ELSE <<"token", t>>
    /\ heard' = heard \cup {t}
    /\ UNCHANGED <<handling, reader, watermark, lookup, webWrites, seconds, cookieUser, deviceVars>>

UploadWebCookie ==
    /\ webWrites < MaxWebWrites /\ cookieUser
    /\ webWrites' = webWrites + 1
    /\ cookie' = WebWritten(<<"web", webWrites'>>)
    /\ chosen' = <<"web", webWrites'>>
    /\ UNCHANGED <<handling, reader, watermark, token, lookup, seconds, cookieUser, heard, deviceVars>>

WebCookieDelete ==
    /\ Exists /\ webWrites < MaxWebWrites /\ cookieUser
    /\ webWrites' = webWrites + 1
    /\ cookie' = NoCookie /\ chosen' = NoCookie.origin
    /\ UNCHANGED <<handling, reader, watermark, token, lookup, seconds, cookieUser, heard, deviceVars>>

---------------------------------------------------------------------------
(* web_cookie_validate and oauth_refresh. *)

ReadForLookup(l) ==
    /\ lookup[l].pc = "idle" /\ Exists /\ cookieUser
    /\ lookup' = [lookup EXCEPT ![l] = [pc |-> "asking", read |-> cookie]]
    /\ UNCHANGED <<cookie, handling, reader, watermark, token, webWrites, seconds, cookieUser, chosen, heard, deviceVars>>

\* Mutant of Unchanged: the time of the last write stands for the row.
SameTime(read) == Exists /\ cookie.updated = read.updated

\* Content, domain, owner and time are the ones that were read.
Unchanged(read) ==
    /\ Exists /\ cookie.updated = read.updated
    /\ cookie.origin = read.origin /\ cookie.rotation = read.rotation

Looked(l) == [lookup EXCEPT ![l].pc = "done"]

\* What the provider said of the account, and the values it rotated, if any.
WebCookieValidate(l, valid, rotated) ==
    /\ lookup[l].pc = "asking"
    /\ lookup' = Looked(l)
    /\ cookie' = IF cookieUser /\ Unchanged(lookup[l].read)
                 THEN [lookup[l].read EXCEPT !.valid = valid,
                                             !.rotation = IF rotated THEN @ + 1 ELSE @,
                                             !.updated = IF rotated THEN seconds ELSE @]
                 ELSE cookie
    /\ UNCHANGED <<handling, reader, watermark, token, webWrites, seconds, cookieUser, chosen, heard, deviceVars>>

\* The refreshed credential; an invalid row is never refreshed.
OAuthRefresh(l) ==
    /\ lookup[l].pc = "asking" /\ lookup[l].read.valid
    /\ lookup' = Looked(l)
    /\ cookie' = IF cookieUser /\ Unchanged(lookup[l].read) /\ cookie.valid
                 THEN [lookup[l].read EXCEPT !.rotation = @ + 1, !.updated = seconds, !.valid = TRUE]
                 ELSE cookie
    /\ UNCHANGED <<handling, reader, watermark, token, webWrites, seconds, cookieUser, chosen, heard, deviceVars>>

\* The provider timed out, the answer does not validate, it would exceed a limit, or
\* the request was dropped.
LookupFails(l) ==
    /\ lookup[l].pc = "asking" /\ lookup' = Looked(l)
    /\ UNCHANGED <<cookie, handling, reader, watermark, token, webWrites, seconds, cookieUser, chosen, heard, deviceVars>>

---------------------------------------------------------------------------
(* oauth_start: capacity is checked before and after the provider. *)

Room == Cardinality(Alive) < SessionCap

OAuthStart(s) ==
    /\ starting[s] = "idle" /\ cookieUser /\ Room
    /\ starting' = [starting EXCEPT ![s] = "asking"]
    /\ UNCHANGED <<seconds, row, consent, poll, draining, room, cookieUser, saved, excused, cookieVars>>

\* A row leaves the table together with what was staged in it.
Collected == {s \in DeviceSessions : row[s] # NoRow /\ row[s].expires <= seconds}
WithoutCollected == [s \in DeviceSessions |-> IF s \in Collected THEN NoRow ELSE row[s]]
Staged == {s \in DeviceSessions : row[s].staged}

DeviceStarted(s) ==
    /\ starting[s] = "asking" /\ cookieUser /\ Room
    /\ starting' = [starting EXCEPT ![s] = "done"]
    /\ row' = [WithoutCollected EXCEPT ![s] =
                   [expires |-> seconds + DeviceLife, next |-> seconds, generation |-> 0, staged |-> FALSE]]
    /\ excused' = excused \cup (Collected \cap Staged)
    /\ UNCHANGED <<seconds, consent, poll, draining, room, cookieUser, saved, cookieVars>>

\* The provider failed, the user may not any more, or there is no room.
StartFails(s) ==
    /\ starting[s] = "asking"
    /\ starting' = [starting EXCEPT ![s] = "done"]
    /\ UNCHANGED <<seconds, row, consent, poll, draining, room, cookieUser, saved, excused, cookieVars>>

---------------------------------------------------------------------------
(* oauth_poll *)

\* One poll of a session at a time, so many in all, and none once draining began.
OAuthPoll(p, s) ==
    /\ poll[p] = NoPoll /\ ~draining /\ Cardinality(PollsRunning) < PollSlots /\ ~Owned(s) /\ starting[s] = "done"
    /\ poll' = [poll EXCEPT ![p] = [pc |-> "accepted", session |-> s, started |-> seconds]]
    /\ UNCHANGED <<seconds, starting, row, consent, draining, room, cookieUser, saved, excused, cookieVars>>

Closed(p) == [poll EXCEPT ![p] = [pc |-> "over"]]

\* Mutant of Protected: the row keeps the expiry of the device.
ProtectedNot(r, lease) == r.expires

\* While a poll may still answer, its row does not expire; a staged row keeps its time.
Protected(r, lease) ==
    CASE r.staged -> r.expires
      [] ~r.staged /\ r.expires >= lease -> r.expires
      [] ~r.staged /\ r.expires < lease -> lease

\* oauth_poll_owned, first transaction.
BeginPoll(p) ==
    LET s == poll[p].session
        lease == poll[p].started + Budget + 1
        r == row[s]
    IN  /\ poll[p].pc = "accepted"
        /\ IF ~cookieUser \/ r = NoRow \/ r.expires <= seconds \/ (~r.staged /\ r.next > seconds)
           THEN /\ poll' = Closed(p)
                /\ row' = IF cookieUser /\ r.expires <= seconds THEN [row EXCEPT ![s] = NoRow] ELSE row
                /\ excused' = IF cookieUser /\ r.expires <= seconds /\ r.staged THEN excused \cup {s} ELSE excused
           ELSE /\ row' = [row EXCEPT ![s] = [r EXCEPT !.generation = @ + 1, !.next = lease,
                                                       !.expires = Protected(r, lease)]]
                /\ poll' = [poll EXCEPT ![p] =
                        [pc |-> IF r.staged THEN "answered" ELSE "asking", session |-> s,
                         started |-> poll[p].started, generation |-> r.generation + 1,
                         expires |-> r.expires, answer |-> IF r.staged THEN "ready" ELSE "none"]]
                /\ UNCHANGED excused
        /\ UNCHANGED <<seconds, starting, consent, draining, room, cookieUser, saved, cookieVars>>

\* The provider's answer; a credential is handed out once.  A failure, and the
\* provider's own timeout, are an error.
ProviderAnswers(p, answer) ==
    LET s == poll[p].session IN
    /\ poll[p].pc = "asking"
    /\ answer = "ready" => consent[s] = "given"
    /\ poll' = [poll EXCEPT ![p].pc = "answered", ![p].answer = answer]
    /\ consent' = IF answer = "ready" THEN [consent EXCEPT ![s] = "taken"] ELSE consent
    /\ UNCHANGED <<seconds, starting, row, draining, room, cookieUser, saved, excused, cookieVars>>

\* Second transaction: a late pending or error never touches a staged success, and
\* a credential that does not fit is staged for a finite time; one that fits is stored
\* in the row of the cookie with the end of the session (oauth_store).
EndPoll(p) ==
    LET s == poll[p].session
        r == row[s]
        ready == poll[p].answer = "ready"
        present == r # NoRow /\ r.expires > seconds
        kept == CASE ready /\ ~r.staged -> seconds + Retention
                  [] r.staged -> r.expires
                  [] ~ready /\ ~r.staged -> poll[p].expires
    IN  /\ poll[p].pc = "answered"
        /\ poll' = Closed(p)
        /\ IF ~cookieUser \/ ~present \/ (~ready /\ (r.generation # poll[p].generation \/ r.staged))
           THEN UNCHANGED <<row, saved, cookie, chosen>>
           ELSE /\ row' = [row EXCEPT ![s] =
                       IF poll[p].answer = "expired" \/ (ready /\ room) THEN NoRow
                       ELSE [r EXCEPT !.expires = kept,
                                      !.staged = @ \/ ready,
                                      !.next = IF ready THEN @ ELSE seconds + 1]]
                /\ saved' = IF ready /\ room THEN saved \cup {s} ELSE saved
                /\ cookie' = IF ready /\ room THEN Stored(<<"device", s>>) ELSE cookie
                /\ chosen' = IF ready /\ room THEN <<"device", s>> ELSE chosen
        /\ excused' = IF ~cookieUser /\ ready THEN excused \cup {s} ELSE excused
        /\ UNCHANGED <<seconds, starting, consent, draining, room, cookieUser, handling, reader, watermark,
                       token, lookup, webWrites, heard>>

\* The budget of the task is over; what it carried is lost.
PollTimesOut(p) ==
    /\ p \in PollsRunning /\ seconds = poll[p].started + Budget
    /\ poll' = Closed(p)
    /\ excused' = IF poll[p].pc = "answered" /\ poll[p].answer = "ready" /\ ~row[poll[p].session].staged
                  THEN excused \cup {poll[p].session} ELSE excused
    /\ UNCHANGED <<seconds, starting, row, consent, draining, room, cookieUser, saved, cookieVars>>

CleanupCookieOAuth ==
    /\ Collected # {}
    /\ row' = WithoutCollected
    /\ excused' = excused \cup (Collected \cap Staged)
    /\ UNCHANGED <<seconds, starting, consent, poll, draining, room, cookieUser, saved, cookieVars>>

\* drain_cookie_oauth closes admission; accepted polls run to their end.
DrainCookieOAuth ==
    /\ ~draining /\ draining' = TRUE
    /\ UNCHANGED <<seconds, starting, row, consent, poll, room, cookieUser, saved, excused, cookieVars>>

---------------------------------------------------------------------------
(* The surroundings. *)

GiveConsent(s) ==
    /\ starting[s] = "done" /\ consent[s] = "waiting"
    /\ consent' = [consent EXCEPT ![s] = "given"]
    /\ UNCHANGED <<seconds, starting, row, poll, draining, room, cookieUser, saved, excused, cookieVars>>

\* A task whose budget is over is dropped before time goes on.
TimePasses ==
    /\ seconds < MaxTime
    /\ \A p \in PollsRunning : seconds < poll[p].started + Budget
    /\ seconds' = seconds + 1
    /\ UNCHANGED <<cookieUser, cookieVars, deviceVars>>

ChangeRoom ==
    /\ room' = ~room
    /\ UNCHANGED <<seconds, cookieUser, cookieVars, starting, row, consent, poll, draining, saved, excused>>

ChangeCookieUser ==
    /\ cookieUser' = ~cookieUser
    /\ UNCHANGED <<seconds, cookieVars, deviceVars>>

CredentialsInit ==
    /\ seconds = 0 /\ cookieUser = TRUE
    /\ cookie = NoCookie /\ handling = [i \in Messages |-> "idle"] /\ reader = 0 /\ watermark = 0
    /\ token = [t \in Tokens |-> "unissued"] /\ lookup = [l \in Lookups |-> NoLookup] /\ webWrites = 0
    /\ chosen = NoCookie.origin /\ heard = {}
    /\ starting = [s \in DeviceSessions |-> "idle"] /\ row = [s \in DeviceSessions |-> NoRow]
    /\ consent = [s \in DeviceSessions |-> "waiting"] /\ poll = [p \in Polls |-> NoPoll]
    /\ draining = FALSE /\ room = TRUE /\ saved = {} /\ excused = {}

\* What messages, the web and the lookups do to the cookie.
CookiesNext ==
    \/ \E i \in Messages :
           \/ HandleDocument(i) \/ HandleUrl(i) \/ LocalReadStarts(i) \/ Fetched(i) \/ CookieFetchFails(i)
           \/ RemovePersonalCookies(i) \/ \E full \in BOOLEAN : StorePersonalCookie(i, full)
    \/ LocalReadEnds
    \/ \E t \in Tokens : IssueCookieToken(t) \/ SubmitCookieToken(t) \/ EndTokens({t})
    \/ RevokeCookieTokens \/ UploadWebCookie \/ WebCookieDelete
    \/ \E l \in Lookups :
           \/ ReadForLookup(l) \/ OAuthRefresh(l) \/ LookupFails(l)
           \/ \E valid, rotated \in BOOLEAN : WebCookieValidate(l, valid, rotated)
    \/ ChangeCookieUser \/ TimePasses

\* What the device sessions do.
DeviceNext ==
    \/ \E s \in DeviceSessions : OAuthStart(s) \/ DeviceStarted(s) \/ StartFails(s) \/ GiveConsent(s)
    \/ \E p \in Polls :
           \/ \E s \in DeviceSessions : OAuthPoll(p, s)
           \/ BeginPoll(p) \/ EndPoll(p) \/ PollTimesOut(p)
           \/ \E answer \in {"ready", "pending", "expired", "error"} : ProviderAnswers(p, answer)
    \/ CleanupCookieOAuth \/ DrainCookieOAuth \/ ChangeRoom \/ ChangeCookieUser \/ TimePasses

CredentialsNext == CookiesNext \/ DeviceNext

CredentialsSpec == CredentialsInit /\ [][CredentialsNext]_credentialVars

---------------------------------------------------------------------------
(* Properties. *)

\* The stored credential descends from the user's last effective choice: a message that
\* is replayed or overtaken, a token that was used or revoked, and a validation or
\* refresh that read an older row never bring back what was replaced or removed.
StoresLastChoice == cookie.origin = chosen

\* The credential the provider handed out once is in the hands of a poll, staged in the
\* session or saved, although cleanup, other starts, full limits and the end of the
\* device's own life come in between.  It may be lost only when a poll's budget is over,
\* when the user lost access, or when the time to retry has passed.
HandedOutIsKept ==
    \A s \in DeviceSessions :
        consent[s] = "taken" => Carries(s) \/ row[s].staged \/ s \in saved \cup excused

\* The stored credential is the one the user chose last, whichever way it came, and one
\* that Google handed out is not lost (personal_cookies.rs, cookie_web.rs, cookie_oauth.rs).
CredentialsAreKept == CredentialsTypeOK /\ StoresLastChoice /\ HandedOutIsKept
=============================================================================
