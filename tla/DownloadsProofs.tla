--------------------------- MODULE DownloadsProofs ---------------------------
(***************************************************************************)
(* What the components around the download service keep, for every value   *)
(* of their constants: the media cache, the settings, the network          *)
(* profiles, the content policy, the credentials and the dialogs.  Each    *)
(* section states the inductive invariant of one of them, shows that every *)
(* action preserves it and concludes.                                      *)
(***************************************************************************)
EXTENDS NetworkProfile, MediaCache, Credentials, Settings, ContentPolicy, Dialogs,
        FiniteSetTheorems, SequenceTheorems, TLAPS

-----------------------------------------------------------------------------
(* The media cache. *)

\* What is published is over, was published under a watermark that has not gone back, and
\* only what was published is cached (publish_media_cache).
Published ==
    /\ \A o \in Operations :
          bornAfter[o] # Unpublished => fetching[o].at = "over" /\ bornAfter[o] <= clearMark
    /\ \A k \in CacheKeys : IsCached(k) => bornAfter[cached[k].revision] # Unpublished

CacheInv == MediaCacheTypeOK /\ Published

LEMMA CacheStarts == ASSUME MediaCacheAssumption, MediaCacheInit PROVE CacheInv
<1> USE DEF MediaCacheAssumption, MediaCacheInit
<1>1. MediaCacheTypeOK
  BY DEF MediaCacheTypeOK, NotCached, NoOperation, Unpublished
<1>2. Published
  BY DEF Published, IsCached, NotCached, NoOperation, Unpublished
<1> QED
  BY <1>1, <1>2 DEF CacheInv

\* A step of an operation that leaves the rows alone.
LEMMA FetchKeepsCache ==
    ASSUME CacheInv, NEW o \in Operations, NEW f,
           fetching' = [fetching EXCEPT ![o] = f], fetching[o].at # "over",
           f \in [at : {"queued", "replay", "partial", "download", "sent", "over"},
                  uses : Operations \cup {NoOperation}, bypassed : BOOLEAN], CacheStays
    PROVE  CacheInv' /\ CacheStep
<1> USE DEF CacheInv, CacheStays
<1>1. MediaCacheTypeOK'
  BY DEF MediaCacheTypeOK
<1>2. Published'
  BY DEF Published, MediaCacheTypeOK, IsCached
<1>3. CacheStep
  BY DEF CacheStep
<1> QED
  BY <1>1, <1>2, <1>3

\* A refused revision leaves the cache, if it is still there.
LEMMA RefusalKeepsCache ==
    ASSUME MediaCacheAssumption, CacheInv, NEW o \in Operations, NEW f,
           fetching' = [fetching EXCEPT ![o] = f], fetching[o].at # "over",
           f \in [at : {"queued", "replay", "partial", "download", "sent", "over"},
                  uses : Operations \cup {NoOperation}, bypassed : BOOLEAN], EvictRefused(o)
    PROVE  CacheInv' /\ CacheStep
<1> USE DEF CacheInv, EvictRefused
<1>1. CacheKeyOf[o] \in CacheKeys
  BY DEF CacheKeys
<1>2. \A k \in CacheKeys : \/ cached'[k] = cached[k]
                           \/ cached'[k] = NotCached /\ cached[k].revision \in refusedFiles'
  BY <1>1 DEF Evicted, MediaCacheTypeOK
<1>3. MediaCacheTypeOK'
  BY <1>1 DEF MediaCacheTypeOK, Evicted, NotCached
<1>4. Published'
  BY <1>2 DEF Published, MediaCacheTypeOK, IsCached, NotCached
<1>5. CacheStep
  BY <1>2 DEF CacheStep, LossIsDue, NotCached
<1> QED
  BY <1>3, <1>4, <1>5

\* A delivery that succeeded whole replaces the row of its key.
LEMMA PublicationKeepsCache ==
    ASSUME MediaCacheAssumption, CacheInv, NEW o \in Operations, PublishCache(o)
    PROVE  CacheInv' /\ CacheStep
<1> USE DEF CacheInv, PublishCache, FetchGoes
<1>1. \A k \in CacheKeys : \/ cached'[k] = cached[k]
                           \/ k = CacheKeyOf[o] /\ cached'[k] = CachedAs(o)
                           \/ cached'[k] = NotCached /\ ~cached[k].fresh
  BY DEF MediaCacheTypeOK
<1>2. MediaCacheTypeOK'
  <2>1. cached' \in [CacheKeys -> [revision : Operations \cup {NoOperation}, fresh : BOOLEAN]]
    BY DEF MediaCacheTypeOK, CachedAs, NotCached
  <2> QED
    BY <2>1 DEF MediaCacheTypeOK
<1>3. bornAfter[o] = Unpublished
  BY DEF Published
<1>4. bornAfter'[o] = clearMark /\ clearMark # Unpublished
  BY DEF MediaCacheTypeOK, Unpublished
<1>5. \A p \in Operations \ {o} : bornAfter'[p] = bornAfter[p] /\ fetching'[p] = fetching[p]
  BY DEF MediaCacheTypeOK
<1>6. Published'
  <2>1. ASSUME NEW p \in Operations, bornAfter'[p] # Unpublished
        PROVE  fetching'[p].at = "over" /\ bornAfter'[p] <= clearMark'
    BY <1>4, <1>5, <2>1 DEF Published, MediaCacheTypeOK
  <2>2. ASSUME NEW k \in CacheKeys, IsCached(k)'
        PROVE  bornAfter'[cached'[k].revision] # Unpublished
    BY <1>1, <1>4, <1>5, <2>2 DEF Published, MediaCacheTypeOK, IsCached, NotCached, CachedAs
  <2> QED
    BY <2>1, <2>2 DEF Published
<1>7. CacheStep
  BY <1>1, <1>3 DEF CacheStep, LossIsDue, NotCached, CachedAs, MediaCacheAssumption, NoOperation
<1> QED
  BY <1>2, <1>6, <1>7

\* A message that advances the watermark drops what was published before it.
LEMMA ClearKeepsCache ==
    ASSUME MediaCacheAssumption, CacheInv, NEW m \in DOMAIN ClearsOf, ClearCache(m)
    PROVE  CacheInv' /\ CacheStep
<1> USE DEF CacheInv, ClearCache
<1>1. clearMark \in Nat /\ m \in Nat /\ clearMark' \in Nat /\ clearMark <= clearMark'
  BY DEF MediaCacheTypeOK, MediaCacheAssumption, Advances
<1>2. \A k \in CacheKeys :
        \/ cached'[k] = cached[k]
        \/ /\ cached'[k] = NotCached
           /\ clearMark' = m /\ clearMark < clearMark' /\ ClearsOf[clearMark'] = SourceOf[k]
  BY <1>1 DEF MediaCacheTypeOK, Advances, KeysOf
<1>3. MediaCacheTypeOK'
  <2>1. cached' \in [CacheKeys -> [revision : Operations \cup {NoOperation}, fresh : BOOLEAN]]
    <3>1. cached \in [CacheKeys -> [revision : Operations \cup {NoOperation}, fresh : BOOLEAN]]
      BY DEF MediaCacheTypeOK
    <3>2. NotCached \in [revision : Operations \cup {NoOperation}, fresh : BOOLEAN]
      BY DEF NotCached
    <3>3. CASE Advances(m)
      BY <3>1, <3>2, <3>3
    <3>4. CASE ~Advances(m)
      BY <3>1, <3>4
    <3> QED
      BY <3>3, <3>4
  <2>2. handledClears' \in 0 .. MaxHandledClears
    <3>1. handledClears \in 0 .. MaxHandledClears /\ MaxHandledClears \in Nat
      BY DEF MediaCacheTypeOK, MediaCacheAssumption
    <3>2. handledClears < MaxHandledClears /\ handledClears' = handledClears + 1
      OBVIOUS
    <3> QED
      BY ONLY <3>1, <3>2
  <2> QED
    BY <1>1, <2>1, <2>2 DEF MediaCacheTypeOK
<1>4. Published'
  <2>1. \A o \in Operations : bornAfter[o] \in Nat \cup {Unpublished}
    BY DEF MediaCacheTypeOK
  <2>2. \A o \in Operations : bornAfter'[o] # Unpublished => fetching'[o].at = "over" /\ bornAfter'[o] <= clearMark'
    BY <1>1, <2>1 DEF Published, Unpublished
  <2>3. \A k \in CacheKeys : IsCached(k)' => bornAfter'[cached'[k].revision] # Unpublished
    BY <1>2 DEF Published, IsCached, NotCached
  <2> QED
    BY <2>2, <2>3 DEF Published
<1>5. CacheStep
  <2>1. ASSUME NEW k \in CacheKeys, cached'[k].revision # cached[k].revision, IsCached(k)
        PROVE  LossIsDue(k)
    <3>1. cached[k].revision \in Operations
      BY <2>1 DEF MediaCacheTypeOK, IsCached
    <3>2. bornAfter[cached[k].revision] <= clearMark /\ bornAfter[cached[k].revision] \in Nat
      BY <2>1, <3>1 DEF Published, MediaCacheTypeOK
    <3> QED
      BY <1>1, <1>2, <2>1, <3>2 DEF LossIsDue
  <2> QED
    BY <1>2, <2>1 DEF CacheStep, NotCached
<1> QED
  BY <1>3, <1>4, <1>5

\* A row expires, or Telegram forgets a batch.
LEMMA AgeKeepsCache ==
    ASSUME CacheInv,
           \/ \E k \in CacheKeys : CacheExpires(k)
           \/ \E o \in Operations : FilesDie(o)
    PROVE  CacheInv' /\ CacheStep
<1> USE DEF CacheInv
<1>1. ASSUME NEW k \in CacheKeys, CacheExpires(k) PROVE CacheInv' /\ CacheStep
  <2>1. \A l \in CacheKeys : cached'[l].revision = cached[l].revision
    BY <1>1 DEF CacheExpires, MediaCacheTypeOK
  <2>2. MediaCacheTypeOK'
    BY <1>1 DEF CacheExpires, MediaCacheTypeOK
  <2>3. Published'
    BY <1>1, <2>1 DEF CacheExpires, Published, IsCached
  <2> QED
    BY <2>1, <2>2, <2>3 DEF CacheStep
<1>2. ASSUME NEW o \in Operations, FilesDie(o) PROVE CacheInv' /\ CacheStep
  <2>1. MediaCacheTypeOK'
    BY <1>2 DEF FilesDie, MediaCacheTypeOK
  <2>2. Published'
    BY <1>2 DEF FilesDie, Published, IsCached
  <2> QED
    BY <1>2, <2>1, <2>2 DEF FilesDie, CacheStep
<1> QED
  BY <1>1, <1>2

LEMMA CacheKeeps ==
    ASSUME MediaCacheAssumption, CacheInv, [MediaCacheNext]_cacheVars
    PROVE  CacheInv' /\ (CacheStep \/ UNCHANGED cacheVars)
<1> DEFINE Fetch == [at : {"queued", "replay", "partial", "download", "sent", "over"},
                     uses : Operations \cup {NoOperation}, bypassed : BOOLEAN]
<1>1. ASSUME NEW o \in Operations,
             \/ ReplayCached(o) \/ MissCache(o) \/ ReplayConfirmed(o)
             \/ FetchFails(o) \/ FetchRestarts(o) \/ UploadConfirmed(o)
      PROVE  CacheInv' /\ CacheStep
  <2>1. fetching[o] \in Fetch /\ CacheKeyOf[o] \in CacheKeys
    BY DEF CacheInv, MediaCacheTypeOK, CacheKeys
  <2>2. cached[CacheKeyOf[o]].revision \in Operations \cup {NoOperation}
    BY <2>1 DEF CacheInv, MediaCacheTypeOK
  <2>3. CASE ReplayCached(o)
    <3> DEFINE f == [[fetching[o] EXCEPT !.at = "replay"] EXCEPT !.uses = cached[CacheKeyOf[o]].revision]
    <3>1. fetching' = [fetching EXCEPT ![o] = f] /\ f \in Fetch /\ fetching[o].at # "over" /\ CacheStays
      BY <2>1, <2>2, <2>3 DEF ReplayCached, CacheInv, MediaCacheTypeOK
    <3> QED
      BY <3>1, FetchKeepsCache DEF CacheInv
  <2>4. CASE FetchRestarts(o)
    <3> DEFINE f == [[fetching[o] EXCEPT !.at = "queued"] EXCEPT !.uses = NoOperation]
    <3>1. fetching' = [fetching EXCEPT ![o] = f] /\ f \in Fetch /\ fetching[o].at # "over" /\ CacheStays
      BY <2>1, <2>4 DEF FetchRestarts, CacheInv, MediaCacheTypeOK
    <3> QED
      BY <3>1, FetchKeepsCache DEF CacheInv
  <2>5. ASSUME NEW at \in {"download", "sent", "partial", "over"}, FetchGoes(o, at),
               fetching[o].at # "over", CacheStays
        PROVE  CacheInv' /\ CacheStep
    <3> DEFINE f == [fetching[o] EXCEPT !.at = at]
    <3>1. fetching' = [fetching EXCEPT ![o] = f] /\ f \in Fetch
      BY <2>1, <2>5 DEF FetchGoes, CacheInv, MediaCacheTypeOK
    <3> QED
      BY <2>5, <3>1, FetchKeepsCache DEF CacheInv
  <2> QED
    BY <1>1, <2>3, <2>4, <2>5 DEF MissCache, ReplayConfirmed, FetchFails, UploadConfirmed
<1>2. ASSUME NEW o \in Operations, RequeueRefused(o) \/ RejectRefused(o)
      PROVE  CacheInv' /\ CacheStep
  <2>1. fetching[o] \in Fetch
    BY DEF CacheInv, MediaCacheTypeOK
  <2>2. CASE RequeueRefused(o)
    <3> DEFINE f == [at |-> "queued", uses |-> NoOperation, bypassed |-> TRUE]
    <3>1. fetching' = [fetching EXCEPT ![o] = f] /\ f \in Fetch /\ fetching[o].at # "over" /\ EvictRefused(o)
      BY <2>1, <2>2 DEF RequeueRefused
    <3> QED
      BY <3>1, RefusalKeepsCache DEF CacheInv
  <2>3. CASE RejectRefused(o)
    <3> DEFINE f == [fetching[o] EXCEPT !.at = "over"]
    <3>1. fetching' = [fetching EXCEPT ![o] = f] /\ f \in Fetch /\ fetching[o].at # "over" /\ EvictRefused(o)
      BY <2>1, <2>3 DEF RejectRefused, FetchGoes, CacheInv, MediaCacheTypeOK
    <3> QED
      BY <3>1, RefusalKeepsCache DEF CacheInv
  <2> QED
    BY <1>2, <2>2, <2>3
<1>3. ASSUME UNCHANGED cacheVars PROVE CacheInv'
  BY <1>3 DEF cacheVars, CacheInv, MediaCacheTypeOK, Published, IsCached
<1> QED
  BY <1>1, <1>2, <1>3, PublicationKeepsCache, ClearKeepsCache, AgeKeepsCache DEF MediaCacheNext

\* The cache has its types, what is in it was published, and no published revision is
\* younger than the watermark (publish_media_cache, clear_media_cache).
THEOREM CacheIsSound == ASSUME MediaCacheAssumption PROVE MediaCacheSpec => []CacheInv
<1>1. MediaCacheInit => CacheInv
  BY CacheStarts
<1>2. CacheInv /\ [MediaCacheNext]_cacheVars => CacheInv'
  BY CacheKeeps
<1> QED
  BY <1>1, <1>2, PTL DEF MediaCacheSpec

\* A batch leaves the cache only for a reason of its own, and one that has left never
\* returns (invalidate_media_cache, clear_media_cache).
THEOREM CacheChangesAreAlwaysDue == ASSUME MediaCacheAssumption PROVE MediaCacheSpec => CacheChangesAreDue
<1>1. CacheInv /\ [MediaCacheNext]_cacheVars => [CacheStep]_cacheVars
  BY CacheKeeps
<1> QED
  BY <1>1, CacheIsSound, PTL DEF MediaCacheSpec, CacheChangesAreDue

-----------------------------------------------------------------------------
(* The settings.  A revision only grows, so that what was shown with the   *)
(* present revision is what the row holds: this is kept for every page and *)
(* for every handler that waits for its transaction.                       *)

PageNames == {"prefs", "subs", "clean", "proxy", "lang", "web"}

\* What was shown at revision r was not newer than the row, and is the row if it is not older.
Fresh(kind, shown, r) == r <= Revision(kind) /\ (r = Revision(kind) => shown = View(kind))

PageTrue(kind, s) ==
    s = <<>> \/ (s = <<s[1]>> /\ s[1].revision \in Nat /\ Fresh(kind, s[1].shown, s[1].revision))

\* The changes that the pages and the commands ask for.
Offered(kind, c) ==
    \/ c.op = "show"
    \/ c.op = "set" /\ c.field \in Fields /\ c.value \in FieldChoices[c.field]
    \/ c.op = "proxy" /\ c.value \in {"on", "off"}
    \/ c.op = "reset" /\ c.group \in Groups
    \/ c.op = "lang" /\ c.value \in {"en", "ru"} /\ kind = "lang"

HandlerTrue(w) ==
    \/ w = Resting
    \/ /\ w = [page |-> w.page, change |-> w.change, expected |-> w.expected,
               stage |-> w.stage, shown |-> w.shown]
       /\ w.page \in Pages /\ Offered(pageKind[w.page], w.change)
       /\ w.stage \in {"authorize", "write", "read", "show"}
       /\ w.stage \in {"authorize", "write"} =>
             \/ w.expected = Anyone
             \/ w.expected \in Nat /\ Fresh(pageKind[w.page], w.shown, w.expected)
       /\ w.stage = "show" /\ w.change.op # "lang" =>
             w.shown.revision \in Nat /\ Fresh(pageKind[w.page], w.shown.shown, w.shown.revision)

RowsTyped ==
    /\ prefs \in [Fields -> UNION {FieldChoices[f] : f \in Fields}]
    /\ \A f \in Fields : prefs[f] \in FieldChoices[f]
    /\ revision = 0 => prefs = Defaults
    /\ revision \in Nat /\ langRevision \in Nat /\ instant \in Nat \ {0}
    /\ pageKind \in [Pages -> PageNames]

SettingsInv ==
    /\ RowsTyped
    /\ DOMAIN pages = Pages /\ \A p \in Pages : PageTrue(pageKind[p], pages[p])
    /\ DOMAIN handlers = PageHandlers /\ \A h \in PageHandlers : HandlerTrue(handlers[h])

LEMMA SettingsTyped == ASSUME SettingsInv PROVE SettingsTypeOK
<1>1. ASSUME NEW p \in Pages PROVE pages[p] = <<>> \/ pages[p][1].revision <= Revision(pageKind[p])
  BY DEF SettingsInv, PageTrue, Fresh
<1> QED
  BY <1>1 DEF SettingsInv, RowsTyped, SettingsTypeOK

LEMMA SettingsStart == ASSUME SettingsAssumption, SettingsInit PROVE SettingsInv
<1> USE DEF SettingsInit
<1>1. \A f \in Fields : Defaults[f] \in FieldChoices[f]
  BY DEF Fields, Defaults, FieldChoices
<1>2. Defaults \in [Fields -> UNION {FieldChoices[f] : f \in Fields}]
  <2>1. Defaults = [f \in Fields |-> Defaults[f]]
    BY DEF Defaults, Fields
  <2> QED
    BY <1>1, <2>1
<1>3. RowsTyped
  BY <1>1, <1>2 DEF RowsTyped, SettingsAssumption, PageNames
<1> QED
  BY <1>3 DEF SettingsInv, PageTrue, HandlerTrue

\* A row keeps its content, or its revision grows.
SettingsMove ==
    /\ UNCHANGED <<prefs, revision>> \/ revision' > revision
    /\ UNCHANGED <<language, langRevision>> \/ langRevision' > langRevision

LEMMA FreshStays ==
    ASSUME SettingsInv, SettingsMove, revision' \in Nat, langRevision' \in Nat,
           NEW kind \in PageNames, NEW shown, NEW r \in Nat, Fresh(kind, shown, r)
    PROVE  Fresh(kind, shown, r)'
<1> USE DEF SettingsInv, RowsTyped, SettingsMove, Fresh, Revision
<1>1. CASE kind = "lang"
  <2>1. UNCHANGED langRevision => UNCHANGED View(kind) \/ langRevision' > langRevision
    BY <1>1 DEF View, LanguageView
  <2> QED
    BY <1>1, <2>1
<1>2. CASE kind # "lang"
  <2>1. UNCHANGED <<prefs, revision>> => UNCHANGED View(kind)
    BY <1>2 DEF View, MenuView, ProxyView, WebView, Configured, PageNames
  <2> QED
    BY <1>2, <2>1
<1> QED
  BY <1>1, <1>2

LEMMA TruthStays ==
    ASSUME SettingsInv, SettingsMove, revision' \in Nat, langRevision' \in Nat, UNCHANGED pageKind
    PROVE  /\ \A p \in Pages : \A s : PageTrue(pageKind[p], s) => PageTrue(pageKind[p], s)'
           /\ \A w : HandlerTrue(w) => HandlerTrue(w)'
<1>1. \A p \in Pages : pageKind[p] \in PageNames
  BY DEF SettingsInv, RowsTyped
<1>2. ASSUME NEW p \in Pages, NEW s, PageTrue(pageKind[p], s) PROVE PageTrue(pageKind[p], s)'
  BY <1>1, <1>2, FreshStays DEF PageTrue
<1>3. ASSUME NEW w, HandlerTrue(w) PROVE HandlerTrue(w)'
  <2>1. CASE w = Resting
    BY <2>1 DEF HandlerTrue
  <2>2. CASE w # Resting
    <3>1. /\ w.page \in Pages /\ pageKind[w.page] \in PageNames
          /\ \A v, r : r \in Nat /\ Fresh(pageKind[w.page], v, r) => Fresh(pageKind[w.page], v, r)'
      BY <1>1, <1>3, <2>2, FreshStays DEF HandlerTrue
    <3> QED
      BY <1>3, <2>2, <3>1 DEF HandlerTrue, Offered
  <2> QED
    BY <2>1, <2>2
<1> QED
  BY <1>2, <1>3

\* A handler goes on while the rows and the pages stay.
LEMMA HandlerMoves ==
    ASSUME SettingsInv, NEW h \in PageHandlers, NEW w, HandlerTrue(w),
           handlers' = [handlers EXCEPT ![h] = w],
           UNCHANGED <<instant, prefs, revision, language, langRevision, pageKind, pages>>
    PROVE  SettingsInv'
<1>1. SettingsMove /\ revision' \in Nat /\ langRevision' \in Nat
  BY DEF SettingsMove, SettingsInv, RowsTyped
<1>2. RowsTyped'
  BY DEF SettingsInv, RowsTyped
<1>3. \A p \in Pages : PageTrue(pageKind[p], pages[p])'
  BY <1>1, TruthStays DEF SettingsInv
<1>4. \A g \in PageHandlers : HandlerTrue(handlers[g])'
  <2>1. \A g \in PageHandlers : HandlerTrue(handlers'[g])
    BY DEF SettingsInv
  <2> QED
    BY <1>1, <2>1, TruthStays
<1> QED
  BY <1>2, <1>3, <1>4 DEF SettingsInv

LEMMA StartKeeps ==
    ASSUME SettingsInv, NEW h \in PageHandlers, NEW p \in Pages, NEW c, NEW r, UNCHANGED pageKind,
           Offered(pageKind[p], c), Start(h, p, c, r),
           r = Anyone \/ (pages[p] # <<>> /\ r = pages[p][1].revision)
    PROVE  SettingsInv'
<1> DEFINE w == [page |-> p, change |-> c, expected |-> r, stage |-> "authorize",
                 shown |-> IF pages[p] = <<>> THEN <<>> ELSE pages[p][1].shown]
<1>1. handlers' = [handlers EXCEPT ![h] = w]
  BY DEF Start
<1>2. PageTrue(pageKind[p], pages[p])
  BY DEF SettingsInv
<1>3. r = Anyone \/ (r \in Nat /\ Fresh(pageKind[p], w.shown, r))
  BY <1>2 DEF PageTrue
<1>4. HandlerTrue(w)
  BY <1>3 DEF HandlerTrue
<1> HIDE DEF w
<1> QED
  BY <1>1, <1>4, HandlerMoves DEF Start

\* What a page offers and what a command asks for is a change of its kind.
LEMMA PressesKeep ==
    ASSUME SettingsInv, NEW h \in PageHandlers, NEW p \in Pages, UNCHANGED pageKind,
           \/ PressPrefs(h, p) \/ PressSubs(h, p) \/ PressClean(h, p) \/ PressProxy(h, p)
           \/ PressLang(h, p) \/ PatchPage(h, p)
           \/ SettingsCommand(h, p) \/ PatchBlindly(h, p) \/ OpenPage(h, p)
    PROVE  SettingsInv'
<1>1. ASSUME NEW fields \in SUBSET Fields, NEW c \in SetChoices(fields) PROVE Offered(pageKind[p], c)
  <2>1. PICK f \in fields : c \in {[op |-> "set", field |-> f, value |-> v] : v \in FieldChoices[f]}
    BY <1>1 DEF SetChoices
  <2> QED
    BY <2>1 DEF Offered
<1>2. MenuFields \in SUBSET Fields /\ {"subs_lang"} \in SUBSET Fields /\ Fields \in SUBSET Fields
  BY DEF MenuFields, Fields
<1>3. \A c \in ResetChoices : Offered(pageKind[p], c)
  BY DEF ResetChoices, Offered
<1>4. \A on : \A c \in ProxyChoices(on) : Offered(pageKind[p], c)
  BY DEF ProxyChoices, Offered
<1>5. pageKind[p] = "lang" => \A c \in LanguageChoices : Offered(pageKind[p], c)
  BY DEF LanguageChoices, Offered
<1>6. ASSUME NEW kind, NEW choices, \A c \in choices : pageKind[p] = kind => Offered(pageKind[p], c),
             Pressed(h, p, kind, choices)
      PROVE  SettingsInv'
  <2>1. PICK c \in choices : Start(h, p, c, pages[p][1].revision)
    BY <1>6 DEF Pressed
  <2> QED
    BY <1>6, <2>1, StartKeeps DEF Pressed
<1>7. ASSUME NEW kind, NEW fields \in SUBSET Fields, Overwrite(h, p, kind, fields) PROVE SettingsInv'
  <2>1. PICK c \in SetChoices(fields) : Start(h, p, c, Anyone)
    BY <1>7 DEF Overwrite
  <2> QED
    BY <1>1, <2>1, StartKeeps
<1>8. ASSUME OpenPage(h, p) PROVE SettingsInv'
  <2>1. Offered(pageKind[p], [op |-> "show"])
    BY DEF Offered
  <2> QED
    BY <1>8, <2>1, StartKeeps DEF OpenPage
<1>9. CASE PressPrefs(h, p) \/ PressSubs(h, p) \/ PatchPage(h, p)
  BY <1>1, <1>2, <1>6, <1>9 DEF PressPrefs, PressSubs, PatchPage
<1>10. CASE PressClean(h, p)
  BY <1>3, <1>6, <1>10 DEF PressClean
<1>11. CASE PressProxy(h, p)
  BY <1>4, <1>6, <1>11 DEF PressProxy
<1>12. CASE PressLang(h, p)
  BY <1>5, <1>6, <1>12 DEF PressLang
<1>13. CASE SettingsCommand(h, p) \/ PatchBlindly(h, p)
  BY <1>2, <1>7, <1>13 DEF SettingsCommand, PatchBlindly
<1> QED
  BY <1>8, <1>9, <1>10, <1>11, <1>12, <1>13

\* Authorizing and reading, which change the handler alone.
LEMMA ReadingKeeps ==
    ASSUME SettingsInv, NEW h \in PageHandlers, UNCHANGED pageKind, AuthorizeChange(h) \/ Read(h)
    PROVE  SettingsInv'
<1> DEFINE w == handlers[h]
<1>1. HandlerTrue(w) /\ w # Resting
  BY DEF SettingsInv, AuthorizeChange, Read, Working
<1>2. w.page \in Pages /\ pageKind[w.page] \in PageNames
  BY <1>1 DEF HandlerTrue, SettingsInv, RowsTyped
<1>3. HandlerTrue(Resting)
  BY DEF HandlerTrue
<1>4. \A s \in {"read", "write"} : w.stage = "authorize" => HandlerTrue([w EXCEPT !.stage = s])
  BY <1>1 DEF HandlerTrue
<1>5. HandlerTrue([[w EXCEPT !.stage = "show"] EXCEPT !.shown = Shot(pageKind[w.page])])
  <2>1. Revision(pageKind[w.page]) \in Nat
    BY DEF Revision, SettingsInv, RowsTyped
  <2> DEFINE u == [page |-> w.page, change |-> w.change, expected |-> w.expected,
                   stage |-> "show", shown |-> Shot(pageKind[w.page])]
  <2>2. [[w EXCEPT !.stage = "show"] EXCEPT !.shown = Shot(pageKind[w.page])] = u
    <3>1. w = [page |-> w.page, change |-> w.change, expected |-> w.expected,
               stage |-> w.stage, shown |-> w.shown]
      BY <1>1 DEF HandlerTrue
    <3>2. [w EXCEPT !.stage = "show"] = [page |-> w.page, change |-> w.change, expected |-> w.expected,
                                         stage |-> "show", shown |-> w.shown]
      BY ONLY <3>1
    <3>3. \A v : [[page |-> w.page, change |-> w.change, expected |-> w.expected, stage |-> "show",
                  shown |-> w.shown] EXCEPT !.shown = v]
                = [page |-> w.page, change |-> w.change, expected |-> w.expected, stage |-> "show", shown |-> v]
      OBVIOUS
    <3> QED
      BY <3>2, <3>3, Zenon
  <2>3. u.shown.revision \in Nat /\ Fresh(pageKind[w.page], u.shown.shown, u.shown.revision)
    BY <2>1 DEF Shot, Fresh
  <2>4. Offered(pageKind[w.page], w.change)
    BY <1>1 DEF HandlerTrue
  <2>5. HandlerTrue(u)
    BY <1>2, <2>3, <2>4 DEF HandlerTrue
  <2> QED
    BY <2>2, <2>5
<1>6. \/ handlers' = [handlers EXCEPT ![h] = Resting]
      \/ \E s \in {"read", "write"} : w.stage = "authorize" /\ handlers' = [handlers EXCEPT ![h] = [w EXCEPT !.stage = s]]
      \/ handlers' = [handlers EXCEPT ![h] = [[w EXCEPT !.stage = "show"] EXCEPT !.shown = Shot(pageKind[w.page])]]
  <2>1. CASE AuthorizeChange(h)
    BY <2>1 DEF AuthorizeChange, Ends, Goes, SettingsInv
  <2>2. CASE Read(h)
    BY <2>2 DEF Read, Ends, SettingsInv
  <2> QED
    BY <2>1, <2>2
<1>7. UNCHANGED <<instant, prefs, revision, language, langRevision, pageKind, pages>>
  BY DEF AuthorizeChange, Read
<1> HIDE DEF w
<1> QED
  BY <1>3, <1>4, <1>5, <1>6, <1>7, HandlerMoves

\* What a write leaves is a row again, of a later revision.
LEMMA RevisionGrows ==
    ASSUME RowsTyped, NEW old \in Nat
    PROVE  NextRevision(old) \in Nat \ {0} /\ NextRevision(old) > old
BY DEF RowsTyped, NextRevision

LEMMA FieldsWritten ==
    ASSUME RowsTyped, NEW f \in Fields, NEW v \in FieldChoices[f]
    PROVE  LET p == [prefs EXCEPT ![f] = v]
           IN  p \in [Fields -> UNION {FieldChoices[g] : g \in Fields}] /\ \A g \in Fields : p[g] \in FieldChoices[g]
<1>1. v \in UNION {FieldChoices[g] : g \in Fields}
  OBVIOUS
<1> QED
  BY <1>1 DEF RowsTyped

LEMMA WritesTyped ==
    ASSUME SettingsInv, NEW kind, NEW c, Offered(kind, c), Write(c), UNCHANGED <<instant, pageKind>>
    PROVE  RowsTyped' /\ SettingsMove
<1> USE DEF SettingsInv
<1>1. /\ NextRevision(revision) \in Nat \ {0} /\ NextRevision(revision) > revision
      /\ NextRevision(langRevision) \in Nat \ {0} /\ NextRevision(langRevision) > langRevision
  BY RevisionGrows DEF RowsTyped
<1>2. ASSUME NEW p \in [Fields -> UNION {FieldChoices[g] : g \in Fields}],
             \A g \in Fields : p[g] \in FieldChoices[g], WritePrefs(p), KeepLanguage \/ WriteLanguage("en")
      PROVE  RowsTyped' /\ SettingsMove
  BY <1>1, <1>2 DEF WritePrefs, KeepLanguage, WriteLanguage, RowsTyped, SettingsMove
<1>3. CASE c.op = "set" /\ ChangeSetting(c)
  <2>1. c.field \in Fields /\ c.value \in FieldChoices[c.field]
    BY <1>3 DEF Offered
  <2> QED
    BY <1>2, <1>3, <2>1, FieldsWritten DEF ChangeSetting
<1>4. CASE c.op = "proxy" /\ ChangeProxySetting(c)
  <2>1. "proxy_enabled" \in Fields /\ c.value \in FieldChoices["proxy_enabled"]
    BY <1>4 DEF Offered, Fields, FieldChoices
  <2> QED
    BY <1>2, <1>4, <2>1, FieldsWritten DEF ChangeProxySetting
<1>5. CASE c.op = "reset" /\ ResetSettings(c)
  <2> DEFINE p == [f \in Fields |-> IF f \in ResetFields(c.group) THEN Defaults[f] ELSE prefs[f]]
  <2>1. \A f \in Fields : Defaults[f] \in FieldChoices[f]
    BY DEF Fields, Defaults, FieldChoices
  <2>2. \A f \in Fields : p[f] \in FieldChoices[f]
    BY <2>1 DEF RowsTyped
  <2>3. p \in [Fields -> UNION {FieldChoices[g] : g \in Fields}]
    BY <2>2
  <2>4. WritePrefs(p) /\ (KeepLanguage \/ WriteLanguage("en"))
    BY <1>5 DEF ResetSettings
  <2> HIDE DEF p
  <2> QED
    BY <1>2, <2>2, <2>3, <2>4
<1>6. CASE c.op = "lang" /\ ChangeLanguage(c)
  BY <1>1, <1>6 DEF ChangeLanguage, WriteLanguage, KeepPrefs, RowsTyped, SettingsMove
<1> QED
  BY <1>3, <1>4, <1>5, <1>6 DEF Write

\* The transaction of a change: what anybody else holds stays true of the new row.
LEMMA CommitKeeps ==
    ASSUME SettingsInv, NEW h \in PageHandlers, UNCHANGED pageKind, CommitChange(h)
    PROVE  SettingsInv' /\ PressStep
<1> DEFINE w == handlers[h]
<1>1. HandlerTrue(w) /\ w # Resting /\ w.stage = "write"
  BY DEF SettingsInv, CommitChange, Working
<1>2. \A g \in PageHandlers \ {h} : handlers'[g] = handlers[g]
  BY DEF CommitChange, Ends, Goes, SettingsInv
<1>3. CASE Refused(pageKind[w.page], w.change, w.expected)
  <2>1. UNCHANGED <<instant, prefs, revision, language, langRevision, pageKind, pages>> /\ Ends(h)
    BY <1>3 DEF CommitChange, KeepPrefs, KeepLanguage
  <2>2. HandlerTrue(Resting)
    BY DEF HandlerTrue
  <2>3. SettingsInv'
    BY <2>1, <2>2, HandlerMoves DEF Ends
  <2> QED
    BY <2>1, <2>3 DEF PressStep
<1>4. CASE ~Refused(pageKind[w.page], w.change, w.expected)
  <2> DEFINE next == [w EXCEPT !.stage = IF w.change.op = "lang" THEN "show" ELSE "read"]
  <2>1. Write(w.change) /\ UNCHANGED <<instant, pages>> /\ handlers' = [handlers EXCEPT ![h] = next]
    BY <1>4 DEF CommitChange, Goes, SettingsInv
  <2>2. RowsTyped' /\ SettingsMove
    BY <1>1, <2>1, WritesTyped DEF HandlerTrue
  <2>3. revision' \in Nat /\ langRevision' \in Nat
    BY <2>2 DEF RowsTyped
  <2>4. HandlerTrue(next)
    BY <1>1 DEF HandlerTrue
  <2>5. \A p \in Pages : PageTrue(pageKind[p], pages[p])'
    BY <2>1, <2>2, <2>3, TruthStays DEF SettingsInv
  <2>6. \A g \in PageHandlers : HandlerTrue(handlers[g])'
    <3>1. \A g \in PageHandlers : HandlerTrue(handlers'[g])
      BY <2>1, <2>4 DEF SettingsInv
    <3> QED
      BY <2>2, <2>3, <3>1, TruthStays
  <2>7. SettingsInv'
    BY <2>1, <2>2, <2>5, <2>6 DEF SettingsInv
  <2>8. w.expected # Anyone => w.shown = View(pageKind[w.page])
    BY <1>1, <1>4 DEF HandlerTrue, Refused, ExpectedIs, Fresh
  <2>9. PressStep
    BY <1>2, <2>8 DEF PressStep
  <2> QED
    BY <2>7, <2>9
<1> QED
  BY <1>3, <1>4

\* A page shows what its handler read, or is closed.
LEMMA ShowingKeeps ==
    ASSUME SettingsInv, NEW h \in PageHandlers, UNCHANGED pageKind,
           ShowPrefs(h) \/ ShowSubs(h) \/ ShowProxy(h) \/ ShowWeb(h) \/ ShowLang(h)
    PROVE  SettingsInv' /\ UNCHANGED <<prefs, revision, language, langRevision>>
<1> DEFINE w == handlers[h]
           edited == IF w.change.op = "lang" THEN <<>> ELSE <<w.shown>>
<1>1. /\ HandlerTrue(w) /\ w # Resting /\ w.stage = "show"
      /\ pages' \in {pages, [pages EXCEPT ![w.page] = edited]} /\ Ends(h)
      /\ UNCHANGED <<instant, prefs, revision, language, langRevision>>
  <2>1. HandlerTrue(w)
    BY DEF SettingsInv
  <2>2. ASSUME NEW some, "lang" \notin some, Showing(h, some, <<w.shown>>)
        PROVE  Showing(h, some, edited)
    BY <2>1, <2>2 DEF Showing, HandlerTrue, Offered, Working
  <2>3. \E some : Showing(h, some, edited)
    BY <2>2 DEF ShowPrefs, ShowSubs, ShowProxy, ShowWeb, ShowLang
  <2> QED
    BY <2>1, <2>3 DEF Showing, Working
<1>2. w.page \in Pages /\ PageTrue(pageKind[w.page], edited)
  BY <1>1 DEF HandlerTrue, PageTrue
<1>3. HandlerTrue(Resting)
  BY DEF HandlerTrue
<1>4. \A p \in Pages : PageTrue(pageKind[p], pages'[p])
  BY <1>1, <1>2 DEF SettingsInv
<1>5. \A g \in PageHandlers : HandlerTrue(handlers'[g])
  BY <1>1, <1>3 DEF Ends, SettingsInv
<1>6. SettingsMove /\ revision' \in Nat /\ langRevision' \in Nat
  BY <1>1 DEF SettingsMove, SettingsInv, RowsTyped
<1>7. RowsTyped'
  BY <1>1 DEF SettingsInv, RowsTyped
<1>8. DOMAIN pages' = Pages /\ DOMAIN handlers' = PageHandlers
  BY <1>1 DEF Ends, SettingsInv
<1> QED
  BY <1>1, <1>4, <1>5, <1>6, <1>7, <1>8, TruthStays DEF SettingsInv

\* The clock, the administrators and the profile page.
LEMMA SettingsSurroundingsKeep ==
    ASSUME SettingsInv, UNCHANGED pageKind, Passes \/ Restand \/ LanguageElsewhere
    PROVE  SettingsInv' /\ UNCHANGED handlers
<1>1. UNCHANGED <<prefs, revision, pages, handlers>>
  BY DEF Passes, Restand, LanguageElsewhere, KeepPrefs
<1>2. UNCHANGED <<language, langRevision>> \/ langRevision' = NextRevision(langRevision)
  BY DEF Passes, Restand, LanguageElsewhere, WriteLanguage
<1>3. langRevision' \in Nat /\ (UNCHANGED <<language, langRevision>> \/ langRevision' > langRevision)
  BY <1>2, RevisionGrows DEF SettingsInv, RowsTyped
<1>4. instant' \in Nat \ {0}
  BY DEF Passes, Restand, LanguageElsewhere, SettingsInv, RowsTyped
<1>5. RowsTyped' /\ SettingsMove
  BY <1>1, <1>3, <1>4 DEF SettingsInv, RowsTyped, SettingsMove
<1> QED
  BY <1>1, <1>3, <1>5, TruthStays DEF SettingsInv, RowsTyped

LEMMA SettingsKeep ==
    ASSUME SettingsInv, [SettingsNext]_settingsVars
    PROVE  SettingsInv' /\ (PressStep \/ UNCHANGED settingsVars)
<1>1. CASE UNCHANGED settingsVars
  BY <1>1, TruthStays DEF settingsVars, SettingsInv, RowsTyped, SettingsMove
<1>2. CASE SettingsNext
  <2>1. ASSUME UNCHANGED <<prefs, revision, language, langRevision>> \/ UNCHANGED handlers PROVE PressStep
    BY <2>1 DEF PressStep
  <2>2. CASE Passes \/ Restand \/ LanguageElsewhere
    BY <1>2, <2>1, <2>2, SettingsSurroundingsKeep DEF SettingsNext
  <2>3. ASSUME NEW h \in PageHandlers, AuthorizeChange(h) \/ Read(h) PROVE SettingsInv' /\ PressStep
    BY <1>2, <2>1, <2>3, ReadingKeeps DEF SettingsNext, AuthorizeChange, Read
  <2>4. ASSUME NEW h \in PageHandlers, CommitChange(h) PROVE SettingsInv' /\ PressStep
    BY <1>2, <2>4, CommitKeeps DEF SettingsNext
  <2>5. ASSUME NEW h \in PageHandlers,
               ShowPrefs(h) \/ ShowSubs(h) \/ ShowProxy(h) \/ ShowWeb(h) \/ ShowLang(h)
        PROVE  SettingsInv' /\ PressStep
    BY <1>2, <2>1, <2>5, ShowingKeeps DEF SettingsNext
  <2>6. ASSUME NEW h \in PageHandlers, NEW p \in Pages,
               \/ PressPrefs(h, p) \/ PressSubs(h, p) \/ PressClean(h, p) \/ PressProxy(h, p)
               \/ PressLang(h, p) \/ PatchPage(h, p)
               \/ SettingsCommand(h, p) \/ PatchBlindly(h, p) \/ OpenPage(h, p)
        PROVE  SettingsInv' /\ PressStep
    <3>1. UNCHANGED <<prefs, revision, language, langRevision>>
      BY <2>6 DEF PressPrefs, PressSubs, PressClean, PressProxy, PressLang, PatchPage,
                  SettingsCommand, PatchBlindly, OpenPage, Pressed, Overwrite, Start
    <3> QED
      BY <1>2, <2>1, <2>6, <3>1, PressesKeep DEF SettingsNext
  <2> QED
    BY <1>2, <2>2, <2>3, <2>4, <2>5, <2>6 DEF SettingsNext
<1> QED
  BY <1>1, <1>2

\* A revision that a page or a handler holds names one content of the row, and the rows
\* have their types (user_settings_patch.sql, settings_write.sql).
THEOREM SettingsAreSound == ASSUME SettingsAssumption PROVE SettingsSpec => []SettingsInv
<1>1. SettingsInit => SettingsInv
  BY SettingsStart
<1>2. SettingsInv /\ [SettingsNext]_settingsVars => SettingsInv'
  BY SettingsKeep
<1> QED
  BY <1>1, <1>2, PTL DEF SettingsSpec

\* The settings row, its revision and what the pages show have their types.
THEOREM SettingsTypeCorrect == ASSUME SettingsAssumption PROVE SettingsSpec => []SettingsTypeOK
<1>1. SettingsInv => SettingsTypeOK
  BY SettingsTyped
<1> QED
  BY <1>1, SettingsAreSound, PTL

\* No press with a revision overwrites a change its author has not seen.
THEOREM PressesAreInformed == ASSUME SettingsAssumption PROVE SettingsSpec => PressIsInformed
<1>1. SettingsInv /\ [SettingsNext]_settingsVars => [PressStep]_settingsVars
  BY SettingsKeep
<1> QED
  BY <1>1, SettingsAreSound, PTL DEF SettingsSpec, PressIsInformed
-----------------------------------------------------------------------------
(* Network profiles.  The version of a reference determines the content it *)
(* was frozen with, as long as the job keeps both: then a reference that   *)
(* still holds when an attempt starts names the frozen content.            *)

ProfileSettings ==
    [proxyOn : BOOLEAN, proxy : ProxyUrls \cup {"none"}, usePool : BOOLEAN, oauth : BOOLEAN,
     container : Containers]

\* A format the worker accepts: WebM only with Opus.
FormatAccepted(format) == format[1] = "webm" => format[2]

\* What a job froze: no cookie, or a version and its content.
FrozenSoundly(j) ==
    job[j].pc \in {"prepared", "frozen"} =>
        \/ job[j].cookie.source = "none" /\ job[j].content = 0
        \/ job[j].cookie.source # "none" /\ job[j].cookie.version.content = job[j].content

JobSound(j) ==
    /\ FrozenSoundly(j)
    /\ job[j].pc \in {"submitted", "refreshing", "ready", "prepared", "frozen"} =>
          FormatAccepted(job[j].format)
    /\ used[j] # NoUse => job[j].pc = "frozen"
    /\ used[j].pc = "ran" =>
          /\ used[j].content = job[j].content /\ used[j].proxy = used[j].due
          /\ used[j].shared => used[j].wanted /\ used[j].as = "admin"
          /\ used[j].format = job[j].format

ContentsWritten ==
    /\ written \in 0 .. MaxContents
    /\ personal.content \in 0 .. written /\ pool.content \in 0 .. written
    /\ "content" \in DOMAIN personal

NetworkInv ==
    /\ NetworkTypeOK /\ ContentsWritten
    /\ DOMAIN job = Jobs /\ DOMAIN used = Jobs
    /\ \A j \in Jobs : JobSound(j)

LEMMA NetworkStarts == ASSUME NetworkAssumption, NetworkInit PROVE NetworkInv
<1> USE DEF NetworkInit
<1>1. NetworkTypeOK
  BY DEF NetworkTypeOK, NetworkAssumption, NoCredential, Containers
<1>2. \A j \in Jobs : JobSound(j)
  BY DEF JobSound, FrozenSoundly, NewJob, NoUse
<1> QED
  BY <1>1, <1>2 DEF NetworkInv, ContentsWritten, NetworkAssumption, NoCredential

\* A job goes on to `next` while its uses stay.
LEMMA JobMoves ==
    ASSUME NetworkInv, NEW j \in Jobs, NEW next,
           job' = [job EXCEPT ![j] = next], UNCHANGED <<settings, role, automatic, used>>,
           used[j] # NoUse => next = job[j],
           next.pc \in {"prepared", "frozen"} =>
                \/ next.cookie.source = "none" /\ next.content = 0
                \/ next.cookie.source # "none" /\ next.cookie.version.content = next.content,
           next.pc \in {"submitted", "refreshing", "ready", "prepared", "frozen"} =>
                FormatAccepted(next.format)
    PROVE  /\ DOMAIN job' = Jobs /\ DOMAIN used' = Jobs
           /\ \A k \in Jobs : JobSound(k)'
<1>1. DOMAIN job' = Jobs /\ DOMAIN used' = Jobs /\ job'[j] = next
  BY DEF NetworkInv
<1>2. \A k \in Jobs \ {j} : job'[k] = job[k] /\ used'[k] = used[k]
  BY DEF NetworkInv
<1>3. JobSound(j)'
  BY <1>1 DEF NetworkInv, JobSound, FrozenSoundly, NoUse
<1>4. \A k \in Jobs \ {j} : JobSound(k)'
  BY <1>2 DEF NetworkInv, JobSound, FrozenSoundly
<1> QED
  BY <1>1, <1>3, <1>4

\* The rows and the surroundings of a step that leaves the jobs alone.
LEMMA RowsKeep ==
    ASSUME NetworkInv, UNCHANGED <<job, used>>, NetworkTypeOK', ContentsWritten'
    PROVE  NetworkInv'
BY DEF NetworkInv, JobSound, FrozenSoundly

\* The steps of a submission that write no row.
SubmissionStep(j) ==
    \/ AuthorizeSubmission(j) \/ SubmitPreferred(j) \/ NoRefresh(j) \/ SnapshotForRefresh(j)
    \/ RefreshFails(j) \/ AdmitNetwork(j)

LEMMA SubmissionsKeep ==
    ASSUME NetworkAssumption, NetworkInv, NEW j \in Jobs, SubmissionStep(j) PROVE NetworkInv'
<1>1. UNCHANGED <<personal, pool, written, settings, role, automatic, used>>
  BY DEF SubmissionStep, AuthorizeSubmission, SubmitPreferred, NoRefresh, SnapshotForRefresh, RefreshFails, AdmitNetwork
<1>2. NetworkTypeOK' /\ ContentsWritten'
  BY <1>1 DEF NetworkInv, NetworkTypeOK, ContentsWritten
<1>3. JobSound(j)
  BY DEF NetworkInv
<1>4. job[j].pc # "frozen" => used[j] = NoUse
  BY <1>3 DEF JobSound
<1>5. ASSUME job[j].pc # "frozen", job' = [job EXCEPT ![j] = [pc |-> "refused"]] PROVE NetworkInv'
  BY <1>1, <1>2, <1>4, <1>5, JobMoves DEF NetworkInv
<1>6. CASE AuthorizeSubmission(j)
  <2>1. job[j].pc # "frozen"
    BY <1>6 DEF AuthorizeSubmission, NewJob
  <2>2. CASE job' = [job EXCEPT ![j] = [pc |-> "authorized", by |-> Identity]]
    BY <1>1, <1>2, <1>4, <2>1, <2>2, JobMoves DEF NetworkInv
  <2> QED
    BY <1>5, <1>6, <2>1, <2>2 DEF AuthorizeSubmission
<1>7. CASE SubmitPreferred(j)
  <2>1. PICK opus \in BOOLEAN :
            job' = [job EXCEPT ![j] =
                       IF FormatResolves(opus)
                       THEN [pc |-> "submitted", by |-> job[j].by, format |-> <<settings.container, opus>>]
                       ELSE [pc |-> "refused"]]
    BY <1>7 DEF SubmitPreferred
  <2>2. FormatResolves(opus) => FormatAccepted(<<settings.container, opus>>)
    BY DEF FormatResolves, FormatAccepted
  <2>3. used[j] = NoUse /\ job[j].pc # "frozen"
    BY <1>4, <1>7 DEF SubmitPreferred
  <2>4. CASE FormatResolves(opus)
    BY <1>1, <1>2, <2>1, <2>2, <2>3, <2>4, JobMoves DEF NetworkInv
  <2>5. CASE ~FormatResolves(opus)
    BY <1>5, <2>1, <2>3, <2>5
  <2> QED
    BY <2>4, <2>5
<1>8. CASE NoRefresh(j)
  <2>1. job' = [job EXCEPT ![j] = Ready(j)] /\ job[j].pc = "submitted"
    BY <1>8 DEF NoRefresh
  <2>2. FormatAccepted(job[j].format)
    BY <1>3, <2>1 DEF JobSound
  <2>3. Ready(j).pc = "ready" /\ Ready(j).format = job[j].format
    BY DEF Ready
  <2> QED
    BY <1>1, <1>2, <1>4, <2>1, <2>2, <2>3, JobMoves DEF NetworkInv
<1>9. CASE SnapshotForRefresh(j)
  <2>1. job[j].pc = "submitted"
    BY <1>9 DEF SnapshotForRefresh
  <2>2. FormatAccepted(job[j].format)
    BY <1>3, <2>1 DEF JobSound
  <2>3. CASE job' = [job EXCEPT ![j] = [pc |-> "refreshing", read |-> personal, role |-> role, by |-> job[j].by,
                                        format |-> job[j].format]]
    BY <1>1, <1>2, <1>4, <2>1, <2>2, <2>3, JobMoves DEF NetworkInv
  <2> QED
    BY <1>5, <1>9, <2>1, <2>3 DEF SnapshotForRefresh
<1>10. CASE RefreshFails(j)
  BY <1>5, <1>10 DEF RefreshFails
<1>11. CASE AdmitNetwork(j)
  <2>1. job[j].pc = "prepared"
    BY <1>11 DEF AdmitNetwork
  <2>2. FormatAccepted(job[j].format) /\ FrozenSoundly(j)
    BY <1>3, <2>1 DEF JobSound
  <2>3. CASE job' = [job EXCEPT ![j] = [pc |-> "refused"]]
    BY <1>5, <2>1, <2>3
  <2>4. CASE job' = [job EXCEPT ![j] = [job[j] EXCEPT !.pc = "frozen"]]
    <3> DEFINE next == [job[j] EXCEPT !.pc = "frozen"]
    <3>1. next.cookie = job[j].cookie /\ next.content = job[j].content /\ next.format = job[j].format
      OBVIOUS
    <3> HIDE DEF next
    <3> QED
      BY <1>1, <1>2, <1>4, <2>1, <2>2, <2>4, <3>1, JobMoves DEF NetworkInv, FrozenSoundly, next
  <2> QED
    BY <1>11, <2>3, <2>4 DEF AdmitNetwork
<1> QED
  BY <1>6, <1>7, <1>8, <1>9, <1>10, <1>11 DEF SubmissionStep

\* The refreshed credential is a content nobody has written before.
LEMMA RefreshKeeps ==
    ASSUME NetworkAssumption, NetworkInv, NEW j \in Jobs, Refresh(j) PROVE NetworkInv'
<1>1. JobSound(j) /\ job[j].pc = "refreshing" /\ used[j] = NoUse
  BY DEF NetworkInv, JobSound, Refresh
<1>2. FormatAccepted(job[j].format)
  BY <1>1 DEF JobSound
<1>3. UNCHANGED <<pool, moment, settings, role, automatic, changes, used>>
  BY DEF Refresh
<1>4. CASE SameRow(job[j].read) /\ role = job[j].role /\ settings.oauth
  <2>1. written' = written + 1 /\ personal'.content = written' /\ "content" \in DOMAIN personal'
        /\ job' = [job EXCEPT ![j] = Ready(j)]
    BY <1>4 DEF Refresh, CredentialRow
  <2>5. Ready(j).pc = "ready" /\ Ready(j).format = job[j].format
    BY DEF Ready
  <2>2. written < MaxContents /\ written \in 0 .. MaxContents /\ MaxContents \in Nat
    BY DEF Refresh, NetworkInv, ContentsWritten, NetworkAssumption
  <2>3. written' \in 0 .. MaxContents /\ pool.content \in 0 .. written'
    BY <2>1, <2>2 DEF NetworkInv, ContentsWritten
  <2>4. NetworkTypeOK' /\ ContentsWritten'
    BY <1>3, <2>1, <2>2, <2>3 DEF NetworkInv, NetworkTypeOK, ContentsWritten
  <2> QED
    BY <1>1, <1>2, <1>3, <2>1, <2>4, <2>5, JobMoves DEF NetworkInv
<1>5. CASE ~(SameRow(job[j].read) /\ role = job[j].role /\ settings.oauth)
  <2>1. job' = [job EXCEPT ![j] = [pc |-> "refused"]] /\ UNCHANGED <<personal, written>>
    BY <1>5 DEF Refresh
  <2>2. NetworkTypeOK' /\ ContentsWritten'
    BY <1>3, <2>1 DEF NetworkInv, NetworkTypeOK, ContentsWritten
  <2> QED
    BY <1>1, <1>3, <2>1, <2>2, JobMoves DEF NetworkInv
<1> QED
  BY <1>4, <1>5

\* What is frozen is the version of one row together with its content.
LEMMA PrepareKeeps ==
    ASSUME NetworkAssumption, NetworkInv, NEW j \in Jobs, PrepareNetwork(j) PROVE NetworkInv'
<1>1. JobSound(j) /\ job[j].pc = "ready" /\ used[j] = NoUse
  BY DEF NetworkInv, JobSound, PrepareNetwork
<1>2. FormatAccepted(job[j].format)
  BY <1>1 DEF JobSound
<1>3. UNCHANGED <<personal, pool, written, moment, settings, role, automatic, changes, used>>
  BY DEF PrepareNetwork
<1>4. NetworkTypeOK' /\ ContentsWritten'
  BY <1>3 DEF NetworkInv, NetworkTypeOK, ContentsWritten
<1>5. CASE job' = [job EXCEPT ![j] = Frozen(j, [source |-> "none"], 0)]
  <2>1. Frozen(j, [source |-> "none"], 0).cookie.source = "none"
        /\ Frozen(j, [source |-> "none"], 0).content = 0
        /\ Frozen(j, [source |-> "none"], 0).format = job[j].format
    BY DEF Frozen
  <2> QED
    BY <1>1, <1>2, <1>3, <1>4, <1>5, <2>1, JobMoves DEF NetworkInv
<1>6. ASSUME NEW s \in Candidates(job[j].by),
             job' = [job EXCEPT ![j] = Frozen(j, [source |-> s, version |-> Version(Source(s))],
                                              Source(s).content)]
      PROVE  NetworkInv'
  <2> DEFINE next == Frozen(j, [source |-> s, version |-> Version(Source(s))], Source(s).content)
  <2>1. s \in {"personal", "pool"}
    BY DEF Candidates
  <2>2. /\ next.cookie.source # "none" /\ next.cookie.version.content = next.content
        /\ next.format = job[j].format
    BY <2>1 DEF Frozen, Version
  <2> HIDE DEF next
  <2> QED
    BY <1>1, <1>2, <1>3, <1>4, <1>6, <2>2, JobMoves DEF NetworkInv, next
<1>7. CASE job' = [job EXCEPT ![j] = [pc |-> "refused"]]
  BY <1>1, <1>3, <1>4, <1>7, JobMoves DEF NetworkInv
<1> QED
  BY <1>5, <1>6, <1>7 DEF PrepareNetwork

\* An attempt runs with what its reference names, which is what was frozen.
LEMMA ResolveKeeps ==
    ASSUME NetworkInv, NEW j \in Jobs, AuthorizeAttempt(j) \/ Resolve(j) \/ ResolveRefused(j) PROVE NetworkInv'
<1>1. UNCHANGED <<personal, pool, written, moment, settings, role, automatic, changes, job>>
  BY DEF AuthorizeAttempt, Resolve, ResolveRefused
<1>2. NetworkTypeOK' /\ ContentsWritten'
  BY <1>1 DEF NetworkInv, NetworkTypeOK, ContentsWritten
<1>3. \A k \in Jobs \ {j} : used'[k] = used[k]
  BY DEF AuthorizeAttempt, Resolve, ResolveRefused, NetworkInv
<1>4. JobSound(j) /\ job[j].pc = "frozen"
  BY DEF NetworkInv, JobSound, NoUse, AuthorizeAttempt, Resolve, ResolveRefused
<1>5. CASE Resolve(j)
  <2> DEFINE u == WorkerRequest(j)
  <2>1. used'[j] = u /\ RouteHolds(job[j].proxy) /\ CookieHolds(job[j].cookie, used[j].by)
    BY <1>5 DEF Resolve, NetworkInv
  <2>2. /\ u.pc = "ran" /\ u.proxy = u.due /\ u.format = job[j].format
        /\ u.shared => u.wanted /\ u.as = "admin"
        /\ u.content = IF job[j].cookie.source = "none" THEN 0 ELSE Source(job[j].cookie.source).content
    BY <2>1 DEF WorkerRequest, RouteHolds, CookieHolds, PoolAllowed
  <2>4. u.content = job[j].content
    BY <1>4, <2>1, <2>2 DEF CookieHolds, JobSound, FrozenSoundly, Version
  <2> HIDE DEF u
  <2>5. JobSound(j)'
    BY <1>1, <1>4, <2>1, <2>2, <2>4 DEF JobSound, FrozenSoundly
  <2> QED
    BY <1>1, <1>2, <1>3, <1>5, <2>5 DEF NetworkInv, JobSound, FrozenSoundly, Resolve
<1>6. CASE used'[j].pc # "ran" /\ ~Resolve(j)
  <2>1. JobSound(j)'
    BY <1>1, <1>4, <1>6 DEF JobSound, FrozenSoundly
  <2>2. DOMAIN used' = Jobs
    BY <1>6 DEF AuthorizeAttempt, ResolveRefused, NetworkInv
  <2> QED
    BY <1>1, <1>2, <1>3, <2>1, <2>2 DEF NetworkInv, JobSound, FrozenSoundly
<1>7. ~Resolve(j) => used'[j].pc # "ran"
  BY DEF AuthorizeAttempt, ResolveRefused, NoUse, NetworkInv
<1> QED
  BY <1>5, <1>6, <1>7

LEMMA WritersKeep ==
    ASSUME NetworkAssumption, NetworkInv,
           \/ \E oauth \in BOOLEAN : WritePersonal(oauth)
           \/ WritePool \/ RemovePersonal \/ MarkPersonal
    PROVE  NetworkInv'
<1>1. UNCHANGED <<settings, role, automatic, job, used>>
  BY DEF WritePersonal, WritePool, RemovePersonal, MarkPersonal
<1>2. written \in 0 .. MaxContents /\ MaxContents \in Nat /\ "content" \in DOMAIN personal
  BY DEF NetworkInv, ContentsWritten, NetworkAssumption
<1>3. /\ written' \in 0 .. MaxContents /\ written <= written'
      /\ personal'.content \in {personal.content, 0, written'}
      /\ "content" \in DOMAIN personal'
      /\ pool'.content \in {pool.content, 0, written'}
  <2>1. CASE \E oauth \in BOOLEAN : WritePersonal(oauth)
    BY <1>2, <2>1 DEF WritePersonal, CredentialRow
  <2>2. CASE WritePool
    BY <1>2, <2>2 DEF WritePool, CredentialRow
  <2>3. CASE RemovePersonal
    BY <1>2, <2>3 DEF RemovePersonal, NoCredential
  <2>4. CASE MarkPersonal
    BY <1>2, <2>4 DEF MarkPersonal
  <2> QED
    BY <2>1, <2>2, <2>3, <2>4
<1>4. ContentsWritten'
  BY <1>2, <1>3 DEF NetworkInv, ContentsWritten
<1>5. NetworkTypeOK'
  BY <1>1, <1>2, <1>4 DEF NetworkInv, NetworkTypeOK, ContentsWritten
<1> QED
  BY <1>1, <1>4, <1>5, RowsKeep

LEMMA ChoicesKeep ==
    ASSUME NetworkInv, ChangeSettings \/ ChangeRole \/ MomentPasses PROVE NetworkInv'
<1>1. UNCHANGED <<personal, pool, written, automatic, job, used>>
  BY DEF ChangeSettings, ChangeRole, MomentPasses
<1>2. settings \in ProfileSettings /\ role \in {"user", "admin", "banned"}
  BY DEF NetworkInv, NetworkTypeOK, ProfileSettings
<1>3. role' \in {"user", "admin", "banned"}
  BY <1>2 DEF ChangeSettings, ChangeRole, MomentPasses
<1>4. settings' \in ProfileSettings
  <2>1. CASE ChangeSettings
    BY <1>2, <2>1 DEF ChangeSettings, ProfileSettings
  <2>2. CASE ChangeRole \/ MomentPasses
    BY <1>2, <2>2 DEF ChangeRole, MomentPasses
  <2> QED
    BY <2>1, <2>2, <1>1 DEF ChangeSettings, ChangeRole, MomentPasses
<1>5. NetworkTypeOK' /\ ContentsWritten'
  BY <1>1, <1>3, <1>4 DEF NetworkInv, NetworkTypeOK, ContentsWritten, ProfileSettings
<1> QED
  BY <1>1, <1>5, RowsKeep

LEMMA NetworkKeeps ==
    ASSUME NetworkAssumption, NetworkInv, [NetworkNext]_networkVars PROVE NetworkInv'
<1>1. CASE UNCHANGED networkVars
  BY <1>1 DEF networkVars, NetworkInv, NetworkTypeOK, ContentsWritten, JobSound, FrozenSoundly
<1>2. CASE NetworkNext
  BY <1>2, SubmissionsKeep, RefreshKeeps, PrepareKeeps, ResolveKeeps, WritersKeep, ChoicesKeep DEF NetworkNext, SubmissionStep
<1> QED
  BY <1>1, <1>2

\* Every attempt runs with what was frozen at admission, over the route that is due when
\* it resolves its references, and with a shared cookie only as a user who was allowed one
\* when the attempt was authorized (process_claim, prepare_network, resolve).
THEOREM AttemptsRunAsFrozen == ASSUME NetworkAssumption PROVE NetworkSpec => []RunsAsFrozen
<1>1. NetworkInit => NetworkInv
  BY NetworkStarts
<1>2. NetworkInv /\ [NetworkNext]_networkVars => NetworkInv'
  BY NetworkKeeps
<1>3. NetworkInv => RunsAsFrozen
  <2> SUFFICES ASSUME NetworkInv, NEW j \in Jobs, used[j].pc = "ran"
               PROVE  /\ used[j].content = job[j].content /\ used[j].proxy = used[j].due
                      /\ used[j].shared => used[j].wanted /\ used[j].as = "admin"
                      /\ used[j].format = job[j].format /\ (used[j].format[1] = "webm" => used[j].format[2])
    BY DEF RunsAsFrozen, NetworkInv
  <2>1. JobSound(j) /\ used[j] # NoUse
    BY DEF NetworkInv, NoUse
  <2> QED
    BY <2>1 DEF JobSound, FormatAccepted
<1> QED
  BY <1>1, <1>2, <1>3, PTL DEF NetworkSpec

-----------------------------------------------------------------------------
(* The content policy.  A listing is never newer than the rules, so that   *)
(* the one with their revision is the rules; a unit is judged by what the  *)
(* policy says in that very step.                                          *)

\* A row of nsfw_domains or nsfw_keywords.
IsRule(r) == r = [id |-> r.id, kind |-> r.kind, value |-> r.value]

RulesAreRows ==
    /\ lastRuleId \in Nat
    /\ \A r \in rules : IsRule(r) /\ r.id \in 1 .. lastRuleId /\ r.kind \in RuleKinds
    /\ Compiles(rules)

ListingsAreOld ==
    \A e \in Moderators :
        /\ listing[e].revision \in Int /\ listing[e].revision <= rulesRevision
        /\ listing[e].revision = rulesRevision => listing[e].rows = rules

DeliveryRows ==
    [chat : {"group", "private"}, host : Hosts, words : {{}, {"k"}}, force : BOOLEAN,
     sent : 0 .. 2, at : {"between", "judged", "stopped", "done"}, verdict : Verdicts]

\* What the history says of a unit that is about to be sent.
UnitIsJudged(d) ==
    /\ delivery[d].at \in {"between", "judged"} => delivery[d].sent < 2
    /\ delivery[d].at = "judged" =>
          delivery[d].verdict \in held[d] /\ delivery[d].verdict \notin {"blocked", "unavailable"}

PolicyInv ==
    /\ RulesAreRows /\ ListingsAreOld
    /\ DOMAIN listing = Moderators
    /\ rulesRevision \in 0 .. MaxRuleEdits
    /\ group \in {"allows", "refuses", "gone"} /\ blur \in BOOLEAN
    /\ moderates \subseteq Moderators
    /\ policyMoves \in 0 .. MaxPolicyMoves
    /\ delivery \in [Judged -> DeliveryRows] /\ held \in [Judged -> SUBSET Verdicts]
    /\ \A d \in Judged : UnitIsJudged(d)

LEMMA PolicyIsEnough == ASSUME PolicyInv PROVE PolicyHolds
<1>1. \A d \in Judged : delivery[d] \in DeliveryRows
  BY DEF PolicyInv
<1>2. PolicyTypeOK
  BY <1>1 DEF PolicyInv, PolicyTypeOK, RulesAreRows, DeliveryRows
<1> QED
  BY <1>2 DEF PolicyInv, RulesAreRows, ListingsAreOld, UnitIsJudged, PolicyHolds

LEMMA VerdictsAreVerdicts == \A rows, g, b, d : Verdict(rows, g, b, d) \in Verdicts
BY DEF Verdict, Verdicts

LEMMA NoRulesCompile == ASSUME PolicyAssumption PROVE Compiles({})
<1>1. \A k \in RuleKinds : {r \in {} : r.kind = k} = {}
  OBVIOUS
<1> QED
  BY <1>1, FS_EmptySet DEF Compiles, PolicyAssumption

LEMMA PolicyStarts == ASSUME PolicyAssumption, PolicyInit PROVE PolicyInv
<1>1. RulesAreRows
  BY NoRulesCompile DEF PolicyInit, RulesAreRows
<1>2. ListingsAreOld /\ DOMAIN listing = Moderators
  BY DEF PolicyInit, ListingsAreOld, NoListing
<1>3. delivery \in [Judged -> DeliveryRows] /\ \A d \in Judged : delivery[d].at = "between" /\ delivery[d].sent = 0
  <2> DEFINE fresh == [chat : {"group", "private"}, host : Hosts, words : {{}, {"k"}}, force : BOOLEAN,
                       sent : {0}, at : {"between"}, verdict : {"plain"}]
  <2>1. delivery \in [Judged -> fresh]
    BY DEF PolicyInit
  <2>2. \A x \in fresh : x \in DeliveryRows /\ x.at = "between" /\ x.sent = 0
    BY DEF DeliveryRows, Verdicts
  <2> HIDE DEF fresh
  <2> QED
    BY <2>1, <2>2
<1>4. held \in [Judged -> SUBSET Verdicts]
  <2>1. held = [d \in Judged |-> {Verdict(rules, group, blur, delivery[d])}]
    BY DEF PolicyInit, VerdictNow
  <2>2. \A d \in Judged : Verdict(rules, group, blur, delivery[d]) \in Verdicts
    BY VerdictsAreVerdicts
  <2> QED
    BY <2>1, <2>2
<1> QED
  BY <1>1, <1>2, <1>3, <1>4 DEF PolicyInv, PolicyInit, PolicyAssumption, UnitIsJudged

\* The history of a delivery starts again with the policy of this step.
HeldAfter(d) == {Verdict(rules', group', blur', delivery[d])}
                    \cup IF delivery'[d].sent # delivery[d].sent THEN {} ELSE held[d]

LEMMA HeldKeeps ==
    ASSUME PolicyInv, held' = [d \in Judged |-> HeldAfter(d)]
    PROVE  held' \in [Judged -> SUBSET Verdicts]
BY VerdictsAreVerdicts DEF PolicyInv, HeldAfter

\* A step that leaves the deliveries alone leaves their verdicts held.
LEMMA UnitsStay ==
    ASSUME PolicyInv, held' = [d \in Judged |-> HeldAfter(d)], delivery' = delivery
    PROVE  \A d \in Judged : UnitIsJudged(d)'
<1>1. \A d \in Judged : held[d] \subseteq held'[d]
  BY DEF HeldAfter
<1> QED
  BY <1>1 DEF PolicyInv, UnitIsJudged

\* What an accepted edit leaves behind: the revision goes up, so that no listing
\* has it.
LEMMA EditKeeps ==
    ASSUME PolicyAssumption, PolicyInv, held' = [d \in Judged |-> HeldAfter(d)],
           NEW e \in Moderators, NEW rows, NEW versioned \in BOOLEAN, Edit(e, rows, versioned),
           lastRuleId' \in Nat,
           \A r \in rows : IsRule(r) /\ r.id \in 1 .. lastRuleId' /\ r.kind \in RuleKinds
    PROVE  PolicyInv'
<1>1. /\ rules' = rows /\ rulesRevision' = rulesRevision + 1 /\ rulesRevision < MaxRuleEdits
      /\ Compiles(rows)
      /\ UNCHANGED <<group, blur, moderates, listing, delivery, policyMoves>>
  BY DEF Edit, EditAccepted, AdvanceRevision
<1>2. RulesAreRows'
  BY <1>1 DEF RulesAreRows
<1>3. rulesRevision \in 0 .. MaxRuleEdits /\ MaxRuleEdits \in Nat
  BY DEF PolicyInv, PolicyAssumption
<1>4. ListingsAreOld'
  BY <1>1, <1>3 DEF PolicyInv, ListingsAreOld
<1> QED
  BY <1>1, <1>2, <1>3, <1>4, HeldKeeps, UnitsStay DEF PolicyInv

LEMMA AddKeeps ==
    ASSUME PolicyAssumption, PolicyInv, held' = [d \in Judged |-> HeldAfter(d)],
           NEW e \in Moderators, NEW kind \in RuleKinds, NEW value, NEW versioned \in BOOLEAN,
           AddRule(e, kind, value, versioned)
    PROVE  PolicyInv'
<1> DEFINE added == [id |-> lastRuleId + 1, kind |-> kind, value |-> Normalize(kind, value)]
           rows == rules \cup {added}
<1>1. lastRuleId' = lastRuleId + 1 /\ lastRuleId \in Nat /\ Edit(e, rows, versioned)
  BY DEF AddRule, PolicyInv, RulesAreRows
<1>2. IsRule(added) /\ added.id = lastRuleId' /\ added.kind \in RuleKinds
  BY <1>1 DEF IsRule
<1>3. \A r \in rules : IsRule(r) /\ r.id \in 1 .. lastRuleId' /\ r.kind \in RuleKinds
  BY <1>1 DEF PolicyInv, RulesAreRows
<1>4. \A r \in rows : IsRule(r) /\ r.id \in 1 .. lastRuleId' /\ r.kind \in RuleKinds
  BY <1>1, <1>2, <1>3
<1> QED
  BY <1>1, <1>4, EditKeeps

LEMMA UpdateKeeps ==
    ASSUME PolicyAssumption, PolicyInv, held' = [d \in Judged |-> HeldAfter(d)],
           NEW e \in Moderators, NEW old \in rules, NEW value, NEW versioned \in BOOLEAN,
           UpdateRule(e, old, value, versioned)
    PROVE  PolicyInv'
<1> DEFINE added == [old EXCEPT !.value = Normalize(old.kind, value)]
           rows == (rules \ {old}) \cup {added}
<1>1. lastRuleId' = lastRuleId /\ Edit(e, rows, versioned)
  BY DEF UpdateRule
<1>2. \A r \in rules : IsRule(r) /\ r.id \in 1 .. lastRuleId' /\ r.kind \in RuleKinds
  BY <1>1 DEF PolicyInv, RulesAreRows
<1>3. added = [id |-> old.id, kind |-> old.kind, value |-> Normalize(old.kind, value)]
  <2>1. old = [id |-> old.id, kind |-> old.kind, value |-> old.value]
    BY <1>2 DEF IsRule
  <2>2. \A a, b, c, v : [[id |-> a, kind |-> b, value |-> c] EXCEPT !.value = v]
                            = [id |-> a, kind |-> b, value |-> v]
    OBVIOUS
  <2> QED
    BY <2>1, <2>2
<1>4. IsRule(added) /\ added.id \in 1 .. lastRuleId' /\ added.kind \in RuleKinds
  BY <1>2, <1>3 DEF IsRule
<1>5. \A r \in rows : IsRule(r) /\ r.id \in 1 .. lastRuleId' /\ r.kind \in RuleKinds
  BY <1>2, <1>4
<1> QED
  BY <1>1, <1>5, EditKeeps DEF PolicyInv, RulesAreRows

LEMMA DeleteKeeps ==
    ASSUME PolicyAssumption, PolicyInv, held' = [d \in Judged |-> HeldAfter(d)],
           NEW e \in Moderators, NEW old \in rules, NEW versioned \in BOOLEAN,
           DeleteRule(e, old, versioned)
    PROVE  PolicyInv'
BY EditKeeps DEF DeleteRule, PolicyInv, RulesAreRows

\* An import numbers the rules it adds from the last identifier on.
LEMMA ImportKeeps ==
    ASSUME PolicyAssumption, PolicyInv, held' = [d \in Judged |-> HeldAfter(d)],
           NEW e \in Moderators, NEW domain, NEW keyword, NEW versioned \in BOOLEAN,
           ImportRules(e, domain, keyword, versioned)
    PROVE  PolicyInv'
<1> DEFINE new == {[kind |-> "domain", value |-> Normalize("domain", domain)],
                   [kind |-> "keyword", value |-> keyword]}
           absent == {n \in new : \A r \in rules : r.kind # n.kind \/ r.value # n.value}
           id(n) == lastRuleId + IF n.kind = "domain" THEN 1 ELSE Cardinality(absent)
           rows == rules \cup {[id |-> id(n), kind |-> n.kind, value |-> n.value] : n \in absent}
<1>1. lastRuleId' = lastRuleId + Cardinality(absent) /\ Edit(e, rows, versioned)
  BY DEF ImportRules
<1>2. lastRuleId \in Nat
  BY DEF PolicyInv, RulesAreRows
<1>3. IsFiniteSet(absent)
  <2>1. IsFiniteSet(new)
    <3> DEFINE a == [kind |-> "domain", value |-> Normalize("domain", domain)]
               b == [kind |-> "keyword", value |-> keyword]
    <3>1. IsFiniteSet({a}) /\ new = {a} \cup {b}
      BY FS_Singleton
    <3> HIDE DEF a, b, new
    <3>2. IsFiniteSet({a} \cup {b})
      BY <3>1, FS_AddElement
    <3> QED
      BY <3>1, <3>2
  <2>2. absent \subseteq new
    OBVIOUS
  <2> QED
    BY <2>1, <2>2, FS_Subset
<1>4. Cardinality(absent) \in Nat /\ (absent # {} => Cardinality(absent) >= 1)
  BY <1>3, FS_CardinalityType, FS_EmptySet
<1>5. \A n \in absent : id(n) \in 1 .. lastRuleId' /\ n.kind \in RuleKinds
  <2> SUFFICES ASSUME NEW n \in absent PROVE id(n) \in 1 .. lastRuleId' /\ n.kind \in RuleKinds
    OBVIOUS
  <2>1. Cardinality(absent) >= 1
    BY <1>4
  <2>2. n.kind \in RuleKinds
    BY DEF RuleKinds
  <2> HIDE DEF absent
  <2> QED
    BY <1>1, <1>2, <1>4, <2>1, <2>2
<1> HIDE DEF absent
<1>6. \A r \in rules : IsRule(r) /\ r.id \in 1 .. lastRuleId' /\ r.kind \in RuleKinds
  BY <1>1, <1>2, <1>4 DEF PolicyInv, RulesAreRows
<1> HIDE DEF id
<1>7. \A r \in rows : IsRule(r) /\ r.id \in 1 .. lastRuleId' /\ r.kind \in RuleKinds
  BY <1>5, <1>6 DEF IsRule
<1> HIDE DEF rows
<1> QED
  BY <1>1, <1>2, <1>4, <1>7, EditKeeps

LEMMA PolicySurroundingsKeep ==
    ASSUME PolicyAssumption, PolicyInv, held' = [d \in Judged |-> HeldAfter(d)],
           \/ \E e \in Moderators : ListRules(e) \/ ModeratorLeaves(e)
           \/ GroupChanges \/ BlurChanges
    PROVE  PolicyInv'
<1>1. UNCHANGED <<rules, rulesRevision, lastRuleId, delivery>>
  BY DEF ListRules, ModeratorLeaves, GroupChanges, BlurChanges
<1>2. RulesAreRows'
  BY <1>1 DEF PolicyInv, RulesAreRows
<1>3. ListingsAreOld' /\ DOMAIN listing' = Moderators
  <2>1. CASE \E e \in Moderators : ListRules(e)
    <3>1. rulesRevision \in Int
      BY DEF PolicyInv
    <3> QED
      BY <1>1, <2>1, <3>1 DEF ListRules, PolicyInv, ListingsAreOld
  <2>2. CASE ~\E e \in Moderators : ListRules(e)
    <3>1. listing' = listing
      BY <2>2 DEF ModeratorLeaves, GroupChanges, BlurChanges
    <3> QED
      BY <1>1, <3>1 DEF PolicyInv, ListingsAreOld
  <2> QED
    BY <2>1, <2>2
<1>4. /\ group' \in {"allows", "refuses", "gone"} /\ blur' \in BOOLEAN
      /\ moderates' \subseteq Moderators /\ policyMoves' \in 0 .. MaxPolicyMoves
  <2>1. group \in {"allows", "refuses", "gone"} /\ blur \in BOOLEAN /\ moderates \subseteq Moderators
        /\ policyMoves \in 0 .. MaxPolicyMoves /\ MaxPolicyMoves \in Nat
    BY DEF PolicyInv, PolicyAssumption
  <2>2. CASE GroupChanges
    BY <2>1, <2>2 DEF GroupChanges
  <2>3. CASE BlurChanges
    BY <2>1, <2>3 DEF BlurChanges
  <2>4. CASE \E e \in Moderators : ListRules(e) \/ ModeratorLeaves(e)
    BY <2>1, <2>4 DEF ListRules, ModeratorLeaves
  <2> QED
    BY <2>2, <2>3, <2>4
<1>5. delivery' \in [Judged -> DeliveryRows] /\ rulesRevision' \in 0 .. MaxRuleEdits
  BY <1>1 DEF PolicyInv
<1> QED
  BY <1>1, <1>2, <1>3, <1>4, <1>5, HeldKeeps, UnitsStay DEF PolicyInv

\* The verdict of this step is the one the history takes in.
LEMMA UnitsKeep ==
    ASSUME PolicyAssumption, PolicyInv, held' = [d \in Judged |-> HeldAfter(d)],
           NEW d \in Judged, JudgeUnit(d) \/ SendJudged(d)
    PROVE  PolicyInv'
<1>1. UNCHANGED <<rules, rulesRevision, lastRuleId, group, blur, moderates, listing, policyMoves>>
  BY DEF JudgeUnit, SendJudged
<1>2. RulesAreRows' /\ ListingsAreOld'
  BY <1>1 DEF PolicyInv, RulesAreRows, ListingsAreOld
<1> DEFINE v == Verdict(rules, group, blur, delivery[d])
<1>3. v \in Verdicts /\ delivery[d] \in DeliveryRows /\ UnitIsJudged(d)
  BY VerdictsAreVerdicts DEF PolicyInv
<1> HIDE DEF v
<1>4. \A x \in Judged \ {d} : UnitIsJudged(x)' /\ delivery'[x] = delivery[x]
  <2> SUFFICES ASSUME NEW x \in Judged, x # d PROVE UnitIsJudged(x)' /\ delivery'[x] = delivery[x]
    OBVIOUS
  <2>1. delivery'[x] = delivery[x]
    BY DEF JudgeUnit, SendJudged, PolicyInv
  <2>2. held[x] \subseteq held'[x]
    BY <2>1 DEF HeldAfter
  <2> QED
    BY <2>1, <2>2 DEF PolicyInv, UnitIsJudged
<1>5. DOMAIN delivery' = Judged /\ delivery' \in [Judged -> {delivery'[x] : x \in Judged}]
  BY DEF JudgeUnit, SendJudged, PolicyInv
<1>6. UnitIsJudged(d)' /\ delivery'[d] \in DeliveryRows
  <2>1. CASE JudgeUnit(d)
    <3>1. delivery'[d] = [delivery[d] EXCEPT !.verdict = v,
                              !.at = IF v \in {"blocked", "unavailable"} THEN "stopped" ELSE "judged"]
      BY <2>1 DEF JudgeUnit, Judge, VerdictNow, v, PolicyInv
    <3>2. delivery'[d] \in DeliveryRows /\ delivery'[d].sent = delivery[d].sent /\ delivery'[d].verdict = v
          /\ delivery'[d].at = IF v \in {"blocked", "unavailable"} THEN "stopped" ELSE "judged"
      BY <1>3, <3>1 DEF DeliveryRows
    <3>3. v \in held'[d]
      BY <1>1 DEF HeldAfter, v
    <3>4. delivery[d].sent < 2
      BY <1>3, <2>1 DEF UnitIsJudged, JudgeUnit
    <3> QED
      BY <3>2, <3>3, <3>4 DEF UnitIsJudged
  <2>2. CASE SendJudged(d)
    <3>1. delivery'[d] = [delivery[d] EXCEPT !.sent = @ + 1,
                              !.at = IF delivery[d].sent = 1 THEN "done" ELSE "between"]
      BY <2>2 DEF SendJudged, PolicyInv
    <3>2. delivery[d].sent < 2 /\ delivery[d].sent \in 0 .. 2
      BY <1>3, <2>2 DEF UnitIsJudged, SendJudged, DeliveryRows
    <3>3. delivery'[d] \in DeliveryRows /\ delivery'[d].sent = delivery[d].sent + 1
          /\ delivery'[d].at = IF delivery[d].sent = 1 THEN "done" ELSE "between"
      <4> DEFINE a == IF delivery[d].sent = 1 THEN "done" ELSE "between"
                 s == delivery[d].sent + 1
      <4>1. s \in 0 .. 2 /\ a \in {"done", "between"}
        BY <3>2
      <4>2. delivery'[d] = [delivery[d] EXCEPT !.sent = s, !.at = a]
        BY <3>1
      <4> HIDE DEF a, s
      <4>3. \A x \in DeliveryRows : LET y == [x EXCEPT !.sent = s, !.at = a] IN
               y \in DeliveryRows /\ y.sent = s /\ y.at = a
        BY <4>1 DEF DeliveryRows
      <4> QED
        BY <1>3, <4>2, <4>3 DEF a, s
    <3> QED
      BY <3>2, <3>3 DEF UnitIsJudged
  <2> QED
    BY <2>1, <2>2
<1>7. delivery' \in [Judged -> DeliveryRows]
  <2>1. \A x \in Judged : delivery'[x] \in DeliveryRows
    BY <1>4, <1>6 DEF PolicyInv
  <2> QED
    BY <1>5, <2>1
<1> QED
  BY <1>1, <1>2, <1>4, <1>6, <1>7, HeldKeeps DEF PolicyInv

LEMMA PolicyKeeps ==
    ASSUME PolicyAssumption, PolicyInv, [PolicyNext]_policyVars PROVE PolicyInv'
<1>1. CASE UNCHANGED policyVars
  BY <1>1 DEF policyVars, PolicyInv, RulesAreRows, ListingsAreOld, UnitIsJudged
<1>2. CASE PolicyNext
  <2>1. held' = [d \in Judged |-> HeldAfter(d)] /\ PolicyStep
    BY <1>2 DEF PolicyNext, HeldAfter
  <2>2. {"domain", "keyword"} \subseteq RuleKinds
    BY DEF RuleKinds
  <2> QED
    BY <2>1, <2>2, AddKeeps, UpdateKeeps, DeleteKeeps, ImportKeeps, PolicySurroundingsKeep, UnitsKeep
       DEF PolicyStep
<1> QED
  BY <1>1, <1>2

\* The rules can always be loaded, a versioned edit overwrites nothing its author has
\* not read, and every unit is sent as the policy said since the unit before it
\* (nsfw_mutate, nsfw_import, content_policy_for_request).
THEOREM PolicyAlwaysHolds == ASSUME PolicyAssumption PROVE PolicySpec => []PolicyHolds
BY PolicyStarts, PolicyKeeps, PolicyIsEnough, PTL DEF PolicySpec
-----------------------------------------------------------------------------
(* Credentials.  The cookie: whoever is heard after the watermark, or with *)
(* a token that was not used yet, is the last choice; a lookup writes only *)
(* the row it read.                                                        *)

\* A row of personal_cookies.
IsCookieRow(c) ==
    /\ c = [origin |-> c.origin, rotation |-> c.rotation, updated |-> c.updated, valid |-> c.valid]
    /\ c.rotation \in Nat /\ c.updated \in 0 .. seconds

CookieInv ==
    /\ cookie = NoCookie \/ IsCookieRow(cookie)
    /\ cookie.origin = chosen
    /\ DOMAIN lookup = Lookups
    /\ \A l \in Lookups : lookup[l].pc = "asking" => IsCookieRow(lookup[l].read)
    /\ watermark \in Messages \cup {0}
    /\ \A i \in heard \cap Messages : i <= watermark
    /\ token \in [Tokens -> {"unissued", "live", "gone"}]
    /\ \A t \in Tokens : token[t] # "gone" => t \notin heard
    /\ webWrites \in 0 .. MaxWebWrites

\* The rows and the polls of the device sessions.
SessionRows == [expires : Nat, next : Nat, generation : Nat, staged : BOOLEAN]
AcceptedRows == [pc : {"accepted"}, session : DeviceSessions, started : Nat]
AskedRows ==
    [pc : {"asking", "answered"}, session : DeviceSessions, started : Nat, generation : Nat,
     expires : Nat, answer : {"ready", "pending", "expired", "error", "none"}]

\* When the budget of a poll is over for certain.
Lease(p) == poll[p].started + Budget + 1

\* A poll that runs is within its budget, and until then the row of its session stays,
\* unless its success is staged: then the poll may find the row gone, and the success is excused.
PollSound(p) ==
    /\ poll[p].pc = "accepted" => poll[p] \in AcceptedRows
    /\ poll[p].pc \in {"asking", "answered"} => poll[p] \in AskedRows
    /\ p \in PollsRunning =>
          seconds <= poll[p].started + Budget /\ starting[poll[p].session] = "done"
    /\ poll[p].pc = "asking" => row[poll[p].session].expires >= Lease(p)
    /\ poll[p].pc = "answered" /\ poll[p].answer = "ready" =>
          \/ row[poll[p].session].expires >= Lease(p)
          \/ row[poll[p].session].staged \/ poll[p].session \in excused

SessionSound(s) ==
    /\ starting[s] # "done" => consent[s] = "waiting"
    /\ consent[s] = "taken" => Carries(s) \/ row[s].staged \/ s \in saved \cup excused

DeviceInv ==
    /\ DOMAIN poll = Polls /\ DOMAIN consent = DeviceSessions /\ DOMAIN starting = DeviceSessions
    /\ row \in [DeviceSessions -> SessionRows]
    /\ saved \cup excused \subseteq DeviceSessions
    /\ \A p \in Polls : PollSound(p)
    /\ \A p, q \in PollsRunning : poll[p].session = poll[q].session => p = q
    /\ \A s \in DeviceSessions : SessionSound(s)
    /\ Cardinality(Alive) <= SessionCap

CredentialsInv == seconds \in 0 .. MaxTime /\ CookieInv /\ DeviceInv

LEMMA CredentialsAreEnough == ASSUME CredentialsInv PROVE CredentialsAreKept
<1>1. CredentialsTypeOK
  BY DEF CredentialsInv, CookieInv, DeviceInv, CredentialsTypeOK, IsCookieRow, SessionRows
<1> QED
  BY <1>1 DEF CredentialsInv, CookieInv, DeviceInv, SessionSound, CredentialsAreKept, StoresLastChoice,
              HandedOutIsKept

LEMMA NoRowIsRow == NoRow \in SessionRows /\ NoRow.expires = 0 /\ ~NoRow.staged
BY DEF NoRow, SessionRows

\* At most as many sessions are alive as there were before.
LEMMA AliveShrinks ==
    ASSUME CredentialsAssumption, Cardinality(Alive) <= SessionCap, Alive' \subseteq Alive
    PROVE  Cardinality(Alive') <= SessionCap
<1>1. Alive \subseteq DeviceSessions /\ IsFiniteSet(DeviceSessions) /\ SessionCap \in Nat
  BY DEF Alive, CredentialsAssumption
<1>2. IsFiniteSet(Alive)
  BY <1>1, FS_Subset
<1>3. IsFiniteSet(Alive') /\ Cardinality(Alive') <= Cardinality(Alive)
  BY <1>2, FS_Subset
<1> QED
  BY <1>1, <1>2, <1>3, FS_CardinalityType

LEMMA CredentialsStart == ASSUME CredentialsAssumption, CredentialsInit PROVE CredentialsInv
<1>1. CookieInv
  BY DEF CredentialsInit, CookieInv, NoLookup, CredentialsAssumption, Messages
<1>2. Alive = {}
  BY NoRowIsRow DEF CredentialsInit, Alive
<1>3. PollsRunning = {}
  BY DEF CredentialsInit, PollsRunning, NoPoll
<1>4. \A p \in Polls : PollSound(p)
  BY <1>3 DEF CredentialsInit, PollSound, NoPoll
<1>5. \A s \in DeviceSessions : SessionSound(s)
  BY DEF CredentialsInit, SessionSound
<1>6. Cardinality(Alive) <= SessionCap
  BY <1>2, FS_EmptySet DEF CredentialsAssumption
<1> QED
  BY <1>1, <1>3, <1>4, <1>5, <1>6, NoRowIsRow DEF CredentialsInit, CredentialsInv, DeviceInv, CredentialsAssumption

LEMMA DevicesStay ==
    ASSUME DeviceInv, UNCHANGED <<seconds, deviceVars>> PROVE DeviceInv'
BY DEF DeviceInv, deviceVars, PollSound, SessionSound, PollsRunning, Carries, Alive, Lease

LEMMA CookiesStay ==
    ASSUME CookieInv, seconds \in Nat, seconds' \in Nat, seconds <= seconds', UNCHANGED cookieVars
    PROVE  CookieInv'
BY DEF CookieInv, cookieVars, IsCookieRow

-----------------------------------------------------------------------------
(* The steps of the cookie. *)

LEMMA FetchesKeep ==
    ASSUME CredentialsInv,
           \/ \E i \in Messages : \/ HandleDocument(i) \/ HandleUrl(i) \/ LocalReadStarts(i) \/ Fetched(i)
                                  \/ CookieFetchFails(i)
           \/ LocalReadEnds
    PROVE  CredentialsInv'
<1>1. UNCHANGED <<cookie, watermark, token, lookup, webWrites, seconds, cookieUser, chosen, heard, deviceVars>>
  BY DEF HandleDocument, HandleUrl, LocalReadStarts, Fetched, CookieFetchFails, LocalReadEnds
<1>2. CookieInv'
  BY <1>1 DEF CredentialsInv, CookieInv, IsCookieRow
<1> QED
  BY <1>1, <1>2, DevicesStay DEF CredentialsInv

\* A new row is a row, with the origin it was stored for.
LEMMA StoredIsRow ==
    ASSUME seconds \in Nat, NEW origin PROVE IsCookieRow(Stored(origin)) /\ Stored(origin).origin = origin
BY DEF IsCookieRow, Stored

\* The message that passes the watermark is later than every one that was heard.
LEMMA LaterIsHeard ==
    ASSUME CredentialsAssumption, CookieInv, NEW i \in Messages, Newer(i), NEW origin, Hears(i, origin)
    PROVE  chosen' = origin /\ heard' = heard \cup {i}
<1>1. Messages \subseteq Nat /\ watermark \in Nat
  BY DEF CredentialsAssumption, CookieInv, Messages
<1>2. \A j \in heard \cap Messages : j <= watermark /\ j \in Nat /\ i \in Nat
  BY <1>1 DEF CookieInv
<1>3. watermark < i
  BY DEF Newer
<1>4. \A j \in heard \cap Messages : ~(j >= i)
  BY <1>1, <1>2, <1>3
<1> QED
  BY <1>4 DEF Hears

\* A message is heard at its watermark.
LEMMA HeardKeeps ==
    ASSUME CredentialsAssumption, CookieInv, NEW i \in Messages, Newer(i),
           watermark' = i, heard' = heard \cup {i}, token' = token
    PROVE  /\ watermark' \in Messages \cup {0}
           /\ \A j \in heard' \cap Messages : j <= watermark'
           /\ \A t \in Tokens : token'[t] # "gone" => t \notin heard'
<1>1. Messages \subseteq Nat /\ watermark \in Nat
  BY DEF CredentialsAssumption, CookieInv, Messages
<1>2. i \notin Tokens
  BY DEF CredentialsAssumption, Messages
<1>3. \A j \in heard \cap Messages : j <= watermark /\ j \in Nat /\ i \in Nat
  BY <1>1 DEF CookieInv
<1>4. watermark < i
  BY DEF Newer
<1>5. \A j \in heard' \cap Messages : j <= watermark'
  BY <1>1, <1>3, <1>4
<1> QED
  BY <1>2, <1>5 DEF CookieInv

LEMMA MessagesKeep ==
    ASSUME CredentialsAssumption, CredentialsInv, NEW i \in Messages,
           RemovePersonalCookies(i) \/ \E full \in BOOLEAN : StorePersonalCookie(i, full)
    PROVE  CredentialsInv'
<1>1. UNCHANGED <<reader, token, lookup, webWrites, seconds, cookieUser, deviceVars>>
  BY DEF RemovePersonalCookies, StorePersonalCookie
<1>2. seconds \in Nat
  BY DEF CredentialsInv
<1>3. DeviceInv'
  BY <1>1, DevicesStay DEF CredentialsInv
<1>4. CASE RemovePersonalCookies(i)
  <2>1. Newer(i) /\ watermark' = i /\ cookie' = NoCookie /\ Hears(i, NoCookie.origin)
    BY <1>4 DEF RemovePersonalCookies
  <2>2. chosen' = NoCookie.origin /\ heard' = heard \cup {i}
    BY <2>1, LaterIsHeard DEF CredentialsInv
  <2> QED
    BY <1>1, <1>3, <2>1, <2>2, HeardKeeps DEF CredentialsInv, CookieInv, IsCookieRow
<1>5. ASSUME NEW full \in BOOLEAN, StorePersonalCookie(i, full) PROVE CredentialsInv'
  <2>1. CASE ~(cookieUser /\ Newer(i))
    <3>1. UNCHANGED <<watermark, cookie, chosen, heard>>
      BY <1>5, <2>1 DEF StorePersonalCookie
    <3> QED
      BY <1>1, <1>3, <3>1 DEF CredentialsInv, CookieInv, IsCookieRow
  <2>2. CASE cookieUser /\ Newer(i)
    <3>1. /\ watermark' = i /\ cookie' = IF full THEN cookie ELSE Stored(<<"message", i>>)
          /\ Hears(i, IF full THEN chosen ELSE <<"message", i>>)
      BY <1>5, <2>2 DEF StorePersonalCookie
    <3>2. chosen' = (IF full THEN chosen ELSE <<"message", i>>) /\ heard' = heard \cup {i}
      BY <2>2, <3>1, LaterIsHeard DEF CredentialsInv
    <3>3. cookie'.origin = chosen' /\ (cookie' = NoCookie \/ IsCookieRow(cookie'))
      BY <1>2, <3>1, <3>2, StoredIsRow DEF CredentialsInv, CookieInv
    <3>4. (cookie = NoCookie \/ IsCookieRow(cookie))'
      BY <1>1, <3>3 DEF IsCookieRow
    <3> QED
      BY <1>1, <1>3, <2>2, <3>1, <3>2, <3>3, <3>4, HeardKeeps DEF CredentialsInv, CookieInv, IsCookieRow
  <2> QED
    BY <2>1, <2>2
<1> QED
  BY <1>4, <1>5

LEMMA TokensKeep ==
    ASSUME CredentialsAssumption, CredentialsInv,
           \/ \E t \in Tokens : IssueCookieToken(t) \/ EndTokens({t})
           \/ RevokeCookieTokens
    PROVE  CredentialsInv'
<1>1. UNCHANGED <<cookie, watermark, lookup, webWrites, seconds, chosen, deviceVars>>
  BY DEF IssueCookieToken, EndTokens, RevokeCookieTokens
<1>2. token \in [Tokens -> {"unissued", "live", "gone"}] /\ \A t \in Tokens : t \notin Messages
  BY DEF CredentialsInv, CookieInv, CredentialsAssumption, Messages
<1>3. \A i \in heard \cap Messages : i <= watermark
  BY DEF CredentialsInv, CookieInv
<1>4. \A t \in Tokens : token[t] # "gone" => t \notin heard
  BY DEF CredentialsInv, CookieInv
<1>5. /\ token' \in [Tokens -> {"unissued", "live", "gone"}]
      /\ \A i \in heard' \cap Messages : i <= watermark
      /\ \A t \in Tokens : token'[t] # "gone" => t \notin heard'
  <2>1. ASSUME NEW t \in Tokens, IssueCookieToken(t) PROVE <1>5!:
    BY <1>2, <1>3, <1>4, <2>1 DEF IssueCookieToken
  <2>2. ASSUME NEW gone, EndTokens(gone) PROVE <1>5!:
    BY <1>2, <1>3, <1>4, <2>2 DEF EndTokens
  <2> QED
    BY <2>1, <2>2 DEF RevokeCookieTokens
<1>6. CookieInv'
  BY <1>1, <1>5 DEF CredentialsInv, CookieInv, IsCookieRow
<1> QED
  BY <1>1, <1>6, DevicesStay DEF CredentialsInv

LEMMA WebWritesKeep ==
    ASSUME CredentialsAssumption, CredentialsInv,
           \/ \E t \in Tokens : SubmitCookieToken(t)
           \/ UploadWebCookie \/ WebCookieDelete
    PROVE  CredentialsInv'
<1>1. UNCHANGED <<watermark, lookup, seconds, deviceVars>>
  BY DEF SubmitCookieToken, UploadWebCookie, WebCookieDelete
<1>2. seconds \in Nat /\ token \in [Tokens -> {"unissued", "live", "gone"}] /\ MaxWebWrites \in Nat
      /\ webWrites \in 0 .. MaxWebWrites
  BY DEF CredentialsInv, CookieInv, CredentialsAssumption
<1>3. DeviceInv'
  BY <1>1, DevicesStay DEF CredentialsInv
<1>4. ASSUME cookie' = NoCookie \/ IsCookieRow(cookie'), cookie'.origin = chosen',
             webWrites' \in 0 .. MaxWebWrites, token' \in [Tokens -> {"unissued", "live", "gone"}],
             \A i \in heard' \cap Messages : i <= watermark,
             \A t \in Tokens : token'[t] # "gone" => t \notin heard'
      PROVE  CredentialsInv'
  <2>1. (cookie = NoCookie \/ IsCookieRow(cookie))'
    BY <1>1, <1>4 DEF IsCookieRow
  <2> QED
    BY <1>1, <1>3, <1>4, <2>1 DEF CredentialsInv, CookieInv, IsCookieRow
<1>5. ASSUME NEW t \in Tokens, SubmitCookieToken(t) PROVE CredentialsInv'
  <2>1. token[t] = "live" /\ token' = [token EXCEPT ![t] = "gone"] /\ heard' = heard \cup {t}
        /\ cookie' = Stored(<<"token", t>>) /\ webWrites' = webWrites
        /\ chosen' = IF t \in heard THEN chosen ELSE <<"token", t>>
    BY <1>5 DEF SubmitCookieToken, WebWritten, Consumed
  <2>2. t \notin heard /\ t \notin Messages
    BY <2>1 DEF CredentialsInv, CookieInv, CredentialsAssumption, Messages
  <2>3. \A i \in heard' \cap Messages : i <= watermark
    BY <2>1, <2>2 DEF CredentialsInv, CookieInv
  <2>4. \A x \in Tokens : token'[x] # "gone" => x \notin heard'
    BY <1>2, <2>1 DEF CredentialsInv, CookieInv
  <2> QED
    BY <1>2, <1>4, <2>1, <2>2, <2>3, <2>4, StoredIsRow
<1>6. CASE UploadWebCookie
  <2>1. webWrites' = webWrites + 1 /\ webWrites < MaxWebWrites /\ UNCHANGED <<token, heard>>
        /\ cookie' = Stored(<<"web", webWrites'>>) /\ chosen' = <<"web", webWrites'>>
    BY <1>6 DEF UploadWebCookie, WebWritten
  <2> QED
    BY <1>2, <1>4, <2>1, StoredIsRow DEF CredentialsInv, CookieInv
<1>7. CASE WebCookieDelete
  BY <1>2, <1>4, <1>7 DEF WebCookieDelete, CredentialsInv, CookieInv
<1> QED
  BY <1>5, <1>6, <1>7

\* A lookup that takes over the row or nothing, and a cookie with the origin it had.
LEMMA SameReads ==
    ASSUME CredentialsInv, cookie' = cookie \/ (cookie'.origin = cookie.origin /\ IsCookieRow(cookie')),
           UNCHANGED <<watermark, token, webWrites, seconds, chosen, heard, deviceVars>>,
           DOMAIN lookup' = Lookups,
           \A x \in Lookups : lookup'[x].pc = "asking" =>
               lookup'[x] = lookup[x] \/ (lookup'[x].read = cookie /\ Exists)
    PROVE  CredentialsInv'
<1>1. (cookie = NoCookie \/ IsCookieRow(cookie))' /\ (cookie.origin = chosen)'
  BY DEF IsCookieRow, CredentialsInv, CookieInv
<1>2. \A x \in Lookups : lookup'[x].pc = "asking" => IsCookieRow(lookup'[x].read)
  BY DEF CredentialsInv, CookieInv, Exists
<1>3. (\A x \in Lookups : lookup[x].pc = "asking" => IsCookieRow(lookup[x].read))'
  BY <1>2 DEF IsCookieRow
<1>4. CookieInv'
  BY <1>1, <1>3 DEF CredentialsInv, CookieInv
<1> QED
  BY <1>4, DevicesStay DEF CredentialsInv

\* A lookup that writes read the row as it is, so that the origin stays.
LEMMA LookupsKeep ==
    ASSUME CredentialsAssumption, CredentialsInv, NEW l \in Lookups,
           \/ ReadForLookup(l) \/ OAuthRefresh(l) \/ LookupFails(l)
           \/ \E valid, rotated \in BOOLEAN : WebCookieValidate(l, valid, rotated)
    PROVE  CredentialsInv'
<1>1. UNCHANGED <<watermark, token, webWrites, seconds, cookieUser, chosen, heard, deviceVars>>
  BY DEF ReadForLookup, OAuthRefresh, LookupFails, WebCookieValidate
<1>2. seconds \in Nat /\ DOMAIN lookup = Lookups
  BY DEF CredentialsInv, CookieInv
<1>4. CASE ReadForLookup(l)
  <2>1. lookup' = [lookup EXCEPT ![l] = [pc |-> "asking", read |-> cookie]] /\ cookie' = cookie /\ Exists
    BY <1>4 DEF ReadForLookup
  <2> QED
    BY <1>1, <1>2, <2>1, SameReads
<1>5. ASSUME lookup' = Looked(l)
      PROVE  /\ DOMAIN lookup' = Lookups
             /\ \A x \in Lookups : lookup'[x].pc = "asking" => lookup'[x] = lookup[x]
  <2>1. DOMAIN lookup' = Lookups /\ \A x \in Lookups \ {l} : lookup'[x] = lookup[x]
    BY <1>2, <1>5 DEF Looked
  <2>2. lookup'[l] = [lookup[l] EXCEPT !.pc = "done"]
    BY <1>2, <1>5 DEF Looked
  <2>3. lookup'[l].pc = "asking" => lookup'[l] = lookup[l]
    <3>1. CASE "pc" \in DOMAIN lookup[l]
      BY <2>2, <3>1
    <3>2. CASE "pc" \notin DOMAIN lookup[l]
      BY <2>2, <3>2
    <3> QED
      BY <3>1, <3>2
  <2> QED
    BY <2>1, <2>3
<1>6. CASE LookupFails(l)
  <2>1. lookup' = Looked(l) /\ cookie' = cookie
    BY <1>6 DEF LookupFails
  <2> QED
    BY <1>1, <1>2, <1>5, <2>1, SameReads
<1> DEFINE read == lookup[l].read
<1>7. lookup[l].pc = "asking" => IsCookieRow(read)
  BY DEF CredentialsInv, CookieInv
<1>8. ASSUME IsCookieRow(read), NEW v \in BOOLEAN, NEW r \in Nat, NEW u \in 0 .. seconds
      PROVE  LET c == [read EXCEPT !.valid = v, !.rotation = r, !.updated = u] IN
             c.origin = read.origin /\ IsCookieRow(c)
  <2> DEFINE c == [read EXCEPT !.valid = v, !.rotation = r, !.updated = u]
  <2>1. read = [origin |-> read.origin, rotation |-> read.rotation, updated |-> read.updated, valid |-> read.valid]
    BY <1>8 DEF IsCookieRow
  <2>2. c = [origin |-> read.origin, rotation |-> r, updated |-> u, valid |-> v]
    <3> DEFINE second == [origin |-> read.origin, rotation |-> read.rotation, updated |-> read.updated, valid |-> v]
               third == [origin |-> read.origin, rotation |-> r, updated |-> read.updated, valid |-> v]
    <3>1. [read EXCEPT !.valid = v] = second
      <4> HIDE DEF read
      <4> QED
        BY <2>1
    <3>2. [second EXCEPT !.rotation = r] = third
      OBVIOUS
    <3>3. [third EXCEPT !.updated = u] = [origin |-> read.origin, rotation |-> r, updated |-> u, valid |-> v]
      OBVIOUS
    <3> HIDE DEF second, third, read
    <3>4. c = [[[read EXCEPT !.valid = v] EXCEPT !.rotation = r] EXCEPT !.updated = u]
      OBVIOUS
    <3> QED
      BY <3>1, <3>2, <3>3, <3>4
  <2> QED
    BY <1>8, <2>2 DEF IsCookieRow
<1>9. CASE OAuthRefresh(l)
  <2>1. /\ lookup[l].pc = "asking" /\ lookup' = Looked(l)
        /\ cookie' = IF cookieUser /\ Unchanged(read) /\ cookie.valid
                     THEN [read EXCEPT !.rotation = read.rotation + 1, !.updated = seconds, !.valid = TRUE]
                     ELSE cookie
    BY <1>9 DEF OAuthRefresh
  <2>2. IsCookieRow(read) /\ read.rotation + 1 \in Nat /\ seconds \in 0 .. seconds
    BY <1>2, <1>7, <2>1 DEF IsCookieRow
  <2>3. [read EXCEPT !.rotation = read.rotation + 1, !.updated = seconds, !.valid = TRUE]
          = [read EXCEPT !.valid = TRUE, !.rotation = read.rotation + 1, !.updated = seconds]
    OBVIOUS
  <2>4. Unchanged(read) => read.origin = cookie.origin
    BY DEF Unchanged
  <2>5. cookie' = cookie \/ (cookie'.origin = cookie.origin /\ IsCookieRow(cookie'))
    <3> HIDE DEF read
    <3> QED
      BY <1>8, <2>1, <2>2, <2>3, <2>4
  <2> QED
    BY <1>1, <1>5, <2>1, <2>5, SameReads
<1>10. ASSUME NEW valid \in BOOLEAN, NEW rotated \in BOOLEAN, WebCookieValidate(l, valid, rotated)
       PROVE  CredentialsInv'
  <2> DEFINE r == IF rotated THEN read.rotation + 1 ELSE read.rotation
             u == IF rotated THEN seconds ELSE read.updated
  <2>1. /\ lookup[l].pc = "asking" /\ lookup' = Looked(l)
        /\ cookie' = IF cookieUser /\ Unchanged(read)
                     THEN [read EXCEPT !.valid = valid, !.rotation = r, !.updated = u]
                     ELSE cookie
    BY <1>10 DEF WebCookieValidate
  <2>2. IsCookieRow(read) /\ r \in Nat /\ u \in 0 .. seconds
    BY <1>2, <1>7, <2>1 DEF IsCookieRow
  <2>3. Unchanged(read) => read.origin = cookie.origin
    BY DEF Unchanged
  <2>4. cookie' = cookie \/ (cookie'.origin = cookie.origin /\ IsCookieRow(cookie'))
    <3> HIDE DEF read, r, u
    <3> QED
      BY <1>8, <2>1, <2>2, <2>3
  <2> QED
    BY <1>1, <1>5, <2>1, <2>4, SameReads
<1> QED
  BY <1>4, <1>6, <1>9, <1>10

-----------------------------------------------------------------------------
(* The steps of the device sessions.  A poll that runs is alone with its   *)
(* session, so that what one poll does is no business of the others.       *)

LEMMA RunningPolls ==
    ASSUME CredentialsAssumption, CredentialsInv, NEW p \in PollsRunning
    PROVE  /\ p \in Polls /\ PollSound(p) /\ poll[p].session \in DeviceSessions
           /\ poll[p].started \in Nat /\ Lease(p) \in Nat /\ seconds \in Nat /\ seconds < Lease(p)
           /\ starting[poll[p].session] = "done"
           /\ poll[p].pc \in {"accepted", "asking", "answered"}
<1>1. p \in Polls /\ PollSound(p) /\ poll[p].pc \in {"accepted", "asking", "answered"}
      /\ seconds \in Nat /\ Budget \in Nat
  BY DEF PollsRunning, CredentialsInv, DeviceInv, CredentialsAssumption
<1>2. poll[p] \in AcceptedRows \/ poll[p] \in AskedRows
  BY <1>1 DEF PollSound
<1>3. poll[p].session \in DeviceSessions /\ poll[p].started \in Nat
  BY <1>2 DEF AcceptedRows, AskedRows
<1>4. seconds <= poll[p].started + Budget /\ starting[poll[p].session] = "done"
  BY <1>1 DEF PollSound
<1> QED
  BY <1>1, <1>3, <1>4 DEF Lease

\* What a poll may do with its own record and its own row.
LEMMA PollMoves ==
    ASSUME CredentialsAssumption, CredentialsInv, CookieInv',
           NEW p \in PollsRunning, NEW s, s = poll[p].session, NEW np, NEW nr \in SessionRows,
           poll' = [poll EXCEPT ![p] = np], row' = [row EXCEPT ![s] = nr],
           np.pc \in {"asking", "answered", "over"},
           np.pc # "over" => np \in AskedRows /\ np.session = s /\ np.started = poll[p].started,
           DOMAIN consent' = DeviceSessions, \A x \in DeviceSessions \ {s} : consent'[x] = consent[x],
           UNCHANGED <<seconds, starting>>,
           saved \subseteq saved', excused \subseteq excused', saved' \cup excused' \subseteq DeviceSessions,
           np.pc = "asking" => nr.expires >= Lease(p),
           np.pc = "answered" /\ np.answer = "ready" =>
               nr.expires >= Lease(p) \/ nr.staged \/ s \in excused',
           consent'[s] = "taken" =>
               (np.pc = "answered" /\ np.answer = "ready") \/ nr.staged \/ s \in saved' \cup excused',
           nr # NoRow /\ nr.expires > seconds => s \in Alive
    PROVE  CredentialsInv'
<1>1. /\ p \in Polls /\ s \in DeviceSessions /\ starting[s] = "done" /\ seconds < Lease(p)
      /\ Lease(p) \in Nat /\ PollSound(p) /\ seconds \in Nat /\ poll[p].started \in Nat /\ Budget \in Nat
  BY RunningPolls DEF CredentialsAssumption
<1>2. DOMAIN poll' = Polls /\ poll'[p] = np /\ \A q \in Polls \ {p} : poll'[q] = poll[q]
  BY <1>1 DEF CredentialsInv, DeviceInv
<1>3. row' \in [DeviceSessions -> SessionRows] /\ row'[s] = nr
      /\ \A x \in DeviceSessions \ {s} : row'[x] = row[x]
  BY <1>1 DEF CredentialsInv, DeviceInv
<1>4. \A q \in PollsRunning \ {p} : q \in Polls /\ poll[q].session \in DeviceSessions \ {s}
  BY RunningPolls DEF CredentialsInv, DeviceInv
<1>5. PollsRunning' \subseteq PollsRunning /\ \A q \in PollsRunning \ {p} : q \in PollsRunning'
  BY <1>1, <1>2 DEF PollsRunning
<1>6. \A q \in Polls : PollSound(q)'
  <2>1. PollSound(p)'
    <3>1. Lease(p)' = Lease(p) \/ np.pc = "over"
      BY <1>2 DEF Lease
    <3>2. np.pc # "over" => np.session = s /\ seconds' <= np.started + Budget /\ starting'[s] = "done"
      BY <1>1 DEF Lease
    <3>3. (p \in PollsRunning)' => np.pc # "over"
      BY <1>2 DEF PollsRunning
    <3> QED
      BY <1>1, <1>2, <1>3, <3>1, <3>2, <3>3 DEF PollSound
  <2>2. ASSUME NEW q \in Polls \ {p} PROVE PollSound(q)'
    <3>1. poll'[q] = poll[q] /\ PollSound(q)
      BY <1>2 DEF CredentialsInv, DeviceInv
    <3>2. CASE q \in PollsRunning
      <4>1. row'[poll[q].session] = row[poll[q].session] /\ Lease(q)' = Lease(q)
        BY <1>3, <1>4, <3>1, <3>2 DEF Lease
      <4> QED
        BY <1>5, <3>1, <3>2, <4>1 DEF PollSound
    <3>3. CASE q \notin PollsRunning
      <4>1. poll[q].pc \notin {"accepted", "asking", "answered"}
        BY <3>3 DEF PollsRunning
      <4> QED
        BY <1>5, <3>1, <3>3, <4>1 DEF PollSound
    <3> QED
      BY <3>2, <3>3
  <2> QED
    BY <2>1, <2>2
<1>7. \A x \in DeviceSessions : SessionSound(x)'
  <2>1. SessionSound(s)'
    <3>1. np.pc = "answered" /\ np.answer = "ready" => Carries(s)'
      BY <1>1, <1>2 DEF Carries, PollsRunning
    <3> QED
      BY <1>1, <1>3, <3>1 DEF SessionSound
  <2>2. ASSUME NEW x \in DeviceSessions \ {s} PROVE SessionSound(x)'
    <3>1. SessionSound(x) /\ row'[x] = row[x] /\ consent'[x] = consent[x]
      BY <1>3 DEF CredentialsInv, DeviceInv
    <3>2. Carries(x) => Carries(x)'
      BY <1>2, <1>4, <1>5 DEF Carries
    <3> QED
      BY <3>1, <3>2 DEF SessionSound
  <2> QED
    BY <2>1, <2>2
<1>8. Cardinality(Alive)' <= SessionCap
  <2>1. Alive' \subseteq Alive
    BY <1>3 DEF Alive
  <2> QED
    BY <2>1, AliveShrinks DEF CredentialsInv, DeviceInv
<1>9. \A a, b \in PollsRunning' : poll'[a].session = poll'[b].session => a = b
  <2>1. \A a \in PollsRunning' : poll'[a].session = poll[a].session
    BY <1>2, <1>5 DEF PollsRunning
  <2> QED
    BY <1>5, <2>1 DEF CredentialsInv, DeviceInv
<1> QED
  BY <1>2, <1>3, <1>6, <1>7, <1>8, <1>9 DEF CredentialsInv, DeviceInv

\* Rows leave the table with what was staged in them, or appear for a session that is
\* being started.
LEMMA RowsMove ==
    ASSUME CredentialsAssumption, CredentialsInv, UNCHANGED <<seconds, consent, poll, saved, cookieVars>>,
           DOMAIN starting' = DeviceSessions,
           \A x \in DeviceSessions : starting'[x] # "done" => starting[x] # "done",
           \A x \in DeviceSessions : starting[x] = "done" => starting'[x] = "done",
           row' \in [DeviceSessions -> SessionRows],
           \A x \in DeviceSessions :
               row'[x] = row[x] \/ starting[x] # "done" \/ (x \in Collected /\ (x \in Staged => x \in excused')),
           excused \subseteq excused', excused' \subseteq DeviceSessions, Cardinality(Alive') <= SessionCap
    PROVE  CredentialsInv'
<1>1. CookieInv'
  BY CookiesStay DEF CredentialsInv
<1>2. PollsRunning' = PollsRunning
  BY DEF PollsRunning
<1>3. \A p \in Polls : PollSound(p)'
  <2> SUFFICES ASSUME NEW p \in Polls PROVE PollSound(p)'
    OBVIOUS
  <2>1. PollSound(p) /\ Lease(p)' = Lease(p)
    BY DEF CredentialsInv, DeviceInv, Lease
  <2>2. CASE p \in PollsRunning
    <3>1. /\ poll[p].session \in DeviceSessions /\ starting[poll[p].session] = "done"
          /\ Lease(p) \in Nat /\ seconds \in Nat /\ seconds < Lease(p)
      BY <2>2, RunningPolls
    <3>2. row[poll[p].session] \in SessionRows
      BY <3>1 DEF CredentialsInv, DeviceInv
    <3>3. row[poll[p].session].expires >= Lease(p) => poll[p].session \notin Collected
      BY <3>1, <3>2 DEF Collected, SessionRows
    <3>4. row[poll[p].session].staged /\ poll[p].session \in Collected => poll[p].session \in Staged
      BY <3>1 DEF Staged
    <3> QED
      BY <1>2, <2>1, <2>2, <3>1, <3>3, <3>4 DEF PollSound
  <2>3. CASE p \notin PollsRunning
    <3>1. poll[p].pc \notin {"accepted", "asking", "answered"}
      BY <2>3 DEF PollsRunning
    <3> QED
      BY <1>2, <2>1, <2>3, <3>1 DEF PollSound
  <2> QED
    BY <2>2, <2>3
<1>4. \A x \in DeviceSessions : SessionSound(x)'
  <2> SUFFICES ASSUME NEW x \in DeviceSessions PROVE SessionSound(x)'
    OBVIOUS
  <2>1. SessionSound(x) /\ (Carries(x)' <=> Carries(x))
    BY <1>2 DEF CredentialsInv, DeviceInv, Carries
  <2>2. row[x].staged /\ x \in Collected => x \in Staged
    BY DEF Staged
  <2> QED
    BY <2>1, <2>2 DEF SessionSound
<1> QED
  BY <1>1, <1>2, <1>3, <1>4 DEF CredentialsInv, DeviceInv

LEMMA BeginPollKeeps ==
    ASSUME CredentialsAssumption, CredentialsInv, NEW p \in Polls, BeginPoll(p) PROVE CredentialsInv'
<1> DEFINE s == poll[p].session
           r == row[s]
           lease == poll[p].started + Budget + 1
<1>1. p \in PollsRunning /\ poll[p].pc = "accepted"
  BY DEF BeginPoll, PollsRunning
<1>2. s \in DeviceSessions /\ poll[p].started \in Nat /\ seconds \in Nat /\ lease = Lease(p) /\ lease \in Nat
      /\ seconds < lease
  BY <1>1, RunningPolls DEF Lease
<1>3. r \in SessionRows /\ SessionSound(s) /\ saved \cup excused \subseteq DeviceSessions
      /\ DOMAIN consent = DeviceSessions
  BY <1>2 DEF CredentialsInv, DeviceInv
<1>4. UNCHANGED <<seconds, starting, consent, saved, cookieVars>> /\ CookieInv'
  <2>1. UNCHANGED <<seconds, starting, consent, saved, cookieVars>>
    BY DEF BeginPoll
  <2> QED
    BY <1>2, <2>1, CookiesStay DEF CredentialsInv
<1>5. ~Carries(s)
  BY <1>1 DEF Carries, CredentialsInv, DeviceInv
<1>6. CASE ~cookieUser \/ r = NoRow \/ r.expires <= seconds \/ (~r.staged /\ r.next > seconds)
  <2> DEFINE np == [pc |-> "over"]
             nr == IF cookieUser /\ r.expires <= seconds THEN NoRow ELSE r
  <2>1. /\ poll' = [poll EXCEPT ![p] = np]
        /\ row' = IF cookieUser /\ r.expires <= seconds THEN [row EXCEPT ![s] = NoRow] ELSE row
        /\ excused' = IF cookieUser /\ r.expires <= seconds /\ r.staged THEN excused \cup {s} ELSE excused
    BY <1>6 DEF BeginPoll, Closed
  <2>2. row' = [row EXCEPT ![s] = nr] /\ nr \in SessionRows
    BY <1>2, <1>3, <2>1, NoRowIsRow DEF CredentialsInv, DeviceInv
  <2>3. nr # NoRow /\ nr.expires > seconds => s \in Alive
    BY <1>2 DEF Alive
  <2>4. consent[s] = "taken" => nr.staged \/ s \in saved \cup excused'
    BY <1>3, <1>5, <2>1 DEF SessionSound
  <2> HIDE DEF nr
  <2> QED
    BY <1>1, <1>2, <1>3, <1>4, <2>1, <2>2, <2>3, <2>4, PollMoves
<1>7. CASE ~(~cookieUser \/ r = NoRow \/ r.expires <= seconds \/ (~r.staged /\ r.next > seconds))
  <2> DEFINE nr == [r EXCEPT !.generation = r.generation + 1, !.next = lease, !.expires = Protected(r, lease)]
             np == [pc |-> IF r.staged THEN "answered" ELSE "asking", session |-> s,
                    started |-> poll[p].started, generation |-> r.generation + 1,
                    expires |-> r.expires, answer |-> IF r.staged THEN "ready" ELSE "none"]
  <2>1. poll' = [poll EXCEPT ![p] = np] /\ row' = [row EXCEPT ![s] = nr] /\ excused' = excused
    BY <1>7 DEF BeginPoll
  <2>2. Protected(r, lease) \in Nat /\ (~r.staged => Protected(r, lease) >= lease)
    BY <1>2, <1>3 DEF Protected, SessionRows
  <2>3. nr \in SessionRows /\ nr.expires = Protected(r, lease) /\ nr.staged = r.staged
    <3>1. r.generation + 1 \in Nat
      BY <1>3 DEF SessionRows
    <3> DEFINE e == Protected(r, lease)
               g == r.generation + 1
    <3> HIDE DEF e, g, r, lease
    <3>2. [r EXCEPT !.generation = g, !.next = lease, !.expires = e] \in SessionRows
          /\ [r EXCEPT !.generation = g, !.next = lease, !.expires = e].expires = e
          /\ [r EXCEPT !.generation = g, !.next = lease, !.expires = e].staged = r.staged
      BY <1>2, <1>3, <2>2, <3>1 DEF SessionRows, e, g
    <3> QED
      BY <3>2 DEF e, g
  <2>4. np \in AskedRows
    BY <1>2, <1>3 DEF AskedRows, SessionRows
  <2>5. s \in Alive
    BY <1>2, <1>3, <1>7 DEF Alive, SessionRows
  <2>6. consent[s] = "taken" => r.staged \/ s \in saved \cup excused
    BY <1>3, <1>5 DEF SessionSound
  <2> HIDE DEF nr
  <2>7. /\ np.pc \in {"asking", "answered", "over"} /\ np.session = s /\ np.started = poll[p].started
        /\ np.pc = "asking" => nr.expires >= Lease(p)
        /\ np.pc = "answered" /\ np.answer = "ready" => nr.staged
        /\ consent[s] = "taken" => nr.staged \/ s \in saved \cup excused
    BY <1>2, <1>3, <2>2, <2>3, <2>6 DEF SessionRows
  <2> HIDE DEF np
  <2> QED
    BY <1>1, <1>2, <1>3, <1>4, <2>1, <2>3, <2>4, <2>5, <2>7, PollMoves
<1> QED
  BY <1>6, <1>7

LEMMA AnswersKeep ==
    ASSUME CredentialsAssumption, CredentialsInv, NEW p \in Polls,
           NEW answer \in {"ready", "pending", "expired", "error"}, ProviderAnswers(p, answer)
    PROVE  CredentialsInv'
<1> DEFINE s == poll[p].session
           np == [poll[p] EXCEPT !.pc = "answered", !.answer = answer]
<1>1. p \in PollsRunning /\ poll[p].pc = "asking"
  BY DEF ProviderAnswers, PollsRunning
<1>2. s \in DeviceSessions /\ seconds \in Nat /\ PollSound(p) /\ poll[p] \in AskedRows
  BY <1>1, RunningPolls DEF PollSound
<1>3. row[s] \in SessionRows /\ SessionSound(s) /\ DOMAIN consent = DeviceSessions /\ ~Carries(s)
      /\ saved \cup excused \subseteq DeviceSessions
  BY <1>1, <1>2 DEF CredentialsInv, DeviceInv, Carries
<1>4. UNCHANGED <<seconds, starting, row, saved, excused, cookieVars>> /\ CookieInv'
  <2>1. UNCHANGED <<seconds, starting, row, saved, excused, cookieVars>>
    BY DEF ProviderAnswers
  <2> QED
    BY <1>2, <2>1, CookiesStay DEF CredentialsInv
<1>5. poll' = [poll EXCEPT ![p] = np] /\ row' = [row EXCEPT ![s] = row[s]]
  BY <1>2, <1>4 DEF ProviderAnswers, CredentialsInv, DeviceInv
<1>6. consent' = IF answer = "ready" THEN [consent EXCEPT ![s] = "taken"] ELSE consent
  BY DEF ProviderAnswers
<1>7. np \in AskedRows /\ np.pc = "answered" /\ np.answer = answer /\ np.session = s
      /\ np.started = poll[p].started
  BY <1>2 DEF AskedRows
<1>8. row[s].expires >= Lease(p)
  BY <1>1, <1>2 DEF PollSound
<1>9. DOMAIN consent' = DeviceSessions /\ (\A x \in DeviceSessions \ {s} : consent'[x] = consent[x])
      /\ (consent'[s] = "taken" => answer = "ready" \/ row[s].staged \/ s \in saved \cup excused)
  BY <1>2, <1>3, <1>6 DEF SessionSound
<1>10. row[s] # NoRow /\ row[s].expires > seconds => s \in Alive
  BY <1>2 DEF Alive
<1> HIDE DEF np
<1> QED
  BY <1>1, <1>2, <1>3, <1>4, <1>5, <1>7, <1>8, <1>9, <1>10, PollMoves

\* A poll whose success does not fit stages it, one whose success fits stores it.
LEMMA EndPollKeeps ==
    ASSUME CredentialsAssumption, CredentialsInv, NEW p \in Polls, EndPoll(p) PROVE CredentialsInv'
<1> DEFINE s == poll[p].session
           r == row[s]
           ready == poll[p].answer = "ready"
           present == r # NoRow /\ r.expires > seconds
           kept == CASE ready /\ ~r.staged -> seconds + Retention
                     [] r.staged -> r.expires
                     [] ~ready /\ ~r.staged -> poll[p].expires
           refused == ~cookieUser \/ ~present \/ (~ready /\ (r.generation # poll[p].generation \/ r.staged))
           over == [pc |-> "over"]
<1>1. p \in PollsRunning /\ poll[p].pc = "answered" /\ poll' = [poll EXCEPT ![p] = over]
  BY DEF EndPoll, PollsRunning, Closed
<1>2. s \in DeviceSessions /\ seconds \in Nat /\ PollSound(p) /\ poll[p] \in AskedRows
      /\ Lease(p) \in Nat /\ seconds < Lease(p) /\ Retention \in Nat
  BY <1>1, RunningPolls DEF PollSound, CredentialsAssumption
<1>3. r \in SessionRows /\ SessionSound(s) /\ DOMAIN consent = DeviceSessions
      /\ saved \cup excused \subseteq DeviceSessions /\ row = [row EXCEPT ![s] = r]
  BY <1>2 DEF CredentialsInv, DeviceInv
<1>4. UNCHANGED <<seconds, starting, consent, watermark, token, lookup, webWrites, heard>>
      /\ excused' = IF ~cookieUser /\ ready THEN excused \cup {s} ELSE excused
  BY DEF EndPoll
<1>5. r.expires > seconds => r # NoRow /\ s \in Alive
  BY <1>2, NoRowIsRow DEF Alive
<1>6. Carries(s) => ready
  <2>1. \A q \in PollsRunning : poll[q].session = s => q = p
    BY <1>1 DEF CredentialsInv, DeviceInv
  <2> QED
    BY <2>1 DEF Carries
<1>7. consent[s] = "taken" => ready \/ r.staged \/ s \in saved \cup excused
  BY <1>3, <1>6 DEF SessionSound
<1>8. CASE refused
  <2>1. UNCHANGED <<row, saved, cookie, chosen>>
    BY <1>8 DEF EndPoll
  <2>2. CookieInv'
    BY <1>4, <2>1 DEF CredentialsInv, CookieInv, IsCookieRow
  <2>3. ready => r.staged \/ s \in excused'
    <3>1. CASE r.expires >= Lease(p)
      BY <1>2, <1>3, <1>4, <1>5, <1>8, <3>1 DEF SessionRows
    <3>2. CASE ~(r.expires >= Lease(p))
      BY <1>1, <1>2, <1>4, <3>2 DEF PollSound
    <3> QED
      BY <3>1, <3>2
  <2>4. consent[s] = "taken" => r.staged \/ s \in saved \cup excused'
    BY <1>4, <1>7, <2>3
  <2>5. r # NoRow /\ r.expires > seconds => s \in Alive
    BY <1>5
  <2> HIDE DEF refused, ready
  <2> QED
    BY <1>1, <1>2, <1>3, <1>4, <2>1, <2>2, <2>4, <2>5, PollMoves
<1>9. CASE ~refused
  <2> DEFINE gone == poll[p].answer = "expired" \/ (ready /\ room)
             stay == [r EXCEPT !.expires = kept, !.staged = r.staged \/ ready,
                               !.next = IF ready THEN r.next ELSE seconds + 1]
             nr == IF gone THEN NoRow ELSE stay
  <2>1. /\ row' = [row EXCEPT ![s] = nr]
        /\ saved' = IF ready /\ room THEN saved \cup {s} ELSE saved
        /\ cookie' = IF ready /\ room THEN Stored(<<"device", s>>) ELSE cookie
        /\ chosen' = IF ready /\ room THEN <<"device", s>> ELSE chosen
    BY <1>9 DEF EndPoll
  <2>2. (cookie = NoCookie \/ IsCookieRow(cookie))' /\ cookie'.origin = chosen'
    <3>1. CASE ready /\ room
      <4>1. IsCookieRow(cookie') /\ cookie'.origin = <<"device", s>>
        BY <1>2, <2>1, <3>1, StoredIsRow
      <4> QED
        BY <1>4, <2>1, <3>1, <4>1 DEF IsCookieRow
    <3>2. CASE ~(ready /\ room)
      BY <1>4, <2>1, <3>2 DEF CredentialsInv, CookieInv, IsCookieRow
    <3> QED
      BY <3>1, <3>2
  <2>3. CookieInv'
    BY <1>4, <2>2 DEF CredentialsInv, CookieInv, IsCookieRow
  <2>4. kept \in Nat
    <3>1. r.expires \in Nat /\ poll[p].expires \in Nat /\ seconds + Retention \in Nat /\ r.staged \in BOOLEAN
      BY <1>2, <1>3 DEF SessionRows, AskedRows
    <3> QED
      BY <3>1
  <2>5. stay \in SessionRows /\ stay.staged = (r.staged \/ ready)
    <3> DEFINE n == IF ready THEN r.next ELSE seconds + 1
               g == r.staged \/ ready
    <3>1. n \in Nat /\ g \in BOOLEAN
      BY <1>2, <1>3 DEF SessionRows
    <3> HIDE DEF n, g, kept, r, ready
    <3>2. [r EXCEPT !.expires = kept, !.staged = g, !.next = n] \in SessionRows
          /\ [r EXCEPT !.expires = kept, !.staged = g, !.next = n].staged = g
      BY <1>3, <2>4, <3>1 DEF SessionRows
    <3> QED
      BY <3>2 DEF n, g
  <2>6. nr \in SessionRows
    BY <2>5, NoRowIsRow
  <2>7. s \in Alive
    BY <1>5, <1>9
  <2>8. consent[s] = "taken" => nr.staged \/ s \in saved' \cup excused'
    <3>1. CASE ready
      BY <2>1, <2>5, <3>1
    <3>2. CASE ~ready
      <4>1. ~r.staged
        BY <1>9, <3>2
      <4> QED
        BY <1>4, <1>7, <2>1, <3>2, <4>1
    <3> QED
      BY <3>1, <3>2
  <2>9. saved \subseteq saved' /\ excused \subseteq excused' /\ saved' \cup excused' \subseteq DeviceSessions
    BY <1>2, <1>3, <1>4, <2>1
  <2> HIDE DEF nr, refused, ready
  <2> QED
    BY <1>1, <1>2, <1>3, <1>4, <2>1, <2>3, <2>6, <2>7, <2>8, <2>9, PollMoves
<1> QED
  BY <1>8, <1>9

LEMMA TimeOutKeeps ==
    ASSUME CredentialsAssumption, CredentialsInv, NEW p \in Polls, PollTimesOut(p) PROVE CredentialsInv'
<1> DEFINE s == poll[p].session
           over == [pc |-> "over"]
<1>1. p \in PollsRunning /\ poll' = [poll EXCEPT ![p] = over]
      /\ excused' = IF poll[p].pc = "answered" /\ poll[p].answer = "ready" /\ ~row[s].staged
                    THEN excused \cup {s} ELSE excused
  BY DEF PollTimesOut, Closed
<1>2. s \in DeviceSessions /\ seconds \in Nat
  BY <1>1, RunningPolls
<1>3. row[s] \in SessionRows /\ SessionSound(s) /\ DOMAIN consent = DeviceSessions
      /\ saved \cup excused \subseteq DeviceSessions /\ row = [row EXCEPT ![s] = row[s]]
  BY <1>2 DEF CredentialsInv, DeviceInv
<1>4. UNCHANGED <<seconds, starting, row, consent, saved, cookieVars>> /\ CookieInv'
  <2>1. UNCHANGED <<seconds, starting, row, consent, saved, cookieVars>>
    BY DEF PollTimesOut
  <2> QED
    BY <1>2, <2>1, CookiesStay DEF CredentialsInv
<1>5. Carries(s) => poll[p].pc = "answered" /\ poll[p].answer = "ready"
  <2>1. \A q \in PollsRunning : poll[q].session = s => q = p
    BY <1>1 DEF CredentialsInv, DeviceInv
  <2> QED
    BY <2>1 DEF Carries
<1>6. consent[s] = "taken" => row[s].staged \/ s \in saved \cup excused'
  BY <1>1, <1>3, <1>5 DEF SessionSound
<1>7. row[s] # NoRow /\ row[s].expires > seconds => s \in Alive
  BY <1>2 DEF Alive
<1>8. excused \subseteq excused' /\ saved \cup excused' \subseteq DeviceSessions
  BY <1>1, <1>2, <1>3
<1> QED
  BY <1>1, <1>2, <1>3, <1>4, <1>6, <1>7, <1>8, PollMoves

\* A poll is accepted for a session that no other poll has.
LEMMA AcceptKeeps ==
    ASSUME CredentialsAssumption, CredentialsInv, NEW p \in Polls, NEW s \in DeviceSessions, OAuthPoll(p, s)
    PROVE  CredentialsInv'
<1> DEFINE np == [pc |-> "accepted", session |-> s, started |-> seconds]
<1>1. /\ poll[p] = NoPoll /\ ~Owned(s) /\ starting[s] = "done" /\ poll' = [poll EXCEPT ![p] = np]
      /\ UNCHANGED <<seconds, starting, row, consent, saved, excused, cookieVars>>
  BY DEF OAuthPoll
<1>2. seconds \in Nat /\ Budget \in Nat /\ CookieInv'
  BY <1>1, CookiesStay DEF CredentialsInv, CredentialsAssumption
<1>3. DOMAIN poll' = Polls /\ poll'[p] = np /\ \A q \in Polls \ {p} : poll'[q] = poll[q]
  BY <1>1 DEF CredentialsInv, DeviceInv
<1>4. p \notin PollsRunning /\ PollsRunning' = PollsRunning \cup {p}
  BY <1>1, <1>3 DEF PollsRunning, NoPoll
<1>5. \A q \in Polls : PollSound(q)'
  <2>1. PollSound(p)'
    BY <1>1, <1>2, <1>3 DEF PollSound, AcceptedRows
  <2>2. ASSUME NEW q \in Polls \ {p} PROVE PollSound(q)'
    <3>1. poll'[q] = poll[q] /\ PollSound(q) /\ (q \in PollsRunning' <=> q \in PollsRunning) /\ Lease(q)' = Lease(q)
      BY <1>3, <1>4 DEF CredentialsInv, DeviceInv, Lease
    <3> QED
      BY <1>1, <3>1 DEF PollSound
  <2> QED
    BY <2>1, <2>2
<1>6. \A x \in DeviceSessions : SessionSound(x)'
  <2> SUFFICES ASSUME NEW x \in DeviceSessions PROVE SessionSound(x)'
    OBVIOUS
  <2>1. \A q \in PollsRunning : q \in PollsRunning' /\ poll'[q] = poll[q]
    BY <1>3, <1>4 DEF PollsRunning
  <2>2. SessionSound(x) /\ (Carries(x) => Carries(x)')
    BY <2>1 DEF Carries, CredentialsInv, DeviceInv
  <2> QED
    BY <1>1, <2>2 DEF SessionSound
<1>7. \A a, b \in PollsRunning' : poll'[a].session = poll'[b].session => a = b
  <2>1. \A q \in PollsRunning : poll'[q] = poll[q] /\ poll[q].session # s
    BY <1>1, <1>3, <1>4 DEF Owned, PollsRunning
  <2> QED
    BY <1>3, <1>4, <2>1 DEF CredentialsInv, DeviceInv
<1>8. Alive' = Alive
  BY <1>1 DEF Alive
<1> QED
  BY <1>1, <1>2, <1>3, <1>5, <1>6, <1>7, <1>8 DEF CredentialsInv, DeviceInv

\* Rows that cleanup takes, and what was staged in them.
LEMMA CollectedRows ==
    ASSUME CredentialsAssumption, CredentialsInv
    PROVE  /\ WithoutCollected \in [DeviceSessions -> SessionRows]
           /\ \A x \in DeviceSessions :
                 WithoutCollected[x] = IF x \in Collected THEN NoRow ELSE row[x]
           /\ Collected \cap Staged \subseteq DeviceSessions
BY NoRowIsRow DEF WithoutCollected, Collected, CredentialsInv, DeviceInv

LEMMA StartsKeep ==
    ASSUME CredentialsAssumption, CredentialsInv, NEW s \in DeviceSessions,
           OAuthStart(s) \/ StartFails(s) \/ DeviceStarted(s)
    PROVE  CredentialsInv'
<1>1. UNCHANGED <<seconds, consent, poll, saved, cookieVars>> /\ starting[s] # "done"
      /\ starting' \in {[starting EXCEPT ![s] = "asking"], [starting EXCEPT ![s] = "done"]}
  BY DEF OAuthStart, StartFails, DeviceStarted
<1>2. /\ DOMAIN starting' = DeviceSessions
      /\ \A x \in DeviceSessions : starting'[x] # "done" => starting[x] # "done"
      /\ \A x \in DeviceSessions : starting[x] = "done" => starting'[x] = "done"
  BY <1>1 DEF CredentialsInv, DeviceInv
<1>3. /\ row \in [DeviceSessions -> SessionRows] /\ saved \cup excused \subseteq DeviceSessions
      /\ Cardinality(Alive) <= SessionCap /\ seconds \in Nat
  BY DEF CredentialsInv, DeviceInv
<1>4. CASE OAuthStart(s) \/ StartFails(s)
  <2>1. UNCHANGED <<row, excused>>
    BY <1>4 DEF OAuthStart, StartFails
  <2>2. Alive' = Alive
    BY <1>1, <2>1 DEF Alive
  <2> QED
    BY <1>1, <1>2, <1>3, <2>1, <2>2, RowsMove
<1>5. CASE DeviceStarted(s)
  <2> DEFINE fresh == [expires |-> seconds + DeviceLife, next |-> seconds, generation |-> 0, staged |-> FALSE]
  <2>1. row' = [WithoutCollected EXCEPT ![s] = fresh] /\ excused' = excused \cup (Collected \cap Staged) /\ Room
    BY <1>5 DEF DeviceStarted
  <2>2. fresh \in SessionRows
    BY <1>3 DEF SessionRows, CredentialsAssumption
  <2>3. /\ row' \in [DeviceSessions -> SessionRows]
        /\ \A x \in DeviceSessions \ {s} : row'[x] = IF x \in Collected THEN NoRow ELSE row[x]
    <3> HIDE DEF fresh
    <3> QED
      BY <2>1, <2>2, CollectedRows
  <2>4. Alive' \subseteq Alive \cup {s}
    <3> SUFFICES ASSUME NEW x \in Alive', x # s PROVE x \in Alive
      OBVIOUS
    <3>1. x \in DeviceSessions /\ row'[x] # NoRow /\ row'[x].expires > seconds
      BY <1>1 DEF Alive
    <3> QED
      BY <2>3, <3>1 DEF Alive
  <2>5. Cardinality(Alive') <= SessionCap
    <3>1. IsFiniteSet(Alive)
      <4>1. Alive \subseteq DeviceSessions /\ IsFiniteSet(DeviceSessions)
        BY DEF Alive, CredentialsAssumption
      <4> QED
        BY <4>1, FS_Subset
    <3>2. IsFiniteSet(Alive \cup {s}) /\ Cardinality(Alive \cup {s}) <= Cardinality(Alive) + 1
          /\ Cardinality(Alive) \in Nat
      <4>1. Cardinality(Alive) \in Nat
        BY <3>1, FS_CardinalityType
      <4>2. IsFiniteSet(Alive \cup {s})
            /\ Cardinality(Alive \cup {s}) = IF s \in Alive THEN Cardinality(Alive) ELSE Cardinality(Alive) + 1
        BY <3>1, FS_AddElement
      <4> QED
        BY <4>1, <4>2
    <3>3. Cardinality(Alive) < SessionCap /\ SessionCap \in Nat
      BY <2>1 DEF Room, CredentialsAssumption
    <3>4. Cardinality(Alive') <= Cardinality(Alive \cup {s}) /\ Cardinality(Alive') \in Nat
          /\ Cardinality(Alive \cup {s}) \in Nat
      <4>1. IsFiniteSet(Alive') /\ Cardinality(Alive') <= Cardinality(Alive \cup {s})
        BY <2>4, <3>2, FS_Subset
      <4> QED
        BY <3>2, <4>1, FS_CardinalityType
    <3> QED
      BY <3>2, <3>3, <3>4
  <2>6. excused \subseteq excused' /\ excused' \subseteq DeviceSessions
    BY <1>3, <2>1, CollectedRows
  <2> HIDE DEF fresh
  <2> QED
    BY <1>1, <1>2, <2>1, <2>3, <2>5, <2>6, RowsMove
<1> QED
  BY <1>4, <1>5

LEMMA CleanupKeeps ==
    ASSUME CredentialsAssumption, CredentialsInv, CleanupCookieOAuth PROVE CredentialsInv'
<1>1. UNCHANGED <<seconds, starting, consent, poll, saved, cookieVars>>
      /\ row' = WithoutCollected /\ excused' = excused \cup (Collected \cap Staged)
  BY DEF CleanupCookieOAuth
<1>2. Alive' \subseteq Alive
  BY <1>1, CollectedRows DEF Alive
<1>3. Cardinality(Alive') <= SessionCap
  BY <1>2, AliveShrinks DEF CredentialsInv, DeviceInv
<1>4. excused \subseteq excused' /\ excused' \subseteq DeviceSessions
  BY <1>1, CollectedRows DEF CredentialsInv, DeviceInv
<1>5. DOMAIN starting' = DeviceSessions
  BY <1>1 DEF CredentialsInv, DeviceInv
<1> QED
  BY <1>1, <1>3, <1>4, <1>5, CollectedRows, RowsMove

LEMMA TimeKeeps == ASSUME CredentialsAssumption, CredentialsInv, TimePasses PROVE CredentialsInv'
<1>1. seconds' = seconds + 1 /\ seconds < MaxTime /\ UNCHANGED <<cookieVars, deviceVars>>
  BY DEF TimePasses
<1>2. seconds \in 0 .. MaxTime /\ MaxTime \in Nat
  BY DEF CredentialsInv, CredentialsAssumption
<1>3. CookieInv'
  BY <1>1, <1>2, CookiesStay DEF CredentialsInv
<1>4. PollsRunning' = PollsRunning
  BY <1>1 DEF PollsRunning, deviceVars
<1>5. \A p \in Polls : PollSound(p)'
  <2> SUFFICES ASSUME NEW p \in Polls PROVE PollSound(p)'
    OBVIOUS
  <2>1. PollSound(p) /\ Lease(p)' = Lease(p)
    BY <1>1 DEF CredentialsInv, DeviceInv, Lease, deviceVars
  <2>2. p \in PollsRunning => seconds' <= poll[p].started + Budget
    <3> SUFFICES ASSUME p \in PollsRunning PROVE seconds' <= poll[p].started + Budget
      OBVIOUS
    <3>1. poll[p].started \in Nat /\ Budget \in Nat
      BY RunningPolls DEF CredentialsAssumption
    <3>2. seconds < poll[p].started + Budget
      BY DEF TimePasses
    <3> QED
      BY <1>1, <1>2, <3>1, <3>2
  <2> QED
    BY <1>1, <1>4, <2>1, <2>2 DEF PollSound, deviceVars
<1>6. \A x \in DeviceSessions : SessionSound(x)'
  BY <1>1, <1>4 DEF CredentialsInv, DeviceInv, SessionSound, Carries, deviceVars
<1>7. Cardinality(Alive') <= SessionCap
  <2>1. row \in [DeviceSessions -> SessionRows] /\ row' = row
    BY <1>1 DEF CredentialsInv, DeviceInv, deviceVars
  <2>2. Alive' \subseteq Alive
    BY <1>1, <1>2, <2>1 DEF Alive, SessionRows
  <2> QED
    BY <2>2, AliveShrinks DEF CredentialsInv, DeviceInv
<1> QED
  BY <1>1, <1>2, <1>3, <1>4, <1>5, <1>6, <1>7 DEF CredentialsInv, DeviceInv, deviceVars

LEMMA ConsentKeeps ==
    ASSUME CredentialsAssumption, CredentialsInv, NEW s \in DeviceSessions, GiveConsent(s) PROVE CredentialsInv'
<1>1. /\ starting[s] = "done" /\ consent' = [consent EXCEPT ![s] = "given"]
      /\ UNCHANGED <<seconds, starting, row, poll, saved, excused, cookieVars>>
  BY DEF GiveConsent
<1>2. CookieInv'
  BY <1>1, CookiesStay DEF CredentialsInv
<1>3. \A x \in DeviceSessions : SessionSound(x)'
  BY <1>1 DEF CredentialsInv, DeviceInv, SessionSound, Carries, PollsRunning
<1>4. DOMAIN consent' = DeviceSessions /\ Alive' = Alive /\ PollsRunning' = PollsRunning
  BY <1>1 DEF CredentialsInv, DeviceInv, Alive, PollsRunning
<1>5. \A p \in Polls : PollSound(p)'
  BY <1>1, <1>4 DEF CredentialsInv, DeviceInv, PollSound, Lease
<1> QED
  BY <1>1, <1>2, <1>3, <1>4, <1>5 DEF CredentialsInv, DeviceInv

LEMMA SwitchesKeep ==
    ASSUME CredentialsInv, DrainCookieOAuth \/ ChangeRoom \/ ChangeCookieUser PROVE CredentialsInv'
<1>1. UNCHANGED <<seconds, starting, row, consent, poll, saved, excused, cookieVars>>
  BY DEF DrainCookieOAuth, ChangeRoom, ChangeCookieUser, deviceVars
<1>2. CookieInv'
  BY <1>1, CookiesStay DEF CredentialsInv
<1>3. DeviceInv'
  BY <1>1 DEF CredentialsInv, DeviceInv, PollSound, SessionSound, PollsRunning, Carries, Alive, Lease
<1> QED
  BY <1>1, <1>2, <1>3 DEF CredentialsInv

LEMMA CredentialsKeep ==
    ASSUME CredentialsAssumption, CredentialsInv, [CredentialsNext]_credentialVars PROVE CredentialsInv'
<1>1. CASE UNCHANGED credentialVars
  <2>1. UNCHANGED <<seconds, cookieVars, deviceVars>>
    BY <1>1 DEF credentialVars
  <2> QED
    BY <2>1, CookiesStay, DevicesStay DEF CredentialsInv
<1>2. CASE CookiesNext
  <2>1. CASE \E i \in Messages :
                \/ HandleDocument(i) \/ HandleUrl(i) \/ LocalReadStarts(i) \/ Fetched(i) \/ CookieFetchFails(i)
                \/ RemovePersonalCookies(i) \/ \E full \in BOOLEAN : StorePersonalCookie(i, full)
    BY <2>1, FetchesKeep, MessagesKeep
  <2>2. CASE \E l \in Lookups :
                \/ ReadForLookup(l) \/ OAuthRefresh(l) \/ LookupFails(l)
                \/ \E valid, rotated \in BOOLEAN : WebCookieValidate(l, valid, rotated)
    BY <2>2, LookupsKeep
  <2>3. CASE \/ \E t \in Tokens : IssueCookieToken(t) \/ SubmitCookieToken(t) \/ EndTokens({t})
             \/ RevokeCookieTokens \/ UploadWebCookie \/ WebCookieDelete
    BY <2>3, TokensKeep, WebWritesKeep
  <2> QED
    BY <1>2, <2>1, <2>2, <2>3, FetchesKeep, SwitchesKeep, TimeKeeps DEF CookiesNext
<1>3. CASE DeviceNext
  BY <1>3, StartsKeep, ConsentKeeps, AcceptKeeps, BeginPollKeeps, EndPollKeeps, TimeOutKeeps, AnswersKeep,
     CleanupKeeps, SwitchesKeep, TimeKeeps DEF DeviceNext
<1> QED
  BY <1>1, <1>2, <1>3 DEF CredentialsNext

\* The stored credential is always the one the user chose last, and one the provider
\* handed out is in the hands of a poll, staged, saved or excused
\* (personal_cookies.rs, cookie_web.rs, cookie_oauth.rs).
THEOREM CredentialsAreAlwaysKept ==
    ASSUME CredentialsAssumption PROVE CredentialsSpec => []CredentialsAreKept
BY CredentialsStart, CredentialsKeep, CredentialsAreEnough, PTL DEF CredentialsSpec
-----------------------------------------------------------------------------
(* Dialogs.  A message is handed to a cut once, when its dialog goes on to *)
(* cutting, and a dialog that was handed over is never confirmed again:    *)
(* that is why a message becomes one operation.  The handler of a          *)
(* confirmation is alone between its transactions, so that the rows are    *)
(* still the ones it claimed.                                              *)

Claims == {"confirming", "submitted"}

\* No quality dialog will admit the message id: it carries no link, or its dialog was
\* replaced or handed over.
Handed(id) ==
    \/ kinds[id] \notin Links
    \/ quality # None /\ (id < quality.origin \/ (id = quality.origin /\ quality.stage = "cutting"))

CutSound(c) ==
    /\ c \in CutRows /\ CutDecodes(c)
    /\ c.editing # None => c.editing \in DOMAIN c.clips
    /\ c.origin = c.id /\ c.id <= c.last /\ c.id \in DOMAIN kinds
    /\ Handed(c.id) /\ ~Admitted(QualityOf(c.id))
    /\ c.linked # None /\ c.stage # "cancelled" => c.linked \in intents
    /\ c.stage \notin Claims => ~Admitted(CutKey(c.id))
    /\ c.stage = "submitted" => c.op = CutKey(c.id) /\ Admitted(CutKey(c.id))

QualitySound(q) ==
    /\ q \in QualityRows /\ QualityDecodes(q)
    /\ q.id = q.origin /\ q.id \in DOMAIN kinds /\ kinds[q.id] \in Links
    /\ q.id \in intents
    /\ q.stage \notin Claims => ~Admitted(QualityOf(q.id))
    /\ q.stage = "submitted" => q.op = QualityOf(q.id) /\ Admitted(QualityOf(q.id))

OperationRows ==
    [key : Keys, link : Nat, clips : Seq(Nat), choice : QualityChoices \cup {None}, media : BOOLEAN]

\* The operations, each from its link or from the cut of its message, and what the
\* rows of today still show of them.
OperationSound(o) ==
    /\ o \in OperationRows
    /\ \/ o.key = QualityOf(o.link) /\ o.link \in DOMAIN kinds /\ kinds[o.link] \in Links
       \/ /\ o.key = CutKey(o.link) /\ Handed(o.link) /\ ~Admitted(QualityOf(o.link))
          /\ cut # None /\ o.link <= cut.id /\ o.link \in DOMAIN kinds
    /\ cut # None /\ o.key = CutKey(cut.id) =>
          o.clips = cut.clips /\ o.choice = cut.selected /\ (o.media <=> cut.linked # None)
    /\ quality # None /\ o.key = QualityOf(quality.id) => o.choice = quality.selected /\ o.media

HandlerRows ==
    [pc : {"admit", "replay", "admitted"}, key : Keys, rev : Nat, id : Nat, link : Nat,
     clips : Seq(Nat), choice : QualityChoices \cup {None}, linked : Nat \cup {None}]

\* The row the handler h of a confirmation claimed.
OfCut(h) ==
    /\ h.pc # "replay" /\ h.key = CutKey(h.id)
    /\ cut # None /\ cut.id = h.id /\ cut.stage \in Claims
    /\ h.clips = cut.clips /\ h.choice = cut.selected /\ h.linked = cut.linked

OfQuality(h) ==
    /\ h.key = QualityOf(h.id)
    /\ quality # None /\ quality.id = h.id /\ quality.stage \in Claims
    /\ h.choice = quality.selected /\ h.linked = quality.id

HandlerSound(h) ==
    \/ h = Idle
    \/ /\ h \in HandlerRows /\ h.link = h.id
       /\ OfCut(h) \/ OfQuality(h)
       /\ h.pc = "admitted" => Admitted(h.key)

DialogInv ==
    /\ kinds \in Seq(MessageKinds) /\ intents \subseteq DOMAIN kinds
    /\ cut # None => CutSound(cut)
    /\ quality # None => QualitySound(quality)
    /\ \A o \in ops : OperationSound(o)
    /\ \A o, p \in ops : o.key = p.key => o = p
    /\ HandlerSound(handler)

\* What was sent stays sent.
KindsGrow ==
    /\ kinds' \in Seq(MessageKinds) /\ DOMAIN kinds \subseteq DOMAIN kinds'
    /\ \A i \in DOMAIN kinds : kinds'[i] = kinds[i]

\* The row of the cut dialog is edited, as long as it was not admitted, or makes room
\* for a later one.
CutGoesOn ==
    cut # None =>
        /\ cut' # None
        /\ \/ cut'.id > cut.id
           \/ /\ cut'.id = cut.id
              /\ Admitted(CutKey(cut.id)) =>
                    /\ cut'.clips = cut.clips /\ cut'.selected = cut.selected
                    /\ cut'.linked # None <=> cut.linked # None

\* The same of the quality dialog, which stays handed over once it is.
QualityGoesOn ==
    quality' # None =>
        \/ /\ quality # None /\ quality'.id = quality.id
           /\ quality.stage = "cutting" => quality'.stage = "cutting"
           /\ Admitted(QualityOf(quality.id)) => quality'.selected = quality.selected
        \/ /\ quality # None => quality'.id > quality.id
           /\ ~Admitted(QualityOf(quality'.id))

LEMMA KindsStay == ASSUME DialogInv, kinds' = kinds PROVE KindsGrow
BY DEF DialogInv, KindsGrow

LEMMA KindsAppended ==
    ASSUME DialogInv, NEW kind \in MessageKinds, kinds' = Append(kinds, kind)
    PROVE  /\ KindsGrow /\ Len(kinds) + 1 \in DOMAIN kinds' /\ kinds'[Len(kinds) + 1] = kind
           /\ Len(kinds) \in Nat
<1>1. kinds \in Seq(MessageKinds)
  BY DEF DialogInv
<1>2. /\ kinds' \in Seq(MessageKinds) /\ Len(kinds') = Len(kinds) + 1 /\ Len(kinds) \in Nat
      /\ \A i \in 1 .. Len(kinds) : kinds'[i] = kinds[i]
      /\ kinds'[Len(kinds) + 1] = kind
  BY <1>1
<1>3. DOMAIN kinds = 1 .. Len(kinds) /\ DOMAIN kinds' = 1 .. Len(kinds')
  BY <1>1, <1>2
<1> QED
  BY <1>2, <1>3 DEF KindsGrow

LEMMA MessageIds == ASSUME DialogInv PROVE DOMAIN kinds \subseteq Nat
<1>1. DOMAIN kinds = 1 .. Len(kinds) /\ Len(kinds) \in Nat
  BY DEF DialogInv
<1> QED
  BY <1>1

LEMMA KeysDiffer ==
    ASSUME NEW a, NEW b
    PROVE  /\ QualityOf(a) # CutKey(b)
           /\ QualityOf(a) = QualityOf(b) <=> a = b
           /\ CutKey(a) = CutKey(b) <=> a = b
           /\ a \in Nat => QualityOf(a) \in Keys /\ CutKey(a) \in Keys
BY DEF QualityOf, CutKey, Keys

LEMMA RowTypes ==
    ASSUME DialogInv
    PROVE  /\ cut # None => cut \in CutRows /\ CutSound(cut) /\ cut.id \in Nat /\ cut.last \in Nat
           /\ quality # None => /\ quality \in QualityRows /\ QualitySound(quality)
                                /\ quality.id \in Nat /\ quality.origin = quality.id
BY DEF DialogInv, CutSound, QualitySound, CutRows, QualityRows

\* A message that was handed over stays so.
LEMMA HandedStays ==
    ASSUME DialogInv, KindsGrow, QualityGoesOn, quality # None => quality' # None,
           quality' # None => quality'.origin = quality'.id /\ quality'.id \in Nat,
           NEW i \in DOMAIN kinds, Handed(i)
    PROVE  Handed(i)'
<1>1. i \in Nat
  BY MessageIds
<1>2. CASE kinds[i] \notin Links
  BY <1>2 DEF KindsGrow, Handed
<1>3. CASE quality # None /\ (i < quality.origin \/ (i = quality.origin /\ quality.stage = "cutting"))
  <2>1. quality.id \in Nat /\ quality.origin = quality.id
    BY <1>3, RowTypes
  <2>2. i < quality'.origin \/ (i = quality'.origin /\ quality'.stage = "cutting")
    BY <1>1, <1>3, <2>1 DEF QualityGoesOn
  <2> QED
    BY <1>3, <2>2 DEF Handed
<1> QED
  BY <1>2, <1>3 DEF Handed

\* While no operation is added, the rows may go on and every operation stays sound.
LEMMA OperationsStay ==
    ASSUME DialogInv, KindsGrow, ops' = ops, CutGoesOn, QualityGoesOn, quality # None => quality' # None,
           quality' # None => quality'.origin = quality'.id /\ quality'.id \in Nat,
           cut' # None => cut'.id \in Nat
    PROVE  \A o \in ops : OperationSound(o)'
<1> SUFFICES ASSUME NEW o \in ops PROVE OperationSound(o)'
  OBVIOUS
<1>1. OperationSound(o) /\ o \in OperationRows /\ o.link \in Nat
  BY DEF DialogInv, OperationSound, OperationRows
<1>2. \/ o.key = QualityOf(o.link) /\ o.link \in DOMAIN kinds' /\ kinds'[o.link] \in Links
      \/ /\ o.key = CutKey(o.link) /\ Handed(o.link)' /\ ~Admitted(QualityOf(o.link))'
         /\ cut' # None /\ o.link <= cut'.id /\ o.link \in DOMAIN kinds'
  <2>1. CASE o.key = QualityOf(o.link) /\ o.link \in DOMAIN kinds /\ kinds[o.link] \in Links
    BY <2>1 DEF KindsGrow
  <2>2. CASE /\ o.key = CutKey(o.link) /\ Handed(o.link) /\ ~Admitted(QualityOf(o.link))
             /\ cut # None /\ o.link <= cut.id /\ o.link \in DOMAIN kinds
    <3>1. Handed(o.link)' /\ o.link \in DOMAIN kinds'
      BY <2>2, HandedStays DEF KindsGrow
    <3>2. ~Admitted(QualityOf(o.link))'
      BY <2>2 DEF Admitted, QualityOf
    <3>3. cut' # None /\ cut.id \in Nat /\ cut'.id \in Nat /\ cut'.id >= cut.id
      BY <2>2, RowTypes DEF CutGoesOn
    <3> QED
      BY <1>1, <2>2, <3>1, <3>2, <3>3
  <2> QED
    BY <1>1, <2>1, <2>2 DEF OperationSound
<1>3. cut' # None /\ o.key = CutKey(cut'.id) =>
          o.clips = cut'.clips /\ o.choice = cut'.selected /\ (o.media <=> cut'.linked # None)
  <2> SUFFICES ASSUME cut' # None, o.key = CutKey(cut'.id)
               PROVE  o.clips = cut'.clips /\ o.choice = cut'.selected /\ (o.media <=> cut'.linked # None)
    OBVIOUS
  <2>1. o.link = cut'.id /\ cut # None /\ o.link <= cut.id
    BY <1>1, KeysDiffer DEF OperationSound
  <2>2. cut'.id = cut.id
    BY <2>1, RowTypes DEF CutGoesOn
  <2>3. Admitted(CutKey(cut.id))
    BY <2>2 DEF Admitted
  <2> QED
    BY <1>1, <2>1, <2>2, <2>3, RowTypes DEF OperationSound, CutGoesOn
<1>4. quality' # None /\ o.key = QualityOf(quality'.id) => o.choice = quality'.selected /\ o.media
  <2> SUFFICES ASSUME quality' # None, o.key = QualityOf(quality'.id)
               PROVE  o.choice = quality'.selected /\ o.media
    OBVIOUS
  <2>1. Admitted(QualityOf(quality'.id))
    BY DEF Admitted
  <2>2. quality # None /\ quality'.id = quality.id /\ quality'.selected = quality.selected
    BY <2>1 DEF QualityGoesOn
  <2> QED
    BY <1>1, <2>2 DEF OperationSound
<1> QED
  BY <1>1, <1>2, <1>3, <1>4 DEF OperationSound

\* A step that adds no operation.
LEMMA RowsGoOn ==
    ASSUME DialogInv, KindsGrow, ops' = ops, CutGoesOn, QualityGoesOn, quality # None => quality' # None,
           intents' \subseteq DOMAIN kinds',
           cut' # None => CutSound(cut)', quality' # None => QualitySound(quality)', HandlerSound(handler)'
    PROVE  DialogInv'
<1>1. quality' # None => quality'.origin = quality'.id /\ quality'.id \in Nat
  BY DEF QualitySound, QualityRows
<1>2. cut' # None => cut'.id \in Nat
  BY DEF CutSound, CutRows
<1>3. \A o \in ops : OperationSound(o)'
  BY <1>1, <1>2, OperationsStay
<1> QED
  BY <1>3 DEF DialogInv, KindsGrow

LEMMA AdmittedStays == ASSUME ops' = ops, NEW k PROVE Admitted(k)' <=> Admitted(k)
BY DEF Admitted

\* A row that nothing is written to, and one whose clips are being edited, stays sound.
LEMMA CutStays ==
    ASSUME DialogInv, KindsGrow, QualityGoesOn, ops' = ops, quality # None => quality' # None,
           quality' # None => quality'.origin = quality'.id /\ quality'.id \in Nat,
           cut # None, NEW s \in CutRows, CutDecodes(s),
           s.editing # None => s.editing \in DOMAIN s.clips,
           s.id = cut.id, s.origin = cut.origin, s.last >= cut.last,
           s.linked # None /\ s.stage # "cancelled" => s.linked \in intents',
           s.stage \notin Claims => ~Admitted(CutKey(cut.id)),
           s.stage = "submitted" => s.op = CutKey(cut.id) /\ Admitted(CutKey(cut.id))
    PROVE  CutSound(s)'
<1>1. CutSound(cut) /\ cut.id \in Nat /\ cut.last \in Nat /\ s.last \in Nat
  BY RowTypes DEF CutRows
<1>2. s.origin = s.id /\ s.id <= s.last /\ s.id \in DOMAIN kinds'
  BY <1>1 DEF CutSound, KindsGrow
<1>3. Handed(s.id)'
  BY <1>1, HandedStays DEF CutSound
<1>4. ~Admitted(QualityOf(s.id))'
  BY <1>1, AdmittedStays DEF CutSound, QualityOf
<1>5. Admitted(CutKey(s.id))' <=> Admitted(CutKey(cut.id))
  BY AdmittedStays DEF CutKey
<1>6. CutDecodes(s)' /\ s' = s
  BY DEF CutDecodes
<1> QED
  BY <1>2, <1>3, <1>4, <1>5, <1>6 DEF CutSound, CutKey

LEMMA QualityStays ==
    ASSUME DialogInv, KindsGrow, ops' = ops, quality # None, NEW q \in QualityRows, QualityDecodes(q),
           q.id = quality.id, q.origin = quality.origin, quality.id \in intents',
           q.stage \notin Claims => ~Admitted(QualityOf(quality.id)),
           q.stage = "submitted" => q.op = QualityOf(quality.id) /\ Admitted(QualityOf(quality.id))
    PROVE  QualitySound(q)'
<1>1. QualitySound(quality)
  BY RowTypes
<1>2. q.id = q.origin /\ q.id \in DOMAIN kinds' /\ kinds'[q.id] \in Links
  BY <1>1 DEF QualitySound, KindsGrow
<1>3. Admitted(QualityOf(q.id))' <=> Admitted(QualityOf(quality.id))
  BY AdmittedStays DEF QualityOf
<1> QED
  BY <1>2, <1>3 DEF QualitySound, QualityDecodes, QualityOf

LEMMA QualityUntouched ==
    ASSUME DialogInv, quality' = quality
    PROVE  /\ QualityGoesOn /\ (quality # None => quality' # None)
           /\ quality' # None => quality'.origin = quality'.id /\ quality'.id \in Nat
BY RowTypes DEF QualityGoesOn

LEMMA CutUntouched == ASSUME DialogInv, cut' = cut PROVE CutGoesOn
BY DEF CutGoesOn

\* The intents a new row of the cut releases are not those that are still needed.
LEMMA ReleasesKeep ==
    ASSUME DialogInv, NEW s, intents' = intents \ CutReleases(s, quality)
    PROVE  /\ intents' \subseteq intents
           /\ quality # None => quality.id \in intents'
           /\ s # None /\ s.linked # None /\ s.linked \in intents /\ s.stage # "cancelled" => s.linked \in intents'
<1>1. quality # None => quality.id \in intents
  BY DEF DialogInv, QualitySound
<1> QED
  BY <1>1 DEF CutReleases, CutLinks

\* The handler of a confirmation is alone: nothing else is in progress.
LEMMA IdleIsSound == ASSUME NEW h, h = Idle PROVE HandlerSound(h)'
BY DEF HandlerSound, Idle

\* A transaction of the cut dialog that edits its row.
LEMMA CutEdited ==
    ASSUME DialogAssumption, DialogInv, KindsGrow, ops' = ops, cut # None, NEW s \in CutRows, PutCut(s),
           CutDecodes(s), s.editing # None => s.editing \in DOMAIN s.clips,
           s.id = cut.id, s.origin = cut.origin, s.last >= cut.last, s.linked = cut.linked,
           \/ cut.stage \notin Claims
           \/ s.stage \in Claims /\ s.clips = cut.clips /\ s.selected = cut.selected,
           s.stage = "submitted" => s.op = CutKey(cut.id) /\ Admitted(CutKey(cut.id)),
           cut.stage = "cancelled" => s.stage = "cancelled",
           HandlerSound(handler)'
    PROVE  DialogInv'
<1>1. cut' = s /\ quality' = quality /\ intents' = intents \ CutReleases(s, quality) /\ s # None
  BY DEF PutCut, DialogAssumption
<1>2. QualityGoesOn /\ (quality # None => quality' # None)
      /\ (quality' # None => quality'.origin = quality'.id /\ quality'.id \in Nat)
  BY <1>1, QualityUntouched
<1>3. CutSound(cut)
  BY RowTypes
<1>4. cut.stage \notin Claims => ~Admitted(CutKey(cut.id))
  BY <1>3 DEF CutSound
<1>5. s.linked # None /\ s.stage # "cancelled" => s.linked \in intents'
  BY <1>1, <1>3, ReleasesKeep DEF CutSound
<1>6. CutSound(s)'
  BY <1>2, <1>4, <1>5, CutStays
<1>7. CutGoesOn
  BY <1>1, <1>4 DEF CutGoesOn
<1>8. quality' # None => QualitySound(quality)'
  <2> SUFFICES ASSUME quality # None PROVE QualitySound(quality)'
    BY <1>1
  <2>1. quality.id \in intents' /\ QualitySound(quality)
    BY <1>1, ReleasesKeep, RowTypes
  <2>2. QualitySound(quality)'
    BY <1>1, <2>1, QualityStays DEF QualitySound
  <2> QED
    BY <2>2
<1>9. intents' \subseteq DOMAIN kinds'
  BY <1>1, ReleasesKeep DEF DialogInv, KindsGrow
<1> QED
  BY <1>1, <1>2, <1>6, <1>7, <1>8, <1>9, RowsGoOn

\* A new session of the cut dialog, above everything the last one has seen.
LEMMA CutBegun ==
    ASSUME DialogAssumption, DialogInv, KindsGrow, ops' = ops, NEW m \in DOMAIN kinds', kinds'[m] \notin Links,
           NEW stage \in {"start", "end"}, CutBegin(m, stage), HandlerSound(handler)'
    PROVE  DialogInv'
<1> DEFINE s == NewCut(m, stage)
<1>1. cut' = s /\ quality' = quality /\ intents' = intents \ CutReleases(s, quality)
      /\ (cut # None => m > cut.last)
  BY DEF PutCut, CutBegin
<1>2. m \in Nat
  BY DEF KindsGrow
<1>3. s \in CutRows /\ s.id = m /\ s.origin = m /\ s.last = m /\ s.linked = None /\ s.stage = stage /\ s.clips = <<>>
      /\ CutDecodes(s) /\ s.editing = None
  <2>1. s \in CutRows /\ s.id = m /\ s.origin = m /\ s.last = m /\ s.linked = None /\ s.stage = stage
        /\ s.clips = <<>> /\ s.selected = None /\ s.editing = None /\ ~s.original
    BY <1>2 DEF NewCut, CutRows, CutStages
  <2>2. Len(s.clips) = 0 /\ MaxClips \in Nat /\ s.selected # Audio
    BY <2>1 DEF DialogAssumption
  <2> QED
    BY <2>1, <2>2 DEF CutDecodes, CutStages
<1> HIDE DEF s
<1>4. s # None
  BY <1>3 DEF DialogAssumption
<1>5. cut # None => m > cut.id /\ cut.id \in Nat
  BY <1>1, <1>2, RowTypes DEF CutSound
<1>6. CutGoesOn
  BY <1>1, <1>3, <1>4, <1>5 DEF CutGoesOn
<1>7. QualityGoesOn /\ (quality # None => quality' # None)
      /\ (quality' # None => quality'.origin = quality'.id /\ quality'.id \in Nat)
  BY <1>1, QualityUntouched
<1>8. ~Admitted(QualityOf(m))' /\ ~Admitted(CutKey(m))'
  <2>1. ASSUME NEW o \in ops, o.key = QualityOf(m) PROVE FALSE
    <3>1. o.link = m /\ kinds[m] \in Links /\ m \in DOMAIN kinds
      BY <2>1, KeysDiffer DEF DialogInv, OperationSound
    <3> QED
      BY <3>1 DEF KindsGrow
  <2>2. ASSUME NEW o \in ops, o.key = CutKey(m) PROVE FALSE
    <3>1. o.link = m /\ cut # None /\ m <= cut.id
      BY <2>2, KeysDiffer DEF DialogInv, OperationSound
    <3> QED
      BY <1>2, <1>5, <3>1
  <2> QED
    BY <2>1, <2>2 DEF Admitted, QualityOf, CutKey
<1>9. CutSound(s)'
  <2>1. Handed(m)'
    BY DEF Handed
  <2>2. CutDecodes(s)'
    BY <1>3 DEF CutDecodes
  <2> QED
    BY <1>2, <1>3, <1>8, <2>1, <2>2 DEF CutSound, QualityOf, CutKey, Claims
<1>10. quality' # None => QualitySound(quality)'
  <2> SUFFICES ASSUME quality # None PROVE QualitySound(quality)'
    BY <1>1
  <2>1. quality.id \in intents' /\ QualitySound(quality)
    BY <1>1, ReleasesKeep, RowTypes
  <2> QED
    BY <1>1, <2>1, QualityStays DEF QualitySound
<1>11. intents' \subseteq DOMAIN kinds'
  BY <1>1, ReleasesKeep DEF DialogInv, KindsGrow
<1> QED
  BY <1>1, <1>6, <1>7, <1>9, <1>10, <1>11, RowsGoOn

-----------------------------------------------------------------------------
(* The transactions of cut.rs. *)

LEMMA BumpedCut ==
    ASSUME NEW c \in CutRows
    PROVE  /\ Bump(c) \in CutRows
           /\ Bump(c).id = c.id /\ Bump(c).stage = c.stage /\ Bump(c).origin = c.origin /\ Bump(c).last = c.last
           /\ Bump(c).clips = c.clips /\ Bump(c).editing = c.editing /\ Bump(c).op = c.op
           /\ Bump(c).selected = c.selected /\ Bump(c).original = c.original /\ Bump(c).linked = c.linked
BY DEF Bump, CutRows

\* A cut that is waiting for a time takes it.
LEMMA InputKeeps ==
    ASSUME DialogAssumption, DialogInv, KindsGrow, ops' = ops, NEW m \in DOMAIN kinds', CutInput(m),
           HandlerSound(handler)'
    PROVE  DialogInv'
<1> DEFINE b == Bump(cut)
<1>1. cut # None /\ m > cut.last /\ m \in Nat
  BY DEF CutInput, KindsGrow
<1>2. cut \in CutRows /\ CutDecodes(cut) /\ cut.last \in Nat
      /\ (cut.editing # None => cut.editing \in DOMAIN cut.clips)
  BY <1>1, RowTypes DEF CutSound
<1>3. /\ b \in CutRows
      /\ b.id = cut.id /\ b.stage = cut.stage /\ b.origin = cut.origin /\ b.last = cut.last
      /\ b.clips = cut.clips /\ b.editing = cut.editing /\ b.op = cut.op
      /\ b.selected = cut.selected /\ b.original = cut.original /\ b.linked = cut.linked
  BY <1>2, BumpedCut
<1> HIDE DEF b
<1>4. ASSUME cut.stage = "start", PutCut([b EXCEPT !.stage = "end", !.last = m]) PROVE DialogInv'
  <2> DEFINE s == [b EXCEPT !.stage = "end", !.last = m]
  <2>1. /\ s \in CutRows /\ s.id = b.id /\ s.stage = "end" /\ s.origin = b.origin /\ s.last = m
        /\ s.clips = b.clips /\ s.editing = b.editing /\ s.selected = b.selected /\ s.original = b.original
        /\ s.linked = b.linked
    BY <1>1, <1>3 DEF CutRows, CutStages
  <2> HIDE DEF s
  <2>2. CutDecodes(s)
    BY <1>2, <1>3, <1>4, <2>1 DEF CutDecodes, CutStages
  <2>3. PutCut(s)
    BY <1>4 DEF s
  <2> QED
    BY <1>1, <1>2, <1>3, <1>4, <2>1, <2>2, <2>3, CutEdited DEF Claims
<1>5. ASSUME cut.stage = "end", cut.editing = None => Len(cut.clips) < MaxClips,
             PutCut([b EXCEPT !.stage = "ready", !.last = m, !.clips = WithClip(cut, m), !.editing = None])
      PROVE  DialogInv'
  <2> DEFINE clips == WithClip(cut, m)
             s == [b EXCEPT !.stage = "ready", !.last = m, !.clips = clips, !.editing = None]
  <2>1. clips \in Seq(Nat) /\ Len(clips) <= MaxClips /\ clips # <<>>
    <3>1. cut.clips \in Seq(Nat) /\ Len(cut.clips) \in Nat /\ Len(cut.clips) <= MaxClips /\ MaxClips \in Nat
          /\ DOMAIN cut.clips = 1 .. Len(cut.clips)
          /\ (cut.editing # None => cut.editing \in 1 .. Len(cut.clips))
      BY <1>2 DEF CutRows, CutDecodes, DialogAssumption
    <3>2. CASE cut.editing = None
      <4>1. clips = Append(cut.clips, m)
        BY <3>2 DEF WithClip
      <4>2. Append(cut.clips, m) \in Seq(Nat) /\ Len(Append(cut.clips, m)) = Len(cut.clips) + 1
        BY <1>1, <3>1
      <4>3. Len(clips) <= MaxClips /\ Len(clips) # 0
        BY <1>5, <3>1, <3>2, <4>1, <4>2
      <4> QED
        BY <4>1, <4>2, <4>3
    <3>3. CASE cut.editing # None
      <4>1. clips = [cut.clips EXCEPT ![cut.editing] = m]
        BY <3>3 DEF WithClip
      <4>2. [cut.clips EXCEPT ![cut.editing] = m] \in Seq(Nat)
            /\ Len([cut.clips EXCEPT ![cut.editing] = m]) = Len(cut.clips)
        BY <1>1, <3>1, <3>3, ExceptSeq
      <4>4. Len(cut.clips) # 0
        BY <3>1, <3>3
      <4> QED
        BY <3>1, <4>1, <4>2, <4>4
    <3> QED
      BY <3>2, <3>3
  <2> HIDE DEF clips
  <2>2. /\ s \in CutRows /\ s.id = b.id /\ s.stage = "ready" /\ s.origin = b.origin /\ s.last = m
        /\ s.clips = clips /\ s.editing = None /\ s.selected = b.selected /\ s.original = b.original
        /\ s.linked = b.linked
    BY <1>1, <1>3, <2>1 DEF CutRows, CutStages
  <2> HIDE DEF s
  <2>3. CutDecodes(s)
    BY <1>2, <1>3, <1>5, <2>1, <2>2 DEF CutDecodes, CutStages
  <2>4. PutCut(s)
    BY <1>5 DEF s, clips
  <2> QED
    BY <1>1, <1>2, <1>3, <1>5, <2>2, <2>3, <2>4, CutEdited DEF Claims
<1> QED
  BY <1>4, <1>5 DEF CutInput, b

\* A segment is opened again, or a new one.
LEMMA ReopenKeeps ==
    ASSUME DialogAssumption, DialogInv, KindsGrow, ops' = ops, HandlerSound(handler)',
           NEW index, cut # None, cut.stage \in Editable, index = None \/ index \in DOMAIN cut.clips,
           PutCut(Reopened(index))
    PROVE  DialogInv'
<1> DEFINE b == Bump(cut)
           s == [b EXCEPT !.stage = "start", !.editing = index, !.selected = None, !.op = None]
<1>1. cut \in CutRows /\ CutDecodes(cut) /\ cut.last \in Nat /\ cut.clips \in Seq(Nat)
  BY RowTypes DEF CutSound, CutRows
<1>2. /\ b \in CutRows
      /\ b.id = cut.id /\ b.stage = cut.stage /\ b.origin = cut.origin /\ b.last = cut.last
      /\ b.clips = cut.clips /\ b.editing = cut.editing /\ b.op = cut.op
      /\ b.selected = cut.selected /\ b.original = cut.original /\ b.linked = cut.linked
  BY <1>1, BumpedCut
<1>3. index = None \/ (index \in Nat /\ index <= Len(cut.clips))
  BY <1>1
<1> HIDE DEF b
<1>4. /\ s \in CutRows /\ s.id = b.id /\ s.stage = "start" /\ s.origin = b.origin /\ s.last = b.last
      /\ s.clips = b.clips /\ s.editing = index /\ s.selected = None /\ s.original = b.original
      /\ s.linked = b.linked
  BY <1>2, <1>3 DEF CutRows, CutStages
<1> HIDE DEF s
<1>5. CutDecodes(s)
  BY <1>1, <1>2, <1>3, <1>4 DEF CutDecodes, CutStages, Editable, DialogAssumption
<1>6. PutCut(s)
  BY DEF s, b, Reopened
<1> QED
  BY <1>1, <1>2, <1>4, <1>5, <1>6, CutEdited DEF Claims, Editable

\* A clip is taken out; without any, the cut waits for its start again.
LEMMA DeleteKeepsRow ==
    ASSUME DialogAssumption, DialogInv, KindsGrow, ops' = ops, HandlerSound(handler)',
           NEW id, NEW rev, NEW index, CutDeleteSegment(id, rev, index)
    PROVE  DialogInv'
<1> DEFINE b == Bump(cut)
           left == Without(cut.clips, index)
           stage == IF left = <<>> THEN "start" ELSE "ready"
           s == [b EXCEPT !.stage = stage, !.clips = left, !.editing = None, !.selected = None, !.op = None]
<1>1. cut # None /\ cut.stage \in Editable /\ index \in DOMAIN cut.clips /\ PutCut(s)
  BY DEF CutDeleteSegment, Require
<1>2. cut \in CutRows /\ CutDecodes(cut) /\ cut.last \in Nat /\ cut.clips \in Seq(Nat)
  BY <1>1, RowTypes DEF CutSound, CutRows
<1>3. /\ b \in CutRows
      /\ b.id = cut.id /\ b.stage = cut.stage /\ b.origin = cut.origin /\ b.last = cut.last
      /\ b.clips = cut.clips /\ b.editing = cut.editing /\ b.op = cut.op
      /\ b.selected = cut.selected /\ b.original = cut.original /\ b.linked = cut.linked
  BY <1>2, BumpedCut
<1>4. left \in Seq(Nat) /\ Len(left) <= MaxClips
  <2>1. Len(cut.clips) \in Nat /\ Len(cut.clips) >= 1 /\ Len(cut.clips) <= MaxClips
        /\ \A i \in 1 .. Len(cut.clips) : cut.clips[i] \in Nat
    BY <1>1, <1>2 DEF CutDecodes
  <2>2. Len(cut.clips) - 1 \in Nat /\ MaxClips \in Nat
    BY <2>1 DEF DialogAssumption
  <2>3. \A i \in 1 .. Len(cut.clips) - 1 : (IF i < index THEN cut.clips[i] ELSE cut.clips[i + 1]) \in Nat
    BY <2>1
  <2>4. left \in Seq(Nat) /\ Len(left) = Len(cut.clips) - 1
    BY <2>2, <2>3, IsASeq DEF Without
  <2> QED
    BY <2>1, <2>2, <2>4
<1> HIDE DEF b, left
<1>5. /\ s \in CutRows /\ s.id = b.id /\ s.stage = stage /\ s.origin = b.origin /\ s.last = b.last
      /\ s.clips = left /\ s.editing = None /\ s.selected = None /\ s.original = b.original
      /\ s.linked = b.linked
  <2>1. stage \in CutStages
    BY DEF CutStages
  <2> HIDE DEF stage
  <2> QED
    BY <1>3, <1>4, <2>1 DEF CutRows
<1> HIDE DEF s
<1>6. CutDecodes(s)
  BY <1>2, <1>3, <1>4, <1>5, <1>1 DEF CutDecodes, CutStages, Editable, DialogAssumption
<1> QED
  BY <1>1, <1>2, <1>3, <1>5, <1>6, CutEdited DEF Claims, Editable

LEMMA BackKeeps ==
    ASSUME DialogAssumption, DialogInv, KindsGrow, ops' = ops, HandlerSound(handler)',
           NEW id, NEW rev, CutBack(id, rev)
    PROVE  DialogInv'
<1> DEFINE b == Bump(cut)
           s == [b EXCEPT !.stage = "ready", !.editing = None, !.selected = None]
<1>1. cut # None /\ cut.stage \in {"start", "end"} /\ cut.clips # <<>> /\ PutCut(s)
  BY DEF CutBack, Require
<1>2. cut \in CutRows /\ CutDecodes(cut) /\ cut.last \in Nat
  BY <1>1, RowTypes DEF CutSound, CutRows
<1>3. /\ b \in CutRows
      /\ b.id = cut.id /\ b.stage = cut.stage /\ b.origin = cut.origin /\ b.last = cut.last
      /\ b.clips = cut.clips /\ b.editing = cut.editing /\ b.op = cut.op
      /\ b.selected = cut.selected /\ b.original = cut.original /\ b.linked = cut.linked
  BY <1>2, BumpedCut
<1> HIDE DEF b
<1>4. /\ s \in CutRows /\ s.id = b.id /\ s.stage = "ready" /\ s.origin = b.origin /\ s.last = b.last
      /\ s.clips = b.clips /\ s.editing = None /\ s.selected = None /\ s.original = b.original
      /\ s.linked = b.linked
  BY <1>3 DEF CutRows, CutStages
<1> HIDE DEF s
<1>5. CutDecodes(s)
  BY <1>1, <1>2, <1>3, <1>4 DEF CutDecodes, CutStages, DialogAssumption
<1> QED
  BY <1>1, <1>2, <1>3, <1>4, <1>5, CutEdited DEF Claims

LEMMA CancelKeeps ==
    ASSUME DialogAssumption, DialogInv, KindsGrow, ops' = ops, HandlerSound(handler)',
           NEW id, NEW rev, NEW message, message = None \/ message \in Nat, CutCancel(id, rev, message)
    PROVE  DialogInv'
<1> DEFINE b == Bump(cut)
           last == IF message = None THEN cut.last ELSE message
           s == [b EXCEPT !.stage = "cancelled", !.clips = <<>>, !.editing = None, !.selected = None,
                          !.original = FALSE, !.last = last]
<1>1. cut # None /\ cut.stage \in CutLive \ {"confirming"} /\ (message # None => message > cut.last)
  BY DEF CutCancel, Require
<1>2. cut \in CutRows /\ CutDecodes(cut) /\ cut.last \in Nat
  BY <1>1, RowTypes DEF CutSound, CutRows
<1>3. /\ b \in CutRows
      /\ b.id = cut.id /\ b.stage = cut.stage /\ b.origin = cut.origin /\ b.last = cut.last
      /\ b.clips = cut.clips /\ b.editing = cut.editing /\ b.op = cut.op
      /\ b.selected = cut.selected /\ b.original = cut.original /\ b.linked = cut.linked
  BY <1>2, BumpedCut
<1>4. last \in Nat /\ last >= cut.last
  BY <1>1, <1>2
<1>5. PutCut(s)
  BY <1>3 DEF CutCancel
<1> HIDE DEF b, last
<1>6. /\ s \in CutRows /\ s.id = b.id /\ s.stage = "cancelled" /\ s.origin = b.origin /\ s.last = last
      /\ s.clips = <<>> /\ s.editing = None /\ s.selected = None /\ ~s.original
      /\ s.linked = b.linked
  <2> DEFINE none == <<>>
             t == [b EXCEPT !.stage = "cancelled", !.clips = none, !.editing = None]
  <2>1. none \in Seq(Nat)
    OBVIOUS
  <2> HIDE DEF none
  <2>2. /\ t \in CutRows /\ t.id = b.id /\ t.stage = "cancelled" /\ t.origin = b.origin
        /\ t.clips = none /\ t.editing = None /\ t.linked = b.linked
    BY <1>3, <2>1 DEF CutRows, CutStages
  <2>3. s = [t EXCEPT !.selected = None, !.original = FALSE, !.last = last]
    BY DEF none
  <2> HIDE DEF t, s
  <2>4. /\ s \in CutRows /\ s.id = t.id /\ s.stage = t.stage /\ s.origin = t.origin /\ s.last = last
        /\ s.clips = t.clips /\ s.editing = t.editing /\ s.selected = None /\ ~s.original /\ s.linked = t.linked
    BY <1>4, <2>2, <2>3 DEF CutRows
  <2> QED
    BY <2>2, <2>4 DEF none
<1> HIDE DEF s
<1>7. CutDecodes(s)
  <2>1. Len(s.clips) <= MaxClips
    BY <1>6 DEF DialogAssumption
  <2> QED
    BY <1>6, <2>1 DEF CutDecodes, CutStages, DialogAssumption
<1> QED
  BY <1>1, <1>2, <1>3, <1>4, <1>5, <1>6, <1>7, CutEdited DEF Claims, CutLive

LEMMA AskKeeps ==
    ASSUME DialogAssumption, DialogInv, KindsGrow, ops' = ops, HandlerSound(handler)',
           NEW id, NEW rev, CutQuality(id, rev)
    PROVE  DialogInv'
<1> DEFINE b == Bump(cut)
           s == [b EXCEPT !.stage = "quality"]
<1>1. cut # None /\ cut.stage = "ready" /\ PutCut(s)
  BY DEF CutQuality, Require
<1>2. cut \in CutRows /\ CutDecodes(cut) /\ cut.last \in Nat
  BY <1>1, RowTypes DEF CutSound, CutRows
<1>3. /\ b \in CutRows
      /\ b.id = cut.id /\ b.stage = cut.stage /\ b.origin = cut.origin /\ b.last = cut.last
      /\ b.clips = cut.clips /\ b.editing = cut.editing /\ b.op = cut.op
      /\ b.selected = cut.selected /\ b.original = cut.original /\ b.linked = cut.linked
  BY <1>2, BumpedCut
<1> HIDE DEF b
<1>4. /\ s \in CutRows /\ s.id = b.id /\ s.stage = "quality" /\ s.origin = b.origin /\ s.last = b.last
      /\ s.clips = b.clips /\ s.editing = b.editing /\ s.selected = b.selected /\ s.original = b.original
      /\ s.linked = b.linked
  BY <1>3 DEF CutRows, CutStages
<1> HIDE DEF s
<1>5. CutDecodes(s) /\ s.editing = None
  BY <1>1, <1>2, <1>3, <1>4 DEF CutDecodes, CutStages
<1> QED
  BY <1>1, <1>2, <1>3, <1>4, <1>5, CutEdited DEF Claims

\* The row that is claimed, which the handler carries to the admission: a choice, or
\* the row as it is.
LEMMA ConfirmKeeps ==
    ASSUME DialogAssumption, DialogInv, KindsGrow, ops' = ops, cut # None, NEW s \in CutRows,
           CutDecodes(s), s.editing # None => s.editing \in DOMAIN s.clips,
           s.id = cut.id, s.origin = cut.origin, s.last = cut.last, s.linked = cut.linked, s.op = cut.op,
           cut.stage \in Claims => s = cut,
           cut.stage # "cancelled", s.stage = "submitted" => cut.stage = "submitted",
           CutConfirm(s)
    PROVE  DialogInv'
<1> DEFINE c == Claimed(s)
           stage == IF s.stage = "submitted" THEN "submitted" ELSE "confirming"
<1>1. MayClaim(s) /\ PutCut(c) /\ handler' = Confirming(CutKey(s.id), s, s.origin, s.selected, s.linked)
  BY DEF CutConfirm
<1>2. stage \in Claims /\ stage \in CutStages /\ c = [s EXCEPT !.stage = stage]
  BY DEF Claimed, Claims, CutStages
<1> HIDE DEF c, stage
<1>3. /\ c \in CutRows /\ c.id = s.id /\ c.stage = stage /\ c.origin = s.origin /\ c.last = s.last
      /\ c.clips = s.clips /\ c.editing = s.editing /\ c.selected = s.selected /\ c.original = s.original
      /\ c.linked = s.linked /\ c.op = s.op
  BY <1>2 DEF CutRows
<1>4. s.clips # <<>> /\ s.editing = None /\ (s.original => s.linked # None) /\ s.stage # "cancelled"
      /\ (s.linked # None => s.original)
  BY <1>1 DEF MayClaim, CutDecodes
<1>5. CutDecodes(c)
  BY <1>2, <1>3, <1>4 DEF CutDecodes, Claims, CutStages
<1>6. CutSound(cut) /\ s.origin = s.id /\ s.last >= cut.last
  BY RowTypes DEF CutSound, CutRows
<1>7. c.stage = "submitted" => c.op = CutKey(cut.id) /\ Admitted(CutKey(cut.id))
  <2>1. c.stage = "submitted" => s.stage = "submitted"
    BY <1>3 DEF stage
  <2> QED
    BY <1>3, <1>6, <2>1 DEF CutSound, Claims
<1>8. cut.stage \in Claims => c.clips = cut.clips /\ c.selected = cut.selected
  BY <1>3
<1>9. HandlerSound(handler)'
  <2>1. handler' = [pc |-> "admit", key |-> CutKey(s.id), rev |-> s.rev, id |-> s.id, link |-> s.origin,
                    clips |-> s.clips, choice |-> s.selected, linked |-> s.linked]
    BY <1>1 DEF Confirming, CutKey
  <2>2. handler' \in HandlerRows
    BY <2>1, KeysDiffer DEF HandlerRows, CutRows
  <2>3. cut' = c /\ c # None
    BY <1>1, <1>3 DEF PutCut, DialogAssumption
  <2>4. OfCut(handler)'
    BY <1>2, <1>3, <2>1, <2>3 DEF OfCut, CutKey
  <2> QED
    BY <1>6, <2>1, <2>2, <2>4 DEF HandlerSound
<1> QED
  BY <1>1, <1>2, <1>3, <1>4, <1>5, <1>6, <1>7, <1>8, <1>9, CutEdited DEF Claims

-----------------------------------------------------------------------------
(* The transactions of quality.rs. *)

LEMMA BumpedQuality ==
    ASSUME NEW q \in QualityRows
    PROVE  /\ Bump(q) \in QualityRows /\ Bump(q).rev = q.rev + 1
           /\ Bump(q).id = q.id /\ Bump(q).stage = q.stage /\ Bump(q).origin = q.origin
           /\ Bump(q).selected = q.selected /\ Bump(q).op = q.op /\ Bump(q).cut = q.cut
BY DEF Bump, QualityRows

\* The cut whose intent is kept is sound as before.
LEMMA CutUnwritten ==
    ASSUME DialogInv, KindsGrow, QualityGoesOn, ops' = ops, quality # None => quality' # None,
           quality' # None => quality'.origin = quality'.id /\ quality'.id \in Nat,
           cut' = cut, cut # None, cut.linked # None /\ cut.stage # "cancelled" => cut.linked \in intents'
    PROVE  CutSound(cut)'
<1>1. CutSound(cut)
  BY RowTypes
<1>2. cut \in CutRows /\ CutDecodes(cut) /\ cut.last >= cut.last
      /\ (cut.editing # None => cut.editing \in DOMAIN cut.clips)
      /\ (cut.stage \notin Claims => ~Admitted(CutKey(cut.id)))
      /\ (cut.stage = "submitted" => cut.op = CutKey(cut.id) /\ Admitted(CutKey(cut.id)))
  BY <1>1 DEF CutSound, CutRows
<1>3. ASSUME NEW s, s = cut PROVE CutSound(s)'
  BY <1>2, <1>3, CutStays
<1> QED
  BY <1>3

\* A transaction of the quality dialog that edits its row.
LEMMA QualityEdited ==
    ASSUME DialogAssumption, DialogInv, KindsGrow, ops' = ops, quality # None, NEW q \in QualityRows,
           PutQuality(q), QualityDecodes(q), q.id = quality.id, q.origin = quality.origin,
           quality.stage = "cutting" => q.stage = "cutting",
           quality.stage \in Claims => q.stage \in Claims /\ q.selected = quality.selected,
           q.stage = "submitted" => q.op = QualityOf(quality.id) /\ Admitted(QualityOf(quality.id)),
           HandlerSound(handler)'
    PROVE  DialogInv'
<1>1. quality' = q /\ cut' = cut /\ q # None /\ intents' = intents
  BY DEF PutQuality, DialogAssumption, Kept
<1>2. QualitySound(quality) /\ quality.id \in Nat /\ q.origin = q.id
  BY RowTypes DEF QualitySound
<1>3. quality.stage \notin Claims => ~Admitted(QualityOf(quality.id))
  BY <1>2 DEF QualitySound
<1>4. QualityGoesOn
  BY <1>1, <1>3 DEF QualityGoesOn
<1>5. QualitySound(q)'
  BY <1>1, <1>2, <1>3, QualityStays DEF QualitySound
<1>6. cut' # None => CutSound(cut)'
  BY <1>1, <1>2, <1>4, CutUnwritten, RowTypes DEF CutSound
<1>7. intents' \subseteq DOMAIN kinds'
  BY <1>1 DEF DialogInv, KindsGrow
<1>8. CutGoesOn
  BY <1>1, CutUntouched
<1> QED
  BY <1>1, <1>4, <1>5, <1>6, <1>7, <1>8, RowsGoOn

\* A link opens its dialog, and the intent of the dialog it replaces stays while a cut
\* still needs it.
LEMMA DialogOpens ==
    ASSUME DialogAssumption, DialogInv, KindsGrow, ops' = ops, NEW m \in DOMAIN kinds', kinds'[m] \in Links,
           LinkProceeds(m), QualityBegin(m), HandlerSound(handler)'
    PROVE  DialogInv'
<1> DEFINE q == NewQuality(m)
<1>1. quality' = q /\ cut' = cut /\ intents' = Kept(m) \cup {m} /\ ~Admitted(QualityOf(m))
      /\ (quality # None => m > quality.origin)
  BY DEF QualityBegin, LinkProceeds
<1>2. m \in Nat
  BY DEF KindsGrow
<1>3. q \in QualityRows /\ q.id = m /\ q.origin = m /\ q.stage = "choosing" /\ QualityDecodes(q)
  BY <1>2 DEF NewQuality, QualityRows, QualityStages, QualityDecodes
<1> HIDE DEF q
<1>4. q # None
  BY <1>3 DEF DialogAssumption
<1>5. QualityGoesOn
  BY <1>1, <1>3, RowTypes DEF QualityGoesOn
<1>6. ~Admitted(QualityOf(m))'
  BY <1>1, AdmittedStays DEF QualityOf
<1>7. QualitySound(q)'
  BY <1>1, <1>3, <1>6 DEF QualitySound, QualityDecodes, QualityOf, Claims
<1>8. cut # None /\ cut.linked # None /\ cut.stage # "cancelled" => cut.linked \in intents'
  <2>1. cut # None /\ cut.linked # None /\ cut.stage # "cancelled" => cut.linked \in intents
    BY RowTypes DEF CutSound
  <2> QED
    BY <1>1, <2>1 DEF Kept, CutLinks
<1>9. cut' # None => CutSound(cut)'
  BY <1>1, <1>2, <1>3, <1>4, <1>5, <1>8, CutUnwritten
<1>10. intents' \subseteq DOMAIN kinds'
  BY <1>1 DEF DialogInv, KindsGrow, Kept
<1>11. CutGoesOn
  BY <1>1, CutUntouched
<1> QED
  BY <1>1, <1>4, <1>5, <1>7, <1>9, <1>10, <1>11, RowsGoOn

\* The hand-over: from now on the message is in the hands of the cut.
LEMMA HandOverKeeps ==
    ASSUME DialogAssumption, DialogInv, KindsGrow, ops' = ops, NEW id, NEW rev, QualityCut(id, rev),
           HandlerSound(handler)', kinds' = kinds
    PROVE  DialogInv'
<1>1. quality # None /\ QualitySound(quality) /\ quality.id \in Nat /\ quality.origin = quality.id
      /\ quality \in QualityRows
  BY RowTypes DEF QualityCut
<1>2. CASE UNCHANGED <<quality, cut, intents>>
  <2>1. QualityGoesOn /\ CutGoesOn /\ quality' # None
    BY <1>1, <1>2, QualityUntouched, CutUntouched
  <2>2. cut' # None => CutSound(cut)'
    BY <1>1, <1>2, <2>1, CutUnwritten, RowTypes DEF CutSound
  <2>3. QualitySound(quality)'
    BY <1>1, <1>2, QualityStays DEF QualitySound
  <2> QED
    BY <1>2, <2>1, <2>2, <2>3, RowsGoOn DEF DialogInv
<1> DEFINE b == Bump(quality)
           q == [b EXCEPT !.stage = "cutting", !.cut = quality.origin]
           m == quality.origin
           ranged == kinds[m] = "ranged"
           stage == IF ranged THEN "ready" ELSE "start"
           clips == IF ranged THEN <<m>> ELSE <<>>
           s == HandedOver
<1>3. CASE /\ quality.stage = "choosing" /\ quality.rev = rev /\ MayHandOver
           /\ quality' = q /\ cut' = HandedOver /\ intents' = intents \ CutReleases(HandedOver, quality)
  <2>1. QualityDecodes(quality)
    BY <1>1 DEF QualitySound
  <2>2. /\ b \in QualityRows /\ b.rev = quality.rev + 1
        /\ b.id = quality.id /\ b.stage = quality.stage /\ b.origin = quality.origin
        /\ b.selected = quality.selected /\ b.op = quality.op /\ b.cut = quality.cut
    BY <1>1, BumpedQuality
  <2> HIDE DEF b
  <2>3. /\ q \in QualityRows /\ q.rev = b.rev /\ q.id = b.id /\ q.origin = b.origin /\ q.stage = "cutting"
        /\ q.selected = b.selected /\ q.op = b.op /\ q.cut = quality.origin
    BY <1>1, <2>2 DEF QualityRows, QualityStages
  <2> HIDE DEF q
  <2>4. QualityDecodes(q) /\ q # None
    BY <1>1, <1>3, <2>1, <2>2, <2>3 DEF QualityDecodes, DialogAssumption
  <2>5. m \in Nat /\ m \in DOMAIN kinds
    BY <1>1 DEF QualitySound
  <2>6. clips \in Seq(Nat) /\ stage \in {"ready", "start"} /\ (stage = "ready" => clips # <<>>) /\ Len(clips) <= MaxClips
    <3>1. <<m>> \in Seq(Nat) /\ <<m>> # <<>> /\ Len(<<m>>) = 1 /\ Len(<<>>) = 0 /\ <<>> \in Seq(Nat)
      BY <2>5
    <3>2. 1 <= MaxClips /\ 0 <= MaxClips
      BY DEF DialogAssumption
    <3> HIDE DEF ranged, m
    <3> QED
      BY <3>1, <3>2
  <2>7. s = [[id |-> m, rev |-> 1, stage |-> stage, origin |-> m, last |-> m, clips |-> <<>>,
              editing |-> None, op |-> None, selected |-> None, original |-> FALSE, linked |-> None]
               EXCEPT !.clips = clips, !.original = TRUE, !.linked = quality.id]
    BY DEF HandedOver, NewCut
  <2> HIDE DEF stage, clips, ranged, s
  <2>8. s = [id |-> m, rev |-> 1, stage |-> stage, origin |-> m, last |-> m, clips |-> clips,
             editing |-> None, op |-> None, selected |-> None, original |-> TRUE, linked |-> quality.id]
    BY <2>7
  <2>9. s \in CutRows /\ CutDecodes(s) /\ s # None
    <3>1. s \in CutRows
      BY <1>1, <2>5, <2>6, <2>8 DEF CutRows, CutStages
    <3>2. quality.id # None /\ s.selected # Audio
      BY <1>1, <2>8 DEF DialogAssumption
    <3>3. CutDecodes(s)
      BY <2>6, <2>8, <3>2 DEF CutDecodes, CutStages
    <3> QED
      BY <3>1, <3>3 DEF DialogAssumption
  <2>10. ~Admitted(QualityOf(m)) /\ quality.id \in intents /\ m = quality.id
    BY <1>1, <1>3 DEF QualitySound, Claims
  <2>11. cut # None => m > cut.id
    <3> SUFFICES ASSUME cut # None PROVE m > cut.id
      OBVIOUS
    <3>1. cut.last \in Nat /\ cut.id \in Nat /\ cut.id <= cut.last
      BY RowTypes DEF CutSound
    <3>2. ~(cut.last >= m)
      BY <1>3 DEF MayHandOver, Watermarked
    <3> QED
      BY <2>5, <3>1, <3>2
  <2>12. ~Admitted(CutKey(m))
    <3>1. ASSUME NEW o \in ops, o.key = CutKey(m) PROVE FALSE
      <4>1. o.link = m /\ cut # None /\ m <= cut.id
        BY <3>1, KeysDiffer DEF DialogInv, OperationSound
      <4> QED
        BY <2>5, <2>11, <4>1, RowTypes
    <3> QED
      BY <3>1 DEF Admitted
  <2>13. s.id = m /\ s.origin = m /\ s.last = m /\ s.linked = quality.id /\ s.stage = stage /\ s.editing = None
    BY <2>8
  <2>14. quality.id \in intents' /\ intents' \subseteq intents
    BY <1>1, <1>3, ReleasesKeep DEF s
  <2>15. QualityGoesOn /\ CutGoesOn
    BY <1>1, <1>3, <2>2, <2>3, <2>4, <2>9, <2>10, <2>11, <2>13 DEF QualityGoesOn, CutGoesOn, s
  <2>16. ASSUME NEW c, c = s PROVE CutSound(c)'
    <3>1. ASSUME NEW i, i = m PROVE Handed(i)' /\ ~Admitted(QualityOf(i))' /\ ~Admitted(CutKey(i))'
      <4>1. quality' # None /\ quality'.origin = i /\ quality'.stage = "cutting"
        BY <1>1, <1>3, <2>2, <2>3, <2>4, <3>1
      <4>2. ~Admitted(QualityOf(i))' /\ ~Admitted(CutKey(i))'
        BY <2>10, <2>12, <3>1 DEF Admitted, QualityOf, CutKey
      <4> QED
        BY <4>1, <4>2, <2>5, <3>1 DEF Handed
    <3>2. c.stage \notin Claims /\ c.stage # "submitted"
      BY <2>6, <2>13, <2>16 DEF Claims
    <3>3. c \in CutRows /\ CutDecodes(c) /\ c.editing = None /\ c.id = m /\ c.origin = m /\ c.last = m
          /\ c.linked = quality.id
      BY <2>9, <2>13, <2>16
    <3>4. CutDecodes(c)' /\ m \in DOMAIN kinds'
      BY <2>5, <3>3 DEF CutDecodes, KindsGrow
    <3> HIDE DEF m
    <3> QED
      BY <2>5, <2>14, <3>1, <3>2, <3>3, <3>4 DEF CutSound, QualityOf, CutKey
  <2>17. ASSUME NEW p, p = q PROVE QualitySound(p)'
    BY <1>1, <1>3, <2>2, <2>3, <2>4, <2>10, <2>14, <2>17, QualityStays
  <2>18. CutSound(cut)' /\ QualitySound(quality)'
    BY <1>3, <2>16, <2>17 DEF s
  <2>19. intents' \subseteq DOMAIN kinds'
    BY <2>14 DEF DialogInv, KindsGrow
  <2>20. quality' # None
    BY <1>3, <2>4
  <2> QED
    BY <2>15, <2>18, <2>19, <2>20, RowsGoOn
<1> QED
  BY <1>2, <1>3 DEF QualityCut

\* Nothing is written to the rows.
LEMMA RowsStay ==
    ASSUME DialogInv, KindsGrow, UNCHANGED <<quality, cut, intents, ops>>, HandlerSound(handler)'
    PROVE  DialogInv'
<1>1. QualityGoesOn /\ CutGoesOn /\ (quality # None => quality' # None)
      /\ (quality' # None => quality'.origin = quality'.id /\ quality'.id \in Nat)
  BY QualityUntouched, CutUntouched
<1>2. cut' # None => CutSound(cut)'
  BY <1>1, CutUnwritten, RowTypes DEF CutSound
<1>3. quality' # None => QualitySound(quality)'
  <2> SUFFICES ASSUME quality # None PROVE QualitySound(quality)'
    OBVIOUS
  <2>1. QualitySound(quality)
    BY RowTypes
  <2> QED
    BY <2>1, QualityStays DEF QualitySound
<1>4. intents' \subseteq DOMAIN kinds'
  BY DEF DialogInv, KindsGrow
<1> QED
  BY <1>1, <1>2, <1>3, <1>4, RowsGoOn

LEMMA CancelQualityKeeps ==
    ASSUME DialogAssumption, DialogInv, KindsGrow, ops' = ops, NEW id, NEW rev, QualityCancel(id, rev),
           HandlerSound(handler)'
    PROVE  DialogInv'
<1> DEFINE b == Bump(quality)
           q == [b EXCEPT !.stage = "cancelled"]
<1>1. quality # None /\ quality.stage = "choosing" /\ PutQuality(q)
  BY DEF QualityCancel, QualityRow
<1>2. quality \in QualityRows /\ QualityDecodes(quality)
  BY <1>1, RowTypes DEF QualitySound
<1>3. /\ b \in QualityRows /\ b.rev = quality.rev + 1
      /\ b.id = quality.id /\ b.stage = quality.stage /\ b.origin = quality.origin
      /\ b.selected = quality.selected /\ b.op = quality.op /\ b.cut = quality.cut
  BY <1>2, BumpedQuality
<1> HIDE DEF b
<1>4. /\ q \in QualityRows /\ q.rev = b.rev /\ q.id = b.id /\ q.origin = b.origin /\ q.stage = "cancelled"
      /\ q.selected = b.selected /\ q.op = b.op /\ q.cut = b.cut
  BY <1>3 DEF QualityRows, QualityStages
<1> HIDE DEF q
<1>5. QualityDecodes(q)
  BY <1>1, <1>2, <1>3, <1>4 DEF QualityDecodes
<1> QED
  BY <1>1, <1>3, <1>4, <1>5, QualityEdited DEF Claims

\* The dialog is claimed; a submitted one is only admitted again.
LEMMA ConfirmQualityKeeps ==
    ASSUME DialogAssumption, DialogInv, KindsGrow, ops' = ops, NEW id, NEW rev, NEW choice \in QualityChoices,
           QualityConfirm(id, rev, choice)
    PROVE  DialogInv'
<1>1. quality # None /\ quality.id = id /\ quality \in QualityRows /\ QualitySound(quality) /\ QualityDecodes(quality)
      /\ quality.origin = id /\ id \in Nat
  BY RowTypes DEF QualityConfirm, QualitySound
<1>2. choice # None
  BY DEF DialogAssumption
<1>3. ASSUME quality.stage = "submitted", quality.selected = choice, UNCHANGED <<quality, cut, intents>>,
             handler' = [Confirming(QualityOf(quality.origin), quality, quality.origin, choice, id)
                           EXCEPT !.pc = "replay"]
      PROVE  DialogInv'
  <2>1. handler' = [pc |-> "replay", key |-> QualityOf(id), rev |-> quality.rev, id |-> id, link |-> id,
                    clips |-> <<>>, choice |-> choice, linked |-> id]
    BY <1>1, <1>3 DEF Confirming, QualityOf
  <2>2. quality.rev \in Nat /\ <<>> \in Seq(Nat) /\ QualityOf(id) \in Keys
    BY <1>1, KeysDiffer DEF QualityRows
  <2>3. handler' \in HandlerRows
    BY <1>1, <2>1, <2>2 DEF HandlerRows
  <2>4. OfQuality(handler)'
    <3>1. quality' = quality /\ quality.stage = "submitted" /\ quality.selected = choice
      BY <1>3
    <3>2. handler'.key = QualityOf(id) /\ handler'.id = id /\ handler'.choice = choice /\ handler'.linked = id
      BY <2>1
    <3> QED
      BY <1>1, <3>1, <3>2 DEF OfQuality, Claims, QualityOf
  <2>5. HandlerSound(handler)'
    BY <2>1, <2>3, <2>4 DEF HandlerSound
  <2> QED
    BY <1>3, <2>5, RowsStay
<1>4. ASSUME quality.stage # "submitted", MayClaimQuality(id, rev, choice), PutQuality(QualityClaimed(choice)),
             handler' = Confirming(QualityOf(quality.origin), QualityClaimed(choice), quality.origin, choice, id)
      PROVE  DialogInv'
  <2> DEFINE b == Bump(quality)
             q == QualityClaimed(choice)
  <2>1. quality.stage = "choosing" \/ (quality.stage = "confirming" /\ quality.selected = choice)
    BY <1>4 DEF MayClaimQuality
  <2>2. /\ q \in QualityRows /\ q.id = id /\ q.origin = id /\ q.stage = "confirming" /\ q.selected = choice
        /\ QualityDecodes(q)
    <3>1. CASE quality.stage = "confirming"
      BY <1>1, <2>1, <3>1 DEF QualityClaimed
    <3>2. CASE quality.stage = "choosing"
      <4>1. q = [b EXCEPT !.stage = "confirming", !.selected = choice]
        BY <3>2 DEF QualityClaimed
      <4>2. /\ b \in QualityRows /\ b.rev = quality.rev + 1
            /\ b.id = quality.id /\ b.stage = quality.stage /\ b.origin = quality.origin
            /\ b.selected = quality.selected /\ b.op = quality.op /\ b.cut = quality.cut
        BY <1>1, BumpedQuality
      <4> HIDE DEF q, b
      <4>3. /\ q \in QualityRows /\ q.rev = b.rev /\ q.id = b.id /\ q.origin = b.origin /\ q.stage = "confirming"
            /\ q.selected = choice /\ q.op = b.op /\ q.cut = b.cut
        BY <4>1, <4>2 DEF QualityRows, QualityStages
      <4>4. QualityDecodes(q)
        BY <1>1, <1>2, <3>2, <4>2, <4>3 DEF QualityDecodes
      <4> QED
        BY <1>1, <4>2, <4>3, <4>4
    <3> QED
      BY <2>1, <3>1, <3>2
  <2>3. PutQuality(q) /\ handler' = Confirming(QualityOf(id), q, id, choice, id)
    BY <1>1, <1>4
  <2> HIDE DEF q
  <2>4. quality' = q /\ q # None
    BY <2>2, <2>3 DEF PutQuality, DialogAssumption
  <2>5. handler' = [pc |-> "admit", key |-> QualityOf(id), rev |-> q.rev, id |-> id, link |-> id,
                    clips |-> <<>>, choice |-> choice, linked |-> id]
    BY <2>2, <2>3 DEF Confirming, QualityOf
  <2>6. q.rev \in Nat /\ <<>> \in Seq(Nat) /\ QualityOf(id) \in Keys
    BY <1>1, <2>2, KeysDiffer DEF QualityRows
  <2>7. handler' \in HandlerRows
    BY <1>1, <2>5, <2>6 DEF HandlerRows
  <2>8. OfQuality(handler)'
    BY <2>2, <2>4, <2>5 DEF OfQuality, Claims, QualityOf
  <2>9. HandlerSound(handler)'
    BY <2>5, <2>7, <2>8 DEF HandlerSound
  <2> QED
    BY <1>1, <2>1, <2>2, <2>3, <2>9, QualityEdited DEF Claims
<1> QED
  BY <1>3, <1>4 DEF QualityConfirm

-----------------------------------------------------------------------------
(* Buttons. *)

LEMMA GoKeeps ==
    ASSUME DialogAssumption, DialogInv, KindsGrow, ops' = ops, handler = Idle, NEW id, NEW rev, CutGo(id, rev)
    PROVE  DialogInv'
<1>1. cut # None /\ cut \in CutRows /\ CutSound(cut) /\ CutDecodes(cut)
      /\ (cut.editing # None => cut.editing \in DOMAIN cut.clips)
  BY RowTypes DEF CutGo, Require, CutSound
<1>2. CASE CutQuality(id, rev) /\ UNCHANGED handler
  BY <1>2, AskKeeps, IdleIsSound
<1>3. CASE CutConfirm(cut)
  <2>1. cut.stage # "cancelled"
    BY <1>3 DEF CutConfirm, MayClaim
  <2>2. ASSUME NEW s, s = cut PROVE DialogInv'
    BY <1>1, <1>3, <2>1, <2>2, ConfirmKeeps
  <2> QED
    BY <2>2
<1> QED
  BY <1>2, <1>3 DEF CutGo

LEMMA ChooseKeeps ==
    ASSUME DialogAssumption, DialogInv, KindsGrow, ops' = ops, NEW id, NEW rev, NEW choice \in QualityChoices,
           CutChoose(id, rev, choice)
    PROVE  DialogInv'
<1> DEFINE b == Bump(cut)
           s == CutChosen(choice)
<1>1. cut # None /\ choice # Audio /\ (cut.stage = "quality" \/ cut.stage \in Claims)
  BY DEF CutChoose, MayChoose, RequireChoiceReplay, Claims
<1>2. cut \in CutRows /\ CutSound(cut) /\ CutDecodes(cut) /\ (cut.editing # None => cut.editing \in DOMAIN cut.clips)
  BY <1>1, RowTypes DEF CutSound
<1>3. s \in CutRows /\ CutDecodes(s) /\ (s.editing # None => s.editing \in DOMAIN s.clips)
      /\ s.id = cut.id /\ s.origin = cut.origin /\ s.last = cut.last /\ s.linked = cut.linked /\ s.op = cut.op
      /\ (cut.stage \in Claims => s = cut) /\ (s.stage = "submitted" => cut.stage = "submitted")
  <2>1. CASE cut.stage \in Claims
    BY <1>2, <2>1 DEF CutChosen, Claims
  <2>2. CASE cut.stage = "quality"
    <3>1. s = [b EXCEPT !.stage = "confirming", !.selected = choice]
      BY <2>2 DEF CutChosen
    <3>2. /\ b \in CutRows
          /\ b.id = cut.id /\ b.stage = cut.stage /\ b.origin = cut.origin /\ b.last = cut.last
          /\ b.clips = cut.clips /\ b.editing = cut.editing /\ b.op = cut.op
          /\ b.selected = cut.selected /\ b.original = cut.original /\ b.linked = cut.linked
      BY <1>2, BumpedCut
    <3> HIDE DEF b, s
    <3>3. /\ s \in CutRows /\ s.id = b.id /\ s.stage = "confirming" /\ s.origin = b.origin /\ s.last = b.last
          /\ s.clips = b.clips /\ s.editing = b.editing /\ s.selected = choice /\ s.original = b.original
          /\ s.linked = b.linked /\ s.op = b.op
      BY <3>1, <3>2 DEF CutRows, CutStages
    <3>4. CutDecodes(s) /\ s.editing = None
      BY <1>1, <1>2, <2>2, <3>2, <3>3 DEF CutDecodes, CutStages
    <3> QED
      BY <2>2, <3>2, <3>3, <3>4 DEF Claims
  <2> QED
    BY <1>1, <2>1, <2>2
<1>4. CutConfirm(s) /\ cut.stage # "cancelled"
  BY <1>1 DEF CutChoose, Claims
<1> HIDE DEF s
<1>5. ASSUME NEW c, c = s PROVE DialogInv'
  BY <1>1, <1>3, <1>4, <1>5, ConfirmKeeps
<1> QED
  BY <1>5

LEMMA PressKeeps ==
    ASSUME DialogAssumption, DialogInv, handler = Idle, NEW act \in CutActions \cup QualityActions,
           NEW id, NEW rev, Press(act, id, rev)
    PROVE  DialogInv'
<1>1. KindsGrow /\ ops' = ops /\ kinds' = kinds
  BY KindsStay DEF Press
<1>2. /\ act[1] = "q" => act[2] \in QualityChoices
      /\ act[1] = "ql" => act[2] \in QualityChoices
      /\ act[1] = "e" => act[2] \in 1 .. MaxClips
  BY DEF CutActions, QualityActions, Indexes
<1>3. UNCHANGED handler => HandlerSound(handler)'
  BY IdleIsSound
<1>4. ASSUME CutEdit(id, rev), UNCHANGED handler PROVE DialogInv'
  <2>1. cut # None /\ cut.stage \in Editable /\ PutCut(Reopened(1))
    BY <1>4 DEF CutEdit, Require
  <2>2. cut \in CutRows /\ cut.clips # <<>>
    BY <2>1, RowTypes DEF CutSound, CutDecodes, Editable
  <2>3. 1 \in DOMAIN cut.clips
    BY <2>2 DEF CutRows
  <2> QED
    BY <1>1, <1>3, <1>4, <2>1, <2>3, ReopenKeeps
<1>5. ASSUME NEW index, CutBeginSegment(id, rev, index), UNCHANGED handler PROVE DialogInv'
  <2>1. cut # None /\ cut.stage \in Editable /\ PutCut(Reopened(index)) /\ (index = None \/ index \in DOMAIN cut.clips)
    BY <1>5 DEF CutBeginSegment, Require
  <2> QED
    BY <1>1, <1>3, <1>5, <2>1, ReopenKeeps
<1>6. CASE PressCut(act, id, rev)
  <2>1. \/ CutEdit(id, rev) /\ UNCHANGED handler
        \/ CutBeginSegment(id, rev, None) /\ UNCHANGED handler
        \/ CutBeginSegment(id, rev, act[2]) /\ UNCHANGED handler
        \/ CutDeleteSegment(id, rev, act[2]) /\ UNCHANGED handler
        \/ CutBack(id, rev) /\ UNCHANGED handler
        \/ CutCancel(id, rev, None) /\ UNCHANGED handler
        \/ CutGo(id, rev)
        \/ act[1] = "q" /\ CutChoose(id, rev, act[2])
    BY <1>6 DEF PressCut
  <2> QED
    BY <1>1, <1>2, <1>3, <1>4, <1>5, <2>1, DeleteKeepsRow, BackKeeps, CancelKeeps, GoKeeps, ChooseKeeps
<1>7. CASE PressQuality(act, id, rev)
  <2>1. \/ QualityCancel(id, rev) /\ UNCHANGED handler
        \/ QualityCut(id, rev) /\ UNCHANGED handler
        \/ act[1] = "ql" /\ QualityConfirm(id, rev, act[2])
    BY <1>7 DEF PressQuality
  <2> QED
    BY <1>1, <1>2, <1>3, <2>1, CancelQualityKeeps, HandOverKeeps, ConfirmQualityKeeps
<1> QED
  BY <1>6, <1>7 DEF Press

-----------------------------------------------------------------------------
(* Messages and the later transactions of a confirmation. *)

\* An operation is admitted: of a link no cut has, or of the row its handler claimed.
LEMMA OperationJoins ==
    ASSUME DialogInv, KindsGrow, UNCHANGED <<quality, cut, intents>>, HandlerSound(handler)',
           NEW o \in OperationRows, ops' = ops \cup {o}, ~Admitted(o.key), o.link \in DOMAIN kinds',
           \/ /\ o.key = QualityOf(o.link) /\ kinds'[o.link] \in Links
              /\ \A i \in DOMAIN kinds : Handed(i) => i # o.link
              /\ quality # None /\ quality.id = o.link =>
                    quality.stage \in Claims /\ o.choice = quality.selected /\ o.media
           \/ /\ o.key = CutKey(o.link)
              /\ cut # None /\ cut.id = o.link /\ cut.stage \in Claims
              /\ o.clips = cut.clips /\ o.choice = cut.selected /\ (o.media <=> cut.linked # None)
    PROVE  DialogInv'
<1>1. \A k : Admitted(k)' <=> Admitted(k) \/ k = o.key
  BY DEF Admitted
<1>2. ASSUME NEW i \in DOMAIN kinds, Handed(i)
      PROVE  Handed(i)' /\ (~Admitted(QualityOf(i)) => ~Admitted(QualityOf(i))')
  <2>1. Handed(i)'
    BY <1>2, HandedStays, QualityUntouched
  <2>2. o.key # QualityOf(i)
    BY <1>2, KeysDiffer
  <2>3. ~Admitted(QualityOf(i)) => ~Admitted(QualityOf(i))'
    BY <2>2 DEF Admitted, QualityOf
  <2> QED
    BY <2>1, <2>3
<1>3. ASSUME NEW p \in ops PROVE OperationSound(p)'
  <2>1. OperationSound(p) /\ p \in OperationRows
    BY DEF DialogInv, OperationSound
  <2>2. \/ p.key = QualityOf(p.link) /\ p.link \in DOMAIN kinds' /\ kinds'[p.link] \in Links
        \/ /\ p.key = CutKey(p.link) /\ Handed(p.link)' /\ ~Admitted(QualityOf(p.link))'
           /\ cut' # None /\ p.link <= cut'.id /\ p.link \in DOMAIN kinds'
    BY <1>2, <2>1 DEF OperationSound, KindsGrow
  <2> QED
    BY <2>1, <2>2 DEF OperationSound, CutKey, QualityOf
<1>4. OperationSound(o)'
  <2>1. CASE /\ o.key = QualityOf(o.link) /\ kinds'[o.link] \in Links
             /\ quality # None /\ quality.id = o.link =>
                   quality.stage \in Claims /\ o.choice = quality.selected /\ o.media
    <3>1. cut' # None => o.key # CutKey(cut'.id)
      BY <2>1, KeysDiffer
    <3>2. quality' # None /\ o.key = QualityOf(quality'.id) => o.choice = quality'.selected /\ o.media
      <4>1. quality' = quality /\ (QualityOf(o.link) = QualityOf(quality.id) => quality.id = o.link)
        BY KeysDiffer
      <4> QED
        BY <2>1, <4>1
    <3> QED
      BY <2>1, <3>1, <3>2 DEF OperationSound
  <2>2. CASE /\ o.key = CutKey(o.link)
             /\ cut # None /\ cut.id = o.link /\ cut.stage \in Claims
             /\ o.clips = cut.clips /\ o.choice = cut.selected /\ (o.media <=> cut.linked # None)
    <3>1. Handed(cut.id) /\ ~Admitted(QualityOf(cut.id)) /\ cut.id \in DOMAIN kinds /\ cut.id \in Nat
      BY <2>2, RowTypes DEF CutSound
    <3>2. Handed(o.link)' /\ ~Admitted(QualityOf(o.link))'
      BY <1>2, <2>2, <3>1 DEF QualityOf
    <3>3. cut' # None /\ o.link <= cut'.id
      BY <2>2, <3>1
    <3>4. quality' # None => o.key # QualityOf(quality'.id)
      BY <2>2, KeysDiffer
    <3> QED
      BY <2>2, <3>2, <3>3, <3>4 DEF OperationSound
  <2> QED
    BY <2>1, <2>2
<1>5. cut' # None => CutSound(cut)'
  <2> SUFFICES ASSUME cut # None PROVE CutSound(cut)'
    OBVIOUS
  <2>1. CutSound(cut)
    BY RowTypes
  <2>2. Handed(cut.id)' /\ ~Admitted(QualityOf(cut.id))'
    BY <1>2, <2>1 DEF CutSound, QualityOf
  <2>3. cut.stage \notin Claims => ~Admitted(CutKey(cut.id))'
    <3>1. cut.stage \notin Claims => ~Admitted(CutKey(cut.id)) /\ o.key # CutKey(cut.id)
      BY <2>1, KeysDiffer DEF CutSound
    <3> QED
      BY <3>1 DEF Admitted, CutKey
  <2>4. Admitted(CutKey(cut.id)) => Admitted(CutKey(cut.id))'
    BY DEF Admitted, CutKey
  <2> QED
    BY <2>1, <2>2, <2>3, <2>4 DEF CutSound, CutDecodes, KindsGrow, QualityOf, CutKey
<1>6. quality' # None => QualitySound(quality)'
  <2> SUFFICES ASSUME quality # None PROVE QualitySound(quality)'
    OBVIOUS
  <2>1. QualitySound(quality)
    BY RowTypes
  <2>2. quality.stage \notin Claims => ~Admitted(QualityOf(quality.id))'
    <3>1. quality.stage \notin Claims => ~Admitted(QualityOf(quality.id)) /\ o.key # QualityOf(quality.id)
      BY <2>1, KeysDiffer DEF QualitySound
    <3> QED
      BY <3>1 DEF Admitted, QualityOf
  <2>3. Admitted(QualityOf(quality.id)) => Admitted(QualityOf(quality.id))'
    BY DEF Admitted, QualityOf
  <2> QED
    BY <2>1, <2>2, <2>3 DEF QualitySound, QualityDecodes, KindsGrow, QualityOf
<1>7. \A p, r \in ops' : p.key = r.key => p = r
  BY DEF DialogInv, Admitted
<1>8. kinds' \in Seq(MessageKinds) /\ intents' \subseteq DOMAIN kinds' /\ \A p \in ops' : OperationSound(p)'
  BY <1>3, <1>4 DEF DialogInv, KindsGrow
<1> QED
  BY <1>5, <1>6, <1>7, <1>8 DEF DialogInv

LEMMA ReceiveKeeps ==
    ASSUME DialogAssumption, DialogInv, KindsGrow, NEW m \in DOMAIN kinds', NEW kind, kinds'[m] = kind,
           Receive(m, kind)
    PROVE  DialogInv'
<1>1. HandlerSound(handler)' /\ m \in Nat
  BY IdleIsSound DEF Receive, KindsGrow
<1>2. ASSUME CutMessages(m, kind), ops' = ops PROVE DialogInv'
  <2>1. CASE (kind = "cut" /\ CutBegin(m, "start")) \/ (kind = "cutAt" /\ CutBegin(m, "end"))
    <3>1. kind \notin Links
      BY <2>1 DEF Links
    <3> QED
      BY <1>1, <1>2, <2>1, <3>1, CutBegun
  <2>2. CASE CutInput(m)
    BY <1>1, <1>2, <2>2, InputKeeps
  <2>3. CASE CutCancel(cut.id, cut.rev, m)
    <3>1. ASSUME NEW i, i = cut.id, NEW r, r = cut.rev PROVE DialogInv'
      BY <1>1, <1>2, <2>3, <3>1, CancelKeeps
    <3> QED
      BY <3>1
  <2> QED
    BY <1>2, <2>1, <2>2, <2>3 DEF CutMessages
<1>3. ASSUME kind \in Links, SubmitLink(m) PROVE DialogInv'
  <2>1. CASE QualityBegin(m) /\ UNCHANGED ops
    BY <1>1, <1>3, <2>1, DialogOpens DEF SubmitLink
  <2>2. CASE /\ ops' = ops \cup {Operation(QualityOf(m), m, <<>>, None, TRUE)}
             /\ UNCHANGED <<quality, cut, intents>>
    <3> DEFINE none == <<>>
               o == Operation(QualityOf(m), m, none, None, TRUE)
    <3>1. none \in Seq(Nat) /\ QualityOf(m) \in Keys
      BY <1>1, KeysDiffer
    <3> HIDE DEF none
    <3>2. o \in OperationRows /\ o.key = QualityOf(m) /\ o.link = m
      BY <1>1, <3>1 DEF Operation, OperationRows
    <3>3. ops' = ops \cup {o}
      BY <2>2 DEF none
    <3> HIDE DEF o
    <3>4. ~Admitted(QualityOf(m)) /\ (quality # None => m > quality.origin)
      BY <1>3 DEF SubmitLink, LinkProceeds
    <3>5. \A i \in DOMAIN kinds : Handed(i) => i # m
      BY <1>1, <1>3, <3>4, RowTypes DEF Handed, KindsGrow
    <3>6. ~(quality # None /\ quality.id = m)
      BY <3>4, RowTypes
    <3>7. ~Admitted(o.key)
      BY <3>2, <3>4
    <3>8. UNCHANGED <<quality, cut, intents>>
      BY <2>2
    <3> QED
      BY <1>1, <1>3, <3>2, <3>3, <3>5, <3>6, <3>7, <3>8, OperationJoins
  <2> QED
    BY <1>3, <2>1, <2>2 DEF SubmitLink
<1> QED
  BY <1>2, <1>3 DEF Receive

\* The operation of a confirmation is admitted, or was; its handler goes on to the row.
LEMMA SubmitKeeps == ASSUME DialogAssumption, DialogInv, SubmitMedia PROVE DialogInv'
<1> DEFINE h == handler
           media == h.linked \in intents
           o == Operation(h.key, h.link, h.clips, h.choice, media)
<1>1. /\ KindsGrow /\ h.pc \in {"admit", "replay"} /\ UNCHANGED <<quality, cut, intents, kinds>>
      /\ ops' = IF Admitted(h.key) THEN ops ELSE ops \cup {o}
      /\ handler' = Idle \/ (h.pc # "replay" /\ handler' = [h EXCEPT !.pc = "admitted"])
  BY KindsStay DEF SubmitMedia
<1>2. h \in HandlerRows /\ h.link = h.id /\ (OfCut(h) \/ OfQuality(h))
  BY <1>1 DEF DialogInv, HandlerSound, Idle
<1>3. o \in OperationRows /\ o.key = h.key /\ o.link = h.link /\ o.clips = h.clips /\ o.choice = h.choice
      /\ o.media = media
  <2>1. media \in BOOLEAN
    OBVIOUS
  <2> HIDE DEF media
  <2> QED
    BY <1>2, <2>1 DEF Operation, OperationRows, HandlerRows
<1>4. ASSUME NEW n, n = [h EXCEPT !.pc = "admitted"], Admitted(n.key)', handler' = n PROVE HandlerSound(handler)'
  <2>1. n \in HandlerRows /\ n.pc = "admitted" /\ n.key = h.key /\ n.id = h.id /\ n.link = h.link
        /\ n.clips = h.clips /\ n.choice = h.choice /\ n.linked = h.linked
    BY <1>2, <1>4 DEF HandlerRows
  <2>2. OfCut(n)' \/ OfQuality(n)'
    BY <1>1, <1>2, <2>1 DEF OfCut, OfQuality, CutKey, QualityOf
  <2>3. HandlerSound(n)'
    BY <1>2, <1>4, <2>1, <2>2 DEF HandlerSound
  <2> QED
    BY <1>4, <2>3
<1>5. HandlerSound(handler)'
  <2>1. CASE handler' = Idle
    BY <2>1, IdleIsSound
  <2>2. CASE handler' = [h EXCEPT !.pc = "admitted"]
    <3> DEFINE n == [h EXCEPT !.pc = "admitted"]
    <3>1. n.key = h.key
      BY <1>2 DEF HandlerRows
    <3>2. ASSUME NEW k, k = h.key PROVE Admitted(k)'
      BY <1>1, <1>3, <3>2 DEF Admitted
    <3>3. ASSUME NEW x, x = n PROVE HandlerSound(handler)'
      <4>1. x.key = h.key /\ handler' = x
        BY <2>2, <3>1, <3>3
      <4>2. Admitted(x.key)'
        BY <3>2, <4>1
      <4> QED
        BY <1>4, <3>3, <4>1, <4>2
    <3> QED
      BY <3>3
  <2> QED
    BY <1>1, <2>1, <2>2
<1>6. CASE Admitted(h.key)
  <2>1. UNCHANGED <<quality, cut, intents, ops>>
    BY <1>1, <1>6
  <2> QED
    BY <1>1, <1>5, <2>1, RowsStay
<1>7. CASE ~Admitted(h.key)
  <2>1. ops' = ops \cup {o} /\ UNCHANGED <<quality, cut, intents>> /\ kinds' = kinds
    BY <1>1, <1>7
  <2>2. CASE OfCut(h)
    <3>1. CutSound(cut) /\ cut # None /\ cut.id = h.id /\ cut.stage \in Claims /\ h.key = CutKey(h.id)
          /\ h.clips = cut.clips /\ h.choice = cut.selected /\ h.linked = cut.linked
      BY <2>2, RowTypes DEF OfCut
    <3>2. cut.id \in DOMAIN kinds /\ (cut.linked # None => cut.linked \in intents)
      BY <3>1 DEF CutSound, Claims
    <3>3. None \notin intents
      BY MessageIds DEF DialogInv, DialogAssumption
    <3>4. media <=> cut.linked # None
      BY <3>1, <3>2, <3>3
    <3> HIDE DEF o, media
    <3> QED
      BY <1>1, <1>2, <1>3, <1>5, <1>7, <2>1, <3>1, <3>2, <3>4, OperationJoins
  <2>3. CASE OfQuality(h)
    <3>1. QualitySound(quality) /\ quality # None /\ quality.id = h.id /\ quality.stage \in Claims
          /\ h.key = QualityOf(h.id) /\ h.choice = quality.selected /\ h.linked = quality.id
          /\ quality.origin = quality.id /\ quality.id \in Nat
      BY <2>3, RowTypes DEF OfQuality
    <3>2. quality.id \in DOMAIN kinds /\ kinds[quality.id] \in Links /\ media
      BY <3>1 DEF QualitySound
    <3>3. ~Handed(quality.id)
      BY <3>1, <3>2 DEF Handed, Claims
    <3>4. \A i \in DOMAIN kinds : Handed(i) => i # quality.id
      BY <3>3
    <3> HIDE DEF o, media
    <3> QED
      BY <1>1, <1>2, <1>3, <1>5, <1>7, <2>1, <3>1, <3>2, <3>4, OperationJoins
  <2> QED
    BY <1>2, <2>2, <2>3
<1> QED
  BY <1>6, <1>7

LEMMA FinishKeeps == ASSUME DialogAssumption, DialogInv, FinishConfirm PROVE DialogInv'
<1>1. KindsGrow /\ ops' = ops /\ kinds' = kinds /\ HandlerSound(handler)' /\ handler.pc = "admitted"
  BY KindsStay, IdleIsSound DEF FinishConfirm
<1>2. handler \in HandlerRows /\ (OfCut(handler) \/ OfQuality(handler)) /\ Admitted(handler.key)
  BY <1>1 DEF DialogInv, HandlerSound, Idle
<1>3. handler.key # None
  BY <1>2 DEF HandlerRows, DialogAssumption
<1>4. CASE handler.key[1] = "cut" /\ CutSubmitted(handler.id, handler.rev, handler.key)
  <2>1. OfCut(handler)
    BY <1>2, <1>4 DEF OfQuality, QualityOf
  <2>2. cut # None /\ cut.id = handler.id /\ handler.key = CutKey(cut.id) /\ CutSound(cut) /\ cut \in CutRows
        /\ CutDecodes(cut) /\ (cut.editing # None => cut.editing \in DOMAIN cut.clips)
    BY <2>1, RowTypes DEF OfCut, CutSound
  <2>3. CASE UNCHANGED <<quality, cut, intents>>
    BY <1>1, <2>3, RowsStay
  <2>4. CASE cut.stage = "confirming" /\ PutCut([cut EXCEPT !.stage = "submitted", !.op = handler.key])
    <3> DEFINE key == handler.key
               s == [cut EXCEPT !.stage = "submitted", !.op = key]
    <3>1. key \in Keys /\ key = CutKey(cut.id) /\ Admitted(CutKey(cut.id)) /\ PutCut(s)
      BY <1>2, <2>2, <2>4 DEF HandlerRows
    <3> HIDE DEF key
    <3>2. /\ s \in CutRows /\ s.id = cut.id /\ s.stage = "submitted" /\ s.origin = cut.origin /\ s.last = cut.last
          /\ s.clips = cut.clips /\ s.editing = cut.editing /\ s.selected = cut.selected /\ s.original = cut.original
          /\ s.linked = cut.linked /\ s.op = key
      BY <2>2, <3>1 DEF CutRows, CutStages
    <3> HIDE DEF s
    <3>3. CutDecodes(s) /\ s.last >= cut.last
      BY <2>2, <2>4, <3>2 DEF CutDecodes, CutStages, CutRows
    <3> QED
      BY <1>1, <2>2, <2>4, <3>1, <3>2, <3>3, CutEdited DEF Claims
  <2> QED
    BY <1>4, <2>3, <2>4 DEF CutSubmitted
<1>5. CASE handler.key[1] = "tg" /\ QualitySubmitted(handler.id, handler.rev, handler.key)
  <2>1. OfQuality(handler)
    BY <1>2, <1>5 DEF OfCut, CutKey
  <2>2. quality # None /\ quality.id = handler.id /\ handler.key = QualityOf(quality.id) /\ quality \in QualityRows
        /\ QualityDecodes(quality) /\ quality.stage = "confirming"
    BY <1>5, <2>1, RowTypes DEF OfQuality, QualitySound, QualitySubmitted
  <2> DEFINE key == handler.key
             b == Bump(quality)
             q == [b EXCEPT !.stage = "submitted", !.op = key]
  <2>3. key \in Keys /\ key # None /\ key = QualityOf(quality.id) /\ Admitted(QualityOf(quality.id)) /\ PutQuality(q)
    BY <1>2, <1>3, <1>5, <2>2 DEF HandlerRows, QualitySubmitted
  <2> HIDE DEF key
  <2>4. /\ b \in QualityRows /\ b.rev = quality.rev + 1
        /\ b.id = quality.id /\ b.stage = quality.stage /\ b.origin = quality.origin
        /\ b.selected = quality.selected /\ b.op = quality.op /\ b.cut = quality.cut
    BY <2>2, BumpedQuality
  <2> HIDE DEF b
  <2>5. /\ q \in QualityRows /\ q.rev = b.rev /\ q.id = b.id /\ q.origin = b.origin /\ q.stage = "submitted"
        /\ q.selected = b.selected /\ q.op = key /\ q.cut = b.cut
    BY <2>3, <2>4 DEF QualityRows, QualityStages
  <2> HIDE DEF q
  <2>6. QualityDecodes(q)
    BY <2>2, <2>3, <2>4, <2>5 DEF QualityDecodes
  <2> QED
    BY <1>1, <2>2, <2>3, <2>4, <2>5, <2>6, QualityEdited DEF Claims
<1> QED
  BY <1>4, <1>5 DEF FinishConfirm

-----------------------------------------------------------------------------
LEMMA DialogStarts == ASSUME DialogInit PROVE DialogInv
<1>1. kinds \in Seq(MessageKinds) /\ intents \subseteq DOMAIN kinds
  BY DEF DialogInit
<1>2. HandlerSound(handler)
  BY DEF DialogInit, HandlerSound
<1> QED
  BY <1>1, <1>2 DEF DialogInit, DialogInv

LEMMA DialogKeeps == ASSUME DialogAssumption, DialogInv, [DialogNext]_dialogVars PROVE DialogInv'
<1>1. ASSUME NEW kind \in MessageKinds, NewMessage(kind) PROVE DialogInv'
  <2> DEFINE m == Len(kinds) + 1
  <2>1. kinds' = Append(kinds, kind) /\ Receive(m, kind)
    BY <1>1 DEF NewMessage
  <2>2. KindsGrow /\ m \in DOMAIN kinds' /\ kinds'[m] = kind
    BY <2>1, KindsAppended
  <2>3. ASSUME NEW i, i = m PROVE DialogInv'
    BY <2>1, <2>2, <2>3, ReceiveKeeps
  <2> QED
    BY <2>3
<1>2. ASSUME NEW kind \in MessageKinds, MissMessage(kind) PROVE DialogInv'
  <2>1. KindsGrow /\ UNCHANGED <<quality, cut, intents, ops>> /\ handler' = handler
    BY <1>2, KindsAppended DEF MissMessage
  <2>2. HandlerSound(handler)'
    BY <2>1 DEF DialogInv, HandlerSound, OfCut, OfQuality, Admitted
  <2> QED
    BY <2>1, <2>2, RowsStay
<1>3. ASSUME NEW m \in DOMAIN kinds, Redelivery(m) PROVE DialogInv'
  <2>1. Receive(m, kinds[m]) /\ kinds' = kinds
    BY <1>3 DEF Redelivery
  <2>2. ASSUME NEW kind, kind = kinds[m] PROVE DialogInv'
    BY <2>1, <2>2, KindsStay, ReceiveKeeps
  <2> QED
    BY <2>2
<1>4. CASE /\ handler = Idle
           /\ \E act \in CutActions \cup QualityActions, id \in Sessions, rev \in 1 .. MaxRevision + 1 :
                  Press(act, id, rev)
  BY <1>4, PressKeeps
<1>5. CASE SubmitMedia
  BY <1>5, SubmitKeeps
<1>6. CASE FinishConfirm
  BY <1>6, FinishKeeps
<1>7. CASE Abandon
  BY <1>7, KindsStay, IdleIsSound, RowsStay DEF Abandon
<1>8. CASE SetPreference \/ UNCHANGED dialogVars
  <2>1. kinds' = kinds /\ UNCHANGED <<quality, cut, intents, ops>> /\ handler' = handler
    BY <1>8 DEF SetPreference, dialogVars
  <2>2. HandlerSound(handler)'
    BY <2>1 DEF DialogInv, HandlerSound, OfCut, OfQuality, Admitted
  <2> QED
    BY <2>1, <2>2, KindsStay, RowsStay
<1> QED
  BY <1>1, <1>2, <1>3, <1>4, <1>5, <1>6, <1>7, <1>8 DEF DialogNext

\* An admitted operation is the one its key names.
LEMMA OperationIsFound ==
    ASSUME DialogInv, NEW key, Admitted(key)
    PROVE  OperationOf(key) \in ops /\ OperationOf(key).key = key /\ OperationSound(OperationOf(key))
BY DEF Admitted, OperationOf, DialogInv

LEMMA DialogsFollow == ASSUME DialogInv PROVE DialogsAreSound
<1>1. RowsDecode
  BY RowTypes DEF RowsDecode, DialogInv, CutSound, QualitySound
<1>2. OnePerMessage
  <2> SUFFICES ASSUME NEW o1 \in ops, NEW o2 \in ops, o1.link = o2.link PROVE o1 = o2
    BY DEF OnePerMessage
  <2>1. OperationSound(o1) /\ OperationSound(o2) /\ (o1.key = o2.key => o1 = o2)
    BY DEF DialogInv
  <2>2. o1.key = o2.key
    BY <2>1 DEF OperationSound, Admitted
  <2> QED
    BY <2>1, <2>2
<1>3. cut # None /\ cut.stage = "submitted" => cut.op = CutKey(cut.id) /\ Admitted(cut.op)
  BY RowTypes DEF CutSound
<1>4. quality # None /\ quality.stage = "submitted" => quality.op = QualityOf(quality.origin) /\ Admitted(quality.op)
  BY RowTypes DEF QualitySound
<1>5. ASSUME cut # None, Admitted(CutKey(cut.id))
      PROVE  LET o == OperationOf(CutKey(cut.id))
             IN  o.clips = cut.clips /\ o.choice = cut.selected /\ (o.media <=> cut.linked # None)
  <2> DEFINE o == OperationOf(CutKey(cut.id))
  <2>1. OperationSound(o) /\ o.key = CutKey(cut.id)
    BY <1>5, OperationIsFound
  <2> HIDE DEF o
  <2>2. o.clips = cut.clips /\ o.choice = cut.selected /\ (o.media <=> cut.linked # None)
    BY <1>5, <2>1 DEF OperationSound
  <2> QED
    BY <2>2 DEF o
<1>6. ASSUME quality # None, Admitted(QualityOf(quality.origin))
      PROVE  LET o == OperationOf(QualityOf(quality.origin)) IN o.choice = quality.selected /\ o.media
  <2> DEFINE o == OperationOf(QualityOf(quality.origin))
  <2>1. OperationSound(o) /\ o.key = QualityOf(quality.id)
    BY <1>6, OperationIsFound, RowTypes
  <2> HIDE DEF o
  <2>2. o.choice = quality.selected /\ o.media
    BY <1>6, <2>1 DEF OperationSound
  <2> QED
    BY <2>2 DEF o
<1>7. AdmittedAsShown
  BY <1>3, <1>4, <1>5, <1>6 DEF AdmittedAsShown
<1> QED
  BY <1>1, <1>2, <1>7 DEF DialogsAreSound

\* In spite of old buttons, repeated deliveries and restarts between two transactions, the
\* rows of the dialogs can be read, a message becomes at most one operation, and an
\* operation has the clips, the quality and the media intent its dialog shows (cut.rs and
\* quality.rs of yoink-storage, yoink-downloads and yoink-telegram).
THEOREM DialogsAreAlwaysSound == ASSUME DialogAssumption PROVE DialogSpec => []DialogsAreSound
<1>1. DialogInit => DialogInv
  BY DialogStarts
<1>2. DialogInv /\ [DialogNext]_dialogVars => DialogInv'
  BY DialogKeeps
<1>3. DialogInv => DialogsAreSound
  BY DialogsFollow
<1> QED
  BY <1>1, <1>2, <1>3, PTL DEF DialogSpec
=============================================================================
