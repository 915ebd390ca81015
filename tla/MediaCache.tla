----------------------------- MODULE MediaCache -----------------------------
(***************************************************************************)
(* The media cache of one actor at one bot: the file ids of a confirmed    *)
(* delivery, kept under the identity of the request they answer, reused by *)
(* later operations, dropped when Telegram refuses them and cleared by the *)
(* owner's /uncache (yoink-storage cache.rs, cache_key.rs, yoink-downloads *)
(* lib.rs, cache.rs, cache_control.rs).                                    *)
(*                                                                         *)
(* An operation reads the cache, sends, and writes it in three separate    *)
(* transactions with Telegram in between; two operations of one key, the   *)
(* clears and the expiry interleave with them.  A revision is named by the *)
(* operation that published it, which publishes at most once.              *)
(***************************************************************************)
EXTENDS Naturals, FiniteSets

CONSTANTS
    Operations,      \* download operations
    CacheKeyOf,      \* the media_cache_key of each operation's request
    SourceOf,        \* the canonical source URL behind each key
    ClearsOf,        \* the URL named by each /uncache message, by message id
    MaxHandledClears \* bound: handlings of /uncache messages, replays included

CacheKeys == {CacheKeyOf[o] : o \in Operations}

\* What the constants of an instance satisfy.
MediaCacheAssumption ==
    /\ IsFiniteSet(Operations) /\ "none" \notin Operations
    /\ \A o \in Operations : CacheKeyOf[o] \in DOMAIN SourceOf
    /\ DOMAIN ClearsOf \subseteq Nat \ {0}
    /\ MaxHandledClears \in Nat

VARIABLES
    fetching,        \* each operation: its step, the revision it replays, whether it bypasses the cache
    cached,          \* the row of runtime_media_cache of each key
    deadFiles,       \* revisions whose file ids Telegram no longer accepts
    clearMark,       \* runtime_media_cache_clear_watermarks.message_id
    bornAfter,       \* the watermark at the publication of each revision (history)
    refusedFiles,    \* revisions some operation saw refused (history)
    handledClears    \* handlings of clears so far

cacheVars == <<fetching, cached, deadFiles, clearMark, bornAfter, refusedFiles, handledClears>>

NoOperation == "none"

\* The row of a key: the encoded media of the batch, which the operation that
\* published it stands for, and whether its expiry lies ahead.
NotCached == [revision |-> NoOperation, fresh |-> FALSE]
CachedAs(o) == [revision |-> o, fresh |-> TRUE]
IsCached(k) == cached[k].revision # NoOperation
Unpublished == 0 - 1

MediaCacheTypeOK ==
    /\ fetching \in [Operations -> [at : {"queued", "replay", "partial", "download", "sent", "over"},
                                    uses : Operations \cup {NoOperation}, bypassed : BOOLEAN]]
    /\ cached \in [CacheKeys -> [revision : Operations \cup {NoOperation}, fresh : BOOLEAN]]
    /\ deadFiles \subseteq Operations /\ refusedFiles \subseteq Operations
    /\ clearMark \in Nat
    /\ bornAfter \in [Operations -> Nat \cup {Unpublished}]
    /\ handledClears \in 0 .. MaxHandledClears

MediaCacheInit ==
    /\ fetching = [o \in Operations |-> [at |-> "queued", uses |-> NoOperation, bypassed |-> FALSE]]
    /\ cached = [k \in CacheKeys |-> NotCached]
    /\ deadFiles = {}
    /\ clearMark = 0
    /\ bornAfter = [o \in Operations |-> Unpublished]
    /\ refusedFiles = {}
    /\ handledClears = 0

FetchGoes(o, at) == fetching' = [fetching EXCEPT ![o].at = at]

CacheStays == UNCHANGED <<cached, deadFiles, clearMark, bornAfter, refusedFiles, handledClears>>

-----------------------------------------------------------------------------
(* Operations. *)

\* lookup_media_cache returns unexpired rows only.
LookupFinds(k) == cached[k].fresh

\* The claim may read the cache, which has a batch that the limits allow.
ReplayCached(o) ==
    /\ fetching[o].at = "queued" /\ ~fetching[o].bypassed
    /\ LookupFinds(CacheKeyOf[o])
    /\ fetching' = [fetching EXCEPT ![o].at = "replay",
                                    ![o].uses = cached[CacheKeyOf[o]].revision]
    /\ CacheStays

\* Nothing is cached, the lookup failed or its batch exceeds the limits.
MissCache(o) ==
    /\ fetching[o].at = "queued"
    /\ FetchGoes(o, "download")
    /\ CacheStays

\* Telegram confirms the first unit of a cached batch, then the rest.
ReplayConfirmed(o) ==
    /\ fetching[o].at \in {"replay", "partial"}
    /\ fetching[o].uses \notin deadFiles
    /\ FetchGoes(o, IF fetching[o].at = "replay" THEN "partial" ELSE "over")
    /\ CacheStays

\* an eviction that does not look at the revision
EvictedAny(k, r) == NotCached

\* The row of key k after the eviction of revision r: a replacement stays.
Evicted(k, r) == IF cached[k].revision = r THEN NotCached ELSE cached[k]

EvictRefused(o) ==
    /\ fetching[o].uses \in deadFiles
    /\ cached' = [cached EXCEPT ![CacheKeyOf[o]] = Evicted(CacheKeyOf[o], fetching[o].uses)]
    /\ refusedFiles' = refusedFiles \cup {fetching[o].uses}
    /\ UNCHANGED <<deadFiles, clearMark, bornAfter, handledClears>>

\* requeue_invalid_cache: the first unit was refused, so the operation runs
\* again without the cache.
RequeueRefused(o) ==
    /\ fetching[o].at = "replay"
    /\ fetching' = [fetching EXCEPT ![o] = [at |-> "queued", uses |-> NoOperation, bypassed |-> TRUE]]
    /\ EvictRefused(o)

\* The claim is stale or a later unit was refused: the revision is dropped
\* (invalidate_media_cache) and the operation is rejected.
RejectRefused(o) ==
    /\ fetching[o].at \in {"replay", "partial"}
    /\ FetchGoes(o, "over")
    /\ EvictRefused(o)

\* The worker failed, was cancelled or stopped: nothing reaches the cache.
FetchFails(o) ==
    /\ fetching[o].at \in {"download", "sent"}
    /\ FetchGoes(o, "over")
    /\ CacheStays

\* A worker lost its claim before anything was sent: another one starts over.
FetchRestarts(o) ==
    /\ fetching[o].at \in {"replay", "download"}
    /\ fetching' = [fetching EXCEPT ![o].at = "queued", ![o].uses = NoOperation]
    /\ CacheStays

UploadConfirmed(o) ==
    /\ fetching[o].at = "download"
    /\ FetchGoes(o, "sent")
    /\ CacheStays

\* publish_media_cache: expired rows of other keys are pruned and the row of
\* this key is inserted or replaced, for an attempt that succeeded whole.
PublishCache(o) ==
    /\ fetching[o].at = "sent"
    /\ FetchGoes(o, "over")
    /\ cached' = [k \in CacheKeys |-> CASE k = CacheKeyOf[o] -> CachedAs(o)
                                        [] k # CacheKeyOf[o] /\ ~cached[k].fresh -> NotCached
                                        [] OTHER -> cached[k]]
    /\ bornAfter' = [bornAfter EXCEPT ![o] = clearMark]
    /\ UNCHANGED <<deadFiles, clearMark, refusedFiles, handledClears>>

-----------------------------------------------------------------------------
(* The owner, the clock and Telegram. *)

\* The keys clear_media_cache.sql deletes: those of admitted operations of the URL.
KeysOf(url) == {k \in CacheKeys : SourceOf[k] = url}

\* the watermark is moved by a message that was handled before, too
AdvancesReplayed(m) == m >= clearMark

\* advance_media_cache_clear_watermark.sql
Advances(m) == m > clearMark

\* One handling of the /uncache message m, first or repeated, in any order: a
\* message that does not advance the watermark changes nothing.
ClearCache(m) ==
    /\ handledClears < MaxHandledClears
    /\ handledClears' = handledClears + 1
    /\ IF Advances(m)
       THEN /\ clearMark' = m
            /\ cached' = [k \in CacheKeys |-> IF k \in KeysOf(ClearsOf[m]) THEN NotCached ELSE cached[k]]
       ELSE UNCHANGED <<clearMark, cached>>
    /\ UNCHANGED <<fetching, deadFiles, bornAfter, refusedFiles>>

CacheExpires(k) ==
    /\ cached[k].fresh
    /\ cached' = [cached EXCEPT ![k].fresh = FALSE]
    /\ UNCHANGED <<fetching, deadFiles, clearMark, bornAfter, refusedFiles, handledClears>>

\* Telegram stops accepting the file ids of a published batch.
FilesDie(o) ==
    /\ bornAfter[o] # Unpublished
    /\ o \notin deadFiles
    /\ deadFiles' = deadFiles \cup {o}
    /\ UNCHANGED <<fetching, cached, clearMark, bornAfter, refusedFiles, handledClears>>

MediaCacheNext ==
    \/ \E o \in Operations :
         \/ ReplayCached(o) \/ MissCache(o) \/ ReplayConfirmed(o) \/ RequeueRefused(o) \/ RejectRefused(o)
         \/ FetchFails(o) \/ FetchRestarts(o) \/ UploadConfirmed(o) \/ PublishCache(o) \/ FilesDie(o)
    \/ \E m \in DOMAIN ClearsOf : ClearCache(m)
    \/ \E k \in CacheKeys : CacheExpires(k)

MediaCacheSpec == MediaCacheInit /\ [][MediaCacheNext]_cacheVars

-----------------------------------------------------------------------------
(* Properties. *)

\* Why a batch may leave the cache: Telegram refused it, it expired, a newer
\* delivery of the same request replaced it, or the owner cleared its URL
\* with a message that was not handled before the batch was published.
LossIsDue(k) ==
    LET r == cached[k].revision IN
    \/ r \in refusedFiles'
    \/ ~cached[k].fresh
    \/ cached'[k].revision # NoOperation
    \/ clearMark' > bornAfter[r] /\ ClearsOf[clearMark'] = SourceOf[k]

CacheStep ==
    \A k \in CacheKeys : cached'[k].revision # cached[k].revision =>
      /\ IsCached(k) => LossIsDue(k)
      /\ cached'[k].revision # NoOperation => bornAfter[cached'[k].revision] = Unpublished

\* The cache keeps what is good and takes back nothing: a batch is lost only
\* for a reason of its own - an operation that replayed an older revision
\* never evicts the replacement (invalidate_media_cache: "without restarting
\* any operation or touching a concurrent replacement"), and a repeated or
\* overtaken /uncache never clears a repopulated cache (clear_media_cache: "A
\* stale message is a successful no-op, including after a cache is
\* repopulated") - and a revision that has left never returns.
CacheChangesAreDue == [][CacheStep]_cacheVars
=============================================================================
