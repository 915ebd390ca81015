--------------------------- MODULE InlineQueries ----------------------------
(***************************************************************************)
(* Inline queries (yoink-telegram inline.rs and inline_search.rs, with     *)
(* handle_inline of music_runtime.rs).  Every query gets a task; a newer   *)
(* query of the same actor cancels the older one, which still has to reap  *)
(* its worker.  The registry of actors, the tasks and the lookups are      *)
(* bounded, and actors whose query is over may be forgotten.               *)
(***************************************************************************)
EXTENDS Naturals, FiniteSets

CONSTANTS
    Actors, Queries, \* each query belongs to the actor that sends it
    ActorCap,      \* MAX_TRANSIENT_QUERIES, of the registry
    TaskCap,       \* MAX_TRANSIENT_QUERIES, of the tasks
    LookupSlots,   \* concurrency
    PerSecond,     \* requests_per_second
    MaxClock       \* bound: time, in actor intervals; a second is two of them

\* What the constants of an instance satisfy.
InlineAssumption ==
    /\ ActorCap \in Nat \ {0} /\ TaskCap \in Nat \ {0} /\ LookupSlots \in Nat \ {0}
    /\ PerSecond \in Nat \ {0} /\ MaxClock \in Nat

\* The window of requests_per_second is two ticks, the interval of an actor one.
WindowLength == 2

VARIABLES
    clock, window, admitted,  \* the time, the start of the window and its count
    registry,     \* per actor: <<>> or <<[query, last]>>
    asker,        \* per query: its actor once it was sent
    allowed,      \* queries that may look something up
    over,         \* queries whose token is cancelled
    stage,        \* per query: "new", "start", "music", "search", "youtube", "found", "results", "empty", "done"
    granted,      \* actors that may use inline queries now
    answers,      \* queries that were answered, with results or without
    halted        \* the stop token

inlineVars == <<clock, window, admitted, registry, asker, allowed, over, stage, granted,
                answers, halted>>

Registered == {a \in Actors : registry[a] # <<>>}
RunningTasks == {q \in Queries : stage[q] \notin {"new", "done"}}
Holding == {q \in Queries : stage[q] \in {"music", "youtube"}}
Live(q) == q \in RunningTasks /\ q \notin over
Cancelled(q) == q \in over \/ halted

InlineTypeOK ==
    /\ Cardinality(Registered) <= ActorCap /\ Cardinality(RunningTasks) <= TaskCap
    /\ Cardinality(Holding) <= LookupSlots /\ admitted <= PerSecond
    /\ \A a \in Registered : registry[a][1].last <= clock /\ asker[registry[a][1].query] = a

Tick ==
    /\ clock < MaxClock /\ clock' = clock + 1
    /\ UNCHANGED <<window, admitted, registry, asker, allowed, over, stage, granted, answers, halted>>

ChangeGrant(a) ==
    /\ granted' = IF a \in granted THEN granted \ {a} ELSE granted \cup {a}
    /\ UNCHANGED <<clock, window, admitted, registry, asker, allowed, over, stage, answers, halted>>

---------------------------------------------------------------------------
(* begin and spawn, under the lock of the registry. *)

Count == IF clock - window >= WindowLength THEN 0 ELSE admitted
Spaced(a) == a \in Registered => clock - registry[a][1].last >= 1
MayLookUp(a) == Count < PerSecond /\ Spaced(a)

\* Mutant of EvictableActor: the actor that was served first goes, its query running or not.
EvictableAny(a) == a \in Registered

\* Only an actor whose query is over can be forgotten.
EvictableActor(a) == a \in Registered /\ registry[a][1].query \in over

\* The actor that was served longest ago.
Evicted(a) ==
    LET free == {b \in Actors : EvictableActor(b)}
    IN  {b \in free : \A c \in free : registry[b][1].last <= registry[c][1].last}

Superseded(a) == IF a \in Registered THEN {registry[a][1].query} ELSE {}
Entry(a, q) == <<[query |-> q, last |-> IF MayLookUp(a) \/ a \notin Registered THEN clock
                                       ELSE registry[a][1].last]>>

\* The older query is cancelled even if the new one is throttled or dropped.
BeginQuery(a, q) ==
    /\ stage[q] = "new" /\ asker' = [asker EXCEPT ![q] = a]
    /\ ~halted
    /\ window' = IF clock - window >= WindowLength THEN clock ELSE window
    /\ IF a \notin Registered /\ Cardinality(Registered) >= ActorCap /\ Evicted(a) = {}
       THEN /\ stage' = [stage EXCEPT ![q] = "done"] /\ over' = over \cup {q} /\ admitted' = Count
            /\ UNCHANGED <<registry, allowed>>
       ELSE /\ \E gone \in (IF a \notin Registered /\ Cardinality(Registered) >= ActorCap
                            THEN Evicted(a) ELSE {a}) :
                   registry' = [b \in Actors |-> IF b = a THEN Entry(a, q)
                                                 ELSE IF b = gone THEN <<>> ELSE registry[b]]
            /\ admitted' = IF MayLookUp(a) THEN Count + 1 ELSE Count
            /\ allowed' = IF MayLookUp(a) THEN allowed \cup {q} ELSE allowed
            /\ IF Cardinality(RunningTasks) >= TaskCap
               THEN /\ stage' = [stage EXCEPT ![q] = "done"]
                    /\ over' = over \cup Superseded(a) \cup {q}
               ELSE stage' = [stage EXCEPT ![q] = "start"] /\ over' = over \cup Superseded(a)
    /\ UNCHANGED <<clock, granted, answers, halted>>

\* The deadline cancels a query as a newer one does.
Expire(q) ==
    /\ Live(q) /\ over' = over \cup {q}
    /\ UNCHANGED <<clock, window, admitted, registry, asker, allowed, stage, granted, answers, halted>>

---------------------------------------------------------------------------
(* process: every wait ends at once when the query is cancelled. *)

Becomes(q, s) == stage' = [stage EXCEPT ![q] = s]
Here(q, s) == stage[q] = s /\ ~Cancelled(q)
Granted(q) == asker[q] \in granted
SlotFree == Cardinality(Holding) < LookupSlots

\* A task that ends cancels its own token.
EndQuery(q) == Becomes(q, "done") /\ over' = over \cup {q}

GiveUp(q) ==
    /\ stage[q] \in {"start", "search", "found", "results", "empty"} /\ Cancelled(q)
    /\ EndQuery(q)
    /\ UNCHANGED <<clock, window, admitted, registry, asker, allowed, granted, answers, halted>>

Rest == UNCHANGED <<clock, window, admitted, registry, asker, allowed, granted, halted>>

\* A link of a music provider goes to handle_inline first, anything else to the search.
TryMusic(q) ==
    /\ Here(q, "start") /\ q \in allowed /\ SlotFree
    /\ Becomes(q, "music") /\ UNCHANGED <<over, answers>> /\ Rest

SkipMusic(q) ==
    /\ Here(q, "start") /\ Becomes(q, "search") /\ UNCHANGED <<over, answers>> /\ Rest

\* No slot is left for the lookup: busy.
MusicBusy(q) ==
    /\ Here(q, "start") /\ q \in allowed /\ ~SlotFree
    /\ Becomes(q, "empty") /\ UNCHANGED <<over, answers>> /\ Rest

MusicOutcomes == {"answered", "empty", "search"}

\* handle_inline answers by itself, fails with a hint, or leaves the query to the search.
MusicReturns(q, outcome) ==
    /\ stage[q] = "music"
    /\ IF Cancelled(q) THEN EndQuery(q) /\ UNCHANGED answers
       ELSE IF outcome = "answered" THEN Granted(q) /\ EndQuery(q) /\ answers' = answers \cup {q}
       ELSE Becomes(q, outcome) /\ UNCHANGED <<over, answers>>
    /\ Rest

\* classify: only a text needs a lookup; a URL, a short or an invalid query do not.
Intents == {"text", "url", "hint"}

\* The first check of access; then a text is searched for if there is a slot, a URL and an
\* invalid or throttled query need no lookup.
Search(q, intent) ==
    /\ Here(q, "search")
    /\ Becomes(q, IF ~Granted(q) THEN "empty"
                  ELSE IF intent = "text" /\ q \in allowed /\ SlotFree THEN "youtube" ELSE "found")
    /\ UNCHANGED <<over, answers>> /\ Rest

\* search_youtube is given the token: it returns when its worker is reaped.
SearchReturns(q) ==
    /\ stage[q] = "youtube" /\ Becomes(q, "found") /\ UNCHANGED <<over, answers>> /\ Rest

\* Access is checked again after the lookup.
CheckAgain(q) ==
    /\ Here(q, "found") /\ Becomes(q, IF Granted(q) THEN "results" ELSE "empty")
    /\ UNCHANGED <<over, answers>> /\ Rest

Answer(q) ==
    /\ Here(q, "results") \/ Here(q, "empty")
    /\ answers' = answers \cup {q} /\ EndQuery(q) /\ Rest

Halt ==
    /\ ~halted /\ halted' = TRUE
    /\ UNCHANGED <<clock, window, admitted, registry, asker, allowed, over, stage, granted, answers>>

InlineInit ==
    /\ clock = 0 /\ window = 0 /\ admitted = 0 /\ registry = [a \in Actors |-> <<>>]
    /\ asker = [q \in Queries |-> "nobody"] /\ allowed = {} /\ over = {}
    /\ stage = [q \in Queries |-> "new"] /\ granted = Actors /\ answers = {}
    /\ halted = FALSE

InlineNext ==
    \/ Tick \/ Halt \/ \E a \in Actors : ChangeGrant(a)
    \/ \E q \in Queries :
           \/ \E a \in Actors : BeginQuery(a, q)
           \/ \E intent \in Intents : Search(q, intent)
           \/ \E outcome \in MusicOutcomes : MusicReturns(q, outcome)
           \/ Expire(q) \/ GiveUp(q) \/ TryMusic(q) \/ SkipMusic(q) \/ MusicBusy(q) \/ SearchReturns(q) \/ CheckAgain(q) \/ Answer(q)

InlineSpec == InlineInit /\ [][InlineNext]_inlineVars

---------------------------------------------------------------------------
(* Properties. *)

\* A query that may still answer is the one the registry holds for its actor, so a newer
\* query always finds it and cancels it: an actor never has two live queries, whatever the
\* registry forgot in between.
NewestAnswers ==
    \A q \in Queries : Live(q) => /\ asker[q] \in Registered
                                  /\ registry[asker[q]][1].query = q
=============================================================================
