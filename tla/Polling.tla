------------------------------ MODULE Polling ------------------------------
(***************************************************************************)
(* The Telegram long poll (yoink-telegram/src/raw_polling.rs), the         *)
(* observers that commit what an update says before the offset moves, the  *)
(* dispatcher that hands the updates to one worker per chat, and the       *)
(* admission every handler passes (insight_lifecycle.rs).                  *)
(*                                                                         *)
(* Telegram keeps an update until a request names a higher offset.  The    *)
(* offset lives in memory: a process that restarts asks from zero and gets *)
(* what no request has confirmed.  A batch is observed update by update,   *)
(* by every observer in turn; only then does the offset move and does the  *)
(* first update of the batch reach a handler.  A failure anywhere stops    *)
(* the poll, its handlers and, through them, the process.                  *)
(***************************************************************************)
EXTENDS Integers, Sequences, FiniteSets

CONSTANTS Updates,        \* updates users may send, 1 .. n, in this order
          ChatOf,         \* [Updates -> chats]
          Dropped,        \* updates that decode to a malformed inline query
          Concurrent,     \* updates the distribution gives no chat
          BatchLimit,     \* updates of one response (100 in the code)
          MaxPollFaults,  \* failures of a request or of an observer
          MaxLives        \* processes that follow one another

ASSUME PollingAssumption ==
    /\ BatchLimit \in Nat \ {0} /\ MaxPollFaults \in Nat /\ MaxLives \in Nat \ {0}
    /\ IsFiniteSet(Updates) /\ Updates = 1..Cardinality(Updates)
    /\ Dropped \subseteq Updates /\ Concurrent \subseteq Updates

VARIABLES
    said,        \* updates Telegram holds or has held: 1 .. said
    confirmed,   \* Telegram forgets every update below this
    observed,    \* [observer -> updates it has committed]: the database
    life,        \* "up", "stopping", "down"
    offset,      \* the offset of the next request
    batch,       \* the response under ingestion, a sequence of updates
    place,       \* <<update of the batch, observer>> that is next
    backlog,     \* updates of an observed batch that no worker has
    queues,      \* [chat -> updates that wait for their worker]
    serving,     \* updates with an admitted handler
    served,      \* updates a handler has finished, in any life
    admits,      \* whether the handler registry admits
    faults,
    lives

memory == <<offset, batch, place, backlog, queues, serving, admits>>
pollVars == <<said, confirmed, observed, life, memory, served, faults, lives>>

\* raw_polling asks the membership observer, then the composition of the
\* contact observer and the one of statistics
Observers == <<"membership", "contact", "stats">>

Chats == {ChatOf[u] : u \in Updates}
NoBatch == <<>>
FirstPlace == <<1, 1>>

PollingTypeOK ==
    /\ said \in 0..Cardinality(Updates) /\ confirmed \in 0..(Cardinality(Updates) + 1)
    /\ observed \in [{Observers[i] : i \in DOMAIN Observers} -> SUBSET Updates]
    /\ life \in {"up", "stopping", "down"}
    /\ offset \in 0..(Cardinality(Updates) + 1)
    /\ batch \in Seq(Updates) /\ backlog \in Seq(Updates)
    /\ place \in (1..(BatchLimit + 1)) \X (1..Len(Observers))
    /\ queues \in [Chats -> Seq(Updates)]
    /\ serving \subseteq Updates /\ served \subseteq Updates
    /\ admits \in BOOLEAN /\ faults \in 0..MaxPollFaults /\ lives \in 1..MaxLives

Fresh ==
    /\ offset = 0 /\ batch = NoBatch /\ place = FirstPlace
    /\ backlog = <<>> /\ queues = [c \in Chats |-> <<>>]
    /\ serving = {} /\ admits = TRUE

PollingInit ==
    /\ said = 0 /\ confirmed = 1
    /\ observed = [o \in {Observers[i] : i \in DOMAIN Observers} |-> {}]
    /\ life = "up" /\ Fresh
    /\ served = {} /\ faults = 0 /\ lives = 1

Send ==
    /\ said + 1 \in Updates
    /\ said' = said + 1
    /\ UNCHANGED <<confirmed, observed, life, memory, served, faults, lives>>

-----------------------------------------------------------------------------
(* The poll.                                                               *)

\* the decoded updates that next() has left to hand out
Left == {i \in 1..Len(backlog) : backlog[i] \notin Dropped}

\* next() asks only when it has nothing left to hand out
Asks == life = "up" /\ batch = NoBatch /\ Left = {}

\* Telegram forgets what is below the offset when it reads the request
ConfirmedTo(n) == IF n > confirmed THEN n ELSE confirmed

\* the response: the oldest updates that are not confirmed, at most a batch
Fetch ==
    /\ Asks /\ said >= ConfirmedTo(offset)
    /\ \E n \in 1..BatchLimit :
         /\ ConfirmedTo(offset) + n - 1 <= said
         /\ batch' = [i \in 1..n |-> ConfirmedTo(offset) + i - 1]
    /\ confirmed' = ConfirmedTo(offset)
    /\ place' = FirstPlace
    /\ UNCHANGED <<said, observed, life, offset, backlog, queues, serving, admits, served,
                   faults, lives>>

\* error_handler, and shutdown.cancelled(): admission closes, the stop flag
\* is set; ingest and next return where they look at it
Stops == life' = "stopping" /\ admits' = FALSE

\* the request is lost, or its response is: Telegram may have read the offset
FetchFails ==
    /\ Asks /\ faults < MaxPollFaults
    /\ confirmed' \in {confirmed, ConfirmedTo(offset)}
    /\ faults' = faults + 1 /\ Stops
    /\ UNCHANGED <<said, observed, offset, batch, place, backlog, queues, serving, served, lives>>

Ingesting == batch # NoBatch /\ place[1] <= Len(batch)

\* one observer commits what it takes from the update
Commits == [observed EXCEPT ![Observers[place[2]]] = @ \cup {batch[place[1]]}]

\* the observer after this one, of the same update or of the next
NextPlace == IF place[2] < Len(Observers) THEN <<place[1], place[2] + 1>>
                                          ELSE <<place[1] + 1, 1>>

Observe ==
    /\ Ingesting /\ life # "down"
    /\ life = "up" \/ place[2] > 1
    /\ observed' = Commits /\ place' = NextPlace
    /\ UNCHANGED <<said, confirmed, life, offset, batch, backlog, queues, serving, admits, served,
                   faults, lives>>

\* an observer's failure is noted and the ingestion goes on
ObserveFailsQuietly ==
    /\ Ingesting /\ life # "down" /\ faults < MaxPollFaults
    /\ observed' \in {observed, Commits}
    /\ place' = NextPlace
    /\ faults' = faults + 1
    /\ UNCHANGED <<said, confirmed, life, offset, batch, backlog, queues, serving, admits, served, lives>>

\* an update that does not decode, or an observer that fails, with or
\* without its commit: the batch is given up and the offset stays
ObserveFails ==
    /\ Ingesting /\ life # "down" /\ faults < MaxPollFaults
    /\ observed' \in {observed, Commits}
    /\ batch' = NoBatch /\ place' = FirstPlace
    /\ faults' = faults + 1 /\ Stops
    /\ UNCHANGED <<said, confirmed, offset, backlog, queues, serving, served, lives>>

\* a stop that is seen between two updates, or after the last one
IngestStops ==
    /\ batch # NoBatch /\ life = "stopping" /\ place[2] = 1
    /\ batch' = NoBatch /\ place' = FirstPlace
    /\ UNCHANGED <<said, confirmed, observed, life, offset, backlog, queues, serving, admits, served,
                   faults, lives>>

\* the whole batch is observed: the offset moves and the batch is handed out
Ingested ==
    /\ batch # NoBatch /\ ~Ingesting /\ life = "up"
    /\ offset' = batch[Len(batch)] + 1
    /\ backlog' = batch
    /\ batch' = NoBatch /\ place' = FirstPlace
    /\ UNCHANGED <<said, confirmed, observed, life, queues, serving, admits, served, faults, lives>>

-----------------------------------------------------------------------------
(* The dispatcher: one queue per chat, and a task of its own for an update *)
(* the distribution gives no chat.                                         *)

HandOut ==
    /\ life = "up"
    /\ \E i \in Left :
         LET u == backlog[i] IN
         /\ \A j \in Left : i <= j
         /\ IF u \in Concurrent
            THEN serving' = (IF admits THEN serving \cup {u} ELSE serving) /\ UNCHANGED queues
            ELSE queues' = [queues EXCEPT ![ChatOf[u]] = Append(@, u)] /\ UNCHANGED serving
         /\ backlog' = SubSeq(backlog, i + 1, Len(backlog))
    /\ UNCHANGED <<said, confirmed, observed, life, offset, batch, place, admits, served, faults, lives>>

\* the worker of a chat serves one update at a time; a closed registry
\* refuses, and the update is gone
ServeChat(c) ==
    /\ queues[c] # <<>> /\ life # "down"
    /\ ~\E u \in serving \ Concurrent : ChatOf[u] = c
    /\ serving' = IF admits THEN serving \cup {Head(queues[c])} ELSE serving
    /\ queues' = [queues EXCEPT ![c] = Tail(@)]
    /\ UNCHANGED <<said, confirmed, observed, life, offset, batch, place, backlog, admits, served,
                   faults, lives>>

Served(u) ==
    /\ u \in serving /\ life # "down"
    /\ serving' = serving \ {u} /\ served' = served \cup {u}
    /\ UNCHANGED <<said, confirmed, observed, life, offset, batch, place, backlog, queues, admits,
                   faults, lives>>

-----------------------------------------------------------------------------
(* The process.                                                            *)

StopPolling ==
    /\ life = "up" /\ Stops
    /\ UNCHANGED <<said, confirmed, observed, offset, batch, place, backlog, queues, serving, served,
                   faults, lives>>

\* the dispatcher has joined its workers and the registry has drained
Exit ==
    /\ life = "stopping" /\ batch = NoBatch /\ serving = {}
    /\ \A c \in Chats : queues[c] = <<>>
    /\ life' = "down"
    /\ UNCHANGED <<said, confirmed, observed, memory, served, faults, lives>>

Crash ==
    /\ life # "down" /\ lives < MaxLives
    /\ life' = "down"
    /\ UNCHANGED <<said, confirmed, observed, memory, served, faults, lives>>

Relive ==
    /\ life = "down" /\ lives < MaxLives
    /\ life' = "up" /\ lives' = lives + 1
    /\ offset' = 0 /\ batch' = NoBatch /\ place' = FirstPlace
    /\ backlog' = <<>> /\ queues' = [c \in Chats |-> <<>>]
    /\ serving' = {} /\ admits' = TRUE
    /\ UNCHANGED <<said, confirmed, observed, served, faults>>

PollingNext ==
    \/ Send \/ Fetch \/ FetchFails \/ Observe \/ ObserveFails \/ IngestStops \/ Ingested
    \/ HandOut \/ \E c \in Chats : ServeChat(c)
    \/ \E u \in Updates : Served(u)
    \/ StopPolling \/ Exit \/ Crash \/ Relive

PollingSpec == PollingInit /\ [][PollingNext]_pollVars

-----------------------------------------------------------------------------
ObservedBy(u) == \A i \in DOMAIN Observers : u \in observed[Observers[i]]

\* What the database learns from updates is never lost: an update Telegram
\* will not send again has been committed by every observer, whatever
\* failed, stopped or crashed in between; and no handler works on an update
\* that an observer has not committed.  docs/architecture/access-control.md:
\* "It commits membership observations before advancing the polling offset.
\* A failed batch does not acknowledge its updates or dispatch a partial
\* batch."
ConfirmedIsObserved ==
    /\ PollingTypeOK
    /\ \A u \in Updates : u < confirmed => ObservedBy(u)
    /\ \A u \in serving \cup served : ObservedBy(u)

=============================================================================
