---------------------------- MODULE AccessProofs ----------------------------
(***************************************************************************)
(* Theorems about the way in: the long poll, the accounts with their       *)
(* administration, the grants of groups and the keys of machines, the      *)
(* startup and shutdown of the server, and the files of its database, each *)
(* for every value of its constants.                                       *)
(***************************************************************************)
EXTENDS Polling, Accounts, ServerLife, Publication, Grants, SequenceTheorems, FiniteSetTheorems, TLAPS

----------------------------------------------------------------------------
(* The long poll, for any number of updates, chats, failures and lives.    *)

\* The response begins at the oldest update that is not confirmed; what it has
\* passed is observed, in the order of updates and of observers.
BatchInv ==
    /\ Len(batch) <= BatchLimit /\ confirmed + Len(batch) <= said + 1
    /\ \A i \in 1..Len(batch) : batch[i] = confirmed + i - 1
    /\ place[1] <= Len(batch) + 1
    /\ \A i \in 1..Len(batch) : i < place[1] => ObservedBy(batch[i])
    /\ place[1] <= Len(batch) =>
           \A k \in 1..Len(Observers) : k < place[2] => batch[place[1]] \in observed[Observers[k]]
    /\ place[1] = Len(batch) + 1 => place[2] = 1

\* Everything that left the response is observed, and so is everything that is
\* confirmed or will be by the next request.
PollInv ==
    /\ PollingTypeOK /\ BatchInv
    /\ 1 <= confirmed /\ confirmed <= said + 1 /\ offset <= said + 1
    /\ \A u \in Updates : u < confirmed \/ u < offset => ObservedBy(u)
    /\ \A i \in 1..Len(backlog) : ObservedBy(backlog[i])
    /\ \A c \in Chats : \A i \in 1..Len(queues[c]) : ObservedBy(queues[c][i])
    /\ \A u \in serving \cup served : ObservedBy(u)

LEMMA PollTyped ==
    ASSUME PollInv
    PROVE  /\ Cardinality(Updates) \in Nat /\ Updates = 1..Cardinality(Updates)
           /\ said \in Nat /\ confirmed \in Nat /\ offset \in Nat
           /\ Len(batch) \in Nat /\ Len(backlog) \in Nat /\ BatchLimit \in Nat \ {0}
           /\ place[1] \in Nat \ {0} /\ place[2] \in 1..3 /\ place = <<place[1], place[2]>>
           /\ said <= Cardinality(Updates)
<1>1. Cardinality(Updates) \in Nat
  BY PollingAssumption, FS_CardinalityType
<1>2. Len(batch) \in Nat /\ Len(backlog) \in Nat
  BY LenProperties DEF PollInv, PollingTypeOK
<1>3. Len(Observers) = 3
  BY DEF Observers
<1> QED
  BY <1>1, <1>2, <1>3, PollingAssumption DEF PollInv, PollingTypeOK

\* The observers and what one more commit changes.
LEMMA ThreeObservers ==
    /\ DOMAIN Observers = 1..3 /\ Len(Observers) = 3
    /\ \A k, l \in 1..3 : Observers[k] = Observers[l] => k = l
    /\ {Observers[i] : i \in DOMAIN Observers} = {Observers[1], Observers[2], Observers[3]}
  BY DEF Observers

LEMMA CommitsGrow ==
    ASSUME PollInv, batch # NoBatch, place[1] <= Len(batch), observed' = Commits
    PROVE  /\ observed' \in [{Observers[i] : i \in DOMAIN Observers} -> SUBSET Updates]
           /\ \A u : ObservedBy(u) => ObservedBy(u)'
           /\ batch[place[1]] \in observed'[Observers[place[2]]]
           /\ \A k \in 1..3 : observed[Observers[k]] \subseteq observed'[Observers[k]]
<1>1. place[1] \in 1..Len(batch) /\ place[2] \in 1..3
  BY PollTyped
<1>2. batch[place[1]] \in Updates
  BY <1>1, ElementOfSeq DEF PollInv, PollingTypeOK
<1>3. observed \in [{Observers[i] : i \in DOMAIN Observers} -> SUBSET Updates]
  BY DEF PollInv, PollingTypeOK
<1> DEFINE o == Observers[place[2]]
           u == batch[place[1]]
<1>4. o \in {Observers[i] : i \in DOMAIN Observers}
  BY <1>1, ThreeObservers
<1>5. observed' = [observed EXCEPT ![o] = @ \cup {u}]
  BY DEF Commits
<1> HIDE DEF o, u
<1>6. \A x \in {Observers[i] : i \in DOMAIN Observers} :
          observed'[x] = IF x = o THEN observed[x] \cup {u} ELSE observed[x]
  BY <1>3, <1>5
<1>7. \A i \in DOMAIN Observers : Observers[i] \in {Observers[j] : j \in DOMAIN Observers}
  OBVIOUS
<1>8. observed' \in [{Observers[i] : i \in DOMAIN Observers} -> SUBSET Updates]
  <2>1. u \in Updates
    BY <1>2 DEF u
  <2> DEFINE S == {Observers[i] : i \in DOMAIN Observers}
  <2> HIDE DEF S
  <2>2. observed \in [S -> SUBSET Updates] /\ observed' = [observed EXCEPT ![o] = @ \cup {u}]
    BY <1>3, <1>5 DEF S
  <2>3. observed' \in [S -> SUBSET Updates]
    BY <2>1, <2>2
  <2> QED
    BY <2>3 DEF S
<1>9. \A i \in DOMAIN Observers : observed[Observers[i]] \subseteq observed'[Observers[i]]
  BY <1>6, <1>7
<1>10. u \in observed'[o]
  BY <1>4, <1>6
<1> QED
  BY <1>8, <1>9, <1>10, ThreeObservers DEF ObservedBy, o, u

\* A step that leaves the database, the batch and the queues alone.
LEMMA PollQuiet ==
    ASSUME PollInv, UNCHANGED <<confirmed, observed, offset, batch, place, backlog, queues>>,
           said' \in 0..Cardinality(Updates), said' >= said,
           life' \in {"up", "stopping", "down"}, admits' \in BOOLEAN,
           faults' \in 0..MaxPollFaults, lives' \in 1..MaxLives,
           serving' \subseteq Updates, served' \subseteq Updates,
           \A u \in serving' \cup served' : ObservedBy(u)
    PROVE  PollInv'
<1>1. PollingTypeOK'
  BY DEF PollInv, PollingTypeOK
<1>2. BatchInv'
  BY PollTyped DEF PollInv, BatchInv, ObservedBy
<1>3. confirmed' <= said' + 1 /\ offset' <= said' + 1 /\ 1 <= confirmed'
  BY PollTyped DEF PollInv
<1> QED
  BY <1>1, <1>2, <1>3 DEF PollInv, ObservedBy

\* A step after which there is no response.
LEMMA NoResponse ==
    ASSUME PollInv, UNCHANGED <<said, backlog, queues, serving, served, lives>>,
           batch' = NoBatch, place' = FirstPlace,
           confirmed' \in Nat, confirmed <= confirmed', confirmed' <= said + 1,
           \A u \in Updates : u < confirmed' \/ u < offset' => ObservedBy(u)',
           offset' \in Nat, offset' <= said + 1,
           observed' \in [{Observers[i] : i \in DOMAIN Observers} -> SUBSET Updates],
           \A u : ObservedBy(u) => ObservedBy(u)',
           life' \in {"up", "stopping", "down"}, admits' \in BOOLEAN,
           faults' \in 0..MaxPollFaults
    PROVE  PollInv'
<1>1. confirmed' \in 0..(Cardinality(Updates) + 1) /\ offset' \in 0..(Cardinality(Updates) + 1)
  BY PollTyped
<1>2. Len(batch') = 0 /\ batch' \in Seq(Updates)
  BY DEF NoBatch
<1>3. place' \in (1..(BatchLimit + 1)) \X (1..Len(Observers)) /\ place'[1] = 1 /\ place'[2] = 1
  BY PollTyped, ThreeObservers DEF FirstPlace
<1>4. PollingTypeOK'
  BY <1>1, <1>2, <1>3 DEF PollInv, PollingTypeOK
<1>5. BatchInv'
  BY <1>2, <1>3, PollTyped DEF BatchInv
<1>6. 1 <= confirmed'
  BY PollTyped DEF PollInv
<1> QED
  BY <1>4, <1>5, <1>6 DEF PollInv

LEMMA PollInitInv == PollingInit => PollInv
<1> SUFFICES ASSUME PollingInit PROVE PollInv
  OBVIOUS
<1>1. Cardinality(Updates) \in Nat /\ BatchLimit \in Nat \ {0} /\ MaxPollFaults \in Nat /\ MaxLives \in Nat \ {0}
  BY PollingAssumption, FS_CardinalityType
<1>2. batch = <<>> /\ backlog = <<>> /\ Len(batch) = 0 /\ Len(backlog) = 0 /\ place = <<1, 1>>
  BY DEF PollingInit, Fresh, NoBatch, FirstPlace
<1>3. \A c \in Chats : queues[c] = <<>>
  BY DEF PollingInit, Fresh
<1>4. place \in (1..(BatchLimit + 1)) \X (1..Len(Observers))
  BY <1>1, <1>2, ThreeObservers
<1>5. PollingTypeOK
  BY <1>1, <1>2, <1>4 DEF PollingInit, Fresh, PollingTypeOK
<1>6. \A u \in Updates : ~(u < 1) /\ ~(u < 0)
  BY <1>1, PollingAssumption
<1> QED
  BY <1>1, <1>2, <1>3, <1>5, <1>6 DEF PollInv, BatchInv, PollingInit, Fresh

\* What a request confirms is observed.
LEMMA ConfirmedAreObserved ==
    ASSUME PollInv
    PROVE  /\ ConfirmedTo(offset) \in Nat \ {0} /\ confirmed <= ConfirmedTo(offset)
           /\ ConfirmedTo(offset) <= said + 1 /\ offset <= ConfirmedTo(offset)
           /\ \A u \in Updates : u < ConfirmedTo(offset) => ObservedBy(u)
  BY PollTyped DEF PollInv, ConfirmedTo

LEMMA FetchStep == ASSUME PollInv, Fetch PROVE PollInv'
<1> DEFINE C == ConfirmedTo(offset)
<1>1. /\ C \in Nat \ {0} /\ confirmed <= C /\ C <= said + 1 /\ offset <= C
      /\ \A u \in Updates : u < C => ObservedBy(u)
  BY ConfirmedAreObserved
<1>2. /\ confirmed' = C
      /\ \E n \in 1..BatchLimit : C + n - 1 <= said /\ batch' = [i \in 1..n |-> C + i - 1]
  BY DEF Fetch
<1> HIDE DEF C
<1>3. PICK n \in Nat \ {0} : n <= BatchLimit /\ C + n - 1 <= said /\ batch' = [i \in 1..n |-> C + i - 1]
  BY <1>2, PollTyped
<1>4. Updates = 1..Cardinality(Updates) /\ said <= Cardinality(Updates) /\ said \in Nat /\ Cardinality(Updates) \in Nat
  BY PollTyped
<1>5. \A i \in 1..n : C + i - 1 \in Updates
  BY <1>1, <1>3, <1>4
<1>6. batch' \in Seq(Updates) /\ Len(batch') = n /\ \A i \in 1..n : batch'[i] = C + i - 1
  BY <1>3, <1>5
<1>7. /\ place' = <<1, 1>> /\ place'[1] = 1 /\ place'[2] = 1
      /\ place' \in (1..(BatchLimit + 1)) \X (1..Len(Observers))
  BY PollTyped, ThreeObservers DEF Fetch, FirstPlace
<1>8. UNCHANGED <<said, observed, life, offset, backlog, queues, serving, admits, served, faults, lives>>
  BY DEF Fetch
<1>9. PollingTypeOK'
  <2>1. confirmed' \in 0..(Cardinality(Updates) + 1)
    BY <1>1, <1>2, <1>4
  <2> QED
    BY <1>6, <1>7, <1>8, <2>1 DEF PollInv, PollingTypeOK
<1>10. BatchInv'
  <2>1. confirmed' + Len(batch') <= said' + 1 /\ Len(batch') <= BatchLimit /\ place'[1] <= Len(batch')
    BY <1>1, <1>2, <1>3, <1>4, <1>6, <1>7, <1>8
  <2>2. ~(\E k \in 1..Len(Observers) : k < place'[2]) /\ ~(\E i \in 1..Len(batch') : i < place'[1])
    BY <1>6, <1>7, ThreeObservers
  <2>3. place'[1] # Len(batch') + 1
    BY <1>3, <1>6, <1>7
  <2> QED
    BY <1>2, <1>6, <1>7, <2>1, <2>2, <2>3 DEF BatchInv
<1>11. \A u \in Updates : u < confirmed' \/ u < offset' => ObservedBy(u)
  BY <1>1, <1>2, <1>8 DEF PollInv
<1>12. 1 <= confirmed' /\ confirmed' <= said' + 1 /\ offset' <= said' + 1
  BY <1>1, <1>2, <1>8 DEF PollInv
<1> QED
  BY <1>8, <1>9, <1>10, <1>11, <1>12 DEF PollInv, ObservedBy

\* While there is no response, the place is the first.
LEMMA FirstWithout ==
    ASSUME PollInv, batch = NoBatch
    PROVE  place = FirstPlace
<1>1. Len(batch) = 0
  BY DEF NoBatch
<1>2. place[1] = 1 /\ place[2] = 1
  BY <1>1, PollTyped DEF PollInv, BatchInv
<1> QED
  BY <1>2, PollTyped DEF FirstPlace

LEMMA FetchFailsStep == ASSUME PollInv, FetchFails PROVE PollInv'
<1>1. batch = NoBatch /\ place = FirstPlace
  BY FirstWithout DEF FetchFails, Asks
<1>2. confirmed' \in Nat /\ confirmed <= confirmed' /\ confirmed' <= said + 1
  BY ConfirmedAreObserved, PollTyped DEF FetchFails, PollInv
<1>3. \A u \in Updates : u < confirmed' \/ u < offset => ObservedBy(u)
  BY ConfirmedAreObserved DEF FetchFails, PollInv
<1>4. /\ UNCHANGED <<said, observed, offset, batch, place, backlog, queues, serving, served, lives>>
      /\ life' = "stopping" /\ admits' = FALSE /\ faults' \in 0..MaxPollFaults
  BY PollingAssumption DEF FetchFails, Stops, PollInv, PollingTypeOK
<1>5. \A u : ObservedBy(u) => ObservedBy(u)'
  BY <1>4 DEF ObservedBy
<1> QED
  BY <1>1, <1>2, <1>3, <1>4, <1>5, NoResponse, PollTyped DEF PollInv, PollingTypeOK

LEMMA ObserveFailsStep == ASSUME PollInv, ObserveFails PROVE PollInv'
<1>1. batch # NoBatch /\ place[1] <= Len(batch) /\ (observed' = observed \/ observed' = Commits)
  BY DEF ObserveFails, Ingesting
<1>2. /\ observed' \in [{Observers[i] : i \in DOMAIN Observers} -> SUBSET Updates]
      /\ \A u : ObservedBy(u) => ObservedBy(u)'
  <2>1. CASE observed' = observed
    BY <2>1 DEF ObservedBy, PollInv, PollingTypeOK
  <2>2. CASE observed' = Commits
    BY <1>1, <2>2, CommitsGrow
  <2> QED
    BY <1>1, <2>1, <2>2
<1>3. /\ UNCHANGED <<said, confirmed, offset, backlog, queues, serving, served, lives>>
      /\ batch' = NoBatch /\ place' = FirstPlace
      /\ life' = "stopping" /\ admits' = FALSE /\ faults' \in 0..MaxPollFaults
  BY PollingAssumption DEF ObserveFails, Stops, PollInv, PollingTypeOK
<1>4. \A u \in Updates : u < confirmed' \/ u < offset' => ObservedBy(u)'
  BY <1>2, <1>3 DEF PollInv
<1>5. confirmed' \in Nat /\ confirmed <= confirmed' /\ confirmed' <= said + 1 /\ offset' \in Nat /\ offset' <= said + 1
  BY <1>3, PollTyped DEF PollInv
<1>6. life' \in {"up", "stopping", "down"} /\ admits' \in BOOLEAN
  BY <1>3
<1> QED
  BY <1>2, <1>3, <1>4, <1>5, <1>6, NoResponse

LEMMA IngestStopsStep == ASSUME PollInv, IngestStops PROVE PollInv'
<1>1. /\ UNCHANGED <<said, confirmed, observed, life, offset, backlog, queues, serving, admits, served, faults, lives>>
      /\ batch' = NoBatch /\ place' = FirstPlace
  BY DEF IngestStops
<1>2. \A u : ObservedBy(u)' <=> ObservedBy(u)
  BY <1>1 DEF ObservedBy
<1>3. \A u \in Updates : u < confirmed' \/ u < offset' => ObservedBy(u)'
  BY <1>1, <1>2 DEF PollInv
<1>5. confirmed' \in Nat /\ confirmed <= confirmed' /\ confirmed' <= said + 1 /\ offset' \in Nat /\ offset' <= said + 1
  BY <1>1, PollTyped DEF PollInv
<1>6. /\ life' \in {"up", "stopping", "down"} /\ admits' \in BOOLEAN /\ faults' \in 0..MaxPollFaults
      /\ observed' \in [{Observers[i] : i \in DOMAIN Observers} -> SUBSET Updates]
  BY <1>1 DEF PollInv, PollingTypeOK
<1> QED
  BY <1>1, <1>2, <1>3, <1>5, <1>6, NoResponse

LEMMA IngestedStep == ASSUME PollInv, Ingested PROVE PollInv'
<1>1. /\ UNCHANGED <<said, confirmed, observed, life, queues, serving, admits, served, faults, lives>>
      /\ batch' = NoBatch /\ place' = FirstPlace /\ backlog' = batch /\ offset' = batch[Len(batch)] + 1
      /\ batch # NoBatch /\ place[1] > Len(batch)
  BY PollTyped DEF Ingested, Ingesting
<1>2. Len(batch) \in Nat \ {0} /\ batch \in Seq(Updates)
  BY <1>1, PollTyped, EmptySeq DEF PollInv, PollingTypeOK, NoBatch
<1> PICK n \in Nat \ {0} : n = Len(batch)
  BY <1>2
<1>3. \A i \in 1..n : ObservedBy(batch[i]) /\ batch[i] = confirmed + i - 1
  BY <1>1, PollTyped DEF PollInv, BatchInv
<1>4. offset' = confirmed + n /\ confirmed + n <= said + 1
  BY <1>1, <1>2, <1>3, PollTyped DEF PollInv, BatchInv
<1>5. \A u : ObservedBy(u)' <=> ObservedBy(u)
  BY <1>1 DEF ObservedBy
<1>6. \A u \in Updates : u < confirmed \/ u < confirmed + n => ObservedBy(u)
  <2> SUFFICES ASSUME NEW u \in Updates, u < confirmed + n PROVE ObservedBy(u)
    BY PollTyped
  <2>1. u \in Nat /\ confirmed \in Nat
    BY PollTyped
  <2>2. CASE u < confirmed
    BY <2>2 DEF PollInv
  <2>3. CASE ~(u < confirmed)
    <3>1. u - confirmed + 1 \in 1..n /\ confirmed + (u - confirmed + 1) - 1 = u
      BY <2>1, <2>3
    <3> QED
      BY <1>3, <3>1
  <2> QED
    BY <2>2, <2>3
<1>7. PollingTypeOK' /\ BatchInv'
  <2>1. confirmed' \in 0..(Cardinality(Updates) + 1) /\ offset' \in 0..(Cardinality(Updates) + 1)
    BY <1>1, <1>4, PollTyped
  <2>2. Len(batch') = 0 /\ batch' \in Seq(Updates) /\ backlog' \in Seq(Updates)
    BY <1>1, <1>2 DEF NoBatch
  <2>3. place' \in (1..(BatchLimit + 1)) \X (1..Len(Observers)) /\ place'[1] = 1 /\ place'[2] = 1
    BY <1>1, PollTyped, ThreeObservers DEF FirstPlace
  <2>4. PollingTypeOK'
    BY <1>1, <2>1, <2>2, <2>3 DEF PollInv, PollingTypeOK
  <2>6. confirmed' <= said' + 1 /\ confirmed' \in Nat /\ BatchLimit \in Nat
    BY <1>1, PollTyped DEF PollInv
  <2>5. BatchInv'
    BY <2>2, <2>3, <2>6 DEF BatchInv
  <2> QED
    BY <2>4, <2>5
<1>8. 1 <= confirmed' /\ confirmed' <= said' + 1 /\ offset' <= said' + 1
  BY <1>1, <1>4 DEF PollInv
<1>9. \A u \in Updates : u < confirmed' \/ u < offset' => ObservedBy(u)'
  BY <1>1, <1>4, <1>5, <1>6
<1>10. \A i \in 1..Len(backlog') : ObservedBy(backlog[i])'
  <2> SUFFICES ASSUME NEW i \in 1..Len(backlog') PROVE ObservedBy(backlog[i])'
    OBVIOUS
  <2>1. ObservedBy(batch[i]) /\ backlog' = batch
    BY <1>1, <1>3
  <2> QED
    BY <1>1, <2>1 DEF ObservedBy
<1> QED
  BY <1>1, <1>5, <1>7, <1>8, <1>9, <1>10 DEF PollInv

LEMMA ObserveStep == ASSUME PollInv, Observe PROVE PollInv'
<1>1. /\ UNCHANGED <<said, confirmed, life, offset, batch, backlog, queues, serving, admits, served, faults, lives>>
      /\ batch # NoBatch /\ place[1] <= Len(batch) /\ observed' = Commits /\ place' = NextPlace
  BY DEF Observe, Ingesting
<1>2. /\ observed' \in [{Observers[i] : i \in DOMAIN Observers} -> SUBSET Updates]
      /\ \A u : ObservedBy(u) => ObservedBy(u)'
      /\ batch[place[1]] \in observed'[Observers[place[2]]]
      /\ \A k \in 1..3 : observed[Observers[k]] \subseteq observed'[Observers[k]]
  BY <1>1, CommitsGrow
<1> PICK a \in Nat \ {0}, b \in 1..3 : a = place[1] /\ b = place[2] /\ place = <<a, b>>
  BY PollTyped
<1> PICK n \in Nat : n = Len(batch)
  BY PollTyped
<1>3. a <= n /\ n <= BatchLimit /\ BatchLimit \in Nat
  BY <1>1, PollTyped DEF PollInv, BatchInv
<1>4. place' = IF b < 3 THEN <<a, b + 1>> ELSE <<a + 1, 1>>
  BY <1>1, ThreeObservers DEF NextPlace
<1>5. \A k \in 1..3 : k < b => batch[a] \in observed[Observers[k]]
  BY <1>3, ThreeObservers DEF PollInv, BatchInv
<1>6. \A i \in 1..n : i < a => ObservedBy(batch[i])'
  <2> SUFFICES ASSUME NEW i \in 1..n, i < a PROVE ObservedBy(batch[i])'
    OBVIOUS
  <2>1. ObservedBy(batch[i])
    BY DEF PollInv, BatchInv
  <2> QED
    BY <1>1, <1>2, <2>1 DEF ObservedBy
<1>7. \A k \in 1..3 : k < b \/ k = b => batch[a] \in observed'[Observers[k]]
  BY <1>2, <1>5
<1>8. BatchInv'
  <2>1. Len(batch') = n /\ batch' = batch /\ confirmed' = confirmed /\ said' = said
    BY <1>1
  <2>2. CASE b < 3
    <3>1. place' = <<a, b + 1>> /\ place'[1] = a /\ place'[2] = b + 1
      BY <1>4, <2>2
    <3>2. \A k \in 1..3 : k < b + 1 => batch[a] \in observed'[Observers[k]]
      BY <1>7
    <3>3. a # n + 1 /\ a <= n + 1
      BY <1>3
    <3>4. \A i \in 1..Len(batch') : i < place'[1] => ObservedBy(batch[i])'
      BY <1>6, <2>1, <3>1
    <3> QED
      BY <1>3, <2>1, <3>1, <3>2, <3>3, <3>4, ThreeObservers DEF PollInv, BatchInv
  <2>3. CASE ~(b < 3)
    <3>1. place' = <<a + 1, 1>> /\ place'[1] = a + 1 /\ place'[2] = 1 /\ b = 3
      BY <1>4, <2>3
    <3>2. ObservedBy(batch[a])'
      BY <1>1, <1>7, <3>1, ThreeObservers DEF ObservedBy
    <3>3. \A i \in 1..Len(batch') : i < place'[1] => ObservedBy(batch[i])'
      <4> SUFFICES ASSUME NEW i \in 1..n, i < a + 1 PROVE ObservedBy(batch[i])'
        BY <2>1, <3>1
      <4>1. i < a \/ i = a
        OBVIOUS
      <4> QED
        BY <1>6, <3>2, <4>1
    <3>4. ~\E k \in 1..Len(Observers) : k < place'[2]
      BY <3>1, ThreeObservers
    <3>5. a + 1 <= n + 1
      BY <1>3
    <3> QED
      BY <1>3, <2>1, <3>1, <3>3, <3>4, <3>5 DEF PollInv, BatchInv
  <2> QED
    BY <2>2, <2>3
<1>9. PollingTypeOK'
  <2>1. place' \in (1..(BatchLimit + 1)) \X (1..Len(Observers))
    BY <1>3, <1>4, ThreeObservers
  <2> QED
    BY <1>1, <1>2, <2>1 DEF PollInv, PollingTypeOK
<1>10. 1 <= confirmed' /\ confirmed' <= said' + 1 /\ offset' <= said' + 1
  BY <1>1 DEF PollInv
<1>11. /\ \A u \in Updates : u < confirmed' \/ u < offset' => ObservedBy(u)'
       /\ \A u \in serving' \cup served' : ObservedBy(u)'
  BY <1>1, <1>2 DEF PollInv
<1>12. \A i \in 1..Len(backlog') : ObservedBy(backlog[i])'
  <2> SUFFICES ASSUME NEW i \in 1..Len(backlog') PROVE ObservedBy(backlog[i])'
    OBVIOUS
  <2>1. ObservedBy(backlog[i]) /\ backlog' = backlog
    BY <1>1 DEF PollInv
  <2> QED
    BY <1>2, <2>1 DEF ObservedBy
<1>13. \A c \in Chats : \A i \in 1..Len(queues'[c]) : ObservedBy(queues[c][i])'
  <2> SUFFICES ASSUME NEW c \in Chats, NEW i \in 1..Len(queues'[c]) PROVE ObservedBy(queues[c][i])'
    OBVIOUS
  <2>1. ObservedBy(queues[c][i]) /\ queues' = queues
    BY <1>1 DEF PollInv
  <2> QED
    BY <1>2, <2>1 DEF ObservedBy
<1> QED
  BY <1>8, <1>9, <1>10, <1>11, <1>12, <1>13 DEF PollInv

\* Updates move from the backlog to a queue or a task, and from a queue to its worker.
LEMMA QueuesMove ==
    ASSUME PollInv, UNCHANGED <<said, confirmed, observed, life, offset, batch, place, admits, served, faults, lives>>,
           backlog' \in Seq(Updates), queues' \in [Chats -> Seq(Updates)], serving' \subseteq Updates,
           \A i \in 1..Len(backlog') : ObservedBy(backlog'[i]),
           \A c \in Chats : \A i \in 1..Len(queues'[c]) : ObservedBy(queues'[c][i]),
           \A u \in serving' : ObservedBy(u)
    PROVE  PollInv'
<1>1. PollingTypeOK'
  BY DEF PollInv, PollingTypeOK
<1>2. BatchInv'
  BY DEF PollInv, BatchInv, ObservedBy
<1>3. confirmed' <= said' + 1 /\ offset' <= said' + 1 /\ 1 <= confirmed'
  BY DEF PollInv
<1> QED
  BY <1>1, <1>2, <1>3 DEF PollInv, ObservedBy

LEMMA HandOutStep == ASSUME PollInv, HandOut PROVE PollInv'
<1>1. PICK i \in Left : /\ backlog' = SubSeq(backlog, i + 1, Len(backlog))
                        /\ \/ /\ serving' \subseteq serving \cup {backlog[i]} /\ queues' = queues
                           \/ /\ queues' = [queues EXCEPT ![ChatOf[backlog[i]]] = Append(@, backlog[i])]
                              /\ serving' = serving
  BY DEF HandOut
<1> DEFINE u == backlog[i]
           c == ChatOf[u]
<1>2. /\ backlog \in Seq(Updates) /\ queues \in [Chats -> Seq(Updates)] /\ serving \subseteq Updates
      /\ UNCHANGED <<said, confirmed, observed, life, offset, batch, place, admits, served, faults, lives>>
  BY DEF HandOut, PollInv, PollingTypeOK
<1>3. i \in 1..Len(backlog) /\ u \in Updates /\ ObservedBy(u) /\ c \in Chats
  <2>1. i \in 1..Len(backlog)
    BY DEF Left
  <2>2. u \in Updates
    BY <1>2, <2>1, ElementOfSeq
  <2> QED
    BY <2>1, <2>2 DEF PollInv, Chats
<1>4. /\ backlog' \in Seq(Updates)
      /\ \A k \in 1..Len(backlog') : \E j \in 1..Len(backlog) : backlog'[k] = backlog[j]
  <2> PICK n \in Nat : n = Len(backlog)
    BY <1>2, LenProperties
  <2>1. \A j \in (i + 1)..n : backlog[j] \in Updates
    BY <1>2, <1>3, ElementOfSeq
  <2>2. /\ SubSeq(backlog, i + 1, n) \in Seq(Updates)
        /\ Len(SubSeq(backlog, i + 1, n)) = IF i + 1 <= n THEN n - (i + 1) + 1 ELSE 0
        /\ \A k \in 1..(n - (i + 1) + 1) : SubSeq(backlog, i + 1, n)[k] = backlog[i + 1 + k - 1]
    BY <1>2, <1>3, <2>1, SubSeqProperties
  <2>3. \A k \in 1..Len(backlog') : i + 1 + k - 1 \in 1..n /\ backlog'[k] = backlog[i + 1 + k - 1]
    BY <1>1, <1>3, <2>2
  <2> QED
    BY <1>1, <2>2, <2>3
<1>5. \A k \in 1..Len(backlog') : ObservedBy(backlog'[k])
  BY <1>4 DEF PollInv
<1>6. \A v \in serving : ObservedBy(v)
  BY DEF PollInv
<1>7. \A d \in Chats : \A k \in 1..Len(queues[d]) : ObservedBy(queues[d][k])
  BY DEF PollInv
<1> HIDE DEF u, c
<1>8. CASE serving' \subseteq serving \cup {u} /\ queues' = queues
  <2>1. serving' \subseteq Updates /\ \A v \in serving' : ObservedBy(v)
    BY <1>2, <1>3, <1>6, <1>8
  <2> QED
    BY <1>2, <1>4, <1>5, <1>7, <1>8, <2>1, QueuesMove
<1>9. CASE queues' = [queues EXCEPT ![c] = Append(@, u)] /\ serving' = serving
  <2>1. queues[c] \in Seq(Updates)
    BY <1>2, <1>3
  <2>2. /\ Append(queues[c], u) \in Seq(Updates) /\ Len(Append(queues[c], u)) = Len(queues[c]) + 1
        /\ Len(queues[c]) \in Nat
        /\ \A k \in 1..Len(queues[c]) : Append(queues[c], u)[k] = queues[c][k]
        /\ Append(queues[c], u)[Len(queues[c]) + 1] = u
    BY <1>3, <2>1, AppendProperties, LenProperties
  <2>3. queues' \in [Chats -> Seq(Updates)] /\ \A d \in Chats : queues'[d] = IF d = c THEN Append(queues[c], u) ELSE queues[d]
    BY <1>2, <1>3, <1>9, <2>2
  <2>4. \A k \in 1..Len(Append(queues[c], u)) : ObservedBy(Append(queues[c], u)[k])
    <3> PICK n \in Nat : n = Len(queues[c])
      BY <2>2
    <3>1. \A k \in 1..(n + 1) : k \in 1..n \/ k = n + 1
      OBVIOUS
    <3> QED
      BY <1>3, <1>7, <2>2, <3>1
  <2>5. \A d \in Chats : \A k \in 1..Len(queues'[d]) : ObservedBy(queues'[d][k])
    BY <1>7, <2>3, <2>4
  <2> QED
    BY <1>2, <1>4, <1>5, <1>6, <1>9, <2>3, <2>5, QueuesMove
<1> QED
  BY <1>1, <1>8, <1>9 DEF u, c

LEMMA ServeStep == ASSUME PollInv, NEW c \in Chats, ServeChat(c) PROVE PollInv'
<1> DEFINE q == queues[c]
<1>1. /\ q # <<>> /\ queues' = [queues EXCEPT ![c] = Tail(q)]
      /\ serving' \subseteq serving \cup {Head(q)}
      /\ UNCHANGED <<said, confirmed, observed, life, offset, batch, place, backlog, admits, served, faults, lives>>
  BY DEF ServeChat
<1>2. /\ backlog \in Seq(Updates) /\ queues \in [Chats -> Seq(Updates)] /\ serving \subseteq Updates
      /\ q \in Seq(Updates)
  BY DEF PollInv, PollingTypeOK
<1>3. /\ \A i \in 1..Len(backlog) : ObservedBy(backlog[i])
      /\ \A v \in serving : ObservedBy(v)
      /\ \A d \in Chats : \A k \in 1..Len(queues[d]) : ObservedBy(queues[d][k])
      /\ \A k \in 1..Len(q) : ObservedBy(q[k])
  BY DEF PollInv
<1> HIDE DEF q
<1>4. /\ Len(q) \in Nat \ {0} /\ Head(q) = q[1] /\ Head(q) \in Updates
      /\ Tail(q) \in Seq(Updates) /\ Len(Tail(q)) = Len(q) - 1
      /\ \A k \in 1..Len(Tail(q)) : Tail(q)[k] = q[k + 1]
  BY <1>1, <1>2, HeadTailProperties, EmptySeq, LenProperties
<1>5. ObservedBy(Head(q)) /\ \A k \in 1..Len(Tail(q)) : ObservedBy(Tail(q)[k])
  BY <1>3, <1>4
<1>6. queues' \in [Chats -> Seq(Updates)] /\ \A d \in Chats : queues'[d] = IF d = c THEN Tail(q) ELSE queues[d]
  BY <1>1, <1>2, <1>4
<1>7. \A d \in Chats : \A k \in 1..Len(queues'[d]) : ObservedBy(queues'[d][k])
  BY <1>3, <1>5, <1>6
<1>8. serving' \subseteq Updates /\ \A v \in serving' : ObservedBy(v)
  BY <1>1, <1>2, <1>3, <1>4, <1>5
<1>9. backlog' \in Seq(Updates) /\ \A i \in 1..Len(backlog') : ObservedBy(backlog'[i])
  BY <1>1, <1>2, <1>3
<1> QED
  BY <1>1, <1>6, <1>7, <1>8, <1>9, QueuesMove

LEMMA ReliveStep == ASSUME PollInv, Relive PROVE PollInv'
<1>1. /\ UNCHANGED <<said, confirmed, observed, served, faults>>
      /\ life' = "up" /\ admits' = TRUE /\ offset' = 0 /\ batch' = <<>> /\ place' = <<1, 1>>
      /\ backlog' = <<>> /\ queues' = [c \in Chats |-> <<>>] /\ serving' = {} /\ lives' = lives + 1 /\ lives < MaxLives
  BY DEF Relive, NoBatch, FirstPlace
<1>2. Len(batch') = 0 /\ Len(backlog') = 0 /\ place'[1] = 1 /\ place'[2] = 1
  BY <1>1
<1>3. PollingTypeOK'
  <2>1. place' \in (1..(BatchLimit + 1)) \X (1..Len(Observers)) /\ offset' \in 0..(Cardinality(Updates) + 1)
    BY <1>1, PollTyped, ThreeObservers
  <2>2. queues' \in [Chats -> Seq(Updates)] /\ batch' \in Seq(Updates) /\ backlog' \in Seq(Updates)
    BY <1>1
  <2>3. lives' \in 1..MaxLives
    BY <1>1, PollingAssumption DEF PollInv, PollingTypeOK
  <2> QED
    BY <1>1, <2>1, <2>2, <2>3 DEF PollInv, PollingTypeOK
<1>4. confirmed' \in Nat /\ confirmed' <= said' + 1 /\ 1 <= confirmed' /\ offset' <= said' + 1 /\ said' \in Nat
  BY <1>1, PollTyped DEF PollInv
<1>5. BatchInv'
  BY <1>2, <1>4, PollTyped DEF BatchInv
<1>6. \A u \in Updates : u < confirmed' \/ u < offset' => ObservedBy(u)
  BY <1>1, PollTyped DEF PollInv
<1>7. \A u \in serving' \cup served' : ObservedBy(u)
  BY <1>1 DEF PollInv
<1>8. \A c \in Chats : Len(queues'[c]) = 0
  BY <1>1
<1> QED
  BY <1>1, <1>2, <1>3, <1>4, <1>5, <1>6, <1>7, <1>8 DEF PollInv, ObservedBy

LEMMA PollNextInv == PollInv /\ [PollingNext]_pollVars => PollInv'
<1> SUFFICES ASSUME PollInv, [PollingNext]_pollVars PROVE PollInv'
  OBVIOUS
<1> DEFINE N == Cardinality(Updates)
<1>0. /\ said \in 0..N /\ N \in Nat /\ life \in {"up", "stopping", "down"} /\ admits \in BOOLEAN
      /\ faults \in 0..MaxPollFaults /\ lives \in 1..MaxLives
      /\ serving \subseteq Updates /\ served \subseteq Updates
      /\ \A u \in serving \cup served : ObservedBy(u)
  BY PollTyped DEF PollInv, PollingTypeOK
<1>1. CASE Send
  <2>1. said' \in 0..N /\ said' >= said
    BY <1>0, <1>1, PollTyped DEF Send
  <2>2. UNCHANGED <<confirmed, observed, life, offset, batch, place, backlog, queues, serving, admits, served, faults, lives>>
    BY <1>1 DEF Send, memory
  <2> QED
    BY <1>0, <2>1, <2>2, PollQuiet
<1>2. ASSUME NEW u \in Updates, Served(u) PROVE PollInv'
  <2>1. /\ UNCHANGED <<said, confirmed, observed, life, offset, batch, place, backlog, queues, admits, faults, lives>>
        /\ serving' \subseteq serving /\ served' = served \cup {u} /\ u \in serving
    BY <1>2 DEF Served
  <2>2. serving' \subseteq Updates /\ served' \subseteq Updates /\ \A v \in serving' \cup served' : ObservedBy(v)
    BY <1>0, <2>1
  <2>3. said' \in 0..N /\ said' >= said
    BY <1>0, <2>1
  <2> QED
    BY <1>0, <2>1, <2>2, <2>3, PollQuiet
<1>3. CASE StopPolling \/ Exit \/ Crash \/ UNCHANGED pollVars
  <2>1. /\ UNCHANGED <<said, confirmed, observed, offset, batch, place, backlog, queues, serving, served, faults, lives>>
        /\ life' \in {"up", "stopping", "down"} /\ admits' \in BOOLEAN
    BY <1>0, <1>3 DEF StopPolling, Stops, Exit, Crash, pollVars, memory
  <2>2. said' \in 0..N /\ said' >= said
    BY <1>0, <2>1
  <2> QED
    BY <1>0, <2>1, <2>2, PollQuiet
<1> QED
  BY <1>1, <1>2, <1>3, FetchStep, FetchFailsStep, ObserveStep, ObserveFailsStep, IngestStopsStep, IngestedStep,
     HandOutStep, ServeStep, ReliveStep DEF PollingNext

\* Whatever fails, stops or crashes, the response and the queues hold what BatchInv says.
THEOREM PollInvariance == PollingSpec => []PollInv
  BY PollInitInv, PollNextInv, PTL DEF PollingSpec

\* What Telegram will not send again, and what a handler works on, is committed by
\* every observer (raw_polling.rs).
THEOREM NoUpdateIsLost == PollingSpec => []ConfirmedIsObserved
<1>1. PollInv => ConfirmedIsObserved
  BY DEF PollInv, ConfirmedIsObserved
<1> QED
  BY <1>1, PollInvariance, PTL

----------------------------------------------------------------------------
(* Accounts and administration, for any people, requests and topics.       *)

\* A request that is known has an actor and a target.
LEMMA RequestTyped ==
    ASSUME AccountTypeOK, NEW r \in Requests, request[r] # NoRequest
    PROVE  /\ request[r] \in KnownRequest /\ request[r].actor \in People /\ request[r].target \in People
           /\ request[r].value \in GivenRoles /\ request[r].value \in 0..5 /\ request[r].found \subseteq Topics
<1>1. request[r] \in KnownRequest
  BY DEF AccountTypeOK
<1>2. \A v \in GivenRoles : v \in 0..5
  BY DEF GivenRoles, Banned, Member, Administrator
<1> QED
  BY <1>1, <1>2 DEF KnownRequest

LEMMA AccountTyped ==
    ASSUME AccountTypeOK, NEW p \in People
    PROVE  /\ account[p] \in [role : 0..5 \cup {NoRole}, ban : BOOLEAN]
           /\ account[p].role \in 0..5 \cup {NoRole} /\ account[p].ban \in BOOLEAN
           /\ account[p] = NoAccount <=> account[p].role = NoRole
           /\ RoleOf(p) \in 0..5 \cup {NoRole}
<1>1. account[p] \in [role : 0..5 \cup {NoRole}, ban : BOOLEAN]
  BY DEF AccountTypeOK
<1>2. account[p].role = NoRole => account[p].ban = FALSE
  <2>1. WholeRows
    BY DEF AccountTypeOK
  <2> QED
    BY <2>1 DEF WholeRows
<1>3. account[p] = [role |-> account[p].role, ban |-> account[p].ban] /\ account[p].ban \in BOOLEAN
  BY <1>1
<1>5. account[p] = NoAccount => account[p].role = NoRole
  BY DEF NoAccount
<1>6. account[p].role = NoRole => account[p] = NoAccount
  BY <1>2, <1>3, Zenon DEF NoAccount
<1>7. account[p].role \in 0..5 \cup {NoRole}
  BY <1>1
<1> QED
  BY <1>1, <1>3, <1>5, <1>6, <1>7 DEF RoleOf, OwnerRole

\* Who has the role of an administrator in a transaction is not blocked then.
LEMMA RolesAreCurrent ==
    ASSUME AccountTypeOK, NEW q, q.actor \in People
    PROVE  /\ Administrates(q) => Ranked(q.actor) /\ ~Blocked(q.actor) /\ ActorRole(q) = RoleOf(q.actor)
           /\ ActorRole(q) = OwnerRole => Administrates(q)
           /\ ActorRole(q) \in 0..5 \cup {NoRole}
  BY AccountTyped DEF Administrates, ActorRole, Ranked, Administrator, Banned, OwnerRole

\* A request is carried out.
LEMMA DoneTyped ==
    ASSUME AccountTypeOK, NEW r \in Requests, Done(r), commits < MaxCommits
    PROVE  /\ request' \in [Requests -> {NoRequest} \cup KnownRequest] /\ commits' \in 0..MaxCommits
           /\ commits' # commits
           /\ byWhom'.who = request[r].actor /\ byWhom'.op = request[r].op
<1>1. commits \in Nat /\ MaxCommits \in Nat
  BY AccountAssumption DEF AccountTypeOK
<1> QED
  BY <1>1 DEF Done, AccountTypeOK

\* Carrying out a request that changes neither account nor token.
LEMMA DoneStep ==
    ASSUME AccountTypeOK, NEW r \in Requests, Done(r), commits < MaxCommits, UNCHANGED <<account, token>>,
           local' \in [People -> 0..5 \cup {NoRole}], approval' \in BOOLEAN,
           groupPolicy' \in [enabled : BOOLEAN, auto : GivenRoles],
           threads' \in [Topics -> {"none", "on", "off"}],
           grant' \in [People -> {"none", "held", "expired"}]
    PROVE  AccountTypeOK'
<1>1. WholeRows'
  BY DEF AccountTypeOK, WholeRows
<1>2. account' \in [People -> [role : 0..5 \cup {NoRole}, ban : BOOLEAN]] /\ token' \in [People -> [claim : 0..5 \cup {NoRole}]]
  BY DEF AccountTypeOK
<1> QED
  BY <1>1, <1>2, DoneTyped DEF AccountTypeOK

\* What a step has to show: who acted and what changed.
LEMMA NobodyGains ==
    ASSUME UNCHANGED <<commits, groupPolicy, threads, local>>,
           \A p \in People : grant'[p] = grant[p] \/ (grant[p] = "held" /\ grant'[p] = "expired"),
           \A p \in People : account'[p] = account[p] \/ byWhom'.op \in {"register", "time"},
           \A p \in People : grant[p] \in {"none", "held", "expired"}
    PROVE  AuthorityStep
<1>1. groupVars' = groupVars
  BY DEF groupVars
<1>2. \A p \in People : <<grant[p], grant'[p]>> \in {<<x, x>> : x \in {"none", "held", "expired"}} \cup {<<"held", "expired">>}
  OBVIOUS
<1> QED
  BY <1>1, <1>2 DEF AuthorityStep

LEMMA TokenStep ==
    ASSUME AccountTypeOK, NEW p \in People, IssueToken(p) \/ TokenExpires(p) \/ GrantExpires(p)
    PROVE  AccountTypeOK' /\ AuthorityStep
<1>0. \A x \in People : grant[x] \in {"none", "held", "expired"}
  BY DEF AccountTypeOK
<1>1. CASE IssueToken(p)
  <2> DEFINE role == RegistrationRole(p)
  <2>1. role \in 0..5 /\ role # NoRole
    BY DEF RegistrationRole, OwnerRole, Restricted, Member, NoRole
  <2>2. /\ UNCHANGED <<approval, groupPolicy, threads, local, grant, request, commits>>
        /\ byWhom' = [who |-> p, op |-> "register"]
        /\ account' = account \/ account' = [account EXCEPT ![p] = [role |-> role, ban |-> FALSE]]
        /\ account[p] = NoAccount => account' = [account EXCEPT ![p] = [role |-> role, ban |-> FALSE]]
        /\ account[p] # NoAccount => account' = account
        /\ token' = [token EXCEPT ![p] = [claim |-> IF account[p] = NoAccount THEN role ELSE RoleOf(p)]]
    BY <1>1 DEF IssueToken, groupVars
  <2> HIDE DEF role
  <2>3. account \in [People -> [role : 0..5 \cup {NoRole}, ban : BOOLEAN]] /\ token \in [People -> [claim : 0..5 \cup {NoRole}]]
    BY DEF AccountTypeOK
  <2>12. [role |-> role, ban |-> FALSE] \in [role : 0..5 \cup {NoRole}, ban : BOOLEAN]
    BY <2>1
  <2>4. account' \in [People -> [role : 0..5 \cup {NoRole}, ban : BOOLEAN]]
    BY <2>2, <2>3, <2>12
  <2>5. token' \in [People -> [claim : 0..5 \cup {NoRole}]]
    BY <2>1, <2>2, <2>3, AccountTyped
  <2>6. \A x \in People : account'[x] = account[x] \/ (x = p /\ account'[x] = [role |-> role, ban |-> FALSE])
    BY <2>2, <2>3
  <2>7. account'[p] # NoAccount
    <3>1. CASE account[p] = NoAccount
      BY <2>1, <2>2, <2>3, <3>1 DEF NoAccount
    <3> QED
      BY <2>2, <3>1
  <2>8. \A x \in People : x # p => token'[x] = token[x] /\ account'[x] = account[x]
    BY <2>2, <2>3
  <2>9. WholeRows'
    <3> SUFFICES ASSUME NEW x \in People
                 PROVE  /\ token'[x] # NoAccessToken => account'[x] # NoAccount
                        /\ account'[x].role = NoRole => account'[x].ban = FALSE
      BY DEF WholeRows
    <3>1. WholeRows
      BY DEF AccountTypeOK
    <3>2. account'[x].role = NoRole => account'[x].ban = FALSE
      <4>1. CASE account'[x] = account[x]
        BY <3>1, <4>1 DEF WholeRows
      <4>2. CASE account'[x] = [role |-> role, ban |-> FALSE]
        BY <4>2
      <4> QED
        BY <2>6, <4>1, <4>2
    <3>3. CASE x = p
      BY <2>7, <3>2, <3>3
    <3>4. CASE x # p
      BY <2>8, <3>1, <3>2, <3>4 DEF WholeRows
    <3> QED
      BY <3>3, <3>4
  <2>10. AccountTypeOK'
    BY <2>2, <2>4, <2>5, <2>9 DEF AccountTypeOK
  <2>11. AuthorityStep
    BY <1>0, <2>2, NobodyGains
  <2> QED
    BY <2>10, <2>11
<1>2. CASE TokenExpires(p)
  <2>1. /\ UNCHANGED <<account, approval, groupPolicy, threads, local, grant, request, commits, byWhom>>
        /\ token' = [token EXCEPT ![p] = NoAccessToken]
    BY <1>2 DEF TokenExpires, groupVars
  <2>2. token \in [People -> [claim : 0..5 \cup {NoRole}]] /\ NoAccessToken \in [claim : 0..5 \cup {NoRole}]
    BY DEF AccountTypeOK, NoAccessToken
  <2>3. token' \in [People -> [claim : 0..5 \cup {NoRole}]] /\ \A x \in People : token'[x] \in {token[x], NoAccessToken}
    BY <2>1, <2>2
  <2>4. WholeRows'
    BY <2>1, <2>3 DEF WholeRows, AccountTypeOK
  <2>5. AccountTypeOK'
    BY <2>1, <2>3, <2>4 DEF AccountTypeOK
  <2>6. AuthorityStep
    BY <1>0, <2>1, NobodyGains
  <2> QED
    BY <2>5, <2>6
<1>3. CASE GrantExpires(p)
  <2>1. /\ UNCHANGED <<account, token, approval, groupPolicy, threads, local, request, commits, byWhom>>
        /\ grant' = [grant EXCEPT ![p] = "expired"] /\ grant[p] = "held"
    BY <1>3 DEF GrantExpires, groupVars
  <2>2. grant \in [People -> {"none", "held", "expired"}]
    BY DEF AccountTypeOK
  <2>3. /\ grant' \in [People -> {"none", "held", "expired"}]
        /\ \A x \in People : grant'[x] = grant[x] \/ (grant[x] = "held" /\ grant'[x] = "expired")
    BY <2>1, <2>2
  <2>4. WholeRows'
    BY <2>1 DEF WholeRows, AccountTypeOK
  <2>5. AccountTypeOK'
    BY <2>1, <2>3, <2>4 DEF AccountTypeOK
  <2>6. AuthorityStep
    BY <1>0, <2>1, <2>3, NobodyGains
  <2> QED
    BY <2>5, <2>6
<1> QED
  BY <1>1, <1>2, <1>3

LEMMA BanExpiresStep ==
    ASSUME AccountTypeOK, NEW p \in People, BanExpires(p)
    PROVE  AccountTypeOK' /\ AuthorityStep
<1>1. /\ UNCHANGED <<token, approval, groupPolicy, threads, local, grant, request, commits>>
      /\ account' = [account EXCEPT ![p].ban = FALSE] /\ byWhom'.op = "time" /\ account[p].ban
  BY DEF BanExpires, groupVars
<1>2. account \in [People -> [role : 0..5 \cup {NoRole}, ban : BOOLEAN]]
  BY DEF AccountTypeOK
<1>3. account' \in [People -> [role : 0..5 \cup {NoRole}, ban : BOOLEAN]]
  BY <1>1, <1>2
<1>4. \A x \in People : account'[x] = IF x = p THEN [account[p] EXCEPT !.ban = FALSE] ELSE account[x]
  BY <1>1, <1>2
<1>5. account'[p].role = account[p].role /\ account'[p].ban = FALSE
  BY <1>2, <1>4
<1>6. account[p].role # NoRole
  <2>1. account[p].role = NoRole => account[p].ban = FALSE
    BY DEF AccountTypeOK, WholeRows
  <2> QED
    BY <1>1, <2>1
<1>7. account'[p] # NoAccount
  BY <1>5, <1>6 DEF NoAccount
<1>8. WholeRows'
  <2> SUFFICES ASSUME NEW x \in People
               PROVE  /\ token'[x] # NoAccessToken => account'[x] # NoAccount
                      /\ account'[x].role = NoRole => account'[x].ban = FALSE
    BY DEF WholeRows
  <2>1. CASE x = p
    BY <1>5, <1>7, <2>1
  <2>2. CASE x # p
    <3>1. WholeRows /\ account'[x] = account[x] /\ token'[x] = token[x]
      BY <1>1, <1>4, <2>2 DEF AccountTypeOK
    <3> QED
      BY <3>1 DEF WholeRows
  <2> QED
    BY <2>1, <2>2
<1>9. AccountTypeOK'
  BY <1>1, <1>3, <1>8 DEF AccountTypeOK
<1>10. \A x \in People : grant[x] \in {"none", "held", "expired"}
  BY DEF AccountTypeOK
<1>11. AuthorityStep
  BY <1>1, <1>10, NobodyGains
<1> QED
  BY <1>9, <1>11

\* A request comes, goes on, or is refused.
LEMMA RequestStep ==
    ASSUME AccountTypeOK, UNCHANGED <<account, token, approval, groupVars, grant, commits, byWhom>>,
           NEW r \in Requests, NEW x \in {NoRequest} \cup KnownRequest, request' = [request EXCEPT ![r] = x]
    PROVE  AccountTypeOK' /\ AuthorityStep
<1>1. UNCHANGED <<groupPolicy, threads, local>>
  BY DEF groupVars
<1>2. WholeRows'
  BY DEF WholeRows, AccountTypeOK
<1>3. request' \in [Requests -> {NoRequest} \cup KnownRequest]
  BY DEF AccountTypeOK
<1>4. AccountTypeOK'
  BY <1>1, <1>2, <1>3 DEF AccountTypeOK
<1>5. \A p \in People : grant[p] \in {"none", "held", "expired"}
  BY DEF AccountTypeOK
<1>6. AuthorityStep
  BY <1>1, <1>5, NobodyGains
<1> QED
  BY <1>4, <1>6

LEMMA AuthenticateStep ==
    ASSUME AccountTypeOK, NEW r \in Requests, NEW p \in People, NEW target \in People, NEW value \in GivenRoles,
           NEW op \in Operations, Authenticate(r, p, op, target, value)
    PROVE  AccountTypeOK' /\ AuthorityStep
<1> DEFINE x == [pc |-> "known", actor |-> p, claim |-> token[p].claim, op |-> op,
                 target |-> target, value |-> value, found |-> {}]
<1>1. token[p].claim \in 0..5
  <2>1. token[p] \in [claim : 0..5 \cup {NoRole}] /\ token[p] # NoAccessToken
    BY DEF Authenticate, AccountTypeOK
  <2>2. token[p] = [claim |-> token[p].claim]
    BY <2>1
  <2> QED
    BY <2>1, <2>2 DEF NoAccessToken
<1>2. x \in KnownRequest
  BY <1>1 DEF KnownRequest
<1>3. request' = [request EXCEPT ![r] = x] /\ UNCHANGED <<account, token, approval, groupVars, grant, commits, byWhom>>
  BY DEF Authenticate
<1> HIDE DEF x
<1> QED
  BY <1>2, <1>3, RequestStep

\* What an administrator carries out.
LEMMA ByAnAdministrator ==
    ASSUME AccountTypeOK, NEW r \in Requests, request[r] # NoRequest, Done(r), Administrates(request[r]),
           request[r].op = "scan" /\ threads' # threads =>
               /\ RoleOf(request[r].actor) = OwnerRole
               /\ \A t \in Topics : threads[t] \in {"none", threads'[t]},
           \A p \in People : grant'[p] # grant[p] =>
               /\ p # ConfiguredOwner
               /\ RoleOf(p) >= Administrator => RoleOf(request[r].actor) = OwnerRole,
           \A p \in People : account'[p] # account[p] =>
               /\ p # ConfiguredOwner
               /\ Administrator \in {account[p].role, account'[p].role} => RoleOf(request[r].actor) = OwnerRole
    PROVE  AuthorityStep
<1>1. byWhom'.who = request[r].actor /\ byWhom'.op = request[r].op
  BY DEF Done
<1>2. Ranked(request[r].actor) /\ ~Blocked(request[r].actor)
  BY RequestTyped, RolesAreCurrent
<1>3. \A p \in People : <<grant[p], grant'[p]>> \notin {<<x, x>> : x \in {"none", "held", "expired"}} \cup {<<"held", "expired">>}
          => grant'[p] # grant[p]
  BY DEF AccountTypeOK
<1> QED
  BY <1>1, <1>2, <1>3 DEF AuthorityStep

LEMMA UpdateUserStep ==
    ASSUME AccountTypeOK, NEW r \in Requests, AdminUpdateUser(r)
    PROVE  AccountTypeOK' /\ AuthorityStep
<1> DEFINE q == request[r]
           p == q.target
           old == account[p]
           new == account'[p]
<1>1. /\ UNCHANGED <<token, approval, groupPolicy, threads, local, grant>>
      /\ Done(r) /\ MayUpdate(q) /\ commits < MaxCommits /\ q # NoRequest
      /\ account' = IF q.op = "role" THEN [account EXCEPT ![p].role = q.value]
                    ELSE [account EXCEPT ![p].ban = (q.value = Banned)]
  BY DEF AdminUpdateUser, Waits, groupVars, NoRequest
<1>2. q \in KnownRequest /\ q.actor \in People /\ p \in People /\ q.value \in GivenRoles /\ q.value \in 0..5
  BY <1>1, RequestTyped
<1>3. account \in [People -> [role : 0..5 \cup {NoRole}, ban : BOOLEAN]] /\ old # NoAccount /\ old.role # NoRole
  BY <1>1, <1>2, AccountTyped DEF MayUpdate, AccountTypeOK
<1>4. account' \in [People -> [role : 0..5 \cup {NoRole}, ban : BOOLEAN]]
  <2> DEFINE banned == q.value = Banned
  <2>1. CASE q.op = "role"
    BY <1>1, <1>2, <1>3, <2>1
  <2>2. CASE q.op # "role"
    <3>1. banned \in BOOLEAN /\ account' = [account EXCEPT ![p].ban = banned]
      BY <1>1, <2>2
    <3> HIDE DEF banned
    <3> QED BY <1>2, <1>3, <3>1
  <2> QED BY <2>1, <2>2
<1>5. /\ \A x \in People : x # p => account'[x] = account[x]
      /\ new.role = IF q.op = "role" THEN q.value ELSE old.role
  BY <1>1, <1>2, <1>3
<1>6. new.role # NoRole
  BY <1>2, <1>3, <1>5 DEF NoRole
<1>7. new # NoAccount
  BY <1>6 DEF NoAccount
<1>8. WholeRows'
  <2> SUFFICES ASSUME NEW x \in People
               PROVE  /\ token'[x] # NoAccessToken => account'[x] # NoAccount
                      /\ account'[x].role = NoRole => account'[x].ban = FALSE
    BY DEF WholeRows
  <2>1. CASE x = p
    BY <1>6, <1>7, <2>1
  <2>2. CASE x # p
    <3>1. WholeRows /\ account'[x] = account[x] /\ token'[x] = token[x]
      BY <1>1, <1>5, <2>2 DEF AccountTypeOK
    <3> QED
      BY <3>1 DEF WholeRows
  <2> QED
    BY <2>1, <2>2
<1>9. AccountTypeOK'
  BY <1>1, <1>4, <1>8, DoneTyped DEF AccountTypeOK
<1>10. Administrates(q) /\ RoleOf(q.actor) = ActorRole(q)
  BY <1>1, <1>2, RolesAreCurrent DEF MayUpdate
<1>11. p # ConfiguredOwner /\ (Administrator \in {old.role, new.role} => RoleOf(q.actor) = OwnerRole)
  BY <1>1, <1>2, <1>5, <1>10 DEF MayUpdate, Administrator
<1>12. \A x \in People : account'[x] # account[x] =>
               /\ x # ConfiguredOwner
               /\ Administrator \in {account[x].role, account'[x].role} => RoleOf(q.actor) = OwnerRole
  BY <1>5, <1>11
<1>13. AuthorityStep
  BY <1>1, <1>10, <1>12, ByAnAdministrator
<1> QED
  BY <1>9, <1>13

\* The overrides, the policy and the topics of the group, by an administrator.
LEMMA GroupStep ==
    ASSUME AccountTypeOK, NEW r \in Requests,
           \/ MemberUpsert(r) \/ MemberDelete(r) \/ GroupPolicyUpdate(r)
           \/ \E t \in Topics : ThreadDelete(r, t) \/ \E enabled \in BOOLEAN : ThreadUpsert(r, t, enabled)
    PROVE  AccountTypeOK' /\ AuthorityStep
<1> DEFINE q == request[r]
<1>1. /\ UNCHANGED <<account, token, approval, grant>>
      /\ Done(r) /\ Administrates(q) /\ commits < MaxCommits /\ q # NoRequest
      /\ q.op # "scan" \/ threads' = threads
  BY DEF MemberUpsert, MemberDelete, GroupPolicyUpdate, ThreadDelete, ThreadUpsert, Waits, NoRequest
<1>2. q.target \in People /\ q.value \in GivenRoles /\ q.value \in 0..5
  BY <1>1, RequestTyped
<1>3. /\ local \in [People -> 0..5 \cup {NoRole}] /\ groupPolicy \in [enabled : BOOLEAN, auto : GivenRoles]
      /\ threads \in [Topics -> {"none", "on", "off"}] /\ grant \in [People -> {"none", "held", "expired"}]
      /\ approval \in BOOLEAN
  BY DEF AccountTypeOK
<1>4. local' \in [People -> 0..5 \cup {NoRole}]
  BY <1>2, <1>3 DEF MemberUpsert, MemberDelete, GroupPolicyUpdate, ThreadDelete, ThreadUpsert
<1>5. groupPolicy' \in [enabled : BOOLEAN, auto : GivenRoles]
  <2>1. CASE groupPolicy' = groupPolicy
    BY <1>3, <2>1
  <2>2. CASE groupPolicy' = [groupPolicy EXCEPT !.auto = q.value]
    BY <1>2, <1>3, <2>2
  <2>3. CASE groupPolicy' = [groupPolicy EXCEPT !.enabled = ~@]
    <3>1. (~groupPolicy.enabled) \in BOOLEAN
      OBVIOUS
    <3> QED
      BY <1>3, <2>3, <3>1
  <2> QED
    BY <2>1, <2>2, <2>3 DEF MemberUpsert, MemberDelete, GroupPolicyUpdate, ThreadDelete, ThreadUpsert
<1>6. threads' \in [Topics -> {"none", "on", "off"}]
  BY <1>3 DEF MemberUpsert, MemberDelete, GroupPolicyUpdate, ThreadDelete, ThreadUpsert
<1>7. AccountTypeOK'
  BY <1>1, <1>3, <1>4, <1>5, <1>6, DoneStep
<1>8. AuthorityStep
  BY <1>1, ByAnAdministrator
<1> QED
  BY <1>7, <1>8

LEMMA GrantStep ==
    ASSUME AccountTypeOK, NEW r \in Requests, GrantPermission(r) \/ RevokePermission(r)
    PROVE  AccountTypeOK' /\ AuthorityStep
<1> DEFINE q == request[r]
<1>1. /\ UNCHANGED <<account, token, approval, groupPolicy, threads, local>>
      /\ Done(r) /\ MayGrant(q) /\ commits < MaxCommits /\ q # NoRequest
      /\ \E x \in {"held", "none"} : grant' = [grant EXCEPT ![q.target] = x]
  BY DEF GrantPermission, RevokePermission, Waits, NoRequest, groupVars
<1>2. q.target \in People /\ q.actor \in People
  BY <1>1, RequestTyped
<1>3. /\ local \in [People -> 0..5 \cup {NoRole}] /\ groupPolicy \in [enabled : BOOLEAN, auto : GivenRoles]
      /\ threads \in [Topics -> {"none", "on", "off"}] /\ grant \in [People -> {"none", "held", "expired"}]
      /\ approval \in BOOLEAN
  BY DEF AccountTypeOK
<1>4. grant' \in [People -> {"none", "held", "expired"}] /\ \A p \in People : p # q.target => grant'[p] = grant[p]
  BY <1>1, <1>3
<1>5. AccountTypeOK'
  BY <1>1, <1>3, <1>4, DoneStep
<1>6. Administrates(q) /\ ActorRole(q) = RoleOf(q.actor)
  BY <1>1, <1>2, RolesAreCurrent DEF MayGrant
<1>7. \A p \in People : grant'[p] # grant[p] =>
               /\ p # ConfiguredOwner
               /\ RoleOf(p) >= Administrator => RoleOf(q.actor) = OwnerRole
  BY <1>1, <1>4, <1>6 DEF MayGrant
<1>8. AuthorityStep
  BY <1>1, <1>6, <1>7, ByAnAdministrator
<1> QED
  BY <1>5, <1>8

LEMMA ScanStep ==
    ASSUME AccountTypeOK, NEW r \in Requests, ScanThreadNames(r) \/ UpdatePolicy(r)
    PROVE  AccountTypeOK' /\ AuthorityStep
<1> DEFINE q == request[r]
<1>1. /\ UNCHANGED <<account, token, groupPolicy, local, grant>>
      /\ Done(r) /\ ActorRole(q) = OwnerRole /\ commits < MaxCommits /\ q # NoRequest
      /\ threads' = threads \/ threads' = Scanned(q.found)
      /\ approval' = approval \/ approval' = ~approval
  BY DEF ScanThreadNames, UpdatePolicy, Waits, NoRequest, ScanAuthority, groupVars
<1>2. q.actor \in People
  BY <1>1, RequestTyped
<1>3. /\ local \in [People -> 0..5 \cup {NoRole}] /\ groupPolicy \in [enabled : BOOLEAN, auto : GivenRoles]
      /\ threads \in [Topics -> {"none", "on", "off"}] /\ grant \in [People -> {"none", "held", "expired"}]
      /\ approval \in BOOLEAN
  BY DEF AccountTypeOK
<1>4. approval' \in BOOLEAN
  BY <1>1, <1>3, Zenon
<1>5. threads' \in [Topics -> {"none", "on", "off"}] /\ \A t \in Topics : threads[t] \in {"none", threads'[t]}
  BY <1>1, <1>3 DEF Scanned
<1>6. AccountTypeOK'
  BY <1>1, <1>3, <1>4, <1>5, DoneStep
<1>7. Administrates(q) /\ RoleOf(q.actor) = OwnerRole
  BY <1>1, <1>2, RolesAreCurrent
<1>8. AuthorityStep
  BY <1>1, <1>5, <1>7, ByAnAdministrator
<1> QED
  BY <1>6, <1>8

LEMMA UseStep ==
    ASSUME AccountTypeOK, NEW r \in Requests, Serve(r)
    PROVE  AccountTypeOK' /\ AuthorityStep
<1> DEFINE q == request[r]
<1>1. /\ UNCHANGED <<account, token, approval, groupPolicy, threads, local, grant>>
      /\ Done(r) /\ ~Blocked(q.actor) /\ commits < MaxCommits
  BY DEF Serve, Waits, CheckAccess, groupVars
<1>2. /\ local \in [People -> 0..5 \cup {NoRole}] /\ groupPolicy \in [enabled : BOOLEAN, auto : GivenRoles]
      /\ threads \in [Topics -> {"none", "on", "off"}] /\ grant \in [People -> {"none", "held", "expired"}]
      /\ approval \in BOOLEAN
  BY DEF AccountTypeOK
<1>3. AccountTypeOK'
  BY <1>1, <1>2, DoneStep
<1>4. groupVars' = groupVars /\ byWhom'.who = q.actor
  BY <1>1 DEF groupVars, Done
<1>5. \A p \in People : <<grant[p], grant'[p]>> \in {<<x, x>> : x \in {"none", "held", "expired"}}
  BY <1>1, <1>2
<1>6. AuthorityStep
  BY <1>1, <1>4, <1>5 DEF AuthorityStep
<1> QED
  BY <1>3, <1>6

LEMMA RequestGoesOn ==
    ASSUME AccountTypeOK, NEW r \in Requests,
           BeginScan(r) \/ Refuse(r) \/ \E page \in SUBSET Topics : ScanPage(r, page)
    PROVE  AccountTypeOK' /\ AuthorityStep
<1>1. UNCHANGED <<account, token, approval, groupVars, grant, commits, byWhom>>
  BY DEF BeginScan, Refuse, ScanPage
<1>2. CASE Refuse(r)
  BY <1>1, <1>2, RequestStep DEF Refuse
<1>3. CASE BeginScan(r)
  <2>1. request[r] \in KnownRequest /\ request' = [request EXCEPT ![r].pc = "scanning"]
    BY <1>3, RequestTyped DEF BeginScan, Waits, NoRequest
  <2>2. [request[r] EXCEPT !.pc = "scanning"] \in KnownRequest
    BY <2>1 DEF KnownRequest
  <2>3. request' = [request EXCEPT ![r] = [request[r] EXCEPT !.pc = "scanning"]]
    BY <2>1
  <2> QED
    BY <1>1, <2>2, <2>3, RequestStep
<1>4. ASSUME NEW page \in SUBSET Topics, ScanPage(r, page)
      PROVE  AccountTypeOK' /\ AuthorityStep
  <2>1. request[r] \in KnownRequest
    BY <1>4, RequestTyped DEF ScanPage, NoRequest
  <2>2. PICK pc \in {"scanning", "scanned"} :
            request' = [request EXCEPT ![r].pc = pc, ![r].found = @ \cup page]
    BY <1>4 DEF ScanPage
  <2> DEFINE x == [request[r] EXCEPT !.pc = pc, !.found = @ \cup page]
  <2>3. x \in KnownRequest
    BY <2>1 DEF KnownRequest
  <2>4. request' = [request EXCEPT ![r] = x]
    BY <2>2
  <2> HIDE DEF x
  <2> QED
    BY <1>1, <2>3, <2>4, RequestStep
<1> QED
  BY <1>2, <1>3, <1>4

LEMMA AccountInitTyped == AccountInit => AccountTypeOK
<1> DEFINE First == {NoAccount} \cup [role : {Administrator, OwnerRole}, ban : {FALSE}]
           Row == [role : 0..5 \cup {NoRole}, ban : BOOLEAN]
<1> SUFFICES ASSUME AccountInit PROVE AccountTypeOK
  OBVIOUS
<1>1. \A p \in People : token[p] = NoAccessToken
  BY DEF AccountInit
<1>2. account \in [People -> First]
  BY DEF AccountInit
<1>3. \A x \in First : x \in Row /\ x.ban = FALSE
  <2> SUFFICES ASSUME NEW x \in First PROVE x \in Row /\ x.ban = FALSE
    OBVIOUS
  <2>1. CASE x = NoAccount
    BY <2>1 DEF NoAccount
  <2>2. CASE x \in [role : {Administrator, OwnerRole}, ban : {FALSE}]
    <3>1. PICK role \in {Administrator, OwnerRole} : x = [role |-> role, ban |-> FALSE]
      BY <2>2
    <3> QED
      BY <3>1 DEF Administrator, OwnerRole
  <2> QED
    BY <2>1, <2>2
<1> HIDE DEF First, Row
<1>4. account \in [People -> Row] /\ \A p \in People : account[p].ban = FALSE
  BY <1>2, <1>3
<1>5. WholeRows
  BY <1>1, <1>4 DEF WholeRows
<1>6. Member \in GivenRoles /\ commits \in 0..MaxCommits
  BY AccountAssumption DEF AccountInit, GivenRoles
<1> QED
  BY <1>4, <1>5, <1>6 DEF AccountInit, AccountTypeOK, NoAccessToken, Row

LEMMA AccountNextStep ==
    AccountTypeOK /\ [AccountNext]_accountVars => AccountTypeOK' /\ [AccountTypeOK' /\ AuthorityStep]_accountVars
<1> SUFFICES ASSUME AccountTypeOK, [AccountNext]_accountVars
             PROVE  AccountTypeOK' /\ [AccountTypeOK' /\ AuthorityStep]_accountVars
  OBVIOUS
<1>1. CASE AccountNext
  <2>1. ASSUME NEW r \in Requests, Operation(r) PROVE AccountTypeOK' /\ AuthorityStep
    BY <2>1, UpdateUserStep, GroupStep, GrantStep, ScanStep, UseStep, RequestGoesOn, Zenon DEF Operation
  <2> QED
    BY <1>1, <2>1, TokenStep, BanExpiresStep, AuthenticateStep DEF AccountNext
<1>2. CASE UNCHANGED accountVars
  <2>1. WholeRows'
    BY <1>2 DEF AccountTypeOK, WholeRows, accountVars
  <2>2. AccountTypeOK'
    BY <1>2, <2>1 DEF AccountTypeOK, accountVars, groupVars
  <2> QED
    BY <1>2, <2>2
<1> QED
  BY <1>1, <1>2

\* The rows, tokens and requests keep their form (users, user_permissions, Claims).
THEOREM AccountsTyped == AccountSpec => []AccountTypeOK
  BY AccountInitTyped, AccountNextStep, PTL DEF AccountSpec

\* Standing, grants and policy change by the hand of who administrates at that moment.
THEOREM AuthorityAlwaysHolds == AccountSpec => AuthorityHolds
  BY AccountInitTyped, AccountNextStep, PTL DEF AccountSpec, AuthorityHolds

-----------------------------------------------------------------------------
(* The life of the server: a stage that the shutdown has passed stays      *)
(* drained because what admits work to it is closed or drained before; a   *)
(* task waits for its loose work or is remembered as one that did not.     *)

\* What is at work beside its task, and whether the device polls still have somebody
\* who waits for them.
LooseIsOwned ==
    /\ \A o \in Loose : working[o] > 0 =>
           \/ LooseOf[o] \in tasks \cup left
           \/ o = "poll" /\ phase = "starting" /\ "media" \in built
    /\ phase # "starting" /\ "media" \in built =>
           "cookies" \in tasks \cup left \/ "poll" \in closed

\* The stages before this one are drained, and what they drained admits nothing.
StagesArePassed ==
    /\ step > 0 => cancelled /\ ~ready /\ {"handler", "request"} \subseteq closed
    /\ step > 1 => tasks = {}
    /\ \A k \in DOMAIN ShutdownOrder :
           /\ 1 < k /\ k < step => working[ShutdownOrder[k]] = 0
           /\ 1 < k /\ k <= step /\ k < 9 => ShutdownOrder[k] \in closed

LifeInv ==
    /\ LifeTypeOK
    /\ step > 0 <=> phase \in {"stopping", "ended"}
    /\ phase = "ended" => step = Len(ShutdownOrder)
    /\ StagesArePassed
    /\ LooseIsOwned

\* the first state
LEMMA LifeStartsTyped == LifeInit => LifeTypeOK
<1> SUFFICES ASSUME LifeInit PROVE LifeTypeOK
  OBVIOUS
<1>1. config \subseteq Parts
  BY LifeAssumption DEF LifeInit
<1>2. working \in [Owners -> 0..MaxWork]
  BY LifeAssumption DEF LifeInit
<1>3. step \in 0..Len(ShutdownOrder)
  BY DEF LifeInit, ShutdownOrder
<1>4. started \in 0..MaxStarted
  BY LifeAssumption DEF LifeInit
<1> QED BY <1>1, <1>2, <1>3, <1>4 DEF LifeInit, LifeTypeOK, Tasks

\* what holds before anything is built
LEMMA LifeStarts == LifeInit => LifeInv
<1> SUFFICES ASSUME LifeInit PROVE LifeInv
  OBVIOUS
<1>1. \A o \in Owners : working[o] = 0
  BY DEF LifeInit
<1>2. step = 0 /\ phase = "starting"
  BY DEF LifeInit
<1>3. StagesArePassed
  BY <1>2 DEF StagesArePassed, ShutdownOrder
<1>4. LooseIsOwned
  BY <1>1, <1>2 DEF LooseIsOwned, Owners
<1> QED BY <1>2, <1>3, <1>4, LifeStartsTyped DEF LifeInv

\* every action keeps the types
LEMMA LifeTyped == LifeInv /\ [LifeNext]_lifeVars => LifeTypeOK'
<1> SUFFICES ASSUME LifeInv, [LifeNext]_lifeVars PROVE LifeTypeOK'
  OBVIOUS
<1>d. LifeTypeOK /\ (phase = "stopping" => step > 0)
  BY DEF LifeInv
<1> USE <1>d
<1> USE LifeAssumption DEF LifeTypeOK
<1>a. Len(ShutdownOrder) = 10 /\ DOMAIN ShutdownOrder = 1..10
  BY DEF ShutdownOrder
<1>b. /\ \A k \in 1..10 : ShutdownOrder[k] \in Owners \cup {"tasks", "database"}
      /\ ShutdownOrder[10] = "database"
      /\ \A k \in 1..9 : ShutdownOrder[k + 1] # "tasks"
  BY DEF ShutdownOrder, Owners, Registered
<1>c. {"handler", "request", "music", "poll"} \subseteq Owners /\ "tasks" \notin Owners
  BY DEF Owners, Registered, Loose, LooseOf
<1>1. CASE OpenDatabase
  BY <1>1 DEF OpenDatabase, Due
<1>2. CASE InstallDatabase \/ InstallAuth \/ PrepareTelegram \/ BuildMedia \/ BuildInbox
  BY <1>2 DEF InstallDatabase, InstallAuth, PrepareTelegram, BuildMedia, BuildInbox, Built, Due
<1>3. CASE BuildInsight \/ BuildMusic \/ BuildStats
  <2>1. PICK p \in {"insight", "music", "stats"}, o \in Registered : Check(p, o) \/ Checked(p, o)
    BY <1>3 DEF BuildInsight, BuildMusic, BuildStats, Registered
  <2>2. CASE Check(p, o)
    BY <2>2, 1 \in 0..MaxWork DEF Check, Due
  <2>3. CASE Checked(p, o)
    BY <2>3 DEF Checked, Built, Due
  <2> QED BY <2>1, <2>2, <2>3
<1>4. CASE InstallRoutes
  BY <1>4 DEF InstallRoutes
<1>5. CASE Ready
  BY <1>5 DEF Ready, Attendants, Tasks
<1>6. CASE AbandonStartup
  <2>1. tasks' \subseteq Tasks /\ left' \subseteq Tasks
    BY <1>6 DEF AbandonStartup, TaskGone, Attendants, Tasks
  <2>2. closed' \subseteq Owners
    BY <1>6, <1>c DEF AbandonStartup
  <2>3. step' \in 0..10
    BY <1>6 DEF AbandonStartup, StopAndDrain
  <2> QED BY <1>6, <1>a, <2>1, <2>2, <2>3 DEF AbandonStartup, StopAndDrain
<1>7. CASE StopServer
  <2>1. tasks' \subseteq Tasks /\ left' \subseteq Tasks
    BY <1>7 DEF StopServer, TaskGone
  <2>2. closed' \subseteq Owners
    BY <1>7, <1>c DEF StopServer, StoppedWith
  <2>3. step' \in 0..10
    BY <1>7 DEF StopServer, StopAndDrain
  <2> QED BY <1>7, <1>a, <2>1, <2>2, <2>3 DEF StopServer, StopAndDrain
<1>8. ASSUME NEW o \in Owners, StartWork(o) PROVE LifeTypeOK'
  BY <1>8 DEF StartWork
<1>9. ASSUME NEW o \in Owners, EndWork(o) PROVE LifeTypeOK'
  BY <1>9 DEF EndWork
<1>10. ASSUME NEW t \in Tasks, EndTask(t) PROVE LifeTypeOK'
  BY <1>10 DEF EndTask, TaskGone, StoppedWith, Owners, Registered
<1>11. CASE DrainPolls
  BY <1>11 DEF DrainPolls, Owners, Loose, LooseOf
<1>12. CASE DrainStage
  <2>1. step' \in 0..10 /\ step + 1 \in 1..10
    BY <1>12, <1>a, <1>b DEF DrainStage, Stage
  <2>2. closed' \subseteq Owners
    <3>1. step \in 1..9
      BY <1>12, <2>1 DEF DrainStage
    <3>2. {ShutdownOrder[step + 1]} \ {"search", "database"} \subseteq Owners
      BY <1>b, <2>1, <3>1
    <3> QED BY <1>12, <3>2 DEF DrainStage
  <2> QED BY <1>12, <1>a, <2>1, <2>2 DEF DrainStage
<1>13. CASE Overrun
  <2>1. closed' \subseteq Owners /\ left' \subseteq Tasks
    BY <1>13, <1>c DEF Overrun, StoppedWith
  <2> QED BY <1>13, <1>a, <2>1 DEF Overrun
<1>14. CASE FinishDatabase
  BY <1>14 DEF FinishDatabase
<1>15. CASE UNCHANGED lifeVars
  BY <1>15 DEF lifeVars
<1> QED BY <1>1, <1>2, <1>3, <1>4, <1>5, <1>6, <1>7, <1>8, <1>9, <1>10, <1>11, <1>12, <1>13,
           <1>14, <1>15 DEF LifeNext

\* What admits work does not come back: a stage that is passed stays drained.
LEMMA LifePasses == LifeInv /\ [LifeNext]_lifeVars =>
                        /\ step' > 0 <=> phase' \in {"stopping", "ended"}
                        /\ phase' = "ended" => step' = Len(ShutdownOrder)
                        /\ StagesArePassed'
<1> SUFFICES ASSUME LifeInv, [LifeNext]_lifeVars
             PROVE  /\ step' > 0 <=> phase' \in {"stopping", "ended"}
                    /\ phase' = "ended" => step' = Len(ShutdownOrder)
                    /\ StagesArePassed'
  OBVIOUS
<1>a. Len(ShutdownOrder) = 10 /\ DOMAIN ShutdownOrder = 1..10
  BY DEF ShutdownOrder
<1>b. /\ ShutdownOrder[1] = "tasks" /\ ShutdownOrder[2] = "handler"
      /\ ShutdownOrder[3] = "request" /\ ShutdownOrder[4] = "insight_child"
      /\ ShutdownOrder[5] = "insight" /\ ShutdownOrder[6] = "music_child"
      /\ ShutdownOrder[7] = "music" /\ ShutdownOrder[8] = "import"
      /\ ShutdownOrder[9] = "search" /\ ShutdownOrder[10] = "database"
  BY DEF ShutdownOrder
<1>t. step \in 0..10 /\ step' \in 0..10 /\ working \in [Owners -> 0..MaxWork]
  BY <1>a, LifeTyped DEF LifeInv, LifeTypeOK
<1>1. CASE phase = "starting" /\ phase' = "starting" /\ step' = step
  BY <1>1, <1>a, <1>t DEF LifeInv, StagesArePassed
<1>2. CASE OpenDatabase \/ InstallDatabase \/ InstallAuth \/ PrepareTelegram \/ BuildMedia
           \/ BuildInbox \/ InstallRoutes
  BY <1>1, <1>2 DEF OpenDatabase, InstallDatabase, InstallAuth, PrepareTelegram, BuildMedia,
                    BuildInbox, InstallRoutes, Built, Due
<1>3. CASE BuildInsight \/ BuildMusic \/ BuildStats
  BY <1>1, <1>3 DEF BuildInsight, BuildMusic, BuildStats, Check, Checked, Built, Due
<1>4. CASE Ready
  BY <1>4, <1>a, <1>t DEF Ready, LifeInv, StagesArePassed
<1>5. CASE AbandonStartup \/ StopServer
  <2>1. /\ phase' = "stopping" /\ step' = 1 /\ cancelled' /\ ~ready'
        /\ {"handler", "request"} \subseteq closed'
    BY <1>5 DEF AbandonStartup, StopServer, StopAndDrain
  <2> QED BY <2>1, <1>a DEF StagesArePassed
<1>6. ASSUME NEW o \in Owners, StartWork(o) PROVE StagesArePassed'
  <2>1. /\ UNCHANGED <<phase, step, cancelled, ready, closed, tasks>> /\ MayStart(o) /\ o \notin closed
        /\ working' = [working EXCEPT ![o] = @ + 1]
    BY <1>6 DEF StartWork
  <2>2. ASSUME NEW k \in 2..9, k < step PROVE working'[ShutdownOrder[k]] = 0
    <3>1. working[ShutdownOrder[k]] = 0 /\ (k < 9 => ShutdownOrder[k] \in closed)
      BY <2>2, <1>a, <1>t DEF LifeInv, StagesArePassed
    <3>2. CASE k < 9
      BY <2>1, <3>1, <3>2, <1>t DEF Owners
    <3>3. CASE k = 9
      <4>1. working[ShutdownOrder[2]] = 0 /\ working[ShutdownOrder[3]] = 0 /\ working[ShutdownOrder[8]] = 0
        BY <3>3, <2>2, <1>a, <1>t DEF LifeInv, StagesArePassed
      <4>2. tasks = {}
        BY <3>3, <2>2, <1>t DEF LifeInv, StagesArePassed
      <4>3. o # "search"
        BY <1>b, <4>1, <4>2, <2>1 DEF MayStart
      <4> QED BY <3>1, <3>3, <4>3, <2>1, <1>b, <1>t DEF Owners
    <3> QED BY <3>2, <3>3
  <2>3. ShutdownOrder[10] \notin Owners
    BY <1>b DEF Owners, Registered, Loose, LooseOf
  <2> QED BY <2>1, <2>2, <1>a, <1>t DEF LifeInv, StagesArePassed
<1>7. ASSUME NEW o \in Owners, EndWork(o) PROVE StagesArePassed'
  BY <1>7, <1>a, <1>t DEF EndWork, LifeInv, StagesArePassed
<1>8. ASSUME NEW t \in Tasks, EndTask(t) PROVE StagesArePassed'
  BY <1>8, <1>a, <1>t DEF EndTask, LifeInv, StagesArePassed
<1>9. CASE DrainPolls
  BY <1>9, <1>a, <1>t DEF DrainPolls, LifeInv, StagesArePassed
<1>10. CASE DrainStage
  <2>1. phase' = "stopping" /\ step' = step + 1 /\ step > 0 /\ Drained(ShutdownOrder[step])
    BY <1>10, <1>t DEF DrainStage, Stage, LifeInv
  <2>2. step > 0 /\ (step = 1 => tasks = {}) /\ (step > 1 => working[ShutdownOrder[step]] = 0)
    BY <2>1, <1>b, <1>t DEF Drained
  <2>3. step' < 9 => ShutdownOrder[step'] \in closed'
    BY <1>10, <1>b, <1>t, <2>1 DEF DrainStage
  <2>4. closed \subseteq closed' /\ UNCHANGED <<tasks, working, cancelled, ready>>
    BY <1>10 DEF DrainStage
  <2> QED BY <2>1, <2>2, <2>3, <2>4, <1>a, <1>t DEF LifeInv, StagesArePassed
<1>11. CASE Overrun
  <2>1. /\ phase' = "stopping" /\ step' = 2 /\ step > 0 /\ tasks' = {}
        /\ closed \subseteq closed' /\ UNCHANGED <<cancelled, ready>>
    BY <1>11, <1>t DEF Overrun, LifeInv
  <2>2. {"handler", "request"} \subseteq closed' /\ cancelled' /\ ~ready'
    BY <2>1 DEF LifeInv, StagesArePassed
  <2> QED BY <2>1, <2>2, <1>a, <1>b DEF StagesArePassed
<1>12. CASE FinishDatabase
  <2>1. phase' = "ended" /\ step = 10 /\ UNCHANGED <<step, cancelled, ready, closed, tasks, working>>
    <3>1. step \in 1..10
      BY <1>12, <1>t DEF FinishDatabase, LifeInv
    <3> QED BY <1>12, <3>1, <1>b DEF FinishDatabase, Stage
  <2> QED BY <2>1, <1>a DEF LifeInv, StagesArePassed
<1>13. CASE UNCHANGED lifeVars
  BY <1>13, <1>a DEF lifeVars, LifeInv, StagesArePassed
<1>14. ASSUME NEW o \in Owners, StartWork(o) \/ EndWork(o) PROVE UNCHANGED <<phase, step>>
  BY <1>14 DEF StartWork, EndWork
<1>15. ASSUME NEW t \in Tasks, EndTask(t) PROVE UNCHANGED <<phase, step>>
  BY <1>15 DEF EndTask
<1>16. CASE DrainPolls
  BY <1>9, <1>16 DEF DrainPolls, LifeInv
<1> QED BY <1>2, <1>3, <1>4, <1>5, <1>6, <1>7, <1>8, <1>10, <1>11, <1>12, <1>13, <1>14, <1>15, <1>16
        DEF LifeNext, LifeInv

\* Loose work keeps somebody who answers for it.
LEMMA LifeOwns == LifeInv /\ [LifeNext]_lifeVars => LooseIsOwned'
<1> SUFFICES ASSUME LifeInv, [LifeNext]_lifeVars PROVE LooseIsOwned'
  OBVIOUS
<1>t. working \in [Owners -> 0..MaxWork] /\ Loose \subseteq Owners /\ Loose \cap Registered = {}
  BY DEF LifeInv, LifeTypeOK, Owners, Loose, LooseOf, Registered
<1>i. LooseIsOwned
  BY DEF LifeInv
<1>1. CASE OpenDatabase \/ InstallDatabase \/ InstallAuth \/ PrepareTelegram \/ BuildMedia
           \/ BuildInbox \/ InstallRoutes
  <2>1. UNCHANGED <<tasks, left, working, closed, phase>> /\ phase = "starting" /\ built \subseteq built'
    BY <1>1 DEF OpenDatabase, InstallDatabase, InstallAuth, PrepareTelegram, BuildMedia,
                BuildInbox, InstallRoutes, Built, Due
  <2> QED BY <2>1, <1>i DEF LooseIsOwned
<1>2. CASE BuildInsight \/ BuildMusic \/ BuildStats
  <2>1. PICK p \in {"insight", "music", "stats"}, o \in Registered : Check(p, o) \/ Checked(p, o)
    BY <1>2 DEF BuildInsight, BuildMusic, BuildStats, Registered
  <2>2. UNCHANGED <<tasks, left, closed, phase>> /\ phase = "starting" /\ built \subseteq built'
    BY <2>1 DEF Check, Checked, Built, Due
  <2>3. \A l \in Loose : working'[l] = working[l]
    BY <2>1, <1>t DEF Check, Checked
  <2> QED BY <2>2, <2>3, <1>i DEF LooseIsOwned
<1>3. CASE Ready
  <2>1. /\ tasks \subseteq tasks' /\ ("media" \in built => "cookies" \in tasks')
        /\ UNCHANGED <<left, working, built, closed>>
    BY <1>3 DEF Ready, Attendants
  <2>2. LooseOf["poll"] = "cookies"
    BY DEF LooseOf
  <2> QED BY <2>1, <2>2, <1>i DEF LooseIsOwned
<1>4. CASE AbandonStartup
  <2>1. /\ tasks \ {"http"} \subseteq tasks' /\ ("media" \in built => "cookies" \in tasks')
        /\ UNCHANGED <<working, built>> /\ left \subseteq left'
        /\ "http" \in tasks' \cup left' \/ Waited("http") \/ "http" \notin tasks
    BY <1>4 DEF AbandonStartup, Attendants, TaskGone
  <2>2. LooseOf["poll"] = "cookies"
    BY DEF LooseOf
  <2> QED BY <2>1, <2>2, <1>i, <1>t DEF LooseIsOwned, Waited
<1>g. ASSUME NEW t \in Tasks, TaskGone(t), tasks' = tasks \ {t}, phase # "starting", phase' # "starting",
             closed \subseteq closed', UNCHANGED <<working, built>>
      PROVE  LooseIsOwned'
  <2>1. left \subseteq left' /\ (~Waited(t) => t \in left')
    BY <1>g DEF TaskGone
  <2> QED BY <1>g, <2>1, <1>i, <1>t DEF LooseIsOwned, Waited
<1>5. CASE StopServer
  <2>0. tasks \subseteq Tasks
    BY DEF LifeInv, LifeTypeOK
  <2>1. PICK gone \in {{}} \cup {{t} : t \in tasks} :
           /\ tasks' = tasks \ gone /\ closed \subseteq closed'
           /\ \/ gone = {} /\ UNCHANGED left
              \/ \E t \in gone : TaskGone(t)
    BY <1>5 DEF StopServer
  <2>2. phase = "running" /\ phase' = "stopping" /\ UNCHANGED <<working, built>>
    BY <1>5 DEF StopServer, StopAndDrain
  <2>3. CASE gone = {} /\ UNCHANGED left
    BY <2>1, <2>2, <2>3, <1>i DEF LooseIsOwned
  <2>4. CASE \E t \in gone : TaskGone(t)
    <3>1. PICK t \in tasks : gone = {t} /\ TaskGone(t)
      BY <2>1, <2>4
    <3> QED BY <3>1, <2>0, <2>1, <2>2, <1>g
  <2> QED BY <2>1, <2>3, <2>4
<1>6. ASSUME NEW o \in Owners, StartWork(o) PROVE LooseIsOwned'
  <2>1. /\ UNCHANGED <<phase, built, tasks, left, closed>> /\ MayStart(o) /\ o \notin closed
        /\ working' = [working EXCEPT ![o] = @ + 1]
    BY <1>6 DEF StartWork
  <2>2. CASE o \in Loose
    <3>1. \/ LooseOf[o] \in tasks \cup left
          \/ o = "poll" /\ phase = "starting" /\ "media" \in built
      BY <2>1, <2>2, <1>i DEF MayStart, LooseIsOwned, LooseOf, Loose
    <3> QED BY <2>1, <2>2, <3>1, <1>i, <1>t DEF LooseIsOwned
  <2>3. CASE o \notin Loose
    <3>1. \A l \in Loose : working'[l] = working[l]
      BY <2>1, <2>3, <1>t
    <3> QED BY <2>1, <3>1, <1>i DEF LooseIsOwned
  <2> QED BY <2>2, <2>3
<1>7. ASSUME NEW o \in Owners, EndWork(o) PROVE LooseIsOwned'
  <2>1. /\ UNCHANGED <<phase, built, tasks, left, closed>>
        /\ working' = [working EXCEPT ![o] = @ - 1]
    BY <1>7 DEF EndWork
  <2>2. \A l \in Loose : working'[l] > 0 => working[l] > 0
    BY <2>1, <1>t
  <2> QED BY <2>1, <2>2, <1>i DEF LooseIsOwned
<1>8. ASSUME NEW t \in Tasks, EndTask(t) PROVE LooseIsOwned'
  BY <1>8, <1>g DEF EndTask
<1>9. CASE DrainPolls \/ DrainStage \/ FinishDatabase
  <2>1. /\ closed \subseteq closed' /\ UNCHANGED <<tasks, left, working, built>>
        /\ phase' = "starting" => phase = "starting"
        /\ phase = "starting" => phase' = "starting"
    BY <1>9 DEF DrainPolls, DrainStage, FinishDatabase
  <2> QED BY <2>1, <1>i DEF LooseIsOwned
<1>10. CASE Overrun
  <2>1. /\ closed \subseteq closed' /\ left' = left \cup tasks /\ UNCHANGED <<working, built, phase>>
    BY <1>10 DEF Overrun
  <2> QED BY <2>1, <1>i DEF LooseIsOwned
<1>11. CASE UNCHANGED lifeVars
  BY <1>11, <1>i DEF lifeVars, LooseIsOwned
<1> QED BY <1>1, <1>2, <1>3, <1>4, <1>5, <1>6, <1>7, <1>8, <1>9, <1>10, <1>11 DEF LifeNext

\* However startup and shutdown go (runtime.rs), every stage the shutdown has passed is
\* drained and takes nothing more, and loose work has a task that waits for it or that
\* was aborted, panicked or gave up.
THEOREM LifeInvariance == LifeSpec => []LifeInv
<1>1. LifeInv /\ [LifeNext]_lifeVars => LifeInv'
  BY LifeTyped, LifePasses, LifeOwns DEF LifeInv
<1> QED BY LifeStarts, <1>1, PTL DEF LifeSpec

\* what the invariant says of the end
LEMMA LifeCloses == LifeInv => ClosesLast
<1> SUFFICES ASSUME LifeInv, phase = "ended"
             PROVE  /\ tasks = {}
                    /\ \A o \in Registered : working[o] = 0 /\ (MayStart(o) => o \in closed)
                    /\ \A o \in Loose : working[o] > 0 => LooseOf[o] \in left
  BY DEF ClosesLast, LifeInv
<1>1. step = 10 /\ tasks = {}
  BY DEF LifeInv, StagesArePassed, ShutdownOrder
<1>2. \A o \in Registered : working[o] = 0
  BY <1>1 DEF LifeInv, StagesArePassed, ShutdownOrder, Registered
<1>3. {"handler", "request", "insight_child", "insight", "music_child", "music", "import"} \subseteq closed
  BY <1>1 DEF LifeInv, StagesArePassed, ShutdownOrder
<1>4. ~MayStart("search")
  BY <1>1, <1>2 DEF MayStart, Registered, LifeInv, LifeTypeOK
<1>5. \A o \in Loose : working[o] > 0 => LooseOf[o] \in left
  BY <1>1 DEF LifeInv, LooseIsOwned
<1> QED BY <1>1, <1>2, <1>3, <1>4, <1>5 DEF Registered

\* Whatever the configuration and however much work there is, the database closes
\* after every task and all registered work (finish_database, Products::shutdown).
THEOREM DatabaseClosesLast == LifeSpec => []ClosesLast
BY LifeInvariance, LifeCloses, PTL

----------------------------------------------------------------------------
\* The files of an installation, for any number of publishers, runtimes,
\* migrations and launches.

\* The schema that every migration of this release leaves.
CurrentSchema == Released(SchemaVersion)

\* What each step of a process has: the inode it opened, and what it staged.
Inodeless == {"away", "absent", "looked"}
StagedSteps == {"copied", "snapshot", "valid", "verified"}
ProcessSteps == Inodeless \cup StagedSteps \cup
    {"created", "reserved", "copying", "tables", "renamed", "dropping", "removing", "unlinked",
     "opened", "checked", "locked", "owning", "migrated", "serving"}
ProcessRecords == [at : ProcessSteps, inode : {0} \cup Inodes, staged : Seq(Nat), schema : Schemas, creates : BOOLEAN]

OfOneState(s) ==
    /\ Len(s) \in {2, 3} /\ s[1] = s[2] /\ s[1] > 0
    /\ Len(s) = 3 => s[3] >= s[2]

FitsStep(r) ==
    /\ r.at \notin Inodeless => r.inode \in Inodes
    /\ r.at = "copying" => Len(r.staged) = 1 /\ r.staged[1] > 0
    /\ r.at = "tables" => Len(r.staged) = 2 /\ r.staged[1] = r.staged[2] /\ r.staged[1] > 0
    /\ r.at \in StagedSteps => OfOneState(r.staged)
    /\ r.at \in {"snapshot", "valid", "verified"} => r.schema = CurrentSchema

\* The processes that were launched and have not made a sidecar yet.
Launching == {p \in Processes : process[p].at \in {"absent", "looked"}}

FilesTyped ==
    /\ databaseFile \in [parts : Seq(Nat), archive : BOOLEAN, schema : Schemas]
    /\ lockFile \in {0} \cup Inodes
    /\ lockHolder \in [Inodes -> Processes \cup {NoProcess}]
    /\ sourceState \in 1 .. MaxSourceMoves + 1

ProcessesFit ==
    /\ process \in [Processes -> ProcessRecords]
    /\ \A p \in Processes : FitsStep(process[p])

\* Who is about to remove a sidecar holds its lock.
RemovalsAreLocked == \A p \in Processes : AtStep(p, "removing") => lockHolder[InodeOf(p)] = p

\* Who owns the database has one, and who serves it has a current one.
OwnersHaveDatabase ==
    \A o \in Processes : /\ Owning(o) => databaseFile # NoFile
                         /\ AtStep(o, "serving") => databaseFile.schema = CurrentSchema

\* A launch makes one sidecar at most, and there was one at most in the beginning.
InodesAreLaunched ==
    /\ inodes \in Nat /\ launches \in 0 .. MaxLaunches
    /\ inodes + Cardinality(Launching) <= launches + 1

PubInv == FilesTyped /\ ProcessesFit /\ RemovalsAreLocked /\ OwnersHaveDatabase /\ InodesAreLaunched

----------------------------------------------------------------------------
(* The migration ledger. *)

LEMMA MigrationsAreNumbered ==
    /\ SchemaVersion \in Nat \ {0} /\ Migrations = 1..SchemaVersion
    /\ MaxLaunches \in Nat /\ MaxSourceMoves \in Nat
<1> DEFINE S == {Creates[v] : v \in DOMAIN Creates}
<1>1. Creates \in Seq(S) /\ Creates # <<>>
  BY PublicationAssumption
<1> HIDE DEF S
<1> QED
  BY <1>1, EmptySeq, LenProperties, PublicationAssumption DEF SchemaVersion, Migrations

\* The ledger of a release has a row for each of its migrations.
LEMMA LedgerOfRelease ==
    ASSUME NEW v \in Migrations
    PROVE  /\ Released(v).ledger \in Seq({Recorded(w, ObjectsAt(w)) : w \in 1..v})
           /\ Len(Released(v).ledger) = v /\ DOMAIN Released(v).ledger = 1..v
           /\ \A w \in 1..v : Released(v).ledger[w] = Recorded(w, ObjectsAt(w))
<1> DEFINE R(w) == Recorded(w, ObjectsAt(w))
<1> DEFINE T == {R(w) : w \in 1..v}
<1> DEFINE f == [w \in 1..v |-> R(w)]
<1>1. v \in Nat
  BY MigrationsAreNumbered
<1> HIDE DEF R
<1>2. f \in [1..v -> T]
  OBVIOUS
<1>3. f \in Seq(T) /\ Len(f) = v
  BY <1>1, <1>2, SeqDef, LenProperties
<1>4. \A w \in 1..v : f[w] = R(w)
  OBVIOUS
<1>5. DOMAIN f = 1..v
  OBVIOUS
<1>6. Released(v).ledger = f
  BY DEF Released, R
<1> QED
  BY <1>3, <1>4, <1>5, <1>6 DEF R

\* What is not this release's is neither current nor migrated, unless it is what
\* the first migration leaves.
LEMMA StrangersStayOut ==
    ASSUME NEW s \in Strangers
    PROVE  /\ Len(s.ledger) \in Nat /\ Len(s.ledger) <= SchemaVersion + 1
           /\ SchemaIsCurrent(s) => s = CurrentSchema
           /\ Recognised(s) => s = Released(1)
<1> DEFINE all == Released(SchemaVersion)
           first == Released(1)
           later == Recorded(SchemaVersion + 1, ObjectsAt(SchemaVersion))
           s1 == [all EXCEPT !.ledger = Append(@, later)]
           s2 == [all EXCEPT !.ledger[1].checksum = <<1, "edited">>]
           s3 == [first EXCEPT !.objects = @ \cup {"by hand"}]
           s4 == [Blank EXCEPT !.objects = {"by hand"}]
           s5 == [first EXCEPT !.layout = "other"]
<1>0. SchemaVersion \in Nat \ {0} /\ SchemaVersion \in Migrations /\ 1 \in Migrations
  BY MigrationsAreNumbered
<1>1. s \in {s1, s2, s3, s4, s5}
  BY DEF Strangers
<1>2. CASE s = s1
  <2> DEFINE rows == {Recorded(w, ObjectsAt(w)) : w \in 1..SchemaVersion} \cup {later}
  <2>1. all.ledger \in Seq(rows) /\ Len(all.ledger) = SchemaVersion
    <3> DEFINE own == {Recorded(w, ObjectsAt(w)) : w \in 1..SchemaVersion}
    <3>1. all.ledger \in Seq(own) /\ Len(all.ledger) = SchemaVersion
      BY <1>0, LedgerOfRelease
    <3>2. own \subseteq rows
      OBVIOUS
    <3> HIDE DEF own, rows, all
    <3> QED
      BY <3>1, <3>2, SeqMonotonic
  <2>2. s.ledger = Append(all.ledger, later)
    BY <1>2 DEF Released
  <2> HIDE DEF rows, all, later
  <2>3. later \in rows
    BY DEF rows
  <2>4. Len(s.ledger) = SchemaVersion + 1
    BY <2>1, <2>2, <2>3, AppendProperties
  <2> QED
    BY <2>4, <1>0 DEF SchemaIsCurrent, Recognised, HistoryValid
<1>3. CASE s = s2
  <2>1. s.ledger = [all.ledger EXCEPT ![1] = [@ EXCEPT !.checksum = <<1, "edited">>]]
    BY <1>3 DEF Released
  <2>2. all.ledger = [w \in 1..SchemaVersion |-> Recorded(w, ObjectsAt(w))]
    BY DEF Released
  <2>3. s.ledger[1].checksum = <<1, "edited">>
    BY <1>0, <2>1, <2>2 DEF Recorded
  <2>4. DOMAIN s.ledger = 1..SchemaVersion
    BY <2>1, <2>2
  <2>9. s.ledger = [w \in 1..SchemaVersion |-> s.ledger[w]]
    BY <2>1, <2>2
  <2>5. Checksum(1) # <<1, "edited">>
    BY DEF Checksum
  <2> HIDE DEF s1, s2, s3, s4, s5, all
  <2>6. ~HistoryValid(s.ledger)
    <3>1. 1 \in DOMAIN s.ledger
      BY <1>0, <2>4
    <3>2. HistoryValid(s.ledger) => s.ledger[1].checksum = Checksum(1)
      BY <3>1, Zenon DEF HistoryValid
    <3> QED
      BY <2>3, <2>5, <3>2
  <2>7. s.ledger \in [1..SchemaVersion -> {s.ledger[w] : w \in 1..SchemaVersion}]
    BY <2>4, <2>9
  <2>8. Len(s.ledger) = SchemaVersion
    BY <1>0, <2>7, SeqDef, LenProperties
  <2> QED
    BY <1>0, <2>6, <2>8 DEF SchemaIsCurrent, Recognised
<1>4. CASE s = s3
  <2>1. s.ledger = first.ledger /\ s.objects = ObjectsAt(1) \cup {"by hand"} /\ s.layout = "ours"
    BY <1>4 DEF Released
  <2>2. Len(s.ledger) = 1 /\ s.ledger[1].fingerprint = ObjectsAt(1)
    <3>1. 1 \in 1..1
      OBVIOUS
    <3>2. Len(first.ledger) = 1 /\ first.ledger[1] = Recorded(1, ObjectsAt(1))
      BY <1>0, <3>1, LedgerOfRelease
    <3>3. Recorded(1, ObjectsAt(1)).fingerprint = ObjectsAt(1)
      BY DEF Recorded
    <3> HIDE DEF first, s3
    <3> QED
      BY <2>1, <3>2, <3>3
  <2>3. ASSUME s.objects = ObjectsAt(1) PROVE s = first
    BY <1>4, <2>1, <2>3 DEF Released
  <2>4. SchemaIsCurrent(s) => s = first /\ SchemaVersion = 1
    BY <2>2, <2>3 DEF SchemaIsCurrent, FingerprintValid
  <2>5. Recognised(s) => s = first
    BY <2>2, <2>3 DEF Recognised, FingerprintValid
  <2> QED
    BY <1>0, <2>2, <2>4, <2>5 DEF CurrentSchema
<1>5. CASE s = s4
  <2>1. s.layout = "none" /\ s.ledger = <<>> /\ s.objects # {}
    BY <1>5 DEF Blank
  <2>2. Len(s.ledger) = 0
    BY <2>1, EmptySeq
  <2> HIDE DEF s1, s2, s3, s4, s5, all, first
  <2> QED
    BY <1>0, <2>1, <2>2 DEF SchemaIsCurrent, Recognised
<1>6. CASE s = s5
  <2>1. s.layout = "other" /\ s.ledger = first.ledger
    BY <1>6 DEF Released
  <2>2. Len(s.ledger) = 1
    BY <1>0, <2>1, LedgerOfRelease
  <2> HIDE DEF s1, s2, s3, s4, s5, all, first
  <2> QED
    BY <1>0, <2>1, <2>2 DEF SchemaIsCurrent, Recognised
<1> QED
  BY <1>1, <1>2, <1>3, <1>4, <1>5, <1>6

\* Whatever database there is: it is current only if it is what this release
\* leaves, and migrated only if a release left it or nothing is in it.
LEMMA SchemasAreKnown ==
    ASSUME NEW s \in Schemas
    PROVE  /\ Len(s.ledger) \in Nat /\ Len(s.ledger) <= SchemaVersion + 1
           /\ SchemaIsCurrent(s) => s = CurrentSchema
           /\ Recognised(s) => s \in {Blank} \cup {Released(v) : v \in Migrations}
<1>0. SchemaVersion \in Nat \ {0} /\ Migrations = 1..SchemaVersion
  BY MigrationsAreNumbered
<1>1. CASE s = Blank
  <2>1. s.layout = "none" /\ Len(s.ledger) = 0
    BY <1>1, EmptySeq DEF Blank
  <2> QED
    BY <1>0, <1>1, <2>1 DEF SchemaIsCurrent
<1>2. CASE \E v \in Migrations : s = Released(v)
  <2>1. PICK v \in Migrations : s = Released(v)
    BY <1>2
  <2>2. Len(s.ledger) = v
    BY <2>1, LedgerOfRelease
  <2> QED
    BY <1>0, <2>1, <2>2 DEF SchemaIsCurrent, CurrentSchema
<1>3. CASE s \in Strangers
  BY <1>0, <1>3, StrangersStayOut
<1> QED
  BY <1>1, <1>2, <1>3 DEF Schemas

\* Migration leads from either to the current schema.
LEMMA MigrationCompletes ==
    ASSUME NEW s \in {Blank} \cup {Released(v) : v \in Migrations}
    PROVE  Migrated(s) = CurrentSchema
<1>0. SchemaVersion \in Nat \ {0} /\ Migrations = 1..SchemaVersion
  BY MigrationsAreNumbered
<1>1. PICK v \in 0..SchemaVersion :
          /\ Len(s.ledger) = v /\ s.objects = UNION {Creates[w] : w \in 1..v}
          /\ \A w \in 1..v : s.ledger[w] = Recorded(w, ObjectsAt(w))
  <2>1. CASE s = Blank
    <3>1. Len(s.ledger) = 0 /\ s.objects = {}
      BY <2>1, EmptySeq DEF Blank
    <3>2. 1..0 = {} /\ 0 \in 0..SchemaVersion
      BY <1>0
    <3> QED
      BY <3>1, <3>2
  <2>2. CASE \E v \in Migrations : s = Released(v)
    <3>1. PICK v \in Migrations : s = Released(v)
      BY <2>2
    <3>2. s.objects = ObjectsAt(v) /\ v \in 0..SchemaVersion
      BY <1>0, <3>1 DEF Released
    <3> QED
      BY <3>1, <3>2, LedgerOfRelease DEF ObjectsAt
  <2> QED
    BY <2>1, <2>2
<1> DEFINE After(x) == s.objects \cup UNION {Creates[w] : w \in v + 1 .. x}
<1>2. ASSUME NEW x \in v..SchemaVersion
      PROVE  After(x) = ObjectsAt(x)
  <2>1. 1..x = (1..v) \cup (v + 1 .. x)
    BY <1>0
  <2> QED
    BY <1>1, <2>1 DEF ObjectsAt
<1>3. Migrated(s) = [layout |-> "ours", objects |-> After(SchemaVersion),
                     ledger |-> [w \in 1..SchemaVersion |->
                                     IF w <= v THEN s.ledger[w] ELSE Recorded(w, After(w))]]
  BY <1>0, <1>1 DEF Migrated
<1>4. After(SchemaVersion) = ObjectsAt(SchemaVersion)
  BY <1>0, <1>2
<1>5. ASSUME NEW w \in 1..SchemaVersion
      PROVE  (IF w <= v THEN s.ledger[w] ELSE Recorded(w, After(w))) = Recorded(w, ObjectsAt(w))
  <2>1. CASE w <= v
    BY <1>0, <1>1, <2>1
  <2>2. CASE ~(w <= v)
    <3>1. After(w) = ObjectsAt(w)
      BY <1>0, <1>2, <2>2
    <3> QED
      BY <2>2, <3>1
  <2> QED
    BY <2>1, <2>2
<1> HIDE DEF After
<1> QED
  BY <1>3, <1>4, <1>5 DEF CurrentSchema, Released

LEMMA CurrentIsKnown ==
    /\ CurrentSchema \in Schemas /\ Blank \in Schemas /\ Migrated(Blank) = CurrentSchema
    /\ Released(1) \in Schemas
  BY MigrationsAreNumbered, MigrationCompletes DEF Schemas, CurrentSchema

----------------------------------------------------------------------------
(* The parts of the invariant, for a step of one process. *)

LEMMA PublicationStarts == PublicationInit => PubInv
<1> SUFFICES ASSUME PublicationInit
             PROVE  PubInv
  OBVIOUS
<1> USE DEF PublicationInit
<1>0. MaxLaunches \in Nat /\ MaxSourceMoves \in Nat
  BY MigrationsAreNumbered
<1>1. \A p \in Processes : process[p] = Away /\ process[p].at = "away"
  BY DEF Away
<1>2. FilesTyped
  <2>1. <<>> \in Seq(Nat) /\ <<0, 0>> \in Seq(Nat)
    BY EmptySeq
  <2>2. databaseFile \in [parts : Seq(Nat), archive : BOOLEAN, schema : Schemas]
    <3> DEFINE none == <<>>
               zeros == <<0, 0>>
    <3>1. none \in Seq(Nat) /\ zeros \in Seq(Nat)
      BY <2>1
    <3>2. PICK parts \in {none, zeros}, schema \in Schemas :
              databaseFile = [parts |-> parts, archive |-> FALSE, schema |-> schema]
      BY CurrentIsKnown DEF NoFile, DatabaseOf
    <3>3. parts \in Seq(Nat)
      BY <3>1, <3>2
    <3> QED
      BY <3>2, <3>3, Zenon
  <2> QED
    BY <1>0, <2>2 DEF FilesTyped, Inodes
<1>3. ProcessesFit
  <2>1. Away \in ProcessRecords
    BY EmptySeq, CurrentIsKnown DEF Away, ProcessRecords, ProcessSteps, Inodeless
  <2>2. FitsStep(Away)
    BY DEF FitsStep, Away, Inodeless, StagedSteps
  <2> QED
    BY <1>1, <2>1, <2>2 DEF ProcessesFit
<1>4. RemovalsAreLocked /\ OwnersHaveDatabase
  BY <1>1 DEF RemovalsAreLocked, OwnersHaveDatabase, Owning, AtStep
<1>5. InodesAreLaunched
  <2>1. Launching = {}
    BY <1>1 DEF Launching
  <2>2. Cardinality(Launching) = 0
    BY <2>1, FS_EmptySet
  <2> QED
    BY <1>0, <2>2 DEF InodesAreLaunched
<1> QED
  BY <1>2, <1>3, <1>4, <1>5 DEF PubInv

\* A process becomes r.
LEMMA ProcessBecomes ==
    ASSUME ProcessesFit, NEW p \in Processes, NEW r \in ProcessRecords, FitsStep(r),
           process' = [process EXCEPT ![p] = r]
    PROVE  /\ ProcessesFit'
           /\ process'[p] = r /\ \A q \in Processes : q # p => process'[q] = process[q]
<1>1. process' \in [Processes -> ProcessRecords]
  BY DEF ProcessesFit
<1>2. process'[p] = r /\ \A q \in Processes : q # p => process'[q] = process[q]
  BY DEF ProcessesFit
<1>3. \A q \in Processes : FitsStep(process'[q])
  BY <1>2 DEF ProcessesFit
<1> QED
  BY <1>1, <1>2, <1>3 DEF ProcessesFit

\* The locks that a step of p may take or leave.
LockMoves(p) ==
    \/ UNCHANGED lockHolder
    \/ lockHolder' = Unlocked(p)
    \/ Lockable(p) /\ LockTaken(p) /\ InodeOf(p) \in Inodes

LEMMA LocksAreKept ==
    ASSUME FilesTyped, NEW p \in Processes, LockMoves(p)
    PROVE  /\ lockHolder' \in [Inodes -> Processes \cup {NoProcess}]
           /\ \A i \in Inodes, q \in Processes : q # p /\ lockHolder[i] = q => lockHolder'[i] = q
<1>0. lockHolder \in [Inodes -> Processes \cup {NoProcess}] /\ NoProcess \notin Processes
  BY PublicationAssumption DEF FilesTyped, Processes
<1>1. CASE UNCHANGED lockHolder
  BY <1>0, <1>1
<1>2. CASE lockHolder' = Unlocked(p)
  BY <1>0, <1>2 DEF Unlocked
<1>3. CASE Lockable(p) /\ LockTaken(p) /\ InodeOf(p) \in Inodes
  BY <1>0, <1>3 DEF Lockable, LockTaken
<1> QED
  BY <1>1, <1>2, <1>3 DEF LockMoves

LEMMA RemovalsStayLocked ==
    ASSUME FilesTyped, ProcessesFit, RemovalsAreLocked,
           NEW p \in Processes, NEW r \in ProcessRecords, FitsStep(r),
           process' = [process EXCEPT ![p] = r], LockMoves(p),
           r.at = "removing" => lockHolder'[r.inode] = p
    PROVE  RemovalsAreLocked'
<1> SUFFICES ASSUME NEW q \in Processes, process'[q].at = "removing"
             PROVE  lockHolder'[process'[q].inode] = q
  BY DEF RemovalsAreLocked, AtStep, InodeOf
<1>1. process'[p] = r /\ (q # p => process'[q] = process[q])
  BY ProcessBecomes
<1>2. CASE q = p
  BY <1>1, <1>2
<1>3. CASE q # p
  <2>1. process'[q] = process[q] /\ lockHolder[process[q].inode] = q
    BY <1>1, <1>3 DEF RemovalsAreLocked, AtStep, InodeOf
  <2>2. process[q].inode \in Inodes
    BY <1>1, <1>3 DEF ProcessesFit, FitsStep, Inodeless
  <2> QED
    BY <1>3, <2>1, <2>2, LocksAreKept
<1> QED
  BY <1>2, <1>3

LEMMA OwnersKeepDatabase ==
    ASSUME ProcessesFit, OwnersHaveDatabase,
           NEW p \in Processes, NEW r \in ProcessRecords, FitsStep(r),
           process' = [process EXCEPT ![p] = r],
           r.at \in {"owning", "migrated", "serving"} => databaseFile' # NoFile,
           r.at = "serving" => databaseFile'.schema = CurrentSchema,
           databaseFile # NoFile => databaseFile' # NoFile,
           databaseFile # NoFile /\ databaseFile.schema = CurrentSchema => databaseFile'.schema = CurrentSchema
    PROVE  OwnersHaveDatabase'
<1> SUFFICES ASSUME NEW q \in Processes
             PROVE  /\ process'[q].at \in {"owning", "migrated", "serving"} => databaseFile' # NoFile
                    /\ process'[q].at = "serving" => databaseFile'.schema = CurrentSchema
  BY DEF OwnersHaveDatabase, AtStep, Owning
<1>1. process'[p] = r /\ (q # p => process'[q] = process[q])
  BY ProcessBecomes
<1>2. /\ process[q].at \in {"owning", "migrated", "serving"} => databaseFile # NoFile
      /\ process[q].at = "serving" => databaseFile.schema = CurrentSchema
  BY DEF OwnersHaveDatabase, AtStep, Owning
<1> QED
  BY <1>1, <1>2

\* Launching is finite; a step adds or removes the process that makes it.
LEMMA LaunchingIsFinite == IsFiniteSet(Launching) /\ Cardinality(Launching) \in Nat
<1>1. IsFiniteSet(Processes)
  BY PublicationAssumption, FS_Union DEF Processes
<1>2. Launching \subseteq Processes
  BY DEF Launching
<1> QED
  BY <1>1, <1>2, FS_Subset, FS_CardinalityType

LEMMA LaunchingMoves ==
    ASSUME ProcessesFit, NEW p \in Processes, NEW r \in ProcessRecords, FitsStep(r),
           process' = [process EXCEPT ![p] = r]
    PROVE  /\ Launching' = IF r.at \in {"absent", "looked"} THEN Launching \cup {p} ELSE Launching \ {p}
           /\ Cardinality(Launching') \in Nat
           /\ r.at \in {"absent", "looked"} => Cardinality(Launching') <= Cardinality(Launching) + 1
           /\ r.at \notin {"absent", "looked"} => Cardinality(Launching') <= Cardinality(Launching)
           /\ r.at \notin {"absent", "looked"} /\ process[p].at \in {"absent", "looked"} =>
                  Cardinality(Launching') = Cardinality(Launching) - 1
<1>1. process'[p] = r /\ \A q \in Processes : q # p => process'[q] = process[q]
  BY ProcessBecomes
<1>2. Launching' = IF r.at \in {"absent", "looked"} THEN Launching \cup {p} ELSE Launching \ {p}
  BY <1>1 DEF Launching
<1>3. IsFiniteSet(Launching) /\ Cardinality(Launching) \in Nat
  BY LaunchingIsFinite
<1>4. p \in Launching <=> process[p].at \in {"absent", "looked"}
  BY DEF Launching
<1>5. /\ Cardinality(Launching \cup {p}) = IF p \in Launching THEN Cardinality(Launching) ELSE Cardinality(Launching) + 1
      /\ Cardinality(Launching \ {p}) = IF p \in Launching THEN Cardinality(Launching) - 1 ELSE Cardinality(Launching)
  BY <1>3, FS_AddElement, FS_RemoveElement
<1>6. p \in Launching => Cardinality(Launching) >= 1
  <2> SUFFICES ASSUME p \in Launching
               PROVE  Cardinality(Launching) >= 1
    OBVIOUS
  <2>1. Cardinality(Launching) # 0
    BY <1>3, FS_EmptySet
  <2> QED
    BY <1>3, <2>1
<1> HIDE DEF Launching
<1> QED
  BY <1>2, <1>3, <1>4, <1>5, <1>6

\* A step of one process that leaves files, source and launches.
LEMMA ProcessStep ==
    ASSUME PubInv, NEW p \in Processes, NEW r \in ProcessRecords, FitsStep(r),
           process' = [process EXCEPT ![p] = r], FilesStay, SourceStays, LockMoves(p),
           r.at \notin {"absent", "looked"},
           r.at = "removing" => lockHolder'[r.inode] = p,
           r.at \in {"owning", "migrated", "serving"} => databaseFile # NoFile,
           r.at = "serving" => databaseFile.schema = CurrentSchema
    PROVE  PubInv' /\ PublishStep
<1> USE DEF PubInv
<1>0. UNCHANGED <<databaseFile, lockFile, inodes, sourceState, launches>>
  BY DEF FilesStay, SourceStays
<1>1. ProcessesFit'
  BY ProcessBecomes
<1>2. FilesTyped'
  BY <1>0, LocksAreKept DEF FilesTyped
<1>3. RemovalsAreLocked'
  BY RemovalsStayLocked
<1>4. OwnersHaveDatabase'
  BY <1>0, OwnersKeepDatabase
<1>5. InodesAreLaunched'
  <2>1. Cardinality(Launching') \in Nat /\ Cardinality(Launching') <= Cardinality(Launching)
    BY LaunchingMoves
  <2> QED
    BY <1>0, <2>1, LaunchingIsFinite, MigrationsAreNumbered DEF InodesAreLaunched
<1>6. PublishStep
  BY <1>0 DEF PublishStep
<1> QED
  BY <1>1, <1>2, <1>3, <1>4, <1>5, <1>6

\* A process goes, or goes on with nothing new at hand.
LEMMA Leaves ==
    ASSUME PubInv, NEW p \in Processes, process' = [process EXCEPT ![p] = Away],
           FilesStay, SourceStays, LockMoves(p)
    PROVE  PubInv' /\ PublishStep
<1>1. Away \in ProcessRecords
  BY EmptySeq, CurrentIsKnown DEF Away, ProcessRecords, ProcessSteps, Inodeless
<1>2. FitsStep(Away) /\ Away.at = "away"
  BY DEF FitsStep, Away, Inodeless, StagedSteps
<1> HIDE DEF Away
<1> QED
  BY <1>1, <1>2, ProcessStep

PlainSteps == {"created", "reserved", "renamed", "dropping", "unlinked", "opened", "checked", "locked"}

\* What the record of a process is, and that it is the same but for its step.
LEMMA RecordOf ==
    ASSUME ProcessesFit, NEW p \in Processes
    PROVE  /\ process[p] \in ProcessRecords /\ FitsStep(process[p])
           /\ process[p] = [at |-> process[p].at, inode |-> process[p].inode, staged |-> process[p].staged,
                            schema |-> process[p].schema, creates |-> process[p].creates]
           /\ process[p].inode \in {0} \cup Inodes /\ process[p].staged \in Seq(Nat)
           /\ process[p].schema \in Schemas /\ process[p].creates \in BOOLEAN
           /\ process[p].at \in ProcessSteps
<1>1. process[p] \in ProcessRecords /\ FitsStep(process[p])
  BY DEF ProcessesFit
<1> QED
  BY <1>1 DEF ProcessRecords

LEMMA StepOf ==
    ASSUME ProcessesFit, NEW p \in Processes, NEW pos \in ProcessSteps, MovesTo(p, pos)
    PROVE  \E r \in ProcessRecords :
               /\ process' = [process EXCEPT ![p] = r]
               /\ r.at = pos /\ r.inode = process[p].inode /\ r.staged = process[p].staged
               /\ r.schema = process[p].schema /\ r.creates = process[p].creates
<1> DEFINE r == [process[p] EXCEPT !.at = pos]
<1>1. r \in ProcessRecords
  BY RecordOf DEF ProcessRecords
<1>2. /\ r.at = pos /\ r.inode = process[p].inode /\ r.staged = process[p].staged
      /\ r.schema = process[p].schema /\ r.creates = process[p].creates
  BY RecordOf
<1>3. process' = [process EXCEPT ![p] = r]
  BY DEF MovesTo
<1> QED
  BY <1>1, <1>2, <1>3

LEMMA PlainMove ==
    ASSUME PubInv, NEW p \in Processes, NEW pos \in PlainSteps, MovesTo(p, pos),
           process[p].at \notin Inodeless, FilesStay, SourceStays, LockMoves(p)
    PROVE  PubInv' /\ PublishStep
<1>1. pos \in ProcessSteps
  BY DEF PlainSteps, ProcessSteps
<1>2. PICK r \in ProcessRecords : /\ process' = [process EXCEPT ![p] = r]
                                  /\ r.at = pos /\ r.inode = process[p].inode
  BY <1>1, StepOf DEF PubInv
<1>3. process[p].inode \in Inodes
  BY RecordOf DEF FitsStep, PubInv
<1>4. FitsStep(r)
  BY <1>2, <1>3 DEF FitsStep, PlainSteps, Inodeless, StagedSteps
<1> QED
  BY <1>2, <1>4, ProcessStep DEF PlainSteps

\* A step of the staging has what it needs of the one before.
LEMMA StagingMove ==
    ASSUME PubInv, NEW p \in Processes, NEW pos \in {"snapshot", "valid", "verified"}, MovesTo(p, pos),
           process[p].at \in StagedSteps, process[p].schema = CurrentSchema, Staging
    PROVE  PubInv' /\ PublishStep
<1>1. pos \in ProcessSteps
  BY DEF ProcessSteps, StagedSteps
<1>2. PICK r \in ProcessRecords : /\ process' = [process EXCEPT ![p] = r]
                                  /\ r.at = pos /\ r.inode = process[p].inode /\ r.staged = process[p].staged
                                  /\ r.schema = process[p].schema
  BY <1>1, StepOf DEF PubInv
<1>3. process[p].inode \in Inodes /\ OfOneState(process[p].staged)
  BY RecordOf DEF FitsStep, PubInv, Inodeless, StagedSteps
<1>4. FitsStep(r)
  BY <1>2, <1>3 DEF FitsStep, Inodeless, StagedSteps
<1>5. FilesStay /\ SourceStays /\ LockMoves(p)
  BY DEF Staging, LockMoves
<1> QED
  BY <1>2, <1>4, <1>5, ProcessStep

\* A copy of the source takes a state that the source is in, or was in before.
LEMMA StagedStep ==
    ASSUME PubInv, NEW p \in Processes, process[p].at \notin Inodeless, Staging,
           NEW pos \in {"copying", "tables", "copied"}, NEW staged \in Seq(Nat), NEW schema \in Schemas,
           process' = [process EXCEPT ![p].at = pos, ![p].staged = staged, ![p].schema = schema],
           pos = "copying" => Len(staged) = 1 /\ staged[1] > 0,
           pos = "tables" => Len(staged) = 2 /\ staged[1] = staged[2] /\ staged[1] > 0,
           pos = "copied" => OfOneState(staged)
    PROVE  PubInv' /\ PublishStep
<1> DEFINE r == [process[p] EXCEPT !.at = pos, !.staged = staged, !.schema = schema]
<1>1. pos \in ProcessSteps
  BY DEF ProcessSteps, StagedSteps
<1>2. r \in ProcessRecords
  BY <1>1, RecordOf DEF ProcessRecords, PubInv
<1>3. r.at = pos /\ r.inode = process[p].inode /\ r.staged = staged
  BY RecordOf DEF PubInv
<1>4. process[p].inode \in Inodes
  BY RecordOf DEF FitsStep, PubInv
<1>5. process' = [process EXCEPT ![p] = r]
  OBVIOUS
<1>6. FilesStay /\ SourceStays /\ LockMoves(p)
  BY DEF Staging, LockMoves
<1> HIDE DEF r
<1>7. FitsStep(r)
  BY <1>3, <1>4 DEF FitsStep, Inodeless, StagedSteps
<1> QED
  BY <1>2, <1>3, <1>5, <1>6, <1>7, ProcessStep

----------------------------------------------------------------------------
(* Publishers. *)

LEMMA ReservationSteps ==
    ASSUME PubInv, NEW p \in Publishers,
           LockReservation(p) \/ CatalogRefused(p) \/ RowRefused(p) \/ StagingFails(p)
           \/ ReleasePublished(p) \/ DropReservation(p) \/ UnlockReservation(p)
    PROVE  PubInv' /\ PublishStep
<1>0. p \in Processes
  BY DEF Processes
<1>1. process[p].at \notin Inodeless => InodeOf(p) \in Inodes
  BY <1>0, RecordOf DEF PubInv, FitsStep, InodeOf
<1>2. CASE LockReservation(p)
  <2>1. process[p].at \notin Inodeless /\ FilesStay /\ SourceStays /\ LockMoves(p)
    BY <1>1, <1>2 DEF LockReservation, AtStep, Inodeless, LockMoves
  <2>2. MovesTo(p, "reserved") \/ MovesTo(p, "dropping")
    BY <1>2 DEF LockReservation
  <2>3. "reserved" \in PlainSteps /\ "dropping" \in PlainSteps
    BY DEF PlainSteps
  <2> QED
    BY <1>0, <2>1, <2>2, <2>3, PlainMove
<1>3. CASE CatalogRefused(p) \/ RowRefused(p) \/ StagingFails(p)
  <2>1. process[p].at \notin Inodeless /\ Staging /\ MovesTo(p, "dropping")
    BY <1>3 DEF CatalogRefused, RowRefused, StagingFails, AtStep, Inodeless
  <2>2. FilesStay /\ SourceStays /\ LockMoves(p) /\ "dropping" \in PlainSteps
    BY <2>1 DEF Staging, LockMoves, PlainSteps
  <2> QED
    BY <1>0, <2>1, <2>2, PlainMove
<1>4. CASE ReleasePublished(p) \/ UnlockReservation(p)
  <2>1. process' = [process EXCEPT ![p] = Away] /\ FilesStay /\ SourceStays /\ LockMoves(p)
    BY <1>4 DEF ReleasePublished, UnlockReservation, LockMoves
  <2> QED
    BY <1>0, <2>1, Leaves
<1>5. CASE DropReservation(p)
  <2>1. process[p].at \notin Inodeless /\ FilesStay /\ SourceStays
    BY <1>5 DEF DropReservation, AtStep, Inodeless
  <2>2. LockMoves(p)
    BY <1>1, <1>5, <2>1 DEF DropReservation, LockMoves
  <2>3. CASE MayRemove(p)
    <3>1. LockTaken(p) /\ MovesTo(p, "removing")
      BY <1>5, <2>3 DEF DropReservation, MayRemove
    <3>2. "removing" \in ProcessSteps
      BY DEF ProcessSteps
    <3>3. PICK r \in ProcessRecords : /\ process' = [process EXCEPT ![p] = r]
                                      /\ r.at = "removing" /\ r.inode = process[p].inode
      BY <1>0, <3>1, <3>2, StepOf DEF PubInv
    <3>4. FitsStep(r)
      BY <1>1, <2>1, <3>3 DEF FitsStep, Inodeless, StagedSteps, InodeOf
    <3>5. lockHolder'[r.inode] = p
      BY <1>1, <2>1, <3>1, <3>3 DEF LockTaken, InodeOf, PubInv, FilesTyped
    <3> QED
      BY <1>0, <2>1, <2>2, <3>3, <3>4, <3>5, ProcessStep
  <2>4. CASE ~MayRemove(p)
    <3>1. MovesTo(p, "unlinked") /\ "unlinked" \in PlainSteps
      BY <1>5, <2>4 DEF DropReservation, PlainSteps
    <3> QED
      BY <1>0, <2>1, <2>2, <3>1, PlainMove
  <2> QED
    BY <2>3, <2>4
<1> QED
  BY <1>2, <1>3, <1>4, <1>5

LEMMA ValidationSteps ==
    ASSUME PubInv, NEW p \in Publishers,
           ValidateImport(p) \/ ValidateStaged(p) \/ EncodeArchive(p) \/ VerifyReservation(p)
    PROVE  PubInv' /\ PublishStep
<1>0. p \in Processes
  BY DEF Processes
<1>1. Staging /\ process[p].at \in StagedSteps /\ process[p].at \notin Inodeless
  BY DEF ValidateImport, ValidateStaged, EncodeArchive, VerifyReservation, AtStep, StagedSteps, Inodeless
<1>2. \/ MovesTo(p, "dropping")
      \/ \E pos \in {"snapshot", "valid", "verified"} : MovesTo(p, pos) /\ process[p].schema = CurrentSchema
  <2>1. process[p].at \in {"snapshot", "valid"} => process[p].schema = CurrentSchema
    BY <1>0, RecordOf DEF PubInv, FitsStep
  <2>2. SchemaIsCurrent(process[p].schema) => process[p].schema = CurrentSchema
    BY <1>0, RecordOf, SchemasAreKnown DEF PubInv
  <2>3. CASE ValidateImport(p)
    BY <2>2, <2>3 DEF ValidateImport
  <2>4. CASE ValidateStaged(p)
    BY <2>2, <2>4 DEF ValidateStaged
  <2>5. CASE EncodeArchive(p)
    BY <2>1, <2>5 DEF EncodeArchive, AtStep
  <2>6. CASE VerifyReservation(p)
    BY <2>1, <2>6 DEF VerifyReservation, AtStep
  <2> QED
    BY <2>3, <2>4, <2>5, <2>6
<1>3. CASE MovesTo(p, "dropping")
  <2>1. FilesStay /\ SourceStays /\ LockMoves(p) /\ "dropping" \in PlainSteps
    BY <1>1 DEF Staging, LockMoves, PlainSteps
  <2> QED
    BY <1>0, <1>1, <1>3, <2>1, PlainMove
<1> QED
  BY <1>0, <1>1, <1>2, <1>3, StagingMove

\* One element, and one more.
LEMMA OneState ==
    ASSUME NEW a \in Nat
    PROVE  <<a>> \in Seq(Nat) /\ Len(<<a>>) = 1 /\ <<a>>[1] = a
  OBVIOUS

LEMMA OneMore ==
    ASSUME NEW s \in Seq(Nat), NEW a \in Nat
    PROVE  /\ Append(s, a) \in Seq(Nat) /\ Len(Append(s, a)) = Len(s) + 1
           /\ \A i \in 1..Len(s) : Append(s, a)[i] = s[i]
           /\ Append(s, a)[Len(s) + 1] = a /\ Len(s) \in Nat
  BY AppendProperties, LenProperties

\* What begins a copy: a schema, and the state of the source.
LEMMA CopyBegins ==
    ASSUME PubInv, NEW p \in Publishers, BeginSnapshot(p) \/ OpenArchive(p)
    PROVE  PubInv' /\ PublishStep
<1>0. p \in Processes /\ sourceState \in Nat /\ sourceState > 0
  BY MigrationsAreNumbered DEF Processes, PubInv, FilesTyped
<1>1. process[p].at \notin Inodeless /\ Staging
  BY DEF BeginSnapshot, OpenArchive, AtStep, Inodeless
<1>2. PICK schema \in Schemas :
          process' = [process EXCEPT ![p].at = "copying", ![p].staged = <<sourceState>>, ![p].schema = schema]
  BY CurrentIsKnown DEF BeginSnapshot, OpenArchive
<1> DEFINE staged == <<sourceState>>
<1>3. staged \in Seq(Nat) /\ Len(staged) = 1 /\ staged[1] > 0
  BY <1>0, OneState
<1>4. process' = [process EXCEPT ![p].at = "copying", ![p].staged = staged, ![p].schema = schema]
  BY <1>2
<1> HIDE DEF staged
<1> QED
  BY <1>0, <1>1, <1>3, <1>4, StagedStep

LEMMA BackupCopies ==
    ASSUME PubInv, NEW p \in Publishers, VacuumInto(p)
    PROVE  PubInv' /\ PublishStep
<1>0. p \in Processes /\ sourceState \in Nat /\ sourceState > 0
  BY MigrationsAreNumbered DEF Processes, PubInv, FilesTyped
<1>1. process[p].at \notin Inodeless /\ Staging
  BY DEF VacuumInto, AtStep, Inodeless
<1> DEFINE staged == <<sourceState, sourceState>>
<1>2. process' = [process EXCEPT ![p].at = "copied", ![p].staged = staged, ![p].schema = Migrated(Blank)]
  BY DEF VacuumInto
<1>3. staged \in Seq(Nat) /\ Len(staged) = 2 /\ staged[1] = sourceState /\ staged[2] = sourceState
  BY <1>0
<1> HIDE DEF staged
<1>4. OfOneState(staged)
  BY <1>0, <1>3 DEF OfOneState
<1>5. Migrated(Blank) \in Schemas
  BY CurrentIsKnown
<1> QED
  BY <1>0, <1>1, <1>2, <1>3, <1>4, <1>5, StagedStep

\* A part is added to a copy.
LEMMA PartIsAdded ==
    ASSUME PubInv, NEW p \in Processes, process[p].at \notin Inodeless, Staging,
           NEW pos \in {"tables", "copied", "dropping"}, NEW staged \in Seq(Nat),
           process' = [process EXCEPT ![p].at = pos, ![p].staged = staged],
           pos = "tables" => Len(staged) = 2 /\ staged[1] = staged[2] /\ staged[1] > 0,
           pos = "copied" => OfOneState(staged)
    PROVE  PubInv' /\ PublishStep
<1> DEFINE r == [process[p] EXCEPT !.at = pos, !.staged = staged]
<1>1. pos \in ProcessSteps
  BY DEF ProcessSteps, StagedSteps
<1>2. r \in ProcessRecords
  BY <1>1, RecordOf DEF ProcessRecords, PubInv
<1>3. r.at = pos /\ r.inode = process[p].inode /\ r.staged = staged
  BY RecordOf DEF PubInv
<1>4. process[p].inode \in Inodes
  BY RecordOf DEF FitsStep, PubInv
<1>5. process' = [process EXCEPT ![p] = r]
  OBVIOUS
<1>6. FilesStay /\ SourceStays /\ LockMoves(p)
  BY DEF Staging, LockMoves
<1> HIDE DEF r
<1>7. FitsStep(r)
  BY <1>3, <1>4 DEF FitsStep, Inodeless, StagedSteps
<1> QED
  BY <1>2, <1>3, <1>5, <1>6, <1>7, ProcessStep

LEMMA SecondPart ==
    ASSUME NEW old \in Seq(Nat), Len(old) = 1, old[1] > 0
    PROVE  /\ Append(old, old[1]) \in Seq(Nat) /\ Len(Append(old, old[1])) = 2
           /\ Append(old, old[1])[1] = old[1] /\ Append(old, old[1])[2] = old[1]
           /\ OfOneState(Append(old, old[1]))
<1> DEFINE s == Append(old, old[1])
<1>1. old[1] \in Nat /\ 1 \in 1..Len(old)
  BY ElementOfSeq
<1>2. /\ s \in Seq(Nat) /\ Len(s) = Len(old) + 1 /\ s[Len(old) + 1] = old[1]
      /\ \A i \in 1..Len(old) : s[i] = old[i]
  BY <1>1, OneMore, Zenon
<1> HIDE DEF s
<1>3. Len(s) = 2 /\ s[1] = old[1] /\ s[2] = old[1]
  BY <1>1, <1>2
<1>4. OfOneState(s)
  BY <1>3 DEF OfOneState
<1> QED
  BY <1>2, <1>3, <1>4 DEF s

LEMMA ThirdPart ==
    ASSUME NEW old \in Seq(Nat), Len(old) = 2, old[1] > 0, old[1] = old[2],
           NEW part \in Nat, part >= old[2]
    PROVE  Append(old, part) \in Seq(Nat) /\ OfOneState(Append(old, part))
<1> DEFINE s == Append(old, part)
<1>1. 1 \in 1..Len(old) /\ 2 \in 1..Len(old)
  OBVIOUS
<1>2. /\ s \in Seq(Nat) /\ Len(s) = Len(old) + 1 /\ s[Len(old) + 1] = part
      /\ \A i \in 1..Len(old) : s[i] = old[i]
  BY <1>1, OneMore, Zenon
<1> HIDE DEF s
<1>3. Len(s) = 3 /\ s[1] = old[1] /\ s[2] = old[2] /\ s[3] = part
  BY <1>1, <1>2
<1>4. OfOneState(s)
  BY <1>3 DEF OfOneState
<1> QED
  BY <1>2, <1>4 DEF s

LEMMA CopyGoesOn ==
    ASSUME PubInv, NEW p \in Publishers, CopyTables(p) \/ PreserveSequences(p) \/ TransferArchive(p)
    PROVE  PubInv' /\ PublishStep
<1>0. p \in Processes /\ sourceState \in Nat
  BY MigrationsAreNumbered DEF Processes, PubInv, FilesTyped
<1> DEFINE old == process[p].staged
<1>1. process[p].at \notin Inodeless /\ Staging /\ old \in Seq(Nat) /\ FitsStep(process[p])
  BY <1>0, RecordOf DEF CopyTables, PreserveSequences, TransferArchive, AtStep, Inodeless, PubInv
<1>2. \E pos \in {"tables", "copied", "dropping"}, staged \in Seq(Nat) :
          /\ process' = [process EXCEPT ![p].at = pos, ![p].staged = staged]
          /\ pos = "tables" => Len(staged) = 2 /\ staged[1] = staged[2] /\ staged[1] > 0
          /\ pos = "copied" => OfOneState(staged)
  <2>1. CASE CopyTables(p)
    <3>1. Len(old) = 1 /\ old[1] > 0
      BY <1>1, <2>1 DEF CopyTables, AtStep, FitsStep
    <3>2. process' = [process EXCEPT ![p].at = "tables", ![p].staged = Append(old, old[1])]
      BY <2>1 DEF CopyTables, LaterPart
    <3> HIDE DEF old
    <3> DEFINE staged == Append(old, old[1])
    <3>3. staged \in Seq(Nat) /\ Len(staged) = 2 /\ staged[1] = staged[2] /\ staged[1] > 0
      BY <1>1, <3>1, SecondPart
    <3>4. process' = [process EXCEPT ![p].at = "tables", ![p].staged = staged]
      BY <3>2
    <3> HIDE DEF staged
    <3> QED
      BY <3>3, <3>4
  <2>2. CASE PreserveSequences(p)
    <3>1. Len(old) = 2 /\ old[1] > 0 /\ old[1] = old[2]
      BY <1>1, <2>2 DEF PreserveSequences, AtStep, FitsStep
    <3>2. old[2] \in Nat
      BY <1>1, <3>1, ElementOfSeq
    <3>3. PICK sequence \in {0, sourceState} :
              process' = [process EXCEPT ![p].at = "copied", ![p].staged = Append(old, HighWater(p, sequence))]
      BY <2>2 DEF PreserveSequences
    <3>4. HighWater(p, sequence) \in Nat /\ HighWater(p, sequence) >= old[2]
      BY <1>0, <3>2, <3>3 DEF HighWater
    <3> HIDE DEF old
    <3> DEFINE staged == Append(old, HighWater(p, sequence))
    <3>5. staged \in Seq(Nat) /\ OfOneState(staged)
      BY <1>1, <3>1, <3>4, ThirdPart
    <3>6. process' = [process EXCEPT ![p].at = "copied", ![p].staged = staged]
      BY <3>3
    <3> HIDE DEF staged
    <3> QED
      BY <3>5, <3>6
  <2>3. CASE TransferArchive(p)
    <3>1. Len(old) = 1 /\ old[1] > 0
      BY <1>1, <2>3 DEF TransferArchive, AtStep, FitsStep
    <3> DEFINE unchanged == old[1] = sourceState
               pos == IF unchanged THEN "copied" ELSE "dropping"
               staged == Append(old, sourceState)
    <3>2. process' = [process EXCEPT ![p].at = pos, ![p].staged = staged]
      BY <2>3 DEF TransferArchive, ArchiveUnchanged
    <3> HIDE DEF old
    <3>3. staged \in Seq(Nat)
      BY <1>0, <1>1, OneMore
    <3>4. unchanged => OfOneState(staged)
      <4> SUFFICES ASSUME old[1] = sourceState
                   PROVE  OfOneState(Append(old, old[1]))
        OBVIOUS
      <4> QED
        BY <1>1, <3>1, SecondPart
    <3>5. pos \in {"copied", "dropping"} /\ (pos = "copied" => unchanged)
      OBVIOUS
    <3> HIDE DEF staged, pos, unchanged
    <3> QED
      BY <3>2, <3>3, <3>4, <3>5
  <2> QED
    BY <2>1, <2>2, <2>3
<1> QED
  BY <1>0, <1>1, <1>2, PartIsAdded

\* A launch, and the sidecar that the launched process makes or finds.
LEMMA LaunchSteps ==
    ASSUME PubInv, NEW p \in Processes,
           \/ p \in Publishers /\ EnsureAbsent(p)
           \/ p \in Runtimes /\ LookForDatabase(p)
    PROVE  PubInv' /\ PublishStep
<1>0. UNCHANGED <<databaseFile, lockFile, inodes, lockHolder, sourceState>> /\ Launch
  BY DEF EnsureAbsent, LookForDatabase, FilesStay
<1>1. \E r \in ProcessRecords : /\ process' = [process EXCEPT ![p] = r] /\ FitsStep(r)
                                /\ r.at \in {"absent", "looked"}
  <2>1. CASE EnsureAbsent(p)
    <3>1. MovesTo(p, "absent") /\ "absent" \in ProcessSteps
      BY <2>1 DEF EnsureAbsent, ProcessSteps, Inodeless
    <3>2. PICK r \in ProcessRecords : process' = [process EXCEPT ![p] = r] /\ r.at = "absent"
      BY <3>1, StepOf DEF PubInv
    <3>3. FitsStep(r)
      BY <3>2 DEF FitsStep, Inodeless, StagedSteps
    <3> QED
      BY <3>2, <3>3
  <2>2. CASE LookForDatabase(p)
    <3> DEFINE creates == p \in MayCreate /\ databaseFile = NoFile
               r == [process[p] EXCEPT !.at = "looked", !.creates = creates]
    <3>1. "looked" \in ProcessSteps /\ creates \in BOOLEAN
      BY DEF ProcessSteps, Inodeless
    <3>2. process' = [process EXCEPT ![p] = r]
      BY <2>2 DEF LookForDatabase
    <3> HIDE DEF creates
    <3>3. r \in ProcessRecords
      BY <3>1, RecordOf DEF ProcessRecords, PubInv
    <3>4. r.at = "looked"
      BY RecordOf DEF PubInv
    <3> HIDE DEF r
    <3>5. FitsStep(r)
      BY <3>4 DEF FitsStep, Inodeless, StagedSteps
    <3> QED
      BY <3>2, <3>3, <3>4, <3>5
  <2> QED
    BY <2>1, <2>2
<1>2. PICK r \in ProcessRecords : /\ process' = [process EXCEPT ![p] = r] /\ FitsStep(r)
                                  /\ r.at \in {"absent", "looked"}
  BY <1>1
<1>3. LockMoves(p)
  BY <1>0 DEF LockMoves
<1>4. ProcessesFit' /\ RemovalsAreLocked'
  BY <1>2, <1>3, ProcessBecomes, RemovalsStayLocked DEF PubInv
<1>5. FilesTyped'
  BY <1>0 DEF PubInv, FilesTyped
<1>6. OwnersHaveDatabase'
  BY <1>0, <1>2, OwnersKeepDatabase DEF PubInv
<1>7. InodesAreLaunched'
  <2>1. Cardinality(Launching') \in Nat /\ Cardinality(Launching') <= Cardinality(Launching) + 1
    BY <1>2, LaunchingMoves DEF PubInv
  <2> QED
    BY <1>0, <2>1, LaunchingIsFinite, MigrationsAreNumbered DEF InodesAreLaunched, Launch, PubInv
<1>8. PublishStep
  BY <1>0 DEF PublishStep
<1> QED
  BY <1>4, <1>5, <1>6, <1>7, <1>8 DEF PubInv

\* A new inode takes the free name.
LEMMA SidecarIsMade ==
    ASSUME PubInv, NEW p \in Processes, process[p].at \in {"absent", "looked"},
           NEW pos \in {"created", "opened"},
           process' = [process EXCEPT ![p].at = pos, ![p].inode = lockFile'],
           \/ lockFile = 0 /\ inodes' = inodes + 1 /\ lockFile' = inodes'
           \/ pos = "opened" /\ lockFile # 0 /\ UNCHANGED <<inodes, lockFile>>,
           UNCHANGED <<databaseFile, lockHolder>>, SourceStays
    PROVE  PubInv' /\ PublishStep
<1>0. /\ UNCHANGED <<databaseFile, lockHolder, sourceState, launches>>
      /\ lockFile \in {0} \cup Inodes /\ inodes \in Nat /\ launches \in Nat /\ launches <= MaxLaunches
      /\ MaxLaunches \in Nat /\ inodes + Cardinality(Launching) <= launches + 1
      /\ Cardinality(Launching) \in Nat
  BY LaunchingIsFinite, MigrationsAreNumbered DEF SourceStays, PubInv, FilesTyped, InodesAreLaunched
<1>1. Cardinality(Launching) >= 1
  <2>1. p \in Launching
    BY DEF Launching
  <2>2. Cardinality(Launching) # 0
    BY <2>1, LaunchingIsFinite, FS_EmptySet
  <2> QED
    BY <1>0, <2>2
<1>2. lockFile' \in Inodes
  BY <1>0, <1>1 DEF Inodes
<1> DEFINE r == [process[p] EXCEPT !.at = pos, !.inode = lockFile']
<1>3. r \in ProcessRecords
  BY <1>2, RecordOf DEF ProcessRecords, PubInv, ProcessSteps
<1>4. r.at = pos
  BY RecordOf DEF PubInv
<1>5. r.inode = lockFile'
  BY RecordOf DEF PubInv
<1>6. process' = [process EXCEPT ![p] = r]
  OBVIOUS
<1> HIDE DEF r
<1>7. FitsStep(r)
  BY <1>2, <1>4, <1>5 DEF FitsStep, Inodeless, StagedSteps
<1>8. LockMoves(p)
  BY DEF LockMoves
<1>9. ProcessesFit' /\ RemovalsAreLocked'
  BY <1>3, <1>4, <1>6, <1>7, <1>8, ProcessBecomes, RemovalsStayLocked DEF PubInv
<1>10. FilesTyped'
  BY <1>0, <1>2 DEF PubInv, FilesTyped
<1>11. OwnersHaveDatabase'
  BY <1>0, <1>3, <1>4, <1>6, <1>7, OwnersKeepDatabase DEF PubInv
<1>12. InodesAreLaunched'
  <2>1. Cardinality(Launching') \in Nat /\ Cardinality(Launching') = Cardinality(Launching) - 1
    BY <1>3, <1>4, <1>6, <1>7, LaunchingMoves DEF PubInv
  <2> QED
    BY <1>0, <1>1, <2>1 DEF InodesAreLaunched
<1>13. PublishStep
  BY <1>0, <1>2 DEF PublishStep
<1> QED
  BY <1>9, <1>10, <1>11, <1>12, <1>13 DEF PubInv

LEMMA SidecarSteps ==
    ASSUME PubInv, NEW p \in Processes,
           \/ p \in Publishers /\ CreateReservation(p)
           \/ p \in Runtimes /\ OpenLock(p)
    PROVE  PubInv' /\ PublishStep
<1>1. CASE CreateReservation(p) /\ lockFile = 0
  <2>1. /\ process[p].at = "absent" /\ inodes' = inodes + 1 /\ lockFile' = inodes'
        /\ process' = [process EXCEPT ![p].at = "created", ![p].inode = lockFile']
        /\ UNCHANGED <<databaseFile, lockHolder>> /\ SourceStays
    BY <1>1 DEF CreateReservation, AtStep
  <2> QED
    BY <1>1, <2>1, SidecarIsMade
<1>2. CASE CreateReservation(p) /\ lockFile # 0
  <2>1. process' = [process EXCEPT ![p] = Away] /\ FilesStay /\ SourceStays /\ LockMoves(p)
    BY <1>2 DEF CreateReservation, FilesStay, LockMoves
  <2> QED
    BY <2>1, Leaves
<1>3. CASE OpenLock(p)
  <2>1. /\ process[p].at = "looked"
        /\ process' = [process EXCEPT ![p].at = "opened", ![p].inode = lockFile']
        /\ \/ lockFile = 0 /\ inodes' = inodes + 1 /\ lockFile' = inodes'
           \/ lockFile # 0 /\ UNCHANGED <<inodes, lockFile>>
        /\ UNCHANGED <<databaseFile, lockHolder>> /\ SourceStays
    BY <1>3 DEF OpenLock, AtStep
  <2> QED
    BY <2>1, SidecarIsMade
<1> QED
  BY <1>1, <1>2, <1>3

\* A step that writes the file or takes the sidecar's name away.
LEMMA FileStep ==
    ASSUME PubInv, NEW p \in Processes, NEW pos \in ProcessSteps, MovesTo(p, pos),
           process[p].at \notin Inodeless,
           pos \in {"renamed", "unlinked", "owning", "migrated"},
           databaseFile' \in [parts : Seq(Nat), archive : BOOLEAN, schema : Schemas],
           lockFile' \in {0} \cup Inodes, UNCHANGED <<lockHolder, inodes>>, SourceStays,
           pos \in {"owning", "migrated"} => databaseFile' # NoFile,
           databaseFile # NoFile => databaseFile' # NoFile,
           databaseFile # NoFile /\ databaseFile.schema = CurrentSchema => databaseFile'.schema = CurrentSchema
    PROVE  PubInv'
<1>0. UNCHANGED <<lockHolder, inodes, sourceState, launches>> /\ LockMoves(p)
  BY DEF SourceStays, LockMoves
<1>1. PICK r \in ProcessRecords : /\ process' = [process EXCEPT ![p] = r]
                                  /\ r.at = pos /\ r.inode = process[p].inode
  BY StepOf DEF PubInv
<1>2. FitsStep(r)
  <2>1. process[p].inode \in Inodes
    BY RecordOf DEF PubInv, FitsStep
  <2> QED
    BY <1>1, <2>1 DEF FitsStep, StagedSteps
<1>3. ProcessesFit' /\ RemovalsAreLocked'
  BY <1>0, <1>1, <1>2, ProcessBecomes, RemovalsStayLocked DEF PubInv
<1>4. FilesTyped'
  BY <1>0 DEF PubInv, FilesTyped
<1>5. OwnersHaveDatabase'
  BY <1>1, <1>2, OwnersKeepDatabase DEF PubInv
<1>6. InodesAreLaunched'
  <2>1. Cardinality(Launching') \in Nat /\ Cardinality(Launching') <= Cardinality(Launching)
    BY <1>1, <1>2, LaunchingMoves DEF PubInv
  <2> QED
    BY <1>0, <2>1, LaunchingIsFinite, MigrationsAreNumbered DEF InodesAreLaunched, PubInv
<1> QED
  BY <1>3, <1>4, <1>5, <1>6 DEF PubInv

\* What is published is one state of its source, under a current schema.
LEMMA RenameSteps ==
    ASSUME PubInv, NEW p \in Publishers, RenameStaged(p)
    PROVE  PubInv' /\ PublishStep
<1>0. /\ p \in Processes /\ process[p].at = "verified" /\ process[p].at \notin Inodeless
      /\ SourceStays /\ UNCHANGED <<lockFile, inodes, lockHolder>>
  BY DEF Processes, RenameStaged, AtStep, Inodeless
<1>1. CASE databaseFile # NoFile
  <2>1. MovesTo(p, "dropping") /\ FilesStay /\ LockMoves(p) /\ "dropping" \in PlainSteps
    BY <1>0, <1>1 DEF RenameStaged, FilesStay, LockMoves, PlainSteps
  <2> QED
    BY <1>0, <2>1, PlainMove
<1>2. CASE databaseFile = NoFile
  <2> DEFINE staged == process[p].staged
             archive == PublisherKind[p] = "backup"
  <2>1. /\ databaseFile' = [parts |-> staged, schema |-> process[p].schema, archive |-> archive]
        /\ MovesTo(p, "renamed") /\ "renamed" \in ProcessSteps
    BY <1>2 DEF RenameStaged, ProcessSteps
  <2>2. /\ process[p].schema = CurrentSchema /\ CurrentSchema \in Schemas
        /\ staged \in Seq(Nat) /\ OfOneState(staged) /\ archive \in BOOLEAN
    BY <1>0, RecordOf, CurrentIsKnown DEF PubInv, FitsStep, StagedSteps
  <2> HIDE DEF staged, archive
  <2>3. /\ databaseFile' \in [parts : Seq(Nat), archive : BOOLEAN, schema : Schemas]
        /\ databaseFile'.parts = staged /\ databaseFile'.schema = CurrentSchema
    BY <2>1, <2>2
  <2>4. PubInv'
    BY <1>0, <1>2, <2>1, <2>3, FileStep DEF PubInv, FilesTyped
  <2>5. PublishStep
    BY <1>0, <1>2, <2>2, <2>3 DEF PublishStep, OfOneState, CurrentSchema
  <2> QED
    BY <2>4, <2>5
<1> QED
  BY <1>1, <1>2

LEMMA RemoveSteps ==
    ASSUME PubInv, NEW p \in Publishers, RemoveReservation(p)
    PROVE  PubInv' /\ PublishStep
<1>0. /\ p \in Processes /\ process[p].at = "removing" /\ process[p].at \notin Inodeless
      /\ SourceStays /\ UNCHANGED <<databaseFile, inodes, lockHolder>>
      /\ lockFile' = (IF Named(p) THEN 0 ELSE lockFile)
      /\ MovesTo(p, "unlinked") /\ "unlinked" \in ProcessSteps
  BY DEF Processes, RemoveReservation, AtStep, Inodeless, ProcessSteps
<1>1. PubInv'
  BY <1>0, FileStep DEF PubInv, FilesTyped
<1>2. Named(p) => lockHolder[lockFile] = p
  BY <1>0 DEF PubInv, RemovalsAreLocked, AtStep, Named
<1>3. PublishStep
  BY <1>0, <1>2 DEF PublishStep
<1> QED
  BY <1>1, <1>3

----------------------------------------------------------------------------
(* Owners. *)

LEMMA LockSteps ==
    ASSUME PubInv, NEW o \in Runtimes, CheckLock(o) \/ TakeLock(o) \/ CloseDatabase(o)
    PROVE  PubInv' /\ PublishStep
<1>0. o \in Processes
  BY DEF Processes
<1>1. process[o].at \notin Inodeless => InodeOf(o) \in Inodes
  BY <1>0, RecordOf DEF PubInv, FitsStep, InodeOf
<1>2. CASE CheckLock(o) /\ Named(o)
  <2> DEFINE r == [process[o] EXCEPT !.at = "checked"]
  <2>1. process' = [process EXCEPT ![o] = r]
    BY <1>2 DEF CheckLock
  <2>2. MovesTo(o, "checked")
    BY <2>1 DEF MovesTo
  <2>3. process[o].at \notin Inodeless /\ FilesStay /\ SourceStays /\ LockMoves(o) /\ "checked" \in PlainSteps
    BY <1>2 DEF CheckLock, AtStep, Inodeless, LockMoves, PlainSteps
  <2> QED
    BY <1>0, <2>2, <2>3, PlainMove
<1>3. CASE CheckLock(o) /\ ~Named(o)
  <2>1. process' = [process EXCEPT ![o] = Away] /\ FilesStay /\ SourceStays /\ LockMoves(o)
    BY <1>3 DEF CheckLock, LockMoves
  <2> QED
    BY <1>0, <2>1, Leaves
<1>4. CASE TakeLock(o) /\ Lockable(o)
  <2>1. /\ process[o].at \notin Inodeless /\ FilesStay /\ SourceStays
        /\ LockTaken(o) /\ MovesTo(o, "locked") /\ "locked" \in PlainSteps
    BY <1>4 DEF TakeLock, AtStep, Inodeless, PlainSteps
  <2>2. LockMoves(o)
    BY <1>1, <1>4, <2>1 DEF LockMoves
  <2> QED
    BY <1>0, <2>1, <2>2, PlainMove
<1>5. CASE TakeLock(o) /\ ~Lockable(o)
  <2>1. process' = [process EXCEPT ![o] = Away] /\ FilesStay /\ SourceStays /\ LockMoves(o)
    BY <1>5 DEF TakeLock, LockMoves
  <2> QED
    BY <1>0, <2>1, Leaves
<1>6. CASE CloseDatabase(o)
  <2>1. process' = [process EXCEPT ![o] = Away] /\ FilesStay /\ SourceStays /\ LockMoves(o)
    BY <1>6 DEF CloseDatabase, Quits, LockMoves
  <2> QED
    BY <1>0, <2>1, Leaves
<1> QED
  BY <1>2, <1>3, <1>4, <1>5, <1>6

\* A process that finds no database creates an empty one.
LEMMA OpenSteps ==
    ASSUME PubInv, NEW o \in Runtimes, OpenOrCreate(o)
    PROVE  PubInv' /\ PublishStep
<1>0. o \in Processes /\ process[o].at \notin Inodeless /\ SourceStays /\ UNCHANGED <<lockFile, inodes>>
  BY DEF Processes, OpenOrCreate, AtStep, Inodeless
<1> DEFINE creates == databaseFile = NoFile /\ process[o].creates
           opens == databaseFile # NoFile /\ ~process[o].creates /\ ~databaseFile.archive
<1>1. /\ databaseFile' = (IF creates THEN DatabaseOf(Blank) ELSE databaseFile)
      /\ IF creates \/ opens THEN MovesTo(o, "owning") /\ UNCHANGED lockHolder ELSE Quits(o)
  BY DEF OpenOrCreate
<1>2. DatabaseOf(Blank) # NoFile
  <2>1. DatabaseOf(Blank).parts = <<0, 0>> /\ NoFile.parts = <<>>
    BY DEF DatabaseOf, NoFile
  <2>2. <<0, 0>> # <<>>
    OBVIOUS
  <2> QED
    BY <2>1, <2>2
<1>3. DatabaseOf(Blank) \in [parts : Seq(Nat), archive : BOOLEAN, schema : Schemas]
  <2> DEFINE zeros == <<0, 0>>
  <2>1. zeros \in Seq(Nat)
    OBVIOUS
  <2>2. DatabaseOf(Blank) = [parts |-> zeros, archive |-> FALSE, schema |-> Blank]
    BY DEF DatabaseOf
  <2> HIDE DEF zeros
  <2> QED
    BY <2>1, <2>2, CurrentIsKnown
<1>4. CASE creates \/ opens
  <2>1. MovesTo(o, "owning") /\ UNCHANGED lockHolder /\ "owning" \in ProcessSteps
    BY <1>1, <1>4 DEF ProcessSteps
  <2>2. databaseFile' # NoFile
    BY <1>1, <1>2, <1>4
  <2>3. /\ databaseFile' \in [parts : Seq(Nat), archive : BOOLEAN, schema : Schemas]
        /\ lockFile' \in {0} \cup Inodes
        /\ databaseFile # NoFile => databaseFile' = databaseFile
    BY <1>0, <1>1, <1>3 DEF PubInv, FilesTyped
  <2>4. PubInv'
    BY <1>0, <2>1, <2>2, <2>3, FileStep
  <2>5. PublishStep
    <3>1. databaseFile' # databaseFile => databaseFile = NoFile /\ databaseFile' = DatabaseOf(Blank)
      BY <1>1
    <3>2. /\ DatabaseOf(Blank).parts[1] = 0 /\ DatabaseOf(Blank).parts[2] = 0
          /\ Len(DatabaseOf(Blank).parts) = 2
      BY DEF DatabaseOf
    <3> QED
      BY <1>0, <3>1, <3>2 DEF PublishStep
  <2> QED
    BY <2>4, <2>5
<1>5. CASE ~(creates \/ opens)
  <2>1. process' = [process EXCEPT ![o] = Away] /\ FilesStay /\ LockMoves(o)
    BY <1>0, <1>1, <1>5 DEF Quits, FilesStay, LockMoves
  <2> QED
    BY <1>0, <2>1, Leaves
<1> QED
  BY <1>4, <1>5

\* A migration leads to the current schema, and from there nowhere else.
LEMMA MigrateSteps ==
    ASSUME PubInv, NEW o \in Runtimes, MigrateSchema(o)
    PROVE  PubInv' /\ PublishStep
<1>0. /\ o \in Processes /\ process[o].at = "owning" /\ process[o].at \notin Inodeless
      /\ SourceStays /\ UNCHANGED <<lockFile, inodes>>
  BY DEF Processes, MigrateSchema, AtStep, Inodeless
<1> DEFINE old == databaseFile.schema
<1>1. CASE Recognised(old) /\ SchemaIsCurrent(Migrated(old))
  <2>1. /\ databaseFile' = [databaseFile EXCEPT !.schema = Migrated(databaseFile.schema)]
        /\ MovesTo(o, "migrated") /\ UNCHANGED lockHolder /\ "migrated" \in ProcessSteps
    BY <1>1 DEF MigrateSchema, ProcessSteps
  <2>2. databaseFile \in [parts : Seq(Nat), archive : BOOLEAN, schema : Schemas] /\ old \in Schemas
    BY DEF PubInv, FilesTyped
  <2>3. old \in {Blank} \cup {Released(v) : v \in Migrations}
    BY <1>1, <2>2, SchemasAreKnown
  <2>4. Migrated(old) = CurrentSchema /\ CurrentSchema \in Schemas
    BY <2>3, MigrationCompletes, CurrentIsKnown
  <2>5. databaseFile' = [databaseFile EXCEPT !.schema = CurrentSchema]
    BY <2>1, <2>4
  <2>6. /\ databaseFile' \in [parts : Seq(Nat), archive : BOOLEAN, schema : Schemas]
        /\ databaseFile'.schema = CurrentSchema /\ databaseFile'.parts = databaseFile.parts
    BY <2>2, <2>4, <2>5
  <2>7. databaseFile # NoFile
    BY <1>0 DEF PubInv, OwnersHaveDatabase, Owning, AtStep
  <2>8. databaseFile' # NoFile
    <3>1. NoFile.schema = Blank /\ Blank.layout = "none" /\ CurrentSchema.layout = "ours"
      BY DEF NoFile, Blank, CurrentSchema, Released
    <3> QED
      BY <2>6, <3>1
  <2>9. PubInv'
    BY <1>0, <2>1, <2>6, <2>8, FileStep DEF PubInv, FilesTyped
  <2>10. ASSUME databaseFile' # databaseFile
         PROVE  \A q \in Runtimes : ~AtStep(q, "serving")
    <3>1. old # CurrentSchema
      BY <2>2, <2>5, <2>10
    <3> QED
      BY <3>1 DEF PubInv, OwnersHaveDatabase, Processes
  <2>11. PublishStep
    BY <1>0, <2>3, <2>5, <2>7, <2>10 DEF PublishStep, CurrentSchema
  <2> QED
    BY <2>9, <2>11
<1>2. CASE ~(Recognised(old) /\ SchemaIsCurrent(Migrated(old)))
  <2>1. process' = [process EXCEPT ![o] = Away] /\ FilesStay /\ LockMoves(o)
    BY <1>0, <1>2 DEF MigrateSchema, Quits, FilesStay, LockMoves
  <2> QED
    BY <1>0, <2>1, Leaves
<1> QED
  BY <1>1, <1>2

LEMMA VerifySteps ==
    ASSUME PubInv, NEW o \in Runtimes, VerifySchema(o)
    PROVE  PubInv' /\ PublishStep
<1>0. /\ o \in Processes /\ process[o].at = "owning" /\ process[o].at \notin Inodeless
      /\ FilesStay /\ SourceStays
  BY DEF Processes, VerifySchema, AtStep, Inodeless
<1>1. CASE SchemaIsCurrent(databaseFile.schema)
  <2>1. MovesTo(o, "serving") /\ LockMoves(o) /\ "serving" \in ProcessSteps
    BY <1>1 DEF VerifySchema, LockMoves, ProcessSteps
  <2>2. PICK r \in ProcessRecords : /\ process' = [process EXCEPT ![o] = r]
                                    /\ r.at = "serving" /\ r.inode = process[o].inode
    BY <1>0, <2>1, StepOf DEF PubInv
  <2>3. FitsStep(r)
    BY <1>0, <2>2, RecordOf DEF PubInv, FitsStep, StagedSteps
  <2>4. databaseFile.schema = CurrentSchema
    BY <1>1, SchemasAreKnown DEF PubInv, FilesTyped
  <2>5. databaseFile # NoFile
    BY <1>0 DEF PubInv, OwnersHaveDatabase, Owning, AtStep
  <2> QED
    BY <1>0, <2>1, <2>2, <2>3, <2>4, <2>5, ProcessStep
<1>2. CASE ~SchemaIsCurrent(databaseFile.schema)
  <2>1. process' = [process EXCEPT ![o] = Away] /\ LockMoves(o)
    BY <1>2 DEF VerifySchema, Quits, LockMoves
  <2> QED
    BY <1>0, <2>1, Leaves
<1> QED
  BY <1>1, <1>2

----------------------------------------------------------------------------
(* The surroundings, and the theorem. *)

LEMMA SurroundingSteps ==
    ASSUME PubInv, SourceMoves \/ \E p \in Processes : ProcessDies(p)
    PROVE  PubInv' /\ PublishStep
<1>1. CASE \E p \in Processes : ProcessDies(p)
  <2>1. PICK p \in Processes : ProcessDies(p)
    BY <1>1
  <2>2. process' = [process EXCEPT ![p] = Away] /\ FilesStay /\ SourceStays /\ LockMoves(p)
    BY <2>1 DEF ProcessDies, LockMoves
  <2> QED
    BY <2>2, Leaves
<1>2. CASE SourceMoves
  <2>1. /\ UNCHANGED <<databaseFile, lockFile, inodes, lockHolder, process, launches>>
        /\ sourceState' = sourceState + 1 /\ sourceState <= MaxSourceMoves
    BY <1>2 DEF SourceMoves, FilesStay
  <2>2. FilesTyped'
    BY <2>1, MigrationsAreNumbered DEF PubInv, FilesTyped
  <2>3. ProcessesFit' /\ RemovalsAreLocked' /\ OwnersHaveDatabase' /\ InodesAreLaunched'
    BY <2>1 DEF PubInv, ProcessesFit, RemovalsAreLocked, OwnersHaveDatabase, InodesAreLaunched,
                AtStep, InodeOf, Owning, Launching
  <2> QED
    BY <2>1, <2>2, <2>3 DEF PubInv, PublishStep
<1> QED
  BY <1>1, <1>2

LEMMA PublicationStep ==
    ASSUME PubInv, PublicationNext
    PROVE  PubInv' /\ PublishStep
<1>0. Publishers \subseteq Processes /\ Runtimes \subseteq Processes
  BY DEF Processes
<1>1. ASSUME NEW p \in Publishers,
             \/ LockReservation(p) \/ CatalogRefused(p) \/ RowRefused(p) \/ StagingFails(p)
             \/ ReleasePublished(p) \/ DropReservation(p) \/ UnlockReservation(p)
             \/ ValidateImport(p) \/ ValidateStaged(p) \/ EncodeArchive(p) \/ VerifyReservation(p)
      PROVE  PubInv' /\ PublishStep
  BY <1>1, ReservationSteps, ValidationSteps
<1>2. ASSUME NEW p \in Publishers,
             \/ BeginSnapshot(p) \/ OpenArchive(p) \/ VacuumInto(p)
             \/ CopyTables(p) \/ PreserveSequences(p) \/ TransferArchive(p)
      PROVE  PubInv' /\ PublishStep
  BY <1>2, CopyBegins, BackupCopies, CopyGoesOn
<1>3. ASSUME NEW p \in Publishers, EnsureAbsent(p) \/ CreateReservation(p) \/ RenameStaged(p) \/ RemoveReservation(p)
      PROVE  PubInv' /\ PublishStep
  BY <1>0, <1>3, LaunchSteps, SidecarSteps, RenameSteps, RemoveSteps
<1>4. ASSUME NEW o \in Runtimes, LookForDatabase(o) \/ OpenLock(o) \/ CheckLock(o) \/ TakeLock(o) \/ CloseDatabase(o)
      PROVE  PubInv' /\ PublishStep
  BY <1>0, <1>4, LaunchSteps, SidecarSteps, LockSteps
<1>5. ASSUME NEW o \in Runtimes, OpenOrCreate(o) \/ MigrateSchema(o) \/ VerifySchema(o)
      PROVE  PubInv' /\ PublishStep
  BY <1>5, OpenSteps, MigrateSteps, VerifySteps
<1>6. ASSUME SourceMoves \/ \E p \in Processes : ProcessDies(p)
      PROVE  PubInv' /\ PublishStep
  BY <1>6, SurroundingSteps
<1> QED
  BY <1>1, <1>2, <1>3, <1>4, <1>5, <1>6 DEF PublicationNext

LEMMA PublicationTyped ==
    ASSUME PubInv
    PROVE  PublicationTypeOK
<1>1. inodes \in 0 .. MaxLaunches + 1
  BY LaunchingIsFinite, MigrationsAreNumbered DEF PubInv, InodesAreLaunched
<1>2. Len(databaseFile.schema.ledger) <= SchemaVersion + 1
  BY SchemasAreKnown DEF PubInv, FilesTyped
<1>3. \A p \in Processes : process[p].at \in ProcessSteps
  BY RecordOf DEF PubInv
<1> QED
  BY <1>1, <1>2, <1>3 DEF PublicationTypeOK, PubInv, FilesTyped, InodesAreLaunched,
                          ProcessSteps, Inodeless, StagedSteps

\* For any number of importers, restores, backups, servers and migrations, any
\* list of migrations and any number of launches, crashes at every step
\* included: what appears under the name of the database is one state of its
\* source, complete and of the current schema; a database is never replaced, and
\* migrated only forward, all the way and below nobody who serves it; and a
\* sidecar loses its name only to the publisher that holds its lock
\* (publication.rs, yoink-db lib.rs, schema.rs, yoink-ops, yoink-import).
THEOREM FilesAreAlwaysWhole == PublicationSpec => PublishesWholeFiles
<1>1. PublicationInit => PubInv
  BY PublicationStarts
<1>2. PubInv /\ [PublicationNext]_publicationVars => PubInv'
  <2> SUFFICES ASSUME PubInv, [PublicationNext]_publicationVars
               PROVE  PubInv'
    OBVIOUS
  <2>1. CASE PublicationNext
    BY <2>1, PublicationStep
  <2>2. CASE UNCHANGED publicationVars
    BY <2>2 DEF PubInv, FilesTyped, ProcessesFit, RemovalsAreLocked, OwnersHaveDatabase, InodesAreLaunched,
                AtStep, InodeOf, Owning, Launching, publicationVars
  <2> QED
    BY <2>1, <2>2
<1>3. PubInv /\ PubInv' /\ [PublicationNext]_publicationVars => [PublicationTypeOK' /\ PublishStep]_publicationVars
  <2> SUFFICES ASSUME PubInv, PubInv', PublicationNext
               PROVE  PublicationTypeOK' /\ PublishStep
    BY DEF publicationVars
  <2>1. PubInv => PublicationTypeOK
    BY PublicationTyped
  <2>2. PublicationTypeOK'
    BY <2>1, PublicationTyped, PTL
  <2> QED
    BY <2>2, PublicationStep
<1> QED
  BY <1>1, <1>2, <1>3, PTL DEF PublicationSpec, PublishesWholeFiles
-----------------------------------------------------------------------------
(* The grants of groups and the keys of machines, for any users, events,   *)
(* keys, requests and scopes.                                              *)

EventRecords == [subject : Users \cup {"bot"}, present : BOOLEAN, tag : BOOLEAN]
BotRows == [key : Nat, present : BOOLEAN, generation : Nat]
MemberRows == [key : Nat, present : BOOLEAN, generation : Nat, tag : BOOLEAN]

GroupsTyped ==
    /\ events \in Seq(EventRecords) /\ Len(events) <= MaxEvents
    /\ groupRow \in {"none", "disabled", "enabled"} /\ suppressed \in BOOLEAN
    /\ suppressed => groupRow = "none"
    /\ deletions \in 0 .. MaxDeletions
    /\ memberRow \in [Users -> MemberRows]
    /\ stored \in [Users -> {"none", "manual", "expired", "tag"}]

\* A generation of the bot begins with a report about it or with a deletion.
BotSound ==
    /\ botRow \in BotRows /\ botRow.key <= Len(events)
    /\ botRow.generation <= botRow.key + deletions
    /\ botRow.key = 0 => botRow = NoBot
    /\ botRow.key > 0 => botRow.generation > 0
    /\ applied \subseteq 1 .. Len(events)
    /\ \A k \in applied : events[k].subject = "bot" => k <= botRow.key

\* The departures of the bot that the database knows of.
Departures == {k \in applied : events[k].subject = "bot" /\ ~events[k].present}

\* A row of the bot's present generation was reported after every departure, and
\* taken in after the last deletion.
MemberSound(u) ==
    LET r == memberRow[u] IN
    /\ r.key <= Len(events) /\ r.generation <= botRow.generation
    /\ r.present => /\ r.key > 0 /\ events[r.key].present
                    /\ r.tag => events[r.key].tag
    /\ r.present /\ botRow.present /\ r.generation = botRow.generation =>
           u \in since /\ \A k \in Departures : k < r.key

\* What the owner revoked has neither a row nor a tag's grant left.
RevocationSound(u) == u \in revoked => u \in muted /\ stored[u] = "none"

MembersInv ==
    /\ GroupsTyped /\ BotSound
    /\ \A u \in Users : MemberSound(u) /\ RevocationSound(u)

KeyRows == [there : BOOLEAN, revoked : BOOLEAN, expires : {Never} \cup Nat, scopes : SUBSET UNION ScopeSets,
            used : Int, revokedAt : {Never} \cup Nat]
CallRecords == [at : {"idle", "sent", "allowed", "served", "refused", "unauthorized", "forbidden"},
                key : Keys, op : Ops]

\* A key was not used at its expiry or later, nor after it was revoked.
KeySound(k) ==
    /\ keys[k].used \in -1 .. keyClock
    /\ \A s \in keys[k].scopes : ValidScope(s)
    /\ keys[k].expires # Never => keys[k].used < keys[k].expires
    /\ ~keys[k].revoked => keys[k].revokedAt = Never
    /\ keys[k].revokedAt # Never => keys[k].used <= keys[k].revokedAt

\* Who was let in was entitled, and keeps what it asked for.
CallsSound ==
    /\ \A c \in Calls : calls[c].at \in {"allowed", "served"} => good[c]
    /\ \A n \in DOMAIN eventLog : LET c == eventLog[n] IN
           good[c] /\ calls[c].op = "event" /\ calls[c].at # "idle"

KeysInv ==
    /\ keys \in [Keys -> KeyRows] /\ admins \subseteq Admins
    /\ keyClock \in 0 .. MaxKeyClock
    /\ calls \in [Calls -> CallRecords] /\ eventLog \in Seq(Calls)
    /\ serviceReady \in BOOLEAN /\ good \in [Calls -> BOOLEAN]
    /\ \A k \in Keys : KeySound(k)
    /\ CallsSound

GrantsInv == MembersInv /\ KeysInv

-----------------------------------------------------------------------------
(* Groups and their members. *)

LEMMA GrantsFacts == MaxEvents \in Nat /\ MaxDeletions \in Nat /\ MaxKeyClock \in Nat /\ "bot" \notin Users
BY GrantsAssumption

LEMMA MembersStart == MembershipInit => MembersInv
<1> SUFFICES ASSUME MembershipInit PROVE MembersInv
  OBVIOUS
<1> USE GrantsFacts DEF MembershipInit
<1>1. events \in Seq(EventRecords) /\ Len(events) = 0
  OBVIOUS
<1>0. /\ NoMember \in MemberRows /\ NoMember.key = 0 /\ ~NoMember.present /\ NoMember.generation = 0
      /\ NoBot.key = 0 /\ ~NoBot.present /\ NoBot.generation = 0
  BY DEF NoMember, MemberRows, NoBot
<1>a. memberRow \in [Users -> MemberRows] /\ \A u \in Users : memberRow[u] = NoMember
  BY <1>0
<1>b. stored \in [Users -> {"none", "manual", "expired", "tag"}]
  OBVIOUS
<1>c. events \in Seq(EventRecords) /\ Len(events) <= MaxEvents /\ deletions \in 0 .. MaxDeletions
  BY <1>1
<1>2. GroupsTyped
  BY <1>a, <1>b, <1>c DEF GroupsTyped
<1>3. BotSound
  BY <1>1 DEF BotSound, BotRows, NoBot
<1>d. botRow.generation = 0 /\ Len(events) = 0 /\ revoked = {}
  BY <1>0, <1>1
<1> HIDE DEF MembershipInit
<1>4. ASSUME NEW u \in Users PROVE MemberSound(u) /\ RevocationSound(u)
  <2>1. memberRow[u].key = 0 /\ ~memberRow[u].present /\ memberRow[u].generation = 0
    BY <1>0, <1>a
  <2> QED BY <2>1, <1>d DEF MemberSound, RevocationSound
<1> QED BY <1>2, <1>3, <1>4 DEF MembersInv

\* Another event says nothing new of the ones before.
LEMMA EventHappens ==
    ASSUME MembersInv, NEW subject \in Users \cup {"bot"}, NEW present \in BOOLEAN, NEW tag \in BOOLEAN,
           Happen(subject, present, tag)
    PROVE  MembersInv'
<1> DEFINE e == [subject |-> subject, present |-> present, tag |-> tag /\ present]
<1> USE GrantsFacts
<1>1. /\ events \in Seq(EventRecords) /\ Len(events) < MaxEvents /\ events' = Append(events, e)
      /\ UNCHANGED <<seen, memberGroupVars, observations, grantVars>>
  BY DEF Happen, MembersInv, GroupsTyped
<1>2. e \in EventRecords
  BY DEF EventRecords
<1> HIDE DEF e
<1>3. /\ events' \in Seq(EventRecords) /\ Len(events') = Len(events) + 1
      /\ \A k \in 1 .. Len(events) : events'[k] = events[k]
      /\ Len(events) \in Nat
  BY <1>1, <1>2
<1> USE DEF memberGroupVars, observations, grantVars
<1>4. GroupsTyped'
  BY <1>1, <1>3 DEF MembersInv, GroupsTyped
<1>5. BotSound'
  BY <1>1, <1>3 DEF MembersInv, BotSound, BotRows
<1>6. ASSUME NEW u \in Users PROVE MemberSound(u)' /\ RevocationSound(u)'
  <2>1. memberRow[u] \in MemberRows /\ MemberSound(u) /\ RevocationSound(u)
    BY DEF MembersInv, GroupsTyped
  <2>2. Departures' = Departures
    BY <1>1, <1>3 DEF MembersInv, BotSound, Departures
  <2>3. MemberSound(u)'
    BY <1>1, <1>3, <2>1, <2>2 DEF MemberSound, MemberRows
  <2> QED BY <1>1, <2>1, <2>3 DEF RevocationSound
<1> QED BY <1>4, <1>5, <1>6 DEF MembersInv

\* A report about the bot.
LEMMA BotIsObserved ==
    ASSUME MembersInv, NEW k \in 1 .. Len(events), ~Ignored(k), events[k].subject = "bot", ObserveBot(k),
           UNCHANGED <<events, suppressed, deletions, grantVars>>
    PROVE  MembersInv'
<1> USE GrantsFacts DEF grantVars
<1>0. events[k] \in EventRecords /\ Len(events) \in Nat
  BY DEF MembersInv, GroupsTyped
<1>1. /\ botRow' = [key |-> k, present |-> events[k].present, generation |-> BotGeneration(events[k].present)]
      /\ groupRow' = IF groupRow = "none" /\ events[k].present THEN "disabled" ELSE groupRow
      /\ applied' = applied \cup {k}
      /\ UNCHANGED <<memberRow, registered, since>>
  BY DEF ObserveBot
<1>2. k > botRow.key /\ ~suppressed
  BY DEF Ignored, OldKey, MembersInv, BotSound, BotRows
<1>3. /\ botRow \in BotRows
      /\ botRow'.generation \in {botRow.generation, botRow.generation + 1}
      /\ botRow'.generation = botRow.generation => botRow.key # 0 /\ botRow.present = botRow'.present
      /\ botRow' \in BotRows
  BY <1>0, <1>1 DEF BotGeneration, MembersInv, BotSound, BotRows, EventRecords
<1>4. GroupsTyped'
  BY <1>0, <1>1, <1>2 DEF MembersInv, GroupsTyped, EventRecords
<1>5. BotSound'
  BY <1>0, <1>1, <1>2, <1>3 DEF MembersInv, BotSound, BotRows, GroupsTyped, NoBot
<1>6. ASSUME NEW u \in Users PROVE MemberSound(u)' /\ RevocationSound(u)'
  <2>1. memberRow[u] \in MemberRows /\ MemberSound(u) /\ RevocationSound(u)
    BY DEF MembersInv, GroupsTyped
  <2>2. CASE botRow'.present
    <3>1. Departures' = Departures
      BY <1>1, <2>2 DEF Departures
    <3> QED BY <1>1, <1>3, <2>1, <2>2, <3>1 DEF MemberSound, RevocationSound, MemberRows, BotRows
  <2>3. CASE ~botRow'.present
    BY <1>1, <1>3, <2>1, <2>3 DEF MemberSound, RevocationSound, MemberRows, BotRows
  <2> QED BY <2>2, <2>3
<1> QED BY <1>4, <1>5, <1>6 DEF MembersInv

\* A report about a member: if it is older than the bot's last one it belongs to the
\* generation before, else it is younger than every departure.
LEMMA MemberIsObserved ==
    ASSUME MembersInv, NEW k \in 1 .. Len(events), ~Ignored(k), events[k].subject # "bot", ObserveUser(k),
           UNCHANGED <<events, suppressed, deletions, grantVars>>
    PROVE  MembersInv'
<1> DEFINE v == events[k].subject
           r == [key |-> k, present |-> events[k].present,
                 generation |-> MemberGeneration(k), tag |-> events[k].tag]
<1> USE GrantsFacts DEF grantVars
<1>a. events[k] \in EventRecords /\ Len(events) \in Nat
  BY DEF MembersInv, GroupsTyped
<1>0. events[k] \in EventRecords /\ Len(events) \in Nat /\ v \in Users
  BY <1>a DEF EventRecords
<1>1. /\ memberRow' = [memberRow EXCEPT ![v] = r]
      /\ since' = since \cup {v} /\ applied' = applied \cup {k}
      /\ UNCHANGED <<botRow, groupRow>>
  BY DEF ObserveUser
<1>2. /\ botRow \in BotRows /\ MemberGeneration(k) \in Nat /\ MemberGeneration(k) <= botRow.generation
      /\ MemberGeneration(k) = botRow.generation => k >= botRow.key
  BY DEF MemberGeneration, MembersInv, BotSound, BotRows
<1>3. Departures' = Departures
  BY <1>1 DEF Departures
<1>4. r \in MemberRows
  BY <1>0, <1>2 DEF MemberRows, EventRecords
<1>5. GroupsTyped'
  BY <1>0, <1>1, <1>4 DEF MembersInv, GroupsTyped
<1>6. BotSound'
  BY <1>0, <1>1 DEF MembersInv, BotSound
<1>7. ASSUME NEW u \in Users PROVE MemberSound(u)' /\ RevocationSound(u)'
  <2>1. memberRow[u] \in MemberRows /\ MemberSound(u) /\ RevocationSound(u)
    BY DEF MembersInv, GroupsTyped
  <2>2. CASE u # v
    BY <1>0, <1>1, <1>3, <2>1, <2>2 DEF MemberSound, RevocationSound, MembersInv, GroupsTyped
  <2>3. CASE u = v
    <3>1. memberRow'[u] = r
      BY <1>0, <1>1, <2>3 DEF MembersInv, GroupsTyped
    <3>2. k >= botRow.key => \A d \in Departures : d < k
      BY DEF Departures, MembersInv, BotSound, BotRows
    <3> QED BY <1>0, <1>1, <1>2, <1>3, <2>1, <2>3, <3>1, <3>2 DEF MemberSound, RevocationSound
  <2> QED BY <2>2, <2>3
<1> QED BY <1>5, <1>6, <1>7 DEF MembersInv

\* What only touches the group's row, the tag map or the decisions.
LEMMA ReportsStay ==
    ASSUME MembersInv, UNCHANGED <<events, applied, deletions, botRow, memberRow, since>>,
           groupRow' \in {"none", "disabled", "enabled"}, suppressed' \in BOOLEAN,
           suppressed' => groupRow' = "none",
           stored' \in [Users -> {"none", "manual", "expired", "tag"}],
           \A u \in Users : RevocationSound(u)'
    PROVE  MembersInv'
<1>1. GroupsTyped'
  BY DEF MembersInv, GroupsTyped
<1>2. BotSound'
  BY DEF MembersInv, BotSound
<1>3. \A u \in Users : MemberSound(u)'
  BY DEF MembersInv, MemberSound, Departures
<1> QED BY <1>1, <1>2, <1>3 DEF MembersInv

\* A deletion begins a new generation, so that no row is of the present one.
LEMMA GroupIsDeleted == ASSUME MembersInv, GroupDelete PROVE MembersInv'
<1> USE GrantsFacts DEF GroupDelete, grantVars
<1>1. GroupsTyped'
  BY DEF MembersInv, GroupsTyped
<1>0. botRow \in BotRows /\ Len(events) \in Nat /\ deletions \in Nat
  BY DEF MembersInv, BotSound, GroupsTyped
<1>a. \/ botRow' = botRow
      \/ botRow # NoBot /\ botRow' = [botRow EXCEPT !.generation = @ + 1]
  OBVIOUS
<1>b. /\ botRow' \in BotRows /\ botRow'.key = botRow.key
      /\ botRow'.generation \in {botRow.generation, botRow.generation + 1}
      /\ botRow'.key = 0 => botRow' = botRow
  BY <1>0, <1>a DEF BotRows, MembersInv, BotSound
<1>2. BotSound'
  BY <1>0, <1>b DEF MembersInv, BotSound, BotRows
<1>3. ASSUME NEW u \in Users PROVE MemberSound(u)' /\ RevocationSound(u)'
  <2>1. memberRow[u] \in MemberRows /\ MemberSound(u) /\ RevocationSound(u) /\ botRow \in BotRows
    BY DEF MembersInv, GroupsTyped, BotSound
  <2>2. CASE botRow = NoBot
    BY <2>1, <2>2 DEF MemberSound, RevocationSound, NoBot
  <2>3. CASE botRow # NoBot
    BY <2>1, <2>3 DEF MemberSound, RevocationSound, BotRows, MemberRows
  <2> QED BY <2>2, <2>3
<1> QED BY <1>1, <1>2, <1>3 DEF MembersInv

LEMMA MembershipSteps == ASSUME MembersInv, MembershipNext PROVE MembersInv'
<1>1. ASSUME NEW subject \in Users \cup {"bot"}, NEW present \in BOOLEAN, NEW tag \in BOOLEAN,
             Happen(subject, present, tag)
      PROVE  MembersInv'
  BY <1>1, EventHappens
<1>2. ASSUME NEW k \in 1 .. Len(events), ObserveMembership(k) PROVE MembersInv'
  <2>1. UNCHANGED <<events, suppressed, deletions, grantVars>>
    BY <1>2 DEF ObserveMembership
  <2>2. CASE Ignored(k)
    <3>1. UNCHANGED <<applied, botRow, memberRow, since, groupRow>>
      BY <1>2, <2>2 DEF ObserveMembership, observations
    <3> QED BY <2>1, <3>1, ReportsStay DEF MembersInv, GroupsTyped, RevocationSound, grantVars
  <2>3. CASE ~Ignored(k) /\ events[k].subject = "bot"
    <3>1. ObserveBot(k)
      BY <1>2, <2>3 DEF ObserveMembership
    <3> QED BY <2>1, <2>3, <3>1, BotIsObserved
  <2>4. CASE ~Ignored(k) /\ events[k].subject # "bot"
    <3>1. ObserveUser(k)
      BY <1>2, <2>4 DEF ObserveMembership
    <3> QED BY <2>1, <2>4, <3>1, MemberIsObserved
  <2> QED BY <2>2, <2>3, <2>4
<1>3. CASE GroupCreate \/ GroupUpdate
  <2>1. UNCHANGED <<events, deletions, observations, grantVars>>
    BY <1>3 DEF GroupCreate, GroupUpdate
  <2>2. /\ groupRow' \in {"none", "disabled", "enabled"} /\ suppressed' \in BOOLEAN
        /\ suppressed' => groupRow' = "none"
    <3>1. CASE GroupCreate
      BY <3>1 DEF GroupCreate
    <3>2. CASE GroupUpdate
      <4>1. groupRow' \in {"disabled", "enabled"} /\ suppressed' = suppressed /\ groupRow # "none"
        BY <3>2 DEF GroupUpdate
      <4> QED BY <4>1 DEF MembersInv, GroupsTyped
    <3> QED BY <1>3, <3>1, <3>2
  <2>3. \A u \in Users : RevocationSound(u)'
    BY <2>1 DEF grantVars, MembersInv, RevocationSound
  <2>4. stored' \in [Users -> {"none", "manual", "expired", "tag"}]
    BY <2>1 DEF grantVars, MembersInv, GroupsTyped
  <2> QED BY <2>1, <2>2, <2>3, <2>4, ReportsStay DEF observations
<1>4. CASE GroupDelete
  BY <1>4, GroupIsDeleted
<1>5. ASSUME NEW actor \in {"owner", "admin"}, NEW v \in Users,
             AdminGrantPermission(actor, v) \/ AdminRevokePermission(actor, v) \/ PermissionExpires(v)
      PROVE  MembersInv'
  <2>1. UNCHANGED <<events, memberGroupVars, observations>>
    BY <1>5 DEF AdminGrantPermission, AdminRevokePermission, PermissionExpires
  <2>2. stored \in [Users -> {"none", "manual", "expired", "tag"}] /\ \A u \in Users : RevocationSound(u)
    BY DEF MembersInv, GroupsTyped
  <2>3. stored' \in [Users -> {"none", "manual", "expired", "tag"}]
    BY <1>5, <2>2 DEF AdminGrantPermission, AdminRevokePermission, PermissionExpires
  <2>4. ASSUME NEW u \in Users PROVE RevocationSound(u)'
    BY <1>5, <2>2 DEF AdminGrantPermission, AdminRevokePermission, PermissionExpires, RevocationSound
  <2> QED BY <2>1, <2>3, <2>4, ReportsStay DEF memberGroupVars, observations, MembersInv, GroupsTyped
<1>6. CASE AdminUpdateTagMap
  BY <1>6, ReportsStay
  DEF AdminUpdateTagMap, memberGroupVars, observations, MembersInv, GroupsTyped, RevocationSound
<1> QED BY <1>1, <1>2, <1>3, <1>4, <1>5, <1>6 DEF MembershipNext

LEMMA MembersAreEnough == ASSUME MembersInv PROVE MembershipTypeOK /\ GrantsAreLive
<1> USE GrantsFacts
<1>1. MembershipTypeOK
  BY DEF MembersInv, GroupsTyped, BotSound, BotRows, MemberSound, MemberRows, MembershipTypeOK
<1>2. GrantsAreLive
  BY DEF MembersInv, MemberSound, RevocationSound, Departures, GrantsAreLive, ActiveTag, Granted, AutomaticGrant
<1> QED BY <1>1, <1>2

-----------------------------------------------------------------------------
(* Keys and the requests that bring them. *)

LEMMA KeysStart == KeysInit => KeysInv
<1> SUFFICES ASSUME KeysInit PROVE KeysInv
  OBVIOUS
<1> USE GrantsFacts DEF KeysInit
<1>1. (CHOOSE k \in Keys : TRUE) \in Keys
  BY GrantsAssumption
<1>2. Idle \in CallRecords /\ Idle.at = "idle"
  BY <1>1 DEF Idle, CallRecords, Ops
<1>3. /\ Absent \in KeyRows /\ Absent.used = -1 /\ Absent.scopes = {} /\ Absent.expires = Never
      /\ Absent.revokedAt = Never
  BY DEF Absent, KeyRows
<1>4. /\ keys \in [Keys -> KeyRows] /\ \A k \in Keys : keys[k] = Absent
      /\ calls \in [Calls -> CallRecords] /\ \A c \in Calls : calls[c].at = "idle"
      /\ eventLog \in Seq(Calls) /\ DOMAIN eventLog = {}
      /\ good \in [Calls -> BOOLEAN]
  BY <1>2, <1>3
<1>a. serviceReady \in BOOLEAN
  OBVIOUS
<1>5. keyClock = 0 /\ admins \subseteq Admins /\ keyClock \in 0 .. MaxKeyClock
  OBVIOUS
<1> HIDE DEF KeysInit
<1>6. \A k \in Keys : KeySound(k)
  BY <1>3, <1>4, <1>5 DEF KeySound
<1>7. CallsSound
  BY <1>4 DEF CallsSound
<1> QED BY <1>a, <1>4, <1>5, <1>6, <1>7 DEF KeysInv

\* What is good stays good while the request is under way.
Keeps == good' = [c \in Calls |->
                    \/ calls[c].at # "idle" /\ good[c]
                    \/ calls'[c].at # "idle"
                         /\ Entitled(keys'[calls'[c].key], keyClock', calls'[c].op)]

LEMMA GoodStays ==
    ASSUME KeysInv, Keeps
    PROVE  /\ good' \in [Calls -> BOOLEAN]
           /\ \A c \in Calls : calls[c].at # "idle" /\ good[c] => good'[c]
BY DEF Keeps, KeysInv

\* Requests that were let in before stay as they were, but for being served, or
\* become refused; the event log is as before.
LEMMA CallsAreKept ==
    ASSUME KeysInv, Keeps, calls' \in [Calls -> CallRecords], UNCHANGED eventLog,
           \A c \in Calls : /\ calls[c].at # "idle" => calls'[c].op = calls[c].op /\ calls'[c].at # "idle"
                            /\ calls'[c].at \in {"allowed", "served"} =>
                                   calls[c].at \in {"allowed", "served"} \/ good'[c]
    PROVE  CallsSound'
<1>1. eventLog \in Seq(Calls) /\ \A n \in DOMAIN eventLog : eventLog[n] \in Calls
  BY DEF KeysInv
<1>2. \A c \in Calls : calls[c] \in CallRecords
  BY DEF KeysInv
<1> QED BY <1>1, <1>2, GoodStays DEF CallsSound, KeysInv, CallRecords

LEMMA KeyIsCreated ==
    ASSUME KeysInv, NEW a \in Admins, NEW k \in Keys, NEW scopes \in ScopeSets,
           NEW expires \in {Never} \cup 0 .. MaxKeyClock, CreateKey(a, k, scopes, expires)
    PROVE  keys' \in [Keys -> KeyRows] /\ \A j \in Keys : KeySound(j)'
<1> DEFINE r == [Absent EXCEPT !.there = TRUE, !.expires = expires, !.scopes = scopes]
<1> USE GrantsFacts
<1>1. /\ keys' = [keys EXCEPT ![k] = r] /\ UNCHANGED keyClock
      /\ \A s \in scopes : ValidScope(s)
  BY DEF CreateKey
<1>2. /\ r \in KeyRows /\ r.used = -1 /\ r.scopes = scopes /\ r.expires = expires /\ r.revokedAt = Never
  <2>1. Absent \in KeyRows /\ Absent.used = -1 /\ Absent.revokedAt = Never
    BY DEF Absent, KeyRows
  <2>2. scopes \in SUBSET UNION ScopeSets
    OBVIOUS
  <2>3. expires \in {Never} \cup Nat
    OBVIOUS
  <2> QED BY <2>1, <2>2, <2>3 DEF KeyRows
<1> HIDE DEF r
<1>3. keys \in [Keys -> KeyRows] /\ keyClock \in 0 .. MaxKeyClock /\ \A j \in Keys : KeySound(j)
  BY DEF KeysInv
<1>4. keys' \in [Keys -> KeyRows] /\ keys'[k] = r /\ \A j \in Keys : j # k => keys'[j] = keys[j]
  BY <1>1, <1>2, <1>3
<1>5. KeySound(k)'
  BY <1>1, <1>2, <1>3, <1>4 DEF KeySound
<1>6. \A j \in Keys : j # k => KeySound(j)'
  BY <1>1, <1>3, <1>4 DEF KeySound
<1> QED BY <1>4, <1>5, <1>6

LEMMA KeyIsRevoked ==
    ASSUME KeysInv, NEW a \in Admins, NEW k \in Keys, RevokeKey(a, k)
    PROVE  keys' \in [Keys -> KeyRows] /\ \A j \in Keys : KeySound(j)'
<1> DEFINE r == [keys[k] EXCEPT !.revoked = TRUE, !.revokedAt = IF keys[k].revoked THEN @ ELSE keyClock]
<1> USE GrantsFacts
<1>3. keys \in [Keys -> KeyRows] /\ keyClock \in 0 .. MaxKeyClock /\ \A j \in Keys : KeySound(j)
  BY DEF KeysInv
<1>1. keys' = [keys EXCEPT ![k] = r] /\ UNCHANGED keyClock
  BY <1>3 DEF RevokeKey, KeyRows
<1>2. /\ r \in KeyRows /\ r.used = keys[k].used /\ r.scopes = keys[k].scopes /\ r.expires = keys[k].expires
      /\ r.revoked /\ r.revokedAt = IF keys[k].revoked THEN keys[k].revokedAt ELSE keyClock
  <2> DEFINE at == IF keys[k].revoked THEN keys[k].revokedAt ELSE keyClock
  <2>1. keys[k] \in KeyRows /\ keyClock \in Nat
    BY <1>3
  <2>2. at \in {Never} \cup Nat
    BY <2>1 DEF KeyRows
  <2>3. r = [keys[k] EXCEPT !.revoked = TRUE, !.revokedAt = at]
    BY <2>1 DEF KeyRows
  <2> HIDE DEF at, r
  <2>4. /\ r \in KeyRows /\ r.used = keys[k].used /\ r.scopes = keys[k].scopes /\ r.expires = keys[k].expires
        /\ r.revoked = TRUE /\ r.revokedAt = at
    BY <2>1, <2>2, <2>3 DEF KeyRows
  <2> QED BY <2>4 DEF at
<1> HIDE DEF r
<1>4. keys' \in [Keys -> KeyRows] /\ keys'[k] = r /\ \A j \in Keys : j # k => keys'[j] = keys[j]
  BY <1>1, <1>2, <1>3
<1>5. KeySound(k)'
  BY <1>1, <1>2, <1>3, <1>4 DEF KeySound, KeyRows
<1>6. \A j \in Keys : j # k => KeySound(j)'
  BY <1>1, <1>3, <1>4 DEF KeySound
<1> QED BY <1>4, <1>5, <1>6

\* Only a live key is used, and only a live key with the scope is let in.
LEMMA KeyIsUsed ==
    ASSUME KeysInv, Keeps, NEW d \in Calls, AuthenticateKey(d)
    PROVE  /\ keys' \in [Keys -> KeyRows] /\ \A j \in Keys : KeySound(j)'
           /\ calls' \in [Calls -> CallRecords] /\ CallsSound'
<1> USE GrantsFacts
<1>k. calls[d].key \in Keys
  BY DEF KeysInv, CallRecords
<1> PICK k \in Keys : k = calls[d].key
  BY <1>k
<1> DEFINE r == [keys[k] EXCEPT !.used = keyClock]
<1>0. /\ calls \in [Calls -> CallRecords] /\ calls[d] \in CallRecords /\ k \in Keys /\ calls[d].op \in Ops
      /\ keys \in [Keys -> KeyRows] /\ keys[k] \in KeyRows
      /\ keyClock \in 0 .. MaxKeyClock /\ \A j \in Keys : KeySound(j)
  BY DEF KeysInv, CallRecords
<1>1. /\ calls[d].at = "sent" /\ UNCHANGED <<keyClock, eventLog>>
      /\ keys' = IF Live(k) THEN [keys EXCEPT ![k] = r] ELSE keys
      /\ calls' = [calls EXCEPT ![d].at =
                       CASE ~Live(k) -> "unauthorized"
                         [] Live(k) /\ ~HasScope(keys[k].scopes, calls[d].op) -> "forbidden"
                         [] OTHER -> "allowed"]
  BY <1>0 DEF AuthenticateKey
<1>2. /\ r \in KeyRows /\ r.used = keyClock /\ r.scopes = keys[k].scopes /\ r.expires = keys[k].expires
      /\ r.revoked = keys[k].revoked /\ r.revokedAt = keys[k].revokedAt /\ r.there = keys[k].there
  BY <1>0 DEF KeyRows
<1> HIDE DEF r
<1>3. Live(k) => r.there /\ ~r.revoked /\ (r.expires # Never => keyClock < r.expires)
  BY <1>0, <1>2 DEF Live, KeyRows
<1>4. ASSUME Live(k) PROVE keys' \in [Keys -> KeyRows] /\ \A j \in Keys : KeySound(j)'
  <2>1. keys' \in [Keys -> KeyRows] /\ keys'[k] = r /\ \A j \in Keys : j # k => keys'[j] = keys[j]
    BY <1>0, <1>1, <1>2, <1>4
  <2>2. KeySound(k)'
    <3>1. KeySound(k) /\ r.used = keyClock /\ keyClock' = keyClock /\ keyClock \in Nat
      BY <1>0, <1>1, <1>2
    <3>2. ~r.revoked /\ r.revokedAt = Never
      BY <1>2, <1>3, <1>4, <3>1 DEF KeySound
    <3>3. r.expires # Never => r.used < r.expires
      BY <1>3, <1>4, <3>1
    <3>4. \A s \in r.scopes : ValidScope(s)
      BY <1>2, <3>1 DEF KeySound
    <3> HIDE DEF r
    <3> QED BY <2>1, <3>1, <3>2, <3>3, <3>4 DEF KeySound
  <2>3. \A j \in Keys : j # k => KeySound(j)'
    BY <1>0, <1>1, <2>1 DEF KeySound
  <2> QED BY <2>1, <2>2, <2>3
<1>5. ASSUME ~Live(k) PROVE keys' \in [Keys -> KeyRows] /\ \A j \in Keys : KeySound(j)'
  BY <1>0, <1>1, <1>5 DEF KeySound
<1>6. /\ calls' \in [Calls -> CallRecords]
      /\ \A c \in Calls : c # d => calls'[c] = calls[c]
      /\ calls'[d].key = k /\ calls'[d].op = calls[d].op /\ calls'[d].at # "idle"
      /\ calls'[d].at \in {"allowed", "served"} => Live(k) /\ HasScope(keys[k].scopes, calls[d].op)
  <2> DEFINE w == CASE ~Live(k) -> "unauthorized"
                    [] Live(k) /\ ~HasScope(keys[k].scopes, calls[d].op) -> "forbidden"
                    [] OTHER -> "allowed"
  <2>1. /\ w \in {"unauthorized", "forbidden", "allowed"}
        /\ w = "allowed" => Live(k) /\ HasScope(keys[k].scopes, calls[d].op)
    OBVIOUS
  <2>2. calls' = [calls EXCEPT ![d].at = w]
    BY <1>1
  <2> HIDE DEF w
  <2> QED BY <1>0, <2>1, <2>2 DEF CallRecords
<1>7. calls'[d].at \in {"allowed", "served"} => good'[d]
  <2> SUFFICES ASSUME calls'[d].at \in {"allowed", "served"} PROVE good'[d]
    OBVIOUS
  <2>1. Live(k) /\ HasScope(keys[k].scopes, calls[d].op)
    BY <1>6
  <2>2. keys'[k] = r
    BY <1>0, <1>1, <2>1
  <2>3. Entitled(keys'[k], keyClock', calls'[d].op)
    BY <1>0, <1>1, <1>2, <1>3, <1>6, <2>1, <2>2 DEF Entitled, HasScope
  <2> QED BY <1>6, <2>3 DEF Keeps
<1>8. CallsSound'
  <2>1. \A c \in Calls : calls[c] \in CallRecords
    BY <1>0
  <2>2. ASSUME NEW c \in Calls
        PROVE  /\ calls[c].at # "idle" => calls'[c].op = calls[c].op /\ calls'[c].at # "idle"
               /\ calls'[c].at \in {"allowed", "served"} =>
                      calls[c].at \in {"allowed", "served"} \/ good'[c]
    BY <1>6, <1>7
  <2> QED BY <1>1, <1>6, <2>2, CallsAreKept
<1> QED BY <1>4, <1>5, <1>6, <1>8

\* A request is answered or refused, and an event that is answered is on record.
LEMMA CallsProceed ==
    ASSUME KeysInv, Keeps, NEW d \in Calls, NEW at \in {"served", "refused"},
           calls[d].at = "allowed", calls' = [calls EXCEPT ![d].at = at],
           \/ eventLog' = eventLog
           \/ at = "served" /\ calls[d].op = "event" /\ eventLog' = Append(eventLog, d)
    PROVE  calls' \in [Calls -> CallRecords] /\ eventLog' \in Seq(Calls) /\ CallsSound'
<1>1. /\ calls \in [Calls -> CallRecords] /\ calls[d] \in CallRecords
      /\ eventLog \in Seq(Calls) /\ CallsSound
  BY DEF KeysInv
<1>2. /\ calls' \in [Calls -> CallRecords]
      /\ \A c \in Calls : c # d => calls'[c] = calls[c]
      /\ calls'[d].op = calls[d].op /\ calls'[d].at = at
  BY <1>1 DEF CallRecords
<1>3. \A c \in Calls : /\ calls[c].at # "idle" => calls'[c].op = calls[c].op /\ calls'[c].at # "idle"
                       /\ calls'[c].at \in {"allowed", "served"} => calls[c].at \in {"allowed", "served"}
  BY <1>2
<1>4. CASE eventLog' = eventLog
  BY <1>1, <1>2, <1>3, <1>4, CallsAreKept
<1>5. CASE at = "served" /\ calls[d].op = "event" /\ eventLog' = Append(eventLog, d)
  <2>1. /\ eventLog' \in Seq(Calls) /\ DOMAIN eventLog' = 1 .. Len(eventLog) + 1
        /\ DOMAIN eventLog = 1 .. Len(eventLog) /\ Len(eventLog) \in Nat
        /\ \A n \in DOMAIN eventLog : eventLog'[n] = eventLog[n] /\ eventLog[n] \in Calls
        /\ eventLog'[Len(eventLog) + 1] = d
    BY <1>1, <1>5
  <2>2. good[d] /\ good'[d]
    BY <1>1, GoodStays DEF CallsSound
  <2>3. ASSUME NEW c \in Calls, calls'[c].at \in {"allowed", "served"} PROVE good'[c]
    BY <1>1, <1>3, <2>3, GoodStays DEF CallsSound
  <2>4. ASSUME NEW n \in DOMAIN eventLog'
        PROVE  /\ good'[eventLog'[n]] /\ calls'[eventLog'[n]].op = "event"
               /\ calls'[eventLog'[n]].at # "idle"
    <3>1. CASE n \in DOMAIN eventLog
      <4>1. /\ eventLog'[n] = eventLog[n] /\ eventLog[n] \in Calls
            /\ good[eventLog[n]] /\ calls[eventLog[n]].op = "event" /\ calls[eventLog[n]].at # "idle"
        BY <1>1, <2>1, <3>1 DEF CallsSound
      <4> QED BY <1>3, <4>1, GoodStays
    <3>2. CASE n = Len(eventLog) + 1
      BY <1>2, <1>5, <2>1, <2>2, <3>2
    <3> QED BY <2>1, <3>1, <3>2
  <2> QED BY <1>2, <2>1, <2>3, <2>4 DEF CallsSound
<1> QED BY <1>4, <1>5

LEMMA KeysSteps == ASSUME KeysInv, KeysNext PROVE KeysInv'
<1>0. KeysStep /\ Keeps
  BY DEF KeysNext, Keeps
<1>1. good' \in [Calls -> BOOLEAN]
  BY <1>0, GoodStays
<1>2. /\ calls \in [Calls -> CallRecords] /\ keys \in [Keys -> KeyRows] /\ eventLog \in Seq(Calls)
      /\ admins \subseteq Admins /\ keyClock \in 0 .. MaxKeyClock /\ serviceReady \in BOOLEAN
  BY DEF KeysInv
<1>3. ASSUME UNCHANGED calls, UNCHANGED eventLog PROVE CallsSound'
  BY <1>0, <1>2, <1>3, CallsAreKept DEF KeysInv, CallsSound
<1>4. ASSUME UNCHANGED keys, keyClock' \in 0 .. MaxKeyClock, keyClock <= keyClock'
      PROVE  keys' \in [Keys -> KeyRows] /\ \A k \in Keys : KeySound(k)'
  BY <1>2, <1>4, GrantsFacts DEF KeysInv, KeySound, KeyRows
<1>5. ASSUME NEW a \in Admins, NEW k \in Keys, NEW scopes \in ScopeSets,
             NEW expires \in {Never} \cup 0 .. MaxKeyClock, CreateKey(a, k, scopes, expires)
      PROVE  KeysInv'
  <2>1. UNCHANGED <<admins, keyClock, calls, eventLog, serviceReady>>
    BY <1>5 DEF CreateKey
  <2> QED BY <1>1, <1>2, <1>3, <1>5, <2>1, KeyIsCreated DEF KeysInv
<1>6. ASSUME NEW a \in Admins, NEW k \in Keys, RevokeKey(a, k) PROVE KeysInv'
  <2>1. UNCHANGED <<admins, keyClock, calls, eventLog, serviceReady>>
    BY <1>6 DEF RevokeKey
  <2> QED BY <1>1, <1>2, <1>3, <1>6, <2>1, KeyIsRevoked DEF KeysInv
<1>7. ASSUME NEW a \in Admins, AdminLeaves(a) PROVE KeysInv'
  BY <1>1, <1>2, <1>3, <1>4, <1>7 DEF AdminLeaves, KeysInv
<1>8. ASSUME NEW d \in Calls, NEW k \in Keys, NEW op \in Ops, CallArrives(d, k, op) PROVE KeysInv'
  <2>1. /\ calls[d].at = "idle" /\ UNCHANGED <<keys, admins, keyClock, eventLog, serviceReady>>
        /\ \E at \in {"sent", "refused"} : calls' = [calls EXCEPT ![d] = [at |-> at, key |-> k, op |-> op]]
    BY <1>8 DEF CallArrives
  <2>2. /\ calls' \in [Calls -> CallRecords]
        /\ \A c \in Calls : c # d => calls'[c] = calls[c]
        /\ calls'[d].at \in {"sent", "refused"}
    BY <1>2, <2>1 DEF CallRecords
  <2>3. CallsSound'
    <3>1. ASSUME NEW c \in Calls
          PROVE  /\ calls[c].at # "idle" => calls'[c].op = calls[c].op /\ calls'[c].at # "idle"
                 /\ calls'[c].at \in {"allowed", "served"} => calls[c].at \in {"allowed", "served"}
      BY <2>1, <2>2
    <3> QED BY <1>0, <2>1, <2>2, <3>1, CallsAreKept
  <2> QED BY <1>1, <1>2, <1>4, <2>1, <2>2, <2>3 DEF KeysInv
<1>9. ASSUME NEW d \in Calls, AuthenticateKey(d) PROVE KeysInv'
  <2>1. UNCHANGED <<admins, keyClock, eventLog, serviceReady>>
    BY <1>9 DEF AuthenticateKey
  <2> QED BY <1>0, <1>1, <1>2, <1>9, <2>1, KeyIsUsed DEF KeysInv
<1>10. ASSUME NEW d \in Calls, RecordEvent(d) \/ AnswerRead(d) \/ AnswerEvents(d) \/ BadQuery(d) PROVE KeysInv'
  <2>1. UNCHANGED <<keys, admins, keyClock, serviceReady>>
    BY <1>10 DEF RecordEvent, AnswerRead, AnswerEvents, BadQuery
  <2>2. calls' \in [Calls -> CallRecords] /\ eventLog' \in Seq(Calls) /\ CallsSound'
    <3>1. CASE RecordEvent(d)
      BY <1>0, <3>1, CallsProceed DEF RecordEvent
    <3>2. CASE AnswerRead(d) \/ AnswerEvents(d)
      BY <1>0, <3>2, CallsProceed DEF AnswerRead, AnswerEvents
    <3>3. CASE BadQuery(d)
      BY <1>0, <3>3, CallsProceed DEF BadQuery
    <3> QED BY <1>10, <3>1, <3>2, <3>3
  <2> QED BY <1>1, <1>2, <1>4, <2>1, <2>2 DEF KeysInv
<1>11. CASE KeyClockTicks
  <2>1. /\ UNCHANGED <<keys, admins, calls, eventLog, serviceReady>>
        /\ keyClock' \in 0 .. MaxKeyClock /\ keyClock <= keyClock'
    BY <1>2, <1>11, GrantsFacts DEF KeyClockTicks
  <2> QED BY <1>1, <1>2, <1>3, <1>4, <2>1 DEF KeysInv
<1>12. CASE BecomesReady
  BY <1>1, <1>2, <1>3, <1>4, <1>12 DEF BecomesReady, KeysInv
<1> QED BY <1>0, <1>5, <1>6, <1>7, <1>8, <1>9, <1>10, <1>11, <1>12 DEF KeysStep

LEMMA KeysAreEnough == ASSUME KeysInv PROVE KeysTypeOK /\ KeysGovern
<1> USE GrantsFacts
<1>1. /\ keyClock \in 0 .. MaxKeyClock /\ calls \in [Calls -> CallRecords] /\ keys \in [Keys -> KeyRows]
      /\ \A k \in Keys : KeySound(k)
  BY DEF KeysInv
<1>2. KeysTypeOK
  BY <1>1 DEF KeysInv, KeySound, KeysTypeOK, CallRecords
<1>3. KeysGovern
  BY <1>1 DEF KeysInv, KeySound, CallsSound, KeysGovern
<1> QED BY <1>2, <1>3

-----------------------------------------------------------------------------

\* Reports, deletions, decisions, keys and requests (membership.rs, admin.rs,
\* api_keys.rs, m2m.rs) keep the invariant of the grants: a row of the bot's present
\* generation is younger than its departures, and a key shows no use it may not have.
THEOREM GrantsInvariance == GrantsSpec => []GrantsInv
<1>1. GrantsInit => GrantsInv
  BY MembersStart, KeysStart DEF GrantsInit, GrantsInv
<1>2. ASSUME MembersInv, UNCHANGED membershipVars PROVE MembersInv'
  <2>1. UNCHANGED <<events, applied, groupRow, suppressed, deletions, botRow, memberRow, since, stored, muted, revoked>>
    BY <1>2 DEF membershipVars, memberGroupVars, observations, grantVars
  <2> QED BY <1>2, <2>1, ReportsStay DEF MembersInv, GroupsTyped, RevocationSound
<1>3. ASSUME KeysInv, UNCHANGED keyVars PROVE KeysInv'
  BY <1>3 DEF keyVars, KeysInv, KeySound, CallsSound
<1>4. GrantsInv /\ [GrantsNext]_grantsVars => GrantsInv'
  BY <1>2, <1>3, MembershipSteps, KeysSteps DEF GrantsInv, GrantsNext, grantsVars
<1> QED BY <1>1, <1>4, PTL DEF GrantsSpec

\* Nobody is let in who may not be, for any users, reports, deletions, keys, scopes
\* and requests (membership.rs, api_keys.rs, m2m.rs).
THEOREM GrantsAlwaysGovern == GrantsSpec => []GrantsGovern
<1>1. GrantsInv => GrantsGovern
  BY MembersAreEnough, KeysAreEnough DEF GrantsInv, GrantsGovern
<1> QED BY <1>1, GrantsInvariance, PTL
=============================================================================
