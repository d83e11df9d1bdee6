------------------------ MODULE EventSequenceProofs ------------------------
(***************************************************************************)
(* The order of event stamps, for any number of goroutines and events.     *)
(***************************************************************************)
EXTENDS EventSequence, TLAPS

\* A stamp is its number plus its second; both are in the past.
StampsArePast ==
    \A n \in 1..Len(events) :
        /\ events[n].created = events[n].clock + events[n].seq
        /\ events[n].clock <= now
        /\ events[n].seq <= eventSequence

\* Who holds a number holds a larger one than all events that were stamped
\* when it was taken.
NumbersGrow ==
    \A g \in Goroutines :
        /\ before[g] <= Len(events)
        /\ seq[g] # 0 =>
             \A m \in 1..Len(events) : m <= before[g] => events[m].seq < seq[g]

\* An event knows only of events that were stamped before it.
OthersBefore == \A n \in 1..Len(events) : events[n].before < n

SortedInv == TypeOK /\ StampsArePast /\ NumbersGrow /\ OthersBefore /\ SortedByTime

LEMMA EventTypes ==
    ASSUME TypeOK
    PROVE  /\ eventSequence \in Nat /\ now \in Nat /\ Len(events) \in Nat
           /\ \A g \in Goroutines : seq[g] \in Nat /\ before[g] \in Nat
           /\ \A g \in Goroutines : seq[g] <= eventSequence
           /\ \A n \in 1..Len(events) :
                /\ events[n].created \in Nat /\ events[n].seq \in Nat
                /\ events[n].clock \in Nat /\ events[n].before \in Nat
<1>1. \A n \in 1..Len(events) : events[n] \in Stamped
  BY DEF TypeOK
<1> QED BY <1>1 DEF TypeOK, Stamped

LEMMA SortedInit == Init => SortedInv
  BY DEF Init, SortedInv, TypeOK, StampsArePast, NumbersGrow, OthersBefore, SortedByTime

LEMMA SortedTick ==
    ASSUME SortedInv, Tick PROVE SortedInv'
<1> USE DEF SortedInv, Tick
<1>1. TypeOK'
  BY DEF TypeOK
<1>2. StampsArePast'
  BY EventTypes DEF StampsArePast
<1>3. NumbersGrow' /\ OthersBefore' /\ SortedByTime'
  BY DEF NumbersGrow, OthersBefore, SortedByTime
<1> QED BY <1>1, <1>2, <1>3

LEMMA SortedTake ==
    ASSUME NEW g \in Goroutines, SortedInv, Take(g) PROVE SortedInv'
<1> USE DEF SortedInv, Take
<1>1. TypeOK'
  BY DEF TypeOK
<1>2. StampsArePast'
  BY EventTypes DEF StampsArePast
<1>3. NumbersGrow'
  <2> SUFFICES ASSUME NEW h \in Goroutines
               PROVE  /\ before'[h] <= Len(events)
                      /\ seq'[h] # 0 => \A m \in 1..Len(events) :
                           m <= before'[h] => events[m].seq < seq'[h]
    BY DEF NumbersGrow
  <2>1. CASE h = g
    BY <2>1, EventTypes DEF StampsArePast, TypeOK
  <2>2. CASE h # g
    BY <2>2 DEF NumbersGrow, TypeOK
  <2> QED BY <2>1, <2>2
<1>4. OthersBefore' /\ SortedByTime'
  BY DEF OthersBefore, SortedByTime
<1> QED BY <1>1, <1>2, <1>3, <1>4

LEMMA SortedStamp ==
    ASSUME NEW g \in Goroutines, SortedInv, Stamp(g) PROVE SortedInv'
<1> DEFINE e == [created |-> Created(g), seq |-> seq[g], clock |-> now,
                 before |-> before[g]]
<1> USE DEF SortedInv
<1>1. e \in Stamped /\ events \in Seq(Stamped)
  BY DEF Stamp, TypeOK, Stamped, Created
<1>2. /\ Len(events') = Len(events) + 1
      /\ \A n \in 1..Len(events) : events'[n] = events[n]
      /\ events'[Len(events) + 1] = e
      /\ events' \in Seq(Stamped)
      /\ Len(events) \in Nat
  BY <1>1 DEF Stamp
<1>3. TypeOK'
  BY <1>2 DEF Stamp, TypeOK
<1>4. e.created = e.clock + e.seq /\ e.clock = now /\ e.seq <= eventSequence
  BY DEF Created, TypeOK
<1>5. StampsArePast'
  BY <1>2, <1>4 DEF Stamp, StampsArePast, TypeOK
<1>6. NumbersGrow'
  BY <1>2 DEF Stamp, NumbersGrow, TypeOK
<1>7. \A m \in 1..Len(events) : m <= e.before => events[m].created < e.created
  <2> SUFFICES ASSUME NEW m \in 1..Len(events), m <= before[g]
               PROVE  events[m].created < now + seq[g]
    BY DEF Created
  <2>1. events[m].seq < seq[g]
    BY DEF Stamp, NumbersGrow
  <2>2. events[m].clock <= now /\ events[m].created = events[m].clock + events[m].seq
    BY DEF StampsArePast
  <2> QED BY <2>1, <2>2, EventTypes
<1>8. e.before <= Len(events)
  BY DEF NumbersGrow
<1>9. SortedByTime'
  <2> SUFFICES ASSUME NEW n \in 1..Len(events'), NEW m \in 1..Len(events'),
                      m <= events'[n].before
               PROVE  events'[m].created < events'[n].created
    BY DEF SortedByTime
  <2>1. CASE n = Len(events) + 1
    <3>1. m \in 1..Len(events)
      BY <1>2, <1>8, <2>1, EventTypes
    <3> QED BY <1>2, <1>7, <2>1, <3>1
  <2>2. CASE n \in 1..Len(events)
    <3>1. events[n].before <= Len(events)
      BY <2>2, EventTypes DEF OthersBefore
    <3>2. m \in 1..Len(events)
      BY <1>2, <2>2, <3>1, EventTypes
    <3> QED BY <1>2, <2>2, <3>2 DEF SortedByTime
  <2> QED BY <1>2, <2>1, <2>2
<1>10. OthersBefore'
  BY <1>2, <1>8, EventTypes DEF OthersBefore
<1> QED BY <1>3, <1>5, <1>6, <1>9, <1>10

LEMMA SortedAlways == Spec => []SortedInv
<1>1. SortedInv /\ [Next]_vars => SortedInv'
  <2> SUFFICES ASSUME SortedInv, [Next]_vars PROVE SortedInv'
    OBVIOUS
  <2>1. CASE UNCHANGED vars
    BY <2>1 DEF vars, SortedInv, TypeOK, StampsArePast, NumbersGrow, OthersBefore, SortedByTime
  <2>2. CASE Next
    BY <2>2, SortedTick, SortedTake, SortedStamp DEF Next
  <2> QED BY <2>1, <2>2
<1> QED BY <1>1, SortedInit, PTL DEF Spec

\* In every execution the counter never falls behind the numbers in use.
THEOREM TypeCorrect == Spec => []TypeOK
<1>1. SortedInv => TypeOK
  BY DEF SortedInv
<1> QED BY <1>1, SortedAlways, PTL

\* In every execution, whatever the goroutines do between taking a number and
\* reading the clock, events that do not overlap sort in the order they were
\* made.
THEOREM Sorted == Spec => []SortedByTime
<1>1. SortedInv => SortedByTime
  BY DEF SortedInv
<1> QED BY <1>1, SortedAlways, PTL

---------------------------------------------------------------------------
(* One event at a time.                                                    *)

\* No goroutine takes a number while another one has yet to read the clock.
OneByOne == \A g, h \in Goroutines : seq[g] # 0 /\ seq[h] # 0 => g = h

\* Then every event knows of all that are before it.
AllBefore ==
    /\ \A g \in Goroutines : seq[g] # 0 => before[g] = Len(events)
    /\ \A n \in 1..Len(events) : events[n].before = n - 1

LEMMA AllBeforeKept ==
    ASSUME SortedInv, OneByOne, AllBefore, [Next]_vars
    PROVE  AllBefore'
<1>1. TypeOK /\ events \in Seq(Stamped) /\ Len(events) \in Nat
  BY DEF SortedInv, TypeOK
<1>2. CASE Tick \/ UNCHANGED vars
  BY <1>2 DEF Tick, vars, AllBefore
<1>3. ASSUME NEW g \in Goroutines, Take(g)
      PROVE  AllBefore'
  BY <1>1, <1>3 DEF Take, TypeOK, AllBefore
<1>4. ASSUME NEW g \in Goroutines, Stamp(g)
      PROVE  AllBefore'
  <2>1. PICK e \in Stamped : events' = Append(events, e) /\ e.before = before[g]
    <3> DEFINE new == [created |-> Created(g), seq |-> seq[g], clock |-> now,
                       before |-> before[g]]
    <3>1. new \in Stamped /\ new.before = before[g]
      BY <1>1 DEF TypeOK, Stamped, Created
    <3>2. events' = Append(events, new)
      BY <1>4 DEF Stamp
    <3> HIDE DEF new
    <3> QED BY <3>1, <3>2
  <2>2. /\ Len(events') = Len(events) + 1
        /\ \A n \in 1..Len(events) : events'[n] = events[n]
        /\ events'[Len(events) + 1] = e
    BY <1>1, <2>1
  <2>3. before[g] = Len(events) /\ \A h \in Goroutines : seq'[h] = 0
    BY <1>1, <1>4 DEF Stamp, TypeOK, AllBefore, OneByOne
  <2>4. ASSUME NEW n \in 1..Len(events')
        PROVE  events'[n].before = n - 1
    <3>1. CASE n = Len(events) + 1
      BY <1>1, <2>1, <2>2, <2>3, <3>1
    <3>2. CASE n \in 1..Len(events)
      BY <2>2, <3>2 DEF AllBefore
    <3> QED BY <1>1, <2>2, <3>1, <3>2
  <2> QED BY <2>3, <2>4 DEF AllBefore
<1> QED BY <1>2, <1>3, <1>4 DEF Next

\* Events that are made one at a time have different stamps, however many
\* goroutines make them and whatever the clock does.  Sequence_unique shows
\* that two that overlap may have the same.
THEOREM OneByOneUnique == Spec /\ []OneByOne => []Unique
<1>1. Init => AllBefore
  BY DEF Init, AllBefore
<1>2. SortedInv /\ OneByOne /\ AllBefore /\ [Next]_vars => AllBefore'
  BY AllBeforeKept
<1>3. SortedInv /\ AllBefore => Unique
  <2> SUFFICES ASSUME SortedInv, AllBefore,
                      NEW m \in 1..Len(events), NEW n \in 1..Len(events), m # n
               PROVE  events[m].created # events[n].created
    BY DEF Unique
  <2>1. events[m].created \in Nat /\ events[n].created \in Nat /\ Len(events) \in Nat
    BY EventTypes DEF SortedInv
  <2>2. events[m].before = m - 1 /\ events[n].before = n - 1
    BY DEF AllBefore
  <2>3. m < n => events[m].created < events[n].created
    BY <2>1, <2>2 DEF SortedInv, SortedByTime
  <2>4. n < m => events[n].created < events[m].created
    BY <2>1, <2>2 DEF SortedInv, SortedByTime
  <2> QED BY <2>1, <2>3, <2>4
<1> QED BY <1>1, <1>2, <1>3, SortedAlways, PTL DEF Spec
=============================================================================
