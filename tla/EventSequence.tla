--------------------------- MODULE EventSequence ---------------------------
(***************************************************************************)
(* The time stamps of events (buildWebhookEvent,                           *)
(* pkg/server/webhook_service.go).                                         *)
(*                                                                         *)
(* An event is stamped with the clock's seconds plus a sequence number,    *)
(* and its id is made of that stamp.  A goroutine takes the number from    *)
(* one atomic counter and then reads the clock, and others may do both in  *)
(* between.                                                                *)
(***************************************************************************)
EXTENDS Naturals, Sequences

CONSTANTS Goroutines,
          MaxEvents, MaxTime   \* bounds

VARIABLES
    eventSequence,  \* the counter
    now,            \* the clock, in seconds; it is never set back
    seq,            \* the number each goroutine took, or 0
    before,         \* how many events were stamped when it took it
    events          \* the events stamped, in the order they were

vars == <<eventSequence, now, seq, before, events>>

Init == /\ eventSequence = 0
        /\ now = 0
        /\ seq = [g \in Goroutines |-> 0]
        /\ before = [g \in Goroutines |-> 0]
        /\ events = <<>>

Tick ==
    /\ now < MaxTime
    /\ now' = now + 1
    /\ UNCHANGED <<eventSequence, seq, before, events>>

\* seq := eventSequence.Add(1)
Take(g) ==
    /\ seq[g] = 0 /\ eventSequence < MaxEvents
    /\ eventSequence' = eventSequence + 1
    /\ seq' = [seq EXCEPT ![g] = eventSequence + 1]
    /\ before' = [before EXCEPT ![g] = Len(events)]
    /\ UNCHANGED <<now, events>>

\* Faulty: the stamp is the clock alone.
ClockOnly(g) == now

Created(g) == now + seq[g]

\* created := time.Now().Unix() + seq
Stamp(g) ==
    /\ seq[g] # 0
    /\ events' = Append(events, [created |-> Created(g), seq |-> seq[g],
                                 clock |-> now, before |-> before[g]])
    /\ seq' = [seq EXCEPT ![g] = 0]
    /\ UNCHANGED <<eventSequence, now, before>>

Next == Tick \/ \E g \in Goroutines : Take(g) \/ Stamp(g)

Spec == Init /\ [][Next]_vars

---------------------------------------------------------------------------

Stamped == [created : Nat, seq : Nat, clock : Nat, before : Nat]

\* Every variable has its type, and no one holds a number that was not given
\* out.
TypeOK ==
    /\ eventSequence \in Nat
    /\ now \in Nat
    /\ seq \in [Goroutines -> 0..eventSequence]
    /\ before \in [Goroutines -> Nat]
    /\ events \in Seq(Stamped)

(* An event that was stamped before another one was begun has the smaller  *)
(* stamp, whoever made them: in particular the events that one goroutine   *)
(* triggers one after the other sort in that order.                        *)
SortedByTime ==
    \A n \in 1..Len(events) : \A m \in 1..Len(events) :
        m <= events[n].before => events[m].created < events[n].created

(* No two events have the same stamp, and so the same id.                  *)
Unique ==
    \A m \in 1..Len(events) : \A n \in 1..Len(events) :
        m # n => events[m].created # events[n].created
=============================================================================
