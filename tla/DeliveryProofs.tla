--------------------------- MODULE DeliveryProofs ---------------------------
(***************************************************************************)
(* Proofs about WebhookDelivery, for any number of endpoints, event types, *)
(* triggers, administrators, attempts and changes.                         *)
(*                                                                         *)
(* The tasks are numbered as they are queued, and the pool's one worker    *)
(* takes them from the front of the queue.  So the tasks that are queued   *)
(* are always the last ones, the one at work comes right before them, and  *)
(* all before that are settled; order and completeness follow.             *)
(***************************************************************************)
EXTENDS WebhookDelivery, SequenceTheorems, FiniteSetTheorems, TLAPS

\* What TypeOK says of the endpoints; who updates one holds a copy of it.
EndpointTypes ==
    /\ hooks \in [Hooks -> Endpoint \cup {NoHook, Gone}]
    /\ admin \in [Admins -> Update]
    /\ changes \in [Hooks -> Nat]
    /\ \A a \in Admins :
         admin[a] # NoUpdate => admin[a].hook \in Hooks /\ admin[a].copy \in Endpoint

\* What it says of the worker, of the tasks, and of the rest.
WorkerTypes ==
    /\ worker \in [Workers -> [pc : {"idle", "attempt", "sending"},
                               task : Task \cup {NoTask}, attempt : Nat]]
    /\ \A w \in Workers :
         worker[w].pc # "idle" => /\ worker[w].task \in Task
                                  /\ worker[w].attempt \in 1 .. MaxAttempts

TaskTypes ==
    /\ queue \in Seq(Task)
    /\ submitted \in Seq(Task)
    /\ received \in Seq(Nat)
    /\ delivered \subseteq Nat
    /\ exhausted \subseteq Nat

OtherTypes ==
    /\ pool \in {"open", "draining", "closing", "drained", "closed"}
    /\ waited \in BOOLEAN
    /\ crashed \in BOOLEAN

TrigTypes ==
    /\ trig \in [Triggers -> Trigger]
    /\ steady \in [Triggers -> SUBSET Hooks]

Typed == EndpointTypes /\ WorkerTypes /\ TaskTypes /\ OtherTypes /\ TrigTypes

---------------------------------------------------------------------------

\* How many tasks were taken from the queue, and how many are settled.
Taken == Len(submitted) - Len(queue)

Settled == IF worker[1].pc = "idle" THEN Taken ELSE Taken - 1

\* The queue holds the last tasks.
QueueIsRest ==
    /\ Len(queue) <= Len(submitted)
    /\ \A i \in 1 .. Len(queue) : queue[i].id = Taken + i

\* The worker is at the last task taken, or at none.
WorkerIsNext ==
    /\ worker[1].pc = "idle" => worker[1] = Idle
    /\ worker[1].pc # "idle" => worker[1].task.id = Taken /\ Taken >= 1

\* All tasks before that were answered or given up, and not both.
RestIsSettled ==
    /\ delivered \cup exhausted = 1 .. Settled
    /\ delivered \cap exhausted = {}

\* Receivers got only tasks that were taken, and in order.
ReceivedTaken ==
    /\ \A i \in 1 .. Len(received) : received[i] \in 1 .. Taken
    /\ DeliveredInOrder

\* A pool that was drained is empty.
DrainedIsEmpty == pool = "drained" => queue = <<>> /\ worker[1].pc = "idle"

WorkInv == QueueIsRest /\ WorkerIsNext /\ RestIsSettled /\ ReceivedTaken /\ DrainedIsEmpty

IInv == Typed /\ WorkInv

---------------------------------------------------------------------------
(* Steps of endpoints and triggers that leave the work alone.              *)

LEMMA WorkUnchanged ==
    ASSUME WorkInv, UNCHANGED <<poolVars, historyVars>>
    PROVE  WorkInv'
BY DEF poolVars, historyVars, WorkInv, QueueIsRest, WorkerIsNext, RestIsSettled,
       ReceivedTaken, DrainedIsEmpty, Taken, Settled, DeliveredInOrder

LEMMA TypesUnchanged ==
    ASSUME Typed, UNCHANGED <<poolVars, historyVars>>
    PROVE  WorkerTypes' /\ TaskTypes' /\ pool' = pool
BY DEF poolVars, historyVars, Typed, WorkerTypes, TaskTypes

LEMMA EndpointStepKeeps ==
    ASSUME IInv, EndpointStep
    PROVE  IInv'
<1>1. /\ UNCHANGED <<poolVars, historyVars>>
      /\ UNCHANGED <<trig, endVars>>
  BY DEF EndpointStep, CreateWebhook, UpdateWebhookRead, UpdateWebhookWrite, DeleteWebhook,
         trigVars
<1>2. EndpointTypes
  BY DEF IInv, Typed
<1>3. EndpointTypes'
  <2>1. CASE \E h \in Hooks, secret \in BOOLEAN, events \in Filters :
               CreateWebhook(h, secret, events)
    BY <1>2, <2>1 DEF CreateWebhook, Changed, EndpointTypes, Endpoint
  <2>2. ASSUME NEW a \in Admins, NEW h \in Hooks, NEW opts \in UpdateOpts,
               UpdateWebhookRead(a, h, opts)
        PROVE  EndpointTypes'
    <3>1. hooks[h] \in Endpoint
      BY <1>2, <2>2 DEF UpdateWebhookRead, Exists, EndpointTypes
    <3>2. PICK e \in Endpoint : e = Updated(hooks[h], opts)
      BY <3>1, DeliveryAssumption DEF Updated, Endpoint, UpdateOpt
    <3>3. /\ admin' = [admin EXCEPT ![a] = [hook |-> h, copy |-> e]]
          /\ hooks' = hooks /\ changes' = [changes EXCEPT ![h] = @ + 1]
      BY <2>2, <3>2 DEF UpdateWebhookRead, Changed
    <3>4. [hook |-> h, copy |-> e] \in Update
      BY DEF Update
    <3>5. QED
      BY <1>2, <3>3, <3>4 DEF EndpointTypes
  <2>3. ASSUME NEW a \in Admins, UpdateWebhookWrite(a)
        PROVE  EndpointTypes'
    <3>1. admin[a].hook \in Hooks /\ admin[a].copy \in Endpoint
      BY <1>2, <2>3 DEF UpdateWebhookWrite, EndpointTypes
    <3>2. /\ admin' = [admin EXCEPT ![a] = NoUpdate] /\ changes' = changes
          /\ hooks' = hooks \/ hooks' = [hooks EXCEPT ![admin[a].hook] = admin[a].copy]
      BY <2>3 DEF UpdateWebhookWrite
    <3>3. NoUpdate \in Update
      BY DEF NoUpdate, Update
    <3>4. QED
      BY <1>2, <3>1, <3>2, <3>3 DEF EndpointTypes
  <2>4. CASE \E h \in Hooks : DeleteWebhook(h)
    BY <1>2, <2>4 DEF DeleteWebhook, Changed, EndpointTypes
  <2>5. QED
    BY <2>1, <2>2, <2>3, <2>4 DEF EndpointStep
<1>4. steady' \in [Triggers -> SUBSET Hooks]
  BY DEF EndpointStep, CreateWebhook, UpdateWebhookRead, UpdateWebhookWrite, DeleteWebhook,
         Changed, trigVars, IInv, Typed, TrigTypes
<1>5. QED
  BY <1>1, <1>3, <1>4, WorkUnchanged, TypesUnchanged
     DEF IInv, Typed, TrigTypes, OtherTypes, endVars

LEMMA BeginTriggerKeeps ==
    ASSUME IInv, NEW k \in Triggers, BeginTrigger(k)
    PROVE  IInv'
<1>1. /\ UNCHANGED <<poolVars, historyVars>>
      /\ UNCHANGED <<endpointVars, steady, crashed>>
      /\ trig' = [trig EXCEPT ![k].pc = "list"]
      /\ waited' = (waited /\ k \in Untracked)
  BY DEF BeginTrigger
<1>2. TrigTypes' /\ waited' \in BOOLEAN
  BY <1>1 DEF IInv, Typed, TrigTypes, Trigger
<1>3. QED
  BY <1>1, <1>2, WorkUnchanged, TypesUnchanged
     DEF IInv, Typed, EndpointTypes, OtherTypes, endpointVars

LEMMA ListKeeps ==
    ASSUME IInv, NEW k \in Triggers, List(k)
    PROVE  IInv'
<1>1. /\ UNCHANGED <<poolVars, historyVars>>
      /\ UNCHANGED <<endpointVars, endVars>>
  BY DEF List
<1>2. PICK S \in ListWebhooks :
         trig' = [trig EXCEPT
            ![k].pc = IF S = {} THEN "done" ELSE "deliver",
            ![k].listed = [h \in Hooks |-> IF h \in S THEN hooks[h] ELSE NoHook]]
  BY DEF List
<1>3. S \subseteq {h \in Hooks : Exists(h)}
  BY DEF ListWebhooks
<1>4. [h \in Hooks |-> IF h \in S THEN hooks[h] ELSE NoHook]
        \in [Hooks -> Endpoint \cup {NoHook}]
  BY <1>3 DEF Exists, IInv, Typed, EndpointTypes
<1>5. TrigTypes'
  <2>1. trig' \in [Triggers -> Trigger]
    BY <1>2, <1>4 DEF IInv, Typed, TrigTypes, Trigger
  <2>2. steady' \in [Triggers -> SUBSET Hooks]
    BY DEF List, IInv, Typed, TrigTypes
  <2>3. QED
    BY <2>1, <2>2 DEF TrigTypes
<1>6. QED
  BY <1>1, <1>5, WorkUnchanged, TypesUnchanged
     DEF IInv, Typed, EndpointTypes, OtherTypes, endVars, endpointVars

LEMMA WaitKeeps ==
    ASSUME IInv, Wait
    PROVE  IInv'
<1>1. /\ UNCHANGED <<poolVars, historyVars>>
      /\ UNCHANGED <<endpointVars, trig, steady, crashed>>
      /\ waited' = TRUE
  BY DEF Wait, trigVars
<1>2. QED
  BY <1>1, WorkUnchanged, TypesUnchanged
     DEF IInv, Typed, TrigTypes, EndpointTypes, OtherTypes, endpointVars

---------------------------------------------------------------------------
(* Queueing a task.                                                        *)

LEMMA PassedTypes ==
    ASSUME Typed, NEW k \in Triggers, NEW h \in Hooks, Passed(k, h)
    PROVE  trig' \in [Triggers -> Trigger]
<1> DEFINE rest == [trig[k].listed EXCEPT ![h] = NoHook]
<1>1. /\ trig \in [Triggers -> Trigger]
      /\ rest \in [Hooks -> Endpoint \cup {NoHook}]
  BY DEF Typed, TrigTypes, Trigger
<1>2. trig' = [trig EXCEPT ![k].listed = rest,
                           ![k].pc = IF rest = Nothing THEN "done" ELSE "deliver"]
  BY DEF Passed
<1>3. QED
  BY <1>1, <1>2 DEF Trigger

\* Task t joins the queue.
LEMMA SubmitKeeps ==
    ASSUME IInv, NEW t \in Task, t.id = Len(submitted) + 1, pool = "open",
           queue' = Append(queue, t), submitted' = Append(submitted, t),
           UNCHANGED <<pool, worker, received, delivered, exhausted>>
    PROVE  TaskTypes' /\ WorkInv'
<1>1. queue \in Seq(Task) /\ submitted \in Seq(Task) /\ TaskTypes
  BY DEF IInv, Typed, TaskTypes
<1>2. /\ queue' \in Seq(Task) /\ Len(queue') = Len(queue) + 1
      /\ \A i \in 1 .. Len(queue) : queue'[i] = queue[i]
      /\ queue'[Len(queue) + 1] = t
      /\ submitted' \in Seq(Task) /\ Len(submitted') = Len(submitted) + 1
  BY <1>1, AppendProperties
<1>3. Len(queue) \in Nat /\ Len(submitted) \in Nat /\ Len(queue) <= Len(submitted)
  BY <1>1 DEF IInv, WorkInv, QueueIsRest
<1>4. Taken' = Taken /\ Taken \in Nat /\ Settled' = Settled
  BY <1>2, <1>3 DEF Taken, Settled
<1>5. QueueIsRest'
  <2>1. ASSUME NEW i \in 1 .. Len(queue')
        PROVE  queue'[i].id = Taken + i
    <3>1. CASE i \in 1 .. Len(queue)
      BY <1>2, <3>1 DEF IInv, WorkInv, QueueIsRest
    <3>2. CASE i = Len(queue) + 1
      BY <1>2, <1>3, <3>2 DEF Taken
    <3>3. QED
      BY <1>2, <1>3, <3>1, <3>2
  <2>2. QED
    BY <1>2, <1>3, <1>4, <2>1 DEF QueueIsRest
<1>6. TaskTypes'
  BY <1>1, <1>2 DEF TaskTypes
<1>7. WorkerIsNext' /\ RestIsSettled' /\ ReceivedTaken'
  BY <1>4 DEF IInv, WorkInv, WorkerIsNext, RestIsSettled, ReceivedTaken, DeliveredInOrder
<1>8. DrainedIsEmpty'
  BY DEF DrainedIsEmpty
<1>9. QED
  BY <1>5, <1>6, <1>7, <1>8 DEF WorkInv

LEMMA DeliverKeeps ==
    ASSUME IInv, NEW k \in Triggers, NEW h \in Hooks, Deliver(k, h)
    PROVE  IInv'
<1>1. /\ Passed(k, h) \/ trig' = trig
      /\ UNCHANGED <<endpointVars, steady, pool, worker, received, delivered,
                     exhausted, waited>>
  BY DEF Deliver
<1>2. TrigTypes'
  BY <1>1, PassedTypes DEF IInv, Typed, TrigTypes
<1>3. EndpointTypes' /\ WorkerTypes'
  BY <1>1 DEF IInv, Typed, EndpointTypes, WorkerTypes, endpointVars
<1>4. PICK t \in Task : t = [id |-> Len(submitted) + 1, hook |-> h, by |-> k]
  <2>1. Len(submitted) + 1 \in Nat
    BY LenProperties DEF IInv, Typed, TaskTypes
  <2>2. QED
    BY <2>1 DEF Task
<1>5. CASE /\ pool = "open" /\ crashed' = crashed
           /\ queue' = Append(queue, t) /\ submitted' = Append(submitted, t)
  BY <1>1, <1>2, <1>3, <1>4, <1>5, SubmitKeeps DEF IInv, Typed, OtherTypes
<1>6. CASE UNCHANGED <<queue, submitted>> /\ crashed' \in {crashed, TRUE}
  <2>1. WorkInv'
    BY <1>1, <1>6, WorkUnchanged DEF IInv, poolVars, historyVars
  <2>2. TaskTypes' /\ OtherTypes'
    BY <1>1, <1>6 DEF IInv, Typed, TaskTypes, OtherTypes
  <2>3. QED
    BY <1>2, <1>3, <2>1, <2>2 DEF IInv, Typed
<1>7. QED
  BY <1>4, <1>5, <1>6 DEF Deliver

---------------------------------------------------------------------------
(* The worker.                                                             *)

LEMMA TheWorker == \A w \in Workers : w = 1
BY DEF Workers

LEMMA TakeKeeps ==
    ASSUME IInv, NEW w \in Workers, Take(w)
    PROVE  IInv'
<1>1. w = 1
  BY TheWorker
<1>2. /\ worker[1].pc = "idle" /\ queue # <<>> /\ pool \in {"open", "draining"}
      /\ worker' = [worker EXCEPT ![1] = [pc |-> "attempt", task |-> Head(queue), attempt |-> 1]]
      /\ queue' = Tail(queue)
      /\ UNCHANGED <<endpointVars, trigVars, pool, historyVars, endVars>>
  BY <1>1 DEF Take
<1>3. queue \in Seq(Task) /\ Len(queue) \in Nat \ {0} /\ Len(submitted) \in Nat
  BY <1>2, EmptySeq DEF IInv, Typed, TaskTypes
<1>4. PICK t \in Task, q \in Seq(Task) :
        /\ t = Head(queue) /\ t = queue[1]
        /\ q = Tail(queue)
        /\ Len(q) = Len(queue) - 1
        /\ \A i \in 1 .. Len(q) : q[i] = queue[i + 1]
  BY <1>2, <1>3, HeadTailProperties
<1>5. /\ worker' = [worker EXCEPT ![1] = [pc |-> "attempt", task |-> t, attempt |-> 1]]
      /\ queue' = q
  BY <1>2, <1>4
<1>6. /\ Taken' = Taken + 1 /\ Taken \in Nat
      /\ Len(queue) <= Len(submitted)
  BY <1>2, <1>3, <1>4, <1>5 DEF Taken, historyVars, IInv, WorkInv, QueueIsRest
<1>7. worker'[1].pc = "attempt" /\ worker'[1].task = t
  BY <1>1, <1>5 DEF IInv, Typed, WorkerTypes, Workers
<1>8. Settled' = Settled
  BY <1>2, <1>6, <1>7 DEF Settled
<1>9. Typed'
  <2>1. WorkerTypes'
    <3>1. 1 \in 1 .. MaxAttempts /\ MaxAttempts \in Nat
      BY DeliveryAssumption
    <3>2. PICK r : r = [pc |-> "attempt", task |-> t, attempt |-> 1]
      OBVIOUS
    <3>3. /\ r \in [pc : {"idle", "attempt", "sending"},
                    task : Task \cup {NoTask}, attempt : Nat]
          /\ r.task \in Task /\ r.attempt \in 1 .. MaxAttempts
      BY <1>4, <3>1, <3>2
    <3>4. worker' = [worker EXCEPT ![1] = r]
      BY <1>5, <3>2
    <3>5. QED
      BY <3>3, <3>4 DEF IInv, Typed, WorkerTypes
  <2>2. TaskTypes'
    BY <1>2, <1>5 DEF IInv, Typed, TaskTypes, historyVars
  <2>3. QED
    BY <1>2, <2>1, <2>2 DEF IInv, Typed, TrigTypes, EndpointTypes, OtherTypes,
       endpointVars, trigVars, endVars
<1>10. QueueIsRest'
  <2>1. ASSUME NEW i \in 1 .. Len(q)
        PROVE  q[i].id = Taken + 1 + i
    <3>1. i + 1 \in 1 .. Len(queue) /\ q[i] = queue[i + 1]
      BY <1>3, <1>4
    <3>2. queue[i + 1].id = Taken + (i + 1)
      BY <3>1 DEF IInv, WorkInv, QueueIsRest
    <3>3. QED
      BY <1>6, <3>1, <3>2
  <2>2. Len(q) <= Len(submitted')
    BY <1>2, <1>3, <1>4, <1>6 DEF historyVars
  <2>3. QED
    BY <1>5, <1>6, <2>1, <2>2 DEF QueueIsRest
<1>11. WorkerIsNext'
  <2>1. t.id = Taken + 1
    BY <1>3, <1>4 DEF IInv, WorkInv, QueueIsRest
  <2>2. QED
    BY <1>6, <1>7, <2>1 DEF WorkerIsNext
<1>12. RestIsSettled'
  BY <1>2, <1>8 DEF IInv, WorkInv, RestIsSettled, historyVars
<1>13. ReceivedTaken'
  BY <1>2, <1>6 DEF IInv, WorkInv, ReceivedTaken, DeliveredInOrder, historyVars
<1>14. DrainedIsEmpty'
  BY <1>2 DEF DrainedIsEmpty
<1>15. QED
  BY <1>9, <1>10, <1>11, <1>12, <1>13, <1>14 DEF IInv, WorkInv

\* The worker goes on with its task.
LEMMA GoOnKeeps ==
    ASSUME IInv, worker[1].pc # "idle",
           NEW p \in {"attempt", "sending"}, NEW n \in 1 .. MaxAttempts,
           worker' = [worker EXCEPT ![1] = [pc |-> p, task |-> worker[1].task, attempt |-> n]],
           UNCHANGED <<pool, queue, submitted, delivered, exhausted>>
    PROVE  /\ WorkerTypes'
           /\ QueueIsRest' /\ WorkerIsNext' /\ RestIsSettled' /\ DrainedIsEmpty'
           /\ Taken' = Taken
<1>1. worker[1].task \in Task /\ n \in Nat /\ 1 \in Workers
  BY DeliveryAssumption DEF IInv, Typed, WorkerTypes, Workers
<1>2. worker'[1] = [pc |-> p, task |-> worker[1].task, attempt |-> n]
  BY <1>1 DEF IInv, Typed, WorkerTypes
<1>3. WorkerTypes'
  BY <1>1 DEF IInv, Typed, WorkerTypes
<1>4. Taken' = Taken /\ Settled' = Settled
  BY <1>2 DEF Taken, Settled
<1>5. QueueIsRest' /\ WorkerIsNext' /\ RestIsSettled'
  BY <1>2, <1>4 DEF IInv, WorkInv, QueueIsRest, WorkerIsNext, RestIsSettled
<1>6. DrainedIsEmpty'
  BY DEF IInv, WorkInv, DrainedIsEmpty
<1>7. QED
  BY <1>3, <1>4, <1>5, <1>6

\* The worker is done with its task.
LEMMA SettleKeeps ==
    ASSUME IInv, worker[1].pc # "idle",
           worker' = [worker EXCEPT ![1] = Idle],
           \/ /\ delivered' = delivered \cup {worker[1].task.id}
              /\ exhausted' = exhausted
           \/ /\ exhausted' = exhausted \cup {worker[1].task.id}
              /\ delivered' = delivered,
           UNCHANGED <<pool, queue, submitted>>
    PROVE  /\ WorkerTypes' /\ delivered' \subseteq Nat /\ exhausted' \subseteq Nat
           /\ QueueIsRest' /\ WorkerIsNext' /\ RestIsSettled' /\ DrainedIsEmpty'
           /\ Taken' = Taken
<1>1. 1 \in Workers /\ worker[1].task.id = Taken /\ Taken >= 1 /\ Taken \in Nat
  BY DEF Workers, IInv, WorkInv, WorkerIsNext, Taken, QueueIsRest, Typed, TaskTypes
<1>2. worker'[1] = Idle
  BY <1>1 DEF IInv, Typed, WorkerTypes
<1>3. WorkerTypes'
  BY DEF IInv, Typed, WorkerTypes, Idle
<1>4. Taken' = Taken /\ Settled = Taken - 1 /\ Settled' = Taken
  BY <1>1, <1>2 DEF Taken, Settled, Idle
<1>5. RestIsSettled'
  <2>1. delivered \cup exhausted = 1 .. Taken - 1 /\ delivered \cap exhausted = {}
    BY <1>4 DEF IInv, WorkInv, RestIsSettled
  <2>2. Taken \notin 1 .. Taken - 1 /\ 1 .. Taken = (1 .. Taken - 1) \cup {Taken}
    BY <1>1
  <2>3. QED
    BY <1>1, <1>4, <2>1, <2>2 DEF RestIsSettled
<1>6. QueueIsRest' /\ WorkerIsNext' /\ DrainedIsEmpty'
  BY <1>2, <1>4 DEF IInv, WorkInv, QueueIsRest, WorkerIsNext, DrainedIsEmpty, Idle
<1>7. delivered' \subseteq Nat /\ exhausted' \subseteq Nat
  BY <1>1 DEF IInv, Typed, TaskTypes
<1>8. QED
  BY <1>3, <1>4, <1>5, <1>6, <1>7

\* A failed attempt is repeated or was the last.
LEMMA RetryEffect ==
    ASSUME Typed, Retry(1), worker[1].pc # "idle"
    PROVE  \/ \E n \in 1 .. MaxAttempts :
                /\ worker' = [worker EXCEPT ![1] =
                                [pc |-> "attempt", task |-> worker[1].task, attempt |-> n]]
                /\ exhausted' = exhausted
           \/ /\ worker' = [worker EXCEPT ![1] = Idle]
              /\ exhausted' = exhausted \cup {worker[1].task.id}
<1>1. /\ 1 \in Workers /\ worker[1].attempt \in 1 .. MaxAttempts
      /\ MaxAttempts \in Nat
      /\ worker[1] \in [pc : {"idle", "attempt", "sending"},
                        task : Task \cup {NoTask}, attempt : Nat]
      /\ worker \in [Workers -> [pc : {"idle", "attempt", "sending"},
                        task : Task \cup {NoTask}, attempt : Nat]]
  BY DeliveryAssumption DEF Typed, WorkerTypes, Workers
<1>2. CASE /\ worker[1].attempt < MaxAttempts
           /\ worker' = [worker EXCEPT ![1].pc = "attempt", ![1].attempt = @ + 1]
           /\ exhausted' = exhausted
  <2>1. worker[1].attempt + 1 \in 1 .. MaxAttempts
    BY <1>1, <1>2
  <2>2. worker' = [worker EXCEPT ![1] =
            [pc |-> "attempt", task |-> worker[1].task, attempt |-> worker[1].attempt + 1]]
    BY <1>1, <1>2
  <2>3. QED
    BY <1>2, <2>1, <2>2
<1>3. QED
  BY <1>2 DEF Retry

\* What happens to the worker's task at one of its steps.
LEMMA WorkerKeeps ==
    ASSUME IInv, worker[1].pc # "idle",
           \/ /\ \E p \in {"attempt", "sending"}, n \in 1 .. MaxAttempts :
                   worker' = [worker EXCEPT ![1] =
                                [pc |-> p, task |-> worker[1].task, attempt |-> n]]
              /\ delivered' = delivered /\ exhausted' = exhausted
           \/ /\ worker' = [worker EXCEPT ![1] = Idle]
              /\ \/ /\ delivered' = delivered \cup {worker[1].task.id}
                    /\ exhausted' = exhausted
                 \/ /\ exhausted' = exhausted \cup {worker[1].task.id}
                    /\ delivered' = delivered,
           received' = received \/ received' = Append(received, worker[1].task.id),
           UNCHANGED <<endpointVars, trigVars, pool, queue, submitted, endVars>>
    PROVE  IInv'
<1>1. /\ WorkerTypes' /\ delivered' \subseteq Nat /\ exhausted' \subseteq Nat
      /\ QueueIsRest' /\ WorkerIsNext' /\ RestIsSettled' /\ DrainedIsEmpty'
      /\ Taken' = Taken
  BY GoOnKeeps, SettleKeeps DEF IInv, Typed, TaskTypes
<1>2. worker[1].task.id = Taken /\ Taken \in Nat /\ Taken >= 1
  BY DEF IInv, WorkInv, WorkerIsNext, Taken, QueueIsRest, Typed, TaskTypes
<1>3. received' \in Seq(Nat) /\ ReceivedTaken'
  <2>1. received \in Seq(Nat) /\ ReceivedTaken
    BY DEF IInv, WorkInv, Typed, TaskTypes
  <2>2. CASE received' = received
    BY <1>1, <2>1, <2>2 DEF ReceivedTaken, DeliveredInOrder
  <2>3. CASE received' = Append(received, worker[1].task.id)
    <3>1. /\ received' \in Seq(Nat) /\ Len(received') = Len(received) + 1
          /\ \A i \in 1 .. Len(received) : received'[i] = received[i]
          /\ received'[Len(received) + 1] = Taken
          /\ Len(received) \in Nat
      BY <1>2, <2>1, <2>3, AppendProperties
    <3>2. \A i \in 1 .. Len(received') : received'[i] \in 1 .. Taken
      BY <1>2, <2>1, <3>1 DEF ReceivedTaken
    <3>3. ASSUME NEW i \in 1 .. Len(received'), NEW j \in 1 .. Len(received'), i <= j
          PROVE  received'[i] <= received'[j]
      <4>1. CASE j = Len(received) + 1
        BY <1>2, <3>1, <3>2, <4>1
      <4>2. CASE j \in 1 .. Len(received)
        <5>1. i \in 1 .. Len(received)
          BY <3>1, <3>3, <4>2
        <5>2. received[i] <= received[j]
          BY <2>1, <3>3, <4>2, <5>1 DEF ReceivedTaken, DeliveredInOrder
        <5>3. QED
          BY <3>1, <4>2, <5>1, <5>2
      <4>3. QED
        BY <3>1, <4>1, <4>2
    <3>4. QED
      BY <1>1, <3>1, <3>2, <3>3 DEF ReceivedTaken, DeliveredInOrder
  <2>4. QED
    BY <2>2, <2>3
<1>4. Typed'
  BY <1>1, <1>3 DEF IInv, Typed, TrigTypes, EndpointTypes, TaskTypes, OtherTypes,
     endpointVars, trigVars, endVars
<1>5. QED
  BY <1>1, <1>3, <1>4 DEF IInv, WorkInv

LEMMA AttemptKeeps ==
    ASSUME IInv, NEW w \in Workers, Attempt(w)
    PROVE  IInv'
<1>1. w = 1 /\ Typed
  BY TheWorker DEF IInv
<1>2. /\ worker[1].pc = "attempt"
      /\ \/ worker' = [worker EXCEPT ![1].pc = "sending"] /\ exhausted' = exhausted
         \/ Retry(1)
      /\ UNCHANGED <<endpointVars, trigVars, pool, queue, submitted, received,
                     delivered, endVars>>
  BY <1>1 DEF Attempt
<1>3. CASE worker' = [worker EXCEPT ![1].pc = "sending"] /\ exhausted' = exhausted
  <2>1. /\ 1 \in Workers /\ worker[1].attempt \in 1 .. MaxAttempts
        /\ worker[1] \in [pc : {"idle", "attempt", "sending"},
                          task : Task \cup {NoTask}, attempt : Nat]
        /\ worker \in [Workers -> [pc : {"idle", "attempt", "sending"},
                          task : Task \cup {NoTask}, attempt : Nat]]
    BY <1>1, <1>2 DEF Typed, WorkerTypes, Workers
  <2>2. worker' = [worker EXCEPT ![1] =
            [pc |-> "sending", task |-> worker[1].task, attempt |-> worker[1].attempt]]
    <3>1. worker' = [worker EXCEPT ![1] = [worker[1] EXCEPT !.pc = "sending"]]
      BY <1>3
    <3>2. [worker[1] EXCEPT !.pc = "sending"] =
            [pc |-> "sending", task |-> worker[1].task, attempt |-> worker[1].attempt]
      BY <2>1
    <3>3. QED
      BY <3>1, <3>2
  <2>3. QED
    BY <1>2, <1>3, <2>1, <2>2, WorkerKeeps
<1>4. CASE Retry(1)
  BY <1>1, <1>2, <1>4, RetryEffect, WorkerKeeps
<1>5. QED
  BY <1>2, <1>3, <1>4

LEMMA AnswerKeeps ==
    ASSUME IInv, NEW w \in Workers, Answer(w)
    PROVE  IInv'
<1>1. w = 1 /\ Typed
  BY TheWorker DEF IInv
<1>2. CASE Accepted(1)
  <2>1. /\ worker[1].pc = "sending"
        /\ received' = Append(received, worker[1].task.id)
        /\ delivered' = delivered \cup {worker[1].task.id}
        /\ worker' = [worker EXCEPT ![1] = Idle]
        /\ UNCHANGED <<endpointVars, trigVars, pool, queue, submitted, exhausted, endVars>>
    BY <1>2 DEF Accepted
  <2>2. QED
    BY <2>1, WorkerKeeps
<1>3. CASE Refused(1) \/ Unreachable(1)
  <2>1. /\ worker[1].pc = "sending"
        /\ received' = received \/ received' = Append(received, worker[1].task.id)
        /\ Retry(1)
        /\ UNCHANGED <<endpointVars, trigVars, pool, queue, submitted, delivered, endVars>>
    BY <1>3 DEF Refused, Unreachable
  <2>2. QED
    BY <1>1, <2>1, RetryEffect, WorkerKeeps
<1>4. QED
  BY <1>1, <1>2, <1>3 DEF Answer

---------------------------------------------------------------------------
(* The end.                                                                *)

LEMMA PoolKeeps ==
    ASSUME IInv, Drain \/ Close \/ Stopped
    PROVE  IInv'
<1>1. /\ UNCHANGED <<endpointVars, trigVars, queue, worker, historyVars, endVars>>
      /\ pool' \in {"open", "draining", "closing", "drained", "closed"}
      /\ pool' = "drained" => queue = <<>> /\ worker[1] = Idle
  BY DEF Drain, Close, Stopped, Workers
<1>2. Typed'
  BY <1>1 DEF IInv, Typed, TrigTypes, EndpointTypes, WorkerTypes, TaskTypes, OtherTypes,
              endpointVars, trigVars, historyVars, endVars
<1>3. QueueIsRest' /\ WorkerIsNext' /\ RestIsSettled' /\ ReceivedTaken'
  BY <1>1 DEF IInv, WorkInv, QueueIsRest, WorkerIsNext, RestIsSettled, ReceivedTaken,
              DeliveredInOrder, Taken, Settled, historyVars
<1>4. DrainedIsEmpty'
  BY <1>1 DEF DrainedIsEmpty, Idle
<1>5. QED
  BY <1>2, <1>3, <1>4 DEF IInv, WorkInv

---------------------------------------------------------------------------
(* The inductive invariant.                                                *)

LEMMA InitHolds == Init => IInv
<1> SUFFICES ASSUME Init PROVE IInv
  OBVIOUS
<1>1. EndpointTypes /\ TaskTypes /\ OtherTypes
  <2>1. EndpointTypes
    <3>1. NoUpdate \in Update
      BY DEF NoUpdate, Update
    <3>2. Nothing \in [Hooks -> Endpoint \cup {NoHook, Gone}]
      BY DEF Nothing
    <3>3. QED
      BY <3>1, <3>2 DEF Init, EndpointTypes
  <2>2. TaskTypes
    BY DEF Init, TaskTypes
  <2>3. OtherTypes
    BY DEF Init, OtherTypes
  <2>4. QED
    BY <2>1, <2>2, <2>3
<1>2. WorkerTypes
  BY DEF Init, WorkerTypes, Idle
<1>3. TrigTypes
  <2>1. Nothing \in [Hooks -> Endpoint \cup {NoHook}]
    BY DEF Nothing
  <2>2. QED
    BY <2>1 DEF Init, TrigTypes, Trigger
<1>4. worker[1] = Idle /\ Len(queue) = 0 /\ Len(submitted) = 0 /\ Len(received) = 0
  BY DEF Init, Workers
<1>5. WorkInv
  <2>1. Taken = 0 /\ Settled = 0
    BY <1>4 DEF Taken, Settled, Idle
  <2>2. RestIsSettled
    BY <2>1 DEF Init, RestIsSettled
  <2>3. QueueIsRest /\ WorkerIsNext /\ ReceivedTaken /\ DrainedIsEmpty
    BY <1>4, <2>1 DEF Init, QueueIsRest, WorkerIsNext, ReceivedTaken, DeliveredInOrder,
        DrainedIsEmpty, Idle
  <2>4. QED
    BY <2>2, <2>3 DEF WorkInv
<1>6. QED
  BY <1>1, <1>2, <1>3, <1>5 DEF IInv, Typed

LEMMA NextKeeps == IInv /\ [Next]_vars => IInv'
<1> SUFFICES ASSUME IInv, [Next]_vars PROVE IInv'
  OBVIOUS
<1>1. CASE EndpointStep
  BY <1>1, EndpointStepKeeps
<1>2. CASE \E k \in Triggers : BeginTrigger(k) \/ TriggerStep(k)
  BY <1>2, BeginTriggerKeeps, ListKeeps, DeliverKeeps DEF TriggerStep
<1>3. CASE \E w \in Workers : WorkerStep(w) \/ Answer(w)
  BY <1>3, TakeKeeps, AttemptKeeps, AnswerKeeps DEF WorkerStep
<1>4. CASE Wait \/ Drain \/ Close \/ Stopped
  BY <1>4, WaitKeeps, PoolKeeps
<1>5. CASE UNCHANGED vars
  <2>1. UNCHANGED <<endpointVars, trigVars, poolVars, historyVars, endVars>>
    BY <1>5 DEF vars
  <2>2. QED
    BY <2>1, WorkUnchanged, TypesUnchanged
       DEF IInv, Typed, TrigTypes, EndpointTypes, OtherTypes, endVars, trigVars,
           endpointVars
<1>6. QED
  BY <1>1, <1>2, <1>3, <1>4, <1>5 DEF Next

LEMMA InvHolds == Spec => []IInv
BY InitHolds, NextKeeps, PTL DEF Spec

(* Every variable keeps its type; the worker never tries a task more often *)
(* than MaxAttempts.                                                       *)
THEOREM TypeCorrect == Spec => []TypeOK
<1>1. IInv => TypeOK
  BY DEF IInv, Typed, TrigTypes, EndpointTypes, WorkerTypes, TaskTypes, OtherTypes,
         TypeOK
<1>2. QED
  BY <1>1, InvHolds, PTL

(* Receivers get tasks in the order they were queued, however many         *)
(* triggers queue them and whatever is retried, refused or lost.           *)
THEOREM InOrder == Spec => []DeliveredInOrder
<1>1. IInv => DeliveredInOrder
  BY DEF IInv, WorkInv, ReceivedTaken
<1>2. QED
  BY <1>1, InvHolds, PTL

(* When Drain has returned every task was answered or given up.            *)
THEOREM DrainIsComplete == Spec => []DrainCompletes
<1>1. IInv => DrainCompletes
  <2> SUFFICES ASSUME IInv, pool = "drained", NEW i \in 1 .. Len(submitted)
               PROVE  i \in delivered \cup exhausted
    BY DEF DrainCompletes
  <2>1. queue = <<>> /\ worker[1].pc = "idle"
    BY DEF IInv, WorkInv, DrainedIsEmpty
  <2>2. Settled = Len(submitted) - Len(queue) /\ Len(queue) = 0
    BY <2>1 DEF Settled, Taken
  <2>3. QED
    BY <2>2 DEF IInv, WorkInv, RestIsSettled, Typed, TaskTypes
<1>2. QED
  BY <1>1, InvHolds, PTL

(* A task that was answered with a 2xx status is not sent again.           *)
THEOREM AcknowledgedOnce == Spec => AcknowledgedIsFinal
<1>1. ASSUME IInv, [Next]_vars, received' # received
      PROVE  received'[Len(received')] \notin delivered
  <2>1. PICK w \in Workers : Accepted(w) \/ Refused(w)
    <3>1. CASE EndpointStep \/ Wait \/ Drain \/ Close \/ Stopped
      BY <1>1, <3>1 DEF EndpointStep, CreateWebhook, UpdateWebhookRead,
          UpdateWebhookWrite, DeleteWebhook, Wait, Drain, Close, Stopped, historyVars
    <3>2. CASE \E k \in Triggers : BeginTrigger(k) \/ TriggerStep(k)
      BY <1>1, <3>2 DEF BeginTrigger, TriggerStep, List, Deliver, historyVars
    <3>3. CASE \E w \in Workers : WorkerStep(w) \/ Answer(w)
      BY <1>1, <3>3 DEF WorkerStep, Take, Attempt, Answer, Unreachable, historyVars
    <3>4. CASE UNCHANGED vars
      BY <1>1, <3>4 DEF vars, historyVars
    <3>5. QED
      BY <1>1, <3>1, <3>2, <3>3, <3>4 DEF Next
  <2>2. /\ worker[1].pc = "sending"
        /\ received' = Append(received, worker[1].task.id)
    BY <2>1, TheWorker DEF Accepted, Refused
  <2>3. worker[1].task.id = Taken /\ Taken \in Nat /\ Settled = Taken - 1
    BY <1>1, <2>2 DEF IInv, WorkInv, WorkerIsNext, Taken, Settled, QueueIsRest, Typed,
        TaskTypes
  <2>4. received'[Len(received')] = Taken
    BY <1>1, <2>2, <2>3, AppendProperties DEF IInv, Typed, TaskTypes
  <2>5. Taken \notin 1 .. Taken - 1
    BY <2>3
  <2>6. QED
    BY <1>1, <2>3, <2>4, <2>5 DEF IInv, WorkInv, RestIsSettled
<1>2. IInv /\ [Next]_vars =>
        (received' # received => received'[Len(received')] \notin delivered)
  BY <1>1
<1>3. QED
  BY <1>2, InvHolds, PTL DEF Spec, AcknowledgedIsFinal

(* No task is lost or done twice: each is in exactly one place.            *)
THEOREM NoTaskIsLost == Spec => []TasksAccountedFor
<1>1. ASSUME IInv
      PROVE  TasksAccountedFor
  <2>1. /\ Len(queue) \in Nat /\ Len(submitted) \in Nat /\ Len(queue) <= Len(submitted)
        /\ Taken = Len(submitted) - Len(queue) /\ Taken \in Nat
        /\ Settled \in {Taken, Taken - 1}
    BY <1>1 DEF IInv, WorkInv, QueueIsRest, Typed, TaskTypes, Taken, Settled
  <2>2. /\ \A i \in 1 .. Len(queue) : queue[i].id = Taken + i
        /\ delivered \cup exhausted = 1 .. Settled
        /\ delivered \cap exhausted = {}
    BY <1>1 DEF IInv, WorkInv, QueueIsRest, RestIsSettled
  <2>3. \A w \in Workers, i \in 1 .. Len(submitted) :
          i \in Held(w) <=> Settled = Taken - 1 /\ i = Taken
    <3>1. CASE worker[1].pc = "idle"
      <4>1. worker[1] = Idle /\ Settled = Taken
        BY <1>1, <3>1 DEF IInv, WorkInv, WorkerIsNext, Settled
      <4>2. QED
        BY <2>1, <4>1, TheWorker DEF Held, Idle
    <3>2. CASE worker[1].pc # "idle"
      <4>1. /\ worker[1].task.id = Taken /\ Taken >= 1 /\ Settled = Taken - 1
        BY <1>1, <3>2 DEF IInv, WorkInv, WorkerIsNext, Settled
      <4>2. worker[1].task # NoTask
        BY <4>1 DEF NoTask
      <4>3. QED
        BY <4>1, <4>2, TheWorker DEF Held
    <3>3. QED
      BY <3>1, <3>2
  <2>4. ASSUME NEW i \in 1 .. Len(submitted)
        PROVE  LET places == {<<"queue", j>> : j \in {j \in 1 .. Len(queue) : queue[j].id = i}}
                      \cup {<<"worker", w>> : w \in {w \in Workers : i \in Held(w)}}
                      \cup (IF i \in delivered THEN {<<"delivered", 0>>} ELSE {})
                      \cup (IF i \in exhausted THEN {<<"exhausted", 0>>} ELSE {})
               IN  Cardinality(places) = 1
    <3> DEFINE queued == {j \in 1 .. Len(queue) : queue[j].id = i}
               working == {w \in Workers : i \in Held(w)}
               ends == (IF i \in delivered THEN {<<"delivered", 0>>} ELSE {})
                         \cup (IF i \in exhausted THEN {<<"exhausted", 0>>} ELSE {})
               places == {<<"queue", j>> : j \in queued}
                           \cup {<<"worker", w>> : w \in working} \cup ends
    <3>1. CASE i <= Settled
      <4>1. i \in delivered \cup exhausted /\ ~(i \in delivered /\ i \in exhausted)
        BY <2>1, <2>2, <3>1
      <4>2. queued = {} /\ working = {}
        BY <2>1, <2>2, <2>3, <3>1
      <4>3. PICK e : ends = {e}
        BY <4>1
      <4> HIDE DEF queued, working, ends
      <4>4. places = {e}
        BY <4>2, <4>3
      <4>5. QED
        BY <4>4, FS_Singleton DEF queued, working, ends
    <3>2. CASE Settled < i /\ i <= Taken
      <4>1. i = Taken /\ Settled = Taken - 1
        BY <2>1, <3>2
      <4>2. queued = {} /\ ends = {}
        BY <2>1, <2>2, <4>1
      <4>3. working = {1}
        BY <2>3, <4>1 DEF Workers
      <4> HIDE DEF queued, working, ends
      <4>4. places = {<<"worker", 1>>}
        BY <4>2, <4>3
      <4>5. QED
        BY <4>4, FS_Singleton DEF queued, working, ends
    <3>3. CASE Taken < i
      <4>1. working = {} /\ ends = {}
        BY <2>1, <2>2, <2>3, <3>3
      <4>2. queued = {i - Taken}
        BY <2>1, <2>2, <3>3
      <4> HIDE DEF queued, working, ends
      <4>3. places = {<<"queue", i - Taken>>}
        BY <4>1, <4>2
      <4>4. QED
        BY <4>3, FS_Singleton DEF queued, working, ends
    <3>4. QED
      BY <2>1, <3>1, <3>2, <3>3
  <2>5. delivered \cup exhausted \subseteq 1 .. Len(submitted)
    BY <2>1, <2>2
  <2>6. QED
    BY <2>4, <2>5 DEF TasksAccountedFor
<1>2. QED
  BY <1>1, InvHolds, PTL

---------------------------------------------------------------------------
(* Stopping the pool.                                                      *)

\* From the return of Wait until another one that the wait group counts
\* begins, only goroutines that it does not count submit deliveries.
WaitInv ==
    /\ waited => \A k \in Triggers \ Untracked : trig[k].pc \in {"idle", "done"}
    /\ waited /\ crashed => \E k \in Untracked : trig[k].pc = "deliver"

LEMMA WaitInvKept ==
    ASSUME IInv, WaitInv, [Next]_vars
    PROVE  WaitInv'
<1> USE DEF WaitInv
<1>1. trig \in [Triggers -> Trigger] /\ Untracked \subseteq Triggers
  BY DeliveryAssumption DEF IInv, Typed, TrigTypes
<1>2. CASE EndpointStep
  <2>1. UNCHANGED <<trig, endVars>>
    BY <1>2 DEF EndpointStep, CreateWebhook, UpdateWebhookRead, UpdateWebhookWrite,
        DeleteWebhook, trigVars
  <2>2. QED
    BY <2>1 DEF endVars
<1>3. ASSUME NEW k \in Triggers, BeginTrigger(k)
      PROVE  WaitInv'
  <2>1. /\ ~crashed /\ crashed' = crashed
        /\ waited' = (waited /\ k \in Untracked)
        /\ trig' = [trig EXCEPT ![k].pc = "list"]
    BY <1>3 DEF BeginTrigger, Running
  <2>2. \A j \in Triggers : j # k => trig'[j] = trig[j]
    BY <1>1, <2>1
  <2>3. QED
    BY <2>1, <2>2
<1>4. ASSUME NEW k \in Triggers, List(k)
      PROVE  WaitInv'
  <2>1. /\ ~crashed /\ trig[k].pc = "list" /\ UNCHANGED endVars
        /\ \A j \in Triggers : j # k => trig'[j] = trig[j]
    BY <1>1, <1>4 DEF List, Running
  <2>2. waited => k \in Untracked
    BY <2>1
  <2>3. QED
    BY <2>1, <2>2 DEF endVars
<1>5. ASSUME NEW k \in Triggers, NEW h \in Hooks, Deliver(k, h)
      PROVE  WaitInv'
  <2>1. /\ trig[k].pc = "deliver" /\ waited' = waited /\ ~crashed
        /\ \/ trig' = trig
           \/ Passed(k, h) /\ crashed' = crashed
    BY <1>5 DEF Deliver, Running
  <2>2. waited => k \in Untracked
    BY <2>1
  <2>3. \A j \in Triggers : j # k => trig'[j] = trig[j]
    BY <1>1, <2>1 DEF Passed
  <2>4. QED
    BY <1>1, <2>1, <2>2, <2>3
<1>6. CASE \E w \in Workers : WorkerStep(w) \/ Answer(w)
  <2>1. UNCHANGED <<trig, endVars>>
    BY <1>6 DEF WorkerStep, Take, Attempt, Answer, Accepted, Refused, Unreachable, trigVars
  <2>2. QED
    BY <2>1 DEF endVars
<1>7. CASE Wait
  BY <1>7 DEF Wait, Running, trigVars
<1>8. CASE Drain \/ Close \/ Stopped
  BY <1>8 DEF Drain, Close, Stopped, trigVars, endVars
<1>9. CASE UNCHANGED vars
  BY <1>9 DEF vars, trigVars, endVars
<1>10. QED
  BY <1>2, <1>3, <1>4, <1>5, <1>6, <1>7, <1>8, <1>9 DEF Next, TriggerStep

(* When a delivery is submitted to a stopped pool although Wait returned   *)
(* before it was stopped, and no goroutine that Wait counts began since,   *)
(* it is by a goroutine that the wait group does not count.                *)
THEOREM UntrackedIsToBlame ==
    Spec => [](waited /\ crashed => \E k \in Untracked : trig[k].pc = "deliver")
<1>1. Init => WaitInv
  <2> SUFFICES ASSUME Init PROVE WaitInv
    OBVIOUS
  <2>1. ~waited /\ ~crashed
    BY DEF Init
  <2>2. QED
    BY <2>1 DEF WaitInv
<1>2. IInv /\ WaitInv /\ [Next]_vars => WaitInv'
  BY WaitInvKept
<1>3. WaitInv => (waited /\ crashed => \E k \in Untracked : trig[k].pc = "deliver")
  BY DEF WaitInv
<1>4. QED
  BY <1>1, <1>2, <1>3, InvHolds, PTL DEF Spec

(* If the wait group counted every goroutine that triggers events, waiting *)
(* for them before the pool is stopped would be safe as long as none       *)
(* begins meanwhile; Delivery_drain shows one it does not count.           *)
THEOREM TrackedIsSafe ==
    ASSUME Untracked = {}
    PROVE  Spec => []NoSubmitAfterStop
<1>1. (waited /\ crashed => \E k \in Untracked : trig[k].pc = "deliver")
        => NoSubmitAfterStop
  BY DEF NoSubmitAfterStop
<1>2. QED
  BY <1>1, UntrackedIsToBlame, PTL

---------------------------------------------------------------------------
(* Deleted endpoints.                                                      *)

\* The tasks in the queue and with the worker are the last ones submitted.
TasksAsSubmitted ==
    /\ \A i \in 1 .. Len(queue) : queue[i] = submitted[Taken + i]
    /\ worker[1].pc # "idle" => worker[1].task = submitted[Taken]

LEMMA SubmitAsSubmitted ==
    ASSUME IInv, TasksAsSubmitted, NEW t \in Task, worker' = worker,
           queue' = Append(queue, t), submitted' = Append(submitted, t)
    PROVE  TasksAsSubmitted'
<1>1. /\ queue \in Seq(Task) /\ submitted \in Seq(Task)
      /\ Len(queue) \in Nat /\ Len(submitted) \in Nat /\ Len(queue) <= Len(submitted)
  BY LenProperties DEF IInv, Typed, TaskTypes, WorkInv, QueueIsRest
<1>2. /\ Len(queue') = Len(queue) + 1 /\ Len(submitted') = Len(submitted) + 1
      /\ \A i \in 1 .. Len(queue) : queue'[i] = queue[i]
      /\ \A i \in 1 .. Len(submitted) : submitted'[i] = submitted[i]
      /\ queue'[Len(queue) + 1] = t /\ submitted'[Len(submitted) + 1] = t
  BY <1>1, AppendProperties
<1>3. Taken' = Taken /\ Taken = Len(submitted) - Len(queue) /\ Taken \in Nat
  BY <1>1, <1>2 DEF Taken
<1>4. ASSUME NEW i \in 1 .. Len(queue')
      PROVE  queue'[i] = submitted'[Taken + i]
  <2>1. CASE i \in 1 .. Len(queue)
    <3>1. Taken + i \in 1 .. Len(submitted)
      BY <1>1, <1>3, <2>1
    <3>2. queue[i] = submitted[Taken + i] /\ queue'[i] = queue[i]
      BY <1>2, <2>1 DEF TasksAsSubmitted
    <3>3. submitted'[Taken + i] = submitted[Taken + i]
      BY <1>2, <3>1
    <3>4. QED
      BY <3>2, <3>3
  <2>2. CASE i = Len(queue) + 1
    <3>1. Taken + i = Len(submitted) + 1
      BY <1>1, <1>3, <2>2
    <3>2. queue'[i] = t
      BY <1>2, <2>2
    <3>3. submitted'[Taken + i] = t
      BY <1>2, <3>1
    <3>4. QED
      BY <3>2, <3>3
  <2>3. Len(queue') = Len(queue) + 1
    BY <1>2
  <2>4. i \in 1 .. Len(queue) \/ i = Len(queue) + 1
    BY <1>1, <2>3
  <2>5. QED
    BY <2>1, <2>2, <2>4
<1>5. ASSUME worker[1].pc # "idle"
      PROVE  worker[1].task = submitted'[Taken]
  <2>1. Taken \in 1 .. Len(submitted)
    BY <1>1, <1>3, <1>5 DEF IInv, WorkInv, WorkerIsNext
  <2>2. QED
    BY <1>2, <1>5, <2>1 DEF TasksAsSubmitted
<1>6. QED
  BY <1>3, <1>4, <1>5 DEF TasksAsSubmitted

LEMMA TakeAsSubmitted ==
    ASSUME IInv, TasksAsSubmitted, NEW w \in Workers, Take(w)
    PROVE  TasksAsSubmitted'
<1>1. /\ queue # <<>> /\ queue' = Tail(queue) /\ submitted' = submitted
      /\ worker' = [worker EXCEPT
                      ![1] = [pc |-> "attempt", task |-> Head(queue), attempt |-> 1]]
  BY TheWorker DEF Take, historyVars
<1>2. /\ queue \in Seq(Task) /\ Len(queue) \in Nat \ {0} /\ Len(submitted) \in Nat
      /\ Len(queue) <= Len(submitted)
  BY <1>1, EmptySeq DEF IInv, Typed, TaskTypes, WorkInv, QueueIsRest
<1>3. /\ Head(queue) = queue[1] /\ Len(queue') = Len(queue) - 1
      /\ \A i \in 1 .. Len(queue') : queue'[i] = queue[i + 1]
  BY <1>1, <1>2, HeadTailProperties
<1>4. Taken' = Taken + 1 /\ Taken \in Nat
  BY <1>1, <1>2, <1>3 DEF Taken
<1>5. worker'[1].task = queue[1]
  BY <1>1, <1>3 DEF IInv, Typed, WorkerTypes, Workers
<1>6. queue[1] = submitted[Taken + 1]
  BY <1>2 DEF TasksAsSubmitted
<1>7. ASSUME NEW i \in 1 .. Len(queue')
      PROVE  queue'[i] = submitted[Taken + 1 + i]
  <2>1. i + 1 \in 1 .. Len(queue) /\ Taken + (i + 1) = Taken + 1 + i
    BY <1>2, <1>3, <1>4
  <2>2. QED
    BY <1>3, <2>1 DEF TasksAsSubmitted
<1>8. QED
  BY <1>1, <1>4, <1>5, <1>6, <1>7 DEF TasksAsSubmitted

\* What becomes of the worker when its attempt ends.
LEMMA StillThatTask ==
    ASSUME IInv, NEW w \in Workers, Attempt(w) \/ Answer(w)
    PROVE  /\ w = 1 /\ worker[1].pc # "idle"
           /\ worker'[1].pc # "idle" => worker'[1].task = worker[1].task
           /\ UNCHANGED <<hooks, submitted, queue>>
<1>1. w = 1 /\ Typed
  BY TheWorker DEF IInv
<1>2. /\ worker[1].pc \in {"attempt", "sending"}
      /\ \/ worker' = [worker EXCEPT ![1].pc = "sending"]
         \/ worker' = [worker EXCEPT ![1] = Idle]
         \/ Retry(1)
      /\ UNCHANGED <<hooks, submitted, queue>>
  BY <1>1 DEF Attempt, Answer, Accepted, Refused, Unreachable, endpointVars
<1>3. /\ 1 \in Workers
      /\ worker \in [Workers -> [pc : {"idle", "attempt", "sending"},
                                 task : Task \cup {NoTask}, attempt : Nat]]
  BY <1>1 DEF Typed, WorkerTypes, Workers
<1>4. CASE worker' = [worker EXCEPT ![1].pc = "sending"]
  BY <1>1, <1>2, <1>3, <1>4
<1>5. CASE worker' = [worker EXCEPT ![1] = Idle]
  BY <1>1, <1>2, <1>3, <1>5 DEF Idle
<1>6. CASE Retry(1)
  <2>1. worker[1].pc # "idle"
    BY <1>2
  <2>2. \/ worker'[1] = Idle
        \/ worker'[1].task = worker[1].task
    BY <1>1, <1>3, <1>6, <2>1, RetryEffect
  <2>3. QED
    BY <1>1, <1>2, <2>1, <2>2 DEF Idle
<1>7. QED
  BY <1>2, <1>4, <1>5, <1>6

LEMMA TasksStayAsSubmitted ==
    ASSUME IInv, TasksAsSubmitted, [Next]_vars
    PROVE  TasksAsSubmitted'
<1>1. CASE UNCHANGED <<queue, submitted, worker>>
  BY <1>1 DEF TasksAsSubmitted, Taken
<1>2. CASE \/ EndpointStep \/ Wait \/ Drain \/ Close \/ Stopped
           \/ \E k \in Triggers : BeginTrigger(k) \/ List(k)
           \/ UNCHANGED vars
  <2>1. UNCHANGED <<queue, submitted, worker>>
    BY <1>2 DEF EndpointStep, CreateWebhook, UpdateWebhookRead, UpdateWebhookWrite,
        DeleteWebhook, Wait, Drain, Close, Stopped, BeginTrigger, List, vars, poolVars,
        historyVars
  <2>2. QED
    BY <1>1, <2>1
<1>3. ASSUME NEW k \in Triggers, NEW h \in Hooks, Deliver(k, h)
      PROVE  TasksAsSubmitted'
  <2>1. Len(submitted) + 1 \in Nat
    BY LenProperties DEF IInv, Typed, TaskTypes
  <2>2. PICK t \in Task : t = [id |-> Len(submitted) + 1, hook |-> h, by |-> k]
    BY <2>1 DEF Task
  <2>3. \/ UNCHANGED <<queue, submitted, worker>>
        \/ /\ queue' = Append(queue, t) /\ submitted' = Append(submitted, t)
           /\ worker' = worker
    BY <1>3, <2>2 DEF Deliver
  <2>4. QED
    BY <1>1, <2>3, SubmitAsSubmitted
<1>4. ASSUME NEW w \in Workers, Take(w)
      PROVE  TasksAsSubmitted'
  BY <1>4, TakeAsSubmitted
<1>5. ASSUME NEW w \in Workers, Attempt(w) \/ Answer(w)
      PROVE  TasksAsSubmitted'
  BY <1>5, StillThatTask DEF TasksAsSubmitted, Taken
<1>6. QED
  BY <1>2, <1>3, <1>4, <1>5 DEF Next, TriggerStep, WorkerStep

\* The places at which endpoint h got something, and who is sending to it.
GotAt(h) == {j \in 1 .. Len(received) : submitted[received[j]].hook = h}

SendingBy(h) == {w \in Workers : worker[w].pc = "sending" /\ worker[w].task.hook = h}

LEMMA GotIsFinite ==
    ASSUME IInv, NEW h
    PROVE  IsFiniteSet(GotAt(h)) /\ Got(h) = Cardinality(GotAt(h)) /\ Got(h) \in Nat
<1>1. Len(received) \in Nat
  BY LenProperties DEF IInv, Typed, TaskTypes
<1>2. IsFiniteSet(1 .. Len(received)) /\ GotAt(h) \subseteq 1 .. Len(received)
  BY <1>1, FS_Interval DEF GotAt
<1>3. IsFiniteSet(GotAt(h))
  BY <1>2, FS_Subset
<1>4. Got(h) = Cardinality(GotAt(h))
  BY DEF Got, GotAt
<1>5. QED
  BY <1>3, <1>4, FS_CardinalityType

LEMMA SendingIsOne ==
    ASSUME NEW h
    PROVE  /\ Sending(h) = IF worker[1].pc = "sending" /\ worker[1].task.hook = h
                           THEN 1 ELSE 0
           /\ Sending(h)' = IF worker'[1].pc = "sending" /\ worker'[1].task.hook = h
                            THEN 1 ELSE 0
<1>1. /\ SendingBy(h) = IF worker[1].pc = "sending" /\ worker[1].task.hook = h
                        THEN {1} ELSE {}
      /\ SendingBy(h)' = IF worker'[1].pc = "sending" /\ worker'[1].task.hook = h
                         THEN {1} ELSE {}
  BY DEF SendingBy, Workers
<1>2. Cardinality({1}) = 1
  BY FS_Singleton
<1>3. Cardinality({}) = 0
  BY FS_EmptySet
<1>4. /\ Sending(h) = Cardinality(SendingBy(h))
      /\ Sending(h)' = Cardinality(SendingBy(h)')
  BY DEF Sending, SendingBy
<1>5. QED
  BY <1>1, <1>2, <1>3, <1>4

LEMMA ReceivedIsSubmitted ==
    ASSUME IInv, NEW j \in 1 .. Len(received)
    PROVE  received[j] \in 1 .. Len(submitted)
BY DEF IInv, WorkInv, ReceivedTaken, QueueIsRest, Taken, Typed, TaskTypes

LEMMA DeletedStaysDeleted ==
    ASSUME IInv, [Next]_vars, NEW h \in Hooks, hooks[h] = Gone
    PROVE  hooks'[h] = Gone
<1>1. hooks \in [Hooks -> Endpoint \cup {NoHook, Gone}] /\ NoHook # Gone
  BY DeliveryAssumption DEF IInv, Typed, EndpointTypes
<1>2. CASE EndpointStep
  BY <1>1, <1>2 DEF EndpointStep, CreateWebhook, UpdateWebhookRead, UpdateWebhookWrite,
     DeleteWebhook, Exists
<1>3. CASE ~EndpointStep
  <2>1. hooks' = hooks
    BY <1>3 DEF Next, BeginTrigger, TriggerStep, List, Deliver, WorkerStep, Take, Attempt,
       Answer, Accepted, Refused, Unreachable, Wait, Drain, Close, Stopped, vars,
       endpointVars
  <2>2. QED
    BY <2>1
<1>4. QED
  BY <1>2, <1>3

\* Nothing is received, and no attempt is begun.
LEMMA NothingMore ==
    ASSUME IInv, IInv', NEW h \in Hooks, received' = received,
           \A i \in 1 .. Len(submitted) : submitted'[i] = submitted[i],
           worker'[1] = worker[1] \/ worker'[1].pc # "sending"
    PROVE  Got(h)' + Sending(h)' <= Got(h) + Sending(h)
<1>1. GotAt(h)' = GotAt(h)
  BY ReceivedIsSubmitted DEF GotAt
<1>2. Got(h)' = Got(h) /\ Got(h) \in Nat
  BY <1>1, GotIsFinite DEF Got, GotAt
<1>3. Sending(h)' \in Nat /\ Sending(h) \in Nat /\ Sending(h)' <= Sending(h)
  BY SendingIsOne
<1>4. QED
  BY <1>2, <1>3

\* The receiver gets the task, which was on its way.
LEMMA OneMore ==
    ASSUME IInv, IInv', TasksAsSubmitted, NEW h \in Hooks, worker[1].pc = "sending",
           received' = Append(received, worker[1].task.id), submitted' = submitted,
           worker'[1].pc # "sending"
    PROVE  Got(h)' + Sending(h)' <= Got(h) + Sending(h)
<1>1. /\ received \in Seq(Nat) /\ Len(received) \in Nat
      /\ worker[1].task.id = Taken /\ Taken \in Nat
  BY LenProperties
     DEF IInv, Typed, TaskTypes, WorkInv, WorkerIsNext, QueueIsRest, Taken
<1>2. /\ Len(received') = Len(received) + 1
      /\ \A i \in 1 .. Len(received) : received'[i] = received[i]
      /\ received'[Len(received) + 1] = Taken
  BY <1>1, AppendProperties
<1>3. 1 .. Len(received') = (1 .. Len(received)) \cup {Len(received) + 1}
  BY <1>1, <1>2
<1>4. submitted[Taken] = worker[1].task
  BY DEF TasksAsSubmitted
<1>5. GotAt(h)' = IF worker[1].task.hook = h
                  THEN GotAt(h) \cup {Len(received) + 1} ELSE GotAt(h)
  BY <1>2, <1>3, <1>4 DEF GotAt
<1>6. Len(received) + 1 \notin GotAt(h)
  BY <1>1 DEF GotAt
<1>7. Got(h)' = Cardinality(GotAt(h)')
  BY DEF Got, GotAt
<1>8. Got(h)' = IF worker[1].task.hook = h THEN Got(h) + 1 ELSE Got(h)
  <2>1. IsFiniteSet(GotAt(h)) /\ Got(h) = Cardinality(GotAt(h))
    BY GotIsFinite
  <2>2. CASE worker[1].task.hook = h
    <3>1. Cardinality(GotAt(h) \cup {Len(received) + 1}) = Cardinality(GotAt(h)) + 1
      BY <1>6, <2>1, FS_AddElement
    <3>2. QED
      BY <1>5, <1>7, <2>1, <2>2, <3>1
  <2>3. CASE worker[1].task.hook # h
    BY <1>5, <1>7, <2>1, <2>3
  <2>4. QED
    BY <2>2, <2>3
<1>9. /\ Sending(h) = IF worker[1].task.hook = h THEN 1 ELSE 0
      /\ Sending(h)' = 0 /\ Got(h) \in Nat
  BY SendingIsOne, GotIsFinite
<1>10. QED
  BY <1>8, <1>9

LEMMA DeletedGetsNoMore ==
    ASSUME IInv, IInv', TasksAsSubmitted, [Next]_vars, NEW h \in Hooks, hooks[h] = Gone
    PROVE  Got(h)' + Sending(h)' <= Got(h) + Sending(h)
<1>1. CASE \/ EndpointStep \/ Wait \/ Drain \/ Close \/ Stopped
           \/ \E k \in Triggers : BeginTrigger(k) \/ List(k)
           \/ UNCHANGED vars
  <2>1. UNCHANGED <<received, submitted, worker>>
    BY <1>1 DEF EndpointStep, CreateWebhook, UpdateWebhookRead, UpdateWebhookWrite,
        DeleteWebhook, Wait, Drain, Close, Stopped, BeginTrigger, List, vars, poolVars,
        historyVars
  <2>2. QED
    BY <2>1, NothingMore
<1>2. ASSUME NEW k \in Triggers, NEW g \in Hooks, Deliver(k, g)
      PROVE  Got(h)' + Sending(h)' <= Got(h) + Sending(h)
  <2>1. UNCHANGED <<received, worker>>
    BY <1>2 DEF Deliver
  <2>2. \A i \in 1 .. Len(submitted) : submitted'[i] = submitted[i]
    <3>1. Len(submitted) + 1 \in Nat
      BY LenProperties DEF IInv, Typed, TaskTypes
    <3>2. PICK t \in Task : t = [id |-> Len(submitted) + 1, hook |-> g, by |-> k]
      BY <3>1 DEF Task
    <3>3. submitted' = submitted \/ submitted' = Append(submitted, t)
      BY <1>2, <3>2 DEF Deliver
    <3>4. QED
      BY <3>3, AppendProperties DEF IInv, Typed, TaskTypes
  <2>3. QED
    BY <2>1, <2>2, NothingMore
<1>3. ASSUME NEW w \in Workers, Take(w)
      PROVE  Got(h)' + Sending(h)' <= Got(h) + Sending(h)
  <2>1. UNCHANGED <<received, submitted>>
    BY <1>3 DEF Take, historyVars
  <2>2. worker'[1].pc = "attempt"
    BY <1>3, TheWorker DEF Take, IInv, Typed, WorkerTypes
  <2>3. QED
    BY <2>1, <2>2, NothingMore
<1>4. ASSUME NEW w \in Workers, Attempt(w)
      PROVE  Got(h)' + Sending(h)' <= Got(h) + Sending(h)
  <2>1. /\ UNCHANGED <<received, submitted>> /\ w = 1 /\ worker[1].pc = "attempt"
        /\ worker'[1].pc # "idle" => worker'[1].task = worker[1].task
    BY <1>4, StillThatTask DEF Attempt
  <2>2. CASE worker[1].task.hook = h
    <3>1. Retry(1)
      BY <1>4, <2>1, <2>2 DEF Attempt, Exists
    <3>2. worker'[1].pc # "sending"
      BY <2>1, <3>1, RetryEffect DEF IInv, Typed, WorkerTypes, Workers, Idle
    <3>3. QED
      BY <2>1, <3>2, NothingMore
  <2>3. CASE worker[1].task.hook # h
    <3>1. Sending(h)' = 0 /\ Sending(h) = 0
      BY <2>1, <2>3, SendingIsOne
    <3>2. GotAt(h)' = GotAt(h)
      BY <2>1 DEF GotAt
    <3>3. Got(h)' = Got(h) /\ Got(h) \in Nat
      BY <3>2, GotIsFinite DEF Got, GotAt
    <3>4. QED
      BY <3>1, <3>3
  <2>4. QED
    BY <2>2, <2>3
<1>5. ASSUME NEW w \in Workers, Answer(w)
      PROVE  Got(h)' + Sending(h)' <= Got(h) + Sending(h)
  <2>1. /\ w = 1 /\ submitted' = submitted /\ worker[1].pc = "sending"
        /\ \/ received' = received
           \/ received' = Append(received, worker[1].task.id)
        /\ worker' = [worker EXCEPT ![1] = Idle] \/ Retry(1)
    BY <1>5, TheWorker DEF Answer, Accepted, Refused, Unreachable
  <2>2. worker'[1].pc # "sending"
    BY <2>1, RetryEffect DEF IInv, Typed, WorkerTypes, Workers, Idle
  <2>3. QED
    BY <2>1, <2>2, NothingMore, OneMore
<1>6. QED
  BY <1>1, <1>2, <1>3, <1>4, <1>5 DEF Next, TriggerStep, WorkerStep

(* The receiver of a deleted endpoint gets nothing but what was on its     *)
(* way, and no update in progress brings the endpoint back, however many   *)
(* tasks are queued for it.                                                *)
THEOREM DeletedForGood == Spec => DeletedIsSilent
<1>1. Init => TasksAsSubmitted
  <2> SUFFICES ASSUME Init PROVE TasksAsSubmitted
    OBVIOUS
  <2>1. Len(queue) = 0 /\ worker[1].pc = "idle"
    BY DEF Init, Workers, Idle
  <2>2. QED
    BY <2>1 DEF TasksAsSubmitted
<1>2. IInv /\ TasksAsSubmitted /\ [Next]_vars => TasksAsSubmitted'
  BY TasksStayAsSubmitted
<1>3. IInv /\ IInv' /\ TasksAsSubmitted /\ [Next]_vars =>
        [\A h \in Hooks :
           hooks[h] = Gone => /\ hooks'[h] = Gone
                              /\ Got(h)' + Sending(h)' <= Got(h) + Sending(h)]_vars
  BY DeletedStaysDeleted, DeletedGetsNoMore
<1>4. QED
  BY <1>1, <1>2, <1>3, InvHolds, PTL DEF Spec, DeletedIsSilent

---------------------------------------------------------------------------
(* What a trigger queues.                                                  *)

\* isEventEnabled implements what the entries ask for.
LEMMA EnabledAsAsked ==
    ASSUME NEW e \in Endpoint, NEW type \in Types
    PROVE  IsEventEnabled(e, type) <=> type \in AskedFor(e.events)
<1>1. e.events \in Seq(Patterns)
  BY DeliveryAssumption DEF Endpoint
<1>2. CASE e.events = <<>>
  BY <1>2 DEF IsEventEnabled, AskedFor
<1>3. CASE e.events # <<>>
  <2>1. 1 \in 1 .. Len(e.events) /\ Head(e.events) = e.events[1]
    BY <1>1, <1>3, HeadTailProperties, EmptySeq
  <2>2. CASE e.events[1] = Star
    BY <1>3, <2>1, <2>2 DEF IsEventEnabled, AskedFor
  <2>3. CASE e.events[1] # Star
    <3>1. AskedFor(e.events) = UNION {Contains[e.events[i]] : i \in 1 .. Len(e.events)}
      BY <1>3, <2>1, <2>3 DEF AskedFor
    <3>2. IsEventEnabled(e, type) <=>
            \E i \in 1 .. Len(e.events) : type \in Contains[e.events[i]]
      BY <1>3, <2>3 DEF IsEventEnabled
    <3>3. QED
      BY <3>1, <3>2
  <2>4. QED
    BY <2>2, <2>3
<1>4. QED
  BY <1>2, <1>3

LEMMA SubmittedTypes ==
    ASSUME IInv, NEW i \in 1 .. Len(submitted)
    PROVE  submitted[i].hook \in Hooks /\ submitted[i].by \in Triggers
<1>1. submitted[i] \in Task
  BY ElementOfSeq DEF IInv, Typed, TaskTypes
<1>2. QED
  BY <1>1 DEF Task

\* Endpoint h is to get the event of trigger k.
Subscribed(k, h) ==
    /\ Exists(h)
    /\ hooks[h].status = "enabled"
    /\ trig[k].type \in AskedFor(hooks[h].events)

\* Trigger k is through with endpoint h, or did not list it.
Served(k, h) ==
    \/ trig[k].pc = "done"
    \/ trig[k].pc = "deliver" /\ trig[k].listed[h] = NoHook

\* Nothing is queued in the name of a trigger that has listed no endpoint.
ListedFirst ==
    \A i \in 1 .. Len(submitted) : trig[submitted[i].by].pc \notin {"idle", "list"}

QueuedAsDue(k, h) ==
    IF Served(k, h)
    THEN IF Subscribed(k, h) THEN \E i \in Nat : Queued(k, h) = {i} ELSE Queued(k, h) = {}
    ELSE /\ Queued(k, h) = {}
         /\ Exists(h) /\ trig[k].listed[h] = hooks[h]

\* Endpoint h did not change since trigger k listed it; if the trigger is
\* through with it, it has its task.
WellServed(k, h) ==
    /\ trig[k].pc \in {"deliver", "done"}
    /\ \A a \in Admins : admin[a].hook # h
    /\ QueuedAsDue(k, h)

SteadyServed == \A k \in Triggers : \A h \in steady[k] : WellServed(k, h)

LEMMA QueuedNow ==
    ASSUME IInv, NEW k \in Triggers, NEW h \in Hooks, submitted' = submitted
    PROVE  Queued(k, h)' = Queued(k, h)
BY DEF Queued

LEMMA QueuedNext ==
    ASSUME IInv, NEW t \in Task, submitted' = Append(submitted, t),
           NEW k \in Triggers, NEW h \in Hooks
    PROVE  Queued(k, h)' = IF t.by = k /\ t.hook = h
                           THEN Queued(k, h) \cup {Len(submitted) + 1} ELSE Queued(k, h)
<1>1. /\ Len(submitted') = Len(submitted) + 1 /\ Len(submitted) \in Nat
      /\ \A i \in 1 .. Len(submitted) : submitted'[i] = submitted[i]
      /\ submitted'[Len(submitted) + 1] = t
  BY AppendProperties DEF IInv, Typed, TaskTypes
<1>2. 1 .. Len(submitted') = (1 .. Len(submitted)) \cup {Len(submitted) + 1}
  BY <1>1
<1>3. QED
  BY <1>1, <1>2 DEF Queued

\* A step that changes nothing for trigger k and endpoint h.
LEMMA ServedUntouched ==
    ASSUME IInv, NEW k \in Triggers, NEW h \in Hooks, WellServed(k, h),
           \A a \in Admins : admin'[a].hook # h,
           hooks'[h] = hooks[h], trig'[k] = trig[k], Queued(k, h)' = Queued(k, h)
    PROVE  WellServed(k, h)'
BY DEF WellServed, QueuedAsDue, Served, Subscribed, Exists

LEMMA EndpointServed ==
    ASSUME IInv, SteadyServed, EndpointStep
    PROVE  SteadyServed'
<1>1. UNCHANGED <<submitted, trig>>
  BY DEF EndpointStep, CreateWebhook, UpdateWebhookRead, UpdateWebhookWrite,
         DeleteWebhook, trigVars, historyVars
<1>2. /\ hooks \in [Hooks -> Endpoint \cup {NoHook, Gone}]
      /\ admin \in [Admins -> Update]
      /\ steady \in [Triggers -> SUBSET Hooks]
      /\ NoHook \notin Hooks
  BY DeliveryAssumption DEF IInv, Typed, EndpointTypes, TrigTypes
<1>3. SUFFICES ASSUME NEW k \in Triggers, NEW h \in steady'[k]
               PROVE  WellServed(k, h)'
  BY DEF SteadyServed
<1>4. SUFFICES /\ h \in steady[k] /\ hooks'[h] = hooks[h]
               /\ \A a \in Admins : admin'[a].hook # h
  <2>1. ASSUME h \in steady[k]
        PROVE  h \in Hooks /\ WellServed(k, h) /\ Queued(k, h)' = Queued(k, h)
    BY <1>1, <1>2, <2>1, QueuedNow DEF SteadyServed
  <2>2. QED
    BY <1>1, <2>1, ServedUntouched
<1>5. CASE \E g \in Hooks, secret \in BOOLEAN, events \in Filters :
             CreateWebhook(g, secret, events)
  BY <1>2, <1>3, <1>5 DEF CreateWebhook, Changed, SteadyServed, WellServed
<1>6. ASSUME NEW a \in Admins, NEW g \in Hooks, NEW opts \in UpdateOpts,
             UpdateWebhookRead(a, g, opts)
      PROVE  /\ h \in steady[k] /\ hooks'[h] = hooks[h]
             /\ \A b \in Admins : admin'[b].hook # h
  <2>1. h \in steady[k] /\ h # g /\ hooks' = hooks
    BY <1>3, <1>6 DEF UpdateWebhookRead, Changed
  <2>2. PICK e : admin' = [admin EXCEPT ![a] = [hook |-> g, copy |-> e]]
    BY <1>6 DEF UpdateWebhookRead
  <2>3. \A b \in Admins : admin'[b].hook # h
    BY <1>2, <2>1, <2>2 DEF SteadyServed, WellServed
  <2>4. QED
    BY <2>1, <2>3
<1>7. ASSUME NEW a \in Admins, UpdateWebhookWrite(a)
      PROVE  /\ h \in steady[k] /\ hooks'[h] = hooks[h]
             /\ \A b \in Admins : admin'[b].hook # h
  <2>1. h \in steady[k] /\ h \in Hooks /\ h # NoHook
    BY <1>2, <1>3, <1>7 DEF UpdateWebhookWrite, trigVars
  <2>2. \A b \in Admins : admin[b].hook # h
    BY <2>1 DEF SteadyServed, WellServed
  <2>3. /\ hooks' = hooks \/ hooks' = [hooks EXCEPT ![admin[a].hook] = admin[a].copy]
        /\ admin' = [admin EXCEPT ![a] = NoUpdate]
    BY <1>7 DEF UpdateWebhookWrite
  <2>4. QED
    BY <1>2, <2>1, <2>2, <2>3 DEF NoUpdate
<1>8. CASE \E g \in Hooks : DeleteWebhook(g)
  BY <1>2, <1>3, <1>8 DEF DeleteWebhook, Changed, SteadyServed, WellServed
<1>9. QED
  BY <1>5, <1>6, <1>7, <1>8 DEF EndpointStep

LEMMA ListServed ==
    ASSUME IInv, ListedFirst, IsFiniteSet(Hooks), Cardinality(Hooks) <= ListLimit,
           NEW k \in Triggers, List(k), NEW h \in steady'[k]
    PROVE  WellServed(k, h)'
<1>1. UNCHANGED <<hooks, admin, submitted>> /\ trig[k].pc = "list"
  BY DEF List, endpointVars, historyVars
<1>2. PICK S \in ListWebhooks :
         trig' = [trig EXCEPT
            ![k].pc = IF S = {} THEN "done" ELSE "deliver",
            ![k].listed = [g \in Hooks |-> IF g \in S THEN hooks[g] ELSE NoHook]]
  BY DEF List
<1>3. h \in Hooks /\ \A a \in Admins : admin[a].hook # h
  BY DEF List, IInv, Typed, TrigTypes
<1>4. S = {g \in Hooks : Exists(g)}
  <2> DEFINE all == {g \in Hooks : Exists(g)}
  <2>1. all \subseteq Hooks
    OBVIOUS
  <2>2. IsFiniteSet(all) /\ Cardinality(all) <= Cardinality(Hooks)
    BY <2>1, FS_Subset
  <2>3. Cardinality(all) \in Nat /\ Cardinality(Hooks) \in Nat /\ ListLimit \in Nat
    BY <2>2, FS_CardinalityType, DeliveryAssumption
  <2>4. Cardinality(all) <= ListLimit
    BY <2>2, <2>3
  <2>5. S \subseteq all /\ Cardinality(S) = Cardinality(all)
    BY <2>4 DEF ListWebhooks
  <2> HIDE DEF all
  <2>6. S = all
    BY <2>2, <2>5, FS_Subset
  <2>7. QED
    BY <2>6 DEF all
<1>5. /\ trig'[k].pc = IF S = {} THEN "done" ELSE "deliver"
      /\ trig'[k].type = trig[k].type
      /\ trig'[k].listed[h] = IF h \in S THEN hooks[h] ELSE NoHook
  BY <1>2, <1>3 DEF IInv, Typed, TrigTypes, Trigger
<1>6. Queued(k, h) = {}
  BY <1>1 DEF ListedFirst, Queued
<1>7. Queued(k, h)' = {}
  BY <1>1, <1>3, <1>6, QueuedNow
<1>8. (Exists(h)' <=> Exists(h)) /\ (Exists(h) <=> h \in S)
  BY <1>1, <1>3, <1>4 DEF Exists
<1>9. Served(k, h)' <=> ~Exists(h)
  BY <1>5, <1>8 DEF Served, Exists
<1>10. QueuedAsDue(k, h)'
  <2>1. CASE Exists(h)
    BY <1>1, <1>5, <1>7, <1>8, <1>9, <2>1 DEF QueuedAsDue
  <2>2. CASE ~Exists(h)
    BY <1>7, <1>8, <1>9, <2>2 DEF QueuedAsDue, Subscribed
  <2>3. QED
    BY <2>1, <2>2
<1>11. QED
  BY <1>1, <1>3, <1>5, <1>10 DEF WellServed

\* Another trigger queues its task, or this one serves another endpoint.
LEMMA OtherServed ==
    ASSUME IInv, NEW j \in Triggers, NEW g \in Hooks, Deliver(j, g),
           NEW k \in Triggers, NEW h \in Hooks, j # k \/ g # h
    PROVE  Queued(k, h)' = Queued(k, h)
<1>1. CASE submitted' = submitted
  BY <1>1, QueuedNow
<1>2. CASE submitted' # submitted
  <2>1. PICK t \in Task : submitted' = Append(submitted, t) /\ t.by = j /\ t.hook = g
    <3>1. Len(submitted) + 1 \in Nat
      BY LenProperties DEF IInv, Typed, TaskTypes
    <3>2. QED
      BY <1>2, <3>1 DEF Task, Deliver
  <2>2. QED
    BY <2>1, QueuedNext
<1>3. QED
  BY <1>1, <1>2

\* The trigger serves endpoint g, and h may be the same.
LEMMA DeliverServed ==
    ASSUME IInv, NEW k \in Triggers, NEW g \in Hooks, Deliver(k, g), Passed(k, g),
           NEW h \in Hooks, WellServed(k, h)
    PROVE  WellServed(k, h)'
<1> DEFINE rest == [trig[k].listed EXCEPT ![g] = NoHook]
<1>1. /\ UNCHANGED <<hooks, admin>>
      /\ trig[k].pc = "deliver" /\ trig[k].listed[g] # NoHook
  BY DEF Deliver, endpointVars
<1>2. /\ trig'[k].listed = rest
      /\ trig'[k].pc = IF rest = Nothing THEN "done" ELSE "deliver"
      /\ trig'[k].type = trig[k].type
      /\ trig[k].listed \in [Hooks -> Endpoint \cup {NoHook}]
  BY DEF Passed, IInv, Typed, TrigTypes, Trigger
<1>3. Served(k, h)' <=> (h = g \/ Served(k, h))
  <2>1. rest = Nothing => (h # g => trig[k].listed[h] = NoHook)
    BY <1>2 DEF Nothing
  <2>2. rest[h] = IF h = g THEN NoHook ELSE trig[k].listed[h]
    BY <1>2
  <2> HIDE DEF rest
  <2>3. QED
    BY <1>1, <1>2, <2>1, <2>2 DEF Served
<1>4. (Subscribed(k, h)' <=> Subscribed(k, h)) /\ (Exists(h)' <=> Exists(h))
  BY <1>1, <1>2 DEF Subscribed, Exists
<1>5. QueuedAsDue(k, h)'
  <2>1. CASE h # g
    <3>1. trig'[k].listed[h] = trig[k].listed[h]
      BY <1>2, <2>1
    <3>2. Queued(k, h)' = Queued(k, h)
      BY <2>1, OtherServed
    <3>3. QED
      BY <1>1, <1>3, <1>4, <2>1, <3>1, <3>2 DEF WellServed, QueuedAsDue
  <2>2. CASE h = g
    <3>1. Queued(k, g) = {} /\ Exists(g) /\ trig[k].listed[g] = hooks[g]
      BY <1>1, <2>2 DEF WellServed, QueuedAsDue, Served
    <3>2. hooks[g] \in Endpoint /\ trig[k].type \in Types
      BY <3>1 DEF IInv, Typed, EndpointTypes, Exists, TrigTypes, Trigger
    <3>3. Subscribed(k, g) <=> /\ IsEventEnabled(trig[k].listed[g], trig[k].type)
                               /\ Exists(g) /\ hooks[g].status = "enabled"
                               /\ IsEventEnabled(hooks[g], trig[k].type)
      BY <3>1, <3>2, EnabledAsAsked DEF Subscribed
    <3>4. trig' # trig
      BY <1>1, <1>2
    <3>5. CASE Subscribed(k, g)
      <4>1. Len(submitted) + 1 \in Nat
        BY LenProperties DEF IInv, Typed, TaskTypes
      <4>2. PICK t \in Task : t = [id |-> Len(submitted) + 1, hook |-> g, by |-> k]
        BY <4>1 DEF Task
      <4>3. submitted' = Append(submitted, t) /\ t.by = k /\ t.hook = g
        BY <3>3, <3>4, <3>5, <4>2 DEF Deliver
      <4>4. Queued(k, g)' = {Len(submitted) + 1}
        BY <3>1, <4>3, QueuedNext
      <4>5. QED
        BY <1>3, <1>4, <2>2, <3>5, <4>1, <4>4 DEF QueuedAsDue
    <3>6. CASE ~Subscribed(k, g)
      <4>1. submitted' = submitted
        BY <3>3, <3>6 DEF Deliver
      <4>2. Queued(k, g)' = {}
        BY <3>1, <4>1, QueuedNow
      <4>3. QED
        BY <1>3, <1>4, <2>2, <3>6, <4>2 DEF QueuedAsDue
    <3>7. QED
      BY <3>5, <3>6
  <2>3. QED
    BY <2>1, <2>2
<1>6. trig'[k].pc \in {"deliver", "done"}
  BY <1>2
<1>7. QED
  BY <1>1, <1>5, <1>6 DEF WellServed

LEMMA ServedKept ==
    ASSUME IInv, ListedFirst, SteadyServed, [Next]_vars,
           IsFiniteSet(Hooks), Cardinality(Hooks) <= ListLimit
    PROVE  SteadyServed'
<1>1. /\ trig \in [Triggers -> Trigger]
      /\ steady \in [Triggers -> SUBSET Hooks]
  BY DEF IInv, Typed, TrigTypes
<1>2. CASE EndpointStep
  BY <1>2, EndpointServed
<1>3. ASSUME UNCHANGED <<hooks, admin, submitted>>, NEW k \in Triggers,
             NEW h \in steady[k], trig'[k] = trig[k]
      PROVE  WellServed(k, h)'
  <2>1. h \in Hooks /\ WellServed(k, h)
    BY <1>1 DEF SteadyServed
  <2>2. Queued(k, h)' = Queued(k, h) /\ \A a \in Admins : admin'[a].hook # h
    BY <1>3, <2>1, QueuedNow DEF WellServed
  <2>3. QED
    BY <1>3, <2>1, <2>2, ServedUntouched
<1>4. ASSUME NEW j \in Triggers, BeginTrigger(j)
      PROVE  SteadyServed'
  <2>1. /\ UNCHANGED <<hooks, admin, submitted, steady>> /\ trig[j].pc = "idle"
        /\ \A k \in Triggers : k # j => trig'[k] = trig[k]
    BY <1>1, <1>4 DEF BeginTrigger, endpointVars, historyVars
  <2>2. steady[j] = {}
    BY <2>1 DEF SteadyServed, WellServed
  <2>3. QED
    BY <1>3, <2>1, <2>2 DEF SteadyServed
<1>5. ASSUME NEW j \in Triggers, List(j)
      PROVE  SteadyServed'
  <2>1. /\ UNCHANGED <<hooks, admin, submitted>>
        /\ \A k \in Triggers : k # j => trig'[k] = trig[k] /\ steady'[k] = steady[k]
    BY <1>1, <1>5 DEF List, endpointVars, historyVars
  <2>2. \A k \in Triggers : k # j => \A h \in steady'[k] : WellServed(k, h)'
    BY <1>3, <2>1
  <2>3. \A h \in steady'[j] : WellServed(j, h)'
    BY <1>5, ListServed
  <2>4. QED
    BY <2>2, <2>3 DEF SteadyServed
<1>6. ASSUME NEW j \in Triggers, NEW g \in Hooks, Deliver(j, g)
      PROVE  SteadyServed'
  <2>1. /\ UNCHANGED <<hooks, admin, steady>>
        /\ \/ trig' = trig /\ submitted' = submitted
           \/ Passed(j, g)
    BY <1>6 DEF Deliver, endpointVars
  <2>2. CASE trig' = trig /\ submitted' = submitted
    BY <1>3, <2>1, <2>2 DEF SteadyServed
  <2>3. CASE Passed(j, g)
    <3>1. ASSUME NEW k \in Triggers, NEW h \in steady[k]
          PROVE  WellServed(k, h)'
      <4>1. h \in Hooks /\ WellServed(k, h)
        BY <1>1 DEF SteadyServed
      <4>2. CASE k = j
        BY <1>6, <2>3, <4>1, <4>2, DeliverServed
      <4>3. CASE k # j
        <5>1. trig'[k] = trig[k]
          BY <1>1, <2>3, <4>3 DEF Passed
        <5>2. Queued(k, h)' = Queued(k, h) /\ \A a \in Admins : admin'[a].hook # h
          BY <1>6, <2>1, <4>1, <4>3, OtherServed DEF WellServed
        <5>3. QED
          BY <2>1, <4>1, <5>1, <5>2, ServedUntouched
      <4>4. QED
        BY <4>2, <4>3
    <3>2. QED
      BY <2>1, <3>1 DEF SteadyServed
  <2>4. QED
    BY <2>1, <2>2, <2>3
<1>7. CASE \/ \E w \in Workers : WorkerStep(w) \/ Answer(w)
           \/ Wait \/ Drain \/ Close \/ Stopped
           \/ UNCHANGED vars
  <2>1. UNCHANGED <<hooks, admin, submitted, trig, steady>>
    BY <1>7 DEF WorkerStep, Take, Attempt, Answer, Accepted, Refused, Unreachable,
        Wait, Drain, Close, Stopped, vars, endpointVars, trigVars, historyVars
  <2>2. QED
    BY <1>3, <2>1 DEF SteadyServed
<1>8. QED
  BY <1>2, <1>4, <1>5, <1>6, <1>7 DEF Next, TriggerStep

LEMMA ListedFirstKept ==
    ASSUME IInv, ListedFirst, [Next]_vars
    PROVE  ListedFirst'
<1>1. /\ trig \in [Triggers -> Trigger]
      /\ \A i \in 1 .. Len(submitted) : submitted[i].by \in Triggers
  BY SubmittedTypes DEF IInv, Typed, TrigTypes
<1>2. CASE EndpointStep
  <2>1. UNCHANGED <<trig, submitted>>
    BY <1>2 DEF EndpointStep, CreateWebhook, UpdateWebhookRead, UpdateWebhookWrite,
        DeleteWebhook, trigVars, historyVars
  <2>2. QED
    BY <2>1 DEF ListedFirst
<1>3. ASSUME NEW k \in Triggers, BeginTrigger(k) \/ List(k)
      PROVE  ListedFirst'
  <2>1. submitted' = submitted /\ trig[k].pc \in {"idle", "list"}
    BY <1>3 DEF BeginTrigger, List, historyVars
  <2>2. \A j \in Triggers : j # k => trig'[j] = trig[j]
    BY <1>1, <1>3 DEF BeginTrigger, List
  <2>3. QED
    BY <1>1, <2>1, <2>2 DEF ListedFirst
<1>4. ASSUME NEW k \in Triggers, NEW h \in Hooks, Deliver(k, h)
      PROVE  ListedFirst'
  <2>1. /\ trig'[k].pc \in {"deliver", "done"}
        /\ \A j \in Triggers : j # k => trig'[j] = trig[j]
    <3>1. trig[k].pc = "deliver" /\ (trig' = trig \/ Passed(k, h))
      BY <1>4 DEF Deliver
    <3>2. QED
      BY <1>1, <3>1 DEF Passed, Trigger
  <2>2. CASE submitted' = submitted
    BY <1>1, <2>1, <2>2 DEF ListedFirst
  <2>3. CASE submitted' # submitted
    <3>1. PICK t \in Task : submitted' = Append(submitted, t) /\ t.by = k
      <4>1. Len(submitted) + 1 \in Nat
        BY LenProperties DEF IInv, Typed, TaskTypes
      <4>2. QED
        BY <1>4, <2>3, <4>1 DEF Task, Deliver
    <3>2. /\ Len(submitted') = Len(submitted) + 1 /\ Len(submitted) \in Nat
          /\ \A i \in 1 .. Len(submitted) : submitted'[i] = submitted[i]
          /\ submitted'[Len(submitted) + 1] = t
      BY <3>1, AppendProperties DEF IInv, Typed, TaskTypes
    <3>3. ASSUME NEW i \in 1 .. Len(submitted')
          PROVE  trig'[submitted'[i].by].pc \notin {"idle", "list"}
      <4>1. CASE i = Len(submitted) + 1
        BY <2>1, <3>1, <3>2, <4>1
      <4>2. CASE i \in 1 .. Len(submitted)
        BY <1>1, <2>1, <3>2, <4>2 DEF ListedFirst
      <4>3. QED
        BY <3>2, <4>1, <4>2
    <3>4. QED
      BY <3>3 DEF ListedFirst
  <2>4. QED
    BY <2>2, <2>3
<1>5. CASE \/ \E w \in Workers : WorkerStep(w) \/ Answer(w)
           \/ Wait \/ Drain \/ Close \/ Stopped
           \/ UNCHANGED vars
  <2>1. UNCHANGED <<submitted, trig>>
    BY <1>5 DEF WorkerStep, Take, Attempt, Answer, Accepted, Refused, Unreachable,
        Wait, Drain, Close, Stopped, vars, trigVars, historyVars
  <2>2. QED
    BY <2>1 DEF ListedFirst
<1>6. QED
  BY <1>2, <1>3, <1>4, <1>5 DEF Next, TriggerStep

(* A trigger queues one task for a subscribed endpoint and none for any    *)
(* other that nobody changed since the trigger listed it, if a trigger can *)
(* list all endpoints; other endpoints may be created, changed or deleted  *)
(* meanwhile, and the pool be stopped.                                     *)
THEOREM OnceEach ==
    ASSUME IsFiniteSet(Hooks), Cardinality(Hooks) <= ListLimit
    PROVE  Spec => []EachSubscriberOnce
<1>1. Init => ListedFirst /\ SteadyServed
  <2> SUFFICES ASSUME Init PROVE ListedFirst /\ SteadyServed
    OBVIOUS
  <2>1. Len(submitted) = 0 /\ \A k \in Triggers : steady[k] = {}
    BY DEF Init
  <2>2. QED
    BY <2>1 DEF ListedFirst, SteadyServed
<1>2. IInv /\ ListedFirst /\ SteadyServed /\ [Next]_vars => ListedFirst' /\ SteadyServed'
  BY ListedFirstKept, ServedKept
<1>3. SteadyServed => EachSubscriberOnce
  <2> SUFFICES ASSUME SteadyServed, NEW k \in Triggers, NEW h \in steady[k],
                      trig[k].pc = "done"
               PROVE  Cardinality(Queued(k, h)) = IF Subscribed(k, h) THEN 1 ELSE 0
    BY DEF EachSubscriberOnce, Subscribed
  <2>1. IF Subscribed(k, h) THEN \E i \in Nat : Queued(k, h) = {i} ELSE Queued(k, h) = {}
    BY DEF SteadyServed, WellServed, QueuedAsDue, Served
  <2>2. QED
    BY <2>1, FS_EmptySet, FS_Singleton
<1>4. QED
  BY <1>1, <1>2, <1>3, InvHolds, PTL DEF Spec
=============================================================================
