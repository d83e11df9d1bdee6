------------------------- MODULE WebhookDelivery -------------------------
(***************************************************************************)
(* Webhook endpoints and the delivery of events to them                    *)
(* (pkg/server/webhook_service.go and triggerWebhookEvent of server.go).   *)
(*                                                                         *)
(* A trigger is one call of triggerWebhookEvent by a goroutine: it lists   *)
(* the endpoints, builds its event and queues one task per endpoint that   *)
(* wants it.  A pool of one worker takes the tasks in the order they were  *)
(* queued and tries each until the receiver answers with a 2xx status or   *)
(* the attempts are used up.  Receivers are external: they answer, refuse, *)
(* are unreachable, or their answer is lost on the way back.               *)
(*                                                                         *)
(* Tasks are numbered as they are queued.                                  *)
(***************************************************************************)
EXTENDS Naturals, Sequences, FiniteSets

CONSTANTS
    Hooks,        \* the ids endpoints may get
    Types,        \* event types
    Patterns,     \* what an endpoint may ask for: parts of type names,
    Star,         \*   "*" among them
    Contains,     \* by pattern, the types whose name it is a part of
    Filters,      \* the enabled_events endpoints have
    UpdateOpts,   \* what callers of UpdateWebhook ask for
    Keep,         \* a list of events that a caller leaves out
    Triggers,     \* the calls of triggerWebhookEvent
    Untracked,    \* those made by goroutines the wait group does not count
    Admins,       \* callers of UpdateWebhook
    NoHook,       \* no endpoint yet, ids not being used again,
    Gone,         \*   or none any more
    MaxAttempts,  \* maxAttempts: how often a task is tried
    ListLimit,    \* how many endpoints a trigger lists (100)
    MaxChanges,   \* bound: how often each is created, changed, deleted
    Responsive    \* endpoints whose receivers always answer in the end

Endpoint == [status : {"enabled", "disabled"}, secret : BOOLEAN,
             events : Filters]

\* "keep", FALSE and Keep are the fields a caller leaves out.
UpdateOpt == [status : {"keep", "enabled", "disabled"}, secret : BOOLEAN,
              events : Filters \cup {Keep}]

ASSUME DeliveryAssumption ==
    /\ Star \in Patterns
    /\ Contains \in [Patterns -> SUBSET Types]
    /\ Contains[Star] = {}
    /\ Filters \subseteq Seq(Patterns)
    /\ Keep \notin Filters
    /\ UpdateOpts \subseteq UpdateOpt
    /\ {NoHook, Gone} \cap (Endpoint \cup Hooks) = {}
    /\ NoHook # Gone
    /\ MaxAttempts \in Nat \ {0}
    /\ ListLimit \in Nat
    /\ MaxChanges \in [Hooks -> Nat]
    /\ Untracked \subseteq Triggers
    /\ Responsive \subseteq Hooks

VARIABLES
    hooks,      \* the endpoint repository
    admin,      \* the callers of UpdateWebhook
    changes,    \* how often each endpoint was created, changed or deleted
    trig,       \* the triggers
    pool,       \* the worker pool: is it open, stopping or stopped?
    queue,      \* the tasks that wait in it
    worker,     \* its workers
    submitted,  \* history: all tasks ever queued
    received,   \* history: the tasks the receivers got, in order
    delivered,  \* history: the tasks that ended with a 2xx answer
    exhausted,  \* history: the tasks that were given up
    steady,     \* history: per trigger, the endpoints that nobody changed, or
                \*   was about to, since it listed them
    waited,     \* history: has Wait returned, and has no goroutine it waits
                \*   for begun since?
    crashed     \* has a Submit to a stopped pool taken the process down?

endpointVars == <<hooks, admin, changes>>
trigVars     == <<trig, steady>>
poolVars     == <<pool, queue, worker>>
historyVars  == <<submitted, received, delivered, exhausted>>
endVars      == <<waited, crashed>>
vars == <<endpointVars, trigVars, poolVars, historyVars, endVars>>

---------------------------------------------------------------------------

TwoWorkers == {1, 2}   \* faulty: a pool of two

\* workerpool.New(1).
Workers == {1}

\* id: the place of the task among those queued.
Task == [id : Nat, hook : Hooks, by : Triggers]

NoTask == [id |-> 0]

\* listed: the endpoints still to be served, as they were when listed.
Trigger == [pc : {"idle", "list", "deliver", "done"},
            type : Types,
            listed : [Hooks -> Endpoint \cup {NoHook}]]

Update == [hook : Hooks \cup {NoHook}, copy : Endpoint \cup {NoHook}]

NoUpdate == [hook |-> NoHook, copy |-> NoHook]

Exists(h) == hooks[h] \notin {NoHook, Gone}

Nothing == [h \in Hooks |-> NoHook]

Idle == [pc |-> "idle", task |-> NoTask, attempt |-> 0]

\* A panic is the end of all goroutines.
Running == ~crashed

Init ==
    /\ hooks = Nothing
    /\ admin = [a \in Admins |-> NoUpdate]
    /\ changes = [h \in Hooks |-> 0]
    /\ trig \in [Triggers -> {[pc |-> "idle", type |-> t, listed |-> Nothing] :
                                t \in Types}]
    /\ pool = "open"
    /\ queue = <<>>
    /\ worker = [w \in Workers |-> Idle]
    /\ submitted = <<>>
    /\ received = <<>>
    /\ delivered = {}
    /\ exhausted = {}
    /\ steady = [k \in Triggers |-> {}]
    /\ waited = FALSE
    /\ crashed = FALSE

---------------------------------------------------------------------------
(* Endpoints.                                                              *)

\* Endpoint h is changed, or about to be.
Changed(h) ==
    /\ changes' = [changes EXCEPT ![h] = @ + 1]
    /\ steady' = [k \in Triggers |-> steady[k] \ {h}]

\* handleCreateWebhookEndpoint makes a secret; the service's CreateWebhook
\* stores the one it is given, if any.
CreateWebhook(h, secret, events) ==
    /\ Running
    /\ changes[h] < MaxChanges[h]
    /\ hooks[h] = NoHook
    /\ hooks' = [hooks EXCEPT ![h] =
                   [status |-> "enabled", secret |-> secret, events |-> events]]
    /\ Changed(h)
    /\ UNCHANGED <<admin, trig, poolVars, historyVars, endVars>>

Updated(e, opts) ==
    [status |-> IF opts.status = "keep" THEN e.status ELSE opts.status,
     secret |-> e.secret \/ opts.secret,
     events |-> IF opts.events = Keep THEN e.events ELSE opts.events]

\* UpdateWebhook reads the endpoint and applies what is set to its copy ...
UpdateWebhookRead(a, h, opts) ==
    /\ Running
    /\ changes[h] < MaxChanges[h]
    /\ admin[a] = NoUpdate
    /\ Exists(h)
    /\ admin' = [admin EXCEPT ![a] = [hook |-> h, copy |-> Updated(hooks[h], opts)]]
    /\ Changed(h)
    /\ UNCHANGED <<hooks, trig, poolVars, historyVars, endVars>>

\* Faulty: the copy is stored whether or not the endpoint is still there.
UpdateWebhookUpsert(a) ==
    /\ Running
    /\ admin[a] # NoUpdate
    /\ hooks' = [hooks EXCEPT ![admin[a].hook] = admin[a].copy]
    /\ admin' = [admin EXCEPT ![a] = NoUpdate]
    /\ UNCHANGED <<changes, trigVars, poolVars, historyVars, endVars>>

\* ... and writes the copy back, unless the endpoint is gone.
UpdateWebhookWrite(a) ==
    LET h == admin[a].hook
    IN  /\ Running
        /\ admin[a] # NoUpdate
        /\ hooks' = IF Exists(h) THEN [hooks EXCEPT ![h] = admin[a].copy]
                    ELSE hooks
        /\ admin' = [admin EXCEPT ![a] = NoUpdate]
        /\ UNCHANGED <<changes, trigVars, poolVars, historyVars, endVars>>

DeleteWebhook(h) ==
    /\ Running
    /\ changes[h] < MaxChanges[h]
    /\ Exists(h)
    /\ hooks' = [hooks EXCEPT ![h] = Gone]
    /\ Changed(h)
    /\ UNCHANGED <<admin, trig, poolVars, historyVars, endVars>>

---------------------------------------------------------------------------
(* Triggers.                                                               *)

\* isEventEnabled: "*" counts only as the first entry.
IsEventEnabled(e, type) ==
    \/ e.events = <<>>
    \/ \E i \in 1 .. Len(e.events) :
          \/ i = 1 /\ e.events[i] = Star
          \/ type \in Contains[e.events[i]]

BeginTrigger(k) ==
    /\ Running
    /\ trig[k].pc = "idle"
    /\ trig' = [trig EXCEPT ![k].pc = "list"]
    /\ waited' = (waited /\ k \in Untracked)
    /\ UNCHANGED <<endpointVars, steady, poolVars, historyVars, crashed>>

\* Faulty: the last endpoint the limit allows is left out.
ListWebhooksButLast ==
    LET all == {h \in Hooks : Exists(h)}
    IN  {S \in SUBSET all :
           Cardinality(S) = IF Cardinality(all) < ListLimit
                            THEN Cardinality(all) ELSE ListLimit - 1}

\* ListWebhooks(100, ""): the order, and with it what a limit leaves out, is
\* that of a Go map.
ListWebhooks ==
    LET all == {h \in Hooks : Exists(h)}
    IN  {S \in SUBSET all :
           Cardinality(S) = IF Cardinality(all) <= ListLimit
                            THEN Cardinality(all) ELSE ListLimit}

List(k) ==
    /\ Running
    /\ trig[k].pc = "list"
    /\ \E S \in ListWebhooks :
         trig' = [trig EXCEPT
            ![k].pc = IF S = {} THEN "done" ELSE "deliver",
            ![k].listed = [h \in Hooks |-> IF h \in S THEN hooks[h] ELSE NoHook]]
    /\ steady' = [steady EXCEPT
                    ![k] = {h \in Hooks : \A a \in Admins : admin[a].hook # h}]
    /\ UNCHANGED <<endpointVars, poolVars, historyVars, endVars>>

\* Trigger k is through with endpoint h.
Passed(k, h) ==
    LET rest == [trig[k].listed EXCEPT ![h] = NoHook]
    IN  trig' = [trig EXCEPT
           ![k].listed = rest,
           ![k].pc = IF rest = Nothing THEN "done" ELSE "deliver"]

\* DeliverEvent looks the endpoint up again before it queues the task.
\* Submit panics, and ends the process, once the pool was told to stop.
Deliver(k, h) ==
    LET listed == trig[k].listed[h]
        e == hooks[h]
        type == trig[k].type
        task == [id |-> Len(submitted) + 1, hook |-> h, by |-> k]
        wanted == /\ IsEventEnabled(listed, type)
                  /\ Exists(h)
                  /\ e.status = "enabled"
                  /\ IsEventEnabled(e, type)
    IN  /\ Running
        /\ trig[k].pc = "deliver"
        /\ listed # NoHook
        /\ \/ /\ wanted
              /\ pool = "open"
              /\ queue' = Append(queue, task)
              /\ submitted' = Append(submitted, task)
              /\ Passed(k, h)
              /\ UNCHANGED crashed
           \/ /\ wanted
              /\ pool # "open"
              /\ crashed' = TRUE
              /\ UNCHANGED <<trig, queue, submitted>>
           \/ /\ ~wanted
              /\ Passed(k, h)
              /\ UNCHANGED <<queue, submitted, crashed>>
        /\ UNCHANGED <<endpointVars, steady, pool, worker, received, delivered,
                       exhausted, waited>>

---------------------------------------------------------------------------
(* The worker.                                                             *)

\* Faulty: the task stays in the queue until the worker is done with it.
TakeAndKeep(w) ==
    /\ Running
    /\ worker[w].pc = "idle"
    /\ queue # <<>>
    /\ pool \in {"open", "draining"}
    /\ worker' = [worker EXCEPT
                    ![w] = [pc |-> "attempt", task |-> Head(queue), attempt |-> 1]]
    /\ UNCHANGED <<endpointVars, trigVars, pool, queue, historyVars, endVars>>

\* Faulty: no task is taken any more once the pool drains.
TakeWhileOpen(w) ==
    /\ Running
    /\ worker[w].pc = "idle"
    /\ queue # <<>>
    /\ pool = "open"
    /\ worker' = [worker EXCEPT
                    ![w] = [pc |-> "attempt", task |-> Head(queue), attempt |-> 1]]
    /\ queue' = Tail(queue)
    /\ UNCHANGED <<endpointVars, trigVars, pool, historyVars, endVars>>

\* A worker takes the task that has waited longest.  Once Close was called
\* it takes none.
Take(w) ==
    /\ Running
    /\ worker[w].pc = "idle"
    /\ queue # <<>>
    /\ pool \in {"open", "draining"}
    /\ worker' = [worker EXCEPT
                    ![w] = [pc |-> "attempt", task |-> Head(queue), attempt |-> 1]]
    /\ queue' = Tail(queue)
    /\ UNCHANGED <<endpointVars, trigVars, pool, historyVars, endVars>>

\* Faulty: tasks are tried until they succeed.
RetryForever(w) ==
    /\ worker' = [worker EXCEPT ![w].pc = "attempt"]
    /\ UNCHANGED exhausted

\* retry: any error is tried again until the attempts are used up.
Retry(w) ==
    \/ /\ worker[w].attempt < MaxAttempts
       /\ worker' = [worker EXCEPT ![w].pc = "attempt", ![w].attempt = @ + 1]
       /\ UNCHANGED exhausted
    \/ /\ worker[w].attempt >= MaxAttempts
       /\ worker' = [worker EXCEPT ![w] = Idle]
       /\ exhausted' = exhausted \cup {worker[w].task.id}

\* deliverToWebhook up to the request.
Attempt(w) ==
    LET h == worker[w].task.hook
        sendable == Exists(h) /\ hooks[h].status = "enabled" /\ hooks[h].secret
    IN  /\ Running
        /\ worker[w].pc = "attempt"
        /\ \/ /\ sendable
              /\ worker' = [worker EXCEPT ![w].pc = "sending"]
              /\ UNCHANGED exhausted
           \/ /\ ~sendable
              /\ Retry(w)
        /\ UNCHANGED <<endpointVars, trigVars, pool, queue, submitted, received,
                       delivered, endVars>>

\* Faulty: the answer is read after the next attempt was begun.
AcceptedTooLate(w) ==
    /\ Running
    /\ worker[w].pc = "sending"
    /\ received' = Append(received, worker[w].task.id)
    /\ delivered' = delivered \cup {worker[w].task.id}
    /\ Retry(w)
    /\ UNCHANGED <<endpointVars, trigVars, pool, queue, submitted, endVars>>

\* The receiver gets the request and answers with a 2xx status ...
Accepted(w) ==
    /\ Running
    /\ worker[w].pc = "sending"
    /\ received' = Append(received, worker[w].task.id)
    /\ delivered' = delivered \cup {worker[w].task.id}
    /\ worker' = [worker EXCEPT ![w] = Idle]
    /\ UNCHANGED <<endpointVars, trigVars, pool, queue, submitted, exhausted, endVars>>

\* ... or with another one, or its answer cannot be read ...
Refused(w) ==
    /\ Running
    /\ worker[w].pc = "sending"
    /\ received' = Append(received, worker[w].task.id)
    /\ Retry(w)
    /\ UNCHANGED <<endpointVars, trigVars, pool, queue, submitted, delivered, endVars>>

\* ... or it cannot be reached.
Unreachable(w) ==
    /\ Running
    /\ worker[w].pc = "sending"
    /\ Retry(w)
    /\ UNCHANGED <<endpointVars, trigVars, pool, queue, submitted, received,
                   delivered, endVars>>

Answer(w) == Accepted(w) \/ Refused(w) \/ Unreachable(w)

---------------------------------------------------------------------------
(* The end of the process, or of a test.                                   *)

\* Server.Wait returns, before the pool is stopped: the goroutines that the
\* wait group counts are done.  Others may begin afterwards.
Wait ==
    /\ Running
    /\ pool = "open"
    /\ ~waited
    /\ \A k \in Triggers \ Untracked : trig[k].pc \in {"idle", "done"}
    /\ waited' = TRUE
    /\ UNCHANGED <<endpointVars, trigVars, poolVars, historyVars, crashed>>

\* Drain (StopWait) lets the workers finish the queue ...
Drain ==
    /\ Running
    /\ pool = "open"
    /\ pool' = "draining"
    /\ UNCHANGED <<endpointVars, trigVars, queue, worker, historyVars, endVars>>

\* ... Close (Stop) only what they have begun.
Close ==
    /\ Running
    /\ pool = "open"
    /\ pool' = "closing"
    /\ UNCHANGED <<endpointVars, trigVars, queue, worker, historyVars, endVars>>

\* Faulty: draining stops after the task at work.
StoppedEarly ==
    /\ Running
    /\ pool \in {"closing", "draining"}
    /\ \A w \in Workers : worker[w] = Idle
    /\ pool' = IF pool = "closing" THEN "closed" ELSE "drained"
    /\ UNCHANGED <<endpointVars, trigVars, queue, worker, historyVars, endVars>>

Stopped ==
    /\ Running
    /\ \/ pool = "closing"
       \/ pool = "draining" /\ queue = <<>>
    /\ \A w \in Workers : worker[w] = Idle
    /\ pool' = IF pool = "closing" THEN "closed" ELSE "drained"
    /\ UNCHANGED <<endpointVars, trigVars, queue, worker, historyVars, endVars>>

---------------------------------------------------------------------------

EndpointStep ==
    \/ \E h \in Hooks, secret \in BOOLEAN, events \in Filters :
         CreateWebhook(h, secret, events)
    \/ \E a \in Admins, h \in Hooks, opts \in UpdateOpts :
         UpdateWebhookRead(a, h, opts)
    \/ \E a \in Admins : UpdateWebhookWrite(a)
    \/ \E h \in Hooks : DeleteWebhook(h)

TriggerStep(k) == List(k) \/ \E h \in Hooks : Deliver(k, h)

WorkerStep(w) == Take(w) \/ Attempt(w)

Next == \/ EndpointStep
        \/ \E k \in Triggers : BeginTrigger(k) \/ TriggerStep(k)
        \/ \E w \in Workers : WorkerStep(w) \/ Answer(w)
        \/ Wait \/ Drain \/ Close \/ Stopped

Spec == Init /\ [][Next]_vars

\* Goroutines and the worker keep running, and responsive receivers answer,
\* if only with an error; clients, tests and other receivers need do nothing.
Fairness ==
    /\ \A k \in Triggers : WF_vars(TriggerStep(k))
    /\ \A w \in Workers : /\ WF_vars(WorkerStep(w))
                          /\ \A h \in Responsive :
                               WF_vars(/\ worker[w].task # NoTask
                                       /\ worker[w].task.hook = h
                                       /\ Answer(w))
    /\ WF_vars(Stopped)

FairSpec == Spec /\ Fairness

---------------------------------------------------------------------------
(* Safety.                                                                 *)

TypeOK ==
    /\ hooks \in [Hooks -> Endpoint \cup {NoHook, Gone}]
    /\ admin \in [Admins -> Update]
    /\ changes \in [Hooks -> Nat]
    /\ trig \in [Triggers -> Trigger]
    /\ pool \in {"open", "draining", "closing", "drained", "closed"}
    /\ queue \in Seq(Task)
    /\ worker \in [Workers -> [pc : {"idle", "attempt", "sending"},
                               task : Task \cup {NoTask}, attempt : Nat]]
    /\ \A w \in Workers :
         worker[w].pc # "idle" => /\ worker[w].task \in Task
                                  /\ worker[w].attempt \in 1 .. MaxAttempts
    /\ submitted \in Seq(Task)
    /\ received \in Seq(Nat)
    /\ delivered \subseteq Nat
    /\ exhausted \subseteq Nat
    /\ steady \in [Triggers -> SUBSET Hooks]
    /\ waited \in BOOLEAN
    /\ crashed \in BOOLEAN

(* Receivers get tasks in the order they were queued, whatever is retried  *)
(* and whichever endpoints they are for; a task may come again, but not    *)
(* after a later one.                                                      *)
DeliveredInOrder ==
    \A i, j \in 1 .. Len(received) : i <= j => received[i] <= received[j]

Held(w) == IF worker[w].task = NoTask THEN {} ELSE {worker[w].task.id}

(* No task is lost or done twice: each waits in the queue, is with a       *)
(* worker, was answered or was given up, and only one of these.            *)
TasksAccountedFor ==
    /\ \A i \in 1 .. Len(submitted) :
         LET places == {<<"queue", j>> : j \in {j \in 1 .. Len(queue) : queue[j].id = i}}
                \cup {<<"worker", w>> : w \in {w \in Workers : i \in Held(w)}}
                \cup (IF i \in delivered THEN {<<"delivered", 0>>} ELSE {})
                \cup (IF i \in exhausted THEN {<<"exhausted", 0>>} ELSE {})
         IN  Cardinality(places) = 1
    /\ delivered \cup exhausted \subseteq 1 .. Len(submitted)

\* How often the receiver of endpoint h got something, and is about to.
Got(h) == Cardinality({j \in 1 .. Len(received) : submitted[received[j]].hook = h})

Sending(h) ==
    Cardinality({w \in Workers : worker[w].pc = "sending" /\ worker[w].task.hook = h})

(* Deleting an endpoint is final: its receiver gets nothing more than what *)
(* is on the way to it, whoever was about to update the endpoint, and      *)
(* however many tasks are queued for it or to be tried again.              *)
DeletedIsSilent ==
    [][\A h \in Hooks :
         hooks[h] = Gone => /\ hooks'[h] = Gone
                            /\ Got(h)' + Sending(h)' <= Got(h) + Sending(h)]_vars

\* What an endpoint that is set up with these entries asks for.
AskedFor(entries) ==
    IF entries = <<>> \/ Head(entries) = Star THEN Types
    ELSE UNION {Contains[entries[i]] : i \in 1 .. Len(entries)}

\* The tasks that trigger k queued for endpoint h.
Queued(k, h) ==
    {i \in 1 .. Len(submitted) : submitted[i].by = k /\ submitted[i].hook = h}

(* A trigger queues one task for an endpoint that is enabled and           *)
(* subscribed to its event, and none for one that is not, if that endpoint *)
(* has not changed since the trigger listed it, whatever happened to the   *)
(* other endpoints meanwhile.                                              *)
EachSubscriberOnce ==
    \A k \in Triggers : \A h \in steady[k] :
        trig[k].pc = "done" =>
          Cardinality(Queued(k, h)) =
            IF /\ Exists(h) /\ hooks[h].status = "enabled"
               /\ trig[k].type \in AskedFor(hooks[h].events)
            THEN 1 ELSE 0

(* Drain waits for the deliveries that are pending.                        *)
DrainCompletes ==
    pool = "drained" => \A i \in 1 .. Len(submitted) : i \in delivered \cup exhausted

(* A task that was answered with a 2xx status is not sent again.           *)
AcknowledgedIsFinal ==
    [][received' # received => received'[Len(received')] \notin delivered]_vars

(* No goroutine submits a delivery to a stopped pool, if Wait returned     *)
(* before it was stopped and no goroutine that Wait counts began since.    *)
NoSubmitAfterStop == ~(waited /\ crashed)

---------------------------------------------------------------------------
(* Liveness.                                                               *)

AllEnded == 1 .. Len(submitted) \subseteq delivered \cup exhausted

(* Every task that is queued is answered or given up in the end, unless    *)
(* Close or a crash stops the worker, provided receivers answer: triggers  *)
(* are finitely many, so it is enough that again and again none is left.   *)
TasksEnd == []<>(AllEnded \/ pool \in {"closing", "closed"} \/ crashed)

(* Drain returns.                                                          *)
DrainEnds == pool = "draining" ~> pool = "drained" \/ crashed
=============================================================================
