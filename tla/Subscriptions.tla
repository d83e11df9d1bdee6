-------------------------- MODULE Subscriptions --------------------------
(***************************************************************************)
(* Subscriptions under concurrent requests.                                *)
(*                                                                         *)
(* The HTTP server runs one goroutine per request and most subscription    *)
(* handlers start one more, which announces the change to the webhook      *)
(* endpoints.  The repository locks a read or a write, never the two       *)
(* together: an operation reads a copy of the document, changes the copy   *)
(* and writes the whole of it back, so requests and goroutines interleave  *)
(* between these steps.                                                    *)
(*                                                                         *)
(* Request r is one HTTP request.  A subscription has the number of the    *)
(* request that created it, and a goroutine the number of the request that *)
(* started it.                                                             *)
(***************************************************************************)
EXTENDS SubscriptionDocs, Sequences, FiniteSets

CONSTANTS
    NumRequests,   \* bound: how many requests the clients send
    MaxInFlight,   \* bound: requests, goroutines and resets at work at once
    MaxResets,     \* bound: how often POST /v1/reset is called
    InitialItems,  \* the items new subscriptions may have
    UpdateArgs     \* the bodies of POST /v1/subscriptions/{id}

Requests == 1 .. NumRequests

\* The parameters of an update: each may be missing.
UpdateArg == [cancel  : {"absent", "true", "false"},
              pause   : {"absent", "set", "clear"},
              items   : ItemUpdates]

NoUpdates == [i \in ItemIds |-> Untouched]

ASSUME SubscriptionsAssumption ==
    /\ NumRequests \in Nat
    /\ MaxInFlight \in Nat
    /\ MaxResets \in Nat
    /\ InitialItems \subseteq [ItemIds -> Item \cup {NoItem}]
    /\ UpdateArgs \subseteq UpdateArg

VARIABLES
    subs,       \* the repository: the document under each id, or NoDoc
    req,        \* the requests and the handlers that serve them
    task,       \* the goroutine each request has started
    events,     \* the webhook events triggered, in order
    resets,     \* how many resets have begun
    resetting   \* has the one under way still repositories to clear?

vars == <<subs, req, task, events, resets, resetting>>

---------------------------------------------------------------------------

\* What a request's goroutine does, by the request.
Kinds == {"lifecycle", "renewal", "updated", "planChange",
          "deleted", "paused", "resumed"}

EventTypes == {"created", "updated", "deleted", "paused", "resumed"}

\* The calls a handler may make: activating is the lifecycle's own write.
HandlerOps == Ops \ {"activate"}

\* todo: the gateway calls the handler has still to make; its head is the one
\* under way.  doc: the handler's copy.  kind: the goroutine to start.
Request == [pc   : {"idle", "fetch", "read", "write", "reread", "ok", "failed"},
            todo : Seq(HandlerOps),
            sub  : Requests \cup {0},
            doc  : Doc \cup {NoDoc},
            args : UpdateArg,
            kind : Kinds \cup {"none"}]

Task == [pc  : {"none", "fetch", "announce", "billing", "billingLost",
                "activate", "conclude", "done"},
         doc : Doc \cup {NoDoc}]

Event == [type : EventTypes, sub : Requests, by : Requests, doc : Doc]

NoArgs == [cancel |-> "absent", pause |-> "absent", items |-> NoUpdates]

\* The subscriptions clients may know of, from an answer or from the list the
\* server keeps; a reset does not make them forget.
Known == {r \in Requests : req[r].sub = r}

Busy(r) == \/ req[r].pc \notin {"idle", "ok", "failed"}
           \/ task[r].pc \notin {"none", "done"}

InFlight ==
    Cardinality({r \in Requests : Busy(r)}) + (IF resetting THEN 1 ELSE 0)

\* Requests are numbered in the order they arrive.
Arrives(r) == /\ req[r].pc = "idle"
              /\ \A q \in 1 .. r - 1 : req[q].pc # "idle"
              /\ InFlight < MaxInFlight

Init == /\ subs = [r \in Requests |-> NoDoc]
        /\ req = [r \in Requests |->
                    [pc |-> "idle", todo |-> <<>>, sub |-> 0, doc |-> NoDoc,
                     args |-> NoArgs, kind |-> "none"]]
        /\ task = [r \in Requests |-> [pc |-> "none", doc |-> NoDoc]]
        /\ events = <<>>
        /\ resets = 0
        /\ resetting = FALSE

---------------------------------------------------------------------------
(* Handlers.                                                               *)

\* Faulty: a resumed subscription is not announced.
RespondInSilence(r, kind, d) ==
    /\ req' = [req EXCEPT ![r].pc = "ok", ![r].todo = <<>>, ![r].doc = d,
                          ![r].kind = kind]
    /\ task' = CASE kind \in {"lifecycle", "renewal"} ->
                      [task EXCEPT ![r].pc = "fetch"]
                 [] kind \in {"none", "resumed"} -> task
                 [] OTHER ->
                      [task EXCEPT ![r].pc = "conclude", ![r].doc = d]

\* The response is written and the handler's goroutine, if any, started.  A
\* goroutine that fetches the subscription itself is given only its id.
Respond(r, kind, d) ==
    /\ req' = [req EXCEPT ![r].pc = "ok", ![r].todo = <<>>, ![r].doc = d,
                          ![r].kind = kind]
    /\ task' = CASE kind \in {"lifecycle", "renewal"} ->
                      [task EXCEPT ![r].pc = "fetch"]
                 [] kind = "none" -> task
                 [] OTHER ->
                      [task EXCEPT ![r].pc = "conclude", ![r].doc = d]

\* Faulty: what earlier calls saved is announced although a later one failed.
FailAnnounced(r) ==
    /\ req' = [req EXCEPT ![r].pc = "failed", ![r].todo = <<>>]
    /\ task' = IF req[r].doc = NoDoc THEN task
               ELSE [task EXCEPT ![r].pc = "conclude", ![r].doc = req[r].doc]
    /\ UNCHANGED <<subs, events, resets, resetting>>

\* An error is returned: what earlier calls saved stays saved, and nothing is
\* announced.
Fail(r) == /\ req' = [req EXCEPT ![r].pc = "failed", ![r].todo = <<>>]
           /\ UNCHANGED <<subs, task, events, resets, resetting>>

\* Faulty: a cancellation is scheduled on the copy, whatever its status.
SchedulingOnCopy == {"setCancel", "clearCancel", "pauseCollection", "clearPause"}

\* Calls the handler makes on the copy it has; all others fetch a new one.
OnCopy == {"clearCancel", "pauseCollection", "clearPause"}

\* What follows when the handler holds copy d and has calls left to make.
Proceed(r, calls, kind, d) ==
    \/ /\ calls = <<>>
       /\ Respond(r, kind, d)
    \/ /\ calls # <<>>
       /\ LET onCopy == Head(calls) \in OnCopy
          IN  req' = [req EXCEPT
                 ![r].pc   = IF onCopy THEN "write" ELSE "read",
                 ![r].doc  = IF onCopy THEN Apply(Head(calls), d, NoUpdates)
                                       ELSE d,
                 ![r].todo = calls,
                 ![r].kind = kind]
       /\ UNCHANGED task

\* POST /v1/subscriptions: stored first, then read back.
CreateSubscription(r, items) ==
    /\ Arrives(r)
    /\ subs' = [subs EXCEPT ![r] = NewDoc(items)]
    /\ req' = [req EXCEPT ![r].pc = "reread", ![r].sub = r,
                          ![r].kind = "lifecycle"]
    /\ UNCHANGED <<task, events, resets, resetting>>

\* POST /v1/checkout/sessions/{id}/complete: an active subscription, whose
\* goroutines announce a session and an invoice but no subscription.
CompleteCheckout(r, items) ==
    /\ Arrives(r)
    /\ subs' = [subs EXCEPT ![r] = CheckoutDoc(items)]
    /\ req' = [req EXCEPT ![r].pc = "reread", ![r].sub = r]
    /\ UNCHANGED <<task, events, resets, resetting>>

\* The endpoints that make one call, and what they announce.
Endpoints == {"pause", "resume", "cancel", "expire", "renew"}

KindOf(op) == CASE op = "pause"  -> "paused"
                [] op = "resume" -> "resumed"
                [] op = "renew"  -> "renewal"
                [] OTHER         -> "deleted"

\* POST .../pause, .../resume, .../renew and .../expire, and DELETE.
CallEndpoint(r, op, s) ==
    /\ Arrives(r)
    /\ s \in Known
    /\ req' = [req EXCEPT ![r].pc = "read", ![r].todo = <<op>>,
                          ![r].sub = s, ![r].kind = KindOf(op)]
    /\ UNCHANGED <<subs, task, events, resets, resetting>>

\* POST /v1/subscriptions/{id}.
UpdateSubscription(r, s, args) ==
    /\ Arrives(r)
    /\ s \in Known
    /\ req' = [req EXCEPT ![r].pc = "fetch", ![r].sub = s, ![r].args = args]
    /\ UNCHANGED <<subs, task, events, resets, resetting>>

\* The calls an update makes, in the order of the handler's sections, d being
\* the copy it fetched first.
CancelCalls(args, d) ==
    CASE args.cancel = "true"  /\ ~d.cancelAtPeriodEnd -> <<"setCancel">>
      [] args.cancel = "false" /\ d.cancelAtPeriodEnd  -> <<"clearCancel">>
      [] OTHER -> <<>>

PauseCalls(args) == CASE args.pause = "set"   -> <<"pauseCollection">>
                      [] args.pause = "clear" -> <<"clearPause">>
                      [] OTHER                -> <<>>

\* An id the subscription does not know is a position it has no item at: the
\* call is made for it like for any other and leaves the items alone.
ItemCalls(args) == IF args.items = NoUpdates THEN <<>> ELSE <<"items">>

Calls(args, d) == CancelCalls(args, d) \o PauseCalls(args) \o ItemCalls(args)

\* Faulty: a change of pause_collection alone is not announced.
UpdateKindButPause(args, d) ==
    CASE args.items # NoUpdates        -> "planChange"
      [] CancelCalls(args, d) = <<>> /\ args.items = NoUpdates -> "none"
      [] OTHER                         -> "updated"

\* An item change announces itself, and with it the changes before it.
UpdateKind(args, d) == CASE args.items # NoUpdates -> "planChange"
                         [] Calls(args, d) = <<>>  -> "none"
                         [] OTHER                  -> "updated"

\* handleUpdateSubscription's own GetSubscription.
Fetch(r) ==
    LET d == subs[req[r].sub]
        args == req[r].args
    IN  /\ req[r].pc = "fetch"
        /\ \/ d = NoDoc /\ Fail(r)
           \/ /\ d # NoDoc
              /\ Proceed(r, Calls(args, d), UpdateKind(args, d), d)
              /\ UNCHANGED <<subs, events, resets, resetting>>

\* The first half of a gateway operation: the copy it works on, the checks it
\* makes and the change it makes to the copy.
Read(r) ==
    LET d == subs[req[r].sub]
        op == Head(req[r].todo)
        updates == req[r].args.items
        accepted == d # NoDoc /\ CanApply(op, d, updates)
    IN  /\ req[r].pc = "read"
        /\ \/ ~accepted /\ Fail(r)
           \/ /\ accepted
              /\ req' = [req EXCEPT ![r].pc = "write",
                                    ![r].doc = Apply(op, d, updates)]
              /\ UNCHANGED <<subs, task, events, resets, resetting>>

\* subscriptionRepo.Update: the whole document is replaced.  RenewSubscription
\* answers with its copy; the other operations read the document again.
Write(r) ==
    LET s == req[r].sub
        rest == Tail(req[r].todo)
    IN  /\ req[r].pc = "write"
        /\ \/ subs[s] = NoDoc /\ Fail(r)
           \/ /\ subs[s] # NoDoc
              /\ subs' = [subs EXCEPT ![s] = req[r].doc]
              /\ \/ /\ Head(req[r].todo) = "renew"
                    /\ Proceed(r, rest, req[r].kind, req[r].doc)
                 \/ /\ Head(req[r].todo) # "renew"
                    /\ req' = [req EXCEPT ![r].pc = "reread",
                                          ![r].todo = rest]
                    /\ UNCHANGED task
              /\ UNCHANGED <<events, resets, resetting>>

\* The Get an operation ends with: what the client or the next call sees.
Reread(r) ==
    LET d == subs[req[r].sub]
    IN  /\ req[r].pc = "reread"
        /\ \/ d = NoDoc /\ Fail(r)
           \/ /\ d # NoDoc
              /\ Proceed(r, req[r].todo, req[r].kind, d)
              /\ UNCHANGED <<subs, events, resets, resetting>>

---------------------------------------------------------------------------
(* Goroutines.                                                             *)

\* triggerWebhookEvent: the event carries the document as it is handed in.
Trigger(r, type, d) ==
    events' = Append(events,
                     [type |-> type, sub |-> req[r].sub, by |-> r, doc |-> d])

\* Faulty: the lifecycle begins with the invoice.
TaskFetchToBilling(r) ==
    LET d == subs[req[r].sub]
    IN  /\ task[r].pc = "fetch"
        /\ task' = [task EXCEPT ![r].doc = d,
                                ![r].pc = IF d = NoDoc THEN "done" ELSE "billing"]
        /\ UNCHANGED <<subs, req, events, resets, resetting>>

\* triggerSubscriptionLifecycle and triggerSubscriptionRenewal start from a
\* copy of their own.
TaskFetch(r) ==
    LET d == subs[req[r].sub]
    IN  /\ task[r].pc = "fetch"
        /\ task' = [task EXCEPT
               ![r].doc = d,
               ![r].pc = IF d = NoDoc THEN "done"
                         ELSE IF req[r].kind = "lifecycle" THEN "announce"
                         ELSE "billing"]
        /\ UNCHANGED <<subs, req, events, resets, resetting>>

\* Event 1 of the lifecycle.
TaskAnnounce(r) ==
    /\ task[r].pc = "announce"
    /\ Trigger(r, "created", task[r].doc)
    /\ task' = [task EXCEPT ![r].pc = "billing"]
    /\ UNCHANGED <<subs, req, resets, resetting>>

\* The invoice and the charge are made, paid and announced.
TaskBilled(r) ==
    /\ task[r].pc \in {"billing", "billingLost"}
    /\ task' = [task EXCEPT
           ![r].pc = IF req[r].kind = "lifecycle" THEN "activate" ELSE "conclude"]
    /\ UNCHANGED <<subs, req, events, resets, resetting>>

\* A reset has taken the invoice away: its update fails and the goroutine
\* gives up.
TaskAborted(r) ==
    /\ task[r].pc = "billingLost"
    /\ task' = [task EXCEPT ![r].pc = "done"]
    /\ UNCHANGED <<subs, req, events, resets, resetting>>

\* Faulty: the goroutine gives up when the subscription has changed.
TaskActivateUnchanged(r) ==
    LET s == req[r].sub
        d == Activated(task[r].doc)
    IN  /\ task[r].pc = "activate"
        /\ \/ /\ subs[s] # task[r].doc
              /\ task' = [task EXCEPT ![r].pc = "done"]
              /\ UNCHANGED subs
           \/ /\ subs[s] = task[r].doc
              /\ subs' = [subs EXCEPT ![s] = d]
              /\ task' = [task EXCEPT ![r].pc = "conclude", ![r].doc = d]
        /\ UNCHANGED <<req, events, resets, resetting>>

\* The lifecycle's copy, made active, replaces the stored document.
TaskActivate(r) ==
    LET s == req[r].sub
        d == Activated(task[r].doc)
    IN  /\ task[r].pc = "activate"
        /\ \/ /\ subs[s] = NoDoc
              /\ task' = [task EXCEPT ![r].pc = "done", ![r].doc = d]
              /\ UNCHANGED subs
           \/ /\ subs[s] # NoDoc
              /\ subs' = [subs EXCEPT ![s] = d]
              /\ task' = [task EXCEPT ![r].pc = "conclude", ![r].doc = d]
        /\ UNCHANGED <<req, events, resets, resetting>>

\* The last subscription event of each goroutine.
Conclusion(kind) ==
    CASE kind \in {"deleted", "paused", "resumed"} -> kind
      [] OTHER                                     -> "updated"

TaskConclude(r) ==
    /\ task[r].pc = "conclude"
    /\ Trigger(r, Conclusion(req[r].kind), task[r].doc)
    /\ task' = [task EXCEPT ![r].pc = "done"]
    /\ UNCHANGED <<subs, req, resets, resetting>>

---------------------------------------------------------------------------
(* POST /v1/reset clears one repository after the other, subscriptions     *)
(* before invoices.                                                        *)

ResetSubscriptions ==
    /\ resets < MaxResets
    /\ ~resetting
    /\ InFlight < MaxInFlight
    /\ subs' = [r \in Requests |-> NoDoc]
    /\ resets' = resets + 1
    /\ resetting' = TRUE
    /\ UNCHANGED <<req, task, events>>

\* Goroutines between creating and paying an invoice may lose it.
ResetInvoices ==
    /\ resetting
    /\ resetting' = FALSE
    /\ task' = [r \in Requests |->
                  [task[r] EXCEPT !.pc = IF @ = "billing" THEN "billingLost"
                                                          ELSE @]]
    /\ UNCHANGED <<subs, req, events, resets>>

---------------------------------------------------------------------------

Arrive(r) ==
    \/ \E items \in InitialItems : CreateSubscription(r, items)
    \/ \E items \in InitialItems : CompleteCheckout(r, items)
    \/ \E op \in Endpoints, s \in Requests : CallEndpoint(r, op, s)
    \/ \E s \in Requests, args \in UpdateArgs : UpdateSubscription(r, s, args)

HandlerStep(r) == Fetch(r) \/ Read(r) \/ Write(r) \/ Reread(r)

TaskStep(r) == \/ TaskFetch(r)
               \/ TaskAnnounce(r)
               \/ TaskBilled(r)
               \/ TaskAborted(r)
               \/ TaskActivate(r)
               \/ TaskConclude(r)

Next == \/ \E r \in Requests : Arrive(r) \/ HandlerStep(r) \/ TaskStep(r)
        \/ ResetSubscriptions
        \/ ResetInvoices

Spec == Init /\ [][Next]_vars

\* Goroutines keep running; clients need not send anything.
Fairness == /\ \A r \in Requests : WF_vars(HandlerStep(r)) /\ WF_vars(TaskStep(r))
            /\ WF_vars(ResetInvoices)

FairSpec == Spec /\ Fairness

---------------------------------------------------------------------------
(* What holds however requests, goroutines and resets interleave.          *)

(* Every variable has its type, and a handler or goroutine that is about   *)
(* to write, answer or announce a document holds one.                      *)
TypeOK ==
    /\ subs \in [Requests -> Doc \cup {NoDoc}]
    /\ req \in [Requests -> Request]
    /\ task \in [Requests -> Task]
    /\ events \in Seq(Event)
    /\ resets \in Nat
    /\ resetting \in BOOLEAN
    /\ \A r \in Requests :
         /\ req[r].pc \in {"read", "write"} => req[r].todo # <<>>
         /\ req[r].pc \notin {"idle"} => req[r].sub # 0
         /\ req[r].pc \in {"write", "ok"} => req[r].doc \in Doc
         /\ task[r].pc \in {"announce", "activate", "billing", "billingLost",
                            "conclude"} => task[r].doc \in Doc

(* Whole-document writes may lose an update, they never mix two: every     *)
(* document the repository holds, a handler is about to write or has       *)
(* answered with, or an event carries, is coherent, for no operation is    *)
(* applied to a copy other than the one its checks were made on.           *)
DocumentsCoherent ==
    /\ \A s \in Requests : subs[s] # NoDoc => Coherent(subs[s])
    /\ \A r \in Requests : req[r].doc # NoDoc => Coherent(req[r].doc)
    /\ \A r \in Requests : task[r].doc # NoDoc => Coherent(task[r].doc)
    /\ \A i \in 1 .. Len(events) : Coherent(events[i].doc)

(* Announcements come from requests that succeeded, each at most once by   *)
(* type: a client that was told of a failure never causes a webhook, even  *)
(* when an earlier part of its update was saved.                           *)
EventsOfSuccessOnly ==
    \A i \in 1 .. Len(events) :
        /\ req[events[i].by].pc = "ok"
        /\ \A j \in 1 .. i - 1 : events[j].by = events[i].by
                                   => events[j].type # events[i].type

\* Subscriptions made by POST /v1/subscriptions.
ByApi(s) == req[s].sub = s /\ req[s].kind = "lifecycle"

Announced(s, n) ==
    \E i \in 1 .. n : events[i].sub = s /\ events[i].type = "created"

(* A subscription made through the API is active or paused only once its   *)
(* subscription.created event is out, and no paused or resumed event       *)
(* overtakes that event, although it is triggered by a goroutine of its    *)
(* own and these requests do not wait for it.                              *)
CreatedAnnouncedFirst ==
    \A s \in Requests : ByApi(s) =>
        /\ (subs[s] # NoDoc /\ subs[s].status \in {"active", "paused"})
              => Announced(s, Len(events))
        /\ \A i \in 1 .. Len(events) :
             (events[i].sub = s /\ events[i].type \in {"paused", "resumed"})
                => Announced(s, i - 1)

\* What request r is known to have announced.
HasAnnounced(r, type) ==
    \E i \in 1 .. Len(events) : events[i].by = r /\ events[i].type = type

(* An update, pause, resume or deletion the client was told of is          *)
(* announced: the goroutine the handler starts triggers its event in the   *)
(* end, whatever others do to the subscription meanwhile.  (Creations are  *)
(* the subject of LifecycleCompletes; a renewal announces nothing when its *)
(* goroutine finds the subscription or the invoice gone.)                  *)
SuccessIsAnnounced ==
    \A r \in Requests :
        (req[r].pc = "ok" /\ req[r].kind \notin {"none", "lifecycle", "renewal"})
            ~> HasAnnounced(r, Conclusion(req[r].kind))

(* Without resets every subscription made through the API comes to its     *)
(* last lifecycle event, which says it is active.                          *)
LifecycleCompletes ==
    \A r \in Requests :
        (req[r].pc = "ok" /\ req[r].kind = "lifecycle")
            ~> \/ resets > 0
               \/ \E i \in 1 .. Len(events) :
                     /\ events[i].by = r
                     /\ events[i].type = "updated"
                     /\ events[i].doc.status = "active"

---------------------------------------------------------------------------
(* What the endpoints promise.                                             *)

Atomic == INSTANCE AtomicSubscriptions WITH Ids <- Requests

\* Request r has a copy of its subscription that it is going to write: a
\* handler between the two halves of an operation, and what creates the
\* subscription until the goroutine has made it active.
Holds(r) == \/ req[r].pc = "write"
            \/ Busy(r) /\ req[r].kind = "lifecycle" /\ task[r].pc # "conclude"

\* Nobody writes a subscription another is about to write.  Nothing in the
\* code sees to it: clients may, by what they wait for.
OneByOne == \A r, q \in Requests :
                Holds(r) /\ Holds(q) /\ req[r].sub = req[q].sub => r = q

(* Every step of the handlers and goroutines is, on the repository, one    *)
(* whole operation applied to the document stored at that moment, as long  *)
(* as the writes of each subscription come OneByOne: a client that waits   *)
(* until nothing is at work before it goes on (MaxInFlight = 1) sees it,   *)
(* and clients of different subscriptions need not wait for one another.   *)
OperationsAreAtomic == Atomic!Spec

---------------------------------------------------------------------------
(* What clients that wait for one another see (MaxInFlight = 1), or what   *)
(* the code says of itself.                                                *)

(* A canceled subscription stays canceled until a reset removes it, again  *)
(* as long as writes come OneByOne.                                        *)
CanceledStaysCanceled ==
    [][\A s \in Requests :
          (subs[s] # NoDoc /\ subs[s].status = "canceled")
             => subs'[s] = NoDoc \/ subs'[s].status = "canceled"]_vars

(* When nothing is at work, the last event about a subscription made       *)
(* through the API shows the document that is stored: who follows the      *)
(* events knows every change.  Updates of the items come by themselves: of *)
(* one that comes with others and is refused the others stay saved, and no *)
(* event tells of them.                                                    *)
LastEventIsCurrent ==
    InFlight = 0 =>
        \A s \in Requests : (ByApi(s) /\ subs[s] # NoDoc) =>
            \E i \in 1 .. Len(events) :
                /\ events[i].sub = s
                /\ events[i].doc = subs[s]
                /\ \A j \in i + 1 .. Len(events) : events[j].sub # s
=============================================================================
