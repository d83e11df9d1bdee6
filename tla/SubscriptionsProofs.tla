------------------------ MODULE SubscriptionsProofs ------------------------
(***************************************************************************)
(* Proofs about Subscriptions, for any number of requests, goroutines,     *)
(* resets, items and prices: its types, the coherence of every document,   *)
(* the order of the announcements, and what clients may rely on that wait  *)
(* for one thing to end before they start the next.                        *)
(***************************************************************************)
EXTENDS Subscriptions, WellFoundedInduction, SequenceTheorems,
        FiniteSetTheorems, TLAPS

(***************************************************************************)
(* What the operations of SubscriptionDocs do to any document.             *)
(***************************************************************************)

(* A set of natural numbers that is not empty has a least element.         *)
LEMMA LeastNatural ==
    ASSUME NEW S, S \subseteq Nat, S # {}
    PROVE  \E i \in S : \A j \in S : i <= j
<1>1. PICK i \in S : \A j \in S : ~ (<<j, i>> \in OpToRel(<, Nat))
  BY NatLessThanWellFounded, WFMin
<1>2. \A j \in S : ~ (j < i)
  BY <1>1 DEF OpToRel
<1> QED  BY <1>2

(* sub.Items.Data[0] is an item of the subscription if it has any.         *)
LEMMA FirstIsLeft ==
    ASSUME NEW items, Left(items) # {}
    PROVE  First(items) \in Left(items)
<1>1. Left(items) \subseteq Nat
  BY DocAssumption DEF Left
<1>2. \E i \in Left(items) : \A j \in Left(items) : i <= j
  BY <1>1, LeastNatural
<1> QED  BY <1>2 DEF First

(* An operation whose checks a document passes makes a document of it.     *)
LEMMA ApplyType ==
    ASSUME NEW op \in Ops, NEW d \in Doc, NEW updates \in ItemUpdates,
           CanApply(op, d, updates)
    PROVE  Apply(op, d, updates) \in Doc
<1>1. CASE op = "renew"
  <2> DEFINE items == [i \in ItemIds |->
                         IF i \in Left(d.items) /\ i = First(d.items)
                         THEN [d.items[i] EXCEPT !.periodEnd = @ + 1]
                         ELSE d.items[i]]
  <2>1. items \in [ItemIds -> Item \cup {NoItem}]
    BY DEF Doc, Item, Left
  <2>2. Renewed(d) = [CancelUnscheduled(d) EXCEPT !.items = items]
    BY DEF Renewed
  <2>3. CancelUnscheduled(d) \in Doc
    BY DEF CancelUnscheduled, Doc
  <2>4. Apply(op, d, updates) = Renewed(d)
    BY <1>1 DEF Apply
  <2> HIDE DEF items
  <2> QED  BY <2>1, <2>2, <2>3, <2>4 DEF Doc
<1>2. CASE op = "setCancel"
  <2>1. Left(d.items) # {} => d.items[First(d.items)].periodEnd \in Nat
    <3> SUFFICES ASSUME Left(d.items) # {}
                 PROVE  d.items[First(d.items)].periodEnd \in Nat
      OBVIOUS
    <3>1. First(d.items) \in Left(d.items)
      BY FirstIsLeft
    <3>2. d.items[First(d.items)] \in Item
      BY <3>1 DEF Left, Doc
    <3> QED  BY <3>2 DEF Item
  <2> QED  BY <1>2, <2>1 DEF Apply, CancelScheduled, Doc
<1>3. CASE op = "items"
  <2> DEFINE items == [i \in ItemIds |->
                IF i \notin Left(d.items) \/ updates[i] = Untouched THEN d.items[i]
                ELSE IF updates[i] = Deleted THEN NoItem
                ELSE [d.items[i] EXCEPT !.price = updates[i]]]
  <2>1. \A i \in Left(d.items) : updates[i] # NoPrice
    BY <1>3 DEF CanApply, PriceMissing
  <2>2. items \in [ItemIds -> Item \cup {NoItem}]
    BY <2>1 DEF Doc, Item, Left, ItemUpdates
  <2>3. WithItems(d, updates) = [d EXCEPT !.items = items]
    BY DEF WithItems
  <2> HIDE DEF items
  <2> QED  BY <1>3, <2>2, <2>3 DEF Apply, Doc
<1>4. CASE op \notin {"renew", "setCancel", "items"}
  BY <1>4 DEF Ops, Apply, Doc, Statuses, Paused, Resumed, Canceled, Expired,
              CancelUnscheduled, CollectionPaused, CollectionResumed, Activated
<1> QED  BY <1>1, <1>2, <1>3, <1>4

(* ... and of a coherent document a coherent one.                          *)
LEMMA ApplyCoherent ==
    ASSUME NEW op \in Ops, NEW d \in Doc, NEW updates \in ItemUpdates,
           CanApply(op, d, updates), Coherent(d)
    PROVE  Coherent(Apply(op, d, updates))
  BY DEF Coherent, CanApply, ActiveOnly, PausedOnly, Ops, Apply, Doc, Statuses, Paused, Resumed,
         Canceled, Expired, CancelScheduled, CancelUnscheduled, Renewed,
         CollectionPaused, CollectionResumed, WithItems, Activated

(* What creating a subscription and completing a session store.            *)
LEMMA NewDocs ==
    ASSUME NEW items \in [ItemIds -> Item \cup {NoItem}]
    PROVE  /\ NewDoc(items) \in Doc
           /\ Coherent(NewDoc(items))
           /\ CheckoutDoc(items) \in Doc
           /\ Coherent(CheckoutDoc(items))
  BY DEF NewDoc, CheckoutDoc, Doc, Statuses, Coherent

---------------------------------------------------------------------------

(* The inductive invariant says of every document a variable holds that it *)
(* has its type and is coherent, and of the moments at which a handler or  *)
(* goroutine relies on holding one that it does.                           *)
GoodDoc == {d \in Doc : Coherent(d)}

GoodRequest ==
    {q \in Request :
        /\ q.doc \in GoodDoc \cup {NoDoc}
        /\ q.pc \in {"read", "write"} => q.todo # <<>>
        /\ q.pc # "idle" => q.sub # 0
        /\ q.pc \in {"write", "ok"} => q.doc \in GoodDoc}

GoodTask ==
    {t \in Task :
        /\ t.doc \in GoodDoc \cup {NoDoc}
        /\ t.pc \in {"announce", "activate", "billing", "billingLost",
                     "conclude"} => t.doc \in GoodDoc}

GoodEvent == {e \in Event : e.doc \in GoodDoc}

HandlersGood == req \in [Requests -> GoodRequest]
TasksGood    == task \in [Requests -> GoodTask]

(* A goroutine is only started by a handler that has answered, so the      *)
(* handler knows the subscription the goroutine is about.                  *)
StartedByAnswer ==
    \A r \in Requests : task[r].pc # "none" => req[r].pc = "ok"

IInv ==
    /\ subs \in [Requests -> GoodDoc \cup {NoDoc}]
    /\ HandlersGood
    /\ TasksGood
    /\ events \in Seq(GoodEvent)
    /\ resets \in Nat
    /\ resetting \in BOOLEAN
    /\ StartedByAnswer

---------------------------------------------------------------------------

LEMMA NoUpdatesType == NoUpdates \in ItemUpdates
  BY DEF NoUpdates, ItemUpdates

LEMMA CallSequences ==
    /\ <<>> \in Seq(HandlerOps)
    /\ \A op \in HandlerOps : <<op>> \in Seq(HandlerOps)
  OBVIOUS

LEMMA CallsType ==
    ASSUME NEW args \in UpdateArg, NEW d
    PROVE  Calls(args, d) \in Seq(HandlerOps)
<1>0. {"setCancel", "clearCancel", "pauseCollection", "clearPause", "items"}
        \subseteq HandlerOps
  BY DEF HandlerOps, Ops
<1>1. CancelCalls(args, d) \in Seq(HandlerOps)
  <2>1. CancelCalls(args, d) \in {<<"setCancel">>, <<"clearCancel">>, <<>>}
    BY Zenon DEF CancelCalls
  <2> QED  BY <1>0, <2>1, CallSequences, Zenon
<1>2. PauseCalls(args) \in Seq(HandlerOps)
  <2>1. PauseCalls(args) \in {<<"pauseCollection">>, <<"clearPause">>, <<>>}
    BY Zenon DEF PauseCalls
  <2> QED  BY <1>0, <2>1, CallSequences, Zenon
<1>3. ItemCalls(args) \in Seq(HandlerOps)
  BY <1>0, CallSequences, Zenon DEF ItemCalls
<1>4. CancelCalls(args, d) \o PauseCalls(args) \in Seq(HandlerOps)
  BY <1>1, <1>2, ConcatProperties
<1> QED  BY <1>3, <1>4, ConcatProperties DEF Calls

LEMMA UpdateKindType ==
    ASSUME NEW args, NEW d
    PROVE  UpdateKind(args, d) \in Kinds \cup {"none"}
  BY DEF UpdateKind, Kinds

LEMMA InitIInv == Init => IInv
<1> SUFFICES ASSUME Init PROVE IInv
  OBVIOUS
<1>1. NoArgs \in UpdateArg
  BY NoUpdatesType DEF NoArgs, UpdateArg
<1>2. subs \in [Requests -> GoodDoc \cup {NoDoc}]
  BY DEF Init
<1>3. HandlersGood
  <2>1. [pc |-> "idle", todo |-> <<>>, sub |-> 0, doc |-> NoDoc,
         args |-> NoArgs, kind |-> "none"] \in GoodRequest
    BY <1>1 DEF GoodRequest, Request
  <2> QED  BY <2>1 DEF Init, HandlersGood
<1>4. TasksGood
  BY DEF Init, TasksGood, GoodTask, Task
<1>5. StartedByAnswer
  BY DEF Init, StartedByAnswer
<1>6. events \in Seq(GoodEvent)
  BY EmptySeq DEF Init
<1> QED  BY <1>2, <1>3, <1>4, <1>5, <1>6 DEF IInv, Init

---------------------------------------------------------------------------

LEMMA RespondGood ==
    ASSUME HandlersGood, TasksGood, StartedByAnswer,
           NEW r \in Requests, req[r].sub # 0,
           NEW kind \in Kinds \cup {"none"}, NEW d \in GoodDoc,
           Respond(r, kind, d)
    PROVE  HandlersGood' /\ TasksGood' /\ StartedByAnswer'
<1>1. HandlersGood'
  <2> DEFINE q == [req[r] EXCEPT !.pc = "ok", !.todo = <<>>, !.doc = d,
                                 !.kind = kind]
  <2>1. d \in Doc /\ <<>> \in Seq(HandlerOps)
    BY CallSequences DEF GoodDoc
  <2>2. req[r] \in Request
    BY DEF HandlersGood, GoodRequest
  <2>3. q \in Request
    BY <2>1, <2>2 DEF Request
  <2>4. q \in GoodRequest
    BY <2>2, <2>3 DEF GoodRequest, Request
  <2>5. req' = [req EXCEPT ![r] = q]
    BY DEF Respond, HandlersGood
  <2> HIDE DEF q
  <2> QED  BY <2>4, <2>5 DEF HandlersGood
<1>2. TasksGood'
  <2>1. CASE kind \in {"lifecycle", "renewal"}
    BY <2>1 DEF TasksGood, Respond, GoodTask, Task
  <2>2. CASE kind = "none"
    BY <2>2 DEF TasksGood, Respond
  <2>3. CASE kind \notin {"lifecycle", "renewal", "none"}
    BY <2>3 DEF TasksGood, Respond, GoodTask, Task, GoodDoc
  <2> QED  BY <2>1, <2>2, <2>3
<1>3. StartedByAnswer'
  BY DEF StartedByAnswer, Respond, HandlersGood, TasksGood
<1> QED  BY <1>1, <1>2, <1>3

LEMMA ProceedGood ==
    ASSUME HandlersGood, TasksGood, StartedByAnswer,
           NEW r \in Requests, req[r].sub # 0, req[r].pc # "ok",
           NEW calls \in Seq(HandlerOps), NEW kind \in Kinds \cup {"none"},
           NEW d \in GoodDoc, Proceed(r, calls, kind, d)
    PROVE  HandlersGood' /\ TasksGood' /\ StartedByAnswer'
<1>1. CASE calls = <<>>
  BY <1>1, RespondGood DEF Proceed
<1>2. CASE calls # <<>>
  <2> DEFINE op == Head(calls)
             copy == IF op \in OnCopy THEN Apply(op, d, NoUpdates) ELSE d
             q == [req[r] EXCEPT !.pc = IF op \in OnCopy THEN "write" ELSE "read",
                                 !.doc = copy, !.todo = calls, !.kind = kind]
  <2>1. op \in Ops
    BY <1>2, HeadTailProperties DEF HandlerOps
  <2>2. copy \in GoodDoc
    <3>1. op \in OnCopy => CanApply(op, d, NoUpdates)
      BY DEF OnCopy, CanApply, ActiveOnly, PausedOnly
    <3> QED
      BY <2>1, <3>1, NoUpdatesType, ApplyType, ApplyCoherent DEF GoodDoc
  <2>3. req' = [req EXCEPT ![r] = q] /\ task' = task
    BY <1>2 DEF Proceed, HandlersGood
  <2>4. req[r] \in Request
    BY DEF HandlersGood, GoodRequest
  <2>5. q \in GoodRequest
    <3> HIDE DEF copy, op
    <3>1. q \in Request
      BY <2>2, <2>4 DEF Request, GoodDoc
    <3> QED  BY <1>2, <2>2, <2>4, <3>1 DEF GoodRequest, Request
  <2> HIDE DEF q
  <2>6. HandlersGood'
    BY <2>3, <2>5 DEF HandlersGood
  <2>7. StartedByAnswer'
    BY <2>3 DEF StartedByAnswer, HandlersGood
  <2> QED  BY <2>3, <2>6, <2>7 DEF TasksGood
<1> QED  BY <1>1, <1>2

LEMMA FailGood ==
    ASSUME IInv, NEW r \in Requests, req[r].pc \notin {"idle", "ok"}, Fail(r)
    PROVE  IInv'
<1> DEFINE q == [req[r] EXCEPT !.pc = "failed", !.todo = <<>>]
<1>1. req' = [req EXCEPT ![r] = q]
  BY DEF Fail, IInv, HandlersGood
<1>2. req[r] \in GoodRequest
  BY DEF IInv, HandlersGood
<1>3. q \in GoodRequest
  BY <1>2, CallSequences DEF GoodRequest, Request
<1> HIDE DEF q
<1>4. HandlersGood'
  BY <1>1, <1>3 DEF IInv, HandlersGood
<1>5. StartedByAnswer'
  BY <1>1 DEF Fail, IInv, StartedByAnswer, HandlersGood
<1> QED  BY <1>4, <1>5 DEF Fail, IInv, TasksGood

(* What arrives finds a request that was not sent before.                  *)
LEMMA ArriveGood ==
    ASSUME IInv, NEW r \in Requests, req[r].pc = "idle",
           NEW q \in GoodRequest, q.pc # "ok",
           req' = [req EXCEPT ![r] = q], UNCHANGED task
    PROVE  HandlersGood' /\ TasksGood' /\ StartedByAnswer'
<1>1. HandlersGood'
  BY DEF IInv, HandlersGood
<1>2. StartedByAnswer'
  BY DEF IInv, StartedByAnswer, HandlersGood
<1> QED  BY <1>1, <1>2 DEF IInv, TasksGood

LEMMA ArriveStep ==
    ASSUME IInv, NEW r \in Requests, Arrive(r)
    PROVE  IInv'
<1> USE DEF IInv
<1>1. req[r] \in Request /\ r # 0
  BY DEF HandlersGood, GoodRequest, Requests
<1>2. ASSUME NEW items \in InitialItems, CreateSubscription(r, items)
      PROVE  IInv'
  <2> DEFINE q == [req[r] EXCEPT !.pc = "reread", !.sub = r, !.kind = "lifecycle"]
  <2>1. NewDoc(items) \in GoodDoc
    BY NewDocs, SubscriptionsAssumption DEF GoodDoc
  <2>2. q \in GoodRequest
    BY <1>1 DEF HandlersGood, GoodRequest, Request, Kinds
  <2>3. req' = [req EXCEPT ![r] = q]
    BY <1>2 DEF CreateSubscription, HandlersGood
  <2>4. HandlersGood' /\ TasksGood' /\ StartedByAnswer'
    BY <1>1, <1>2, <2>2, <2>3, ArriveGood DEF CreateSubscription, Arrives, Request
  <2> QED  BY <1>2, <2>1, <2>4 DEF CreateSubscription
<1>3. ASSUME NEW items \in InitialItems, CompleteCheckout(r, items)
      PROVE  IInv'
  <2> DEFINE q == [req[r] EXCEPT !.pc = "reread", !.sub = r]
  <2>1. CheckoutDoc(items) \in GoodDoc
    BY NewDocs, SubscriptionsAssumption DEF GoodDoc
  <2>2. q \in GoodRequest
    BY <1>1 DEF HandlersGood, GoodRequest, Request
  <2>3. req' = [req EXCEPT ![r] = q]
    BY <1>3 DEF CompleteCheckout, HandlersGood
  <2>4. HandlersGood' /\ TasksGood' /\ StartedByAnswer'
    BY <1>1, <1>3, <2>2, <2>3, ArriveGood DEF CompleteCheckout, Arrives, Request
  <2> QED  BY <1>3, <2>1, <2>4 DEF CompleteCheckout
<1>4. ASSUME NEW op \in Endpoints, NEW s \in Requests, CallEndpoint(r, op, s)
      PROVE  IInv'
  <2> DEFINE q == [req[r] EXCEPT !.pc = "read", !.todo = <<op>>, !.sub = s,
                                 !.kind = KindOf(op)]
  <2>1. op \in HandlerOps /\ s # 0 /\ KindOf(op) \in Kinds
    BY DEF Endpoints, HandlerOps, Ops, Requests, KindOf, Kinds
  <2>2. q \in GoodRequest
    <3>1. <<op>> \in Seq(HandlerOps) /\ <<op>> # <<>>
      BY <2>1, CallSequences
    <3> QED
      BY <1>1, <2>1, <3>1 DEF HandlersGood, GoodRequest, Request
  <2>3. req' = [req EXCEPT ![r] = q]
    BY <1>4 DEF CallEndpoint, HandlersGood
  <2>4. HandlersGood' /\ TasksGood' /\ StartedByAnswer'
    BY <1>1, <1>4, <2>2, <2>3, ArriveGood DEF CallEndpoint, Arrives, Request
  <2> QED  BY <1>4, <2>4 DEF CallEndpoint
<1>5. ASSUME NEW s \in Requests, NEW args \in UpdateArgs,
             UpdateSubscription(r, s, args)
      PROVE  IInv'
  <2> DEFINE q == [req[r] EXCEPT !.pc = "fetch", !.sub = s, !.args = args]
  <2>1. args \in UpdateArg /\ s # 0
    BY SubscriptionsAssumption DEF Requests
  <2>2. q \in GoodRequest
    BY <1>1, <2>1 DEF HandlersGood, GoodRequest, Request
  <2>3. req' = [req EXCEPT ![r] = q]
    BY <1>5 DEF UpdateSubscription, HandlersGood
  <2>4. HandlersGood' /\ TasksGood' /\ StartedByAnswer'
    BY <1>1, <1>5, <2>2, <2>3, ArriveGood DEF UpdateSubscription, Arrives, Request
  <2> QED  BY <1>5, <2>4 DEF UpdateSubscription
<1> QED  BY <1>2, <1>3, <1>4, <1>5 DEF Arrive

LEMMA HandlerStepGood ==
    ASSUME IInv, NEW r \in Requests, HandlerStep(r)
    PROVE  IInv'
<1> USE DEF IInv
<1> DEFINE s == req[r].sub
<1>1. req[r] \in Request /\ req[r] \in GoodRequest
  BY DEF HandlersGood, GoodRequest
<1>2. req[r].pc \notin {"idle", "ok"} => s \in Requests /\ s # 0
  BY <1>1 DEF GoodRequest, Request
<1>3. s \in Requests /\ subs[s] # NoDoc => subs[s] \in GoodDoc
  OBVIOUS
<1>4. CASE Fetch(r)
  <2>1. req[r].pc = "fetch"
    BY <1>4 DEF Fetch
  <2>2. CASE Fail(r)
    BY <2>1, <2>2, FailGood
  <2>3. CASE /\ subs[s] # NoDoc
             /\ Proceed(r, Calls(req[r].args, subs[s]),
                        UpdateKind(req[r].args, subs[s]), subs[s])
             /\ UNCHANGED <<subs, events, resets, resetting>>
    <3>1. Calls(req[r].args, subs[s]) \in Seq(HandlerOps)
      BY <1>1, CallsType DEF Request
    <3>2. UpdateKind(req[r].args, subs[s]) \in Kinds \cup {"none"}
      BY UpdateKindType
    <3>3. HandlersGood' /\ TasksGood' /\ StartedByAnswer'
      BY <1>2, <1>3, <2>1, <2>3, <3>1, <3>2, ProceedGood
    <3> QED  BY <2>3, <3>3
  <2> QED  BY <1>4, <2>2, <2>3 DEF Fetch
<1>5. CASE Read(r)
  <2> DEFINE op == Head(req[r].todo)
             updates == req[r].args.items
             q == [req[r] EXCEPT !.pc = "write", !.doc = Apply(op, subs[s], updates)]
  <2>1. req[r].pc = "read"
    BY <1>5 DEF Read
  <2>2. CASE Fail(r)
    BY <2>1, <2>2, FailGood
  <2>3. CASE /\ subs[s] # NoDoc
             /\ CanApply(op, subs[s], updates)
             /\ req' = [req EXCEPT ![r].pc = "write",
                                   ![r].doc = Apply(op, subs[s], updates)]
             /\ UNCHANGED <<subs, task, events, resets, resetting>>
    <3>1. op \in Ops
      BY <1>1, <2>1, HeadTailProperties DEF GoodRequest, Request, HandlerOps
    <3>2. updates \in ItemUpdates
      BY <1>1 DEF Request, UpdateArg
    <3>3. Apply(op, subs[s], updates) \in GoodDoc
      BY <1>2, <1>3, <2>1, <2>3, <3>1, <3>2, ApplyType, ApplyCoherent DEF GoodDoc
    <3>4. req' = [req EXCEPT ![r] = q]
      BY <2>3 DEF HandlersGood
    <3>5. q \in GoodRequest
      <4> DEFINE copy == Apply(op, subs[s], updates)
      <4> HIDE DEF copy, op, updates
      <4>1. copy \in Doc
        BY <3>3 DEF GoodDoc, copy
      <4>2. q = [req[r] EXCEPT !.pc = "write", !.doc = copy]
        BY DEF copy
      <4>3. q \in Request
        BY <1>1, <4>1, <4>2 DEF Request
      <4>4. q.doc = copy /\ q.pc = "write" /\ q.todo = req[r].todo
              /\ q.sub = req[r].sub
        BY <1>1, <4>2 DEF Request
      <4>5. copy \in GoodDoc
        BY <3>3 DEF copy
      <4> HIDE DEF q
      <4> QED  BY <1>1, <2>1, <4>3, <4>4, <4>5 DEF GoodRequest
    <3> HIDE DEF q
    <3>6. HandlersGood'
      BY <3>4, <3>5 DEF HandlersGood
    <3>7. q.pc = "write"
      BY <1>1 DEF q, Request
    <3>8. StartedByAnswer'
      BY <2>1, <2>3, <3>4 DEF StartedByAnswer, HandlersGood
    <3> QED  BY <2>3, <3>6, <3>8 DEF TasksGood
  <2> QED  BY <1>5, <2>2, <2>3 DEF Read
<1>6. CASE Write(r)
  <2>1. req[r].pc = "write"
    BY <1>6 DEF Write
  <2>2. CASE Fail(r)
    BY <2>1, <2>2, FailGood
  <2>3. CASE /\ subs[s] # NoDoc
             /\ subs' = [subs EXCEPT ![s] = req[r].doc]
             /\ UNCHANGED <<events, resets, resetting>>
             /\ \/ Proceed(r, Tail(req[r].todo), req[r].kind, req[r].doc)
                \/ /\ req' = [req EXCEPT ![r].pc = "reread",
                                          ![r].todo = Tail(req[r].todo)]
                   /\ UNCHANGED task
    <3>1. req[r].doc \in GoodDoc
      BY <1>1, <2>1 DEF GoodRequest
    <3>2. Tail(req[r].todo) \in Seq(HandlerOps)
      BY <1>1, <2>1, HeadTailProperties DEF GoodRequest, Request
    <3>3. subs' \in [Requests -> GoodDoc \cup {NoDoc}]
      BY <2>3, <3>1
    <3>4. HandlersGood' /\ TasksGood' /\ StartedByAnswer'
      <4>1. CASE Proceed(r, Tail(req[r].todo), req[r].kind, req[r].doc)
        <5>1. req[r].kind \in Kinds \cup {"none"}
          BY <1>1 DEF Request
        <5> QED  BY <1>2, <2>1, <3>1, <3>2, <4>1, <5>1, ProceedGood
      <4>2. CASE /\ req' = [req EXCEPT ![r].pc = "reread",
                                       ![r].todo = Tail(req[r].todo)]
                 /\ UNCHANGED task
        <5> DEFINE q == [req[r] EXCEPT !.pc = "reread", !.todo = Tail(req[r].todo)]
        <5>1. q \in GoodRequest
          BY <1>1, <2>1, <3>2 DEF GoodRequest, Request
        <5>2. req' = [req EXCEPT ![r] = q]
          BY <4>2 DEF HandlersGood
        <5> HIDE DEF q
        <5>3. HandlersGood'
          BY <5>1, <5>2 DEF HandlersGood
        <5>4. StartedByAnswer'
          BY <2>1, <4>2, <5>2 DEF StartedByAnswer, HandlersGood
        <5> QED  BY <4>2, <5>3, <5>4 DEF TasksGood
      <4> QED  BY <2>3, <4>1, <4>2
    <3> QED  BY <2>3, <3>3, <3>4
  <2> QED  BY <1>6, <2>2, <2>3 DEF Write
<1>7. CASE Reread(r)
  <2>1. req[r].pc = "reread"
    BY <1>7 DEF Reread
  <2>2. CASE Fail(r)
    BY <2>1, <2>2, FailGood
  <2>3. CASE /\ subs[s] # NoDoc
             /\ Proceed(r, req[r].todo, req[r].kind, subs[s])
             /\ UNCHANGED <<subs, events, resets, resetting>>
    <3>1. req[r].todo \in Seq(HandlerOps) /\ req[r].kind \in Kinds \cup {"none"}
      BY <1>1 DEF Request
    <3>2. HandlersGood' /\ TasksGood' /\ StartedByAnswer'
      BY <1>2, <1>3, <2>1, <2>3, <3>1, ProceedGood
    <3> QED  BY <2>3, <3>2
  <2> QED  BY <1>7, <2>2, <2>3 DEF Reread
<1> QED  BY <1>4, <1>5, <1>6, <1>7 DEF HandlerStep

(* What a goroutine does to its own record, its handler having answered.   *)
LEMMA TaskMoves ==
    ASSUME IInv, NEW r \in Requests, req[r].pc = "ok",
           NEW t \in GoodTask, task' = [task EXCEPT ![r] = t],
           UNCHANGED <<req, resets, resetting>>,
           subs' \in [Requests -> GoodDoc \cup {NoDoc}],
           events' \in Seq(GoodEvent)
    PROVE  IInv'
<1>1. TasksGood'
  BY DEF IInv, TasksGood
<1>2. StartedByAnswer'
  BY DEF IInv, StartedByAnswer, TasksGood
<1> QED  BY <1>1, <1>2 DEF IInv, HandlersGood

LEMMA TriggerGood ==
    ASSUME IInv, NEW r \in Requests, req[r].pc = "ok",
           NEW type \in EventTypes, task[r].doc \in GoodDoc,
           Trigger(r, type, task[r].doc)
    PROVE  events' \in Seq(GoodEvent)
<1> DEFINE e == [type |-> type, sub |-> req[r].sub, by |-> r, doc |-> task[r].doc]
<1>1. req[r].sub \in Requests
  BY DEF IInv, HandlersGood, GoodRequest, Request
<1>2. e \in GoodEvent
  BY <1>1 DEF GoodEvent, Event, GoodDoc
<1> HIDE DEF e
<1>3. events' = Append(events, e)
  BY DEF Trigger, e
<1> QED  BY <1>2, <1>3, AppendProperties DEF IInv

LEMMA TaskStepGood ==
    ASSUME IInv, NEW r \in Requests, TaskStep(r)
    PROVE  IInv'
<1> DEFINE s == req[r].sub
<1>1. task[r] \in Task /\ task[r] \in GoodTask /\ task \in [Requests -> GoodTask]
  BY DEF IInv, TasksGood, GoodTask
<1>2. req[r].pc = "ok"
  BY DEF IInv, StartedByAnswer, TaskStep, TaskFetch, TaskAnnounce, TaskBilled,
         TaskAborted, TaskActivate, TaskConclude
<1>3. s \in Requests
  BY <1>2 DEF IInv, HandlersGood, GoodRequest, Request
<1>4. subs[s] \in GoodDoc \cup {NoDoc}
  BY <1>3 DEF IInv
<1>5. CASE TaskFetch(r)
  <2> DEFINE pc == IF subs[s] = NoDoc THEN "done"
                   ELSE IF req[r].kind = "lifecycle" THEN "announce"
                   ELSE "billing"
             t == [task[r] EXCEPT !.doc = subs[s], !.pc = pc]
  <2>1. pc \in {"done", "announce", "billing"} /\ (subs[s] = NoDoc => pc = "done")
    OBVIOUS
  <2>2. task' = [task EXCEPT ![r] = t]
    BY <1>1, <1>5 DEF TaskFetch
  <2> HIDE DEF pc
  <2>3. t \in GoodTask
    BY <1>1, <1>4, <2>1 DEF GoodTask, Task, GoodDoc
  <2> QED  BY <1>2, <1>5, <2>2, <2>3, TaskMoves DEF TaskFetch, IInv
<1>6. CASE TaskAnnounce(r)
  <2> DEFINE t == [task[r] EXCEPT !.pc = "billing"]
  <2>1. task[r].doc \in GoodDoc
    BY <1>1, <1>6 DEF TaskAnnounce, GoodTask
  <2>2. events' \in Seq(GoodEvent)
    BY <1>2, <1>6, <2>1, TriggerGood DEF TaskAnnounce, EventTypes
  <2>3. task' = [task EXCEPT ![r] = t]
    BY <1>1, <1>6 DEF TaskAnnounce
  <2>4. t \in GoodTask
    BY <1>1, <2>1 DEF GoodTask, Task
  <2> QED  BY <1>2, <1>6, <2>2, <2>3, <2>4, TaskMoves DEF TaskAnnounce, IInv
<1>7. CASE TaskBilled(r)
  <2> DEFINE pc == IF req[r].kind = "lifecycle" THEN "activate" ELSE "conclude"
             t == [task[r] EXCEPT !.pc = pc]
  <2>1. task' = [task EXCEPT ![r] = t]
    BY <1>1, <1>7 DEF TaskBilled
  <2>2. t \in GoodTask
    BY <1>1, <1>7 DEF TaskBilled, GoodTask, Task
  <2> QED  BY <1>2, <1>7, <2>1, <2>2, TaskMoves DEF TaskBilled, IInv
<1>8. CASE TaskAborted(r)
  <2> DEFINE t == [task[r] EXCEPT !.pc = "done"]
  <2>1. task' = [task EXCEPT ![r] = t]
    BY <1>1, <1>8 DEF TaskAborted
  <2>2. t \in GoodTask
    BY <1>1 DEF GoodTask, Task
  <2> QED  BY <1>2, <1>8, <2>1, <2>2, TaskMoves DEF TaskAborted, IInv
<1>9. CASE TaskActivate(r)
  <2> DEFINE d == Activated(task[r].doc)
             pc == IF subs[s] = NoDoc THEN "done" ELSE "conclude"
             t == [task[r] EXCEPT !.pc = pc, !.doc = d]
  <2>1. task[r].doc \in GoodDoc
    BY <1>1, <1>9 DEF TaskActivate, GoodTask
  <2>2. d \in GoodDoc
    <3>1. /\ CanApply("activate", task[r].doc, NoUpdates)
          /\ d = Apply("activate", task[r].doc, NoUpdates)
      BY DEF CanApply, ActiveOnly, PausedOnly, Apply
    <3>2. "activate" \in Ops
      BY DEF Ops
    <3> QED
      BY <2>1, <3>1, <3>2, NoUpdatesType, ApplyType, ApplyCoherent DEF GoodDoc
  <2> HIDE DEF d
  <2>3. task' = [task EXCEPT ![r] = t]
    BY <1>1, <1>9 DEF TaskActivate, d
  <2>4. t \in GoodTask
    BY <1>1, <2>2 DEF GoodTask, Task, GoodDoc
  <2>5. subs' \in [Requests -> GoodDoc \cup {NoDoc}]
    BY <1>9, <2>2 DEF TaskActivate, IInv, d
  <2> QED  BY <1>2, <1>9, <2>3, <2>4, <2>5, TaskMoves DEF TaskActivate, IInv
<1>10. CASE TaskConclude(r)
  <2> DEFINE t == [task[r] EXCEPT !.pc = "done"]
  <2>1. task[r].doc \in GoodDoc
    BY <1>1, <1>10 DEF TaskConclude, GoodTask
  <2>2. Conclusion(req[r].kind) \in EventTypes
    BY DEF Conclusion, EventTypes
  <2>3. events' \in Seq(GoodEvent)
    BY <1>2, <1>10, <2>1, <2>2, TriggerGood DEF TaskConclude
  <2>4. task' = [task EXCEPT ![r] = t]
    BY <1>1, <1>10 DEF TaskConclude
  <2>5. t \in GoodTask
    BY <1>1 DEF GoodTask, Task
  <2> QED  BY <1>2, <1>10, <2>3, <2>4, <2>5, TaskMoves DEF TaskConclude, IInv
<1> QED  BY <1>5, <1>6, <1>7, <1>8, <1>9, <1>10 DEF TaskStep

LEMMA ResetGood ==
    ASSUME IInv, ResetSubscriptions \/ ResetInvoices
    PROVE  IInv'
<1>1. CASE ResetSubscriptions
  BY <1>1 DEF ResetSubscriptions, IInv, HandlersGood, TasksGood, StartedByAnswer
<1>2. CASE ResetInvoices
  <2>1. TasksGood'
    BY <1>2 DEF ResetInvoices, IInv, TasksGood, GoodTask, Task
  <2>2. StartedByAnswer'
    BY <1>2 DEF ResetInvoices, IInv, TasksGood, GoodTask, Task, StartedByAnswer
  <2> QED  BY <1>2, <2>1, <2>2 DEF ResetInvoices, IInv, HandlersGood
<1> QED  BY <1>1, <1>2

LEMMA NextIInv == IInv /\ [Next]_vars => IInv'
<1> SUFFICES ASSUME IInv, [Next]_vars PROVE IInv'
  OBVIOUS
<1>1. ASSUME NEW r \in Requests, Arrive(r) PROVE IInv'
  BY <1>1, ArriveStep
<1>2. ASSUME NEW r \in Requests, HandlerStep(r) PROVE IInv'
  BY <1>2, HandlerStepGood
<1>3. ASSUME NEW r \in Requests, TaskStep(r) PROVE IInv'
  BY <1>3, TaskStepGood
<1>4. CASE ResetSubscriptions \/ ResetInvoices
  BY <1>4, ResetGood
<1>5. CASE UNCHANGED vars
  BY <1>5 DEF vars, IInv, HandlersGood, TasksGood, StartedByAnswer
<1> QED  BY <1>1, <1>2, <1>3, <1>4, <1>5 DEF Next

LEMMA IInvImplies == IInv => TypeOK /\ DocumentsCoherent
<1> SUFFICES ASSUME IInv PROVE TypeOK /\ DocumentsCoherent
  OBVIOUS
<1>1. NoDoc \notin Doc
  BY DocAssumption
<1>2. events \in Seq(Event)
  <2>1. GoodEvent \subseteq Event
    BY DEF GoodEvent
  <2> QED  BY <2>1, SeqMonotonic DEF IInv
<1>3. TypeOK
  BY <1>2 DEF IInv, TypeOK, HandlersGood, TasksGood, GoodRequest, GoodTask, GoodDoc
<1>4. \A i \in 1 .. Len(events) : events[i].doc \in GoodDoc
  <2> TAKE i \in 1 .. Len(events)
  <2>1. events[i] \in GoodEvent
    BY ElementOfSeq DEF IInv
  <2> QED  BY <2>1 DEF GoodEvent
<1>5. DocumentsCoherent
  BY <1>4 DEF IInv, DocumentsCoherent, HandlersGood, TasksGood, GoodRequest,
              GoodTask, GoodDoc
<1> QED  BY <1>3, <1>5

---------------------------------------------------------------------------

(* Every variable keeps its type, and no handler or goroutine writes,      *)
(* answers or announces without holding a document, for all values of the  *)
(* constants.                                                              *)
THEOREM TypeCorrect == Spec => []TypeOK
<1>1. IInv /\ [Next]_vars => IInv'
  BY NextIInv
<1> QED  BY <1>1, InitIInv, IInvImplies, PTL DEF Spec

(* Whatever requests, goroutines and resets interleave, every document     *)
(* that is stored, answered or announced is coherent.                      *)
THEOREM Coherence == Spec => []DocumentsCoherent
<1>1. IInv /\ [Next]_vars => IInv'
  BY NextIInv
<1> QED  BY <1>1, InitIInv, IInvImplies, PTL DEF Spec

---------------------------------------------------------------------------
(***************************************************************************)
(* The order of the announcements.  A goroutine announces at most twice,   *)
(* "created" on its way to the invoice and its conclusion at its end, so   *)
(* its program counter tells which of the two its events are.              *)
(***************************************************************************)

\* The lifecycle has announced the subscription.
PastCreated == {"billing", "billingLost", "activate", "conclude", "done"}

\* Event i comes from a goroutine that has come so far as to trigger it.
Accountable(i) ==
    LET r == events[i].by
    IN  /\ req[r].pc = "ok"
        /\ events[i].sub = req[r].sub
        /\ \/ events[i].type = "created" /\ task[r].pc \in PastCreated
           \/ events[i].type = Conclusion(req[r].kind) /\ task[r].pc = "done"

EachOnce ==
    \A i \in 1 .. Len(events) : \A j \in 1 .. i - 1 :
        events[j].by = events[i].by => events[j].type # events[i].type

\* Only the goroutine of a creation announces it and activates.
LifecycleOnly ==
    \A r \in Requests :
        task[r].pc \in {"announce", "activate"} => req[r].kind = "lifecycle"

EventInv == /\ \A i \in 1 .. Len(events) : Accountable(i)
            /\ EachOnce
            /\ LifecycleOnly

LEMMA EventIsEvent ==
    ASSUME IInv, NEW i \in 1 .. Len(events)
    PROVE  events[i] \in Event
<1>1. events[i] \in GoodEvent
  BY ElementOfSeq DEF IInv
<1> QED  BY <1>1 DEF GoodEvent

(* A conclusion is not a creation.                                         *)
LEMMA ConclusionNotCreated ==
    ASSUME NEW kind
    PROVE  Conclusion(kind) # "created" /\ Conclusion(kind) \in EventTypes
  BY DEF Conclusion, EventTypes

(* Steps that trigger nothing and take no goroutine back.                  *)
LEMMA NoEvent ==
    ASSUME IInv, EventInv, events' = events,
           \A q \in Requests : req[q].pc = "ok" => req'[q] = req[q],
           \A q \in Requests : task[q].pc \in PastCreated
                                  => task'[q].pc \in PastCreated,
           \A q \in Requests : task[q].pc = "done" => task'[q].pc = "done",
           LifecycleOnly'
    PROVE  EventInv'
<1>1. ASSUME NEW i \in 1 .. Len(events) PROVE Accountable(i)'
  <2>1. events[i].by \in Requests
    BY EventIsEvent DEF Event
  <2>2. Accountable(i)
    BY DEF EventInv
  <2> QED  BY <2>1, <2>2 DEF Accountable
<1> QED  BY <1>1 DEF EventInv, EachOnce

(* A goroutine triggers an event of a type it has not triggered before.    *)
LEMMA OneEvent ==
    ASSUME IInv, EventInv, NEW r \in Requests, NEW type \in EventTypes, NEW d,
           req[r].pc = "ok", req' = req, Trigger(r, type, d),
           \A q \in Requests \ {r} : task'[q] = task[q],
           task[r].pc # "done", task'[r].pc \in PastCreated,
           \/ type = "created" /\ task[r].pc \notin PastCreated
           \/ type = Conclusion(req[r].kind) /\ task'[r].pc = "done",
           LifecycleOnly'
    PROVE  EventInv'
<1> DEFINE e == [type |-> type, sub |-> req[r].sub, by |-> r, doc |-> d]
           n == Len(events)
<1>1. events \in Seq(GoodEvent) /\ n \in Nat
  BY LenProperties DEF IInv
<1>2. /\ Len(events') = n + 1
      /\ \A i \in 1 .. n : events'[i] = events[i]
      /\ events'[n + 1] = e
  BY <1>1, AppendProperties DEF Trigger
<1>3. ASSUME NEW i \in 1 .. n
      PROVE  /\ Accountable(i)'
             /\ events[i].by = r => events[i].type # type
  <2>1. events[i].by \in Requests
    BY EventIsEvent DEF Event
  <2>2. Accountable(i)
    BY DEF EventInv
  <2>3. events'[i] = events[i]
    BY <1>2
  <2>4. CASE events[i].by = r
    BY <2>2, <2>3, <2>4, ConclusionNotCreated DEF Accountable, PastCreated
  <2>5. CASE events[i].by # r
    BY <2>1, <2>2, <2>3, <2>5 DEF Accountable
  <2> QED  BY <2>4, <2>5
<1>4. ASSUME NEW i, i = n + 1
      PROVE  Accountable(i)'
  <2>1. events'[i] = e
    BY <1>2, <1>4
  <2> QED  BY <2>1, ConclusionNotCreated DEF Accountable
<1>5. EachOnce'
  <2> SUFFICES ASSUME NEW i \in 1 .. n + 1, NEW j \in 1 .. i - 1,
                      events'[j].by = events'[i].by
               PROVE  events'[j].type # events'[i].type
    BY <1>2 DEF EachOnce
  <2>1. j \in 1 .. n
    BY <1>1
  <2>2. CASE i = n + 1
    BY <1>2, <1>3, <2>1, <2>2
  <2>3. CASE i # n + 1
    <3>1. i \in 1 .. n
      BY <1>1, <2>3
    <3> QED  BY <1>2, <2>1, <3>1 DEF EventInv, EachOnce
  <2> QED  BY <2>2, <2>3
<1>6. ASSUME NEW i \in 1 .. n + 1
      PROVE  Accountable(i)'
  <2>1. CASE i \in 1 .. n
    BY <1>3, <2>1
  <2>2. CASE i = n + 1
    BY <1>4, <2>2
  <2> QED  BY <1>1, <2>1, <2>2
<1> QED  BY <1>2, <1>5, <1>6 DEF EventInv

(* Handlers that have answered do nothing any more, and the others change  *)
(* their own record and at most start their goroutine.                     *)
LEMMA HandlerFrame ==
    ASSUME IInv, NEW r \in Requests, Arrive(r) \/ HandlerStep(r)
    PROVE  /\ req[r].pc # "ok" /\ task[r].pc = "none"
           /\ events' = events
           /\ \A q \in Requests \ {r} : req'[q] = req[q] /\ task'[q] = task[q]
           /\ task'[r].pc \in {"none", "fetch", "conclude"}
<1>1. req[r].pc # "ok"
  BY DEF Arrive, HandlerStep, CreateSubscription, CompleteCheckout, CallEndpoint,
         UpdateSubscription, Arrives, Fetch, Read, Write, Reread
<1>2. task[r].pc = "none"
  BY <1>1 DEF IInv, StartedByAnswer
<1>3. req \in [Requests -> GoodRequest] /\ task \in [Requests -> GoodTask]
  BY DEF IInv, HandlersGood, TasksGood
<1>4. ASSUME NEW kind, NEW d, Respond(r, kind, d)
      PROVE  /\ \A q \in Requests \ {r} : req'[q] = req[q] /\ task'[q] = task[q]
             /\ task'[r].pc \in {"none", "fetch", "conclude"}
  <2>1. \A q \in Requests \ {r} : req'[q] = req[q]
    BY <1>3, <1>4 DEF Respond
  <2>2. CASE kind \in {"lifecycle", "renewal"}
    BY <1>3, <1>4, <2>1, <2>2 DEF Respond, GoodTask, Task
  <2>3. CASE kind = "none"
    BY <1>2, <1>4, <2>1, <2>3 DEF Respond
  <2>4. CASE kind \notin {"lifecycle", "renewal", "none"}
    BY <1>3, <1>4, <2>1, <2>4 DEF Respond, GoodTask, Task
  <2> QED  BY <2>2, <2>3, <2>4
<1>5. ASSUME NEW calls, NEW kind, NEW d, Proceed(r, calls, kind, d)
      PROVE  /\ \A q \in Requests \ {r} : req'[q] = req[q] /\ task'[q] = task[q]
             /\ task'[r].pc \in {"none", "fetch", "conclude"}
  <2>1. CASE Respond(r, kind, d)
    BY <1>4, <2>1
  <2>2. CASE ~ Respond(r, kind, d)
    BY <1>2, <1>3, <1>5, <2>2 DEF Proceed
  <2> QED  BY <2>1, <2>2
<1>6. CASE Arrive(r)
  BY <1>1, <1>2, <1>3, <1>6 DEF Arrive, CreateSubscription, CompleteCheckout,
         CallEndpoint, UpdateSubscription
<1>7. CASE Fail(r)
  BY <1>1, <1>2, <1>3, <1>7 DEF Fail
<1>8. CASE HandlerStep(r) /\ ~ Fail(r)
  <2>1. CASE Fetch(r)
    BY <1>1, <1>2, <1>5, <1>8, <2>1 DEF Fetch
  <2>2. CASE Read(r)
    BY <1>1, <1>2, <1>3, <1>8, <2>2 DEF Read
  <2>3. CASE Write(r)
    BY <1>1, <1>2, <1>3, <1>5, <1>8, <2>3 DEF Write
  <2>4. CASE Reread(r)
    BY <1>1, <1>2, <1>5, <1>8, <2>4 DEF Reread
  <2> QED  BY <1>8, <2>1, <2>2, <2>3, <2>4 DEF HandlerStep
<1> QED  BY <1>6, <1>7, <1>8

LEMMA EventInit == Init => EventInv
<1> SUFFICES ASSUME Init PROVE EventInv
  OBVIOUS
<1>1. Len(events) = 0
  BY DEF Init
<1>2. LifecycleOnly
  BY DEF Init, LifecycleOnly
<1> QED  BY <1>1, <1>2 DEF EventInv, EachOnce

LEMMA EventNext ==
    ASSUME IInv, EventInv, [Next]_vars
    PROVE  EventInv'
<1>0. LifecycleOnly /\ task \in [Requests -> GoodTask]
  BY DEF IInv, EventInv, TasksGood
<1>1. ASSUME NEW r \in Requests, Arrive(r) \/ HandlerStep(r)
      PROVE  EventInv'
  <2>1. /\ req[r].pc # "ok" /\ task[r].pc = "none" /\ events' = events
        /\ \A q \in Requests \ {r} : req'[q] = req[q] /\ task'[q] = task[q]
        /\ task'[r].pc \in {"none", "fetch", "conclude"}
    BY <1>1, HandlerFrame
  <2>2. LifecycleOnly'
    BY <1>0, <2>1 DEF LifecycleOnly
  <2> QED  BY <2>1, <2>2, NoEvent DEF PastCreated
<1>2. ASSUME NEW r \in Requests, TaskStep(r)
      PROVE  EventInv'
  <2>0. req[r].pc = "ok"
    BY <1>2 DEF IInv, StartedByAnswer, TaskStep, TaskFetch, TaskAnnounce,
           TaskBilled, TaskAborted, TaskActivate, TaskConclude
  <2>1. CASE TaskAnnounce(r)
    <3>1. /\ \A q \in Requests \ {r} : task'[q] = task[q]
          /\ task'[r].pc = "billing"
      BY <1>0, <2>1 DEF TaskAnnounce, GoodTask, Task
    <3>2. LifecycleOnly'
      BY <1>0, <2>1, <3>1 DEF LifecycleOnly, TaskAnnounce
    <3>3. /\ Trigger(r, "created", task[r].doc) /\ req' = req
          /\ task[r].pc \notin PastCreated /\ task[r].pc # "done"
          /\ "created" \in EventTypes /\ task'[r].pc \in PastCreated
      BY <2>1, <3>1 DEF TaskAnnounce, PastCreated, EventTypes
    <3> QED  BY <2>0, <3>1, <3>2, <3>3, OneEvent
  <2>2. CASE TaskConclude(r)
    <3>1. /\ \A q \in Requests \ {r} : task'[q] = task[q]
          /\ task'[r].pc = "done"
      BY <1>0, <2>2 DEF TaskConclude, GoodTask, Task
    <3>2. LifecycleOnly'
      BY <1>0, <2>2, <3>1 DEF LifecycleOnly, TaskConclude
    <3>3. /\ Trigger(r, Conclusion(req[r].kind), task[r].doc) /\ req' = req
          /\ task[r].pc # "done" /\ task'[r].pc \in PastCreated
      BY <2>2, <3>1 DEF TaskConclude, PastCreated
    <3> QED  BY <2>0, <3>1, <3>2, <3>3, OneEvent, ConclusionNotCreated
  <2>3. CASE TaskFetch(r) \/ TaskBilled(r) \/ TaskAborted(r) \/ TaskActivate(r)
    <3>1. req' = req /\ events' = events
      BY <2>3 DEF TaskFetch, TaskBilled, TaskAborted, TaskActivate
    <3>2. /\ \A q \in Requests \ {r} : task'[q] = task[q]
          /\ task[r].pc # "done"
          /\ task[r].pc \in PastCreated => task'[r].pc \in PastCreated
          /\ task'[r].pc \in {"announce", "activate"} => req[r].kind = "lifecycle"
      <4>1. CASE TaskFetch(r)
        BY <1>0, <4>1 DEF TaskFetch, GoodTask, Task, PastCreated
      <4>2. CASE TaskBilled(r)
        BY <1>0, <4>2 DEF TaskBilled, GoodTask, Task, PastCreated
      <4>3. CASE TaskAborted(r)
        BY <1>0, <4>3 DEF TaskAborted, GoodTask, Task, PastCreated
      <4>4. CASE TaskActivate(r)
        BY <1>0, <4>4 DEF TaskActivate, GoodTask, Task, PastCreated
      <4> QED  BY <2>3, <4>1, <4>2, <4>3, <4>4
    <3>3. LifecycleOnly'
      BY <1>0, <3>1, <3>2 DEF LifecycleOnly
    <3> QED  BY <3>1, <3>2, <3>3, NoEvent
  <2> QED  BY <1>2, <2>1, <2>2, <2>3 DEF TaskStep
<1>3. CASE ResetSubscriptions \/ ResetInvoices \/ UNCHANGED vars
  <2>1. req' = req /\ events' = events
    BY <1>3 DEF ResetSubscriptions, ResetInvoices, vars
  <2>2. \A q \in Requests : \/ task'[q].pc = task[q].pc
                            \/ task[q].pc = "billing" /\ task'[q].pc = "billingLost"
    BY <1>0, <1>3 DEF ResetSubscriptions, ResetInvoices, vars, GoodTask, Task
  <2>3. LifecycleOnly'
    BY <1>0, <2>1, <2>2 DEF LifecycleOnly
  <2> QED  BY <2>1, <2>2, <2>3, NoEvent DEF PastCreated
<1> QED  BY <1>1, <1>2, <1>3 DEF Next

(* Only requests that were answered with success are announced, and no     *)
(* type of event twice for the same request.                               *)
THEOREM SuccessOnly == Spec => []EventsOfSuccessOnly
<1>1. IInv /\ EventInv => EventsOfSuccessOnly
  BY DEF EventInv, Accountable, EachOnce, EventsOfSuccessOnly
<1>2. IInv /\ EventInv /\ [Next]_vars => IInv' /\ EventInv'
  BY NextIInv, EventNext
<1> QED  BY <1>1, <1>2, InitIInv, EventInit, PTL DEF Spec

---------------------------------------------------------------------------
(***************************************************************************)
(* "created" comes first.  Until a subscription is announced nothing that  *)
(* is known of it, in the repository or in a handler's copy, is active or  *)
(* paused: pausing and resuming are refused, and only the lifecycle        *)
(* activates, after it has announced.                                      *)
(***************************************************************************)

Dormant(d) == d = NoDoc \/ d.status \notin {"active", "paused"}

Quiet(s) ==
    /\ Dormant(subs[s])
    /\ task[s].pc \in {"none", "fetch", "announce", "done"}
    /\ \A q \in Requests : req[q].sub = s =>
         /\ Dormant(req[q].doc)
         /\ req[q].kind \in {"paused", "resumed"} =>
              \/ req[q].pc = "failed"
              \/ req[q].pc = "read" /\ Head(req[q].todo) \in {"pause", "resume"}

Unannounced(s) ==
    \A i \in 1 .. Len(events) : ~ (events[i].sub = s /\ events[i].type = "created")

\* Requests name subscriptions that were created.
NamesKnown ==
    \A q \in Requests :
        /\ req[q].pc = "idle" =>
             req[q].sub = 0 /\ req[q].kind = "none" /\ req[q].doc = NoDoc
        /\ req[q].sub # 0 => req[req[q].sub].sub = req[q].sub
        /\ req[q].kind = "lifecycle" => req[q].sub = q

QuietFirst == \A s \in Requests : ByApi(s) /\ Unannounced(s) => Quiet(s)

NoneOvertakes ==
    \A s \in Requests : ByApi(s) =>
        \A i \in 1 .. Len(events) :
            (events[i].sub = s /\ events[i].type \in {"paused", "resumed"})
                => \E j \in 1 .. i - 1 : events[j].sub = s /\ events[j].type = "created"

FirstInv == NamesKnown /\ QuietFirst /\ NoneOvertakes

(* No call a handler makes wakes a dormant subscription.                   *)
LEMMA StaysDormant ==
    ASSUME NEW op \in HandlerOps, NEW d \in Doc, Dormant(d), NEW updates,
           CanApply(op, d, updates)
    PROVE  Dormant(Apply(op, d, updates)) /\ op \notin {"pause", "resume"}
<1>1. d # NoDoc
  BY DocAssumption
<1>2. d.status \notin {"active", "paused"}
  BY <1>1 DEF Dormant
<1>3. op \notin {"pause", "renew", "setCancel", "items", "resume"}
  BY <1>2 DEF CanApply, ActiveOnly, PausedOnly
<1>4. op \in {"cancel", "expire", "clearCancel", "pauseCollection", "clearPause"}
  BY <1>3 DEF HandlerOps, Ops
<1>5. Apply(op, d, updates).status \in {d.status, "canceled"}
  BY <1>4 DEF Apply, Canceled, Expired, CancelUnscheduled, CollectionPaused,
              CollectionResumed, Doc
<1> QED  BY <1>2, <1>3, <1>5 DEF Dormant

(* What Proceed does to the handler's record.                              *)
LEMMA ProceedFrame ==
    ASSUME IInv, NEW r \in Requests, NEW calls \in Seq(HandlerOps), NEW kind,
           NEW d \in Doc, task[r].pc = "none", Proceed(r, calls, kind, d)
    PROVE  /\ \A q \in Requests \ {r} : req'[q] = req[q] /\ task'[q] = task[q]
           /\ req'[r].sub = req[r].sub /\ req'[r].kind = kind
           /\ Dormant(d) => Dormant(req'[r].doc)
           /\ kind = "lifecycle" => task'[r].pc \in {"none", "fetch"}
<1>1. req[r] \in Request /\ req \in [Requests -> GoodRequest]
        /\ task \in [Requests -> GoodTask]
  BY DEF IInv, HandlersGood, TasksGood, GoodRequest
<1>2. CASE calls = <<>>
  <2>1. /\ \A q \in Requests \ {r} : req'[q] = req[q]
        /\ req'[r].sub = req[r].sub /\ req'[r].kind = kind /\ req'[r].doc = d
    BY <1>1, <1>2 DEF Proceed, Respond, Request
  <2>2. CASE kind \in {"lifecycle", "renewal"}
    BY <1>1, <1>2, <2>1, <2>2 DEF Proceed, Respond, GoodTask, Task
  <2>3. CASE kind = "none"
    BY <1>2, <2>1, <2>3 DEF Proceed, Respond
  <2>4. CASE kind \notin {"lifecycle", "renewal", "none"}
    BY <1>1, <1>2, <2>1, <2>4 DEF Proceed, Respond, GoodTask, Task
  <2> QED  BY <2>2, <2>3, <2>4
<1>3. CASE calls # <<>>
  <2> DEFINE op == Head(calls)
             copy == IF op \in OnCopy THEN Apply(op, d, NoUpdates) ELSE d
  <2>1. op \in HandlerOps
    BY <1>3, HeadTailProperties
  <2>2. Dormant(d) => Dormant(copy)
    <3>1. op \in OnCopy => CanApply(op, d, NoUpdates)
      BY DEF OnCopy, CanApply, ActiveOnly, PausedOnly
    <3> QED  BY <2>1, <3>1, StaysDormant
  <2>3. /\ req' = [req EXCEPT ![r].pc = IF op \in OnCopy THEN "write" ELSE "read",
                              ![r].doc = copy, ![r].todo = calls, ![r].kind = kind]
        /\ task' = task
    BY <1>3 DEF Proceed
  <2> HIDE DEF op, copy
  <2>4. /\ \A q \in Requests \ {r} : req'[q] = req[q]
        /\ req'[r].sub = req[r].sub /\ req'[r].kind = kind /\ req'[r].doc = copy
    BY <1>1, <2>3 DEF Request
  <2> QED  BY <2>2, <2>3, <2>4
<1> QED  BY <1>2, <1>3

(* A handler that works on subscription s leaves it quiet.                 *)
LEMMA HandlerQuiet ==
    ASSUME IInv, NEW r \in Requests, HandlerStep(r), task[r].pc = "none",
           NEW s \in Requests, req[r].sub = s, Quiet(s)
    PROVE  /\ Dormant(subs'[s])
           /\ Dormant(req'[r].doc)
           /\ req'[r].kind \in {"paused", "resumed"} => req'[r].pc = "failed"
           /\ req'[r].kind = "lifecycle" => task'[r].pc \in {"none", "fetch"}
<1>1. /\ req[r] \in Request /\ req[r] \in GoodRequest
      /\ req \in [Requests -> GoodRequest]
      /\ subs \in [Requests -> GoodDoc \cup {NoDoc}]
  BY DEF IInv, HandlersGood, GoodRequest
<1>2. /\ Dormant(subs[s]) /\ Dormant(req[r].doc)
      /\ req[r].kind \in {"paused", "resumed"} =>
              \/ req[r].pc = "failed"
              \/ req[r].pc = "read" /\ Head(req[r].todo) \in {"pause", "resume"}
  BY DEF Quiet
<1>3. subs[s] # NoDoc => subs[s] \in Doc
  BY <1>1 DEF GoodDoc
<1>4. CASE Fail(r)
  BY <1>1, <1>2, <1>4 DEF Fail, Request
<1>5. CASE Fetch(r) /\ ~ Fail(r)
  <2> DEFINE kind == UpdateKind(req[r].args, subs[s])
             calls == Calls(req[r].args, subs[s])
  <2>1. calls \in Seq(HandlerOps)
    BY <1>1, CallsType DEF Request
  <2>2. kind \notin {"lifecycle", "paused", "resumed"}
    BY DEF UpdateKind
  <2>3. Proceed(r, calls, kind, subs[s]) /\ subs[s] # NoDoc /\ subs' = subs
    BY <1>5 DEF Fetch
  <2> HIDE DEF kind, calls
  <2> QED  BY <1>2, <1>3, <2>1, <2>2, <2>3, ProceedFrame
<1>6. CASE Read(r) /\ ~ Fail(r)
  <2> DEFINE op == Head(req[r].todo)
             copy == Apply(op, subs[s], req[r].args.items)
  <2>1. /\ CanApply(op, subs[s], req[r].args.items) /\ subs[s] # NoDoc
        /\ req' = [req EXCEPT ![r].pc = "write", ![r].doc = copy]
        /\ subs' = subs /\ task' = task /\ req[r].pc = "read"
    BY <1>6 DEF Read
  <2>2. op \in HandlerOps
    BY <1>1, <2>1, HeadTailProperties DEF GoodRequest, Request
  <2>3. Dormant(copy) /\ op \notin {"pause", "resume"}
    BY <1>2, <1>3, <2>1, <2>2, StaysDormant
  <2>4. req[r].kind \notin {"paused", "resumed"}
    BY <1>2, <2>1, <2>3
  <2> HIDE DEF op, copy
  <2>5. req'[r].sub = s /\ req'[r].kind = req[r].kind /\ req'[r].doc = copy
    BY <1>1, <2>1 DEF Request
  <2> QED  BY <1>2, <2>1, <2>3, <2>4, <2>5
<1>7. CASE Write(r) /\ ~ Fail(r)
  <2>1. /\ subs' = [subs EXCEPT ![s] = req[r].doc] /\ req[r].pc = "write"
        /\ \/ Proceed(r, Tail(req[r].todo), req[r].kind, req[r].doc)
           \/ /\ req' = [req EXCEPT ![r].pc = "reread",
                                     ![r].todo = Tail(req[r].todo)]
              /\ UNCHANGED task
    BY <1>7 DEF Write
  <2>2. req[r].kind \notin {"paused", "resumed"}
    BY <1>2, <2>1
  <2>3. Dormant(subs'[s])
    BY <1>1, <1>2, <2>1
  <2>4. CASE Proceed(r, Tail(req[r].todo), req[r].kind, req[r].doc)
    <3>1. Tail(req[r].todo) \in Seq(HandlerOps) /\ req[r].doc \in Doc
      BY <1>1, <2>1, HeadTailProperties DEF GoodRequest, Request, GoodDoc
    <3> QED  BY <1>2, <2>2, <2>3, <2>4, <3>1, ProceedFrame
  <2>5. CASE /\ req' = [req EXCEPT ![r].pc = "reread", ![r].todo = Tail(req[r].todo)]
             /\ UNCHANGED task
    BY <1>1, <1>2, <2>2, <2>3, <2>5 DEF Request
  <2> QED  BY <2>1, <2>4, <2>5
<1>8. CASE Reread(r) /\ ~ Fail(r)
  <2>1. /\ Proceed(r, req[r].todo, req[r].kind, subs[s]) /\ subs[s] # NoDoc
        /\ subs' = subs /\ req[r].pc = "reread"
    BY <1>8 DEF Reread
  <2>2. req[r].kind \notin {"paused", "resumed"} /\ req[r].todo \in Seq(HandlerOps)
    BY <1>1, <1>2, <2>1 DEF Request
  <2> QED  BY <1>2, <1>3, <2>1, <2>2, ProceedFrame
<1> QED  BY <1>4, <1>5, <1>6, <1>7, <1>8 DEF HandlerStep

(* A handler keeps to its subscription, and none becomes a creation.       *)
LEMMA HandlerKeeps ==
    ASSUME IInv, NEW r \in Requests, HandlerStep(r), task[r].pc = "none"
    PROVE  /\ req'[r].sub = req[r].sub /\ req'[r].pc # "idle"
           /\ req'[r].kind = "lifecycle" => req[r].kind = "lifecycle"
           /\ \A t \in Requests \ {req[r].sub} : subs'[t] = subs[t]
<1>1. /\ req[r] \in Request /\ req[r] \in GoodRequest
      /\ req \in [Requests -> GoodRequest] /\ req' \in [Requests -> GoodRequest]
      /\ subs \in [Requests -> GoodDoc \cup {NoDoc}]
  BY HandlerStepGood DEF IInv, HandlersGood, GoodRequest
<1>2. req[r].pc # "idle" /\ req[r].sub \in Requests
  BY <1>1 DEF GoodRequest, Request, HandlerStep, Fetch, Read, Write, Reread
<1>3. CASE Fail(r)
  BY <1>1, <1>3 DEF Fail, Request
<1>4. ASSUME NEW calls \in Seq(HandlerOps), NEW kind, NEW d \in Doc,
             Proceed(r, calls, kind, d)
      PROVE  /\ req'[r].sub = req[r].sub /\ req'[r].kind = kind
             /\ req'[r].pc # "idle"
  <2>1. req'[r].pc # "idle"
    BY <1>1, <1>4 DEF Proceed, Respond, Request
  <2> QED  BY <1>4, <2>1, ProceedFrame
<1>5. subs[req[r].sub] # NoDoc => subs[req[r].sub] \in Doc
  BY <1>1, <1>2 DEF GoodDoc
<1>6. CASE Fetch(r) /\ ~ Fail(r)
  <2> DEFINE kind == UpdateKind(req[r].args, subs[req[r].sub])
             calls == Calls(req[r].args, subs[req[r].sub])
  <2>1. calls \in Seq(HandlerOps) /\ kind # "lifecycle"
    BY <1>1, CallsType DEF Request, UpdateKind
  <2>2. Proceed(r, calls, kind, subs[req[r].sub]) /\ subs[req[r].sub] # NoDoc /\ subs' = subs
    BY <1>6 DEF Fetch
  <2> HIDE DEF kind, calls
  <2> QED  BY <1>4, <1>5, <2>1, <2>2
<1>7. CASE Read(r) /\ ~ Fail(r)
  BY <1>1, <1>7 DEF Read, Request
<1>8. CASE Write(r) /\ ~ Fail(r)
  <2>1. /\ subs' = [subs EXCEPT ![req[r].sub] = req[r].doc] /\ req[r].pc = "write"
        /\ \/ Proceed(r, Tail(req[r].todo), req[r].kind, req[r].doc)
           \/ req' = [req EXCEPT ![r].pc = "reread", ![r].todo = Tail(req[r].todo)]
    BY <1>8 DEF Write
  <2>2. CASE Proceed(r, Tail(req[r].todo), req[r].kind, req[r].doc)
    <3>1. Tail(req[r].todo) \in Seq(HandlerOps) /\ req[r].doc \in Doc
      BY <1>1, <2>1, HeadTailProperties DEF GoodRequest, Request, GoodDoc
    <3> QED  BY <1>1, <1>4, <2>1, <2>2, <3>1
  <2>3. CASE req' = [req EXCEPT ![r].pc = "reread", ![r].todo = Tail(req[r].todo)]
    BY <1>1, <2>1, <2>3 DEF Request
  <2> QED  BY <2>1, <2>2, <2>3
<1>9. CASE Reread(r) /\ ~ Fail(r)
  <2>1. /\ Proceed(r, req[r].todo, req[r].kind, subs[req[r].sub])
        /\ subs[req[r].sub] # NoDoc /\ subs' = subs
    BY <1>9 DEF Reread
  <2>2. req[r].todo \in Seq(HandlerOps)
    BY <1>1 DEF Request
  <2> QED  BY <1>4, <1>5, <2>1, <2>2
<1> QED  BY <1>3, <1>6, <1>7, <1>8, <1>9 DEF HandlerStep

LEMMA FirstHandler ==
    ASSUME IInv, FirstInv, NEW r \in Requests, HandlerStep(r)
    PROVE  FirstInv'
<1>1. /\ task[r].pc = "none" /\ events' = events
      /\ \A q \in Requests \ {r} : req'[q] = req[q] /\ task'[q] = task[q]
  BY HandlerFrame
<1>2. /\ req'[r].sub = req[r].sub /\ req'[r].pc # "idle"
      /\ req'[r].kind = "lifecycle" => req[r].kind = "lifecycle"
      /\ \A t \in Requests \ {req[r].sub} : subs'[t] = subs[t]
  BY <1>1, HandlerKeeps
<1>3. \A q \in Requests : req'[q].sub = req[q].sub
  BY <1>1, <1>2
<1>4. NamesKnown'
  <2> SUFFICES ASSUME NEW q \in Requests
               PROVE  /\ req'[q].pc = "idle" =>
                           req'[q].sub = 0 /\ req'[q].kind = "none" /\ req'[q].doc = NoDoc
                      /\ req'[q].sub # 0 => req'[req'[q].sub].sub = req'[q].sub
                      /\ req'[q].kind = "lifecycle" => req'[q].sub = q
    BY DEF NamesKnown
  <2>1. req[q].sub \in Requests \cup {0}
    BY DEF IInv, HandlersGood, GoodRequest, Request
  <2> QED  BY <1>1, <1>2, <1>3, <2>1 DEF FirstInv, NamesKnown
<1>5. ASSUME NEW s \in Requests, ByApi(s)'
      PROVE  ByApi(s)
  BY <1>1, <1>2, <1>5 DEF ByApi
<1>6. QuietFirst'
  <2> SUFFICES ASSUME NEW s \in Requests, ByApi(s)', Unannounced(s)'
               PROVE  Quiet(s)'
    BY DEF QuietFirst
  <2>1. ByApi(s) /\ Quiet(s)
    BY <1>1, <1>5 DEF FirstInv, QuietFirst, Unannounced
  <2>2. CASE req[r].sub = s
    <3>1. /\ Dormant(subs'[s]) /\ Dormant(req'[r].doc)
          /\ req'[r].kind \in {"paused", "resumed"} => req'[r].pc = "failed"
          /\ req'[r].kind = "lifecycle" => task'[r].pc \in {"none", "fetch"}
      BY <1>1, <2>1, <2>2, HandlerQuiet
    <3>2. task'[s].pc \in {"none", "fetch", "announce", "done"}
      BY <1>1, <2>1, <3>1 DEF Quiet, ByApi
    <3>3. ASSUME NEW q \in Requests, req'[q].sub = s
          PROVE  /\ Dormant(req'[q].doc)
                 /\ req'[q].kind \in {"paused", "resumed"} =>
                      \/ req'[q].pc = "failed"
                      \/ req'[q].pc = "read" /\ Head(req'[q].todo) \in {"pause", "resume"}
      BY <1>1, <2>1, <3>1, <3>3 DEF Quiet
    <3>4. Dormant(subs[s])'
      BY <3>1 DEF Dormant
    <3>5. \A q \in Requests : Dormant(req'[q].doc) <=> Dormant(req[q].doc)'
      BY DEF Dormant
    <3> QED  BY <3>2, <3>3, <3>4, <3>5 DEF Quiet
  <2>3. CASE req[r].sub # s
    <3>1. r # s
      BY <2>1, <2>3 DEF ByApi
    <3>2. subs'[s] = subs[s] /\ task'[s] = task[s]
      BY <1>1, <1>2, <2>3, <3>1
    <3>3. \A q \in Requests : req'[q].sub = s => req'[q] = req[q]
      BY <1>1, <1>2, <2>3
    <3> QED  BY <2>1, <3>2, <3>3 DEF Quiet, Dormant
  <2> QED  BY <2>2, <2>3
<1>7. NoneOvertakes'
  BY <1>1, <1>5 DEF FirstInv, NoneOvertakes
<1> QED  BY <1>4, <1>6, <1>7 DEF FirstInv

(* What a request leaves when it arrives, by the kind of request.          *)
LEMMA ArriveFrame ==
    ASSUME IInv, NEW r \in Requests, Arrive(r)
    PROVE  /\ req[r].pc = "idle" /\ req'[r].pc # "idle" /\ req'[r].doc = req[r].doc
           /\ events' = events /\ task' = task
           /\ \A q \in Requests \ {r} : req'[q] = req[q] /\ subs'[q] = subs[q]
           /\ req'[r].sub \in Requests
           /\ \/ /\ req'[r].sub = r
                 /\ req'[r].kind = "lifecycle" /\ Dormant(subs'[r])
              \/ /\ req'[r].sub = r
                 /\ req'[r].kind = req[r].kind
              \/ /\ req'[r].sub \in Known /\ subs' = subs
                 /\ req'[r].kind # "lifecycle" \/ req'[r].kind = req[r].kind
                 /\ \/ req'[r].kind \notin {"paused", "resumed"}
                    \/ req'[r].kind = req[r].kind
                    \/ req'[r].pc = "read" /\ Head(req'[r].todo) \in {"pause", "resume"}
<1>1. /\ req[r] \in Request /\ req \in [Requests -> GoodRequest]
      /\ subs \in [Requests -> GoodDoc \cup {NoDoc}]
  BY DEF IInv, HandlersGood, GoodRequest
<1>2. req[r].pc = "idle"
  BY DEF Arrive, CreateSubscription, CompleteCheckout, CallEndpoint,
         UpdateSubscription, Arrives
<1>3. ASSUME NEW items, CreateSubscription(r, items)
      PROVE  /\ req'[r].pc # "idle" /\ req'[r].doc = req[r].doc
             /\ events' = events /\ task' = task
             /\ \A q \in Requests \ {r} : req'[q] = req[q] /\ subs'[q] = subs[q]
             /\ req'[r].sub = r /\ req'[r].kind = "lifecycle" /\ Dormant(subs'[r])
  BY <1>1, <1>3 DEF CreateSubscription, Request, Dormant, NewDoc
<1>4. ASSUME NEW items, CompleteCheckout(r, items)
      PROVE  /\ req'[r].pc # "idle" /\ req'[r].doc = req[r].doc
             /\ events' = events /\ task' = task
             /\ \A q \in Requests \ {r} : req'[q] = req[q] /\ subs'[q] = subs[q]
             /\ req'[r].sub = r /\ req'[r].kind = req[r].kind
  BY <1>1, <1>4 DEF CompleteCheckout, Request
<1>5. ASSUME NEW op \in Endpoints, NEW s \in Requests, CallEndpoint(r, op, s)
      PROVE  /\ req'[r].pc = "read" /\ req'[r].doc = req[r].doc
             /\ events' = events /\ task' = task /\ subs' = subs
             /\ \A q \in Requests \ {r} : req'[q] = req[q]
             /\ req'[r].sub = s /\ s \in Known
             /\ req'[r].kind # "lifecycle"
             /\ req'[r].kind \in {"paused", "resumed"} => Head(req'[r].todo) \in {"pause", "resume"}
  <2>1. Head(<<op>>) = op
    OBVIOUS
  <2>2. KindOf(op) # "lifecycle"
        /\ (KindOf(op) \in {"paused", "resumed"} => op \in {"pause", "resume"})
    BY DEF KindOf
  <2>3. /\ req'[r].pc = "read" /\ req'[r].doc = req[r].doc
        /\ req'[r].sub = s /\ req'[r].kind = KindOf(op) /\ req'[r].todo = <<op>>
    BY <1>1, <1>5 DEF CallEndpoint, Request
  <2> QED  BY <1>1, <1>5, <2>1, <2>2, <2>3 DEF CallEndpoint
<1>6. ASSUME NEW s \in Requests, NEW args, UpdateSubscription(r, s, args)
      PROVE  /\ req'[r].pc # "idle" /\ req'[r].doc = req[r].doc
             /\ events' = events /\ task' = task /\ subs' = subs
             /\ \A q \in Requests \ {r} : req'[q] = req[q]
             /\ req'[r].sub = s /\ s \in Known /\ req'[r].kind = req[r].kind
  BY <1>1, <1>6 DEF UpdateSubscription, Request
<1> QED  BY <1>2, <1>3, <1>4, <1>5, <1>6 DEF Arrive

LEMMA FirstArrive ==
    ASSUME IInv, EventInv, FirstInv, NEW r \in Requests, Arrive(r)
    PROVE  FirstInv'
<1> DEFINE Facts == /\ req[r].pc = "idle" /\ req'[r].pc # "idle"
                    /\ req'[r].doc = req[r].doc /\ events' = events /\ task' = task
                    /\ req'[r].sub \in Requests
                    /\ \A q \in Requests \ {r} : req'[q] = req[q] /\ subs'[q] = subs[q]
<1>1. Facts
  BY ArriveFrame
<1>2. \/ /\ req'[r].sub = r
         /\ req'[r].kind = "lifecycle" /\ Dormant(subs'[r])
      \/ req'[r].sub = r /\ req'[r].kind = req[r].kind
      \/ /\ req'[r].sub \in Known /\ subs' = subs
         /\ req'[r].kind # "lifecycle" \/ req'[r].kind = req[r].kind
         /\ \/ req'[r].kind \notin {"paused", "resumed"}
            \/ req'[r].kind = req[r].kind
            \/ req'[r].pc = "read" /\ Head(req'[r].todo) \in {"pause", "resume"}
  BY ArriveFrame
<1>3. req[r].sub = 0 /\ req[r].kind = "none" /\ req[r].doc = NoDoc /\ r # 0
  BY <1>1 DEF FirstInv, NamesKnown, Requests
<1>4. \A q \in Requests : req[q].sub # r
  <2>1. \A q \in Requests : req[q].sub \in Requests \cup {0}
    BY DEF IInv, HandlersGood, GoodRequest, Request
  <2> QED  BY <1>3, <2>1 DEF FirstInv, NamesKnown
<1>5. \A i \in 1 .. Len(events) : events[i].sub # r
  <2> TAKE i \in 1 .. Len(events)
  <2>1. events[i].by \in Requests /\ events[i].sub = req[events[i].by].sub
    BY EventIsEvent DEF Event, EventInv, Accountable
  <2> QED  BY <1>4, <2>1
<1>6. r \notin Known
  BY <1>3 DEF Known
<1>7. NamesKnown'
  <2> SUFFICES ASSUME NEW q \in Requests
               PROVE  /\ req'[q].pc = "idle" =>
                           req'[q].sub = 0 /\ req'[q].kind = "none" /\ req'[q].doc = NoDoc
                      /\ req'[q].sub # 0 => req'[req'[q].sub].sub = req'[q].sub
                      /\ req'[q].kind = "lifecycle" => req'[q].sub = q
    BY DEF NamesKnown
  <2>1. CASE q # r
    <3>1. req[q].sub \in Requests \cup {0}
      BY DEF IInv, HandlersGood, GoodRequest, Request
    <3> QED  BY <1>1, <1>4, <2>1, <3>1 DEF FirstInv, NamesKnown
  <2>2. CASE q = r
    <3>1. req'[r].sub \in Known => req'[r].sub \in Requests \ {r}
                                    /\ req[req'[r].sub].sub = req'[r].sub
      BY <1>6 DEF Known
    <3> QED  BY <1>1, <1>2, <1>3, <2>2, <3>1
  <2> QED  BY <2>1, <2>2
<1>8. ASSUME NEW s \in Requests, ByApi(s)', s # r
      PROVE  ByApi(s)
  BY <1>1, <1>8 DEF ByApi
<1>9. QuietFirst'
  <2> SUFFICES ASSUME NEW s \in Requests, ByApi(s)', Unannounced(s)'
               PROVE  Quiet(s)'
    BY DEF QuietFirst
  <2>1. CASE s = r
    <3>1. req'[r].kind = "lifecycle" /\ req'[r].sub = r
      BY <2>1 DEF ByApi
    <3>2. Dormant(subs'[r])
      BY <1>2, <1>3, <1>6, <3>1
    <3>3. \A q \in Requests : req'[q].sub = r => q = r
      BY <1>1, <1>4
    <3>4. task'[r].pc = "none"
      BY <1>1 DEF IInv, StartedByAnswer
    <3> QED  BY <1>1, <1>3, <2>1, <3>1, <3>2, <3>3, <3>4 DEF Quiet, Dormant
  <2>2. CASE s # r
    <3>1. Quiet(s)
      BY <1>1, <1>8, <2>2 DEF FirstInv, QuietFirst, Unannounced
    <3>2. subs'[s] = subs[s] /\ task'[s] = task[s]
      BY <1>1, <2>2
    <3>3. \A q \in Requests \ {r} : req'[q] = req[q]
      BY <1>1
    <3>4. req'[r].sub = s => \/ req'[r].kind \notin {"paused", "resumed"}
                             \/ req'[r].pc = "read" /\ Head(req'[r].todo) \in {"pause", "resume"}
      BY <1>2, <1>3, <2>2
    <3>5. req'[r].doc = NoDoc
      BY <1>1, <1>3
    <3> QED  BY <3>1, <3>2, <3>3, <3>4, <3>5 DEF Quiet, Dormant
  <2> QED  BY <2>1, <2>2
<1>10. NoneOvertakes'
  <2> SUFFICES ASSUME NEW s \in Requests, ByApi(s)', NEW i \in 1 .. Len(events),
                      events[i].sub = s, events[i].type \in {"paused", "resumed"}
               PROVE  \E j \in 1 .. i - 1 : events[j].sub = s /\ events[j].type = "created"
    BY <1>1 DEF NoneOvertakes
  <2> QED  BY <1>5, <1>8 DEF FirstInv, NoneOvertakes
<1> QED  BY <1>7, <1>9, <1>10 DEF FirstInv

(* Events only join at the end.                                            *)
LEMMA EventsGrow ==
    ASSUME IInv, NEW r \in Requests, NEW type, NEW d, Trigger(r, type, d)
    PROVE  /\ Len(events') = Len(events) + 1 /\ Len(events) \in Nat
           /\ \A i \in 1 .. Len(events) : events'[i] = events[i]
           /\ events'[Len(events) + 1] =
                [type |-> type, sub |-> req[r].sub, by |-> r, doc |-> d]
<1>1. events \in Seq(GoodEvent) /\ Len(events) \in Nat
  BY LenProperties DEF IInv
<1> QED  BY <1>1, AppendProperties DEF Trigger

LEMMA FirstTask ==
    ASSUME IInv, EventInv, FirstInv, NEW r \in Requests, TaskStep(r)
    PROVE  FirstInv'
<1>1. /\ req' = req /\ req[r].pc = "ok"
      /\ task \in [Requests -> GoodTask] /\ subs \in [Requests -> GoodDoc \cup {NoDoc}]
  BY DEF IInv, StartedByAnswer, TasksGood, TaskStep, TaskFetch, TaskAnnounce,
         TaskBilled, TaskAborted, TaskActivate, TaskConclude
<1>2. NamesKnown'
  BY <1>1 DEF FirstInv, NamesKnown
<1>3. \A s \in Requests : ByApi(s)' <=> ByApi(s)
  BY <1>1 DEF ByApi
<1>4. task[r].pc \in {"announce", "activate"} => req[r].sub = r /\ ByApi(r)
  BY DEF EventInv, LifecycleOnly, FirstInv, NamesKnown, ByApi
<1>5. CASE events' = events /\ ~ TaskConclude(r) /\ ~ TaskAnnounce(r)
  <2>1. NoneOvertakes'
    BY <1>3, <1>5 DEF FirstInv, NoneOvertakes
  <2>2. QuietFirst'
    <3> SUFFICES ASSUME NEW s \in Requests, ByApi(s), Quiet(s)
                 PROVE  Quiet(s)'
      BY <1>3, <1>5 DEF FirstInv, QuietFirst, Unannounced
    <3>1. subs'[s] = subs[s] /\ task'[s].pc \in {"none", "fetch", "announce", "done"}
      <4>1. CASE TaskFetch(r)
        BY <1>1, <4>1 DEF TaskFetch, Quiet, ByApi, GoodTask, Task
      <4>2. CASE TaskBilled(r)
        BY <1>1, <4>2 DEF TaskBilled, Quiet, GoodTask, Task
      <4>3. CASE TaskAborted(r)
        BY <1>1, <4>3 DEF TaskAborted, Quiet, GoodTask, Task
      <4>4. CASE TaskActivate(r)
        BY <1>1, <1>4, <4>4 DEF TaskActivate, Quiet, GoodTask, Task
      <4> QED  BY <1>5, <4>1, <4>2, <4>3, <4>4 DEF TaskStep
    <3> QED  BY <1>1, <3>1 DEF Quiet, Dormant
  <2> QED  BY <1>2, <2>1, <2>2 DEF FirstInv
<1>6. ASSUME NEW type, NEW d, Trigger(r, type, d), subs' = subs,
             \A q \in Requests \ {r} : task'[q] = task[q],
             ~ (ByApi(r) /\ Unannounced(r)) \/ (type = "created" /\ req[r].sub = r),
             type \in {"paused", "resumed"} => req[r].kind = type
      PROVE  FirstInv'
  <2>1. /\ Len(events') = Len(events) + 1 /\ Len(events) \in Nat
        /\ \A i \in 1 .. Len(events) : events'[i] = events[i]
        /\ events'[Len(events) + 1] =
             [type |-> type, sub |-> req[r].sub, by |-> r, doc |-> d]
    BY <1>6, EventsGrow
  <2>2. ASSUME NEW s \in Requests, Unannounced(s)'
        PROVE  Unannounced(s) /\ ~ (type = "created" /\ req[r].sub = s)
    BY <2>1, <2>2 DEF Unannounced
  <2>3. QuietFirst'
    <3> SUFFICES ASSUME NEW s \in Requests, ByApi(s), Unannounced(s)'
                 PROVE  Quiet(s)'
      BY <1>3 DEF QuietFirst
    <3>1. Quiet(s) /\ s # r
      BY <1>6, <2>2 DEF FirstInv, QuietFirst
    <3> QED  BY <1>1, <1>6, <3>1 DEF Quiet, Dormant
  <2>4. NoneOvertakes'
    <3> SUFFICES ASSUME NEW s \in Requests, ByApi(s), NEW i \in 1 .. Len(events) + 1,
                        events'[i].sub = s, events'[i].type \in {"paused", "resumed"}
                 PROVE  \E j \in 1 .. i - 1 :
                          events'[j].sub = s /\ events'[j].type = "created"
      BY <1>3, <2>1 DEF NoneOvertakes
    <3>1. CASE i \in 1 .. Len(events)
      <4>1. PICK j \in 1 .. i - 1 : events[j].sub = s /\ events[j].type = "created"
        BY <2>1, <3>1 DEF FirstInv, NoneOvertakes
      <4>2. j \in 1 .. Len(events)
        BY <2>1, <3>1
      <4> QED  BY <2>1, <4>1, <4>2
    <3>2. CASE i = Len(events) + 1
      <4>1. req[r].sub = s /\ type \in {"paused", "resumed"}
        BY <2>1, <3>2
      <4>2. ~ Quiet(s)
        BY <1>1, <1>6, <4>1 DEF Quiet
      <4>3. ~ Unannounced(s)
        BY <4>2 DEF FirstInv, QuietFirst
      <4>4. PICK j \in 1 .. Len(events) : events[j].sub = s /\ events[j].type = "created"
        BY <4>3 DEF Unannounced
      <4> QED  BY <2>1, <3>2, <4>4
    <3> QED  BY <2>1, <3>1, <3>2
  <2> QED  BY <1>2, <2>3, <2>4 DEF FirstInv
<1>7. CASE TaskAnnounce(r)
  <2>1. Trigger(r, "created", task[r].doc) /\ subs' = subs /\ req[r].sub = r
    BY <1>4, <1>7 DEF TaskAnnounce
  <2>2. \A q \in Requests \ {r} : task'[q] = task[q]
    BY <1>1, <1>7 DEF TaskAnnounce
  <2> QED  BY <1>6, <2>1, <2>2
<1>8. CASE TaskConclude(r)
  <2>1. /\ Trigger(r, Conclusion(req[r].kind), task[r].doc) /\ subs' = subs
        /\ task[r].pc = "conclude"
    BY <1>8 DEF TaskConclude
  <2>2. \A q \in Requests \ {r} : task'[q] = task[q]
    BY <1>1, <1>8 DEF TaskConclude
  <2>3. ~ (ByApi(r) /\ Unannounced(r))
    BY <2>1 DEF FirstInv, QuietFirst, Quiet
  <2>4. PICK type : type = Conclusion(req[r].kind)
    OBVIOUS
  <2>5. type \in {"paused", "resumed"} => req[r].kind = type
    BY <2>4 DEF Conclusion
  <2>6. PICK d : Trigger(r, type, d)
    BY <2>1, <2>4
  <2>7. ~ (ByApi(r) /\ Unannounced(r)) \/ (type = "created" /\ req[r].sub = r)
    BY <2>3
  <2> QED  BY <1>6, <2>1, <2>2, <2>5, <2>6, <2>7
<1>9. TaskConclude(r) \/ TaskAnnounce(r) \/ events' = events
  BY DEF TaskStep, TaskFetch, TaskBilled, TaskAborted, TaskActivate
<1> QED  BY <1>5, <1>7, <1>8, <1>9

LEMMA FirstNext ==
    ASSUME IInv, EventInv, FirstInv, [Next]_vars
    PROVE  FirstInv'
<1>1. CASE ResetSubscriptions \/ ResetInvoices \/ UNCHANGED vars
  <2>1. req' = req /\ events' = events
    BY <1>1 DEF ResetSubscriptions, ResetInvoices, vars
  <2>2. \A s \in Requests : subs'[s] \in {subs[s], NoDoc}
    BY <1>1 DEF ResetSubscriptions, ResetInvoices, vars
  <2>3. \A s \in Requests :
          task'[s].pc = task[s].pc \/ task[s].pc = "billing"
    BY <1>1 DEF ResetSubscriptions, ResetInvoices, vars, IInv, TasksGood, GoodTask, Task
  <2>4. QuietFirst'
    <3> SUFFICES ASSUME NEW s \in Requests, Quiet(s)
                 PROVE  Quiet(s)'
      BY <2>1 DEF FirstInv, QuietFirst, ByApi, Unannounced
    <3> QED  BY <2>1, <2>2, <2>3 DEF Quiet, Dormant
  <2> QED  BY <2>1, <2>4 DEF FirstInv, NamesKnown, NoneOvertakes, ByApi
<1> QED  BY <1>1, FirstArrive, FirstHandler, FirstTask DEF Next

LEMMA FirstInit == Init => FirstInv
<1> SUFFICES ASSUME Init PROVE FirstInv
  OBVIOUS
<1>1. \A q \in Requests : /\ req[q].sub = 0 /\ req[q].kind = "none"
                          /\ req[q].doc = NoDoc /\ q # 0
  BY DEF Init, Requests
<1> QED  BY <1>1 DEF FirstInv, NamesKnown, QuietFirst, NoneOvertakes, ByApi

(* Nobody sees a subscription active or paused, and no event says so,      *)
(* before subscription.created is out.                                     *)
THEOREM CreatedIsFirst == Spec => []CreatedAnnouncedFirst
<1>1. IInv /\ FirstInv => CreatedAnnouncedFirst
  <2> SUFFICES ASSUME IInv, FirstInv, NEW s \in Requests, ByApi(s)
               PROVE  /\ (subs[s] # NoDoc /\ subs[s].status \in {"active", "paused"})
                            => Announced(s, Len(events))
                      /\ \A i \in 1 .. Len(events) :
                           (events[i].sub = s /\ events[i].type \in {"paused", "resumed"})
                             => Announced(s, i - 1)
    BY DEF CreatedAnnouncedFirst
  <2>1. Unannounced(s) => Dormant(subs[s])
    BY DEF FirstInv, QuietFirst, Quiet
  <2>2. ~ Unannounced(s) => Announced(s, Len(events))
    BY DEF Unannounced, Announced
  <2> QED  BY <2>1, <2>2 DEF Dormant, FirstInv, NoneOvertakes, Announced
<1>2. /\ Init => IInv /\ EventInv /\ FirstInv
      /\ IInv /\ EventInv /\ FirstInv /\ [Next]_vars => IInv' /\ EventInv' /\ FirstInv'
  BY InitIInv, EventInit, FirstInit, NextIInv, EventNext, FirstNext
<1> QED  BY <1>1, <1>2, PTL DEF Spec

---------------------------------------------------------------------------
(***************************************************************************)
(* One writer of each subscription at a time (OneByOne).  What a handler   *)
(* or goroutine holds of a subscription is then what is stored, or the     *)
(* subscription is gone, so the step that writes it is the whole operation *)
(* on the stored document.  Handlers that have yet to read, goroutines     *)
(* that only announce, requests for other subscriptions and resets may     *)
(* come at any moment between.                                             *)
(***************************************************************************)

\* The copy about to be written is the operation's result on what is stored.
WritesCurrent ==
    \A r \in Requests : (req[r].pc = "write" /\ subs[req[r].sub] # NoDoc) =>
        \E updates \in ItemUpdates :
             /\ CanApply(Head(req[r].todo), subs[req[r].sub], updates)
             /\ req[r].doc = Apply(Head(req[r].todo), subs[req[r].sub], updates)

\* Until its goroutine has activated it a new subscription waits unchanged.
Waiting ==
    \A r \in Requests :
        (Busy(r) /\ req[r].kind = "lifecycle" /\ task[r].pc # "conclude") =>
            /\ \/ req[r].pc = "ok"
               \/ req[r].pc = "reread" /\ req[r].todo = <<>>
            /\ subs[req[r].sub] # NoDoc =>
                 /\ subs[req[r].sub].status = "incomplete"
                 /\ task[r].pc \in {"announce", "billing", "billingLost", "activate"}
                      => task[r].doc = subs[req[r].sub]

\* Only what was created is stored.
StoredWasMade ==
    /\ \A s \in Requests : subs[s] # NoDoc => req[s].sub = s
    /\ \A r \in Requests : req[r].pc = "idle" => req[r].todo = <<>>

AtomInv == WritesCurrent /\ Waiting /\ StoredWasMade

(* The abstract specification speaks of the same documents and operations. *)
LEMMA SameDocs ==
    /\ Atomic!Ops = Ops /\ Atomic!ItemUpdates = ItemUpdates
    /\ \A op, d, updates : Atomic!CanApply(op, d, updates) <=> CanApply(op, d, updates)
    /\ \A op, d, updates : Atomic!Apply(op, d, updates) = Apply(op, d, updates)
    /\ \A items : Atomic!NewDoc(items) = NewDoc(items)
    /\ \A items : Atomic!CheckoutDoc(items) = CheckoutDoc(items)
<1>1. \A items : Atomic!Left(items) = Left(items) /\ Atomic!First(items) = First(items)
  BY DEF Left, First, Atomic!Left, Atomic!First
<1>2. /\ Atomic!Ops = Ops /\ Atomic!ItemUpdates = ItemUpdates
      /\ Atomic!ActiveOnly = ActiveOnly /\ Atomic!PausedOnly = PausedOnly
  BY DEF Ops, ItemUpdates, Atomic!Ops, Atomic!ItemUpdates, ActiveOnly,
         Atomic!ActiveOnly, PausedOnly, Atomic!PausedOnly
<1>3. \A op, d, updates : Atomic!CanApply(op, d, updates) <=> CanApply(op, d, updates)
  BY <1>1, <1>2 DEF CanApply, Atomic!CanApply, PriceMissing, Atomic!PriceMissing
<1>4. \A items : /\ Atomic!NewDoc(items) = NewDoc(items)
                 /\ Atomic!CheckoutDoc(items) = CheckoutDoc(items)
  BY DEF NewDoc, CheckoutDoc, Atomic!NewDoc, Atomic!CheckoutDoc
<1>5. ASSUME NEW d, NEW updates
      PROVE  /\ Atomic!Paused(d) = Paused(d) /\ Atomic!Resumed(d) = Resumed(d)
             /\ Atomic!Canceled(d) = Canceled(d) /\ Atomic!Expired(d) = Expired(d)
             /\ Atomic!CancelScheduled(d) = CancelScheduled(d)
             /\ Atomic!CancelUnscheduled(d) = CancelUnscheduled(d)
             /\ Atomic!Renewed(d) = Renewed(d)
             /\ Atomic!CollectionPaused(d) = CollectionPaused(d)
             /\ Atomic!CollectionResumed(d) = CollectionResumed(d)
             /\ Atomic!WithItems(d, updates) = WithItems(d, updates)
             /\ Atomic!Activated(d) = Activated(d)
  <2>1. /\ Atomic!Paused(d) = Paused(d) /\ Atomic!Resumed(d) = Resumed(d)
        /\ Atomic!Canceled(d) = Canceled(d)
        /\ Atomic!CancelUnscheduled(d) = CancelUnscheduled(d)
        /\ Atomic!CollectionPaused(d) = CollectionPaused(d)
        /\ Atomic!CollectionResumed(d) = CollectionResumed(d)
        /\ Atomic!Activated(d) = Activated(d)
    BY DEF Paused, Resumed, Canceled, CancelUnscheduled, CollectionPaused,
           CollectionResumed, Activated, Atomic!Paused, Atomic!Resumed,
           Atomic!Canceled, Atomic!CancelUnscheduled, Atomic!CollectionPaused,
           Atomic!CollectionResumed, Atomic!Activated
  <2>2. Atomic!Expired(d) = Expired(d)
    BY <2>1 DEF Expired, Atomic!Expired
  <2>3. Atomic!CancelScheduled(d) = CancelScheduled(d)
    BY <1>1 DEF CancelScheduled, Atomic!CancelScheduled
  <2>4. Atomic!Renewed(d) = Renewed(d)
    BY <1>1, <2>1 DEF Renewed, Atomic!Renewed
  <2>5. Atomic!WithItems(d, updates) = WithItems(d, updates)
    BY <1>1 DEF WithItems, Atomic!WithItems
  <2> QED  BY <2>1, <2>2, <2>3, <2>4, <2>5
<1>6. \A op, d, updates : Atomic!Apply(op, d, updates) = Apply(op, d, updates)
  BY <1>5 DEF Apply, Atomic!Apply
<1> QED  BY <1>2, <1>3, <1>4, <1>6

(* A call on a copy is made on what is stored.                             *)
LEMMA ProceedCurrent ==
    ASSUME IInv, NEW r \in Requests, NEW calls \in Seq(HandlerOps), NEW kind,
           NEW d \in Doc, task[r].pc = "none", Proceed(r, calls, kind, d)
    PROVE  /\ req'[r].pc = "write" =>
                /\ CanApply(Head(req'[r].todo), d, NoUpdates)
                /\ req'[r].doc = Apply(Head(req'[r].todo), d, NoUpdates)
           /\ (kind = "lifecycle" /\ calls = <<>>) => req'[r].pc = "ok" /\ task'[r].pc = "fetch"
<1>1. req[r] \in Request /\ req \in [Requests -> GoodRequest]
        /\ task \in [Requests -> GoodTask]
  BY DEF IInv, HandlersGood, TasksGood, GoodRequest
<1>2. CASE calls = <<>>
  BY <1>1, <1>2 DEF Proceed, Respond, Request, GoodTask, Task
<1>3. CASE calls # <<>>
  <2>1. Head(calls) \in OnCopy => CanApply(Head(calls), d, NoUpdates)
    BY DEF OnCopy, CanApply, ActiveOnly, PausedOnly
  <2> DEFINE copy == Apply(Head(calls), d, NoUpdates)
  <2>2. req' = [req EXCEPT ![r].pc   = IF Head(calls) \in OnCopy THEN "write" ELSE "read",
                           ![r].doc  = IF Head(calls) \in OnCopy THEN copy ELSE d,
                           ![r].todo = calls,
                           ![r].kind = kind]
    BY <1>3 DEF Proceed
  <2> HIDE DEF copy
  <2>3. req'[r].todo = calls /\ (req'[r].pc = "write" => Head(calls) \in OnCopy /\ req'[r].doc = copy)
    BY <1>1, <2>2 DEF Request
  <2> QED  BY <1>3, <2>1, <2>3 DEF copy
<1> QED  BY <1>2, <1>3

(* What a handler whose copy is current does to the store and to itself.   *)
LEMMA HandlerAlone ==
    ASSUME IInv, EventInv, FirstInv, AtomInv, NEW r \in Requests, HandlerStep(r)
    PROVE  /\ subs' = subs \/ (Atomic!Next /\ req[r].pc = "write")
           /\ \A s \in Requests : subs'[s] # NoDoc => subs[s] # NoDoc
           /\ req'[r].pc = "write" =>
                /\ subs'[req[r].sub] # NoDoc
                /\ \E updates \in ItemUpdates :
                     /\ CanApply(Head(req'[r].todo), subs'[req[r].sub], updates)
                     /\ req'[r].doc = Apply(Head(req'[r].todo), subs'[req[r].sub], updates)
           /\ req'[r].kind = "lifecycle" =>
                /\ subs' = subs /\ req[r].kind = "lifecycle"
                /\ req'[r].pc \in {"ok", "failed"}
                /\ task'[r].pc \in {"none", "fetch"}
<1> DEFINE s == req[r].sub
<1>1. /\ req[r] \in Request /\ req[r] \in GoodRequest
      /\ req \in [Requests -> GoodRequest]
      /\ subs \in [Requests -> GoodDoc \cup {NoDoc}]
  BY DEF IInv, HandlersGood, GoodRequest
<1>2. task[r].pc = "none" /\ s \in Requests
  BY <1>1, HandlerFrame DEF GoodRequest, Request, HandlerStep, Fetch, Read, Write, Reread
<1>3. Busy(r)
  BY DEF Busy, HandlerStep, Fetch, Read, Write, Reread
<1>4. subs[s] # NoDoc => subs[s] \in Doc
  BY <1>1, <1>2 DEF GoodDoc
<1>5. req[r].kind = "lifecycle" => req[r].pc = "reread" /\ req[r].todo = <<>>
  BY <1>2, <1>3 DEF AtomInv, Waiting, HandlerStep, Fetch, Read, Write, Reread
<1>6. NoUpdates \in ItemUpdates
  BY NoUpdatesType
<1>7. CASE Fail(r)
  BY <1>1, <1>2, <1>7 DEF Fail, Request
<1>8. CASE Fetch(r) /\ ~ Fail(r)
  <2> DEFINE kind == UpdateKind(req[r].args, subs[s])
             calls == Calls(req[r].args, subs[s])
  <2>1. calls \in Seq(HandlerOps) /\ kind # "lifecycle"
    BY <1>1, CallsType DEF Request, UpdateKind
  <2>2. Proceed(r, calls, kind, subs[s]) /\ subs[s] # NoDoc /\ subs' = subs
    BY <1>8 DEF Fetch
  <2> HIDE DEF kind, calls
  <2>3. req'[r].kind = kind
    BY <1>2, <1>4, <2>1, <2>2, ProceedFrame
  <2>4. req'[r].pc = "write" =>
          /\ CanApply(Head(req'[r].todo), subs[s], NoUpdates)
          /\ req'[r].doc = Apply(Head(req'[r].todo), subs[s], NoUpdates)
    BY <1>2, <1>4, <2>1, <2>2, ProceedCurrent
  <2> QED  BY <1>6, <2>1, <2>2, <2>3, <2>4
<1>9. CASE Read(r) /\ ~ Fail(r)
  <2> DEFINE op == Head(req[r].todo)
             updates == req[r].args.items
             copy == Apply(op, subs[s], updates)
  <2>1. /\ CanApply(op, subs[s], updates) /\ subs[s] # NoDoc
        /\ req' = [req EXCEPT ![r].pc = "write", ![r].doc = copy]
        /\ subs' = subs /\ task' = task /\ req[r].pc = "read"
    BY <1>9 DEF Read
  <2>2. updates \in ItemUpdates
    BY <1>1 DEF Request, UpdateArg
  <2> HIDE DEF updates, copy
  <2>3. req'[r].todo = req[r].todo /\ req'[r].doc = copy /\ req'[r].kind = req[r].kind
    BY <1>1, <2>1 DEF Request
  <2> QED  BY <1>5, <2>1, <2>2, <2>3 DEF copy
<1>10. CASE Write(r) /\ ~ Fail(r)
  <2> DEFINE op == Head(req[r].todo)
             rest == Tail(req[r].todo)
  <2>1. /\ subs[s] # NoDoc /\ req[r].pc = "write"
        /\ subs' = [subs EXCEPT ![s] = req[r].doc]
        /\ \/ Proceed(r, rest, req[r].kind, req[r].doc)
           \/ req' = [req EXCEPT ![r].pc = "reread", ![r].todo = rest]
    BY <1>10 DEF Write
  <2>2. op \in HandlerOps /\ rest \in Seq(HandlerOps) /\ req[r].doc \in Doc
    BY <1>1, <2>1, HeadTailProperties DEF GoodRequest, Request, GoodDoc
  <2>3. req[r].kind # "lifecycle"
    BY <1>5, <2>1
  <2>4. PICK updates \in ItemUpdates :
          CanApply(op, subs[s], updates) /\ req[r].doc = Apply(op, subs[s], updates)
    BY <2>1 DEF AtomInv, WritesCurrent
  <2>5. Atomic!Next
    <3>1. op \in Ops /\ op # "activate"
      BY <2>2 DEF HandlerOps
    <3>2. Atomic!Operate(s)
      BY <2>1, <2>4, <3>1, SameDocs DEF Atomic!Operate
    <3> QED  BY <1>2, <3>2 DEF Atomic!Next
  <2>6. /\ subs'[s] = req[r].doc /\ subs'[s] # NoDoc
        /\ \A t \in Requests : subs'[t] # NoDoc => subs[t] # NoDoc
    BY <1>1, <1>2, <2>1, <2>2, DocAssumption
  <2> HIDE DEF op, rest
  <2>7. CASE Proceed(r, rest, req[r].kind, req[r].doc)
    <3>1. req'[r].kind = req[r].kind
      BY <1>2, <2>2, <2>7, ProceedFrame
    <3>2. req'[r].pc = "write" =>
            /\ CanApply(Head(req'[r].todo), req[r].doc, NoUpdates)
            /\ req'[r].doc = Apply(Head(req'[r].todo), req[r].doc, NoUpdates)
      BY <1>2, <2>2, <2>7, ProceedCurrent
    <3> QED  BY <1>6, <2>1, <2>3, <2>5, <2>6, <3>1, <3>2
  <2>8. CASE req' = [req EXCEPT ![r].pc = "reread", ![r].todo = rest]
    <3>1. req'[r].kind = req[r].kind /\ req'[r].pc = "reread"
      BY <1>1, <2>8 DEF Request
    <3> QED  BY <2>1, <2>3, <2>5, <2>6, <3>1
  <2> QED  BY <2>1, <2>7, <2>8
<1>11. CASE Reread(r) /\ ~ Fail(r)
  <2>1. /\ Proceed(r, req[r].todo, req[r].kind, subs[s]) /\ subs[s] # NoDoc
        /\ subs' = subs
    BY <1>11 DEF Reread
  <2>2. req[r].todo \in Seq(HandlerOps)
    BY <1>1 DEF Request
  <2>3. req'[r].kind = req[r].kind
    BY <1>2, <1>4, <2>1, <2>2, ProceedFrame
  <2>4. /\ req'[r].pc = "write" =>
             /\ CanApply(Head(req'[r].todo), subs[s], NoUpdates)
             /\ req'[r].doc = Apply(Head(req'[r].todo), subs[s], NoUpdates)
        /\ (req[r].kind = "lifecycle" /\ req[r].todo = <<>>)
             => req'[r].pc = "ok" /\ task'[r].pc = "fetch"
    BY <1>2, <1>4, <2>1, <2>2, ProceedCurrent
  <2> QED  BY <1>5, <1>6, <2>1, <2>3, <2>4
<1> QED  BY <1>7, <1>8, <1>9, <1>10, <1>11 DEF HandlerStep

(* What others hold stays current when r writes only what it holds, makes  *)
(* no other subscription appear and leaves the others' state alone.        *)
LEMMA OthersStayCurrent ==
    ASSUME IInv, FirstInv, AtomInv, OneByOne, NEW r \in Requests, NEW q \in Requests \ {r},
           req'[q] = req[q], task'[q] = task[q],
           \/ subs' = subs
           \/ Holds(r) /\ \A t \in Requests \ {req[r].sub} : subs'[t] = subs[t]
           \/ req[r].sub = 0 /\ r # 0 /\ \A t \in Requests \ {r} : subs'[t] = subs[t]
    PROVE  /\ (req'[q].pc = "write" /\ subs'[req'[q].sub] # NoDoc) =>
                \E updates \in ItemUpdates :
                  /\ CanApply(Head(req'[q].todo), subs'[req'[q].sub], updates)
                  /\ req'[q].doc = Apply(Head(req'[q].todo), subs'[req'[q].sub], updates)
           /\ (Busy(q)' /\ req'[q].kind = "lifecycle" /\ task'[q].pc # "conclude") =>
                /\ \/ req'[q].pc = "ok"
                   \/ req'[q].pc = "reread" /\ req'[q].todo = <<>>
                /\ subs'[req'[q].sub] # NoDoc =>
                     /\ subs'[req'[q].sub].status = "incomplete"
                     /\ task'[q].pc \in {"announce", "billing", "billingLost", "activate"}
                          => task'[q].doc = subs'[req'[q].sub]
<1>1. req \in [Requests -> GoodRequest]
  BY DEF IInv, HandlersGood
<1>2. ASSUME Holds(q) PROVE subs'[req[q].sub] = subs[req[q].sub]
  <2>1. req[q].sub \in Requests
    <3>1. req[q].pc # "idle"
      BY <1>2 DEF Holds, Busy, IInv, StartedByAnswer
    <3> QED  BY <1>1, <3>1 DEF GoodRequest, Request
  <2>2. CASE Holds(r) /\ \A t \in Requests \ {req[r].sub} : subs'[t] = subs[t]
    BY <1>2, <2>1, <2>2 DEF OneByOne
  <2>3. CASE req[r].sub = 0 /\ r # 0 /\ \A t \in Requests \ {r} : subs'[t] = subs[t]
    <3>1. req[q].sub # r
      BY <2>1, <2>3 DEF FirstInv, NamesKnown
    <3> QED  BY <2>1, <2>3, <3>1
  <2> QED  BY <2>2, <2>3
<1>3. Busy(q)' <=> Busy(q)
  BY DEF Busy
<1>4. CASE Holds(q)
  BY <1>2, <1>3, <1>4 DEF AtomInv, WritesCurrent, Waiting
<1>5. CASE ~ Holds(q)
  BY <1>3, <1>5 DEF Holds
<1> QED  BY <1>4, <1>5

LEMMA AtomHandler ==
    ASSUME IInv, EventInv, FirstInv, AtomInv, OneByOne, NEW r \in Requests, HandlerStep(r)
    PROVE  AtomInv' /\ (subs' = subs \/ Atomic!Next)
<1>1. /\ subs' = subs \/ (Atomic!Next /\ req[r].pc = "write")
      /\ \A s \in Requests : subs'[s] # NoDoc => subs[s] # NoDoc
      /\ req'[r].pc = "write" =>
           /\ subs'[req[r].sub] # NoDoc
           /\ \E updates \in ItemUpdates :
                /\ CanApply(Head(req'[r].todo), subs'[req[r].sub], updates)
                /\ req'[r].doc = Apply(Head(req'[r].todo), subs'[req[r].sub], updates)
      /\ req'[r].kind = "lifecycle" =>
           /\ subs' = subs /\ req[r].kind = "lifecycle"
           /\ req'[r].pc \in {"ok", "failed"}
           /\ task'[r].pc \in {"none", "fetch"}
  BY HandlerAlone
<1>2. /\ task[r].pc = "none"
      /\ \A q \in Requests \ {r} : req'[q] = req[q] /\ task'[q] = task[q]
  BY HandlerFrame
<1>3. /\ req'[r].sub = req[r].sub /\ req'[r].pc # "idle"
      /\ \A t \in Requests \ {req[r].sub} : subs'[t] = subs[t]
  BY <1>2, HandlerKeeps
<1>4. Busy(r)
  BY DEF Busy, HandlerStep, Fetch, Read, Write, Reread
<1>5. \/ subs' = subs
      \/ Holds(r) /\ \A t \in Requests \ {req[r].sub} : subs'[t] = subs[t]
  BY <1>1, <1>3 DEF Holds
<1>6. WritesCurrent'
  <2>1. ASSUME NEW q \in Requests \ {r}, req'[q].pc = "write", subs'[req'[q].sub] # NoDoc
        PROVE  \E updates \in ItemUpdates :
                  /\ CanApply(Head(req'[q].todo), subs'[req'[q].sub], updates)
                  /\ req'[q].doc = Apply(Head(req'[q].todo), subs'[req'[q].sub], updates)
    BY <1>2, <1>5, <2>1, OthersStayCurrent
  <2> QED  BY <1>1, <1>3, <2>1 DEF WritesCurrent
<1>7. Waiting'
  <2>1. ASSUME Busy(r)', req'[r].kind = "lifecycle"
        PROVE  /\ req'[r].pc = "ok"
               /\ task'[r].pc \in {"none", "fetch"}
               /\ subs'[req'[r].sub] # NoDoc => subs'[req'[r].sub].status = "incomplete"
    <3>1. /\ subs' = subs /\ req[r].kind = "lifecycle"
          /\ req'[r].pc \in {"ok", "failed"} /\ task'[r].pc \in {"none", "fetch"}
      BY <1>1, <2>1
    <3>2. subs[req[r].sub] # NoDoc => subs[req[r].sub].status = "incomplete"
      BY <1>2, <1>4, <3>1 DEF AtomInv, Waiting
    <3>3. req'[r].pc = "ok"
      <4>1. StartedByAnswer'
        BY HandlerStepGood DEF IInv
      <4> QED  BY <2>1, <3>1, <4>1 DEF Busy, StartedByAnswer
    <3> QED  BY <1>3, <3>1, <3>2, <3>3
  <2>2. ASSUME NEW q \in Requests \ {r},
               Busy(q)', req'[q].kind = "lifecycle", task'[q].pc # "conclude"
        PROVE  /\ \/ req'[q].pc = "ok"
                  \/ req'[q].pc = "reread" /\ req'[q].todo = <<>>
               /\ subs'[req'[q].sub] # NoDoc =>
                    /\ subs'[req'[q].sub].status = "incomplete"
                    /\ task'[q].pc \in {"announce", "billing", "billingLost", "activate"}
                         => task'[q].doc = subs'[req'[q].sub]
    BY <1>2, <1>5, <2>2, OthersStayCurrent
  <2> QED  BY <2>1, <2>2 DEF Waiting
<1>8. StoredWasMade'
  BY <1>1, <1>2, <1>3 DEF AtomInv, StoredWasMade
<1> QED  BY <1>1, <1>6, <1>7, <1>8 DEF AtomInv

LEMMA AtomArrive ==
    ASSUME IInv, FirstInv, AtomInv, OneByOne, NEW r \in Requests, Arrive(r)
    PROVE  AtomInv' /\ (subs' = subs \/ Atomic!Next)
<1>1. /\ req[r].pc = "idle" /\ req'[r].pc # "idle" /\ task' = task
      /\ \A q \in Requests \ {r} : req'[q] = req[q] /\ subs'[q] = subs[q]
      /\ req'[r].sub \in Requests
  BY ArriveFrame
<1>2. /\ req[r] \in Request /\ req \in [Requests -> GoodRequest]
      /\ subs \in [Requests -> GoodDoc \cup {NoDoc}]
  BY DEF IInv, HandlersGood, GoodRequest
<1>3. /\ req[r].sub = 0 /\ req[r].kind = "none" /\ req[r].todo = <<>> /\ r # 0
      /\ subs[r] = NoDoc /\ task[r].pc = "none"
  BY <1>1 DEF FirstInv, NamesKnown, AtomInv, StoredWasMade, Requests, IInv, StartedByAnswer
<1>4. ASSUME NEW q \in Requests \ {r}, req'[q].pc = "write", subs'[req'[q].sub] # NoDoc
      PROVE  \E updates \in ItemUpdates :
                /\ CanApply(Head(req'[q].todo), subs'[req'[q].sub], updates)
                /\ req'[q].doc = Apply(Head(req'[q].todo), subs'[req'[q].sub], updates)
  BY <1>1, <1>3, <1>4, OthersStayCurrent
<1>5. ASSUME NEW q \in Requests \ {r},
             Busy(q)', req'[q].kind = "lifecycle", task'[q].pc # "conclude"
      PROVE  /\ \/ req'[q].pc = "ok"
                \/ req'[q].pc = "reread" /\ req'[q].todo = <<>>
             /\ subs'[req'[q].sub] # NoDoc =>
                  /\ subs'[req'[q].sub].status = "incomplete"
                  /\ task'[q].pc \in {"announce", "billing", "billingLost", "activate"}
                       => task'[q].doc = subs'[req'[q].sub]
  BY <1>1, <1>3, <1>5, OthersStayCurrent
<1>6. CASE \E items \in InitialItems :
             CreateSubscription(r, items) \/ CompleteCheckout(r, items)
  <2>1. PICK items \in InitialItems :
          CreateSubscription(r, items) \/ CompleteCheckout(r, items)
    BY <1>6
  <2>2. Atomic!Add(r)
    BY <1>3, <2>1, SameDocs DEF Atomic!Add, CreateSubscription, CompleteCheckout
  <2>3. req'[r].pc = "reread" /\ req'[r].sub = r /\ req'[r].todo = <<>>
    BY <1>2, <1>3, <2>1 DEF CreateSubscription, CompleteCheckout, Request
  <2>4. req'[r].kind = "lifecycle" => subs'[r] = NewDoc(items)
    BY <1>2, <1>3, <2>1 DEF CreateSubscription, CompleteCheckout, Request
  <2>5. NewDoc(items) # NoDoc /\ NewDoc(items).status = "incomplete"
    BY NewDocs, DocAssumption, SubscriptionsAssumption DEF NewDoc
  <2>6. WritesCurrent'
    BY <1>4, <2>3 DEF WritesCurrent
  <2>7. Waiting'
    <3>1. req'[r].kind = "lifecycle" => subs'[req'[r].sub].status = "incomplete"
      BY <2>3, <2>4, <2>5
    <3>2. task'[r].pc = "none"
      BY <1>1, <1>3
    <3> QED  BY <1>5, <2>3, <3>1, <3>2 DEF Waiting
  <2>8. StoredWasMade'
    BY <1>1, <2>3 DEF AtomInv, StoredWasMade
  <2> QED  BY <2>2, <2>6, <2>7, <2>8 DEF AtomInv, Atomic!Next
<1>7. CASE \/ \E op \in Endpoints, s \in Requests : CallEndpoint(r, op, s)
           \/ \E s \in Requests, args \in UpdateArgs : UpdateSubscription(r, s, args)
  <2>1. /\ subs' = subs /\ req'[r].pc \in {"read", "fetch"}
        /\ req'[r].kind # "lifecycle"
    <3>1. ASSUME NEW op \in Endpoints, NEW s \in Requests, CallEndpoint(r, op, s)
          PROVE  subs' = subs /\ req'[r].pc = "read" /\ req'[r].kind = KindOf(op)
      BY <1>2, <3>1 DEF CallEndpoint, Request
    <3>2. \A op : KindOf(op) # "lifecycle"
      BY DEF KindOf
    <3>3. ASSUME NEW s \in Requests, NEW args \in UpdateArgs,
                 UpdateSubscription(r, s, args)
          PROVE  subs' = subs /\ req'[r].pc = "fetch" /\ req'[r].kind = "none"
      BY <1>2, <1>3, <3>3 DEF UpdateSubscription, Request
    <3> QED  BY <1>7, <3>1, <3>2, <3>3
  <2>2. WritesCurrent'
    BY <1>4, <2>1 DEF WritesCurrent
  <2>3. Waiting'
    BY <1>5, <2>1 DEF Waiting
  <2>4. StoredWasMade'
    BY <1>1, <1>3, <2>1 DEF AtomInv, StoredWasMade
  <2> QED  BY <2>1, <2>2, <2>3, <2>4 DEF AtomInv
<1> QED  BY <1>6, <1>7 DEF Arrive

LEMMA AtomTask ==
    ASSUME IInv, EventInv, FirstInv, AtomInv, OneByOne, NEW r \in Requests, TaskStep(r)
    PROVE  AtomInv' /\ (subs' = subs \/ Atomic!Next)
<1>1. /\ req' = req /\ req[r].pc = "ok" /\ Busy(r)
      /\ task \in [Requests -> GoodTask] /\ subs \in [Requests -> GoodDoc \cup {NoDoc}]
      /\ req[r].sub \in Requests
  BY DEF IInv, StartedByAnswer, TasksGood, TaskStep, TaskFetch, TaskAnnounce,
         TaskBilled, TaskAborted, TaskActivate, TaskConclude, Busy,
         HandlersGood, GoodRequest, Request
<1>2. \A q \in Requests \ {r} : task'[q] = task[q]
  BY <1>1 DEF TaskStep, TaskFetch, TaskAnnounce, TaskBilled, TaskAborted,
         TaskActivate, TaskConclude
<1>3. /\ \/ subs' = subs
         \/ /\ Atomic!Next /\ Holds(r)
            /\ \A t \in Requests \ {req[r].sub} : subs'[t] = subs[t]
      /\ \A s \in Requests : subs'[s] # NoDoc => subs[s] # NoDoc
      /\ (req[r].kind = "lifecycle" /\ task'[r].pc \notin {"conclude", "done"}) =>
           /\ subs' = subs /\ task[r].pc # "conclude"
           /\ ( /\ subs[req[r].sub] # NoDoc
                /\ task'[r].pc \in {"announce", "billing", "billingLost", "activate"} )
                => task'[r].doc = subs[req[r].sub]
  <2>1. CASE TaskFetch(r)
    BY <1>1, <2>1 DEF TaskFetch, GoodTask, Task
  <2>2. CASE TaskAnnounce(r)
    BY <1>1, <2>2 DEF TaskAnnounce, GoodTask, Task, AtomInv, Waiting
  <2>3. CASE TaskBilled(r)
    BY <1>1, <2>3 DEF TaskBilled, GoodTask, Task, AtomInv, Waiting
  <2>4. CASE TaskAborted(r)
    BY <1>1, <2>4 DEF TaskAborted, GoodTask, Task
  <2>5. CASE TaskConclude(r)
    BY <1>1, <2>5 DEF TaskConclude, GoodTask, Task
  <2>6. CASE TaskActivate(r)
    <3> DEFINE s == req[r].sub
    <3>1. req[r].kind = "lifecycle" /\ task[r].pc = "activate"
      BY <2>6 DEF TaskActivate, EventInv, LifecycleOnly
    <3>2. task'[r].pc \in {"conclude", "done"}
      BY <1>1, <2>6 DEF TaskActivate, GoodTask, Task
    <3>3. CASE subs' = subs
      BY <3>2, <3>3
    <3>4. CASE subs[s] # NoDoc
      <4>1. subs[s].status = "incomplete" /\ task[r].doc = subs[s]
        BY <1>1, <3>1, <3>4 DEF AtomInv, Waiting
      <4>2. subs' = [subs EXCEPT ![s] = Activated(subs[s])]
        BY <2>6, <3>4, <4>1 DEF TaskActivate
      <4>3. /\ "activate" \in Ops /\ CanApply("activate", subs[s], NoUpdates)
            /\ Apply("activate", subs[s], NoUpdates) = Activated(subs[s])
        BY DEF Ops, CanApply, ActiveOnly, PausedOnly, Apply
      <4>4. Atomic!Operate(s)
        BY <3>4, <4>1, <4>2, <4>3, NoUpdatesType, SameDocs DEF Atomic!Operate
      <4>5. Atomic!Next /\ Holds(r)
        BY <1>1, <3>1, <4>4 DEF Atomic!Next, Holds
      <4> QED  BY <1>1, <3>2, <3>4, <4>2, <4>5
    <3> QED  BY <2>6, <3>3, <3>4 DEF TaskActivate
  <2> QED  BY <2>1, <2>2, <2>3, <2>4, <2>5, <2>6 DEF TaskStep
<1>4. WritesCurrent'
  <2>1. ASSUME NEW q \in Requests \ {r}, req'[q].pc = "write", subs'[req'[q].sub] # NoDoc
        PROVE  \E updates \in ItemUpdates :
                  /\ CanApply(Head(req'[q].todo), subs'[req'[q].sub], updates)
                  /\ req'[q].doc = Apply(Head(req'[q].todo), subs'[req'[q].sub], updates)
    BY <1>1, <1>2, <1>3, <2>1, OthersStayCurrent
  <2> QED  BY <1>1, <2>1 DEF WritesCurrent
<1>5. Waiting'
  <2>1. ASSUME req[r].kind = "lifecycle", task'[r].pc # "conclude", Busy(r)'
        PROVE  subs'[req[r].sub] # NoDoc =>
                 /\ subs'[req[r].sub].status = "incomplete"
                 /\ task'[r].pc \in {"announce", "billing", "billingLost", "activate"}
                      => task'[r].doc = subs'[req[r].sub]
    <3>1. task'[r].pc # "done"
      BY <1>1, <2>1 DEF Busy
    <3> QED  BY <1>1, <1>3, <2>1, <3>1 DEF AtomInv, Waiting
  <2>2. ASSUME NEW q \in Requests \ {r},
               Busy(q)', req'[q].kind = "lifecycle", task'[q].pc # "conclude"
        PROVE  /\ \/ req'[q].pc = "ok"
                  \/ req'[q].pc = "reread" /\ req'[q].todo = <<>>
               /\ subs'[req'[q].sub] # NoDoc =>
                    /\ subs'[req'[q].sub].status = "incomplete"
                    /\ task'[q].pc \in {"announce", "billing", "billingLost", "activate"}
                         => task'[q].doc = subs'[req'[q].sub]
    BY <1>1, <1>2, <1>3, <2>2, OthersStayCurrent
  <2> QED  BY <1>1, <2>1, <2>2 DEF Waiting
<1>6. StoredWasMade'
  BY <1>1, <1>3 DEF AtomInv, StoredWasMade
<1> QED  BY <1>3, <1>4, <1>5, <1>6 DEF AtomInv

LEMMA AtomNext ==
    ASSUME OneByOne, IInv, EventInv, FirstInv, AtomInv, [Next]_vars
    PROVE  AtomInv' /\ [Atomic!Next]_subs
<1>1. CASE ResetSubscriptions
  <2>1. /\ req' = req /\ task' = task /\ subs' = [s \in Requests |-> NoDoc]
        /\ req \in [Requests -> GoodRequest]
    BY <1>1 DEF ResetSubscriptions, IInv, HandlersGood
  <2>2. \A q \in Requests : Holds(q) => subs'[req[q].sub] = NoDoc
    <3>1. ASSUME NEW q \in Requests, Holds(q) PROVE req[q].pc # "idle"
      BY <3>1 DEF Holds, Busy, IInv, StartedByAnswer
    <3> QED  BY <2>1, <3>1 DEF GoodRequest, Request
  <2>3. \A q \in Requests : Busy(q)' <=> Busy(q)
    BY <2>1 DEF Busy
  <2>4. WritesCurrent'
    BY <2>1, <2>2 DEF WritesCurrent, Holds
  <2>5. Waiting'
    BY <2>1, <2>2, <2>3 DEF AtomInv, Waiting, Holds
  <2>6. StoredWasMade'
    BY <2>1 DEF AtomInv, StoredWasMade
  <2>7. Atomic!Next
    BY <2>1 DEF Atomic!Next, Atomic!Clear
  <2> QED  BY <2>4, <2>5, <2>6, <2>7 DEF AtomInv
<1>2. CASE ResetInvoices
  <2>1. task \in [Requests -> GoodTask]
    BY DEF IInv, TasksGood
  <2>2. /\ req' = req /\ subs' = subs
        /\ \A q \in Requests :
             /\ task'[q].doc = task[q].doc
             /\ task'[q].pc = IF task[q].pc = "billing" THEN "billingLost"
                                                        ELSE task[q].pc
    BY <1>2, <2>1 DEF ResetInvoices, GoodTask, Task
  <2>3. \A q \in Requests : Busy(q)' <=> Busy(q)
    BY <2>2 DEF Busy
  <2>4. WritesCurrent' /\ StoredWasMade'
    BY <2>2 DEF AtomInv, WritesCurrent, StoredWasMade
  <2>5. Waiting'
    BY <2>2, <2>3 DEF AtomInv, Waiting
  <2> QED  BY <2>2, <2>4, <2>5 DEF AtomInv
<1>3. CASE UNCHANGED vars
  BY <1>3 DEF vars, AtomInv, WritesCurrent, Waiting, StoredWasMade, Busy
<1> QED  BY <1>1, <1>2, <1>3, AtomArrive, AtomHandler, AtomTask DEF Next

LEMMA AtomInit == Init => AtomInv /\ Atomic!Init
<1> SUFFICES ASSUME Init PROVE AtomInv /\ Atomic!Init
  OBVIOUS
<1>1. AtomInv
  BY DEF Init, AtomInv, WritesCurrent, Waiting, StoredWasMade, Busy
<1> QED  BY <1>1 DEF Init, Atomic!Init

(* As long as no two requests or goroutines are about to write the same    *)
(* subscription, every operation is seen whole: Subscriptions implements   *)
(* AtomicSubscriptions, whatever else overlaps.                            *)
THEOREM OneByOneIsAtomic == Spec /\ []OneByOne => OperationsAreAtomic
<1>1. /\ Init => IInv /\ EventInv /\ FirstInv /\ AtomInv /\ Atomic!Init
      /\ OneByOne /\ IInv /\ EventInv /\ FirstInv /\ AtomInv /\ [Next]_vars
           => /\ IInv' /\ EventInv' /\ FirstInv' /\ AtomInv'
              /\ [Atomic!Next]_subs
  BY InitIInv, EventInit, FirstInit, AtomInit, NextIInv, EventNext, FirstNext, AtomNext
<1> QED  BY <1>1, PTL DEF Spec, OperationsAreAtomic, Atomic!Spec

(* Then a canceled subscription stays canceled too: the violation found by *)
(* Race_canceled needs two writers of one subscription at a time, the      *)
(* goroutine that makes it active being one.                               *)
THEOREM OneByOneStaysCanceled == Spec /\ []OneByOne => CanceledStaysCanceled
<1>1. ASSUME IInv, [Atomic!Next]_subs, NEW s \in Requests,
             subs[s] # NoDoc, subs[s].status = "canceled"
      PROVE  subs'[s] = NoDoc \/ subs'[s].status = "canceled"
  <2>1. subs \in [Requests -> GoodDoc \cup {NoDoc}] /\ subs[s] \in Doc
    BY <1>1 DEF IInv, GoodDoc
  <2>2. CASE \E t \in Requests : Atomic!Add(t)
    BY <1>1, <2>1, <2>2 DEF Atomic!Add
  <2>3. ASSUME NEW t \in Requests, Atomic!Operate(t)
        PROVE  subs'[s] = NoDoc \/ subs'[s].status = "canceled"
    <3>1. PICK op \in Ops, updates \in ItemUpdates :
            /\ op = "activate" => subs[t].status = "incomplete"
            /\ CanApply(op, subs[t], updates)
            /\ subs' = [subs EXCEPT ![t] = Apply(op, subs[t], updates)]
      BY <2>3, SameDocs DEF Atomic!Operate
    <3>2. CASE t = s
      <4>1. op \notin {"activate", "pause", "renew", "setCancel", "items", "resume"}
        BY <1>1, <3>1, <3>2 DEF CanApply, ActiveOnly, PausedOnly
      <4>2. op \in {"cancel", "expire", "clearCancel", "pauseCollection", "clearPause"}
        BY <4>1 DEF Ops
      <4>3. Apply(op, subs[s], updates).status \in {subs[s].status, "canceled"}
        BY <2>1, <4>2 DEF Apply, Canceled, Expired, CancelUnscheduled, CollectionPaused,
                          CollectionResumed, Doc
      <4> QED  BY <1>1, <2>1, <3>1, <3>2, <4>3
    <3>3. CASE t # s
      BY <1>1, <2>1, <3>1, <3>3
    <3> QED  BY <3>2, <3>3
  <2>4. CASE Atomic!Clear
    BY <2>4 DEF Atomic!Clear
  <2>5. CASE subs' = subs
    BY <1>1, <2>5
  <2> QED  BY <1>1, <2>2, <2>3, <2>4, <2>5 DEF Atomic!Next
<1>2. /\ Init => IInv /\ EventInv /\ FirstInv /\ AtomInv
      /\ OneByOne /\ IInv /\ EventInv /\ FirstInv /\ AtomInv /\ [Next]_vars
           => /\ IInv' /\ EventInv' /\ FirstInv' /\ AtomInv'
              /\ \A s \in Requests : (subs[s] # NoDoc /\ subs[s].status = "canceled")
                    => subs'[s] = NoDoc \/ subs'[s].status = "canceled"
  BY <1>1, InitIInv, EventInit, FirstInit, AtomInit, NextIInv, EventNext, FirstNext,
     AtomNext
<1> QED  BY <1>2, PTL DEF Spec, CanceledStaysCanceled

--------------------------------------------
(***************************************************************************)
(* Who follows the events knows what is stored (MaxInFlight = 1).  A       *)
(* document that is not what the last event showed belongs to a request    *)
(* that is still at work and pledged to announce it: it has passed all the *)
(* checks it makes, so nothing but its end can come of it.                 *)
(***************************************************************************)

\* A client that waits until nothing is at work before it goes on.
OneAtWork ==
    /\ \A r, q \in Requests : Busy(r) /\ Busy(q) => r = q
    /\ resetting => \A r \in Requests : ~ Busy(r)

SerialInv == OneAtWork /\ AtomInv

LEMMA NobodyAtWork ==
    ASSUME InFlight < 1
    PROVE  ~ resetting /\ \A r \in Requests : ~ Busy(r)
<1> DEFINE S == {r \in Requests : Busy(r)}
<1>1. IsFiniteSet(Requests)
  BY FS_Interval, SubscriptionsAssumption DEF Requests
<1>2. IsFiniteSet(S) /\ Cardinality(S) \in Nat
  BY <1>1, FS_Subset, FS_CardinalityType
<1>3. InFlight = Cardinality(S) + (IF resetting THEN 1 ELSE 0)
  BY DEF InFlight
<1> HIDE DEF S
<1>4. ~ resetting /\ Cardinality(S) = 0
  BY <1>2, <1>3
<1>5. S = {}
  BY <1>2, <1>4, FS_EmptySet
<1> QED  BY <1>4, <1>5 DEF S

(* One at work is one writer at a time.                                    *)
LEMMA AloneIsOneByOne == IInv /\ OneAtWork => OneByOne
<1> SUFFICES ASSUME IInv, OneAtWork, NEW r \in Requests, NEW q \in Requests,
                    Holds(r), Holds(q)
             PROVE  r = q
  BY DEF OneByOne
<1>1. Busy(r) /\ Busy(q)
  BY DEF Holds, Busy
<1> QED  BY <1>1 DEF OneAtWork

LEMMA SerialNext ==
    ASSUME MaxInFlight = 1, IInv, EventInv, FirstInv, SerialInv, [Next]_vars
    PROVE  SerialInv'
<1>1. AtomInv'
  BY AloneIsOneByOne, AtomNext DEF SerialInv
<1> SUFFICES OneAtWork'
  BY <1>1 DEF SerialInv
<1>2. CASE \E r \in Requests : Arrive(r)
  <2>1. PICK r \in Requests : Arrive(r)
    BY <1>2
  <2>2. InFlight < 1 /\ resetting' = resetting
    BY <2>1 DEF Arrive, CreateSubscription, CompleteCheckout, CallEndpoint,
           UpdateSubscription, Arrives
  <2>3. \A q \in Requests \ {r} : req'[q] = req[q] /\ task'[q] = task[q]
    BY <2>1, HandlerFrame
  <2>4. ~ resetting /\ \A q \in Requests : ~ Busy(q)
    BY <2>2, NobodyAtWork
  <2> QED  BY <2>2, <2>3, <2>4 DEF OneAtWork, Busy
<1>3. CASE \E r \in Requests : HandlerStep(r) \/ TaskStep(r)
  <2>1. PICK r \in Requests : HandlerStep(r) \/ TaskStep(r)
    BY <1>3
  <2>2. Busy(r) /\ resetting' = resetting
    BY <2>1 DEF Busy, HandlerStep, Fetch, Read, Write, Reread, Fail, TaskStep, TaskFetch,
                TaskAnnounce, TaskBilled, TaskAborted, TaskActivate, TaskConclude
  <2>3. \A q \in Requests \ {r} : req'[q] = req[q] /\ task'[q] = task[q]
    <3>1. CASE HandlerStep(r)
      BY <3>1, HandlerFrame
    <3>2. CASE TaskStep(r)
      BY <3>2 DEF IInv, TasksGood, TaskStep, TaskFetch, TaskAnnounce, TaskBilled,
                  TaskAborted, TaskActivate, TaskConclude
    <3> QED  BY <2>1, <3>1, <3>2
  <2>4. ~ resetting /\ \A q \in Requests \ {r} : ~ Busy(q)
    BY <2>2 DEF SerialInv, OneAtWork
  <2> QED  BY <2>2, <2>3, <2>4 DEF OneAtWork, Busy
<1>4. CASE ResetSubscriptions
  <2>1. InFlight < 1
    BY <1>4 DEF ResetSubscriptions
  <2>2. \A q \in Requests : ~ Busy(q)
    BY <2>1, NobodyAtWork
  <2> QED  BY <1>4, <2>2 DEF ResetSubscriptions, OneAtWork, Busy
<1>5. CASE ResetInvoices
  <2>1. \A q \in Requests : ~ Busy(q)
    BY <1>5 DEF ResetInvoices, SerialInv, OneAtWork
  <2>2. task \in [Requests -> GoodTask]
    BY DEF IInv, TasksGood
  <2>3. \A q \in Requests : ~ Busy(q)'
    BY <1>5, <2>1, <2>2 DEF ResetInvoices, Busy, GoodTask, Task
  <2> QED  BY <2>3 DEF OneAtWork
<1>6. CASE UNCHANGED vars
  BY <1>6 DEF vars, SerialInv, OneAtWork, Busy
<1> QED  BY <1>2, <1>3, <1>4, <1>5, <1>6 DEF Next

LEMMA SerialInit == Init => SerialInv
  BY AtomInit DEF Init, SerialInv, OneAtWork, Busy

\* An update of the items comes with no other: when it is refused, nothing
\* was saved before.
ItemsComeAlone ==
    \A args \in UpdateArgs :
        args.items # NoUpdates => args.cancel = "absent" /\ args.pause = "absent"

\* The last event about s shows what is stored.
LastTold(s) ==
    \E i \in 1 .. Len(events) :
        /\ events[i].sub = s
        /\ events[i].doc = subs[s]
        /\ \A j \in i + 1 .. Len(events) : events[j].sub # s

\* Request r has passed its checks and has still to announce what it did.
Pledged(r) ==
    /\ req[r].kind # "none"
    /\ \/ req[r].pc \in {"write", "reread"}
       \/ req[r].pc = "ok" /\ task[r].pc \notin {"none", "done"}

AllOnCopy(calls) == \A i \in 1 .. Len(calls) : calls[i] \in OnCopy

\* The calls a handler has still to make cannot be refused, but for the
\* first of all.
CallsFollow(r) ==
    /\ req[r].pc = "fetch" => req[r].kind = "none" /\ req[r].args \in UpdateArgs
    /\ req[r].pc \in {"read", "write"} =>
         req[r].kind # "none" /\ AllOnCopy(Tail(req[r].todo))
    /\ req[r].pc = "reread" =>
         /\ AllOnCopy(req[r].todo)
         /\ req[r].kind = "none" => req[r].sub = r /\ req[r].todo = <<>>

\* What a goroutine is about to announce is stored.
HoldsCurrent(r) ==
    task[r].pc \in {"announce", "billing", "activate", "conclude"}
      => task[r].doc = subs[req[r].sub]

ToldOrPledged(s) ==
    ByApi(s) /\ subs[s] # NoDoc =>
        LastTold(s) \/ \E r \in Requests : req[r].sub = s /\ Pledged(r)

ToldInv ==
    /\ \A r \in Requests : CallsFollow(r)
    /\ \A r \in Requests : HoldsCurrent(r) /\ task[r].pc # "billingLost"
    /\ \A s \in Requests : ToldOrPledged(s)

(* What follows the first of a sequence.                                   *)
LEMMA TailOfConcat ==
    ASSUME NEW S, NEW x \in S, NEW q \in Seq(S)
    PROVE  <<x>> \o q # <<>> /\ Tail(<<x>> \o q) = q
<1>1. <<x>> \in Seq(S)
  OBVIOUS
<1>2. /\ <<x>> \o q \in Seq(S) /\ Len(<<x>> \o q) = 1 + Len(q)
      /\ \A i \in 1 .. Len(q) : (<<x>> \o q)[1 + i] = q[i]
  BY <1>1, ConcatProperties
<1>3. <<x>> \o q # <<>>
  BY <1>2, LenProperties, EmptySeq
<1>4. Tail(<<x>> \o q) \in Seq(S) /\ Len(Tail(<<x>> \o q)) = Len(q)
  BY <1>2, <1>3, HeadTailProperties, LenProperties
<1>5. \A i \in 1 .. Len(q) : Tail(<<x>> \o q)[i] = q[i]
  BY <1>2, <1>3, <1>4, HeadTailProperties
<1> QED  BY <1>3, <1>4, <1>5, SeqEqual

(* What an update asks for in one request.                                 *)
LEMMA CallsOfUpdate ==
    ASSUME ItemsComeAlone, NEW args \in UpdateArgs, NEW d
    PROVE  /\ Calls(args, d) # <<>> => AllOnCopy(Tail(Calls(args, d)))
           /\ Calls(args, d) = <<>> <=> UpdateKind(args, d) = "none"
<1> DEFINE c == CancelCalls(args, d)
           p == PauseCalls(args)
           m == ItemCalls(args)
<1>1. c \in {<<"setCancel">>, <<"clearCancel">>, <<>>}
  BY Zenon DEF CancelCalls
<1>2. p \in {<<"pauseCollection">>, <<"clearPause">>, <<>>}
  BY Zenon DEF PauseCalls
<1>3. m \in {<<"items">>, <<>>} /\ (m = <<>> <=> args.items = NoUpdates)
  BY DEF ItemCalls
<1>4. m # <<>> => c = <<>> /\ p = <<>>
  BY <1>3 DEF ItemsComeAlone, CancelCalls, PauseCalls
<1>5. Calls(args, d) = (c \o p) \o m
  BY DEF Calls
<1>6. \A x \in HandlerOps : Tail(<<x>>) = <<>> /\ <<x>> # <<>> /\ <<x>> \in Seq(HandlerOps)
  OBVIOUS
<1>7. AllOnCopy(<<>>) /\ AllOnCopy(<<"pauseCollection">>) /\ AllOnCopy(<<"clearPause">>)
  BY DEF AllOnCopy, OnCopy
<1>8. {"setCancel", "clearCancel", "pauseCollection", "clearPause", "items"}
        \subseteq HandlerOps
  BY DEF HandlerOps, Ops
<1>9. /\ <<>> \in Seq(HandlerOps) /\ c \in Seq(HandlerOps)
      /\ p \in Seq(HandlerOps) /\ m \in Seq(HandlerOps)
  <2> HIDE DEF c, p, m
  <2> QED  BY <1>1, <1>2, <1>3, <1>6, <1>8, CallSequences, Zenon
<1> HIDE DEF c, p, m
<1>10. UpdateKind(args, d) = "none" <=> m = <<>> /\ Calls(args, d) = <<>>
  <2>1. CASE m # <<>>
    <3>1. Calls(args, d) # <<>>
      BY <1>9, <1>4, <1>5, <2>1, ConcatEmptySeq
    <3>2. UpdateKind(args, d) = "planChange"
      BY <1>3, <2>1, <3>1 DEF UpdateKind
    <3> QED  BY <2>1, <3>2
  <2>2. CASE m = <<>>
    <3>1. UpdateKind(args, d) = IF Calls(args, d) = <<>> THEN "none" ELSE "updated"
      BY <1>3, <2>2 DEF UpdateKind
    <3> QED  BY <2>2, <3>1
  <2> QED  BY <2>1, <2>2
<1>11. CASE m = <<>>
  <2>1. Calls(args, d) = c \o p
    <3>1. c \o p \in Seq(HandlerOps)
      BY <1>9, ConcatProperties
    <3> QED  BY <1>5, <1>11, <3>1, ConcatEmptySeq
  <2>2. CASE c = <<>>
    <3>1. Calls(args, d) = p
      BY <1>9, <2>1, <2>2, ConcatEmptySeq
    <3>2. p # <<>> => Tail(p) = <<>>
      BY <1>2, <1>6, <1>8, Zenon
    <3> QED  BY <1>10, <1>7, <1>11, <3>1, <3>2, Zenon
  <2>3. CASE c # <<>>
    <3>1. PICK x \in HandlerOps : c = <<x>>
      BY <1>1, <1>8, <2>3, Zenon
    <3>2. Calls(args, d) # <<>> /\ Tail(Calls(args, d)) = p
      BY <1>9, <2>1, <3>1, TailOfConcat
    <3>3. AllOnCopy(p)
      BY <1>2, <1>7, Zenon
    <3> QED  BY <1>10, <3>2, <3>3, Zenon
  <2> QED  BY <2>2, <2>3
<1>12. CASE m # <<>>
  <2>1. Calls(args, d) = m
    BY <1>9, <1>4, <1>5, <1>12, ConcatEmptySeq
  <2>2. Tail(m) = <<>>
    BY <1>3, <1>6, <1>8, <1>12, Zenon
  <2> QED  BY <1>10, <1>7, <1>12, <2>1, <2>2, Zenon
<1> QED  BY <1>11, <1>12

(* What Proceed makes of a handler.                                        *)
LEMMA ProceedTold ==
    ASSUME IInv, NEW r \in Requests, NEW calls \in Seq(HandlerOps), NEW kind,
           NEW d, task[r].pc = "none", Proceed(r, calls, kind, d)
    PROVE  /\ req'[r].kind = kind
           /\ task'[r].pc \in {"none", "fetch", "conclude"}
           /\ task'[r].pc = "conclude" => task'[r].doc = d
           /\ calls = <<>> => /\ req'[r].pc = "ok"
                              /\ kind # "none" => task'[r].pc \in {"fetch", "conclude"}
           /\ calls # <<>> => /\ req'[r].todo = calls /\ task'[r].pc = "none"
                              /\ Head(calls) \in OnCopy => req'[r].pc = "write"
                              /\ Head(calls) \notin OnCopy => req'[r].pc = "read"
<1>1. req[r] \in Request /\ req \in [Requests -> GoodRequest]
        /\ task \in [Requests -> GoodTask]
  BY DEF IInv, HandlersGood, TasksGood, GoodRequest
<1>2. CASE calls = <<>>
  <2>1. req'[r].kind = kind /\ req'[r].pc = "ok"
    BY <1>1, <1>2 DEF Proceed, Respond, Request
  <2>2. CASE kind \in {"lifecycle", "renewal"}
    BY <1>1, <1>2, <2>1, <2>2 DEF Proceed, Respond, GoodTask, Task
  <2>3. CASE kind = "none"
    BY <1>2, <2>1, <2>3 DEF Proceed, Respond
  <2>4. CASE kind \notin {"lifecycle", "renewal", "none"}
    BY <1>1, <1>2, <2>1, <2>4 DEF Proceed, Respond, GoodTask, Task
  <2> QED  BY <1>2, <2>1, <2>2, <2>3, <2>4
<1>3. CASE calls # <<>>
  <2> DEFINE copy == IF Head(calls) \in OnCopy THEN Apply(Head(calls), d, NoUpdates) ELSE d
  <2>1. /\ req' = [req EXCEPT ![r].pc = IF Head(calls) \in OnCopy THEN "write" ELSE "read",
                              ![r].doc = copy, ![r].todo = calls, ![r].kind = kind]
        /\ task' = task
    BY <1>3 DEF Proceed
  <2> HIDE DEF copy
  <2> QED  BY <1>1, <1>3, <2>1 DEF Request
<1> QED  BY <1>2, <1>3

(* What a handler's step does to what it is pledged to: with the store     *)
(* changed, it is pledged, unless the subscription is one that is not      *)
(* announced or is gone.                                                   *)
ToldByHandler(r) ==
    /\ CallsFollow(r)'
    /\ HoldsCurrent(r)' /\ task'[r].pc # "billingLost"
    /\ \/ subs'[req[r].sub] = NoDoc
       \/ req'[r].kind = "none" /\ req[r].sub = r
       \/ Pledged(r)'
       \/ subs' = subs /\ ~ Pledged(r)

LEMMA HandlerTold ==
    ASSUME IInv, ItemsComeAlone, ToldInv, NEW r \in Requests, HandlerStep(r)
    PROVE  ToldByHandler(r)
<1>1. /\ req[r] \in Request /\ req[r] \in GoodRequest
      /\ req \in [Requests -> GoodRequest] /\ req' \in [Requests -> GoodRequest]
      /\ task \in [Requests -> GoodTask]
      /\ subs \in [Requests -> GoodDoc \cup {NoDoc}]
  BY HandlerStepGood DEF IInv, HandlersGood, TasksGood, GoodRequest
<1>2. task[r].pc = "none" /\ req'[r].sub = req[r].sub
  BY HandlerFrame, HandlerKeeps
<1>3. PICK s \in Requests : s = req[r].sub
  BY <1>1 DEF GoodRequest, Request, HandlerStep, Fetch, Read, Write, Reread
<1>4. CallsFollow(r)
  BY DEF ToldInv
<1>5. ASSUME Fail(r), req[r].pc \in {"fetch", "read"} \/ subs[s] = NoDoc
      PROVE  ToldByHandler(r)
  <2>1. req'[r].pc = "failed" /\ task' = task /\ subs' = subs
    BY <1>1, <1>5 DEF Fail, Request
  <2> QED  BY <1>2, <1>3, <1>5, <2>1 DEF ToldByHandler, CallsFollow, HoldsCurrent, Pledged
<1>6. ASSUME NEW calls \in Seq(HandlerOps), NEW kind, NEW d,
             Proceed(r, calls, kind, d), subs'[s] = d,
             calls # <<>> => kind # "none" /\ AllOnCopy(Tail(calls)),
             calls = <<>> /\ kind = "none" => req[r].sub = r \/ req[r].pc = "fetch",
             Head(calls) \in OnCopy \/ calls = <<>> \/ req[r].pc = "fetch",
             req[r].pc = "fetch" => subs' = subs
      PROVE  ToldByHandler(r)
  <2>1. /\ req'[r].kind = kind
        /\ task'[r].pc \in {"none", "fetch", "conclude"}
        /\ task'[r].pc = "conclude" => task'[r].doc = d
        /\ calls = <<>> => /\ req'[r].pc = "ok"
                           /\ kind # "none" => task'[r].pc \in {"fetch", "conclude"}
        /\ calls # <<>> => /\ req'[r].todo = calls /\ task'[r].pc = "none"
                           /\ Head(calls) \in OnCopy => req'[r].pc = "write"
                           /\ Head(calls) \notin OnCopy => req'[r].pc = "read"
    BY <1>2, <1>6, ProceedTold
  <2>2. HoldsCurrent(r)' /\ task'[r].pc # "billingLost"
    BY <1>2, <1>3, <1>6, <2>1 DEF HoldsCurrent
  <2>3. CallsFollow(r)'
    BY <1>6, <2>1 DEF CallsFollow
  <2>4. CASE req[r].pc = "fetch"
    BY <1>4, <1>6, <2>2, <2>3, <2>4 DEF ToldByHandler, Pledged
  <2>5. CASE req[r].pc # "fetch" /\ kind # "none"
    BY <1>6, <2>1, <2>2, <2>3, <2>5 DEF ToldByHandler, Pledged
  <2>6. CASE req[r].pc # "fetch" /\ kind = "none"
    BY <1>6, <2>1, <2>2, <2>3, <2>6 DEF ToldByHandler
  <2> QED  BY <2>4, <2>5, <2>6
<1>7. CASE Fetch(r)
  <2>1. CASE Fail(r)
    BY <1>5, <1>7, <2>1 DEF Fetch
  <2>2. CASE ~ Fail(r)
    <3>1. PICK calls, kind : /\ calls = Calls(req[r].args, subs[s])
                             /\ kind = UpdateKind(req[r].args, subs[s])
      OBVIOUS
    <3>2. Proceed(r, calls, kind, subs[s]) /\ subs' = subs /\ req[r].pc = "fetch"
      BY <1>3, <1>7, <2>2, <3>1 DEF Fetch
    <3>3. req[r].args \in UpdateArgs /\ req[r].args \in UpdateArg
      BY <1>1, <1>4, <3>2 DEF CallsFollow, Request
    <3>4. calls \in Seq(HandlerOps)
      BY <3>1, <3>3, CallsType
    <3>5. /\ calls # <<>> => AllOnCopy(Tail(calls))
          /\ calls = <<>> <=> kind = "none"
      BY <3>1, <3>3, CallsOfUpdate
    <3> QED  BY <1>6, <3>2, <3>4, <3>5
  <2> QED  BY <2>1, <2>2
<1>8. CASE Read(r)
  <2>1. CASE Fail(r)
    BY <1>5, <1>8, <2>1 DEF Read
  <2>2. CASE ~ Fail(r)
    <3>1. /\ req[r].pc = "read" /\ req'[r].pc = "write" /\ subs' = subs /\ task' = task
          /\ req'[r].todo = req[r].todo /\ req'[r].kind = req[r].kind
      BY <1>1, <1>8, <2>2 DEF Read, Request
    <3> QED  BY <1>2, <1>4, <3>1 DEF ToldByHandler, CallsFollow, HoldsCurrent, Pledged
  <2> QED  BY <2>1, <2>2
<1>9. CASE Write(r)
  <2>1. CASE subs[s] = NoDoc
    BY <1>3, <1>5, <1>9, <2>1 DEF Write
  <2>2. CASE subs[s] # NoDoc
    <3>1. PICK rest : rest = Tail(req[r].todo)
      OBVIOUS
    <3>2. rest \in Seq(HandlerOps) /\ req[r].pc = "write"
      BY <1>1, <1>9, <3>1, HeadTailProperties DEF Write, GoodRequest, Request
    <3>3. subs' = [subs EXCEPT ![s] = req[r].doc] /\ subs'[s] = req[r].doc
      BY <1>1, <1>3, <1>9, <2>2 DEF Write
    <3>4. req[r].kind # "none" /\ AllOnCopy(rest)
      BY <1>4, <3>1, <3>2 DEF CallsFollow
    <3>5. CASE Proceed(r, rest, req[r].kind, req[r].doc)
      <4>1. rest # <<>> => Head(rest) \in OnCopy /\ AllOnCopy(Tail(rest))
        BY <3>2, <3>4, HeadTailProperties, LenProperties, EmptySeq DEF AllOnCopy
      <4> QED  BY <1>6, <3>2, <3>3, <3>4, <3>5, <4>1
    <3>6. CASE req' = [req EXCEPT ![r].pc = "reread", ![r].todo = rest] /\ task' = task
      <4>1. req'[r].pc = "reread" /\ req'[r].todo = rest /\ req'[r].kind = req[r].kind
        BY <1>1, <3>6 DEF Request
      <4> QED  BY <1>2, <3>4, <3>6, <4>1 DEF ToldByHandler, CallsFollow, HoldsCurrent, Pledged
    <3> QED  BY <1>3, <1>9, <2>2, <3>1, <3>5, <3>6 DEF Write
  <2> QED  BY <2>1, <2>2
<1>10. CASE Reread(r)
  <2>1. CASE subs[s] = NoDoc
    BY <1>3, <1>5, <1>10, <2>1 DEF Reread
  <2>2. CASE subs[s] # NoDoc
    <3>1. PICK calls, kind : calls = req[r].todo /\ kind = req[r].kind
      OBVIOUS
    <3>2. Proceed(r, calls, kind, subs[s]) /\ subs' = subs /\ req[r].pc = "reread"
      BY <1>3, <1>10, <2>2, <3>1 DEF Reread
    <3>3. calls \in Seq(HandlerOps) /\ AllOnCopy(calls) /\ (kind = "none" => req[r].sub = r /\ calls = <<>>)
      BY <1>1, <1>4, <3>1, <3>2 DEF CallsFollow, Request
    <3>4. calls # <<>> => Head(calls) \in OnCopy /\ AllOnCopy(Tail(calls))
      BY <3>3, HeadTailProperties, LenProperties, EmptySeq DEF AllOnCopy
    <3> QED  BY <1>6, <3>2, <3>3, <3>4
  <2> QED  BY <2>1, <2>2
<1> QED  BY <1>7, <1>8, <1>9, <1>10 DEF HandlerStep

(* A last event stays the last one while there are no others and what it   *)
(* shows stays stored.                                                     *)
LEMMA StaysTold ==
    ASSUME NEW s, events' = events, subs'[s] = subs[s], LastTold(s)
    PROVE  LastTold(s)'
  BY DEF LastTold

LEMMA ToldHandler ==
    ASSUME IInv, EventInv, FirstInv, SerialInv, ItemsComeAlone, ToldInv,
           NEW r \in Requests, HandlerStep(r)
    PROVE  ToldInv'
<1>1. ToldByHandler(r)
  BY HandlerTold
<1>2. /\ task[r].pc = "none" /\ events' = events
      /\ \A q \in Requests \ {r} : req'[q] = req[q] /\ task'[q] = task[q]
  BY HandlerFrame
<1>3. /\ req'[r].sub = req[r].sub
      /\ req'[r].kind = "lifecycle" => req[r].kind = "lifecycle"
      /\ \A t \in Requests \ {req[r].sub} : subs'[t] = subs[t]
  BY <1>2, HandlerKeeps
<1>4. \A q \in Requests \ {r} : ~ Busy(q)
  <2>1. Busy(r)
    BY DEF Busy, HandlerStep, Fetch, Read, Write, Reread
  <2> QED  BY <2>1 DEF SerialInv, OneAtWork
<1>5. \A q \in Requests : CallsFollow(q)'
  <2>1. \A q \in Requests \ {r} : CallsFollow(q)'
    BY <1>2 DEF ToldInv, CallsFollow
  <2> QED  BY <1>1, <2>1 DEF ToldByHandler
<1>6. \A q \in Requests : HoldsCurrent(q)' /\ task'[q].pc # "billingLost"
  <2>1. \A q \in Requests \ {r} : HoldsCurrent(q)' /\ task'[q].pc # "billingLost"
    BY <1>2, <1>4 DEF ToldInv, HoldsCurrent, Busy
  <2> QED  BY <1>1, <2>1 DEF ToldByHandler
<1>7. ASSUME NEW s \in Requests PROVE ToldOrPledged(s)'
  <2> SUFFICES ASSUME ByApi(s)', subs'[s] # NoDoc, ~ LastTold(s)',
                      ~ \E q \in Requests : (req[q].sub = s /\ Pledged(q))'
               PROVE  FALSE
    BY DEF ToldOrPledged
  <2>1. ByApi(s)
    BY <1>2, <1>3 DEF ByApi
  <2>2. CASE req[r].sub = s
    <3>1. ~ Pledged(r)'
      BY <1>3, <2>2
    <3>2. ~ (req'[r].kind = "none" /\ req[r].sub = r)
      BY <2>2 DEF ByApi
    <3>3. subs' = subs /\ ~ Pledged(r)
      BY <1>1, <2>2, <3>1, <3>2 DEF ToldByHandler
    <3>4. ~ LastTold(s)
      BY <1>2, <3>3, StaysTold
    <3>5. PICK q \in Requests : req[q].sub = s /\ Pledged(q)
      BY <2>1, <3>3, <3>4 DEF ToldInv, ToldOrPledged
    <3>6. q # r /\ ~ Busy(q)
      BY <1>4, <3>3, <3>5
    <3> QED  BY <3>5, <3>6 DEF Pledged, Busy
  <2>3. CASE req[r].sub # s
    <3>1. subs'[s] = subs[s]
      BY <1>3, <2>3
    <3>2. ~ LastTold(s)
      BY <1>2, <3>1, StaysTold
    <3>3. PICK q \in Requests : req[q].sub = s /\ Pledged(q)
      BY <2>1, <3>1, <3>2 DEF ToldInv, ToldOrPledged
    <3>4. ~ Busy(q)
      BY <1>4, <2>3, <3>3
    <3> QED  BY <3>3, <3>4 DEF Pledged, Busy
  <2> QED  BY <2>2, <2>3
<1> QED  BY <1>5, <1>6, <1>7 DEF ToldInv

LEMMA ToldArrive ==
    ASSUME IInv, EventInv, FirstInv, SerialInv, MaxInFlight = 1, ToldInv,
           NEW r \in Requests, Arrive(r)
    PROVE  ToldInv'
<1>1. /\ req[r].pc = "idle" /\ events' = events /\ task' = task
      /\ \A q \in Requests \ {r} : req'[q] = req[q] /\ subs'[q] = subs[q]
  BY ArriveFrame
<1>2. \A q \in Requests : ~ Busy(q)
  <2>1. InFlight < 1
    BY DEF Arrive, CreateSubscription, CompleteCheckout, CallEndpoint,
           UpdateSubscription, Arrives
  <2> QED  BY <2>1, NobodyAtWork
<1>3. /\ req[r] \in Request /\ req \in [Requests -> GoodRequest]
      /\ subs \in [Requests -> GoodDoc \cup {NoDoc}]
  BY DEF IInv, HandlersGood, GoodRequest
<1>4. /\ req[r].sub = 0 /\ req[r].kind = "none" /\ req[r].todo = <<>> /\ r # 0
  BY <1>1 DEF FirstInv, NamesKnown, SerialInv, AtomInv, StoredWasMade, Requests
<1>5. \A q \in Requests : HoldsCurrent(q)' /\ task'[q].pc # "billingLost"
  BY <1>1, <1>2 DEF HoldsCurrent, Busy, ToldInv
<1>6. \A q \in Requests \ {r} : CallsFollow(q)'
  BY <1>1 DEF ToldInv, CallsFollow
<1>7. ASSUME NEW s \in Requests, s # r \/ ~ ByApi(r)' \/ (Pledged(r)' /\ req'[r].sub = r)
      PROVE  ToldOrPledged(s)'
  <2>1. CASE s # r
    <3>1. ByApi(s)' <=> ByApi(s)
      BY <1>1, <2>1 DEF ByApi
    <3>2. ~ \E q \in Requests : Pledged(q)
      BY <1>2 DEF Pledged, Busy
    <3>3. subs'[s] = subs[s]
      BY <1>1, <2>1
    <3>4. ByApi(s) /\ subs[s] # NoDoc => LastTold(s)
      BY <3>2 DEF ToldInv, ToldOrPledged
    <3> QED  BY <1>1, <3>1, <3>3, <3>4, StaysTold DEF ToldOrPledged
  <2>2. CASE s = r
    BY <1>7, <2>2 DEF ToldOrPledged
  <2> QED  BY <2>1, <2>2
<1>8. CallsFollow(r)' /\ (~ ByApi(r)' \/ (Pledged(r)' /\ req'[r].sub = r))
  <2>1. ASSUME NEW items, CreateSubscription(r, items)
        PROVE  CallsFollow(r)' /\ Pledged(r)' /\ req'[r].sub = r
    <3>1. /\ req'[r].pc = "reread" /\ req'[r].sub = r /\ req'[r].kind = "lifecycle"
          /\ req'[r].todo = <<>>
      BY <1>3, <1>4, <2>1 DEF CreateSubscription, Request
    <3> QED  BY <3>1 DEF CallsFollow, Pledged, AllOnCopy
  <2>2. ASSUME NEW items, CompleteCheckout(r, items)
        PROVE  CallsFollow(r)' /\ ~ ByApi(r)'
    <3>1. /\ req'[r].pc = "reread" /\ req'[r].sub = r /\ req'[r].kind = "none"
          /\ req'[r].todo = <<>>
      BY <1>3, <1>4, <2>2 DEF CompleteCheckout, Request
    <3> QED  BY <3>1 DEF CallsFollow, ByApi, AllOnCopy
  <2>3. ASSUME NEW op \in Endpoints, NEW s \in Requests, CallEndpoint(r, op, s)
        PROVE  CallsFollow(r)' /\ ~ ByApi(r)'
    <3>1. /\ req'[r].pc = "read" /\ req'[r].kind = KindOf(op) /\ req'[r].todo = <<op>>
      BY <1>3, <2>3 DEF CallEndpoint, Request
    <3>2. KindOf(op) \notin {"none", "lifecycle"}
      BY DEF KindOf
    <3>3. AllOnCopy(Tail(<<op>>))
      BY DEF AllOnCopy
    <3> QED  BY <3>1, <3>2, <3>3 DEF CallsFollow, ByApi
  <2>4. ASSUME NEW s \in Requests, NEW args \in UpdateArgs, UpdateSubscription(r, s, args)
        PROVE  CallsFollow(r)' /\ ~ ByApi(r)'
    <3>1. req'[r].pc = "fetch" /\ req'[r].kind = "none" /\ req'[r].args = args
      BY <1>3, <1>4, <2>4 DEF UpdateSubscription, Request
    <3> QED  BY <3>1 DEF CallsFollow, ByApi
  <2> QED  BY <2>1, <2>2, <2>3, <2>4 DEF Arrive
<1> QED  BY <1>5, <1>6, <1>7, <1>8 DEF ToldInv

(* An event that shows what is stored is the last one.                     *)
LEMMA TriggerTells ==
    ASSUME IInv, NEW r \in Requests, NEW type, NEW d, Trigger(r, type, d),
           subs' = subs, NEW t, t = req[r].sub, d = subs[t]
    PROVE  /\ LastTold(t)'
           /\ \A s \in Requests \ {t} : LastTold(s) => LastTold(s)'
<1>1. PICK n \in Nat : n = Len(events)
  BY LenProperties DEF IInv
<1>2. /\ Len(events') = n + 1
      /\ \A i \in 1 .. n : events'[i] = events[i]
      /\ events'[n + 1] = [type |-> type, sub |-> req[r].sub, by |-> r, doc |-> d]
  BY <1>1, EventsGrow
<1>3. LastTold(t)'
  <2>1. events'[n + 1].sub = t /\ events'[n + 1].doc = subs'[t]
    BY <1>2
  <2>2. n + 1 \in 1 .. Len(events') /\ \A j \in n + 1 + 1 .. Len(events') : FALSE
    BY <1>2
  <2> QED  BY <2>1, <2>2 DEF LastTold
<1>4. ASSUME NEW s \in Requests \ {t}, LastTold(s) PROVE LastTold(s)'
  <2>1. PICK i \in 1 .. n : /\ events[i].sub = s /\ events[i].doc = subs[s]
                            /\ \A j \in i + 1 .. n : events[j].sub # s
    BY <1>1, <1>4 DEF LastTold
  <2>2. \A j \in i + 1 .. n + 1 : events'[j].sub # s
    <3>1. \A j \in i + 1 .. n : events'[j].sub # s
      BY <1>2, <2>1
    <3>2. events'[n + 1].sub # s
      BY <1>2, <1>4
    <3> QED  BY <1>1, <3>1, <3>2
  <2>3. i \in 1 .. Len(events') /\ events'[i].sub = s /\ events'[i].doc = subs'[s]
    BY <1>2, <2>1
  <2> QED  BY <1>2, <2>2, <2>3 DEF LastTold
<1> QED  BY <1>3, <1>4

LEMMA ToldTask ==
    ASSUME IInv, EventInv, FirstInv, SerialInv, ToldInv, NEW r \in Requests, TaskStep(r)
    PROVE  ToldInv'
<1>1. /\ req' = req /\ req[r].pc = "ok" /\ Busy(r)
      /\ task \in [Requests -> GoodTask] /\ subs \in [Requests -> GoodDoc \cup {NoDoc}]
      /\ req[r].sub \in Requests
  BY DEF IInv, StartedByAnswer, TasksGood, TaskStep, TaskFetch, TaskAnnounce,
         TaskBilled, TaskAborted, TaskActivate, TaskConclude, Busy,
         HandlersGood, GoodRequest, Request
<1>2. \A q \in Requests \ {r} : ~ Busy(q)
  BY <1>1 DEF SerialInv, OneAtWork
<1>3. \A q \in Requests \ {r} : task'[q] = task[q]
  BY <1>1 DEF TaskStep, TaskFetch, TaskAnnounce, TaskBilled, TaskAborted,
         TaskActivate, TaskConclude
<1>4. PICK s \in Requests : s = req[r].sub
  BY <1>1
<1>5. \A q \in Requests : CallsFollow(q)'
  BY <1>1 DEF ToldInv, CallsFollow
<1>6. HoldsCurrent(r) /\ task[r].pc # "billingLost"
  BY DEF ToldInv
<1>7. \A q \in Requests \ {r} : HoldsCurrent(q)' /\ task'[q].pc # "billingLost"
  BY <1>2, <1>3 DEF ToldInv, HoldsCurrent, Busy
<1>8. ASSUME HoldsCurrent(r)', task'[r].pc # "billingLost",
             \A t \in Requests \ {s} : subs'[t] = subs[t] /\ (LastTold(t) => LastTold(t)'),
             \/ LastTold(s)' \/ subs'[s] = NoDoc
             \/ /\ Pledged(r)' \/ ~ Pledged(r)
                /\ subs'[s] = subs[s] /\ (LastTold(s) => LastTold(s)')
             \/ Pledged(r)'
      PROVE  ToldInv'
  <2>1. \A q \in Requests : HoldsCurrent(q)' /\ task'[q].pc # "billingLost"
    BY <1>7, <1>8
  <2>2. \A t \in Requests : ByApi(t)' <=> ByApi(t)
    BY <1>1 DEF ByApi
  <2>3. \A q \in Requests \ {r} : ~ Pledged(q)
    BY <1>2 DEF Pledged, Busy
  <2>4. ASSUME NEW t \in Requests \ {s} PROVE ToldOrPledged(t)'
    <3>1. ByApi(t) /\ subs[t] # NoDoc => LastTold(t)
      BY <1>4, <2>3, <2>4 DEF ToldInv, ToldOrPledged
    <3> QED  BY <1>8, <2>2, <2>4, <3>1 DEF ToldOrPledged
  <2>5. ToldOrPledged(s)'
    <3>1. ByApi(s) /\ subs[s] # NoDoc => LastTold(s) \/ Pledged(r)
      BY <1>4, <2>3 DEF ToldInv, ToldOrPledged
    <3>2. req'[r].sub = s
      BY <1>1, <1>4
    <3> QED  BY <1>8, <2>2, <3>1, <3>2 DEF ToldOrPledged
  <2> QED  BY <1>5, <2>1, <2>4, <2>5 DEF ToldInv
<1>9. ASSUME subs' = subs, events' = events PROVE \A t \in Requests : LastTold(t) => LastTold(t)'
  BY <1>9, StaysTold
<1>10. CASE TaskFetch(r)
  <2>1. /\ subs' = subs /\ events' = events /\ task'[r].doc = subs[s]
        /\ task'[r].pc = IF subs[s] = NoDoc THEN "done"
                         ELSE IF req[r].kind = "lifecycle" THEN "announce" ELSE "billing"
    BY <1>1, <1>4, <1>10 DEF TaskFetch, GoodTask, Task
  <2>2. HoldsCurrent(r)' /\ task'[r].pc # "billingLost"
    BY <1>1, <1>4, <2>1 DEF HoldsCurrent
  <2>3. subs'[s] = NoDoc \/ Pledged(r)' \/ ~ Pledged(r)
    BY <1>1, <2>1 DEF Pledged
  <2> QED  BY <1>4, <1>8, <1>9, <2>1, <2>2, <2>3
<1>11. CASE TaskAnnounce(r)
  <2>1. /\ subs' = subs /\ Trigger(r, "created", task[r].doc) /\ task'[r].pc = "billing"
        /\ task'[r].doc = task[r].doc /\ task[r].doc = subs[s]
    BY <1>1, <1>4, <1>6, <1>11 DEF TaskAnnounce, GoodTask, Task, HoldsCurrent
  <2>2. LastTold(s)' /\ \A t \in Requests \ {s} : LastTold(t) => LastTold(t)'
    BY <1>4, <2>1, TriggerTells
  <2>3. HoldsCurrent(r)'
    BY <1>1, <1>4, <2>1 DEF HoldsCurrent
  <2> QED  BY <1>8, <2>1, <2>2, <2>3
<1>12. CASE TaskBilled(r)
  <2>1. /\ subs' = subs /\ events' = events /\ task'[r].doc = task[r].doc
        /\ task[r].pc = "billing" /\ task'[r].pc \in {"activate", "conclude"}
    BY <1>1, <1>6, <1>12 DEF TaskBilled, GoodTask, Task
  <2>2. HoldsCurrent(r)'
    BY <1>1, <1>6, <2>1 DEF HoldsCurrent
  <2>3. Pledged(r)' \/ ~ Pledged(r)
    BY <1>1, <2>1 DEF Pledged
  <2> QED  BY <1>8, <1>9, <2>1, <2>2, <2>3
<1>13. CASE TaskAborted(r)
  BY <1>6, <1>13 DEF TaskAborted
<1>14. CASE TaskActivate(r)
  <2>1. req[r].kind = "lifecycle" /\ events' = events
    BY <1>14 DEF TaskActivate, EventInv, LifecycleOnly
  <2>2. CASE subs[s] = NoDoc
    <3>1. task'[r].pc = "done" /\ subs' = subs
      BY <1>1, <1>4, <1>14, <2>2 DEF TaskActivate, GoodTask, Task
    <3>2. HoldsCurrent(r)'
      BY <3>1 DEF HoldsCurrent
    <3> QED  BY <1>8, <1>9, <2>1, <2>2, <3>1, <3>2
  <2>3. CASE subs[s] # NoDoc
    <3>1. PICK d : d = Activated(task[r].doc)
      OBVIOUS
    <3>2. /\ task'[r].pc = "conclude" /\ task'[r].doc = d
          /\ subs'[s] = d /\ \A t \in Requests \ {s} : subs'[t] = subs[t]
      BY <1>1, <1>4, <1>14, <2>3, <3>1 DEF TaskActivate, GoodTask, Task
    <3>3. HoldsCurrent(r)' /\ Pledged(r)'
      BY <1>1, <1>4, <2>1, <3>2 DEF HoldsCurrent, Pledged
    <3>4. \A t \in Requests \ {s} : LastTold(t) => LastTold(t)'
      BY <2>1, <3>2, StaysTold
    <3> QED  BY <1>8, <3>2, <3>3, <3>4
  <2> QED  BY <2>2, <2>3
<1>15. CASE TaskConclude(r)
  <2>1. /\ subs' = subs /\ Trigger(r, Conclusion(req[r].kind), task[r].doc)
        /\ task'[r].pc = "done" /\ task[r].doc = subs[s]
    BY <1>1, <1>4, <1>6, <1>15 DEF TaskConclude, GoodTask, Task, HoldsCurrent
  <2>2. LastTold(s)' /\ \A t \in Requests \ {s} : LastTold(t) => LastTold(t)'
    BY <1>4, <2>1, TriggerTells
  <2>3. HoldsCurrent(r)'
    BY <2>1 DEF HoldsCurrent
  <2> QED  BY <1>8, <2>1, <2>2, <2>3
<1> QED  BY <1>10, <1>11, <1>12, <1>13, <1>14, <1>15 DEF TaskStep

LEMMA ToldNext ==
    ASSUME MaxInFlight = 1, ItemsComeAlone, IInv, EventInv, FirstInv, SerialInv,
           ToldInv, [Next]_vars
    PROVE  ToldInv'
<1>1. CASE ResetSubscriptions
  <2>1. /\ req' = req /\ task' = task /\ subs' = [s \in Requests |-> NoDoc]
    BY <1>1 DEF ResetSubscriptions
  <2>2. \A q \in Requests : ~ Busy(q)
    <3>1. InFlight < 1
      BY <1>1 DEF ResetSubscriptions
    <3> QED  BY <3>1, NobodyAtWork
  <2> QED  BY <2>1, <2>2 DEF ToldInv, CallsFollow, HoldsCurrent, ToldOrPledged, Busy
<1>2. CASE ResetInvoices
  <2>1. \A q \in Requests : ~ Busy(q)
    BY <1>2 DEF ResetInvoices, SerialInv, OneAtWork
  <2>2. task \in [Requests -> GoodTask]
    BY DEF IInv, TasksGood
  <2>3. /\ req' = req /\ subs' = subs /\ events' = events
        /\ \A q \in Requests : task'[q].pc = task[q].pc
    BY <1>2, <2>1, <2>2 DEF ResetInvoices, Busy, GoodTask, Task
  <2>4. \A q \in Requests : ~ Pledged(q)
    BY <2>1 DEF Pledged, Busy
  <2>5. \A s \in Requests : ToldOrPledged(s)'
    BY <2>3, <2>4, StaysTold DEF ToldInv, ToldOrPledged, ByApi
  <2>6. \A q \in Requests : HoldsCurrent(q)'
    BY <2>1, <2>3 DEF HoldsCurrent, Busy
  <2> QED  BY <2>3, <2>5, <2>6 DEF ToldInv, CallsFollow
<1>3. CASE UNCHANGED vars
  BY <1>3 DEF vars, ToldInv, CallsFollow, HoldsCurrent, ToldOrPledged, LastTold, Pledged,
              ByApi
<1> QED  BY <1>1, <1>2, <1>3, ToldArrive, ToldHandler, ToldTask DEF Next

LEMMA ToldInit == Init => ToldInv
  BY DEF Init, ToldInv, CallsFollow, HoldsCurrent, ToldOrPledged

(* A client that waits for one thing before it starts the next and sends   *)
(* updates of the items by themselves can follow the subscription by its   *)
(* events: whenever nothing is at work the last event about a subscription *)
(* made through the API shows what is stored, whatever the requests were,  *)
(* the refused ones and the resets included.                               *)
THEOREM SerialLastEvent ==
    ASSUME MaxInFlight = 1, ItemsComeAlone
    PROVE  Spec => []LastEventIsCurrent
<1>1. /\ Init => IInv /\ EventInv /\ FirstInv /\ SerialInv /\ ToldInv
      /\ IInv /\ EventInv /\ FirstInv /\ SerialInv /\ ToldInv /\ [Next]_vars
           => IInv' /\ EventInv' /\ FirstInv' /\ SerialInv' /\ ToldInv'
  BY InitIInv, EventInit, FirstInit, SerialInit, ToldInit, NextIInv, EventNext, FirstNext,
     SerialNext, ToldNext
<1>2. ToldInv => LastEventIsCurrent
  <2> SUFFICES ASSUME ToldInv, InFlight = 0, NEW s \in Requests, ByApi(s), subs[s] # NoDoc
               PROVE  LastTold(s)
    BY DEF LastEventIsCurrent, LastTold
  <2>1. \A q \in Requests : ~ Busy(q)
    BY NobodyAtWork
  <2> QED  BY <2>1 DEF ToldInv, ToldOrPledged, Pledged, Busy
<1> QED  BY <1>1, <1>2, PTL DEF Spec

=============================================================================
