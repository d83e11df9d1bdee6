----------------------- MODULE AtomicSubscriptions -----------------------
(***************************************************************************)
(* What the subscription endpoints promise a client: a repository in which *)
(* every operation is one step.  A step takes the document that is stored, *)
(* makes its checks on it and replaces it by the document the operation    *)
(* computes from it, so no update is ever lost or undone by another, and a *)
(* subscription becomes active by its first payment only while it still    *)
(* waits for it.                                                           *)
(***************************************************************************)
EXTENDS SubscriptionDocs

CONSTANTS Ids,           \* the ids subscriptions may get
          InitialItems   \* the items they may be created with

VARIABLE subs   \* the document under each id, or NoDoc

Init == subs = [s \in Ids |-> NoDoc]

\* POST /v1/subscriptions, and the completion of a checkout session.
Add(s) ==
    /\ subs[s] = NoDoc
    /\ \E items \in InitialItems :
         subs' = [subs EXCEPT ![s] = NewDoc(items)]
           \/ subs' = [subs EXCEPT ![s] = CheckoutDoc(items)]

\* One operation, whole.
Operate(s) ==
    /\ subs[s] # NoDoc
    /\ \E op \in Ops, updates \in ItemUpdates :
         /\ op = "activate" => subs[s].status = "incomplete"
         /\ CanApply(op, subs[s], updates)
         /\ subs' = [subs EXCEPT ![s] = Apply(op, subs[s], updates)]

\* POST /v1/reset.
Clear == subs' = [s \in Ids |-> NoDoc]

Next == (\E s \in Ids : Add(s) \/ Operate(s)) \/ Clear

Spec == Init /\ [][Next]_subs
=============================================================================
