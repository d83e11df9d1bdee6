------------------------- MODULE SubscriptionDocs -------------------------
(***************************************************************************)
(* The subscription document and what the gateway's subscription           *)
(* operations do to one (pkg/gateway/gateway.go).  Everything here is a    *)
(* function of a document: reading it from and writing it to the           *)
(* repository are steps of Subscriptions.tla.                              *)
(*                                                                         *)
(* A document keeps the fields the operations read or write.  Times are    *)
(* counted in billing periods of 30 days, 0 standing for a nil CancelAt.   *)
(* The slice sub.Items.Data is a function on the positions items have in   *)
(* the request that creates them, NoItem where there is none any more, so  *)
(* the first item of the slice is the one at the least position.           *)
(***************************************************************************)
EXTENDS Naturals

CONSTANTS
    ItemIds,    \* positions of the items in the request that creates them
    Prices,     \* price ids
    Untouched,  \* the update of an item a request does not name,
    NoPrice,    \*   of one it names without a price id,
    Deleted,    \*   and of one it marks for deletion
    NoItem,     \* what is left of an item that was deleted
    NoDoc       \* what the repository holds under an id it does not know

Statuses == {"incomplete", "active", "paused", "canceled"}

Item == [price : Prices, periodEnd : Nat]

Doc == [status            : Statuses,
        cancelAtPeriodEnd : BOOLEAN,
        cancelAt          : Nat,       \* 0: nil
        canceledAt        : BOOLEAN,   \* is the time set?
        pauseCollection   : BOOLEAN,   \* is it set?
        items             : [ItemIds -> Item \cup {NoItem}]]

\* What one request asks of the items.
ItemUpdates == [ItemIds -> Prices \cup {Untouched, NoPrice, Deleted}]

ASSUME DocAssumption ==
    /\ ItemIds \subseteq Nat
    /\ {Untouched, NoPrice, Deleted} \cap Prices = {}
    /\ NoItem \notin Item
    /\ NoDoc \notin Doc

---------------------------------------------------------------------------

\* buildSubscription: what POST /v1/subscriptions stores.
NewDoc(items) ==
    [status |-> "incomplete", cancelAtPeriodEnd |-> FALSE, cancelAt |-> 0,
     canceledAt |-> FALSE, pauseCollection |-> FALSE, items |-> items]

\* What completing a checkout session in subscription mode stores.
CheckoutDoc(items) == [NewDoc(items) EXCEPT !.status = "active"]

\* The items left, and sub.Items.Data[0].
Left(items)  == {i \in ItemIds : items[i] # NoItem}
First(items) == CHOOSE i \in Left(items) : \A j \in Left(items) : i <= j

Paused(d)  == [d EXCEPT !.status = "paused"]
Resumed(d) == [d EXCEPT !.status = "active"]

\* Faulty: the scheduled time survives the cancellation.
CanceledAsScheduled(d) == [d EXCEPT !.status = "canceled", !.canceledAt = TRUE]

Canceled(d) ==
    [d EXCEPT !.status = "canceled", !.canceledAt = TRUE, !.cancelAt = 0]

Expired(d) == [Canceled(d) EXCEPT !.cancelAtPeriodEnd = FALSE]

\* cancel_at keeps its old value when the first item has no period end.
CancelScheduled(d) ==
    [d EXCEPT !.cancelAtPeriodEnd = TRUE,
              !.cancelAt = IF /\ Left(d.items) # {}
                              /\ d.items[First(d.items)].periodEnd > 0
                           THEN d.items[First(d.items)].periodEnd
                           ELSE @]

CancelUnscheduled(d) == [d EXCEPT !.cancelAtPeriodEnd = FALSE, !.cancelAt = 0]

\* Only the first item moves to its next period.
Renewed(d) ==
    [CancelUnscheduled(d) EXCEPT
        !.items = [i \in ItemIds |->
                     IF i \in Left(d.items) /\ i = First(d.items)
                     THEN [d.items[i] EXCEPT !.periodEnd = @ + 1]
                     ELSE d.items[i]]]

CollectionPaused(d)  == [d EXCEPT !.pauseCollection = TRUE]
CollectionResumed(d) == [d EXCEPT !.pauseCollection = FALSE]

WithItems(d, updates) ==
    [d EXCEPT !.items = [i \in ItemIds |->
        IF i \notin Left(d.items) \/ updates[i] = Untouched THEN d.items[i]
        ELSE IF updates[i] = Deleted THEN NoItem
        ELSE [d.items[i] EXCEPT !.price = updates[i]]]]

\* The last write of the lifecycle goroutine.
Activated(d) == [d EXCEPT !.status = "active"]

---------------------------------------------------------------------------

\* The updates UpdateSubscriptionItems refuses.
PriceMissing(d, updates) ==
    \E i \in Left(d.items) : updates[i] = NoPrice

\* The operations on a stored subscription, "activate" apart the ones a
\* request asks for.
Ops == {"pause", "resume", "cancel", "expire", "renew", "setCancel",
        "clearCancel", "pauseCollection", "clearPause", "items", "activate"}

\* The operations that want an active and those that want a paused
\* subscription.
ActiveOnly      == {"pause", "renew", "setCancel", "items"}
ResumableAlways == {}                                \* faulty: resumes any
PausedOnly      == {"resume"}

\* The checks an operation makes on the copy it has read.
CanApply(op, d, updates) ==
    /\ op \in ActiveOnly => d.status = "active"
    /\ op \in PausedOnly => d.status = "paused"
    /\ op = "expire" => d.cancelAtPeriodEnd
    /\ op = "items"  => Left(d.items) # {} /\ ~PriceMissing(d, updates)

Apply(op, d, updates) ==
    CASE op = "pause"           -> Paused(d)
      [] op = "resume"          -> Resumed(d)
      [] op = "cancel"          -> Canceled(d)
      [] op = "expire"          -> Expired(d)
      [] op = "renew"           -> Renewed(d)
      [] op = "setCancel"       -> CancelScheduled(d)
      [] op = "clearCancel"     -> CancelUnscheduled(d)
      [] op = "pauseCollection" -> CollectionPaused(d)
      [] op = "clearPause"      -> CollectionResumed(d)
      [] op = "items"           -> WithItems(d, updates)
      [] op = "activate"        -> Activated(d)

---------------------------------------------------------------------------

(* A document hangs together: a cancellation time goes with a scheduled    *)
(* cancellation, a canceled subscription has been given its canceled_at    *)
(* and has no cancellation ahead, and a subscription whose first invoice   *)
(* is not paid has neither.                                                *)
Coherent(d) ==
    /\ d.cancelAt # 0 => d.cancelAtPeriodEnd
    /\ d.status = "canceled" => d.canceledAt /\ d.cancelAt = 0
    /\ d.status = "incomplete" => ~d.cancelAtPeriodEnd /\ ~d.canceledAt
=============================================================================
