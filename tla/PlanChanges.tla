---------------------------- MODULE PlanChanges ----------------------------
(***************************************************************************)
(* Changing the plan of a subscription in the middle of its period:        *)
(* Gateway.UpdateSubscriptionItems, the proration of                       *)
(* pkg/gateway/proration.go and the amounts that are invoiced for it.      *)
(*                                                                         *)
(* Amounts are whole numbers of cents.  A quotient of durations is rounded *)
(* to one part in Scale, as the decimal package does with sixteen digits,  *)
(* and amounts that were multiplied with one are counted in such parts.    *)
(* Clients make one request at a time; how requests interleave is the      *)
(* subject of Subscriptions.                                               *)
(***************************************************************************)
EXTENDS Integers, Sequences, FiniteSetsExt

CONSTANTS Prices,       \* price ids
          Stored,       \* those of prices in the repository
          Amount,       \* the unit amount of each price, None if it has none
          Cadence,      \* the interval of each price
          Length,       \* how long each interval is
          Plans,        \* what is subscribed to: prices, one for each item
          Given,        \* the times clients give for the periods of items
          Asked,        \* what clients ask for an item
          Behaviors,    \* the proration_behavior they send
          Scale,
          MaxTime, MaxChanges, MaxRenewals,  \* bounds
          Keep, Deleted, None

Cadences == {"month", "year"}

ASSUME PlanAssumption ==
    /\ IsFiniteSet(Prices) /\ Stored \subseteq Prices
    /\ Amount \in [Prices -> Nat \cup {None}] /\ Cadence \in [Prices -> Cadences]
    /\ Length \in [Cadences -> Nat \ {0}]
    /\ Plans \subseteq Seq(Prices) /\ Given \subseteq Int
    /\ Asked \subseteq Prices \cup {Keep, Deleted}
    /\ Deleted \notin Prices /\ Keep \notin Prices \cup {Deleted}
    /\ Behaviors \subseteq {"none", "create_prorations", "always_invoice"}
    /\ Scale \in Nat \ {0}
    /\ MaxTime \in Nat /\ MaxChanges \in Nat /\ MaxRenewals \in Nat
    /\ None \notin Int

VARIABLES
    items,     \* the items of the subscription
    now,       \* the time
    invoice,   \* what the last plan change invoiced: an amount, or None,
    due,       \*   and what it should: an amount in parts, or None
    behavior,  \*   and the behavior it was made with, or None
    paid,      \* what the plan changes invoiced in all
    owed,      \*   and what was used so far, less the first plan for a
               \*   whole period, in cents times Length
    plain,     \* whether all changes so far could be prorated exactly
    changes, renewals

vars == <<items, now, invoice, due, behavior, paid, owed, plain, changes, renewals>>

\* A price created with unit_amount 0, or with none, is stored with none.
Priced(p) == p \in Stored /\ Amount[p] # None

\* Not found, a price counts as a monthly one; without an amount it counts
\* with a default.
AmountOr(default, p) == IF Priced(p) THEN Amount[p] ELSE default
CadenceOf(p) == IF p \in Stored THEN Cadence[p] ELSE "month"

OldDefault == 1000
NewDefault == 2000

---------------------------------------------------------------------------
(* Proration.                                                              *)

\* Faulty: the elapsed time is charged.
RatioElapsed(remaining, total) ==
    (2 * (total - remaining) * Scale + total) \div (2 * total)

\* remaining / total in parts, rounded half up.
Ratio(remaining, total) == (2 * remaining * Scale + total) \div (2 * total)

ProrationAmountByTime(amount, total, remaining) ==
    IF remaining = 0 THEN 0 ELSE amount * Ratio(remaining, total)

SameCadenceProration(old, new, total, remaining) ==
    ProrationAmountByTime(new, total, remaining)
      - ProrationAmountByTime(old, total, remaining)

CrossCadenceProration(old, new, total, remaining) ==
    new * Scale - ProrationAmountByTime(old, total, remaining)

\* Faulty: the time may be outside the period.
CalculateProrationAnytime(old, new, start, end) ==
    LET prorate(a, b) ==
          IF CadenceOf(old) = CadenceOf(new)
          THEN SameCadenceProration(a, b, end - start, end - now)
          ELSE CrossCadenceProration(a, b, end - start, end - now)
    IN  IF start < end THEN prorate(AmountOr(OldDefault, old), AmountOr(NewDefault, new))
        ELSE None

\* CreditDue, or None when the time is not in the period.
CalculateProration(old, new, start, end) ==
    LET prorate(a, b) ==
          IF CadenceOf(old) = CadenceOf(new)
          THEN SameCadenceProration(a, b, end - start, end - now)
          ELSE CrossCadenceProration(a, b, end - start, end - now)
    IN  IF start <= now /\ now <= end /\ start # end
        THEN prorate(AmountOr(OldDefault, old), AmountOr(NewDefault, new))
        ELSE None

\* Faulty: rounds down.
Floor(parts) == parts \div Scale

\* decimal.IntPart: towards zero.
IntPart(parts) == IF parts >= 0 THEN parts \div Scale ELSE -((-parts) \div Scale)

---------------------------------------------------------------------------

\* An item: its price, the unit amount of the copy of the price it embeds,
\* and its period.
Item(p, amount, start, end) ==
    [price |-> p, unit |-> amount, start |-> start, end |-> end]

\* The periods of an item of a subscription created directly: each end of
\* it is the one the client gives, or that of thirty days from now.
Periods == [start : Given \cup {0}, end : Given \cup {Length["month"]}]

\* A checkout embeds the prices and takes their intervals; a subscription
\* created directly has the periods asked for and no unit amounts.
Subscribed(plan) ==
    {[i \in DOMAIN plan |->
        Item(plan[i], AmountOr(None, plan[i]), 0, Length[CadenceOf(plan[i])])]}
    \cup {[i \in DOMAIN plan |-> Item(plan[i], None, period[i].start, period[i].end)] :
             period \in [DOMAIN plan -> Periods]}

\* What all items cost for one period.
CostOf(its) ==
    LET cost[n \in 0 .. Len(its)] ==
          IF n = 0 THEN 0 ELSE cost[n - 1] + AmountOr(0, its[n].price)
    IN  cost[Len(its)]

Worth == CostOf(items)

Monthly(p) == Priced(p) /\ Cadence[p] = "month"

\* The first item, whose period a proration goes by, has that of the month.
StartsToday ==
    items # <<>> => items[1].start = 0 /\ items[1].end = Length["month"]

Init == /\ items \in UNION {Subscribed(plan) : plan \in Plans}
        /\ now = 0
        /\ invoice = None /\ due = None /\ behavior = None
        /\ paid = 0
        /\ owed = -(Worth * Length["month"])
        /\ plain = (StartsToday /\ \A i \in DOMAIN items : Monthly(items[i].price))
        /\ changes = 0 /\ renewals = 0

Tick ==
    /\ now < MaxTime
    /\ now' = now + 1
    /\ owed' = owed + Worth
    /\ UNCHANGED <<items, invoice, due, behavior, paid, plain, changes, renewals>>

\* Item i after the updates u; only the id of a price is replaced.
Repricing(u, i) ==
    IF u[i] \in Prices THEN [items[i] EXCEPT !.price = u[i]] ELSE items[i]

\* The ways to go through S from the least to the greatest: there is one.
Ascending(S) ==
    {f \in [1 .. Cardinality(S) -> S] : \A m, n \in DOMAIN f : m < n => f[m] < f[n]}

\* The items after the updates u, those deleted left out: one sequence.
Updated(u) ==
    {[n \in DOMAIN f |-> Repricing(u, f[n])] :
        f \in Ascending({i \in DOMAIN items : u[i] # Deleted})}

\* The items whose price is replaced; the last one is prorated.
Repriced(u) == {i \in DOMAIN items : u[i] \in Prices}

\* What UpdateSubscriptionItems returns as the proration of updates u.
ProrationOf(u, b, newItems) ==
    IF b = "none" \/ Repriced(u) = {} THEN None
    ELSE LET i == Max(Repriced(u))
         IN  CalculateProration(items[i].price, u[i], newItems[1].start, newItems[1].end)

\* The invoice of create_prorations is one for the first item.
FirstUnit(newItems) ==
    IF newItems = <<>> \/ newItems[1].unit = None THEN 1000 ELSE newItems[1].unit

\* The amount triggerSubscriptionPlanChange invoices, or None.
Invoiced(b, d, newItems) ==
    CASE b = "none" \/ d = None \/ d = 0 -> None
      [] b = "create_prorations" /\ d \notin {None, 0} -> FirstUnit(newItems)
      [] b = "always_invoice" /\ d \notin {None, 0} -> IntPart(d)

\* One item gets another monthly price, at once.
IsPlain(u, b) ==
    /\ b = "always_invoice"
    /\ \A i \in DOMAIN items : u[i] = Keep \/ (u[i] \in Prices /\ Monthly(u[i]))
    /\ Cardinality(Repriced(u)) <= 1

Change(u, b) ==
    /\ changes < MaxChanges
    /\ items # <<>>
    /\ items' \in Updated(u)
    /\ due' = ProrationOf(u, b, items')
    /\ invoice' = Invoiced(b, due', items')
    /\ paid' = paid + IF invoice' = None THEN 0 ELSE invoice'
    /\ behavior' = b
    /\ plain' = (plain /\ IsPlain(u, b))
    /\ changes' = changes + 1
    /\ UNCHANGED <<now, owed, renewals>>

\* RenewSubscription moves the period of the first item by thirty days.
Renew ==
    /\ renewals < MaxRenewals
    /\ renewals' = renewals + 1
    /\ items' = IF items = <<>> THEN items
                ELSE [items EXCEPT
                        ![1] = Item(@.price, @.unit, @.end, @.end + Length["month"])]
    /\ plain' = FALSE
    /\ UNCHANGED <<now, invoice, due, behavior, paid, owed, changes>>

Next == \/ Tick
        \/ \E u \in [DOMAIN items -> Asked], b \in Behaviors : Change(u, b)
        \/ Renew

Spec == Init /\ [][Next]_vars

---------------------------------------------------------------------------

\* Every variable has its type, but for owed, which DifferenceIsPaid bounds.
TypeOK ==
    /\ items \in Seq([price : Prices, unit : Nat \cup {None}, start : Int, end : Int])
    /\ now \in 0..MaxTime
    /\ invoice \in Int \cup {None} /\ due \in Int \cup {None}
    /\ behavior \in Behaviors \cup {None}
    /\ paid \in Int /\ plain \in BOOLEAN

(* With always_invoice the invoices of a period's changes add up to the    *)
(* difference the changes made: what was used of the plans in it and what  *)
(* the plan of now is worth for the rest of it, less what the plan it      *)
(* began with would have been worth for all of it, to a cent and a half    *)
(* for each change.  (What the period began with is invoiced elsewhere.)   *)
(* It takes changes of one item, to other monthly prices.                  *)
DifferenceIsPaid ==
    LET period == Length["month"]
        rest == period - now
        off == paid * period - (owed + Worth * rest)
    IN  plain /\ rest >= 0 =>
          -3 * period * changes <= 2 * off /\ 2 * off <= 3 * period * changes

\* Item i, and no other, gets a price of the same interval.
OnlyReplaces(i) ==
    /\ items'[i].price # items[i].price
    /\ CadenceOf(items[i].price) = CadenceOf(items'[i].price)
    /\ \A n \in DOMAIN items \ {i} : items'[n].price = items[n].price

\* What a change of item i back, at this moment, is invoiced with.
InvoicedBack(i) ==
    Invoiced("always_invoice",
             CalculateProration(items'[i].price, items[i].price,
                                items[1].start, items[1].end),
             items)

AllPriced ==
    \A i \in DOMAIN items : Priced(items[i].price) /\ Priced(items'[i].price)

(* Changing back at the same moment gives back what the change was         *)
(* invoiced for, to the cent, when the intervals of the plans are one,     *)
(* whatever changes and renewals went before.  The prices are all stored   *)
(* with an amount: without one the old price counts 1000, the new one 2000.*)
ChangingBackRefunds ==
    [][\A i \in DOMAIN items :
         /\ changes' # changes /\ behavior' = "always_invoice"
         /\ invoice' # None
         /\ Len(items') = Len(items) /\ AllPriced
         /\ OnlyReplaces(i)
         => InvoicedBack(i) = -(invoice')]_vars

(* A proration neither charges nor credits more than the dearest price     *)
(* there is, at whatever time and after whatever renewal it is computed.   *)
DueIsBounded ==
    LET amounts == ({Amount[p] : p \in Prices} \ {None}) \cup {OldDefault, NewDefault}
    IN  due # None => /\ due <= Max(amounts) * Scale
                      /\ due >= -(Max(amounts) * Scale)
=============================================================================
