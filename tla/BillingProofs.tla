--------------------------- MODULE BillingProofs ---------------------------
(***************************************************************************)
(* Proofs about Billing, for any number of goroutines, subscriptions and   *)
(* resets.                                                                 *)
(*                                                                         *)
(* What a goroutine has announced and stored follows from its kind and     *)
(* from where it is, but for what a reset took away.  The inductive        *)
(* invariant spells that out, goroutine by goroutine.                      *)
(***************************************************************************)
EXTENDS Billing, SequenceTheorems, TLAPS

\* What an event may show.
Shows == {"incomplete", "changed", "active", None} \cup InvoiceStatuses \cup Jobs

EventRecord == [type : EventTypes, shows : Shows]

\* What TypeOK says of each variable, and what the events are.
Typed ==
    /\ subs \subseteq Subs
    /\ invoices \in [Jobs -> InvoiceStatuses \cup {None}]
    /\ charges \subseteq Jobs
    /\ kind \in [Jobs -> Kinds \cup {None}]
    /\ sub \in [Jobs -> Subs \cup {None}]
    /\ pc \in [Jobs -> Pcs]
    /\ told \in [Jobs -> Seq(EventRecord)]
    /\ clears \in 0..(Repositories * MaxResets)
    /\ begun \in [Jobs -> 0..(Repositories * MaxResets)]

\* The kinds whose invoice is created paid.
Immediate == {"checkout", "prorated"}

\* The places on the way of an invoice from draft to paid.
Drafted   == {"readDraft", "tellDraft", "open"}
Finalized == {"tellOpen", "charge", "readCharge", "tellCharge", "pay"}
Paid      == {"readPaid", "tellPaid", "activate", "tellActive", "tellRenewed"}
Unbilled  == {"unborn", "tellChange", "fetch", "tellCreated", "draft", "bill"}

\* Each place belongs to some kinds.
Fits(j) ==
    /\ pc[j] = "unborn" <=> kind[j] = None
    /\ pc[j] = "tellChange" => kind[j] \in PlanChanges
    /\ pc[j] = "fetch" => kind[j] \in {"lifecycle", "renewal"} \cup Immediate
    /\ pc[j] = "tellCreated" => kind[j] = "lifecycle"
    /\ pc[j] \in {"draft"} \cup Drafted \cup Finalized => kind[j] \in Waterfalls
    /\ pc[j] \in {"bill", "readPaid"} => kind[j] \in Immediate
    /\ pc[j] = "tellPaid" => kind[j] \in Waterfalls \cup Immediate
    /\ pc[j] \in {"activate", "tellActive"} => kind[j] = "lifecycle"
    /\ pc[j] = "tellRenewed" => kind[j] = "renewal"

---------------------------------------------------------------------------
(* The story of each kind, event by event.                                 *)

\* How many events come before those of the invoice, and in all.
Base(k) == IF k \in {"lifecycle"} \cup PlanChanges THEN 1 ELSE 0

Total(k) == CASE k = "lifecycle" -> 6
              [] k \in {"renewal", "invoiced"} -> 5
              [] k = "prorated" -> 2
              [] k \in {"checkout", "uninvoiced"} -> 1
              [] k = None -> 0

Opening(k) == IF k = "lifecycle" THEN Event("subscription.created", "incomplete")
            ELSE Event("subscription.updated", "changed")

Closing(k) == Event("subscription.updated",
                 IF k = "lifecycle" THEN "active" ELSE "changed")

\* The n-th event goroutine j triggers if its kind is k.
Entry(j, k, n) ==
    IF n <= Base(k) THEN Opening(k)
    ELSE IF k \in Immediate THEN Event("invoice.paid", "paid")
    ELSE CASE n = Base(k) + 1 -> Event("invoice.created", "draft")
           [] n = Base(k) + 2 -> Event("invoice.finalized", "open")
           [] n = Base(k) + 3 -> Event("charge.succeeded",
                                       IF k = "invoiced" THEN None ELSE j)
           [] n = Base(k) + 4 -> Event("invoice.paid", "paid")
           [] n = Base(k) + 5 -> Closing(k)

\* What has been told is the beginning of the story.
Follows(j) ==
    /\ Len(told[j]) <= Total(kind[j])
    /\ \A n \in 1 .. Len(told[j]) : told[j][n] = Entry(j, kind[j], n)

\* How many events have been told at each place.
Pace(j) ==
    /\ pc[j] \in {"unborn", "tellChange", "tellCreated"} => Len(told[j]) = 0
    /\ pc[j] = "fetch" => Len(told[j]) = IF kind[j] = "prorated" THEN 1 ELSE 0
    /\ pc[j] \in {"draft", "readDraft", "tellDraft", "bill", "readPaid"}
         => Len(told[j]) = Base(kind[j])
    /\ pc[j] \in {"open", "tellOpen"} => Len(told[j]) = Base(kind[j]) + 1
    /\ pc[j] \in {"charge", "readCharge", "tellCharge"}
         => Len(told[j]) = Base(kind[j]) + 2
    /\ pc[j] = "pay" => Len(told[j]) = Base(kind[j]) + 3
    /\ pc[j] = "tellPaid" => Len(told[j]) = IF kind[j] \in Waterfalls
                                            THEN Base(kind[j]) + 3
                                            ELSE Base(kind[j])
    /\ pc[j] \in {"activate", "tellActive", "tellRenewed"}
         => Len(told[j]) = Base(kind[j]) + 4

\* The invoice is as far as the goroutine, or a reset took it.
InStep(j) ==
    /\ pc[j] \in Unbilled => invoices[j] = None
    /\ pc[j] \in Drafted => invoices[j] \in {"draft", None}
    /\ pc[j] \in Finalized => invoices[j] \in {"open", None}
    /\ pc[j] \in Paid => invoices[j] \in {"paid", None}

\* What is there unless a reset took it.
Whole(j) ==
    /\ begun[j] <= clears
    /\ Undisturbed(j) /\ pc[j] # "unborn" =>
         /\ sub[j] \in subs
         /\ pc[j] \in Drafted \cup Finalized \cup Paid => invoices[j] # None
         /\ pc[j] \in {"readCharge", "tellCharge", "pay"} => j \in charges
         /\ pc[j] \in Paid /\ kind[j] \in Waterfalls => j \in charges
         /\ pc[j] = "done" =>
              /\ Len(told[j]) = Total(kind[j])
              /\ kind[j] # "uninvoiced" => invoices[j] = "paid"
              /\ kind[j] \in Waterfalls => j \in charges

JobInv(j) == Fits(j) /\ Follows(j) /\ Pace(j) /\ InStep(j) /\ Whole(j)

IInv == Typed /\ \A j \in Jobs : JobInv(j)

---------------------------------------------------------------------------
(* What every step of a goroutine leaves alone.                            *)

\* All that the invariant of goroutine i is about.
Leaves(i) ==
    /\ invoices'[i] = invoices[i]
    /\ i \in charges' <=> i \in charges
    /\ kind'[i] = kind[i]
    /\ sub'[i] = sub[i]
    /\ pc'[i] = pc[i]
    /\ told'[i] = told[i]
    /\ begun'[i] = begun[i]

\* Only goroutine j takes the step, and no subscription goes.
Alone(j) ==
    /\ \A i \in Jobs \ {j} : Leaves(i)
    /\ clears' = clears
    /\ subs \subseteq subs'

LEMMA Others ==
    ASSUME NEW j \in Jobs, Alone(j), NEW i \in Jobs \ {j}, JobInv(i)
    PROVE  JobInv(i)'
<1>1. Leaves(i) /\ clears' = clears /\ subs \subseteq subs'
  BY DEF Alone
<1>2. Fits(i)'
  BY <1>1 DEF Leaves, JobInv, Fits
<1>3. Follows(i)'
  BY <1>1 DEF Leaves, JobInv, Follows
<1>4. Pace(i)'
  BY <1>1 DEF Leaves, JobInv, Pace
<1>5. InStep(i)'
  BY <1>1 DEF Leaves, JobInv, InStep
<1>6. Whole(i)'
  BY <1>1 DEF Leaves, JobInv, Whole, Undisturbed
<1>7. QED
  BY <1>2, <1>3, <1>4, <1>5, <1>6 DEF JobInv

LEMMA OneStepKeeps ==
    ASSUME IInv, NEW j \in Jobs, Alone(j), Typed', JobInv(j)'
    PROVE  IInv'
BY Others DEF IInv

LEMMA GoesEffect ==
    ASSUME Typed, NEW j \in Jobs, NEW l \in Pcs, Goes(j, l)
    PROVE  /\ pc' \in [Jobs -> Pcs]
           /\ pc'[j] = l
           /\ \A i \in Jobs \ {j} : pc'[i] = pc[i]
BY DEF Typed, Goes

LEMMA TellsEffect ==
    ASSUME Typed, NEW j \in Jobs, NEW type \in EventTypes, NEW shows \in Shows,
           Tells(j, type, shows)
    PROVE  /\ told' \in [Jobs -> Seq(EventRecord)]
           /\ Len(told'[j]) = Len(told[j]) + 1
           /\ \A n \in 1 .. Len(told[j]) : told'[j][n] = told[j][n]
           /\ told'[j][Len(told[j]) + 1] = Event(type, shows)
           /\ \A i \in Jobs \ {j} : told'[i] = told[i]
<1>1. told[j] \in Seq(EventRecord)
  BY DEF Typed
<1>2. Event(type, shows) \in EventRecord
  BY DEF Event, EventRecord
<1>3. PICK new \in Seq(EventRecord) :
        /\ new = Append(told[j], Event(type, shows))
        /\ Len(new) = Len(told[j]) + 1
        /\ \A n \in 1 .. Len(told[j]) : new[n] = told[j][n]
        /\ new[Len(told[j]) + 1] = Event(type, shows)
  BY <1>1, <1>2, AppendProperties
<1>4. told' = [told EXCEPT ![j] = new]
  BY <1>3 DEF Tells
<1>5. QED
  BY <1>3, <1>4 DEF Typed

\* Telling the next event of the story.
LEMMA TellingEffect ==
    ASSUME IInv, NEW j \in Jobs, NEW from, NEW type \in EventTypes,
           NEW shows \in Shows, NEW to \in Pcs,
           Telling(j, from, type, shows, to),
           Len(told[j]) < Total(kind[j]),
           Event(type, shows) = Entry(j, kind[j], Len(told[j]) + 1)
    PROVE  /\ Typed' /\ Alone(j) /\ Follows(j)'
           /\ UNCHANGED <<subs, invoices, charges, kind, sub, clears, begun>>
           /\ pc[j] = from
           /\ pc'[j] = to
           /\ Len(told[j]) \in Nat
           /\ Len(told'[j]) = Len(told[j]) + 1
<1>1. Typed /\ Follows(j)
  BY DEF IInv, JobInv
<1>2. /\ UNCHANGED <<subs, invoices, charges, kind, sub, clears, begun>>
      /\ pc[j] = from /\ Tells(j, type, shows) /\ Goes(j, to)
  BY DEF Telling
<1>3. /\ told' \in [Jobs -> Seq(EventRecord)]
      /\ Len(told'[j]) = Len(told[j]) + 1
      /\ \A n \in 1 .. Len(told[j]) : told'[j][n] = told[j][n]
      /\ told'[j][Len(told[j]) + 1] = Event(type, shows)
      /\ \A i \in Jobs \ {j} : told'[i] = told[i]
  BY <1>1, <1>2, TellsEffect
<1>4. /\ pc' \in [Jobs -> Pcs]
      /\ pc'[j] = to
      /\ \A i \in Jobs \ {j} : pc'[i] = pc[i]
  BY <1>1, <1>2, GoesEffect
<1>5. told[j] \in Seq(EventRecord) /\ Len(told[j]) \in Nat
  BY <1>1 DEF Typed
<1>6. Typed'
  BY <1>1, <1>2, <1>3, <1>4 DEF Typed
<1>7. Alone(j)
  BY <1>2, <1>3, <1>4 DEF Alone, Leaves
<1>8. Follows(j)'
  <2>1. Total(kind[j]) \in Nat
    BY <1>1, BillingAssumption DEF Typed, Total
  <2>2. kind'[j] = kind[j]
    BY <1>2
  <2>3. Len(told'[j]) <= Total(kind'[j])
    BY <1>3, <1>5, <2>1, <2>2
  <2>4. ASSUME NEW n \in 1 .. Len(told'[j])
        PROVE  told'[j][n] = Entry(j, kind'[j], n)
    <3>1. CASE n <= Len(told[j])
      BY <1>1, <1>3, <1>5, <2>2, <3>1 DEF Follows
    <3>2. CASE n = Len(told[j]) + 1
      BY <1>3, <2>2, <3>2
    <3>3. QED
      BY <1>3, <1>5, <3>1, <3>2
  <2>5. QED
    BY <2>3, <2>4 DEF Follows
<1>9. QED
  BY <1>2, <1>3, <1>4, <1>5, <1>6, <1>7, <1>8

\* A step without an event.
LEMMA SilentEffect ==
    ASSUME IInv, NEW j \in Jobs, NEW l \in Pcs, Goes(j, l),
           UNCHANGED <<subs, kind, sub, told, clears, begun>>,
           invoices' \in [Jobs -> InvoiceStatuses \cup {None}],
           charges' \subseteq Jobs,
           \A i \in Jobs \ {j} : /\ invoices'[i] = invoices[i]
                                 /\ i \in charges' <=> i \in charges
    PROVE  Typed' /\ Alone(j) /\ Follows(j)' /\ pc'[j] = l
<1>1. Typed /\ Follows(j)
  BY DEF IInv, JobInv
<1>2. /\ pc' \in [Jobs -> Pcs]
      /\ pc'[j] = l
      /\ \A i \in Jobs \ {j} : pc'[i] = pc[i]
  BY <1>1, GoesEffect
<1>3. Typed'
  BY <1>1, <1>2 DEF Typed
<1>4. Alone(j)
  BY <1>2 DEF Alone, Leaves
<1>5. Follows(j)'
  BY <1>1 DEF Follows
<1>6. QED
  BY <1>2, <1>3, <1>4, <1>5

---------------------------------------------------------------------------
(* The steps of a goroutine, one lemma each.                               *)

LEMMA TellChangeKeeps ==
    ASSUME IInv, NEW j \in Jobs, TellChange(j)
    PROVE  IInv'
<1> DEFINE to == CASE kind[j] = "prorated" -> "fetch"
                   [] kind[j] = "invoiced" -> "draft"
                   [] kind[j] = "uninvoiced" -> "done"
<1>1. /\ pc[j] = "tellChange" /\ Len(told[j]) = 0 /\ invoices[j] = None
      /\ kind[j] \in {"prorated", "invoiced", "uninvoiced"}
      /\ kind[j] # None
      /\ Whole(j)
  BY DEF TellChange, Telling, IInv, JobInv, Fits, Pace, InStep, PlanChanges, Unbilled
<1>2. /\ kind[j] = "prorated" => to = "fetch"
      /\ kind[j] = "invoiced" => to = "draft"
      /\ kind[j] = "uninvoiced" => to = "done"
  BY <1>1
<1>3. to \in Pcs
  BY <1>1, <1>2 DEF Pcs
<1>4. /\ 0 < Total(kind[j])
      /\ kind[j] = "uninvoiced" => Total(kind[j]) = 1
  BY <1>1 DEF Total
<1>5. Base(kind[j]) = 1
  BY <1>1 DEF Base, PlanChanges
<1>6. Event("subscription.updated", "changed") = Entry(j, kind[j], Len(told[j]) + 1)
  BY <1>1, <1>5 DEF Entry, Opening
<1> HIDE DEF to
<1>7. /\ Typed' /\ Alone(j) /\ Follows(j)'
      /\ UNCHANGED <<subs, invoices, charges, kind, sub, clears, begun>>
      /\ pc'[j] = to
      /\ Len(told'[j]) = 1
  <2>1. Telling(j, "tellChange", "subscription.updated", "changed", to)
    BY DEF TellChange, to
  <2>2. "subscription.updated" \in EventTypes /\ "changed" \in Shows
    BY DEF EventTypes, Shows
  <2>3. Len(told[j]) < Total(kind[j])
    BY <1>1, <1>4
  <2>4. /\ Typed' /\ Alone(j) /\ Follows(j)'
        /\ UNCHANGED <<subs, invoices, charges, kind, sub, clears, begun>>
        /\ pc'[j] = to
        /\ Len(told'[j]) = Len(told[j]) + 1
    BY <1>3, <1>6, <2>1, <2>2, <2>3, TellingEffect, Zenon
  <2>5. QED
    BY <1>1, <2>4
<1>8. Fits(j)'
  BY <1>1, <1>2, <1>7 DEF Fits, PlanChanges, Immediate, Waterfalls,
                                   Drafted, Finalized
<1>9. Pace(j)'
  BY <1>1, <1>2, <1>5, <1>7 DEF Pace
<1>10. InStep(j)'
  BY <1>1, <1>2, <1>7 DEF InStep, Unbilled, Drafted, Finalized, Paid
<1>11. Whole(j)'
  BY <1>1, <1>2, <1>4, <1>7 DEF Whole, Undisturbed, Drafted, Finalized, Paid, Waterfalls
<1>12. QED
  BY <1>7, <1>8, <1>9, <1>10, <1>11, OneStepKeeps DEF JobInv

LEMMA FetchKeeps ==
    ASSUME IInv, NEW j \in Jobs, Fetch(j)
    PROVE  IInv'
<1> DEFINE to == CASE sub[j] \notin subs -> "done"
                   [] sub[j] \in subs /\ kind[j] = "lifecycle" -> "tellCreated"
                   [] sub[j] \in subs /\ kind[j] = "renewal" -> "draft"
                   [] sub[j] \in subs /\ kind[j] \in {"checkout", "prorated"} -> "bill"
<1>1. /\ pc[j] = "fetch" /\ invoices[j] = None
      /\ kind[j] \in {"lifecycle", "renewal", "checkout", "prorated"}
      /\ kind[j] # None
      /\ Len(told[j]) = IF kind[j] = "prorated" THEN 1 ELSE 0
      /\ Whole(j)
      /\ Typed
  BY DEF Fetch, IInv, JobInv, Fits, Pace, InStep, Immediate, Unbilled
<1>2. /\ sub[j] \notin subs => to = "done"
      /\ sub[j] \in subs =>
           /\ kind[j] = "lifecycle" => to = "tellCreated"
           /\ kind[j] = "renewal" => to = "draft"
           /\ kind[j] \in {"checkout", "prorated"} => to = "bill"
  BY <1>1
<1>3. to \in Pcs
  BY <1>1, <1>2 DEF Pcs
<1>4. /\ Goes(j, to)
      /\ UNCHANGED <<subs, invoices, charges, kind, sub, told, clears, begun>>
  BY DEF Fetch
<1> HIDE DEF to
<1>5. Typed' /\ Alone(j) /\ Follows(j)' /\ pc'[j] = to
  BY <1>1, <1>3, <1>4, SilentEffect DEF Typed
<1>6. Fits(j)'
  BY <1>1, <1>2, <1>4, <1>5 DEF Fits, PlanChanges, Immediate, Waterfalls,
                                   Drafted, Finalized
<1>7. Pace(j)'
  BY <1>1, <1>2, <1>4, <1>5 DEF Pace, Base, PlanChanges
<1>8. InStep(j)'
  BY <1>1, <1>2, <1>4, <1>5 DEF InStep, Unbilled, Drafted, Finalized, Paid
<1>9. Whole(j)'
  BY <1>1, <1>2, <1>4, <1>5 DEF Whole, Undisturbed, Drafted, Finalized, Paid
<1>10. QED
  BY <1>5, <1>6, <1>7, <1>8, <1>9, OneStepKeeps DEF JobInv

LEMMA TellCreatedKeeps ==
    ASSUME IInv, NEW j \in Jobs, TellCreated(j)
    PROVE  IInv'
<1>1. /\ pc[j] = "tellCreated"
      /\ kind[j] = "lifecycle"
      /\ Len(told[j]) = 0
      /\ invoices[j] = None
      /\ kind[j] # None
      /\ Whole(j)
  BY DEF TellCreated, Telling, IInv, JobInv, Fits, Pace, InStep, Base, PlanChanges,
         Waterfalls, Immediate, Unbilled, Drafted, Finalized, Paid
<1>2. /\ Len(told[j]) < Total(kind[j])
      /\ Event("subscription.created", "incomplete") = Entry(j, kind[j], Len(told[j]) + 1)
  BY <1>1 DEF Total, Base, PlanChanges, Immediate, Event, Entry, Opening
<1>3. /\ Typed' /\ Alone(j) /\ Follows(j)'
      /\ UNCHANGED <<subs, invoices, charges, kind, sub, clears, begun>>
      /\ pc'[j] = "draft"
      /\ Len(told'[j]) = Len(told[j]) + 1
  <2>1. Telling(j, "tellCreated", "subscription.created", "incomplete", "draft")
    BY DEF TellCreated
  <2>2. "subscription.created" \in EventTypes /\ "incomplete" \in Shows /\ "draft" \in Pcs
    BY DEF EventTypes, Shows, Pcs, InvoiceStatuses
  <2>3. QED
    BY <1>2, <2>1, <2>2, TellingEffect, Zenon
<1>4. Fits(j)'
  BY <1>1, <1>3 DEF Fits, PlanChanges, Immediate, Waterfalls,
      Drafted, Finalized
<1>5. Pace(j)'
  BY <1>1, <1>3 DEF Pace, Base, PlanChanges, Waterfalls
<1>6. InStep(j)'
  BY <1>1, <1>3 DEF InStep, Unbilled, Drafted, Finalized, Paid
<1>7. Whole(j)'
  BY <1>1, <1>3 DEF Whole, Undisturbed, Total,
      Drafted, Finalized, Paid, Waterfalls
<1>8. QED
  BY <1>3, <1>4, <1>5, <1>6, <1>7, OneStepKeeps DEF JobInv

LEMMA CreateInvoiceKeeps ==
    ASSUME IInv, NEW j \in Jobs, CreateInvoice(j)
    PROVE  IInv'
<1>1. /\ pc[j] = "draft"
      /\ kind[j] \in {"lifecycle", "renewal", "invoiced"}
      /\ Len(told[j]) = IF kind[j] = "renewal" THEN 0 ELSE 1
      /\ invoices[j] = None
      /\ kind[j] # None
      /\ Whole(j)
      /\ Typed
  BY DEF CreateInvoice, IInv, JobInv, Fits, Pace, InStep, Base, PlanChanges,
         Waterfalls, Immediate, Unbilled, Drafted, Finalized, Paid
<1>2. /\ Goes(j, "readDraft") /\ "readDraft" \in Pcs
      /\ UNCHANGED <<subs, kind, sub, told, clears, begun>>
      /\ invoices'[j] = "draft" /\ UNCHANGED charges
      /\ invoices' \in [Jobs -> InvoiceStatuses \cup {None}]
      /\ charges' \subseteq Jobs
      /\ \A i \in Jobs \ {j} : invoices'[i] = invoices[i] /\ (i \in charges' <=> i \in charges)
  BY <1>1 DEF CreateInvoice, Pcs, Typed, InvoiceStatuses
<1>3. Typed' /\ Alone(j) /\ Follows(j)' /\ pc'[j] = "readDraft"
  BY <1>2, SilentEffect
<1>4. Fits(j)'
  BY <1>1, <1>2, <1>3 DEF Fits, PlanChanges, Immediate, Waterfalls,
      Drafted, Finalized
<1>5. Pace(j)'
  BY <1>1, <1>2, <1>3 DEF Pace, Base, PlanChanges, Waterfalls
<1>6. InStep(j)'
  BY <1>1, <1>2, <1>3 DEF InStep, Unbilled, Drafted, Finalized, Paid
<1>7. Whole(j)'
  BY <1>1, <1>2, <1>3, BillingAssumption DEF Whole, Undisturbed, Total,
      Drafted, Finalized, Paid, Waterfalls
<1>8. QED
  BY <1>3, <1>4, <1>5, <1>6, <1>7, OneStepKeeps DEF JobInv

LEMMA ReadInvoiceKeeps ==
    ASSUME IInv, NEW j \in Jobs, ReadInvoice(j)
    PROVE  IInv'
<1> DEFINE to == CASE invoices[j] = None -> "done"
                   [] invoices[j] # None /\ pc[j] = "readDraft" -> "tellDraft"
                   [] invoices[j] # None /\ pc[j] = "readPaid" -> "tellPaid"
<1>1. /\ pc[j] \in {"readDraft", "readPaid"}
      /\ pc[j] = "readDraft" => 
           /\ kind[j] \in {"lifecycle", "renewal", "invoiced"}
           /\ Len(told[j]) = IF kind[j] = "renewal" THEN 0 ELSE 1
           /\ invoices[j] \in {"draft", None}
      /\ pc[j] = "readPaid" =>
           /\ kind[j] \in {"checkout", "prorated"}
           /\ Len(told[j]) = IF kind[j] = "prorated" THEN 1 ELSE 0
           /\ invoices[j] \in {"paid", None}
      /\ kind[j] # None
      /\ Whole(j)
      /\ Typed
  BY DEF ReadInvoice, IInv, JobInv, Fits, Pace, InStep, Base, PlanChanges,
         Waterfalls, Immediate, Unbilled, Drafted, Finalized, Paid
<1>2. /\ invoices[j] = None => to = "done"
      /\ invoices[j] # None /\ pc[j] = "readDraft" => to = "tellDraft"
      /\ invoices[j] # None /\ pc[j] = "readPaid" => to = "tellPaid"
  BY <1>1
<1>3. /\ Goes(j, to) /\ to \in Pcs
      /\ UNCHANGED <<subs, kind, sub, told, clears, begun>>
      /\ UNCHANGED <<invoices, charges>>
      /\ invoices' \in [Jobs -> InvoiceStatuses \cup {None}]
      /\ charges' \subseteq Jobs
      /\ \A i \in Jobs \ {j} : invoices'[i] = invoices[i] /\ (i \in charges' <=> i \in charges)
  BY <1>1, <1>2 DEF ReadInvoice, Pcs, Typed, InvoiceStatuses
<1> HIDE DEF to
<1>4. Typed' /\ Alone(j) /\ Follows(j)' /\ pc'[j] = to
  BY <1>3, SilentEffect
<1>5. Fits(j)'
  BY <1>1, <1>2, <1>3, <1>4 DEF Fits, PlanChanges, Immediate, Waterfalls,
      Drafted, Finalized
<1>6. Pace(j)'
  BY <1>1, <1>2, <1>3, <1>4 DEF Pace, Base, PlanChanges, Waterfalls
<1>7. InStep(j)'
  BY <1>1, <1>2, <1>3, <1>4 DEF InStep, Unbilled, Drafted, Finalized, Paid
<1>8. Whole(j)'
  BY <1>1, <1>2, <1>3, <1>4 DEF Whole, Undisturbed, Total,
      Drafted, Finalized, Paid, Waterfalls
<1>9. QED
  BY <1>4, <1>5, <1>6, <1>7, <1>8, OneStepKeeps DEF JobInv

LEMMA TellDraftKeeps ==
    ASSUME IInv, NEW j \in Jobs, TellDraft(j)
    PROVE  IInv'
<1>1. /\ pc[j] = "tellDraft"
      /\ kind[j] \in {"lifecycle", "renewal", "invoiced"}
      /\ Len(told[j]) = IF kind[j] = "renewal" THEN 0 ELSE 1
      /\ invoices[j] \in {"draft", None}
      /\ kind[j] # None
      /\ Whole(j)
  BY DEF TellDraft, Telling, IInv, JobInv, Fits, Pace, InStep, Base, PlanChanges,
         Waterfalls, Immediate, Unbilled, Drafted, Finalized, Paid
<1>2. /\ Len(told[j]) < Total(kind[j])
      /\ Event("invoice.created", "draft") = Entry(j, kind[j], Len(told[j]) + 1)
  BY <1>1 DEF Total, Base, PlanChanges, Immediate, Event, Entry
<1>3. /\ Typed' /\ Alone(j) /\ Follows(j)'
      /\ UNCHANGED <<subs, invoices, charges, kind, sub, clears, begun>>
      /\ pc'[j] = "open"
      /\ Len(told'[j]) = Len(told[j]) + 1
  <2>1. Telling(j, "tellDraft", "invoice.created", "draft", "open")
    BY DEF TellDraft
  <2>2. "invoice.created" \in EventTypes /\ "draft" \in Shows /\ "open" \in Pcs
    BY DEF EventTypes, Shows, Pcs, InvoiceStatuses
  <2>3. QED
    BY <1>2, <2>1, <2>2, TellingEffect, Zenon
<1>4. Fits(j)'
  BY <1>1, <1>3 DEF Fits, PlanChanges, Immediate, Waterfalls,
      Drafted, Finalized
<1>5. Pace(j)'
  BY <1>1, <1>3 DEF Pace, Base, PlanChanges, Waterfalls
<1>6. InStep(j)'
  BY <1>1, <1>3 DEF InStep, Unbilled, Drafted, Finalized, Paid
<1>7. Whole(j)'
  BY <1>1, <1>3 DEF Whole, Undisturbed, Total,
      Drafted, Finalized, Paid, Waterfalls
<1>8. QED
  BY <1>3, <1>4, <1>5, <1>6, <1>7, OneStepKeeps DEF JobInv

LEMMA FinalizeKeeps ==
    ASSUME IInv, NEW j \in Jobs, Finalize(j)
    PROVE  IInv'
<1>1. /\ pc[j] = "open"
      /\ kind[j] \in {"lifecycle", "renewal", "invoiced"}
      /\ Len(told[j]) = IF kind[j] = "renewal" THEN 1 ELSE 2
      /\ invoices[j] \in {"draft", None}
      /\ kind[j] # None
      /\ Whole(j)
      /\ Typed
  BY DEF Finalize, Update, IInv, JobInv, Fits, Pace, InStep, Base, PlanChanges,
         Waterfalls, Immediate, Unbilled, Drafted, Finalized, Paid
<1>2. PICK to \in {"done", "tellOpen"} :
        /\ Goes(j, to)
        /\ UNCHANGED <<subs, charges, kind, sub, told, clears, begun>>
        /\ \/ invoices[j] = None /\ to = "done" /\ invoices' = invoices
           \/ /\ invoices[j] # None /\ to = "tellOpen"
              /\ invoices' = [invoices EXCEPT ![j] = "open"]
  BY DEF Finalize, Update
<1>3. /\ to \in Pcs
      /\ \/ invoices[j] = None /\ to = "done" /\ invoices'[j] = None
         \/ invoices[j] # None /\ to = "tellOpen" /\ invoices'[j] = "open"
      /\ invoices' \in [Jobs -> InvoiceStatuses \cup {None}]
      /\ charges' \subseteq Jobs
      /\ \A i \in Jobs \ {j} : invoices'[i] = invoices[i] /\ (i \in charges' <=> i \in charges)
  BY <1>1, <1>2, BillingAssumption DEF Pcs, Typed, InvoiceStatuses
<1>4. Typed' /\ Alone(j) /\ Follows(j)' /\ pc'[j] = to
  BY <1>2, <1>3, SilentEffect
<1>5. Fits(j)'
  BY <1>1, <1>2, <1>3, <1>4, BillingAssumption DEF Fits, PlanChanges, Immediate, Waterfalls,
      Drafted, Finalized
<1>6. Pace(j)'
  BY <1>1, <1>2, <1>3, <1>4, BillingAssumption DEF Pace, Base, PlanChanges, Waterfalls
<1>7. InStep(j)'
  BY <1>1, <1>2, <1>3, <1>4, BillingAssumption DEF InStep, Unbilled, Drafted, Finalized, Paid
<1>8. Whole(j)'
  BY <1>1, <1>2, <1>3, <1>4, BillingAssumption DEF Whole, Undisturbed, Total,
      Drafted, Finalized, Paid, Waterfalls
<1>9. QED
  BY <1>4, <1>5, <1>6, <1>7, <1>8, OneStepKeeps DEF JobInv

LEMMA TellOpenKeeps ==
    ASSUME IInv, NEW j \in Jobs, TellOpen(j)
    PROVE  IInv'
<1>1. /\ pc[j] = "tellOpen"
      /\ kind[j] \in {"lifecycle", "renewal", "invoiced"}
      /\ Len(told[j]) = IF kind[j] = "renewal" THEN 1 ELSE 2
      /\ invoices[j] \in {"open", None}
      /\ kind[j] # None
      /\ Whole(j)
  BY DEF TellOpen, Telling, IInv, JobInv, Fits, Pace, InStep, Base, PlanChanges,
         Waterfalls, Immediate, Unbilled, Drafted, Finalized, Paid
<1>2. /\ Len(told[j]) < Total(kind[j])
      /\ Event("invoice.finalized", "open") = Entry(j, kind[j], Len(told[j]) + 1)
  BY <1>1 DEF Total, Base, PlanChanges, Immediate, Event, Entry
<1>3. /\ Typed' /\ Alone(j) /\ Follows(j)'
      /\ UNCHANGED <<subs, invoices, charges, kind, sub, clears, begun>>
      /\ pc'[j] = "charge"
      /\ Len(told'[j]) = Len(told[j]) + 1
  <2>1. Telling(j, "tellOpen", "invoice.finalized", "open", "charge")
    BY DEF TellOpen
  <2>2. "invoice.finalized" \in EventTypes /\ "open" \in Shows /\ "charge" \in Pcs
    BY DEF EventTypes, Shows, Pcs, InvoiceStatuses
  <2>3. QED
    BY <1>2, <2>1, <2>2, TellingEffect, Zenon
<1>4. Fits(j)'
  BY <1>1, <1>3 DEF Fits, PlanChanges, Immediate, Waterfalls,
      Drafted, Finalized
<1>5. Pace(j)'
  BY <1>1, <1>3 DEF Pace, Base, PlanChanges, Waterfalls
<1>6. InStep(j)'
  BY <1>1, <1>3 DEF InStep, Unbilled, Drafted, Finalized, Paid
<1>7. Whole(j)'
  BY <1>1, <1>3 DEF Whole, Undisturbed, Total,
      Drafted, Finalized, Paid, Waterfalls
<1>8. QED
  BY <1>3, <1>4, <1>5, <1>6, <1>7, OneStepKeeps DEF JobInv

LEMMA CreateChargeKeeps ==
    ASSUME IInv, NEW j \in Jobs, CreateCharge(j)
    PROVE  IInv'
<1>1. /\ pc[j] = "charge"
      /\ kind[j] \in {"lifecycle", "renewal", "invoiced"}
      /\ Len(told[j]) = IF kind[j] = "renewal" THEN 2 ELSE 3
      /\ invoices[j] \in {"open", None}
      /\ kind[j] # None
      /\ Whole(j)
      /\ Typed
  BY DEF CreateCharge, IInv, JobInv, Fits, Pace, InStep, Base, PlanChanges,
         Waterfalls, Immediate, Unbilled, Drafted, Finalized, Paid
<1>2. /\ Goes(j, "readCharge") /\ "readCharge" \in Pcs
      /\ UNCHANGED <<subs, kind, sub, told, clears, begun>>
      /\ j \in charges' /\ UNCHANGED invoices
      /\ invoices' \in [Jobs -> InvoiceStatuses \cup {None}]
      /\ charges' \subseteq Jobs
      /\ \A i \in Jobs \ {j} : invoices'[i] = invoices[i] /\ (i \in charges' <=> i \in charges)
  BY <1>1 DEF CreateCharge, Pcs, Typed, InvoiceStatuses
<1>3. Typed' /\ Alone(j) /\ Follows(j)' /\ pc'[j] = "readCharge"
  BY <1>2, SilentEffect
<1>4. Fits(j)'
  BY <1>1, <1>2, <1>3 DEF Fits, PlanChanges, Immediate, Waterfalls,
      Drafted, Finalized
<1>5. Pace(j)'
  BY <1>1, <1>2, <1>3 DEF Pace, Base, PlanChanges, Waterfalls
<1>6. InStep(j)'
  BY <1>1, <1>2, <1>3 DEF InStep, Unbilled, Drafted, Finalized, Paid
<1>7. Whole(j)'
  BY <1>1, <1>2, <1>3 DEF Whole, Undisturbed, Total,
      Drafted, Finalized, Paid, Waterfalls
<1>8. QED
  BY <1>3, <1>4, <1>5, <1>6, <1>7, OneStepKeeps DEF JobInv

LEMMA ReadChargeKeeps ==
    ASSUME IInv, NEW j \in Jobs, ReadCharge(j)
    PROVE  IInv'
<1> DEFINE to == IF j \in charges THEN "tellCharge" ELSE "done"
<1>1. /\ pc[j] = "readCharge"
      /\ kind[j] \in {"lifecycle", "renewal", "invoiced"}
      /\ Len(told[j]) = IF kind[j] = "renewal" THEN 2 ELSE 3
      /\ invoices[j] \in {"open", None}
      /\ kind[j] # None
      /\ Whole(j)
      /\ Typed
  BY DEF ReadCharge, IInv, JobInv, Fits, Pace, InStep, Base, PlanChanges,
         Waterfalls, Immediate, Unbilled, Drafted, Finalized, Paid
<1>2. /\ Goes(j, to) /\ to \in Pcs
      /\ UNCHANGED <<subs, kind, sub, told, clears, begun>>
      /\ UNCHANGED <<invoices, charges>>
      /\ invoices' \in [Jobs -> InvoiceStatuses \cup {None}]
      /\ charges' \subseteq Jobs
      /\ \A i \in Jobs \ {j} : invoices'[i] = invoices[i] /\ (i \in charges' <=> i \in charges)
  BY <1>1 DEF ReadCharge, Pcs, Typed, InvoiceStatuses
<1>3. Typed' /\ Alone(j) /\ Follows(j)' /\ pc'[j] = to
  BY <1>2, SilentEffect
<1>4. Fits(j)'
  BY <1>1, <1>2, <1>3 DEF Fits, PlanChanges, Immediate, Waterfalls,
      Drafted, Finalized
<1>5. Pace(j)'
  BY <1>1, <1>2, <1>3 DEF Pace, Base, PlanChanges, Waterfalls
<1>6. InStep(j)'
  BY <1>1, <1>2, <1>3 DEF InStep, Unbilled, Drafted, Finalized, Paid
<1>7. Whole(j)'
  BY <1>1, <1>2, <1>3 DEF Whole, Undisturbed, Total,
      Drafted, Finalized, Paid, Waterfalls
<1>8. QED
  BY <1>3, <1>4, <1>5, <1>6, <1>7, OneStepKeeps DEF JobInv

LEMMA TellChargeKeeps ==
    ASSUME IInv, NEW j \in Jobs, TellCharge(j)
    PROVE  IInv'
<1>1. /\ pc[j] = "tellCharge"
      /\ kind[j] \in {"lifecycle", "renewal", "invoiced"}
      /\ Len(told[j]) = IF kind[j] = "renewal" THEN 2 ELSE 3
      /\ invoices[j] \in {"open", None}
      /\ kind[j] # None
      /\ Whole(j)
  BY DEF TellCharge, Telling, IInv, JobInv, Fits, Pace, InStep, Base, PlanChanges,
         Waterfalls, Immediate, Unbilled, Drafted, Finalized, Paid
<1>2. /\ Len(told[j]) < Total(kind[j])
      /\ Event("charge.succeeded", ChargeId(j)) = Entry(j, kind[j], Len(told[j]) + 1)
  BY <1>1 DEF Total, Base, PlanChanges, Immediate, Event, Entry, ChargeId
<1>3. /\ Typed' /\ Alone(j) /\ Follows(j)'
      /\ UNCHANGED <<subs, invoices, charges, kind, sub, clears, begun>>
      /\ pc'[j] = "pay"
      /\ Len(told'[j]) = Len(told[j]) + 1
  <2>1. Telling(j, "tellCharge", "charge.succeeded", ChargeId(j), "pay")
    BY DEF TellCharge
  <2>2. "charge.succeeded" \in EventTypes /\ ChargeId(j) \in Shows /\ "pay" \in Pcs
    BY DEF EventTypes, Shows, Pcs, InvoiceStatuses, ChargeId
  <2>3. QED
    BY <1>2, <2>1, <2>2, TellingEffect, Zenon
<1>4. Fits(j)'
  BY <1>1, <1>3 DEF Fits, PlanChanges, Immediate, Waterfalls,
      Drafted, Finalized
<1>5. Pace(j)'
  BY <1>1, <1>3 DEF Pace, Base, PlanChanges, Waterfalls
<1>6. InStep(j)'
  BY <1>1, <1>3 DEF InStep, Unbilled, Drafted, Finalized, Paid
<1>7. Whole(j)'
  BY <1>1, <1>3 DEF Whole, Undisturbed, Total,
      Drafted, Finalized, Paid, Waterfalls
<1>8. QED
  BY <1>3, <1>4, <1>5, <1>6, <1>7, OneStepKeeps DEF JobInv

LEMMA PayKeeps ==
    ASSUME IInv, NEW j \in Jobs, Pay(j)
    PROVE  IInv'
<1>1. /\ pc[j] = "pay"
      /\ kind[j] \in {"lifecycle", "renewal", "invoiced"}
      /\ Len(told[j]) = IF kind[j] = "renewal" THEN 3 ELSE 4
      /\ invoices[j] \in {"open", None}
      /\ kind[j] # None
      /\ Whole(j)
      /\ Typed
  BY DEF Pay, Update, IInv, JobInv, Fits, Pace, InStep, Base, PlanChanges,
         Waterfalls, Immediate, Unbilled, Drafted, Finalized, Paid
<1>2. PICK to \in {"done", "tellPaid"} :
        /\ Goes(j, to)
        /\ UNCHANGED <<subs, charges, kind, sub, told, clears, begun>>
        /\ \/ invoices[j] = None /\ to = "done" /\ invoices' = invoices
           \/ /\ invoices[j] # None /\ to = "tellPaid"
              /\ invoices' = [invoices EXCEPT ![j] = "paid"]
  BY DEF Pay, Update
<1>3. /\ to \in Pcs
      /\ \/ invoices[j] = None /\ to = "done" /\ invoices'[j] = None
         \/ invoices[j] # None /\ to = "tellPaid" /\ invoices'[j] = "paid"
      /\ invoices' \in [Jobs -> InvoiceStatuses \cup {None}]
      /\ charges' \subseteq Jobs
      /\ \A i \in Jobs \ {j} : invoices'[i] = invoices[i] /\ (i \in charges' <=> i \in charges)
  BY <1>1, <1>2, BillingAssumption DEF Pcs, Typed, InvoiceStatuses
<1>4. Typed' /\ Alone(j) /\ Follows(j)' /\ pc'[j] = to
  BY <1>2, <1>3, SilentEffect
<1>5. Fits(j)'
  BY <1>1, <1>2, <1>3, <1>4, BillingAssumption DEF Fits, PlanChanges, Immediate, Waterfalls,
      Drafted, Finalized
<1>6. Pace(j)'
  BY <1>1, <1>2, <1>3, <1>4, BillingAssumption DEF Pace, Base, PlanChanges, Waterfalls
<1>7. InStep(j)'
  BY <1>1, <1>2, <1>3, <1>4, BillingAssumption DEF InStep, Unbilled, Drafted, Finalized, Paid
<1>8. Whole(j)'
  BY <1>1, <1>2, <1>3, <1>4, BillingAssumption DEF Whole, Undisturbed, Total,
      Drafted, Finalized, Paid, Waterfalls
<1>9. QED
  BY <1>4, <1>5, <1>6, <1>7, <1>8, OneStepKeeps DEF JobInv

LEMMA TellPaidKeeps ==
    ASSUME IInv, NEW j \in Jobs, TellPaid(j)
    PROVE  IInv'
<1> DEFINE to == CASE kind[j] = "lifecycle" -> "activate"
                   [] kind[j] = "renewal" -> "tellRenewed"
                   [] kind[j] \notin {"lifecycle", "renewal"} -> "done"
<1>1. /\ pc[j] = "tellPaid"
      /\ kind[j] \in {"lifecycle", "renewal", "invoiced", "checkout", "prorated"}
      /\ Len(told[j]) = CASE kind[j] = "renewal" -> 3
                          [] kind[j] \in {"lifecycle", "invoiced"} -> 4
                          [] kind[j] = "checkout" -> 0
                          [] kind[j] = "prorated" -> 1
      /\ invoices[j] \in {"paid", None}
      /\ kind[j] # None
      /\ Whole(j)
  BY DEF TellPaid, Telling, IInv, JobInv, Fits, Pace, InStep, Base, PlanChanges,
         Waterfalls, Immediate, Unbilled, Drafted, Finalized, Paid
<1>2. /\ Len(told[j]) < Total(kind[j])
      /\ Event("invoice.paid", "paid") = Entry(j, kind[j], Len(told[j]) + 1)
  BY <1>1 DEF Total, Base, PlanChanges, Immediate, Event, Entry
<1>3. /\ to \in Pcs
      /\ kind[j] = "lifecycle" => to = "activate"
      /\ kind[j] = "renewal" => to = "tellRenewed"
      /\ kind[j] \notin {"lifecycle", "renewal"} => to = "done"
  BY DEF Pcs
<1> HIDE DEF to
<1>4. /\ Typed' /\ Alone(j) /\ Follows(j)'
      /\ UNCHANGED <<subs, invoices, charges, kind, sub, clears, begun>>
      /\ pc'[j] = to
      /\ Len(told'[j]) = Len(told[j]) + 1
  <2>1. Telling(j, "tellPaid", "invoice.paid", "paid", to)
    BY DEF TellPaid, to
  <2>2. "invoice.paid" \in EventTypes /\ "paid" \in Shows /\ to \in Pcs
    BY <1>3 DEF EventTypes, Shows, Pcs, InvoiceStatuses
  <2>3. QED
    BY <1>2, <2>1, <2>2, TellingEffect, Zenon
<1>5. Fits(j)'
  BY <1>1, <1>3, <1>4 DEF Fits, PlanChanges, Immediate, Waterfalls,
      Drafted, Finalized
<1>6. Pace(j)'
  BY <1>1, <1>3, <1>4 DEF Pace, Base, PlanChanges, Waterfalls
<1>7. InStep(j)'
  BY <1>1, <1>3, <1>4 DEF InStep, Unbilled, Drafted, Finalized, Paid
<1>8. Whole(j)'
  BY <1>1, <1>3, <1>4 DEF Whole, Undisturbed, Total,
      Drafted, Finalized, Paid, Waterfalls
<1>9. QED
  BY <1>4, <1>5, <1>6, <1>7, <1>8, OneStepKeeps DEF JobInv

LEMMA BillKeeps ==
    ASSUME IInv, NEW j \in Jobs, Bill(j)
    PROVE  IInv'
<1>1. /\ pc[j] = "bill"
      /\ kind[j] \in {"checkout", "prorated"}
      /\ Len(told[j]) = IF kind[j] = "prorated" THEN 1 ELSE 0
      /\ invoices[j] = None
      /\ kind[j] # None
      /\ Whole(j)
      /\ Typed
  BY DEF Bill, IInv, JobInv, Fits, Pace, InStep, Base, PlanChanges,
         Waterfalls, Immediate, Unbilled, Drafted, Finalized, Paid
<1>2. /\ Goes(j, "readPaid") /\ "readPaid" \in Pcs
      /\ UNCHANGED <<subs, kind, sub, told, clears, begun>>
      /\ invoices'[j] = "paid" /\ UNCHANGED charges
      /\ invoices' \in [Jobs -> InvoiceStatuses \cup {None}]
      /\ charges' \subseteq Jobs
      /\ \A i \in Jobs \ {j} : invoices'[i] = invoices[i] /\ (i \in charges' <=> i \in charges)
  BY <1>1 DEF Bill, Pcs, Typed, InvoiceStatuses
<1>3. Typed' /\ Alone(j) /\ Follows(j)' /\ pc'[j] = "readPaid"
  BY <1>2, SilentEffect
<1>4. Fits(j)'
  BY <1>1, <1>2, <1>3 DEF Fits, PlanChanges, Immediate, Waterfalls,
      Drafted, Finalized
<1>5. Pace(j)'
  BY <1>1, <1>2, <1>3 DEF Pace, Base, PlanChanges, Waterfalls
<1>6. InStep(j)'
  BY <1>1, <1>2, <1>3 DEF InStep, Unbilled, Drafted, Finalized, Paid
<1>7. Whole(j)'
  BY <1>1, <1>2, <1>3, BillingAssumption DEF Whole, Undisturbed, Total,
      Drafted, Finalized, Paid, Waterfalls
<1>8. QED
  BY <1>3, <1>4, <1>5, <1>6, <1>7, OneStepKeeps DEF JobInv

LEMMA ActivateKeeps ==
    ASSUME IInv, NEW j \in Jobs, Activate(j)
    PROVE  IInv'
<1> DEFINE to == IF sub[j] \in subs THEN "tellActive" ELSE "done"
<1>1. /\ pc[j] = "activate"
      /\ kind[j] = "lifecycle"
      /\ Len(told[j]) = 5
      /\ invoices[j] \in {"paid", None}
      /\ kind[j] # None
      /\ Whole(j)
      /\ Typed
  <2>1. pc[j] = "activate" /\ Fits(j) /\ Pace(j) /\ InStep(j) /\ Whole(j) /\ Typed
    BY DEF Activate, Telling, IInv, JobInv
  <2>2. kind[j] = "lifecycle" /\ kind[j] # None
    BY <2>1 DEF Fits
  <2>3. Len(told[j]) = 5
    BY <2>1, <2>2 DEF Pace, Base, PlanChanges
  <2>4. invoices[j] \in {"paid", None}
    BY <2>1 DEF InStep, Paid
  <2>5. QED
    BY <2>1, <2>2, <2>3, <2>4
<1>2. /\ to \in {"tellActive", "done"}
      /\ to = "done" => sub[j] \notin subs
  OBVIOUS
<1>3. /\ Goes(j, to) /\ to \in Pcs
      /\ UNCHANGED <<subs, kind, sub, told, clears, begun>>
      /\ UNCHANGED <<invoices, charges>>
      /\ invoices' \in [Jobs -> InvoiceStatuses \cup {None}]
      /\ charges' \subseteq Jobs
      /\ \A i \in Jobs \ {j} : invoices'[i] = invoices[i] /\ (i \in charges' <=> i \in charges)
  BY <1>1, <1>2 DEF Activate, Pcs, Typed, InvoiceStatuses
<1> HIDE DEF to
<1>4. Typed' /\ Alone(j) /\ Follows(j)' /\ pc'[j] = to
  BY <1>3, SilentEffect
<1>5. Fits(j)'
  BY <1>1, <1>2, <1>3, <1>4 DEF Fits, PlanChanges, Immediate, Waterfalls,
      Drafted, Finalized
<1>6. Pace(j)'
  <2>1. Len(told'[j]) = 5 /\ Base(kind'[j]) = 1
    BY <1>1, <1>3 DEF Base
  <2>2. pc'[j] \in {"tellActive", "done"}
    BY <1>2, <1>4
  <2>3. QED
    BY <2>1, <2>2 DEF Pace
<1>7. InStep(j)'
  BY <1>1, <1>2, <1>3, <1>4 DEF InStep, Unbilled, Drafted, Finalized, Paid
<1>8. Whole(j)'
  BY <1>1, <1>2, <1>3, <1>4 DEF Whole, Undisturbed, Total,
      Drafted, Finalized, Paid, Waterfalls
<1>9. QED
  BY <1>4, <1>5, <1>6, <1>7, <1>8, OneStepKeeps DEF JobInv

LEMMA TellActiveKeeps ==
    ASSUME IInv, NEW j \in Jobs, TellActive(j)
    PROVE  IInv'
<1>1. /\ pc[j] = "tellActive"
      /\ kind[j] = "lifecycle"
      /\ Len(told[j]) = 5
      /\ invoices[j] \in {"paid", None}
      /\ kind[j] # None
      /\ Whole(j)
  <2>1. pc[j] = "tellActive" /\ Fits(j) /\ Pace(j) /\ InStep(j) /\ Whole(j) /\ Typed
    BY DEF TellActive, Telling, IInv, JobInv
  <2>2. kind[j] = "lifecycle" /\ kind[j] # None
    BY <2>1 DEF Fits
  <2>3. Len(told[j]) = 5
    BY <2>1, <2>2 DEF Pace, Base, PlanChanges
  <2>4. invoices[j] \in {"paid", None}
    BY <2>1 DEF InStep, Paid
  <2>5. QED
    BY <2>1, <2>2, <2>3, <2>4
<1>2. /\ Len(told[j]) < Total(kind[j])
      /\ Event("subscription.updated", "active") = Entry(j, kind[j], Len(told[j]) + 1)
  BY <1>1 DEF Total, Base, PlanChanges, Immediate, Event, Entry, Closing
<1>3. /\ Typed' /\ Alone(j) /\ Follows(j)'
      /\ UNCHANGED <<subs, invoices, charges, kind, sub, clears, begun>>
      /\ pc'[j] = "done"
      /\ Len(told'[j]) = Len(told[j]) + 1
  <2>1. Telling(j, "tellActive", "subscription.updated", "active", "done")
    BY DEF TellActive
  <2>2. "subscription.updated" \in EventTypes /\ "active" \in Shows /\ "done" \in Pcs
    BY DEF EventTypes, Shows, Pcs, InvoiceStatuses
  <2>3. QED
    BY <1>2, <2>1, <2>2, TellingEffect, Zenon
<1>4. Fits(j)'
  BY <1>1, <1>3 DEF Fits, PlanChanges, Immediate, Waterfalls,
      Drafted, Finalized
<1>5. Pace(j)'
  BY <1>1, <1>3 DEF Pace, Base, PlanChanges, Waterfalls
<1>6. InStep(j)'
  BY <1>1, <1>3 DEF InStep, Unbilled, Drafted, Finalized, Paid
<1>7. Whole(j)'
  BY <1>1, <1>3 DEF Whole, Undisturbed, Total,
      Drafted, Finalized, Paid, Waterfalls
<1>8. QED
  BY <1>3, <1>4, <1>5, <1>6, <1>7, OneStepKeeps DEF JobInv

LEMMA TellRenewedKeeps ==
    ASSUME IInv, NEW j \in Jobs, TellRenewed(j)
    PROVE  IInv'
<1>1. /\ pc[j] = "tellRenewed"
      /\ kind[j] = "renewal"
      /\ Len(told[j]) = 4
      /\ invoices[j] \in {"paid", None}
      /\ kind[j] # None
      /\ Whole(j)
  <2>1. pc[j] = "tellRenewed" /\ Fits(j) /\ Pace(j) /\ InStep(j) /\ Whole(j) /\ Typed
    BY DEF TellRenewed, Telling, IInv, JobInv
  <2>2. kind[j] = "renewal" /\ kind[j] # None
    BY <2>1 DEF Fits
  <2>3. Len(told[j]) = 4
    BY <2>1, <2>2 DEF Pace, Base, PlanChanges
  <2>4. invoices[j] \in {"paid", None}
    BY <2>1 DEF InStep, Paid
  <2>5. QED
    BY <2>1, <2>2, <2>3, <2>4
<1>2. /\ Len(told[j]) < Total(kind[j])
      /\ Event("subscription.updated", "changed") = Entry(j, kind[j], Len(told[j]) + 1)
  BY <1>1 DEF Total, Base, PlanChanges, Immediate, Event, Entry, Closing
<1>3. /\ Typed' /\ Alone(j) /\ Follows(j)'
      /\ UNCHANGED <<subs, invoices, charges, kind, sub, clears, begun>>
      /\ pc'[j] = "done"
      /\ Len(told'[j]) = Len(told[j]) + 1
  <2>1. Telling(j, "tellRenewed", "subscription.updated", "changed", "done")
    BY DEF TellRenewed
  <2>2. "subscription.updated" \in EventTypes /\ "changed" \in Shows /\ "done" \in Pcs
    BY DEF EventTypes, Shows, Pcs, InvoiceStatuses
  <2>3. QED
    BY <1>2, <2>1, <2>2, TellingEffect, Zenon
<1>4. Fits(j)'
  BY <1>1, <1>3 DEF Fits, PlanChanges, Immediate, Waterfalls,
      Drafted, Finalized
<1>5. Pace(j)'
  BY <1>1, <1>3 DEF Pace, Base, PlanChanges, Waterfalls
<1>6. InStep(j)'
  BY <1>1, <1>3 DEF InStep, Unbilled, Drafted, Finalized, Paid
<1>7. Whole(j)'
  BY <1>1, <1>3 DEF Whole, Undisturbed, Total,
      Drafted, Finalized, Paid, Waterfalls
<1>8. QED
  BY <1>3, <1>4, <1>5, <1>6, <1>7, OneStepKeeps DEF JobInv

LEMMA StepKeeps ==
    ASSUME IInv, NEW j \in Jobs, Step(j)
    PROVE  IInv'
BY TellChangeKeeps, FetchKeeps, TellCreatedKeeps, CreateInvoiceKeeps,
   ReadInvoiceKeeps, TellDraftKeeps, FinalizeKeeps, TellOpenKeeps,
   CreateChargeKeeps, ReadChargeKeeps, TellChargeKeeps, PayKeeps, TellPaidKeeps,
   BillKeeps, ActivateKeeps, TellActiveKeeps, TellRenewedKeeps, Zenon DEF Step

---------------------------------------------------------------------------
(* The handlers that start goroutines, and the reset.                      *)

LEMMA StartKeeps ==
    ASSUME IInv, NEW j \in Jobs, NEW k \in Kinds, NEW s \in Subs, Start(j, k, s)
    PROVE  IInv'
<1>1. /\ pc[j] = "unborn" /\ kind[j] = None /\ Len(told[j]) = 0
      /\ told[j] \in Seq(EventRecord)
      /\ invoices[j] = None
      /\ Typed
  BY DEF Start, IInv, JobInv, Fits, Pace, InStep, Unbilled, Typed
<1>2. /\ subs' = subs \cup {s} /\ kind' = [kind EXCEPT ![j] = k]
      /\ sub' = [sub EXCEPT ![j] = s]
      /\ begun' = [begun EXCEPT ![j] = clears]
      /\ UNCHANGED <<invoices, charges, told, clears>>
  BY DEF Start
<1>3. PICK l \in {"tellChange", "fetch"} :
        /\ Goes(j, l)
        /\ l = "tellChange" <=> k \in PlanChanges
  BY DEF Start, Goes
<1>4. /\ pc' \in [Jobs -> Pcs] /\ pc'[j] = l
      /\ \A i \in Jobs \ {j} : pc'[i] = pc[i]
  BY <1>1, <1>3, GoesEffect DEF Pcs
<1>5. /\ Typed'
      /\ kind'[j] = k /\ sub'[j] = s /\ begun'[j] = clears
      /\ Alone(j)
  BY <1>1, <1>2, <1>4 DEF Typed, Alone, Leaves
<1>6. /\ k \in {"lifecycle", "renewal", "checkout", "prorated", "invoiced",
                "uninvoiced"}
      /\ k # None
      /\ clears \in Nat
  BY <1>1, BillingAssumption DEF Typed
<1>7. Fits(j)'
  BY <1>3, <1>4, <1>5, <1>6 DEF Fits, PlanChanges, Immediate, Waterfalls,
      Drafted, Finalized
<1>8. Follows(j)'
  <2>1. Total(k) \in Nat
    BY <1>6 DEF Total
  <2>2. QED
    BY <1>1, <1>2, <1>5, <2>1 DEF Follows
<1>9. Pace(j)'
  BY <1>1, <1>2, <1>3, <1>4, <1>5, <1>6 DEF Pace, PlanChanges
<1>10. InStep(j)'
  BY <1>1, <1>2, <1>4 DEF InStep, Unbilled, Drafted, Finalized, Paid
<1>11. Whole(j)'
  BY <1>1, <1>2, <1>4, <1>5, <1>6 DEF Whole, Undisturbed, Drafted, Finalized, Paid
<1>12. QED
  BY <1>5, <1>7, <1>8, <1>9, <1>10, <1>11, OneStepKeeps DEF JobInv

LEMMA ClearEffect ==
    ASSUME Typed, ClearNext
    PROVE  /\ clears \in Nat /\ clears' = clears + 1
           /\ clears' <= Repositories * MaxResets
           /\ UNCHANGED <<kind, sub, pc, told, begun>>
           /\ subs' \subseteq Subs
           /\ charges' \subseteq charges
           /\ clears % 3 = 2 => charges' = {}
           /\ invoices' \in [Jobs -> InvoiceStatuses \cup {None}]
           /\ \A j \in Jobs : invoices'[j] \in {invoices[j], None}
           /\ clears % 3 = 1 => \A j \in Jobs : invoices'[j] = None
<1>1. /\ clears % 3 = 0 \/ clears % 3 = 1 \/ clears % 3 = 2
      /\ clears \in Nat
  BY DEF Typed
<1>2. /\ clears' = clears + 1
      /\ clears' <= Repositories * MaxResets
      /\ UNCHANGED <<kind, sub, pc, told, begun>>
  BY <1>1, BillingAssumption DEF ClearNext, Repositories
<1>3. CASE clears % 3 = 0
  <2>1. subs' = {} /\ UNCHANGED <<invoices, charges>>
    BY <1>3 DEF ClearNext, Repositories
  <2>2. QED
    BY <1>1, <1>2, <1>3, <2>1 DEF Typed
<1>4. CASE clears % 3 = 1
  <2>1. invoices' = [j \in Jobs |-> None] /\ UNCHANGED <<subs, charges>>
    BY <1>4 DEF ClearNext, Repositories
  <2>2. QED
    BY <1>1, <1>2, <1>4, <2>1 DEF Typed
<1>5. CASE clears % 3 = 2
  <2>1. charges' = {} /\ UNCHANGED <<subs, invoices>>
    BY <1>5 DEF ClearNext, Repositories
  <2>2. QED
    BY <1>1, <1>2, <1>5, <2>1 DEF Typed
<1>6. QED
  BY <1>1, <1>3, <1>4, <1>5

LEMMA ClearKeeps ==
    ASSUME IInv, ClearNext
    PROVE  IInv'
<1>1. Typed
  BY DEF IInv
<1>2. /\ clears \in Nat /\ clears' = clears + 1
      /\ clears' <= Repositories * MaxResets
      /\ UNCHANGED <<kind, sub, pc, told, begun>>
      /\ subs' \subseteq Subs
      /\ charges' \subseteq charges
      /\ invoices' \in [Jobs -> InvoiceStatuses \cup {None}]
      /\ \A j \in Jobs : invoices'[j] \in {invoices[j], None}
  BY <1>1, ClearEffect
<1>3. Typed'
  <2>1. clears' \in 0..(Repositories * MaxResets)
    BY <1>2, BillingAssumption DEF Repositories
  <2>2. /\ kind' = kind /\ sub' = sub /\ pc' = pc /\ told' = told /\ begun' = begun
        /\ charges' \subseteq Jobs
    BY <1>1, <1>2 DEF Typed
  <2>3. QED
    BY <1>1, <1>2, <2>1, <2>2, Zenon DEF Typed
<1>4. ASSUME NEW j \in Jobs
      PROVE  JobInv(j)'
  <2>1. Fits(j) /\ Follows(j) /\ Pace(j) /\ InStep(j) /\ begun[j] <= clears
    BY DEF IInv, JobInv, Whole
  <2>2. Fits(j)'
    BY <1>2, <2>1 DEF Fits
  <2>3. Follows(j)'
    BY <1>2, <2>1 DEF Follows
  <2>4. Pace(j)'
    BY <1>2, <2>1 DEF Pace
  <2>5. InStep(j)'
    BY <1>2, <2>1 DEF InStep
  <2>6. Whole(j)'
    BY <1>1, <1>2, <2>1 DEF Whole, Undisturbed, Typed
  <2>7. QED
    BY <2>2, <2>3, <2>4, <2>5, <2>6 DEF JobInv
<1>5. QED
  BY <1>3, <1>4 DEF IInv

---------------------------------------------------------------------------
(* The inductive invariant.                                                *)

LEMMA InitHolds == Init => IInv
<1> SUFFICES ASSUME Init PROVE IInv
  OBVIOUS
<1>1. Typed
  BY BillingAssumption DEF Init, Typed, Pcs, Repositories
<1>2. ASSUME NEW j \in Jobs
      PROVE  JobInv(j)
  <2>1. Fits(j)
    BY DEF Init, Fits, Drafted, Finalized
  <2>2. Follows(j)
    BY BillingAssumption DEF Init, Follows, Total
  <2>3. Pace(j)
    BY DEF Init, Pace
  <2>4. InStep(j)
    BY DEF Init, InStep, Unbilled, Drafted, Finalized, Paid
  <2>5. Whole(j)
    BY DEF Init, Whole, Undisturbed
  <2>6. QED
    BY <2>1, <2>2, <2>3, <2>4, <2>5 DEF JobInv
<1>3. QED
  BY <1>1, <1>2 DEF IInv

LEMMA NextKeeps == IInv /\ [Next]_vars => IInv'
<1> SUFFICES ASSUME IInv, [Next]_vars PROVE IInv'
  OBVIOUS
<1>1. CASE Next
  BY <1>1, StartKeeps, StepKeeps, ClearKeeps DEF Next
<1>2. CASE UNCHANGED vars
  BY <1>2 DEF vars, IInv, Typed, JobInv, Fits, Follows, Pace, InStep, Whole,
              Undisturbed
<1>3. QED
  BY <1>1, <1>2

LEMMA InvHolds == Spec => []IInv
BY InitHolds, NextKeeps, PTL DEF Spec

(* Every variable keeps its type, and no goroutine tells more than six     *)
(* events.                                                                 *)
THEOREM TypeCorrect == Spec => []TypeOK
<1>1. IInv => TypeOK
  <2> SUFFICES ASSUME IInv PROVE TypeOK
    OBVIOUS
  <2>1. ASSUME NEW j \in Jobs
        PROVE  /\ Len(told[j]) <= 6
               /\ \A i \in DOMAIN told[j] : told[j][i].type \in EventTypes
    <3>1. told[j] \in Seq(EventRecord) /\ kind[j] \in Kinds \cup {None}
      BY DEF IInv, Typed
    <3>2. Total(kind[j]) \in 0 .. 6
      BY <3>1, BillingAssumption DEF Total
    <3>3. Len(told[j]) <= Total(kind[j])
      BY DEF IInv, JobInv, Follows
    <3>4. /\ Len(told[j]) \in Nat
          /\ \A i \in DOMAIN told[j] : told[j][i] \in EventRecord
      BY <3>1, LenProperties
    <3>5. QED
      BY <3>2, <3>3, <3>4 DEF EventRecord
  <2>2. QED
    BY <2>1 DEF IInv, Typed, TypeOK
<1>2. QED
  BY <1>1, InvHolds, PTL

(* A goroutine that no reset came in the way of leaves nothing half        *)
(* billed: its invoice is stored and paid, its charge is stored, and it    *)
(* has told of the payment.                                                *)
THEOREM NothingIsHalfBilled == Spec => []NothingHalfBilled
<1>1. IInv => NothingHalfBilled
  <2> SUFFICES ASSUME IInv, NEW j \in Jobs,
                      pc[j] = "done", Undisturbed(j), kind[j] # "uninvoiced"
               PROVE  /\ invoices[j] = "paid"
                      /\ kind[j] \in Waterfalls => j \in charges
                      /\ Shown(j, "invoice.paid") # {}
    BY DEF NothingHalfBilled
  <2>1. /\ Len(told[j]) = Total(kind[j])
        /\ invoices[j] = "paid"
        /\ kind[j] \in Waterfalls => j \in charges
    BY DEF IInv, JobInv, Whole
  <2>2. /\ kind[j] \in {"lifecycle", "renewal", "checkout", "prorated", "invoiced"}
        /\ kind[j] # None
    BY BillingAssumption DEF IInv, Typed, JobInv, Fits
  <2> DEFINE n == IF kind[j] \in Immediate THEN Base(kind[j]) + 1
                                           ELSE Base(kind[j]) + 4
  <2>3. /\ n \in 1 .. Total(kind[j])
        /\ Entry(j, kind[j], n) = Event("invoice.paid", "paid")
    <3>1. CASE kind[j] \in Immediate
      <4>1. n = Base(kind[j]) + 1
        BY <3>1
      <4>2. kind[j] = "checkout" => Base(kind[j]) = 0 /\ Total(kind[j]) = 1
        BY <2>2 DEF Total, Base, PlanChanges
      <4>3. kind[j] = "prorated" => Base(kind[j]) = 1 /\ Total(kind[j]) = 2
        BY <2>2 DEF Total, Base, PlanChanges
      <4>4. n \in 1 .. Total(kind[j])
        BY <3>1, <4>1, <4>2, <4>3 DEF Immediate
      <4>5. Entry(j, kind[j], n) = Event("invoice.paid", "paid")
        BY <3>1, <4>1 DEF Entry, Base
      <4>6. QED
        BY <4>4, <4>5
    <3>2. CASE kind[j] \in {"lifecycle", "renewal", "invoiced"}
      <4>1. kind[j] \notin Immediate /\ n = Base(kind[j]) + 4
        BY <3>2 DEF Immediate
      <4>2. n \in 1 .. Total(kind[j])
        <5>1. kind[j] = "lifecycle" => Base(kind[j]) = 1 /\ Total(kind[j]) = 6
          BY <2>2 DEF Total, Base
        <5>2. kind[j] = "renewal" => Base(kind[j]) = 0 /\ Total(kind[j]) = 5
          BY <2>2 DEF Total, Base, PlanChanges
        <5>3. kind[j] = "invoiced" => Base(kind[j]) = 1 /\ Total(kind[j]) = 5
          BY <2>2 DEF Total, Base, PlanChanges
        <5>4. QED
          BY <3>2, <4>1, <5>1, <5>2, <5>3
      <4>3. Entry(j, kind[j], n) = Event("invoice.paid", "paid")
        BY <4>1 DEF Entry, Base
      <4>4. QED
        BY <4>2, <4>3
    <3>3. QED
      BY <2>2, <3>1, <3>2 DEF Immediate
  <2>4. told[j][n] = Event("invoice.paid", "paid")
    BY <2>1, <2>3 DEF IInv, JobInv, Follows
  <2>5. n \in DOMAIN told[j] /\ told[j][n].type = "invoice.paid"
    BY <2>1, <2>3, <2>4, LenProperties DEF Event, IInv, Typed
  <2>6. QED
    BY <2>1, <2>5 DEF Shown
<1>2. QED
  BY <1>1, InvHolds, PTL

(* An event never tells more than is stored while no reset has come in.    *)
THEOREM StoreIsAhead == Spec => []EventsFollowStore
<1>1. IInv => EventsFollowStore
  <2> SUFFICES ASSUME IInv, NEW j \in Jobs, Undisturbed(j),
                      NEW n \in DOMAIN told[j]
               PROVE  /\ told[j][n].shows \in InvoiceStatuses =>
                           Rank(told[j][n].shows) <= Rank(invoices[j])
                      /\ told[j][n].type = "charge.succeeded" /\ kind[j] # "invoiced" =>
                           told[j][n].shows \in charges
    BY DEF EventsFollowStore
  <2>1. /\ Typed /\ Fits(j) /\ Follows(j) /\ Pace(j) /\ InStep(j) /\ Whole(j)
        /\ told[j] \in Seq(EventRecord)
    BY DEF IInv, JobInv, Typed
  <2>2. n \in 1 .. Len(told[j]) /\ Len(told[j]) \in Nat
    BY <2>1, LenProperties
  <2>3. told[j][n] = Entry(j, kind[j], n)
    BY <2>1, <2>2 DEF Follows
  <2> DEFINE k == kind[j]
  <2>4. k \in {"lifecycle", "renewal", "checkout", "prorated", "invoiced",
               "uninvoiced"}
    <3>1. k # None
      BY <2>1, <2>2 DEF Fits, Pace
    <3>2. QED
      BY <2>1, <3>1, BillingAssumption DEF Typed
  <2>5. pc[j] # "unborn"
    BY <2>1, <2>2 DEF Pace
  <2>6. \/ /\ told[j][n].shows \in {"incomplete", "changed", "active"}
           /\ told[j][n].type # "charge.succeeded"
        \/ /\ k \in Immediate /\ n = Base(k) + 1
           /\ told[j][n].shows = "paid" /\ told[j][n].type # "charge.succeeded"
        \/ /\ k \in Waterfalls /\ n = Base(k) + 1
           /\ told[j][n].shows = "draft" /\ told[j][n].type # "charge.succeeded"
        \/ /\ k \in Waterfalls /\ n = Base(k) + 2
           /\ told[j][n].shows = "open" /\ told[j][n].type # "charge.succeeded"
        \/ /\ k \in Waterfalls /\ n = Base(k) + 3
           /\ told[j][n].shows = IF k = "invoiced" THEN None ELSE j
        \/ /\ k \in Waterfalls /\ n = Base(k) + 4
           /\ told[j][n].shows = "paid" /\ told[j][n].type # "charge.succeeded"
    <3>1. n <= Total(k)
      BY <2>1, <2>2, <2>4 DEF Follows, Total
    <3>2. n \in 1 .. Base(k) + 5
      BY <2>2, <2>4, <3>1 DEF Total, Base, PlanChanges
    <3>3. CASE n <= Base(k)
      BY <2>3, <3>3 DEF Entry, Opening, Event
    <3>4. CASE n > Base(k) /\ k \in Immediate
      BY <2>2, <2>3, <2>4, <3>1, <3>4 DEF Entry, Event, Base, Total, Immediate, PlanChanges
    <3>5. CASE n > Base(k) /\ k \in Waterfalls
      <4>1. k \notin Immediate
        BY <3>5 DEF Immediate, Waterfalls
      <4>2. n \in {Base(k) + 1, Base(k) + 2, Base(k) + 3, Base(k) + 4, Base(k) + 5}
        BY <3>2, <3>5 DEF Base
      <4>3. QED
        BY <2>3, <3>5, <4>1, <4>2 DEF Entry, Closing, Event, Base
    <3>6. CASE n > Base(k) /\ k = "uninvoiced"
      BY <2>2, <3>1, <3>6 DEF Total, Base, PlanChanges
    <3>7. QED
      BY <2>2, <2>4, <3>3, <3>4, <3>5, <3>6 DEF Immediate, Waterfalls, Base
  <2>7. /\ Rank("draft") = 1 /\ Rank("open") = 2 /\ Rank("paid") = 3
    BY BillingAssumption DEF Rank
  <2>8. pc[j] \in Pcs /\ n <= Len(told[j])
    BY <2>1, <2>2 DEF Typed
  <2>9. ASSUME k \in Immediate, n = Base(k) + 1
        PROVE  invoices[j] = "paid"
    <3>1. pc[j] = "done"
      BY <2>1, <2>2, <2>8, <2>9 DEF Pcs, Fits, Pace, Immediate, Base, PlanChanges,
          Waterfalls, Drafted, Finalized
    <3>2. QED
      BY <2>1, <2>5, <2>9, <3>1 DEF Whole, Immediate
  <2>10. ASSUME k \in Waterfalls, n >= Base(k) + 1
         PROVE  pc[j] \in {"open"} \cup Finalized \cup Paid \cup {"done"}
    BY <2>1, <2>2, <2>8, <2>10 DEF Pcs, Fits, Pace, Immediate, Base, PlanChanges,
        Waterfalls, Drafted, Finalized, Paid
  <2>11. ASSUME k \in Waterfalls, n >= Base(k) + 2
         PROVE  pc[j] \in (Finalized \ {"tellOpen"}) \cup Paid \cup {"done"}
    BY <2>1, <2>2, <2>8, <2>10, <2>11 DEF Pace, Base, Finalized, Paid
  <2>12. ASSUME k \in Waterfalls, n >= Base(k) + 3
         PROVE  pc[j] \in {"pay"} \cup Paid \cup {"done"}
    BY <2>1, <2>2, <2>8, <2>11, <2>12 DEF Pace, Base, Finalized, Paid
  <2>13. ASSUME k \in Waterfalls, n >= Base(k) + 4
         PROVE  pc[j] \in Paid \cup {"done"}
    BY <2>1, <2>2, <2>8, <2>12, <2>13 DEF Pace, Base, Finalized, Paid
  <2>14. /\ pc[j] = "done" /\ k \in Waterfalls => invoices[j] = "paid" /\ j \in charges
         /\ pc[j] \in Paid => invoices[j] = "paid"
         /\ pc[j] \in Finalized => invoices[j] = "open"
         /\ pc[j] = "open" => invoices[j] = "draft"
         /\ k \in Waterfalls /\ pc[j] \in {"pay"} \cup Paid => j \in charges
    BY <2>1, <2>5 DEF Whole, InStep, Waterfalls, Drafted, Finalized, Paid
  <2>15. CASE /\ k \in Immediate /\ n = Base(k) + 1
              /\ told[j][n].shows = "paid"
              /\ told[j][n].type # "charge.succeeded"
    BY <2>7, <2>9, <2>15
  <2>16. CASE /\ k \in Waterfalls /\ n = Base(k) + 1
              /\ told[j][n].shows = "draft"
              /\ told[j][n].type # "charge.succeeded"
    BY <2>7, <2>10, <2>14, <2>16 DEF Base
  <2>17. CASE /\ k \in Waterfalls /\ n = Base(k) + 2
              /\ told[j][n].shows = "open"
              /\ told[j][n].type # "charge.succeeded"
    BY <2>7, <2>11, <2>14, <2>17 DEF Base
  <2>18. CASE /\ k \in Waterfalls /\ n = Base(k) + 3
              /\ told[j][n].shows = IF k = "invoiced" THEN None ELSE j
    BY <2>12, <2>14, <2>18, BillingAssumption
       DEF Base, InvoiceStatuses
  <2>19. CASE /\ k \in Waterfalls /\ n = Base(k) + 4
              /\ told[j][n].shows = "paid"
              /\ told[j][n].type # "charge.succeeded"
    BY <2>7, <2>13, <2>14, <2>19 DEF Base
  <2>20. CASE /\ told[j][n].shows \in {"incomplete", "changed", "active"}
              /\ told[j][n].type # "charge.succeeded"
    BY <2>20 DEF InvoiceStatuses
  <2>21. QED
    BY <2>6, <2>15, <2>16, <2>17, <2>18, <2>19, <2>20
<1>2. QED
  BY <1>1, InvHolds, PTL

---------------------------------------------------------------------------
(* What the steps of goroutines do to invoices and charges.                *)

LEMMA InvoiceSteps ==
    ASSUME IInv, NEW i \in Jobs, Step(i)
    PROVE  /\ \/ invoices' = invoices
              \/ /\ pc[i] = "draft"
                 /\ invoices' = [invoices EXCEPT ![i] = "draft"]
              \/ /\ pc[i] = "open" /\ invoices[i] # None
                 /\ invoices' = [invoices EXCEPT ![i] = "open"]
              \/ /\ pc[i] = "pay" /\ invoices[i] # None
                 /\ invoices' = [invoices EXCEPT ![i] = "paid"]
              \/ /\ pc[i] = "bill"
                 /\ invoices' = [invoices EXCEPT ![i] = "paid"]
           /\ charges' = charges \/ charges' = charges \cup {i}
           /\ pc[i] # "done"
           /\ \A j \in Jobs \ {i} : pc'[j] = pc[j]
           /\ clears' = clears
<1>1. /\ \A j \in Jobs \ {i} : pc'[j] = pc[j]
      /\ clears' = clears
      /\ pc[i] # "done"
  BY DEF Step, TellChange, Fetch, TellCreated, CreateInvoice, ReadInvoice, TellDraft,
         Finalize, TellOpen, CreateCharge, ReadCharge, TellCharge, Pay, TellPaid, Bill,
         Activate, TellActive, TellRenewed, Telling, Update, Goes, IInv, Typed
<1>2. charges' = charges \/ charges' = charges \cup {i}
  BY DEF Step, TellChange, Fetch, TellCreated, CreateInvoice, ReadInvoice, TellDraft,
         Finalize, TellOpen, CreateCharge, ReadCharge, TellCharge, Pay, TellPaid, Bill,
         Activate, TellActive, TellRenewed, Telling, Update
<1>3. CASE CreateInvoice(i) \/ Bill(i) \/ Finalize(i) \/ Pay(i)
  BY <1>1, <1>2, <1>3 DEF CreateInvoice, Bill, Finalize, Pay, Update
<1>4. CASE ~(CreateInvoice(i) \/ Bill(i) \/ Finalize(i) \/ Pay(i))
  <2>1. invoices' = invoices
    BY <1>4 DEF Step, TellChange, Fetch, TellCreated, ReadInvoice, TellDraft,
         TellOpen, CreateCharge, ReadCharge, TellCharge, TellPaid,
         Activate, TellActive, TellRenewed, Telling
  <2>2. QED
    BY <1>1, <1>2, <2>1
<1>5. QED
  BY <1>3, <1>4

\* What may become of the invoice of goroutine j.
Advances(j) ==
    invoices'[j] # invoices[j] =>
        \/ invoices'[j] = None
        \/ /\ invoices[j] = None
           /\ invoices'[j] = IF kind[j] \in Waterfalls THEN "draft" ELSE "paid"
           /\ Shown(j, "invoice.created") = {}
        \/ invoices[j] # None /\ Rank(invoices'[j]) = Rank(invoices[j]) + 1

LEMMA StepAdvances ==
    ASSUME IInv, NEW i \in Jobs, Step(i), NEW j \in Jobs
    PROVE  Advances(j)
<1>1. /\ Typed /\ Fits(i) /\ Follows(i) /\ Pace(i) /\ InStep(i)
      /\ told[i] \in Seq(EventRecord) /\ Len(told[i]) \in Nat
      /\ DOMAIN told[i] = 1 .. Len(told[i])
  BY LenProperties DEF IInv, JobInv, Typed
<1>2. /\ Rank("draft") = 1 /\ Rank("open") = 2 /\ Rank("paid") = 3
  BY BillingAssumption DEF Rank
<1>3. ASSUME pc[i] \in {"draft", "bill"}
      PROVE  /\ invoices[i] = None
             /\ Shown(i, "invoice.created") = {}
             /\ pc[i] = "draft" <=> kind[i] \in Waterfalls
  <2>1. invoices[i] = None /\ Len(told[i]) = Base(kind[i])
    BY <1>1, <1>3 DEF InStep, Unbilled, Pace
  <2>2. pc[i] = "draft" <=> kind[i] \in Waterfalls
    BY <1>1, <1>3 DEF Fits, Waterfalls, Immediate
  <2>3. ASSUME NEW n \in DOMAIN told[i]
        PROVE  told[i][n].type # "invoice.created"
    <3>1. n \in 1 .. Len(told[i]) /\ n <= Base(kind[i])
      BY <1>1, <2>1
    <3>2. told[i][n] = Opening(kind[i])
      BY <1>1, <3>1 DEF Follows, Entry
    <3>3. QED
      BY <3>2 DEF Opening, Event
  <2>4. QED
    BY <2>1, <2>2, <2>3 DEF Shown
<1>4. CASE j # i \/ invoices' = invoices
  BY <1>1, <1>4, InvoiceSteps DEF Advances, Typed
<1>5. CASE j = i /\ pc[i] = "draft" /\ invoices' = [invoices EXCEPT ![i] = "draft"]
  BY <1>1, <1>3, <1>5 DEF Advances, Typed
<1>6. CASE j = i /\ pc[i] = "bill" /\ invoices' = [invoices EXCEPT ![i] = "paid"]
  BY <1>1, <1>3, <1>6 DEF Advances, Typed
<1>7. CASE /\ j = i /\ pc[i] = "open" /\ invoices[i] # None
           /\ invoices' = [invoices EXCEPT ![i] = "open"]
  <2>1. invoices[i] = "draft" /\ invoices'[i] = "open"
    BY <1>1, <1>7 DEF InStep, Drafted, Typed
  <2>2. QED
    BY <1>2, <1>7, <2>1 DEF Advances
<1>8. CASE /\ j = i /\ pc[i] = "pay" /\ invoices[i] # None
           /\ invoices' = [invoices EXCEPT ![i] = "paid"]
  <2>1. invoices[i] = "open" /\ invoices'[i] = "paid"
    BY <1>1, <1>8 DEF InStep, Finalized, Typed
  <2>2. QED
    BY <1>2, <1>8, <2>1 DEF Advances
<1>9. QED
  BY <1>4, <1>5, <1>6, <1>7, <1>8, InvoiceSteps

(* An invoice only advances, and one that a reset cleared does not come    *)
(* back.                                                                   *)
THEOREM InvoicesOnlyAdvance == Spec => InvoicesAdvance
<1>1. IInv /\ [Next]_vars => \A j \in Jobs : Advances(j)
  <2> SUFFICES ASSUME IInv, [Next]_vars, NEW j \in Jobs PROVE Advances(j)
    OBVIOUS
  <2>1. CASE \E i \in Jobs : Step(i)
    BY <2>1, StepAdvances
  <2>2. CASE ClearNext
    <3>1. invoices'[j] \in {invoices[j], None}
      BY <2>2, ClearEffect DEF IInv
    <3>2. QED
      BY <3>1 DEF Advances
  <2>3. CASE \E i \in Jobs, k \in Kinds, s \in Subs : Start(i, k, s)
    <3>1. invoices' = invoices
      BY <2>3 DEF Start
    <3>2. QED
      BY <3>1 DEF Advances
  <2>4. CASE UNCHANGED vars
    BY <2>4 DEF vars, Advances
  <2>5. QED
    BY <2>1, <2>2, <2>3, <2>4 DEF Next
<1>2. (\A j \in Jobs : Advances(j)) =>
        \A j \in Jobs : invoices'[j] # invoices[j] =>
         \/ invoices'[j] = None
         \/ /\ invoices[j] = None
            /\ invoices'[j] = IF kind[j] \in Waterfalls THEN "draft" ELSE "paid"
            /\ Shown(j, "invoice.created") = {}
         \/ invoices[j] # None /\ Rank(invoices'[j]) = Rank(invoices[j]) + 1
  BY DEF Advances
<1>3. QED
  BY <1>1, <1>2, InvHolds, PTL DEF Spec, InvoicesAdvance

---------------------------------------------------------------------------
(* Resets forget.                                                          *)

\* The invoice of goroutine j, which has ended, is gone once the n-th reset
\* has cleared the invoices, and its charge once it has cleared the charges.
Forgotten(j, n) ==
    /\ pc[j] = "done"
    /\ clears >= 3 * n - 1 => invoices[j] = None
    /\ clears >= 3 * n => j \notin charges

LEMMA ForgottenKept ==
    ASSUME IInv, [Next]_vars, NEW j \in Jobs, NEW n \in 1 .. MaxResets, Forgotten(j, n)
    PROVE  Forgotten(j, n)'
<1>1. n \in Nat /\ n > 0 /\ clears \in Nat
  BY BillingAssumption DEF IInv, Typed
<1>2. CASE \E i \in Jobs : Step(i)
  <2>1. PICK i \in Jobs : Step(i)
    BY <1>2
  <2>2. i # j /\ clears' = clears /\ pc'[j] = pc[j]
    BY <2>1, InvoiceSteps DEF Forgotten
  <2>3. invoices'[j] = invoices[j] /\ (j \in charges' <=> j \in charges)
    BY <2>1, <2>2, InvoiceSteps DEF IInv, Typed
  <2>4. QED
    BY <2>2, <2>3 DEF Forgotten
<1>3. CASE ClearNext
  <2>1. /\ clears' = clears + 1 /\ pc' = pc
        /\ charges' \subseteq charges
        /\ clears % 3 = 2 => charges' = {}
        /\ invoices'[j] \in {invoices[j], None}
        /\ clears % 3 = 1 => invoices'[j] = None
    BY <1>3, ClearEffect DEF IInv
  <2>2. /\ clears = 3 * n - 2 => clears % 3 = 1
        /\ clears = 3 * n - 1 => clears % 3 = 2
    BY <1>1
  <2>3. clears' >= 3 * n - 1 => invoices'[j] = None
    BY <1>1, <2>1, <2>2 DEF Forgotten
  <2>4. clears' >= 3 * n => j \notin charges'
    BY <1>1, <2>1, <2>2 DEF Forgotten
  <2>5. QED
    BY <2>1, <2>3, <2>4 DEF Forgotten
<1>4. CASE \E i \in Jobs, k \in Kinds, s \in Subs : Start(i, k, s)
  <2>1. /\ UNCHANGED <<invoices, charges, clears>>
        /\ pc'[j] = pc[j]
    BY <1>4 DEF Start, Forgotten, IInv, Typed
  <2>2. QED
    BY <2>1 DEF Forgotten
<1>5. CASE UNCHANGED vars
  BY <1>5 DEF vars, Forgotten
<1>6. QED
  BY <1>2, <1>3, <1>4, <1>5 DEF Next

(* What goroutines stored that had ended before a reset began is gone for  *)
(* ever when the reset is over.                                            *)
THEOREM ResetIsFinal == Spec => ResetForgets
<1> SUFFICES ASSUME NEW j \in Jobs, NEW n \in 1 .. MaxResets
             PROVE  Spec => [](pc[j] = "done" /\ clears <= Repositories * (n - 1) =>
                       [](clears >= Repositories * n => invoices[j] = None /\ j \notin charges))
  BY DEF ResetForgets
<1>1. IInv /\ pc[j] = "done" /\ clears <= Repositories * (n - 1) => Forgotten(j, n)
  BY BillingAssumption DEF Forgotten, Repositories, IInv, Typed
<1>2. IInv /\ Forgotten(j, n) /\ [Next]_vars => Forgotten(j, n)'
  BY ForgottenKept
<1>3. IInv /\ Forgotten(j, n) =>
        (clears >= Repositories * n => invoices[j] = None /\ j \notin charges)
  BY BillingAssumption DEF Forgotten, Repositories, IInv, Typed
<1>4. QED
  BY <1>1, <1>2, <1>3, InvHolds, PTL DEF Spec

---------------------------------------------------------------------------
(* The stories.                                                            *)

Waterfall == <<"invoice.created", "invoice.finalized", "charge.succeeded",
               "invoice.paid">>

\* Sequence c is a followed by b.
Joins(c, a, b) ==
    /\ Len(c) = Len(a) + Len(b)
    /\ \A i \in 1 .. Len(a) : c[i] = a[i]
    /\ \A i \in 1 .. Len(b) : c[Len(a) + i] = b[i]

LEMMA Concatenated ==
    ASSUME NEW S, NEW a \in Seq(S), NEW b \in Seq(S)
    PROVE  a \o b \in Seq(S) /\ Joins(a \o b, a, b)
<1>1. /\ a \o b \in Seq(S)
      /\ Len(a \o b) = Len(a) + Len(b)
      /\ \A i \in 1 .. Len(a) + Len(b) : (a \o b)[i] = IF i <= Len(a) THEN a[i] ELSE b[i - Len(a)]
  BY ConcatProperties
<1>2. Len(a) \in Nat /\ Len(b) \in Nat
  OBVIOUS
<1>3. ASSUME NEW i \in 1 .. Len(b)
      PROVE  (a \o b)[Len(a) + i] = b[i]
  <2>1. /\ Len(a) + i \in 1 .. Len(a) + Len(b)
        /\ ~(Len(a) + i <= Len(a))
        /\ (Len(a) + i) - Len(a) = i
    BY <1>2
  <2>2. QED
    BY <1>1, <2>1
<1>4. QED
  BY <1>1, <1>2, <1>3 DEF Joins

\* A story as the comments tell it is the sequence of entries.
LEMMA StoryEntries ==
    ASSUME NEW j, NEW k \in Kinds \cup {None}
    PROVE  /\ Story(k) \in Seq(EventTypes)
           /\ Len(Story(k)) = Total(k)
           /\ \A n \in 1 .. Total(k) : Story(k)[n] = Entry(j, k, n).type
<1> DEFINE Created == <<"subscription.created">>
           Updated == <<"subscription.updated">>
<1>1. /\ Waterfall \in Seq(EventTypes) /\ Len(Waterfall) = 4
      /\ Waterfall[1] = "invoice.created" /\ Waterfall[2] = "invoice.finalized"
      /\ Waterfall[3] = "charge.succeeded" /\ Waterfall[4] = "invoice.paid"
  BY DEF Waterfall, EventTypes
<1>2. /\ Created \in Seq(EventTypes) /\ Len(Created) = 1
      /\ Created[1] = "subscription.created"
      /\ Updated \in Seq(EventTypes) /\ Len(Updated) = 1
      /\ Updated[1] = "subscription.updated"
  BY DEF EventTypes
<1>3. /\ k \in {"lifecycle", "renewal", "checkout", "prorated", "invoiced",
                "uninvoiced", None}
      /\ k \in {"lifecycle", "renewal", "checkout", "prorated", "invoiced",
                "uninvoiced"} => k # None \/ k = None
  BY BillingAssumption
<1>4. CASE k = None
  BY <1>4, BillingAssumption DEF Story, Total
<1> HIDE DEF Created, Updated
<1>5. CASE k # None /\ k = "lifecycle"
  <2>1. Story(k) = (Created \o Waterfall) \o Updated
    BY <1>5 DEF Story, Waterfall, Created, Updated
  <2>2. Total(k) = 6 /\ Base(k) = 1 /\ k \notin Immediate
    BY <1>5 DEF Total, Base, Immediate
  <2>3. PICK first \in Seq(EventTypes) :
          first = Created \o Waterfall /\ Joins(first, Created, Waterfall)
    BY <1>1, <1>2, Concatenated
  <2>4. /\ Len(first) = 5
        /\ first[1] = Created[1] /\ first[2] = Waterfall[1] /\ first[3] = Waterfall[2]
        /\ first[4] = Waterfall[3] /\ first[5] = Waterfall[4]
    BY <1>1, <1>2, <2>3 DEF Joins
  <2>5. Story(k) \in Seq(EventTypes) /\ Joins(Story(k), first, Updated)
    BY <1>2, <2>1, <2>3, <2>4, Concatenated
  <2>6. /\ Story(k)[1] = "subscription.created" /\ Story(k)[2] = "invoice.created"
        /\ Story(k)[3] = "invoice.finalized" /\ Story(k)[4] = "charge.succeeded"
        /\ Story(k)[5] = "invoice.paid" /\ Story(k)[6] = "subscription.updated"
    BY <1>1, <1>2, <2>4, <2>5 DEF Joins
  <2>7. \A n \in 1 .. 6 : Story(k)[n] = Entry(j, k, n).type
    BY <1>5, <2>2, <2>6 DEF Entry, Opening, Closing, Event
  <2>8. QED
    BY <1>2, <2>2, <2>4, <2>5, <2>7 DEF Joins
<1>6. CASE k # None /\ k = "renewal"
  <2>1. Story(k) = Waterfall \o Updated
    BY <1>6 DEF Story, Waterfall, Updated
  <2>2. Total(k) = 5 /\ Base(k) = 0 /\ k \notin Immediate
    BY <1>6 DEF Total, Base, Immediate, PlanChanges
  <2>3. Story(k) \in Seq(EventTypes) /\ Joins(Story(k), Waterfall, Updated)
    BY <1>1, <1>2, <2>1, Concatenated
  <2>4. /\ Story(k)[1] = "invoice.created" /\ Story(k)[2] = "invoice.finalized"
        /\ Story(k)[3] = "charge.succeeded" /\ Story(k)[4] = "invoice.paid"
        /\ Story(k)[5] = "subscription.updated"
    BY <1>1, <1>2, <2>3 DEF Joins
  <2>5. \A n \in 1 .. 5 : Story(k)[n] = Entry(j, k, n).type
    BY <1>6, <2>2, <2>4 DEF Entry, Closing, Event
  <2>6. QED
    BY <1>1, <1>2, <2>2, <2>3, <2>5 DEF Joins
<1>7. CASE k # None /\ k = "invoiced"
  <2>1. Story(k) = Updated \o Waterfall
    BY <1>7 DEF Story, Waterfall, Updated
  <2>2. Total(k) = 5 /\ Base(k) = 1 /\ k \notin Immediate
    BY <1>7 DEF Total, Base, Immediate, PlanChanges
  <2>3. Story(k) \in Seq(EventTypes) /\ Joins(Story(k), Updated, Waterfall)
    BY <1>1, <1>2, <2>1, Concatenated
  <2>4. /\ Story(k)[1] = "subscription.updated" /\ Story(k)[2] = "invoice.created"
        /\ Story(k)[3] = "invoice.finalized" /\ Story(k)[4] = "charge.succeeded"
        /\ Story(k)[5] = "invoice.paid"
    BY <1>1, <1>2, <2>3 DEF Joins
  <2>5. \A n \in 1 .. 5 : Story(k)[n] = Entry(j, k, n).type
    BY <1>7, <2>2, <2>4 DEF Entry, Opening, Event
  <2>6. QED
    BY <1>1, <1>2, <2>2, <2>3, <2>5 DEF Joins
<1>8. CASE k # None /\ k \in {"checkout", "prorated", "uninvoiced"}
  <2>1. /\ k = "checkout" => Story(k) = <<"invoice.paid">> /\ Total(k) = 1 /\ Base(k) = 0
        /\ k = "prorated" => /\ Story(k) = <<"subscription.updated", "invoice.paid">>
                             /\ Total(k) = 2 /\ Base(k) = 1
        /\ k = "uninvoiced" => /\ Story(k) = <<"subscription.updated">>
                               /\ Total(k) = 1 /\ Base(k) = 1
    BY <1>8 DEF Story, Total, Base, PlanChanges
  <2>2. Story(k) \in Seq(EventTypes) /\ Len(Story(k)) = Total(k)
    <3>1. k = "checkout" \/ k = "prorated" \/ k = "uninvoiced"
      BY <1>8
    <3>2. /\ <<"invoice.paid">> \in Seq(EventTypes) /\ Len(<<"invoice.paid">>) = 1
          /\ <<"subscription.updated", "invoice.paid">> \in Seq(EventTypes)
          /\ Len(<<"subscription.updated", "invoice.paid">>) = 2
          /\ <<"subscription.updated">> \in Seq(EventTypes)
          /\ Len(<<"subscription.updated">>) = 1
      BY DEF EventTypes
    <3>3. QED
      BY <2>1, <3>1, <3>2
  <2>3. \A n \in 1 .. Total(k) : Story(k)[n] = Entry(j, k, n).type
    BY <1>8, <2>1 DEF Entry, Opening, Event, Immediate
  <2>4. QED
    BY <2>2, <2>3
<1>9. QED
  BY <1>3, <1>4, <1>5, <1>6, <1>7, <1>8

LEMMA TypesEntries ==
    ASSUME IInv, NEW j \in Jobs
    PROVE  /\ Types(j) \in Seq(EventTypes)
           /\ Len(Types(j)) = Len(told[j])
           /\ \A n \in 1 .. Len(told[j]) : Types(j)[n] = Entry(j, kind[j], n).type
<1>1. /\ told[j] \in Seq(EventRecord) /\ Len(told[j]) \in Nat
      /\ DOMAIN told[j] = 1 .. Len(told[j])
      /\ \A n \in 1 .. Len(told[j]) : told[j][n] \in EventRecord
  BY LenProperties, ElementOfSeq DEF IInv, Typed
<1>2. Types(j) \in [1 .. Len(told[j]) -> EventTypes]
  BY <1>1 DEF Types, EventRecord
<1>3. Types(j) \in Seq(EventTypes)
  BY <1>1, <1>2, SeqDef
<1>4. Len(Types(j)) = Len(told[j])
  BY <1>1, <1>2, <1>3, LenProperties
<1>5. ASSUME NEW n \in 1 .. Len(told[j])
      PROVE  Types(j)[n] = Entry(j, kind[j], n).type
  BY <1>1 DEF Types, IInv, JobInv, Follows
<1>6. QED
  BY <1>3, <1>4, <1>5

(* Whatever resets come in between, what a goroutine announces is the      *)
(* beginning of its kind's story, and all of it if there was none.         *)
THEOREM StoriesUnfold == Spec => []StoriesAreTold
<1>1. IInv => StoriesAreTold
  <2> SUFFICES ASSUME IInv, NEW j \in Jobs
               PROVE  /\ IsPrefix(Types(j), Story(kind[j]))
                      /\ pc[j] = "done" /\ Undisturbed(j) => Types(j) = Story(kind[j])
    BY DEF StoriesAreTold
  <2> DEFINE l == Len(told[j])
             t == Types(j)
             s == Story(kind[j])
  <2>1. /\ t \in Seq(EventTypes) /\ Len(t) = l
        /\ \A n \in 1 .. l : t[n] = Entry(j, kind[j], n).type
    BY TypesEntries
  <2>2. /\ s \in Seq(EventTypes) /\ Len(s) = Total(kind[j])
        /\ \A n \in 1 .. Total(kind[j]) : s[n] = Entry(j, kind[j], n).type
    BY StoryEntries DEF IInv, Typed
  <2>3. l \in Nat /\ Total(kind[j]) \in Nat /\ l <= Total(kind[j])
    BY <2>1, <2>2, LenProperties DEF IInv, JobInv, Follows
  <2> HIDE DEF l, t, s
  <2>4. \A n \in 1 .. l : t[n] = s[n]
    BY <2>1, <2>2, <2>3
  <2>5. IsPrefix(t, s)
    <3>1. \A n \in 1 .. l : t[n] \in EventTypes /\ s[n] \in EventTypes
      BY <2>1, <2>2, <2>3, <2>4, ElementOfSeq
    <3>2. /\ SubSeq(t, 1, l) \in Seq(EventTypes) /\ Len(SubSeq(t, 1, l)) = l
          /\ \A n \in 1 .. l : SubSeq(t, 1, l)[n] = t[n]
      BY <2>3, <3>1, SubSeqProperties
    <3>3. /\ SubSeq(s, 1, l) \in Seq(EventTypes) /\ Len(SubSeq(s, 1, l)) = l
          /\ \A n \in 1 .. l : SubSeq(s, 1, l)[n] = s[n]
      BY <2>3, <3>1, SubSeqProperties
    <3>4. SubSeq(t, 1, l) = SubSeq(s, 1, l)
      BY <2>4, <3>2, <3>3, SeqEqual
    <3>5. QED
      BY <2>1, <2>2, <2>3, <3>4 DEF IsPrefix
  <2>6. ASSUME pc[j] = "done", Undisturbed(j)
        PROVE  t = s
    <3>1. l = Total(kind[j])
      BY <2>6 DEF IInv, JobInv, Whole, l
    <3>2. QED
      BY <2>1, <2>2, <2>4, <3>1, SeqEqual
  <2>7. QED
    BY <2>5, <2>6 DEF t, s
<1>2. QED
  BY <1>1, InvHolds, PTL
=============================================================================
