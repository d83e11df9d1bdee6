------------------------------ MODULE Billing ------------------------------
(***************************************************************************)
(* The goroutines that bill subscriptions (pkg/server/server.go) and the   *)
(* reset of the gateway.                                                   *)
(*                                                                         *)
(* A handler starts a goroutine after it created or changed a subscription *)
(* and answers; the goroutine creates an invoice, takes it from draft over *)
(* open to paid with a charge in between, or creates it paid, and          *)
(* announces every step.  Each of its accesses to a repository is a step,  *)
(* and so is each repository that Gateway.Reset clears.                    *)
(*                                                                         *)
(* A goroutine creates at most one invoice and one charge; they are named  *)
(* after it.  Amounts and the documents of subscriptions are left out.     *)
(***************************************************************************)
EXTENDS Naturals, Sequences, SequencesExt

CONSTANTS Jobs,       \* goroutines
          Subs,       \* subscriptions
          Kinds,      \* what the clients ask for
          None,
          MaxResets   \* bound

ASSUME BillingAssumption ==
    /\ Kinds \subseteq {"lifecycle", "renewal", "checkout", "prorated",
                        "invoiced", "uninvoiced"}
    /\ None \notin Subs \cup Kinds \cup {"draft", "open", "paid"}
    /\ Jobs \cap {"draft", "open", "paid"} = {}
    /\ MaxResets \in Nat

VARIABLES
    subs,      \* the subscriptions stored
    invoices,  \* the status of each invoice stored
    charges,   \* the charges stored
    kind,      \* what each goroutine bills for,
    sub,       \*   the subscription it was given,
    pc,        \*   where it is
    told,      \*   and the events it has triggered
    clears,    \* the repositories cleared so far, three by each reset
    begun      \* how many that were when each goroutine began

vars == <<subs, invoices, charges, kind, sub, pc, told, clears, begun>>

Repositories == 3  \* those cleared that billing uses

InvoiceStatuses == {"draft", "open", "paid"}

\* The kinds whose handler creates the subscription.
Creating == {"lifecycle", "checkout"}

\* A plan change whose proration is zero, or which asks for none, is
\* "uninvoiced"; always_invoice makes it "invoiced", create_prorations
\* "prorated".
PlanChanges == {"prorated", "invoiced", "uninvoiced"}

\* The kinds that take an invoice through its statuses.
Waterfalls == {"lifecycle", "renewal", "invoiced"}

\* An event and what it shows: the status of an invoice or of a subscription,
\* or the id of a charge.
Event(type, shows) == [type |-> type, shows |-> shows]

---------------------------------------------------------------------------

Init == /\ subs = {}
        /\ invoices = [j \in Jobs |-> None]
        /\ charges = {}
        /\ kind = [j \in Jobs |-> None]
        /\ sub = [j \in Jobs |-> None]
        /\ pc = [j \in Jobs |-> "unborn"]
        /\ told = [j \in Jobs |-> <<>>]
        /\ clears = 0
        /\ begun = [j \in Jobs |-> 0]

\* A handler has created or changed subscription s and starts j.  The
\* goroutine of a checkout sleeps first.
Start(j, k, s) ==
    /\ pc[j] = "unborn"
    /\ IF k \in Creating
       THEN \A i \in Jobs : sub[i] # s
       ELSE s \in subs
    /\ subs' = subs \cup {s}
    /\ kind' = [kind EXCEPT ![j] = k]
    /\ sub' = [sub EXCEPT ![j] = s]
    /\ pc' = [pc EXCEPT ![j] = IF k \in PlanChanges THEN "tellChange" ELSE "fetch"]
    /\ begun' = [begun EXCEPT ![j] = clears]
    /\ UNCHANGED <<invoices, charges, told, clears>>

Goes(j, l) == pc' = [pc EXCEPT ![j] = l]

Tells(j, type, shows) ==
    told' = [told EXCEPT ![j] = Append(@, Event(type, shows))]

\* A goroutine that only triggers an event.
Telling(j, from, type, shows, to) ==
    /\ pc[j] = from
    /\ Tells(j, type, shows)
    /\ Goes(j, to)
    /\ UNCHANGED <<subs, invoices, charges, kind, sub, clears, begun>>

\* Faulty: an amount of zero is invoiced too.
TellChangeInvoiced(j) ==
    Telling(j, "tellChange", "subscription.updated", "changed",
            IF kind[j] = "prorated" THEN "fetch" ELSE "draft")

TellChange(j) ==
    Telling(j, "tellChange", "subscription.updated", "changed",
            CASE kind[j] = "prorated" -> "fetch"
              [] kind[j] = "invoiced" -> "draft"
              [] kind[j] = "uninvoiced" -> "done")

Fetch(j) ==
    /\ pc[j] = "fetch"
    /\ Goes(j, CASE sub[j] \notin subs -> "done"
                 [] sub[j] \in subs /\ kind[j] = "lifecycle" -> "tellCreated"
                 [] sub[j] \in subs /\ kind[j] = "renewal" -> "draft"
                 [] sub[j] \in subs /\ kind[j] \in {"checkout", "prorated"} -> "bill")
    /\ UNCHANGED <<subs, invoices, charges, kind, sub, told, clears, begun>>

TellCreated(j) ==
    Telling(j, "tellCreated", "subscription.created", "incomplete", "draft")

---------------------------------------------------------------------------
(* The waterfall of an invoice.                                            *)

\* What CreateInvoice and CreateCharge return is what they read back.
CreateInvoice(j) ==
    /\ pc[j] = "draft"
    /\ invoices' = [invoices EXCEPT ![j] = "draft"]
    /\ Goes(j, "readDraft")
    /\ UNCHANGED <<subs, charges, kind, sub, told, clears, begun>>

ReadInvoice(j) ==
    /\ pc[j] \in {"readDraft", "readPaid"}
    /\ Goes(j, CASE invoices[j] = None -> "done"
                 [] invoices[j] # None /\ pc[j] = "readDraft" -> "tellDraft"
                 [] invoices[j] # None /\ pc[j] = "readPaid" -> "tellPaid")
    /\ UNCHANGED <<subs, invoices, charges, kind, sub, told, clears, begun>>

TellDraft(j) == Telling(j, "tellDraft", "invoice.created", "draft", "open")

\* Faulty: the update of an invoice creates it when it is gone.
FinalizeInserting(j) ==
    /\ pc[j] = "open"
    /\ invoices' = [invoices EXCEPT ![j] = "open"]
    /\ Goes(j, "tellOpen")
    /\ UNCHANGED <<subs, charges, kind, sub, told, clears, begun>>

\* Faulty: a goroutine whose invoice is gone tries again.
FinalizeRetrying(j) ==
    /\ pc[j] = "open"
    /\ \/ /\ invoices[j] = None
          /\ UNCHANGED <<invoices, pc>>
       \/ /\ invoices[j] # None
          /\ invoices' = [invoices EXCEPT ![j] = "open"]
          /\ Goes(j, "tellOpen")
    /\ UNCHANGED <<subs, charges, kind, sub, told, clears, begun>>

\* Faulty: the status is announced but not saved.
FinalizeUnsaved(j) ==
    /\ pc[j] = "open"
    /\ Goes(j, IF invoices[j] = None THEN "done" ELSE "tellOpen")
    /\ UNCHANGED <<subs, invoices, charges, kind, sub, told, clears, begun>>

\* UpdateInvoice fails for an invoice that is not stored, and then the
\* goroutine gives up.
Update(j, from, status, to) ==
    /\ pc[j] = from
    /\ \/ /\ invoices[j] = None
          /\ Goes(j, "done")
          /\ UNCHANGED invoices
       \/ /\ invoices[j] # None
          /\ invoices' = [invoices EXCEPT ![j] = status]
          /\ Goes(j, to)
    /\ UNCHANGED <<subs, charges, kind, sub, told, clears, begun>>

Finalize(j) == Update(j, "open", "open", "tellOpen")

TellOpen(j) == Telling(j, "tellOpen", "invoice.finalized", "open", "charge")

\* Faulty: no charge is created.
CreateNoCharge(j) ==
    /\ pc[j] = "charge"
    /\ Goes(j, "pay")
    /\ UNCHANGED <<subs, invoices, charges, kind, sub, told, clears, begun>>

CreateCharge(j) ==
    /\ pc[j] = "charge"
    /\ charges' = charges \cup {j}
    /\ Goes(j, "readCharge")
    /\ UNCHANGED <<subs, invoices, kind, sub, told, clears, begun>>

ReadCharge(j) ==
    /\ pc[j] = "readCharge"
    /\ Goes(j, IF j \in charges THEN "tellCharge" ELSE "done")
    /\ UNCHANGED <<subs, invoices, charges, kind, sub, told, clears, begun>>

\* The waterfall of a plan change announces the charge it passed to
\* CreateCharge, whose id is not the one the repository gave it.
ChargeId(j) == IF kind[j] = "invoiced" THEN None ELSE j

TellCharge(j) == Telling(j, "tellCharge", "charge.succeeded", ChargeId(j), "pay")

Pay(j) == Update(j, "pay", "paid", "tellPaid")

TellPaid(j) ==
    Telling(j, "tellPaid", "invoice.paid", "paid",
            CASE kind[j] = "lifecycle" -> "activate"
              [] kind[j] = "renewal" -> "tellRenewed"
              [] kind[j] \notin {"lifecycle", "renewal"} -> "done")

\* UpdateSubscription fails when the subscription is gone.
Activate(j) ==
    /\ pc[j] = "activate"
    /\ Goes(j, IF sub[j] \in subs THEN "tellActive" ELSE "done")
    /\ UNCHANGED <<subs, invoices, charges, kind, sub, told, clears, begun>>

TellActive(j)  == Telling(j, "tellActive", "subscription.updated", "active", "done")
TellRenewed(j) == Telling(j, "tellRenewed", "subscription.updated", "changed", "done")

\* The invoice of a checkout or a proration is created paid.
Bill(j) ==
    /\ pc[j] = "bill"
    /\ invoices' = [invoices EXCEPT ![j] = "paid"]
    /\ Goes(j, "readPaid")
    /\ UNCHANGED <<subs, charges, kind, sub, told, clears, begun>>

---------------------------------------------------------------------------

\* Faulty: invoices are forgotten.
ClearNextButInvoices ==
    /\ clears < Repositories * MaxResets
    /\ clears' = clears + 1
    /\ \/ clears % Repositories = 0 /\ subs' = {} /\ UNCHANGED <<invoices, charges>>
       \/ clears % Repositories = 1 /\ UNCHANGED <<subs, invoices, charges>>
       \/ clears % Repositories = 2 /\ charges' = {} /\ UNCHANGED <<subs, invoices>>
    /\ UNCHANGED <<kind, sub, pc, told, begun>>

\* Reset clears the subscriptions, then the invoices, then the charges.
ClearNext ==
    /\ clears < Repositories * MaxResets
    /\ clears' = clears + 1
    /\ \/ /\ clears % Repositories = 0
          /\ subs' = {}
          /\ UNCHANGED <<invoices, charges>>
       \/ /\ clears % Repositories = 1
          /\ invoices' = [j \in Jobs |-> None]
          /\ UNCHANGED <<subs, charges>>
       \/ /\ clears % Repositories = 2
          /\ charges' = {}
          /\ UNCHANGED <<subs, invoices>>
    /\ UNCHANGED <<kind, sub, pc, told, begun>>

---------------------------------------------------------------------------

Step(j) == \/ TellChange(j) \/ Fetch(j) \/ TellCreated(j)
           \/ CreateInvoice(j) \/ ReadInvoice(j) \/ TellDraft(j)
           \/ Finalize(j) \/ TellOpen(j)
           \/ CreateCharge(j) \/ ReadCharge(j) \/ TellCharge(j)
           \/ Pay(j) \/ TellPaid(j) \/ Bill(j)
           \/ Activate(j) \/ TellActive(j) \/ TellRenewed(j)

Next == \/ \E j \in Jobs, k \in Kinds, s \in Subs : Start(j, k, s)
        \/ \E j \in Jobs : Step(j)
        \/ ClearNext

Spec == Init /\ [][Next]_vars

\* Goroutines keep running.
FairSpec == Spec /\ \A j \in Jobs : WF_vars(Step(j))

---------------------------------------------------------------------------

Pcs == {"unborn", "tellChange", "fetch", "tellCreated", "draft", "readDraft",
        "tellDraft", "open", "tellOpen", "charge", "readCharge", "tellCharge",
        "pay", "tellPaid", "activate", "tellActive", "tellRenewed", "bill",
        "readPaid", "done"}

EventTypes == {"subscription.created", "subscription.updated", "invoice.created",
               "invoice.finalized", "charge.succeeded", "invoice.paid"}

\* Every variable has its type, and no goroutine bills twice.
TypeOK ==
    /\ subs \subseteq Subs
    /\ invoices \in [Jobs -> InvoiceStatuses \cup {None}]
    /\ charges \subseteq Jobs
    /\ kind \in [Jobs -> Kinds \cup {None}]
    /\ sub \in [Jobs -> Subs \cup {None}]
    /\ pc \in [Jobs -> Pcs]
    /\ \A j \in Jobs :
         /\ Len(told[j]) <= 6
         /\ \A i \in DOMAIN told[j] : told[j][i].type \in EventTypes
    /\ clears \in 0..(Repositories * MaxResets)
    /\ begun \in [Jobs -> 0..(Repositories * MaxResets)]

\* No reset has touched what j has done.
Undisturbed(j) == begun[j] = clears

Shown(j, type) == {i \in DOMAIN told[j] : told[j][i].type = type}

Rank(status) == CASE status = None    -> 0
                  [] status = "draft" -> 1
                  [] status = "open"  -> 2
                  [] status = "paid"  -> 3

(* An invoice only goes from draft to open and from open to paid, is only  *)
(* created as a draft or paid, and one that a reset cleared does not come  *)
(* back, although goroutines go on with their copies of it.                *)
InvoicesAdvance ==
    [][\A j \in Jobs : invoices'[j] # invoices[j] =>
         \/ invoices'[j] = None
         \/ /\ invoices[j] = None
            /\ invoices'[j] = IF kind[j] \in Waterfalls THEN "draft" ELSE "paid"
            /\ Shown(j, "invoice.created") = {}
         \/ invoices[j] # None /\ Rank(invoices'[j]) = Rank(invoices[j]) + 1]_vars

(* A goroutine that no reset came in the way of leaves nothing half        *)
(* billed: its invoice is stored and paid, and so is the charge that a     *)
(* waterfall takes.                                                        *)
NothingHalfBilled ==
    \A j \in Jobs : pc[j] = "done" /\ Undisturbed(j) /\ kind[j] # "uninvoiced" =>
        /\ invoices[j] = "paid"
        /\ kind[j] \in Waterfalls => j \in charges
        /\ Shown(j, "invoice.paid") # {}

(* An event never tells more than is stored: a client that reacts to it    *)
(* finds the invoice at least as far as the event said, and its charge.    *)
(* The charge of an invoiced plan change is announced with another id.     *)
EventsFollowStore ==
    \A j \in Jobs : Undisturbed(j) =>
        \A i \in DOMAIN told[j] :
            /\ told[j][i].shows \in InvoiceStatuses =>
                 Rank(told[j][i].shows) <= Rank(invoices[j])
            /\ told[j][i].type = "charge.succeeded" /\ kind[j] # "invoiced" =>
                 told[j][i].shows \in charges

\* The events of each kind of billing, as the comments on it tell them.
Story(k) ==
    LET waterfall == <<"invoice.created", "invoice.finalized", "charge.succeeded",
                       "invoice.paid">>
    IN  CASE k = "lifecycle"  -> <<"subscription.created">> \o waterfall
                                   \o <<"subscription.updated">>
          [] k = "renewal"    -> waterfall \o <<"subscription.updated">>
          [] k = "checkout"   -> <<"invoice.paid">>
          [] k = "prorated"   -> <<"subscription.updated", "invoice.paid">>
          [] k = "invoiced"   -> <<"subscription.updated">> \o waterfall
          [] k = "uninvoiced" -> <<"subscription.updated">>
          [] k = None         -> <<>>

Types(j) == [i \in DOMAIN told[j] |-> told[j][i].type]

(* Whatever resets come in between, what a goroutine announces is the      *)
(* beginning of its kind's story, and all of it if there was none.         *)
StoriesAreTold ==
    \A j \in Jobs :
        /\ IsPrefix(Types(j), Story(kind[j]))
        /\ pc[j] = "done" /\ Undisturbed(j) => Types(j) = Story(kind[j])

(* Every goroutine ends, also when its subscription or invoice is gone.    *)
JobsEnd == \A j \in Jobs : pc[j] # "unborn" ~> pc[j] = "done"

(* A reset forgets for ever what goroutines stored that had ended before   *)
(* it, whatever those that are still at work write during it and after.    *)
ResetForgets ==
    \A j \in Jobs, n \in 1..MaxResets :
        [](pc[j] = "done" /\ clears <= Repositories * (n - 1) =>
             [](clears >= Repositories * n => invoices[j] = None /\ j \notin charges))
=============================================================================
