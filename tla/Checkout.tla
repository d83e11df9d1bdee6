----------------------------- MODULE Checkout -----------------------------
(***************************************************************************)
(* Completing checkout sessions: Gateway.CompleteCheckoutSession, its      *)
(* handler and the two goroutines the handler starts.                      *)
(*                                                                         *)
(* A completion reads the session, creates a subscription when the mode    *)
(* asks for one, and saves the session: three accesses to two              *)
(* repositories with no lock around them.  One goroutine then announces    *)
(* the session, the other sleeps 100 ms, bills the subscription and        *)
(* announces the invoice.                                                  *)
(*                                                                         *)
(* A request creates at most one subscription and one invoice; they are    *)
(* named after it.                                                         *)
(***************************************************************************)
EXTENDS FiniteSets, Naturals, Sequences

CONSTANTS Requests, Sessions, None,
          MaxResets   \* bound

Modes == {"subscription", "payment"}

Session == [mode : Modes, status : {"open", "complete"}, sub : Requests \cup {None}]

ASSUME CheckoutAssumption ==
    /\ None \notin Requests \cup Sessions \cup Session
    /\ MaxResets \in Nat

VARIABLES
    sessions,  \* the sessions stored
    subs,      \* the subscriptions stored
    invoices,  \* the invoices stored
    opened,    \* the sessions ever created
    session,   \* the session each request completes,
    link,      \*   the subscription its copy of the session has,
    pc,        \*   where its handler is
    tells,     \*   and the goroutine that announces the session
    bills,     \*   and the one that bills the subscription
    told,      \* the events triggered
    clears,    \* the repositories cleared so far, three by each reset
    begun      \* how many that were when each request arrived

vars == <<sessions, subs, invoices, opened, session, link, pc, tells, bills,
          told, clears, begun>>

Repositories == 3  \* those cleared that a completion uses

Event(type, r) == [type |-> type, of |-> r]

Init == /\ sessions = [s \in Sessions |-> None]
        /\ subs = {}
        /\ invoices = {}
        /\ opened = {}
        /\ session = [r \in Requests |-> None]
        /\ link = [r \in Requests |-> None]
        /\ pc = [r \in Requests |-> "unborn"]
        /\ tells = [r \in Requests |-> "unborn"]
        /\ bills = [r \in Requests |-> "unborn"]
        /\ told = <<>>
        /\ clears = 0
        /\ begun = [r \in Requests |-> 0]

CreateSession(s, mode) ==
    /\ s \notin opened
    /\ opened' = opened \cup {s}
    /\ sessions' = [sessions EXCEPT ![s] = [mode |-> mode, status |-> "open",
                                            sub |-> None]]
    /\ UNCHANGED <<subs, invoices, session, link, pc, tells, bills, told, clears, begun>>

---------------------------------------------------------------------------
(* The handler.                                                            *)

Call(r, s) ==
    /\ pc[r] = "unborn"
    /\ s \in opened
    /\ session' = [session EXCEPT ![r] = s]
    /\ pc' = [pc EXCEPT ![r] = "read"]
    /\ begun' = [begun EXCEPT ![r] = clears]
    /\ UNCHANGED <<sessions, subs, invoices, opened, link, tells, bills, told, clears>>

\* Faulty: the status is not looked at.
ReadAnyStatus(r) ==
    LET s == sessions[session[r]]
    IN  /\ pc[r] = "read"
        /\ pc' = [pc EXCEPT ![r] = CASE s = None -> "refused"
                                     [] s # None /\ s.mode = "subscription" -> "create"
                                     [] s # None /\ s.mode = "payment" -> "save"]
        /\ UNCHANGED <<sessions, subs, invoices, opened, session, link, tells,
                       bills, told, clears, begun>>

\* The session is refused when it is not there or not open.
Read(r) ==
    LET s == sessions[session[r]]
        completes == s # None /\ s.status = "open"
    IN  /\ pc[r] = "read"
        /\ pc' = [pc EXCEPT ![r] =
                    CASE ~completes -> "refused"
                      [] completes /\ s.mode = "subscription" -> "create"
                      [] completes /\ s.mode = "payment" -> "save"]
        /\ UNCHANGED <<sessions, subs, invoices, opened, session, link, tells,
                       bills, told, clears, begun>>

CreateSubscription(r) ==
    /\ pc[r] = "create"
    /\ subs' = subs \cup {r}
    /\ pc' = [pc EXCEPT ![r] = "readSub"]
    /\ UNCHANGED <<sessions, invoices, opened, session, link, tells, bills,
                   told, clears, begun>>

\* Faulty: the session is never linked.
ReadSubscriptionOnly(r) ==
    /\ pc[r] = "readSub"
    /\ pc' = [pc EXCEPT ![r] = "save"]
    /\ UNCHANGED <<sessions, subs, invoices, opened, session, link, tells, bills,
                   told, clears, begun>>

\* When the subscription cannot be read back, the session is completed
\* without one.
ReadSubscription(r) ==
    /\ pc[r] = "readSub"
    /\ link' = [link EXCEPT ![r] = IF r \in subs THEN r ELSE None]
    /\ pc' = [pc EXCEPT ![r] = "save"]
    /\ UNCHANGED <<sessions, subs, invoices, opened, session, tells, bills,
                   told, clears, begun>>

\* Faulty: a session that brings a subscription only has its invoice announced.
StartsOne(r) ==
    /\ tells' = [tells EXCEPT ![r] = IF link[r] # None THEN "done" ELSE "tell"]
    /\ bills' = [bills EXCEPT ![r] = IF link[r] # None THEN "sleep" ELSE "done"]

\* Starts the goroutines of a completion.
Starts(r) ==
    /\ tells' = [tells EXCEPT ![r] = "tell"]
    /\ bills' = [bills EXCEPT ![r] = IF link[r] # None THEN "sleep" ELSE "done"]

\* Faulty: a session that is gone is announced and billed all the same.
SaveInAnyCase(r) ==
    LET s == session[r]
    IN  /\ pc[r] = "save"
        /\ sessions' = IF sessions[s] = None THEN sessions
                       ELSE [sessions EXCEPT ![s].status = "complete",
                                             ![s].sub = link[r]]
        /\ Starts(r)
        /\ pc' = [pc EXCEPT ![r] = IF sessions[s] = None THEN "refused"
                                   ELSE "completed"]
        /\ UNCHANGED <<subs, invoices, opened, session, link, told, clears, begun>>

\* The session is written back as it was read, but complete and linked.
Save(r) ==
    LET s == session[r]
    IN  /\ pc[r] = "save"
        /\ \/ /\ sessions[s] = None
              /\ pc' = [pc EXCEPT ![r] = "refused"]
              /\ UNCHANGED <<sessions, tells, bills>>
           \/ /\ sessions[s] # None
              /\ sessions' = [sessions EXCEPT ![s] =
                    [mode |-> @.mode, status |-> "complete", sub |-> link[r]]]
              /\ Starts(r)
              /\ pc' = [pc EXCEPT ![r] = "completed"]
        /\ UNCHANGED <<subs, invoices, opened, session, link, told, clears, begun>>

---------------------------------------------------------------------------
(* The goroutines.                                                         *)

TellCompleted(r) ==
    /\ tells[r] = "tell"
    /\ told' = Append(told, Event("checkout.session.completed", r))
    /\ tells' = [tells EXCEPT ![r] = "done"]
    /\ UNCHANGED <<sessions, subs, invoices, opened, session, link, pc, bills,
                   clears, begun>>

Bills(r, from, to) == bills[r] = from /\ bills' = [bills EXCEPT ![r] = to]

\* The sleep may end before the other goroutine has run.
FetchSubscription(r) ==
    /\ Bills(r, "sleep", IF link[r] \in subs THEN "bill" ELSE "done")
    /\ UNCHANGED <<sessions, subs, invoices, opened, session, link, pc, tells,
                   told, clears, begun>>

CreateInvoice(r) ==
    /\ Bills(r, "bill", "readInvoice")
    /\ invoices' = invoices \cup {r}
    /\ UNCHANGED <<sessions, subs, opened, session, link, pc, tells, told, clears,
                   begun>>

\* Faulty: nothing is announced.
ReadInvoiceOnly(r) ==
    /\ Bills(r, "readInvoice", "done")
    /\ UNCHANGED <<sessions, subs, invoices, opened, session, link, pc, tells,
                   told, clears, begun>>

ReadInvoice(r) ==
    /\ Bills(r, "readInvoice", IF r \in invoices THEN "tell" ELSE "done")
    /\ UNCHANGED <<sessions, subs, invoices, opened, session, link, pc, tells,
                   told, clears, begun>>

TellPaid(r) ==
    /\ Bills(r, "tell", "done")
    /\ told' = Append(told, Event("invoice.paid", r))
    /\ UNCHANGED <<sessions, subs, invoices, opened, session, link, pc, tells,
                   clears, begun>>

---------------------------------------------------------------------------

\* Reset clears the subscriptions, then the invoices, then the sessions.
ClearNext ==
    /\ clears < Repositories * MaxResets
    /\ clears' = clears + 1
    /\ CASE clears % Repositories = 0 -> subs' = {} /\ UNCHANGED <<invoices, sessions>>
         [] clears % Repositories = 1 -> invoices' = {} /\ UNCHANGED <<subs, sessions>>
         [] clears % Repositories = 2 -> /\ sessions' = [s \in Sessions |-> None]
                                         /\ UNCHANGED <<subs, invoices>>
    /\ UNCHANGED <<opened, session, link, pc, tells, bills, told, begun>>

Handler(r) == \/ Read(r) \/ CreateSubscription(r) \/ ReadSubscription(r) \/ Save(r)

Biller(r) == \/ FetchSubscription(r) \/ CreateInvoice(r) \/ ReadInvoice(r)
             \/ TellPaid(r)

Work(r) == Handler(r) \/ TellCompleted(r) \/ Biller(r)

Next == \/ \E s \in Sessions, m \in Modes : CreateSession(s, m)
        \/ \E r \in Requests, s \in Sessions : Call(r, s)
        \/ \E r \in Requests : Work(r)
        \/ ClearNext

Spec == Init /\ [][Next]_vars

\* Handlers and goroutines keep running.
FairSpec == /\ Spec
            /\ \A r \in Requests : /\ WF_vars(Handler(r))
                                   /\ WF_vars(TellCompleted(r))
                                   /\ WF_vars(Biller(r))

---------------------------------------------------------------------------

Undisturbed(r) == begun[r] = clears

Told(type, r) == \E i \in DOMAIN told : told[i] = Event(type, r)

\* Every variable has its type, and each goroutine triggers one event at most.
TypeOK ==
    /\ sessions \in [Sessions -> Session \cup {None}]
    /\ subs \subseteq Requests /\ invoices \subseteq Requests
    /\ opened \subseteq Sessions
    /\ session \in [Requests -> Sessions \cup {None}]
    /\ link \in [Requests -> Requests \cup {None}]
    /\ pc \in [Requests -> {"unborn", "read", "create", "readSub", "save",
                            "refused", "completed"}]
    /\ tells \in [Requests -> {"unborn", "tell", "done"}]
    /\ bills \in [Requests -> {"unborn", "sleep", "bill", "readInvoice", "tell", "done"}]
    /\ told \in Seq([type : {"checkout.session.completed", "invoice.paid"},
                     of : Requests])
    /\ \A m, n \in DOMAIN told : told[m] = told[n] => m = n
    /\ clears \in 0..(Repositories * MaxResets)
    /\ begun \in [Requests -> 0..(Repositories * MaxResets)]

(* A completion that was answered with an error announces nothing and      *)
(* bills nothing, at whatever access it failed.                            *)
RefusedStaysSilent ==
    \A r \in Requests : pc[r] = "refused" =>
        /\ tells[r] = "unborn" /\ bills[r] = "unborn"
        /\ r \notin invoices
        /\ ~Told("checkout.session.completed", r) /\ ~Told("invoice.paid", r)

(* What a stored session links to is a subscription, unless a reset came   *)
(* between: also of a session that several requests complete at once.      *)
LinksLead ==
    \A s \in Sessions : sessions[s] # None =>
        LET r == sessions[s].sub
        IN  /\ sessions[s].status = "open" => r = None
            /\ r # None => /\ session[r] = s
                           /\ pc[r] = "completed"
                           /\ Undisturbed(r) => r \in subs
            /\ sessions[s].status = "complete" /\ sessions[s].mode = "subscription"
                 => r # None \/ clears > 0

(* Every completion a client was told of is announced.                     *)
CompletionIsAnnounced ==
    \A r \in Requests :
        pc[r] = "completed" ~> Told("checkout.session.completed", r)

(* Every subscription bought in a checkout is billed and its invoice       *)
(* announced, unless a reset intervenes.                                   *)
PurchaseIsBilled ==
    \A r \in Requests :
        pc[r] = "completed" /\ link[r] # None ~>
            Told("invoice.paid", r) \/ ~Undisturbed(r)

(* Once a completion was answered, a request that arrives later neither    *)
(* completes the session again nor creates a subscription, also when a     *)
(* third request or a reset is at work on the session.                     *)
CompletionIsFinal ==
    \A r, q \in Requests :
        [](pc[r] = "completed" /\ pc[q] = "unborn" =>
             [](session[q] = session[r] => pc[q] # "completed" /\ q \notin subs))

(* A session is completed once: it brings one subscription, the one it     *)
(* links to.                                                               *)
OneSubscription ==
    \A s \in Sessions :
        LET bought == {r \in subs : session[r] = s /\ pc[r] \in {"refused", "completed"}}
        IN  /\ Cardinality(bought) <= 1
            /\ clears = 0 => \A r \in bought : sessions[s].sub = r
=============================================================================
