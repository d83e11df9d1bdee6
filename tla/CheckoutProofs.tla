--------------------------- MODULE CheckoutProofs ---------------------------
(***************************************************************************)
(* Proofs about Checkout, for any number of requests, sessions and resets. *)
(***************************************************************************)
EXTENDS Checkout, FiniteSetTheorems, TLAPS

EventTypes == {"checkout.session.completed", "invoice.paid"}

\* What TypeOK says of each variable.
Types ==
    /\ sessions \in [Sessions -> Session \cup {None}]
    /\ subs \subseteq Requests /\ invoices \subseteq Requests
    /\ opened \subseteq Sessions
    /\ session \in [Requests -> Sessions \cup {None}]
    /\ link \in [Requests -> Requests \cup {None}]
    /\ pc \in [Requests -> {"unborn", "read", "create", "readSub", "save",
                            "refused", "completed"}]
    /\ tells \in [Requests -> {"unborn", "tell", "done"}]
    /\ bills \in [Requests -> {"unborn", "sleep", "bill", "readInvoice", "tell", "done"}]
    /\ told \in Seq([type : EventTypes, of : Requests])
    /\ clears \in Nat
    /\ clears <= Repositories * MaxResets
    /\ begun \in [Requests -> Nat]
    /\ \A r \in Requests : begun[r] <= clears

\* A request has a session, and a session exists or a reset took it.
Called(r) ==
    /\ pc[r] = "unborn" => session[r] = None /\ r \notin subs
    /\ pc[r] # "unborn" => session[r] \in opened
    /\ pc[r] \in {"read", "create"} => r \notin subs

\* Only a completed request has goroutines, and an event or an invoice is
\* theirs.
Silent(r) ==
    /\ pc[r] # "completed" => tells[r] = "unborn" /\ bills[r] = "unborn"
    /\ bills[r] = "unborn" => r \notin invoices
    /\ tells[r] # "done" => ~Told("checkout.session.completed", r)
    /\ bills[r] # "done" => ~Told("invoice.paid", r)

\* A request links to its own subscription, which it has created.
Linked(r) ==
    /\ link[r] \in {None, r}
    /\ pc[r] = "readSub" /\ Undisturbed(r) => r \in subs
    /\ link[r] # None => /\ pc[r] \in {"save", "completed", "refused"}
                         /\ Undisturbed(r) => r \in subs

\* Who is about to save a session of mode subscription has one to link to.
Saving(r) ==
    pc[r] = "save" /\ sessions[session[r]] # None
      /\ sessions[session[r]].mode = "subscription"
      => link[r] = r \/ clears > 0

\* A session that a request has completed is complete or gone.
Closed(r) ==
    pc[r] = "completed" =>
        \/ sessions[session[r]] = None
        \/ sessions[session[r]].status = "complete"

Unopened == \A s \in Sessions : s \notin opened => sessions[s] = None

EventsDiffer == \A m, n \in DOMAIN told : told[m] = told[n] => m = n

RequestInv(r) == Called(r) /\ Silent(r) /\ Linked(r) /\ Saving(r) /\ Closed(r)

IInv == /\ Types /\ Unopened /\ EventsDiffer
        /\ \A r \in Requests : RequestInv(r)
        /\ LinksLead

---------------------------------------------------------------------------
(* What the actions do whose definitions the provers cannot read at once.  *)

LEMMA ReadEffect ==
    ASSUME Types, NEW r \in Requests, Called(r), Read(r)
    PROVE  /\ pc[r] = "read"
           /\ UNCHANGED <<sessions, subs, invoices, opened, session, link, tells,
                          bills, told, clears, begun>>
           /\ \/ pc' = [pc EXCEPT ![r] = "refused"]
              \/ /\ pc' = [pc EXCEPT ![r] = "create"]
                 /\ sessions[session[r]] # None
                 /\ sessions[session[r]].status = "open"
              \/ /\ pc' = [pc EXCEPT ![r] = "save"]
                 /\ sessions[session[r]] # None
                 /\ sessions[session[r]].status = "open"
                 /\ sessions[session[r]].mode = "payment"
<1>1. session[r] \in Sessions
  BY DEF Read, Called, Types
<1>2. sessions[session[r]] # None => sessions[session[r]].mode \in Modes
  BY <1>1 DEF Types, Session
<1>3. QED
  BY <1>1, <1>2 DEF Read, Modes

LEMMA SaveEffect ==
    ASSUME Types, NEW r \in Requests, Called(r), Save(r)
    PROVE  /\ pc[r] = "save"
           /\ session[r] \in Sessions
           /\ UNCHANGED <<subs, invoices, opened, session, link, told, clears, begun>>
           /\ \/ /\ pc' = [pc EXCEPT ![r] = "refused"]
                 /\ UNCHANGED <<sessions, tells, bills>>
              \/ /\ pc' = [pc EXCEPT ![r] = "completed"]
                 /\ sessions[session[r]] # None
                 /\ sessions[session[r]] \in Session
                 /\ sessions' = [sessions EXCEPT ![session[r]] =
                                   [mode |-> sessions[session[r]].mode,
                                    status |-> "complete", sub |-> link[r]]]
                 /\ tells' = [tells EXCEPT ![r] = "tell"]
                 /\ bills' = [bills EXCEPT ![r] =
                                IF link[r] # None THEN "sleep" ELSE "done"]
<1> DEFINE s == session[r]
<1>1. s \in Sessions
  BY DEF Save, Called, Types
<1>2. CASE sessions[s] = None
  BY <1>1, <1>2 DEF Save
<1>3. CASE sessions[s] # None
  <2>1. sessions[s] \in Session
    BY <1>1, <1>3 DEF Types
  <2>2. QED
    BY <1>1, <1>3, <2>1 DEF Save, Starts
<1>4. QED
  BY <1>2, <1>3

LEMMA ClearEffect ==
    ASSUME Types, ClearNext
    PROVE  /\ clears' = clears + 1
           /\ clears' <= Repositories * MaxResets
           /\ subs' \subseteq subs
           /\ invoices' \subseteq invoices
           /\ \/ sessions' = sessions
              \/ sessions' = [s \in Sessions |-> None]
           /\ UNCHANGED <<opened, session, link, pc, tells, bills, told, begun>>
<1>1. clears % 3 = 0 \/ clears % 3 = 1 \/ clears % 3 = 2
  BY DEF Types
<1>2. /\ clears' = clears + 1
      /\ clears' <= Repositories * MaxResets
      /\ UNCHANGED <<opened, session, link, pc, tells, bills, told, begun>>
  BY CheckoutAssumption DEF ClearNext, Repositories, Types
<1>3. /\ subs' \subseteq subs
      /\ invoices' \subseteq invoices
      /\ \/ sessions' = sessions
         \/ sessions' = [s \in Sessions |-> None]
  BY <1>1 DEF ClearNext, Repositories
<1>4. QED
  BY <1>2, <1>3 DEF Types

---------------------------------------------------------------------------

LEMMA TypesKept ==
    ASSUME Types, \A r \in Requests : Called(r), [Next]_vars
    PROVE  Types'
<1> USE CheckoutAssumption DEF Types, EventTypes
<1>1. ASSUME NEW s \in Sessions, NEW m \in Modes, CreateSession(s, m)
      PROVE  Types'
  BY <1>1 DEF CreateSession, Session, Modes
<1>2. ASSUME NEW r \in Requests, NEW s \in Sessions, Call(r, s)
      PROVE  Types'
  BY <1>2 DEF Call
<1>3. ASSUME NEW r \in Requests, Work(r)
      PROVE  Types'
  <2>1. CASE Read(r)
    <3>1. \E l \in {"refused", "create", "save"} : pc' = [pc EXCEPT ![r] = l]
      BY <2>1, ReadEffect
    <3>2. UNCHANGED <<sessions, subs, invoices, opened, session, link, tells, bills,
                      told, clears, begun>>
      BY <2>1, ReadEffect
    <3>3. QED
      BY <3>1, <3>2
  <2>2. CASE CreateSubscription(r)
    BY <2>2 DEF CreateSubscription
  <2>3. CASE ReadSubscription(r)
    BY <2>3 DEF ReadSubscription
  <2>4. CASE Save(r)
    <3>1. UNCHANGED <<subs, invoices, opened, session, link, told, clears, begun>>
      BY <2>4, SaveEffect
    <3>2. pc' \in [Requests -> {"unborn", "read", "create", "readSub", "save",
                                "refused", "completed"}]
      BY <2>4, SaveEffect
    <3>3. sessions' \in [Sessions -> Session \cup {None}]
      <4>1. ASSUME NEW old \in Session
            PROVE  [mode |-> old.mode, status |-> "complete", sub |-> link[r]] \in Session
        BY DEF Session
      <4>2. session[r] \in Sessions
        BY <2>4, SaveEffect
      <4>3. QED
        <5>1. sessions' = sessions
                \/ \E new \in Session : sessions' = [sessions EXCEPT ![session[r]] = new]
          BY <2>4, <4>1, <4>2, SaveEffect
        <5>2. QED
          BY <4>2, <5>1
    <3>4. tells' \in [Requests -> {"unborn", "tell", "done"}]
      BY <2>4, SaveEffect
    <3>5. bills' \in [Requests -> {"unborn", "sleep", "bill", "readInvoice", "tell",
                                   "done"}]
      BY <2>4, SaveEffect
    <3>6. QED
      BY <3>1, <3>2, <3>3, <3>4, <3>5
  <2>5. CASE TellCompleted(r)
    BY <2>5 DEF TellCompleted, Event
  <2>6. CASE FetchSubscription(r)
    BY <2>6 DEF FetchSubscription, Bills
  <2>7. CASE CreateInvoice(r)
    BY <2>7 DEF CreateInvoice, Bills
  <2>8. CASE ReadInvoice(r)
    BY <2>8 DEF ReadInvoice, Bills
  <2>9. CASE TellPaid(r)
    BY <2>9 DEF TellPaid, Bills, Event
  <2>10. QED
    BY <1>3, <2>1, <2>2, <2>3, <2>4, <2>5, <2>6, <2>7, <2>8, <2>9
       DEF Work, Handler, Biller
<1>4. ASSUME ClearNext
      PROVE  Types'
  BY <1>4, ClearEffect
<1>5. CASE UNCHANGED vars
  BY <1>5 DEF vars
<1>6. QED
  BY <1>1, <1>2, <1>3, <1>4, <1>5 DEF Next

---------------------------------------------------------------------------
(* The inductive step.                                                     *)

LEMMA InvInit == Init => IInv
<1> SUFFICES ASSUME Init PROVE IInv
  OBVIOUS
<1> USE CheckoutAssumption DEF Init
<1>1. Types
  BY DEF Types, Repositories
<1>2. Unopened /\ EventsDiffer /\ LinksLead
  BY DEF Unopened, EventsDiffer, LinksLead
<1>3. ASSUME NEW r \in Requests PROVE RequestInv(r)
  BY <1>3 DEF RequestInv, Called, Silent, Linked, Saving, Closed, Told, Undisturbed
<1>4. QED
  BY <1>1, <1>2, <1>3 DEF IInv

\* All but the types.
Rest == /\ Unopened /\ EventsDiffer
        /\ \A r \in Requests : RequestInv(r)
        /\ LinksLead

LEMMA CreateSessionKeeps ==
    ASSUME IInv, Types', NEW s \in Sessions, NEW m \in Modes, CreateSession(s, m)
    PROVE  Rest'
<1> USE CheckoutAssumption DEF CreateSession
<1>1. Types /\ (\A r \in Requests : RequestInv(r)) /\ Unopened /\ EventsDiffer /\ LinksLead
  BY DEF IInv
<1>2. Unopened' /\ EventsDiffer'
  BY <1>1 DEF Unopened, EventsDiffer, Types
<1>3. ASSUME NEW q \in Requests PROVE RequestInv(q)'
  <2>1. Called(q)' /\ Silent(q)' /\ Linked(q)'
    BY <1>1, <1>3 DEF RequestInv, Called, Silent, Linked, Told, Undisturbed, Types
  <2>2. pc[q] # "unborn" => session[q] # s
    BY <1>1, <1>3 DEF RequestInv, Called
  <2>3. Saving(q)' /\ Closed(q)'
    BY <1>1, <1>3, <2>2 DEF RequestInv, Saving, Closed, Types, Called
  <2>4. QED
    BY <2>1, <2>3 DEF RequestInv
<1>4. LinksLead'
  BY <1>1 DEF LinksLead, Types, Undisturbed
<1>5. QED
  BY <1>2, <1>3, <1>4 DEF Rest

LEMMA CallKeeps ==
    ASSUME IInv, Types', NEW r \in Requests, NEW s \in Sessions, Call(r, s)
    PROVE  Rest'
<1> USE CheckoutAssumption DEF Call
<1>1. Types /\ (\A q \in Requests : RequestInv(q)) /\ Unopened /\ EventsDiffer /\ LinksLead
  BY DEF IInv
<1>2. Unopened' /\ EventsDiffer'
  BY <1>1 DEF Unopened, EventsDiffer
<1>3. ASSUME NEW q \in Requests PROVE RequestInv(q)'
  BY <1>1, <1>3 DEF RequestInv, Called, Silent, Linked, Saving, Closed, Told,
                    Undisturbed, Types
<1>4. LinksLead'
  BY <1>1 DEF LinksLead, Types, Undisturbed, Session
<1>5. QED
  BY <1>2, <1>3, <1>4 DEF Rest

LEMMA CreateSubscriptionKeeps ==
    ASSUME IInv, Types', NEW r \in Requests, CreateSubscription(r)
    PROVE  Rest'
<1> USE CheckoutAssumption DEF CreateSubscription
<1>1. Types /\ (\A q \in Requests : RequestInv(q)) /\ Unopened /\ EventsDiffer /\ LinksLead
  BY DEF IInv
<1>2. Unopened' /\ EventsDiffer'
  BY <1>1 DEF Unopened, EventsDiffer, Types, RequestInv, Called
<1>3. ASSUME NEW q \in Requests PROVE RequestInv(q)'
  BY <1>1, <1>3 DEF RequestInv, Called, Silent, Linked, Saving, Closed, Told,
                    Undisturbed, Types
<1>4. LinksLead'
  BY <1>1 DEF LinksLead, Types, Undisturbed, Session, RequestInv, Linked
<1>5. QED
  BY <1>2, <1>3, <1>4 DEF Rest

LEMMA ReadSubscriptionKeeps ==
    ASSUME IInv, Types', NEW r \in Requests, ReadSubscription(r)
    PROVE  Rest'
<1> USE CheckoutAssumption DEF ReadSubscription
<1>1. Types /\ (\A q \in Requests : RequestInv(q)) /\ Unopened /\ EventsDiffer /\ LinksLead
  BY DEF IInv
<1>2. Unopened' /\ EventsDiffer'
  BY <1>1 DEF Unopened, EventsDiffer, Types, RequestInv, Called
<1>3. ASSUME NEW q \in Requests PROVE RequestInv(q)'
  BY <1>1, <1>3 DEF RequestInv, Called, Silent, Linked, Saving, Closed, Told,
                    Undisturbed, Types
<1>4. LinksLead'
  BY <1>1 DEF LinksLead, Types, Undisturbed, Session, RequestInv, Linked
<1>5. QED
  BY <1>2, <1>3, <1>4 DEF Rest

LEMMA FetchSubscriptionKeeps ==
    ASSUME IInv, Types', NEW r \in Requests, FetchSubscription(r)
    PROVE  Rest'
<1> USE CheckoutAssumption DEF FetchSubscription, Bills
<1>1. Types /\ (\A q \in Requests : RequestInv(q)) /\ Unopened /\ EventsDiffer /\ LinksLead
  BY DEF IInv
<1>2. Unopened' /\ EventsDiffer'
  BY <1>1 DEF Unopened, EventsDiffer, Types, RequestInv, Called
<1>3. ASSUME NEW q \in Requests PROVE RequestInv(q)'
  BY <1>1, <1>3 DEF RequestInv, Called, Silent, Linked, Saving, Closed, Told,
                    Undisturbed, Types
<1>4. LinksLead'
  BY <1>1 DEF LinksLead, Types, Undisturbed, Session, RequestInv, Linked
<1>5. QED
  BY <1>2, <1>3, <1>4 DEF Rest

LEMMA CreateInvoiceKeeps ==
    ASSUME IInv, Types', NEW r \in Requests, CreateInvoice(r)
    PROVE  Rest'
<1> USE CheckoutAssumption DEF CreateInvoice, Bills
<1>1. Types /\ (\A q \in Requests : RequestInv(q)) /\ Unopened /\ EventsDiffer /\ LinksLead
  BY DEF IInv
<1>2. Unopened' /\ EventsDiffer'
  BY <1>1 DEF Unopened, EventsDiffer, Types, RequestInv, Called
<1>3. ASSUME NEW q \in Requests PROVE RequestInv(q)'
  BY <1>1, <1>3 DEF RequestInv, Called, Silent, Linked, Saving, Closed, Told,
                    Undisturbed, Types
<1>4. LinksLead'
  BY <1>1 DEF LinksLead, Types, Undisturbed, Session, RequestInv, Linked
<1>5. QED
  BY <1>2, <1>3, <1>4 DEF Rest

LEMMA ReadInvoiceKeeps ==
    ASSUME IInv, Types', NEW r \in Requests, ReadInvoice(r)
    PROVE  Rest'
<1> USE CheckoutAssumption DEF ReadInvoice, Bills
<1>1. Types /\ (\A q \in Requests : RequestInv(q)) /\ Unopened /\ EventsDiffer /\ LinksLead
  BY DEF IInv
<1>2. Unopened' /\ EventsDiffer'
  BY <1>1 DEF Unopened, EventsDiffer, Types, RequestInv, Called
<1>3. ASSUME NEW q \in Requests PROVE RequestInv(q)'
  BY <1>1, <1>3 DEF RequestInv, Called, Silent, Linked, Saving, Closed, Told,
                    Undisturbed, Types
<1>4. LinksLead'
  BY <1>1 DEF LinksLead, Types, Undisturbed, Session, RequestInv, Linked
<1>5. QED
  BY <1>2, <1>3, <1>4 DEF Rest

LEMMA ReadKeeps ==
    ASSUME IInv, Types', NEW r \in Requests, Read(r)
    PROVE  Rest'
<1> USE CheckoutAssumption
<1>1. Types /\ (\A q \in Requests : RequestInv(q)) /\ Unopened /\ EventsDiffer /\ LinksLead
  BY DEF IInv
<1>2. Called(r)
  BY <1>1 DEF RequestInv
<1>3. /\ pc[r] = "read"
      /\ UNCHANGED <<sessions, subs, invoices, opened, session, link, tells, bills,
                     told, clears, begun>>
  BY <1>1, <1>2, ReadEffect
<1>4. PICK l \in {"refused", "create", "save"} :
        /\ pc' = [pc EXCEPT ![r] = l]
        /\ l = "save" => sessions[session[r]].mode = "payment"
  BY <1>1, <1>2, ReadEffect
<1>5. Unopened' /\ EventsDiffer'
  BY <1>1, <1>3 DEF Unopened, EventsDiffer
<1>6. ASSUME NEW q \in Requests PROVE RequestInv(q)'
  <2>1. pc[q] # "read" => pc'[q] = pc[q]
    BY <1>1, <1>3, <1>4, <1>6 DEF Types
  <2>2. pc[q] = "read" => \/ pc'[q] \in {"read", "refused", "create"}
                          \/ pc'[q] = "save" /\ sessions[session[q]].mode = "payment"
    BY <1>1, <1>4, <1>6 DEF Types
  <2>3. Called(q)' /\ Silent(q)' /\ Linked(q)' /\ Closed(q)'
    BY <1>1, <1>3, <1>6, <2>1, <2>2
       DEF RequestInv, Called, Silent, Linked, Closed, Told, Undisturbed
  <2>4. Saving(q)'
    BY <1>1, <1>3, <1>6, <2>1, <2>2 DEF RequestInv, Saving
  <2>5. QED
    BY <2>3, <2>4 DEF RequestInv
<1>7. LinksLead'
  <2>1. \A q \in Requests : pc[q] = "completed" => pc'[q] = "completed"
    BY <1>1, <1>3, <1>4 DEF Types
  <2>2. QED
    BY <1>1, <1>3, <2>1 DEF LinksLead, Types, Undisturbed, Session
<1>8. QED
  BY <1>5, <1>6, <1>7 DEF Rest

LEMMA SaveKeeps ==
    ASSUME IInv, Types', NEW r \in Requests, Save(r)
    PROVE  Rest'
<1> USE CheckoutAssumption
<1>1. Types /\ (\A q \in Requests : RequestInv(q)) /\ Unopened /\ EventsDiffer /\ LinksLead
  BY DEF IInv
<1>2. Called(r)
  BY <1>1 DEF RequestInv
<1>3. /\ pc[r] = "save" /\ session[r] \in Sessions
      /\ UNCHANGED <<subs, invoices, opened, session, link, told, clears, begun>>
  BY <1>1, <1>2, SaveEffect
<1>4. CASE /\ pc' = [pc EXCEPT ![r] = "refused"]
           /\ UNCHANGED <<sessions, tells, bills>>
  <2>1. Unopened' /\ EventsDiffer'
    BY <1>1, <1>3, <1>4 DEF Unopened, EventsDiffer
  <2>2. ASSUME NEW q \in Requests PROVE RequestInv(q)'
    BY <1>1, <1>3, <1>4, <2>2 DEF RequestInv, Called, Silent, Linked, Saving, Closed,
                                  Told, Undisturbed, Types
  <2>3. LinksLead'
    <3>1. \A q \in Requests : pc[q] = "completed" => pc'[q] = "completed"
      BY <1>1, <1>3, <1>4 DEF Types
    <3>2. QED
      BY <1>1, <1>3, <1>4, <3>1 DEF LinksLead, Types, Undisturbed, Session
  <2>4. QED
    BY <2>1, <2>2, <2>3 DEF Rest
<1>5. CASE /\ pc' = [pc EXCEPT ![r] = "completed"]
           /\ sessions[session[r]] # None
           /\ sessions[session[r]] \in Session
           /\ sessions' = [sessions EXCEPT ![session[r]] =
                             [mode |-> sessions[session[r]].mode,
                              status |-> "complete", sub |-> link[r]]]
           /\ tells' = [tells EXCEPT ![r] = "tell"]
           /\ bills' = [bills EXCEPT ![r] = IF link[r] # None THEN "sleep" ELSE "done"]
  <2> DEFINE s == session[r]
  <2>1. /\ sessions'[s].mode = sessions[s].mode
        /\ sessions'[s].status = "complete"
        /\ sessions'[s].sub = link[r]
        /\ \A t \in Sessions : t # s => sessions'[t] = sessions[t]
    BY <1>1, <1>3, <1>5 DEF Types
  <2>2. /\ pc'[r] = "completed" /\ tells'[r] = "tell" /\ bills'[r] \in {"sleep", "done"}
        /\ \A q \in Requests \ {r} :
              pc'[q] = pc[q] /\ tells'[q] = tells[q] /\ bills'[q] = bills[q]
    BY <1>1, <1>5 DEF Types
  <2>3. tells[r] = "unborn" /\ bills[r] = "unborn" /\ s \in opened
    BY <1>1, <1>3 DEF RequestInv, Silent, Called
  <2>4. Unopened' /\ EventsDiffer'
    BY <1>1, <1>3, <2>1, <2>3 DEF Unopened, EventsDiffer
  <2>5. ASSUME NEW q \in Requests PROVE RequestInv(q)'
    <3>1. RequestInv(q)
      BY <1>1, <2>5
    <3>2. Called(q)' /\ Linked(q)'
      BY <1>3, <2>2, <2>5, <3>1 DEF RequestInv, Called, Linked, Undisturbed
    <3>3. Silent(q)'
      BY <1>3, <2>2, <2>3, <2>5, <3>1 DEF RequestInv, Silent, Told
    <3>4. session[q] \in Sessions /\ session[q] # s => sessions'[session[q]] = sessions[session[q]]
      BY <2>1
    <3>5. Saving(q)'
      <4>1. CASE q = r
        BY <2>2, <4>1 DEF Saving
      <4>2. CASE q # r /\ pc[q] = "save"
        <5>1. session[q] \in Sessions /\ session'[q] = session[q]
          BY <1>1, <1>3, <2>5, <3>1, <4>2 DEF RequestInv, Called, Types
        <5>2. sessions'[session[q]].mode = sessions[session[q]].mode
          BY <2>1, <3>4, <5>1
        <5>3. sessions[session[q]] # None
              \/ sessions'[session[q]] = sessions[session[q]]
          BY <1>5, <3>4, <5>1
        <5>4. Saving(q)
          BY <3>1 DEF RequestInv
        <5>5. QED
          BY <1>3, <5>1, <5>2, <5>3, <5>4, <4>2 DEF Saving
      <4>3. CASE q # r /\ pc[q] # "save"
        BY <2>2, <4>3 DEF Saving
      <4>4. QED
        BY <4>1, <4>2, <4>3
    <3>6. Closed(q)'
      BY <1>1, <1>3, <2>1, <2>2, <2>5, <3>1, <3>4 DEF RequestInv, Closed, Called, Types
    <3>7. QED
      BY <3>2, <3>3, <3>5, <3>6 DEF RequestInv
  <2>6. LinksLead'
    <3>1. Linked(r) /\ Saving(r)
      BY <1>1 DEF RequestInv
    <3>2. link[r] # None => link[r] = r /\ (Undisturbed(r) => r \in subs)
      BY <3>1 DEF Linked
    <3>3. sessions[s].mode = "subscription" => link[r] # None \/ clears > 0
      BY <1>3, <1>5, <3>1, CheckoutAssumption DEF Saving
    <3>4. \A q \in Requests : pc[q] = "completed" => pc'[q] = "completed"
      BY <2>2
    <3>5. QED
      BY <1>1, <1>3, <2>1, <2>2, <3>2, <3>3, <3>4 DEF LinksLead, Types, Undisturbed, Session
  <2>7. QED
    BY <2>4, <2>5, <2>6 DEF Rest
<1>6. QED
  BY <1>1, <1>2, <1>4, <1>5, SaveEffect

\* Appending an event that was not there keeps the events different.
LEMMA NewEvent ==
    ASSUME EventsDiffer, NEW type \in EventTypes, NEW r \in Requests,
           told \in Seq([type : EventTypes, of : Requests]),
           ~Told(type, r), told' = Append(told, Event(type, r))
    PROVE  /\ EventsDiffer'
           /\ \A t \in EventTypes, q \in Requests :
                 Told(t, q)' => Told(t, q) \/ (t = type /\ q = r)
<1>1. /\ Len(told) \in Nat /\ DOMAIN told = 1..Len(told)
      /\ DOMAIN told' = 1..(Len(told) + 1)
      /\ \A i \in DOMAIN told : told'[i] = told[i]
      /\ told'[Len(told) + 1] = Event(type, r)
  OBVIOUS
<1>2. \A i \in DOMAIN told : told[i] # Event(type, r)
  BY DEF Told
<1>3. EventsDiffer'
  BY <1>1, <1>2 DEF EventsDiffer
<1>4. ASSUME NEW t \in EventTypes, NEW q \in Requests, Told(t, q)'
      PROVE  Told(t, q) \/ (t = type /\ q = r)
  <2>1. PICK i \in 1..(Len(told) + 1) : told'[i] = Event(t, q)
    BY <1>1, <1>4 DEF Told
  <2>2. CASE i \in DOMAIN told
    BY <1>1, <2>1, <2>2 DEF Told
  <2>3. CASE i = Len(told) + 1
    BY <1>1, <2>1, <2>3 DEF Event
  <2>4. QED
    BY <1>1, <2>1, <2>2, <2>3
<1>5. QED
  BY <1>3, <1>4

LEMMA TellCompletedKeeps ==
    ASSUME IInv, Types', NEW r \in Requests, TellCompleted(r)
    PROVE  Rest'
<1> USE CheckoutAssumption DEF TellCompleted
<1>1. Types /\ (\A q \in Requests : RequestInv(q)) /\ Unopened /\ EventsDiffer /\ LinksLead
  BY DEF IInv
<1>2. ~Told("checkout.session.completed", r) /\ pc[r] = "completed"
  BY <1>1 DEF RequestInv, Silent, Types
<1>3. /\ EventsDiffer'
      /\ \A t \in EventTypes, q \in Requests :
            Told(t, q)' => Told(t, q) \/ (t = "checkout.session.completed" /\ q = r)
  BY <1>1, <1>2, NewEvent DEF Types, EventTypes
<1>4. Unopened'
  BY <1>1 DEF Unopened
<1>5. ASSUME NEW q \in Requests PROVE RequestInv(q)'
  <2>1. Called(q)' /\ Linked(q)' /\ Saving(q)' /\ Closed(q)'
    BY <1>1, <1>5 DEF RequestInv, Called, Linked, Saving, Closed, Undisturbed
  <2>2. Silent(q)'
    BY <1>1, <1>2, <1>3, <1>5 DEF RequestInv, Silent, Types, EventTypes
  <2>3. QED
    BY <2>1, <2>2 DEF RequestInv
<1>6. LinksLead'
  BY <1>1 DEF LinksLead, Undisturbed
<1>7. QED
  BY <1>3, <1>4, <1>5, <1>6 DEF Rest

LEMMA TellPaidKeeps ==
    ASSUME IInv, Types', NEW r \in Requests, TellPaid(r)
    PROVE  Rest'
<1> USE CheckoutAssumption DEF TellPaid, Bills
<1>1. Types /\ (\A q \in Requests : RequestInv(q)) /\ Unopened /\ EventsDiffer /\ LinksLead
  BY DEF IInv
<1>2. ~Told("invoice.paid", r) /\ pc[r] = "completed"
  BY <1>1 DEF RequestInv, Silent, Types
<1>3. /\ EventsDiffer'
      /\ \A t \in EventTypes, q \in Requests :
            Told(t, q)' => Told(t, q) \/ (t = "invoice.paid" /\ q = r)
  BY <1>1, <1>2, NewEvent DEF Types, EventTypes
<1>4. Unopened'
  BY <1>1 DEF Unopened
<1>5. ASSUME NEW q \in Requests PROVE RequestInv(q)'
  <2>1. Called(q)' /\ Linked(q)' /\ Saving(q)' /\ Closed(q)'
    BY <1>1, <1>5 DEF RequestInv, Called, Linked, Saving, Closed, Undisturbed
  <2>2. Silent(q)'
    BY <1>1, <1>2, <1>3, <1>5 DEF RequestInv, Silent, Types, EventTypes
  <2>3. QED
    BY <2>1, <2>2 DEF RequestInv
<1>6. LinksLead'
  BY <1>1 DEF LinksLead, Undisturbed
<1>7. QED
  BY <1>3, <1>4, <1>5, <1>6 DEF Rest

\* After a repository was cleared no request is undisturbed.
LEMMA ClearKeeps ==
    ASSUME IInv, Types', ClearNext
    PROVE  Rest'
<1> USE CheckoutAssumption
<1>1. Types /\ (\A q \in Requests : RequestInv(q)) /\ Unopened /\ EventsDiffer /\ LinksLead
  BY DEF IInv
<1>2. /\ clears' = clears + 1
      /\ subs' \subseteq subs /\ invoices' \subseteq invoices
      /\ UNCHANGED <<opened, session, link, pc, tells, bills, told, begun>>
  BY <1>1, ClearEffect
<1>3. \A s \in Sessions : sessions'[s] = sessions[s] \/ sessions'[s] = None
  BY <1>1, ClearEffect
<1>4. clears' > 0 /\ \A q \in Requests : ~Undisturbed(q)'
  BY <1>1, <1>2 DEF Types, Undisturbed
<1>5. Unopened' /\ EventsDiffer'
  BY <1>1, <1>2, <1>3 DEF Unopened, EventsDiffer
<1>6. ASSUME NEW q \in Requests PROVE RequestInv(q)'
  <2>1. Called(q)' /\ Silent(q)' /\ Linked(q)' /\ Saving(q)'
    BY <1>1, <1>2, <1>4, <1>6 DEF RequestInv, Called, Silent, Linked, Saving, Told
  <2>2. Closed(q)'
    BY <1>1, <1>2, <1>3, <1>6 DEF RequestInv, Closed, Called, Types
  <2>3. QED
    BY <2>1, <2>2 DEF RequestInv
<1>7. LinksLead'
  <2>1. \A s \in Sessions : sessions[s] # None => sessions[s].sub \in Requests \cup {None}
    BY <1>1 DEF Types, Session
  <2>2. QED
    BY <1>1, <1>2, <1>3, <1>4, <2>1 DEF LinksLead
<1>8. QED
  BY <1>5, <1>6, <1>7 DEF Rest

LEMMA InvKept == IInv /\ [Next]_vars => IInv'
<1> SUFFICES ASSUME IInv, [Next]_vars PROVE IInv'
  OBVIOUS
<1>1. Types'
  <2>1. Types /\ \A r \in Requests : Called(r)
    BY DEF IInv, RequestInv
  <2>2. QED
    BY <2>1, TypesKept
<1>2. Rest'
  <2>1. ASSUME NEW s \in Sessions, NEW m \in Modes, CreateSession(s, m)
        PROVE  Rest'
    BY <1>1, <2>1, CreateSessionKeeps
  <2>2. ASSUME NEW r \in Requests, NEW s \in Sessions, Call(r, s)
        PROVE  Rest'
    BY <1>1, <2>2, CallKeeps
  <2>3. ASSUME NEW r \in Requests, Work(r)
        PROVE  Rest'
    <3>1. CASE Handler(r)
      BY <1>1, <3>1, ReadKeeps, CreateSubscriptionKeeps, ReadSubscriptionKeeps, SaveKeeps
         DEF Handler
    <3>2. CASE TellCompleted(r)
      BY <1>1, <3>2, TellCompletedKeeps
    <3>3. CASE Biller(r)
      BY <1>1, <3>3, FetchSubscriptionKeeps, CreateInvoiceKeeps, ReadInvoiceKeeps,
         TellPaidKeeps DEF Biller
    <3>4. QED
      BY <2>3, <3>1, <3>2, <3>3 DEF Work
  <2>4. CASE ClearNext
    BY <1>1, <2>4, ClearKeeps
  <2>5. CASE UNCHANGED vars
    <3>1. UNCHANGED <<sessions, subs, invoices, opened, session, link, pc, tells,
                      bills, told, clears, begun>>
      BY <2>5 DEF vars
    <3>2. Unopened' /\ EventsDiffer' /\ LinksLead'
      BY <3>1 DEF IInv, Unopened, EventsDiffer, LinksLead, Undisturbed
    <3>3. \A r \in Requests : RequestInv(r)'
      BY <3>1 DEF IInv, RequestInv, Called, Silent, Linked, Saving, Closed, Told,
                  Undisturbed
    <3>4. QED
      BY <3>2, <3>3 DEF Rest
  <2>6. QED
    BY <2>1, <2>2, <2>3, <2>4, <2>5 DEF Next
<1>3. QED
  BY <1>1, <1>2 DEF IInv, Rest

LEMMA InvHolds == Spec => []IInv
  BY InvInit, InvKept, PTL DEF Spec

---------------------------------------------------------------------------
(* The theorems.                                                           *)

(* Every variable has its type, and no goroutine of a completion triggers  *)
(* its event twice, whatever other completions and resets do.              *)
THEOREM TypeCorrect == Spec => []TypeOK
<1>1. IInv => TypeOK
  BY CheckoutAssumption
     DEF IInv, Types, EventsDiffer, TypeOK, EventTypes, Repositories
<1>2. QED
  BY <1>1, InvHolds, PTL

(* A completion that was answered with an error, because the session was   *)
(* not there or not open, or was gone when it was saved, has announced and *)
(* billed nothing.                                                         *)
THEOREM Silence == Spec => []RefusedStaysSilent
<1>1. IInv => RefusedStaysSilent
  BY DEF IInv, RequestInv, Silent, RefusedStaysSilent
<1>2. QED
  BY <1>1, InvHolds, PTL

(* A stored session links to a subscription that its completion created,   *)
(* and that is there unless a reset came between, for any number of        *)
(* requests that complete it at once.                                      *)
THEOREM Links == Spec => []LinksLead
<1>1. IInv => LinksLead
  BY DEF IInv
<1>2. QED
  BY <1>1, InvHolds, PTL

\* What stays true of a request q that arrived after r had completed.
Late(r, q) ==
    /\ pc[r] = "completed"
    /\ \/ pc[q] = "unborn"
       \/ session[q] # session[r]
       \/ pc[q] \in {"read", "refused"} /\ q \notin subs

LEMMA LateKept ==
    ASSUME NEW r \in Requests, NEW q \in Requests, IInv, Late(r, q), [Next]_vars
    PROVE  Late(r, q)'
<1>1. /\ Types /\ Called(q) /\ Called(r) /\ Closed(r) /\ pc[r] = "completed"
      /\ r # q
  BY DEF IInv, RequestInv, Late
<1>2. ASSUME NEW s \in Sessions, NEW m \in Modes, CreateSession(s, m)
      PROVE  Late(r, q)'
  BY <1>2 DEF CreateSession, Late
<1>3. ASSUME NEW p \in Requests, NEW s \in Sessions, Call(p, s)
      PROVE  Late(r, q)'
  BY <1>1, <1>3 DEF Call, Late, Called, Types
<1>4. ASSUME NEW p \in Requests, Work(p)
      PROVE  Late(r, q)'
  <2> USE DEF Late
  <2>1. CASE Read(p)
    <3>1. Called(p) BY DEF IInv, RequestInv
    <3>2. /\ pc[p] = "read" /\ UNCHANGED <<session, subs>>
          /\ \/ pc' = [pc EXCEPT ![p] = "refused"]
             \/ /\ \E l \in {"create", "save"} : pc' = [pc EXCEPT ![p] = l]
                /\ sessions[session[p]] # None
                /\ sessions[session[p]].status = "open"
      BY <1>1, <2>1, <3>1, ReadEffect
    <3>3. CASE p = q
      BY <1>1, <3>2, <3>3 DEF Closed, Types
    <3>4. CASE p # q
      BY <1>1, <3>2, <3>4 DEF Types
    <3>5. QED
      BY <3>3, <3>4
  <2>2. CASE CreateSubscription(p)
    BY <1>1, <2>2 DEF CreateSubscription, Types
  <2>3. CASE ReadSubscription(p)
    BY <1>1, <2>3 DEF ReadSubscription, Types
  <2>4. CASE Save(p)
    <3>1. Called(p) BY DEF IInv, RequestInv
    <3>2. /\ pc[p] = "save" /\ UNCHANGED <<session, subs>>
          /\ \E l \in {"refused", "completed"} : pc' = [pc EXCEPT ![p] = l]
      BY <1>1, <2>4, <3>1, SaveEffect
    <3>3. QED
      BY <1>1, <3>2 DEF Types
  <2>5. CASE TellCompleted(p) \/ Biller(p)
    BY <2>5 DEF TellCompleted, Biller, FetchSubscription, CreateInvoice, ReadInvoice,
                TellPaid
  <2>6. QED
    BY <1>4, <2>1, <2>2, <2>3, <2>4, <2>5 DEF Work, Handler
<1>5. CASE ClearNext
  BY <1>1, <1>5, ClearEffect DEF Late
<1>6. CASE UNCHANGED vars
  BY <1>6 DEF vars, Late
<1>7. QED
  BY <1>2, <1>3, <1>4, <1>5, <1>6 DEF Next

(* Once a completion was answered, a request that arrives later neither    *)
(* completes the session again nor creates a subscription, however many    *)
(* other requests and resets are at work on the session.                   *)
THEOREM Final == Spec => CompletionIsFinal
<1> SUFFICES ASSUME NEW r \in Requests, NEW q \in Requests
             PROVE  Spec => [](pc[r] = "completed" /\ pc[q] = "unborn" =>
                       [](session[q] = session[r] => pc[q] # "completed" /\ q \notin subs))
  BY DEF CompletionIsFinal
<1>1. pc[r] = "completed" /\ pc[q] = "unborn" => Late(r, q)
  BY DEF Late
<1>2. IInv /\ Late(r, q) /\ [Next]_vars => Late(r, q)'
  BY LateKept
<1>3. IInv /\ Late(r, q) =>
        (session[q] = session[r] => pc[q] # "completed" /\ q \notin subs)
  BY DEF IInv, RequestInv, Called, Late
<1>4. QED
  BY <1>1, <1>2, <1>3, InvHolds, PTL DEF Spec

---------------------------------------------------------------------------
(* One completion of a session at a time.                                  *)

AtWork(r) == pc[r] \in {"read", "create", "readSub", "save"}

\* No request completes a session while another one is at it.
OneByOne ==
    \A r, q \in Requests : AtWork(r) /\ AtWork(q) /\ session[r] = session[q] => r = q

Finished(r) == pc[r] \in {"refused", "completed"}

\* The subscription of a request is the only one of its session.
Alone(r) ==
    \A q \in Requests : q # r /\ q \in subs => session[q] # session[r]

\* Who is about to complete a session finds no subscription of it but its
\* own, and what has brought one is closed and links to it.
BoughtOnce(r) ==
    /\ pc[r] \in {"create", "readSub", "save"} \/ r \in subs => Alone(r)
    /\ pc[r] = "save" /\ r \in subs => link[r] = r
    /\ Finished(r) /\ r \in subs =>
         /\ sessions[session[r]] # None => sessions[session[r]].status = "complete"
         /\ clears = 0 => sessions[session[r]] # None /\ sessions[session[r]].sub = r

\* Only a reset takes a session away.
Kept == clears = 0 => \A s \in opened : sessions[s] # None

OnceInv == Kept /\ \A r \in Requests : BoughtOnce(r)

LEMMA ReadKeepsOnce ==
    ASSUME IInv, OneByOne, OnceInv, NEW q \in Requests, Read(q)
    PROVE  OnceInv'
<1>1. Types /\ \A r \in Requests : Called(r)
  BY DEF IInv, RequestInv
<1>2. /\ pc[q] = "read" /\ q \notin subs
      /\ UNCHANGED <<sessions, subs, opened, session, link, clears>>
  BY <1>1, ReadEffect DEF Called
<1>3. \A r \in Requests : r # q => pc'[r] = pc[r]
  BY <1>1, ReadEffect DEF Types
<1>4. pc'[q] # "refused" =>
         sessions[session[q]] # None /\ sessions[session[q]].status = "open"
  BY <1>1, ReadEffect DEF Types
<1>5. pc'[q] # "refused" => Alone(q)
  <2> SUFFICES ASSUME pc'[q] # "refused", NEW p \in Requests, p # q, p \in subs,
                      session[p] = session[q]
               PROVE  FALSE
    BY DEF Alone
  <2>1. ~AtWork(p)
    BY <1>2 DEF OneByOne, AtWork
  <2>2. Finished(p)
    BY <1>1, <2>1 DEF Called, Finished, AtWork, Types
  <2>3. QED
    BY <1>4, <2>2 DEF OnceInv, BoughtOnce
<1>6. ASSUME NEW r \in Requests PROVE BoughtOnce(r)'
  <2>1. Alone(r)' <=> Alone(r)
    BY <1>2 DEF Alone
  <2>2. CASE r = q
    <3>1. Alone(q) => Alone(q)'
      BY <2>1, <2>2
    <3>2. QED
      BY <1>1, <1>2, <1>5, <2>2, <3>1, ReadEffect DEF BoughtOnce, Types
  <2>3. CASE r # q
    BY <1>2, <1>3, <2>1, <2>3 DEF OnceInv, BoughtOnce, Finished
  <2>4. QED
    BY <2>2, <2>3
<1>7. Kept'
  BY <1>2 DEF OnceInv, Kept
<1>8. QED
  BY <1>6, <1>7 DEF OnceInv

LEMMA CreateKeepsOnce ==
    ASSUME IInv, OneByOne, OnceInv, NEW q \in Requests, CreateSubscription(q)
    PROVE  OnceInv'
<1>1. Types
  BY DEF IInv
<1>2. /\ pc[q] = "create" /\ pc'[q] = "readSub"
      /\ subs' = subs \cup {q}
      /\ \A r \in Requests : r # q => pc'[r] = pc[r]
      /\ UNCHANGED <<sessions, opened, session, link, clears>>
  BY <1>1 DEF CreateSubscription, Types
<1>3. ASSUME NEW r \in Requests PROVE BoughtOnce(r)'
  <2>1. Alone(q) /\ (Alone(q) => Alone(q)')
    BY <1>2 DEF OnceInv, BoughtOnce, Alone
  <2>2. CASE r = q
    BY <1>2, <2>1, <2>2 DEF BoughtOnce, Finished
  <2>3. CASE r # q
    <3>1. (pc[r] \in {"create", "readSub", "save"} \/ r \in subs) => session[q] # session[r]
      BY <1>2, <2>1, <2>3 DEF OneByOne, AtWork, Alone
    <3>2. (pc[r] \in {"create", "readSub", "save"} \/ r \in subs) => Alone(r)'
      BY <1>2, <3>1 DEF OnceInv, BoughtOnce, Alone
    <3>3. QED
      BY <1>2, <2>3, <3>2 DEF OnceInv, BoughtOnce, Finished
  <2>4. QED
    BY <2>2, <2>3
<1>4. Kept'
  BY <1>2 DEF OnceInv, Kept
<1>5. QED
  BY <1>3, <1>4 DEF OnceInv

LEMMA SaveKeepsOnce ==
    ASSUME IInv, OneByOne, OnceInv, NEW q \in Requests, Save(q)
    PROVE  OnceInv'
<1>1. Types /\ \A r \in Requests : Called(r)
  BY DEF IInv, RequestInv
<1>2. /\ pc[q] = "save" /\ session[q] \in Sessions /\ session[q] \in opened
      /\ UNCHANGED <<subs, opened, session, link, clears>>
      /\ \A r \in Requests : r # q => pc'[r] = pc[r]
  BY <1>1, SaveEffect DEF Types, Called
<1>3. \A r \in Requests : Alone(r)' <=> Alone(r)
  BY <1>2 DEF Alone
<1>4. CASE pc'[q] = "refused" /\ sessions' = sessions /\ sessions[session[q]] = None
  <2>1. clears # 0
    BY <1>2, <1>4 DEF OnceInv, Kept
  <2>2. \A r \in Requests : BoughtOnce(r)'
    BY <1>2, <1>3, <1>4, <2>1 DEF OnceInv, BoughtOnce, Finished
  <2>3. QED
    BY <1>2, <1>4, <2>2 DEF OnceInv, Kept
<1>5. CASE /\ pc'[q] = "completed"
           /\ sessions' = [sessions EXCEPT ![session[q]] =
                             [mode |-> sessions[session[q]].mode,
                              status |-> "complete", sub |-> link[q]]]
  <2> DEFINE new == [mode |-> sessions[session[q]].mode,
                     status |-> "complete", sub |-> link[q]]
  <2>1. sessions[session[q]] \in Session /\ link[q] \in Requests \cup {None}
    BY <1>1, <1>2, <1>5, SaveEffect DEF Types
  <2>2. new \in Session
    BY <2>1 DEF Session
  <2>3. new # None /\ new.status = "complete" /\ new.sub = link[q]
    BY <2>2, CheckoutAssumption
  <2>4. sessions' = [sessions EXCEPT ![session[q]] = new]
    BY <1>5
  <2> HIDE DEF new
  <2>5. /\ sessions'[session[q]] = new
        /\ \A s \in Sessions : s # session[q] => sessions'[s] = sessions[s]
    BY <1>1, <1>2, <2>4 DEF Types
  <2>6. ASSUME NEW r \in Requests PROVE BoughtOnce(r)'
    <3>1. CASE r = q
      <4>1. q \in subs => link[q] = q
        BY <1>2 DEF OnceInv, BoughtOnce
      <4>2. (q \in subs) => Alone(q)'
        BY <1>2, <1>3 DEF OnceInv, BoughtOnce
      <4>3. QED
        BY <1>2, <1>5, <2>3, <2>5, <3>1, <4>1, <4>2 DEF BoughtOnce, Finished
    <3>2. CASE r # q
      <4>1. r \in subs => session[r] # session[q]
        BY <1>2, <3>2 DEF OnceInv, BoughtOnce, Alone
      <4>2. Finished(r) => session[r] \in Sessions
        BY <1>1 DEF Called, Finished, Types
      <4>3. QED
        BY <1>2, <1>3, <2>5, <3>2, <4>1, <4>2 DEF OnceInv, BoughtOnce, Finished
    <3>3. QED
      BY <3>1, <3>2
  <2>7. Kept'
    BY <1>1, <1>2, <2>3, <2>5 DEF OnceInv, Kept, Types
  <2>8. QED
    BY <2>6, <2>7 DEF OnceInv
<1>6. QED
  <2>1. CASE sessions[session[q]] = None
    BY <1>1, <1>4, <2>1 DEF Save, Types
  <2>2. CASE sessions[session[q]] # None
    <3>1. pc' = [pc EXCEPT ![q] = "completed"]
      BY <2>2 DEF Save
    <3>2. pc'[q] = "completed"
      BY <1>1, <3>1 DEF Types
    <3>3. ~(pc' = [pc EXCEPT ![q] = "refused"])
      BY <1>1, <3>2 DEF Types
    <3>4. QED
      BY <1>1, <1>5, <3>2, <3>3, SaveEffect
  <2>3. QED
    BY <2>1, <2>2

LEMMA OnceKept ==
    ASSUME IInv, OneByOne, OnceInv, [Next]_vars
    PROVE  OnceInv'
<1>1. Types /\ Unopened /\ \A r \in Requests : Called(r)
  BY DEF IInv, RequestInv
<1>2. ASSUME NEW s \in Sessions, NEW m \in Modes, CreateSession(s, m)
      PROVE  OnceInv'
  <2>1. PICK new \in Session : sessions' = [sessions EXCEPT ![s] = new]
    BY <1>2 DEF CreateSession, Session
  <2>2. /\ s \notin opened /\ opened' = opened \cup {s}
        /\ UNCHANGED <<subs, session, link, pc, clears>>
    BY <1>2 DEF CreateSession
  <2>3. Kept'
    BY <1>1, <2>1, <2>2, CheckoutAssumption DEF OnceInv, Kept, Types
  <2>4. ASSUME NEW r \in Requests PROVE BoughtOnce(r)'
    <3>1. Finished(r) => session[r] # s
      BY <1>1, <2>2 DEF Called, Finished
    <3>2. Finished(r) => sessions'[session[r]] = sessions[session[r]]
      BY <1>1, <2>1, <3>1 DEF Called, Finished, Types
    <3>3. QED
      BY <2>2, <3>2 DEF OnceInv, BoughtOnce, Alone, Finished
  <2>5. QED
    BY <2>3, <2>4 DEF OnceInv
<1>3. ASSUME NEW q \in Requests, NEW s \in Sessions, Call(q, s)
      PROVE  OnceInv'
  <2>1. /\ pc[q] = "unborn" /\ pc'[q] = "read" /\ q \notin subs
        /\ \A r \in Requests : r # q => pc'[r] = pc[r] /\ session'[r] = session[r]
        /\ UNCHANGED <<sessions, subs, opened, link, clears>>
    BY <1>1, <1>3 DEF Call, Types, Called
  <2>2. \A r \in Requests : r # q /\ Alone(r) => Alone(r)'
    BY <2>1 DEF Alone
  <2>3. \A r \in Requests : BoughtOnce(r)'
    BY <2>1, <2>2 DEF OnceInv, BoughtOnce, Finished
  <2>4. QED
    BY <2>1, <2>3 DEF OnceInv, Kept
<1>4. ASSUME NEW q \in Requests, ReadSubscription(q)
      PROVE  OnceInv'
  <2>1. /\ pc[q] = "readSub" /\ pc'[q] = "save"
        /\ q \in subs => link'[q] = q
        /\ \A r \in Requests : r # q => pc'[r] = pc[r] /\ link'[r] = link[r]
        /\ UNCHANGED <<sessions, subs, opened, session, clears>>
    BY <1>1, <1>4 DEF ReadSubscription, Types
  <2>2. \A r \in Requests : Alone(r) => Alone(r)'
    BY <2>1 DEF Alone
  <2>3. \A r \in Requests : BoughtOnce(r)'
    BY <2>1, <2>2 DEF OnceInv, BoughtOnce, Finished
  <2>4. QED
    BY <2>1, <2>3 DEF OnceInv, Kept
<1>5. CASE ClearNext
  <2>1. /\ clears' # 0 /\ subs' \subseteq subs
        /\ \/ sessions' = sessions
           \/ sessions' = [s \in Sessions |-> None]
        /\ UNCHANGED <<opened, session, link, pc>>
    BY <1>1, <1>5, ClearEffect DEF Types
  <2>2. \A r \in Requests : Alone(r) => Alone(r)'
    BY <2>1 DEF Alone
  <2>3. \A r \in Requests : Finished(r) => session[r] \in Sessions
    BY <1>1 DEF Called, Finished, Types
  <2>4. \A r \in Requests : BoughtOnce(r)'
    BY <2>1, <2>2, <2>3 DEF OnceInv, BoughtOnce, Finished
  <2>5. QED
    BY <2>1, <2>4 DEF OnceInv, Kept
<1>6. CASE \/ \E q \in Requests : TellCompleted(q) \/ Biller(q)
           \/ UNCHANGED vars
  <2>1. UNCHANGED <<sessions, subs, opened, session, link, pc, clears>>
    BY <1>6 DEF TellCompleted, Biller, FetchSubscription, CreateInvoice, ReadInvoice,
                TellPaid, vars
  <2>2. QED
    BY <2>1 DEF OnceInv, Kept, BoughtOnce, Alone, Finished
<1>7. QED
  BY <1>2, <1>3, <1>4, <1>5, <1>6, ReadKeepsOnce, CreateKeepsOnce, SaveKeepsOnce
     DEF Next, Work, Handler

(* If no two requests are at the same session at once, a session brings at *)
(* most one subscription, and links to it until a reset.  Checkout_twice   *)
(* shows that two that are at it at once may bring two.                    *)
THEOREM OneByOneBuysOnce == Spec /\ []OneByOne => []OneSubscription
<1>1. Init => OnceInv
  BY DEF Init, OnceInv, Kept, BoughtOnce, Finished
<1>2. IInv /\ OneByOne /\ OnceInv /\ [Next]_vars => OnceInv'
  BY OnceKept
<1>3. IInv /\ OnceInv => OneSubscription
  <2> SUFFICES ASSUME IInv, OnceInv, NEW s \in Sessions
               PROVE  LET bought == {r \in subs : session[r] = s
                                         /\ pc[r] \in {"refused", "completed"}}
                      IN  /\ Cardinality(bought) <= 1
                          /\ clears = 0 => \A r \in bought : sessions[s].sub = r
    BY DEF OneSubscription
  <2> DEFINE bought == {r \in subs : session[r] = s /\ pc[r] \in {"refused", "completed"}}
  <2>1. /\ subs \subseteq Requests
        /\ \A r \in bought : Finished(r) /\ Alone(r) /\ r \in subs /\ session[r] = s
    BY DEF IInv, Types, OnceInv, BoughtOnce, Finished
  <2>2. bought = {} \/ \E r \in bought : bought = {r}
    BY <2>1 DEF Alone
  <2>3. clears = 0 => \A r \in bought : sessions[s].sub = r
    BY <2>1 DEF OnceInv, BoughtOnce
  <2> HIDE DEF bought
  <2>4. Cardinality(bought) <= 1
    <3>1. CASE bought = {}
      BY <3>1, FS_EmptySet
    <3>2. ASSUME NEW r, bought = {r} PROVE Cardinality(bought) = 1
      BY <3>2, FS_Singleton
    <3>3. QED
      BY <2>2, <3>1, <3>2
  <2>5. QED
    BY <2>3, <2>4 DEF bought
<1>4. QED
  BY <1>1, <1>2, <1>3, InvHolds, PTL DEF Spec
=============================================================================
