----------------------------- MODULE Requests -----------------------------
(***************************************************************************)
(* The path of a request through the server: authentication, parameters,   *)
(* the handler with its accesses to the repositories, the status and the   *)
(* answer, and the goroutine that announces the change, which works on the *)
(* object that is being answered with.                                     *)
(*                                                                         *)
(* Request r is one HTTP request, or one call of the webhook service.  A   *)
(* document has the number of the request that created it.                 *)
(***************************************************************************)
EXTENDS Resources, FiniteSets

CONSTANTS
    NumRequests,   \* bound: how many requests the clients send
    MaxInFlight,   \* bound: requests and goroutines at work at once
    MaxTime,       \* bound: seconds that pass
    Inputs         \* bound: what the first, the second, ... request may be

Requests == 1 .. NumRequests
Ids      == 0 .. NumRequests

Routes == {"create", "update", "retrieve", "list", "reset"}

\* What reaches the server: a well-formed request, one without a valid key,
\* one whose parameters cannot be parsed, or one whose JSON body is null and
\* whose URL has parameters.
Wires == {"ok", "noAuth", "badBody", "nullBody"}

Names == {"customer", "price", "product"}   \* what expand[] may name

\* Prices and configurations have no update.
\* refers: does a creation name what the new document refers to?
Input == {in \in [route : Routes, repo : Repos, id : Ids, sets : SUBSET Fields,
                  refers : BOOLEAN, asked : Seq(Names), wire : Wires] :
            in.route = "update" => in.repo \notin {"prices", "configs"}}

ASSUME RequestsAssumption ==
    /\ NumRequests \in Nat
    /\ MaxInFlight \in Nat
    /\ MaxTime \in Nat
    /\ \A r \in Requests : Inputs[r] \subseteq Input
    /\ NoDoc \notin Doc
    /\ Unset \notin Nat

VARIABLES
    store,      \* the repositories: the document under each id, or NoDoc
    pc,         \* where each handler is
    input,      \* the request each handles
    todo,       \* what it has still to expand, or to clear
    status,     \* the status each request was answered with
    obj,        \* the objects of handlers and goroutines, on the heap
    task,       \* the step each goroutine makes next, or "none"
    saved,      \* the lifecycles that have saved their subscription as active
    payload,    \* the copy each goroutine makes for its event
    answer,     \* the document each request was answered with
    told,       \* the events, in order
    read,       \* history: the fields of each object when it was read
    serial,     \* history: the fields as updates made one by one leave them
    clashed,    \* history: the documents an update wrote that was not based
                \* on what it overwrote
    eventSequence, now, seq, before, events    \* see EventSequence

handlerVars == <<pc, input, todo, status, answer>>
taskVars    == <<task, saved, payload, told>>
historyVars == <<read, serial, clashed>>
stampVars   == <<eventSequence, now, seq, before, events>>
vars == <<store, obj, handlerVars, taskVars, historyVars, stampVars>>

\* Each goroutine triggers at most two events, so the bound is never met.
Stamps == INSTANCE EventSequence
            WITH Goroutines <- Requests, MaxEvents <- 2 * NumRequests

---------------------------------------------------------------------------

\* A lifecycle goroutine fetches an object of its own; the others share the
\* object the handler answers with.
Cells == Requests \X {"answered", "own"}

Dropped  == 0   \* the connection is closed without an answer
Statuses == {Dropped, 200, 400, 401, 404, 500}

Input0 == [route |-> "list", repo |-> "customers", id |-> 0, sets |-> {},
           refers |-> FALSE, asked |-> <<>>, wire |-> "ok"]

InFlight == {r \in Requests : \/ pc[r] \notin {"idle", "done"}
                              \/ task[r] # "none"}

\* Left by an earlier purchase: a subscription that a checkout made has the
\* stored price in its item, and in it the id of the product.
Preloaded == [repo \in Repos |->
    CASE repo = "configs"       -> NoDoc
      [] repo = "subscriptions" -> [fields |-> [f \in Fields |-> 0],
                                    refs   |-> Ref("id", "id")]
      [] OTHER                  -> [fields |-> [f \in Fields |-> 0],
                                    refs   |-> RefsOfNew(repo, TRUE)]]

Blank == [f \in Fields |-> Unset]

Init ==
    /\ store = [repo \in Repos |-> [i \in Ids |->
                  IF i = 0 THEN Preloaded[repo] ELSE NoDoc]]
    /\ pc = [r \in Requests |-> "idle"]
    /\ input = [r \in Requests |-> Input0]
    /\ todo = [r \in Requests |-> <<>>]
    /\ status = [r \in Requests |-> Dropped]
    /\ obj = [c \in Cells |-> NoDoc]
    /\ task = [r \in Requests |-> "none"]
    /\ saved = {}
    /\ payload = [r \in Requests |-> NoDoc]
    /\ answer = [r \in Requests |-> NoDoc]
    /\ told = <<>>
    /\ read = [c \in Cells |-> Blank]
    /\ serial = [repo \in Repos |-> [i \in Ids |->
                  IF i = 0 THEN [f \in Fields |-> 0] ELSE Blank]]
    /\ clashed = {}
    /\ Stamps!Init

---------------------------------------------------------------------------
(* Arrival, authentication, parameters.                                    *)

\* Requests are numbered in the order they arrive.
Arrive(r, in) ==
    /\ pc[r] = "idle"
    /\ \A q \in 1 .. r - 1 : pc[q] # "idle"
    /\ Cardinality(InFlight) < MaxInFlight
    /\ pc' = [pc EXCEPT ![r] = "wire"]
    /\ input' = [input EXCEPT ![r] = in]
    /\ todo' = [todo EXCEPT ![r] = in.asked]
    /\ UNCHANGED <<store, obj, status, answer, taskVars, historyVars, stampVars>>

\* The handler returns without an object.  An error becomes a 404 if it is
\* the repository's ErrNotFound and a 500 otherwise: the status a handler
\* returns with it is not used.
Finish(r, code) ==
    /\ pc' = [pc EXCEPT ![r] = "done"]
    /\ status' = [status EXCEPT ![r] = code]
    /\ UNCHANGED <<store, obj, input, todo, answer, taskVars, historyVars, stampVars>>

\* The route of the reset looks at the key only.
Unauthorized(in) == in.wire = "noAuth"
BadParams(in)    == in.wire = "badBody" /\ in.route # "reset"
NilParams(in)    == in.wire = "nullBody" /\ in.route \in {"create", "update"}
Admitted(in)     == ~Unauthorized(in) /\ ~BadParams(in) /\ ~NilParams(in)

\* validateAuth, then parseRequestParams.  Parameters of the URL are put into
\* the map that the body was decoded to; null decodes to no map, and the
\* assignment panics.  net/http recovers and closes the connection.
Refuse(r) ==
    /\ pc[r] = "wire"
    /\ \/ Unauthorized(input[r]) /\ Finish(r, 401)
       \/ BadParams(input[r])    /\ Finish(r, 400)
       \/ NilParams(input[r])    /\ Finish(r, Dropped)

Starts(r, route) == /\ pc[r] = "wire"
                    /\ input[r].route = route
                    /\ Admitted(input[r])

Repo(r) == input[r].repo

\* The document a request is about: the one it creates or the one it names.
About(r) == IF input[r].route = "create" THEN r ELSE input[r].id

Stored(r) == store[Repo(r)][About(r)]

Missing(r) == Stored(r) = NoDoc

NotFound(r) == Missing(r) /\ Finish(r, 404)

---------------------------------------------------------------------------
(* What the goroutines do.                                                 *)

\* A new subscription has a lifecycle: it is fetched again, announced, saved
\* as active and announced again; its invoices are in Billing.
Lifecycle(in) == in.repo = "subscriptions" /\ in.route = "create"

\* The expander has something to do for subscriptions only.
Trigger(in) == IF in.repo = "subscriptions" THEN "customer" ELSE "marshal"

\* Faulty: the update of a customer or product starts no goroutine.
SilentAnnouncement(in) ==
    CASE in.repo \in {"configs", "endpoints"} -> "none"
      [] Lifecycle(in)                        -> "fetch"
      [] in.route = "update" /\ in.repo # "subscriptions" -> "none"
      [] OTHER                                -> Trigger(in)

\* The first step of the goroutine that the handler starts: nothing is
\* announced of portal configurations and endpoints.
Announcement(in) ==
    CASE in.repo \in {"configs", "endpoints"} -> "none"
      [] Lifecycle(in)                        -> "fetch"
      [] OTHER                                -> Trigger(in)

\* The object goroutine r works on.
Cell(r) == <<r, IF Lifecycle(input[r]) THEN "own" ELSE "answered">>

---------------------------------------------------------------------------
(* Handlers: one access to a repository a step.                            *)

\* Object c is what the repository holds under the id, changed by d's maker.
Holds(c, stored, d) == /\ obj' = [obj EXCEPT ![c] = d]
                       /\ read' = [read EXCEPT ![c] = stored.fields]

\* History: the update of document i that sets some fields and leaves others.
Serialize(repo, i, by, sets, clears) ==
    serial' = [serial EXCEPT ![repo][i] =
        [f \in Fields |-> IF f \in sets THEN by
                          ELSE IF f \in clears THEN Unset ELSE @[f]]]

\* The keys that disappear when metadata is given but for a customer.
Cleared(repo, sets) ==
    IF repo \in {"products", "endpoints"} /\ sets \cap Metadata # {}
    THEN Metadata \ sets ELSE {}

Create(r) ==
    LET in == input[r]
        d  == New(in.repo, r, in.sets, in.refers)
    IN  /\ Starts(r, "create")
        /\ store' = [store EXCEPT ![in.repo][r] = d]
        /\ pc' = [pc EXCEPT ![r] = "reread"]
        /\ Serialize(in.repo, r, r, SetByNew(in.repo, in.sets), {})
        /\ UNCHANGED <<obj, input, todo, status, answer, taskVars, read, clashed,
                       stampVars>>

\* The gateway reads back what it stored, for the answer.  (That of a
\* configuration is the one that was built: nothing changes them.)
Reread(r) ==
    /\ pc[r] = "reread"
    /\ \/ NotFound(r)
       \/ /\ ~Missing(r)
          /\ Holds(<<r, "answered">>, Stored(r), Stored(r))
          /\ pc' = [pc EXCEPT ![r] = "answer"]
          /\ task' = [task EXCEPT ![r] = Announcement(input[r])]
          /\ UNCHANGED <<store, input, todo, status, answer, saved, payload, told,
                         serial,
                         clashed, stampVars>>

\* The status of a subscription may forbid the operation (SubscriptionDocs).
Read(r) ==
    /\ Starts(r, "update")
    /\ \/ NotFound(r)
       \/ /\ ~Missing(r)
          /\ Repo(r) = "subscriptions"
          /\ Finish(r, 500)
       \/ /\ ~Missing(r)
          /\ Holds(<<r, "answered">>, Stored(r),
                   Changed(Repo(r), Stored(r), r, input[r].sets))
          /\ pc' = [pc EXCEPT ![r] = "write"]
          /\ UNCHANGED <<store, input, todo, status, answer, taskVars, serial,
                         clashed, stampVars>>

\* Faulty: whether the status allows the operation is checked after the write.
WriteThenCheck(r) ==
    LET in == input[r]
    IN  /\ pc[r] = "write"
        /\ \/ NotFound(r)
           \/ /\ ~Missing(r)
              /\ store' = [store EXCEPT ![in.repo][in.id] = obj[<<r, "answered">>]]
              /\ pc' = [pc EXCEPT ![r] = "done"]
              /\ status' = [status EXCEPT ![r] = 500]
              /\ UNCHANGED <<obj, input, todo, answer, taskVars, historyVars,
                             stampVars>>

\* The whole object is stored, if the document is still there.  Customers and
\* products are answered with this object, the others are read back.
Write(r) ==
    LET in   == input[r]
        sets == IF in.repo = "subscriptions" THEN {"own"} ELSE in.sets
    IN  /\ pc[r] = "write"
        /\ \/ NotFound(r)
           \/ /\ ~Missing(r)
              /\ store' = [store EXCEPT ![in.repo][in.id] = obj[<<r, "answered">>]]
              /\ \/ /\ in.repo \in {"customers", "products"}
                    /\ pc' = [pc EXCEPT ![r] = "answer"]
                    /\ task' = [task EXCEPT ![r] = Announcement(in)]
                 \/ /\ in.repo \notin {"customers", "products"}
                    /\ pc' = [pc EXCEPT ![r] = "reread"]
                    /\ UNCHANGED task
              /\ Serialize(in.repo, in.id, r, sets, Cleared(in.repo, sets))
              /\ clashed' = IF Stored(r).fields = read[<<r, "answered">>]
                            THEN clashed ELSE clashed \cup {<<in.repo, in.id>>}
              /\ UNCHANGED <<obj, input, todo, status, answer, saved, payload, told,
                             read, stampVars>>

\* GET of one document.  A subscription that is not there is made up, of a
\* customer that is nowhere stored.
Mock == [fields |-> Blank, refs |-> Ref("id", "none")]

Retrieve(r) ==
    LET d == IF Missing(r) THEN Mock ELSE Stored(r)
    IN  /\ Starts(r, "retrieve")
        /\ \/ Repo(r) # "subscriptions" /\ NotFound(r)
           \/ /\ Repo(r) = "subscriptions" \/ ~Missing(r)
              /\ Holds(<<r, "answered">>, d, d)
              /\ pc' = [pc EXCEPT ![r] =
                           IF todo[r] = <<>> THEN "answer" ELSE "expand"]
              /\ UNCHANGED <<store, input, todo, status, answer, taskVars, serial,
                             clashed, stampVars>>

There(repo) == store[repo][0] # NoDoc

\* Faulty: the product is expanded before its price.
ProductThenPrice(r) ==
    LET c    == <<r, "answered">>
        d    == obj[c]
        name == Head(todo[r])
        rest == Tail(todo[r])
        left == IF name = "product" THEN <<"price">> \o rest ELSE rest
    IN  /\ pc[r] = "expand"
        /\ obj' = [obj EXCEPT ![c] =
             CASE name = "customer" -> ExpandAgain(d, "customer",
                                         d.fields # Blank /\ There("customers"))
               [] name = "price"    -> ReplacePrice(d, store["prices"][0])
               [] OTHER             -> ExpandAgain(d, "product", There("products"))]
        /\ todo' = [todo EXCEPT ![r] = left]
        /\ pc' = [pc EXCEPT ![r] = IF left = <<>> THEN "answer" ELSE "expand"]
        /\ UNCHANGED <<store, input, status, answer, taskVars, historyVars, stampVars>>

\* expandSubscription goes through expand[] in its order.  A product is
\* expanded after its price, which takes another step.
ExpandAsked(r) ==
    LET c    == <<r, "answered">>
        d    == obj[c]
        name == Head(todo[r])
        rest == Tail(todo[r])
        left == IF name = "product" THEN <<"priceProduct">> \o rest ELSE rest
    IN  /\ pc[r] = "expand"
        /\ obj' = [obj EXCEPT ![c] =
             CASE name = "customer"     -> ExpandAgain(d, "customer",
                                             d.fields # Blank /\ There("customers"))
               [] name = "priceProduct" -> ExpandAgain(d, "product", There("products"))
               [] OTHER                 -> ReplacePrice(d, store["prices"][0])]
        /\ todo' = [todo EXCEPT ![r] = left]
        /\ pc' = [pc EXCEPT ![r] = IF left = <<>> THEN "answer" ELSE "expand"]
        /\ UNCHANGED <<store, input, status, answer, taskVars, historyVars, stampVars>>

\* What json.Marshal makes of the object.  The items of a subscription are
\* shared with the goroutine, which may be writing the product: what is read
\* then is anything.
Marshalled(r) ==
    LET d == obj[<<r, "answered">>]
    IN  {d} \cup
        (IF Cell(r)[2] = "answered" /\ task[r] = "product"
            /\ d.refs["product"] = "id"
         THEN {[d EXCEPT !.refs["product"] = "torn"]} ELSE {})

\* writeResponse.
Answer(r) ==
    /\ pc[r] = "answer"
    /\ \E d \in Marshalled(r) : answer' = [answer EXCEPT ![r] = d]
    /\ pc' = [pc EXCEPT ![r] = "done"]
    /\ status' = [status EXCEPT ![r] = 200]
    /\ UNCHANGED <<store, obj, input, todo, taskVars, historyVars, stampVars>>

\* GET of a list: all there is, in one access, has_more false.
List(r) == Starts(r, "list") /\ Finish(r, 200)

\* Gateway.Reset: one repository after the other; endpoints stay.
ResetOrder == <<"customers", "subscriptions", "products", "prices", "configs">>

Reset(r) ==
    /\ Starts(r, "reset")
    /\ pc' = [pc EXCEPT ![r] = "clear"]
    /\ todo' = [todo EXCEPT ![r] = ResetOrder]
    /\ UNCHANGED <<store, obj, input, status, answer, taskVars, historyVars, stampVars>>

Clear(r) ==
    LET left == Tail(todo[r])
    IN  /\ pc[r] = "clear"
        /\ store' = [store EXCEPT ![Head(todo[r])] = [i \in Ids |-> NoDoc]]
        /\ todo' = [todo EXCEPT ![r] = left]
        /\ pc' = [pc EXCEPT ![r] = IF left = <<>> THEN "done" ELSE "clear"]
        /\ status' = [status EXCEPT ![r] = IF left = <<>> THEN 200 ELSE Dropped]
        /\ UNCHANGED <<obj, input, answer, taskVars, historyVars, stampVars>>

---------------------------------------------------------------------------
(* Goroutines.                                                             *)

At(r, step) == task[r] = step

Goes(r, step) == task' = [task EXCEPT ![r] = step]

\* The goroutine gives up.
GiveUp(r) ==
    /\ Goes(r, "none")
    /\ UNCHANGED <<store, obj, handlerVars, saved, payload, told, historyVars,
                   stampVars>>

\* triggerSubscriptionLifecycle fetches the subscription.
Fetch(r) ==
    /\ At(r, "fetch")
    /\ \/ Missing(r) /\ GiveUp(r)
       \/ /\ ~Missing(r)
          /\ Holds(Cell(r), Stored(r), Stored(r))
          /\ Goes(r, "customer")
          /\ UNCHANGED <<store, handlerVars, saved, payload, told, serial, clashed,
                         stampVars>>

\* MarshalJSON of the wrappers in api_helpers.go: of the copy.
Marshal(r) ==
    /\ At(r, "marshal")
    /\ payload' = [payload EXCEPT ![r] = obj[Cell(r)]]
    /\ Goes(r, "number")
    /\ UNCHANGED <<store, obj, handlerVars, saved, told, historyVars, stampVars>>

\* The customer of a subscription is a field of the copy ...
ExpandCustomer(r) ==
    /\ At(r, "customer")
    /\ payload' = [payload EXCEPT ![r] =
                     ExpandId(obj[Cell(r)], "customer", There("customers"))]
    /\ Goes(r, "product")
    /\ UNCHANGED <<store, obj, handlerVars, saved, told, historyVars, stampVars>>

\* ... but its items are not copied: their products change in the object, too.
ExpandProduct(r) ==
    LET there == There("products")
    IN  /\ At(r, "product")
        /\ obj' = [obj EXCEPT ![Cell(r)] = ExpandId(@, "product", there)]
        /\ payload' = [payload EXCEPT ![r] = ExpandId(@, "product", there)]
        /\ Goes(r, "number")
        /\ UNCHANGED <<store, handlerVars, saved, told, historyVars, stampVars>>

\* buildWebhookEvent.
Number(r) ==
    /\ At(r, "number")
    /\ Stamps!Take(r)
    /\ Goes(r, "stamp")
    /\ UNCHANGED <<store, obj, handlerVars, saved, payload, told, historyVars>>

Afterwards(r) == IF Lifecycle(input[r]) /\ r \notin saved THEN "save" ELSE "none"

\* Faulty: an event shows the document as it is stored by then.
StampStored(r) ==
    /\ At(r, "stamp")
    /\ Stamps!Stamp(r)
    /\ told' = Append(told, [by |-> r, doc |-> IF Missing(r) THEN payload[r]
                                               ELSE Stored(r)])
    /\ Goes(r, Afterwards(r))
    /\ UNCHANGED <<store, obj, handlerVars, saved, payload, historyVars>>

Stamp(r) ==
    /\ At(r, "stamp")
    /\ Stamps!Stamp(r)
    /\ told' = Append(told, [by |-> r, doc |-> payload[r]])
    /\ Goes(r, Afterwards(r))
    /\ UNCHANGED <<store, obj, handlerVars, saved, payload, historyVars>>

\* The lifecycle saves the object it fetched, now active.
Save(r) ==
    LET c == Cell(r)
        d == Merged(obj[c], r, {"own"})
    IN  /\ At(r, "save")
        /\ \/ Missing(r) /\ GiveUp(r)
           \/ /\ ~Missing(r)
              /\ store' = [store EXCEPT !["subscriptions"][r] = d]
              /\ obj' = [obj EXCEPT ![c] = d]
              /\ saved' = saved \cup {r}
              /\ Serialize("subscriptions", r, r, {"own"}, {})
              /\ clashed' = IF Stored(r).fields = read[c] THEN clashed
                            ELSE clashed \cup {<<"subscriptions", r>>}
              /\ Goes(r, "customer")
              /\ UNCHANGED <<handlerVars, payload, told, read, stampVars>>

---------------------------------------------------------------------------

Tick == /\ Stamps!Tick
        /\ UNCHANGED <<store, obj, handlerVars, taskVars, historyVars>>

Handler(r) == \/ Refuse(r) \/ Create(r) \/ Reread(r) \/ Read(r) \/ Write(r)
              \/ Retrieve(r) \/ ExpandAsked(r) \/ Answer(r)
              \/ List(r) \/ Reset(r) \/ Clear(r)

Goroutine(r) == \/ Fetch(r) \/ Marshal(r) \/ ExpandCustomer(r)
                \/ ExpandProduct(r) \/ Number(r) \/ Stamp(r) \/ Save(r)

Next == \/ \E r \in Requests : \E in \in Inputs[r] : Arrive(r, in)
        \/ \E r \in Requests : Handler(r) \/ Goroutine(r)
        \/ Tick

Spec == Init /\ [][Next]_vars

FairSpec == /\ Spec
            /\ \A r \in Requests : WF_vars(Handler(r)) /\ WF_vars(Goroutine(r))

---------------------------------------------------------------------------
(* Types.                                                                  *)

Payload == [fields : [Fields -> Nat \cup {Unset}],
            refs : [References -> Reference \cup {"torn"}]]

Pcs == {"idle", "wire", "reread", "write", "expand", "answer", "clear", "done"}

Steps == {"none", "fetch", "marshal", "customer", "product", "number", "stamp",
          "save"}

Todos == Names \cup {"priceProduct"} \cup Repos

\* Every variable has its type, and what is stored, announced or answered with
\* is a document.
TypeOK ==
    /\ store \in [Repos -> [Ids -> Doc \cup {NoDoc}]]
    /\ pc \in [Requests -> Pcs]
    /\ input \in [Requests -> Input]
    /\ todo \in [Requests -> Seq(Todos)]
    /\ status \in [Requests -> Statuses]
    /\ obj \in [Cells -> Doc \cup {NoDoc}]
    /\ task \in [Requests -> Steps]
    /\ saved \subseteq Requests
    /\ payload \in [Requests -> Doc \cup {NoDoc}]
    /\ answer \in [Requests -> Payload \cup {NoDoc}]
    /\ told \in Seq([by : Requests, doc : Doc])
    /\ read \in [Cells -> [Fields -> Nat \cup {Unset}]]
    /\ serial \in [Repos -> [Ids -> [Fields -> Nat \cup {Unset}]]]
    /\ clashed \subseteq Repos \X Ids

---------------------------------------------------------------------------
(* Safety.                                                                 *)

\* A request that was not answered with a 200 has left nothing behind, in no
\* repository, and is not announced: also one that was refused half way,
\* because a reset cleared the repository between its accesses.  (The update
\* of a subscription in sections, which is refused late, is in Subscriptions.)
RefusedLeavesNothing ==
    \A r \in Requests : pc[r] = "done" /\ status[r] # 200 =>
        /\ \A repo \in Repos, i \in Ids :
              store[repo][i] # NoDoc =>
                 /\ ~(input[r].route = "create" /\ Repo(r) = repo /\ i = r)
                 /\ \A f \in Fields : store[repo][i].fields[f] # r
        /\ \A n \in 1 .. Len(told) : told[n].by # r

\* What clients are told in the events of a request is what it was answered
\* with, however late they are made and whatever others did since; only ids
\* are expanded, in the events of subscriptions all of them.  A new
\* subscription is fetched again, so this is not said of its events.
EventTellsAnswer ==
    \A n \in 1 .. Len(told) :
        LET r == told[n].by
            d == told[n].doc
            a == obj[<<r, "answered">>]
        IN  Cell(r)[2] = "answered" =>
              /\ d.fields = a.fields
              /\ \A x \in References : d.refs[x] = "none" <=> a.refs[x] = "none"
              /\ Repo(r) = "subscriptions" =>
                    \A x \in References : d.refs[x] # "id"

\* What is expanded for an event or an answer, in an object that others hold
\* too, never gets into a repository.
StoreStaysBare ==
    \A repo \in Repos, i \in Ids : store[repo][i] # NoDoc => Bare(store[repo][i])

\* Updates of one document that do not overlap all show in it: each field has
\* the value of the last update that set it, wherever metadata is merged and
\* wherever it is replaced.  Only an update that writes over what it has not
\* read may lose another.
UpdatesAccumulate ==
    \A repo \in Repos, i \in Ids :
        store[repo][i] # NoDoc /\ <<repo, i>> \notin clashed =>
            store[repo][i].fields = serial[repo][i]

\* GET /v1/subscriptions/{id} expands what expand[] names, and nothing else.
\* A price that is stored and named after the product undoes its expansion.
ExpandedAsAsked ==
    \A r \in Requests :
        LET asked == input[r].asked
            refs  == answer[r].refs
            Asks(name) == \E n \in 1 .. Len(asked) : asked[n] = name
            AsksLast == \E n \in 1 .. Len(asked) :
                           /\ asked[n] = "product"
                           /\ \A m \in n + 1 .. Len(asked) : asked[m] # "price"
        IN  /\ pc[r] = "done" /\ status[r] = 200
            /\ input[r].route = "retrieve"
            /\ Repo(r) = "subscriptions"
            => /\ refs["customer"] # "none" =>
                    (refs["customer"] = "id" <=> ~Asks("customer"))
               /\ refs["product"] \in {"object", "placeholder"} => Asks("product")
               /\ refs["product"] = "id" => ~AsksLast

\* Events sort in the order they were made (see EventSequence).
EventsSort == Stamps!SortedByTime

---------------------------------------------------------------------------
(* Liveness.                                                               *)

Tells(r) == \E n \in 1 .. Len(told) : told[n].by = r

\* Each successful change of a customer, product or subscription and each new
\* price is announced in the end, whatever is cleared meanwhile.  (Only the
\* goroutine of a new subscription fetches it, and may find it gone.)
SuccessIsTold ==
    \A r \in Requests :
        (/\ pc[r] = "answer"
         /\ input[r].route \in {"create", "update"}
         /\ Repo(r) \notin {"configs", "endpoints"}
         /\ Cell(r)[2] = "answered") ~> (status[r] = 200 /\ Tells(r))
=============================================================================
