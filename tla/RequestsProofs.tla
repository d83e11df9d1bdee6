-------------------------- MODULE RequestsProofs --------------------------
(***************************************************************************)
(* What requests leave in the repositories and in their events, for any    *)
(* number of requests and any inputs.                                      *)
(***************************************************************************)
EXTENDS Requests, SequenceTheorems, TLAPS

---------------------------------------------------------------------------
(* Documents.                                                              *)

Value == Nat \cup {Unset}

LEMMA DocParts ==
    ASSUME NEW d \in Doc
    PROVE  /\ d.fields \in [Fields -> Value]
           /\ d.refs \in [References -> Reference]
  BY DEF Doc, Value

LEMMA DocMade ==
    ASSUME NEW fields \in [Fields -> Value], NEW refs \in [References -> Reference]
    PROVE  [fields |-> fields, refs |-> refs] \in Doc
  BY DEF Doc, Value

LEMMA RefType ==
    ASSUME NEW customer \in Reference, NEW product \in Reference
    PROVE  /\ Ref(customer, product) \in [References -> Reference]
           /\ Ref(customer, product)["customer"] = customer
           /\ Ref(customer, product)["product"] = product
  BY DEF Ref, References

\* The references of a new document are ids.
LEMMA NewRefs ==
    ASSUME NEW repo \in Repos, NEW refers \in BOOLEAN
    PROVE  /\ RefsOfNew(repo, refers) \in [References -> Reference]
           /\ \A x \in References : RefsOfNew(repo, refers)[x] \in {"none", "id"}
           /\ RefsOfNew("subscriptions", refers)["product"] = "none"
<1>1. {"none", "id"} \subseteq Reference
  BY DEF Reference
<1>2. \A x \in References : x \in {"customer", "product"}
  BY DEF References
<1>3. ASSUME NEW customer \in {"none", "id"}, NEW product \in {"none", "id"}
      PROVE  /\ Ref(customer, product) \in [References -> Reference]
             /\ \A x \in References : Ref(customer, product)[x] \in {"none", "id"}
  <2>1. customer \in Reference /\ product \in Reference
    BY <1>1
  <2> HIDE DEF Ref
  <2>2. /\ Ref(customer, product) \in [References -> Reference]
        /\ Ref(customer, product)["customer"] = customer
        /\ Ref(customer, product)["product"] = product
    BY <2>1, RefType
  <2> QED BY <1>2, <2>2
<1>4. \/ RefsOfNew(repo, refers) = Ref("id", "none")
      \/ RefsOfNew(repo, refers) = Ref("none", "id")
      \/ RefsOfNew(repo, refers) = Ref("none", "none")
  BY DEF RefsOfNew, NoRefs
<1>5. /\ RefsOfNew(repo, refers) \in [References -> Reference]
      /\ \A x \in References : RefsOfNew(repo, refers)[x] \in {"none", "id"}
  BY <1>3, <1>4
<1>6. RefsOfNew("subscriptions", refers)["product"] = "none"
  BY <1>1, RefType DEF RefsOfNew, NoRefs
<1> QED BY <1>5, <1>6

LEMMA NewDoc ==
    ASSUME NEW repo \in Repos, NEW r \in Nat, NEW sets \in SUBSET Fields,
           NEW refers \in BOOLEAN
    PROVE  /\ New(repo, r, sets, refers) \in Doc
           /\ New(repo, r, sets, refers).refs = RefsOfNew(repo, refers)
           /\ New(repo, r, sets, refers).fields = Given(r, SetByNew(repo, sets))
<1>1. Given(r, SetByNew(repo, sets)) \in [Fields -> Value]
  BY DEF Given, Value
<1>2. New(repo, r, sets, refers) \in Doc
  BY <1>1, NewRefs, DocMade DEF New
<1> QED BY <1>2 DEF New

\* The fields after an update that sets some and removes others.
After(d, r, sets, clears) ==
    [f \in Fields |-> IF f \in sets THEN r
                      ELSE IF f \in clears THEN Unset ELSE d[f]]

LEMMA AfterType ==
    ASSUME NEW d \in [Fields -> Value], NEW r \in Nat, NEW sets, NEW clears
    PROVE  After(d, r, sets, clears) \in [Fields -> Value]
  BY DEF After, Value

Sets(in) == IF in.repo = "subscriptions" THEN {"own"} ELSE in.sets

LEMMA MergedDoc ==
    ASSUME NEW d \in Doc, NEW r \in Nat, NEW sets \in SUBSET Fields
    PROVE  /\ Merged(d, r, sets) \in Doc
           /\ Merged(d, r, sets).refs = d.refs
           /\ Merged(d, r, sets).fields = After(d.fields, r, sets, {})
<1> DEFINE fields == [f \in Fields |-> IF f \in sets THEN r ELSE d.fields[f]]
<1>1. Merged(d, r, sets) = [fields |-> fields, refs |-> d.refs]
  BY DEF Merged, Doc
<1>2. fields \in [Fields -> Value]
  BY DocParts DEF Value
<1>3. fields = After(d.fields, r, sets, {})
  BY DEF After
<1> HIDE DEF fields
<1> QED BY <1>1, <1>2, <1>3, DocMade, DocParts

\* The keys that are gone when metadata is replaced.
Lost(sets) == IF sets \cap Metadata # {} THEN Metadata \ sets ELSE {}

LEMMA ReplacedDoc ==
    ASSUME NEW d \in Doc, NEW r \in Nat, NEW sets \in SUBSET Fields
    PROVE  /\ Replaced(d, r, sets) \in Doc
           /\ Replaced(d, r, sets).refs = d.refs
           /\ Replaced(d, r, sets).fields =
                After(d.fields, r, sets, Lost(sets))
<1> DEFINE fields == [f \in Fields |->
        IF f \in sets THEN r
        ELSE IF f \in Metadata /\ sets \cap Metadata # {} THEN Unset
        ELSE d.fields[f]]
<1>1. Replaced(d, r, sets) = [fields |-> fields, refs |-> d.refs]
  BY DEF Replaced, Doc
<1>2. fields \in [Fields -> Value]
  BY DocParts DEF Value
<1>3. \A f \in Fields : f \notin sets =>
         (f \in Lost(sets) <=> f \in Metadata /\ sets \cap Metadata # {})
  BY DEF Lost
<1>4. fields = After(d.fields, r, sets, Lost(sets))
  BY <1>3 DEF After
<1> HIDE DEF fields
<1> QED BY <1>1, <1>2, <1>4, DocMade, DocParts

\* An update changes what it was asked to, and no reference.
LEMMA ChangedDoc ==
    ASSUME NEW in \in Input, in.route = "update", NEW d \in Doc, NEW r \in Nat
    PROVE  LET e == Changed(in.repo, d, r, in.sets)
           IN  /\ e \in Doc
               /\ e.refs = d.refs
               /\ e.fields = After(d.fields, r, Sets(in), Cleared(in.repo, Sets(in)))
<1>1. in.repo \in Repos \ {"prices", "configs"} /\ in.sets \in SUBSET Fields
  BY DEF Input
<1>2. CASE in.repo = "customers"
  BY <1>1, <1>2, MergedDoc DEF Changed, Sets, Cleared
<1>3. CASE in.repo = "subscriptions"
  <2>1. {"own"} \in SUBSET Fields
    BY DEF Fields
  <2> QED BY <1>3, <2>1, MergedDoc DEF Changed, Sets, Cleared
<1>4. CASE in.repo \in {"products", "endpoints"}
  BY <1>1, <1>4, ReplacedDoc DEF Changed, Sets, Cleared, Lost
<1> QED BY <1>1, <1>2, <1>3, <1>4 DEF Repos

\* Expanding changes no field, and makes no reference come or go.
LEMMA ExpandDoc ==
    ASSUME NEW d \in Doc, NEW x \in References, NEW there \in BOOLEAN
    PROVE  LET e == ExpandId(d, x, there)
           IN  /\ e \in Doc
               /\ e.fields = d.fields
               /\ e.refs[x] # "id"
               /\ \A y \in References : e.refs[y] = "none" <=> d.refs[y] = "none"
               /\ \A y \in References : y # x => e.refs[y] = d.refs[y]
<1> DEFINE refs == [d.refs EXCEPT ![x] = Fetched(there)]
<1>1. Fetched(there) \in Reference \ {"none", "id"}
  BY DEF Fetched, Reference
<1>2. refs \in [References -> Reference] /\ d.refs \in [References -> Reference]
  BY <1>1, DocParts
<1>3. CASE d.refs[x] = "id"
  <2>1. ExpandId(d, x, there) = [fields |-> d.fields, refs |-> refs]
    BY <1>3 DEF ExpandId, Doc
  <2>2. \A y \in References : refs[y] = IF y = x THEN Fetched(there) ELSE d.refs[y]
    BY <1>2
  <2> HIDE DEF refs
  <2> QED BY <1>1, <1>2, <1>3, <2>1, <2>2, DocMade, DocParts
<1>4. CASE d.refs[x] # "id"
  BY <1>4 DEF ExpandId
<1> QED BY <1>3, <1>4

LEMMA ExpandAgainDoc ==
    ASSUME NEW d \in Doc, NEW x \in References, NEW there \in BOOLEAN
    PROVE  ExpandAgain(d, x, there) \in Doc
  BY DEF ExpandAgain, Fetched, Doc, Reference

LEMMA ReplacePriceDoc ==
    ASSUME NEW d \in Doc, NEW price \in Doc \cup {NoDoc}
    PROVE  ReplacePrice(d, price) \in Doc
  BY DEF ReplacePrice, Doc, References

---------------------------------------------------------------------------
(* The inductive invariant.                                                *)

Born(i)     == pc[i] \notin {"idle", "wire"}
Answered(r) == pc[r] = "answer" \/ (pc[r] = "done" /\ status[r] = 200)

\* The request has not been refused since it wrote.
Wrote(r) == pc[r] = "reread" \/ Answered(r)

Shown(r) == obj[<<r, "answered">>]
Own(r)     == obj[<<r, "own">>]

\* What a handler, or a lifecycle, is going to write.
Pending(r)    == pc[r] = "write"
PendingOwn(r) == /\ Lifecycle(input[r])
                 /\ r \notin saved
                 /\ task[r] \notin {"none", "fetch"}

\* The references a stored document may have: no update changes them.
RefsAt(repo, i) == IF repo = "subscriptions" /\ i = 0 THEN {Ref("id", "id")}
                   ELSE {RefsOfNew(repo, refers) : refers \in BOOLEAN}

\* A stored document is its maker's, and shows only who succeeded so far and
\* was about this document.
DocFits(repo, i) ==
    store[repo][i] # NoDoc =>
       /\ store[repo][i].refs \in RefsAt(repo, i)
       /\ i # 0 => Wrote(i) /\ Repo(i) = repo /\ About(i) = i
       /\ \A f \in Fields : \A q \in Requests : store[repo][i].fields[f] = q =>
            Wrote(q) /\ Repo(q) = repo /\ About(q) = i

Documents == \A repo \in Repos : \A i \in Ids : DocFits(repo, i)

\* What r is going to write is as what is stored; but others that it shows may
\* have been refused, if a reset removed the document since.
Fit(r, d) ==
    /\ d \in Doc
    /\ d.refs \in RefsAt(Repo(r), About(r))
    /\ About(r) \in Requests => Born(About(r))
    /\ \A f \in Fields : \A q \in Requests : d.fields[f] = q =>
         \/ q = r
         \/ Born(q) /\ Repo(q) = Repo(r) /\ About(q) = About(r)
              /\ (Wrote(q) \/ Missing(r))

HeldOf(r) == /\ Pending(r) => Fit(r, Shown(r))
             /\ PendingOwn(r) => Fit(r, Own(r))

Held == \A r \in Requests : HeldOf(r)

\* It differs from what was read in what the request sets.
BasisOf(r) ==
    /\ Pending(r) => Shown(r).fields =
         After(read[<<r, "answered">>], r, Sets(input[r]),
               Cleared(Repo(r), Sets(input[r])))
    /\ PendingOwn(r) => Own(r).fields = read[<<r, "own">>]

Basis == \A r \in Requests : BasisOf(r)

\* Who is where has what it needs there.
FlowOf(r) ==
    /\ pc[r] = "write" => input[r].route = "update"
    /\ pc[r] \in {"write", "expand"} => Shown(r) \in Doc
    /\ Answered(r) /\ (pc[r] = "answer" \/ task[r] # "none") => Shown(r) \in Doc
    /\ pc[r] = "expand" => todo[r] # <<>>
    /\ pc[r] = "clear" => todo[r] # <<>> /\ todo[r] \in Seq(Repos)
    /\ pc[r] = "reread" => input[r].route \in {"create", "update"}
    /\ task[r] # "none" => Answered(r)
    /\ task[r] \in {"fetch", "save"} => Lifecycle(input[r])
    /\ task[r] = "save" => r \notin saved
    /\ task[r] = "marshal" => Repo(r) # "subscriptions"
    /\ task[r] \notin {"none", "fetch"} => obj[Cell(r)] \in Doc
    /\ task[r] \in {"product", "number", "stamp"} => payload[r] \in Doc

Flow == \A r \in Requests : FlowOf(r)

\* d is a copy of a, with its references filled in as far as step shows.
CopyOf(r, d, a, step) ==
    /\ d.fields = a.fields
    /\ \A x \in References : d.refs[x] = "none" <=> a.refs[x] = "none"
    /\ Repo(r) = "subscriptions" =>
         /\ d.refs["customer"] # "id"
         /\ step # "product" => d.refs["product"] # "id"

PayloadOf(r) ==
    task[r] \in {"product", "number", "stamp"} /\ ~Lifecycle(input[r]) =>
        CopyOf(r, payload[r], Shown(r), task[r])

Payloads == \A r \in Requests : PayloadOf(r)

TaleOf(n) ==
    LET r == told[n].by
    IN  /\ Answered(r)
        /\ ~Lifecycle(input[r]) => CopyOf(r, told[n].doc, Shown(r), "stamp")

Told == \A n \in 1 .. Len(told) : TaleOf(n)

\* No update has been counted of a document that was not made yet.
Blanks == \A i \in Requests : ~Born(i) =>
             \A repo \in Repos : serial[repo][i] = Blank

IInv == /\ TypeOK /\ Flow /\ Documents /\ Held /\ Basis /\ UpdatesAccumulate
        /\ Blanks /\ Payloads /\ Told

---------------------------------------------------------------------------
(* What a step leaves as it was.                                           *)

Whose == {"answered", "own"}

\* A step of r's handler or goroutine.
Frame(r) ==
    \A q \in Requests : q # r =>
        /\ pc'[q] = pc[q] /\ input'[q] = input[q] /\ todo'[q] = todo[q]
        /\ status'[q] = status[q] /\ task'[q] = task[q] /\ payload'[q] = payload[q]
        /\ q \in saved' <=> q \in saved
        /\ \A w \in Whose : obj'[<<q, w>>] = obj[<<q, w>>] /\ read'[<<q, w>>] = read[<<q, w>>]

\* Requests go forward, and documents are made by their requests only.
Evolves ==
    /\ \A q \in Requests : Born(q) => Born(q)' /\ input'[q] = input[q]
    /\ \A q \in Requests : Wrote(q) => Wrote(q)' \/ Missing(q)'
    /\ \A repo \in Repos : \A i \in Ids :
         store[repo][i] = NoDoc /\ store'[repo][i] # NoDoc =>
            i \in Requests /\ ~Born(i)

LEMMA Cells2 ==
    ASSUME NEW r \in Requests
    PROVE  /\ \A w \in Whose : <<r, w>> \in Cells
           /\ Cell(r) \in Cells
           /\ Lifecycle(input[r]) => Cell(r) = <<r, "own">>
           /\ ~Lifecycle(input[r]) => Cell(r) = <<r, "answered">>
  BY DEF Cells, Cell, Whose

LEMMA WroteBorn ==
    ASSUME NEW r \in Requests, Wrote(r) PROVE Born(r)
  BY DEF Wrote, Answered, Born

LEMMA PendingBorn ==
    ASSUME NEW r \in Requests, Flow, Pending(r) \/ PendingOwn(r) PROVE Born(r)
  BY DEF Flow, FlowOf, Pending, PendingOwn, Answered, Born

LEMMA AboutType ==
    ASSUME TypeOK, NEW r \in Requests
    PROVE  /\ About(r) \in Ids /\ Repo(r) \in Repos /\ input[r] \in Input
           /\ Stored(r) \in Doc \cup {NoDoc}
<1>1. input[r] \in Input
  BY DEF TypeOK
<1>2. About(r) \in Ids /\ Repo(r) \in Repos
  BY <1>1, RequestsAssumption DEF Input, About, Repo, Requests, Ids
<1> QED BY <1>1, <1>2 DEF TypeOK, Stored

LEMMA FitKept ==
    ASSUME NEW r \in Requests, NEW w \in Whose, Evolves, Born(r), TypeOK,
           Fit(r, obj[<<r, w>>]), obj'[<<r, w>>] = obj[<<r, w>>]
    PROVE  Fit(r, obj[<<r, w>>])'
<1> DEFINE d == obj[<<r, w>>]
<1>1. input'[r] = input[r]
  BY DEF Evolves
<1>2. Repo(r)' = Repo(r) /\ About(r)' = About(r)
  BY <1>1 DEF Repo, About
<1>3. Missing(r) => Missing(r)'
  BY <1>2, AboutType DEF Evolves, Missing, Stored, Fit
<1>4. \A q \in Requests : Born(q) =>
        Born(q)' /\ Repo(q)' = Repo(q) /\ About(q)' = About(q)
  BY DEF Evolves, Repo, About
<1>5. \A q \in Requests : Wrote(q) /\ Repo(q) = Repo(r) /\ About(q) = About(r) =>
        Wrote(q)' \/ Missing(r)'
  BY <1>2, <1>4, WroteBorn DEF Evolves, Missing, Stored
<1>6. \A f \in Fields : \A q \in Requests : d'.fields[f] = q =>
        \/ q = r
        \/ Born(q)' /\ Repo(q)' = Repo(r)' /\ About(q)' = About(r)'
             /\ (Wrote(q)' \/ Missing(r)')
  BY <1>2, <1>3, <1>4, <1>5 DEF Fit
<1>7. d' \in Doc /\ d'.refs \in RefsAt(Repo(r), About(r))'
  BY <1>2 DEF Fit, RefsAt
<1>8. About(r)' \in Requests => Born(About(r))'
  BY <1>2, <1>4 DEF Fit, Evolves, Born
<1> QED BY <1>6, <1>7, <1>8 DEF Fit

LEMMA DocKept ==
    ASSUME NEW repo \in Repos, NEW i \in Ids, Evolves, DocFits(repo, i),
           store'[repo][i] \in {store[repo][i], NoDoc}
    PROVE  DocFits(repo, i)'
<1> SUFFICES ASSUME store'[repo][i] # NoDoc, store'[repo][i] = store[repo][i]
             PROVE  DocFits(repo, i)'
  BY DEF DocFits
<1>1. \A q \in Requests : Born(q) => Repo(q)' = Repo(q) /\ About(q)' = About(q)
  BY DEF Evolves, Repo, About
<1>2. \A q \in Requests : Wrote(q) /\ Repo(q) = repo /\ About(q) = i =>
        Wrote(q)' /\ Repo(q)' = repo /\ About(q)' = i
  BY <1>1, WroteBorn DEF Evolves, Missing, Stored
<1>3. i # 0 => i \in Requests
  BY RequestsAssumption DEF Ids, Requests
<1> QED BY <1>2, <1>3 DEF DocFits, RefsAt

LEMMA OthersKept ==
    ASSUME IInv, NEW r \in Requests, Frame(r), Evolves
    PROVE  \A q \in Requests : q # r =>
              FlowOf(q)' /\ HeldOf(q)' /\ BasisOf(q)' /\ PayloadOf(q)'
<1> SUFFICES ASSUME NEW q \in Requests, q # r
             PROVE  FlowOf(q)' /\ HeldOf(q)' /\ BasisOf(q)' /\ PayloadOf(q)'
  OBVIOUS
<1>1. /\ pc'[q] = pc[q] /\ input'[q] = input[q] /\ todo'[q] = todo[q]
      /\ status'[q] = status[q] /\ task'[q] = task[q] /\ payload'[q] = payload[q]
      /\ q \in saved' <=> q \in saved
      /\ obj'[<<q, "answered">>] = obj[<<q, "answered">>]
      /\ obj'[<<q, "own">>] = obj[<<q, "own">>]
      /\ read'[<<q, "answered">>] = read[<<q, "answered">>]
      /\ read'[<<q, "own">>] = read[<<q, "own">>]
  BY DEF Frame, Whose
<1>2. Cell(q)' = Cell(q) /\ obj'[Cell(q)] = obj[Cell(q)]
  BY <1>1 DEF Cell
<1>3. FlowOf(q)'
  BY <1>1, <1>2 DEF IInv, Flow, FlowOf, Repo, Answered, Shown
<1>4. HeldOf(q)'
  <2>1. ASSUME Pending(q)' PROVE Fit(q, Shown(q))'
    <3>1. Pending(q) /\ Born(q)
      BY <1>1, <2>1, PendingBorn DEF Pending, IInv
    <3>2. Fit(q, obj[<<q, "answered">>])
      BY <3>1 DEF IInv, Held, HeldOf, Shown
    <3> QED BY <1>1, <3>1, <3>2, FitKept DEF Whose, IInv, Shown
  <2>2. ASSUME PendingOwn(q)' PROVE Fit(q, Own(q))'
    <3>1. PendingOwn(q) /\ Born(q)
      BY <1>1, <2>2, PendingBorn DEF PendingOwn, IInv
    <3>2. Fit(q, obj[<<q, "own">>])
      BY <3>1 DEF IInv, Held, HeldOf, Own
    <3> QED BY <1>1, <3>1, <3>2, FitKept DEF Whose, IInv, Own
  <2> QED BY <2>1, <2>2 DEF HeldOf
<1>5. BasisOf(q)'
  BY <1>1 DEF IInv, Basis, BasisOf, Pending, PendingOwn, Shown, Own, Repo
<1>6. PayloadOf(q)'
  BY <1>1 DEF IInv, Payloads, PayloadOf, CopyOf, Shown, Repo
<1> QED BY <1>3, <1>4, <1>5, <1>6

\* What events tell of a request, once it is answered with this object.
SameTale(r) ==
    Answered(r) =>
        /\ Answered(r)' /\ input'[r] = input[r]
        /\ Shown(r)'.fields = Shown(r).fields
        /\ \A x \in References : Shown(r)'.refs[x] = "none" <=> Shown(r).refs[x] = "none"

LEMMA Element ==
    ASSUME NEW S, NEW s \in Seq(S), NEW n \in 1 .. Len(s) PROVE s[n] \in S
  OBVIOUS

LEMMA Tellers ==
    ASSUME TypeOK, NEW n \in 1 .. Len(told)
    PROVE  told[n].by \in Requests /\ told[n].doc \in Doc
<1>1. told \in Seq([by : Requests, doc : Doc])
  BY DEF TypeOK
<1>2. told[n] \in [by : Requests, doc : Doc]
  BY <1>1, Element
<1> QED BY <1>2

\* It is still true of event n that it shows what its request was answered with.
StillTold(n) ==
    LET r == told[n].by
    IN  /\ Answered(r)'
        /\ ~Lifecycle(input'[r]) => CopyOf(r, told[n].doc, Shown(r), "stamp")'

LEMMA TaleKept ==
    ASSUME IInv, NEW r \in Requests, Frame(r), SameTale(r),
           NEW n \in 1 .. Len(told), told'[n] = told[n]
    PROVE  StillTold(n)
<1>1. PICK q \in Requests : q = told[n].by
  BY Tellers DEF IInv
<1>2. /\ Answered(q)
      /\ ~Lifecycle(input[q]) => CopyOf(q, told[n].doc, Shown(q), "stamp")
  BY <1>1 DEF IInv, Told, TaleOf
<1>3. /\ Answered(q)' /\ input'[q] = input[q]
      /\ Shown(q)'.fields = Shown(q).fields
      /\ \A x \in References : Shown(q)'.refs[x] = "none" <=> Shown(q).refs[x] = "none"
  <2>1. CASE q = r
    BY <1>2, <2>1 DEF SameTale
  <2>2. CASE q # r
    BY <1>2, <2>2 DEF Frame, Whose, Shown, Answered
  <2> QED BY <2>1, <2>2
<1>4. ~Lifecycle(input'[q]) => CopyOf(q, told[n].doc, Shown(q), "stamp")'
  BY <1>2, <1>3 DEF CopyOf, Repo
<1> QED BY <1>1, <1>3, <1>4 DEF StillTold

LEMMA ToldKept ==
    ASSUME IInv, NEW r \in Requests, Frame(r), SameTale(r), told' = told
    PROVE  Told'
<1>1. \A n \in 1 .. Len(told) : StillTold(n)
  BY TaleKept
<1>2. \A n \in 1 .. Len(told) : StillTold(n) => TaleOf(n)'
  BY DEF StillTold, TaleOf, CopyOf, Shown, Repo, Answered
<1> QED BY <1>1, <1>2 DEF Told

\* What is r's own holds after the step.
OwnPart(r) == FlowOf(r)' /\ HeldOf(r)' /\ BasisOf(r)' /\ PayloadOf(r)'

LEMMA PartsKept ==
    ASSUME IInv, NEW r \in Requests, Frame(r), Evolves, OwnPart(r)
    PROVE  Flow' /\ Held' /\ Basis' /\ Payloads'
  BY OthersKept DEF OwnPart, Flow, Held, Basis, Payloads

\* A step that writes to no repository and triggers no event.
LEMMA CalmKept ==
    ASSUME IInv, NEW r \in Requests, Frame(r), Evolves, OwnPart(r), TypeOK',
           SameTale(r), told' = told, store' = store, serial' = serial,
           clashed' = clashed
    PROVE  IInv'
<1>1. Documents'
  BY DocKept DEF IInv, Documents
<1>2. UpdatesAccumulate'
  BY DEF IInv, UpdatesAccumulate
<1>3. Blanks'
  BY DEF IInv, Blanks, Evolves
<1> QED BY <1>1, <1>2, <1>3, PartsKept, ToldKept DEF IInv

LEMMA EvolvesIf ==
    ASSUME TypeOK, NEW r \in Requests, Frame(r), store' = store,
           Born(r) => Born(r)' /\ input'[r] = input[r],
           Wrote(r) => Wrote(r)' \/ Missing(r)
    PROVE  Evolves
<1>1. \A q \in Requests : Born(q) => Born(q)' /\ input'[q] = input[q]
  BY DEF Frame, Born
<1>2. \A q \in Requests : Wrote(q) => Wrote(q)' \/ Missing(q)'
  <2> SUFFICES ASSUME NEW q \in Requests, Wrote(q) PROVE Wrote(q)' \/ Missing(q)'
    OBVIOUS
  <2>1. input'[q] = input[q]
    BY <1>1, WroteBorn
  <2>2. CASE q = r
    BY <2>1, <2>2 DEF Missing, Stored, Repo, About
  <2>3. CASE q # r
    BY <2>3 DEF Frame, Wrote, Answered
  <2> QED BY <2>2, <2>3
<1> QED BY <1>1, <1>2 DEF Evolves

---------------------------------------------------------------------------
(* Handlers.                                                               *)

\* Before a request is answered nothing is announced of it.
LEMMA Unanswered ==
    ASSUME IInv, NEW r \in Requests, ~Answered(r)
    PROVE  /\ task[r] = "none"
           /\ SameTale(r)
           /\ ~PendingOwn(r)
  BY DEF IInv, Flow, FlowOf, SameTale, PendingOwn

\* A handler that neither read for a write nor wrote, nor has its answer.
LEMMA HandlerKept ==
    ASSUME IInv, NEW r \in Requests, Frame(r), TypeOK',
           ~Answered(r), pc[r] # "reread",
           Born(r) => Born(r)' /\ input'[r] = input[r],
           task' = task, told' = told, store' = store, serial' = serial,
           clashed' = clashed,
           FlowOf(r)', pc'[r] # "write"
    PROVE  IInv'
<1>1. Evolves
  BY EvolvesIf DEF IInv, Wrote
<1>2. HeldOf(r)' /\ BasisOf(r)' /\ PayloadOf(r)'
  BY Unanswered DEF HeldOf, BasisOf, PayloadOf, Pending, PendingOwn
<1> QED BY <1>1, <1>2, Unanswered, CalmKept DEF OwnPart

LEMMA ArriveKept ==
    ASSUME IInv, NEW r \in Requests, NEW in \in Inputs[r], Arrive(r, in)
    PROVE  IInv'
<1> USE DEF Arrive, taskVars, historyVars
<1>1. TypeOK /\ pc[r] = "idle" /\ ~Answered(r)
  BY DEF IInv, Answered
<1>2. in \in Input /\ in.asked \in Seq(Todos)
  <2>1. in \in Input
    BY RequestsAssumption
  <2>2. in.asked \in Seq(Names)
    BY <2>1 DEF Input
  <2>3. Names \subseteq Todos
    BY DEF Todos
  <2> HIDE DEF Arrive
  <2> QED BY <2>1, <2>2, <2>3
<1>3. Frame(r)
  BY <1>1 DEF Frame, TypeOK
<1>4. TypeOK'
  BY <1>1, <1>2 DEF TypeOK, Pcs
<1>5. pc'[r] = "wire" /\ task[r] = "none" /\ task' = task
  BY <1>1, Unanswered DEF TypeOK
<1>6. FlowOf(r)'
  BY <1>5 DEF FlowOf, Repo, Answered
<1>7. ~Born(r)
  BY <1>1 DEF Born
<1> QED BY <1>1, <1>3, <1>4, <1>5, <1>6, <1>7, HandlerKept

\* Refused before it wrote, or after: what it was about is gone.
LEMMA FinishKept ==
    ASSUME IInv, NEW r \in Requests, NEW code \in Statuses, Finish(r, code),
           ~Answered(r), pc[r] = "reread" => Missing(r)
    PROVE  IInv'
<1> USE DEF Finish, taskVars, historyVars
<1>1. TypeOK
  BY DEF IInv
<1>2. Frame(r)
  BY <1>1 DEF Frame, TypeOK
<1>3. TypeOK'
  BY <1>1 DEF TypeOK, Pcs
<1>4. pc'[r] = "done" /\ task[r] = "none" /\ task' = task
  BY <1>1, Unanswered DEF TypeOK
<1>5. FlowOf(r)'
  BY <1>4 DEF FlowOf, Repo, Answered
<1>6. Evolves
  BY <1>1, <1>2, <1>4, EvolvesIf DEF Wrote, Born
<1>7. HeldOf(r)' /\ BasisOf(r)' /\ PayloadOf(r)'
  BY <1>4, Unanswered DEF HeldOf, BasisOf, PayloadOf, Pending, PendingOwn
<1> QED BY <1>2, <1>3, <1>5, <1>6, <1>7, Unanswered, CalmKept DEF OwnPart

\* What a request finds stored is fit to be changed and written.
LEMMA StoredFits ==
    ASSUME IInv, NEW r \in Requests, ~Missing(r)
    PROVE  Stored(r) \in Doc /\ Fit(r, Stored(r))
<1>1. About(r) \in Ids /\ Repo(r) \in Repos /\ Stored(r) \in Doc
  BY AboutType DEF IInv, Missing
<1>2. DocFits(Repo(r), About(r))
  BY <1>1 DEF IInv, Documents
<1>3. About(r) \in Requests => About(r) # 0
  BY RequestsAssumption DEF Requests
<1> QED BY <1>1, <1>2, <1>3, WroteBorn DEF DocFits, Fit, Missing, Stored

LEMMA ReadKept ==
    ASSUME IInv, NEW r \in Requests, Read(r) PROVE IInv'
<1>1. TypeOK /\ pc[r] = "wire" /\ ~Answered(r) /\ input[r].route = "update"
  BY DEF IInv, Read, Starts, Answered
<1>2. CASE Finish(r, 404) \/ Finish(r, 500)
  BY <1>1, <1>2, FinishKept DEF Statuses
<1>3. CASE ~Finish(r, 404) /\ ~Finish(r, 500)
  <2> DEFINE d == Changed(Repo(r), Stored(r), r, input[r].sets)
  <2>1. /\ ~Missing(r)
        /\ obj' = [obj EXCEPT ![<<r, "answered">>] = d]
        /\ read' = [read EXCEPT ![<<r, "answered">>] = Stored(r).fields]
        /\ pc' = [pc EXCEPT ![r] = "write"]
        /\ UNCHANGED <<store, input, todo, status, answer, taskVars, serial, clashed,
                       stampVars>>
    BY <1>3 DEF Read, NotFound, Holds
  <2>2. Stored(r) \in Doc /\ Fit(r, Stored(r))
    BY <2>1, StoredFits
  <2>3. r \in Nat /\ input[r] \in Input
    BY <1>1, AboutType, RequestsAssumption DEF Requests
  <2>4. /\ d \in Doc
        /\ d.refs = Stored(r).refs
        /\ d.fields = After(Stored(r).fields, r, Sets(input[r]),
                            Cleared(Repo(r), Sets(input[r])))
    BY <1>1, <2>2, <2>3, ChangedDoc DEF Repo
  <2> HIDE DEF d
  <2> USE <2>1 DEF taskVars
  <2>5. /\ pc'[r] = "write" /\ obj'[<<r, "answered">>] = d
        /\ read'[<<r, "answered">>] = Stored(r).fields
        /\ obj' \in [Cells -> Doc \cup {NoDoc}]
        /\ read' \in [Cells -> [Fields -> Value]]
        /\ pc' \in [Requests -> Pcs]
    BY <1>1, <2>2, <2>4, Cells2, DocParts DEF TypeOK, Whose, Pcs, Value
  <2>6. Frame(r)
    BY <1>1 DEF Frame, TypeOK, Cells, Whose
  <2>7. TypeOK'
    BY <1>1, <2>5 DEF TypeOK, Value
  <2>8. Evolves
    BY <1>1, <2>5, <2>6, EvolvesIf DEF Born, Wrote, Answered
  <2>9. task[r] = "none" /\ ~PendingOwn(r) /\ SameTale(r)
    BY <1>1, Unanswered
  <2>10. FlowOf(r)'
    BY <1>1, <2>4, <2>5, <2>9 DEF FlowOf, Repo, Answered, Shown
  <2>11. Fit(r, Shown(r))'
    <3>1. \A q \in Requests : q # r => (Wrote(q) <=> Wrote(q)') /\ (Born(q) => Born(q)')
      BY <2>6 DEF Frame, Wrote, Answered, Born
    <3>2. \A f \in Fields : \A q \in Requests : d.fields[f] = q =>
             q = r \/ Stored(r).fields[f] = q
      BY <2>4, RequestsAssumption DEF After, Requests
    <3>3. \A q \in Requests : Repo(q)' = Repo(q) /\ About(q)' = About(q)
      BY DEF Repo, About
    <3>4. Missing(r)' = Missing(r) /\ Born(r)'
      BY <2>5, <3>3 DEF Missing, Stored, Born
    <3>5. \A f \in Fields : \A q \in Requests : d.fields[f] = q =>
            \/ q = r
            \/ Born(q)' /\ Repo(q)' = Repo(r)' /\ About(q)' = About(r)'
                 /\ (Wrote(q)' \/ Missing(r)')
      BY <2>2, <3>1, <3>2, <3>3, <3>4 DEF Fit
    <3>6. About(r) \in Requests => Born(About(r))'
      BY <2>2, <3>1, <3>3, <3>4 DEF Fit, Born
    <3>7. Shown(r)' = d
      BY <2>5 DEF Shown
    <3> QED BY <2>2, <2>4, <3>3, <3>5, <3>6, <3>7 DEF Fit, RefsAt
  <2>12. HeldOf(r)'
    BY <2>9, <2>11 DEF HeldOf, PendingOwn
  <2>13. BasisOf(r)'
    BY <2>4, <2>5, <2>9 DEF BasisOf, PendingOwn, Shown, Repo
  <2>14. PayloadOf(r)'
    BY <2>9 DEF PayloadOf
  <2> QED BY <2>6, <2>7, <2>8, <2>9, <2>10, <2>12, <2>13, <2>14, CalmKept DEF OwnPart
<1> QED BY <1>2, <1>3

LEMMA RetrieveKept ==
    ASSUME IInv, NEW r \in Requests, Retrieve(r) PROVE IInv'
<1>1. TypeOK /\ pc[r] = "wire" /\ ~Answered(r)
  BY DEF IInv, Retrieve, Starts, Answered
<1>2. CASE Finish(r, 404)
  BY <1>1, <1>2, FinishKept DEF Statuses
<1>3. CASE ~Finish(r, 404)
  <2> DEFINE d == IF Missing(r) THEN Mock ELSE Stored(r)
  <2>1. /\ obj' = [obj EXCEPT ![<<r, "answered">>] = d]
        /\ read' = [read EXCEPT ![<<r, "answered">>] = d.fields]
        /\ pc' = [pc EXCEPT ![r] = IF todo[r] = <<>> THEN "answer" ELSE "expand"]
        /\ UNCHANGED <<store, input, todo, status, answer, taskVars, serial, clashed,
                       stampVars>>
    BY <1>3 DEF Retrieve, NotFound, Holds
  <2>2. Mock \in Doc
    BY RefType, DocMade DEF Mock, Blank, Value, Reference
  <2>3. d \in Doc
    BY <1>1, <2>2, AboutType DEF Missing
  <2> HIDE DEF d
  <2> USE <2>1 DEF taskVars
  <2>4. /\ pc'[r] \in {"answer", "expand"} /\ obj'[<<r, "answered">>] = d
        /\ pc'[r] = "expand" => todo[r] # <<>>
        /\ obj' \in [Cells -> Doc \cup {NoDoc}]
        /\ read' \in [Cells -> [Fields -> Value]]
        /\ pc' \in [Requests -> Pcs]
    BY <1>1, <2>3, Cells2, DocParts DEF TypeOK, Whose, Pcs, Value
  <2>5. Frame(r)
    BY <1>1 DEF Frame, TypeOK, Cells, Whose
  <2>6. TypeOK'
    BY <1>1, <2>4 DEF TypeOK, Value
  <2>7. task[r] = "none"
    BY <1>1, Unanswered
  <2>8. FlowOf(r)'
    BY <2>3, <2>4, <2>7 DEF FlowOf, Repo, Answered, Shown
  <2>9. Born(r)' /\ pc'[r] # "write" /\ ~Born(r)
    BY <1>1, <2>4 DEF Born
  <2> QED BY <1>1, <2>5, <2>6, <2>8, <2>9, HandlerKept
<1> QED BY <1>2, <1>3

LEMMA AnnouncementSteps ==
    ASSUME NEW in
    PROVE  /\ Announcement(in) \in {"none", "fetch", "customer", "marshal"}
           /\ Announcement(in) = "fetch" => Lifecycle(in)
           /\ Lifecycle(in) => Announcement(in) \in {"none", "fetch"}
           /\ Announcement(in) = "marshal" => in.repo # "subscriptions"
  BY DEF Announcement, Trigger

LEMMA RereadKept ==
    ASSUME IInv, NEW r \in Requests, Reread(r) PROVE IInv'
<1>1. TypeOK /\ pc[r] = "reread" /\ ~Answered(r)
  BY DEF IInv, Reread, Answered
<1>2. CASE NotFound(r)
  BY <1>1, <1>2, FinishKept DEF NotFound, Statuses
<1>3. CASE ~NotFound(r)
  <2> DEFINE d == Stored(r)
             step == Announcement(input[r])
  <2>1. /\ ~Missing(r)
        /\ obj' = [obj EXCEPT ![<<r, "answered">>] = d]
        /\ read' = [read EXCEPT ![<<r, "answered">>] = d.fields]
        /\ pc' = [pc EXCEPT ![r] = "answer"]
        /\ task' = [task EXCEPT ![r] = step]
        /\ UNCHANGED <<store, input, todo, status, answer, saved, payload, told,
                       serial, clashed, stampVars>>
    BY <1>3 DEF Reread, Holds
  <2>2. d \in Doc
    BY <2>1, StoredFits
  <2>3. /\ step \in {"none", "fetch", "customer", "marshal"}
        /\ step = "fetch" => Lifecycle(input[r])
        /\ Lifecycle(input[r]) => step \in {"none", "fetch"}
        /\ step = "marshal" => Repo(r) # "subscriptions"
    BY AnnouncementSteps DEF Repo
  <2> HIDE DEF d, step
  <2> USE <2>1
  <2>4. /\ pc'[r] = "answer" /\ task'[r] = step /\ obj'[<<r, "answered">>] = d
        /\ obj' \in [Cells -> Doc \cup {NoDoc}]
        /\ read' \in [Cells -> [Fields -> Value]]
        /\ pc' \in [Requests -> Pcs]
        /\ task' \in [Requests -> Steps]
    BY <1>1, <2>2, <2>3, Cells2, DocParts DEF TypeOK, Whose, Pcs, Value, Steps
  <2>5. Frame(r)
    BY <1>1 DEF Frame, TypeOK, Cells, Whose
  <2>6. TypeOK'
    BY <1>1, <2>4 DEF TypeOK, Value
  <2>7. Answered(r)' /\ ~Lifecycle(input[r]) => Cell(r)' = <<r, "answered">>
    BY <2>4 DEF Answered, Cell
  <2>8. FlowOf(r)'
    BY <2>2, <2>3, <2>4, <2>7 DEF FlowOf, Repo, Answered, Shown, Cell
  <2>9. Evolves
    BY <1>1, <2>4, <2>5, EvolvesIf DEF Born, Wrote, Answered
  <2>10. HeldOf(r)' /\ BasisOf(r)' /\ PayloadOf(r)'
    BY <2>3, <2>4 DEF HeldOf, BasisOf, PayloadOf, Pending, PendingOwn
  <2> QED BY <1>1, <2>5, <2>6, <2>8, <2>9, <2>10, Unanswered, CalmKept DEF OwnPart
<1> QED BY <1>2, <1>3

LEMMA ExpandKept ==
    ASSUME IInv, NEW r \in Requests, ExpandAsked(r) PROVE IInv'
<1> DEFINE c    == <<r, "answered">>
           name == Head(todo[r])
           rest == Tail(todo[r])
           left == IF name = "product" THEN <<"priceProduct">> \o rest ELSE rest
<1>1. TypeOK /\ pc[r] = "expand" /\ ~Answered(r)
  BY DEF IInv, ExpandAsked, Answered
<1>2. obj[c] \in Doc /\ todo[r] # <<>> /\ todo[r] \in Seq(Todos)
  BY <1>1 DEF IInv, Flow, FlowOf, Shown, TypeOK
<1>3. left \in Seq(Todos)
  <2>1. rest \in Seq(Todos)
    BY <1>2
  <2>2. <<"priceProduct">> \in Seq(Todos)
    BY DEF Todos
  <2> QED BY <2>1, <2>2
<1>4. PICK e \in Doc : obj' = [obj EXCEPT ![c] = e]
  <2>1. There("customers") \in BOOLEAN /\ There("products") \in BOOLEAN
    BY DEF There
  <2>2. store["prices"][0] \in Doc \cup {NoDoc}
    BY <1>1, RequestsAssumption DEF TypeOK, Repos, Ids
  <2>3. "customer" \in References /\ "product" \in References
    BY DEF References
  <2>4. \A there \in BOOLEAN : ExpandAgain(obj[c], "customer", there) \in Doc
    BY <1>2, <2>3, ExpandAgainDoc
  <2>5. \A there \in BOOLEAN : ExpandAgain(obj[c], "product", there) \in Doc
    BY <1>2, <2>3, ExpandAgainDoc
  <2>6. ReplacePrice(obj[c], store["prices"][0]) \in Doc
    BY <1>2, <2>2, ReplacePriceDoc
  <2>7. (obj[c].fields # Blank /\ There("customers")) \in BOOLEAN
    BY <2>1
  <2>8. CASE name = "customer"
    BY <2>4, <2>7, <2>8 DEF ExpandAsked
  <2>9. CASE name = "priceProduct"
    BY <2>1, <2>5, <2>9 DEF ExpandAsked
  <2>10. CASE name \notin {"customer", "priceProduct"}
    BY <2>6, <2>10 DEF ExpandAsked
  <2> QED BY <2>8, <2>9, <2>10
<1>5. /\ todo' = [todo EXCEPT ![r] = left]
      /\ pc' = [pc EXCEPT ![r] = IF left = <<>> THEN "answer" ELSE "expand"]
      /\ UNCHANGED <<store, input, status, answer, taskVars, historyVars, stampVars>>
  BY DEF ExpandAsked
<1> HIDE DEF left
<1> USE DEF taskVars, historyVars
<1>6. /\ pc'[r] = IF left = <<>> THEN "answer" ELSE "expand"
      /\ todo'[r] = left /\ obj'[c] = e
      /\ obj' \in [Cells -> Doc \cup {NoDoc}]
      /\ todo' \in [Requests -> Seq(Todos)]
      /\ pc' \in [Requests -> Pcs]
  BY <1>1, <1>3, <1>4, <1>5, Cells2 DEF TypeOK, Whose, Pcs
<1>7. Frame(r)
  BY <1>1, <1>4, <1>5 DEF Frame, TypeOK, Cells, Whose
<1>8. TypeOK'
  BY <1>1, <1>5, <1>6 DEF TypeOK
<1>9. task[r] = "none" /\ task' = task
  BY <1>1, <1>5, Unanswered
<1>10. FlowOf(r)'
  BY <1>6, <1>9 DEF FlowOf, Repo, Answered, Shown
<1>11. Born(r)' /\ pc'[r] # "write"
  BY <1>6 DEF Born
<1> QED BY <1>1, <1>5, <1>7, <1>8, <1>9, <1>10, <1>11, HandlerKept

LEMMA AnswerKept ==
    ASSUME IInv, NEW r \in Requests, Answer(r) PROVE IInv'
<1>1. TypeOK /\ pc[r] = "answer" /\ Answered(r)
  BY DEF IInv, Answer, Answered
<1>2. Shown(r) \in Doc
  BY <1>1 DEF IInv, Flow, FlowOf
<1>3. \A d \in Marshalled(r) : d \in Payload
  BY <1>2 DEF Marshalled, Shown, Payload, Doc, References
<1>4. PICK d \in Payload : answer' = [answer EXCEPT ![r] = d]
  BY <1>3 DEF Answer
<1>5. /\ pc' = [pc EXCEPT ![r] = "done"]
      /\ status' = [status EXCEPT ![r] = 200]
      /\ UNCHANGED <<store, obj, input, todo, taskVars, historyVars, stampVars>>
  BY DEF Answer
<1> USE DEF taskVars, historyVars
<1>6. /\ pc'[r] = "done" /\ status'[r] = 200 /\ Answered(r)'
      /\ answer' \in [Requests -> Payload \cup {NoDoc}]
      /\ pc' \in [Requests -> Pcs]
      /\ status' \in [Requests -> Statuses]
  BY <1>1, <1>4, <1>5 DEF TypeOK, Pcs, Statuses, Answered
<1>7. Frame(r)
  BY <1>1, <1>4, <1>5 DEF Frame, TypeOK
<1>8. TypeOK'
  BY <1>1, <1>5, <1>6 DEF TypeOK
<1>9. FlowOf(r)'
  BY <1>1, <1>2, <1>5, <1>6 DEF IInv, Flow, FlowOf, Repo, Shown, Cell
<1>10. Evolves
  BY <1>1, <1>5, <1>6, <1>7, EvolvesIf DEF Born, Wrote
<1>11. HeldOf(r)'
  <2>1. ~Pending(r)' /\ (PendingOwn(r)' <=> PendingOwn(r)) /\ Born(r)
    BY <1>1, <1>5, <1>6 DEF Pending, PendingOwn, Born
  <2>2. PendingOwn(r) => Fit(r, Own(r))'
    BY <1>1, <1>5, <1>10, <2>1, FitKept DEF IInv, Held, HeldOf, Own, Whose
  <2> QED BY <2>1, <2>2 DEF HeldOf
<1>12. BasisOf(r)' /\ PayloadOf(r)'
  BY <1>5, <1>6 DEF IInv, Basis, BasisOf, Payloads, PayloadOf, Pending, PendingOwn,
                    CopyOf, Shown, Own, Repo
<1>13. SameTale(r)
  BY <1>5, <1>6 DEF SameTale, Shown
<1> QED BY <1>5, <1>7, <1>8, <1>9, <1>10, <1>11, <1>12, <1>13, CalmKept DEF OwnPart

LEMMA ResetKept ==
    ASSUME IInv, NEW r \in Requests, Reset(r) PROVE IInv'
<1> USE DEF Reset, taskVars, historyVars
<1>1. TypeOK /\ pc[r] = "wire" /\ ~Answered(r)
  BY DEF IInv, Starts, Answered
<1>2. ResetOrder \in Seq(Repos) /\ ResetOrder \in Seq(Todos) /\ ResetOrder # <<>>
  BY DEF ResetOrder, Repos, Todos
<1>3. Frame(r)
  BY <1>1 DEF Frame, TypeOK
<1>4. TypeOK'
  BY <1>1, <1>2 DEF TypeOK, Pcs
<1>5. pc'[r] = "clear" /\ todo'[r] = ResetOrder /\ task[r] = "none" /\ task' = task
  BY <1>1, Unanswered DEF TypeOK
<1>6. FlowOf(r)'
  BY <1>2, <1>5 DEF FlowOf, Repo, Answered
<1>7. ~Born(r) /\ pc'[r] # "write"
  BY <1>1, <1>5 DEF Born
<1> QED BY <1>1, <1>3, <1>4, <1>5, <1>6, <1>7, HandlerKept

---------------------------------------------------------------------------
(* Writing.                                                                *)

\* A step that stores document d under i.
Stores(repo, i, d) == store' = [store EXCEPT ![repo][i] = d]

LEMMA StoresElsewhere ==
    ASSUME TypeOK, NEW repo \in Repos, NEW i \in Ids, NEW d \in Doc, Stores(repo, i, d)
    PROVE  /\ store' \in [Repos -> [Ids -> Doc \cup {NoDoc}]]
           /\ store'[repo][i] = d
           /\ \A repo2 \in Repos : \A j \in Ids :
                <<repo2, j>> # <<repo, i>> => store'[repo2][j] = store[repo2][j]
  BY DEF Stores, TypeOK

LEMMA SerialElsewhere ==
    ASSUME TypeOK, NEW repo \in Repos, NEW i \in Ids, NEW by \in Nat, NEW sets,
           NEW clears, Serialize(repo, i, by, sets, clears)
    PROVE  /\ serial' \in [Repos -> [Ids -> [Fields -> Value]]]
           /\ serial'[repo][i] = After(serial[repo][i], by, sets, clears)
           /\ \A repo2 \in Repos : \A j \in Ids :
                <<repo2, j>> # <<repo, i>> => serial'[repo2][j] = serial[repo2][j]
<1>1. serial \in [Repos -> [Ids -> [Fields -> Value]]]
  BY DEF TypeOK, Value
<1>2. serial' = [serial EXCEPT ![repo][i] = After(serial[repo][i], by, sets, clears)]
  BY DEF Serialize, After
<1>3. After(serial[repo][i], by, sets, clears) \in [Fields -> Value]
  BY <1>1, AfterType
<1> QED BY <1>1, <1>2, <1>3

\* Only the document that is stored has to be looked at.
LEMMA StoredKept ==
    ASSUME IInv, Evolves, NEW repo \in Repos, NEW i \in Ids, NEW d \in Doc,
           Stores(repo, i, d), NEW by \in Nat, NEW sets, NEW clears,
           Serialize(repo, i, by, sets, clears), clashed \subseteq clashed',
           DocFits(repo, i)', i \in Requests => Born(i)',
           <<repo, i>> \notin clashed' => serial'[repo][i] = d.fields
    PROVE  Documents' /\ UpdatesAccumulate' /\ Blanks'
<1> USE DEF IInv
<1>1. Documents'
  <2> SUFFICES ASSUME NEW repo2 \in Repos, NEW j \in Ids PROVE DocFits(repo2, j)'
    BY DEF Documents
  <2>1. CASE <<repo2, j>> = <<repo, i>>
    BY <2>1
  <2>2. CASE <<repo2, j>> # <<repo, i>>
    BY <2>2, StoresElsewhere, DocKept DEF Documents
  <2> QED BY <2>1, <2>2
<1>2. UpdatesAccumulate'
  <2> SUFFICES ASSUME NEW repo2 \in Repos, NEW j \in Ids,
                      store'[repo2][j] # NoDoc, <<repo2, j>> \notin clashed'
               PROVE  store'[repo2][j].fields = serial'[repo2][j]
    BY DEF UpdatesAccumulate
  <2>1. CASE <<repo2, j>> = <<repo, i>>
    <3>1. repo2 = repo /\ j = i /\ store'[repo][i] = d
      BY <2>1, StoresElsewhere
    <3> QED BY <3>1
  <2>2. CASE <<repo2, j>> # <<repo, i>>
    <3>1. store'[repo2][j] = store[repo2][j] /\ serial'[repo2][j] = serial[repo2][j]
      BY <2>2, StoresElsewhere, SerialElsewhere
    <3>2. <<repo2, j>> \notin clashed
      OBVIOUS
    <3> QED BY <3>1, <3>2 DEF UpdatesAccumulate
  <2> QED BY <2>1, <2>2
<1>3. Blanks'
  <2> SUFFICES ASSUME NEW j \in Requests, ~Born(j)', NEW repo2 \in Repos
               PROVE  serial'[repo2][j] = Blank
    BY DEF Blanks
  <2>1. j # i /\ ~Born(j) /\ j \in Ids
    BY RequestsAssumption DEF Evolves, Requests, Ids
  <2>2. serial'[repo2][j] = serial[repo2][j]
    BY <2>1, SerialElsewhere
  <2> QED BY <2>1, <2>2 DEF Blanks
<1> QED BY <1>1, <1>2, <1>3

LEMMA CreateKept ==
    ASSUME IInv, NEW r \in Requests, Create(r) PROVE IInv'
<1>0. PICK repo, sets, refers :
        repo = Repo(r) /\ sets = input[r].sets /\ refers = input[r].refers
  OBVIOUS
<1> DEFINE d == New(repo, r, sets, refers)
<1>1. TypeOK /\ pc[r] = "wire" /\ ~Answered(r) /\ ~Born(r) /\ input[r].route = "create"
  BY DEF IInv, Create, Starts, Answered, Born
<1>2. /\ Stores(repo, r, d)
      /\ pc' = [pc EXCEPT ![r] = "reread"]
      /\ Serialize(repo, r, r, SetByNew(repo, sets), {})
      /\ UNCHANGED <<obj, input, todo, status, answer, taskVars, read, clashed,
                     stampVars>>
  BY <1>0 DEF Create, Stores, Repo
<1>3. /\ repo \in Repos /\ r \in Ids /\ r \in Nat /\ r # 0 /\ sets \in SUBSET Fields
      /\ refers \in BOOLEAN /\ About(r) = r
  BY <1>0, <1>1, AboutType, RequestsAssumption DEF Requests, Ids, Input, About
<1>4. /\ d \in Doc /\ d.refs = RefsOfNew(repo, refers)
      /\ d.fields = Given(r, SetByNew(repo, sets))
  BY <1>3, NewDoc
<1> HIDE DEF d
<1> USE DEF taskVars
<1>5. /\ store' \in [Repos -> [Ids -> Doc \cup {NoDoc}]]
      /\ store'[repo][r] = d
      /\ \A repo2 \in Repos : \A j \in Ids :
           <<repo2, j>> # <<repo, r>> => store'[repo2][j] = store[repo2][j]
  BY <1>1, <1>2, <1>3, <1>4, StoresElsewhere
<1>6. /\ serial' \in [Repos -> [Ids -> [Fields -> Value]]]
      /\ serial'[repo][r] = After(serial[repo][r], r, SetByNew(repo, sets), {})
  BY <1>1, <1>2, <1>3, SerialElsewhere
<1>7. pc'[r] = "reread" /\ Wrote(r)' /\ Born(r)' /\ pc' \in [Requests -> Pcs]
  BY <1>1, <1>2 DEF TypeOK, Pcs, Wrote, Born
<1>8. Frame(r)
  BY <1>1, <1>2 DEF Frame, TypeOK
<1>9. TypeOK'
  BY <1>1, <1>2, <1>5, <1>6, <1>7 DEF TypeOK, Value
<1>10. Evolves
  <2>1. \A q \in Requests : Born(q) => Born(q)' /\ input'[q] = input[q]
    BY <1>1, <1>2, <1>8 DEF Frame, Born
  <2>2. \A q \in Requests : Wrote(q) => Wrote(q)'
    BY <1>1, <1>2, <1>8, WroteBorn DEF Frame, Wrote, Answered
  <2> QED BY <1>1, <1>5, <2>1, <2>2 DEF Evolves
<1>11. DocFits(repo, r)'
  <2>1. d.refs \in RefsAt(repo, r)
    BY <1>3, <1>4 DEF RefsAt
  <2>2. \A f \in Fields : \A q \in Requests : d.fields[f] = q => q = r
    BY <1>4, RequestsAssumption DEF Requests, Given
  <2>3. Repo(r)' = repo /\ About(r)' = r
    BY <1>0, <1>2, <1>3 DEF Repo, About
  <2> QED BY <1>5, <1>7, <2>1, <2>2, <2>3 DEF DocFits, RefsAt
<1>12. serial'[repo][r] = d.fields
  <2>1. serial[repo][r] = Blank
    BY <1>1, <1>3 DEF IInv, Blanks
  <2> QED BY <1>4, <1>6, <2>1 DEF Blank, After, Given
<1>13. Documents' /\ UpdatesAccumulate' /\ Blanks'
  BY <1>2, <1>3, <1>4, <1>7, <1>10, <1>11, <1>12, StoredKept
<1>14. task[r] = "none" /\ SameTale(r)
  BY <1>1, Unanswered
<1>15. FlowOf(r)'
  BY <1>1, <1>2, <1>7, <1>14 DEF FlowOf, Repo, Answered
<1>16. HeldOf(r)' /\ BasisOf(r)' /\ PayloadOf(r)'
  BY <1>2, <1>7, <1>14 DEF HeldOf, BasisOf, PayloadOf, Pending, PendingOwn
<1> QED BY <1>2, <1>8, <1>9, <1>10, <1>13, <1>14, <1>15, <1>16, PartsKept, ToldKept
        DEF OwnPart, IInv

LEMMA WriteKept ==
    ASSUME IInv, NEW r \in Requests, Write(r) PROVE IInv'
<1>1. TypeOK /\ pc[r] = "write" /\ ~Answered(r) /\ Born(r) /\ ~Wrote(r)
  BY DEF IInv, Write, Answered, Born, Wrote
<1>2. CASE NotFound(r)
  BY <1>1, <1>2, FinishKept DEF NotFound, Statuses
<1>3. CASE ~NotFound(r)
  <2>1. PICK repo, i, sets, d, step :
          /\ repo = Repo(r) /\ i = About(r) /\ sets = Sets(input[r])
          /\ d = Shown(r) /\ step = Announcement(input[r])
    OBVIOUS
  <2>2. /\ input[r].route = "update" /\ i = input[r].id
        /\ repo \in Repos /\ i \in Ids /\ r \in Nat /\ r \in Ids
    BY <1>1, <2>1, AboutType, RequestsAssumption
       DEF IInv, Flow, FlowOf, About, Requests, Ids
  <2>3. /\ ~Missing(r)
        /\ Stores(repo, i, d)
        /\ Serialize(repo, i, r, sets, Cleared(repo, sets))
        /\ clashed' = IF Stored(r).fields = read[<<r, "answered">>]
                      THEN clashed ELSE clashed \cup {<<repo, i>>}
        /\ UNCHANGED <<obj, input, todo, status, answer, saved, payload, told,
                       read, stampVars>>
    BY <1>3, <2>1, <2>2 DEF Write, Stores, Shown, Repo, Sets
  <2>4. \/ /\ pc' = [pc EXCEPT ![r] = "answer"]
           /\ task' = [task EXCEPT ![r] = step]
        \/ /\ pc' = [pc EXCEPT ![r] = "reread"]
           /\ UNCHANGED task
    BY <1>3, <2>1 DEF Write, Repo
  <2>5. /\ step \in {"none", "fetch", "customer", "marshal"}
        /\ step # "fetch" /\ ~Lifecycle(input[r])
        /\ step = "marshal" => Repo(r) # "subscriptions"
    BY <2>1, <2>2, AnnouncementSteps DEF Lifecycle, Repo
  <2>6. Pending(r) /\ Fit(r, d) /\ d \in Doc
    BY <1>1, <2>1 DEF IInv, Held, HeldOf, Pending, Fit
  <2>7. /\ store' \in [Repos -> [Ids -> Doc \cup {NoDoc}]]
        /\ store'[repo][i] = d
        /\ \A repo2 \in Repos : \A j \in Ids :
             <<repo2, j>> # <<repo, i>> => store'[repo2][j] = store[repo2][j]
    BY <1>1, <2>2, <2>3, <2>6, StoresElsewhere
  <2>8. /\ serial' \in [Repos -> [Ids -> [Fields -> Value]]]
        /\ serial'[repo][i] = After(serial[repo][i], r, sets, Cleared(repo, sets))
    BY <1>1, <2>2, <2>3, SerialElsewhere
  <2>9. task[r] = "none" /\ SameTale(r) /\ ~PendingOwn(r)
    BY <1>1, Unanswered
  <2>10. /\ pc' \in [Requests -> Pcs] /\ task' \in [Requests -> Steps]
         /\ \/ pc'[r] = "answer" /\ task'[r] = step
            \/ pc'[r] = "reread" /\ task'[r] = "none"
    BY <1>1, <2>4, <2>5, <2>9 DEF TypeOK, Pcs, Steps
  <2>11. Wrote(r)' /\ Born(r)'
    BY <2>10 DEF Wrote, Answered, Born
  <2>12. Frame(r)
    BY <1>1, <2>3, <2>4 DEF Frame, TypeOK
  <2>13. TypeOK'
    <3>1. clashed' \subseteq Repos \X Ids
      BY <1>1, <2>2, <2>3 DEF TypeOK
    <3> QED BY <1>1, <2>3, <2>7, <2>8, <2>10, <3>1 DEF TypeOK, Value
  <2>14. store[repo][i] # NoDoc
    BY <2>1, <2>3 DEF Missing, Stored
  <2>15. Evolves
    <3>1. \A q \in Requests : Born(q) => Born(q)' /\ input'[q] = input[q]
      BY <1>1, <2>3, <2>11, <2>12 DEF Frame, Born
    <3>2. \A q \in Requests : Wrote(q) => Wrote(q)'
      BY <1>1, <2>3, <2>12 DEF Frame, Wrote, Answered
    <3>3. \A repo2 \in Repos : \A j \in Ids :
             store[repo2][j] = NoDoc => store'[repo2][j] = NoDoc
      BY <2>7, <2>14
    <3> QED BY <3>1, <3>2, <3>3 DEF Evolves
  <2>16. DocFits(repo, i)'
    <3>1. \A q \in Requests : Repo(q)' = Repo(q) /\ About(q)' = About(q)
      BY <2>3 DEF Repo, About
    <3>2. DocFits(repo, i)
      BY <2>2 DEF IInv, Documents
    <3>3. \A q \in Requests : Wrote(q) => Wrote(q)'
      BY <1>1, <2>3, <2>12 DEF Frame, Wrote, Answered
    <3>4. i # 0 => i \in Requests
      BY <2>2, RequestsAssumption DEF Ids, Requests
    <3>5. i # 0 => Wrote(i)' /\ Repo(i)' = repo /\ About(i)' = i
      BY <2>14, <3>1, <3>2, <3>3, <3>4 DEF DocFits
    <3>6. \A f \in Fields : \A q \in Requests : d.fields[f] = q =>
             Wrote(q)' /\ Repo(q)' = repo /\ About(q)' = i
      BY <2>1, <2>3, <2>6, <2>11, <3>1, <3>3 DEF Fit
    <3>7. d.refs \in RefsAt(repo, i)
      BY <2>1, <2>6 DEF Fit
    <3> QED BY <2>7, <3>5, <3>6, <3>7 DEF DocFits, RefsAt
  <2>17. <<repo, i>> \notin clashed' => serial'[repo][i] = d.fields
    <3> SUFFICES ASSUME <<repo, i>> \notin clashed' PROVE serial'[repo][i] = d.fields
      OBVIOUS
    <3>1. Stored(r).fields = read[<<r, "answered">>] /\ <<repo, i>> \notin clashed
      BY <2>3
    <3>2. store[repo][i].fields = serial[repo][i]
      BY <2>2, <2>14, <3>1 DEF IInv, UpdatesAccumulate
    <3>3. d.fields = After(read[<<r, "answered">>], r, sets, Cleared(repo, sets))
      BY <2>1, <2>6 DEF IInv, Basis, BasisOf
    <3>4. serial[repo][i] = read[<<r, "answered">>]
      BY <2>1, <3>1, <3>2 DEF Stored
    <3> QED BY <2>8, <3>3, <3>4
  <2>18. i \in Requests => Born(i)'
    BY <2>1, <2>6, <2>15 DEF Fit, Evolves
  <2>19. clashed \subseteq clashed'
    BY <2>3
  <2>20. Documents' /\ UpdatesAccumulate' /\ Blanks'
    BY <2>2, <2>3, <2>6, <2>15, <2>16, <2>17, <2>18, <2>19, StoredKept
  <2>21. FlowOf(r)'
    <3>1. Cell(r)' = <<r, "answered">> /\ input'[r] = input[r] /\ obj' = obj
      BY <2>3, <2>5 DEF Cell
    <3> QED BY <2>1, <2>2, <2>5, <2>6, <2>10, <3>1 DEF FlowOf, Repo, Answered, Shown
  <2>22. HeldOf(r)' /\ BasisOf(r)' /\ PayloadOf(r)'
    BY <2>3, <2>5, <2>10 DEF HeldOf, BasisOf, PayloadOf, Pending, PendingOwn
  <2> QED BY <2>3, <2>9, <2>12, <2>13, <2>15, <2>20, <2>21, <2>22, PartsKept, ToldKept
          DEF OwnPart, IInv
<1> QED BY <1>2, <1>3

LEMMA ClearKept ==
    ASSUME IInv, NEW r \in Requests, Clear(r) PROVE IInv'
<1>1. TypeOK /\ pc[r] = "clear" /\ ~Answered(r) /\ Born(r) /\ ~Wrote(r)
  BY DEF IInv, Clear, Answered, Born, Wrote
<1>2. todo[r] # <<>> /\ todo[r] \in Seq(Repos)
  BY <1>1 DEF IInv, Flow, FlowOf
<1>3. PICK repo, left : repo = Head(todo[r]) /\ left = Tail(todo[r])
  OBVIOUS
<1>4. repo \in Repos /\ left \in Seq(Repos) /\ left \in Seq(Todos)
  <2>1. repo \in Repos /\ left \in Seq(Repos)
    BY <1>2, <1>3
  <2>2. todo[r] \in Seq(Todos)
    BY <1>1 DEF TypeOK
  <2> QED BY <1>2, <1>3, <2>1, <2>2
<1>5. /\ store' = [store EXCEPT ![repo] = [i \in Ids |-> NoDoc]]
      /\ todo' = [todo EXCEPT ![r] = left]
      /\ pc' = [pc EXCEPT ![r] = IF left = <<>> THEN "done" ELSE "clear"]
      /\ status' = [status EXCEPT ![r] = IF left = <<>> THEN 200 ELSE Dropped]
      /\ UNCHANGED <<obj, input, answer, taskVars, historyVars, stampVars>>
  BY <1>3 DEF Clear
<1> USE DEF taskVars, historyVars
<1>6. /\ store' \in [Repos -> [Ids -> Doc \cup {NoDoc}]]
      /\ \A repo2 \in Repos : \A i \in Ids : store'[repo2][i] \in {store[repo2][i], NoDoc}
  BY <1>1, <1>4, <1>5 DEF TypeOK
<1>7. /\ pc'[r] = IF left = <<>> THEN "done" ELSE "clear"
      /\ todo'[r] = left
      /\ pc' \in [Requests -> Pcs] /\ todo' \in [Requests -> Seq(Todos)]
      /\ status' \in [Requests -> Statuses]
  BY <1>1, <1>4, <1>5 DEF TypeOK, Pcs, Statuses, Dropped
<1>8. Frame(r)
  BY <1>1, <1>5 DEF Frame, TypeOK
<1>9. TypeOK'
  BY <1>1, <1>5, <1>6, <1>7 DEF TypeOK
<1>10. Evolves
  <2>1. \A q \in Requests : Born(q) => Born(q)' /\ input'[q] = input[q]
    BY <1>5, <1>7, <1>8 DEF Frame, Born
  <2>2. \A q \in Requests : Wrote(q) => Wrote(q)'
    BY <1>1, <1>8 DEF Frame, Wrote, Answered
  <2> QED BY <1>6, <2>1, <2>2 DEF Evolves
<1>11. Documents'
  BY <1>6, <1>10, DocKept DEF IInv, Documents
<1>12. UpdatesAccumulate' /\ Blanks'
  BY <1>5, <1>6, <1>10 DEF IInv, UpdatesAccumulate, Blanks, Evolves
<1>13. task'[r] = "none" /\ SameTale(r)
  BY <1>1, <1>5, Unanswered
<1>14. FlowOf(r)'
  BY <1>4, <1>7, <1>13 DEF FlowOf, Repo, Answered
<1>15. HeldOf(r)' /\ BasisOf(r)' /\ PayloadOf(r)'
  BY <1>7, <1>13 DEF HeldOf, BasisOf, PayloadOf, Pending, PendingOwn
<1> QED BY <1>5, <1>8, <1>9, <1>10, <1>11, <1>12, <1>13, <1>14, <1>15, PartsKept, ToldKept
        DEF OwnPart, IInv

---------------------------------------------------------------------------
(* Goroutines.                                                             *)

LEMMA FitSame ==
    ASSUME NEW r \in Requests, NEW d, Fit(r, d), UNCHANGED <<store, pc, input, status>>
    PROVE  Fit(r, d)'
<1>1. \A q \in Requests : /\ Repo(q)' = Repo(q) /\ About(q)' = About(q)
                          /\ Born(q)' = Born(q) /\ Wrote(q)' = Wrote(q)
  BY DEF Repo, About, Born, Wrote, Answered
<1>2. Missing(r)' = Missing(r)
  BY <1>1 DEF Missing, Stored
<1>3. About(r) \in Requests => Born(About(r))'
  BY <1>1 DEF Fit, Born
<1> QED BY <1>1, <1>2, <1>3 DEF Fit, RefsAt

\* A step of a goroutine that does not write.
LEMMA TaskKept ==
    ASSUME IInv, NEW r \in Requests, Frame(r), Answered(r),
           UNCHANGED <<store, handlerVars, told, serial, clashed>>,
           OwnPart(r), TypeOK', SameTale(r)
    PROVE  IInv'
<1>1. Answered(r)' /\ Wrote(r)' /\ Born(r)' /\ input' = input
  BY DEF Answered, Wrote, Born, handlerVars
<1>2. Evolves
  BY <1>1, EvolvesIf DEF IInv
<1> QED BY <1>2, CalmKept

LEMMA AtWork ==
    ASSUME IInv, NEW r \in Requests, task[r] # "none"
    PROVE  /\ TypeOK /\ Answered(r) /\ pc[r] # "write"
           /\ Shown(r) \in Doc
           /\ task[r] # "fetch" => obj[Cell(r)] \in Doc
  BY DEF IInv, Flow, FlowOf, Repo, Answered

LEMMA GiveUpKept ==
    ASSUME IInv, NEW r \in Requests, task[r] # "none", GiveUp(r) PROVE IInv'
<1> USE DEF GiveUp, Goes, handlerVars, historyVars
<1>1. TypeOK /\ Answered(r) /\ pc[r] # "write" /\ Shown(r) \in Doc
  BY AtWork
<1>2. Frame(r)
  BY <1>1 DEF Frame, TypeOK
<1>3. TypeOK'
  BY <1>1 DEF TypeOK, Steps
<1>4. task'[r] = "none"
  BY <1>1 DEF TypeOK
<1>5. FlowOf(r)'
  BY <1>1, <1>4 DEF IInv, Flow, FlowOf, Repo, Answered, Shown
<1>6. HeldOf(r)' /\ BasisOf(r)' /\ PayloadOf(r)'
  BY <1>1, <1>4 DEF HeldOf, BasisOf, PayloadOf, Pending, PendingOwn
<1>7. SameTale(r)
  BY DEF SameTale, Answered, Shown
<1> QED BY <1>1, <1>2, <1>3, <1>5, <1>6, <1>7, TaskKept DEF OwnPart

LEMMA FetchKept ==
    ASSUME IInv, NEW r \in Requests, Fetch(r) PROVE IInv'
<1>1. /\ TypeOK /\ Answered(r) /\ pc[r] # "write" /\ Shown(r) \in Doc
      /\ task[r] = "fetch" /\ Lifecycle(input[r]) /\ Cell(r) = <<r, "own">>
  BY AtWork, Cells2 DEF Fetch, At, IInv, Flow, FlowOf
<1>2. CASE GiveUp(r)
  BY <1>1, <1>2, GiveUpKept
<1>3. CASE ~GiveUp(r)
  <2>1. PICK d : d = Stored(r)
    OBVIOUS
  <2>2. /\ ~Missing(r)
        /\ obj' = [obj EXCEPT ![<<r, "own">>] = d]
        /\ read' = [read EXCEPT ![<<r, "own">>] = d.fields]
        /\ task' = [task EXCEPT ![r] = "customer"]
        /\ UNCHANGED <<store, handlerVars, saved, payload, told, serial, clashed,
                       stampVars>>
    BY <1>1, <1>3, <2>1 DEF Fetch, Holds, Goes
  <2>3. d \in Doc /\ Fit(r, d)
    BY <2>1, <2>2, StoredFits
  <2> USE DEF handlerVars
  <2>4. /\ task'[r] = "customer" /\ obj'[<<r, "own">>] = d
        /\ read'[<<r, "own">>] = d.fields
        /\ obj'[<<r, "answered">>] = obj[<<r, "answered">>]
        /\ obj' \in [Cells -> Doc \cup {NoDoc}]
        /\ read' \in [Cells -> [Fields -> Value]]
        /\ task' \in [Requests -> Steps]
    BY <1>1, <2>2, <2>3, Cells2, DocParts DEF TypeOK, Whose, Steps, Value
  <2>5. Frame(r)
    BY <1>1, <2>2 DEF Frame, TypeOK, Cells, Whose
  <2>6. TypeOK'
    BY <1>1, <2>2, <2>4 DEF TypeOK, Value
  <2>7. FlowOf(r)'
    BY <1>1, <2>2, <2>3, <2>4 DEF IInv, Flow, FlowOf, Repo, Answered, Shown, Cell
  <2>8. Fit(r, d)'
    BY <2>2, <2>3, FitSame
  <2>9. HeldOf(r)' /\ BasisOf(r)' /\ PayloadOf(r)'
    BY <1>1, <2>2, <2>4, <2>8 DEF HeldOf, BasisOf, PayloadOf, Pending, Own
  <2>10. SameTale(r)
    BY <2>2, <2>4 DEF SameTale, Answered, Shown
  <2> QED BY <1>1, <2>2, <2>5, <2>6, <2>7, <2>9, <2>10, TaskKept DEF OwnPart
<1> QED BY <1>2, <1>3

\* A step that changes the goroutine's copy alone.
LEMMA CopyKept ==
    ASSUME IInv, NEW r \in Requests, task[r] \notin {"none", "fetch"},
           NEW d \in Doc, payload' = [payload EXCEPT ![r] = d],
           NEW step \in {"product", "number", "stamp"},
           task' = [task EXCEPT ![r] = step],
           ~Lifecycle(input[r]) => CopyOf(r, d, Shown(r), step),
           UNCHANGED <<store, obj, handlerVars, saved, told, historyVars>>
    PROVE  IInv'
<1>1. /\ TypeOK /\ Answered(r) /\ pc[r] # "write" /\ Shown(r) \in Doc
      /\ obj[Cell(r)] \in Doc
  BY AtWork
<1> USE DEF handlerVars, historyVars
<1>2. /\ payload'[r] = d /\ task'[r] = step
      /\ payload' \in [Requests -> Doc \cup {NoDoc}]
      /\ task' \in [Requests -> Steps]
  BY <1>1 DEF TypeOK, Steps
<1>3. Frame(r)
  BY <1>1 DEF Frame, TypeOK
<1>4. TypeOK'
  BY <1>1, <1>2 DEF TypeOK
<1>5. FlowOf(r)'
  BY <1>1, <1>2 DEF IInv, Flow, FlowOf, Repo, Answered, Shown, Cell
<1>6. HeldOf(r)'
  <2>1. PICK e : e = Own(r)
    OBVIOUS
  <2>2. PendingOwn(r)' => PendingOwn(r)
    BY DEF PendingOwn
  <2>3. PendingOwn(r) => Fit(r, e)'
    BY <2>1, FitSame DEF IInv, Held, HeldOf
  <2> QED BY <1>1, <2>1, <2>2, <2>3 DEF HeldOf, Pending, Own
<1>7. BasisOf(r)'
  BY <1>1 DEF IInv, Basis, BasisOf, Pending, PendingOwn, Own
<1>8. PayloadOf(r)'
  BY <1>2 DEF PayloadOf, CopyOf, Shown, Repo
<1>9. SameTale(r)
  BY DEF SameTale, Answered, Shown
<1> QED BY <1>1, <1>3, <1>4, <1>5, <1>6, <1>7, <1>8, <1>9, TaskKept DEF OwnPart

LEMMA MarshalKept ==
    ASSUME IInv, NEW r \in Requests, Marshal(r) PROVE IInv'
<1>1. /\ task[r] = "marshal" /\ obj[Cell(r)] \in Doc
      /\ Repo(r) # "subscriptions"
  BY AtWork DEF Marshal, At, IInv, Flow, FlowOf
<1>2. ~Lifecycle(input[r]) => CopyOf(r, obj[Cell(r)], Shown(r), "number")
  BY <1>1, Cells2 DEF CopyOf, Shown
<1>3. PICK d : d = obj[Cell(r)]
  OBVIOUS
<1> QED BY <1>1, <1>2, <1>3, CopyKept DEF Marshal, Goes

LEMMA CustomerKept ==
    ASSUME IInv, NEW r \in Requests, ExpandCustomer(r) PROVE IInv'
<1>1. task[r] = "customer" /\ obj[Cell(r)] \in Doc
  BY AtWork DEF ExpandCustomer, At
<1>2. PICK d : d = ExpandId(obj[Cell(r)], "customer", There("customers"))
  OBVIOUS
<1>3. /\ d \in Doc /\ d.fields = obj[Cell(r)].fields /\ d.refs["customer"] # "id"
      /\ \A y \in References : d.refs[y] = "none" <=> obj[Cell(r)].refs[y] = "none"
  <2>1. There("customers") \in BOOLEAN /\ "customer" \in References
    BY DEF There, References
  <2> QED BY <1>1, <1>2, <2>1, ExpandDoc
<1>4. ~Lifecycle(input[r]) => CopyOf(r, d, Shown(r), "product")
  BY <1>3, Cells2 DEF CopyOf, Shown
<1> QED BY <1>1, <1>2, <1>3, <1>4, CopyKept DEF ExpandCustomer, Goes

LEMMA ProductKept ==
    ASSUME IInv, NEW r \in Requests, ExpandProduct(r) PROVE IInv'
<1>1. /\ TypeOK /\ Answered(r) /\ pc[r] # "write" /\ Shown(r) \in Doc
      /\ obj[Cell(r)] \in Doc /\ task[r] = "product" /\ payload[r] \in Doc
  BY AtWork DEF ExpandProduct, At, IInv, Flow, FlowOf
<1>2. PICK c, d, e : /\ c = Cell(r)
                     /\ d = ExpandId(obj[c], "product", There("products"))
                     /\ e = ExpandId(payload[r], "product", There("products"))
  OBVIOUS
<1>3. /\ obj' = [obj EXCEPT ![c] = d]
      /\ payload' = [payload EXCEPT ![r] = e]
      /\ task' = [task EXCEPT ![r] = "number"]
      /\ UNCHANGED <<store, handlerVars, saved, told, historyVars, stampVars>>
  BY <1>1, <1>2, Cells2 DEF ExpandProduct, Goes, TypeOK
<1>4. "product" \in References /\ There("products") \in BOOLEAN
  BY DEF References, There
<1>5. /\ d \in Doc /\ d.fields = obj[c].fields /\ d.refs["product"] # "id"
      /\ \A y \in References : d.refs[y] = "none" <=> obj[c].refs[y] = "none"
  BY <1>1, <1>2, <1>4, ExpandDoc
<1>6. /\ e \in Doc /\ e.fields = payload[r].fields /\ e.refs["product"] # "id"
      /\ \A y \in References : e.refs[y] = "none" <=> payload[r].refs[y] = "none"
      /\ e.refs["customer"] = payload[r].refs["customer"]
  BY <1>1, <1>2, <1>4, ExpandDoc DEF References
<1> USE DEF handlerVars, historyVars
<1>7. /\ task'[r] = "number" /\ payload'[r] = e /\ obj'[c] = d
      /\ \A w \in Whose : <<r, w>> # c => obj'[<<r, w>>] = obj[<<r, w>>]
      /\ obj' \in [Cells -> Doc \cup {NoDoc}]
      /\ payload' \in [Requests -> Doc \cup {NoDoc}]
      /\ task' \in [Requests -> Steps]
  BY <1>1, <1>2, <1>3, <1>5, <1>6, Cells2 DEF TypeOK, Steps, Whose
<1>8. Frame(r)
  BY <1>1, <1>2, <1>3 DEF Frame, TypeOK, Cells, Whose, Cell
<1>9. TypeOK'
  BY <1>1, <1>3, <1>7 DEF TypeOK
<1>10. /\ Shown(r)' \in Doc /\ Shown(r)'.fields = Shown(r).fields
       /\ \A y \in References : Shown(r)'.refs[y] = "none" <=> Shown(r).refs[y] = "none"
  BY <1>1, <1>2, <1>5, <1>7 DEF Shown, Whose
<1>11. FlowOf(r)'
  BY <1>1, <1>2, <1>3, <1>5, <1>6, <1>7, <1>10
     DEF IInv, Flow, FlowOf, Repo, Answered, Shown, Cell
<1>12. HeldOf(r)' /\ BasisOf(r)'
  <2>1. ASSUME PendingOwn(r)' PROVE Fit(r, Own(r))' /\ Own(r)' = Own(r)
    <3>1. PendingOwn(r) /\ Lifecycle(input[r]) /\ c = <<r, "own">>
      BY <1>1, <1>2, <1>3, <2>1, Cells2 DEF PendingOwn
    <3>2. Fit(r, obj[c])
      BY <3>1 DEF IInv, Held, HeldOf, Own
    <3>3. obj[c].refs["product"] = "none"
      <4>1. Repo(r) = "subscriptions" /\ About(r) = r /\ r # 0
        BY <3>1, RequestsAssumption DEF Lifecycle, Repo, About, Requests
      <4>2. PICK refers \in BOOLEAN : obj[c].refs = RefsOfNew("subscriptions", refers)
        BY <3>2, <4>1 DEF Fit, RefsAt
      <4> QED BY <4>2, NewRefs DEF Repos
    <3>5. d = obj[c]
      BY <1>2, <3>3 DEF ExpandId
    <3>6. Own(r)' = d
      BY <1>7, <3>1 DEF Own
    <3>7. Fit(r, d)'
      BY <1>3, <3>2, <3>5, FitSame
    <3> QED BY <3>1, <3>5, <3>6, <3>7 DEF Own
  <2>2. PendingOwn(r)' => PendingOwn(r)
    BY <1>1, <1>3 DEF PendingOwn
  <2> QED BY <1>1, <1>3, <2>1, <2>2 DEF IInv, Basis, BasisOf, HeldOf, Pending
<1>13. PayloadOf(r)'
  <2>1. Lifecycle(input[r])' = Lifecycle(input[r]) /\ Repo(r)' = Repo(r)
    BY <1>3 DEF Repo
  <2> SUFFICES ASSUME ~Lifecycle(input[r])
               PROVE  CopyOf(r, payload[r], Shown(r), task[r])'
    BY <2>1 DEF PayloadOf
  <2>2. CopyOf(r, payload[r], Shown(r), "product")
    BY <1>1 DEF IInv, Payloads, PayloadOf
  <2> QED BY <1>6, <1>7, <1>10, <2>1, <2>2 DEF CopyOf
<1>14. SameTale(r)
  BY <1>3, <1>10 DEF SameTale, Answered
<1> QED BY <1>1, <1>3, <1>8, <1>9, <1>11, <1>12, <1>13, <1>14, TaskKept DEF OwnPart

LEMMA NumberKept ==
    ASSUME IInv, NEW r \in Requests, Number(r) PROVE IInv'
<1>1. task[r] = "number" /\ payload[r] \in Doc /\ TypeOK
  BY DEF Number, At, IInv, Flow, FlowOf
<1>2. ~Lifecycle(input[r]) => CopyOf(r, payload[r], Shown(r), "stamp")
  BY <1>1 DEF IInv, Payloads, PayloadOf, CopyOf
<1>3. payload' = [payload EXCEPT ![r] = payload[r]]
  BY <1>1 DEF Number, TypeOK
<1>4. PICK d : d = payload[r]
  OBVIOUS
<1> QED BY <1>1, <1>2, <1>3, <1>4, CopyKept DEF Number, Goes

LEMMA Appended ==
    ASSUME NEW S, NEW s \in Seq(S), NEW e \in S
    PROVE  /\ Append(s, e) \in Seq(S)
           /\ Len(s) \in Nat /\ Len(Append(s, e)) = Len(s) + 1
           /\ \A n \in 1 .. Len(s) : Append(s, e)[n] = s[n]
           /\ Append(s, e)[Len(s) + 1] = e
  OBVIOUS

LEMMA StampKept ==
    ASSUME IInv, NEW r \in Requests, Stamp(r) PROVE IInv'
<1>1. /\ TypeOK /\ Answered(r) /\ pc[r] # "write" /\ Shown(r) \in Doc
      /\ obj[Cell(r)] \in Doc /\ task[r] = "stamp" /\ payload[r] \in Doc
  BY AtWork DEF Stamp, At, IInv, Flow, FlowOf
<1>2. PICK step, e : step = Afterwards(r) /\ e = [by |-> r, doc |-> payload[r]]
  OBVIOUS
<1>3. /\ told' = Append(told, e)
      /\ task' = [task EXCEPT ![r] = step]
      /\ UNCHANGED <<store, obj, handlerVars, saved, payload, historyVars>>
  BY <1>2 DEF Stamp, Goes
<1> USE DEF handlerVars, historyVars
<1>4. /\ step \in {"none", "save"}
      /\ step = "save" => Lifecycle(input[r]) /\ r \notin saved
  BY <1>2 DEF Afterwards
<1>5. /\ told' \in Seq([by : Requests, doc : Doc])
      /\ Len(told) \in Nat /\ Len(told') = Len(told) + 1
      /\ \A n \in 1 .. Len(told) : told'[n] = told[n]
      /\ told'[Len(told) + 1] = e
  <2>1. told \in Seq([by : Requests, doc : Doc])
    BY <1>1 DEF TypeOK
  <2>2. e \in [by : Requests, doc : Doc]
    BY <1>1, <1>2
  <2> QED BY <1>3, <2>1, <2>2, Appended
<1>6. task'[r] = step /\ task' \in [Requests -> Steps]
  BY <1>1, <1>3, <1>4 DEF TypeOK, Steps
<1>7. Frame(r)
  BY <1>1, <1>3 DEF Frame, TypeOK
<1>8. TypeOK'
  BY <1>1, <1>3, <1>5, <1>6 DEF TypeOK
<1>9. FlowOf(r)'
  BY <1>1, <1>3, <1>4, <1>6 DEF IInv, Flow, FlowOf, Repo, Answered, Shown, Cell
<1>10. HeldOf(r)'
  <2>1. PICK d : d = Own(r)
    OBVIOUS
  <2>2. PendingOwn(r)' => PendingOwn(r)
    BY <1>1, <1>3 DEF PendingOwn
  <2>3. PendingOwn(r) => Fit(r, d)'
    BY <1>3, <2>1, FitSame DEF IInv, Held, HeldOf
  <2> QED BY <1>1, <1>3, <2>1, <2>2, <2>3 DEF HeldOf, Pending, Own
<1>11. BasisOf(r)' /\ PayloadOf(r)'
  BY <1>1, <1>3, <1>4, <1>6 DEF IInv, Basis, BasisOf, PayloadOf, Pending, PendingOwn, Own
<1>12. SameTale(r)
  BY <1>3 DEF SameTale, Answered, Shown
<1>13. Told'
  <2>1. CopyOf(r, payload[r], Shown(r), "stamp") \/ Lifecycle(input[r])
    BY <1>1 DEF IInv, Payloads, PayloadOf
  <2>2. Answered(r)'
    BY <1>1, <1>3 DEF Answered
  <2>3. \A n \in 1 .. Len(told) : StillTold(n)
    BY <1>5, <1>7, <1>12, TaleKept
  <2>4. \A n \in 1 .. Len(told) : StillTold(n) => TaleOf(n)'
    BY <1>5 DEF StillTold, TaleOf, CopyOf, Shown, Repo, Answered
  <2>5. ~Lifecycle(input'[r]) => CopyOf(r, e.doc, Shown(r), "stamp")'
    BY <1>2, <1>3, <2>1 DEF CopyOf, Shown, Repo
  <2> SUFFICES ASSUME NEW n \in 1 .. Len(told') PROVE TaleOf(n)'
    BY DEF Told
  <2>6. CASE n = Len(told) + 1
    BY <1>2, <1>3, <1>5, <2>2, <2>5, <2>6 DEF TaleOf
  <2>7. CASE n \in 1 .. Len(told)
    BY <2>3, <2>4, <2>7
  <2> QED BY <1>5, <2>6, <2>7
<1>14. Evolves
  BY <1>1, <1>3, <1>7, EvolvesIf DEF Born, Wrote, Answered
<1>15. Documents'
  BY <1>3, <1>14, DocKept DEF IInv, Documents
<1>16. UpdatesAccumulate' /\ Blanks'
  BY <1>3, <1>14 DEF IInv, UpdatesAccumulate, Blanks, Evolves
<1> QED BY <1>7, <1>8, <1>9, <1>10, <1>11, <1>13, <1>14, <1>15, <1>16, PartsKept
        DEF OwnPart, IInv

LEMMA SaveKept ==
    ASSUME IInv, NEW r \in Requests, Save(r) PROVE IInv'
<1>1. /\ TypeOK /\ Answered(r) /\ pc[r] # "write" /\ Shown(r) \in Doc
      /\ task[r] = "save" /\ Lifecycle(input[r]) /\ Cell(r) = <<r, "own">>
      /\ Own(r) \in Doc /\ PendingOwn(r)
  BY AtWork, Cells2 DEF Save, At, IInv, Flow, FlowOf, Own, PendingOwn
<1>2. CASE GiveUp(r)
  BY <1>1, <1>2, GiveUpKept
<1>3. CASE ~GiveUp(r)
  <2>1. PICK repo, d : repo = "subscriptions" /\ d = Merged(Own(r), r, {"own"})
    OBVIOUS
  <2>2. /\ repo = Repo(r) /\ About(r) = r /\ repo \in Repos
        /\ r \in Ids /\ r \in Nat /\ r # 0
    BY <1>1, <2>1, RequestsAssumption DEF Lifecycle, Repo, About, Repos, Requests, Ids
  <2>3. /\ ~Missing(r)
        /\ Stores(repo, r, d)
        /\ obj' = [obj EXCEPT ![<<r, "own">>] = d]
        /\ saved' = saved \cup {r}
        /\ Serialize(repo, r, r, {"own"}, {})
        /\ clashed' = IF Stored(r).fields = read[<<r, "own">>] THEN clashed
                      ELSE clashed \cup {<<repo, r>>}
        /\ task' = [task EXCEPT ![r] = "customer"]
        /\ UNCHANGED <<handlerVars, payload, told, read, stampVars>>
    BY <1>1, <1>3, <2>1 DEF Save, Stores, Own, Goes
  <2>4. /\ d \in Doc /\ d.refs = Own(r).refs
        /\ d.fields = After(Own(r).fields, r, {"own"}, {})
    BY <1>1, <2>1, <2>2, MergedDoc DEF Fields
  <2>5. /\ store' \in [Repos -> [Ids -> Doc \cup {NoDoc}]]
        /\ store'[repo][r] = d
        /\ \A repo2 \in Repos : \A j \in Ids :
             <<repo2, j>> # <<repo, r>> => store'[repo2][j] = store[repo2][j]
    BY <1>1, <2>2, <2>3, <2>4, StoresElsewhere
  <2>6. /\ serial' \in [Repos -> [Ids -> [Fields -> Value]]]
        /\ serial'[repo][r] = After(serial[repo][r], r, {"own"}, {})
    BY <1>1, <2>2, <2>3, SerialElsewhere
  <2> USE DEF handlerVars
  <2>7. /\ task'[r] = "customer" /\ obj'[<<r, "own">>] = d
        /\ obj'[<<r, "answered">>] = obj[<<r, "answered">>]
        /\ obj' \in [Cells -> Doc \cup {NoDoc}]
        /\ task' \in [Requests -> Steps] /\ r \in saved'
    BY <1>1, <2>3, <2>4, Cells2 DEF TypeOK, Whose, Steps
  <2>8. Frame(r)
    BY <1>1, <2>3 DEF Frame, TypeOK, Cells, Whose
  <2>9. TypeOK'
    <3>1. clashed' \subseteq Repos \X Ids
      BY <1>1, <2>2, <2>3 DEF TypeOK
    <3>2. saved' \subseteq Requests
      BY <1>1, <2>3 DEF TypeOK
    <3> QED BY <1>1, <2>3, <2>5, <2>6, <2>7, <3>1, <3>2 DEF TypeOK, Value
  <2>10. store[repo][r] # NoDoc
    BY <2>2, <2>3 DEF Missing, Stored
  <2>11. \A q \in Requests : /\ Wrote(q)' = Wrote(q) /\ Born(q)' = Born(q)
                             /\ Repo(q)' = Repo(q) /\ About(q)' = About(q)
    BY <2>3 DEF Wrote, Answered, Born, Repo, About
  <2>12. Evolves
    <3>1. \A repo2 \in Repos : \A j \in Ids :
             store[repo2][j] = NoDoc => store'[repo2][j] = NoDoc
      BY <2>5, <2>10
    <3> QED BY <2>3, <2>11, <3>1 DEF Evolves
  <2>13. Fit(r, Own(r)) /\ Wrote(r) /\ Born(r)
    BY <1>1, WroteBorn DEF IInv, Held, HeldOf, Wrote
  <2>14. DocFits(repo, r)'
    <3>1. d.refs \in RefsAt(repo, r)
      BY <2>2, <2>4, <2>13 DEF Fit
    <3>2. \A f \in Fields : \A q \in Requests : d.fields[f] = q =>
             q = r \/ Own(r).fields[f] = q
      BY <2>4, RequestsAssumption DEF After, Requests
    <3>3. \A f \in Fields : \A q \in Requests : d.fields[f] = q =>
             Wrote(q) /\ Repo(q) = repo /\ About(q) = r
      BY <2>2, <2>3, <2>13, <3>2 DEF Fit
    <3> QED BY <2>2, <2>5, <2>11, <2>13, <3>1, <3>3 DEF DocFits, RefsAt
  <2>15. <<repo, r>> \notin clashed' => serial'[repo][r] = d.fields
    <3> SUFFICES ASSUME <<repo, r>> \notin clashed' PROVE serial'[repo][r] = d.fields
      OBVIOUS
    <3>1. Stored(r).fields = read[<<r, "own">>] /\ <<repo, r>> \notin clashed
      BY <2>3
    <3>2. store[repo][r].fields = serial[repo][r]
      BY <2>2, <2>10, <3>1 DEF IInv, UpdatesAccumulate
    <3>3. Own(r).fields = read[<<r, "own">>]
      BY <1>1 DEF IInv, Basis, BasisOf
    <3> QED BY <2>2, <2>4, <2>6, <3>1, <3>2, <3>3 DEF Stored
  <2>16. clashed \subseteq clashed'
    BY <2>3
  <2>17. Documents' /\ UpdatesAccumulate' /\ Blanks'
    BY <2>2, <2>3, <2>4, <2>11, <2>12, <2>13, <2>14, <2>15, <2>16, StoredKept
  <2>18. FlowOf(r)'
    BY <1>1, <2>3, <2>4, <2>7 DEF IInv, Flow, FlowOf, Repo, Answered, Shown, Cell
  <2>19. HeldOf(r)' /\ BasisOf(r)' /\ PayloadOf(r)'
    BY <1>1, <2>3, <2>7 DEF HeldOf, BasisOf, PayloadOf, Pending, PendingOwn
  <2>20. SameTale(r)
    BY <2>3, <2>7 DEF SameTale, Answered, Shown
  <2> QED BY <2>3, <2>8, <2>9, <2>12, <2>17, <2>18, <2>19, <2>20, PartsKept, ToldKept
          DEF OwnPart, IInv
<1> QED BY <1>2, <1>3

---------------------------------------------------------------------------
(* Every execution.                                                        *)

LEMMA InitDocs ==
    ASSUME Init, NEW repo \in Repos, NEW i \in Ids
    PROVE  /\ store[repo][i] \in Doc \cup {NoDoc}
           /\ serial[repo][i] \in [Fields -> Value]
           /\ i # 0 => store[repo][i] = NoDoc /\ serial[repo][i] = Blank
           /\ store[repo][i] # NoDoc => /\ store[repo][i].refs \in RefsAt(repo, i)
                                       /\ store[repo][i].fields = serial[repo][i]
                                       /\ \A f \in Fields : serial[repo][i][f] = 0
<1>1. PICK zero : zero = [f \in Fields |-> 0]
  OBVIOUS
<1>2. zero \in [Fields -> Value] /\ Blank \in [Fields -> Value]
  BY <1>1 DEF Value, Blank
<1>3. Ref("id", "id") \in [References -> Reference]
  BY RefType DEF Reference
<1>4. /\ store[repo][i] = IF i = 0 THEN Preloaded[repo] ELSE NoDoc
      /\ serial[repo][i] = IF i = 0 THEN zero ELSE Blank
  BY <1>1 DEF Init
<1>5. PICK refs : refs = IF repo = "subscriptions" THEN Ref("id", "id")
                           ELSE RefsOfNew(repo, TRUE)
  OBVIOUS
<1>6. /\ refs \in [References -> Reference] /\ refs \in RefsAt(repo, 0)
      /\ Preloaded[repo] # NoDoc => Preloaded[repo] = [fields |-> zero, refs |-> refs]
  BY <1>1, <1>3, <1>5, NewRefs DEF RefsAt, Preloaded
<1>7. Preloaded[repo] \in Doc \cup {NoDoc}
  BY <1>2, <1>5, <1>6, DocMade
<1>8. CASE i = 0
  BY <1>1, <1>2, <1>4, <1>6, <1>7, <1>8
<1>9. CASE i # 0
  BY <1>2, <1>4, <1>9
<1> QED BY <1>8, <1>9

LEMMA InitKept == Init => IInv
<1> SUFFICES ASSUME Init PROVE IInv
  OBVIOUS
<1>1. TypeOK
  <2>1. store \in [Repos -> [Ids -> Doc \cup {NoDoc}]]
    <3>1. store = [repo \in Repos |-> [i \in Ids |-> store[repo][i]]]
      BY DEF Init
    <3> QED BY <3>1, InitDocs
  <2>2. serial \in [Repos -> [Ids -> [Fields -> Value]]]
    <3>1. serial = [repo \in Repos |-> [i \in Ids |-> serial[repo][i]]]
      BY DEF Init
    <3> QED BY <3>1, InitDocs
  <2>3. read \in [Cells -> [Fields -> Value]]
    BY DEF Init, Blank, Value
  <2>4. Input0 \in Input
    BY RequestsAssumption DEF Input0, Input, Routes, Repos, Ids, Wires
  <2>5. told \in Seq([by : Requests, doc : Doc])
    BY DEF Init
  <2>6. input \in [Requests -> Input]
    BY <2>4 DEF Init
  <2>7. todo \in [Requests -> Seq(Todos)]
    BY DEF Init
  <2>8. pc \in [Requests -> Pcs] /\ task \in [Requests -> Steps]
    BY DEF Init, Pcs, Steps
  <2>9. status \in [Requests -> Statuses] /\ saved \subseteq Requests
    BY DEF Init, Statuses
  <2>10. obj \in [Cells -> Doc \cup {NoDoc}] /\ payload \in [Requests -> Doc \cup {NoDoc}]
    BY DEF Init
  <2>11. answer \in [Requests -> Payload \cup {NoDoc}] /\ clashed \subseteq Repos \X Ids
    BY DEF Init
  <2> QED BY <2>1, <2>2, <2>3, <2>5, <2>6, <2>7, <2>8, <2>9, <2>10, <2>11
          DEF TypeOK, Value
<1>2. \A r \in Requests : /\ pc[r] = "idle" /\ task[r] = "none" /\ ~Answered(r)
                          /\ ~Born(r) /\ r \in Ids /\ r # 0
  BY RequestsAssumption DEF Init, Answered, Born, Requests, Ids
<1>3. Flow
  BY <1>2 DEF Flow, FlowOf
<1>4. Documents
  <2>1. 0 \notin Requests
    BY RequestsAssumption DEF Requests
  <2>2. ASSUME NEW repo \in Repos, NEW i \in Ids PROVE DocFits(repo, i)
    BY <2>1, InitDocs DEF DocFits
  <2> QED BY <2>2 DEF Documents
<1>5. UpdatesAccumulate /\ Blanks
  BY <1>2, InitDocs DEF UpdatesAccumulate, Blanks
<1>6. Held /\ Basis /\ Payloads
  BY <1>2 DEF Held, HeldOf, Basis, BasisOf, Payloads, PayloadOf, Pending, PendingOwn
<1>7. Told
  BY DEF Init, Told
<1> QED BY <1>1, <1>3, <1>4, <1>5, <1>6, <1>7 DEF IInv

LEMMA UnchangedKept ==
    ASSUME IInv, UNCHANGED <<store, obj, handlerVars, taskVars, historyVars>>
    PROVE  IInv'
<1> USE DEF handlerVars, taskVars, historyVars
<1>1. \A r \in Requests : /\ Repo(r)' = Repo(r) /\ About(r)' = About(r)
                          /\ Born(r)' = Born(r) /\ Wrote(r)' = Wrote(r)
                          /\ Answered(r)' = Answered(r)
                          /\ Shown(r)' = Shown(r) /\ Own(r)' = Own(r)
  BY DEF Repo, About, Born, Wrote, Answered, Shown, Own
<1>2. TypeOK'
  BY DEF IInv, TypeOK
<1>3. Flow' /\ Basis' /\ Payloads'
  BY <1>1 DEF IInv, Flow, FlowOf, Basis, BasisOf, Payloads, PayloadOf, CopyOf, Cell,
              Pending, PendingOwn
<1>4. Documents' /\ Blanks' /\ UpdatesAccumulate'
  <2>1. ASSUME NEW repo \in Repos, NEW i \in Ids PROVE DocFits(repo, i)'
    <3>1. i # 0 => i \in Requests
      BY RequestsAssumption DEF Ids, Requests
    <3> QED BY <1>1, <3>1 DEF IInv, Documents, DocFits, RefsAt
  <2>2. Blanks'
    BY <1>1 DEF IInv, Blanks
  <2>3. UpdatesAccumulate'
    BY DEF IInv, UpdatesAccumulate
  <2> QED BY <2>1, <2>2, <2>3 DEF Documents
<1>5. Held'
  <2> SUFFICES ASSUME NEW r \in Requests PROVE HeldOf(r)'
    BY DEF Held
  <2>1. PICK d, e : d = Shown(r) /\ e = Own(r)
    OBVIOUS
  <2>2. (Pending(r) => Fit(r, d)') /\ (PendingOwn(r) => Fit(r, e)')
    BY <2>1, FitSame DEF IInv, Held, HeldOf
  <2> QED BY <1>1, <2>1, <2>2 DEF HeldOf, Pending, PendingOwn
<1>6. Told'
  BY <1>1, Tellers DEF IInv, Told, TaleOf, CopyOf, Shown, Repo, Answered
<1> QED BY <1>2, <1>3, <1>4, <1>5, <1>6 DEF IInv

LEMMA NextKept == IInv /\ [Next]_vars => IInv'
<1> SUFFICES ASSUME IInv, [Next]_vars PROVE IInv'
  OBVIOUS
<1>1. CASE UNCHANGED vars \/ Tick
  BY <1>1, UnchangedKept DEF vars, Tick
<1>2. ASSUME NEW r \in Requests, NEW in \in Inputs[r], Arrive(r, in) PROVE IInv'
  BY <1>2, ArriveKept
<1>3. ASSUME NEW r \in Requests, Handler(r) PROVE IInv'
  <2>1. CASE Refuse(r)
    BY <2>1, FinishKept DEF Refuse, Answered, Statuses, Dropped
  <2>2. CASE List(r)
    BY <2>2, FinishKept DEF List, Starts, Answered, Statuses
  <2> QED BY <1>3, <2>1, <2>2, CreateKept, RereadKept, ReadKept, WriteKept,
             RetrieveKept, ExpandKept, AnswerKept, ResetKept, ClearKept DEF Handler
<1>4. ASSUME NEW r \in Requests, Goroutine(r) PROVE IInv'
  BY <1>4, FetchKept, MarshalKept, CustomerKept, ProductKept, NumberKept, StampKept,
     SaveKept DEF Goroutine
<1> QED BY <1>1, <1>2, <1>3, <1>4 DEF Next

LEMMA Always == Spec => []IInv
  BY InitKept, NextKept, PTL DEF Spec

\* In every execution every variable has its type, no goroutine announces a
\* missing document, and nobody stores or answers with one.
THEOREM TypeCorrect == Spec => []TypeOK
<1>1. IInv => TypeOK
  BY DEF IInv
<1> QED BY <1>1, Always, PTL

\* In every execution a refused request leaves nothing behind, even if it was
\* refused half way, and even if others had read what it wrote.
THEOREM Refusals == Spec => []RefusedLeavesNothing
<1>1. IInv => RefusedLeavesNothing
  <2> SUFFICES ASSUME IInv, NEW r \in Requests, pc[r] = "done", status[r] # 200
               PROVE  /\ \A repo \in Repos, i \in Ids : store[repo][i] # NoDoc =>
                            /\ ~(input[r].route = "create" /\ Repo(r) = repo /\ i = r)
                            /\ \A f \in Fields : store[repo][i].fields[f] # r
                      /\ \A n \in 1 .. Len(told) : told[n].by # r
    BY DEF RefusedLeavesNothing
  <2>1. ~Wrote(r) /\ ~Answered(r) /\ r # 0
    BY RequestsAssumption DEF Wrote, Answered, Requests
  <2>2. \A repo \in Repos, i \in Ids : store[repo][i] # NoDoc =>
           i # r /\ \A f \in Fields : store[repo][i].fields[f] # r
    BY <2>1 DEF IInv, Documents, DocFits
  <2>3. \A n \in 1 .. Len(told) : told[n].by # r
    BY <2>1 DEF IInv, Told, TaleOf
  <2> QED BY <2>2, <2>3
<1> QED BY <1>1, Always, PTL

\* In every execution events tell what their request was answered with.
THEOREM Events == Spec => []EventTellsAnswer
<1>1. IInv => EventTellsAnswer
  <2> SUFFICES ASSUME IInv, NEW n \in 1 .. Len(told), NEW r \in Requests,
                      r = told[n].by, Cell(r)[2] = "answered"
               PROVE  /\ told[n].doc.fields = obj[<<r, "answered">>].fields
                      /\ \A x \in References : told[n].doc.refs[x] = "none"
                                                <=> obj[<<r, "answered">>].refs[x] = "none"
                      /\ Repo(r) = "subscriptions" =>
                           \A x \in References : told[n].doc.refs[x] # "id"
    BY Tellers DEF EventTellsAnswer, IInv
  <2>1. ~Lifecycle(input[r])
    BY DEF Cell
  <2>2. CopyOf(r, told[n].doc, Shown(r), "stamp")
    BY <2>1 DEF IInv, Told, TaleOf
  <2> QED BY <2>2 DEF CopyOf, Shown, References
<1> QED BY <1>1, Always, PTL

\* In every execution nothing that was expanded for events and answers is
\* stored, although they share their objects with what is.
THEOREM Bareness == Spec => []StoreStaysBare
<1>1. IInv => StoreStaysBare
  <2> SUFFICES ASSUME IInv, NEW repo \in Repos, NEW i \in Ids, store[repo][i] # NoDoc
               PROVE  Bare(store[repo][i])
    BY DEF StoreStaysBare
  <2>1. store[repo][i].refs \in RefsAt(repo, i)
    BY DEF IInv, Documents, DocFits
  <2>2. CASE repo = "subscriptions" /\ i = 0
    BY <2>1, <2>2, RefType DEF RefsAt, Bare, References, Reference
  <2>3. CASE ~(repo = "subscriptions" /\ i = 0)
    BY <2>1, <2>3, NewRefs DEF RefsAt, Bare
  <2> QED BY <2>2, <2>3
<1> QED BY <1>1, Always, PTL

\* In every execution a document shows all updates that did not write over
\* what they had not read.
THEOREM Accumulation == Spec => []UpdatesAccumulate
<1>1. IInv => UpdatesAccumulate
  BY DEF IInv
<1> QED BY <1>1, Always, PTL

---------------------------------------------------------------------------
(* Expansion.                                                              *)

\* The first k of the asked names are expanded, and nothing else; w is 1
\* while the price of the k-th, a product, is all that was expanded of it.
AsFar(asked, refs, k, w) ==
    /\ refs["customer"] # "none" =>
          (refs["customer"] = "id" <=> \A i \in 1 .. k : asked[i] # "customer")
    /\ refs["product"] \in {"object", "placeholder"} =>
          \E i \in 1 .. k : asked[i] = "product"
    /\ w = 0 /\ refs["product"] = "id" =>
          \A i \in 1 .. k : asked[i] = "product" =>
             \E m \in i + 1 .. k : asked[m] = "price"

\* What is left to expand then.
LeftAfter(asked, left, k, w) ==
    /\ Len(left) = Len(asked) - k + w
    /\ w = 1 => k >= 1 /\ asked[k] = "product" /\ left[1] = "priceProduct"
    /\ \A i \in k + 1 .. Len(asked) : left[i - k + w] = asked[i]

Expanding(asked, left, refs) ==
    \E k \in 0 .. Len(asked), w \in {0, 1} :
        LeftAfter(asked, left, k, w) /\ AsFar(asked, refs, k, w)

\* A retrieve expands the object it shows as far as it has come, and is
\* answered with that object when nothing is left.
ExpansionOf(r) ==
    /\ pc[r] = "wire" => todo[r] = input[r].asked
    /\ pc[r] = "clear" => input[r].route = "reset"
    /\ input[r].route = "retrieve" =>
         /\ task[r] = "none"
         /\ pc[r] = "answer" => todo[r] = <<>>
         /\ Repo(r) = "subscriptions" =>
              /\ pc[r] \in {"expand", "answer"} =>
                    Expanding(input[r].asked, todo[r], Shown(r).refs)
              /\ pc[r] = "done" /\ status[r] = 200 =>
                    AsFar(input[r].asked, answer[r].refs, Len(input[r].asked), 0)

Expansion == \A r \in Requests : ExpansionOf(r)

LEMMA NothingLeft ==
    ASSUME NEW asked \in Seq(Names), NEW left \in Seq(Todos), NEW refs,
           Expanding(asked, left, refs), left = <<>>
    PROVE  AsFar(asked, refs, Len(asked), 0)
<1>1. PICK k \in 0 .. Len(asked), w \in {0, 1} :
        LeftAfter(asked, left, k, w) /\ AsFar(asked, refs, k, w)
  BY DEF Expanding
<1>2. Len(left) = 0 /\ Len(asked) \in Nat
  OBVIOUS
<1>3. k = Len(asked) /\ w = 0
  BY <1>1, <1>2 DEF LeftAfter
<1> QED BY <1>1, <1>3

LEMMA NothingExpanded ==
    ASSUME NEW asked \in Seq(Names), NEW refs, refs["customer"] \in {"none", "id"},
           refs["product"] \in {"none", "id"}
    PROVE  Expanding(asked, asked, refs)
<1>1. Len(asked) \in Nat
  OBVIOUS
<1>2. LeftAfter(asked, asked, 0, 0)
  BY <1>1 DEF LeftAfter
<1>3. AsFar(asked, refs, 0, 0)
  BY DEF AsFar
<1> QED BY <1>1, <1>2, <1>3 DEF Expanding

\* One name of expand[] further: the references refs become those of new.
LEMMA OneFurther ==
    ASSUME NEW asked \in Seq(Names), NEW left \in Seq(Todos), left # <<>>,
           NEW refs, NEW new \in [References -> Reference],
           Expanding(asked, left, refs),
           Head(left) = "customer" =>
              new["customer"] # "id" /\ new["product"] = refs["product"],
           Head(left) # "customer" => new["customer"] = refs["customer"],
           Head(left) = "priceProduct" => new["product"] # "id",
           Head(left) \in {"price", "product"} =>
              new["product"] \in {refs["product"], "none", "id"},
           NEW next,
           next = IF Head(left) = "product" THEN <<"priceProduct">> \o Tail(left)
                  ELSE Tail(left)
    PROVE  Expanding(asked, next, new)
<1> DEFINE rest == Tail(left)
<1>1. PICK k \in 0 .. Len(asked), w \in {0, 1} :
        LeftAfter(asked, left, k, w) /\ AsFar(asked, refs, k, w)
  BY DEF Expanding
<1>2. /\ Len(asked) \in Nat /\ Len(left) \in Nat \ {0}
      /\ Head(left) = left[1]
      /\ rest \in Seq(Todos) /\ Len(rest) = Len(left) - 1
      /\ \A i \in 1 .. Len(rest) : rest[i] = left[i + 1]
  BY HeadTailProperties, EmptySeq
<1>3. \A i \in 1 .. Len(asked) : asked[i] \in Names
  BY ElementOfSeq
<1>4. CASE w = 1
  <2>1. left[1] = "priceProduct" /\ k >= 1 /\ asked[k] = "product" /\ next = rest
    BY <1>1, <1>2, <1>4 DEF LeftAfter
  <2>2. LeftAfter(asked, rest, k, 0)
    BY <1>1, <1>2, <1>4 DEF LeftAfter
  <2>3. AsFar(asked, new, k, 0)
    <3>1. new["customer"] = refs["customer"] /\ new["product"] # "id"
      BY <1>2, <2>1
    <3>2. \E i \in 1 .. k : asked[i] = "product"
      BY <2>1
    <3> QED BY <1>1, <3>1, <3>2 DEF AsFar
  <2> QED BY <2>1, <2>2, <2>3 DEF Expanding
<1>5. CASE w = 0
  <2>1. k < Len(asked) /\ left[1] = asked[k + 1] /\ k + 1 \in 1 .. Len(asked)
    BY <1>1, <1>2, <1>5 DEF LeftAfter
  <2>2. /\ Len(rest) = Len(asked) - (k + 1)
        /\ \A i \in k + 2 .. Len(asked) : rest[i - (k + 1)] = asked[i]
    BY <1>1, <1>2, <1>5, <2>1 DEF LeftAfter
  <2>3. asked[k + 1] \in {"customer", "price", "product"}
    BY <1>3, <2>1 DEF Names
  <2>4. 1 .. k + 1 = (1 .. k) \cup {k + 1}
    BY <2>1
  <2>5. CASE asked[k + 1] = "product"
    <3>1. new["customer"] = refs["customer"] /\ new["product"] \in {refs["product"], "none", "id"}
      BY <1>2, <2>1, <2>5
    <3>2. AsFar(asked, new, k + 1, 1)
      BY <1>1, <2>4, <2>5, <3>1 DEF AsFar
    <3>3. <<"priceProduct">> \in Seq(Todos) /\ Len(<<"priceProduct">>) = 1
      BY DEF Todos
    <3>4. /\ Len(<<"priceProduct">> \o rest) = Len(rest) + 1
          /\ (<<"priceProduct">> \o rest)[1] = "priceProduct"
          /\ \A i \in 1 .. Len(rest) : (<<"priceProduct">> \o rest)[i + 1] = rest[i]
      BY <1>2, <3>3, ConcatProperties
    <3>5. next = <<"priceProduct">> \o rest
      BY <1>2, <2>1, <2>5
    <3> HIDE DEF rest
    <3>6. LeftAfter(asked, next, k + 1, 1)
      <4>1. ASSUME NEW i \in k + 2 .. Len(asked)
            PROVE  next[i - (k + 1) + 1] = asked[i]
        <5>1. i - (k + 1) \in 1 .. Len(rest)
          BY <1>2, <2>1, <2>2
        <5> QED BY <2>2, <3>4, <3>5, <5>1
      <4>2. Len(next) = Len(asked) - (k + 1) + 1
        BY <2>2, <3>4, <3>5
      <4>3. next[1] = "priceProduct"
        BY <3>4, <3>5
      <4> QED BY <2>1, <2>5, <4>1, <4>2, <4>3 DEF LeftAfter
    <3> QED BY <2>1, <3>2, <3>6 DEF Expanding
  <2>6. CASE asked[k + 1] # "product"
    <3>1. next = rest
      BY <1>2, <2>1, <2>6
    <3>2. LeftAfter(asked, next, k + 1, 0)
      BY <2>1, <2>2, <3>1 DEF LeftAfter
    <3>3. AsFar(asked, new, k + 1, 0)
      <4>1. CASE asked[k + 1] = "customer"
        <5>1. new["customer"] # "id" /\ new["product"] = refs["product"]
          BY <1>2, <2>1, <4>1
        <5> QED BY <1>1, <1>5, <2>4, <4>1, <5>1 DEF AsFar
      <4>2. CASE asked[k + 1] = "price"
        <5>1. /\ new["customer"] = refs["customer"]
              /\ new["product"] \in {refs["product"], "none", "id"}
          BY <1>2, <2>1, <4>2
        <5> QED BY <1>1, <1>5, <2>4, <4>2, <5>1 DEF AsFar
      <4> QED BY <2>3, <2>6, <4>1, <4>2
    <3> QED BY <2>1, <3>2, <3>3 DEF Expanding
  <2> QED BY <2>5, <2>6
<1> QED BY <1>4, <1>5

\* What the invariant says of q does not change with what others do.
SameFor(q) == /\ pc'[q] = pc[q] /\ input'[q] = input[q] /\ todo'[q] = todo[q]
              /\ status'[q] = status[q] /\ task'[q] = task[q]
              /\ Shown(q)' = Shown(q) /\ answer'[q] = answer[q]

LEMMA ExpansionSame ==
    ASSUME NEW q \in Requests, ExpansionOf(q), SameFor(q) PROVE ExpansionOf(q)'
BY DEF ExpansionOf, SameFor, Shown, Repo

LEMMA HandlersApart ==
    ASSUME TypeOK, NEW r \in Requests, Handler(r)
    PROVE  \A q \in Requests : q # r => SameFor(q)
<1> SUFFICES ASSUME NEW q \in Requests, q # r PROVE SameFor(q)
  OBVIOUS
<1> USE DEF TypeOK, SameFor, Shown, taskVars, historyVars
<1>1. ASSUME NEW code, Finish(r, code) PROVE SameFor(q)
  BY <1>1 DEF Finish
<1>2. <<q, "answered">> \in Cells /\ <<r, "answered">> \in Cells
      /\ <<q, "answered">> # <<r, "answered">>
  BY DEF Cells
<1>3. CASE Refuse(r) \/ List(r) \/ NotFound(r)
  BY <1>1, <1>3 DEF Refuse, List, NotFound
<1>4. CASE Create(r)
  BY <1>4 DEF Create
<1>5. CASE Reread(r)
  BY <1>1, <1>2, <1>5 DEF Reread, NotFound, Holds
<1>6. CASE Read(r)
  BY <1>1, <1>2, <1>6 DEF Read, NotFound, Holds
<1>7. CASE Write(r)
  BY <1>1, <1>7 DEF Write, NotFound
<1>8. CASE Retrieve(r)
  BY <1>1, <1>2, <1>8 DEF Retrieve, NotFound, Holds
<1>9. CASE ExpandAsked(r)
  BY <1>2, <1>9 DEF ExpandAsked
<1>10. CASE Answer(r)
  BY <1>10 DEF Answer
<1>11. CASE Reset(r) \/ Clear(r)
  BY <1>11 DEF Reset, Clear
<1> QED BY <1>3, <1>4, <1>5, <1>6, <1>7, <1>8, <1>9, <1>10, <1>11 DEF Handler

LEMMA GoroutinesApart ==
    ASSUME TypeOK, NEW r \in Requests, Goroutine(r)
    PROVE  /\ \A q \in Requests : q # r => SameFor(q)
           /\ UNCHANGED handlerVars
           /\ task[r] # "none"
<1> USE DEF TypeOK, SameFor, Shown, historyVars, handlerVars, Goes, At
<1>1. \A q \in Requests : q # r => <<q, "answered">> # Cell(r)
  BY DEF Cell
<1>2. \A q \in Requests : <<q, "answered">> \in Cells
  BY DEF Cells
<1>3. CASE Fetch(r)
  BY <1>1, <1>2, <1>3 DEF Fetch, GiveUp, Holds
<1>4. CASE Marshal(r) \/ ExpandCustomer(r)
  BY <1>4 DEF Marshal, ExpandCustomer
<1>5. CASE ExpandProduct(r)
  BY <1>1, <1>2, <1>5 DEF ExpandProduct
<1>6. CASE Number(r) \/ Stamp(r)
  BY <1>6 DEF Number, Stamp
<1>7. CASE Save(r)
  BY <1>1, <1>2, <1>7 DEF Save, GiveUp
<1> QED BY <1>3, <1>4, <1>5, <1>6, <1>7 DEF Goroutine

\* A handler that has no object to expand.
LEMMA NotExpanding ==
    ASSUME NEW r \in Requests, input'[r] = input[r],
           pc'[r] \notin {"wire", "expand", "answer"},
           pc'[r] = "clear" => input[r].route = "reset",
           input[r].route = "retrieve" =>
              task'[r] = "none" /\ (pc'[r] = "done" => status'[r] # 200)
    PROVE  ExpansionOf(r)'
BY DEF ExpansionOf, Repo

LEMMA RetrieveExpands ==
    ASSUME IInv, NEW r \in Requests, ExpansionOf(r), Retrieve(r)
    PROVE  ExpansionOf(r)'
<1>1. /\ TypeOK /\ pc[r] = "wire" /\ input[r].route = "retrieve"
      /\ task[r] = "none" /\ todo[r] = input[r].asked
  BY DEF Retrieve, Starts, ExpansionOf, IInv
<1>2. CASE Finish(r, 404)
  BY <1>1, <1>2, NotExpanding DEF Finish, TypeOK, taskVars
<1>3. CASE ~Finish(r, 404)
  <2> DEFINE d == IF Missing(r) THEN Mock ELSE Stored(r)
  <2>1. /\ obj' = [obj EXCEPT ![<<r, "answered">>] = d]
        /\ pc' = [pc EXCEPT ![r] = IF todo[r] = <<>> THEN "answer" ELSE "expand"]
        /\ UNCHANGED <<input, todo, status, answer, task>>
    BY <1>3 DEF Retrieve, NotFound, Holds, taskVars
  <2>2. Repo(r) = "subscriptions" =>
           d.refs["customer"] \in {"none", "id"} /\ d.refs["product"] \in {"none", "id"}
    <3> SUFFICES ASSUME Repo(r) = "subscriptions"
                 PROVE  /\ d.refs["customer"] \in {"none", "id"}
                        /\ d.refs["product"] \in {"none", "id"}
      OBVIOUS
    <3>1. "none" \in Reference /\ "id" \in Reference
      BY DEF Reference
    <3>2. \A product \in {"none", "id"} :
            /\ Ref("id", product)["customer"] = "id"
            /\ Ref("id", product)["product"] = product
      BY <3>1, RefType
    <3>3. CASE Missing(r)
      BY <3>2, <3>3 DEF Mock
    <3>4. CASE ~Missing(r)
      <4>1. Stored(r).refs \in RefsAt("subscriptions", About(r))
        BY <3>4, StoredFits DEF Fit
      <4>2. CASE Stored(r).refs = Ref("id", "id")
        BY <3>2, <3>4, <4>2
      <4>3. CASE \E refers \in BOOLEAN :
                   Stored(r).refs = RefsOfNew("subscriptions", refers)
        BY <3>4, <4>3, NewRefs DEF Repos, References
      <4> QED BY <4>1, <4>2, <4>3 DEF RefsAt
    <3> QED BY <3>3, <3>4
  <2> HIDE DEF d
  <2>3. Shown(r)' = d
    BY <1>1, <2>1, Cells2 DEF TypeOK, Shown, Whose
  <2>4. pc'[r] = IF todo[r] = <<>> THEN "answer" ELSE "expand"
    BY <1>1, <2>1 DEF TypeOK
  <2>5. input[r].asked \in Seq(Names)
    BY <1>1 DEF TypeOK, Input
  <2>6. Repo(r) = "subscriptions" => Expanding(input[r].asked, todo[r], d.refs)
    BY <1>1, <2>2, <2>5, NothingExpanded
  <2>7. ExpansionOf(r)'
    BY <1>1, <2>1, <2>3, <2>4, <2>6 DEF ExpansionOf, Repo
  <2> QED BY <2>7
<1> QED BY <1>2, <1>3

\* What one step of expandSubscription does to the references.
LEMMA ExpandedRefs ==
    ASSUME NEW d \in Doc, NEW x \in References, NEW there \in BOOLEAN
    PROVE  /\ ExpandAgain(d, x, there).refs[x] # "id"
           /\ \A y \in References : y # x => ExpandAgain(d, x, there).refs[y] = d.refs[y]
<1>1. d.refs \in [References -> Reference]
  BY DocParts
<1>2. CASE d.refs[x] = "none"
  BY <1>2 DEF ExpandAgain
<1>3. CASE d.refs[x] # "none"
  <2>1. ExpandAgain(d, x, there).refs = [d.refs EXCEPT ![x] = Fetched(there)]
    BY <1>3 DEF ExpandAgain, Doc
  <2>2. Fetched(there) # "id"
    BY DEF Fetched
  <2> QED BY <1>1, <2>1, <2>2
<1> QED BY <1>2, <1>3

LEMMA ReplacedRefs ==
    ASSUME NEW d \in Doc, NEW price \in Doc \cup {NoDoc},
           price # NoDoc => price.refs["product"] \in {"none", "id"}
    PROVE  /\ ReplacePrice(d, price).refs["customer"] = d.refs["customer"]
           /\ ReplacePrice(d, price).refs["product"] \in {d.refs["product"], "none", "id"}
<1>1. d.refs \in [References -> Reference]
  BY DocParts
<1>2. CASE price = NoDoc
  BY <1>2 DEF ReplacePrice
<1>3. CASE price # NoDoc
  <2>1. ReplacePrice(d, price).refs = [d.refs EXCEPT !["product"] = price.refs["product"]]
    BY <1>3 DEF ReplacePrice, Doc
  <2> QED BY <1>1, <1>3, <2>1 DEF References
<1> QED BY <1>2, <1>3

LEMMA ExpandExpands ==
    ASSUME IInv, NEW r \in Requests, ExpansionOf(r), ExpandAsked(r)
    PROVE  ExpansionOf(r)'
<1> DEFINE c    == <<r, "answered">>
           name == Head(todo[r])
           rest == Tail(todo[r])
           left == IF name = "product" THEN <<"priceProduct">> \o rest ELSE rest
<1>1. /\ TypeOK /\ pc[r] = "expand"
      /\ obj[c] \in Doc /\ todo[r] # <<>> /\ todo[r] \in Seq(Todos)
  BY DEF IInv, Flow, FlowOf, Shown, TypeOK, ExpandAsked
<1>2. /\ todo' = [todo EXCEPT ![r] = left]
      /\ pc' = [pc EXCEPT ![r] = IF left = <<>> THEN "answer" ELSE "expand"]
      /\ UNCHANGED <<input, status, answer, task>>
  BY DEF ExpandAsked, taskVars
<1>3. PICK e \in Doc :
        /\ obj' = [obj EXCEPT ![c] = e]
        /\ name = "customer" =>
              e.refs["customer"] # "id" /\ e.refs["product"] = obj[c].refs["product"]
        /\ name # "customer" => e.refs["customer"] = obj[c].refs["customer"]
        /\ name = "priceProduct" => e.refs["product"] # "id"
        /\ name \in {"price", "product"} =>
              e.refs["product"] \in {obj[c].refs["product"], "none", "id"}
  <2>1. There("customers") \in BOOLEAN /\ There("products") \in BOOLEAN
    BY DEF There
  <2>2. PICK price \in Doc \cup {NoDoc} : price = store["prices"][0]
    BY <1>1, RequestsAssumption DEF TypeOK, Repos, Ids
  <2>3. price # NoDoc => price.refs["product"] \in {"none", "id"}
    <3>1. 0 \in Ids /\ "prices" \in Repos /\ "product" \in References
      BY RequestsAssumption DEF Ids, Repos, References
    <3>2. price # NoDoc => price.refs \in RefsAt("prices", 0)
      BY <2>2, <3>1 DEF IInv, Documents, DocFits
    <3>3. \E refers \in BOOLEAN : price # NoDoc => price.refs = RefsOfNew("prices", refers)
      BY <3>2 DEF RefsAt
    <3> QED BY <3>1, <3>3, NewRefs
  <2>4. "customer" \in References /\ "product" \in References
    BY DEF References
  <2>5. CASE name = "customer"
    <3>1. PICK there \in BOOLEAN : there = (obj[c].fields # Blank /\ There("customers"))
      BY <2>1
    <3>2. obj' = [obj EXCEPT ![c] = ExpandAgain(obj[c], "customer", there)]
      BY <2>5, <3>1 DEF ExpandAsked
    <3> QED BY <1>1, <2>4, <2>5, <3>2, ExpandAgainDoc, ExpandedRefs
  <2>6. CASE name = "priceProduct"
    <3>1. PICK there \in BOOLEAN : there = There("products")
      BY <2>1
    <3>2. obj' = [obj EXCEPT ![c] = ExpandAgain(obj[c], "product", there)]
      BY <2>6, <3>1 DEF ExpandAsked
    <3> QED BY <1>1, <2>4, <2>6, <3>2, ExpandAgainDoc, ExpandedRefs
  <2>7. CASE name \notin {"customer", "priceProduct"}
    <3>1. obj' = [obj EXCEPT ![c] = ReplacePrice(obj[c], price)]
      BY <2>2, <2>7 DEF ExpandAsked
    <3> QED BY <1>1, <2>3, <2>7, <3>1, ReplacePriceDoc, ReplacedRefs
  <2> QED BY <2>5, <2>6, <2>7
<1>4. Shown(r)' = e /\ Shown(r) = obj[c]
  BY <1>1, <1>3, Cells2 DEF TypeOK, Shown, Whose
<1>5. input[r].asked \in Seq(Names) /\ e.refs \in [References -> Reference]
  BY <1>1, DocParts DEF TypeOK, Input
<1>6. Expanding(input[r].asked, todo[r], Shown(r).refs) =>
         Expanding(input[r].asked, left, e.refs)
  BY <1>1, <1>3, <1>4, <1>5, OneFurther
<1> HIDE DEF left
<1>7. /\ pc'[r] = IF left = <<>> THEN "answer" ELSE "expand"
      /\ todo'[r] = left
  BY <1>1, <1>2 DEF TypeOK
<1> QED BY <1>1, <1>2, <1>4, <1>6, <1>7 DEF ExpansionOf, Repo

LEMMA AnswerExpands ==
    ASSUME IInv, NEW r \in Requests, ExpansionOf(r), Answer(r)
    PROVE  ExpansionOf(r)'
<1>1. /\ TypeOK /\ pc[r] = "answer"
  BY DEF IInv, Answer
<1>2. PICK d \in Marshalled(r) : answer' = [answer EXCEPT ![r] = d]
  BY DEF Answer
<1>3. pc'[r] = "done" /\ UNCHANGED <<input, task>> /\ answer'[r] = d
  BY <1>1, <1>2 DEF Answer, TypeOK, taskVars
<1>4. CASE input[r].route = "retrieve"
  <2>1. task[r] = "none" /\ todo[r] = <<>>
    BY <1>1, <1>4 DEF ExpansionOf
  <2>2. d = Shown(r)
    BY <1>2, <2>1 DEF Marshalled, Shown
  <2>3. input[r].asked \in Seq(Names) /\ todo[r] \in Seq(Todos)
    BY <1>1 DEF TypeOK, Input
  <2>4. Repo(r) = "subscriptions" =>
           AsFar(input[r].asked, d.refs, Len(input[r].asked), 0)
    BY <1>1, <1>4, <2>1, <2>2, <2>3, NothingLeft DEF ExpansionOf
  <2> QED BY <1>3, <1>4, <2>1, <2>4 DEF ExpansionOf, Repo
<1>5. CASE input[r].route # "retrieve"
  BY <1>3, <1>5 DEF ExpansionOf
<1> QED BY <1>4, <1>5

LEMMA ExpansionKept ==
    ASSUME IInv, Expansion, [Next]_vars PROVE Expansion'
<1> SUFFICES ASSUME NEW q \in Requests PROVE ExpansionOf(q)'
  BY DEF Expansion
<1>1. TypeOK /\ ExpansionOf(q)
  BY DEF IInv, Expansion
<1>2. CASE UNCHANGED vars \/ Tick
  <2>1. SameFor(q)
    BY <1>2 DEF vars, Tick, SameFor, handlerVars, taskVars, Shown
  <2> QED BY <1>1, <2>1, ExpansionSame
<1>3. ASSUME NEW r \in Requests, NEW in \in Inputs[r], Arrive(r, in)
      PROVE  ExpansionOf(q)'
  <2> USE <1>3 DEF Arrive, taskVars
  <2>1. CASE q # r
    <3>1. SameFor(q)
      BY <1>1, <2>1 DEF SameFor, Shown, TypeOK
    <3> QED BY <1>1, <3>1, ExpansionSame
  <2>2. CASE q = r
    <3>1. pc'[r] = "wire" /\ input'[r] = in /\ todo'[r] = in.asked /\ task' = task
      BY <1>1 DEF TypeOK
    <3>2. task[r] = "none"
      BY Unanswered DEF Answered
    <3> QED BY <2>2, <3>1, <3>2 DEF ExpansionOf
  <2> QED BY <2>1, <2>2
<1>4. ASSUME NEW r \in Requests, Goroutine(r) PROVE ExpansionOf(q)'
  <2>1. CASE q # r
    BY <1>1, <1>4, <2>1, GoroutinesApart, ExpansionSame
  <2>2. CASE q = r
    <3>1. UNCHANGED <<pc, input, todo>> /\ task[r] # "none"
      BY <1>1, <1>4, GoroutinesApart DEF handlerVars
    <3> QED BY <1>1, <2>2, <3>1 DEF ExpansionOf
  <2> QED BY <2>1, <2>2
<1>5. ASSUME NEW r \in Requests, Handler(r) PROVE ExpansionOf(q)'
  <2>1. CASE q # r
    BY <1>1, <1>5, <2>1, HandlersApart, ExpansionSame
  <2> SUFFICES ASSUME q = r PROVE ExpansionOf(r)'
    BY <2>1
  <2>2. ASSUME NEW code, code # 200, Finish(r, code), pc[r] # "answer"
        PROVE  ExpansionOf(r)'
    <3>1. ExpansionOf(r)
      BY DEF Expansion
    <3> QED BY <1>1, <2>2, <3>1, NotExpanding DEF Finish, TypeOK, taskVars, ExpansionOf
  <2>3. CASE Refuse(r)
    BY <2>2, <2>3 DEF Refuse, Dropped
  <2>4. CASE Retrieve(r) \/ ExpandAsked(r) \/ Answer(r)
    BY <2>4, RetrieveExpands, ExpandExpands, AnswerExpands DEF Expansion
  <2>5. CASE \/ Create(r) \/ Reread(r) \/ Read(r) \/ Write(r)
             \/ List(r) \/ Reset(r) \/ Clear(r)
    <3>1. input[r].route # "retrieve"
      BY <2>5 DEF Create, Reread, Read, Write, List, Reset, Clear, Starts,
                  IInv, Flow, FlowOf, Expansion, ExpansionOf
    <3>2. /\ input'[r] = input[r] /\ pc'[r] # "wire"
          /\ pc'[r] = "clear" => input[r].route = "reset"
      <4> USE <1>1 DEF TypeOK
      <4>1. CASE \/ Create(r) \/ Reread(r) \/ Read(r) \/ Write(r) \/ List(r)
        BY <4>1 DEF Create, Reread, Read, Write, List, NotFound, Finish
      <4>2. CASE Reset(r) \/ Clear(r)
        BY <4>2 DEF Reset, Clear, Starts, Expansion, ExpansionOf
      <4> QED BY <2>5, <4>1, <4>2
    <3> QED BY <3>1, <3>2 DEF ExpansionOf
  <2> QED BY <1>5, <2>3, <2>4, <2>5 DEF Handler
<1> QED BY <1>2, <1>3, <1>4, <1>5 DEF Next

\* In every execution, whatever is reset or updated meanwhile and whatever
\* else is shown, a retrieved subscription is expanded as expand[] says.
THEOREM Expanded == Spec => []ExpandedAsAsked
<1>1. Init => Expansion
  BY DEF Init, Expansion, ExpansionOf, Input0
<1>2. IInv /\ Expansion /\ [Next]_vars => Expansion'
  BY ExpansionKept
<1>3. IInv /\ Expansion => ExpandedAsAsked
  <2> SUFFICES ASSUME IInv, Expansion, NEW r \in Requests,
                      pc[r] = "done", status[r] = 200,
                      input[r].route = "retrieve", Repo(r) = "subscriptions"
               PROVE  LET asked == input[r].asked
                          refs  == answer[r].refs
                      IN  /\ refs["customer"] # "none" =>
                               (refs["customer"] = "id" <=>
                                  ~(\E n \in 1 .. Len(asked) : asked[n] = "customer"))
                          /\ refs["product"] \in {"object", "placeholder"} =>
                               \E n \in 1 .. Len(asked) : asked[n] = "product"
                          /\ refs["product"] = "id" =>
                               ~(\E n \in 1 .. Len(asked) :
                                   /\ asked[n] = "product"
                                   /\ \A m \in n + 1 .. Len(asked) : asked[m] # "price")
    BY DEF ExpandedAsAsked
  <2>1. AsFar(input[r].asked, answer[r].refs, Len(input[r].asked), 0)
    BY DEF Expansion, ExpansionOf
  <2> QED BY <2>1 DEF AsFar
<1> QED BY <1>1, <1>2, <1>3, Always, PTL DEF Spec

---------------------------------------------------------------------------
(* The stamps.                                                             *)

Sequence == INSTANCE EventSequenceProofs
              WITH Goroutines <- Requests, MaxEvents <- 2 * NumRequests

LEMMA StampsInit == Init => Sequence!Init
  BY DEF Init, Stamps!Init, Sequence!Init

LEMMA StampsNext == [Next]_vars => [Sequence!Next]_(Sequence!vars)
<1> USE DEF Sequence!vars, stampVars
<1> SUFFICES ASSUME [Next]_vars PROVE Sequence!Next \/ UNCHANGED stampVars
  OBVIOUS
<1>1. CASE UNCHANGED vars
  BY <1>1 DEF vars
<1>2. CASE Tick
  BY <1>2 DEF Tick, Stamps!Tick, Sequence!Tick, Sequence!Next
<1>3. ASSUME NEW r \in Requests, NEW in \in Inputs[r], Arrive(r, in)
      PROVE  UNCHANGED stampVars
  BY <1>3 DEF Arrive
<1>4. ASSUME NEW r \in Requests, Handler(r) PROVE UNCHANGED stampVars
  <2>1. ASSUME NEW code, Finish(r, code) PROVE UNCHANGED stampVars
    BY <2>1 DEF Finish
  <2>2. NotFound(r) => UNCHANGED stampVars
    BY <2>1 DEF NotFound
  <2>3. CASE Refuse(r) \/ List(r)
    BY <2>1, <2>3 DEF Refuse, List
  <2>4. CASE Create(r) \/ Reread(r) \/ Read(r) \/ Write(r)
    BY <2>1, <2>2, <2>4 DEF Create, Reread, Read, Write
  <2>5. CASE Retrieve(r) \/ ExpandAsked(r) \/ Answer(r) \/ Reset(r) \/ Clear(r)
    BY <2>2, <2>5 DEF Retrieve, ExpandAsked, Answer, Reset, Clear
  <2> QED BY <1>4, <2>3, <2>4, <2>5 DEF Handler
<1>5. ASSUME NEW r \in Requests, Goroutine(r)
      PROVE  Sequence!Next \/ UNCHANGED stampVars
  <2>1. CASE Number(r)
    BY <2>1 DEF Number, Stamps!Take, Sequence!Take, Sequence!Next
  <2>2. CASE Stamp(r)
    BY <2>2 DEF Stamp, Stamps!Stamp, Stamps!Created, Sequence!Stamp, Sequence!Created,
                Sequence!Next
  <2>3. CASE Fetch(r) \/ Marshal(r) \/ ExpandCustomer(r) \/ ExpandProduct(r) \/ Save(r)
    BY <2>3 DEF Fetch, Marshal, ExpandCustomer, ExpandProduct, Save, GiveUp
  <2> QED BY <1>5, <2>1, <2>2, <2>3 DEF Goroutine
<1> QED BY <1>1, <1>2, <1>3, <1>4, <1>5 DEF Next

\* The goroutines that announce stamp their events as EventSequence says ...
THEOREM Stamping == Spec => Sequence!Spec
  BY StampsInit, StampsNext, PTL DEF Spec, Sequence!Spec

\* ... so in every execution the events of requests sort in the order they
\* were made, unless they were made at the same time.
THEOREM Sorting == Spec => []EventsSort
<1>1. Sequence!SortedByTime => EventsSort
  BY DEF Sequence!SortedByTime, EventsSort, Stamps!SortedByTime
<1> QED BY <1>1, Stamping, Sequence!Sorted, PTL
=============================================================================
