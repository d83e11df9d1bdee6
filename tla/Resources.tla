----------------------------- MODULE Resources -----------------------------
(***************************************************************************)
(* What requests do to one document: the customers, products, prices,      *)
(* portal configurations, webhook endpoints and subscriptions of           *)
(* pkg/server/stripe_handlers.go, and the filling in of the resources a    *)
(* document refers to (pkg/expander).                                      *)
(*                                                                         *)
(* A field holds the number of the request that set it, so that a document *)
(* tells whose changes it shows.  Requests are numbered from 1; what was   *)
(* stored before the first of them has the number 0.                       *)
(***************************************************************************)
EXTENDS Naturals, Sequences

CONSTANTS Unset,  \* a field no request has set
          NoDoc   \* no document

Repos == {"customers", "products", "prices", "configs", "endpoints",
          "subscriptions"}

\* own stands for the fields of the type (email, name, url, status), the two
\* others for the keys of its metadata.
Metadata == {"first", "second"}
Fields   == {"own"} \cup Metadata

\* What a document may refer to: a subscription to its customer and, through
\* the price of its item, to a product; a price to a product.
References == {"customer", "product"}

\* A reference is a union in the generated types: empty, an id, the resource
\* itself, or a placeholder for one that was not found.
Reference == {"none", "id", "object", "placeholder"}

Doc == [fields : [Fields -> Nat \cup {Unset}], refs : [References -> Reference]]

Bare(d) == \A x \in References : d.refs[x] \in {"none", "id"}

Ref(customer, product) ==
    [x \in References |-> IF x = "customer" THEN customer ELSE product]

NoRefs == Ref("none", "none")

---------------------------------------------------------------------------
(* Creating and updating.                                                  *)

Given(r, sets) == [f \in Fields |-> IF f \in sets THEN r ELSE Unset]

\* Faulty: the items of a new subscription name the product of their price.
RefsWithProduct(repo, refers) ==
    CASE repo = "subscriptions"      -> Ref(IF refers THEN "id" ELSE "none", "id")
      [] repo = "prices" /\ refers   -> Ref("none", "id")
      [] OTHER                       -> NoRefs

\* A subscription may name a customer, and a price its product.  The items
\* buildSubscription makes have a price with an id and without a product.
RefsOfNew(repo, refers) ==
    CASE repo = "subscriptions" /\ refers -> Ref("id", "none")
      [] repo = "prices" /\ refers        -> Ref("none", "id")
      [] OTHER                            -> NoRefs

\* What a creation sets of what it is given.  A new document has a status, or
\* a name; the metadata sent for endpoints and subscriptions is ignored.
SetByNew(repo, sets) ==
    {"own"} \cup (IF repo \in {"endpoints", "subscriptions"} THEN {} ELSE sets)

\* buildCustomer, buildProduct, buildPrice, buildSubscription and the handlers
\* of endpoints and configurations.
New(repo, r, sets, refers) == [fields |-> Given(r, SetByNew(repo, sets)),
                               refs   |-> RefsOfNew(repo, refers)]

\* Faulty: the metadata of a customer is made anew.
MergedAnew(d, r, sets) ==
    [d EXCEPT !.fields = [f \in Fields |-> IF f \in sets THEN r
                                           ELSE IF f \in Metadata THEN Unset
                                           ELSE d.fields[f]]]

\* updateCustomerMetadata and handleUpdateCustomer: keys that are given are
\* set, others stay.
Merged(d, r, sets) ==
    [d EXCEPT !.fields = [f \in Fields |-> IF f \in sets THEN r ELSE d.fields[f]]]

\* handleUpdateProduct and UpdateWebhook: metadata that is given takes the
\* place of what was there.
Replaced(d, r, sets) ==
    [d EXCEPT !.fields = [f \in Fields |->
        IF f \in sets THEN r
        ELSE IF f \in Metadata /\ sets \cap Metadata # {} THEN Unset
        ELSE d.fields[f]]]

\* What an update does to its copy.  Of a subscription it sets the status.
Changed(repo, d, r, sets) ==
    CASE repo = "customers"     -> Merged(d, r, sets)
      [] repo = "subscriptions" -> Merged(d, r, {"own"})
      [] OTHER                  -> Replaced(d, r, sets)

---------------------------------------------------------------------------
(* Expanding.                                                              *)

\* A resource that is not found is made up, with the id alone.
Fetched(there) == IF there THEN "object" ELSE "placeholder"

\* pkg/expander: an id is replaced; what is empty or expanded stays.
ExpandId(d, x, there) ==
    IF d.refs[x] = "id" THEN [d EXCEPT !.refs[x] = Fetched(there)] ELSE d

\* The expand[] of GET /v1/subscriptions/{id}: an expanded resource is
\* fetched again.
ExpandAgain(d, x, there) ==
    IF d.refs[x] # "none" THEN [d EXCEPT !.refs[x] = Fetched(there)] ELSE d

\* A stored price takes the place of the one in the item, and with it goes
\* what was expanded there.
ReplacePrice(d, price) ==
    IF price = NoDoc THEN d
    ELSE [d EXCEPT !.refs["product"] = price.refs["product"]]
=============================================================================
