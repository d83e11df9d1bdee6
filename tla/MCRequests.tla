---------------------------- MODULE MCRequests ----------------------------
(***************************************************************************)
(* Instances of Requests for TLC.                                          *)
(***************************************************************************)
EXTENDS Requests

In(route, repo, id, sets) == [route |-> route, repo |-> repo, id |-> id,
                              sets |-> sets, refers |-> TRUE, asked |-> <<>>,
                              wire |-> "ok"]

\* A new subscription of nobody.
Nobodys == [In("create", "subscriptions", 0, {"first"}) EXCEPT !.refers = FALSE]

Asking(asked) ==
    [In("retrieve", "subscriptions", 0, {}) EXCEPT !.asked = asked]

Sent(wire, route) == [In(route, "products", 0, {"own"}) EXCEPT !.wire = wire]

ResetIn == In("reset", "customers", 0, {})

\* Updates that share a field and updates that do not, of the document that
\* is there from the beginning and of the first one created.
AllInputs ==
    { In("create", "customers", 0, {"first"}),
      In("create", "prices", 0, {}),
      In("create", "configs", 0, {}),
      In("create", "endpoints", 0, {"first"}),
      In("create", "subscriptions", 0, {}), Nobodys,
      In("update", "customers", 0, {"own", "second"}),
      In("update", "products", 0, {"first"}),
      In("update", "endpoints", 0, {"second"}),
      In("update", "subscriptions", 0, {}),
      In("update", "subscriptions", 1, {}),
      In("retrieve", "customers", 0, {}),
      In("list", "products", 0, {}),
      Asking(<<"customer", "product">>), Asking(<<"product", "price">>),
      Sent("noAuth", "update"), Sent("badBody", "update"),
      Sent("nullBody", "update"),
      ResetIn }

\* The second meets the first on its way, and changes what that is about ...
SecondInputs ==
    { In("update", "customers", 0, {"first"}),
      In("update", "products", 0, {"own"}),
      In("update", "endpoints", 0, {"second"}),
      In("update", "subscriptions", 0, {}),
      In("update", "subscriptions", 1, {}),
      [Asking(<<"customer">>) EXCEPT !.id = 1],
      ResetIn }

\* ... and a reset takes away what both work on.
LastInputs == { ResetIn }

MCInputs == [r \in Requests |-> IF r = 1 THEN AllInputs
                                ELSE IF r = 2 THEN SecondInputs ELSE LastInputs]
=============================================================================
