--------------------------- MODULE MCPlanChanges ---------------------------
(***************************************************************************)
(* Instances of PlanChanges for TLC.  The amounts have no common divisor   *)
(* with the lengths of the periods, so that prorations are not whole.      *)
(***************************************************************************)
EXTENDS PlanChanges, TLC

CONSTANTS basic, pro, yearly, free, lost

FivePrices == {basic, pro, yearly, free, lost}
FourKnown  == {basic, pro, yearly, free}

Amounts   == (basic :> 10) @@ (pro :> 25) @@ (yearly :> 107) @@ (free :> None)
               @@ (lost :> 31)
Cadences5 == [p \in FivePrices |-> IF p = yearly THEN "year" ELSE "month"]
Lengths    == [c \in Cadences |-> IF c = "month" THEN 7 ELSE 30]

\* Two items of one interval, and one of another.
SomePlans == {<<basic, pro>>, <<yearly>>}

\* Periods that are empty, turned round or longer than a month.
SomeTimes == {8}

AnyUpdate == {basic, yearly, free, lost, Keep, Deleted}

AllBehaviors == {"none", "create_prorations", "always_invoice"}
=============================================================================
