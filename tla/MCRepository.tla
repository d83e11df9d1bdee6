--------------------------- MODULE MCRepository ---------------------------
(***************************************************************************)
(* Instances of Repository for TLC.                                        *)
(***************************************************************************)
EXTENDS Repository

CONSTANTS g1, g2, i1, i2, b1, b2

TwoProcs   == {g1, g2}
TwoIds     == {i1, i2}
TwoBodies  == {b1, b2}

Op(op, id, body) == [op |-> op, id |-> id, body |-> body]

AllCalls ==
    {Op("create", None, b) : b \in Bodies}
      \cup {Op(op, i, b) : op \in {"createWithID", "update"}, i \in Ids, b \in Bodies}
      \cup {Op(op, i, None) : op \in {"get", "delete", "exists"}, i \in Ids}
      \cup {Op(op, None, None) : op \in {"list", "clear"}}
=============================================================================
