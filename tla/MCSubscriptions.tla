------------------------- MODULE MCSubscriptions -------------------------
(***************************************************************************)
(* Instances of Subscriptions for TLC.  One item is enough to have a       *)
(* period to renew and a price to change; an item update may swap the      *)
(* price, drop the item or leave the price out.  An item dropped before is *)
(* one the subscription does not know.                                     *)
(***************************************************************************)
EXTENDS Subscriptions

CONSTANTS p1, p2

MCPrices  == {p1, p2}

OneId     == {1}
OneItem   == {[i \in OneId |-> [price |-> p1, periodEnd |-> 1]]}
TwoIds    == {1, 2}
TwoItems  == {[i \in TwoIds |-> [price |-> p1, periodEnd |-> 1]]}
\* Item 2 was never made, and item 1 made without period dates.
OddItems  == {[i \in TwoIds |-> NoItem],
              [i \in TwoIds |-> IF i = 1 THEN [price |-> p1, periodEnd |-> 0]
                                         ELSE NoItem]}

\* Item 1 gets update u; no item gets one in Nothing.
Updates(u) == [i \in ItemIds |-> IF i = 1 THEN u ELSE Untouched]
Nothing    == Updates(Untouched)

Body(cancel, pause, items) ==
    [cancel |-> cancel, pause |-> pause, items |-> items]

\* One section of an update at a time, and combinations in which one section
\* follows another.
WholeUpdates == {Body("true", "absent", Nothing),
                 Body("false", "absent", Nothing),
                 Body("absent", "set", Nothing),
                 Body("absent", "clear", Nothing),
                 Body("absent", "absent", Updates(p2)),
                 Body("absent", "absent", Updates(Deleted)),
                 Body("true", "set", Nothing)}

\* The combinations that save one section and then may refuse another.
PartialUpdates == {Body("true", "absent", Updates(NoPrice)),
                   Body("absent", "set", Updates(p2))}

SomeUpdates == (WholeUpdates \cup PartialUpdates)
                 \ {Body("absent", "clear", Nothing),
                    Body("absent", "absent", Updates(Deleted))}
NoUpdateBodies == {}
TwoItemsOrOdd == TwoItems \cup OddItems
=============================================================================
