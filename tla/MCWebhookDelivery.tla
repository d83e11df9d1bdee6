------------------------ MODULE MCWebhookDelivery ------------------------
(***************************************************************************)
(* Instances of WebhookDelivery for TLC: two event types, one of which the *)
(* pattern "part" matches, so an endpoint may want all events, some, or    *)
(* what the misplaced "*" of its second entry does not add to.             *)
(***************************************************************************)
EXTENDS WebhookDelivery

CONSTANTS h1, h2, k1, k2, part, star, t1, t2

AllTypes    == {t1, t2}
OneType     == {t1}
MCPatterns  == {part, star}
MCContains  == [p \in MCPatterns |-> IF p = part THEN {t1} ELSE {}]
PartOrAll   == {<<part, star>>, <<>>}
OneFilter   == {<<>>}

Opt(status, secret, events) ==
    [status |-> status, secret |-> secret, events |-> events]

Switches    == {Opt("disabled", TRUE, Keep), Opt("enabled", TRUE, <<>>)}
NoOpts      == {}

OneEach     == [h \in Hooks |-> 1]
ThreeAndOne == [h \in Hooks |-> IF h = h1 THEN 3 ELSE 1]

OneHook     == {h1}
TwoHooks    == {h1, h2}
TwoTriggers == {k1, k2}
LastTrigger == {k2}
NoTriggers  == {}
OneAdmin    == {"admin"}
NoAdmins    == {}

(***************************************************************************)
(* One trigger of each type: one that "part" matches, and one it does not. *)
(* Endpoint h2 was set up before and does not change; h1 is created,       *)
(* changed twice or changed and deleted in the course.                     *)
(***************************************************************************)
SetUp == [status |-> "enabled", secret |-> TRUE, events |-> <<part, star>>]

MCInit ==
    /\ hooks = [Nothing EXCEPT ![h2] = SetUp]
    /\ admin = [a \in Admins |-> NoUpdate]
    /\ changes = [h \in Hooks |-> IF h = h2 THEN 1 ELSE 0]
    /\ trig = [k \in Triggers |-> [pc |-> "idle", listed |-> Nothing,
                                   type |-> IF k = k1 THEN t1 ELSE t2]]
    /\ pool = "open"
    /\ queue = <<>>
    /\ worker = [w \in Workers |-> Idle]
    /\ submitted = <<>>
    /\ received = <<>>
    /\ delivered = {}
    /\ exhausted = {}
    /\ steady = [k \in Triggers |-> {}]
    /\ waited = FALSE
    /\ crashed = FALSE

MCFairSpec == MCInit /\ [][Next]_vars /\ Fairness
=============================================================================
