----------------------------- MODULE MCBilling -----------------------------
(***************************************************************************)
(* Instances of Billing for TLC.                                           *)
(***************************************************************************)
EXTENDS Billing

CONSTANTS j1, j2, s1

TwoJobs   == {j1, j2}
OneSub    == {s1}

AllKinds == {"lifecycle", "renewal", "checkout", "prorated", "invoiced",
             "uninvoiced"}
=============================================================================
