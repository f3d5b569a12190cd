----------------------------- MODULE MCVerdicts -----------------------------
(***************************************************************************)
(* Instances of Verdicts for TLC.                                          *)
(***************************************************************************)
EXTENDS Verdicts, TLC

\* One action a human must grant, one nobody may.
Disable35 == [id |-> "disable_deployment", base |-> 35, declaresPost |-> TRUE,
              rollback |-> "redeploy_version", irreversible |-> FALSE]
Delete100 == [id |-> "delete_infrastructure", base |-> 100, declaresPost |-> FALSE,
              rollback |-> NoAction, irreversible |-> TRUE]

GrantableOrNot == {Disable35, Delete100}

\* Production, nothing else against it: 15 on top of the base risk.
Routine == {[env |-> "prod", entities |-> 0, users |-> 0, confidence |-> 100,
          executed |-> TRUE, failed |-> 0]}

NoLimits == {NoLimit}
DryOrLive == {"dry", "live"}

Symmetry == Permutations(Requests)
=============================================================================
