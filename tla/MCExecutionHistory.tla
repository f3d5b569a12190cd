------------------------ MODULE MCExecutionHistory --------------------------
(***************************************************************************)
(* Instances of ExecutionHistory for TLC.  The thresholds of policy.json   *)
(* are given in the .cfg files.                                            *)
(***************************************************************************)
EXTENDS ExecutionHistory

\* Four shapes of action: cheap with an undo, dear with an undo, free of
\* risk but with a post-state and no undo, and irreversible.
Restart10 == [id |-> "restart_service", base |-> 10, declaresPost |-> TRUE,
              rollback |-> "restart_service", irreversible |-> FALSE]
Disable35 == [id |-> "disable_deployment", base |-> 35, declaresPost |-> TRUE,
              rollback |-> "redeploy_version", irreversible |-> FALSE]
Probe0 == [id |-> "probe", base |-> 0, declaresPost |-> TRUE,
           rollback |-> NoAction, irreversible |-> FALSE]
Reset20 == [id |-> "force_password_reset", base |-> 20, declaresPost |-> TRUE,
            rollback |-> NoAction, irreversible |-> TRUE]

PricedActions == {Restart10, Disable35, Probe0, Reset20}

\* Values on both sides of each cap and threshold.
BoundaryFacts ==
  [env : {"dev", "prod"}, entities : {4, 5}, users : {0, 1000, 3200},
   confidence : {50, 80}, executed : BOOLEAN, failed : {0}]

PricedLimits == {24, 100}
AllPlaces == {"dev", "prod"}
=============================================================================
