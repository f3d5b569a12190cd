------------------------ MODULE MCRemediationLoop ---------------------------
(***************************************************************************)
(* Instances of RemediationLoop for TLC, over the actions of the registry. *)
(***************************************************************************)
EXTENDS RemediationLoop, TLC

Scale == {Get("scale_service")}
Restarts == {Get("restart_service")}
ScaleOrRestart == Scale \cup Restarts
Disable == {Get("disable_deployment")}
DisableOrRedeploy == {Get("disable_deployment"), Get("redeploy_version")}
\* Every shape: its own undo, an undo of its own, none, no executor.
EachShape == ScaleOrRestart \cup Disable \cup {Get("notify_engineer"), Get("clear_cache")}

\* A complete request to scale to 2, and one without the count.
ScaleTo2 == [names |-> {"target", "replicas"}, value |-> 2]
TargetOnly == [names |-> {"target"}, value |-> 0]
ImageTo2 == [names |-> {"target", "image"}, value |-> 2]

Scaling == {ScaleTo2}
ScalingOrNot == {ScaleTo2, TargetOnly}
Imaging == {ImageTo2}

ForReal == {FALSE}
RehearsedOrNot == BOOLEAN

Symmetry == Permutations(Loops)
=============================================================================
