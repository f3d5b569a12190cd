------------------------------ MODULE Registry ------------------------------
(***************************************************************************)
(* The closed action registry of packages/core/pashupatastra/registry.py:  *)
(* the specifications of both domains, as far as the policy engine and     *)
(* the remediation loop read them.                                         *)
(***************************************************************************)
EXTENDS Dharma

LOCAL Reversible(id, base, rollback) ==
  [id |-> id, base |-> base, declaresPost |-> TRUE, rollback |-> rollback,
   irreversible |-> FALSE]

LOCAL Free(id) ==
  [id |-> id, base |-> 0, declaresPost |-> FALSE, rollback |-> NoAction,
   irreversible |-> FALSE]

LOCAL Irreversible(id, base, declaresPost) ==
  [id |-> id, base |-> base, declaresPost |-> declaresPost, rollback |-> NoAction,
   irreversible |-> TRUE]

InfrastructureActions ==
  {Free("read_logs"), Free("read_metrics"), Free("notify_engineer"),
   Free("create_ticket"),
   Reversible("restart_service", 10, "restart_service"),
   Reversible("scale_service", 20, "scale_service"),
   Reversible("clear_cache", 30, "warm_cache"),
   Reversible("warm_cache", 10, "clear_cache"),
   Reversible("rollback_deployment", 45, "redeploy_version"),
   Reversible("redeploy_version", 45, "rollback_deployment"),
   Reversible("disable_deployment", 35, "redeploy_version"),
   Reversible("modify_db_config", 65, "modify_db_config"),
   Irreversible("delete_infrastructure", 100, FALSE)}

SecurityActions ==
  {Free("query_threat_intel"), Free("notify_analyst"), Free("create_case"),
   Reversible("adopt_playbook", 35, "retract_playbook"),
   Reversible("retract_playbook", 35, "adopt_playbook"),
   Reversible("adopt_report", 35, "retract_report"),
   Reversible("retract_report", 35, "adopt_report"),
   Reversible("require_mfa_reauth", 10, "clear_mfa_requirement"),
   Reversible("clear_mfa_requirement", 10, "require_mfa_reauth"),
   Reversible("rate_limit_account", 15, "remove_rate_limit"),
   Reversible("remove_rate_limit", 15, "rate_limit_account"),
   Irreversible("force_password_reset", 20, TRUE),
   Reversible("revoke_session", 25, "reissue_session"),
   Reversible("reissue_session", 25, "revoke_session"),
   Reversible("quarantine_email", 25, "release_email"),
   Reversible("release_email", 25, "quarantine_email"),
   Reversible("block_ip", 35, "unblock_ip"),
   Reversible("unblock_ip", 35, "block_ip"),
   Reversible("disable_account", 45, "enable_account"),
   Reversible("enable_account", 45, "disable_account"),
   Reversible("isolate_host", 55, "rejoin_network"),
   Reversible("rejoin_network", 55, "isolate_host"),
   Irreversible("rotate_credentials", 65, TRUE),
   Irreversible("wipe_host", 100, FALSE)}

AllActions == InfrastructureActions \cup SecurityActions

Known(id) == \E a \in AllActions : a.id = id

\* get(): a registered id has exactly one specification.
Get(id) == CHOOSE a \in AllActions : a.id = id

\* loop._rollback_spec, for an action that declares a rollback which exists.
HasRollbackSpec(a) == a.rollback # NoAction /\ Known(a.rollback)
=============================================================================
