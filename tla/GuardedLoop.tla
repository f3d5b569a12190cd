---------------------------- MODULE GuardedLoop ----------------------------
(***************************************************************************)
(* What the remediation loop promises, whatever runner, observer and       *)
(* capture it is given (packages/core/pashupatastra/remediation.py):       *)
(*                                                                         *)
(*    execute, verify -> resolved, escalated, or undo                      *)
(*    undo, verify    -> rolled_back or rollback_failed                    *)
(*                                                                         *)
(* with no cycle and no way back.  RemediationLoop implements this.        *)
(***************************************************************************)
CONSTANT Loops

VARIABLES
  phase,    \* waiting, acting, undoing, over; or refused, or lost in a crash
  outcome   \* the Disposition of a loop that is over

vars == <<phase, outcome>>

Init ==
  /\ phase = [l \in Loops |-> "waiting"]
  /\ outcome = [l \in Loops |-> "none"]

Move(l, from, to) ==
  /\ phase[l] = from
  /\ phase' = [phase EXCEPT ![l] = to]
  /\ UNCHANGED outcome

Close(l, from, disposition) ==
  /\ phase[l] = from
  /\ phase' = [phase EXCEPT ![l] = "over"]
  /\ outcome' = [outcome EXCEPT ![l] = disposition]

Accept(l) == Move(l, "waiting", "acting")
Refuse(l) == Move(l, "waiting", "refused")
TurnBack(l) == Move(l, "acting", "undoing")

FinishActing(l) == Close(l, "acting", "resolved") \/ Close(l, "acting", "escalated")
FinishUndoing(l) ==
  Close(l, "undoing", "rolled_back") \/ Close(l, "undoing", "rollback_failed")

\* The process dies: every loop under way is gone, and none resumes.
Crash ==
  /\ phase' = [l \in Loops |-> IF phase[l] \in {"acting", "undoing"} THEN "lost" ELSE phase[l]]
  /\ UNCHANGED outcome

Next ==
  \/ \E l \in Loops :
       Accept(l) \/ Refuse(l) \/ TurnBack(l) \/ FinishActing(l) \/ FinishUndoing(l)
  \/ Crash

Spec == Init /\ [][Next]_vars
=============================================================================
