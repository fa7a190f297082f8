----------------------------- MODULE LimitRepair -----------------------------
(***************************************************************************)
(* LimitRestore with the notice the user is given: it is opened exactly    *)
(* when a restore was not accepted, and goes away exactly when the limit   *)
(* is seen valid or a restore is accepted.                                 *)
(***************************************************************************)
EXTENDS LimitRestore

VARIABLE issue  \* whether the repair issue of this limit is open

repairVars == <<restoreVars, issue>>

\* The issue is persistent: one of an earlier run may be open already.
RepairInit == Init /\ issue \in BOOLEAN

RepairNext ==
    \/ (SeenValid \/ Accepted) /\ issue' = FALSE
    \/ Refused /\ issue' = TRUE
    \/ (BeginRestore \/ SeenAgain \/ SeenUnjudged \/ Forget) /\ UNCHANGED issue

RepairSafe == RepairInit /\ [][RepairNext]_repairVars
RepairSpec == RepairSafe /\ RestoreEnds
==============================================================================
