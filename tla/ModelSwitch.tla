---------------------------- MODULE ModelSwitch ----------------------------
(***************************************************************************)
(* What hot swapping promises its operator: the active model is replaced   *)
(* in one step that remembers the model it replaced, and one rollback      *)
(* brings that model back.  HotSwap with a single operator implements it.  *)
(***************************************************************************)
CONSTANTS Instances, NoModel, Initial

VARIABLES active, previous

switchVars == <<active, previous>>

SwitchInit == active = Initial /\ previous = NoModel

Swap(m) ==
  /\ active' = m
  /\ previous' = active

Rollback ==
  /\ previous # NoModel
  /\ active' = previous
  /\ previous' = NoModel

SwitchNext == Rollback \/ \E m \in Instances : Swap(m)

SwitchSpec == SwitchInit /\ [][SwitchNext]_switchVars
=============================================================================
