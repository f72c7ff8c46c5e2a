---------------------------- MODULE TisController ----------------------------
(***************************************************************************)
(* tis_controller.vhd: the process that gates every node with tis_active.  *)
(* One rising clock edge is Edge(enable, step), where enable and step are  *)
(* tis_enable and tis_step_once as that edge samples them.  Each branch of *)
(* the process is one action.                                              *)
(***************************************************************************)
EXTENDS TisTypes

VARIABLES
    node_state,      \* phase of the controller
    active,          \* drives tis_active, the gate of every node
    tis_step_done    \* the pending key press has had its step

ctlVars == <<node_state, active, tis_step_done>>

CtlTypeOK ==
    /\ node_state \in Phases
    /\ active \in BOOLEAN
    /\ tis_step_done \in BOOLEAN

CtlInit ==
    /\ node_state = "RUN"
    /\ active = FALSE
    /\ tis_step_done = FALSE

(* resetn = '0', at any moment. *)
CtlReset ==
    /\ node_state' = "RUN"
    /\ active' = FALSE
    /\ tis_step_done' = FALSE

(* Seeded fault: the extra edge in RUN is missing. *)
FaultyStart(enable, step) ==
    /\ node_state = "RUN"
    /\ ~active
    /\ enable \/ (step /\ ~tis_step_done)
    /\ node_state' = "LEFT"
    /\ active' = TRUE
    /\ tis_step_done' = (tis_step_done \/ enable)

(* In RUN, stay one more edge so that the nodes, which see tis_active one  *)
(* edge later, leave RUN together with the controller.                     *)
Start(enable, step) ==
    /\ node_state = "RUN"
    /\ ~active
    /\ enable \/ (step /\ ~tis_step_done)
    /\ node_state' = "RUN"
    /\ active' = TRUE
    /\ tis_step_done' = (tis_step_done \/ enable)

(* Seeded fault: a single step is not marked as done. *)
FaultyGo(enable, step) ==
    /\ node_state = "RUN"
    /\ active \/ (~enable /\ ~(step /\ ~tis_step_done))
    /\ node_state' = "LEFT"
    /\ tis_step_done' = (tis_step_done \/ enable)
    /\ UNCHANGED active

(* In RUN, go round: a single step, a free run, or an idle lap. *)
Go(enable, step) ==
    /\ node_state = "RUN"
    /\ active \/ (~enable /\ ~(step /\ ~tis_step_done))
    /\ node_state' = "LEFT"
    /\ tis_step_done' = (tis_step_done \/ enable \/ (active /\ step))
    /\ UNCHANGED active

(* LEFT .. DOWN only count edges. *)
Count ==
    /\ node_state \notin {"RUN", "FINISH"}
    /\ node_state' = NextPhase(node_state)
    /\ UNCHANGED <<active, tis_step_done>>

(* Seeded fault: the step is re-armed whether or not the key is released. *)
FaultyFinish(enable, step) ==
    /\ node_state = "FINISH"
    /\ node_state' = "RUN"
    /\ active' = (active /\ enable)
    /\ tis_step_done' = (tis_step_done /\ enable)

(* At the end of a lap the gate closes if the switch is off, and a key     *)
(* found released re-arms the single step.                                 *)
Finish(enable, step) ==
    /\ node_state = "FINISH"
    /\ node_state' = "RUN"
    /\ active' = (active /\ enable)
    /\ tis_step_done' = (tis_step_done /\ (enable \/ step))

Edge(enable, step) ==
    \/ Start(enable, step)
    \/ Go(enable, step)
    \/ Count
    \/ Finish(enable, step)
=============================================================================
