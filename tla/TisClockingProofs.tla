-------------------------- MODULE TisClockingProofs --------------------------
(***************************************************************************)
(* Lockstep and OneStepPerPress of TisClocking, for any set of nodes.      *)
(***************************************************************************)
EXTENDS TisClocking, TLAPS

(* Lockstep is inductive beside the types: the phases of the nodes carry   *)
(* all that matters about how the gate was moved.                          *)
ClockInv == TypeOK /\ Lockstep

LEMMA NextPhaseType == \A p \in Phases : NextPhase(p) \in Phases
BY DEF Phases, NextPhase

(* One clock edge keeps controller and nodes together, because the gate    *)
(* moves only on edges at which the controller stays in, or enters, RUN.   *)
LEMMA EdgeKeepsClockInv ==
    ASSUME ClockInv, ClockEdge
    PROVE  ClockInv'
<1>1. CtlTypeOK' /\ (active => node_state' = NextPhase(node_state))
      /\ (~active /\ active' => node_state' = "RUN")
      /\ (~active' => ~active \/ node_state' = "RUN")
    <2>1. CASE Start(enable, step)
        BY <2>1 DEF ClockInv, TypeOK, CtlTypeOK, Start, Phases
    <2>2. CASE Go(enable, step)
        BY <2>2 DEF ClockInv, TypeOK, CtlTypeOK, Go, Phases, NextPhase
    <2>3. CASE Count
        BY <2>3, NextPhaseType DEF ClockInv, TypeOK, CtlTypeOK, Count
    <2>4. CASE Finish(enable, step)
        BY <2>4 DEF ClockInv, TypeOK, CtlTypeOK, Finish, Phases, NextPhase
    <2> QED BY <2>1, <2>2, <2>3, <2>4 DEF ClockEdge, Edge
<1>2. TypeOK'
    <2>1. node_phase' \in [Nodes -> Phases]
        BY NextPhaseType DEF ClockInv, TypeOK, ClockEdge, NodeEdge
    <2>2. released' \in BOOLEAN
        BY DEF ClockInv, TypeOK, ClockEdge
    <2> QED BY <1>1, <2>1, <2>2 DEF ClockInv, TypeOK, ClockEdge, boardVars
<1>3. Lockstep'
    <2> SUFFICES ASSUME NEW n \in Nodes
                 PROVE  node_phase'[n] = IF active' THEN node_state' ELSE "RUN"
        BY DEF Lockstep
    <2>1. CASE active
        <3>1. node_phase[n] = node_state /\ node_phase'[n] = NextPhase(node_state)
            BY <2>1 DEF ClockInv, Lockstep, ClockEdge, NodeEdge
        <3> QED BY <2>1, <3>1, <1>1
    <2>2. CASE ~active
        <3>1. node_phase[n] = "RUN" /\ node_phase' = node_phase
            BY <2>2 DEF ClockInv, Lockstep, ClockEdge, NodeEdge
        <3> QED BY <2>2, <3>1, <1>1
    <2> QED BY <2>1, <2>2
<1> QED BY <1>2, <1>3 DEF ClockInv

LEMMA NextKeepsClockInv == ClockInv /\ [Next]_clkVars => ClockInv'
<1> SUFFICES ASSUME ClockInv, [Next]_clkVars PROVE ClockInv'
    OBVIOUS
<1>1. CASE Switch
    BY <1>1 DEF Switch, ClockInv, TypeOK, CtlTypeOK, Lockstep, fabricVars, ctlVars
<1>2. CASE Key
    BY <1>2 DEF Key, ClockInv, TypeOK, CtlTypeOK, Lockstep, fabricVars, ctlVars
<1>3. CASE Reset
    BY <1>3 DEF Reset, CtlReset, ClockInv, TypeOK, CtlTypeOK, Lockstep, Phases
<1>4. CASE Release
    BY <1>4 DEF Release, ClockInv, TypeOK, CtlTypeOK, Lockstep, fabricVars, ctlVars
<1>5. CASE ClockEdge
    BY <1>5, EdgeKeepsClockInv
<1>6. CASE UNCHANGED clkVars
    BY <1>6 DEF clkVars, ClockInv, TypeOK, CtlTypeOK, Lockstep, fabricVars, ctlVars, boardVars
<1> QED BY <1>1, <1>2, <1>3, <1>4, <1>5, <1>6 DEF Next

(* Controller and nodes never part, whatever the switch, the key and the   *)
(* reset do, and however many nodes there are.                             *)
THEOREM LockstepHolds == Spec => [](TypeOK /\ Lockstep)
<1>1. Init => ClockInv
    BY DEF Init, CtlInit, ClockInv, TypeOK, CtlTypeOK, Lockstep, Phases
<1> QED BY <1>1, NextKeepsClockInv, PTL DEF Spec, ClockInv

-----------------------------------------------------------------------------
(* Until the key has been seen released, either its step is on record or   *)
(* the gate has only just opened and the controller is still in RUN.       *)
PressInv == ~released => tis_step_done \/ (active /\ node_state = "RUN")

LEMMA EdgeKeepsPressInv ==
    ASSUME TypeOK, PressInv, ClockEdge
    PROVE  /\ PressInv'
           /\ ~active /\ active' /\ ~enable => released
<1> USE DEF TypeOK, CtlTypeOK, PressInv, ClockEdge, boardVars
<1>1. CASE Start(enable, step)
    BY <1>1 DEF Start
<1>2. CASE Go(enable, step)
    BY <1>2 DEF Go
<1>3. CASE Count
    BY <1>3 DEF Count
<1>4. CASE Finish(enable, step)
    BY <1>4 DEF Finish
<1> QED BY <1>1, <1>2, <1>3, <1>4 DEF Edge

(* No press of the step key ever runs two instruction cycles.              *)
THEOREM OneStepPerPressHolds == Spec => OneStepPerPress
<1>1. Init => PressInv
    BY DEF Init, PressInv
<1>2. TypeOK /\ PressInv /\ [Next]_clkVars
        => PressInv' /\ [~active /\ active' /\ ~enable => released]_clkVars
    <2> SUFFICES ASSUME TypeOK, PressInv, [Next]_clkVars
                 PROVE  PressInv' /\ (~active /\ active' /\ ~enable => released)
        OBVIOUS
    <2>1. CASE Switch
        BY <2>1 DEF Switch, PressInv, fabricVars, ctlVars
    <2>2. CASE Key
        BY <2>2 DEF Key, PressInv, fabricVars, ctlVars
    <2>3. CASE Reset
        BY <2>3 DEF Reset, CtlReset, PressInv
    <2>4. CASE Release
        BY <2>4 DEF Release, PressInv, fabricVars, ctlVars
    <2>5. CASE ClockEdge
        BY <2>5, EdgeKeepsPressInv
    <2>6. CASE UNCHANGED clkVars
        BY <2>6 DEF clkVars, PressInv, fabricVars, ctlVars
    <2> QED BY <2>1, <2>2, <2>3, <2>4, <2>5, <2>6 DEF Next
<1> QED BY <1>1, <1>2, LockstepHolds, PTL DEF Spec, OneStepPerPress
=============================================================================
