----------------------------- MODULE TisClocking -----------------------------
(***************************************************************************)
(* The controller, the board's switch and keys, and the phase register of  *)
(* every node it gates.  The nodes have no handshake with the controller:  *)
(* that the two count in step is a property of how tis_controller.vhd      *)
(* orders its assignments, and everything the conduits do relies on it.    *)
(***************************************************************************)
EXTENDS TisController

CONSTANT Nodes          \* the execution and stack nodes of the fabric

VARIABLES
    enable,        \* SW(0), the port tis_enable
    step,          \* not KEY(0), the port tis_step_once
    resetn,        \* KEY(1)
    node_phase,    \* node_state of every node
    released       \* history: an edge has sampled step low since active rose

boardVars == <<enable, step, resetn>>
fabricVars == <<ctlVars, node_phase, released>>
clkVars == <<fabricVars, boardVars>>

TypeOK ==
    /\ CtlTypeOK
    /\ enable \in BOOLEAN
    /\ step \in BOOLEAN
    /\ resetn \in BOOLEAN
    /\ node_phase \in [Nodes -> Phases]
    /\ released \in BOOLEAN

Init ==
    /\ CtlInit
    /\ enable \in BOOLEAN
    /\ step \in BOOLEAN
    /\ resetn = TRUE
    /\ node_phase = [n \in Nodes |-> "RUN"]
    /\ released = TRUE

(* A person moves the switch or the step key between two edges. *)
Switch == enable' = ~enable /\ UNCHANGED <<fabricVars, step, resetn>>

Key == step' = ~step /\ UNCHANGED <<fabricVars, enable, resetn>>

(* KEY(1) pulls resetn of the controller and of every node, which holds    *)
(* them for as long as it is down.                                         *)
Reset ==
    /\ resetn /\ resetn' = FALSE
    /\ CtlReset
    /\ node_phase' = [n \in Nodes |-> "RUN"]
    /\ released' = TRUE
    /\ UNCHANGED <<enable, step>>

Release == ~resetn /\ resetn' = TRUE /\ UNCHANGED <<fabricVars, enable, step>>

(* A node's phase register moves on the edges at which tis_active is '1'. *)
NodeEdge ==
    node_phase' = IF active THEN [n \in Nodes |-> NextPhase(node_phase[n])]
                            ELSE node_phase

ClockEdge ==
    /\ resetn
    /\ Edge(enable, step)
    /\ NodeEdge
    /\ released' = IF ~step THEN TRUE
                   ELSE IF ~active /\ active' THEN FALSE
                   ELSE released
    /\ UNCHANGED boardVars

Next == Switch \/ Key \/ Reset \/ Release \/ ClockEdge

Spec == Init /\ [][Next]_clkVars

(* The oscillator never stops; the person at the keys owes nothing. *)
FairSpec == Spec /\ WF_clkVars(ClockEdge)

-----------------------------------------------------------------------------
(* The nodes and the controller are always in the same phase while the     *)
(* gate is open, and every node rests in RUN while it is closed: the "extra*)
(* clock cycle to keep synced state" of Start and the free lap of an idle  *)
(* controller both have to come out even for this to hold.                 *)
Lockstep ==
    \A n \in Nodes : node_phase[n] = IF active THEN node_state ELSE "RUN"

(* One press of the key runs at most one instruction cycle: the gate is    *)
(* opened with the switch off only if the key has been sampled released    *)
(* since the gate last opened, whatever the switch did in between.  (A     *)
(* reset forgets the press.)                                               *)
OneStepPerPress ==
    [][~active /\ active' /\ ~enable => released]_clkVars

(* With the switch left off and the keys left alone, held or not, the      *)
(* machine comes to rest: a held key cannot keep it stepping.              *)
ComesToRest ==
    <>[](~enable /\ resetn) /\ (<>[]step \/ <>[]~step) => <>[]~active

(* With the switch left on, every node starts cycles for ever.             *)
KeepsRunning ==
    <>[](enable /\ resetn) =>
        \A n \in Nodes : /\ []<>(active /\ node_phase[n] = "RUN")
                        /\ []<>(node_phase[n] = "FINISH")

(* A press that finds the step armed and the gate closed is served, and    *)
(* served once, however long it is held: the gate opens and then stays     *)
(* closed.                                                                 *)
PressIsServed ==
    [](~active /\ ~tis_step_done /\ [](step /\ ~enable /\ resetn)
         => <>active /\ <>[](~active /\ tis_step_done))
=============================================================================
