-------------------------------- MODULE OsFlag ------------------------------
(***************************************************************************)
(* Event flag groups (os_flag.c).  A task that waits stands in the list of *)
(* the group with a node of its own (on its stack) that says what it waits *)
(* for; the list is the set of these nodes.                                *)
(*                                                                         *)
(* A wait may consume the flags it waited for.  A task that had to wait    *)
(* does so when it runs again, and not when it is made ready.              *)
(***************************************************************************)
EXTENDS OsCore

CONSTANTS Groups,     \* OSFlagTbl
          Flags       \* the bits of OS_FLAGS

ASSUME FlagAssumption == Null \notin Groups /\ Groups \cap Events = {}

VARIABLES group,            \* the flag groups
          OSFlagFreeList,
          OSTCBFlagNode,    \* the node of a task that waits
          OSTCBFlagsRdy     \* the flags that made it ready

flagVars == <<group, OSFlagFreeList, OSTCBFlagNode, OSTCBFlagsRdy>>

(* OS_FLAG_WAIT_SET_ALL, _SET_ANY, _CLR_ALL, _CLR_ANY. *)
WaitTypes == [set : BOOLEAN, all : BOOLEAN]

NoNode == [grp |-> Null]

(* The tasks in the wait list of g. *)
FlagWaiters(g) == {t \in Tasks : OSTCBFlagNode[t].grp = g}

FlagInit(groups) ==
    /\ group = groups
    /\ OSFlagFreeList = {g \in Groups : ~groups[g].used}
    /\ OSTCBFlagNode = [t \in Tasks |-> NoNode]
    /\ OSTCBFlagsRdy = [t \in Tasks |-> {}]

-----------------------------------------------------------------------------
(* flags_rdy: the part of what is wanted that the flags show. *)
ReadyFlags(flags, want, type) == want \cap (IF type.set THEN flags ELSE Flags \ flags)

Satisfied(flags, want, type) ==
    LET rdy == ReadyFlags(flags, want, type) IN IF type.all THEN rdy = want ELSE rdy # {}

Consumed(flags, rdy, type) == IF type.set THEN flags \ rdy ELSE flags \cup rdy

FlagGroup(g) == group[g].used

OSFlagAccept(g, want, type, consume) ==
    /\ FlagGroup(g)
    /\ consume /\ Satisfied(group[g].flags, want, type)
    /\ group' = [group EXCEPT ![g].flags = Consumed(@, ReadyFlags(@, want, type), type)]
    /\ Return
    /\ UNCHANGED <<tcb, OSRdyTbl, event, restVars, OSFlagFreeList, OSTCBFlagNode, OSTCBFlagsRdy>>

(* OS_FlagBlock. *)
OS_FlagBlock(g, want, type, timeout) ==
    /\ tcb' = [tcb EXCEPT ![OSTCBCur] =
                   [tcb[OSTCBCur] EXCEPT !.stat = @ \cup {"FLAG"}, !.pend = "OK", !.dly = timeout]]
    /\ OSTCBFlagNode' = [OSTCBFlagNode EXCEPT ![OSTCBCur] = [grp |-> g, want |-> want, type |-> type]]
    /\ OSRdyTbl' = OSRdyTbl \ {tcb[OSTCBCur].prio}

OSFlagPend(g, want, type, consume, timeout) ==
    /\ FlagGroup(g)
    /\ OSIntNesting = 0 /\ OSLockNesting = 0
    /\ IF Satisfied(group[g].flags, want, type)
         THEN LET rdy == ReadyFlags(group[g].flags, want, type) IN
              /\ group' = IF consume THEN [group EXCEPT ![g].flags = Consumed(@, rdy, type)] ELSE group
              /\ OSTCBFlagsRdy' = [OSTCBFlagsRdy EXCEPT ![OSTCBCur] = rdy]
              /\ Return
              /\ UNCHANGED <<tcb, OSRdyTbl, OSTCBFlagNode>>
         ELSE /\ OS_FlagBlock(g, want, type, timeout)
              /\ Pended(IF ~consume THEN "FLAG" ELSE IF type.set THEN "FLAG_CLR" ELSE "FLAG_SET", {g})
              /\ UNCHANGED <<group, OSTCBFlagsRdy>>
    /\ UNCHANGED <<event, restVars, OSFlagFreeList>>

(* The second half.  A wait that timed out leaves the list only now; one   *)
(* that was satisfied consumes only now.                                   *)
FlagReturn ==
    LET me == OSTCBCur IN
    /\ OSIntNesting = 0
    /\ pc[me].at = "wake" /\ pc[me].op \in {"FLAG", "FLAG_CLR", "FLAG_SET"}
    /\ IF tcb[me].pend # "OK"
         THEN /\ OSTCBFlagNode' = [OSTCBFlagNode EXCEPT ![me] = NoNode]
              /\ tcb' = [tcb EXCEPT ![me] = [@ EXCEPT !.stat = {}, !.pend = "OK"]]
              /\ UNCHANGED group
         ELSE /\ group' = [g \in Groups |->
                    IF g \notin pc[me].on THEN group[g]
                    ELSE CASE pc[me].op = "FLAG"     -> group[g]
                           [] pc[me].op = "FLAG_CLR" -> [group[g] EXCEPT !.flags = @ \ OSTCBFlagsRdy[me]]
                           [] pc[me].op = "FLAG_SET" -> [group[g] EXCEPT !.flags = @ \cup OSTCBFlagsRdy[me]]]
              /\ UNCHANGED <<tcb, OSTCBFlagNode>>
    /\ pc' = [pc EXCEPT ![me] = InTask]
    /\ UNCHANGED <<OSRdyTbl, event, restVars, OSFlagFreeList, OSTCBFlagsRdy>>

-----------------------------------------------------------------------------
(* OS_FlagTaskRdy, which ends in OS_FlagUnlink, for some of those that     *)
(* wait: rdy[t] are the flags t is told of.                                *)
(* Those with no other bit left. *)
Released(woken) == {t \in woken : tcb[t].stat \ {"FLAG"} = {}}

OS_FlagTaskRdy(woken, rdy) ==
    /\ tcb' = [t \in Tasks |->
                  IF t \in woken THEN [tcb[t] EXCEPT !.dly = 0, !.stat = @ \ {"FLAG"}, !.pend = "OK"]
                  ELSE tcb[t]]
    /\ OSTCBFlagsRdy' = [t \in Tasks |-> IF t \in woken THEN rdy[t] ELSE OSTCBFlagsRdy[t]]
    /\ OSTCBFlagNode' = [t \in Tasks |-> IF t \in woken THEN NoNode ELSE OSTCBFlagNode[t]]
    /\ OSRdyTbl' = OSRdyTbl \cup {tcb[t].prio : t \in Released(woken)}

FlagsOf(t, flags) == ReadyFlags(flags, OSTCBFlagNode[t].want, OSTCBFlagNode[t].type)

(* Seeded fault: only the first of those that wait is looked at. *)
FaultyAwaited(g, flags) ==
    LET all == {t \in FlagWaiters(g) : Satisfied(flags, OSTCBFlagNode[t].want, OSTCBFlagNode[t].type)}
    IN  IF all = {} THEN {} ELSE {CHOOSE t \in all : TRUE}

Awaited(g, flags) ==
    {t \in FlagWaiters(g) : Satisfied(flags, OSTCBFlagNode[t].want, OSTCBFlagNode[t].type)}

(* OS_FLAG_SET, OS_FLAG_CLR. *)
OSFlagPost(g, flags, set) ==
    LET now == IF set THEN group[g].flags \cup flags ELSE group[g].flags \ flags IN
    /\ FlagGroup(g)
    /\ group' = [group EXCEPT ![g].flags = now]
    /\ OS_FlagTaskRdy(Awaited(g, now), [t \in Awaited(g, now) |-> FlagsOf(t, now)])
    /\ IF Released(Awaited(g, now)) # {} THEN CallSched ELSE Return
    /\ UNCHANGED <<event, restVars, OSFlagFreeList>>

-----------------------------------------------------------------------------
OSFlagCreate(g, flags) ==
    /\ OSIntNesting = 0
    /\ g \in OSFlagFreeList
    /\ OSFlagFreeList' = OSFlagFreeList \ {g}
    /\ group' = [group EXCEPT ![g] = [used |-> TRUE, flags |-> flags]]
    /\ Return
    /\ UNCHANGED <<tcb, OSRdyTbl, event, restVars, OSTCBFlagNode, OSTCBFlagsRdy>>

(* Those who still wait are made ready with no flags. *)
OSFlagDel(g, always) ==
    /\ FlagGroup(g) /\ OSIntNesting = 0
    /\ always \/ FlagWaiters(g) = {}
    /\ group' = [group EXCEPT ![g] = [used |-> FALSE, flags |-> {}]]
    /\ OSFlagFreeList' = OSFlagFreeList \cup {g}
    /\ OS_FlagTaskRdy(FlagWaiters(g), [t \in FlagWaiters(g) |-> {}])
    /\ IF FlagWaiters(g) # {} THEN CallSched ELSE Return
    /\ UNCHANGED <<event, restVars>>
=============================================================================
