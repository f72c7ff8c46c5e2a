-------------------------------- MODULE OsTask ------------------------------
(***************************************************************************)
(* Tasks and time: os_task.c and os_time.c.  A service names a task by its *)
(* priority; here it is given the block that OSTCBPrioTbl has for it, and  *)
(* the caller's own for OS_PRIO_SELF.                                      *)
(***************************************************************************)
EXTENDS OsCore

Others == <<OSTCBFreeList, OSTCBCur, OSPrioCur, OSIntNesting, OSLockNesting, OSEventFreeList>>

(* Seeded fault: the wait lists are left as they are. *)
FaultyMovedInLists(t, new) == event

(* The bits of a task move in the lists of the events its block names.     *)
MovedInLists(t, new) ==
    [e \in Events |->
        IF e = tcb[t].ev \/ e \in tcb[t].multi
          THEN [event[e] EXCEPT !.wait = (@ \ {tcb[t].prio}) \cup {new}]
          ELSE event[e]]

OSTaskChangePrio(t, new) ==
    LET old == tcb[t].prio IN
    /\ t # IdleTask /\ t \in Live
    /\ new < OS_LOWEST_PRIO /\ OSTCBPrioTbl[new] = Null
    /\ OSTCBPrioTbl' = [OSTCBPrioTbl EXCEPT ![old] = Null, ![new] = t]
    /\ OSRdyTbl' = IF old \in OSRdyTbl THEN (OSRdyTbl \ {old}) \cup {new} ELSE OSRdyTbl
    /\ event' = MovedInLists(t, new)
    /\ tcb' = [tcb EXCEPT ![t].prio = new]
    /\ CallSched
    /\ UNCHANGED Others

-----------------------------------------------------------------------------
(* Creation: the priority is reserved first.  Without a block it is given  *)
(* up again.                                                               *)
OSTaskCreate(prio) ==
    /\ OSIntNesting = 0
    /\ OSTCBPrioTbl[prio] = Null
    /\ OSTCBPrioTbl' = [OSTCBPrioTbl EXCEPT ![prio] = Reserved]
    /\ pc' = [pc EXCEPT ![OSTCBCur] = [at |-> "create", op |-> "none", on |-> {prio}]]
    /\ UNCHANGED <<tcb, OSRdyTbl, event, Others>>

OS_TCBInit ==
    /\ OSIntNesting = 0
    /\ pc[OSTCBCur].at = "create"
    /\ \E prio \in pc[OSTCBCur].on :
          \/ \E t \in OSTCBFreeList :
                /\ OSTCBFreeList' = OSTCBFreeList \ {t}
                /\ tcb' = [tcb EXCEPT ![t] = FreshTCB(prio)]
                /\ OSTCBPrioTbl' = [OSTCBPrioTbl EXCEPT ![prio] = t]
                /\ OSRdyTbl' = OSRdyTbl \cup {prio}
                /\ pc' = [pc EXCEPT ![t] = InTask, ![OSTCBCur] = [InTask EXCEPT !.at = "sched"]]
          \/ /\ OSTCBFreeList = {}
             /\ OSTCBPrioTbl' = [OSTCBPrioTbl EXCEPT ![prio] = Null]
             /\ pc' = [pc EXCEPT ![OSTCBCur] = InTask]
             /\ UNCHANGED <<tcb, OSRdyTbl, OSTCBFreeList>>
    /\ UNCHANGED <<event, OSTCBCur, OSPrioCur, OSIntNesting, OSLockNesting, OSEventFreeList>>

(* Deletion, in two sections with the scheduler locked between them.       *)
OSTaskDel(t) ==
    /\ OSIntNesting = 0
    /\ t # IdleTask /\ t \in Live
    /\ OSRdyTbl' = OSRdyTbl \ {tcb[t].prio}
    /\ event' = [e \in Events |->
           IF e = tcb[t].ev \/ e \in tcb[t].multi
             THEN [event[e] EXCEPT !.wait = @ \ {tcb[t].prio}] ELSE event[e]]
    /\ tcb' = [tcb EXCEPT ![t] = [@ EXCEPT !.dly = 0, !.stat = {}, !.pend = "OK"]]
    /\ OSLockNesting' = OSLockNesting + 1
    /\ pc' = [pc EXCEPT ![OSTCBCur] = [at |-> "delete", op |-> "none", on |-> {t}]]
    /\ UNCHANGED <<OSTCBPrioTbl, OSTCBFreeList, OSTCBCur, OSPrioCur, OSIntNesting, OSEventFreeList>>

TaskDelEnd ==
    /\ OSIntNesting = 0
    /\ pc[OSTCBCur].at = "delete"
    /\ \E t \in pc[OSTCBCur].on :
          /\ OSTCBPrioTbl' = [OSTCBPrioTbl EXCEPT ![tcb[t].prio] = Null]
          /\ OSTCBFreeList' = OSTCBFreeList \cup {t}
    /\ OSLockNesting' = OSLockNesting - 1
    /\ pc' = [pc EXCEPT ![OSTCBCur] = [InTask EXCEPT !.at = "sched"]]
    /\ UNCHANGED <<tcb, OSRdyTbl, event, OSTCBCur, OSPrioCur, OSIntNesting, OSEventFreeList>>

OSTaskDelReq(t) ==
    /\ t # IdleTask /\ t \in Live
    /\ tcb' = [tcb EXCEPT ![t].delreq = TRUE]
    /\ Return
    /\ UNCHANGED <<OSRdyTbl, event, restVars>>

-----------------------------------------------------------------------------
OSTaskSuspend(t) ==
    /\ t # IdleTask /\ t \in Live
    /\ OSRdyTbl' = OSRdyTbl \ {tcb[t].prio}
    /\ tcb' = [tcb EXCEPT ![t].stat = @ \cup {"SUSPEND"}]
    /\ IF t = OSTCBCur THEN CallSched ELSE Return
    /\ UNCHANGED <<event, restVars>>

(* Ready again if nothing else keeps it: no bit is left, no delay runs.    *)
Resumable(t) == tcb[t].stat \ {"SUSPEND"} = {} /\ tcb[t].dly = 0

OSTaskResume(t) ==
    /\ t \in Live
    /\ Suspended(t)
    /\ tcb' = [tcb EXCEPT ![t].stat = @ \ {"SUSPEND"}]
    /\ IF Resumable(t)
         THEN OSRdyTbl' = OSRdyTbl \cup {tcb[t].prio} /\ CallSched
         ELSE UNCHANGED OSRdyTbl /\ Return
    /\ UNCHANGED <<event, restVars>>

-----------------------------------------------------------------------------
OSTimeDly(ticks) ==
    /\ OSIntNesting = 0
    /\ ticks > 0
    /\ OSRdyTbl' = OSRdyTbl \ {tcb[OSTCBCur].prio}
    /\ tcb' = [tcb EXCEPT ![OSTCBCur].dly = ticks]
    /\ CallSched
    /\ UNCHANGED <<event, restVars>>

(* As if the last tick had come: a wait with a timeout times out. *)
OSTimeDlyResume(t) ==
    /\ t \in Live
    /\ tcb[t].dly # 0
    /\ tcb' = [tcb EXCEPT ![t] = Expired(@)]
    /\ OSRdyTbl' = OSRdyTbl \cup MadeReady({t})
    /\ IF Suspended(t) THEN Return ELSE CallSched
    /\ UNCHANGED <<event, restVars>>
=============================================================================
