-------------------------------- MODULE OsSem -------------------------------
(***************************************************************************)
(* Counting semaphores (os_sem.c).                                         *)
(*                                                                         *)
(* Every service begins with checks of its arguments outside the critical  *)
(* section; a call that fails them changes nothing and is no step here.    *)
(* That the type is read before the section is entered matters only when   *)
(* another task deletes the event in between.                              *)
(***************************************************************************)
EXTENDS OsCore

CONSTANT MaxCount   \* bound: 65535

ASSUME SemAssumption == MaxCount \in Nat

Sem(e) == event[e].type = "SEM"

NewEvent(type, cnt, ptr) == [type |-> type, cnt |-> cnt, ptr |-> ptr, wait |-> {}]

Unused == NewEvent("UNUSED", 0, Null)

-----------------------------------------------------------------------------
(* A pend may be called by a task only, and not with the scheduler locked. *)
MayPend == OSIntNesting = 0 /\ OSLockNesting = 0

OSSemAccept(e) ==
    /\ Sem(e)
    /\ event[e].cnt > 0
    /\ event' = [event EXCEPT ![e].cnt = @ - 1]
    /\ Return
    /\ UNCHANGED <<tcb, OSRdyTbl, restVars>>

OSSemPend(e, timeout) ==
    /\ Sem(e) /\ MayPend
    /\ IF event[e].cnt > 0
         THEN /\ event' = [event EXCEPT ![e].cnt = @ - 1]
              /\ Return
              /\ UNCHANGED <<tcb, OSRdyTbl>>
         ELSE /\ OS_EventTaskWait("SEM", e, timeout)
              /\ Pended("SEM", {e})
    /\ UNCHANGED restVars

(* Seeded fault: a task whose wait has timed out is passed over, and the   *)
(* signal with it.                                                         *)
FaultySemPost(e) ==
    /\ Sem(e)
    /\ IF Waiters(e) # {}
         THEN LET p == Highest(Waiters(e)) IN
              /\ IF tcb[OSTCBPrioTbl[p]].pend = "TO"
                   THEN event' = EventsAfterRdy(e, {p}) /\ UNCHANGED <<tcb, OSRdyTbl>>
                   ELSE /\ OS_EventTaskRdy(e, {p}, Null, {"SEM"}, "OK")
                        /\ event' = EventsAfterRdy(e, {p})
              /\ CallSched
         ELSE /\ event[e].cnt < MaxCount
              /\ event' = [event EXCEPT ![e].cnt = @ + 1]
              /\ Return
              /\ UNCHANGED <<tcb, OSRdyTbl>>
    /\ UNCHANGED restVars

OSSemPost(e) ==
    /\ Sem(e)
    /\ IF Waiters(e) # {}
         THEN /\ OS_EventTaskRdy(e, {Highest(Waiters(e))}, Null, {"SEM"}, "OK")
              /\ event' = EventsAfterRdy(e, {Highest(Waiters(e))})
              /\ CallSched
         ELSE /\ event[e].cnt < MaxCount
              /\ event' = [event EXCEPT ![e].cnt = @ + 1]
              /\ Return
              /\ UNCHANGED <<tcb, OSRdyTbl>>
    /\ UNCHANGED restVars

(* OS_PEND_OPT_NONE, OS_PEND_OPT_BROADCAST; the services for mailboxes and *)
(* queues are the same but for the bit.                                    *)
PendAbort(bit, e, broadcast) ==
    /\ Waiters(e) # {}
    /\ LET prios == IF broadcast THEN Waiters(e) ELSE {Highest(Waiters(e))} IN
       /\ OS_EventTaskRdy(e, prios, Null, {bit}, "ABORT")
       /\ event' = EventsAfterRdy(e, prios)
    /\ CallSched
    /\ UNCHANGED restVars

OSSemPendAbort(e, broadcast) == Sem(e) /\ PendAbort("SEM", e, broadcast)

OSSemSet(e, cnt) ==
    /\ Sem(e)
    /\ event[e].cnt > 0 \/ Waiters(e) = {}
    /\ event' = [event EXCEPT ![e].cnt = cnt]
    /\ Return
    /\ UNCHANGED <<tcb, OSRdyTbl, restVars>>

-----------------------------------------------------------------------------
(* Creation and deletion.  The block is filled in after the section; until *)
(* the call returns nobody else knows it.                                  *)

CreateEvent(e, new) ==
    /\ OSIntNesting = 0
    /\ e \in OSEventFreeList
    /\ OSEventFreeList' = OSEventFreeList \ {e}
    /\ event' = [event EXCEPT ![e] = new]
    /\ Return
    /\ UNCHANGED <<tcb, OSTCBPrioTbl, OSTCBFreeList, OSRdyTbl, OSTCBCur, OSPrioCur,
                   OSIntNesting, OSLockNesting>>

OSSemCreate(e, cnt) == CreateEvent(e, NewEvent("SEM", cnt, Null))

(* OS_DEL_NO_PEND and OS_DEL_ALWAYS.  Those who still wait are told that   *)
(* all is well.                                                            *)
DeleteEvent(bit, e, always) ==
    /\ OSIntNesting = 0
    /\ always \/ Waiters(e) = {}
    /\ OS_EventTaskRdy(e, Waiters(e), Null, {bit}, "OK")
    /\ event' = [EventsAfterRdy(e, Waiters(e)) EXCEPT ![e] = Unused]
    /\ OSEventFreeList' = OSEventFreeList \cup {e}
    /\ IF Waiters(e) # {} THEN CallSched ELSE Return
    /\ UNCHANGED <<OSTCBPrioTbl, OSTCBFreeList, OSTCBCur, OSPrioCur, OSIntNesting, OSLockNesting>>

OSSemDel(e, always) == Sem(e) /\ DeleteEvent("SEM", e, always)

-----------------------------------------------------------------------------
(* The second half of a pend on one semaphore, mailbox, queue or mutex,    *)
(* when the task runs again.  keeps: OSTCBMsg is left as it is.            *)
ReturnFromPend(op, keeps) ==
    /\ OSIntNesting = 0
    /\ pc[OSTCBCur].at = "wake" /\ pc[OSTCBCur].op = op
    /\ event' = IF tcb[OSTCBCur].pend = "TO" THEN Removed(pc[OSTCBCur].on) ELSE event
    /\ tcb' = IF keeps THEN Rested ELSE [Rested EXCEPT ![OSTCBCur].msg = Null]
    /\ pc' = [pc EXCEPT ![OSTCBCur] = InTask]
    /\ UNCHANGED <<OSRdyTbl, restVars>>

SemReturn == ReturnFromPend("SEM", TRUE)
=============================================================================
