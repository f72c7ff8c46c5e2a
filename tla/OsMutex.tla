------------------------------- MODULE OsMutex ------------------------------
(***************************************************************************)
(* Mutual exclusion semaphores with priority inheritance (os_mutex.c).     *)
(* OSEventCnt holds two bytes: the priority the owner may be raised to and *)
(* the one it had when it took the mutex, 255 when there is no owner.      *)
(***************************************************************************)
EXTENDS OsMulti

Mutex(e) == event[e].type = "MUTEX"

OS_MUTEX_AVAILABLE == 255

Pip(e)       == event[e].cnt \div 256
OwnerPrio(e) == event[e].cnt % 256

(* Seeded fault: the priority is always the caller's. *)
FaultyOwned(e, prio) ==
    256 * Pip(e) + (IF prio = OS_MUTEX_AVAILABLE THEN prio ELSE tcb[OSTCBCur].prio)

Owned(e, prio) == 256 * Pip(e) + prio

TakeMutex(e) ==
    /\ OwnerPrio(e) = OS_MUTEX_AVAILABLE
    /\ event' = [event EXCEPT ![e].cnt = Owned(e, tcb[OSTCBCur].prio), ![e].ptr = OSTCBCur]
    /\ Return
    /\ UNCHANGED <<tcb, OSRdyTbl, restVars, queueVars>>

OSMutexAccept(e) == Mutex(e) /\ OSIntNesting = 0 /\ TakeMutex(e)

(* Seeded fault: the urgency is compared the other way round. *)
FaultyRaises(e) ==
    /\ tcb[event[e].ptr].prio > Pip(e)
    /\ OwnerPrio(e) < tcb[OSTCBCur].prio

(* The owner is raised when the caller's priority is higher than the one   *)
(* the owner had, unless it is as high already.                            *)
Raises(e) ==
    /\ tcb[event[e].ptr].prio > Pip(e)
    /\ OwnerPrio(e) > tcb[OSTCBCur].prio

(* Seeded fault: the owner keeps its place in the ready list. *)
FaultyReadyAtPip(owner, pip) == OSRdyTbl

(* A ready owner moves in the ready list, another one in the list of the   *)
(* event it waits for.                                                     *)
ReadyAtPip(owner, pip) ==
    IF tcb[owner].prio \in OSRdyTbl THEN (OSRdyTbl \ {tcb[owner].prio}) \cup {pip} ELSE OSRdyTbl

ListedAtPip(owner, pip, events) ==
    IF tcb[owner].prio \in OSRdyTbl \/ tcb[owner].ev = Null THEN events
    ELSE [events EXCEPT ![tcb[owner].ev].wait = (@ \ {tcb[owner].prio}) \cup {pip}]

OSMutexPend(e, timeout) ==
    /\ Mutex(e) /\ MayPend
    /\ \/ TakeMutex(e)
       \/ LET owner == event[e].ptr IN
          /\ OwnerPrio(e) # OS_MUTEX_AVAILABLE
          /\ IF Raises(e)
               THEN /\ tcb' = [Waiting({"MUTEX"}, timeout, e, {}) EXCEPT ![owner].prio = Pip(e)]
                    /\ event' = ListedAtPip(owner, Pip(e), Enlisted({e}))
                    /\ OSRdyTbl' = ReadyAtPip(owner, Pip(e)) \ {tcb[OSTCBCur].prio}
                    /\ OSTCBPrioTbl' = [OSTCBPrioTbl EXCEPT ![Pip(e)] = owner]
               ELSE OS_EventTaskWait("MUTEX", e, timeout) /\ UNCHANGED OSTCBPrioTbl
          /\ Pended("MUTEX", {e})
          /\ UNCHANGED <<OSTCBFreeList, OSTCBCur, OSPrioCur, OSIntNesting, OSLockNesting,
                         OSEventFreeList, queueVars>>

-----------------------------------------------------------------------------
(* OSMutex_RdyAtPrio: a raised owner becomes what it was, and ready.       *)
Lowered(t, e) == tcb[t].prio = Pip(e)

LowerIf(lower, t, prio, blocks) == IF lower THEN [blocks EXCEPT ![t].prio = prio] ELSE blocks

ReadyAtPrio(lower, t, prio, ready) == IF lower THEN (ready \ {tcb[t].prio}) \cup {prio} ELSE ready

PrioTblAt(lower, t, prio) == IF lower THEN [OSTCBPrioTbl EXCEPT ![prio] = t] ELSE OSTCBPrioTbl

OSMutexPost(e) ==
    LET prio  == OwnerPrio(e)
        lower == Lowered(OSTCBCur, e)
        next  == Highest(Waiters(e))
    IN  /\ Mutex(e) /\ OSIntNesting = 0
        /\ event[e].ptr = OSTCBCur
        /\ OSTCBPrioTbl' = [PrioTblAt(lower, OSTCBCur, prio) EXCEPT ![Pip(e)] = Reserved]
        /\ IF Waiters(e) # {}
             THEN /\ tcb' = LowerIf(lower, OSTCBCur, prio, TCBsAfterRdy(e, {next}, Null, {"MUTEX"}, "OK"))
                  /\ OSRdyTbl' = ReadyAtPrio(lower, OSTCBCur, prio, ReadyAfterRdy({next}))
                  /\ event' = [EventsAfterRdy(e, {next}) EXCEPT
                                  ![e].cnt = Owned(e, next), ![e].ptr = OSTCBPrioTbl[next]]
                  /\ CallSched
             ELSE /\ tcb' = LowerIf(lower, OSTCBCur, prio, tcb)
                  /\ OSRdyTbl' = ReadyAtPrio(lower, OSTCBCur, prio, OSRdyTbl)
                  /\ event' = [event EXCEPT ![e].cnt = Owned(e, OS_MUTEX_AVAILABLE), ![e].ptr = Null]
                  /\ Return
        /\ UNCHANGED <<OSTCBFreeList, OSTCBCur, OSPrioCur, OSIntNesting, OSLockNesting,
                       OSEventFreeList, queueVars>>

MutexReturn == ReturnFromPend("MUTEX", TRUE) /\ UNCHANGED queueVars

-----------------------------------------------------------------------------
OSMutexCreate(e, prio) ==
    /\ OSIntNesting = 0
    /\ e \in OSEventFreeList
    /\ OSTCBPrioTbl[prio] = Null
    /\ OSTCBPrioTbl' = [OSTCBPrioTbl EXCEPT ![prio] = Reserved]
    /\ OSEventFreeList' = OSEventFreeList \ {e}
    /\ event' = [event EXCEPT ![e] = NewEvent("MUTEX", 256 * prio + OS_MUTEX_AVAILABLE, Null)]
    /\ Return
    /\ UNCHANGED <<tcb, OSTCBFreeList, OSRdyTbl, OSTCBCur, OSPrioCur, OSIntNesting,
                   OSLockNesting, queueVars>>

(* Without waiters the owner, if there is one, is not looked at; with      *)
(* OS_DEL_ALWAYS a raised one becomes what it was, and ready.              *)
OSMutexDel(e, always) ==
    LET owner == event[e].ptr
        lower == always /\ owner # Null /\ Lowered(owner, e)
    IN  /\ Mutex(e) /\ OSIntNesting = 0
        /\ always \/ Waiters(e) = {}
        /\ tcb' = LowerIf(lower, owner, OwnerPrio(e), TCBsAfterRdy(e, Waiters(e), Null, {"MUTEX"}, "OK"))
        /\ OSRdyTbl' = ReadyAtPrio(lower, owner, OwnerPrio(e), ReadyAfterRdy(Waiters(e)))
        /\ OSTCBPrioTbl' = [PrioTblAt(lower, owner, OwnerPrio(e)) EXCEPT ![Pip(e)] = Null]
        /\ event' = [EventsAfterRdy(e, Waiters(e)) EXCEPT ![e] = Unused]
        /\ OSEventFreeList' = OSEventFreeList \cup {e}
        /\ IF Waiters(e) # {} THEN CallSched ELSE Return
        /\ UNCHANGED <<OSTCBFreeList, OSTCBCur, OSPrioCur, OSIntNesting, OSLockNesting, queueVars>>
=============================================================================
