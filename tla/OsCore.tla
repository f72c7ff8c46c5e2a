------------------------------- MODULE OsCore -------------------------------
(***************************************************************************)
(* The core of uC/OS-II as built for this board (os_core.c): tasks, the    *)
(* ready list, the wait lists of events, the scheduler, interrupts and the *)
(* system tick.  The services are modules of their own that extend this    *)
(* one.                                                                    *)
(*                                                                         *)
(* One action is one critical section: between two of them an interrupt    *)
(* may come, and with it another task.  A service called from an interrupt *)
(* handler runs the same sections with OSIntNesting at 1 (the HAL does not *)
(* nest interrupts).                                                       *)
(*                                                                         *)
(* OSRdyGrp and OSRdyTbl are the set of priorities whose bits they hold,   *)
(* and so are OSEventGrp and OSEventTbl of an event.  See OsReadyList.     *)
(***************************************************************************)
EXTENDS Naturals, Sequences, FiniteSets, FiniteSetsExt

CONSTANTS Tasks,          \* OSTCBTbl
          IdleTask,       \* the one of them that OS_InitTaskIdle creates
          Events,         \* OSEventTbl
          Messages,       \* what may be posted
          Null,           \* the null pointer
          Reserved,       \* OS_TCB_RESERVED
          OS_LOWEST_PRIO,
          MaxDelay        \* bound: ticks in a timeout or a delay

ASSUME CoreAssumption ==
    /\ IdleTask \in Tasks /\ IsFiniteSet(Tasks) /\ Events # {}
    /\ Null \notin Tasks \cup Events \cup Messages
    /\ Reserved \notin Tasks \cup {Null}
    /\ OS_LOWEST_PRIO \in Nat /\ MaxDelay \in Nat

Prios == 0 .. OS_LOWEST_PRIO

PendBits == {"SEM", "MBOX", "Q", "MUTEX", "FLAG"}          \* OS_STAT_PEND_ANY
StatBits == PendBits \cup {"SUSPEND", "MULTI"}

EventTypes == {"UNUSED", "SEM", "MBOX", "Q", "MUTEX"}

VARIABLES
    tcb,              \* the task control blocks
    OSTCBPrioTbl,     \* which task has a priority
    OSTCBFreeList,
    OSRdyTbl,         \* the priorities of the tasks that are ready
    OSTCBCur, OSPrioCur,
    OSIntNesting, OSLockNesting,
    event,            \* the event control blocks
    OSEventFreeList,
    pc                \* where each task is: in its own code ("task"), before OS_Sched at
                      \* the end of a call ("sched") or inside one ("pended"), or behind it,
                      \* in the call op on the events on ("wake")

coreVars == <<tcb, OSTCBPrioTbl, OSTCBFreeList, OSRdyTbl, OSTCBCur, OSPrioCur,
              OSIntNesting, OSLockNesting, event, OSEventFreeList, pc>>

(* All but what a change of the lists and of some task's block touches.    *)
restVars == <<OSTCBPrioTbl, OSTCBFreeList, OSTCBCur, OSPrioCur, OSIntNesting,
              OSLockNesting, OSEventFreeList>>

InTask == [at |-> "task", op |-> "none", on |-> {}]

(* OS_TCBInit: a block that has just been taken from the free list. *)
FreshTCB(prio) ==
    [prio |-> prio, stat |-> {}, pend |-> "OK", dly |-> 0, ev |-> Null, multi |-> {},
     msg |-> Null, delreq |-> FALSE]

-----------------------------------------------------------------------------
(* Lists. *)

Live == {t \in Tasks : tcb[t].prio \in Prios /\ OSTCBPrioTbl[tcb[t].prio] = t}

Suspended(t) == "SUSPEND" \in tcb[t].stat

Waiters(e) == event[e].wait

(* OSUnMapTbl, twice: the highest priority in a list is the lowest number. *)
Highest(list) == Min(list)

(* OS_EventTaskRdy for the tasks that stand in e's list with these         *)
(* priorities, one after the other.                                        *)
Woken(prios) == {OSTCBPrioTbl[p] : p \in prios}

TCBsAfterRdy(e, prios, msg, bits, pend) ==
    [t \in Tasks |->
        IF t \in Woken(prios)
          THEN [tcb[t] EXCEPT !.dly = 0, !.msg = msg, !.stat = @ \ bits, !.pend = pend,
                              !.ev = IF tcb[t].multi = {} THEN @ ELSE e]
          ELSE tcb[t]]

ReadyAfterRdy(prios) ==
    OSRdyTbl \cup {tcb[t].prio : t \in {w \in Woken(prios) : ~Suspended(w)}}

(* OS_EventTaskRemove and OS_EventTaskRemoveMulti. *)
EventsAfterRdy(e, prios) ==
    [x \in Events |->
        [event[x] EXCEPT !.wait =
            @ \ {tcb[t].prio : t \in {w \in Woken(prios) : x = e \/ x \in tcb[w].multi}}]]

OS_EventTaskRdy(e, prios, msg, bits, pend) ==
    /\ tcb' = TCBsAfterRdy(e, prios, msg, bits, pend)
    /\ OSRdyTbl' = ReadyAfterRdy(prios)

(* OS_EventTaskWait, OS_EventTaskWaitMulti: the caller's block with what   *)
(* the services set before, the ready list and the wait lists.             *)
Waiting(bits, timeout, ev, multi) ==
    [tcb EXCEPT ![OSTCBCur] =
        [tcb[OSTCBCur] EXCEPT !.stat = @ \cup bits, !.pend = "OK", !.dly = timeout, !.ev = ev,
                              !.multi = IF multi = {} THEN @ ELSE multi]]

Enlisted(events) ==
    [x \in Events |->
        IF x \in events THEN [event[x] EXCEPT !.wait = @ \cup {tcb[OSTCBCur].prio}]
        ELSE event[x]]

OS_EventTaskWait(bit, e, timeout) ==
    /\ tcb' = Waiting({bit}, timeout, e, {})
    /\ event' = Enlisted({e})
    /\ OSRdyTbl' = OSRdyTbl \ {tcb[OSTCBCur].prio}

OS_EventTaskWaitMulti(bits, events, timeout) ==
    /\ tcb' = Waiting(bits \cup {"MULTI"}, timeout, Null, events)
    /\ event' = Enlisted(events)
    /\ OSRdyTbl' = OSRdyTbl \ {tcb[OSTCBCur].prio}

(* The end of a pend, by the task itself: a wait that timed out leaves the *)
(* lists only now.                                                         *)
Removed(events) ==
    [x \in Events |->
        IF x \in events THEN [event[x] EXCEPT !.wait = @ \ {tcb[OSTCBCur].prio}]
        ELSE event[x]]

Rested == [tcb EXCEPT ![OSTCBCur] =
              [@ EXCEPT !.stat = {}, !.pend = "OK", !.ev = Null, !.multi = {}]]

-----------------------------------------------------------------------------
(* The scheduler. *)

(* The end of a call that has or has not made a task ready.  In a handler  *)
(* OS_Sched returns at once.                                               *)
Return == UNCHANGED pc

CallSched ==
    IF OSIntNesting > 0 THEN UNCHANGED pc
    ELSE pc' = [pc EXCEPT ![OSTCBCur].at = "sched"]

Pended(op, events) ==
    pc' = [pc EXCEPT ![OSTCBCur] = [at |-> "pended", op |-> op, on |-> events]]

SwitchTo(prio) ==
    IF prio # OSPrioCur
      THEN OSTCBCur' = OSTCBPrioTbl[prio] /\ OSPrioCur' = prio
      ELSE UNCHANGED <<OSTCBCur, OSPrioCur>>

OS_Sched ==
    /\ OSIntNesting = 0
    /\ pc[OSTCBCur].at \in {"sched", "pended"}
    /\ IF OSLockNesting = 0 THEN SwitchTo(Highest(OSRdyTbl)) ELSE UNCHANGED <<OSTCBCur, OSPrioCur>>
    /\ pc' = [pc EXCEPT ![OSTCBCur].at = IF @ = "sched" THEN "task" ELSE "wake"]
    /\ UNCHANGED <<tcb, OSTCBPrioTbl, OSTCBFreeList, OSRdyTbl, OSIntNesting, OSLockNesting,
                   event, OSEventFreeList>>

OSIntEnter ==
    /\ OSIntNesting = 0
    /\ OSIntNesting' = 1
    /\ UNCHANGED <<tcb, OSTCBPrioTbl, OSTCBFreeList, OSRdyTbl, OSTCBCur, OSPrioCur,
                   OSLockNesting, event, OSEventFreeList, pc>>

OSIntExit ==
    /\ OSIntNesting = 1
    /\ OSIntNesting' = 0
    /\ IF OSLockNesting = 0 THEN SwitchTo(Highest(OSRdyTbl)) ELSE UNCHANGED <<OSTCBCur, OSPrioCur>>
    /\ UNCHANGED <<tcb, OSTCBPrioTbl, OSTCBFreeList, OSRdyTbl, OSLockNesting, event,
                   OSEventFreeList, pc>>

(* The counter is a byte; the bound is one.                                *)
OSSchedLock ==
    /\ OSIntNesting = 0 /\ OSLockNesting = 0
    /\ OSLockNesting' = OSLockNesting + 1
    /\ UNCHANGED <<tcb, OSTCBPrioTbl, OSTCBFreeList, OSRdyTbl, OSTCBCur, OSPrioCur,
                   OSIntNesting, event, OSEventFreeList, pc>>

(* Seeded fault: a task made ready meanwhile is not looked for. *)
FaultySchedUnlock ==
    /\ OSIntNesting = 0 /\ OSLockNesting > 0
    /\ OSLockNesting' = OSLockNesting - 1
    /\ Return
    /\ UNCHANGED <<tcb, OSTCBPrioTbl, OSTCBFreeList, OSRdyTbl, OSTCBCur, OSPrioCur,
                   OSIntNesting, event, OSEventFreeList>>

OSSchedUnlock ==
    /\ OSIntNesting = 0 /\ OSLockNesting > 0
    /\ OSLockNesting' = OSLockNesting - 1
    /\ IF OSLockNesting = 1 THEN CallSched ELSE Return
    /\ UNCHANGED <<tcb, OSTCBPrioTbl, OSTCBFreeList, OSRdyTbl, OSTCBCur, OSPrioCur,
                   OSIntNesting, event, OSEventFreeList>>

-----------------------------------------------------------------------------
(* Time. *)

Expiring == {t \in Live : tcb[t].dly = 1}

(* A wait that times out ends: its bits go, the task becomes ready, and it *)
(* stays in the list of the event until it runs.                           *)
Expired(block) ==
    [block EXCEPT !.dly = 0, !.stat = @ \ PendBits,
                  !.pend = IF block.stat \cap PendBits # {} THEN "TO" ELSE "OK"]

(* Seeded fault: a suspended task is made ready as well. *)
FaultyMadeReady(tasks) == {tcb[t].prio : t \in tasks}

(* Seeded fault: the bits of the wait are looked at before they go. *)
FaultyTimedOutReady(tasks) == {tcb[t].prio : t \in {x \in tasks : tcb[x].stat = {}}}

MadeReady(tasks) == {tcb[t].prio : t \in {x \in tasks : ~Suspended(x)}}

OSTimeTick ==
    /\ OSIntNesting = 1
    /\ tcb' = [t \in Tasks |->
                  IF t \notin Live \/ tcb[t].dly = 0 THEN tcb[t]
                  ELSE IF t \in Expiring THEN Expired(tcb[t])
                  ELSE [tcb[t] EXCEPT !.dly = @ - 1]]
    /\ OSRdyTbl' = OSRdyTbl \cup MadeReady(Expiring)
    /\ UNCHANGED <<restVars, event, pc>>

-----------------------------------------------------------------------------
(* OSInit, the creation of the application's tasks and events, OSStart.    *)
(* pips: the priorities that mutexes have taken.                           *)

CoreInit(prioOf, events, pips) ==
    /\ tcb = [t \in Tasks |-> FreshTCB(IF t \in DOMAIN prioOf THEN prioOf[t] ELSE OS_LOWEST_PRIO + 1)]
    /\ OSTCBPrioTbl = [p \in Prios |->
           IF \E t \in DOMAIN prioOf : prioOf[t] = p
             THEN CHOOSE t \in DOMAIN prioOf : prioOf[t] = p
             ELSE IF p \in pips THEN Reserved ELSE Null]
    /\ OSTCBFreeList = Tasks \ DOMAIN prioOf
    /\ OSRdyTbl = {prioOf[t] : t \in DOMAIN prioOf}
    /\ OSPrioCur = Highest(OSRdyTbl) /\ OSTCBCur = OSTCBPrioTbl[OSPrioCur]
    /\ OSIntNesting = 0 /\ OSLockNesting = 0
    /\ event = events
    /\ OSEventFreeList = {e \in Events : events[e].type = "UNUSED"}
    /\ pc = [t \in Tasks |-> InTask]
=============================================================================
