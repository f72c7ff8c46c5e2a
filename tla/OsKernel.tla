------------------------------- MODULE OsKernel -----------------------------
(***************************************************************************)
(* The kernel at work: tasks and an interrupt handler that call its        *)
(* services in any order, each those of its menu, and what the services    *)
(* owe to their callers whatever the order.                                *)
(*                                                                         *)
(* A task takes a step only while it is OSTCBCur and no handler runs; the  *)
(* handler may come between any two critical sections, calls what it likes *)
(* and leaves through OSIntExit.                                           *)
(***************************************************************************)
EXTENDS OsMutex, OsTask, OsFlag, OsMem

CONSTANT Workloads    \* what the application is: see Workload

(* prio: the tasks created at the start; events, queues, groups: what      *)
(* exists then; menu, handler: the services that a task and the handler    *)
(* call; the other fields: the arguments that they pass.                   *)
Workload(w) ==
    /\ DOMAIN w.prio \subseteq Tasks /\ w.prio \in Injection(DOMAIN w.prio, Prios)
    /\ IdleTask \in DOMAIN w.prio /\ w.prio[IdleTask] = OS_LOWEST_PRIO
    /\ w.events \in [Events -> [type : EventTypes, cnt : Nat, wait : {{}},
                               ptr : Messages \cup Queues \cup {Null}]]
    /\ \A e \in Events : w.events[e].type = "Q" <=> w.events[e].ptr \in Queues
    /\ \A d, e \in Events : w.events[d].type = "Q" /\ w.events[d].ptr = w.events[e].ptr => d = e
    /\ DOMAIN w.queues = Queues
    /\ \A pq \in Queues : w.queues[pq].size \in Nat \ {0}
                        /\ w.queues[pq] = NewRing(w.queues[pq].size, Null)
    /\ w.groups \in [Groups -> [used : BOOLEAN, flags : SUBSET Flags]]
    /\ w.menu[IdleTask] = {}
    /\ w.timeouts \subseteq 0 .. MaxDelay
    /\ w.targets \subseteq Tasks /\ w.newPrios \subseteq Prios
    /\ w.wants \subseteq SUBSET Flags /\ w.waitTypes \subseteq WaitTypes
    /\ w.consume \subseteq BOOLEAN /\ w.broadcast \subseteq BOOLEAN

ASSUME WorkloadAssumption == \A i \in DOMAIN Workloads : Workload(Workloads[i])

VARIABLES
    load,     \* which workload
    owed,     \* how many of each message an event has accepted and not yet given to a caller
    lazy      \* a call has put off a change of task until the next one

kernelVars == <<coreVars, queueVars, flagVars, memVars, load, owed, lazy>>

L == Workloads[load]

May(op) ==
    IF OSIntNesting > 0 THEN op \in L.handler
    ELSE pc[OSTCBCur].at = "task" /\ op \in L.menu[OSTCBCur]

-----------------------------------------------------------------------------
(* What is owed: what an event stores, and what has been handed to a task  *)
(* that has not run since.                                                 *)
InStock(e, m) ==
    CASE Sem(e)   -> IF m = Null THEN event[e].cnt ELSE 0
      [] Mbox(e)  -> IF m # Null /\ event[e].ptr = m THEN 1 ELSE 0
      [] Queue(e) -> Cardinality({i \in 1 .. Of(e).entries : Contents(Of(e))[i] = m})
      [] OTHER    -> 0

Deleting(t) == \E x \in Live : pc[x].at = "delete" /\ t \in pc[x].on

Woke(t) ==
    /\ ~Deleting(t)
    /\ pc[t].at \in {"pended", "wake"} /\ pc[t].op \in {"SEM", "MBOX", "Q", "MULTI"}
    /\ tcb[t].pend = "OK"
    /\ IF pc[t].op = "MULTI" THEN tcb[t].ev # Null ELSE tcb[t].stat \cap PendBits = {}

InHand(e, m) == {t \in Live : Woke(t) /\ tcb[t].ev = e /\ tcb[t].msg = m}

NextOf(e) ==
    CASE Sem(e) -> Null [] Mbox(e) -> event[e].ptr [] Queue(e) -> OldestIn(Of(e))

Accepts(e, m, n) == owed' = [owed EXCEPT ![e][m] = @ + n]
Gives(e)         == owed' = [owed EXCEPT ![e][NextOf(e)] = @ - 1]
GivesAll(events) ==
    owed' = [e \in Events |-> IF e \in events THEN [owed[e] EXCEPT ![NextOf(e)] = @ - 1] ELSE owed[e]]

(* What exists after an event is made, emptied or deleted. *)
Afresh(events) ==
    owed' = [e \in Events |->
                IF e \in events
                  THEN [m \in Messages \cup {Null} |-> InStock(e, m)' + Cardinality(InHand(e, m)')]
                  ELSE owed[e]]

(* At the end of a pend the caller has what it was handed. *)
Delivered ==
    IF Woke(OSTCBCur)
      THEN owed' = [owed EXCEPT ![tcb[OSTCBCur].ev][tcb[OSTCBCur].msg] = @ - 1]
      ELSE UNCHANGED owed

Takers(e, broadcast) == IF broadcast /\ Waiters(e) # {} THEN Cardinality(Waiters(e)) ELSE 1

KeepsOwed == UNCHANGED owed

Prompt == UNCHANGED lazy

(* A call that leaves the change of task to a later one. *)
PutsOff == lazy' = (lazy \/ (OSIntNesting = 0 /\ OSRdyTbl' # OSRdyTbl))

-----------------------------------------------------------------------------
SemCalls ==
    /\ \E e \in Events :
          \/ May("OSSemAccept") /\ OSSemAccept(e) /\ Gives(e)
          \/ /\ May("OSSemPend") /\ \E timeout \in L.timeouts : OSSemPend(e, timeout)
             /\ IF Available(e) THEN Gives(e) ELSE KeepsOwed
          \/ May("OSSemPost") /\ OSSemPost(e) /\ Accepts(e, Null, 1)
          \/ /\ May("OSSemPendAbort") /\ \E broadcast \in L.broadcast : OSSemPendAbort(e, broadcast)
             /\ KeepsOwed
          \/ May("OSSemSet") /\ \E cnt \in 0 .. MaxCount : OSSemSet(e, cnt) /\ Afresh({e})
          \/ May("OSSemCreate") /\ OSSemCreate(e, 0) /\ Afresh({e})
          \/ May("OSSemDel") /\ \E always \in L.broadcast : OSSemDel(e, always) /\ Afresh({e})
    /\ UNCHANGED queueVars /\ Prompt

MboxCalls ==
    /\ \E e \in Events :
          \/ May("OSMboxAccept") /\ OSMboxAccept(e) /\ Gives(e) /\ Prompt
          \/ /\ May("OSMboxPend") /\ \E timeout \in L.timeouts : OSMboxPend(e, timeout)
             /\ IF Available(e) THEN Gives(e) ELSE KeepsOwed
             /\ Prompt
          \/ May("OSMboxPost") /\ \E m \in Messages : OSMboxPost(e, m) /\ Accepts(e, m, 1) /\ Prompt
          \/ /\ May("OSMboxPostOpt")
             /\ \E m \in Messages, broadcast \in L.broadcast, sched \in BOOLEAN :
                   /\ OSMboxPostOpt(e, m, broadcast, sched)
                   /\ Accepts(e, m, Takers(e, broadcast))
                   /\ IF sched THEN Prompt ELSE PutsOff
          \/ /\ May("OSMboxPendAbort") /\ \E broadcast \in L.broadcast : OSMboxPendAbort(e, broadcast)
             /\ KeepsOwed /\ Prompt
          \/ May("OSMboxCreate") /\ OSMboxCreate(e, Null) /\ Afresh({e}) /\ Prompt
          \/ May("OSMboxDel") /\ \E always \in L.broadcast : OSMboxDel(e, always) /\ Afresh({e}) /\ Prompt
    /\ UNCHANGED queueVars

QCalls ==
    \E e \in Events :
       \/ May("OSQAccept") /\ OSQAccept(e) /\ Gives(e) /\ Prompt
       \/ /\ May("OSQPend") /\ \E timeout \in L.timeouts : OSQPend(e, timeout)
          /\ IF Available(e) THEN Gives(e) ELSE KeepsOwed
          /\ Prompt
       \/ May("OSQPost") /\ \E m \in Messages : OSQPost(e, m) /\ Accepts(e, m, 1) /\ Prompt
       \/ May("OSQPostFront") /\ \E m \in Messages : OSQPostFront(e, m) /\ Accepts(e, m, 1) /\ Prompt
       \/ /\ May("OSQPostOpt")
          /\ \E m \in Messages, broadcast \in L.broadcast, front \in BOOLEAN, sched \in BOOLEAN :
                /\ OSQPostOpt(e, m, broadcast, front, sched)
                /\ Accepts(e, m, Takers(e, broadcast))
                /\ IF sched THEN Prompt ELSE PutsOff
       \/ May("OSQFlush") /\ OSQFlush(e) /\ Afresh({e}) /\ Prompt
       \/ /\ May("OSQPendAbort") /\ \E broadcast \in L.broadcast : OSQPendAbort(e, broadcast)
          /\ KeepsOwed /\ Prompt
       \/ May("OSQCreate") /\ OSQCreate(e, 2) /\ Afresh({e}) /\ Prompt
       \/ May("OSQDel") /\ \E always \in L.broadcast : OSQDel(e, always) /\ Afresh({e}) /\ Prompt

MultiCalls ==
    /\ May("OSEventPendMulti")
    /\ \E timeout \in L.timeouts : OSEventPendMulti(Events, timeout)
    /\ GivesAll({e \in Events : Available(e)}) /\ Prompt

(* The application takes one mutex at a time. *)
HoldsNone == \A e \in Events : Mutex(e) => event[e].ptr # OSTCBCur

(* A post nobody waits for lowers the caller and calls no OS_Sched. *)
MutexCalls ==
    /\ \E e \in Events :
          \/ May("OSMutexAccept") /\ HoldsNone /\ OSMutexAccept(e) /\ Prompt
          \/ /\ May("OSMutexPend") /\ HoldsNone
             /\ \E timeout \in L.timeouts : OSMutexPend(e, timeout)
             /\ Prompt
          \/ May("OSMutexPost") /\ OSMutexPost(e) /\ PutsOff
          \/ May("OSMutexCreate") /\ \E prio \in L.newPrios : OSMutexCreate(e, prio) /\ Prompt
          \/ May("OSMutexDel") /\ \E always \in L.broadcast : OSMutexDel(e, always) /\ PutsOff
    /\ KeepsOwed

EventCalls == (SemCalls \/ MboxCalls \/ QCalls \/ MultiCalls \/ MutexCalls) /\ UNCHANGED flagVars

FlagCalls ==
    /\ \E g \in Groups, want \in L.wants :
          \/ /\ May("OSFlagAccept")
             /\ \E type \in L.waitTypes, consume \in L.consume : OSFlagAccept(g, want, type, consume)
          \/ /\ May("OSFlagPend")
             /\ \E type \in L.waitTypes, consume \in L.consume, timeout \in L.timeouts :
                   OSFlagPend(g, want, type, consume, timeout)
          \/ May("OSFlagPost") /\ \E set \in BOOLEAN : OSFlagPost(g, want, set)
          \/ May("OSFlagCreate") /\ OSFlagCreate(g, want)
          \/ May("OSFlagDel") /\ \E always \in L.broadcast : OSFlagDel(g, always)
    /\ UNCHANGED queueVars /\ KeepsOwed /\ Prompt

(* The application writes what it likes into the blocks that it has.       *)
MemCalls ==
    /\ \/ May("OSMemCreate") /\ OSMemCreate(MemBlocks)
       \/ May("OSMemGet") /\ OSMemGet
       \/ \E b \in lent : \/ May("OSMemPut") /\ OSMemPut(b)
                          \/ May("OSMemPut") /\ \E value \in Addr \cup {0} : Fill(b, value)
    /\ UNCHANGED <<coreVars, queueVars, flagVars, load, owed, lazy>>

TaskCalls ==
    /\ UNCHANGED queueVars /\ Prompt
    /\ \/ /\ \E t \in L.targets :
                \/ May("OSTaskChangePrio") /\ \E prio \in L.newPrios : OSTaskChangePrio(t, prio)
                \/ May("OSTaskSuspend") /\ OSTaskSuspend(t)
                \/ May("OSTaskResume") /\ OSTaskResume(t)
                \/ May("OSTimeDlyResume") /\ OSTimeDlyResume(t)
                \/ May("OSTaskDelReq") /\ OSTaskDelReq(t)
          /\ UNCHANGED flagVars /\ KeepsOwed
       \/ /\ \/ May("OSTaskCreate") /\ \E prio \in L.newPrios : OSTaskCreate(prio)
             \/ OS_TCBInit
             \/ TaskDelEnd
             \/ May("OSTimeDly") /\ \E ticks \in 1 .. MaxDelay : OSTimeDly(ticks)
          /\ UNCHANGED flagVars /\ KeepsOwed
       \/ /\ May("OSTaskDel")
          /\ \E t \in L.targets :
                /\ OSTaskDel(t)
                /\ OSTCBFlagNode' = [OSTCBFlagNode EXCEPT ![t] = NoNode]
          /\ UNCHANGED <<group, OSFlagFreeList, OSTCBFlagsRdy>>
          /\ Afresh(Events)

Returns ==
    \/ (SemReturn \/ MboxReturn) /\ Delivered /\ UNCHANGED <<queueVars, flagVars, lazy>>
    \/ (QReturn \/ MultiReturn)  /\ Delivered /\ UNCHANGED <<flagVars, lazy>>
    \/ MutexReturn /\ KeepsOwed /\ UNCHANGED <<flagVars, lazy>>
    \/ FlagReturn /\ KeepsOwed /\ UNCHANGED <<queueVars, lazy>>

(* The change that was put off is made, unless the scheduler is locked. *)
Switch(A) ==
    /\ A
    /\ lazy' = (lazy /\ OSLockNesting > 0)
    /\ KeepsOwed /\ UNCHANGED <<queueVars, flagVars>>

Sched   == Switch(OS_Sched)
IntExit == Switch(OSIntExit)

Outside == KeepsOwed /\ UNCHANGED <<queueVars, flagVars, lazy>>

IntEnter == L.handler # {} /\ OSIntEnter /\ Outside
Tick     == "OSTimeTick" \in L.handler /\ OSTimeTick /\ Outside
Lock     == May("OSSchedLock") /\ OSSchedLock /\ Outside
Unlock   == May("OSSchedLock") /\ OSSchedUnlock /\ Outside

-----------------------------------------------------------------------------
Init ==
    /\ load \in DOMAIN Workloads
    /\ CoreInit(L.prio, L.events, {p \in Prios : \E e \in Events : L.events[e].type = "MUTEX" /\ L.events[e].cnt \div 256 = p})
    /\ queue = L.queues
    /\ OSQFreeList = {pq \in Queues : \A e \in Events : L.events[e].ptr # pq}
    /\ FlagInit(L.groups)
    /\ owed = [e \in Events |-> [m \in Messages \cup {Null} |-> InStock(e, m)]]
    /\ lazy = FALSE
    /\ MemInit

Next ==
    \/ /\ \/ EventCalls \/ FlagCalls \/ TaskCalls \/ Returns
          \/ Sched \/ IntEnter \/ Tick \/ IntExit \/ Lock \/ Unlock
       /\ UNCHANGED <<load, memVars>>
    \/ MemCalls

Spec == Init /\ [][Next]_kernelVars

(* The timer goes on ticking, handlers end and leave the processor time    *)
(* for the kernel's own code; who locks the scheduler unlocks it, and an   *)
(* owner that runs releases.  Nothing else is promised: a task may keep    *)
(* the processor for ever.                                                 *)
Keep(A) == A /\ UNCHANGED <<load, memVars>>

Release == May("OSMutexPost") /\ EventCalls /\ \E e \in Events : Mutex(e) /\ Mutex(e)' /\ event[e].ptr = OSTCBCur /\ event'[e].ptr # OSTCBCur

Fairness ==
    /\ WF_kernelVars(Keep(IntEnter)) /\ SF_kernelVars(Keep(Tick)) /\ WF_kernelVars(Keep(IntExit))
    /\ SF_kernelVars(Keep(Sched)) /\ SF_kernelVars(Keep(Returns))
    /\ SF_kernelVars(Keep(Unlock)) /\ SF_kernelVars(Keep(Release))

FairSpec == Spec /\ Fairness

-----------------------------------------------------------------------------
(* Every variable has its type. *)
TypeOK ==
    /\ \A t \in Tasks :
          /\ tcb[t].prio \in 0 .. OS_LOWEST_PRIO + 1
          /\ tcb[t].stat \subseteq StatBits
          /\ tcb[t].pend \in {"OK", "TO", "ABORT"}
          /\ tcb[t].dly \in 0 .. MaxDelay
          /\ tcb[t].ev \in Events \cup {Null} /\ tcb[t].multi \subseteq Events
          /\ tcb[t].msg \in Messages \cup {Null}
          /\ pc[t].at \in {"task", "sched", "pended", "wake", "create", "delete"}
    /\ OSTCBPrioTbl \in [Prios -> Tasks \cup {Null, Reserved}]
    /\ OSTCBFreeList \subseteq Tasks /\ OSEventFreeList \subseteq Events /\ OSQFreeList \subseteq Queues
    /\ OSRdyTbl \subseteq Prios /\ OSTCBCur \in Tasks /\ OSPrioCur \in Prios
    /\ OSIntNesting \in 0 .. 1 /\ OSLockNesting \in 0 .. 2
    /\ \A e \in Events : event[e].type \in EventTypes /\ event[e].wait \subseteq Prios
    /\ \A pq \in Queues : queue[pq].entries \in 0 .. queue[pq].size
    /\ \A g \in Groups : group[g].flags \subseteq Flags

(* The ready list holds the priorities of the tasks that nothing keeps:    *)
(* no wait, no delay, no suspension, and no deletion that is under way.  A *)
(* task woken from a wait on several events is ready while bits are left.  *)
(* OSRdyTbl is written in every service.                                   *)
Runnable(t) ==
    /\ tcb[t].dly = 0 /\ ~Suspended(t) /\ ~Deleting(t)
    /\ IF tcb[t].multi = {} THEN tcb[t].stat = {} ELSE tcb[t].ev # Null \/ tcb[t].pend = "TO"

ReadyIffRunnable == OSRdyTbl = {tcb[t].prio : t \in {x \in Live : Runnable(x)}}

(* The list of an event holds the priorities of the tasks that wait for    *)
(* it, and of those whose wait has timed out and that have not run since:  *)
(* no other task can swallow a signal, and none that waits is forgotten.   *)
WaitsFor(t, e) ==
    /\ pc[t].at \in {"pended", "wake"} /\ e \in pc[t].on /\ ~Deleting(t)
    /\ \/ tcb[t].pend = "TO"
       \/ IF tcb[t].multi = {} THEN tcb[t].stat \cap PendBits # {} ELSE tcb[t].ev = Null

ListedIffWaiting ==
    \A e \in Events : Waiters(e) = {tcb[t].prio : t \in {x \in Live : WaitsFor(x, e)}}

(* Every signal and message that a post has accepted is in the event, or   *)
(* in the hand of one task that has been made ready for it, until a caller *)
(* has it: whatever times out, is aborted or is suspended meanwhile.       *)
NothingLostOrInvented ==
    \A e \in Events : \A m \in Messages \cup {Null} :
        owed[e][m] = InStock(e, m) + Cardinality(InHand(e, m))

(* A task that runs its own code is the most urgent one that is ready,     *)
(* unless the scheduler is locked or a call has put the change off.        *)
HighestRuns ==
    OSIntNesting = 0 /\ OSLockNesting = 0 /\ ~lazy /\ pc[OSTCBCur].at \in {"task", "wake"}
        => OSTCBCur = OSTCBPrioTbl[Highest(OSRdyTbl)] /\ OSPrioCur = tcb[OSTCBCur].prio

(* One owner: a task that comes back from OSMutexPend without an error     *)
(* owns the mutex, and the owner runs at its own priority or the raised.   *)
OwnedByOne ==
    \A e \in Events : Mutex(e) =>
        /\ OwnerPrio(e) = OS_MUTEX_AVAILABLE <=> event[e].ptr = Null
        /\ event[e].ptr # Null => tcb[event[e].ptr].prio \in {OwnerPrio(e), Pip(e)}
        /\ event[e].ptr = Null => Waiters(e) = {} /\ OSTCBPrioTbl[Pip(e)] = Reserved
        /\ \A t \in Live :
              pc[t].at = "wake" /\ pc[t].op = "MUTEX" /\ e \in pc[t].on
                /\ tcb[t].stat \cap PendBits = {} /\ tcb[t].pend = "OK" => event[e].ptr = t

(* Nobody waits for a mutex whose owner is less urgent: it has been raised *)
(* above all that wait.                                                    *)
NoInversion ==
    \A e \in Events : Mutex(e) =>
        \A p \in Waiters(e) : tcb[event[e].ptr].prio < p

(* Nobody stays in the list of a group that shows what it waits for, and   *)
(* the list holds those that wait and those whose wait has timed out.      *)
NoMissedFlags ==
    \A t \in Live : \A g \in Groups :
        /\ t \in FlagWaiters(g) =>
              /\ FlagGroup(g) /\ pc[t].at \in {"pended", "wake"} /\ g \in pc[t].on
              /\ "FLAG" \in tcb[t].stat \/ tcb[t].pend = "TO"
              /\ ~Satisfied(group[g].flags, OSTCBFlagNode[t].want, OSTCBFlagNode[t].type)
        /\ "FLAG" \in tcb[t].stat /\ g \in pc[t].on => t \in FlagWaiters(g)

(* Control blocks, and the blocks of a partition, are neither leaked nor   *)
(* handed out twice, whatever an application writes into those it has.     *)
BlocksConserved ==
    /\ OSEventFreeList = {e \in Events : event[e].type = "UNUSED"}
    /\ \A pq \in Queues :
          Cardinality({e \in Events : Queue(e) /\ event[e].ptr = pq}) =
              IF pq \in OSQFreeList THEN 0 ELSE 1
    /\ OSTCBFreeList = Tasks \ Live
    /\ BlocksChained

(* A queue gives its messages in the order of the posts, the front ones    *)
(* first: a step adds one at an end, takes the oldest or empties it.       *)
RingIsAQueue ==
    [][\A e \in Events : Queue(e) /\ Queue(e)' =>
          LET old == Contents(Of(e))
              new == Contents(Of(e))'
          IN  \/ new \in {old, <<>>}
              \/ old # <<>> /\ new = Tail(old)
              \/ \E m \in Messages : new \in {Append(old, m), <<m>> \o old}]_kernelVars

-----------------------------------------------------------------------------
(* The most urgent of the tasks that the application starts with. *)
Top == CHOOSE t \in DOMAIN L.prio : \A x \in DOMAIN L.prio : L.prio[t] <= L.prio[x]

InCall(t) == pc[t].at \in {"pended", "wake"}

(* A wait with a timeout ends, one way or the other.                       *)
TimedWaitReturns == InCall(Top) /\ tcb[Top].dly > 0 ~> pc[Top].at = "task"

(* The most urgent task gets the mutex it waits for, although a task in    *)
(* the middle may keep the processor: that is what raising the owner is    *)
(* for.                                                                    *)
MutexGranted ==
    \A e \in Events :
        Mutex(e) /\ InCall(Top) /\ tcb[Top].stat = {"MUTEX"} /\ tcb[Top].dly = 0 ~>
            pc[Top].at = "task" /\ event[e].ptr = Top

(* os_task.c:772: OSTaskResume resumes a suspended task; one that neither  *)
(* waits nor sleeps is then ready.                                         *)
ResumedIsReady ==
    [][\A t \in Live :
          Suspended(t) /\ "SUSPEND" \notin tcb'[t].stat /\ tcb[t].dly = 0
          /\ (\A e \in Events : tcb[t].prio \notin Waiters(e))
          /\ (\A g \in Groups : t \notin FlagWaiters(g))
             => tcb[t].prio \in OSRdyTbl']_kernelVars
=============================================================================
