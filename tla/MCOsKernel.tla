------------------------------- MODULE MCOsKernel ---------------------------
(* Three or four tasks and the idle task, in fifteen small applications. *)
EXTENDS OsKernel, TLC

CONSTANTS t1, t2, t3, t4, idle, e1, e2, q1, g1, f1, f2, m1, m2

(* OSEventTbl, and the blocks the applications start with. *)
NoEvents == [e \in Events |-> Unused]
SemE1    == [NoEvents EXCEPT ![e1] = NewEvent("SEM", 0, Null)]
MboxE1   == [NoEvents EXCEPT ![e1] = NewEvent("MBOX", 0, Null)]
QE1      == [NoEvents EXCEPT ![e1] = NewEvent("Q", 0, q1)]
MutexE1  == [NoEvents EXCEPT ![e1] = NewEvent("MUTEX", 256 + OS_MUTEX_AVAILABLE, Null)]

NoRing == NewRing(1, Null)

Empty ==
    [prio      |-> (t1 :> 2 @@ t2 :> 3 @@ t3 :> 4 @@ idle :> OS_LOWEST_PRIO),
     events    |-> NoEvents,
     queues    |-> [pq \in Queues |-> NoRing],
     groups    |-> [g \in Groups |-> [used |-> FALSE, flags |-> {}]],
     menu      |-> [t \in Tasks |-> {}],
     handler   |-> {"OSTimeTick"},
     timeouts  |-> {0, 1},
     targets   |-> {},
     newPrios  |-> {},
     broadcast |-> {FALSE},
     wants     |-> {},
     waitTypes |-> {},
     consume   |-> {FALSE}]

Menus(a, b, c) == [t \in Tasks |-> CASE t = t1 -> a [] t = t2 -> b [] t = t3 -> c [] OTHER -> {}]

Semaphores ==
    [Empty EXCEPT !.events = SemE1, !.timeouts = {0, 1, 2}, !.broadcast = BOOLEAN,
        !.menu = Menus({"OSSemPend", "OSTimeDly"}, {"OSSemPend"},
                       {"OSSemPost", "OSSemAccept", "OSSemPendAbort", "OSSemSet", "OSSchedLock"}),
        !.handler = {"OSTimeTick", "OSSemPost"}]

Mailboxes ==
    [Empty EXCEPT !.events = MboxE1, !.broadcast = BOOLEAN,
        !.menu = Menus({"OSMboxPend"}, {"OSMboxPend", "OSMboxAccept"},
                       {"OSMboxPostOpt", "OSMboxPendAbort", "OSSchedLock"}),
        !.handler = {"OSTimeTick", "OSMboxPost"}]

MessageQueues ==
    [Empty EXCEPT !.events = QE1, !.queues[q1] = NewRing(2, Null), !.broadcast = BOOLEAN,
        !.menu = Menus({"OSQPend"}, {"OSQPend", "OSQAccept"},
                       {"OSQPostOpt", "OSQPostFront", "OSQFlush", "OSQPendAbort"}),
        !.handler = {"OSTimeTick", "OSQPost"}]

SeveralEvents ==
    [Empty EXCEPT !.events = [NoEvents EXCEPT ![e1] = NewEvent("SEM", 0, Null),
                                              ![e2] = NewEvent("Q", 0, q1)],
        !.queues[q1] = NewRing(2, Null),
        !.menu = Menus({"OSEventPendMulti"}, {"OSEventPendMulti", "OSSemPend"},
                       {"OSQPost", "OSSemPendAbort"}),
        !.handler = {"OSTimeTick", "OSSemPost"}]

(* Events come and go while tasks wait for several of them. *)
SeveralEventsLive ==
    [SeveralEvents EXCEPT !.broadcast = {TRUE}, !.events[e2] = NewEvent("SEM", 0, Null),
        !.queues[q1] = NoRing,
        !.menu = Menus({"OSEventPendMulti", "OSTimeDly"}, {"OSEventPendMulti", "OSTimeDly"},
                       {"OSSemCreate", "OSSemDel", "OSMboxCreate"})]

(* The owner may sleep with the mutex. *)
Mutexes ==
    [Empty EXCEPT !.events = MutexE1, !.timeouts = {0, 2},
        !.menu = Menus({"OSMutexPend", "OSMutexPost", "OSTimeDly"},
                       {"OSMutexPend", "OSMutexPost", "OSTimeDly"},
                       {"OSMutexPend", "OSMutexAccept", "OSMutexPost", "OSTimeDly"})]

(* The owner may wait for a semaphore, without a timeout. *)
MutexesAndSemaphores ==
    [Empty EXCEPT !.events = [MutexE1 EXCEPT ![e2] = NewEvent("SEM", 0, Null)], !.timeouts = {0},
        !.menu = Menus({"OSMutexPend", "OSMutexPost", "OSSemPend"},
                       {"OSMutexPend", "OSMutexPost", "OSSemPend"},
                       {"OSMutexPend", "OSMutexPost", "OSSemPend"}),
        !.handler = {"OSSemPost"}]

(* A mutex comes and goes, with those who wait for it and with its owner  *)
(* raised, but ready.                                                      *)
MutexLives ==
    [Empty EXCEPT !.timeouts = {0, 1}, !.broadcast = {TRUE}, !.newPrios = {1},
        !.menu = Menus({"OSMutexPend", "OSMutexPost", "OSTimeDly"},
                       {"OSMutexPend", "OSMutexPost", "OSMutexCreate", "OSMutexDel"}, {})]

EventLives ==
    [Empty EXCEPT !.timeouts = {0, 1}, !.broadcast = BOOLEAN,
        !.menu = Menus({"OSSemPend", "OSMboxPend", "OSQPend", "OSTimeDly"},
                       {"OSSemPend", "OSMboxPend", "OSQPend", "OSTimeDly"},
                       {"OSSemCreate", "OSMboxCreate", "OSQCreate", "OSSemDel", "OSMboxDel", "OSQDel"}),
        !.handler = {"OSTimeTick", "OSSemPost", "OSMboxPost"}]

TaskStates ==
    [Empty EXCEPT !.events = SemE1, !.targets = {t1, t2}, !.timeouts = {0, 2},
        !.menu = Menus({"OSSemPend", "OSTimeDly"}, {"OSTaskSuspend", "OSSemPend"},
                       {"OSTaskSuspend", "OSTaskResume", "OSTimeDlyResume", "OSTaskDelReq"}),
        !.handler = {"OSTimeTick", "OSSemPost", "OSTaskResume"}]

(* The priorities are changed from below those that wait. *)
TaskPriorities ==
    [Empty EXCEPT !.events = SemE1, !.targets = {t1, t2}, !.newPrios = {0, 1, 2, 3},
        !.menu = Menus({"OSSemPend"}, {"OSSemPend"}, {"OSTaskChangePrio", "OSSemPost"})]

TaskLives ==
    [Empty EXCEPT !.events = SemE1, !.targets = {t1, t2, t4}, !.newPrios = {1, 2, 5},
        !.menu = [Menus({"OSSemPend"}, {"OSSemPend", "OSTaskDel"},
                        {"OSTaskCreate", "OSTaskDel", "OSSemPost"}) EXCEPT ![t4] = {"OSSemPend"}]]

EventFlags ==
    [Empty EXCEPT !.groups = [g \in Groups |-> [used |-> TRUE, flags |-> {}]],
        !.wants = {{f1}, {f1, f2}}, !.waitTypes = [set : {TRUE}, all : BOOLEAN],
        !.consume = BOOLEAN, !.broadcast = BOOLEAN,
        !.menu = Menus({"OSFlagPend"}, {"OSFlagPend", "OSFlagAccept"},
                       {"OSFlagPost", "OSFlagCreate", "OSFlagDel"})]

EventFlagsCleared ==
    [EventFlags EXCEPT !.waitTypes = [set : {FALSE}, all : BOOLEAN], !.consume = {TRUE},
        !.menu = Menus({"OSFlagPend"}, {"OSFlagPend"}, {"OSFlagPost"})]

MemoryBlocks ==
    [Empty EXCEPT !.menu = Menus({"OSMemGet", "OSMemPut", "OSTimeDly"},
                                 {"OSMemCreate", "OSMemGet", "OSMemPut"}, {}),
        !.handler = {"OSTimeTick", "OSMemGet", "OSMemPut"}]

AllWorkloads ==
    <<Semaphores, Mailboxes, MessageQueues, SeveralEvents, SeveralEventsLive, Mutexes,
      MutexesAndSemaphores, MutexLives, EventLives, TaskStates, TaskPriorities, TaskLives,
      EventFlags, EventFlagsCleared, MemoryBlocks>>

(* For the properties about what must happen in the end. *)
TimedWorkloads ==
    <<[Semaphores EXCEPT !.menu = Menus({"OSSemPend"}, {"OSSemPend"}, {"OSSemPost", "OSSchedLock"})],
      [Mutexes EXCEPT !.timeouts = {0, 2},
          !.menu = Menus({"OSMutexPend", "OSMutexPost", "OSTimeDly"}, {"OSTimeDly"},
                         {"OSMutexPend", "OSMutexPost", "OSTimeDly"})]>>

(* A wait on several events, a suspension and a signal. *)
SuspendedWaiter ==
    <<[SeveralEvents EXCEPT !.targets = {t1},
          !.menu = Menus({"OSEventPendMulti"}, {"OSTaskSuspend", "OSTaskResume", "OSTimeDly"}, {})]>>
==============================================================================
