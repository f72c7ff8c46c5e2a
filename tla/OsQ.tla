--------------------------------- MODULE OsQ --------------------------------
(***************************************************************************)
(* Message queues (os_q.c): an event and the ring of OsRing that it names. *)
(***************************************************************************)
EXTENDS OsMbox, OsRing

CONSTANT Queues     \* OSQTbl

VARIABLES queue,      \* the OS_Q blocks
          OSQFreeList

queueVars == <<queue, OSQFreeList>>

Queue(e) == event[e].type = "Q"

Of(e) == queue[event[e].ptr]

-----------------------------------------------------------------------------
OSQAccept(e) ==
    /\ Queue(e)
    /\ Of(e).entries > 0
    /\ queue' = [queue EXCEPT ![event[e].ptr] = Taken(@)]
    /\ Return
    /\ UNCHANGED <<tcb, OSRdyTbl, event, restVars, OSQFreeList>>

OSQPend(e, timeout) ==
    /\ Queue(e) /\ MayPend
    /\ IF Of(e).entries > 0
         THEN /\ queue' = [queue EXCEPT ![event[e].ptr] = Taken(@)]
              /\ Return
              /\ UNCHANGED <<tcb, OSRdyTbl, event>>
         ELSE /\ OS_EventTaskWait("Q", e, timeout)
              /\ Pended("Q", {e})
              /\ UNCHANGED queue
    /\ UNCHANGED <<restVars, OSQFreeList>>

OSQPostOpt(e, msg, broadcast, front, sched) ==
    /\ Queue(e)
    /\ IF Waiters(e) # {}
         THEN LET prios == IF broadcast THEN Waiters(e) ELSE {Highest(Waiters(e))} IN
              /\ OS_EventTaskRdy(e, prios, msg, {"Q"}, "OK")
              /\ event' = EventsAfterRdy(e, prios)
              /\ IF sched THEN CallSched ELSE Return
              /\ UNCHANGED queue
         ELSE /\ ~Full(Of(e))
              /\ queue' = [queue EXCEPT ![event[e].ptr] = IF front THEN PutFront(@, msg) ELSE Put(@, msg)]
              /\ Return
              /\ UNCHANGED <<tcb, OSRdyTbl, event>>
    /\ UNCHANGED <<restVars, OSQFreeList>>

OSQPost(e, msg)      == OSQPostOpt(e, msg, FALSE, FALSE, TRUE)
OSQPostFront(e, msg) == OSQPostOpt(e, msg, FALSE, TRUE, TRUE)

OSQFlush(e) ==
    /\ Queue(e)
    /\ queue' = [queue EXCEPT ![event[e].ptr] = Flushed(@)]
    /\ Return
    /\ UNCHANGED <<tcb, OSRdyTbl, event, restVars, OSQFreeList>>

OSQPendAbort(e, broadcast) ==
    Queue(e) /\ PendAbort("Q", e, broadcast) /\ UNCHANGED queueVars

(* Without an OS_Q left the event goes back to its list: nothing changes.  *)
OSQCreate(e, size) ==
    \E pq \in OSQFreeList :
        /\ CreateEvent(e, NewEvent("Q", 0, pq))
        /\ queue' = [queue EXCEPT ![pq] = NewRing(size, Null)]
        /\ OSQFreeList' = OSQFreeList \ {pq}

(* Seeded fault: the OS_Q is not given back. *)
FaultyQueuesFreed(e) == OSQFreeList

QueuesFreed(e) == OSQFreeList \cup {event[e].ptr}

OSQDel(e, always) ==
    /\ Queue(e)
    /\ DeleteEvent("Q", e, always)
    /\ OSQFreeList' = QueuesFreed(e)
    /\ UNCHANGED queue

QReturn == ReturnFromPend("Q", FALSE) /\ UNCHANGED queueVars
=============================================================================
