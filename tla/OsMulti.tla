------------------------------- MODULE OsMulti ------------------------------
(***************************************************************************)
(* OSEventPendMulti (os_core.c): a wait for the first of several           *)
(* semaphores, mailboxes and queues.  It takes what all of them have ready,*)
(* or enters the lists of all.                                             *)
(***************************************************************************)
EXTENDS OsQ

Available(e) ==
    CASE Sem(e)   -> event[e].cnt > 0
      [] Mbox(e)  -> event[e].ptr # Null
      [] Queue(e) -> Of(e).entries > 0
      [] OTHER    -> FALSE

TakenFrom(events) ==
    /\ event' = [e \in Events |->
           IF e \notin events \/ ~Available(e) THEN event[e]
           ELSE IF Sem(e) THEN [event[e] EXCEPT !.cnt = @ - 1]
           ELSE IF Mbox(e) THEN [event[e] EXCEPT !.ptr = Null]
           ELSE event[e]]
    /\ queue' = [pq \in Queues |->
           IF \E e \in events : Queue(e) /\ event[e].ptr = pq /\ Available(e)
             THEN Taken(queue[pq]) ELSE queue[pq]]

OSEventPendMulti(events, timeout) ==
    /\ MayPend
    /\ \A e \in events : event[e].type \in {"SEM", "MBOX", "Q"}
    /\ IF \E e \in events : Available(e)
         THEN /\ TakenFrom(events)
              /\ Return
              /\ UNCHANGED <<tcb, OSRdyTbl>>
         ELSE /\ OS_EventTaskWaitMulti({event[e].type : e \in events}, events, timeout)
              /\ Pended("MULTI", events)
              /\ UNCHANGED queue
    /\ UNCHANGED <<restVars, OSQFreeList>>

(* Woken by an event, the wait has left all lists; else it does so now.    *)
TimedOut == tcb[OSTCBCur].pend = "TO" \/ tcb[OSTCBCur].ev = Null

(* The event that woke the task has been deleted and is none of the three  *)
(* kinds: the call returns an error and clears nothing of the task's block.*)
EventGone ==
    /\ ~TimedOut /\ tcb[OSTCBCur].pend = "OK"
    /\ event[tcb[OSTCBCur].ev].type \notin {"SEM", "MBOX", "Q"}

MultiReturn ==
    /\ OSIntNesting = 0
    /\ pc[OSTCBCur].at = "wake" /\ pc[OSTCBCur].op = "MULTI"
    /\ IF EventGone THEN UNCHANGED <<tcb, event>>
       ELSE /\ event' = IF TimedOut THEN Removed(pc[OSTCBCur].on) ELSE event
            /\ tcb' = [Rested EXCEPT ![OSTCBCur].msg = Null]
    /\ pc' = [pc EXCEPT ![OSTCBCur] = InTask]
    /\ UNCHANGED <<OSRdyTbl, restVars, queueVars>>
=============================================================================
