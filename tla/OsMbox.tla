-------------------------------- MODULE OsMbox ------------------------------
(***************************************************************************)
(* Mailboxes (os_mbox.c): a place for one message.                         *)
(***************************************************************************)
EXTENDS OsSem

Mbox(e) == event[e].type = "MBOX"

OSMboxAccept(e) ==
    /\ Mbox(e)
    /\ event[e].ptr # Null
    /\ event' = [event EXCEPT ![e].ptr = Null]
    /\ Return
    /\ UNCHANGED <<tcb, OSRdyTbl, restVars>>

OSMboxPend(e, timeout) ==
    /\ Mbox(e) /\ MayPend
    /\ IF event[e].ptr # Null
         THEN /\ event' = [event EXCEPT ![e].ptr = Null]
              /\ Return
              /\ UNCHANGED <<tcb, OSRdyTbl>>
         ELSE /\ OS_EventTaskWait("MBOX", e, timeout)
              /\ Pended("MBOX", {e})
    /\ UNCHANGED restVars

OSMboxPostOpt(e, msg, broadcast, sched) ==
    /\ Mbox(e)
    /\ IF Waiters(e) # {}
         THEN LET prios == IF broadcast THEN Waiters(e) ELSE {Highest(Waiters(e))} IN
              /\ OS_EventTaskRdy(e, prios, msg, {"MBOX"}, "OK")
              /\ event' = EventsAfterRdy(e, prios)
              /\ IF sched THEN CallSched ELSE Return
         ELSE /\ event[e].ptr = Null
              /\ event' = [event EXCEPT ![e].ptr = msg]
              /\ Return
              /\ UNCHANGED <<tcb, OSRdyTbl>>
    /\ UNCHANGED restVars

OSMboxPost(e, msg) == OSMboxPostOpt(e, msg, FALSE, TRUE)

OSMboxPendAbort(e, broadcast) == Mbox(e) /\ PendAbort("MBOX", e, broadcast)

OSMboxCreate(e, msg) == CreateEvent(e, NewEvent("MBOX", 0, msg))

OSMboxDel(e, always) == Mbox(e) /\ DeleteEvent("MBOX", e, always)

MboxReturn == ReturnFromPend("MBOX", FALSE)
=============================================================================
