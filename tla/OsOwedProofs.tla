----------------------------- MODULE OsOwedProofs ---------------------------
(***************************************************************************)
(* What is owed to those who wait, for any number of tasks, events, queues *)
(* and groups.  In a settled application no signal and no message is lost  *)
(* or made up, and no task waits for flags that its group shows.  In one   *)
(* that shares mutexes and semaphores a mutex has one owner, and nobody    *)
(* waits for it while a less urgent task has it.                           *)
(***************************************************************************)
EXTENDS OsKernelProofs

(* How often a message is in a sequence.                                   *)
Spots(s, m) == {i \in 1 .. Len(s) : s[i] = m}
HowMany(s, m) == Cardinality(Spots(s, m))

LEMMA HowManyType ==
    ASSUME NEW S, NEW s \in Seq(S), NEW m
    PROVE  IsFiniteSet(Spots(s, m)) /\ HowMany(s, m) \in Nat
<1>1. Len(s) \in Nat /\ Spots(s, m) \in SUBSET (1 .. Len(s))
    BY DEF Spots
<1>2. IsFiniteSet(1 .. Len(s))
    BY <1>1, FS_Interval
<1>3. IsFiniteSet(Spots(s, m))
    BY <1>1, <1>2, FS_Subset
<1> QED BY <1>3, FS_CardinalityType DEF HowMany

LEMMA OneMore ==
    ASSUME NEW A, NEW B, NEW x, IsFiniteSet(A), Cardinality(A) \in Nat, x \notin A,
           NEW c \in BOOLEAN, B = IF c THEN A \cup {x} ELSE A
    PROVE  Cardinality(B) = Cardinality(A) + (IF c THEN 1 ELSE 0)
<1>1. c => Cardinality(B) = Cardinality(A) + 1
    BY FS_AddElement
<1>2. ~c => Cardinality(B) = Cardinality(A)
    OBVIOUS
<1> QED BY <1>1, <1>2

LEMMA CountAppended ==
    ASSUME NEW S, NEW s \in Seq(S), NEW x \in S, NEW m
    PROVE  HowMany(Append(s, x), m) = HowMany(s, m) + (IF m = x THEN 1 ELSE 0)
<1> DEFINE t == Append(s, x)
           n == Len(s)
<1>1. /\ n \in Nat /\ Len(t) = n + 1 /\ t[n + 1] = x
      /\ \A i \in 1 .. n : t[i] = s[i]
    OBVIOUS
<1>2. IsFiniteSet(Spots(s, m)) /\ HowMany(s, m) \in Nat
    BY HowManyType
<1>3. n + 1 \notin Spots(s, m)
    BY <1>1 DEF Spots
<1> HIDE DEF t
<1>4. Spots(t, m) = IF m = x THEN Spots(s, m) \cup {n + 1} ELSE Spots(s, m)
    BY <1>1 DEF Spots
<1>5. HowMany(t, m) = HowMany(s, m) + (IF m = x THEN 1 ELSE 0)
    BY <1>2, <1>3, <1>4, OneMore DEF HowMany
<1> QED BY <1>5 DEF t

LEMMA CountPrepended ==
    ASSUME NEW S, NEW s \in Seq(S), NEW x \in S, NEW m
    PROVE  HowMany(<<x>> \o s, m) = HowMany(s, m) + (IF m = x THEN 1 ELSE 0)
<1> DEFINE t == <<x>> \o s
           n == Len(s)
           A == Spots(s, m)
           B == {i + 1 : i \in A}
           f == [i \in A |-> i + 1]
<1>1. /\ n \in Nat /\ Len(t) = n + 1 /\ t[1] = x
      /\ \A i \in 1 .. n : t[i + 1] = s[i]
    OBVIOUS
<1>2. IsFiniteSet(A) /\ HowMany(s, m) \in Nat /\ A \subseteq 1 .. n
    BY HowManyType DEF Spots
<1> HIDE DEF t
<1>3. f \in Bijection(A, B)
    BY <1>1, <1>2 DEF Bijection, Injection, IsInjective, Surjection
<1>4. IsFiniteSet(B) /\ Cardinality(B) = HowMany(s, m)
    BY <1>2, <1>3, FS_Bijection DEF ExistsBijection, HowMany
<1>5. Spots(t, m) = IF m = x THEN B \cup {1} ELSE B
    <2>1. \A i \in 1 .. n + 1 : i = 1 \/ (i - 1 \in 1 .. n /\ t[i] = s[i - 1])
        BY <1>1
    <2>2. B \subseteq 2 .. n + 1
        BY <1>1, <1>2
    <2>3. \A i \in 2 .. n + 1 : i \in B <=> i - 1 \in A
        <3>1. \A i \in A : i \in Int
            BY <1>1, <1>2
        <3>2. \A i \in 2 .. n + 1 : i - 1 \in Int /\ i = (i - 1) + 1
            BY <1>1
        <3>3. \A i \in Int, j \in Int : i + 1 = j + 1 => i = j
            OBVIOUS
        <3> HIDE DEF A
        <3> QED BY <3>1, <3>2, <3>3
    <2>4. \A i \in 1 .. n + 1 : i = 1 \/ i \in 2 .. n + 1
        BY <1>1
    <2>5. \A i \in 1 .. n + 1 : i # 1 => (i \in Spots(t, m) <=> i \in B)
        BY <1>1, <2>1, <2>3, <2>4 DEF Spots
    <2>6. 1 \in Spots(t, m) <=> m = x
        BY <1>1 DEF Spots
    <2>7. Spots(t, m) \subseteq 1 .. n + 1 /\ B \subseteq 1 .. n + 1 /\ 1 \notin B
        BY <1>1, <2>2 DEF Spots
    <2> HIDE DEF B
    <2>8. \A i : i # 1 => (i \in Spots(t, m) <=> i \in B)
        BY <2>5, <2>7, Zenon
    <2>9. CASE m = x
        <3>1. \A i : i \in Spots(t, m) <=> i \in B \cup {1}
            BY <2>6, <2>8, <2>9, Zenon
        <3> QED BY <2>9, <3>1
    <2>10. CASE m # x
        <3>1. \A i : i \in Spots(t, m) <=> i \in B
            BY <2>6, <2>7, <2>8, <2>10, Zenon
        <3> QED BY <2>10, <3>1
    <2> QED BY <2>9, <2>10
<1>6. 1 \notin B
    BY <1>1, <1>2
<1>7. HowMany(t, m) = HowMany(s, m) + (IF m = x THEN 1 ELSE 0)
    <2> HIDE DEF A, B
    <2> QED BY <1>2, <1>4, <1>5, <1>6, OneMore, ZenonT(40) DEF HowMany
<1> QED BY <1>7 DEF t

LEMMA CountTail ==
    ASSUME NEW S, NEW s \in Seq(S), s # <<>>, NEW m
    PROVE  /\ HowMany(Tail(s), m) = HowMany(s, m) - (IF m = Head(s) THEN 1 ELSE 0)
           /\ Head(s) \in S
<1> DEFINE x == Head(s)
           t == Tail(s)
<1>1. x \in S /\ t \in Seq(S)
    OBVIOUS
<1>2. s = <<x>> \o t
    OBVIOUS
<1> HIDE DEF x, t
<1>3. HowMany(<<x>> \o t, m) = HowMany(t, m) + (IF m = x THEN 1 ELSE 0)
    BY <1>1, CountPrepended
<1>4. PICK old, new : old = HowMany(s, m) /\ new = HowMany(t, m)
    OBVIOUS
<1>5. old = new + (IF m = x THEN 1 ELSE 0)
    BY <1>2, <1>3, <1>4, Zenon
<1>6. new \in Nat
    BY <1>1, <1>4, HowManyType
<1>7. new = old - (IF m = x THEN 1 ELSE 0)
    BY <1>5, <1>6
<1> QED BY <1>1, <1>4, <1>7 DEF x, t

(* The stock of a queue counts the messages of its ring.                   *)
RingHas(pq, m) == Cardinality({i \in 1 .. pq.entries : Contents(pq)[i] = m})

LEMMA StockOfRing ==
    ASSUME NEW M, NEW n \in Nat \ {0}, NEW pq \in Rings(n, M), NEW m
    PROVE  HowMany(Contents(pq), m) \in Nat /\ RingHas(pq, m) = HowMany(Contents(pq), m)
<1>1. Contents(pq) \in Seq(M) /\ Len(Contents(pq)) = pq.entries
    BY ContentsType
<1>2. RingHas(pq, m) = HowMany(Contents(pq), m)
    BY <1>1 DEF RingHas, HowMany, Spots
<1> QED BY <1>1, <1>2, HowManyType

LEMMA RingStock ==
    ASSUME NEW M, NEW n \in Nat \ {0}, NEW pq \in Rings(n, M), NEW m
    PROVE  /\ \A x \in M : ~Full(pq) =>
                 /\ HowMany(Contents(Put(pq, x)), m) = HowMany(Contents(pq), m) + (IF m = x THEN 1 ELSE 0)
                 /\ HowMany(Contents(PutFront(pq, x)), m) = HowMany(Contents(pq), m) + (IF m = x THEN 1 ELSE 0)
           /\ pq.entries > 0 =>
                 /\ OldestIn(pq) \in M
                 /\ HowMany(Contents(Taken(pq)), m) =
                        HowMany(Contents(pq), m) - (IF m = OldestIn(pq) THEN 1 ELSE 0)
<1>1. Contents(pq) \in Seq(M) /\ Len(Contents(pq)) = pq.entries
    BY ContentsType
<1>2. ASSUME NEW x \in M, ~Full(pq)
      PROVE  /\ HowMany(Contents(Put(pq, x)), m) = HowMany(Contents(pq), m) + (IF m = x THEN 1 ELSE 0)
             /\ HowMany(Contents(PutFront(pq, x)), m) = HowMany(Contents(pq), m) + (IF m = x THEN 1 ELSE 0)
    <2>1. Contents(Put(pq, x)) = Append(Contents(pq), x) /\ Contents(PutFront(pq, x)) = <<x>> \o Contents(pq)
        BY <1>2, PutAppends, PutFrontPrepends
    <2>2. PICK s \in Seq(M) : s = Contents(pq)
        BY <1>1
    <2>3. HowMany(Append(s, x), m) = HowMany(s, m) + (IF m = x THEN 1 ELSE 0)
        BY CountAppended
    <2>4. HowMany(<<x>> \o s, m) = HowMany(s, m) + (IF m = x THEN 1 ELSE 0)
        BY CountPrepended
    <2> QED BY <2>1, <2>2, <2>3, <2>4, ZenonT(30)
<1>3. ASSUME pq.entries > 0
      PROVE  /\ OldestIn(pq) \in M
             /\ HowMany(Contents(Taken(pq)), m) =
                    HowMany(Contents(pq), m) - (IF m = OldestIn(pq) THEN 1 ELSE 0)
    <2>1. Contents(pq) # <<>>
        BY <1>1, <1>3
    <2> QED BY <1>1, <1>3, <2>1, TakenIsFirst, CountTail, ZenonT(30)
<1> QED BY <1>2, <1>3

-----------------------------------------------------------------------------
(* What is in the hands of tasks.                                          *)

Posted == Messages \cup {Null}

(* Woke, in an application in which nobody deletes tasks.                  *)
Handed(t) ==
    /\ Inside(t) /\ pc[t].op \in {"SEM", "MBOX", "Q", "MULTI"} /\ tcb[t].pend = "OK"
    /\ IF pc[t].op = "MULTI" THEN tcb[t].ev # Null ELSE Pending(t) = {}

LEMMA HandsAre ==
    ASSUME Typed
    PROVE  /\ \A t \in Tasks : Woke(t) <=> Handed(t)
           /\ \A e, m : /\ InHand(e, m) = {t \in Live : Handed(t) /\ tcb[t].ev = e /\ tcb[t].msg = m}
                        /\ IsFiniteSet(InHand(e, m)) /\ Cardinality(InHand(e, m)) \in Nat
<1>1. \A t \in Tasks : Woke(t) <=> Handed(t)
    BY NobodyDeleting DEF Woke, Handed, Inside, Pending
<1>2. ASSUME NEW e, NEW m
      PROVE  /\ InHand(e, m) = {t \in Live : Handed(t) /\ tcb[t].ev = e /\ tcb[t].msg = m}
             /\ IsFiniteSet(InHand(e, m)) /\ Cardinality(InHand(e, m)) \in Nat
    <2>1. InHand(e, m) = {t \in Live : Handed(t) /\ tcb[t].ev = e /\ tcb[t].msg = m}
        BY <1>1 DEF InHand, Live
    <2>2. InHand(e, m) \in SUBSET Tasks
        BY DEF InHand, Live
    <2>3. IsFiniteSet(InHand(e, m))
        BY <2>2, CoreAssumption, FS_Subset
    <2> QED BY <2>1, <2>3, FS_CardinalityType
<1> QED BY <1>1, <1>2

LEMMA HandsAreNext ==
    ASSUME Typed'
    PROVE  \A e, m : /\ InHand(e, m)' = {t \in Live' : Handed(t)' /\ tcb'[t].ev = e /\ tcb'[t].msg = m}
                     /\ IsFiniteSet(InHand(e, m)') /\ Cardinality(InHand(e, m)') \in Nat
<1>1. \A t : ~Deleting(t)'
    BY DEF Typed, PCs, Deleting, Live
<1>2. \A t \in Tasks : Woke(t)' <=> Handed(t)'
    BY <1>1 DEF Woke, Handed, Inside, Pending
<1>3. ASSUME NEW e, NEW m
      PROVE  /\ InHand(e, m)' = {t \in Live' : Handed(t)' /\ tcb'[t].ev = e /\ tcb'[t].msg = m}
             /\ IsFiniteSet(InHand(e, m)') /\ Cardinality(InHand(e, m)') \in Nat
    <2>1. InHand(e, m)' = {t \in Live' : Handed(t)' /\ tcb'[t].ev = e /\ tcb'[t].msg = m}
        BY <1>2 DEF InHand, Live
    <2>2. InHand(e, m)' \in SUBSET Tasks
        BY DEF InHand, Live
    <2>3. IsFiniteSet(InHand(e, m)')
        BY <2>2, CoreAssumption, FS_Subset
    <2> QED BY <2>1, <2>3, FS_CardinalityType
<1> QED BY <1>3

(* A task that stands in a list, or that sleeps, was handed nothing.       *)
LEMMA HandsOff ==
    ASSUME TasksInv, NEW t \in Live, Handed(t)
    PROVE  /\ tcb[t].ev \in Events /\ tcb[t].msg \in Posted
           /\ tcb[t].dly = 0 /\ In(t) = {}
<1>1. tcb[t] \in TCBs /\ TaskWell(t)
    BY DEF TasksInv, Typed, Live
<1>2. ~AtEase(t) /\ ~OnFlags(t)
    BY DEF Handed, AtEase, OnFlags, Inside, FlagOps
<1>3. CASE OnOne(t)
    BY <1>1, <1>3 DEF OnOne, Handed, TimedOutNow, TCBs, Posted
<1>4. CASE OnSeveral(t)
    BY <1>1, <1>4 DEF OnSeveral, Handed, TimedOutNow, TCBs, Posted
<1> QED BY <1>1, <1>2, <1>3, <1>4 DEF TaskWell

HandKept(t) ==
    /\ Handed(t)' <=> Handed(t)
    /\ Handed(t) => tcb'[t].ev = tcb[t].ev /\ tcb'[t].msg = tcb[t].msg

HandsKept == Live' = Live /\ \A t \in Live : HandKept(t)

LEMMA SameHands ==
    ASSUME Typed, Typed', HandsKept
    PROVE  \A e, m : InHand(e, m)' = InHand(e, m)
<1> SUFFICES ASSUME NEW e, NEW m PROVE InHand(e, m)' = InHand(e, m)
    OBVIOUS
<1>1. InHand(e, m) = {t \in Live : Handed(t) /\ tcb[t].ev = e /\ tcb[t].msg = m}
    BY HandsAre
<1>2. InHand(e, m)' = {t \in Live : Handed(t)' /\ tcb'[t].ev = e /\ tcb'[t].msg = m}
    BY HandsAreNext DEF HandsKept
<1> QED BY <1>1, <1>2 DEF HandsKept, HandKept

LEMMA HandStays ==
    ASSUME NEW t, GoesOn(t), tcb'[t].pend = tcb[t].pend, Pending(t)' = Pending(t),
           tcb'[t].ev = tcb[t].ev, tcb'[t].msg = tcb[t].msg
    PROVE  HandKept(t)
BY DEF HandKept, Handed, Inside, GoesOn

LEMMA NoHand ==
    ASSUME NEW t, ~Inside(t), ~Inside(t)'
    PROVE  HandKept(t)
BY DEF HandKept, Handed

LEMMA CalmHands ==
    ASSUME SettledInv, Caller, Return \/ CallSched, UNCHANGED <<tcb, OSTCBPrioTbl>>
    PROVE  HandsKept
<1>1. AllGoOn
    BY CallersGoOn
<1>2. Live' = Live
    BY DEF Live
<1>3. \A t \in Live : HandKept(t)
    BY <1>1, HandStays DEF AllGoOn, Live, Pending
<1> QED BY <1>2, <1>3 DEF HandsKept

(* Where a wait begins, nothing is in the hand. *)
LEMMA WaitingHands ==
    ASSUME SettledInv, OSTCBCur \in Live, pc[OSTCBCur].at = "task", UNCHANGED OSTCBPrioTbl,
           NEW op, NEW events, Pended(op, events), NEW bits, NEW timeout, NEW ev, NEW multi,
           tcb' = Waiting(bits, timeout, ev, multi),
           IF op = "MULTI" THEN ev = Null ELSE op \in PendBits /\ op \in bits
    PROVE  HandsKept
<1>0. PICK me \in Live : me = OSTCBCur
    OBVIOUS
<1>1. me \in Tasks /\ tcb \in [Tasks -> TCBs] /\ pc \in [Tasks -> PCs]
    BY DEF Live, SettledInv, TasksInv, Typed
<1> DEFINE v == [tcb[me] EXCEPT !.stat = tcb[me].stat \cup bits, !.pend = "OK", !.dly = timeout, !.ev = ev,
                                !.multi = IF multi = {} THEN tcb[me].multi ELSE multi]
<1>2. tcb' = [tcb EXCEPT ![me] = v]
    <2> DEFINE w == [tcb[OSTCBCur] EXCEPT !.stat = tcb[OSTCBCur].stat \cup bits, !.pend = "OK",
                                      !.dly = timeout, !.ev = ev,
                                      !.multi = IF multi = {} THEN tcb[OSTCBCur].multi ELSE multi]
    <2>1. tcb' = [tcb EXCEPT ![OSTCBCur] = w]
        BY DEF Waiting
    <2> HIDE DEF w
    <2>2. tcb' = [tcb EXCEPT ![me] = w]
        BY <1>0, <2>1
    <2> QED BY <1>0, <2>2 DEF w
<1>3. tcb[me] \in TCBs
    BY <1>1
<1>4. v.ev = ev /\ v.stat = tcb[me].stat \cup bits /\ v.prio = tcb[me].prio
    BY <1>3 DEF TCBs
<1> HIDE DEF v
<1>5. tcb'[me] = v /\ \A t \in Tasks \ {me} : tcb'[t] = tcb[t]
    BY <1>1, <1>2
<1>6. pc'[me] = [at |-> "pended", op |-> op, on |-> events] /\ \A t \in Tasks \ {me} : pc'[t] = pc[t]
    BY <1>0, <1>1 DEF Pended
<1>7. Live' = Live
    BY <1>4, <1>5 DEF Live
<1>8. ~Handed(me) /\ ~Handed(me)'
    BY <1>0, <1>4, <1>5, <1>6 DEF Handed, Inside, Pending
<1>9. ASSUME NEW t \in Live, t # me PROVE HandKept(t)
    BY <1>5, <1>6, <1>9 DEF HandKept, Handed, Inside, Pending, Live
<1> QED BY <1>7, <1>8, <1>9 DEF HandsKept, HandKept

(* Those woken by a post, and they alone, have the message in hand now; by *)
(* an abort nobody has.                                                    *)
LEMMA WokenHands ==
    ASSUME SettledInv, Typed', NEW e \in Events, NEW prios, NEW msg, NEW pend, Wakes(e, prios, msg, pend)
    PROVE  /\ Live' = Live
           /\ pend = "ABORT" => HandsKept
           /\ \A x, m : x # e => InHand(x, m)' = InHand(x, m)
           /\ pend = "OK" => \A m : Cardinality(InHand(e, m)') =
                  Cardinality(InHand(e, m)) + IF m = msg THEN Cardinality(prios) ELSE 0
<1>1. PICK W : W = {t \in Live : tcb[t].prio \in prios}
    OBVIOUS
<1>2. Typed /\ TasksInv
    BY DEF SettledInv, TasksInv
<1>3. /\ Woken(prios) = {t \in Live : tcb[t].prio \in prios}
      /\ \A t \in Tasks \ Woken(prios) : tcb'[t] = tcb[t]
      /\ \A t \in Woken(prios) :
            /\ tcb'[t].prio = tcb[t].prio /\ tcb'[t].stat = tcb[t].stat \ {event[e].type}
            /\ tcb'[t].pend = pend /\ tcb'[t].msg = msg
            /\ tcb'[t].ev = IF tcb[t].multi = {} THEN tcb[t].ev ELSE e
    BY <1>2, WokenBlock
<1>4. Live' = Live
    <2>1. \A t \in Tasks : tcb'[t].prio = tcb[t].prio
        BY <1>3
    <2> QED BY <2>1 DEF Live, Wakes
<1>5. ASSUME NEW t \in Live \ W PROVE HandKept(t)
    <2>1. t \in Tasks /\ tcb'[t] = tcb[t] /\ GoesOn(t)
        BY <1>1, <1>3, <1>5 DEF Live, Wakes, AllGoOn
    <2> QED BY <2>1, HandStays DEF Pending
<1>6. ASSUME NEW t \in W
      PROVE  /\ t \in Live /\ ~Handed(t)
             /\ pend = "ABORT" => ~Handed(t)'
             /\ pend = "OK" => Handed(t)'
             /\ tcb'[t].ev = e /\ tcb'[t].msg = msg
    <2>1. t \in Live /\ t \in Tasks /\ TaskWell(t) /\ e \in In(t) /\ GoesOn(t)
        BY <1>1, <1>2 DEF Live, TasksInv, In, Wakes, AllGoOn
    <2>2. ~Handed(t)
        BY <1>2, <2>1, HandsOff
    <2>3. /\ tcb'[t].stat = tcb[t].stat \ {event[e].type} /\ tcb'[t].pend = pend /\ tcb'[t].msg = msg
          /\ tcb'[t].ev = IF tcb[t].multi = {} THEN tcb[t].ev ELSE e
        BY <1>1, <1>3
    <2>4. pend = "ABORT" => ~Handed(t)'
        BY <2>3 DEF Handed
    <2>5. CASE OnOne(t)
        <3>1. tcb[t].ev = e /\ event[e].type = pc[t].op /\ tcb[t].stat \subseteq {pc[t].op, "SUSPEND"}
              /\ tcb[t].multi = {} /\ Inside(t) /\ pc[t].op \in {"SEM", "MBOX", "Q"}
            BY <2>1, <2>5 DEF OnOne
        <3>2. Pending(t)' = {} /\ Inside(t)' /\ pc'[t].op = pc[t].op
            BY <2>1, <2>3, <3>1 DEF Pending, PendBits, GoesOn, Inside
        <3> QED BY <2>1, <2>2, <2>3, <2>4, <3>1, <3>2 DEF Handed
    <2>6. CASE OnSeveral(t)
        <3>1. tcb[t].multi # {} /\ Inside(t) /\ pc[t].op = "MULTI" /\ e # Null
            BY <2>6, CoreAssumption DEF OnSeveral
        <3>2. Inside(t)' /\ pc'[t].op = pc[t].op
            BY <2>1, <3>1 DEF GoesOn, Inside
        <3> QED BY <2>1, <2>2, <2>3, <2>4, <3>1, <3>2 DEF Handed
    <2> QED BY <2>1, <2>5, <2>6 DEF TaskWell, AtEase, OnFlags
<1>7. pend = "ABORT" => HandsKept
    BY <1>4, <1>5, <1>6 DEF HandsKept, HandKept
<1>8. ASSUME NEW x, NEW m
      PROVE  /\ InHand(x, m) = {t \in Live : Handed(t) /\ tcb[t].ev = x /\ tcb[t].msg = m}
             /\ InHand(x, m)' = {t \in Live : Handed(t)' /\ tcb'[t].ev = x /\ tcb'[t].msg = m}
    BY <1>2, <1>4, HandsAre, HandsAreNext
<1>9. ASSUME NEW x, NEW m, x # e \/ m # msg PROVE InHand(x, m)' = InHand(x, m)
    BY <1>5, <1>6, <1>8, <1>9 DEF HandKept
<1>10. ASSUME pend = "OK"
       PROVE  Cardinality(InHand(e, msg)') = Cardinality(InHand(e, msg)) + Cardinality(prios)
    <2> DEFINE old == InHand(e, msg)
    <2>1. InHand(e, msg)' = old \cup W /\ old \cap W = {}
        BY <1>5, <1>6, <1>8, <1>10 DEF HandKept
    <2>2. IsFiniteSet(old) /\ Cardinality(old) \in Nat
        BY <1>2, HandsAre
    <2>3. W \in SUBSET Tasks
        BY <1>1 DEF Live
    <2>4. IsFiniteSet(W)
        BY <2>3, CoreAssumption, FS_Subset
    <2>5. Cardinality(W) = Cardinality(prios)
        <3>1. prios \subseteq PriosOf(Live)
            BY <1>2 DEF Wakes, Typed
        <3> DEFINE f == [t \in W |-> tcb[t].prio]
        <3>2. f \in Bijection(W, prios)
            <4>1. \A p \in prios : \E t \in W : tcb[t].prio = p
                BY <1>1, <3>1 DEF PriosOf
            <4>2. \A t \in W : tcb[t].prio \in prios
                BY <1>1
            <4>3. \A t, u \in W : tcb[t].prio = tcb[u].prio => t = u
                BY <1>1, OnePerPrio
            <4> QED BY <4>1, <4>2, <4>3 DEF Bijection, Injection, IsInjective, Surjection
        <3> QED BY <2>4, <3>2, FS_Bijection DEF ExistsBijection
    <2>6. Cardinality(W) \in Nat
        BY <2>4, FS_CardinalityType
    <2>7. Cardinality(old \cup W) = Cardinality(old) + Cardinality(W) - Cardinality(old \cap W)
        BY <2>2, <2>4, FS_Union
    <2>8. Cardinality({}) = 0
        BY FS_EmptySet
    <2> HIDE DEF old
    <2>9. PICK a, b : a = Cardinality(old) /\ b = Cardinality(W) /\ a \in Nat /\ b \in Nat
        BY <2>2, <2>6
    <2>10. Cardinality(old \cup W) = a + b - 0
        BY <2>1, <2>7, <2>8, <2>9, Zenon
    <2>11. Cardinality(old \cup W) = a + b
        BY <2>9, <2>10
    <2> QED BY <2>1, <2>5, <2>9, <2>11, Zenon DEF old
<1>11. ASSUME pend = "OK", NEW m
       PROVE  Cardinality(InHand(e, m)') =
                  Cardinality(InHand(e, m)) + IF m = msg THEN Cardinality(prios) ELSE 0
    <2>1. CASE m = msg
        BY <1>10, <1>11, <2>1
    <2>2. CASE m # msg
        <3>1. InHand(e, m)' = InHand(e, m)
            BY <1>9, <2>2
        <3>2. Cardinality(InHand(e, m)) \in Nat
            BY <1>2, HandsAre
        <3> QED BY <2>2, <3>1, <3>2
    <2> QED BY <2>1, <2>2
<1> QED BY <1>4, <1>7, <1>9, <1>11

-----------------------------------------------------------------------------
(* What events have in stock: c is an event control block, q the rings.    *)

StockIn(c, q, m) ==
    CASE c.type = "SEM"  -> IF m = Null THEN c.cnt ELSE 0
      [] c.type = "MBOX" -> IF m # Null /\ c.ptr = m THEN 1 ELSE 0
      [] c.type = "Q"    -> RingHas(q[c.ptr], m)
      [] OTHER           -> 0

LEMMA StockKinds ==
    ASSUME NEW c, NEW q, NEW m
    PROVE  /\ c.type = "SEM" => StockIn(c, q, m) = IF m = Null THEN c.cnt ELSE 0
           /\ c.type = "MBOX" => StockIn(c, q, m) = IF m # Null /\ c.ptr = m THEN 1 ELSE 0
           /\ c.type = "Q" => StockIn(c, q, m) = RingHas(q[c.ptr], m)
           /\ c.type \notin {"SEM", "MBOX", "Q"} => StockIn(c, q, m) = 0
BY DEF StockIn

LEMMA StockIs ==
    ASSUME NEW e, NEW m
    PROVE  InStock(e, m) = StockIn(event[e], queue, m) /\ InStock(e, m)' = StockIn(event'[e], queue', m)
<1>1. InStock(e, m) = StockIn(event[e], queue, m)
    BY DEF InStock, StockIn, RingHas, Sem, Mbox, Queue, Of
<1>2. InStock(e, m)' = StockIn(event'[e], queue', m)
    BY DEF InStock, StockIn, RingHas, Sem, Mbox, Queue, Of
<1> QED BY <1>1, <1>2

(* A semaphore has a count, a mailbox a message or none. *)
FieldsWell(e) ==
    /\ Sem(e) => event[e].cnt \in Nat
    /\ Mbox(e) => event[e].ptr \in Posted

StockWell == \A e \in Events : FieldsWell(e)

LEMMA StockInType ==
    ASSUME NEW c, NEW q, NEW m,
           c.type = "SEM" => c.cnt \in Nat,
           c.type = "Q" => \E n \in Nat \ {0} : q[c.ptr] \in Rings(n, Posted)
    PROVE  StockIn(c, q, m) \in Nat
<1>1. CASE c.type = "Q"
    <2>1. PICK n \in Nat \ {0} : q[c.ptr] \in Rings(n, Posted)
        BY <1>1
    <2>2. PICK r \in Rings(n, Posted) : r = q[c.ptr]
        BY <2>1
    <2>3. RingHas(r, m) \in Nat
        BY StockOfRing
    <2> QED BY <1>1, <2>2, <2>3, StockKinds
<1>2. CASE c.type = "SEM"
    BY <1>2, StockKinds
<1>3. CASE c.type = "MBOX"
    BY <1>3, StockKinds
<1>4. CASE c.type \notin {"SEM", "MBOX", "Q"}
    BY <1>4, StockKinds
<1> QED BY <1>1, <1>2, <1>3, <1>4

LEMMA StockType ==
    /\ StockWell /\ QueuesWell => \A e \in Events : \A m : InStock(e, m) \in Nat
    /\ StockWell' /\ QueuesWell' => \A e \in Events : \A m : InStock(e, m)' \in Nat
<1>1. ASSUME StockWell, QueuesWell, NEW e \in Events, NEW m PROVE InStock(e, m) \in Nat
    <2>1. event[e].type = "SEM" => event[e].cnt \in Nat
        BY <1>1 DEF StockWell, FieldsWell, Sem
    <2>2. event[e].type = "Q" => \E n \in Nat \ {0} : queue[event[e].ptr] \in Rings(n, Posted)
        BY <1>1 DEF QueuesWell, RingWell, Posted, Queue
    <2> QED BY <2>1, <2>2, StockInType, StockIs
<1>2. ASSUME StockWell', QueuesWell', NEW e \in Events, NEW m PROVE InStock(e, m)' \in Nat
    <2>1. event'[e].type = "SEM" => event'[e].cnt \in Nat
        BY <1>2 DEF StockWell, FieldsWell, Sem
    <2>2. event'[e].type = "Q" => \E n \in Nat \ {0} : queue'[event'[e].ptr] \in Rings(n, Posted)
        BY <1>2 DEF QueuesWell, RingWell, Posted, Queue
    <2> QED BY <2>1, <2>2, StockInType, StockIs
<1> QED BY <1>1, <1>2

SameStock(e) ==
    /\ event'[e].type = event[e].type /\ event'[e].cnt = event[e].cnt /\ event'[e].ptr = event[e].ptr
    /\ Queue(e) => queue'[event[e].ptr] = queue[event[e].ptr]

LEMMA StockStays ==
    ASSUME NEW e, SameStock(e)
    PROVE  \A m : InStock(e, m)' = InStock(e, m)
<1> SUFFICES ASSUME NEW m PROVE StockIn(event'[e], queue', m) = StockIn(event[e], queue, m)
    BY StockIs
<1>1. CASE event[e].type \in {"SEM", "MBOX"}
    BY <1>1, StockKinds DEF SameStock
<1>2. CASE event[e].type = "Q"
    BY <1>2, StockKinds DEF SameStock, Queue
<1>3. CASE event[e].type \notin {"SEM", "MBOX", "Q"}
    BY <1>3, StockKinds DEF SameStock
<1> QED BY <1>1, <1>2, <1>3

(* The lists of events are no part of the stock. *)
LEMMA ListsKeepStock ==
    ASSUME EventsWell, queue' = queue, NEW e \in Events,
           \/ event'[e] = event[e]
           \/ \E x, prios : event' = EventsAfterRdy(x, prios)
           \/ \E events : event' = Enlisted(events) \/ event' = Removed(events)
           \/ \E x, prios : x # e /\ event' = [EventsAfterRdy(x, prios) EXCEPT ![x] = Unused]
    PROVE  SameStock(e)
<1>1. event[e] = [type |-> event[e].type, cnt |-> event[e].cnt,
                  ptr |-> event[e].ptr, wait |-> event[e].wait]
    BY DEF EventsWell
<1> DEFINE Like(f) == f[e].type = event[e].type /\ f[e].cnt = event[e].cnt /\ f[e].ptr = event[e].ptr
<1>2. ASSUME NEW x, NEW prios PROVE Like(EventsAfterRdy(x, prios))
    BY <1>1 DEF EventsAfterRdy
<1>3. ASSUME NEW events PROVE Like(Enlisted(events)) /\ Like(Removed(events))
    BY <1>1 DEF Enlisted, Removed
<1>4. ASSUME NEW x, NEW prios, x # e PROVE Like([EventsAfterRdy(x, prios) EXCEPT ![x] = Unused])
    <2>1. [EventsAfterRdy(x, prios) EXCEPT ![x] = Unused][e] = EventsAfterRdy(x, prios)[e]
        BY <1>4 DEF EventsAfterRdy
    <2> QED BY <1>2, <2>1
<1> HIDE DEF Like
<1>5. CASE \E x, prios : event' = EventsAfterRdy(x, prios)
    BY <1>2, <1>5 DEF Like, SameStock
<1>6. CASE \E events : event' = Enlisted(events) \/ event' = Removed(events)
    BY <1>3, <1>6 DEF Like, SameStock
<1>7. CASE \E x, prios : x # e /\ event' = [EventsAfterRdy(x, prios) EXCEPT ![x] = Unused]
    BY <1>4, <1>7 DEF Like, SameStock
<1> QED BY <1>5, <1>6, <1>7 DEF SameStock

(* x comes to what e has in stock, or goes, d times. *)
StockMoves(e, x, d) ==
    \A m \in Posted : InStock(e, m)' = InStock(e, m) + IF m = x THEN d ELSE 0

(* A caller takes what e has.                                              *)
Takes(e) ==
    /\ Sem(e) => event'[e] = [event[e] EXCEPT !.cnt = event[e].cnt - 1]
    /\ Mbox(e) => event'[e] = [event[e] EXCEPT !.ptr = Null]
    /\ Queue(e) => event'[e] = event[e] /\ queue'[event[e].ptr] = Taken(queue[event[e].ptr])

LEMMA EventKinds ==
    ASSUME NEW e
    PROVE  /\ Sem(e) => NextOf(e) = Null /\ (Available(e) <=> event[e].cnt > 0)
           /\ Mbox(e) => NextOf(e) = event[e].ptr /\ (Available(e) <=> event[e].ptr # Null)
           /\ Queue(e) => /\ NextOf(e) = OldestIn(queue[event[e].ptr])
                          /\ Available(e) <=> queue[event[e].ptr].entries > 0
           /\ Available(e) => Sem(e) \/ Mbox(e) \/ Queue(e)
<1>1. CASE Sem(e)
    BY <1>1 DEF NextOf, Available, Sem, Mbox, Queue
<1>2. CASE Mbox(e)
    BY <1>2 DEF NextOf, Available, Sem, Mbox, Queue
<1>3. CASE Queue(e)
    BY <1>3 DEF NextOf, Available, Sem, Mbox, Queue, Of
<1>4. CASE ~(Sem(e) \/ Mbox(e) \/ Queue(e))
    BY <1>4 DEF Available
<1> QED BY <1>1, <1>2, <1>3, <1>4

LEMMA StockTaken ==
    ASSUME EventsWell, QueuesWell, StockWell, NEW e \in Events, Available(e), Takes(e)
    PROVE  NextOf(e) \in Posted /\ StockMoves(e, NextOf(e), -1)
<1>0. event[e] = [type |-> event[e].type, cnt |-> event[e].cnt,
                  ptr |-> event[e].ptr, wait |-> event[e].wait]
    BY DEF EventsWell
<1>1. CASE Sem(e)
    <2>1. NextOf(e) = Null /\ event[e].cnt \in Nat /\ event[e].cnt > 0
        BY <1>1, EventKinds DEF StockWell, FieldsWell
    <2>2. event'[e].type = "SEM" /\ event'[e].cnt = event[e].cnt - 1 /\ event[e].type = "SEM"
        BY <1>0, <1>1 DEF Takes, Sem
    <2>3. ASSUME NEW m \in Posted
          PROVE  StockIn(event'[e], queue', m) = StockIn(event[e], queue, m) + IF m = Null THEN -1 ELSE 0
        BY <2>1, <2>2, StockKinds
    <2> QED BY <2>1, <2>3, StockIs DEF StockMoves, Posted
<1>2. CASE Mbox(e)
    <2>1. NextOf(e) = event[e].ptr /\ event[e].ptr \in Posted /\ event[e].ptr # Null
        BY <1>2, EventKinds DEF StockWell, FieldsWell
    <2>2. event'[e].type = "MBOX" /\ event'[e].ptr = Null /\ event[e].type = "MBOX"
        BY <1>0, <1>2 DEF Takes, Mbox
    <2>3. ASSUME NEW m \in Posted
          PROVE  StockIn(event'[e], queue', m) = StockIn(event[e], queue, m) + IF m = event[e].ptr THEN -1 ELSE 0
        BY <2>1, <2>2, StockKinds
    <2> QED BY <2>1, <2>3, StockIs DEF StockMoves
<1>3. CASE Queue(e)
    <2>1. queue[event[e].ptr].size \in Nat \ {0}
          /\ queue[event[e].ptr] \in Rings(queue[event[e].ptr].size, Posted)
        BY <1>3 DEF QueuesWell, RingWell, Posted
    <2>2. PICK n \in Nat \ {0} : n = queue[event[e].ptr].size
        BY <2>1
    <2>. PICK r \in Rings(n, Posted) : r = queue[event[e].ptr]
        BY <2>1, <2>2
    <2>3. NextOf(e) = OldestIn(r) /\ r.entries > 0
        BY <1>3, EventKinds
    <2>4. event'[e].type = "Q" /\ event'[e].ptr = event[e].ptr /\ event[e].type = "Q"
          /\ queue'[event[e].ptr] = Taken(r)
        BY <1>0, <1>3 DEF Takes, Queue
    <2>5. Taken(r) \in Rings(n, Posted) /\ OldestIn(r) \in Posted
        BY <2>3, TakenIsFirst, RingStock
    <2>6. ASSUME NEW m \in Posted
          PROVE  RingHas(Taken(r), m) = RingHas(r, m) + IF m = OldestIn(r) THEN -1 ELSE 0
        <3>1. HowMany(Contents(Taken(r)), m) = HowMany(Contents(r), m) - (IF m = OldestIn(r) THEN 1 ELSE 0)
            BY <2>3, RingStock
        <3>2. RingHas(r, m) = HowMany(Contents(r), m) /\ HowMany(Contents(r), m) \in Nat
            BY StockOfRing
        <3>3. PICK t \in Rings(n, Posted) : t = Taken(r)
            BY <2>5
        <3>4. RingHas(t, m) = HowMany(Contents(t), m)
            BY StockOfRing
        <3> QED BY <3>1, <3>2, <3>3, <3>4
    <2>7. ASSUME NEW m \in Posted
          PROVE  StockIn(event'[e], queue', m) = StockIn(event[e], queue, m) + IF m = NextOf(e) THEN -1 ELSE 0
        BY <2>3, <2>4, <2>6, StockKinds
    <2> QED BY <2>3, <2>5, <2>7, StockIs DEF StockMoves
<1> QED BY <1>1, <1>2, <1>3, EventKinds

(* A post that nobody waits for. *)
Stores(e, msg) ==
    /\ Sem(e) => msg = Null /\ event'[e] = [event[e] EXCEPT !.cnt = event[e].cnt + 1]
    /\ Mbox(e) => /\ msg \in Messages /\ event[e].ptr = Null
                  /\ event'[e] = [event[e] EXCEPT !.ptr = msg]
    /\ Queue(e) => /\ msg \in Messages /\ ~Full(queue[event[e].ptr])
                   /\ event'[e] = event[e]
                   /\ queue'[event[e].ptr] \in {Put(queue[event[e].ptr], msg), PutFront(queue[event[e].ptr], msg)}

LEMMA StockPosted ==
    ASSUME EventsWell, QueuesWell, StockWell, NEW e \in Events, NEW msg, Stores(e, msg),
           Sem(e) \/ Mbox(e) \/ Queue(e)
    PROVE  msg \in Posted /\ StockMoves(e, msg, 1)
<1>0. event[e] = [type |-> event[e].type, cnt |-> event[e].cnt,
                  ptr |-> event[e].ptr, wait |-> event[e].wait]
    BY DEF EventsWell
<1>1. CASE Sem(e)
    <2>1. msg = Null /\ event[e].cnt \in Nat
        BY <1>1 DEF Stores, StockWell, FieldsWell
    <2>2. event'[e].type = "SEM" /\ event'[e].cnt = event[e].cnt + 1 /\ event[e].type = "SEM"
        BY <1>0, <1>1 DEF Stores, Sem
    <2>3. ASSUME NEW m \in Posted
          PROVE  StockIn(event'[e], queue', m) = StockIn(event[e], queue, m) + IF m = msg THEN 1 ELSE 0
        BY <2>1, <2>2, StockKinds
    <2> QED BY <2>1, <2>3, StockIs DEF StockMoves, Posted
<1>2. CASE Mbox(e)
    <2>1. msg \in Posted /\ msg # Null /\ event[e].ptr = Null
        BY <1>2, CoreAssumption DEF Stores, Posted
    <2>2. event'[e].type = "MBOX" /\ event'[e].ptr = msg /\ event[e].type = "MBOX"
        BY <1>0, <1>2 DEF Stores, Mbox
    <2>3. ASSUME NEW m \in Posted
          PROVE  StockIn(event'[e], queue', m) = StockIn(event[e], queue, m) + IF m = msg THEN 1 ELSE 0
        BY <2>1, <2>2, StockKinds
    <2> QED BY <2>1, <2>3, StockIs DEF StockMoves
<1>3. CASE Queue(e)
    <2>1. queue[event[e].ptr].size \in Nat \ {0}
          /\ queue[event[e].ptr] \in Rings(queue[event[e].ptr].size, Posted)
        BY <1>3 DEF QueuesWell, RingWell, Posted
    <2>2. PICK n \in Nat \ {0} : n = queue[event[e].ptr].size
        BY <2>1
    <2>. PICK r \in Rings(n, Posted) : r = queue[event[e].ptr]
        BY <2>1, <2>2
    <2>3. msg \in Posted /\ ~Full(r)
        BY <1>3 DEF Stores, Posted
    <2>4. event'[e].type = "Q" /\ event'[e].ptr = event[e].ptr /\ event[e].type = "Q"
          /\ queue'[event[e].ptr] \in {Put(r, msg), PutFront(r, msg)}
        BY <1>0, <1>3 DEF Stores, Queue
    <2>5. Put(r, msg) \in Rings(n, Posted) /\ PutFront(r, msg) \in Rings(n, Posted)
        BY <2>3, PutAppends, PutFrontPrepends
    <2>6. PICK t \in Rings(n, Posted) : t = queue'[event[e].ptr]
        BY <2>4, <2>5
    <2>7. ASSUME NEW m \in Posted
          PROVE  RingHas(t, m) = RingHas(r, m) + IF m = msg THEN 1 ELSE 0
        <3>1. /\ HowMany(Contents(Put(r, msg)), m) = HowMany(Contents(r), m) + (IF m = msg THEN 1 ELSE 0)
              /\ HowMany(Contents(PutFront(r, msg)), m) = HowMany(Contents(r), m) + (IF m = msg THEN 1 ELSE 0)
            BY <2>3, RingStock
        <3>2. RingHas(r, m) = HowMany(Contents(r), m) /\ RingHas(t, m) = HowMany(Contents(t), m)
            BY StockOfRing
        <3>3. HowMany(Contents(t), m) = HowMany(Contents(r), m) + (IF m = msg THEN 1 ELSE 0)
            BY <2>4, <2>6, <3>1
        <3> QED BY <3>2, <3>3
    <2>8. ASSUME NEW m \in Posted
          PROVE  StockIn(event'[e], queue', m) = StockIn(event[e], queue, m) + IF m = msg THEN 1 ELSE 0
        BY <2>4, <2>6, <2>7, StockKinds
    <2> QED BY <2>3, <2>8, StockIs DEF StockMoves
<1> QED BY <1>1, <1>2, <1>3

-----------------------------------------------------------------------------
(* The account of every event balances.                                    *)

OwedTyped == owed \in [Events -> [Posted -> Int]]

Balanced(e) == \A m \in Posted : owed[e][m] = InStock(e, m) + Cardinality(InHand(e, m))

AccountInv == OwedTyped /\ \A e \in Events : FieldsWell(e) /\ Balanced(e)

HandMoves(e, x, d) ==
    \A m \in Posted : Cardinality(InHand(e, m)') = Cardinality(InHand(e, m)) + IF m = x THEN d ELSE 0

OwedMoves(e, x, d) ==
    \A m \in Posted : owed'[e][m] = owed[e][m] + IF m = x THEN d ELSE 0

LEMMA StaysBalanced ==
    ASSUME AccountInv, Typed, QueuesWell, NEW e \in Events, NEW x, NEW a \in Int, NEW b \in Int,
           StockMoves(e, x, a), HandMoves(e, x, b), OwedMoves(e, x, a + b)
    PROVE  Balanced(e)'
<1> SUFFICES ASSUME NEW m \in Posted
             PROVE  owed'[e][m] = InStock(e, m)' + Cardinality(InHand(e, m)')
    BY DEF Balanced
<1>1. PICK i, j : i = InStock(e, m) /\ j = Cardinality(InHand(e, m)) /\ i \in Nat /\ j \in Nat
    BY StockType, HandsAre DEF AccountInv, StockWell
<1>2. owed[e][m] = i + j
    BY <1>1 DEF AccountInv, Balanced
<1>3. PICK k, l : k = InStock(e, m)' /\ l = Cardinality(InHand(e, m)')
    OBVIOUS
<1>4. k = i + IF m = x THEN a ELSE 0
    BY <1>1, <1>3 DEF StockMoves
<1>5. l = j + IF m = x THEN b ELSE 0
    BY <1>1, <1>3 DEF HandMoves
<1>6. owed'[e][m] = (i + j) + IF m = x THEN a + b ELSE 0
    BY <1>2 DEF OwedMoves
<1>7. owed'[e][m] = k + l
    BY <1>1, <1>4, <1>5, <1>6
<1> QED BY <1>3, <1>7

(* Nothing happens to e. *)
Still(e) == SameStock(e) /\ \A m \in Posted : InHand(e, m)' = InHand(e, m)

LEMMA StillMoves ==
    ASSUME AccountInv, Typed, QueuesWell, NEW e \in Events
    PROVE  /\ (\A m \in Posted : InHand(e, m)' = InHand(e, m)) => \A x : HandMoves(e, x, 0)
           /\ SameStock(e) => FieldsWell(e)' /\ \A x : StockMoves(e, x, 0)
<1>1. \A m \in Posted : InStock(e, m) \in Nat /\ Cardinality(InHand(e, m)) \in Nat
    BY StockType, HandsAre DEF AccountInv, StockWell
<1>2. ASSUME SameStock(e) PROVE FieldsWell(e)' /\ \A x : StockMoves(e, x, 0)
    <2>1. \A m : InStock(e, m)' = InStock(e, m)
        BY <1>2, StockStays
    <2>2. FieldsWell(e)'
        BY <1>2 DEF AccountInv, FieldsWell, SameStock, Sem, Mbox
    <2>3. ASSUME NEW x, NEW m \in Posted PROVE InStock(e, m)' = InStock(e, m) + IF m = x THEN 0 ELSE 0
        <3>1. PICK i \in Nat : i = InStock(e, m)
            BY <1>1
        <3>2. i = i + IF m = x THEN 0 ELSE 0
            OBVIOUS
        <3> QED BY <2>1, <3>1, <3>2, Zenon
    <2> QED BY <2>2, <2>3 DEF StockMoves
<1>3. ASSUME \A m \in Posted : InHand(e, m)' = InHand(e, m), NEW x PROVE HandMoves(e, x, 0)
    <2>1. ASSUME NEW m \in Posted
          PROVE  Cardinality(InHand(e, m)') = Cardinality(InHand(e, m)) + IF m = x THEN 0 ELSE 0
        <3>1. PICK i \in Nat : i = Cardinality(InHand(e, m))
            BY <1>1
        <3>2. i = i + IF m = x THEN 0 ELSE 0
            OBVIOUS
        <3> QED BY <1>3, <3>1, <3>2, Zenon
    <2> QED BY <2>1 DEF HandMoves
<1> QED BY <1>2, <1>3

LEMMA OwedStays ==
    ASSUME OwedTyped, NEW e \in Events, owed'[e] = owed[e]
    PROVE  \A x : OwedMoves(e, x, 0)
BY DEF OwedTyped, OwedMoves

LEMMA StillBalanced ==
    ASSUME AccountInv, Typed, QueuesWell, NEW e \in Events, Still(e), owed'[e] = owed[e]
    PROVE  FieldsWell(e)' /\ Balanced(e)'
<1>1. FieldsWell(e)' /\ StockMoves(e, Null, 0) /\ HandMoves(e, Null, 0) /\ OwedMoves(e, Null, 0 + 0)
    BY StillMoves, OwedStays DEF Still, AccountInv
<1> QED BY <1>1, StaysBalanced

(* Some step or other in which the account of e, at x, changes by d.       *)
LEMMA OneOwed ==
    ASSUME OwedTyped, NEW e \in Events, NEW x \in Posted, NEW d \in Int,
           owed' = [owed EXCEPT ![e][x] = owed[e][x] + d]
    PROVE  /\ OwedTyped' /\ OwedMoves(e, x, d)
           /\ \A y \in Events \ {e} : owed'[y] = owed[y]
<1> DEFINE row == [owed[e] EXCEPT ![x] = owed[e][x] + d]
<1>1. owed[e] \in [Posted -> Int] /\ row \in [Posted -> Int]
    BY DEF OwedTyped
<1>2. \A m \in Posted : row[m] = owed[e][m] + IF m = x THEN d ELSE 0
    BY <1>1
<1>3. owed' = [owed EXCEPT ![e] = row]
    OBVIOUS
<1> HIDE DEF row
<1>4. owed'[e] = row /\ OwedTyped' /\ \A y \in Events \ {e} : owed'[y] = owed[y]
    BY <1>1, <1>3 DEF OwedTyped
<1> QED BY <1>2, <1>4 DEF OwedMoves

(* Only the account of e moves. *)
LEMMA OneAccount ==
    ASSUME AccountInv, Typed, QueuesWell, NEW e \in Events, NEW x \in Posted,
           NEW a \in Int, NEW b \in Int, NEW d \in Int, d = a + b,
           owed' = [owed EXCEPT ![e][x] = owed[e][x] + d],
           FieldsWell(e)', StockMoves(e, x, a), HandMoves(e, x, b),
           \A y \in Events \ {e} : Still(y)
    PROVE  AccountInv'
<1>1. /\ OwedTyped' /\ OwedMoves(e, x, a + b)
      /\ \A y \in Events \ {e} : owed'[y] = owed[y]
    BY OneOwed DEF AccountInv
<1>2. Balanced(e)'
    BY <1>1, StaysBalanced
<1>3. ASSUME NEW y \in Events, y # e PROVE FieldsWell(y)' /\ Balanced(y)'
    BY <1>1, <1>3, StillBalanced
<1> QED BY <1>1, <1>2, <1>3 DEF AccountInv

LEMMA NoAccount ==
    ASSUME AccountInv, Typed, QueuesWell, KeepsOwed, \A y \in Events : Still(y)
    PROVE  AccountInv'
<1>1. ASSUME NEW y \in Events PROVE FieldsWell(y)' /\ Balanced(y)'
    BY StillBalanced DEF KeepsOwed
<1> QED BY <1>1 DEF AccountInv, OwedTyped, KeepsOwed

LEMMA AccountAfresh ==
    ASSUME AccountInv, Typed, Typed', QueuesWell, QueuesWell', NEW e \in Events, Afresh({e}),
           FieldsWell(e)', \A y \in Events \ {e} : Still(y)
    PROVE  AccountInv'
<1> DEFINE row == [m \in Posted |-> InStock(e, m)' + Cardinality(InHand(e, m)')]
<1>1. DOMAIN owed' = Events /\ owed'[e] = row /\ (\A y \in Events \ {e} : owed'[y] = owed[y])
      /\ owed' = [y \in Events |-> owed'[y]]
    BY DEF Afresh, Posted
<1>2. Balanced(e)'
    BY <1>1 DEF Balanced
<1>3. ASSUME NEW y \in Events, y # e PROVE FieldsWell(y)' /\ Balanced(y)'
    BY <1>1, <1>3, StillBalanced
<1>4. StockWell'
    BY <1>3 DEF StockWell
<1>5. \A m \in Posted : Cardinality(InHand(e, m)') \in Nat
    BY HandsAreNext
<1>6. \A m \in Posted : InStock(e, m)' \in Nat
    BY <1>4, StockType
<1>7. row \in [Posted -> Int]
    BY <1>5, <1>6
<1> HIDE DEF row
<1>8. OwedTyped'
    BY <1>1, <1>7 DEF OwedTyped, AccountInv
<1> QED BY <1>2, <1>3, <1>8 DEF AccountInv

-----------------------------------------------------------------------------
(* The services, and their entries in the account.                         *)

Books == SettledInv /\ SeveralInv /\ BlocksInv /\ AccountInv

LEMMA BooksHold ==
    /\ Books => /\ Typed /\ TasksInv /\ SettledInv /\ SeveralInv /\ EventsWell /\ QueuesWell /\ AccountInv
                /\ StockWell /\ OwedTyped /\ pc \in [Tasks -> PCs] /\ tcb \in [Tasks -> TCBs]
    /\ SettledInv' /\ BlocksInv' => Typed' /\ QueuesWell'
BY DEF Books, SettledInv, TasksInv, Typed, BlocksInv, AccountInv, StockWell

(* One event control block or one ring changes. *)
LEMMA OthersStill ==
    ASSUME QueuesWell, NEW e \in Events, \A y \in Events \ {e} : event'[y] = event[y],
           \/ queue' = queue
           \/ Queue(e) /\ \A pq \in Queues \ {event[e].ptr} : queue'[pq] = queue[pq]
    PROVE  \A y \in Events \ {e} : SameStock(y)
<1> SUFFICES ASSUME NEW y \in Events, y # e PROVE SameStock(y)
    OBVIOUS
<1>1. event'[y] = event[y]
    OBVIOUS
<1>2. Queue(y) /\ Queue(e) => event[y].ptr \in Queues \ {event[e].ptr}
    BY DEF QueuesWell
<1> QED BY <1>1, <1>2 DEF SameStock

(* A call that touches no task, at one event. *)
QuietCall(e) ==
    /\ Caller /\ Return /\ UNCHANGED <<tcb, OSTCBPrioTbl>>
    /\ \A y \in Events \ {e} : event'[y] = event[y]
    /\ \/ queue' = queue
       \/ Queue(e) /\ \A pq \in Queues \ {event[e].ptr} : queue'[pq] = queue[pq]

LEMMA QuietHands ==
    ASSUME Books, SettledInv', BlocksInv', NEW e \in Events, QuietCall(e)
    PROVE  /\ \A x : HandMoves(e, x, 0)
           /\ \A y \in Events \ {e} : Still(y)
<1>1. \A x, m : InHand(x, m)' = InHand(x, m)
    BY BooksHold, CalmHands, SameHands DEF QuietCall
<1>2. \A x : HandMoves(e, x, 0)
    BY <1>1, BooksHold, StillMoves
<1>3. \A y \in Events \ {e} : SameStock(y)
    BY BooksHold, OthersStill DEF QuietCall
<1> QED BY <1>1, <1>2, <1>3 DEF Still

LEMMA TakenFields ==
    ASSUME EventsWell, StockWell, NEW e \in Events, Available(e), Takes(e)
    PROVE  FieldsWell(e)'
<1>0. event[e] = [type |-> event[e].type, cnt |-> event[e].cnt,
                  ptr |-> event[e].ptr, wait |-> event[e].wait]
    BY DEF EventsWell
<1>1. CASE Sem(e)
    <2>1. event[e].cnt \in Nat /\ event[e].cnt > 0
        BY <1>1, EventKinds DEF StockWell, FieldsWell
    <2>2. event'[e].type = "SEM" /\ event'[e].cnt = event[e].cnt - 1
        BY <1>1, <1>0 DEF Takes, Sem
    <2> QED BY <2>1, <2>2 DEF FieldsWell, Sem, Mbox
<1>2. CASE Mbox(e)
    <2>1. event'[e].type = "MBOX" /\ event'[e].ptr = Null
        BY <1>2, <1>0 DEF Takes, Mbox
    <2> QED BY <2>1 DEF FieldsWell, Sem, Mbox, Posted
<1>3. CASE Queue(e)
    BY <1>3 DEF Takes, FieldsWell, Sem, Mbox, Queue
<1> QED BY <1>1, <1>2, <1>3, EventKinds

LEMMA TakeAccount ==
    ASSUME Books, SettledInv', BlocksInv', NEW e \in Events, QuietCall(e), Available(e), Takes(e), Gives(e)
    PROVE  AccountInv'
<1> DEFINE x == NextOf(e)
<1>0. Typed /\ EventsWell /\ QueuesWell /\ AccountInv /\ StockWell
    BY BooksHold
<1>1. x \in Posted /\ StockMoves(e, x, -1)
    BY <1>0, StockTaken
<1>2. HandMoves(e, x, 0) /\ \A y \in Events \ {e} : Still(y)
    BY QuietHands
<1>4. FieldsWell(e)'
    BY <1>0, TakenFields
<1>5. owed' = [owed EXCEPT ![e][x] = owed[e][x] + (-1)]
    <2>1. owed' = [owed EXCEPT ![e][x] = owed[e][x] - 1]
        BY DEF Gives
    <2>2. owed[e][x] \in Int
        BY <1>0, <1>1 DEF AccountInv, OwedTyped
    <2>3. owed[e][x] - 1 = owed[e][x] + (-1)
        BY <2>2
    <2> HIDE DEF x
    <2> QED BY <2>1, <2>3
<1>6. -1 \in Int /\ 0 \in Int /\ -1 = -1 + 0
    OBVIOUS
<1> HIDE DEF x
<1> QED BY <1>0, <1>1, <1>2, <1>4, <1>5, <1>6, OneAccount

LEMMA StoreAccount ==
    ASSUME Books, SettledInv', BlocksInv', NEW e \in Events, NEW msg, QuietCall(e), Stores(e, msg),
           Sem(e) \/ Mbox(e) \/ Queue(e), Accepts(e, msg, 1)
    PROVE  AccountInv'
<1>0. Typed /\ EventsWell /\ QueuesWell /\ AccountInv /\ StockWell
    BY BooksHold
<1>1. msg \in Posted /\ StockMoves(e, msg, 1)
    BY <1>0, StockPosted
<1>2. HandMoves(e, msg, 0) /\ \A y \in Events \ {e} : Still(y)
    BY QuietHands
<1>3. event[e] = [type |-> event[e].type, cnt |-> event[e].cnt,
                  ptr |-> event[e].ptr, wait |-> event[e].wait]
    BY <1>0 DEF EventsWell
<1>4. FieldsWell(e)'
    <2>1. CASE Sem(e)
        <3>1. event[e].cnt \in Nat
            BY <1>0, <2>1 DEF StockWell, FieldsWell
        <3>2. event'[e].type = "SEM" /\ event'[e].cnt = event[e].cnt + 1
            BY <1>3, <2>1 DEF Stores, Sem
        <3> QED BY <3>1, <3>2 DEF FieldsWell, Sem, Mbox
    <2>2. CASE Mbox(e)
        <3>1. event'[e].type = "MBOX" /\ event'[e].ptr = msg
            BY <1>3, <2>2 DEF Stores, Mbox
        <3> QED BY <1>1, <3>1 DEF FieldsWell, Sem, Mbox
    <2>3. CASE Queue(e)
        BY <2>3 DEF Stores, FieldsWell, Sem, Mbox, Queue
    <2> QED BY <2>1, <2>2, <2>3
<1>5. owed' = [owed EXCEPT ![e][msg] = owed[e][msg] + 1] /\ 1 = 1 + 0 /\ 1 \in Int /\ 0 \in Int
    BY DEF Accepts
<1> QED BY <1>0, <1>1, <1>2, <1>4, <1>5, OneAccount

(* The event is made, set or emptied, and its account with it. *)
LEMMA FreshAccount ==
    ASSUME Books, SettledInv', BlocksInv', NEW e \in Events, QuietCall(e), Afresh({e}), FieldsWell(e)'
    PROVE  AccountInv'
<1>1. Typed /\ QueuesWell /\ AccountInv /\ Typed' /\ QueuesWell'
    BY BooksHold
<1>2. \A y \in Events \ {e} : Still(y)
    BY QuietHands
<1> QED BY <1>1, <1>2, AccountAfresh

(* Nothing is taken and nothing is given. *)
LEMMA QuietAccount ==
    ASSUME Books, SettledInv', BlocksInv', HandsKept, KeepsOwed, \A y \in Events : SameStock(y)
    PROVE  AccountInv'
<1>1. Typed /\ QueuesWell /\ AccountInv /\ Typed'
    BY BooksHold
<1>2. \A x, m : InHand(x, m)' = InHand(x, m)
    BY <1>1, SameHands
<1>3. \A y \in Events : Still(y)
    BY <1>2 DEF Still
<1> QED BY <1>1, <1>3, NoAccount

(* The caller waits. *)
LEMMA WaitAccount ==
    ASSUME Books, SettledInv', BlocksInv', NEW op, May(op), MayPend, UNCHANGED restVars,
           NEW e \in Events, NEW timeout, NEW bit, bit \in {"SEM", "MBOX", "Q"},
           OS_EventTaskWait(bit, e, timeout), Pended(bit, {e}), queue' = queue, KeepsOwed
    PROVE  AccountInv'
<1>1. /\ SettledInv /\ EventsWell /\ OSTCBCur \in Live /\ pc[OSTCBCur].at = "task" /\ UNCHANGED OSTCBPrioTbl
    BY BooksHold, MayCalls DEF MayPend, restVars
<1>2. HandsKept
    <2>1. tcb' = Waiting({bit}, timeout, e, {}) /\ bit # "MULTI" /\ bit \in PendBits /\ bit \in {bit}
        BY DEF OS_EventTaskWait, PendBits
    <2> QED BY <1>1, <2>1, WaitingHands
<1>3. \A y \in Events : SameStock(y)
    BY <1>1, ListsKeepStock DEF OS_EventTaskWait
<1> QED BY <1>2, <1>3, QuietAccount

(* Tasks are woken at e. *)
WakeCall(e, prios, msg, pend) ==
    /\ Caller
    /\ CallSched \/ Return
    /\ event[e].type \in {"SEM", "MBOX", "Q"} /\ prios \subseteq event[e].wait
    /\ msg \in Messages \cup {Null} /\ pend \in {"OK", "ABORT"}
    /\ OS_EventTaskRdy(e, prios, msg, {event[e].type}, pend)
    /\ \/ event' = EventsAfterRdy(e, prios)
       \/ event' = [EventsAfterRdy(e, prios) EXCEPT ![e] = Unused] /\ prios = event[e].wait
    /\ UNCHANGED <<OSTCBPrioTbl, OSTCBFreeList, OSTCBFlagNode, load, queue>>

LEMMA WakeCallWakes ==
    ASSUME Books, NEW e \in Events, NEW prios, NEW msg, NEW pend, WakeCall(e, prios, msg, pend)
    PROVE  /\ Wakes(e, prios, msg, pend)
           /\ \A y \in Events \ {e} : SameStock(y)
           /\ event' = EventsAfterRdy(e, prios) => SameStock(e)
           /\ IsFiniteSet(prios) /\ Cardinality(prios) \in Nat
<1>0. SettledInv /\ EventsWell /\ Typed
    BY BooksHold
<1>1. Wakes(e, prios, msg, pend)
    BY <1>0, WakingWakes, ZenonT(30) DEF WakeCall
<1>2. ASSUME NEW y \in Events, y # e \/ event' = EventsAfterRdy(e, prios) PROVE SameStock(y)
    BY <1>0, <1>2, ListsKeepStock DEF WakeCall
<1>3. prios \in SUBSET (0 .. OS_LOWEST_PRIO)
    BY <1>0 DEF WakeCall, Typed, PriosOf, Live, Prios
<1>4. IsFiniteSet(prios)
    <2>1. IsFiniteSet(0 .. OS_LOWEST_PRIO)
        BY CoreAssumption, FS_Interval
    <2> QED BY <1>3, <2>1, FS_Subset
<1> QED BY <1>1, <1>2, <1>4, FS_CardinalityType

LEMMA PostAccount ==
    ASSUME Books, SettledInv', BlocksInv', NEW e \in Events, NEW prios, NEW msg,
           WakeCall(e, prios, msg, "OK"), event' = EventsAfterRdy(e, prios),
           Accepts(e, msg, Cardinality(prios))
    PROVE  AccountInv'
<1>0. Typed /\ SettledInv /\ QueuesWell /\ AccountInv /\ Typed' /\ msg \in Posted
    BY BooksHold DEF WakeCall, Posted
<1>1. /\ Wakes(e, prios, msg, "OK") /\ (\A y \in Events : SameStock(y)) /\ Cardinality(prios) \in Nat
    BY WakeCallWakes
<1>2. /\ \A x, m : x # e => InHand(x, m)' = InHand(x, m)
      /\ \A m : Cardinality(InHand(e, m)') = Cardinality(InHand(e, m)) + IF m = msg THEN Cardinality(prios) ELSE 0
    BY <1>0, <1>1, WokenHands
<1> DEFINE d == Cardinality(prios)
<1>3. HandMoves(e, msg, d)
    BY <1>2 DEF HandMoves
<1>4. FieldsWell(e)' /\ StockMoves(e, msg, 0)
    BY <1>0, <1>1, StillMoves
<1>5. \A y \in Events \ {e} : Still(y)
    BY <1>1, <1>2 DEF Still
<1>6. owed' = [owed EXCEPT ![e][msg] = owed[e][msg] + d]
    BY DEF Accepts
<1>7. d \in Int /\ 0 \in Int /\ d = 0 + d
    BY <1>1
<1> HIDE DEF d
<1> QED BY <1>0, <1>3, <1>4, <1>5, <1>6, <1>7, OneAccount

LEMMA AbortAccount ==
    ASSUME Books, SettledInv', BlocksInv', NEW e \in Events, NEW prios,
           WakeCall(e, prios, Null, "ABORT"), event' = EventsAfterRdy(e, prios), KeepsOwed
    PROVE  AccountInv'
<1>0. Typed /\ SettledInv /\ Typed'
    BY BooksHold
<1>1. Wakes(e, prios, Null, "ABORT") /\ \A y \in Events : SameStock(y)
    BY WakeCallWakes
<1>2. HandsKept
    BY <1>0, <1>1, WokenHands
<1> QED BY <1>1, <1>2, QuietAccount

LEMMA DeletedAccount ==
    ASSUME Books, SettledInv', BlocksInv', NEW e \in Events, NEW prios,
           WakeCall(e, prios, Null, "OK"), event' = [EventsAfterRdy(e, prios) EXCEPT ![e] = Unused],
           Afresh({e})
    PROVE  AccountInv'
<1>0. Typed /\ SettledInv /\ QueuesWell /\ AccountInv /\ Typed' /\ QueuesWell'
    BY BooksHold
<1>1. Wakes(e, prios, Null, "OK") /\ \A y \in Events \ {e} : SameStock(y)
    BY WakeCallWakes
<1>2. \A x, m : x # e => InHand(x, m)' = InHand(x, m)
    BY <1>0, <1>1, WokenHands
<1>3. \A y \in Events \ {e} : Still(y)
    BY <1>1, <1>2 DEF Still
<1>4. event'[e].type = "UNUSED"
    BY DEF EventsAfterRdy, Unused, NewEvent
<1>5. FieldsWell(e)'
    BY <1>4 DEF FieldsWell, Sem, Mbox
<1> QED BY <1>0, <1>3, <1>5, AccountAfresh

(* The calls that wake, as the services make them. *)
LEMMA PendAbortAccount ==
    ASSUME Books, SettledInv', BlocksInv', NEW op, May(op), UNCHANGED <<OSTCBFlagNode, load>>, queue' = queue,
           NEW e \in Events, NEW bit, NEW broadcast,
           bit \in {"SEM", "MBOX", "Q"}, event[e].type = bit, PendAbort(bit, e, broadcast), KeepsOwed
    PROVE  AccountInv'
<1>0. SettledInv /\ Caller
    BY BooksHold, MayCalls
<1>1. PICK prios : prios = IF broadcast THEN Waiters(e) ELSE {Highest(Waiters(e))}
    OBVIOUS
<1>2. /\ OS_EventTaskRdy(e, prios, Null, {event[e].type}, "ABORT")
      /\ event' = EventsAfterRdy(e, prios) /\ CallSched /\ UNCHANGED restVars /\ Waiters(e) # {}
    BY <1>1 DEF PendAbort
<1>3. prios \subseteq event[e].wait
    BY <1>0, <1>1, <1>2, HighestWaits DEF Waiters
<1>4. Null \in Messages \cup {Null} /\ "ABORT" \in {"OK", "ABORT"} /\ event[e].type \in {"SEM", "MBOX", "Q"}
    OBVIOUS
<1>5. WakeCall(e, prios, Null, "ABORT")
    BY <1>0, <1>2, <1>3, <1>4 DEF WakeCall, restVars
<1> QED BY <1>2, <1>5, AbortAccount

LEMMA DeleteAccount ==
    ASSUME Books, SettledInv', BlocksInv', NEW op, May(op), UNCHANGED <<OSTCBFlagNode, load>>, queue' = queue,
           NEW e \in Events, NEW bit, NEW always,
           bit \in {"SEM", "MBOX", "Q"}, event[e].type = bit, DeleteEvent(bit, e, always), Afresh({e})
    PROVE  AccountInv'
<1>0. SettledInv /\ Caller
    BY BooksHold, MayCalls
<1>1. PICK prios : prios = Waiters(e)
    OBVIOUS
<1>2. /\ OS_EventTaskRdy(e, prios, Null, {event[e].type}, "OK")
      /\ event' = [EventsAfterRdy(e, prios) EXCEPT ![e] = Unused] /\ prios = event[e].wait
      /\ (CallSched \/ Return) /\ UNCHANGED <<OSTCBPrioTbl, OSTCBFreeList>>
    BY <1>1 DEF DeleteEvent, Waiters
<1>3. Null \in Messages \cup {Null} /\ "OK" \in {"OK", "ABORT"} /\ event[e].type \in {"SEM", "MBOX", "Q"}
    OBVIOUS
<1>4. WakeCall(e, prios, Null, "OK")
    BY <1>0, <1>2, <1>3 DEF WakeCall
<1> QED BY <1>2, <1>4, DeletedAccount

LEMMA PostsAccount ==
    ASSUME Books, SettledInv', BlocksInv', NEW op, May(op), UNCHANGED <<OSTCBFlagNode, load>>,
           UNCHANGED restVars, queue' = queue,
           NEW e \in Events, NEW bit, NEW msg \in Posted, NEW prios,
           bit \in {"SEM", "MBOX", "Q"}, event[e].type = bit, Waiters(e) # {},
           prios = Waiters(e) \/ prios = {Highest(Waiters(e))},
           OS_EventTaskRdy(e, prios, msg, {bit}, "OK"), event' = EventsAfterRdy(e, prios),
           CallSched \/ Return, Accepts(e, msg, Cardinality(prios))
    PROVE  AccountInv'
<1>0. SettledInv /\ Caller
    BY BooksHold, MayCalls
<1>1. prios \subseteq event[e].wait
    BY <1>0, HighestWaits DEF Waiters
<1>2. "OK" \in {"OK", "ABORT"} /\ event[e].type \in {"SEM", "MBOX", "Q"} /\ msg \in Messages \cup {Null}
    BY DEF Posted
<1>3. WakeCall(e, prios, msg, "OK")
    BY <1>0, <1>1, <1>2 DEF WakeCall, restVars
<1> QED BY <1>3, PostAccount

(* Takers are those who are woken, or the store. *)
LEMMA TakersWoken ==
    ASSUME NEW e, NEW broadcast
    PROVE  /\ Waiters(e) = {} => Takers(e, broadcast) = 1
           /\ \A prios : Waiters(e) # {} /\ prios = (IF broadcast THEN Waiters(e) ELSE {Highest(Waiters(e))})
                 => Takers(e, broadcast) = Cardinality(prios)
           /\ Cardinality({Highest(Waiters(e))}) = 1
<1>1. Cardinality({Highest(Waiters(e))}) = 1
    BY FS_Singleton
<1> QED BY <1>1 DEF Takers

LEMMA CreateAccount ==
    ASSUME Books, SettledInv', BlocksInv', NEW op, May(op), NEW e \in Events, NEW type, NEW cnt, NEW ptr,
           CreateEvent(e, NewEvent(type, cnt, ptr)), Afresh({e}),
           type = "SEM" => cnt \in Nat, type = "MBOX" => ptr \in Posted,
           queue' = queue \/ (type = "Q" /\ ptr \in OSQFreeList /\ \E r : queue' = [queue EXCEPT ![ptr] = r])
    PROVE  AccountInv'
<1>0. SettledInv /\ Caller /\ Typed /\ QueuesWell /\ EventsWell /\ AccountInv /\ Typed' /\ QueuesWell'
    BY BooksHold, MayCalls
<1>1. /\ Return /\ UNCHANGED <<tcb, OSTCBPrioTbl>>
      /\ event' = [event EXCEPT ![e] = NewEvent(type, cnt, ptr)]
    BY DEF CreateEvent
<1>2. event'[e] = NewEvent(type, cnt, ptr) /\ \A y \in Events \ {e} : event'[y] = event[y]
    BY <1>0, <1>1 DEF EventsWell
<1>3. FieldsWell(e)'
    BY <1>2 DEF FieldsWell, Sem, Mbox, NewEvent
<1>4. ASSUME NEW y \in Events, y # e PROVE SameStock(y)
    <2>1. Queue(y) => event[y].ptr \in Queues \ OSQFreeList
        BY <1>0 DEF QueuesWell
    <2>2. Queue(y) => queue'[event[y].ptr] = queue[event[y].ptr]
        BY <1>0, <2>1 DEF QueuesWell
    <2> QED BY <1>2, <1>4, <2>2 DEF SameStock
<1>5. \A x, m : InHand(x, m)' = InHand(x, m)
    BY <1>0, <1>1, CalmHands, SameHands
<1>6. \A y \in Events \ {e} : Still(y)
    BY <1>4, <1>5 DEF Still
<1> QED BY <1>0, <1>3, <1>6, AccountAfresh

LEMMA SemAccount ==
    ASSUME Books, SettledInv', BlocksInv', SemCalls, UNCHANGED <<OSTCBFlagNode, load>>
    PROVE  AccountInv'
<1>0. EventsWell /\ QueuesWell /\ SettledInv /\ queue' = queue
    BY BooksHold DEF SemCalls, queueVars
<1>1. PICK e \in Events :
          \/ May("OSSemAccept") /\ OSSemAccept(e) /\ Gives(e)
          \/ /\ May("OSSemPend") /\ \E timeout \in L.timeouts : OSSemPend(e, timeout)
             /\ IF Available(e) THEN Gives(e) ELSE KeepsOwed
          \/ May("OSSemPost") /\ OSSemPost(e) /\ Accepts(e, Null, 1)
          \/ May("OSSemPendAbort") /\ (\E broadcast : OSSemPendAbort(e, broadcast)) /\ KeepsOwed
          \/ May("OSSemSet") /\ \E cnt \in 0 .. MaxCount : OSSemSet(e, cnt) /\ Afresh({e})
          \/ May("OSSemCreate") /\ OSSemCreate(e, 0) /\ Afresh({e})
          \/ May("OSSemDel") /\ \E always : OSSemDel(e, always) /\ Afresh({e})
    BY DEF SemCalls
<1>2. Available(e) /\ Sem(e) <=> Sem(e) /\ event[e].cnt > 0
    BY EventKinds
<1>3. ASSUME NEW op, May(op), Sem(e), NEW v, event' = [event EXCEPT ![e].cnt = v], Return,
             UNCHANGED <<tcb, OSRdyTbl, restVars>>
      PROVE  QuietCall(e) /\ event'[e] = [event[e] EXCEPT !.cnt = v]
    <2>1. Caller
        BY <1>0, <1>3, MayCalls
    <2> QED BY <1>0, <1>3, <2>1 DEF QuietCall, EventsWell, restVars
<1>4. ASSUME NEW op, May(op), Sem(e), event[e].cnt > 0, event' = [event EXCEPT ![e].cnt = event[e].cnt - 1],
             Return, UNCHANGED <<tcb, OSRdyTbl, restVars>>, Gives(e)
      PROVE  AccountInv'
    <2>1. QuietCall(e) /\ event'[e] = [event[e] EXCEPT !.cnt = event[e].cnt - 1]
        BY <1>3, <1>4
    <2>2. Takes(e)
        BY <1>4, <2>1 DEF Takes, Sem, Mbox, Queue
    <2> QED BY <1>2, <1>4, <2>1, <2>2, TakeAccount
<1>5. CASE May("OSSemAccept") /\ OSSemAccept(e) /\ Gives(e)
    BY <1>4, <1>5 DEF OSSemAccept
<1>6. ASSUME May("OSSemPend"), NEW timeout \in L.timeouts, OSSemPend(e, timeout),
             IF Available(e) THEN Gives(e) ELSE KeepsOwed
      PROVE  AccountInv'
    <2>1. CASE event[e].cnt > 0
        BY <1>2, <1>4, <1>6, <2>1 DEF OSSemPend
    <2>2. CASE ~(event[e].cnt > 0)
        <3>1. /\ OS_EventTaskWait("SEM", e, timeout) /\ Pended("SEM", {e}) /\ UNCHANGED restVars /\ MayPend
              /\ KeepsOwed
            BY <1>2, <1>6, <2>2 DEF OSSemPend
        <3> QED BY <1>0, <1>6, <3>1, WaitAccount
    <2> QED BY <2>1, <2>2
<1>7. CASE May("OSSemPost") /\ OSSemPost(e) /\ Accepts(e, Null, 1)
    <2>1. event[e].type = "SEM" /\ UNCHANGED restVars /\ Sem(e)
        BY <1>7 DEF OSSemPost, Sem
    <2>2. CASE Waiters(e) # {}
        <3>1. PICK prios : prios = {Highest(Waiters(e))}
            OBVIOUS
        <3>2. OS_EventTaskRdy(e, prios, Null, {"SEM"}, "OK") /\ event' = EventsAfterRdy(e, prios) /\ CallSched
            BY <1>7, <2>2, <3>1 DEF OSSemPost
        <3>3. Accepts(e, Null, Cardinality(prios)) /\ Null \in Posted
            BY <1>7, <3>1, TakersWoken DEF Posted
        <3> QED BY <1>0, <1>7, <2>1, <2>2, <3>1, <3>2, <3>3, PostsAccount
    <2>3. CASE Waiters(e) = {}
        <3>1. /\ event' = [event EXCEPT ![e].cnt = event[e].cnt + 1] /\ Return
              /\ UNCHANGED <<tcb, OSRdyTbl, restVars>>
            BY <1>7, <2>3 DEF OSSemPost
        <3>2. QuietCall(e) /\ event'[e] = [event[e] EXCEPT !.cnt = event[e].cnt + 1]
            BY <1>3, <1>7, <2>1, <3>1
        <3>3. Stores(e, Null)
            BY <2>1, <3>2 DEF Stores, Sem, Mbox, Queue
        <3> QED BY <1>7, <2>1, <3>2, <3>3, StoreAccount
    <2> QED BY <2>2, <2>3
<1>8. ASSUME May("OSSemPendAbort"), NEW broadcast, OSSemPendAbort(e, broadcast), KeepsOwed PROVE AccountInv'
    BY <1>0, <1>8, PendAbortAccount DEF OSSemPendAbort, Sem
<1>9. ASSUME May("OSSemSet"), NEW cnt \in 0 .. MaxCount, OSSemSet(e, cnt), Afresh({e}) PROVE AccountInv'
    <2>1. QuietCall(e) /\ event'[e] = [event[e] EXCEPT !.cnt = cnt] /\ Sem(e)
        BY <1>3, <1>9 DEF OSSemSet
    <2>2. event[e] = [type |-> event[e].type, cnt |-> event[e].cnt,
                      ptr |-> event[e].ptr, wait |-> event[e].wait]
        BY <1>0 DEF EventsWell
    <2>3. event'[e].type = "SEM" /\ event'[e].cnt = cnt /\ cnt \in Nat
        BY <2>1, <2>2, SemAssumption DEF Sem
    <2>4. FieldsWell(e)'
        BY <2>3 DEF FieldsWell, Sem, Mbox
    <2> QED BY <1>9, <2>1, <2>4, FreshAccount
<1>10. CASE May("OSSemCreate") /\ OSSemCreate(e, 0) /\ Afresh({e})
    <2>1. CreateEvent(e, NewEvent("SEM", 0, Null)) /\ 0 \in Nat
        BY <1>10 DEF OSSemCreate
    <2> QED BY <1>0, <1>10, <2>1, CreateAccount
<1>11. ASSUME May("OSSemDel"), NEW always, OSSemDel(e, always), Afresh({e}) PROVE AccountInv'
    BY <1>0, <1>11, DeleteAccount DEF OSSemDel, Sem
<1> QED BY <1>1, <1>5, <1>6, <1>7, <1>8, <1>9, <1>10, <1>11

LEMMA MboxPostAccount ==
    ASSUME Books, SettledInv', BlocksInv', UNCHANGED <<OSTCBFlagNode, load>>, queue' = queue,
           NEW op, May(op), NEW e \in Events, NEW m \in Messages, NEW broadcast, NEW sched,
           OSMboxPostOpt(e, m, broadcast, sched), Accepts(e, m, Takers(e, broadcast))
    PROVE  AccountInv'
<1>0. EventsWell /\ SettledInv /\ Caller /\ event[e].type = "MBOX" /\ UNCHANGED restVars /\ m \in Posted
    BY BooksHold, MayCalls DEF OSMboxPostOpt, Mbox, Posted
<1>1. CASE Waiters(e) # {}
    <2>1. PICK prios : prios = IF broadcast THEN Waiters(e) ELSE {Highest(Waiters(e))}
        OBVIOUS
    <2>2. OS_EventTaskRdy(e, prios, m, {"MBOX"}, "OK") /\ event' = EventsAfterRdy(e, prios)
          /\ (CallSched \/ Return)
        BY <1>1, <2>1 DEF OSMboxPostOpt
    <2>3. Accepts(e, m, Cardinality(prios))
        BY <1>1, <2>1, TakersWoken
    <2>4. prios = Waiters(e) \/ prios = {Highest(Waiters(e))}
        BY <2>1
    <2> QED BY <1>0, <1>1, <2>2, <2>3, <2>4, PostsAccount
<1>2. CASE Waiters(e) = {}
    <2>1. /\ event' = [event EXCEPT ![e].ptr = m] /\ Return /\ UNCHANGED tcb /\ event[e].ptr = Null
        BY <1>2 DEF OSMboxPostOpt
    <2>2. event'[e] = [event[e] EXCEPT !.ptr = m] /\ \A y \in Events \ {e} : event'[y] = event[y]
        BY <1>0, <2>1 DEF EventsWell
    <2>3. QuietCall(e)
        BY <1>0, <2>1, <2>2 DEF QuietCall, restVars
    <2>4. Stores(e, m) /\ Mbox(e)
        BY <1>0, <2>1, <2>2 DEF Stores, Sem, Mbox, Queue
    <2>5. Accepts(e, m, 1)
        BY <1>2, TakersWoken
    <2> QED BY <2>3, <2>4, <2>5, StoreAccount
<1> QED BY <1>1, <1>2

LEMMA MboxAccount ==
    ASSUME Books, SettledInv', BlocksInv', MboxCalls, UNCHANGED <<OSTCBFlagNode, load>>
    PROVE  AccountInv'
<1>0. EventsWell /\ SettledInv /\ queue' = queue
    BY BooksHold DEF MboxCalls, queueVars
<1>1. PICK e \in Events :
          \/ May("OSMboxAccept") /\ OSMboxAccept(e) /\ Gives(e)
          \/ /\ May("OSMboxPend") /\ \E timeout \in L.timeouts : OSMboxPend(e, timeout)
             /\ IF Available(e) THEN Gives(e) ELSE KeepsOwed
          \/ May("OSMboxPost") /\ \E m \in Messages : OSMboxPost(e, m) /\ Accepts(e, m, 1)
          \/ /\ May("OSMboxPostOpt")
             /\ \E m \in Messages, broadcast \in L.broadcast, sched \in BOOLEAN :
                   OSMboxPostOpt(e, m, broadcast, sched) /\ Accepts(e, m, Takers(e, broadcast))
          \/ May("OSMboxPendAbort") /\ (\E broadcast : OSMboxPendAbort(e, broadcast)) /\ KeepsOwed
          \/ May("OSMboxCreate") /\ OSMboxCreate(e, Null) /\ Afresh({e})
          \/ May("OSMboxDel") /\ \E always : OSMboxDel(e, always) /\ Afresh({e})
    BY DEF MboxCalls
<1>2. Available(e) /\ Mbox(e) <=> Mbox(e) /\ event[e].ptr # Null
    BY EventKinds
<1>3. ASSUME NEW op, May(op), Mbox(e), event[e].ptr # Null, event' = [event EXCEPT ![e].ptr = Null],
             Return, UNCHANGED <<tcb, restVars>>, Gives(e)
      PROVE  AccountInv'
    <2>1. event'[e] = [event[e] EXCEPT !.ptr = Null] /\ \A y \in Events \ {e} : event'[y] = event[y]
        BY <1>0, <1>3 DEF EventsWell
    <2>2. QuietCall(e)
        BY <1>0, <1>3, <2>1, MayCalls DEF QuietCall, restVars
    <2>3. Takes(e)
        BY <1>3, <2>1 DEF Takes, Sem, Mbox, Queue
    <2> QED BY <1>2, <1>3, <2>2, <2>3, TakeAccount
<1>4. CASE May("OSMboxAccept") /\ OSMboxAccept(e) /\ Gives(e)
    BY <1>3, <1>4 DEF OSMboxAccept
<1>5. ASSUME May("OSMboxPend"), NEW timeout \in L.timeouts, OSMboxPend(e, timeout),
             IF Available(e) THEN Gives(e) ELSE KeepsOwed
      PROVE  AccountInv'
    <2>1. CASE event[e].ptr # Null
        BY <1>2, <1>3, <1>5, <2>1 DEF OSMboxPend
    <2>2. CASE event[e].ptr = Null
        <3>1. /\ OS_EventTaskWait("MBOX", e, timeout) /\ Pended("MBOX", {e}) /\ UNCHANGED restVars /\ MayPend
              /\ KeepsOwed
            BY <1>2, <1>5, <2>2 DEF OSMboxPend
        <3> QED BY <1>0, <1>5, <3>1, WaitAccount
    <2> QED BY <2>1, <2>2
<1>6. ASSUME May("OSMboxPost"), NEW m \in Messages, OSMboxPost(e, m), Accepts(e, m, 1) PROVE AccountInv'
    <2>1. OSMboxPostOpt(e, m, FALSE, TRUE)
        BY <1>6 DEF OSMboxPost
    <2>2. Accepts(e, m, Takers(e, FALSE))
        BY <1>6 DEF Takers
    <2> QED BY <1>0, <1>6, <2>1, <2>2, MboxPostAccount
<1>7. ASSUME May("OSMboxPostOpt"), NEW m \in Messages, NEW broadcast, NEW sched,
             OSMboxPostOpt(e, m, broadcast, sched), Accepts(e, m, Takers(e, broadcast))
      PROVE  AccountInv'
    BY <1>0, <1>7, MboxPostAccount
<1>8. ASSUME May("OSMboxPendAbort"), NEW broadcast, OSMboxPendAbort(e, broadcast), KeepsOwed PROVE AccountInv'
    BY <1>0, <1>8, PendAbortAccount DEF OSMboxPendAbort, Mbox
<1>9. CASE May("OSMboxCreate") /\ OSMboxCreate(e, Null) /\ Afresh({e})
    <2>1. CreateEvent(e, NewEvent("MBOX", 0, Null)) /\ Null \in Posted
        BY <1>9 DEF OSMboxCreate, Posted
    <2> QED BY <1>0, <1>9, <2>1, CreateAccount
<1>10. ASSUME May("OSMboxDel"), NEW always, OSMboxDel(e, always), Afresh({e}) PROVE AccountInv'
    BY <1>0, <1>10, DeleteAccount DEF OSMboxDel, Mbox
<1> QED BY <1>1, <1>4, <1>5, <1>6, <1>7, <1>8, <1>9, <1>10

(* A call that changes the ring of one queue. *)
LEMMA RingCall ==
    ASSUME Books, NEW op, May(op), NEW e \in Events, Queue(e), NEW r,
           queue' = [queue EXCEPT ![event[e].ptr] = r], Return, UNCHANGED <<tcb, event, restVars>>
    PROVE  QuietCall(e) /\ queue'[event[e].ptr] = r
<1>1. SettledInv /\ QueuesWell
    BY BooksHold
<1>2. queue'[event[e].ptr] = r /\ \A pq \in Queues \ {event[e].ptr} : queue'[pq] = queue[pq]
    BY <1>1 DEF QueuesWell
<1> QED BY <1>1, <1>2, MayCalls DEF QuietCall, restVars

LEMMA QPostAccount ==
    ASSUME Books, SettledInv', BlocksInv', UNCHANGED <<OSTCBFlagNode, load>>,
           NEW op, May(op), NEW e \in Events, NEW m \in Messages, NEW broadcast, NEW front, NEW sched,
           OSQPostOpt(e, m, broadcast, front, sched), Accepts(e, m, Takers(e, broadcast))
    PROVE  AccountInv'
<1>0. SettledInv /\ Caller /\ event[e].type = "Q" /\ Queue(e) /\ UNCHANGED restVars /\ m \in Posted
    BY BooksHold, MayCalls DEF OSQPostOpt, Queue, Posted
<1>1. CASE Waiters(e) # {}
    <2>1. PICK prios : prios = IF broadcast THEN Waiters(e) ELSE {Highest(Waiters(e))}
        OBVIOUS
    <2>2. OS_EventTaskRdy(e, prios, m, {"Q"}, "OK") /\ event' = EventsAfterRdy(e, prios)
          /\ (CallSched \/ Return) /\ queue' = queue
        BY <1>1, <2>1 DEF OSQPostOpt
    <2>3. Accepts(e, m, Cardinality(prios))
        BY <1>1, <2>1, TakersWoken
    <2>4. prios = Waiters(e) \/ prios = {Highest(Waiters(e))}
        BY <2>1
    <2> QED BY <1>0, <1>1, <2>2, <2>3, <2>4, PostsAccount
<1>2. CASE Waiters(e) = {}
    <2>1. PICK r : r = IF front THEN PutFront(queue[event[e].ptr], m) ELSE Put(queue[event[e].ptr], m)
        OBVIOUS
    <2>2. /\ ~Full(queue[event[e].ptr]) /\ Return /\ UNCHANGED <<tcb, event>>
          /\ queue' = [queue EXCEPT ![event[e].ptr] = r]
        BY <1>2, <2>1 DEF OSQPostOpt, Of
    <2>3. QuietCall(e) /\ queue'[event[e].ptr] = r
        BY <1>0, <2>2, RingCall
    <2>4. Stores(e, m)
        BY <1>0, <2>1, <2>2, <2>3 DEF Stores, Sem, Mbox, Queue
    <2>5. Accepts(e, m, 1)
        BY <1>2, TakersWoken
    <2> QED BY <1>0, <2>3, <2>4, <2>5, StoreAccount
<1> QED BY <1>1, <1>2

LEMMA QAccount ==
    ASSUME Books, SettledInv', BlocksInv', QCalls, UNCHANGED <<OSTCBFlagNode, load>>
    PROVE  AccountInv'
<1>0. SettledInv /\ QueuesWell
    BY BooksHold
<1>1. PICK e \in Events :
          \/ May("OSQAccept") /\ OSQAccept(e) /\ Gives(e)
          \/ /\ May("OSQPend") /\ \E timeout \in L.timeouts : OSQPend(e, timeout)
             /\ IF Available(e) THEN Gives(e) ELSE KeepsOwed
          \/ May("OSQPost") /\ \E m \in Messages : OSQPost(e, m) /\ Accepts(e, m, 1)
          \/ May("OSQPostFront") /\ \E m \in Messages : OSQPostFront(e, m) /\ Accepts(e, m, 1)
          \/ /\ May("OSQPostOpt")
             /\ \E m \in Messages, broadcast \in L.broadcast, front \in BOOLEAN, sched \in BOOLEAN :
                   OSQPostOpt(e, m, broadcast, front, sched) /\ Accepts(e, m, Takers(e, broadcast))
          \/ May("OSQFlush") /\ OSQFlush(e) /\ Afresh({e})
          \/ May("OSQPendAbort") /\ (\E broadcast : OSQPendAbort(e, broadcast)) /\ KeepsOwed
          \/ May("OSQCreate") /\ OSQCreate(e, 2) /\ Afresh({e})
          \/ May("OSQDel") /\ \E always : OSQDel(e, always) /\ Afresh({e})
    BY DEF QCalls
<1>2. Available(e) /\ Queue(e) <=> Queue(e) /\ queue[event[e].ptr].entries > 0
    BY EventKinds
<1>3. ASSUME NEW op, May(op), Queue(e), queue[event[e].ptr].entries > 0,
             queue' = [queue EXCEPT ![event[e].ptr] = Taken(queue[event[e].ptr])],
             Return, UNCHANGED <<tcb, event, restVars>>, Gives(e)
      PROVE  AccountInv'
    <2>1. PICK r : r = Taken(queue[event[e].ptr])
        OBVIOUS
    <2>2. QuietCall(e) /\ queue'[event[e].ptr] = r
        BY <1>3, <2>1, RingCall
    <2>3. Takes(e)
        BY <1>3, <2>1, <2>2 DEF Takes, Sem, Mbox, Queue
    <2> QED BY <1>2, <1>3, <2>2, <2>3, TakeAccount
<1>4. CASE May("OSQAccept") /\ OSQAccept(e) /\ Gives(e)
    BY <1>3, <1>4 DEF OSQAccept, Of
<1>5. ASSUME May("OSQPend"), NEW timeout \in L.timeouts, OSQPend(e, timeout),
             IF Available(e) THEN Gives(e) ELSE KeepsOwed
      PROVE  AccountInv'
    <2>1. CASE queue[event[e].ptr].entries > 0
        BY <1>2, <1>3, <1>5, <2>1 DEF OSQPend, Of
    <2>2. CASE ~(queue[event[e].ptr].entries > 0)
        <3>1. /\ OS_EventTaskWait("Q", e, timeout) /\ Pended("Q", {e}) /\ UNCHANGED restVars /\ MayPend
              /\ KeepsOwed /\ queue' = queue
            BY <1>2, <1>5, <2>2 DEF OSQPend, Of
        <3> QED BY <1>5, <3>1, WaitAccount
    <2> QED BY <2>1, <2>2
<1>6. ASSUME NEW op, May(op), NEW m \in Messages, OSQPost(e, m) \/ OSQPostFront(e, m), Accepts(e, m, 1)
      PROVE  AccountInv'
    <2>1. PICK front : OSQPostOpt(e, m, FALSE, front, TRUE)
        BY <1>6 DEF OSQPost, OSQPostFront
    <2>2. Accepts(e, m, Takers(e, FALSE))
        BY <1>6 DEF Takers
    <2> QED BY <1>6, <2>1, <2>2, QPostAccount
<1>7. ASSUME May("OSQPostOpt"), NEW m \in Messages, NEW broadcast, NEW front, NEW sched,
             OSQPostOpt(e, m, broadcast, front, sched), Accepts(e, m, Takers(e, broadcast))
      PROVE  AccountInv'
    BY <1>7, QPostAccount
<1>8. CASE May("OSQFlush") /\ OSQFlush(e) /\ Afresh({e})
    <2>1. PICK r : r = Flushed(queue[event[e].ptr])
        OBVIOUS
    <2>2. QuietCall(e)
        BY <1>8, <2>1, RingCall DEF OSQFlush
    <2>3. FieldsWell(e)'
        BY <1>8 DEF OSQFlush, Queue, FieldsWell, Sem, Mbox
    <2> QED BY <1>8, <2>2, <2>3, FreshAccount
<1>9. ASSUME May("OSQPendAbort"), NEW broadcast, OSQPendAbort(e, broadcast), KeepsOwed PROVE AccountInv'
    BY <1>9, PendAbortAccount DEF OSQPendAbort, Queue, queueVars
<1>10. CASE May("OSQCreate") /\ OSQCreate(e, 2) /\ Afresh({e})
    <2>1. PICK pq \in OSQFreeList : CreateEvent(e, NewEvent("Q", 0, pq))
              /\ queue' = [queue EXCEPT ![pq] = NewRing(2, Null)]
        BY <1>10 DEF OSQCreate
    <2> QED BY <1>10, <2>1, CreateAccount
<1>11. ASSUME May("OSQDel"), NEW always, OSQDel(e, always), Afresh({e}) PROVE AccountInv'
    BY <1>11, DeleteAccount DEF OSQDel, Queue
<1> QED BY <1>1, <1>4, <1>5, <1>6, <1>7, <1>8, <1>9, <1>10, <1>11

LEMMA MultiAccount ==
    ASSUME Books, SettledInv', BlocksInv', MultiCalls, UNCHANGED <<OSTCBFlagNode, load>>
    PROVE  AccountInv'
<1>0. EventsWell /\ QueuesWell /\ StockWell /\ SettledInv /\ Typed /\ Typed' /\ AccountInv /\ OwedTyped
    BY BooksHold
<1>1. PICK timeout \in L.timeouts : OSEventPendMulti(Events, timeout)
    BY DEF MultiCalls
<1>2. /\ May("OSEventPendMulti") /\ MayPend /\ UNCHANGED restVars
      /\ GivesAll({e \in Events : Available(e)})
    BY <1>1 DEF MultiCalls, OSEventPendMulti
<1>3. Caller /\ OSTCBCur \in Live /\ pc[OSTCBCur].at = "task"
    BY <1>0, <1>2, MayCalls DEF MayPend
<1>4. /\ DOMAIN owed' = Events /\ owed' = [e \in Events |-> owed'[e]]
      /\ \A e \in Events :
            owed'[e] = IF Available(e) THEN [owed[e] EXCEPT ![NextOf(e)] = owed[e][NextOf(e)] - 1] ELSE owed[e]
    BY <1>2 DEF GivesAll
<1>5. CASE TakenFrom(Events) /\ Return /\ UNCHANGED <<tcb, OSRdyTbl>> /\ \E e \in Events : Available(e)
    <2>1. \A x, m : InHand(x, m)' = InHand(x, m)
        BY <1>0, <1>2, <1>3, <1>5, CalmHands, SameHands DEF restVars
    <2>2. ASSUME NEW e \in Events, Available(e)
          PROVE  FieldsWell(e)' /\ Balanced(e)' /\ owed'[e] \in [Posted -> Int]
        <3>1. Takes(e)
            <4>1. event'[e] = IF Sem(e) THEN [event[e] EXCEPT !.cnt = event[e].cnt - 1]
                              ELSE IF Mbox(e) THEN [event[e] EXCEPT !.ptr = Null] ELSE event[e]
                BY <1>5, <2>2 DEF TakenFrom
            <4>2. Queue(e) => queue'[event[e].ptr] = Taken(queue[event[e].ptr])
                BY <1>0, <1>5, <2>2 DEF TakenFrom, QueuesWell
            <4> QED BY <4>1, <4>2 DEF Takes, Sem, Mbox, Queue
        <3>2. PICK x : x = NextOf(e)
            OBVIOUS
        <3>3. x \in Posted /\ StockMoves(e, x, -1)
            BY <1>0, <2>2, <3>1, <3>2, StockTaken
        <3>4. HandMoves(e, x, 0)
            BY <1>0, <2>1, StillMoves
        <3>5. FieldsWell(e)'
            BY <1>0, <2>2, <3>1, TakenFields
        <3>6. owed'[e] = [owed[e] EXCEPT ![x] = owed[e][x] - 1] /\ owed[e] \in [Posted -> Int]
            BY <1>0, <1>4, <2>2, <3>2 DEF OwedTyped
        <3>7. OwedMoves(e, x, -1) /\ owed'[e] \in [Posted -> Int]
            BY <3>3, <3>6 DEF OwedMoves
        <3>8. OwedMoves(e, x, -1 + 0) /\ -1 \in Int /\ 0 \in Int
            BY <3>7
        <3>9. Balanced(e)'
            BY <1>0, <3>3, <3>4, <3>8, StaysBalanced
        <3> QED BY <3>5, <3>7, <3>9
    <2>3. ASSUME NEW e \in Events, ~Available(e)
          PROVE  FieldsWell(e)' /\ Balanced(e)' /\ owed'[e] \in [Posted -> Int]
        <3>1. event'[e] = event[e]
            BY <1>5, <2>3 DEF TakenFrom
        <3>2. Queue(e) => queue'[event[e].ptr] = queue[event[e].ptr]
            BY <1>0, <1>5, <2>3 DEF TakenFrom, QueuesWell
        <3>3. Still(e)
            BY <2>1, <3>1, <3>2 DEF Still, SameStock
        <3> QED BY <1>0, <1>4, <2>3, <3>3, StillBalanced DEF OwedTyped
    <2>4. owed' \in [Events -> [Posted -> Int]]
        BY <1>4, <2>2, <2>3
    <2> QED BY <2>2, <2>3, <2>4 DEF AccountInv, OwedTyped
<1>6. CASE /\ OS_EventTaskWaitMulti({event[e].type : e \in Events}, Events, timeout)
           /\ Pended("MULTI", Events) /\ UNCHANGED queue /\ ~\E e \in Events : Available(e)
    <2>1. PICK bits : tcb' = Waiting(bits, timeout, Null, Events)
        BY <1>6 DEF OS_EventTaskWaitMulti
    <2>2. HandsKept
        <3>1. UNCHANGED OSTCBPrioTbl
            BY <1>2 DEF restVars
        <3> QED BY <1>0, <1>3, <1>6, <2>1, <3>1, WaitingHands
    <2>3. \A e \in Events : SameStock(e)
        BY <1>0, <1>6, ListsKeepStock DEF OS_EventTaskWaitMulti
    <2>4. KeepsOwed
        <3>1. \A e \in Events : owed'[e] = owed[e]
            BY <1>4, <1>6
        <3> QED BY <1>0, <1>4, <3>1 DEF KeepsOwed, OwedTyped
    <2> QED BY <2>2, <2>3, <2>4, QuietAccount
<1> QED BY <1>1, <1>5, <1>6 DEF OSEventPendMulti

-----------------------------------------------------------------------------
(* The other services: they neither take nor give.                         *)

(* One block changes, and with it nobody's hand. *)
LEMMA OneHand ==
    ASSUME SettledInv, AllGoOn, UNCHANGED OSTCBPrioTbl, NEW me,
           me \in Tasks => tcb'[me].prio = tcb[me].prio /\ HandKept(me),
           \A t \in Tasks \ {me} : tcb'[t] = tcb[t]
    PROVE  HandsKept
<1>1. Live' = Live
    BY DEF Live
<1>2. ASSUME NEW t \in Live, t # me PROVE HandKept(t)
    BY <1>2, HandStays DEF AllGoOn, Live, Pending
<1> QED BY <1>1, <1>2 DEF HandsKept, Live

LEMMA QuietStock ==
    ASSUME UNCHANGED <<event, queue>>
    PROVE  \A y \in Events : SameStock(y)
BY DEF SameStock

LEMMA FlagHands ==
    ASSUME SettledInv, NEW g \in Groups, NEW woken \in SUBSET FlagWaiters(g), NEW rdy, OS_FlagTaskRdy(woken, rdy),
           UNCHANGED OSTCBPrioTbl, AllGoOn
    PROVE  HandsKept
<1>1. TasksInv /\ Typed /\ woken \subseteq Tasks
    BY DEF SettledInv, TasksInv, FlagWaiters
<1>2. ASSUME NEW t \in Tasks \ woken PROVE tcb'[t] = tcb[t]
    BY DEF OS_FlagTaskRdy
<1>3. ASSUME NEW t \in woken
      PROVE  /\ t \in Live /\ tcb'[t].prio = tcb[t].prio
             /\ pc[t].op \in FlagOps
    <2>1. OSTCBFlagNode[t].grp = g /\ NoNode.grp # g
        BY FlagAssumption DEF FlagWaiters, NoNode
    <2>2. t \in Live /\ TaskWell(t)
        BY <1>1, <2>1 DEF Typed, TasksInv
    <2>3. OnFlags(t)
        BY <2>1, <2>2 DEF TaskWell, AtEase, OnOne, OnSeveral
    <2>4. tcb'[t] = [tcb[t] EXCEPT !.dly = 0, !.stat = tcb[t].stat \ {"FLAG"}, !.pend = "OK"] /\ tcb[t] \in TCBs
        BY <1>1 DEF OS_FlagTaskRdy, Typed
    <2>5. tcb'[t].prio = tcb[t].prio
        BY <2>4 DEF TCBs
    <2> QED BY <2>2, <2>3, <2>5 DEF OnFlags
<1>4. Live' = Live
    <2>1. \A t \in Tasks : tcb'[t].prio = tcb[t].prio
        BY <1>2, <1>3
    <2> QED BY <2>1 DEF Live
<1>5. ASSUME NEW t \in Live PROVE HandKept(t)
    <2>1. t \in Tasks /\ GoesOn(t)
        BY DEF Live, AllGoOn
    <2>2. CASE t \in woken
        BY <1>3, <2>1, <2>2 DEF HandKept, Handed, GoesOn, FlagOps
    <2>3. CASE t \notin woken
        BY <1>2, <2>1, <2>3, HandStays DEF Pending
    <2> QED BY <2>2, <2>3
<1> QED BY <1>4, <1>5 DEF HandsKept

LEMMA FlagAccount ==
    ASSUME Books, SettledInv', BlocksInv', FlagCalls
    PROVE  AccountInv'
<1>0. /\ SettledInv /\ Typed /\ OSTCBCur \in Live /\ OSTCBCur \in Tasks /\ KeepsOwed /\ queue' = queue
      /\ tcb \in [Tasks -> TCBs] /\ pc \in [Tasks -> PCs]
    BY BooksHold DEF FlagCalls, queueVars, SettledInv, Scheduled, Live
<1>1. PICK g \in Groups, want \in L.wants :
          \/ May("OSFlagAccept") /\ \E type, consume : OSFlagAccept(g, want, type, consume)
          \/ May("OSFlagPend") /\ \E type, consume, timeout : OSFlagPend(g, want, type, consume, timeout)
          \/ May("OSFlagPost") /\ \E set : OSFlagPost(g, want, set)
          \/ May("OSFlagCreate") /\ OSFlagCreate(g, want)
          \/ May("OSFlagDel") /\ \E always : OSFlagDel(g, always)
    BY DEF FlagCalls
<1>2. event' = event /\ UNCHANGED OSTCBPrioTbl
    BY <1>1 DEF OSFlagAccept, OSFlagPend, OSFlagPost, OSFlagCreate, OSFlagDel, restVars
<1>3. HandsKept => AccountInv'
    BY <1>0, <1>2, QuietStock, QuietAccount
<1>4. ASSUME NEW op, May(op), Return, UNCHANGED tcb PROVE AccountInv'
    BY <1>0, <1>2, <1>3, <1>4, MayCalls, CalmHands
<1>5. ASSUME NEW op, May(op), NEW woken \in SUBSET FlagWaiters(g), NEW rdy,
             OS_FlagTaskRdy(woken, rdy), CallSched \/ Return
      PROVE  AccountInv'
    <2>1. AllGoOn
        BY <1>0, <1>5, MayCalls, CallersGoOn
    <2> QED BY <1>0, <1>2, <1>3, <1>5, <2>1, FlagHands
<1>6. ASSUME May("OSFlagPend"), NEW type, NEW consume, NEW timeout, OSFlagPend(g, want, type, consume, timeout)
      PROVE  AccountInv'
    <2>1. CASE Return /\ UNCHANGED tcb
        BY <1>4, <1>6, <2>1
    <2>2. CASE /\ OS_FlagBlock(g, want, type, timeout)
               /\ Pended(IF ~consume THEN "FLAG" ELSE IF type.set THEN "FLAG_CLR" ELSE "FLAG_SET", {g})
        <3>1. PICK op \in FlagOps : Pended(op, {g})
            BY <2>2 DEF FlagOps
        <3>2. PICK me \in Live : me = OSTCBCur
            BY <1>0
        <3>3. me \in Tasks /\ tcb[me] \in TCBs
            BY <1>0, <3>2
        <3>4. tcb' = [tcb EXCEPT ![me] = [tcb[me] EXCEPT !.stat = tcb[me].stat \cup {"FLAG"}, !.pend = "OK",
                                                        !.dly = timeout]]
            BY <2>2, <3>2 DEF OS_FlagBlock
        <3>5. tcb'[me].prio = tcb[me].prio /\ \A t \in Tasks \ {me} : tcb'[t] = tcb[t]
            BY <1>0, <3>3, <3>4 DEF TCBs
        <3>6. pc'[me].op \in FlagOps /\ \A t \in Tasks \ {me} : pc'[t] = pc[t]
            BY <1>0, <3>1, <3>2, <3>3 DEF Pended
        <3>7. pc[me].at = "task"
            BY <1>0, <1>6, <3>2, MayCalls DEF OSFlagPend
        <3>8. HandKept(me)
            BY <3>6, <3>7 DEF HandKept, Handed, Inside, FlagOps
        <3>9. Live' = Live
            BY <1>2, <3>5 DEF Live
        <3>10. ASSUME NEW t \in Live, t # me PROVE HandKept(t)
            BY <3>5, <3>6, <3>10 DEF HandKept, Handed, Inside, Pending, Live
        <3> QED BY <1>3, <3>8, <3>9, <3>10 DEF HandsKept
    <2> QED BY <1>6, <2>1, <2>2 DEF OSFlagPend
<1>7. ASSUME NEW type, NEW consume, May("OSFlagAccept"), OSFlagAccept(g, want, type, consume) PROVE AccountInv'
    BY <1>4, <1>7 DEF OSFlagAccept
<1>8. CASE May("OSFlagCreate") /\ OSFlagCreate(g, want)
    BY <1>4, <1>8 DEF OSFlagCreate
<1>9. ASSUME May("OSFlagPost"), NEW set, OSFlagPost(g, want, set) PROVE AccountInv'
    <2>1. PICK now : now = IF set THEN group[g].flags \cup want ELSE group[g].flags \ want
        OBVIOUS
    <2>2. PICK woken, rdy : woken = Awaited(g, now) /\ OS_FlagTaskRdy(woken, rdy) /\ (CallSched \/ Return)
        BY <1>9, <2>1 DEF OSFlagPost
    <2>3. woken \in SUBSET FlagWaiters(g)
        BY <2>2 DEF Awaited
    <2> QED BY <1>5, <1>9, <2>2, <2>3
<1>10. ASSUME May("OSFlagDel"), NEW always, OSFlagDel(g, always) PROVE AccountInv'
    <2>1. PICK woken, rdy : woken = FlagWaiters(g) /\ OS_FlagTaskRdy(woken, rdy) /\ (CallSched \/ Return)
        BY <1>10 DEF OSFlagDel
    <2> QED BY <1>5, <1>10, <2>1
<1> QED BY <1>1, <1>6, <1>7, <1>8, <1>9, <1>10

LEMMA StayingHands ==
    ASSUME AllGoOn, UNCHANGED <<tcb, OSTCBPrioTbl>>
    PROVE  HandsKept
<1>1. Live' = Live
    BY DEF Live
<1>2. \A t \in Live : HandKept(t)
    BY HandStays DEF AllGoOn, Live, Pending
<1> QED BY <1>1, <1>2 DEF HandsKept

(* A task whose delay or wait is at its end had nothing in hand. *)
LEMMA ExpiredHand ==
    ASSUME TasksInv, NEW t \in Live, GoesOn(t), tcb[t].dly # 0, tcb'[t] = Expired(tcb[t])
    PROVE  HandKept(t)
<1>1. tcb[t] \in TCBs /\ TaskWell(t) /\ ~Handed(t)
    BY HandsOff DEF TasksInv, Typed, Live
<1>2. tcb'[t].pend = IF tcb[t].stat \cap PendBits # {} THEN "TO" ELSE "OK"
    BY <1>1 DEF Expired, TCBs
<1>3. Handed(t)' => Inside(t) /\ pc[t].op \in {"SEM", "MBOX", "Q", "MULTI"} /\ Pending(t) = {}
    BY <1>2 DEF Handed, Inside, GoesOn, Pending
<1>4. Inside(t) /\ pc[t].op \in {"SEM", "MBOX", "Q", "MULTI"} => OnOne(t) \/ OnSeveral(t)
    BY <1>1 DEF TaskWell, AtEase, OnFlags, FlagOps, Inside
<1>5. OnOne(t) \/ OnSeveral(t) => Pending(t) # {}
    BY <1>1 DEF OnOne, OnSeveral, TimedOutNow
<1> QED BY <1>1, <1>3, <1>4, <1>5 DEF HandKept

LEMMA TickHands ==
    ASSUME SettledInv, OSTimeTick
    PROVE  HandsKept
<1>1. /\ TasksInv /\ tcb \in [Tasks -> TCBs] /\ UNCHANGED <<OSTCBPrioTbl, pc>>
      /\ Live \subseteq Tasks
    BY DEF SettledInv, TasksInv, Typed, OSTimeTick, restVars, Live
<1>2. \A t : GoesOn(t)
    BY <1>1 DEF GoesOn
<1>3. ASSUME NEW t \in Tasks
      PROVE  \/ tcb'[t] = tcb[t]
             \/ t \in Live /\ tcb[t].dly # 0 /\ tcb'[t] = Expired(tcb[t])
             \/ tcb'[t] = [tcb[t] EXCEPT !.dly = tcb[t].dly - 1]
    BY DEF OSTimeTick, Expiring
<1>4. ASSUME NEW t \in Tasks
      PROVE  tcb'[t].prio = tcb[t].prio /\ (t \in Live => HandKept(t))
    <2>1. tcb[t] \in TCBs
        BY <1>1
    <2>2. CASE tcb'[t] = tcb[t]
        BY <1>2, <2>2, HandStays DEF Pending
    <2>3. CASE t \in Live /\ tcb[t].dly # 0 /\ tcb'[t] = Expired(tcb[t])
        BY <1>1, <1>2, <2>1, <2>3, ExpiredHand, ExpiredBlock
    <2>4. CASE tcb'[t] = [tcb[t] EXCEPT !.dly = tcb[t].dly - 1]
        <3>1. /\ tcb'[t].prio = tcb[t].prio /\ tcb'[t].stat = tcb[t].stat /\ tcb'[t].pend = tcb[t].pend
              /\ tcb'[t].ev = tcb[t].ev /\ tcb'[t].msg = tcb[t].msg
            BY <2>1, <2>4 DEF TCBs
        <3> QED BY <1>2, <3>1, HandStays DEF Pending
    <2> QED BY <1>3, <2>2, <2>3, <2>4
<1>5. Live' = Live
    BY <1>1, <1>4 DEF Live
<1> QED BY <1>1, <1>4, <1>5 DEF HandsKept

LEMMA TaskAccount ==
    ASSUME Books, Settled, SettledInv', BlocksInv', TaskCalls
    PROVE  AccountInv'
<1>0. SettledInv /\ TasksInv /\ tcb \in [Tasks -> TCBs] /\ queue' = queue
    BY BooksHold DEF TaskCalls, queueVars
<1>1. ~May("OSTaskChangePrio") /\ ~May("OSTaskCreate") /\ ~May("OSTaskDel")
    BY <1>0, MayCalls DEF Settled
<1>2. ~OS_TCBInit /\ ~TaskDelEnd
    <2>1. pc[OSTCBCur].at \in {"task", "sched", "pended", "wake"}
        BY <1>0 DEF SettledInv, TasksInv, Typed, PCs, Scheduled, Live
    <2> QED BY <2>1 DEF OS_TCBInit, TaskDelEnd
<1>3. /\ KeepsOwed
      /\ \/ \E t : \/ May("OSTaskSuspend") /\ OSTaskSuspend(t)
                   \/ May("OSTaskResume") /\ OSTaskResume(t)
                   \/ May("OSTimeDlyResume") /\ OSTimeDlyResume(t)
                   \/ May("OSTaskDelReq") /\ OSTaskDelReq(t)
         \/ May("OSTimeDly") /\ \E ticks \in 1 .. MaxDelay : OSTimeDly(ticks)
    BY <1>1, <1>2 DEF TaskCalls
<1>4. UNCHANGED <<event, OSTCBPrioTbl>> /\ (Return \/ CallSched)
    BY <1>3 DEF OSTaskSuspend, OSTaskResume, OSTimeDlyResume, OSTaskDelReq, OSTimeDly, restVars
<1>5. AllGoOn
    BY <1>0, <1>3, <1>4, MayCalls, CallersGoOn
<1>6. HandsKept => AccountInv'
    BY <1>0, <1>3, <1>4, QuietStock, QuietAccount
<1>7. ASSUME NEW t \in Tasks, tcb'[t].prio = tcb[t].prio, HandKept(t), \A x \in Tasks \ {t} : tcb'[x] = tcb[x]
      PROVE  AccountInv'
    BY <1>0, <1>4, <1>5, <1>6, <1>7, OneHand
<1>8. ASSUME NEW t \in Tasks, NEW v, tcb' = [tcb EXCEPT ![t] = v], v.prio = tcb[t].prio,
             v.stat \cap PendBits = tcb[t].stat \cap PendBits,
             v.pend = tcb[t].pend, v.ev = tcb[t].ev, v.msg = tcb[t].msg
      PROVE  AccountInv'
    <2>1. tcb'[t] = v /\ \A x \in Tasks \ {t} : tcb'[x] = tcb[x]
        BY <1>0, <1>8
    <2>2. HandKept(t)
        BY <1>5, <1>8, <2>1, HandStays DEF AllGoOn, Pending
    <2> QED BY <1>7, <1>8, <2>1, <2>2
<1>9. ASSUME NEW t \in Tasks PROVE tcb[t] \in TCBs
    BY <1>0
<1>10. ASSUME NEW t, OSTaskSuspend(t) PROVE AccountInv'
    <2>1. t \in Tasks
        BY <1>10 DEF OSTaskSuspend, Live
    <2> DEFINE v == [tcb[t] EXCEPT !.stat = tcb[t].stat \cup {"SUSPEND"}]
    <2>2. tcb' = [tcb EXCEPT ![t] = v]
        BY <1>10 DEF OSTaskSuspend
    <2>3. /\ v.prio = tcb[t].prio /\ v.stat = tcb[t].stat \cup {"SUSPEND"}
          /\ v.pend = tcb[t].pend /\ v.ev = tcb[t].ev /\ v.msg = tcb[t].msg
        BY <1>9, <2>1 DEF TCBs
    <2> HIDE DEF v
    <2>4. v.stat \cap PendBits = tcb[t].stat \cap PendBits
        BY <2>3 DEF PendBits
    <2> QED BY <1>8, <2>1, <2>2, <2>3, <2>4
<1>11. ASSUME NEW t, OSTaskResume(t) PROVE AccountInv'
    <2>1. t \in Tasks
        BY <1>11 DEF OSTaskResume, Live
    <2> DEFINE v == [tcb[t] EXCEPT !.stat = tcb[t].stat \ {"SUSPEND"}]
    <2>2. tcb' = [tcb EXCEPT ![t] = v]
        BY <1>11 DEF OSTaskResume
    <2>3. /\ v.prio = tcb[t].prio /\ v.stat = tcb[t].stat \ {"SUSPEND"}
          /\ v.pend = tcb[t].pend /\ v.ev = tcb[t].ev /\ v.msg = tcb[t].msg
        BY <1>9, <2>1 DEF TCBs
    <2> HIDE DEF v
    <2>4. v.stat \cap PendBits = tcb[t].stat \cap PendBits
        BY <2>3 DEF PendBits
    <2> QED BY <1>8, <2>1, <2>2, <2>3, <2>4
<1>12. ASSUME NEW t, OSTaskDelReq(t) PROVE AccountInv'
    <2>1. t \in Tasks
        BY <1>12 DEF OSTaskDelReq, Live
    <2> DEFINE v == [tcb[t] EXCEPT !.delreq = TRUE]
    <2>2. tcb' = [tcb EXCEPT ![t] = v]
        BY <1>12 DEF OSTaskDelReq
    <2>3. /\ v.prio = tcb[t].prio /\ v.stat = tcb[t].stat
          /\ v.pend = tcb[t].pend /\ v.ev = tcb[t].ev /\ v.msg = tcb[t].msg
        BY <1>9, <2>1 DEF TCBs
    <2> HIDE DEF v
    <2> QED BY <1>8, <2>1, <2>2, <2>3
<1>13. ASSUME NEW ticks, OSTimeDly(ticks) PROVE AccountInv'
    <2>1. PICK me \in Tasks : me = OSTCBCur
        BY <1>0 DEF SettledInv, Scheduled, Live
    <2> DEFINE v == [tcb[me] EXCEPT !.dly = ticks]
    <2>2. tcb' = [tcb EXCEPT ![me] = v]
        BY <1>13, <2>1 DEF OSTimeDly
    <2>3. /\ v.prio = tcb[me].prio /\ v.stat = tcb[me].stat
          /\ v.pend = tcb[me].pend /\ v.ev = tcb[me].ev /\ v.msg = tcb[me].msg
        BY <1>9, <2>1 DEF TCBs
    <2> HIDE DEF v
    <2> QED BY <1>8, <2>1, <2>2, <2>3
<1>14. ASSUME NEW t, OSTimeDlyResume(t) PROVE AccountInv'
    <2>1. t \in Tasks /\ t \in Live /\ tcb[t].dly # 0 /\ tcb' = [tcb EXCEPT ![t] = Expired(tcb[t])]
        BY <1>14 DEF OSTimeDlyResume, Live
    <2>2. tcb'[t] = Expired(tcb[t]) /\ \A x \in Tasks \ {t} : tcb'[x] = tcb[x]
        BY <1>0, <2>1
    <2>3. tcb'[t].prio = tcb[t].prio
        BY <1>9, <2>1, <2>2, ExpiredBlock
    <2>4. HandKept(t)
        BY <1>0, <1>5, <2>1, <2>2, ExpiredHand DEF AllGoOn
    <2> QED BY <1>7, <2>1, <2>2, <2>3, <2>4
<1> QED BY <1>3, <1>10, <1>11, <1>12, <1>13, <1>14

-----------------------------------------------------------------------------
(* The end of a pend: the caller has what was in its hand. *)

LEMMA GivenAway ==
    ASSUME Typed, Typed', NEW me \in Live, Live' = Live, Handed(me), ~Handed(me)',
           \A t \in Live \ {me} : HandKept(t), NEW e, NEW x, e = tcb[me].ev, x = tcb[me].msg
    PROVE  /\ HandMoves(e, x, -1)
           /\ \A y : y # e => \A m \in Posted : InHand(y, m)' = InHand(y, m)
<1>1. ASSUME NEW y, NEW m
      PROVE  InHand(y, m)' = IF y = e /\ m = x THEN InHand(y, m) \ {me} ELSE InHand(y, m)
    <2>1. InHand(y, m) = {t \in Live : Handed(t) /\ tcb[t].ev = y /\ tcb[t].msg = m}
        BY HandsAre
    <2>2. InHand(y, m)' = {t \in Live : Handed(t)' /\ tcb'[t].ev = y /\ tcb'[t].msg = m}
        BY HandsAreNext
    <2> QED BY <2>1, <2>2 DEF HandKept
<1>2. me \in InHand(e, x)
    BY HandsAre
<1>3. ASSUME NEW m
      PROVE  Cardinality(InHand(e, m)') = Cardinality(InHand(e, m)) + IF m = x THEN -1 ELSE 0
    <2>1. IsFiniteSet(InHand(e, m)) /\ Cardinality(InHand(e, m)) \in Nat
        BY HandsAre
    <2>2. CASE m = x
        <3>1. Cardinality(InHand(e, m) \ {me}) = Cardinality(InHand(e, m)) - 1
            BY <1>2, <2>1, <2>2, FS_RemoveElement
        <3>2. PICK i \in Nat : i = Cardinality(InHand(e, m))
            BY <2>1
        <3>3. i - 1 = i + IF m = x THEN -1 ELSE 0
            BY <2>2
        <3> QED BY <1>1, <2>2, <3>1, <3>2, <3>3
    <2>3. CASE m # x
        <3>1. InHand(e, m)' = InHand(e, m)
            BY <1>1, <2>3
        <3> QED BY <2>1, <2>3, <3>1
    <2> QED BY <2>2, <2>3
<1> QED BY <1>1, <1>3 DEF HandMoves

LEMMA ReturnsAccount ==
    ASSUME Books, SettledInv', BlocksInv', Returns
    PROVE  AccountInv'
<1>0. /\ SettledInv /\ SeveralInv /\ TasksInv /\ Typed /\ EventsWell /\ QueuesWell /\ AccountInv /\ Typed'
      /\ tcb \in [Tasks -> TCBs] /\ pc \in [Tasks -> PCs]
    BY BooksHold
<1>1. PICK me \in Live : me = OSTCBCur
    BY <1>0 DEF SettledInv, Scheduled
<1>2. /\ me \in Tasks /\ pc[me].at = "wake"
      /\ pc[me].op \in {"none", "SEM", "MBOX", "Q", "MULTI", "FLAG", "FLAG_CLR", "FLAG_SET"}
    BY <1>0, <1>1 DEF Returns, SemReturn, MboxReturn, QReturn, MutexReturn, MultiReturn, FlagReturn,
                      ReturnFromPend, PCs, Live
<1>3. ~MutexReturn
    BY <1>1, <1>2 DEF MutexReturn, ReturnFromPend
<1>4. /\ pc' = [pc EXCEPT ![OSTCBCur] = InTask] /\ UNCHANGED OSTCBPrioTbl /\ queue' = queue
      /\ \/ event' = event
         \/ \E events : event' = Removed(events)
    BY <1>3 DEF Returns, SemReturn, MboxReturn, QReturn, MultiReturn, FlagReturn, ReturnFromPend, restVars,
                queueVars
<1>5. \A y \in Events : SameStock(y)
    BY <1>0, <1>4, ListsKeepStock
<1>6. pc'[me].at = "task" /\ \A t \in Tasks \ {me} : pc'[t] = pc[t]
    BY <1>0, <1>1, <1>2, <1>4 DEF InTask
<1>7. ~Handed(me)'
    BY <1>6 DEF Handed, Inside
<1>8. ASSUME tcb'[me].prio = tcb[me].prio, \A t \in Tasks \ {me} : tcb'[t] = tcb[t]
      PROVE  Live' = Live /\ \A t \in Live \ {me} : HandKept(t)
    <2>1. Live' = Live
        BY <1>4, <1>8 DEF Live
    <2>2. ASSUME NEW t \in Live, t # me PROVE HandKept(t)
        BY <1>6, <1>8, <2>2 DEF HandKept, Handed, Inside, Pending, Live
    <2> QED BY <2>1, <2>2
<1>9. CASE FlagReturn /\ KeepsOwed
    <2>1. ~Handed(me)
        BY <1>1, <1>9 DEF FlagReturn, Handed
    <2>2. tcb'[me].prio = tcb[me].prio /\ \A t \in Tasks \ {me} : tcb'[t] = tcb[t]
        <3>1. CASE UNCHANGED tcb
            BY <3>1
        <3>2. CASE tcb' = [tcb EXCEPT ![me] = [tcb[me] EXCEPT !.stat = {}, !.pend = "OK"]]
            <4>1. tcb[me] \in TCBs
                BY <1>0, <1>2
            <4> QED BY <1>0, <1>2, <3>2, <4>1 DEF TCBs
        <3> QED BY <1>1, <1>9, <3>1, <3>2 DEF FlagReturn
    <2>3. HandsKept
        BY <1>7, <1>8, <2>1, <2>2 DEF HandsKept, HandKept
    <2> QED BY <1>5, <1>9, <2>3, QuietAccount
<1>10. CASE (SemReturn \/ MboxReturn \/ QReturn \/ MultiReturn) /\ Delivered
    <2>1. tcb' = Rested \/ tcb' = [Rested EXCEPT ![OSTCBCur].msg = Null]
        BY <1>0, <1>10, NotGone DEF SemReturn, MboxReturn, QReturn, MultiReturn, ReturnFromPend
    <2>2. tcb'[me].prio = tcb[me].prio /\ \A t \in Tasks \ {me} : tcb'[t] = tcb[t]
        BY <1>0, <1>1, <1>2, <2>1, RestedBlock
    <2>3. Live' = Live /\ \A t \in Live \ {me} : HandKept(t)
        BY <1>8, <2>2
    <2>4. Woke(OSTCBCur) <=> Handed(me)
        BY <1>0, <1>1, <1>2, HandsAre
    <2>5. CASE ~Handed(me)
        <3>1. HandsKept
            BY <1>7, <2>3, <2>5 DEF HandsKept, HandKept
        <3>2. KeepsOwed
            BY <1>10, <2>4, <2>5 DEF Delivered, KeepsOwed
        <3> QED BY <1>5, <3>1, <3>2, QuietAccount
    <2>6. CASE Handed(me)
        <3>1. PICK e, x : e = tcb[me].ev /\ x = tcb[me].msg
            OBVIOUS
        <3>2. e \in Events /\ x \in Posted
            BY <1>0, <2>6, <3>1, HandsOff
        <3>3. HandMoves(e, x, -1) /\ \A y : y # e => \A m \in Posted : InHand(y, m)' = InHand(y, m)
            BY <1>0, <1>7, <2>3, <2>6, <3>1, GivenAway
        <3>4. \A y \in Events \ {e} : Still(y)
            BY <1>5, <3>3 DEF Still
        <3>5. FieldsWell(e)' /\ StockMoves(e, x, 0)
            BY <1>0, <1>5, <3>2, StillMoves
        <3>6. owed' = [owed EXCEPT ![e][x] = owed[e][x] + (-1)]
            <4>1. owed' = [owed EXCEPT ![e][x] = owed[e][x] - 1]
                BY <1>1, <1>10, <2>4, <2>6, <3>1 DEF Delivered
            <4>2. owed[e][x] \in Int
                BY <1>0, <3>2 DEF AccountInv, OwedTyped
            <4>3. PICK n \in Int : n = owed[e][x]
                BY <4>2
            <4>4. n - 1 = n + (-1)
                OBVIOUS
            <4> QED BY <4>1, <4>3, <4>4, Zenon
        <3>7. 0 \in Int /\ -1 \in Int /\ -1 = 0 + (-1)
            OBVIOUS
        <3> QED BY <1>0, <3>2, <3>3, <3>4, <3>5, <3>6, <3>7, OneAccount
    <2> QED BY <2>5, <2>6
<1> QED BY <1>3, <1>9, <1>10 DEF Returns

(* The scheduler, the timer and the partitions touch no event and no hand. *)
LEMMA OutsideAccount ==
    ASSUME Books, SettledInv', BlocksInv',
           \/ Sched \/ IntExit \/ IntEnter \/ Tick \/ Lock \/ Unlock
           \/ UNCHANGED <<coreVars, queueVars, owed>>
    PROVE  AccountInv'
<1>0. SettledInv /\ pc \in [Tasks -> PCs]
    BY BooksHold
<1>1. KeepsOwed /\ UNCHANGED <<event, queue>>
    BY DEF Sched, IntExit, IntEnter, Tick, Lock, Unlock, Switch, Outside, KeepsOwed, queueVars, coreVars,
           OS_Sched, OSIntExit, OSIntEnter, OSTimeTick, OSSchedLock, OSSchedUnlock
<1>2. UNCHANGED pc => AllGoOn
    BY <1>0 DEF AllGoOn, GoesOn
<1>3. CASE Sched \/ IntExit
    <2>1. AllGoOn
        BY <1>0, <1>3, SwitchersGoOn
    <2> QED BY <1>1, <1>3, <2>1, StayingHands, QuietStock, QuietAccount
        DEF Sched, IntExit, Switch, OS_Sched, OSIntExit
<1>4. CASE Tick
    <2>1. HandsKept
        BY <1>0, <1>4, TickHands DEF Tick
    <2> QED BY <1>1, <2>1, QuietStock, QuietAccount
<1>5. CASE IntEnter \/ Lock \/ UNCHANGED <<coreVars, queueVars, owed>>
    <2>1. UNCHANGED <<pc, tcb, OSTCBPrioTbl>>
        BY <1>5 DEF IntEnter, Lock, OSIntEnter, OSSchedLock, coreVars
    <2> QED BY <1>1, <1>2, <2>1, StayingHands, QuietStock, QuietAccount
<1>6. CASE Unlock
    <2>1. UNCHANGED <<tcb, OSTCBPrioTbl>> /\ (CallSched \/ Return)
        BY <1>6 DEF Unlock, OSSchedUnlock
    <2>2. AllGoOn
        BY <1>0, <1>6, <2>1, MayCalls, CallersGoOn DEF Unlock
    <2> QED BY <1>1, <2>1, <2>2, StayingHands, QuietStock, QuietAccount
<1> QED BY <1>3, <1>4, <1>5, <1>6

-----------------------------------------------------------------------------
(* Every step keeps the books. *)
LEMMA AccountStays ==
    ASSUME Books, Settled, SettledInv', BlocksInv', [Next]_kernelVars
    PROVE  AccountInv'
<1>1. CASE MemCalls \/ UNCHANGED kernelVars
    <2>1. UNCHANGED <<coreVars, queueVars, owed>>
        BY <1>1 DEF MemCalls, kernelVars
    <2> QED BY <2>1, OutsideAccount
<1>2. CASE EventCalls /\ UNCHANGED load
    <2>1. UNCHANGED <<OSTCBFlagNode, load>>
        BY <1>2 DEF EventCalls, flagVars
    <2>2. ~MutexCalls
        BY BooksHold, MayCalls DEF MutexCalls, Settled
    <2> QED BY <1>2, <2>1, <2>2, SemAccount, MboxAccount, QAccount, MultiAccount DEF EventCalls
<1>3. CASE FlagCalls \/ TaskCalls
    BY <1>3, FlagAccount, TaskAccount
<1>4. CASE Returns
    BY <1>4, ReturnsAccount
<1>5. CASE Sched \/ IntExit \/ IntEnter \/ Tick \/ Lock \/ Unlock
    BY <1>5, OutsideAccount
<1> QED BY <1>1, <1>2, <1>3, <1>4, <1>5 DEF Next

LEMMA AccountAtFirst == Init => AccountInv
<1> SUFFICES ASSUME Init PROVE AccountInv
    OBVIOUS
<1>1. SettledInv /\ QueuesWell /\ Typed
    BY SettledAtFirst, BlocksAtFirst DEF SettledInv, TasksInv, BlocksInv
<1>2. load \in DOMAIN Workloads /\ Workload(L)
    BY WorkloadAssumption DEF Init, L
<1>3. event = L.events /\ pc = [t \in Tasks |-> InTask]
      /\ owed = [e \in Events |-> [m \in Posted |-> InStock(e, m)]]
    BY DEF Init, CoreInit, Posted
<1>4. ASSUME NEW e \in Events PROVE FieldsWell(e)
    <2>1. PICK v : v = L.events[e]
        OBVIOUS
    <2>2. /\ v \in [type : EventTypes, cnt : Nat, wait : {{}}, ptr : Messages \cup Queues \cup {Null}]
          /\ v.type = "Q" <=> v.ptr \in Queues
        BY <1>2, <2>1 DEF Workload
    <2>3. v.cnt \in Nat /\ v.ptr \in Messages \cup Queues \cup {Null}
        BY <2>2
    <2> QED BY <1>3, <2>1, <2>2, <2>3 DEF FieldsWell, Sem, Mbox, Posted
<1>5. ASSUME NEW e \in Events, NEW m \in Posted
      PROVE  InStock(e, m) \in Nat /\ InStock(e, m) = InStock(e, m) + Cardinality(InHand(e, m))
    <2>1. InStock(e, m) \in Nat
        BY <1>1, <1>4, StockType DEF StockWell
    <2>2. \A t \in Tasks : ~Handed(t)
        BY <1>3 DEF Handed, Inside, InTask
    <2>3. InHand(e, m) = {}
        BY <1>1, <2>2, HandsAre DEF Live
    <2>4. Cardinality(InHand(e, m)) = 0
        BY <2>3, FS_EmptySet
    <2> QED BY <2>1, <2>4
<1> QED BY <1>3, <1>4, <1>5 DEF AccountInv, OwedTyped, Balanced

(* Every signal and message that a post has accepted is in its event, or   *)
(* in the hand of one task that has been made ready for it, until a caller *)
(* has it: whatever times out, is aborted, deleted, suspended or flushed   *)
(* meanwhile, in every settled application (os_sem.c, os_mbox.c, os_q.c,   *)
(* OS_EventTaskRdy, OSEventPendMulti and OSTimeTick of os_core.c).         *)
THEOREM NothingIsLost == Spec => [](Settled => NothingLostOrInvented)
<1>1. Init => (Settled => AccountInv)
    BY AccountAtFirst
<1>2. ASSUME Settled => AccountInv, Settled => SettledInv /\ SeveralInv, BlocksInv,
             (Settled => SettledInv /\ SeveralInv)', BlocksInv', [Next]_kernelVars
      PROVE  (Settled => AccountInv)'
    <2>1. UNCHANGED load
        BY <1>2 DEF Next, MemCalls, kernelVars
    <2>2. Settled' <=> Settled
        BY <2>1 DEF Settled, CanCall, L
    <2> QED BY <1>2, <2>2, AccountStays DEF Books
<1>3. (Settled => AccountInv) => (Settled => NothingLostOrInvented)
    BY DEF AccountInv, Balanced, NothingLostOrInvented, Posted
<1> QED BY <1>1, <1>2, <1>3, EventAndQueueBlocks, SettledAlways, PTL DEF Spec

-----------------------------------------------------------------------------
(* Event flags.  A wait that consumes flags is not followed by a look for  *)
(* others that wait for the opposite of these flags (OSFlagAccept, the two *)
(* halves of OSFlagPend): the theorem is about applications in which all   *)
(* wait for set flags, or all for cleared ones, or nobody consumes.        *)

OneSense == L.consume \subseteq {FALSE} \/ \A v, w \in L.waitTypes : v.set = w.set

Unmet(t, g) == ~Satisfied(group[g].flags, OSTCBFlagNode[t].want, OSTCBFlagNode[t].type)

FlagsInv ==
    /\ DOMAIN group = Groups
    /\ \A g \in Groups : group[g] = [used |-> group[g].used, flags |-> group[g].flags]
    /\ \A g \in OSFlagFreeList : g \in Groups /\ ~group[g].used
    /\ \A t \in Tasks : \A g \in Groups : t \in FlagWaiters(g) =>
          FlagGroup(g) /\ OSTCBFlagNode[t].type \in L.waitTypes /\ Unmet(t, g)
    /\ \A t \in Tasks :
          /\ pc[t].op = "FLAG_CLR" => TRUE \in L.consume /\ \E v \in L.waitTypes : v.set
          /\ pc[t].op = "FLAG_SET" => TRUE \in L.consume /\ \E v \in L.waitTypes : ~v.set

(* A wait that is not met is not met by fewer flags, or more, as it wants. *)
LEMMA StillUnmet ==
    ASSUME NEW flags, NEW now, NEW want, NEW type, ~Satisfied(flags, want, type),
           IF type.set THEN now \subseteq flags ELSE flags \subseteq now
    PROVE  ~Satisfied(now, want, type)
<1>1. CASE type.set
    <2>1. ReadyFlags(flags, want, type) = want \cap flags /\ ReadyFlags(now, want, type) = want \cap now
        BY <1>1 DEF ReadyFlags
    <2> QED BY <1>1, <2>1 DEF Satisfied
<1>2. CASE ~type.set
    <2>1. /\ ReadyFlags(flags, want, type) = want \cap (Flags \ flags)
          /\ ReadyFlags(now, want, type) = want \cap (Flags \ now)
        BY <1>2 DEF ReadyFlags
    <2> QED BY <1>2, <2>1 DEF Satisfied
<1> QED BY <1>1, <1>2

(* Some waits end, the others are as they were; so are the operations of   *)
(* the calls, but for one that ends.                                       *)
FewerWait == \A t \in Tasks : OSTCBFlagNode'[t] \in {OSTCBFlagNode[t], NoNode}

OpsKept == \A t \in Tasks : pc'[t].op \in {pc[t].op, "none", "SEM", "MBOX", "Q", "MULTI", "FLAG"}

(* A group whose flags change: those who still wait for it wait on.        *)
GroupSteps(g) ==
    \/ group'[g] = group[g]
    \/ /\ group'[g].used = group[g].used /\ group'[g] = [used |-> group[g].used, flags |-> group'[g].flags]
       /\ \A t \in Tasks : t \in FlagWaiters(g)' => Unmet(t, g)'
    \/ /\ ~group[g].used \/ (~group'[g].used /\ FlagWaiters(g)' = {})
       /\ group'[g] = [used |-> group'[g].used, flags |-> group'[g].flags]

LEMMA FlagsStep ==
    ASSUME FlagsInv, UNCHANGED load, FewerWait, OpsKept, DOMAIN group' = Groups,
           \A g \in Groups : GroupSteps(g),
           \A g \in OSFlagFreeList' : g \in Groups /\ ~group'[g].used
    PROVE  FlagsInv'
<1>1. L' = L
    BY DEF L
<1>2. ASSUME NEW t \in Tasks, NEW g \in Groups, (t \in FlagWaiters(g))'
      PROVE  (FlagGroup(g) /\ OSTCBFlagNode[t].type \in L.waitTypes /\ Unmet(t, g))'
    <2>1. OSTCBFlagNode'[t] = OSTCBFlagNode[t] /\ t \in FlagWaiters(g)
        BY <1>2, FlagAssumption DEF FewerWait, FlagWaiters, NoNode
    <2>2. FlagGroup(g) /\ OSTCBFlagNode[t].type \in L.waitTypes /\ Unmet(t, g)
        BY <2>1 DEF FlagsInv
    <2>3. CASE group'[g] = group[g]
        BY <1>1, <2>1, <2>2, <2>3 DEF FlagGroup, Unmet
    <2>4. CASE /\ group'[g].used = group[g].used
               /\ \A x \in Tasks : x \in FlagWaiters(g)' => Unmet(x, g)'
        BY <1>1, <1>2, <2>1, <2>2, <2>4 DEF FlagGroup
    <2> QED BY <1>2, <2>2, <2>3, <2>4 DEF GroupSteps, FlagGroup
<1>3. \A g \in Groups : group'[g] = [used |-> group'[g].used, flags |-> group'[g].flags]
    BY DEF GroupSteps, FlagsInv
<1>4. ASSUME NEW t \in Tasks
      PROVE  /\ pc'[t].op = "FLAG_CLR" => TRUE \in L.consume /\ \E v \in L.waitTypes : v.set
             /\ pc'[t].op = "FLAG_SET" => TRUE \in L.consume /\ \E v \in L.waitTypes : ~v.set
    <2>1. pc'[t].op \in {"FLAG_CLR", "FLAG_SET"} => pc'[t].op = pc[t].op
        BY DEF OpsKept
    <2> QED BY <2>1 DEF FlagsInv
<1> QED BY <1>1, <1>2, <1>3, <1>4 DEF FlagsInv

(* Nothing happens to the groups.                                          *)
LEMMA FlagsRest ==
    ASSUME FlagsInv, UNCHANGED <<load, group, OSFlagFreeList>>, FewerWait, OpsKept
    PROVE  FlagsInv'
BY FlagsStep DEF GroupSteps, FlagsInv

LEMMA OpsGoOn ==
    ASSUME AllGoOn
    PROVE  OpsKept
BY DEF AllGoOn, GoesOn, OpsKept

(* The flags of one group are consumed by a wait of type v. *)
LEMMA ConsumedUnmet ==
    ASSUME FlagsInv, OneSense, TRUE \in L.consume, NEW g \in Groups, NEW v \in L.waitTypes, NEW rdy,
           group'[g].flags = Consumed(group[g].flags, rdy, v), FewerWait
    PROVE  \A t \in Tasks : (t \in FlagWaiters(g))' => Unmet(t, g)'
<1> SUFFICES ASSUME NEW t \in Tasks, (t \in FlagWaiters(g))' PROVE Unmet(t, g)'
    OBVIOUS
<1>1. OSTCBFlagNode'[t] = OSTCBFlagNode[t] /\ t \in FlagWaiters(g)
    BY FlagAssumption DEF FewerWait, FlagWaiters, NoNode
<1>2. OSTCBFlagNode[t].type \in L.waitTypes /\ Unmet(t, g)
    BY <1>1 DEF FlagsInv
<1>3. OSTCBFlagNode[t].type.set = v.set
    BY <1>2 DEF OneSense
<1>4. IF OSTCBFlagNode[t].type.set THEN group'[g].flags \subseteq group[g].flags
                                   ELSE group[g].flags \subseteq group'[g].flags
    BY <1>3 DEF Consumed
<1> QED BY <1>1, <1>2, <1>4, StillUnmet DEF Unmet

(* How a step of a service moves the caller, and only the caller. *)
LEMMA CallEnds ==
    ASSUME pc \in [Tasks -> PCs],
           \/ Return \/ CallSched
           \/ \E op \in {"SEM", "MBOX", "Q", "MULTI", "FLAG"} : \E on : Pended(op, on)
           \/ pc' = [pc EXCEPT ![OSTCBCur] = InTask]
    PROVE  OpsKept
<1>1. CASE Return
    BY <1>1 DEF Return, OpsKept
<1>2. CASE CallSched
    BY <1>2 DEF CallSched, OpsKept, PCs
<1>3. ASSUME NEW op \in {"SEM", "MBOX", "Q", "MULTI", "FLAG"}, NEW on, Pended(op, on) PROVE OpsKept
    BY <1>3 DEF Pended, OpsKept
<1>4. CASE pc' = [pc EXCEPT ![OSTCBCur] = InTask]
    BY <1>4 DEF InTask, OpsKept
<1> QED BY <1>1, <1>2, <1>3, <1>4

(* A wait for flags that the group does not show. *)
LEMMA FlagWaitBegins ==
    ASSUME SettledInv, FlagsInv, UNCHANGED <<load, group, OSFlagFreeList>>, NEW g \in Groups, FlagGroup(g),
           NEW want, NEW type \in L.waitTypes, NEW consume \in L.consume, NEW timeout,
           consume \in BOOLEAN, ~Satisfied(group[g].flags, want, type), OS_FlagBlock(g, want, type, timeout),
           Pended(IF ~consume THEN "FLAG" ELSE IF type.set THEN "FLAG_CLR" ELSE "FLAG_SET", {g})
    PROVE  FlagsInv'
<1>0. PICK me \in Tasks : me = OSTCBCur
    BY DEF SettledInv, Scheduled, Live
<1>1. L' = L /\ pc \in [Tasks -> PCs] /\ OSTCBFlagNode \in [Tasks -> Nodes \cup {NoNode}]
    BY DEF L, SettledInv, TasksInv, Typed
<1>2. /\ OSTCBFlagNode'[me].grp = g /\ OSTCBFlagNode'[me].want = want /\ OSTCBFlagNode'[me].type = type
      /\ \A t \in Tasks \ {me} : OSTCBFlagNode'[t] = OSTCBFlagNode[t]
    BY <1>0, <1>1 DEF OS_FlagBlock
<1>3. ASSUME NEW t \in Tasks, NEW h \in Groups, (t \in FlagWaiters(h))'
      PROVE  (FlagGroup(h) /\ OSTCBFlagNode[t].type \in L.waitTypes /\ Unmet(t, h))'
    <2>1. CASE t = me
        <3>1. h = g
            BY <1>2, <1>3, <2>1 DEF FlagWaiters
        <3> QED BY <1>1, <1>2, <2>1, <3>1 DEF FlagGroup, Unmet
    <2>2. CASE t # me
        <3>1. OSTCBFlagNode'[t] = OSTCBFlagNode[t] /\ t \in FlagWaiters(h)
            BY <1>2, <1>3, <2>2 DEF FlagWaiters
        <3>2. FlagGroup(h) /\ OSTCBFlagNode[t].type \in L.waitTypes /\ Unmet(t, h)
            BY <3>1 DEF FlagsInv
        <3> QED BY <1>1, <3>1, <3>2 DEF FlagGroup, Unmet
    <2> QED BY <2>1, <2>2
<1>4. ASSUME NEW t \in Tasks
      PROVE  /\ pc'[t].op = "FLAG_CLR" => TRUE \in L.consume /\ \E v \in L.waitTypes : v.set
             /\ pc'[t].op = "FLAG_SET" => TRUE \in L.consume /\ \E v \in L.waitTypes : ~v.set
    <2>1. CASE t = me
        <3>1. pc'[me].op = IF ~consume THEN "FLAG" ELSE IF type.set THEN "FLAG_CLR" ELSE "FLAG_SET"
            BY <1>0, <1>1 DEF Pended
        <3> QED BY <2>1, <3>1, Zenon
    <2>2. CASE t # me
        <3>1. pc'[t] = pc[t]
            BY <1>0, <1>1, <2>2 DEF Pended
        <3> QED BY <3>1 DEF FlagsInv
    <2> QED BY <2>1, <2>2
<1> QED BY <1>1, <1>3, <1>4 DEF FlagsInv

LEMMA FlagsWritten ==
    ASSUME FlagsInv, NEW g \in Groups, NEW now, group' = [group EXCEPT ![g].flags = now]
    PROVE  /\ group'[g] = [used |-> group[g].used, flags |-> now] /\ DOMAIN group' = Groups
           /\ \A h \in Groups \ {g} : group'[h] = group[h]
<1>1. DOMAIN group = Groups
    BY DEF FlagsInv
<1>2. PICK used, flags : group[g] = [used |-> used, flags |-> flags]
    BY DEF FlagsInv
<1>3. group'[g] = [group[g] EXCEPT !.flags = now]
    BY <1>1
<1>4. group'[g] = [used |-> used, flags |-> now]
    BY <1>2, <1>3
<1> QED BY <1>1, <1>2, <1>4

(* OSFlagAccept, OSFlagPend: the flags of one group are consumed. *)
LEMMA FlagsTaken ==
    ASSUME FlagsInv, OneSense, UNCHANGED <<load, OSTCBFlagNode, OSFlagFreeList, pc>>, NEW g \in Groups,
           NEW type \in L.waitTypes, TRUE \in L.consume, NEW rdy, FlagGroup(g),
           group' = [group EXCEPT ![g].flags = Consumed(group[g].flags, rdy, type)]
    PROVE  FlagsInv'
<1> DEFINE now == Consumed(group[g].flags, rdy, type)
<1>1. FewerWait /\ OpsKept
    BY DEF FewerWait, OpsKept
<1> HIDE DEF now
<1>4. /\ group'[g] = [used |-> group[g].used, flags |-> now] /\ DOMAIN group' = Groups
      /\ \A h \in Groups \ {g} : group'[h] = group[h]
    BY FlagsWritten DEF now
<1>5. group'[g].flags = Consumed(group[g].flags, rdy, type)
    BY <1>4 DEF now
<1>6. \A t \in Tasks : (t \in FlagWaiters(g))' => Unmet(t, g)'
    BY <1>1, <1>5, ConsumedUnmet
<1>7. GroupSteps(g)
    BY <1>4, <1>6 DEF GroupSteps
<1>8. \A h \in Groups : GroupSteps(h)
    BY <1>4, <1>7 DEF GroupSteps
<1>9. \A h \in OSFlagFreeList' : h \in Groups /\ ~group'[h].used
    BY <1>4 DEF FlagsInv, FlagGroup
<1> QED BY <1>1, <1>4, <1>8, <1>9, FlagsStep

(* OS_FlagTaskRdy, for those whose wait is over with the flags g has now.  *)
LEMMA FlagsPosted ==
    ASSUME SettledInv, FlagsInv, UNCHANGED <<load, OSFlagFreeList>>, NEW g \in Groups, FlagGroup(g), NEW now,
           group' = [group EXCEPT ![g].flags = now], NEW woken, woken = Awaited(g, now),
           NEW rdy, OS_FlagTaskRdy(woken, rdy), Return \/ CallSched
    PROVE  FlagsInv'
<1>1. FewerWait /\ \A t \in Tasks : t \in woken => OSTCBFlagNode'[t] = NoNode
    BY DEF OS_FlagTaskRdy, FewerWait
<1>2. OpsKept
    BY CallEnds DEF SettledInv, TasksInv, Typed
<1>3. /\ group'[g] = [used |-> group[g].used, flags |-> now] /\ DOMAIN group' = Groups
      /\ \A h \in Groups \ {g} : group'[h] = group[h]
    BY FlagsWritten
<1>4. ASSUME NEW t \in Tasks, (t \in FlagWaiters(g))' PROVE Unmet(t, g)'
    <2>1. OSTCBFlagNode'[t] = OSTCBFlagNode[t] /\ t \in FlagWaiters(g) /\ t \notin woken
        BY <1>1, <1>4, FlagAssumption DEF FewerWait, FlagWaiters, NoNode
    <2>2. ~Satisfied(now, OSTCBFlagNode[t].want, OSTCBFlagNode[t].type)
        BY <2>1 DEF Awaited
    <2> QED BY <1>3, <2>1, <2>2 DEF Unmet
<1>5. \A h \in Groups : GroupSteps(h)
    BY <1>3, <1>4 DEF GroupSteps
<1>6. \A h \in OSFlagFreeList' : h \in Groups /\ ~group'[h].used
    BY <1>3 DEF FlagsInv, FlagGroup
<1> QED BY <1>1, <1>2, <1>3, <1>5, <1>6, FlagsStep

(* OSFlagCreate, OSFlagDel: a group begins, or ends with nobody waiting.   *)
LEMMA FlagsRenewed ==
    ASSUME SettledInv, FlagsInv, UNCHANGED load, FewerWait, Return \/ CallSched, NEW g \in Groups,
           NEW used, NEW flags, group' = [group EXCEPT ![g] = [used |-> used, flags |-> flags]],
           ~FlagGroup(g) \/ (~used /\ FlagWaiters(g)' = {}),
           \A h \in OSFlagFreeList' : h \in OSFlagFreeList \/ (h = g /\ ~used),
           used => g \notin OSFlagFreeList'
    PROVE  FlagsInv'
<1>1. OpsKept
    BY CallEnds DEF SettledInv, TasksInv, Typed
<1>2. /\ group'[g] = [used |-> used, flags |-> flags] /\ DOMAIN group' = Groups
      /\ \A h \in Groups \ {g} : group'[h] = group[h]
    BY DEF FlagsInv
<1>3. \A h \in Groups : GroupSteps(h)
    BY <1>2 DEF GroupSteps, FlagGroup
<1>4. \A h \in OSFlagFreeList' : h \in Groups /\ ~group'[h].used
    BY <1>2 DEF FlagsInv
<1> QED BY <1>1, <1>2, <1>3, <1>4, FlagsStep

LEMMA FlagCallsFlags ==
    ASSUME SettledInv, FlagsInv, OneSense, FlagCalls, UNCHANGED load
    PROVE  FlagsInv'
<1>1. PICK g \in Groups, want \in L.wants :
          \/ May("OSFlagAccept") /\ \E type \in L.waitTypes, consume \in L.consume : OSFlagAccept(g, want, type, consume)
          \/ /\ May("OSFlagPend")
             /\ \E type \in L.waitTypes, consume \in L.consume, timeout \in L.timeouts :
                   OSFlagPend(g, want, type, consume, timeout)
          \/ May("OSFlagPost") /\ \E set \in BOOLEAN : OSFlagPost(g, want, set)
          \/ May("OSFlagCreate") /\ OSFlagCreate(g, want)
          \/ May("OSFlagDel") /\ \E always : OSFlagDel(g, always)
    BY DEF FlagCalls
<1>2. L.consume \subseteq BOOLEAN
    BY Arguments DEF Workload
<1>3. ASSUME NEW type \in L.waitTypes, NEW consume \in L.consume, OSFlagAccept(g, want, type, consume)
      PROVE  FlagsInv'
    <2>1. PICK rdy : rdy = ReadyFlags(group[g].flags, want, type)
        OBVIOUS
    <2>2. group' = [group EXCEPT ![g].flags = Consumed(group[g].flags, rdy, type)]
        BY <1>3, <2>1 DEF OSFlagAccept
    <2>3. TRUE \in L.consume /\ FlagGroup(g) /\ UNCHANGED <<OSTCBFlagNode, OSFlagFreeList, pc>>
        <3>1. consume /\ FlagGroup(g) /\ UNCHANGED <<OSTCBFlagNode, OSFlagFreeList, pc>>
            BY <1>3 DEF OSFlagAccept, Return
        <3>2. consume = TRUE
            BY <1>2, <3>1
        <3> QED BY <3>1, <3>2
    <2> QED BY <2>2, <2>3, FlagsTaken
<1>4. ASSUME NEW type \in L.waitTypes, NEW consume \in L.consume, NEW timeout,
             OSFlagPend(g, want, type, consume, timeout)
      PROVE  FlagsInv'
    <2>1. FlagGroup(g) /\ UNCHANGED <<OSFlagFreeList, load>> /\ consume \in BOOLEAN
        BY <1>2, <1>4 DEF OSFlagPend
    <2>2. CASE ~Satisfied(group[g].flags, want, type)
        <3>1. /\ OS_FlagBlock(g, want, type, timeout) /\ UNCHANGED group
              /\ Pended(IF ~consume THEN "FLAG" ELSE IF type.set THEN "FLAG_CLR" ELSE "FLAG_SET", {g})
            BY <1>4, <2>2 DEF OSFlagPend
        <3> QED BY <2>1, <2>2, <3>1, FlagWaitBegins
    <2>3. CASE Satisfied(group[g].flags, want, type)
        <3>1. PICK rdy : rdy = ReadyFlags(group[g].flags, want, type)
            OBVIOUS
        <3>2. /\ group' = IF consume THEN [group EXCEPT ![g].flags = Consumed(group[g].flags, rdy, type)] ELSE group
              /\ UNCHANGED <<OSTCBFlagNode, pc>>
            BY <1>4, <2>3, <3>1 DEF OSFlagPend, Return
        <3>3. CASE consume = TRUE
            BY <2>1, <3>2, <3>3, FlagsTaken
        <3>4. CASE ~consume
            BY <2>1, <3>2, <3>4, FlagsRest DEF FewerWait, OpsKept
        <3> QED BY <2>1, <3>3, <3>4
    <2> QED BY <2>2, <2>3
<1>5. ASSUME NEW set, OSFlagPost(g, want, set) PROVE FlagsInv'
    <2>1. PICK now : now = IF set THEN group[g].flags \cup want ELSE group[g].flags \ want
        OBVIOUS
    <2>2. PICK woken, rdy : woken = Awaited(g, now) /\ OS_FlagTaskRdy(woken, rdy) /\ (CallSched \/ Return)
        BY <1>5, <2>1 DEF OSFlagPost
    <2>3. FlagGroup(g) /\ group' = [group EXCEPT ![g].flags = now] /\ UNCHANGED OSFlagFreeList
        BY <1>5, <2>1 DEF OSFlagPost
    <2> QED BY <2>2, <2>3, FlagsPosted
<1>6. CASE OSFlagCreate(g, want)
    <2>1. /\ g \in OSFlagFreeList /\ OSFlagFreeList' = OSFlagFreeList \ {g} /\ Return
          /\ group' = [group EXCEPT ![g] = [used |-> TRUE, flags |-> want]] /\ FewerWait
        BY <1>6 DEF OSFlagCreate, FewerWait
    <2>2. ~FlagGroup(g)
        BY <2>1 DEF FlagsInv, FlagGroup
    <2> QED BY <2>1, <2>2, FlagsRenewed
<1>7. ASSUME NEW always, OSFlagDel(g, always) PROVE FlagsInv'
    <2>1. PICK woken, rdy : woken = FlagWaiters(g) /\ OS_FlagTaskRdy(woken, rdy) /\ (CallSched \/ Return)
        BY <1>7 DEF OSFlagDel
    <2>2. FewerWait /\ \A t \in Tasks : t \in woken => OSTCBFlagNode'[t] = NoNode
        BY <2>1 DEF OS_FlagTaskRdy, FewerWait
    <2>3. FlagWaiters(g)' = {}
        <3>1. ASSUME NEW t \in Tasks, OSTCBFlagNode'[t].grp = g PROVE FALSE
            <4>1. OSTCBFlagNode'[t] = OSTCBFlagNode[t] /\ OSTCBFlagNode[t].grp = g
                BY <2>2, <3>1, FlagAssumption DEF FewerWait, NoNode
            <4>2. t \in woken /\ NoNode.grp # g
                BY <2>1, <4>1, FlagAssumption DEF FlagWaiters, NoNode
            <4> QED BY <2>2, <3>1, <4>2
        <3> QED BY <3>1 DEF FlagWaiters
    <2>4. /\ group' = [group EXCEPT ![g] = [used |-> FALSE, flags |-> {}]]
          /\ OSFlagFreeList' = OSFlagFreeList \cup {g}
        BY <1>7 DEF OSFlagDel
    <2> QED BY <2>1, <2>2, <2>3, <2>4, FlagsRenewed
<1> QED BY <1>1, <1>3, <1>4, <1>5, <1>6, <1>7

(* The second half of OSFlagPend.                                          *)
LEMMA FlagReturnFlags ==
    ASSUME SettledInv, FlagsInv, OneSense, FlagReturn, UNCHANGED load
    PROVE  FlagsInv'
<1>0. PICK me \in Tasks : me = OSTCBCur
    BY DEF SettledInv, Scheduled, Live
<1>1. OpsKept
    BY CallEnds DEF SettledInv, TasksInv, Typed, FlagReturn
<1>2. FewerWait
    BY <1>0 DEF FewerWait, FlagReturn, SettledInv, TasksInv, Typed
<1>3. CASE UNCHANGED group
    BY <1>1, <1>2, <1>3, FlagsRest DEF FlagReturn
<1>4. CASE tcb[OSTCBCur].pend = "OK"
    <2>1. PICK op \in {"FLAG", "FLAG_CLR", "FLAG_SET"} : op = pc[me].op
        BY <1>0 DEF FlagReturn
    <2>2. PICK rdy : rdy = OSTCBFlagsRdy[me]
        OBVIOUS
    <2>3. /\ group' = [g \in Groups |->
                 IF g \notin pc[me].on THEN group[g]
                 ELSE CASE op = "FLAG"     -> group[g]
                        [] op = "FLAG_CLR" -> [group[g] EXCEPT !.flags = group[g].flags \ rdy]
                        [] op = "FLAG_SET" -> [group[g] EXCEPT !.flags = group[g].flags \cup rdy]]
          /\ UNCHANGED OSFlagFreeList
        BY <1>0, <1>4, <2>1, <2>2 DEF FlagReturn
    <2>4. ASSUME NEW g \in Groups
          PROVE  /\ group'[g].used = group[g].used
                 /\ group'[g] = [used |-> group[g].used, flags |-> group'[g].flags]
                 /\ GroupSteps(g)
        <3>1. PICK used, flags : group[g] = [used |-> used, flags |-> flags]
            BY DEF FlagsInv
        <3>2. CASE group'[g] = group[g]
            BY <3>1, <3>2 DEF GroupSteps
        <3>3. ASSUME NEW v \in L.waitTypes, TRUE \in L.consume, NEW now, now = Consumed(flags, rdy, v),
                     group'[g] = [group[g] EXCEPT !.flags = now]
              PROVE  /\ group'[g].used = group[g].used
                     /\ group'[g] = [used |-> group[g].used, flags |-> group'[g].flags]
                     /\ GroupSteps(g)
            <4>1. group'[g] = [used |-> used, flags |-> now]
                BY <3>1, <3>3
            <4>2. \A t \in Tasks : (t \in FlagWaiters(g))' => Unmet(t, g)'
                BY <1>2, <3>1, <3>3, <4>1, ConsumedUnmet
            <4> QED BY <3>1, <4>1, <4>2 DEF GroupSteps
        <3>4. CASE op = "FLAG_CLR" /\ g \in pc[me].on
            <4>1. PICK v \in L.waitTypes : v.set
                BY <2>1, <3>4 DEF FlagsInv
            <4>2. Consumed(flags, rdy, v) = flags \ rdy /\ TRUE \in L.consume
                BY <2>1, <3>4, <4>1 DEF Consumed, FlagsInv
            <4>3. group'[g] = [group[g] EXCEPT !.flags = group[g].flags \ rdy]
                BY <2>3, <3>4
            <4>4. group[g].flags = flags
                BY <3>1
            <4> QED BY <3>3, <4>2, <4>3, <4>4
        <3>5. CASE op = "FLAG_SET" /\ g \in pc[me].on
            <4>1. PICK v \in L.waitTypes : ~v.set
                BY <2>1, <3>5 DEF FlagsInv
            <4>2. Consumed(flags, rdy, v) = flags \cup rdy /\ TRUE \in L.consume
                BY <2>1, <3>5, <4>1 DEF Consumed, FlagsInv
            <4>3. group'[g] = [group[g] EXCEPT !.flags = group[g].flags \cup rdy]
                BY <2>3, <3>5
            <4>4. group[g].flags = flags
                BY <3>1
            <4> QED BY <3>3, <4>2, <4>3, <4>4
        <3>6. CASE op = "FLAG" \/ g \notin pc[me].on
            <4>1. group'[g] = group[g]
                BY <2>3, <3>6
            <4> QED BY <3>2, <4>1
        <3> QED BY <3>4, <3>5, <3>6
    <2>5. DOMAIN group' = Groups
        BY <2>3
    <2>6. \A g \in OSFlagFreeList' : g \in Groups /\ ~group'[g].used
        BY <2>3, <2>4 DEF FlagsInv
    <2> QED BY <1>1, <1>2, <2>4, <2>5, <2>6, FlagsStep
<1> QED BY <1>3, <1>4 DEF FlagReturn

(* Every step but these leaves the groups and who waits for them alone. *)
LEMMA OtherCallsFlags ==
    ASSUME SettledInv, Settled, FlagsInv, UNCHANGED load,
           (EventCalls /\ ~MutexCalls) \/ TaskCalls \/ (Returns /\ ~FlagReturn)
    PROVE  FlagsInv'
<1>1. pc \in [Tasks -> PCs]
    BY DEF SettledInv, TasksInv, Typed
<1>2. CASE SemCalls /\ UNCHANGED flagVars
    <2>1. Return \/ CallSched \/ \E e : Pended("SEM", {e})
        BY <1>2 DEF SemCalls, OSSemAccept, OSSemPend, OSSemPost, OSSemPendAbort, PendAbort, OSSemSet,
                    OSSemCreate, CreateEvent, OSSemDel, DeleteEvent
    <2> QED BY <1>1, <1>2, <2>1, CallEnds, FlagsRest DEF flagVars, FewerWait
<1>3. CASE MboxCalls /\ UNCHANGED flagVars
    <2>1. PICK e, timeout, m, broadcast, sched :
              \/ OSMboxAccept(e) \/ OSMboxPend(e, timeout) \/ OSMboxPostOpt(e, m, broadcast, sched)
              \/ PendAbort("MBOX", e, broadcast) \/ CreateEvent(e, m) \/ DeleteEvent("MBOX", e, broadcast)
        BY <1>3 DEF MboxCalls, OSMboxPost, OSMboxPendAbort, OSMboxCreate, OSMboxDel
    <2>2. Return \/ CallSched \/ Pended("MBOX", {e})
        BY <2>1 DEF OSMboxAccept, OSMboxPend, OSMboxPostOpt, PendAbort, CreateEvent, DeleteEvent
    <2> QED BY <1>1, <1>3, <2>2, CallEnds, FlagsRest DEF flagVars, FewerWait
<1>4. CASE QCalls /\ UNCHANGED flagVars
    <2>1. PICK e, timeout, m, broadcast, front, sched :
              \/ OSQAccept(e) \/ OSQPend(e, timeout) \/ OSQPostOpt(e, m, broadcast, front, sched) \/ OSQFlush(e)
              \/ PendAbort("Q", e, broadcast) \/ CreateEvent(e, m) \/ DeleteEvent("Q", e, broadcast)
        BY <1>4 DEF QCalls, OSQPost, OSQPostFront, OSQPendAbort, OSQCreate, OSQDel
    <2>2. Return \/ CallSched \/ Pended("Q", {e})
        BY <2>1 DEF OSQAccept, OSQPend, OSQPostOpt, OSQFlush, PendAbort, CreateEvent, DeleteEvent
    <2> QED BY <1>1, <1>4, <2>2, CallEnds, FlagsRest DEF flagVars, FewerWait
<1>5. CASE MultiCalls /\ UNCHANGED flagVars
    <2>1. Return \/ Pended("MULTI", Events)
        BY <1>5 DEF MultiCalls, OSEventPendMulti
    <2> QED BY <1>1, <1>5, <2>1, CallEnds, FlagsRest DEF flagVars, FewerWait
<1>6. CASE TaskCalls
    <2>1. ~May("OSTaskChangePrio") /\ ~May("OSTaskCreate") /\ ~May("OSTaskDel")
        BY MayCalls DEF Settled
    <2>2. ~OS_TCBInit /\ ~TaskDelEnd
        <3>1. pc[OSTCBCur].at \in {"task", "sched", "pended", "wake"}
            BY DEF SettledInv, TasksInv, Typed, PCs, Scheduled, Live
        <3> QED BY <3>1 DEF OS_TCBInit, TaskDelEnd
    <2>3. UNCHANGED flagVars /\ (Return \/ CallSched)
        BY <1>6, <2>1, <2>2
        DEF TaskCalls, OSTaskSuspend, OSTaskResume, OSTimeDlyResume, OSTaskDelReq, OSTimeDly
    <2> QED BY <1>1, <2>3, CallEnds, FlagsRest DEF flagVars, FewerWait
<1>7. CASE Returns /\ ~FlagReturn
    <2>1. UNCHANGED flagVars /\ pc' = [pc EXCEPT ![OSTCBCur] = InTask]
        BY <1>7 DEF Returns, SemReturn, MboxReturn, QReturn, MutexReturn, MultiReturn, ReturnFromPend
    <2> QED BY <1>1, <2>1, CallEnds, FlagsRest DEF flagVars, FewerWait
<1> QED BY <1>2, <1>3, <1>4, <1>5, <1>6, <1>7 DEF EventCalls

LEMMA FlagsInvStays ==
    ASSUME SettledInv, Settled, FlagsInv, OneSense, [Next]_kernelVars
    PROVE  FlagsInv'
<1>1. CASE FlagCalls /\ UNCHANGED load
    BY <1>1, FlagCallsFlags
<1>2. CASE (EventCalls \/ TaskCalls) /\ UNCHANGED load
    <2>1. ~MutexCalls
        BY MayCalls DEF MutexCalls, Settled
    <2> QED BY <1>2, <2>1, OtherCallsFlags
<1>3. CASE Returns /\ UNCHANGED load
    BY <1>3, FlagReturnFlags, OtherCallsFlags
<1>4. CASE (Sched \/ IntExit) /\ UNCHANGED load
    <2>1. UNCHANGED flagVars
        BY <1>4 DEF Sched, IntExit, Switch
    <2>2. OpsKept
        BY <1>4, SwitchersGoOn, OpsGoOn
    <2> QED BY <1>4, <2>1, <2>2, FlagsRest DEF flagVars, FewerWait
<1>5. CASE (IntEnter \/ Tick \/ Lock \/ Unlock) /\ UNCHANGED load
    <2>1. UNCHANGED flagVars /\ (Return \/ CallSched) /\ pc \in [Tasks -> PCs]
        BY <1>5 DEF IntEnter, Tick, Lock, Unlock, OSIntEnter, OSTimeTick, OSSchedLock, OSSchedUnlock, Outside,
                    Return, SettledInv, TasksInv, Typed
    <2>2. OpsKept
        BY <2>1, CallEnds
    <2> QED BY <1>5, <2>1, <2>2, FlagsRest DEF flagVars, FewerWait
<1>6. CASE MemCalls \/ UNCHANGED kernelVars
    <2>1. UNCHANGED <<flagVars, pc, load>>
        BY <1>6 DEF MemCalls, kernelVars, coreVars
    <2> QED BY <2>1, FlagsRest DEF flagVars, FewerWait, OpsKept
<1> QED BY <1>1, <1>2, <1>3, <1>4, <1>5, <1>6 DEF Next

LEMMA FlagsAtFirst == Init => FlagsInv
<1> SUFFICES ASSUME Init PROVE FlagsInv
    OBVIOUS
<1>1. Workload(L) /\ FlagInit(L.groups) /\ pc = [t \in Tasks |-> InTask]
    BY WorkloadAssumption DEF Init, L, CoreInit
<1>2. group \in [Groups -> [used : BOOLEAN, flags : SUBSET Flags]]
    BY <1>1 DEF FlagInit, Workload
<1>3. \A g \in OSFlagFreeList : g \in Groups /\ ~group[g].used
    BY <1>1 DEF FlagInit
<1>4. \A t \in Tasks : \A g \in Groups : t \notin FlagWaiters(g)
    BY <1>1, FlagAssumption DEF FlagInit, FlagWaiters, NoNode
<1>5. \A t \in Tasks : pc[t].op = "none"
    BY <1>1 DEF InTask
<1> QED BY <1>2, <1>3, <1>4, <1>5 DEF FlagsInv

LEMMA WhoWaitsForFlags ==
    ASSUME SettledInv, FlagsInv
    PROVE  NoMissedFlags
<1> SUFFICES ASSUME NEW t \in Live, NEW g \in Groups
             PROVE  /\ t \in FlagWaiters(g) =>
                          /\ FlagGroup(g) /\ pc[t].at \in {"pended", "wake"} /\ g \in pc[t].on
                          /\ "FLAG" \in tcb[t].stat \/ tcb[t].pend = "TO"
                          /\ Unmet(t, g)
                    /\ "FLAG" \in tcb[t].stat /\ g \in pc[t].on => t \in FlagWaiters(g)
    BY DEF NoMissedFlags, Unmet
<1>1. t \in Tasks /\ TaskWell(t) /\ g # Null /\ g \notin Events
    BY FlagAssumption DEF SettledInv, TasksInv, Live
<1>2. ASSUME t \in FlagWaiters(g)
      PROVE  /\ FlagGroup(g) /\ pc[t].at \in {"pended", "wake"} /\ g \in pc[t].on
             /\ "FLAG" \in tcb[t].stat \/ tcb[t].pend = "TO"
             /\ Unmet(t, g)
    <2>1. FlagGroup(g) /\ Unmet(t, g)
        BY <1>1, <1>2 DEF FlagsInv
    <2>2. OSTCBFlagNode[t].grp = g /\ OSTCBFlagNode[t] # NoNode
        BY <1>1, <1>2 DEF FlagWaiters, NoNode
    <2>3. OnFlags(t)
        BY <1>1, <2>2 DEF TaskWell, AtEase, OnOne, OnSeveral
    <2>4. pc[t].on = {g} /\ ("FLAG" \in Pending(t) \/ tcb[t].pend = "TO")
        BY <2>2, <2>3 DEF OnFlags, TimedOutNow
    <2> QED BY <2>1, <2>3, <2>4 DEF OnFlags, Inside, Pending
<1>3. ASSUME "FLAG" \in tcb[t].stat, g \in pc[t].on PROVE t \in FlagWaiters(g)
    <2>1. OnFlags(t)
        BY <1>1, <1>3 DEF TaskWell, AtEase, OnOne, OnSeveral
    <2>2. PICK h \in Groups : /\ pc[t].on = {h}
                              /\ OSTCBFlagNode[t].grp = h \/ Pending(t) = {}
        BY <2>1 DEF OnFlags
    <2>3. h = g /\ Pending(t) # {}
        BY <1>3, <2>2 DEF Pending, PendBits
    <2> QED BY <1>1, <2>2, <2>3 DEF FlagWaiters
<1> QED BY <1>2, <1>3

(* No task stays in the list of a group that shows the flags it waits for, *)
(* and each one that waits is in the list of its group (OSFlagPost,        *)
(* OSFlagPend and OS_FlagTaskRdy of os_flag.c; OSTimeTick; OSTaskSuspend), *)
(* in every settled application whose waits that consume have one sense.   *)
THEOREM NoFlagsAreMissed == Spec => [](Settled /\ OneSense => NoMissedFlags)
<1>1. Init => (Settled /\ OneSense => FlagsInv)
    BY FlagsAtFirst
<1>2. ASSUME Settled /\ OneSense => FlagsInv, Settled => SettledInv, [Next]_kernelVars
      PROVE  (Settled /\ OneSense => FlagsInv)'
    <2>1. UNCHANGED load
        BY <1>2 DEF Next, MemCalls, kernelVars
    <2>2. (Settled' <=> Settled) /\ (OneSense' <=> OneSense)
        BY <2>1 DEF Settled, OneSense, CanCall, L
    <2> QED BY <1>2, <2>2, FlagsInvStays
<1>3. (Settled /\ OneSense => FlagsInv) /\ (Settled => SettledInv) => (Settled /\ OneSense => NoMissedFlags)
    BY WhoWaitsForFlags
<1> QED BY <1>1, <1>2, <1>3, SettledAlways, PTL DEF Spec

-----------------------------------------------------------------------------
(* Applications that share mutexes and semaphores.  Their tasks are created*)
(* before OSStart and wait, sleep and post in any order.  One that may own *)
(* a mutex waits for a semaphore without a timeout only (os_mutex.c 393,   *)
(* Note 1, would not have it wait at all).  A mutex is free at first, has  *)
(* a priority of its own, and this is higher than that of all who compete  *)
(* for it (os_mutex.c 140).                                                *)

MemServices == {"OSMemCreate", "OSMemGet", "OSMemPut"}

Members     == DOMAIN L.prio
Competes(t) == L.menu[t] \cap {"OSMutexAccept", "OSMutexPend"} # {}
PipOf(e)    == L.events[e].cnt \div 256
IsMutex(e)  == L.events[e].type = "MUTEX"

MutexesSetUp ==
    \A e \in Events : IsMutex(e) =>
        /\ L.events[e].cnt = 256 * PipOf(e) + OS_MUTEX_AVAILABLE /\ L.events[e].ptr = Null
        /\ PipOf(e) \in Prios
        /\ \A t \in Members : L.prio[t] # PipOf(e) /\ (Competes(t) => PipOf(e) < L.prio[t])
        /\ \A d \in Events : IsMutex(d) /\ PipOf(d) = PipOf(e) => d = e

Sharing ==
    /\ L.handler \subseteq {"OSTimeTick", "OSSemAccept", "OSSemPost"} \cup MemServices
    /\ \A t \in Tasks :
          /\ L.menu[t] \subseteq {"OSMutexAccept", "OSMutexPend", "OSMutexPost", "OSSemAccept",
                                  "OSSemPend", "OSSemPost", "OSTimeDly"} \cup MemServices
          /\ Competes(t) /\ "OSSemPend" \in L.menu[t] => L.timeouts = {0}
    /\ OS_LOWEST_PRIO < OS_MUTEX_AVAILABLE
    /\ MutexesSetUp

SharedPCs == [at : {"task", "sched", "pended", "wake"}, op : {"none", "SEM", "MUTEX"},
              on : SUBSET Events]

SharedTyped ==
    /\ load \in DOMAIN Workloads
    /\ tcb \in [Tasks -> TCBs] /\ pc \in [Tasks -> SharedPCs]
    /\ OSTCBPrioTbl \in [Prios -> Tasks \cup {Null, Reserved}]
    /\ \A t \in Tasks \ Members : tcb[t].prio \notin Prios
    /\ OSRdyTbl \subseteq PriosOf(Members)
    /\ \A e \in Events : /\ event[e].type = L.events[e].type /\ event[e].cnt \in Nat
                         /\ event[e].wait \subseteq PriosOf(Members)

(* Where a task is: at ease, in the list of the one event it waits for, or *)
(* out of it again with what it waited for.  Who waits for a mutex owns    *)
(* none.                                                                   *)
Owns(t, e) == Mutex(e) /\ event[e].ptr = t

Resting(t) ==
    /\ pc[t].at \in {"task", "sched"}
    /\ tcb[t].stat = {} /\ tcb[t].ev = Null /\ In(t) = {}

Queued(t) ==
    /\ In(t) = {tcb[t].ev}
    /\ \/ tcb[t].stat = {pc[t].op} /\ tcb[t].pend = "OK"
       \/ tcb[t].stat = {} /\ tcb[t].dly = 0 /\ tcb[t].pend = "TO"
    /\ pc[t].op = "MUTEX" => Competes(t) /\ \A e \in Events : ~Owns(t, e)
    /\ pc[t].op = "SEM" /\ Competes(t) => tcb[t].stat = {"SEM"} /\ tcb[t].dly = 0

HandedOver(t) ==
    /\ In(t) = {} /\ tcb[t].stat = {} /\ tcb[t].dly = 0 /\ tcb[t].pend = "OK"
    /\ pc[t].op = "MUTEX" => Owns(t, tcb[t].ev)

Awaiting(t) ==
    /\ Inside(t) /\ pc[t].op \in {"SEM", "MUTEX"} /\ pc[t].on = {tcb[t].ev} /\ tcb[t].ev \in Events
    /\ event[tcb[t].ev].type = pc[t].op
    /\ Queued(t) \/ HandedOver(t)

Unkept(t) == tcb[t].stat = {} /\ tcb[t].dly = 0

(* Its priority: its own, or that of the mutex it owns.                    *)
RankWell(t) ==
    /\ OSTCBPrioTbl[L.prio[t]] = t /\ OSTCBPrioTbl[tcb[t].prio] = t
    /\ tcb[t].prio = L.prio[t] \/ \E e \in Events : Owns(t, e) /\ tcb[t].prio = PipOf(e)

MemberWell(t) ==
    /\ Resting(t) \/ Awaiting(t)
    /\ tcb[t].multi = {}
    /\ tcb[t].prio \in OSRdyTbl <=> Unkept(t)
    /\ RankWell(t)

(* A mutex nobody has, and one somebody has.                               *)
Unowned(e) ==
    /\ event[e].ptr = Null /\ OwnerPrio(e) = OS_MUTEX_AVAILABLE
    /\ event[e].wait = {} /\ OSTCBPrioTbl[PipOf(e)] = Reserved

OwnedBy(e, t) ==
    /\ Competes(t) /\ event[e].ptr = t /\ OwnerPrio(e) = L.prio[t]
    /\ tcb[t].prio # PipOf(e) => OSTCBPrioTbl[PipOf(e)] = Reserved
    /\ \A p \in event[e].wait : tcb[t].prio < p
    /\ \A d \in Events : Owns(t, d) => d = e

MutexWell(e) ==
    /\ Pip(e) = PipOf(e)
    /\ Unowned(e) \/ \E t \in Members : OwnedBy(e, t)

(* The scheduler knows the priority of the task that runs, or the one from *)
(* which it has just been lowered.                                         *)
Spare(e) ==
    /\ OSTCBPrioTbl[PipOf(e)] = Reserved
    /\ pc[OSTCBCur].at # "sched" => event[e].ptr \in {Null, OSTCBCur}

Current ==
    \/ OSPrioCur = tcb[OSTCBCur].prio
    \/ \E e \in Events : Mutex(e) /\ OSPrioCur = PipOf(e) /\ Spare(e)

Running ==
    /\ OSTCBCur \in Members
    /\ OSIntNesting \in 0 .. 1 /\ OSLockNesting = 0 /\ lazy \in BOOLEAN
    /\ IdleTask \in Members /\ tcb[IdleTask].dly = 0 /\ pc[IdleTask].at = "task"
    /\ Current
    /\ Runs => tcb[OSTCBCur].prio \in OSRdyTbl
    /\ Runs /\ ~lazy => OSPrioCur = Highest(OSRdyTbl)

MembersWell == \A t \in Members : MemberWell(t)
MutexesWell == \A e \in Events : Mutex(e) => MutexWell(e)

PlacesInv  == Sharing /\ SharedTyped /\ MembersWell /\ MutexesWell
SharingInv == PlacesInv /\ Running

-----------------------------------------------------------------------------
(* Facts about such an application. *)

LEMMA SharedFacts ==
    ASSUME PlacesInv
    PROVE  /\ load \in DOMAIN Workloads /\ Workload(L)
           /\ Live = Members /\ Members \subseteq Tasks /\ tcb \in [Tasks -> TCBs]
           /\ \A t \in Members : /\ L.prio[t] \in Prios /\ tcb[t].prio \in Prios
                                 /\ OSTCBPrioTbl[L.prio[t]] = t /\ OSTCBPrioTbl[tcb[t].prio] = t
           /\ \A t, u \in Members : tcb[t].prio = tcb[u].prio \/ L.prio[t] = L.prio[u]
                                    \/ tcb[t].prio = L.prio[u] => t = u
           /\ OSRdyTbl \in SUBSET Nat /\ \A e \in Events : event[e].wait \in SUBSET Nat
           /\ PriosOf(Members) \subseteq Prios
<1>1. load \in DOMAIN Workloads /\ Workload(L)
    BY WorkloadAssumption DEF PlacesInv, SharedTyped, L
<1>2. Members \subseteq Tasks /\ tcb \in [Tasks -> TCBs]
    BY <1>1 DEF PlacesInv, SharedTyped, Workload, Members
<1>3. ASSUME NEW t \in Members
      PROVE  /\ L.prio[t] \in Prios /\ tcb[t].prio \in Prios
             /\ OSTCBPrioTbl[L.prio[t]] = t /\ OSTCBPrioTbl[tcb[t].prio] = t
    <2>1. L.prio \in [Members -> Prios]
        BY <1>1 DEF Workload, Injection, Members
    <2>2. RankWell(t)
        BY DEF PlacesInv, MembersWell, MemberWell
    <2>3. \A e \in Events : Owns(t, e) => PipOf(e) \in Prios
        BY DEF PlacesInv, SharedTyped, Owns, Mutex, IsMutex, Sharing, MutexesSetUp
    <2> QED BY <2>1, <2>2, <2>3 DEF RankWell
<1>4. PriosOf(Members) \subseteq Prios /\ Prios \subseteq Nat
    BY <1>3, CoreAssumption DEF PriosOf, Prios
<1>5. OSRdyTbl \in SUBSET Nat /\ \A e \in Events : event[e].wait \in SUBSET Nat
    BY <1>4 DEF PlacesInv, SharedTyped
<1>6. Live = Members
    BY <1>2, <1>3 DEF Live, PlacesInv, SharedTyped
<1> QED BY <1>1, <1>2, <1>3, <1>4, <1>5, <1>6

LEMMA MutexFacts ==
    ASSUME PlacesInv, NEW e \in Events, Mutex(e)
    PROVE  /\ PipOf(e) \in Prios /\ PipOf(e) \in Nat /\ Pip(e) = PipOf(e)
           /\ \A t \in Members : L.prio[t] # PipOf(e) /\ (Competes(t) => PipOf(e) < L.prio[t])
           /\ \A d \in Events : Mutex(d) /\ PipOf(d) = PipOf(e) => d = e
           /\ \A t \in Members : tcb[t].prio = PipOf(e) => Owns(t, e)
           /\ \A t \in Members : Owns(t, e) => OwnedBy(e, t)
           /\ \A t : Owns(t, e) => t \in Members \/ (t = Null /\ Unowned(e))
<1>1. \A d \in Events : IsMutex(d) <=> Mutex(d)
    BY DEF PlacesInv, SharedTyped, IsMutex, Mutex
<1>2. /\ PipOf(e) \in Prios /\ PipOf(e) \in Nat /\ Pip(e) = PipOf(e)
      /\ \A t \in Members : L.prio[t] # PipOf(e) /\ (Competes(t) => PipOf(e) < L.prio[t])
      /\ \A d \in Events : Mutex(d) /\ PipOf(d) = PipOf(e) => d = e
    BY <1>1, CoreAssumption DEF PlacesInv, Sharing, MutexesSetUp, MutexesWell, MutexWell, Prios
<1>3. ASSUME NEW t \in Members, tcb[t].prio = PipOf(e)
      PROVE  Owns(t, e)
    <2>1. PICK d \in Events : Owns(t, d) /\ tcb[t].prio = PipOf(d)
        BY <1>2, <1>3 DEF PlacesInv, MembersWell, MemberWell, RankWell
    <2> QED BY <1>2, <1>3, <2>1 DEF Owns
<1>4. Null \notin Members
    BY SharedFacts, CoreAssumption
<1>5. Unowned(e) \/ \E t \in Members : OwnedBy(e, t)
    BY DEF PlacesInv, MutexesWell, MutexWell
<1> QED BY <1>2, <1>3, <1>4, <1>5 DEF Owns, Unowned, OwnedBy

(* What a step keeps of the application.                                   *)
LEMMA SameApplication ==
    ASSUME UNCHANGED load
    PROVE  /\ L' = L /\ Members' = Members /\ (Sharing => Sharing')
           /\ \A t : Competes(t)' = Competes(t)
           /\ \A e : PipOf(e)' = PipOf(e) /\ IsMutex(e)' = IsMutex(e)
<1>1. L' = L
    BY DEF L
<1> QED BY <1>1 DEF Members, Sharing, Competes, PipOf, IsMutex, MutexesSetUp

LEMMA CntBytes ==
    ASSUME NEW a \in Nat, NEW b \in Nat, b < 256
    PROVE  (256 * a + b) \div 256 = a /\ (256 * a + b) % 256 = b
OBVIOUS

LEMMA CntWritten ==
    ASSUME NEW e, Pip(e) \in Nat, NEW prio \in Nat, prio < 256, event'[e].cnt = Owned(e, prio)
    PROVE  Pip(e)' = Pip(e) /\ OwnerPrio(e)' = prio /\ event'[e].cnt \in Nat
<1>1. PICK a \in Nat : a = Pip(e)
    OBVIOUS
<1>2. event'[e].cnt = 256 * a + prio
    BY <1>1 DEF Owned
<1>3. (256 * a + prio) \div 256 = a /\ (256 * a + prio) % 256 = prio /\ 256 * a + prio \in Nat
    BY CntBytes
<1> QED BY <1>1, <1>2, <1>3 DEF Pip, OwnerPrio

-----------------------------------------------------------------------------
(* What a step leaves as it was. *)

SharedGoOn == pc' \in [Tasks -> SharedPCs] /\ \A t \in Tasks : GoesOn(t)

KeptBlock(t) ==
    /\ tcb'[t].stat = tcb[t].stat /\ tcb'[t].pend = tcb[t].pend /\ tcb'[t].dly = tcb[t].dly
    /\ tcb'[t].ev = tcb[t].ev /\ tcb'[t].multi = tcb[t].multi

SameOwns(t) == \A e \in Events : Owns(t, e)' <=> Owns(t, e)

SameTypes == \A e \in Events : event'[e].type = event[e].type

LEMMA StaysMember ==
    ASSUME NEW t, MemberWell(t), UNCHANGED load, SameTypes, GoesOn(t), KeptBlock(t), SameOwns(t),
           In(t)' = In(t), tcb'[t].prio \in OSRdyTbl' <=> tcb[t].prio \in OSRdyTbl, RankWell(t)'
    PROVE  MemberWell(t)'
<1>1. Unkept(t)' = Unkept(t) /\ Competes(t)' = Competes(t)
    BY SameApplication DEF Unkept, KeptBlock
<1>2. Resting(t) => Resting(t)'
    BY DEF Resting, KeptBlock, GoesOn
<1>3. ASSUME Awaiting(t) PROVE Awaiting(t)'
    <2>1. /\ Inside(t)' /\ pc'[t].op = pc[t].op /\ pc'[t].on = pc[t].on
        BY <1>3 DEF Awaiting, Inside, GoesOn
    <2>2. Queued(t) => Queued(t)'
        BY <1>1, <2>1 DEF Queued, KeptBlock, SameOwns
    <2>3. HandedOver(t) => HandedOver(t)'
        BY <1>3, <2>1 DEF Awaiting, HandedOver, KeptBlock, SameOwns
    <2> QED BY <1>3, <2>1, <2>2, <2>3 DEF Awaiting, KeptBlock, SameTypes
<1> QED BY <1>1, <1>2, <1>3 DEF MemberWell, KeptBlock

(* A task keeps its rank: its priority and the entries for it.             *)
LEMMA StaysRank ==
    ASSUME NEW t, RankWell(t), UNCHANGED load, SameOwns(t), tcb'[t].prio = tcb[t].prio,
           OSTCBPrioTbl'[L.prio[t]] = OSTCBPrioTbl[L.prio[t]],
           OSTCBPrioTbl'[tcb[t].prio] = OSTCBPrioTbl[tcb[t].prio]
    PROVE  RankWell(t)'
BY SameApplication DEF RankWell, SameOwns

(* A mutex keeps its owner, and all who wait for it are less urgent.       *)
LEMMA StaysMutex ==
    ASSUME PlacesInv, NEW e \in Events, Mutex(e), UNCHANGED load, SameTypes,
           event'[e].cnt = event[e].cnt, event'[e].ptr = event[e].ptr,
           OSTCBPrioTbl'[PipOf(e)] = OSTCBPrioTbl[PipOf(e)],
           \A t \in Members : Owns(t, e) =>
               /\ tcb'[t].prio = tcb[t].prio /\ SameOwns(t)
               /\ \A p \in event'[e].wait : p \in event[e].wait \/ tcb[t].prio < p,
           Unowned(e) => event'[e].wait = {}
    PROVE  MutexWell(e)'
<1>1. Members' = Members /\ PipOf(e)' = PipOf(e) /\ L' = L /\ \A t : Competes(t)' = Competes(t)
    BY SameApplication
<1>2. Pip(e)' = Pip(e) /\ OwnerPrio(e)' = OwnerPrio(e)
    BY DEF Pip, OwnerPrio
<1>3. MutexWell(e)
    BY DEF PlacesInv, MutexesWell
<1>4. Unowned(e) => Unowned(e)'
    BY <1>1, <1>2 DEF Unowned
<1>5. ASSUME NEW t \in Members, OwnedBy(e, t) PROVE OwnedBy(e, t)'
    <2>1. Owns(t, e)
        BY <1>5 DEF OwnedBy, Owns
    <2>2. \A p \in event'[e].wait : tcb'[t].prio < p
        BY <1>5, <2>1 DEF OwnedBy
    <2>3. \A d \in Events : Owns(t, d)' => d = e
        BY <1>5, <2>1 DEF OwnedBy, SameOwns
    <2> QED BY <1>1, <1>2, <1>5, <2>1, <2>2, <2>3 DEF OwnedBy
<1> QED BY <1>1, <1>2, <1>3, <1>4, <1>5 DEF MutexWell

LEMMA PlacesNext ==
    ASSUME PlacesInv, UNCHANGED load, SameTypes, tcb' \in [Tasks -> TCBs], pc' \in [Tasks -> SharedPCs],
           OSTCBPrioTbl' \in [Prios -> Tasks \cup {Null, Reserved}],
           \A t \in Tasks \ Members : tcb'[t].prio = tcb[t].prio,
           OSRdyTbl' \subseteq PriosOf(Members)',
           \A e \in Events : event'[e].cnt \in Nat /\ event'[e].wait \subseteq PriosOf(Members)',
           \A t \in Members : MemberWell(t)',
           \A e \in Events : Mutex(e) => MutexWell(e)'
    PROVE  PlacesInv'
<1>1. Members' = Members /\ L' = L /\ Sharing'
    BY SameApplication DEF PlacesInv
<1>2. \A e \in Events : Mutex(e)' <=> Mutex(e)
    BY DEF SameTypes, Mutex
<1>3. MembersWell' /\ MutexesWell'
    BY <1>1, <1>2 DEF MembersWell, MutexesWell
<1>4. SharedTyped'
    BY <1>1 DEF PlacesInv, SharedTyped, SameTypes
<1> QED BY <1>1, <1>3, <1>4 DEF PlacesInv

-----------------------------------------------------------------------------
(* Steps that move no task. *)

SameMutexes == \A e \in Events : Mutex(e) => event'[e].cnt = event[e].cnt /\ event'[e].ptr = event[e].ptr

LEMMA OwnersStay ==
    ASSUME SameTypes, SameMutexes
    PROVE  \A t : SameOwns(t)
BY DEF SameTypes, SameMutexes, SameOwns, Owns, Mutex

LEMMA CalmShared ==
    ASSUME PlacesInv, UNCHANGED <<tcb, OSTCBPrioTbl, OSRdyTbl, load>>, SharedGoOn, SameTypes, SameMutexes,
           \A e \in Events : event'[e].wait = event[e].wait /\ event'[e].cnt \in Nat
    PROVE  PlacesInv'
<1>1. \A t : SameOwns(t)
    BY OwnersStay
<1>2. Members' = Members /\ PriosOf(Members)' = PriosOf(Members) /\ Members \subseteq Tasks
    BY SameApplication, SharedFacts DEF PriosOf
<1>3. ASSUME NEW t \in Members PROVE MemberWell(t)'
    <2>1. MemberWell(t) /\ GoesOn(t)
        BY <1>2 DEF PlacesInv, MembersWell, SharedGoOn
    <2>2. RankWell(t)'
        BY <1>1, <2>1, StaysRank DEF MemberWell
    <2>3. In(t)' = In(t) /\ KeptBlock(t)
        BY DEF In, KeptBlock
    <2> QED BY <1>1, <2>1, <2>2, <2>3, StaysMember
<1>4. ASSUME NEW e \in Events, Mutex(e) PROVE MutexWell(e)'
    <2>1. event'[e].cnt = event[e].cnt /\ event'[e].ptr = event[e].ptr /\ event'[e].wait = event[e].wait
        BY <1>4 DEF SameMutexes
    <2>2. \A t \in Members : Owns(t, e) =>
               /\ tcb'[t].prio = tcb[t].prio /\ SameOwns(t)
               /\ \A p \in event'[e].wait : p \in event[e].wait \/ tcb[t].prio < p
        BY <1>1, <2>1
    <2>3. Unowned(e) => event'[e].wait = {}
        BY <2>1 DEF Unowned
    <2>4. OSTCBPrioTbl'[PipOf(e)] = OSTCBPrioTbl[PipOf(e)]
        OBVIOUS
    <2> QED BY <1>4, <2>1, <2>2, <2>3, <2>4, StaysMutex
<1>5. /\ tcb' \in [Tasks -> TCBs] /\ pc' \in [Tasks -> SharedPCs]
      /\ OSTCBPrioTbl' \in [Prios -> Tasks \cup {Null, Reserved}]
      /\ \A t \in Tasks \ Members : tcb'[t].prio = tcb[t].prio
      /\ OSRdyTbl' \subseteq PriosOf(Members)'
      /\ \A e \in Events : event'[e].cnt \in Nat /\ event'[e].wait \subseteq PriosOf(Members)'
    BY <1>2 DEF PlacesInv, SharedTyped, SharedGoOn
<1> QED BY <1>3, <1>4, <1>5, PlacesNext

(* A service of the handler or of a task that runs its own code.           *)
SharedCaller ==
    \/ OSIntNesting = 1
    \/ /\ OSIntNesting = 0 /\ pc[OSTCBCur].at = "task" /\ OSTCBCur # IdleTask
       /\ Resting(OSTCBCur) /\ Unkept(OSTCBCur) /\ tcb[OSTCBCur].multi = {}

LEMMA MayShared ==
    ASSUME SharingInv, NEW op, May(op)
    PROVE  /\ OSTCBCur \in Members /\ OSTCBCur \in Tasks /\ SharedCaller
           /\ OSIntNesting = 0 => op \in L.menu[OSTCBCur]
           /\ OSIntNesting = 1 => op \in L.handler
           /\ OSIntNesting \in 0 .. 1 /\ OSLockNesting = 0
<1>1. OSTCBCur \in Members /\ OSTCBCur \in Tasks /\ OSIntNesting \in 0 .. 1 /\ OSLockNesting = 0
    BY SharedFacts DEF SharingInv, Running
<1>2. CASE OSIntNesting = 0
    <2>1. pc[OSTCBCur].at = "task" /\ op \in L.menu[OSTCBCur]
        BY <1>2 DEF May
    <2>2. L.menu[IdleTask] = {}
        BY SharedFacts DEF Workload, SharingInv
    <2>3. Unkept(OSTCBCur) /\ MemberWell(OSTCBCur)
        BY <1>1, <1>2, <2>1 DEF SharingInv, Running, Runs, PlacesInv, MembersWell, MemberWell
    <2>4. Resting(OSTCBCur)
        BY <2>1, <2>3 DEF MemberWell, Awaiting, Inside
    <2> QED BY <1>1, <1>2, <2>1, <2>2, <2>3, <2>4 DEF SharedCaller, MemberWell
<1>3. CASE OSIntNesting = 1
    BY <1>1, <1>3 DEF May, SharedCaller
<1> QED BY <1>1, <1>2, <1>3

LEMMA SharedCallsGoOn ==
    ASSUME PlacesInv, SharedCaller, OSTCBCur \in Tasks, Return \/ CallSched
    PROVE  SharedGoOn
<1>1. CASE UNCHANGED pc
    BY <1>1 DEF PlacesInv, SharedTyped, SharedGoOn, GoesOn
<1>2. CASE pc' = [pc EXCEPT ![OSTCBCur].at = "sched"] /\ pc[OSTCBCur].at = "task"
    <2>1. pc' \in [Tasks -> SharedPCs]
        BY <1>2 DEF PlacesInv, SharedTyped, SharedPCs
    <2>2. ASSUME NEW t \in Tasks PROVE GoesOn(t)
        BY <1>2 DEF PlacesInv, SharedTyped, SharedPCs, GoesOn
    <2> QED BY <2>1, <2>2 DEF SharedGoOn
<1> QED BY <1>1, <1>2 DEF Return, CallSched, SharedCaller

-----------------------------------------------------------------------------
(* Steps that move one task, and leave it its priority.                    *)

LEMMA OneShared ==
    ASSUME PlacesInv, NEW w \in Members, NEW v \in TCBs, tcb' = [tcb EXCEPT ![w] = v],
           v.prio = tcb[w].prio, UNCHANGED <<OSTCBPrioTbl, load>>, SameTypes, SameMutexes,
           pc' \in [Tasks -> SharedPCs], \A t \in Tasks \ {w} : GoesOn(t),
           \A e \in Events : /\ event'[e].cnt \in Nat
                             /\ event'[e].wait \ {v.prio} = event[e].wait \ {v.prio},
           OSRdyTbl' \ {v.prio} = OSRdyTbl \ {v.prio},
           Resting(w)' \/ Awaiting(w)', v.multi = {}, v.prio \in OSRdyTbl' <=> Unkept(w)',
           \A e \in Events : Mutex(e) /\ v.prio \in event'[e].wait /\ v.prio \notin event[e].wait =>
               \E x \in Members : Owns(x, e) /\ tcb[x].prio < v.prio
    PROVE  PlacesInv'
<1>1. (\A t : SameOwns(t)) /\ w \in Tasks /\ Members \subseteq Tasks /\ tcb \in [Tasks -> TCBs]
    BY OwnersStay, SharedFacts
<1>2. tcb'[w] = v /\ \A t \in Tasks \ {w} : tcb'[t] = tcb[t]
    BY <1>1
<1>3. Members' = Members /\ PriosOf(Members)' = PriosOf(Members)
    <2>1. \A t \in Members : tcb'[t].prio = tcb[t].prio
        BY <1>1, <1>2
    <2> QED BY <2>1, SameApplication DEF PriosOf
<1>4. ASSUME NEW t \in Members PROVE MemberWell(t)'
    <2>1. MemberWell(t)
        BY DEF PlacesInv, MembersWell
    <2>2. RankWell(t)'
        BY <1>1, <1>2, <2>1, StaysRank DEF MemberWell
    <2>3. CASE t = w
        BY <1>2, <2>2, <2>3 DEF MemberWell
    <2>4. CASE t # w
        <3>1. GoesOn(t) /\ KeptBlock(t) /\ tcb'[t].prio = tcb[t].prio
            BY <1>1, <1>2, <2>4 DEF KeptBlock
        <3>2. tcb[t].prio # v.prio
            BY <2>4, SharedFacts
        <3>3. In(t)' = In(t) /\ (tcb'[t].prio \in OSRdyTbl' <=> tcb[t].prio \in OSRdyTbl)
            BY <3>1, <3>2 DEF In
        <3> QED BY <1>1, <2>1, <2>2, <3>1, <3>3, StaysMember
    <2> QED BY <2>3, <2>4
<1>5. ASSUME NEW e \in Events, Mutex(e) PROVE MutexWell(e)'
    <2>1. event'[e].cnt = event[e].cnt /\ event'[e].ptr = event[e].ptr
        BY <1>5 DEF SameMutexes
    <2>2. ASSUME NEW p \in event'[e].wait, p \notin event[e].wait
          PROVE  p = v.prio /\ \E x \in Members : Owns(x, e) /\ tcb[x].prio < v.prio
        <3>1. p = v.prio
            BY <2>2
        <3> QED BY <1>5, <2>2, <3>1
    <2>3. ASSUME NEW t \in Members, Owns(t, e)
          PROVE  /\ tcb'[t].prio = tcb[t].prio /\ SameOwns(t)
                 /\ \A p \in event'[e].wait : p \in event[e].wait \/ tcb[t].prio < p
        <3>1. tcb'[t].prio = tcb[t].prio
            BY <1>1, <1>2
        <3>2. \A x : Owns(x, e) => x = t
            BY <2>3 DEF Owns
        <3> QED BY <1>1, <2>2, <3>1, <3>2
    <2>4. Unowned(e) => event'[e].wait = {}
        <3> SUFFICES ASSUME Unowned(e), NEW p \in event'[e].wait PROVE FALSE
            OBVIOUS
        <3>1. PICK x \in Members : Owns(x, e)
            BY <2>2 DEF Unowned
        <3>2. x = Null
            BY <3>1 DEF Owns, Unowned
        <3> QED BY <1>1, <3>2, CoreAssumption
    <2>5. OSTCBPrioTbl'[PipOf(e)] = OSTCBPrioTbl[PipOf(e)]
        OBVIOUS
    <2> QED BY <1>5, <2>1, <2>3, <2>4, <2>5, StaysMutex
<1>6. v.prio \in PriosOf(Members)
    BY DEF PriosOf
<1>7. /\ tcb' \in [Tasks -> TCBs]
      /\ OSTCBPrioTbl' \in [Prios -> Tasks \cup {Null, Reserved}]
      /\ \A t \in Tasks \ Members : tcb'[t].prio = tcb[t].prio
    BY <1>1, <1>2 DEF PlacesInv, SharedTyped
<1>8. OSRdyTbl' \subseteq PriosOf(Members)'
    BY <1>3, <1>6 DEF PlacesInv, SharedTyped
<1>9. \A e \in Events : event'[e].cnt \in Nat /\ event'[e].wait \subseteq PriosOf(Members)'
    <2> TAKE e \in Events
    <2>1. event'[e].wait \ {v.prio} = event[e].wait \ {v.prio} /\ event[e].wait \subseteq PriosOf(Members)
        BY DEF PlacesInv, SharedTyped
    <2> QED BY <1>3, <1>6, <2>1
<1> QED BY <1>4, <1>5, <1>7, <1>8, <1>9, PlacesNext

(* OSTimeDly. *)
LEMMA DlyShared ==
    ASSUME PlacesInv, SharedCaller, OSTCBCur \in Members, NEW ticks \in 1 .. MaxDelay, OSTimeDly(ticks),
           UNCHANGED load
    PROVE  PlacesInv'
<1>0. PICK me \in Members : me = OSTCBCur
    OBVIOUS
<1>1. me \in Tasks /\ tcb[me] \in TCBs /\ tcb \in [Tasks -> TCBs] /\ OSIntNesting = 0
    BY <1>0, SharedFacts DEF OSTimeDly
<1> DEFINE v == [tcb[me] EXCEPT !.dly = ticks]
<1>2. /\ v \in TCBs /\ v.prio = tcb[me].prio /\ v.stat = tcb[me].stat /\ v.dly # 0
      /\ v.ev = tcb[me].ev /\ v.multi = tcb[me].multi
    BY <1>1, CoreAssumption DEF TCBs
<1>3. tcb' = [tcb EXCEPT ![me] = v] /\ OSRdyTbl' = OSRdyTbl \ {v.prio} /\ UNCHANGED <<event, OSTCBPrioTbl>>
      /\ CallSched
    BY <1>0, <1>2 DEF OSTimeDly, restVars
<1> HIDE DEF v
<1>4. SharedGoOn
    BY <1>0, <1>1, <1>3, SharedCallsGoOn
<1>5. SameTypes /\ SameMutexes
    BY <1>3 DEF SameTypes, SameMutexes
<1>6. \A e \in Events : event'[e].cnt \in Nat
    BY <1>3 DEF PlacesInv, SharedTyped
<1>7. tcb'[me] = v
    BY <1>1, <1>3
<1>8. Resting(me)'
    <2>1. Resting(me) /\ pc'[me].at \in {"task", "sched"}
        BY <1>0, <1>1, <1>4 DEF SharedCaller, Resting, SharedGoOn, GoesOn
    <2> QED BY <1>2, <1>3, <1>7, <2>1 DEF Resting, In
<1>9. ~Unkept(me)' /\ v.multi = {}
    BY <1>0, <1>1, <1>2, <1>7 DEF Unkept, SharedCaller
<1>10. pc' \in [Tasks -> SharedPCs] /\ \A t \in Tasks \ {me} : GoesOn(t)
    BY <1>4 DEF SharedGoOn
<1> QED BY <1>2, <1>3, <1>5, <1>6, <1>8, <1>9, <1>10, OneShared

(* The caller waits. *)
LEMMA WaitShared ==
    ASSUME PlacesInv, SharedCaller, OSIntNesting = 0, OSTCBCur \in Members, NEW e \in Events,
           NEW op \in {"SEM", "MUTEX"}, event[e].type = op, NEW timeout \in 0 .. MaxDelay,
           OS_EventTaskWait(op, e, timeout), Pended(op, {e}), UNCHANGED <<OSTCBPrioTbl, load>>, EventsWell,
           op = "MUTEX" => /\ Competes(OSTCBCur) /\ HoldsNone
                           /\ \E x \in Members : Owns(x, e) /\ tcb[x].prio < tcb[OSTCBCur].prio,
           op = "SEM" /\ Competes(OSTCBCur) => timeout = 0
    PROVE  PlacesInv'
<1>0. PICK me \in Members : me = OSTCBCur
    OBVIOUS
<1>1. me \in Tasks /\ tcb[me] \in TCBs /\ tcb \in [Tasks -> TCBs] /\ pc \in [Tasks -> SharedPCs] /\ Resting(me)
      /\ tcb[me].stat = {} /\ tcb[me].multi = {}
    BY <1>0, SharedFacts DEF PlacesInv, SharedTyped, SharedCaller, Resting
<1> DEFINE v == [tcb[me] EXCEPT !.stat = {op}, !.pend = "OK", !.dly = timeout, !.ev = e, !.multi = {}]
<1>2. /\ v \in TCBs /\ v.prio = tcb[me].prio /\ v.stat = {op} /\ v.pend = "OK" /\ v.dly = timeout
      /\ v.ev = e /\ v.multi = {}
    BY <1>1 DEF TCBs, StatBits, PendBits
<1>3. tcb' = [tcb EXCEPT ![me] = v]
    <2>1. tcb' = [tcb EXCEPT ![me] = [tcb[me] EXCEPT !.stat = tcb[me].stat \cup {op}, !.pend = "OK", !.dly = timeout,
                                                     !.ev = e, !.multi = tcb[me].multi]]
        BY <1>0 DEF OS_EventTaskWait, Waiting
    <2> QED BY <1>1, <2>1
<1> HIDE DEF v
<1>4. OSRdyTbl' = OSRdyTbl \ {v.prio} /\ tcb'[me] = v
    BY <1>0, <1>1, <1>2, <1>3 DEF OS_EventTaskWait
<1>5. \A x \in Events : event'[x] = IF x = e THEN [event[x] EXCEPT !.wait = @ \cup {v.prio}] ELSE event[x]
    BY <1>0, <1>2 DEF OS_EventTaskWait, Enlisted
<1>6. \A x \in Events : /\ event'[x].type = event[x].type /\ event'[x].cnt = event[x].cnt /\ event'[x].ptr = event[x].ptr
                        /\ event'[x].wait = IF x = e THEN event[x].wait \cup {v.prio} ELSE event[x].wait
    BY <1>5 DEF EventsWell
<1>7. SameTypes /\ SameMutexes /\ \A t : SameOwns(t)
    BY <1>6, OwnersStay DEF SameTypes, SameMutexes
<1> DEFINE c == [at |-> "pended", op |-> op, on |-> {e}]
<1>8. c \in SharedPCs /\ c.at = "pended" /\ c.op = op /\ c.on = {e}
    BY DEF SharedPCs
<1> HIDE DEF c
<1>9. pc' = [pc EXCEPT ![me] = c]
    BY <1>0 DEF Pended, c
<1>10. pc' \in [Tasks -> SharedPCs] /\ pc'[me] = c /\ \A t \in Tasks \ {me} : GoesOn(t)
    BY <1>1, <1>8, <1>9 DEF GoesOn
<1>11. In(me)' = {e}
    <2>1. \A x \in Events : tcb[me].prio \notin event[x].wait
        BY <1>1 DEF In, Resting
    <2>2. \A x \in Events : tcb'[me].prio \in event'[x].wait <=> x = e
        BY <1>2, <1>4, <1>6, <2>1
    <2> QED BY <2>2 DEF In
<1>12. Queued(me)'
    <2>1. Competes(me)' = Competes(me)
        BY SameApplication
    <2>2. op = "MUTEX" => Competes(me) /\ \A x \in Events : ~Owns(me, x)
        BY <1>0 DEF HoldsNone, Owns
    <2> QED BY <1>0, <1>2, <1>4, <1>7, <1>8, <1>10, <1>11, <2>1, <2>2 DEF Queued, SameOwns
<1>13. Awaiting(me)' /\ ~Unkept(me)'
    BY <1>2, <1>4, <1>6, <1>8, <1>10, <1>12 DEF Awaiting, Inside, Unkept
<1>14. ASSUME NEW x \in Events, Mutex(x), v.prio \in event'[x].wait, v.prio \notin event[x].wait
       PROVE  \E u \in Members : Owns(u, x) /\ tcb[u].prio < v.prio
    <2>1. x = e
        BY <1>6, <1>14
    <2>2. op = "MUTEX"
        BY <1>14, <2>1 DEF Mutex
    <2> QED BY <1>0, <1>2, <2>1, <2>2
<1>15. \A x \in Events : event'[x].cnt \in Nat /\ event'[x].wait \ {v.prio} = event[x].wait \ {v.prio}
    BY <1>6 DEF PlacesInv, SharedTyped
<1> QED BY <1>2, <1>3, <1>4, <1>7, <1>10, <1>13, <1>14, <1>15, OneShared

(* A task comes back from its wait. *)
LEMMA ReturnShared ==
    ASSUME PlacesInv, OSTCBCur \in Members, tcb[OSTCBCur].prio \in OSRdyTbl, NEW op \in {"SEM", "MUTEX"},
           ReturnFromPend(op, TRUE), UNCHANGED load, EventsWell
    PROVE  PlacesInv'
<1>0. PICK me \in Members : me = OSTCBCur
    OBVIOUS
<1>1. /\ me \in Tasks /\ tcb \in [Tasks -> TCBs] /\ pc \in [Tasks -> SharedPCs]
      /\ MemberWell(me) /\ pc[me].at = "wake" /\ pc[me].op = op
    BY <1>0, SharedFacts DEF PlacesInv, SharedTyped, MembersWell, ReturnFromPend
<1>2. Awaiting(me) /\ Unkept(me)
    BY <1>0, <1>1 DEF MemberWell, Resting
<1>3. pc[me].on = {tcb[me].ev} /\ (IF tcb[me].pend = "TO" THEN In(me) = {tcb[me].ev} ELSE In(me) = {})
    BY <1>1, <1>2 DEF Awaiting, Queued, HandedOver, Unkept
<1>4. tcb' = Rested /\ UNCHANGED <<OSRdyTbl, OSTCBPrioTbl>> /\ pc' = [pc EXCEPT ![me] = InTask]
      /\ event' = IF tcb[me].pend = "TO" THEN Removed(pc[me].on) ELSE event
    BY <1>0 DEF ReturnFromPend, restVars
<1> DEFINE v == tcb'[me]
<1>5. /\ tcb' \in [Tasks -> TCBs] /\ \A t \in Tasks \ {me} : tcb'[t] = tcb[t]
      /\ v.prio = tcb[me].prio /\ v.stat = {} /\ v.pend = "OK" /\ v.dly = tcb[me].dly /\ v.ev = Null /\ v.multi = {}
    BY <1>0, <1>1, <1>4, RestedBlock
<1>6. v \in TCBs /\ tcb' = [tcb EXCEPT ![me] = v]
    BY <1>1, <1>5
<1> HIDE DEF v
<1>7. tcb'[me] = v
    BY DEF v
<1>8. \A x \in Events : /\ event'[x].type = event[x].type /\ event'[x].cnt = event[x].cnt /\ event'[x].ptr = event[x].ptr
                        /\ event'[x].wait = IF tcb[me].pend = "TO" /\ x \in pc[me].on THEN event[x].wait \ {v.prio}
                                            ELSE event[x].wait
    <2>1. CASE tcb[me].pend = "TO"
        <3>1. \A x \in Events : event'[x] = IF x \in pc[me].on THEN [event[x] EXCEPT !.wait = @ \ {v.prio}] ELSE event[x]
            BY <1>0, <1>4, <1>5, <2>1 DEF Removed
        <3> QED BY <2>1, <3>1 DEF EventsWell
    <2>2. CASE tcb[me].pend # "TO"
        BY <1>4, <2>2
    <2> QED BY <2>1, <2>2
<1>9. SameTypes /\ SameMutexes
    BY <1>8 DEF SameTypes, SameMutexes
<1>10. InTask \in SharedPCs /\ InTask.at = "task"
    BY DEF InTask, SharedPCs
<1>11. pc' \in [Tasks -> SharedPCs] /\ pc'[me] = InTask /\ \A t \in Tasks \ {me} : GoesOn(t)
    <2> HIDE DEF InTask
    <2> QED BY <1>1, <1>4, <1>10 DEF GoesOn
<1>12. In(me)' = {}
    <2>1. \A x \in Events : tcb[me].prio \in event[x].wait => tcb[me].pend = "TO" /\ x \in pc[me].on
        BY <1>3 DEF In
    <2>2. \A x \in Events : tcb'[me].prio \notin event'[x].wait
        BY <1>5, <1>7, <1>8, <2>1
    <2> QED BY <2>2 DEF In
<1>13. Resting(me)' /\ Unkept(me)'
    BY <1>2, <1>5, <1>7, <1>10, <1>11, <1>12 DEF Resting, Unkept
<1>14. v.prio \in OSRdyTbl'
    BY <1>0, <1>4, <1>5
<1>15. \A x \in Events : /\ event'[x].cnt \in Nat /\ event'[x].wait \ {v.prio} = event[x].wait \ {v.prio}
                         /\ event'[x].wait \subseteq event[x].wait
    BY <1>8 DEF PlacesInv, SharedTyped
<1> QED BY <1>4, <1>5, <1>6, <1>9, <1>11, <1>13, <1>14, <1>15, OneShared

-----------------------------------------------------------------------------
(* A post hands what it posts to the task that stands in the list with     *)
(* some priority.                                                          *)

Delisted(e, p) == [x \in Events |-> IF x = e THEN [event[x] EXCEPT !.wait = @ \ {p}] ELSE event[x]]

HandsTo(e, p, op, w, v) ==
    /\ w = OSTCBPrioTbl[p] /\ tcb[w].prio = p /\ Awaiting(w) /\ Queued(w) /\ tcb[w].ev = e /\ pc[w].op = op
    /\ v.prio = p /\ v.stat = {} /\ v.pend = "OK" /\ v.dly = 0 /\ v.ev = e /\ v.multi = {}
    /\ TCBsAfterRdy(e, {p}, Null, {op}, "OK") = [tcb EXCEPT ![w] = v]
    /\ ReadyAfterRdy({p}) = OSRdyTbl \cup {p}
    /\ EventsAfterRdy(e, {p}) = Delisted(e, p)

LEMMA WokenShared ==
    ASSUME PlacesInv, EventsWell, NEW e \in Events, NEW p \in event[e].wait,
           NEW op \in {"SEM", "MUTEX"}, event[e].type = op
    PROVE  \E w \in Members, v \in TCBs : HandsTo(e, p, op, w, v)
<1>1. PICK w \in Members : tcb[w].prio = p
    BY DEF PlacesInv, SharedTyped, PriosOf
<1>2. w = OSTCBPrioTbl[p] /\ w \in Tasks /\ tcb[w] \in TCBs /\ tcb \in [Tasks -> TCBs] /\ MemberWell(w)
    BY <1>1, SharedFacts DEF PlacesInv, MembersWell
<1>3. e \in In(w)
    BY <1>1 DEF In
<1>4. Awaiting(w) /\ Queued(w) /\ tcb[w].ev = e /\ tcb[w].multi = {}
    BY <1>2, <1>3 DEF MemberWell, Resting, Awaiting, Queued, HandedOver
<1>5. pc[w].op = op
    BY <1>4 DEF Awaiting
<1>6. tcb[w].stat \ {op} = {} /\ ~Suspended(w)
    BY <1>4, <1>5 DEF Queued, Suspended
<1> DEFINE v == [tcb[w] EXCEPT !.dly = 0, !.msg = Null, !.stat = {}, !.pend = "OK", !.ev = e]
<1>7. v \in TCBs /\ v.prio = p /\ v.stat = {} /\ v.pend = "OK" /\ v.dly = 0 /\ v.ev = e /\ v.multi = {}
    <2>1. 0 \in 0 .. MaxDelay /\ {} \in SUBSET StatBits /\ Null \in Messages \cup {Null} /\ e \in Events \cup {Null}
          /\ "OK" \in {"OK", "TO", "ABORT"}
        BY CoreAssumption
    <2> QED BY <1>1, <1>2, <1>4, <2>1, ZenonT(40) DEF TCBs
<1>8. Woken({p}) = {w}
    BY <1>2 DEF Woken
<1>9. TCBsAfterRdy(e, {p}, Null, {op}, "OK") = [tcb EXCEPT ![w] = v]
    <2>1. [tcb[w] EXCEPT !.dly = 0, !.msg = Null, !.stat = tcb[w].stat \ {op}, !.pend = "OK",
                         !.ev = IF tcb[w].multi = {} THEN tcb[w].ev ELSE e] = v
        BY <1>2, <1>4, <1>6
    <2>2. \A t \in Tasks : t \in Woken({p}) <=> t = w
        BY <1>8
    <2> HIDE DEF v
    <2>3. \A t \in Tasks : TCBsAfterRdy(e, {p}, Null, {op}, "OK")[t] = IF t = w THEN v ELSE tcb[t]
        BY <2>1, <2>2, Zenon DEF TCBsAfterRdy
    <2>4. TCBsAfterRdy(e, {p}, Null, {op}, "OK") = [t \in Tasks |-> TCBsAfterRdy(e, {p}, Null, {op}, "OK")[t]]
        BY Zenon DEF TCBsAfterRdy
    <2> QED BY <1>2, <2>3, <2>4
<1>10. ReadyAfterRdy({p}) = OSRdyTbl \cup {p}
    BY <1>1, <1>6, <1>8 DEF ReadyAfterRdy
<1>11. EventsAfterRdy(e, {p}) = Delisted(e, p)
    <2>1. ASSUME NEW x \in Events
          PROVE  [event[x] EXCEPT !.wait = @ \ {tcb[t].prio : t \in {u \in Woken({p}) : x = e \/ x \in tcb[u].multi}}]
                     = IF x = e THEN [event[x] EXCEPT !.wait = @ \ {p}] ELSE event[x]
        <3>1. {tcb[t].prio : t \in {u \in Woken({p}) : x = e \/ x \in tcb[u].multi}} = IF x = e THEN {p} ELSE {}
            BY <1>1, <1>4, <1>8
        <3>2. event[x].wait \ {} = event[x].wait
              /\ event[x] = [type |-> event[x].type, cnt |-> event[x].cnt, ptr |-> event[x].ptr, wait |-> event[x].wait]
            BY DEF EventsWell
        <3> QED BY <3>1, <3>2
    <2> QED BY <2>1 DEF EventsAfterRdy, Delisted
<1> HIDE DEF v
<1>12. HandsTo(e, p, op, w, v)
    BY <1>1, <1>2, <1>4, <1>5, <1>7, <1>9, <1>10, <1>11, Zenon DEF HandsTo
<1> QED BY <1>7, <1>12

LEMMA SemPostShared ==
    ASSUME PlacesInv, EventsWell, SharedCaller, OSTCBCur \in Members, NEW e \in Events,
           OSSemPost(e), event[e].wait # {}, UNCHANGED load
    PROVE  PlacesInv' /\ OSRdyTbl \subseteq OSRdyTbl' /\ CallSched
<1>1. PICK p \in event[e].wait : p = Highest(Waiters(e))
    BY SharedFacts, LeastExists DEF Waiters
<1>2. event[e].type = "SEM" /\ CallSched /\ UNCHANGED OSTCBPrioTbl
      /\ tcb' = TCBsAfterRdy(e, {p}, Null, {"SEM"}, "OK") /\ OSRdyTbl' = ReadyAfterRdy({p})
      /\ event' = EventsAfterRdy(e, {p})
    BY <1>1 DEF OSSemPost, Sem, Waiters, OS_EventTaskRdy, restVars
<1>3. PICK w \in Members, v \in TCBs : HandsTo(e, p, "SEM", w, v)
    BY <1>2, WokenShared
<1>4. /\ tcb' = [tcb EXCEPT ![w] = v] /\ tcb'[w] = v /\ OSRdyTbl' = OSRdyTbl \cup {p}
      /\ w \in Tasks /\ OSTCBCur \in Tasks /\ event' = Delisted(e, p)
      /\ tcb[w].prio = p /\ Awaiting(w) /\ Queued(w) /\ tcb[w].ev = e /\ pc[w].op = "SEM"
      /\ v.prio = p /\ v.stat = {} /\ v.pend = "OK" /\ v.dly = 0 /\ v.ev = e /\ v.multi = {}
    BY <1>2, <1>3, SharedFacts DEF HandsTo
<1>5. \A x \in Events : /\ event'[x].type = event[x].type /\ event'[x].cnt = event[x].cnt /\ event'[x].ptr = event[x].ptr
                        /\ event'[x].wait = IF x = e THEN event[x].wait \ {p} ELSE event[x].wait
    BY <1>4 DEF EventsWell, Delisted
<1>6. SameTypes /\ SameMutexes
    BY <1>5 DEF SameTypes, SameMutexes
<1>7. SharedGoOn
    BY <1>2, <1>4, SharedCallsGoOn
<1>8. In(w)' = {}
    <2>1. \A x \in Events : tcb[w].prio \in event[x].wait => x = e
        BY <1>4 DEF Queued, In
    <2>2. tcb'[w].prio = p /\ tcb[w].prio = p
        BY <1>4, Zenon
    <2>3. \A x \in Events : p \notin event'[x].wait
        BY <1>5, <2>1, <2>2
    <2> QED BY <2>2, <2>3 DEF In
<1>9. Inside(w)' /\ pc'[w].op = "SEM" /\ pc'[w].on = pc[w].on
    BY <1>4, <1>7 DEF Awaiting, Inside, SharedGoOn, GoesOn
<1>10. Awaiting(w)' /\ Unkept(w)'
    BY <1>4, <1>6, <1>8, <1>9 DEF Awaiting, HandedOver, Unkept, SameTypes
<1>11. \A x \in Events : /\ event'[x].cnt \in Nat /\ event'[x].wait \ {v.prio} = event[x].wait \ {v.prio}
                         /\ event'[x].wait \subseteq event[x].wait
    BY <1>4, <1>5 DEF PlacesInv, SharedTyped
<1>12. OSRdyTbl' \ {v.prio} = OSRdyTbl \ {v.prio} /\ v.prio \in OSRdyTbl'
    BY <1>4
<1>13. pc' \in [Tasks -> SharedPCs] /\ \A t \in Tasks \ {w} : GoesOn(t)
    BY <1>7 DEF SharedGoOn
<1>14. PlacesInv'
    BY <1>2, <1>4, <1>6, <1>10, <1>11, <1>12, <1>13, OneShared
<1> QED BY <1>2, <1>4, <1>14

-----------------------------------------------------------------------------
(* A tick. *)

LEMMA TickBlock ==
    ASSUME PlacesInv, OSTimeTick, NEW t \in Tasks
    PROVE  /\ tcb'[t] \in TCBs /\ tcb'[t].prio = tcb[t].prio
           /\ tcb'[t].ev = tcb[t].ev /\ tcb'[t].multi = tcb[t].multi
           /\ t \in Members =>
                 /\ tcb'[t].dly = IF tcb[t].dly = 0 THEN 0 ELSE tcb[t].dly - 1
                 /\ tcb[t].dly # 1 => tcb'[t].stat = tcb[t].stat /\ tcb'[t].pend = tcb[t].pend
                 /\ tcb[t].dly = 1 => /\ tcb'[t].stat = tcb[t].stat \ PendBits
                                      /\ tcb'[t].pend = IF tcb[t].stat \cap PendBits # {} THEN "TO" ELSE "OK"
<1>1. tcb[t] \in TCBs /\ Live = Members
    BY SharedFacts
<1>2. tcb'[t] = IF t \notin Members \/ tcb[t].dly = 0 THEN tcb[t]
                ELSE IF t \in Members /\ tcb[t].dly = 1 THEN Expired(tcb[t])
                ELSE [tcb[t] EXCEPT !.dly = @ - 1]
    BY <1>1 DEF OSTimeTick, Expiring
<1>3. CASE t \notin Members \/ tcb[t].dly = 0
    <2>1. tcb'[t] = tcb[t]
        BY <1>2, <1>3
    <2> QED BY <1>1, <1>3, <2>1
<1>4. CASE t \in Members /\ tcb[t].dly = 1
    <2>1. tcb'[t] = Expired(tcb[t])
        BY <1>2, <1>4
    <2>2. Expired(tcb[t]) \in TCBs
        BY <1>1, ExpiredBlock
    <2>3. /\ Expired(tcb[t]).prio = tcb[t].prio /\ Expired(tcb[t]).ev = tcb[t].ev
          /\ Expired(tcb[t]).multi = tcb[t].multi /\ Expired(tcb[t]).dly = 0
          /\ Expired(tcb[t]).stat = tcb[t].stat \ PendBits
          /\ Expired(tcb[t]).pend = IF tcb[t].stat \cap PendBits # {} THEN "TO" ELSE "OK"
        BY <1>1 DEF Expired, TCBs
    <2> QED BY <1>4, <2>1, <2>2, <2>3
<1>5. CASE t \in Members /\ tcb[t].dly \notin {0, 1}
    <2> DEFINE v == [tcb[t] EXCEPT !.dly = tcb[t].dly - 1]
    <2>1. tcb'[t] = v
        BY <1>2, <1>5
    <2>2. /\ v \in TCBs /\ v.prio = tcb[t].prio /\ v.ev = tcb[t].ev /\ v.multi = tcb[t].multi
          /\ v.dly = tcb[t].dly - 1 /\ v.stat = tcb[t].stat /\ v.pend = tcb[t].pend
        BY <1>1, <1>5, CoreAssumption DEF TCBs
    <2> HIDE DEF v
    <2> QED BY <1>5, <2>1, <2>2
<1> QED BY <1>3, <1>4, <1>5

LEMMA TickShared ==
    ASSUME PlacesInv, OSTimeTick, UNCHANGED load
    PROVE  PlacesInv' /\ OSRdyTbl \subseteq OSRdyTbl'
<1>1. Members \subseteq Tasks /\ tcb \in [Tasks -> TCBs] /\ Live = Members
    BY SharedFacts
<1>2. UNCHANGED <<event, pc, OSTCBPrioTbl>>
    BY DEF OSTimeTick, restVars
<1>3. SameTypes /\ SameMutexes /\ \A t : SameOwns(t)
    BY <1>2, OwnersStay DEF SameTypes, SameMutexes
<1>4. \A t \in Tasks : tcb'[t] \in TCBs /\ tcb'[t].prio = tcb[t].prio
    BY TickBlock
<1>5. tcb' \in [Tasks -> TCBs]
    <2>1. tcb' = [t \in Tasks |-> tcb'[t]]
        BY DEF OSTimeTick
    <2> QED BY <1>4, <2>1
<1>6. Members' = Members /\ PriosOf(Members)' = PriosOf(Members)
    BY <1>1, <1>4, SameApplication DEF PriosOf
<1>7. \A t \in Members : tcb[t].prio \in OSRdyTbl'
                             <=> (tcb[t].prio \in OSRdyTbl \/ (tcb[t].dly = 1 /\ ~Suspended(t)))
    <2>1. \A t, u \in Members : tcb[t].prio = tcb[u].prio => t = u
        BY SharedFacts
    <2>2. OSRdyTbl' = OSRdyTbl \cup {tcb[t].prio : t \in {x \in Members : tcb[x].dly = 1 /\ ~Suspended(x)}}
        BY <1>1 DEF OSTimeTick, MadeReady, Expiring
    <2> QED BY <2>1, <2>2
<1>8. OSRdyTbl' \subseteq PriosOf(Members) /\ OSRdyTbl \subseteq OSRdyTbl'
    <2>1. MadeReady(Expiring) \subseteq PriosOf(Members)
        BY <1>1 DEF MadeReady, PriosOf, Expiring
    <2> QED BY <2>1 DEF OSTimeTick, PlacesInv, SharedTyped
<1>9. ASSUME NEW t \in Members PROVE MemberWell(t)'
    <2>1. t \in Tasks /\ tcb[t] \in TCBs /\ MemberWell(t)
        BY <1>1 DEF PlacesInv, MembersWell
    <2>2. tcb'[t].prio = tcb[t].prio /\ tcb'[t].ev = tcb[t].ev /\ tcb'[t].multi = tcb[t].multi
        BY <2>1, TickBlock
    <2>3. RankWell(t)'
        BY <1>2, <1>3, <2>1, <2>2, StaysRank DEF MemberWell
    <2>4. In(t)' = In(t) /\ Inside(t)' = Inside(t)
        BY <1>2, <2>2 DEF In, Inside
    <2>5. CASE tcb[t].dly = 0
        <3>1. GoesOn(t) /\ KeptBlock(t)
            BY <1>2, <2>1, <2>2, <2>5, TickBlock DEF GoesOn, KeptBlock
        <3>2. tcb'[t].prio \in OSRdyTbl' <=> tcb[t].prio \in OSRdyTbl
            BY <1>7, <2>2, <2>5
        <3> QED BY <1>3, <2>1, <2>3, <2>4, <3>1, <3>2, StaysMember
    <2>6. CASE tcb[t].dly # 0
        <3>1. tcb[t].prio \notin OSRdyTbl /\ ~HandedOver(t) /\ (Queued(t) => tcb[t].stat = {pc[t].op} /\ tcb[t].pend = "OK")
            BY <2>1, <2>6 DEF MemberWell, Unkept, HandedOver, Queued
        <3>2. Competes(t)' = Competes(t)
            BY SameApplication
        <3>3. CASE tcb[t].dly = 1
            <4>1. tcb'[t].dly = 0 /\ tcb'[t].stat = tcb[t].stat \ PendBits
                  /\ tcb'[t].pend = IF tcb[t].stat \cap PendBits # {} THEN "TO" ELSE "OK"
                BY <2>1, <3>3, TickBlock
            <4>2. Resting(t) => Resting(t)'
                BY <1>2, <2>2, <2>4, <4>1 DEF Resting
            <4>3. ASSUME Awaiting(t) PROVE Awaiting(t)'
                <5>1. Queued(t) /\ tcb[t].stat = {pc[t].op} /\ pc[t].op \in {"SEM", "MUTEX"}
                    BY <3>1, <4>3 DEF Awaiting
                <5>2. tcb'[t].stat = {} /\ tcb'[t].pend = "TO"
                    BY <4>1, <5>1 DEF PendBits
                <5>3. pc[t].op = "SEM" => ~Competes(t)
                    BY <3>3, <5>1 DEF Queued
                <5>4. Queued(t)'
                    BY <1>2, <1>3, <2>2, <2>4, <3>2, <4>1, <5>1, <5>2, <5>3 DEF Queued, SameOwns
                <5> QED BY <1>2, <2>2, <2>4, <4>3, <5>4 DEF Awaiting
            <4>4. tcb[t].stat \ PendBits = {} /\ ~Suspended(t)
                BY <2>1, <3>1 DEF MemberWell, Resting, Awaiting, Suspended, PendBits
            <4>5. tcb'[t].prio \in OSRdyTbl' /\ Unkept(t)'
                BY <1>7, <2>2, <3>3, <4>1, <4>4 DEF Unkept
            <4> QED BY <2>1, <2>2, <2>3, <4>2, <4>3, <4>5 DEF MemberWell
        <3>4. CASE tcb[t].dly # 1
            <4>1. tcb'[t].stat = tcb[t].stat /\ tcb'[t].pend = tcb[t].pend /\ tcb'[t].dly # 0
                <5>1. tcb'[t].dly = tcb[t].dly - 1 /\ tcb[t].dly \in Nat
                    BY <2>1, <2>6, TickBlock, CoreAssumption DEF TCBs
                <5> QED BY <2>1, <2>6, <3>4, <5>1, TickBlock
            <4>2. Resting(t) => Resting(t)'
                BY <1>2, <2>2, <2>4, <4>1 DEF Resting
            <4>3. ASSUME Awaiting(t) PROVE Awaiting(t)'
                <5>1. Queued(t) /\ tcb[t].stat = {pc[t].op} /\ tcb[t].pend = "OK" /\ pc[t].op \in {"SEM", "MUTEX"}
                    BY <3>1, <4>3 DEF Awaiting
                <5>2. pc[t].op = "SEM" => ~Competes(t)
                    BY <2>6, <5>1 DEF Queued
                <5>3. Queued(t)'
                    BY <1>2, <1>3, <2>2, <2>4, <3>2, <4>1, <5>1, <5>2 DEF Queued, SameOwns
                <5> QED BY <1>2, <2>2, <2>4, <4>3, <5>3 DEF Awaiting
            <4>4. tcb'[t].prio \notin OSRdyTbl' /\ ~Unkept(t)'
                BY <1>7, <2>2, <3>1, <3>4, <4>1 DEF Unkept
            <4> QED BY <2>1, <2>2, <2>3, <4>2, <4>3, <4>4 DEF MemberWell
        <3> QED BY <3>3, <3>4
    <2> QED BY <2>5, <2>6
<1>10. ASSUME NEW e \in Events, Mutex(e) PROVE MutexWell(e)'
    <2>1. \A t \in Members : Owns(t, e) =>
               /\ tcb'[t].prio = tcb[t].prio /\ SameOwns(t)
               /\ \A p \in event'[e].wait : p \in event[e].wait \/ tcb[t].prio < p
        BY <1>1, <1>2, <1>3, <1>4
    <2>2. Unowned(e) => event'[e].wait = {}
        BY <1>2 DEF Unowned
    <2>3. OSTCBPrioTbl'[PipOf(e)] = OSTCBPrioTbl[PipOf(e)] /\ event'[e].cnt = event[e].cnt /\ event'[e].ptr = event[e].ptr
        BY <1>2
    <2> QED BY <1>3, <1>10, <2>1, <2>2, <2>3, StaysMutex
<1>11. /\ pc' \in [Tasks -> SharedPCs] /\ OSTCBPrioTbl' \in [Prios -> Tasks \cup {Null, Reserved}]
       /\ \A e \in Events : event'[e].cnt \in Nat /\ event'[e].wait \subseteq PriosOf(Members)'
       /\ \A t \in Tasks \ Members : tcb'[t].prio = tcb[t].prio
    BY <1>2, <1>4, <1>6 DEF PlacesInv, SharedTyped
<1> QED BY <1>3, <1>5, <1>6, <1>8, <1>9, <1>10, <1>11, PlacesNext

-----------------------------------------------------------------------------
(* Mutexes change hands. *)

(* A priority fits into the byte that the block has for it.                *)
LEMMA SmallPrios ==
    ASSUME PlacesInv
    PROVE  \A p \in Prios : p \in Nat /\ p < 256 /\ p # OS_MUTEX_AVAILABLE
BY CoreAssumption DEF PlacesInv, Sharing, Prios, OS_MUTEX_AVAILABLE

(* Who owns no mutex has its own priority; who waits for one owns none.    *)
LEMMA OwnRank ==
    ASSUME PlacesInv, NEW t \in Members, \A e \in Events : ~Owns(t, e)
    PROVE  tcb[t].prio = L.prio[t]
BY DEF PlacesInv, MembersWell, MemberWell, RankWell

LEMMA MutexWaiters ==
    ASSUME PlacesInv, NEW e \in Events, Mutex(e), NEW t \in Members, e \in In(t)
    PROVE  /\ Awaiting(t) /\ Queued(t) /\ pc[t].op = "MUTEX" /\ tcb[t].ev = e
           /\ Competes(t) /\ (\A d \in Events : ~Owns(t, d)) /\ tcb[t].prio = L.prio[t]
<1>1. MemberWell(t)
    BY DEF PlacesInv, MembersWell
<1>2. Awaiting(t) /\ Queued(t) /\ tcb[t].ev = e
    BY <1>1 DEF MemberWell, Resting, Awaiting, HandedOver, Queued
<1>3. pc[t].op = "MUTEX"
    BY <1>2 DEF Awaiting, Mutex
<1> QED BY <1>2, <1>3, OwnRank DEF Queued

LEMMA TakeShared ==
    ASSUME PlacesInv, EventsWell, SharedCaller, OSIntNesting = 0, OSTCBCur \in Members, NEW e \in Events, Mutex(e),
           TakeMutex(e), HoldsNone, Competes(OSTCBCur), UNCHANGED load
    PROVE  PlacesInv' /\ Return /\ OSRdyTbl' = OSRdyTbl
<1>0. PICK me \in Members : me = OSTCBCur
    OBVIOUS
<1>1. /\ OwnerPrio(e) = OS_MUTEX_AVAILABLE /\ UNCHANGED <<tcb, pc, OSRdyTbl, OSTCBPrioTbl>> /\ Return
      /\ event' = [event EXCEPT ![e].cnt = Owned(e, tcb[me].prio), ![e].ptr = me]
    BY <1>0 DEF TakeMutex, restVars, Return
<1>2. \A d \in Events : /\ event'[d].type = event[d].type /\ event'[d].wait = event[d].wait
                        /\ d # e => event'[d].cnt = event[d].cnt /\ event'[d].ptr = event[d].ptr
    BY <1>1 DEF EventsWell
<1>3. event'[e].cnt = Owned(e, tcb[me].prio) /\ event'[e].ptr = me
    BY <1>1 DEF EventsWell
<1>4. /\ Members \subseteq Tasks /\ me \in Tasks /\ SameTypes /\ Members' = Members /\ Null \notin Members
      /\ PriosOf(Members)' = PriosOf(Members)
    <2>1. Members \subseteq Tasks /\ Null \notin Members
        BY SharedFacts, CoreAssumption
    <2>2. Members' = Members
        BY SameApplication
    <2>3. tcb' = tcb
        BY <1>1
    <2>4. PriosOf(Members)' = PriosOf(Members)
        BY <2>2, <2>3 DEF PriosOf
    <2> QED BY <1>2, <2>1, <2>2, <2>4 DEF SameTypes
<1>5. tcb[me].prio = L.prio[me] /\ (\A d \in Events : ~Owns(me, d)) /\ L.prio[me] \in Prios
    BY <1>0, OwnRank, SharedFacts DEF HoldsNone, Owns
<1>6. Unowned(e)
    <2>1. \A t \in Members : L.prio[t] # OS_MUTEX_AVAILABLE
        BY SmallPrios, SharedFacts
    <2> QED BY <1>1, <2>1 DEF PlacesInv, MutexesWell, MutexWell, OwnedBy
<1>7. Pip(e)' = Pip(e) /\ OwnerPrio(e)' = L.prio[me] /\ event'[e].cnt \in Nat
    <2>1. Pip(e) \in Nat /\ L.prio[me] \in Nat /\ L.prio[me] < 256
        BY <1>5, SmallPrios, MutexFacts
    <2> QED BY <1>3, <1>5, <2>1, CntWritten
<1>8. \A t \in Members \ {me} : SameOwns(t)
    <2>1. \A t \in Members : ~Owns(t, e)
        BY <1>4, <1>6 DEF Unowned, Owns
    <2> QED BY <1>2, <1>3, <1>4, <2>1 DEF SameOwns, Owns, SameTypes, Mutex
<1>9. \A t \in Tasks : GoesOn(t) /\ KeptBlock(t) /\ In(t)' = In(t)
    BY <1>1, <1>2 DEF GoesOn, KeptBlock, In
<1>10. ASSUME NEW t \in Members PROVE MemberWell(t)'
    <2>1. MemberWell(t)
        BY DEF PlacesInv, MembersWell
    <2>2. CASE t # me
        <3>1. RankWell(t)'
            BY <1>1, <1>8, <2>1, <2>2, StaysRank DEF MemberWell
        <3> QED BY <1>1, <1>4, <1>8, <1>9, <2>1, <2>2, <3>1, StaysMember
    <2>3. CASE t = me
        <3>1. Resting(me)' /\ Unkept(me)' = Unkept(me) /\ tcb'[me].multi = {}
            BY <1>0, <1>1, <1>4, <1>9 DEF SharedCaller, Resting, Unkept
        <3>2. RankWell(me)'
            BY <1>1, <1>5, <2>1, <2>3, SameApplication DEF MemberWell, RankWell
        <3> QED BY <1>1, <2>1, <2>3, <3>1, <3>2 DEF MemberWell
    <2> QED BY <2>2, <2>3
<1>11. ASSUME NEW d \in Events, Mutex(d) PROVE MutexWell(d)'
    <2>1. CASE d = e
        <3>1. Pip(e)' = PipOf(e)' /\ PipOf(e)' = PipOf(e)
            BY <1>7, SameApplication DEF PlacesInv, MutexesWell, MutexWell
        <3>2. OSTCBPrioTbl'[PipOf(e)] = Reserved /\ event'[e].wait = {}
            BY <1>1, <1>2, <1>6 DEF Unowned
        <3>3. \A x \in Events : Owns(me, x)' => x = e
            BY <1>2, <1>4, <1>5 DEF Owns, SameTypes, Mutex
        <3>4. OwnedBy(e, me)'
            BY <1>0, <1>3, <1>7, <3>1, <3>2, <3>3, SameApplication DEF OwnedBy
        <3> QED BY <1>4, <2>1, <3>1, <3>4 DEF MutexWell
    <2>2. CASE d # e
        <3>1. event'[d].cnt = event[d].cnt /\ event'[d].ptr = event[d].ptr /\ event'[d].wait = event[d].wait
            BY <1>2, <2>2
        <3>2. \A t \in Members : Owns(t, d) =>
                 /\ tcb'[t].prio = tcb[t].prio /\ SameOwns(t)
                 /\ \A p \in event'[d].wait : p \in event[d].wait \/ tcb[t].prio < p
            BY <1>1, <1>5, <1>8, <3>1
        <3>3. Unowned(d) => event'[d].wait = {}
            BY <3>1 DEF Unowned
        <3>4. OSTCBPrioTbl'[PipOf(d)] = OSTCBPrioTbl[PipOf(d)]
            BY <1>1
        <3> QED BY <1>4, <1>11, <3>1, <3>2, <3>3, <3>4, StaysMutex
    <2> QED BY <2>1, <2>2
<1>12. /\ tcb' \in [Tasks -> TCBs] /\ pc' \in [Tasks -> SharedPCs]
       /\ OSTCBPrioTbl' \in [Prios -> Tasks \cup {Null, Reserved}]
       /\ \A t \in Tasks \ Members : tcb'[t].prio = tcb[t].prio
       /\ OSRdyTbl' \subseteq PriosOf(Members)'
       /\ \A d \in Events : event'[d].cnt \in Nat /\ event'[d].wait \subseteq PriosOf(Members)'
    BY <1>1, <1>2, <1>4, <1>7 DEF PlacesInv, SharedTyped
<1> QED BY <1>1, <1>4, <1>10, <1>11, <1>12, PlacesNext

(* The owner has its own priority again, its mutex is nobody's or that of  *)
(* a task among W.                                                         *)
LEMMA MutexGivenUp ==
    ASSUME PlacesInv, UNCHANGED load, NEW me \in Members, NEW e \in Events, Owns(me, e),
           Resting(me), Unkept(me), tcb[me].multi = {}, NEW W \in SUBSET (Members \ {me}),
           tcb' \in [Tasks -> TCBs], tcb'[me].prio = L.prio[me], KeptBlock(me), L.prio[me] \in OSRdyTbl',
           OSTCBPrioTbl' = [OSTCBPrioTbl EXCEPT ![PipOf(e)] = Reserved],
           \A t \in Tasks \ (W \cup {me}) : tcb'[t] = tcb[t],
           \A t \in Members \ (W \cup {me}) : tcb[t].prio \in OSRdyTbl' <=> tcb[t].prio \in OSRdyTbl,
           OSRdyTbl' \subseteq PriosOf(Members)', event'[e].wait \subseteq PriosOf(Members)',
           SameTypes, event'[e].cnt \in Nat, event'[e].ptr \in W \cup {Null},
           \A d \in Events \ {e} : event'[d] = event[d],
           event'[e].wait \subseteq event[e].wait,
           \A t \in Members \ W : tcb[t].prio \in event[e].wait => tcb[t].prio \in event'[e].wait,
           \A t \in W : MemberWell(t)' /\ tcb'[t].prio = tcb[t].prio /\ \A d \in Events : ~Owns(t, d),
           MutexWell(e)', SharedGoOn
    PROVE  PlacesInv'
<1>1. /\ Members \subseteq Tasks /\ me \in Tasks /\ Members' = Members /\ Null \notin Members
      /\ Mutex(e) /\ OwnedBy(e, me) /\ event[e].ptr = me /\ OSTCBPrioTbl \in [Prios -> Tasks \cup {Null, Reserved}]
      /\ PipOf(e) \in Prios
    BY SharedFacts, SameApplication, MutexFacts, CoreAssumption DEF Owns, PlacesInv, SharedTyped
<1>2. \A d \in Events : Owns(me, d) => d = e
    BY <1>1 DEF OwnedBy
<1>3. \A d \in Events : ~Owns(me, d)'
    <2> TAKE d \in Events
    <2>1. CASE d = e
        BY <1>1, <2>1 DEF Owns
    <2>2. CASE d # e
        BY <1>2, <2>2 DEF Owns, SameTypes, Mutex
    <2> QED BY <2>1, <2>2
<1>4. ASSUME NEW t \in Members, t # me, t \notin W PROVE SameOwns(t)
    <2>1. event[e].ptr # t /\ event'[e].ptr # t
        BY <1>1, <1>4
    <2> QED BY <2>1 DEF SameOwns, Owns, SameTypes, Mutex
<1>5. \A t \in Members \ {me} : tcb[t].prio # PipOf(e) /\ L.prio[t] # PipOf(e)
    BY <1>1, MutexFacts DEF Owns
<1>6. \A p \in Prios : p # PipOf(e) => OSTCBPrioTbl'[p] = OSTCBPrioTbl[p]
    BY <1>1
<1>7. ASSUME NEW t \in Members PROVE MemberWell(t)'
    <2>1. MemberWell(t) /\ t \in Tasks /\ GoesOn(t) /\ L.prio[t] \in Prios /\ tcb[t].prio \in Prios
        BY <1>1, SharedFacts DEF PlacesInv, MembersWell, SharedGoOn
    <2>2. CASE t = me
        <3>1. L.prio[me] # PipOf(e) /\ OSTCBPrioTbl[L.prio[me]] = me
            BY <1>1, MutexFacts, SharedFacts
        <3>2. RankWell(me)'
            BY <1>6, <2>1, <2>2, <3>1, SameApplication DEF RankWell
        <3>3. \A d \in Events : L.prio[me] \notin event'[d].wait
            <4> SUFFICES ASSUME NEW d \in Events, L.prio[me] \in event[d].wait PROVE FALSE
                BY Zenon
            <4>1. PICK t1 \in Members : tcb[t1].prio = L.prio[me]
                BY DEF PlacesInv, SharedTyped, PriosOf
            <4>2. t1 = me
                BY <4>1, SharedFacts
            <4> QED BY <4>1, <4>2 DEF Resting, In
        <3>4. In(me)' = {}
            BY <3>3 DEF In
        <3>5. Resting(me)' /\ Unkept(me)'
            BY <2>1, <2>2, <3>4 DEF Resting, Unkept, KeptBlock, GoesOn
        <3> QED BY <2>2, <3>2, <3>5 DEF MemberWell, KeptBlock
    <2>3. CASE t # me /\ t \notin W
        <3>1. tcb'[t] = tcb[t] /\ KeptBlock(t)
            BY <2>1, <2>3 DEF KeptBlock
        <3>2. RankWell(t)'
            BY <1>4, <1>5, <1>6, <2>1, <2>3, <3>1, StaysRank DEF MemberWell
        <3>3. \A d \in Events : tcb[t].prio \in event'[d].wait <=> tcb[t].prio \in event[d].wait
            BY <2>3
        <3>4. In(t)' = In(t)
            BY <3>1, <3>3 DEF In
        <3>5. tcb'[t].prio \in OSRdyTbl' <=> tcb[t].prio \in OSRdyTbl
            BY <2>3, <3>1
        <3> QED BY <1>4, <2>1, <2>3, <3>1, <3>2, <3>4, <3>5, StaysMember
    <2>4. CASE t \in W
        BY <2>4
    <2> QED BY <2>2, <2>3, <2>4
<1>8. ASSUME NEW d \in Events, Mutex(d) PROVE MutexWell(d)'
    <2>1. CASE d # e
        <3>1. event'[d].cnt = event[d].cnt /\ event'[d].ptr = event[d].ptr /\ event'[d].wait = event[d].wait
            BY <2>1
        <3>2. ASSUME NEW t \in Members, Owns(t, d)
              PROVE  /\ tcb'[t].prio = tcb[t].prio /\ SameOwns(t)
                     /\ \A p \in event'[d].wait : p \in event[d].wait \/ tcb[t].prio < p
            <4>1. t # me /\ t \notin W
                BY <1>2, <2>1, <3>2
            <4> QED BY <1>1, <1>4, <3>1, <4>1
        <3>3. Unowned(d) => event'[d].wait = {}
            BY <3>1 DEF Unowned
        <3>4. OSTCBPrioTbl'[PipOf(d)] = OSTCBPrioTbl[PipOf(d)]
            BY <1>1, <1>6, <1>8, <2>1, MutexFacts
        <3> QED BY <1>8, <3>1, <3>2, <3>3, <3>4, StaysMutex
    <2> QED BY <2>1
<1>9. \A t \in Tasks \ Members : tcb'[t].prio = tcb[t].prio
    BY <1>1
<1>10. OSTCBPrioTbl' \in [Prios -> Tasks \cup {Null, Reserved}]
    BY <1>1
<1>11. ASSUME NEW d \in Events PROVE event'[d].cnt \in Nat /\ event'[d].wait \subseteq PriosOf(Members)'
    <2>1. CASE d # e
        <3>1. \A p \in event[d].wait : p \in PriosOf(Members)'
            <4> TAKE p \in event[d].wait
            <4>1. PICK t \in Members : tcb[t].prio = p
                BY DEF PlacesInv, SharedTyped, PriosOf
            <4>2. t # me
                BY <4>1 DEF Resting, In
            <4>3. tcb'[t].prio = p
                BY <1>1, <4>1, <4>2
            <4> QED BY <1>1, <4>3 DEF PriosOf
        <3> QED BY <2>1, <3>1 DEF PlacesInv, SharedTyped
    <2> QED BY <2>1
<1>12. pc' \in [Tasks -> SharedPCs]
    BY DEF SharedGoOn
<1> QED BY <1>7, <1>8, <1>9, <1>10, <1>11, <1>12, PlacesNext

LEMMA LoweredBlocks ==
    ASSUME NEW me \in Tasks, NEW blocks \in [Tasks -> TCBs], NEW q \in Prios, NEW lower \in BOOLEAN,
           lower \/ blocks[me].prio = q, NEW b, b = LowerIf(lower, me, q, blocks)
    PROVE  /\ b \in [Tasks -> TCBs] /\ \A t \in Tasks \ {me} : b[t] = blocks[t]
           /\ b[me].prio = q /\ b[me].stat = blocks[me].stat /\ b[me].pend = blocks[me].pend
           /\ b[me].dly = blocks[me].dly /\ b[me].ev = blocks[me].ev /\ b[me].multi = blocks[me].multi
<1> DEFINE v == [blocks[me] EXCEPT !.prio = q]
<1>1. /\ v \in TCBs /\ v.prio = q /\ v.stat = blocks[me].stat /\ v.pend = blocks[me].pend
      /\ v.dly = blocks[me].dly /\ v.ev = blocks[me].ev /\ v.multi = blocks[me].multi
    BY CoreAssumption DEF TCBs, Prios
<1>2. lower => b = [blocks EXCEPT ![me] = v]
    BY DEF LowerIf
<1>3. ~lower => b = blocks
    BY DEF LowerIf
<1> HIDE DEF v
<1> QED BY <1>1, <1>2, <1>3

(* The caller has a mutex and gives it up. *)
LEMMA OwnerPosts ==
    ASSUME PlacesInv, SharedCaller, OSTCBCur \in Members, NEW e \in Events, OSMutexPost(e)
    PROVE  /\ Owns(OSTCBCur, e) /\ Mutex(e) /\ OwnedBy(e, OSTCBCur) /\ OwnerPrio(e) = L.prio[OSTCBCur]
           /\ OSIntNesting = 0 /\ Resting(OSTCBCur) /\ Unkept(OSTCBCur) /\ tcb[OSTCBCur].multi = {}
           /\ tcb[OSTCBCur].prio \in OSRdyTbl /\ OSTCBCur \in Tasks
           /\ Lowered(OSTCBCur, e) \in BOOLEAN /\ (Lowered(OSTCBCur, e) \/ tcb[OSTCBCur].prio = L.prio[OSTCBCur])
           /\ (Lowered(OSTCBCur, e) <=> tcb[OSTCBCur].prio = PipOf(e))
           /\ OSTCBPrioTbl' = [OSTCBPrioTbl EXCEPT ![PipOf(e)] = Reserved]
           /\ L.prio[OSTCBCur] # PipOf(e)
<1>0. PICK me \in Members : me = OSTCBCur
    OBVIOUS
<1>1. Mutex(e) /\ Owns(me, e) /\ OSIntNesting = 0
    BY <1>0 DEF OSMutexPost, Owns
<1>2. OwnedBy(e, me) /\ Pip(e) = PipOf(e) /\ L.prio[me] # PipOf(e)
    BY <1>1, MutexFacts
<1>3. MemberWell(me) /\ me \in Tasks /\ OSTCBPrioTbl[L.prio[me]] = me /\ L.prio[me] \in Prios
      /\ OSTCBPrioTbl \in [Prios -> Tasks \cup {Null, Reserved}]
    BY SharedFacts DEF PlacesInv, MembersWell, SharedTyped
<1>4. Lowered(me, e) <=> tcb[me].prio = PipOf(e)
    BY <1>2 DEF Lowered
<1>5. Lowered(me, e) \/ tcb[me].prio = L.prio[me]
    BY <1>2, <1>3, <1>4 DEF MemberWell, RankWell, OwnedBy
<1>6. OSTCBPrioTbl' = [OSTCBPrioTbl EXCEPT ![PipOf(e)] = Reserved]
    <2>1. PrioTblAt(Lowered(me, e), me, L.prio[me]) = OSTCBPrioTbl
        BY <1>3 DEF PrioTblAt
    <2>2. OSTCBPrioTbl' = [PrioTblAt(Lowered(me, e), me, OwnerPrio(e)) EXCEPT ![Pip(e)] = Reserved]
        BY <1>0 DEF OSMutexPost
    <2> QED BY <1>2, <2>1, <2>2 DEF OwnedBy
<1>7. Resting(me) /\ Unkept(me) /\ tcb[me].multi = {}
    BY <1>0, <1>1 DEF SharedCaller
<1>8. OwnerPrio(e) = L.prio[me] /\ tcb[me].prio \in OSRdyTbl /\ Lowered(me, e) \in BOOLEAN
    BY <1>2, <1>3, <1>7 DEF OwnedBy, MemberWell, Lowered
<1> QED BY <1>0, <1>1, <1>2, <1>3, <1>4, <1>5, <1>6, <1>7, <1>8, Zenon

PostEnds(e) ==
    /\ tcb'[OSTCBCur].prio = L.prio[OSTCBCur]
    /\ \A t \in Members : tcb[t].dly = 0 => tcb'[t].dly = 0
    /\ \A d \in Events \ {e} : event'[d] = event[d]
    /\ event'[e].type = event[e].type

LEMMA MutexFreed ==
    ASSUME PlacesInv, EventsWell, SharedCaller, OSTCBCur \in Members, NEW e \in Events, OSMutexPost(e),
           event[e].wait = {}, UNCHANGED load
    PROVE  PlacesInv' /\ Return /\ PostEnds(e) /\ event'[e].ptr = Null
<1>0. PICK me \in Members : me = OSTCBCur
    OBVIOUS
<1> DEFINE lower == Lowered(me, e)
<1>1. /\ Owns(me, e) /\ Mutex(e) /\ OwnedBy(e, me) /\ OwnerPrio(e) = L.prio[me]
      /\ OSIntNesting = 0 /\ Resting(me) /\ Unkept(me) /\ tcb[me].multi = {}
      /\ tcb[me].prio \in OSRdyTbl /\ me \in Tasks
      /\ lower \in BOOLEAN /\ (lower \/ tcb[me].prio = L.prio[me])
      /\ OSTCBPrioTbl' = [OSTCBPrioTbl EXCEPT ![PipOf(e)] = Reserved]
    BY <1>0, OwnerPosts
<1>2. /\ tcb' = LowerIf(lower, me, L.prio[me], tcb)
      /\ OSRdyTbl' = ReadyAtPrio(lower, me, L.prio[me], OSRdyTbl)
      /\ event' = [event EXCEPT ![e].cnt = Owned(e, OS_MUTEX_AVAILABLE), ![e].ptr = Null]
      /\ Return
    BY <1>0, <1>1 DEF OSMutexPost, Waiters
<1>3. L.prio[me] \in Prios /\ tcb \in [Tasks -> TCBs] /\ Members \subseteq Tasks /\ Members' = Members
      /\ OSTCBPrioTbl \in [Prios -> Tasks \cup {Null, Reserved}]
    BY SharedFacts, SameApplication DEF PlacesInv, SharedTyped
<1>4. /\ tcb' \in [Tasks -> TCBs] /\ (\A t \in Tasks \ {me} : tcb'[t] = tcb[t])
      /\ tcb'[me].prio = L.prio[me] /\ KeptBlock(me)
    <2>1. me \in Tasks /\ tcb \in [Tasks -> TCBs] /\ L.prio[me] \in Prios
        BY <1>1, <1>3
    <2>2. lower \in BOOLEAN /\ (lower \/ tcb[me].prio = L.prio[me])
        BY <1>1
    <2>3. tcb' = LowerIf(lower, me, L.prio[me], tcb)
        BY <1>2
    <2> HIDE DEF lower
    <2> QED BY <2>1, <2>2, <2>3, LoweredBlocks DEF KeptBlock
<1>5. OSRdyTbl' = IF lower THEN (OSRdyTbl \ {tcb[me].prio}) \cup {L.prio[me]} ELSE OSRdyTbl
    BY <1>2 DEF ReadyAtPrio
<1>6. ASSUME NEW t \in Members \ {me}
      PROVE  tcb[t].prio \in OSRdyTbl' <=> tcb[t].prio \in OSRdyTbl
    <2>1. tcb[t].prio # tcb[me].prio /\ tcb[t].prio # L.prio[me]
        BY SharedFacts
    <2> QED BY <1>5, <2>1
<1>7. L.prio[me] \in OSRdyTbl'
    BY <1>1, <1>5
<1>8. OSRdyTbl' \subseteq PriosOf(Members)'
    <2>1. ASSUME NEW p \in OSRdyTbl' PROVE \E t \in Members : tcb'[t].prio = p
        <3>1. CASE p = L.prio[me]
            BY <1>4, <3>1
        <3>2. CASE p # L.prio[me]
            <4>1. p \in OSRdyTbl /\ p # tcb[me].prio
                BY <1>1, <1>5, <2>1, <3>2
            <4>2. PICK t \in Members : tcb[t].prio = p
                BY <4>1 DEF PlacesInv, SharedTyped, PriosOf
            <4> QED BY <1>3, <1>4, <4>1, <4>2
        <3> QED BY <3>1, <3>2
    <2> QED BY <1>3, <2>1 DEF PriosOf
<1>9. /\ \A d \in Events \ {e} : event'[d] = event[d]
      /\ event'[e].type = event[e].type /\ event'[e].wait = event[e].wait
      /\ event'[e].cnt = Owned(e, OS_MUTEX_AVAILABLE) /\ event'[e].ptr = Null
    BY <1>2 DEF EventsWell
<1>10. Pip(e)' = Pip(e) /\ OwnerPrio(e)' = OS_MUTEX_AVAILABLE /\ event'[e].cnt \in Nat
    <2>1. Pip(e) \in Nat /\ OS_MUTEX_AVAILABLE \in Nat /\ OS_MUTEX_AVAILABLE < 256
        BY <1>1, MutexFacts DEF OS_MUTEX_AVAILABLE
    <2> QED BY <1>9, <2>1, CntWritten
<1>11. SameTypes /\ SharedGoOn
    BY <1>0, <1>1, <1>2, <1>9, SharedCallsGoOn DEF SameTypes
<1>12. MutexWell(e)'
    <2>1. PipOf(e)' = PipOf(e) /\ Pip(e) = PipOf(e) /\ PipOf(e) \in Prios
        BY <1>1, MutexFacts, SameApplication
    <2>2. OSTCBPrioTbl'[PipOf(e)] = Reserved
        BY <1>1, <1>3, <2>1
    <2> QED BY <1>9, <1>10, <2>1, <2>2 DEF MutexWell, Unowned
<1>13. PlacesInv'
    <2> DEFINE W == {}
    <2>1. W \in SUBSET (Members \ {me}) /\ event'[e].ptr \in W \cup {Null} /\ W \cup {me} = {me}
        BY <1>9
    <2>2. event'[e].wait \subseteq PriosOf(Members)' /\ event'[e].wait \subseteq event[e].wait
        BY <1>9
    <2>3. \A t \in Members \ W : tcb[t].prio \in event[e].wait => tcb[t].prio \in event'[e].wait
        BY <1>9
    <2>4. \A t \in W : MemberWell(t)' /\ tcb'[t].prio = tcb[t].prio /\ \A d \in Events : ~Owns(t, d)
        OBVIOUS
    <2> HIDE DEF W
    <2> QED BY <1>1, <1>4, <1>6, <1>7, <1>8, <1>9, <1>10, <1>11, <1>12, <2>1, <2>2, <2>3, <2>4, MutexGivenUp
<1>14. PostEnds(e)
    BY <1>0, <1>3, <1>4, <1>9 DEF PostEnds, KeptBlock
<1> QED BY <1>2, <1>9, <1>13, <1>14

HandedOn(e, p, cnt, ptr) == [Delisted(e, p) EXCEPT ![e].cnt = cnt, ![e].ptr = ptr]

LEMMA EventHandedOn ==
    ASSUME EventsWell, NEW e \in Events, NEW p, NEW cnt, NEW ptr, event' = HandedOn(e, p, cnt, ptr)
    PROVE  /\ \A d \in Events \ {e} : event'[d] = event[d]
           /\ event'[e].type = event[e].type /\ event'[e].wait = event[e].wait \ {p}
           /\ event'[e].cnt = cnt /\ event'[e].ptr = ptr
<1> DEFINE list == Delisted(e, p)
<1>1. /\ DOMAIN list = Events /\ \A d \in Events \ {e} : list[d] = event[d]
      /\ list[e] = [type |-> event[e].type, cnt |-> event[e].cnt, ptr |-> event[e].ptr, wait |-> event[e].wait \ {p}]
    BY DEF Delisted, EventsWell
<1> HIDE DEF list
<1> DEFINE y == [list[e] EXCEPT !.cnt = cnt, !.ptr = ptr]
<1>2. event' = [list EXCEPT ![e] = y]
    BY <1>1 DEF list, HandedOn
<1>3. y.type = event[e].type /\ y.wait = event[e].wait \ {p} /\ y.cnt = cnt /\ y.ptr = ptr
    BY <1>1
<1> HIDE DEF y
<1> QED BY <1>1, <1>2, <1>3

LEMMA MutexPassedOn ==
    ASSUME PlacesInv, EventsWell, SharedCaller, OSTCBCur \in Members, NEW e \in Events, OSMutexPost(e),
           event[e].wait # {}, UNCHANGED load
    PROVE  PlacesInv' /\ CallSched /\ PostEnds(e)
<1>0. PICK me \in Members : me = OSTCBCur
    OBVIOUS
<1> DEFINE lower == Lowered(me, e)
<1>1. /\ Owns(me, e) /\ Mutex(e) /\ OwnedBy(e, me) /\ OwnerPrio(e) = L.prio[me]
      /\ OSIntNesting = 0 /\ Resting(me) /\ Unkept(me) /\ tcb[me].multi = {}
      /\ tcb[me].prio \in OSRdyTbl /\ me \in Tasks
      /\ lower \in BOOLEAN /\ (lower \/ tcb[me].prio = L.prio[me])
      /\ OSTCBPrioTbl' = [OSTCBPrioTbl EXCEPT ![PipOf(e)] = Reserved]
    BY <1>0, OwnerPosts
<1>2. L.prio[me] \in Prios /\ tcb \in [Tasks -> TCBs] /\ Members \subseteq Tasks /\ Members' = Members
      /\ OSTCBPrioTbl \in [Prios -> Tasks \cup {Null, Reserved}]
    BY SharedFacts, SameApplication DEF PlacesInv, SharedTyped
<1>3. event[e].wait \in SUBSET Nat
    BY SharedFacts
<1>4. PICK p \in event[e].wait : p = Highest(event[e].wait) /\ \A r \in event[e].wait : p <= r
    BY <1>3, LeastExists
<1>5. event[e].type = "MUTEX"
    BY <1>1 DEF Mutex
<1>6. PICK w \in Members, v \in TCBs : HandsTo(e, p, "MUTEX", w, v)
    BY <1>5, WokenShared
<1>7. /\ w = OSTCBPrioTbl[p] /\ tcb[w].prio = p /\ Awaiting(w) /\ Queued(w) /\ tcb[w].ev = e /\ pc[w].op = "MUTEX"
      /\ v.prio = p /\ v.stat = {} /\ v.pend = "OK" /\ v.dly = 0 /\ v.ev = e /\ v.multi = {}
      /\ w \in Tasks
    BY <1>2, <1>6 DEF HandsTo
<1>8. w # me
    BY <1>1, <1>7 DEF Resting, Awaiting, Inside
<1>9. Competes(w) /\ (\A d \in Events : ~Owns(w, d)) /\ L.prio[w] = p
    <2>1. e \in In(w)
        BY <1>7 DEF In
    <2> QED BY <1>1, <1>7, <2>1, MutexWaiters
<1> DEFINE blocks == [tcb EXCEPT ![w] = v]
<1>10. /\ tcb' = LowerIf(lower, me, L.prio[me], blocks)
       /\ OSRdyTbl' = ReadyAtPrio(lower, me, L.prio[me], OSRdyTbl \cup {p})
       /\ event' = HandedOn(e, p, Owned(e, p), w) /\ CallSched
    <2>1. Highest(Waiters(e)) = p /\ Waiters(e) # {}
        BY <1>4 DEF Waiters
    <2>2. /\ TCBsAfterRdy(e, {p}, Null, {"MUTEX"}, "OK") = blocks /\ ReadyAfterRdy({p}) = OSRdyTbl \cup {p}
          /\ EventsAfterRdy(e, {p}) = Delisted(e, p) /\ OSTCBPrioTbl[p] = w
        BY <1>6 DEF HandsTo
    <2>3. /\ tcb' = LowerIf(lower, me, OwnerPrio(e), TCBsAfterRdy(e, {p}, Null, {"MUTEX"}, "OK"))
          /\ OSRdyTbl' = ReadyAtPrio(lower, me, OwnerPrio(e), ReadyAfterRdy({p}))
          /\ event' = [EventsAfterRdy(e, {p}) EXCEPT ![e].cnt = Owned(e, p), ![e].ptr = OSTCBPrioTbl[p]]
          /\ CallSched
        BY <1>0, <2>1, Zenon DEF OSMutexPost
    <2> HIDE DEF blocks, lower
    <2> QED BY <1>1, <2>2, <2>3, Zenon DEF HandedOn
<1>11. blocks \in [Tasks -> TCBs] /\ blocks[w] = v /\ \A t \in Tasks \ {w} : blocks[t] = tcb[t]
    BY <1>2, <1>7
<1>12. /\ tcb' \in [Tasks -> TCBs] /\ (\A t \in Tasks \ {me, w} : tcb'[t] = tcb[t]) /\ tcb'[w] = v
       /\ tcb'[me].prio = L.prio[me] /\ KeptBlock(me)
    <2>1. lower \in BOOLEAN /\ (lower \/ tcb[me].prio = L.prio[me]) /\ me \in Tasks
        BY <1>1
    <2>2. tcb' = LowerIf(lower, me, L.prio[me], blocks) /\ blocks[me] = tcb[me]
        BY <1>8, <1>10, <1>11, <2>1
    <2> HIDE DEF lower, blocks
    <2>3. /\ tcb' \in [Tasks -> TCBs] /\ \A t \in Tasks \ {me} : tcb'[t] = blocks[t]
          /\ tcb'[me].prio = L.prio[me] /\ KeptBlock(me)
        BY <1>2, <1>11, <2>1, <2>2, LoweredBlocks DEF KeptBlock
    <2> QED BY <1>7, <1>8, <1>11, <2>3
<1> HIDE DEF blocks
<1>13. OSRdyTbl' = IF lower THEN ((OSRdyTbl \cup {p}) \ {tcb[me].prio}) \cup {L.prio[me]} ELSE OSRdyTbl \cup {p}
    BY <1>10 DEF ReadyAtPrio
<1>14. ASSUME NEW t \in Members \ {me, w}
       PROVE  tcb[t].prio \in OSRdyTbl' <=> tcb[t].prio \in OSRdyTbl
    <2>1. tcb[t].prio # tcb[me].prio /\ tcb[t].prio # L.prio[me] /\ tcb[t].prio # p
        BY <1>7, SharedFacts
    <2> QED BY <1>13, <2>1
<1>15. L.prio[me] \in OSRdyTbl' /\ p \in OSRdyTbl'
    <2>1. p # tcb[me].prio
        BY <1>7, <1>8, SharedFacts
    <2> QED BY <1>1, <1>13, <2>1
<1>16. \A t \in Members \ {me} : tcb'[t].prio = tcb[t].prio
    BY <1>2, <1>7, <1>12
<1>17. OSRdyTbl' \subseteq PriosOf(Members)'
    <2>1. ASSUME NEW r \in OSRdyTbl' PROVE \E t \in Members : tcb'[t].prio = r
        <3>1. CASE r = L.prio[me]
            BY <1>12, <3>1
        <3>2. CASE r = p
            BY <1>7, <1>8, <1>16, <3>2
        <3>3. CASE r # L.prio[me] /\ r # p
            <4>1. r \in OSRdyTbl /\ r # tcb[me].prio
                BY <1>1, <1>13, <2>1, <3>3
            <4>2. PICK t \in Members : tcb[t].prio = r
                BY <4>1 DEF PlacesInv, SharedTyped, PriosOf
            <4> QED BY <1>16, <4>1, <4>2
        <3> QED BY <3>1, <3>2, <3>3
    <2> QED BY <1>2, <2>1 DEF PriosOf
<1>18. /\ \A d \in Events \ {e} : event'[d] = event[d]
       /\ event'[e].type = event[e].type /\ event'[e].wait = event[e].wait \ {p}
       /\ event'[e].cnt = Owned(e, p) /\ event'[e].ptr = w
    BY <1>10, EventHandedOn
<1>19. Pip(e)' = Pip(e) /\ OwnerPrio(e)' = p /\ event'[e].cnt \in Nat
    <2>1. Pip(e) \in Nat /\ p \in Nat /\ p < 256
        <3>1. p \in Prios
            BY <1>9, SharedFacts
        <3> QED BY <1>1, <3>1, SmallPrios, MutexFacts
    <2> QED BY <1>18, <2>1, CntWritten
<1>20. SameTypes /\ SharedGoOn
    BY <1>0, <1>1, <1>10, <1>18, SharedCallsGoOn DEF SameTypes
<1>21. PipOf(e)' = PipOf(e) /\ Pip(e) = PipOf(e) /\ PipOf(e) \in Prios /\ L' = L
    BY <1>1, MutexFacts, SameApplication
<1>22. p # PipOf(e) /\ OSTCBPrioTbl'[PipOf(e)] = Reserved /\ OSTCBPrioTbl'[p] = w
    <2>1. p # PipOf(e) /\ p \in Prios
        BY <1>1, <1>9, MutexFacts, SharedFacts
    <2> QED BY <1>1, <1>2, <1>7, <1>21, <2>1
<1>23. Owns(w, e)' /\ \A d \in Events : Owns(w, d)' => d = e
    BY <1>1, <1>9, <1>18, <1>20 DEF Owns, SameTypes, Mutex
<1>24. MemberWell(w)'
    <2>1. tcb'[w].prio = p /\ tcb'[w].stat = {} /\ tcb'[w].pend = "OK" /\ tcb'[w].dly = 0 /\ tcb'[w].ev = e
          /\ tcb'[w].multi = {}
        BY <1>7, <1>12, Zenon
    <2>2. RankWell(w)'
        BY <1>9, <1>21, <1>22, <2>1 DEF RankWell
    <2>3. In(w)' = {}
        <3>1. \A x \in Events : p \in event[x].wait => x = e
            BY <1>7 DEF Queued, In
        <3>2. \A x \in Events : p \notin event'[x].wait
            BY <1>18, <3>1
        <3> QED BY <2>1, <3>2 DEF In
    <2>4. HandedOver(w)'
        BY <1>23, <2>1, <2>3 DEF HandedOver
    <2>5. Inside(w)' /\ pc'[w].op = "MUTEX" /\ pc'[w].on = {e}
        BY <1>7, <1>20 DEF Awaiting, Inside, SharedGoOn, GoesOn
    <2>6. Awaiting(w)' /\ Unkept(w)'
        BY <1>5, <1>18, <2>1, <2>4, <2>5 DEF Awaiting, Unkept
    <2> QED BY <1>15, <2>1, <2>2, <2>6 DEF MemberWell
<1>25. MutexWell(e)'
    <2>1. \A r \in event'[e].wait : p < r
        BY <1>3, <1>4, <1>18
    <2>2. Competes(w)' /\ tcb'[w].prio = p
        BY <1>7, <1>9, <1>12, SameApplication
    <2>3. OwnedBy(e, w)'
        BY <1>9, <1>18, <1>19, <1>21, <1>22, <1>23, <2>1, <2>2 DEF OwnedBy
    <2> QED BY <1>2, <1>19, <1>21, <2>3 DEF MutexWell
<1>26. PlacesInv'
    <2> DEFINE W == {w}
    <2>1. W \in SUBSET (Members \ {me}) /\ event'[e].ptr \in W \cup {Null}
        BY <1>8, <1>18
    <2>2. event'[e].wait \subseteq PriosOf(Members)'
        <3>1. \A r \in event'[e].wait : \E t \in Members : tcb'[t].prio = r
            <4> TAKE r \in event'[e].wait
            <4>1. r \in event[e].wait
                BY <1>18
            <4>2. PICK t \in Members : tcb[t].prio = r
                BY <4>1 DEF PlacesInv, SharedTyped, PriosOf
            <4>3. t # me
                BY <1>1, <4>1, <4>2 DEF Resting, In
            <4> QED BY <1>16, <4>2, <4>3
        <3> QED BY <1>2, <3>1 DEF PriosOf
    <2>3. \A t \in Members \ W : tcb[t].prio \in event[e].wait => tcb[t].prio \in event'[e].wait
        BY <1>7, <1>18, SharedFacts
    <2>4. \A t \in W : MemberWell(t)' /\ tcb'[t].prio = tcb[t].prio /\ \A d \in Events : ~Owns(t, d)
        BY <1>8, <1>9, <1>16, <1>24
    <2>5. (\A t \in Tasks \ (W \cup {me}) : tcb'[t] = tcb[t])
          /\ (\A t \in Members \ (W \cup {me}) : tcb[t].prio \in OSRdyTbl' <=> tcb[t].prio \in OSRdyTbl)
        BY <1>12, <1>14
    <2>6. event'[e].wait \subseteq event[e].wait /\ L.prio[me] \in OSRdyTbl'
        BY <1>15, <1>18
    <2> HIDE DEF W
    <2> QED BY <1>1, <1>12, <1>17, <1>18, <1>19, <1>20, <1>25, <2>1, <2>2, <2>3, <2>4, <2>5, <2>6, MutexGivenUp
<1>27. PostEnds(e)
    <2>1. ASSUME NEW t \in Members, tcb[t].dly = 0 PROVE tcb'[t].dly = 0
        <3>1. CASE t = w
            BY <1>7, <1>12, <3>1, Zenon
        <3>2. CASE t = me
            BY <1>12, <2>1, <3>2 DEF KeptBlock
        <3>3. CASE t \notin {me, w}
            BY <1>2, <1>12, <2>1, <3>3
        <3> QED BY <3>1, <3>2, <3>3
    <2> QED BY <1>0, <1>12, <1>18, <2>1 DEF PostEnds
<1> QED BY <1>10, <1>26, <1>27

-----------------------------------------------------------------------------
(* A task waits for a mutex and raises the owner. *)

(* Who the owner is: less urgent than the caller, at its own priority.     *)
LEMMA OwnerToRaise ==
    ASSUME PlacesInv, SharedCaller, OSIntNesting = 0, NEW me \in Members, me = OSTCBCur,
           NEW e \in Events, Mutex(e), HoldsNone, Competes(me), OwnerPrio(e) # OS_MUTEX_AVAILABLE, Raises(e)
    PROVE  \E x \in Members :
              /\ x = event[e].ptr /\ x # me /\ Owns(x, e) /\ OwnedBy(e, x) /\ Competes(x)
              /\ tcb[x].prio = L.prio[x] /\ L.prio[me] < L.prio[x] /\ tcb[me].prio = L.prio[me]
              /\ PipOf(e) < L.prio[me] /\ Pip(e) = PipOf(e) /\ (\A d \in Events : ~Owns(me, d))
              /\ \A t \in Members : tcb[t].prio # PipOf(e) /\ L.prio[t] # PipOf(e)
              /\ \A t \in Members : L.prio[t] \in Nat /\ PipOf(e) \in Nat
<1>1. PICK x \in Members : OwnedBy(e, x)
    BY DEF PlacesInv, MutexesWell, MutexWell, Unowned
<1>2. x = event[e].ptr /\ Owns(x, e) /\ Competes(x) /\ OwnerPrio(e) = L.prio[x]
    BY <1>1 DEF OwnedBy, Owns
<1>3. (\A d \in Events : ~Owns(me, d)) /\ x # me
    BY <1>2 DEF HoldsNone, Owns
<1>4. tcb[me].prio = L.prio[me]
    BY <1>3, OwnRank
<1>5. /\ Pip(e) = PipOf(e) /\ PipOf(e) < L.prio[me] /\ PipOf(e) \in Nat
      /\ \A t \in Members : L.prio[t] # PipOf(e) /\ (tcb[t].prio = PipOf(e) => Owns(t, e))
    BY MutexFacts
<1>6. \A t \in Members : L.prio[t] \in Nat
    BY SharedFacts, SmallPrios
<1>7. tcb[x].prio > PipOf(e) /\ L.prio[x] > L.prio[me]
    BY <1>2, <1>4, <1>5 DEF Raises
<1>8. tcb[x].prio # PipOf(e)
    BY <1>5, <1>7
<1>9. tcb[x].prio = L.prio[x]
    BY <1>1, <1>8 DEF OwnedBy, PlacesInv, MembersWell, MemberWell, RankWell
<1>10. \A t \in Members : tcb[t].prio # PipOf(e)
    BY <1>2, <1>5, <1>8 DEF Owns
<1>11. L.prio[me] < L.prio[x]
    BY <1>6, <1>7
<1> QED BY <1>1, <1>2, <1>3, <1>4, <1>5, <1>6, <1>9, <1>10, <1>11

(* Where the owner is: ready and in no list, asleep and in none, or in the *)
(* list of a semaphore.                                                    *)
LEMMA RaisedPlaces ==
    ASSUME PlacesInv, NEW x \in Members, Competes(x), NEW e \in Events, Owns(x, e)
    PROVE  /\ tcb[x].prio \in OSRdyTbl \/ tcb[x].ev = Null => In(x) = {}
           /\ tcb[x].prio \notin OSRdyTbl /\ tcb[x].ev # Null =>
                 In(x) = {tcb[x].ev} /\ tcb[x].ev \in Events /\ event[tcb[x].ev].type = "SEM"
<1>1. MemberWell(x)
    BY DEF PlacesInv, MembersWell
<1>2. Null \notin Events
    BY CoreAssumption
<1>3. CASE Resting(x)
    BY <1>3 DEF Resting
<1>4. CASE Awaiting(x) /\ HandedOver(x)
    BY <1>1, <1>2, <1>4 DEF MemberWell, Awaiting, HandedOver, Unkept
<1>5. CASE Awaiting(x) /\ Queued(x)
    <2>1. pc[x].op = "SEM"
        BY <1>5 DEF Awaiting, Queued
    <2>2. tcb[x].stat = {"SEM"} /\ tcb[x].dly = 0
        BY <1>5, <2>1 DEF Queued
    <2>3. tcb[x].prio \notin OSRdyTbl
        BY <1>1, <2>2 DEF MemberWell, Unkept
    <2> QED BY <1>2, <1>5, <2>1, <2>3 DEF Awaiting, Queued
<1> QED BY <1>1, <1>3, <1>4, <1>5 DEF MemberWell, Awaiting

Raised(e, timeout) ==
    LET owner == event[e].ptr IN
    /\ tcb' = [Waiting({"MUTEX"}, timeout, e, {}) EXCEPT ![owner].prio = Pip(e)]
    /\ event' = ListedAtPip(owner, Pip(e), Enlisted({e}))
    /\ OSRdyTbl' = ReadyAtPip(owner, Pip(e)) \ {tcb[OSTCBCur].prio}
    /\ OSTCBPrioTbl' = [OSTCBPrioTbl EXCEPT ![Pip(e)] = owner]

(* The blocks. *)
LEMMA RaisedBlocks ==
    ASSUME tcb \in [Tasks -> TCBs], NEW me \in Tasks, me = OSTCBCur, NEW e \in Events, NEW x \in Tasks \ {me},
           x = event[e].ptr, Pip(e) \in Prios, NEW timeout \in 0 .. MaxDelay, Raised(e, timeout),
           tcb[me].stat = {}, tcb[me].multi = {}
    PROVE  /\ tcb' \in [Tasks -> TCBs] /\ \A t \in Tasks \ {me, x} : tcb'[t] = tcb[t]
           /\ tcb'[x].prio = Pip(e) /\ KeptBlock(x)
           /\ tcb'[me].prio = tcb[me].prio /\ tcb'[me].stat = {"MUTEX"} /\ tcb'[me].pend = "OK"
           /\ tcb'[me].ev = e /\ tcb'[me].multi = {}
<1> DEFINE v == [tcb[me] EXCEPT !.stat = {"MUTEX"}, !.pend = "OK", !.dly = timeout, !.ev = e, !.multi = {}]
           u == [tcb[x] EXCEPT !.prio = Pip(e)]
<1>1. tcb[me] \in TCBs /\ tcb[x] \in TCBs
    OBVIOUS
<1>2. /\ v \in TCBs /\ v.prio = tcb[me].prio /\ v.stat = {"MUTEX"} /\ v.pend = "OK" /\ v.ev = e /\ v.multi = {}
    BY <1>1 DEF TCBs, StatBits, PendBits
<1>3. /\ u \in TCBs /\ u.prio = Pip(e) /\ u.stat = tcb[x].stat /\ u.pend = tcb[x].pend /\ u.dly = tcb[x].dly
      /\ u.ev = tcb[x].ev /\ u.multi = tcb[x].multi
    BY <1>1, CoreAssumption DEF TCBs, Prios
<1>4. Waiting({"MUTEX"}, timeout, e, {}) = [tcb EXCEPT ![me] = v]
    <2>1. Waiting({"MUTEX"}, timeout, e, {}) =
              [tcb EXCEPT ![me] = [tcb[me] EXCEPT !.stat = tcb[me].stat \cup {"MUTEX"}, !.pend = "OK", !.dly = timeout,
                                                  !.ev = e, !.multi = tcb[me].multi]]
        BY DEF Waiting
    <2> QED BY <2>1
<1> HIDE DEF v
<1> DEFINE f == [tcb EXCEPT ![me] = v]
<1>5. f[x] = tcb[x] /\ f[me] = v /\ f \in [Tasks -> TCBs] /\ \A t \in Tasks \ {me} : f[t] = tcb[t]
    BY <1>2
<1>6. tcb' = [f EXCEPT ![x].prio = Pip(e)]
    BY <1>4 DEF Raised
<1> HIDE DEF f
<1>7. tcb' = [f EXCEPT ![x] = u]
    BY <1>5, <1>6
<1> HIDE DEF u
<1>8. tcb' \in [Tasks -> TCBs] /\ tcb'[x] = u /\ \A t \in Tasks \ {x} : tcb'[t] = f[t]
    BY <1>3, <1>5, <1>7
<1> QED BY <1>2, <1>3, <1>5, <1>8 DEF KeptBlock

(* The lists. *)
LEMMA RaisedLists ==
    ASSUME EventsWell, NEW me \in Tasks, me = OSTCBCur, NEW e \in Events, NEW x, x = event[e].ptr,
           NEW timeout, Raised(e, timeout), NEW moved \in BOOLEAN,
           moved <=> tcb[x].prio \notin OSRdyTbl /\ tcb[x].ev # Null, moved => tcb[x].ev \in Events \ {e}
    PROVE  /\ \A y \in Events : event'[y].type = event[y].type /\ event'[y].cnt = event[y].cnt /\ event'[y].ptr = event[y].ptr
           /\ event'[e].wait = event[e].wait \cup {tcb[me].prio}
           /\ \A y \in Events \ {e} :
                 event'[y].wait = IF moved /\ y = tcb[x].ev THEN (event[y].wait \ {tcb[x].prio}) \cup {Pip(e)}
                                  ELSE event[y].wait
           /\ OSRdyTbl' = (IF tcb[x].prio \in OSRdyTbl THEN (OSRdyTbl \ {tcb[x].prio}) \cup {Pip(e)} ELSE OSRdyTbl)
                              \ {tcb[me].prio}
<1> DEFINE f == Enlisted({e})
<1>1. DOMAIN f = Events /\ \A y \in Events : "wait" \in DOMAIN f[y]
    BY DEF Enlisted, EventsWell
<1>2. ASSUME NEW y \in Events
      PROVE  /\ f[y].type = event[y].type /\ f[y].cnt = event[y].cnt /\ f[y].ptr = event[y].ptr
             /\ f[y].wait = IF y = e THEN event[y].wait \cup {tcb[me].prio} ELSE event[y].wait
    BY DEF Enlisted, EventsWell
<1>3. event' = ListedAtPip(x, Pip(e), f)
    BY DEF Raised
<1>4. OSRdyTbl' = (IF tcb[x].prio \in OSRdyTbl THEN (OSRdyTbl \ {tcb[x].prio}) \cup {Pip(e)} ELSE OSRdyTbl)
                      \ {tcb[me].prio}
    BY DEF Raised, ReadyAtPip
<1> HIDE DEF f
<1>5. CASE ~moved
    <2>1. event' = f
        BY <1>3, <1>5 DEF ListedAtPip
    <2> QED BY <1>2, <1>4, <1>5, <2>1
<1>6. CASE moved
    <2>1. PICK d \in Events \ {e} : d = tcb[x].ev
        BY <1>6
    <2>2. PICK list : list = (f[d].wait \ {tcb[x].prio}) \cup {Pip(e)}
        OBVIOUS
    <2>3. event' = [f EXCEPT ![d].wait = list]
        <3>1. ListedAtPip(x, Pip(e), f) = [f EXCEPT ![d].wait = (f[d].wait \ {tcb[x].prio}) \cup {Pip(e)}]
            BY <1>6, <2>1 DEF ListedAtPip
        <3> QED BY <1>3, <2>2, <3>1
    <2>4. /\ \A y \in Events \ {d} : event'[y] = f[y]
          /\ event'[d].type = f[d].type /\ event'[d].cnt = f[d].cnt /\ event'[d].ptr = f[d].ptr
          /\ event'[d].wait = list
        BY <1>1, <2>3
    <2>5. ASSUME NEW y \in Events
          PROVE  event'[y].type = event[y].type /\ event'[y].cnt = event[y].cnt /\ event'[y].ptr = event[y].ptr
        <3>1. f[y].type = event[y].type /\ f[y].cnt = event[y].cnt /\ f[y].ptr = event[y].ptr
            BY <1>2
        <3>2. event'[y].type = f[y].type /\ event'[y].cnt = f[y].cnt /\ event'[y].ptr = f[y].ptr
            <4>1. CASE y = d
                BY <2>4, <4>1, Zenon
            <4>2. CASE y # d
                <5>1. event'[y] = f[y]
                    BY <2>4, <4>2
                <5> QED BY <5>1, Zenon
            <4> QED BY <4>1, <4>2
        <3> QED BY <3>1, <3>2, Zenon
    <2>6. ASSUME NEW y \in Events \ {e}
          PROVE  event'[y].wait = IF moved /\ y = tcb[x].ev THEN (event[y].wait \ {tcb[x].prio}) \cup {Pip(e)}
                                  ELSE event[y].wait
        <3>1. f[y].wait = event[y].wait
            BY <1>2
        <3>2. CASE y = d
            BY <1>6, <2>1, <2>2, <2>4, <3>1, <3>2, Zenon
        <3>3. CASE y # d
            <4>1. event'[y] = f[y]
                BY <2>4, <3>3
            <4>2. event'[y].wait = event[y].wait
                BY <3>1, <4>1, Zenon
            <4> QED BY <2>1, <3>3, <4>2, Zenon
        <3> QED BY <3>2, <3>3
    <2>7. event'[e].wait = event[e].wait \cup {tcb[me].prio}
        <3>1. f[e].wait = event[e].wait \cup {tcb[me].prio}
            BY <1>2, Zenon
        <3>2. event'[e] = f[e]
            BY <2>4
        <3> QED BY <3>1, <3>2, Zenon
    <2> QED BY <1>4, <2>5, <2>6, <2>7
<1> QED BY <1>5, <1>6

LEMMA RaiseShared ==
    ASSUME PlacesInv, EventsWell, SharedCaller, OSIntNesting = 0, OSTCBCur \in Members, NEW e \in Events, Mutex(e),
           HoldsNone, Competes(OSTCBCur), NEW timeout \in 0 .. MaxDelay, OwnerPrio(e) # OS_MUTEX_AVAILABLE,
           Raises(e), Raised(e, timeout), Pended("MUTEX", {e}), UNCHANGED load
    PROVE  PlacesInv'
<1>0. PICK me \in Members : me = OSTCBCur
    OBVIOUS
<1>1. PICK x \in Members :
              /\ x = event[e].ptr /\ x # me /\ Owns(x, e) /\ OwnedBy(e, x) /\ Competes(x)
              /\ tcb[x].prio = L.prio[x] /\ L.prio[me] < L.prio[x] /\ tcb[me].prio = L.prio[me]
              /\ PipOf(e) < L.prio[me] /\ Pip(e) = PipOf(e) /\ (\A d \in Events : ~Owns(me, d))
              /\ (\A t \in Members : tcb[t].prio # PipOf(e) /\ L.prio[t] # PipOf(e))
              /\ \A t \in Members : L.prio[t] \in Nat /\ PipOf(e) \in Nat
    BY <1>0, OwnerToRaise
<1>2. /\ Members \subseteq Tasks /\ me \in Tasks /\ x \in Tasks \ {me} /\ tcb \in [Tasks -> TCBs]
      /\ pc \in [Tasks -> SharedPCs] /\ tcb[me] \in TCBs
      /\ Resting(me) /\ tcb[me].stat = {} /\ tcb[me].multi = {} /\ Members' = Members /\ L' = L
      /\ OSTCBPrioTbl \in [Prios -> Tasks \cup {Null, Reserved}] /\ event[e].type = "MUTEX"
    BY <1>0, <1>1, SharedFacts, SameApplication DEF PlacesInv, SharedTyped, SharedCaller, Resting, Mutex
<1>3. PICK g : g = PipOf(e) /\ g = Pip(e)
    BY <1>1
<1>4. PICK q, m : q = tcb[x].prio /\ m = tcb[me].prio
    OBVIOUS
<1>5. g \in Prios /\ g # q /\ g # m /\ q # m /\ PipOf(e)' = g
    BY <1>1, <1>3, <1>4, MutexFacts, SharedFacts, SameApplication
<1>6. /\ tcb' \in [Tasks -> TCBs] /\ (\A t \in Tasks \ {me, x} : tcb'[t] = tcb[t])
      /\ tcb'[x].prio = g /\ KeptBlock(x)
      /\ tcb'[me].prio = m /\ tcb'[me].stat = {"MUTEX"} /\ tcb'[me].pend = "OK"
      /\ tcb'[me].ev = e /\ tcb'[me].multi = {}
    BY <1>0, <1>1, <1>2, <1>3, <1>4, <1>5, RaisedBlocks
<1>7. PICK moved \in BOOLEAN : moved <=> tcb[x].prio \notin OSRdyTbl /\ tcb[x].ev # Null
    OBVIOUS
<1>8. /\ moved => In(x) = {tcb[x].ev} /\ tcb[x].ev \in Events \ {e} /\ event[tcb[x].ev].type = "SEM"
      /\ ~moved => In(x) = {}
    BY <1>1, <1>2, <1>7, RaisedPlaces
<1>9. /\ \A y \in Events : event'[y].type = event[y].type /\ event'[y].cnt = event[y].cnt /\ event'[y].ptr = event[y].ptr
      /\ event'[e].wait = event[e].wait \cup {m}
      /\ \A y \in Events \ {e} :
            event'[y].wait = IF moved /\ y = tcb[x].ev THEN (event[y].wait \ {q}) \cup {g} ELSE event[y].wait
      /\ OSRdyTbl' = (IF q \in OSRdyTbl THEN (OSRdyTbl \ {q}) \cup {g} ELSE OSRdyTbl) \ {m}
    <2>1. moved => tcb[x].ev \in Events \ {e}
        BY <1>8
    <2>2. me \in Tasks /\ x = event[e].ptr
        BY <1>1, <1>2
    <2>3. Raised(e, timeout) /\ EventsWell
        OBVIOUS
    <2>4. /\ \A y \in Events : event'[y].type = event[y].type /\ event'[y].cnt = event[y].cnt
                                /\ event'[y].ptr = event[y].ptr
          /\ event'[e].wait = event[e].wait \cup {tcb[me].prio}
          /\ \A y \in Events \ {e} :
                event'[y].wait = IF moved /\ y = tcb[x].ev THEN (event[y].wait \ {tcb[x].prio}) \cup {Pip(e)}
                                 ELSE event[y].wait
          /\ OSRdyTbl' = (IF tcb[x].prio \in OSRdyTbl THEN (OSRdyTbl \ {tcb[x].prio}) \cup {Pip(e)} ELSE OSRdyTbl)
                             \ {tcb[me].prio}
        BY <1>0, <1>7, <2>1, <2>2, <2>3, RaisedLists, SMTT(30)
    <2> QED BY <1>3, <1>4, <2>4, Zenon
<1>10. OSTCBPrioTbl' = [OSTCBPrioTbl EXCEPT ![g] = x]
    BY <1>1, <1>3 DEF Raised
<1> DEFINE c == [at |-> "pended", op |-> "MUTEX", on |-> {e}]
<1>11. c \in SharedPCs /\ c.at = "pended" /\ c.op = "MUTEX" /\ c.on = {e}
    BY DEF SharedPCs
<1> HIDE DEF c
<1>12. pc' = [pc EXCEPT ![me] = c]
    BY <1>0 DEF Pended, c
<1>13. pc' \in [Tasks -> SharedPCs] /\ pc'[me] = c /\ \A t \in Tasks \ {me} : GoesOn(t)
    BY <1>2, <1>11, <1>12 DEF GoesOn
<1>14. SameTypes /\ SameMutexes /\ \A t : SameOwns(t)
    BY <1>9, OwnersStay DEF SameTypes, SameMutexes
<1>15. g \notin OSRdyTbl /\ \A y \in Events : g \notin event[y].wait
    BY <1>1, <1>3 DEF PlacesInv, SharedTyped, PriosOf
<1>16. \A y \in Events : (q \in event[y].wait <=> y \in In(x)) /\ m \notin event[y].wait
    BY <1>2, <1>4 DEF Resting, In
<1>17. \A t \in Members \ {me, x} : tcb[t].prio \notin {g, q, m} /\ L.prio[t] # g
    BY <1>1, <1>3, <1>4, SharedFacts
(* Who stands where afterwards. *)
<1>18. \A y \in Events : /\ \A r : r \notin {g, q, m} => (r \in event'[y].wait <=> r \in event[y].wait)
                         /\ g \in event'[y].wait <=> q \in event[y].wait
                         /\ q \notin event'[y].wait /\ (m \in event'[y].wait <=> y = e)
    <2> TAKE y \in Events
    <2>1. CASE y = e
        <3>1. q \notin event[e].wait
            BY <1>8, <1>16
        <3> QED BY <1>5, <1>9, <1>15, <2>1, <3>1
    <2>2. CASE y # e /\ moved /\ y = tcb[x].ev
        <3>1. event'[y].wait = (event[y].wait \ {q}) \cup {g} /\ q \in event[y].wait
            BY <1>8, <1>9, <1>16, <2>2
        <3> QED BY <1>5, <1>15, <1>16, <2>2, <3>1
    <2>3. CASE y # e /\ ~(moved /\ y = tcb[x].ev)
        <3>1. event'[y].wait = event[y].wait /\ q \notin event[y].wait
            BY <1>8, <1>9, <1>16, <2>3
        <3> QED BY <1>5, <1>15, <1>16, <2>3, <3>1
    <2> QED BY <2>1, <2>2, <2>3
<1>19. /\ \A r : r \notin {g, q, m} => (r \in OSRdyTbl' <=> r \in OSRdyTbl)
       /\ g \in OSRdyTbl' <=> q \in OSRdyTbl
       /\ q \notin OSRdyTbl' /\ m \notin OSRdyTbl'
    BY <1>5, <1>9, <1>15
<1>20. ASSUME NEW t \in Members \ {me, x} PROVE MemberWell(t)'
    <2>1. MemberWell(t) /\ t \in Tasks \ {me, x}
        BY <1>2 DEF PlacesInv, MembersWell
    <2>2. tcb'[t] = tcb[t] /\ GoesOn(t) /\ KeptBlock(t) /\ SameOwns(t)
        BY <1>6, <1>13, <1>14, <2>1 DEF KeptBlock
    <2>3. tcb[t].prio \in Prios /\ L.prio[t] \in Prios /\ tcb[t].prio # g /\ L.prio[t] # g
        BY <1>17, SharedFacts
    <2>4. RankWell(t)'
        BY <1>2, <1>10, <2>1, <2>2, <2>3, StaysRank DEF MemberWell
    <2>5. In(t)' = In(t)
        BY <1>17, <1>18, <2>2 DEF In
    <2>6. tcb'[t].prio \in OSRdyTbl' <=> tcb[t].prio \in OSRdyTbl
        BY <1>17, <1>19, <2>2
    <2> QED BY <1>14, <2>1, <2>2, <2>4, <2>5, <2>6, StaysMember
<1>21. MemberWell(x)'
    <2>1. MemberWell(x) /\ GoesOn(x) /\ L.prio[x] \in Prios /\ OSTCBPrioTbl[L.prio[x]] = x
        BY <1>2, <1>13, SharedFacts DEF PlacesInv, MembersWell
    <2>2. OSTCBPrioTbl'[g] = x /\ OSTCBPrioTbl'[L.prio[x]] = x
        BY <1>2, <1>5, <1>10, <2>1
    <2>3. Owns(x, e)'
        BY <1>1, <1>14 DEF SameOwns
    <2>4. RankWell(x)'
        BY <1>2, <1>5, <1>6, <2>2, <2>3 DEF RankWell
    <2>5. In(x)' = In(x)
        BY <1>4, <1>6, <1>18 DEF In
    <2>6. tcb'[x].prio \in OSRdyTbl' <=> tcb[x].prio \in OSRdyTbl
        BY <1>4, <1>6, <1>19
    <2> QED BY <1>6, <1>14, <2>1, <2>4, <2>5, <2>6, StaysMember
<1>22. MemberWell(me)'
    <2>1. In(me)' = {e}
        BY <1>6, <1>18 DEF In
    <2>2. Competes(me)' /\ \A d \in Events : ~Owns(me, d)'
        BY <1>0, <1>1, <1>14, SameApplication DEF SameOwns
    <2>3. Queued(me)'
        BY <1>6, <1>11, <1>13, <2>1, <2>2 DEF Queued
    <2>4. event'[e].type = "MUTEX"
        BY <1>2, <1>9
    <2>5. Awaiting(me)' /\ ~Unkept(me)'
        BY <1>6, <1>11, <1>13, <2>3, <2>4 DEF Awaiting, Inside, Unkept
    <2>6. RankWell(me)'
        <3>1. L.prio[me] \in Prios /\ OSTCBPrioTbl[L.prio[me]] = me /\ L.prio[me] = m
            BY <1>1, <1>4, SharedFacts
        <3>2. OSTCBPrioTbl'[m] = me
            BY <1>2, <1>5, <1>10, <3>1
        <3> QED BY <1>2, <1>6, <3>1, <3>2 DEF RankWell
    <2> QED BY <1>6, <1>19, <2>5, <2>6 DEF MemberWell
<1>23. MutexWell(e)'
    <2>1. Pip(e)' = Pip(e) /\ OwnerPrio(e)' = OwnerPrio(e)
        BY <1>9 DEF Pip, OwnerPrio
    <2>2. ASSUME NEW p \in event'[e].wait PROVE g < p
        <3>1. CASE p = m
            BY <1>1, <1>3, <1>4, <3>1
        <3>2. CASE p # m
            <4>1. p \in event[e].wait
                BY <1>9, <2>2, <3>2
            <4>2. PICK t \in Members : tcb[t].prio = p
                BY <4>1 DEF PlacesInv, SharedTyped, PriosOf
            <4>3. e \in In(t)
                BY <4>1, <4>2 DEF In
            <4>4. Competes(t) /\ L.prio[t] = p
                BY <4>2, <4>3, MutexWaiters
            <4> QED BY <1>3, <4>4, MutexFacts
        <3> QED BY <3>1, <3>2
    <2>3. \A d \in Events : Owns(x, d)' => d = e
        BY <1>1, <1>14 DEF OwnedBy, SameOwns
    <2>4. Competes(x)' /\ event'[e].ptr = x /\ OwnerPrio(e)' = L'.prio[x]
        BY <1>1, <1>2, <1>9, <2>1, SameApplication DEF OwnedBy
    <2>5. OwnedBy(e, x)'
        BY <1>5, <1>6, <2>2, <2>3, <2>4 DEF OwnedBy
    <2> QED BY <1>2, <1>3, <1>5, <2>1, <2>5 DEF MutexWell
<1>24. ASSUME NEW d \in Events \ {e}, Mutex(d) PROVE MutexWell(d)'
    <2>1. event'[d].cnt = event[d].cnt /\ event'[d].ptr = event[d].ptr
        BY <1>9
    <2>2. event'[d].wait = event[d].wait
        BY <1>8, <1>9, <1>24 DEF Mutex
    <2>3. ASSUME NEW t \in Members, Owns(t, d) PROVE tcb'[t].prio = tcb[t].prio /\ SameOwns(t)
        <3>1. t # me /\ t # x
            BY <1>1, <2>3 DEF OwnedBy
        <3> QED BY <1>2, <1>6, <1>14, <3>1
    <2>4. OSTCBPrioTbl'[PipOf(d)] = OSTCBPrioTbl[PipOf(d)]
        <3>1. PipOf(d) \in Prios /\ PipOf(d) # g
            BY <1>3, <1>24, MutexFacts
        <3> QED BY <1>2, <1>10, <3>1
    <2>5. Unowned(d) => event'[d].wait = {}
        BY <2>2 DEF Unowned
    <2> QED BY <1>14, <1>24, <2>1, <2>2, <2>3, <2>4, <2>5, StaysMutex
<1>25. ASSUME NEW r, r \in {g, m} \/ (r # q /\ \E t \in Members : tcb[t].prio = r)
       PROVE  r \in PriosOf(Members)'
    <2>1. CASE r \in {g, m}
        BY <1>2, <1>6, <2>1 DEF PriosOf
    <2>2. CASE r \notin {g, m}
        <3>1. PICK t \in Members : tcb[t].prio = r
            BY <1>25, <2>2
        <3>2. t \in Tasks \ {me, x}
            BY <1>2, <1>4, <1>25, <2>2, <3>1
        <3>3. tcb'[t].prio = r
            BY <1>6, <3>1, <3>2
        <3> QED BY <1>2, <3>3 DEF PriosOf
    <2> QED BY <2>1, <2>2
<1>26. ASSUME NEW y \in Events PROVE event'[y].cnt \in Nat /\ event'[y].wait \subseteq PriosOf(Members)'
    <2>1. event'[y].cnt \in Nat
        BY <1>9 DEF PlacesInv, SharedTyped
    <2>2. ASSUME NEW r \in event'[y].wait PROVE r \in PriosOf(Members)'
        <3>1. r \in {g, m} \/ (r # q /\ r \in event[y].wait)
            BY <1>18, <2>2
        <3> QED BY <1>25, <3>1 DEF PlacesInv, SharedTyped, PriosOf
    <2> QED BY <2>1, <2>2
<1>27. OSRdyTbl' \subseteq PriosOf(Members)'
    <2> SUFFICES ASSUME NEW r \in OSRdyTbl' PROVE r \in PriosOf(Members)'
        OBVIOUS
    <2>1. r \in {g, m} \/ (r # q /\ r \in OSRdyTbl)
        BY <1>19
    <2> QED BY <1>25, <2>1 DEF PlacesInv, SharedTyped, PriosOf
<1>28. /\ OSTCBPrioTbl' \in [Prios -> Tasks \cup {Null, Reserved}]
       /\ \A t \in Tasks \ Members : tcb'[t].prio = tcb[t].prio
    BY <1>2, <1>6, <1>10
<1>29. (\A t \in Members : MemberWell(t)') /\ \A d \in Events : Mutex(d) => MutexWell(d)'
    BY <1>20, <1>21, <1>22, <1>23, <1>24
<1> QED BY <1>6, <1>13, <1>14, <1>26, <1>27, <1>28, <1>29, PlacesNext

LEMMA MutexPendShared ==
    ASSUME PlacesInv, EventsWell, SharedCaller, OSTCBCur \in Members, NEW e \in Events, NEW timeout \in 0 .. MaxDelay,
           OSMutexPend(e, timeout), HoldsNone, Competes(OSTCBCur), UNCHANGED load
    PROVE  PlacesInv'
<1>0. PICK me \in Members : me = OSTCBCur
    OBVIOUS
<1>1. Mutex(e) /\ OSIntNesting = 0 /\ event[e].type = "MUTEX"
    BY DEF OSMutexPend, MayPend, Mutex
<1>2. CASE TakeMutex(e)
    BY <1>1, <1>2, TakeShared
<1>3. CASE OwnerPrio(e) # OS_MUTEX_AVAILABLE /\ Raises(e) /\ Raised(e, timeout) /\ Pended("MUTEX", {e})
    BY <1>1, <1>3, RaiseShared
<1>4. CASE /\ OwnerPrio(e) # OS_MUTEX_AVAILABLE /\ ~Raises(e) /\ OS_EventTaskWait("MUTEX", e, timeout)
           /\ UNCHANGED OSTCBPrioTbl /\ Pended("MUTEX", {e})
    <2>1. PICK x \in Members : OwnedBy(e, x)
        BY <1>1, <1>4 DEF PlacesInv, MutexesWell, MutexWell, Unowned
    <2>2. x = event[e].ptr /\ Owns(x, e) /\ Competes(x) /\ OwnerPrio(e) = L.prio[x]
        BY <1>1, <2>1 DEF OwnedBy, Owns
    <2>3. (\A d \in Events : ~Owns(me, d)) /\ x # me
        BY <1>0, <2>2 DEF HoldsNone, Owns
    <2>4. tcb[me].prio = L.prio[me] /\ L.prio[me] # L.prio[x]
        BY <2>3, OwnRank, SharedFacts
    <2>5. /\ Pip(e) = PipOf(e) /\ PipOf(e) \in Nat /\ PipOf(e) < L.prio[me] /\ PipOf(e) < L.prio[x]
          /\ L.prio[me] \in Nat /\ L.prio[x] \in Nat
        BY <1>0, <1>1, <2>2, MutexFacts, SharedFacts, SmallPrios
    <2>6. tcb[x].prio = L.prio[x] \/ tcb[x].prio = PipOf(e)
        BY <2>1 DEF OwnedBy, PlacesInv, MembersWell, MemberWell, RankWell
    <2>7. tcb[x].prio < tcb[me].prio
        BY <1>0, <1>4, <2>2, <2>4, <2>5, <2>6 DEF Raises
    <2> QED BY <1>0, <1>1, <1>4, <2>2, <2>7, WaitShared
<1> QED BY <1>2, <1>3, <1>4 DEF OSMutexPend, Raised

-----------------------------------------------------------------------------
(* Who runs. *)

Keeps == UNCHANGED <<OSTCBCur, OSPrioCur, OSIntNesting, OSLockNesting, load>>

LEMMA CurrentStays ==
    ASSUME Current, Keeps, SameTypes, tcb'[OSTCBCur].prio = tcb[OSTCBCur].prio,
           \A e \in Events : Mutex(e) /\ Spare(e) => Spare(e)'
    PROVE  Current'
<1>1. \A e \in Events : PipOf(e)' = PipOf(e) /\ (Mutex(e)' <=> Mutex(e))
    BY SameApplication DEF Keeps, SameTypes, Mutex
<1> QED BY <1>1 DEF Current, Keeps

LEMMA StaysRunning ==
    ASSUME SharingInv, SharedCaller, PlacesInv', Keeps, Current', lazy' \in BOOLEAN, tcb'[IdleTask].dly = 0,
           \/ /\ UNCHANGED pc
              /\ OSIntNesting = 1 \/ (tcb'[OSTCBCur].dly = 0 /\ (lazy' \/ (OSRdyTbl' = OSRdyTbl /\ ~lazy)))
           \/ /\ OSIntNesting = 0 /\ pc'[OSTCBCur].at \in {"sched", "pended"}
              /\ \A t \in Tasks \ {OSTCBCur} : pc'[t] = pc[t]
    PROVE  SharingInv'
<1>1. Members' = Members /\ Members \subseteq Tasks /\ OSTCBCur \in Members /\ IdleTask \in Members
    BY SameApplication, SharedFacts DEF Keeps, SharingInv, Running
<1>2. pc'[IdleTask].at = "task"
    BY <1>1 DEF SharingInv, Running, SharedCaller
<1>3. ASSUME Runs' PROVE tcb'[OSTCBCur].prio \in OSRdyTbl' /\ (~lazy' => OSPrioCur = Highest(OSRdyTbl'))
    <2>1. /\ UNCHANGED pc /\ OSIntNesting = 0 /\ pc[OSTCBCur].at = "task" /\ tcb'[OSTCBCur].dly = 0
          /\ lazy' \/ (OSRdyTbl' = OSRdyTbl /\ ~lazy)
        BY <1>3 DEF Runs, Keeps, SharedCaller
    <2>2. MemberWell(OSTCBCur)'
        BY <1>1 DEF PlacesInv, MembersWell, Keeps
    <2>3. pc'[OSTCBCur].at = "task" /\ OSTCBCur' = OSTCBCur
        BY <2>1 DEF Keeps
    <2>4. tcb'[OSTCBCur].stat = {}
        BY <2>2, <2>3 DEF MemberWell, Resting, Awaiting, Inside
    <2>5. tcb'[OSTCBCur].prio \in OSRdyTbl'
        BY <2>1, <2>2, <2>3, <2>4 DEF MemberWell, Unkept
    <2>6. Runs
        BY <2>1 DEF Runs, SharingInv, Running
    <2> QED BY <2>1, <2>5, <2>6 DEF SharingInv, Running
<1>4. Running'
    BY <1>1, <1>2, <1>3 DEF SharingInv, Running, Keeps
<1> QED BY <1>4 DEF SharingInv

LEMMA Leaves ==
    ASSUME PlacesInv, OSTCBCur \in Tasks, OSIntNesting = 0
    PROVE  /\ CallSched => pc'[OSTCBCur].at = "sched" /\ \A t \in Tasks \ {OSTCBCur} : pc'[t] = pc[t]
           /\ \A op, events : Pended(op, events) =>
                 pc'[OSTCBCur].at = "pended" /\ \A t \in Tasks \ {OSTCBCur} : pc'[t] = pc[t]
<1>1. pc \in [Tasks -> SharedPCs]
    BY DEF PlacesInv, SharedTyped
<1>2. ASSUME CallSched PROVE pc'[OSTCBCur].at = "sched" /\ \A t \in Tasks \ {OSTCBCur} : pc'[t] = pc[t]
    BY <1>1, <1>2 DEF CallSched, SharedPCs
<1>3. ASSUME NEW op, NEW events, Pended(op, events)
      PROVE  pc'[OSTCBCur].at = "pended" /\ \A t \in Tasks \ {OSTCBCur} : pc'[t] = pc[t]
    <2>1. [at |-> "pended", op |-> op, on |-> events].at = "pended"
        OBVIOUS
    <2> QED BY <1>1, <1>3, <2>1 DEF Pended
<1> QED BY <1>2, <1>3

(* A step that moves no task. *)
LEMMA CalmSharing ==
    ASSUME SharingInv, SharedCaller, PlacesInv', Keeps, SameTypes,
           UNCHANGED <<tcb, OSTCBPrioTbl, OSRdyTbl, pc, lazy>>,
           \A e \in Events : Mutex(e) => event'[e].ptr \in {event[e].ptr, OSTCBCur}
    PROVE  SharingInv'
<1>1. Current' /\ tcb'[IdleTask].dly = 0 /\ lazy' \in BOOLEAN
    <2>1. \A e \in Events : Mutex(e) /\ Spare(e) => Spare(e)'
        BY SameApplication DEF Spare, Keeps
    <2> QED BY <2>1, CurrentStays DEF SharingInv, Running
<1>2. OSIntNesting = 1 \/ tcb'[OSTCBCur].dly = 0
    BY DEF SharedCaller, Unkept
<1> QED BY <1>1, <1>2, StaysRunning DEF SharingInv, Running

-----------------------------------------------------------------------------
(* The services. *)

LEMMA OnlyShared ==
    ASSUME SharingInv, NEW op, May(op)
    PROVE  /\ op \in {"OSTimeTick", "OSMutexAccept", "OSMutexPend", "OSMutexPost", "OSSemAccept",
                      "OSSemPend", "OSSemPost", "OSTimeDly"} \cup MemServices
           /\ op \in {"OSMutexAccept", "OSMutexPend"} => Competes(OSTCBCur)
           /\ op = "OSSemPend" /\ Competes(OSTCBCur) => L.timeouts = {0}
<1>1. Sharing
    BY DEF SharingInv, PlacesInv
<1> QED BY <1>1, MayShared DEF Sharing, Competes, MemServices

LEMMA RdyBlock ==
    ASSUME tcb \in [Tasks -> TCBs], NEW t \in Tasks, NEW e, NEW prios, NEW bits,
           NEW b, b = TCBsAfterRdy(e, prios, Null, bits, "OK")
    PROVE  b[t].prio = tcb[t].prio /\ (tcb[t].dly = 0 => b[t].dly = 0)
<1>1. tcb[t] \in TCBs
    OBVIOUS
<1>2. CASE t \in Woken(prios)
    <2>1. b[t] = [tcb[t] EXCEPT !.dly = 0, !.msg = Null, !.stat = tcb[t].stat \ bits, !.pend = "OK",
                                !.ev = IF tcb[t].multi = {} THEN tcb[t].ev ELSE e]
        BY <1>2 DEF TCBsAfterRdy
    <2> QED BY <1>1, <2>1 DEF TCBs
<1>3. CASE t \notin Woken(prios)
    BY <1>3 DEF TCBsAfterRdy
<1> QED BY <1>2, <1>3

LEMMA WaitBlock ==
    ASSUME tcb \in [Tasks -> TCBs], OSTCBCur \in Tasks, NEW bits, NEW timeout, NEW e,
           tcb' = Waiting(bits, timeout, e, {})
    PROVE  /\ tcb'[OSTCBCur].prio = tcb[OSTCBCur].prio
           /\ \A t \in Tasks \ {OSTCBCur} : tcb'[t] = tcb[t]
<1>1. tcb[OSTCBCur] \in TCBs
    OBVIOUS
<1>2. /\ tcb'[OSTCBCur] = [tcb[OSTCBCur] EXCEPT !.stat = tcb[OSTCBCur].stat \cup bits, !.pend = "OK", !.dly = timeout,
                                                !.ev = e, !.multi = tcb[OSTCBCur].multi]
      /\ \A t \in Tasks \ {OSTCBCur} : tcb'[t] = tcb[t]
    BY DEF Waiting
<1> QED BY <1>1, <1>2 DEF TCBs

(* A field of a semaphore. *)
LEMMA FieldShared ==
    ASSUME SharingInv, EventsWell, SharedCaller, Keeps, NEW e \in Events, event[e].type = "SEM",
           NEW v \in Nat, event' = [event EXCEPT ![e].cnt = v],
           UNCHANGED <<tcb, OSTCBPrioTbl, OSRdyTbl, pc, lazy>>
    PROVE  SharingInv'
<1>1. \A x \in Events : /\ event'[x].type = event[x].type /\ event'[x].ptr = event[x].ptr
                        /\ event'[x].wait = event[x].wait
                        /\ event'[x].cnt = IF x = e THEN v ELSE event[x].cnt
    BY DEF EventsWell
<1>2. SameTypes /\ SameMutexes /\ \A x \in Events : event'[x].wait = event[x].wait /\ event'[x].cnt \in Nat
    BY <1>1 DEF SameTypes, SameMutexes, Mutex, SharingInv, PlacesInv, SharedTyped
<1>3. SharedGoOn
    BY DEF SharingInv, PlacesInv, SharedTyped, SharedGoOn, GoesOn
<1>4. PlacesInv'
    BY <1>2, <1>3, CalmShared DEF SharingInv, Keeps
<1> QED BY <1>1, <1>2, <1>4, CalmSharing

(* The caller waits. *)
LEMMA PendingSharing ==
    ASSUME SharingInv, SharedCaller, OSIntNesting = 0, Keeps, Prompt, PlacesInv', SameTypes,
           tcb'[OSTCBCur].prio = tcb[OSTCBCur].prio, tcb'[IdleTask].dly = 0,
           \A e \in Events : Mutex(e) => event'[e].ptr = event[e].ptr,
           \A e \in Events : Mutex(e) /\ Spare(e) => OSTCBPrioTbl'[PipOf(e)] = Reserved,
           pc'[OSTCBCur].at \in {"sched", "pended"}, \A t \in Tasks \ {OSTCBCur} : pc'[t] = pc[t]
    PROVE  SharingInv'
<1>1. ASSUME NEW e \in Events, Mutex(e), Spare(e) PROVE Spare(e)'
    <2>1. event'[e].ptr \in {Null, OSTCBCur} /\ OSTCBPrioTbl'[PipOf(e)] = Reserved
        BY <1>1 DEF Spare, SharedCaller
    <2> QED BY <2>1, SameApplication DEF Spare, Keeps
<1>2. Current' /\ lazy' \in BOOLEAN
    BY <1>1, CurrentStays DEF SharingInv, Running, Prompt
<1> QED BY <1>2, StaysRunning

LEMMA SemSharing ==
    ASSUME SharingInv, EventsWell, SemCalls, UNCHANGED load
    PROVE  SharingInv'
<1>0. PICK e \in Events :
          \/ May("OSSemAccept") /\ OSSemAccept(e)
          \/ May("OSSemPend") /\ \E timeout \in L.timeouts : OSSemPend(e, timeout)
          \/ May("OSSemPost") /\ OSSemPost(e)
    BY OnlyShared DEF SemCalls, MemServices
<1>1. PICK op \in {"OSSemAccept", "OSSemPend", "OSSemPost"} : May(op)
    BY <1>0
<1>2. /\ OSTCBCur \in Members /\ OSTCBCur \in Tasks /\ SharedCaller /\ OSIntNesting \in 0 .. 1 /\ Prompt
      /\ tcb \in [Tasks -> TCBs] /\ IdleTask \in Tasks /\ tcb[IdleTask].dly = 0
      /\ event[e].cnt \in Nat /\ PlacesInv
    BY <1>1, MayShared, SharedFacts DEF SemCalls, SharingInv, Running, PlacesInv, SharedTyped
<1>3. event[e].type = "SEM" /\ UNCHANGED restVars /\ Keeps
    BY <1>0 DEF OSSemAccept, OSSemPend, OSSemPost, Sem, Keeps, restVars
<1>4. ASSUME NEW v \in Nat, event' = [event EXCEPT ![e].cnt = v], Return, UNCHANGED <<tcb, OSRdyTbl>>
      PROVE  SharingInv'
    BY <1>2, <1>3, <1>4, FieldShared DEF restVars, Return, Prompt
<1>5. CASE OSSemAccept(e)
    <2>1. event[e].cnt - 1 \in Nat
        BY <1>2, <1>5 DEF OSSemAccept
    <2> QED BY <1>4, <1>5, <2>1 DEF OSSemAccept
<1>6. ASSUME May("OSSemPend"), NEW timeout \in L.timeouts, OSSemPend(e, timeout) PROVE SharingInv'
    <2>1. CASE event[e].cnt > 0
        <3>1. event[e].cnt - 1 \in Nat
            BY <1>2, <2>1
        <3> QED BY <1>4, <1>6, <2>1, <3>1 DEF OSSemPend
    <2>2. CASE ~(event[e].cnt > 0)
        <3>1. OS_EventTaskWait("SEM", e, timeout) /\ Pended("SEM", {e}) /\ OSIntNesting = 0
            BY <1>6, <2>2 DEF OSSemPend, MayPend
        <3>2. timeout \in 0 .. MaxDelay
            BY SharedFacts DEF Workload, SharingInv
        <3>3. Competes(OSTCBCur) => timeout = 0
            BY <1>6, OnlyShared
        <3>4. PlacesInv'
            BY <1>2, <1>3, <3>1, <3>2, <3>3, WaitShared DEF restVars
        <3>5. tcb'[OSTCBCur].prio = tcb[OSTCBCur].prio /\ \A t \in Tasks \ {OSTCBCur} : tcb'[t] = tcb[t]
            BY <1>2, <3>1, WaitBlock DEF OS_EventTaskWait
        <3>6. tcb'[IdleTask].dly = 0
            BY <1>2, <3>1, <3>5 DEF SharedCaller
        <3>7. \A x \in Events : event'[x].type = event[x].type /\ event'[x].ptr = event[x].ptr
            BY <3>1 DEF OS_EventTaskWait, Enlisted, EventsWell
        <3>8. pc'[OSTCBCur].at = "pended" /\ \A t \in Tasks \ {OSTCBCur} : pc'[t] = pc[t]
            BY <1>2, <3>1, Leaves
        <3> QED BY <1>2, <1>3, <3>1, <3>4, <3>5, <3>6, <3>7, <3>8, PendingSharing DEF SameTypes, Spare, restVars
    <2> QED BY <2>1, <2>2
<1>7. CASE OSSemPost(e)
    <2>1. CASE event[e].wait = {}
        <3>1. event[e].cnt + 1 \in Nat
            BY <1>2
        <3> QED BY <1>4, <1>7, <2>1, <3>1 DEF OSSemPost, Waiters
    <2>2. CASE event[e].wait # {}
        <3>1. PlacesInv' /\ CallSched
            BY <1>2, <1>7, <2>2, SemPostShared
        <3>2. PICK prios : /\ tcb' = TCBsAfterRdy(e, prios, Null, {"SEM"}, "OK")
                           /\ event' = EventsAfterRdy(e, prios)
            BY <1>7, <2>2 DEF OSSemPost, Waiters, OS_EventTaskRdy
        <3>3. tcb'[OSTCBCur].prio = tcb[OSTCBCur].prio /\ tcb'[IdleTask].dly = 0
            BY <1>2, <3>2, RdyBlock
        <3>4. \A x \in Events : event'[x].type = event[x].type /\ event'[x].ptr = event[x].ptr
            BY <3>2 DEF EventsAfterRdy, EventsWell
        <3>5. CASE OSIntNesting = 0
            <4>1. pc'[OSTCBCur].at = "sched" /\ \A t \in Tasks \ {OSTCBCur} : pc'[t] = pc[t]
                BY <1>2, <3>1, <3>5, Leaves
            <4> QED BY <1>2, <1>3, <3>1, <3>3, <3>4, <3>5, <4>1, PendingSharing DEF SameTypes, Spare, restVars
        <3>6. CASE OSIntNesting = 1
            <4>1. UNCHANGED pc
                BY <3>1, <3>6 DEF CallSched
            <4>2. \A x \in Events : Mutex(x) /\ Spare(x) => Spare(x)'
                BY <1>3, <3>4, <4>1, SameApplication DEF Spare, Keeps, restVars
            <4>3. Current'
                BY <1>3, <3>3, <3>4, <4>2, CurrentStays DEF SharingInv, Running, SameTypes
            <4> QED BY <1>2, <1>3, <3>1, <3>3, <3>6, <4>1, <4>3, StaysRunning DEF SharingInv, Running, Prompt
        <3> QED BY <1>2, <3>5, <3>6
    <2> QED BY <2>1, <2>2
<1> QED BY <1>0, <1>5, <1>6, <1>7

(* The lists after a wait for a mutex, but for who stands in them. *)
LEMMA ListedKeeps ==
    ASSUME EventsWell, NEW e, NEW x, NEW p,
           event' = Enlisted({e}) \/ event' = ListedAtPip(x, p, Enlisted({e}))
    PROVE  \A y \in Events : event'[y].type = event[y].type /\ event'[y].ptr = event[y].ptr
<1> DEFINE f == Enlisted({e})
<1>1. DOMAIN f = Events /\ \A y \in Events : "wait" \in DOMAIN f[y]
    BY DEF Enlisted, EventsWell
<1>2. \A y \in Events : f[y].type = event[y].type /\ f[y].ptr = event[y].ptr
    BY DEF Enlisted, EventsWell
<1> HIDE DEF f
<1>3. CASE event' = f
    BY <1>2, <1>3
<1>4. ASSUME NEW z, NEW list, event' = [f EXCEPT ![z].wait = list]
      PROVE  \A y \in Events : event'[y].type = event[y].type /\ event'[y].ptr = event[y].ptr
    BY <1>1, <1>2, <1>4
<1>5. CASE event' = ListedAtPip(x, p, f)
    <2>1. CASE event' = f
        BY <1>3, <2>1
    <2>2. CASE event' = [f EXCEPT ![tcb[x].ev].wait = (f[tcb[x].ev].wait \ {tcb[x].prio}) \cup {p}]
        BY <1>4, <2>2
    <2> QED BY <1>5, <2>1, <2>2 DEF ListedAtPip
<1> QED BY <1>3, <1>5 DEF f

LEMMA MutexPendSharing ==
    ASSUME SharingInv, EventsWell, May("OSMutexPend"), HoldsNone, NEW e \in Events, NEW timeout \in L.timeouts,
           OSMutexPend(e, timeout), Prompt, UNCHANGED load
    PROVE  SharingInv'
<1>0. PICK me \in Members : me = OSTCBCur
    BY MayShared
<1>1. /\ me \in Tasks /\ SharedCaller /\ OSIntNesting = 0 /\ Competes(me)
      /\ tcb \in [Tasks -> TCBs] /\ IdleTask \in Tasks /\ tcb[IdleTask].dly = 0 /\ IdleTask # me
      /\ timeout \in 0 .. MaxDelay /\ PlacesInv /\ OSTCBPrioTbl \in [Prios -> Tasks \cup {Null, Reserved}]
    BY <1>0, MayShared, OnlyShared, SharedFacts
       DEF Workload, SharingInv, Running, PlacesInv, SharedTyped, SharedCaller, OSMutexPend, MayPend
<1>2. PlacesInv'
    BY <1>0, <1>1, MutexPendShared
<1>3. Mutex(e)
    BY DEF OSMutexPend
<1>4. CASE TakeMutex(e)
    <2>1. Keeps /\ UNCHANGED <<tcb, OSTCBPrioTbl, OSRdyTbl, pc, lazy>>
          /\ event' = [event EXCEPT ![e].cnt = Owned(e, tcb[OSTCBCur].prio), ![e].ptr = OSTCBCur]
        BY <1>4 DEF TakeMutex, Keeps, restVars, Return, Prompt
    <2>2. \A d \in Events : event'[d].type = event[d].type /\ event'[d].ptr \in {event[d].ptr, OSTCBCur}
        BY <2>1 DEF EventsWell
    <2> QED BY <1>1, <1>2, <2>1, <2>2, CalmSharing DEF SameTypes
<1>5. ASSUME tcb'[me].prio = tcb[me].prio, tcb'[IdleTask].dly = 0, Keeps, Pended("MUTEX", {e}),
             \A y \in Events : event'[y].type = event[y].type /\ event'[y].ptr = event[y].ptr,
             \A d \in Events : Mutex(d) /\ Spare(d) => OSTCBPrioTbl'[PipOf(d)] = Reserved
      PROVE  SharingInv'
    <2>1. pc'[me].at = "pended" /\ \A t \in Tasks \ {me} : pc'[t] = pc[t]
        BY <1>0, <1>1, <1>5, Leaves
    <2> QED BY <1>0, <1>1, <1>2, <1>5, <2>1, PendingSharing DEF SameTypes
<1>6. Keeps \/ TakeMutex(e)
    BY DEF OSMutexPend, Keeps
<1>7. CASE OwnerPrio(e) # OS_MUTEX_AVAILABLE /\ Raises(e) /\ Raised(e, timeout) /\ Pended("MUTEX", {e}) /\ Keeps
    <2>1. PICK x \in Members : /\ x = event[e].ptr /\ x # me /\ Competes(x) /\ Pip(e) = PipOf(e)
        BY <1>0, <1>1, <1>3, <1>7, OwnerToRaise
    <2>2. x \in Tasks \ {me} /\ Pip(e) \in Prios /\ tcb[me].stat = {} /\ tcb[me].multi = {}
        BY <1>0, <1>1, <1>3, <2>1, SharedFacts, MutexFacts DEF SharedCaller, Resting
    <2>3. /\ \A t \in Tasks \ {me, x} : tcb'[t] = tcb[t]
          /\ KeptBlock(x) /\ tcb'[me].prio = tcb[me].prio
        BY <1>0, <1>1, <1>7, <2>1, <2>2, RaisedBlocks
    <2>4. tcb'[IdleTask].dly = 0
        BY <1>1, <2>3 DEF KeptBlock
    <2>5. \A y \in Events : event'[y].type = event[y].type /\ event'[y].ptr = event[y].ptr
        BY <1>7, ListedKeeps DEF Raised
    <2>6. ASSUME NEW d \in Events, Mutex(d), Spare(d) PROVE OSTCBPrioTbl'[PipOf(d)] = Reserved
        <3>1. event[d].ptr = Null
            BY <1>0, <1>1, <2>6 DEF Spare, SharedCaller, HoldsNone
        <3>2. Null \notin Members
            BY SharedFacts, CoreAssumption DEF SharingInv
        <3>3. PipOf(d) # PipOf(e)
            BY <1>1, <1>3, <2>1, <2>6, <3>1, <3>2, MutexFacts
        <3>4. OSTCBPrioTbl' = [OSTCBPrioTbl EXCEPT ![PipOf(e)] = x] /\ PipOf(d) \in Prios
            BY <1>1, <1>7, <2>1, <2>6, MutexFacts DEF Raised
        <3> QED BY <1>1, <2>6, <3>3, <3>4 DEF Spare
    <2> QED BY <1>5, <1>7, <2>3, <2>4, <2>5, <2>6
<1>8. CASE OS_EventTaskWait("MUTEX", e, timeout) /\ UNCHANGED OSTCBPrioTbl /\ Pended("MUTEX", {e}) /\ Keeps
    <2>1. tcb'[me].prio = tcb[me].prio /\ \A t \in Tasks \ {me} : tcb'[t] = tcb[t]
        BY <1>0, <1>1, <1>8, WaitBlock DEF OS_EventTaskWait
    <2>2. tcb'[IdleTask].dly = 0
        BY <1>1, <2>1
    <2>3. \A y \in Events : event'[y].type = event[y].type /\ event'[y].ptr = event[y].ptr
        BY <1>8, ListedKeeps DEF OS_EventTaskWait
    <2>4. \A d \in Events : Mutex(d) /\ Spare(d) => OSTCBPrioTbl'[PipOf(d)] = Reserved
        BY <1>8 DEF Spare
    <2> QED BY <1>5, <1>8, <2>1, <2>2, <2>3, <2>4
<1> QED BY <1>4, <1>6, <1>7, <1>8 DEF OSMutexPend, Raised

LEMMA MutexPostSharing ==
    ASSUME SharingInv, EventsWell, May("OSMutexPost"), NEW e \in Events, OSMutexPost(e), PutsOff, UNCHANGED load
    PROVE  SharingInv'
<1>0. PICK me \in Members : me = OSTCBCur
    BY MayShared
<1>1. /\ me \in Tasks /\ SharedCaller /\ PlacesInv /\ IdleTask \in Members /\ tcb[IdleTask].dly = 0
      /\ lazy \in BOOLEAN /\ OSTCBPrioTbl \in [Prios -> Tasks \cup {Null, Reserved}]
    BY <1>0, MayShared, SharedFacts DEF SharingInv, Running, PlacesInv, SharedTyped
<1>2. /\ Mutex(e) /\ OSIntNesting = 0 /\ Unkept(me)
      /\ (Lowered(me, e) \/ tcb[me].prio = L.prio[me]) /\ (Lowered(me, e) <=> tcb[me].prio = PipOf(e))
      /\ OSTCBPrioTbl' = [OSTCBPrioTbl EXCEPT ![PipOf(e)] = Reserved]
    BY <1>0, <1>1, OwnerPosts
<1>3. Keeps /\ PipOf(e) \in Prios
    BY <1>1, <1>2, MutexFacts DEF OSMutexPost, Keeps
<1>4. /\ PlacesInv' /\ PostEnds(e)
      /\ (Return /\ event'[e].ptr = Null) \/ CallSched
    BY <1>0, <1>1, MutexFreed, MutexPassedOn
<1>5. /\ tcb'[me].prio = L.prio[me] /\ tcb'[IdleTask].dly = 0 /\ tcb'[me].dly = 0
      /\ SameTypes
    BY <1>0, <1>1, <1>2, <1>4 DEF PostEnds, SameTypes, Unkept
<1>6. \/ UNCHANGED pc /\ event'[e].ptr = Null
      \/ pc'[me].at = "sched" /\ \A t \in Tasks \ {me} : pc'[t] = pc[t]
    BY <1>0, <1>1, <1>2, <1>4, Leaves DEF Return
<1>7. ASSUME NEW d \in Events, Mutex(d), d = e \/ Spare(d) PROVE Spare(d)'
    <2>1. OSTCBPrioTbl'[PipOf(d)] = Reserved
        <3>1. PipOf(d) \in Prios
            BY <1>1, <1>7, MutexFacts
        <3> QED BY <1>1, <1>2, <1>3, <1>7, <3>1 DEF Spare
    <2>2. pc'[me].at # "sched" => event'[d].ptr \in {Null, me}
        BY <1>0, <1>2, <1>4, <1>6, <1>7 DEF Spare, SharedCaller, PostEnds
    <2> QED BY <1>0, <1>3, <2>1, <2>2, SameApplication DEF Spare, Keeps
<1>8. Current'
    <2>1. \A d \in Events : PipOf(d)' = PipOf(d) /\ (Mutex(d)' <=> Mutex(d))
        BY <1>5, SameApplication DEF SameTypes, Mutex
    <2>2. OSPrioCur = L.prio[me] \/ \E d \in Events : Mutex(d) /\ OSPrioCur = PipOf(d) /\ (d = e \/ Spare(d))
        BY <1>0, <1>2 DEF SharingInv, Running, Current
    <2> QED BY <1>0, <1>3, <1>5, <1>7, <2>1, <2>2 DEF Current, Keeps
<1>9. lazy' \in BOOLEAN /\ (lazy' \/ (OSRdyTbl' = OSRdyTbl /\ ~lazy))
    BY <1>1, <1>2 DEF PutsOff
<1> QED BY <1>0, <1>1, <1>2, <1>3, <1>4, <1>5, <1>6, <1>8, <1>9, StaysRunning

LEMMA MutexSharing ==
    ASSUME SharingInv, EventsWell, MutexCalls, UNCHANGED load
    PROVE  SharingInv'
<1>0. PICK e \in Events :
          \/ May("OSMutexAccept") /\ HoldsNone /\ OSMutexAccept(e) /\ Prompt
          \/ /\ May("OSMutexPend") /\ HoldsNone /\ Prompt
             /\ \E timeout \in L.timeouts : OSMutexPend(e, timeout)
          \/ May("OSMutexPost") /\ OSMutexPost(e) /\ PutsOff
    BY OnlyShared DEF MutexCalls, MemServices
<1>1. CASE May("OSMutexAccept") /\ HoldsNone /\ OSMutexAccept(e) /\ Prompt
    <2>1. OSTCBCur \in Members /\ SharedCaller /\ OSIntNesting = 0 /\ Competes(OSTCBCur) /\ TakeMutex(e) /\ Mutex(e)
        BY <1>1, MayShared, OnlyShared DEF OSMutexAccept
    <2>2. PlacesInv'
        BY <1>1, <2>1, TakeShared DEF SharingInv
    <2>3. Keeps /\ UNCHANGED <<tcb, OSTCBPrioTbl, OSRdyTbl, pc, lazy>>
          /\ event' = [event EXCEPT ![e].cnt = Owned(e, tcb[OSTCBCur].prio), ![e].ptr = OSTCBCur]
        BY <1>1, <2>1 DEF TakeMutex, Keeps, restVars, Return, Prompt
    <2>4. \A d \in Events : event'[d].type = event[d].type /\ event'[d].ptr \in {event[d].ptr, OSTCBCur}
        BY <2>3 DEF EventsWell
    <2> QED BY <2>1, <2>2, <2>3, <2>4, CalmSharing DEF SameTypes
<1> QED BY <1>0, <1>1, MutexPendSharing, MutexPostSharing

LEMMA DlySharing ==
    ASSUME SharingInv, May("OSTimeDly"), NEW ticks \in 1 .. MaxDelay, OSTimeDly(ticks), Prompt, UNCHANGED load
    PROVE  SharingInv'
<1>1. /\ OSTCBCur \in Members /\ OSTCBCur \in Tasks /\ SharedCaller /\ OSIntNesting = 0 /\ PlacesInv
      /\ tcb \in [Tasks -> TCBs] /\ IdleTask \in Tasks /\ tcb[IdleTask].dly = 0
    BY MayShared, SharedFacts DEF OSTimeDly, SharingInv, Running
<1>2. PlacesInv'
    BY <1>1, DlyShared
<1>3. Keeps /\ UNCHANGED <<event, OSTCBPrioTbl>> /\ CallSched
    BY DEF OSTimeDly, Keeps, restVars
<1>4. tcb'[OSTCBCur].prio = tcb[OSTCBCur].prio /\ tcb'[IdleTask].dly = 0
    BY <1>1 DEF OSTimeDly, SharedCaller, TCBs
<1>5. pc'[OSTCBCur].at = "sched" /\ \A t \in Tasks \ {OSTCBCur} : pc'[t] = pc[t]
    BY <1>1, <1>3, Leaves
<1> QED BY <1>1, <1>2, <1>3, <1>4, <1>5, PendingSharing DEF SameTypes, Spare

LEMMA ReturnSharing ==
    ASSUME SharingInv, EventsWell, Returns, UNCHANGED load
    PROVE  SharingInv'
<1>0. PICK me \in Members : me = OSTCBCur
    BY DEF SharingInv, Running
<1>1. /\ me \in Tasks /\ tcb \in [Tasks -> TCBs] /\ pc \in [Tasks -> SharedPCs] /\ PlacesInv
      /\ Members' = Members /\ IdleTask \in Tasks
    BY <1>0, SharedFacts, SameApplication DEF PlacesInv, SharedTyped, SharingInv, Running
<1>2. PICK op \in {"SEM", "MUTEX"} : ReturnFromPend(op, TRUE)
    <2>1. pc[me].op \in {"none", "SEM", "MUTEX"}
        BY <1>1 DEF SharedPCs
    <2> QED BY <1>0, <2>1 DEF Returns, SemReturn, MboxReturn, QReturn, MultiReturn, MutexReturn, FlagReturn, ReturnFromPend
<1>3. UNCHANGED <<OSRdyTbl, restVars, lazy>> /\ OSIntNesting = 0 /\ pc[me].at = "wake"
      /\ tcb' = Rested /\ pc' = [pc EXCEPT ![me] = InTask]
      /\ event' = IF tcb[me].pend = "TO" THEN Removed(pc[me].on) ELSE event
    BY <1>0, <1>2 DEF Returns, ReturnFromPend
<1>4. Runs /\ tcb[me].prio \in OSRdyTbl
    BY <1>0, <1>3 DEF SharingInv, Running, Runs
<1>5. PlacesInv'
    BY <1>0, <1>1, <1>2, <1>4, ReturnShared
<1>6. /\ tcb'[me].prio = tcb[me].prio /\ \A t \in Tasks \ {me} : tcb'[t] = tcb[t]
    BY <1>0, <1>1, <1>3, RestedBlock
<1>7. pc'[me].at = "task" /\ \A t \in Tasks \ {me} : pc'[t] = pc[t]
    <2>1. InTask.at = "task"
        BY DEF InTask
    <2> HIDE DEF InTask
    <2> QED BY <1>1, <1>3, <2>1
<1>8. IdleTask # me
    BY <1>3 DEF SharingInv, Running
<1>9. \A y \in Events : event'[y].type = event[y].type /\ event'[y].ptr = event[y].ptr
    <2>1. CASE tcb[me].pend = "TO"
        BY <1>0, <1>3, <2>1 DEF Removed, EventsWell
    <2>2. CASE tcb[me].pend # "TO"
        BY <1>3, <2>2
    <2> QED BY <2>1, <2>2
<1>10. Keeps
    BY <1>3 DEF Keeps, restVars
<1>11. Current'
    <2>1. ASSUME NEW d \in Events, Mutex(d), Spare(d) PROVE Spare(d)'
        BY <1>0, <1>3, <1>9, <1>10, <2>1, SameApplication DEF Spare, Keeps, restVars
    <2> QED BY <1>0, <1>6, <1>9, <1>10, <2>1, CurrentStays DEF SharingInv, Running, SameTypes
<1>12. tcb'[IdleTask].dly = 0 /\ pc'[IdleTask].at = "task"
    BY <1>1, <1>6, <1>7, <1>8 DEF SharingInv, Running
<1>13. Running'
    BY <1>0, <1>1, <1>3, <1>4, <1>6, <1>10, <1>11, <1>12 DEF SharingInv, Running, Keeps
<1> QED BY <1>5, <1>13 DEF SharingInv

(* The scheduler. *)
LEMMA SwitchSharing ==
    ASSUME SharingInv, Sched \/ IntExit, UNCHANGED load
    PROVE  SharingInv'
<1>1. /\ UNCHANGED <<tcb, OSTCBPrioTbl, OSRdyTbl, OSLockNesting, event>>
      /\ SwitchTo(Highest(OSRdyTbl)) /\ lazy' = FALSE /\ OSIntNesting' = 0
      /\ \/ UNCHANGED pc
         \/ /\ pc[OSTCBCur].at \in {"sched", "pended"}
            /\ pc' = [pc EXCEPT ![OSTCBCur].at = IF @ = "sched" THEN "task" ELSE "wake"]
    <2>1. OSLockNesting = 0 /\ ~(OSLockNesting > 0)
        BY DEF SharingInv, Running
    <2>2. lazy' = FALSE
        BY <2>1 DEF Sched, IntExit, Switch
    <2>3. CASE OS_Sched
        BY <2>1, <2>2, <2>3 DEF OS_Sched
    <2>4. CASE OSIntExit
        BY <2>1, <2>2, <2>4 DEF OSIntExit
    <2> QED BY <2>3, <2>4 DEF Sched, IntExit, Switch
<1>2. /\ PlacesInv /\ Members \subseteq Tasks /\ Members' = Members /\ OSTCBCur \in Members /\ OSTCBCur \in Tasks
      /\ pc \in [Tasks -> SharedPCs] /\ IdleTask \in Members
      /\ OSRdyTbl \in SUBSET Nat /\ OSRdyTbl \subseteq PriosOf(Members)
    BY SharedFacts, SameApplication DEF SharingInv, Running, PlacesInv, SharedTyped
<1>3. SharedGoOn /\ (\A t \in Tasks : pc[t].at = "task" => pc'[t].at = "task")
    <2>1. CASE UNCHANGED pc
        BY <1>2, <2>1 DEF SharedGoOn, GoesOn
    <2>2. CASE /\ pc[OSTCBCur].at \in {"sched", "pended"}
               /\ pc' = [pc EXCEPT ![OSTCBCur].at = IF @ = "sched" THEN "task" ELSE "wake"]
        <3>1. PICK at \in {"task", "wake"} : at = IF pc[OSTCBCur].at = "sched" THEN "task" ELSE "wake"
            OBVIOUS
        <3>2. pc' = [pc EXCEPT ![OSTCBCur].at = at]
            BY <2>2, <3>1
        <3> DEFINE v == [pc[OSTCBCur] EXCEPT !.at = at]
        <3>3. v \in SharedPCs /\ v.at = at /\ v.op = pc[OSTCBCur].op /\ v.on = pc[OSTCBCur].on
            BY <1>2 DEF SharedPCs
        <3>4. pc' = [pc EXCEPT ![OSTCBCur] = v]
            BY <3>2
        <3> HIDE DEF v
        <3>5. pc' \in [Tasks -> SharedPCs] /\ pc'[OSTCBCur] = v /\ \A t \in Tasks \ {OSTCBCur} : pc'[t] = pc[t]
            BY <1>2, <3>3, <3>4
        <3> QED BY <2>2, <3>1, <3>3, <3>5 DEF SharedGoOn, GoesOn
    <2> QED BY <1>1, <2>1, <2>2
<1>4. PlacesInv'
    <2>1. SameTypes /\ SameMutexes /\ \A e \in Events : event'[e].wait = event[e].wait /\ event'[e].cnt \in Nat
        BY <1>1 DEF SameTypes, SameMutexes, SharingInv, PlacesInv, SharedTyped
    <2> QED BY <1>1, <1>2, <1>3, <2>1, CalmShared
<1>5. IdleTask \in Members' /\ tcb'[IdleTask].dly = 0 /\ pc'[IdleTask].at = "task" /\ IdleTask \in Tasks
    BY <1>1, <1>2, <1>3 DEF SharingInv, Running
<1>6. OSRdyTbl # {}
    <2>1. MemberWell(IdleTask) /\ pc[IdleTask].at = "task" /\ tcb[IdleTask].dly = 0
        BY <1>2 DEF SharingInv, Running, PlacesInv, MembersWell
    <2>2. Unkept(IdleTask)
        BY <2>1 DEF MemberWell, Resting, Awaiting, Inside, Unkept
    <2> QED BY <2>1, <2>2 DEF MemberWell
<1>7. PICK p \in OSRdyTbl : p = Highest(OSRdyTbl)
    BY <1>2, <1>6, LeastExists
<1>8. PICK t \in Members : tcb[t].prio = p /\ OSTCBPrioTbl[p] = t /\ t \in Tasks
    BY <1>2, <1>7, SharedFacts DEF PriosOf
<1>9. OSTCBCur' = t /\ OSPrioCur' = p
    <2>1. SwitchTo(p)
        BY <1>1, <1>7
    <2>2. CASE p # OSPrioCur
        BY <1>8, <2>1, <2>2 DEF SwitchTo
    <2>3. CASE p = OSPrioCur
        <3>1. OSPrioCur = tcb[OSTCBCur].prio
            <4>1. Reserved \notin Tasks
                BY CoreAssumption
            <4> QED BY <1>8, <2>3, <4>1 DEF SharingInv, Running, Current, Spare
        <3>2. OSTCBCur = t
            BY <1>2, <1>8, <2>3, <3>1, SharedFacts
        <3> QED BY <2>1, <2>3, <3>2 DEF SwitchTo
    <2> QED BY <2>2, <2>3
<1>10. Running'
    <2>1. OSPrioCur' = tcb'[OSTCBCur'].prio /\ OSPrioCur' \in OSRdyTbl' /\ OSPrioCur' = Highest(OSRdyTbl')
        BY <1>1, <1>7, <1>8, <1>9
    <2>2. OSLockNesting' = 0 /\ OSIntNesting' \in 0 .. 1 /\ OSTCBCur' \in Members'
        <3>1. OSLockNesting = 0
            BY DEF SharingInv, Running
        <3> QED BY <1>1, <1>2, <1>8, <1>9, <3>1
    <2>3. lazy' \in BOOLEAN
        BY <1>1
    <2> QED BY <1>5, <2>1, <2>2, <2>3 DEF Running, Current
<1> QED BY <1>4, <1>10 DEF SharingInv

LEMMA OutsideSharing ==
    ASSUME SharingInv, IntEnter \/ Tick, UNCHANGED load
    PROVE  SharingInv'
<1>1. /\ PlacesInv /\ Members \subseteq Tasks /\ Members' = Members /\ OSTCBCur \in Members /\ OSTCBCur \in Tasks
      /\ IdleTask \in Members /\ IdleTask \in Tasks /\ tcb[IdleTask].dly = 0 /\ pc \in [Tasks -> SharedPCs]
    BY SharedFacts, SameApplication DEF SharingInv, Running, PlacesInv, SharedTyped
<1>2. CASE IntEnter
    <2>1. UNCHANGED <<tcb, OSTCBPrioTbl, OSRdyTbl, OSTCBCur, OSPrioCur, OSLockNesting, event, pc, lazy>>
          /\ OSIntNesting' = 1
        BY <1>2 DEF IntEnter, OSIntEnter, Outside
    <2>2. SameTypes /\ SameMutexes /\ \A e \in Events : event'[e].wait = event[e].wait /\ event'[e].cnt \in Nat
        BY <2>1 DEF SameTypes, SameMutexes, SharingInv, PlacesInv, SharedTyped
    <2>3. SharedGoOn
        BY <1>1, <2>1 DEF SharedGoOn, GoesOn
    <2>4. PlacesInv'
        BY <1>1, <2>1, <2>2, <2>3, CalmShared
    <2>5. Current'
        BY <2>1, SameApplication DEF SharingInv, Running, Current, Spare, Mutex
    <2> QED BY <1>1, <2>1, <2>4, <2>5 DEF SharingInv, Running, Runs
<1>3. CASE Tick
    <2>1. OSTimeTick /\ Keeps /\ UNCHANGED <<event, OSTCBPrioTbl, pc, lazy>> /\ OSIntNesting = 1
        BY <1>3 DEF Tick, OSTimeTick, Outside, Keeps, restVars
    <2>2. PlacesInv'
        BY <1>1, <2>1, TickShared
    <2>3. tcb'[OSTCBCur].prio = tcb[OSTCBCur].prio /\ tcb'[IdleTask].dly = 0
        BY <1>1, <2>1, TickBlock
    <2>4. \A d \in Events : Mutex(d) /\ Spare(d) => Spare(d)'
        BY <2>1, SameApplication DEF Spare, Keeps
    <2>5. Current'
        BY <2>1, <2>3, <2>4, CurrentStays DEF SharingInv, Running, SameTypes
    <2> QED BY <2>1, <2>2, <2>3, <2>5, StaysRunning DEF SharingInv, Running, SharedCaller
<1> QED BY <1>2, <1>3

(* The invariant is inductive. *)
LEMMA SharingStays ==
    ASSUME SharingInv, BlocksInv, [Next]_kernelVars
    PROVE  SharingInv'
<1>1. EventsWell
    BY DEF BlocksInv
<1>2. ASSUME UNCHANGED <<coreVars, load, lazy>> PROVE SharingInv'
    <2>1. SameTypes /\ SameMutexes /\ (\A e \in Events : event'[e].wait = event[e].wait /\ event'[e].cnt \in Nat)
          /\ SharedGoOn /\ UNCHANGED <<tcb, OSTCBPrioTbl, OSRdyTbl, load>>
        BY <1>2 DEF SameTypes, SameMutexes, SharingInv, PlacesInv, SharedTyped, SharedGoOn, GoesOn, coreVars
    <2>2. PlacesInv'
        BY <2>1, CalmShared DEF SharingInv
    <2>3. Current' /\ Members' = Members
        BY <1>2, SameApplication DEF SharingInv, Running, Current, Spare, Mutex, coreVars
    <2> QED BY <1>2, <2>2, <2>3 DEF SharingInv, Running, Runs, coreVars
<1>3. CASE MemCalls \/ UNCHANGED kernelVars
    BY <1>2, <1>3 DEF MemCalls, kernelVars
<1>4. CASE EventCalls /\ UNCHANGED load
    <2>1. /\ ~May("OSMboxAccept") /\ ~May("OSMboxPend") /\ ~May("OSMboxPost") /\ ~May("OSMboxPostOpt")
          /\ ~May("OSMboxPendAbort") /\ ~May("OSMboxCreate") /\ ~May("OSMboxDel")
        BY OnlyShared DEF MemServices
    <2>2. /\ ~May("OSQAccept") /\ ~May("OSQPend") /\ ~May("OSQPost") /\ ~May("OSQPostFront")
          /\ ~May("OSQPostOpt") /\ ~May("OSQPendAbort") /\ ~May("OSQFlush")
          /\ ~May("OSQCreate") /\ ~May("OSQDel") /\ ~May("OSEventPendMulti")
        BY OnlyShared DEF MemServices
    <2>3. ~MboxCalls
        BY <2>1 DEF MboxCalls
    <2>4. ~QCalls /\ ~MultiCalls
        BY <2>2 DEF QCalls, MultiCalls
    <2> QED BY <1>1, <1>4, <2>3, <2>4, SemSharing, MutexSharing DEF EventCalls
<1>5. CASE FlagCalls /\ UNCHANGED load
    BY <1>5, OnlyShared DEF FlagCalls, MemServices
<1>6. CASE TaskCalls /\ UNCHANGED load
    <2>1. pc[OSTCBCur].at \in {"task", "sched", "pended", "wake"}
        BY SharedFacts DEF SharingInv, Running, PlacesInv, SharedTyped, SharedPCs
    <2>2. ~OS_TCBInit /\ ~TaskDelEnd
        BY <2>1 DEF OS_TCBInit, TaskDelEnd
    <2>3. /\ Prompt /\ May("OSTimeDly") /\ \E ticks \in 1 .. MaxDelay : OSTimeDly(ticks)
        BY <1>6, <2>2, OnlyShared DEF TaskCalls, MemServices
    <2> QED BY <1>6, <2>3, DlySharing
<1>7. CASE Returns /\ UNCHANGED load
    BY <1>1, <1>7, ReturnSharing
<1>8. CASE (Sched \/ IntExit) /\ UNCHANGED load
    BY <1>8, SwitchSharing
<1>9. CASE (IntEnter \/ Tick) /\ UNCHANGED load
    BY <1>9, OutsideSharing
<1>10. ~Lock /\ ~Unlock
    BY OnlyShared DEF Lock, Unlock, MemServices
<1> QED BY <1>3, <1>4, <1>5, <1>6, <1>7, <1>8, <1>9, <1>10 DEF Next

LEMMA SharedAtFirst == Init => (Sharing => SharingInv)
<1> SUFFICES ASSUME Init, Sharing PROVE SharingInv
    OBVIOUS
<1>0. PICK prio, events, pips :
          /\ prio = L.prio /\ events = L.events /\ CoreInit(prio, events, pips)
          /\ pips = {p \in Prios : \E e \in Events : IsMutex(e) /\ PipOf(e) = p}
    BY DEF Init, IsMutex, PipOf
<1> DEFINE D == DOMAIN prio
<1>1. /\ load \in DOMAIN Workloads /\ lazy = FALSE /\ D = Members
      /\ D \subseteq Tasks /\ prio \in [D -> Prios] /\ (\A t, u \in D : prio[t] = prio[u] => t = u)
      /\ IdleTask \in D
      /\ \A e \in Events : events[e].wait = {} /\ events[e].cnt \in Nat
    <2>1. load \in DOMAIN Workloads /\ lazy = FALSE /\ Workload(L)
        BY WorkloadAssumption DEF Init, L
    <2>2. prio \in [D -> Prios] /\ \A t, u \in D : prio[t] = prio[u] => t = u
        BY <1>0, <2>1 DEF Workload, Injection, IsInjective
    <2>3. \A e \in Events : events[e].wait \in {{}} /\ events[e].cnt \in Nat
        BY <1>0, <2>1 DEF Workload
    <2> QED BY <1>0, <2>1, <2>2, <2>3 DEF Workload, Members
<1>2. /\ tcb = [t \in Tasks |-> FreshTCB(IF t \in D THEN prio[t] ELSE OS_LOWEST_PRIO + 1)]
      /\ OSTCBPrioTbl = [p \in Prios |-> IF \E t \in D : prio[t] = p THEN CHOOSE t \in D : prio[t] = p
                                         ELSE IF p \in pips THEN Reserved ELSE Null]
      /\ OSRdyTbl = {prio[t] : t \in D}
      /\ OSPrioCur = Highest(OSRdyTbl) /\ OSTCBCur = OSTCBPrioTbl[OSPrioCur]
      /\ OSIntNesting = 0 /\ OSLockNesting = 0
      /\ event = events /\ pc = [t \in Tasks |-> InTask]
    BY <1>0 DEF CoreInit
<1> HIDE DEF D
<1>3. /\ OSTCBPrioTbl \in [Prios -> Tasks \cup {Null, Reserved}]
      /\ \A t \in D : OSTCBPrioTbl[prio[t]] = t
      /\ \A p \in pips : p \in Prios /\ (\A t \in D : prio[t] # p) => OSTCBPrioTbl[p] = Reserved
    <2>1. \A p \in Prios : (\E t \in D : prio[t] = p) => (CHOOSE t \in D : prio[t] = p) \in D
        OBVIOUS
    <2>2. \A p \in Prios : OSTCBPrioTbl[p] \in Tasks \cup {Null, Reserved}
        BY <1>1, <1>2, <2>1
    <2> QED BY <1>1, <1>2, <2>2
<1>4. ASSUME NEW t \in Tasks
      PROVE  /\ tcb[t] \in TCBs /\ tcb[t].prio = IF t \in D THEN prio[t] ELSE OS_LOWEST_PRIO + 1
             /\ tcb[t].stat = {} /\ tcb[t].dly = 0 /\ tcb[t].ev = Null /\ tcb[t].multi = {}
             /\ pc[t] = InTask
    <2> DEFINE p == IF t \in D THEN prio[t] ELSE OS_LOWEST_PRIO + 1
    <2>1. p \in 0 .. OS_LOWEST_PRIO + 1
        BY <1>1, CoreAssumption DEF Prios
    <2>2. tcb[t] = FreshTCB(p)
        BY <1>2
    <2>3. 0 \in 0 .. MaxDelay
        BY CoreAssumption
    <2> HIDE DEF p
    <2>4. /\ tcb[t] \in TCBs /\ tcb[t].prio = p
          /\ tcb[t].stat = {} /\ tcb[t].dly = 0 /\ tcb[t].ev = Null /\ tcb[t].multi = {}
        BY <2>1, <2>2, <2>3 DEF FreshTCB, TCBs
    <2> QED BY <1>2, <2>4 DEF p
<1>5. PriosOf(Members) = OSRdyTbl
    <2>1. Members = D /\ \A t \in D : tcb[t].prio = prio[t]
        BY <1>1, <1>4
    <2> QED BY <1>2, <2>1 DEF PriosOf
<1>6. SharedTyped
    <2>1. tcb \in [Tasks -> TCBs]
        BY <1>2, <1>4
    <2>2. InTask \in SharedPCs
        BY DEF InTask, SharedPCs
    <2>3. \A t \in Tasks \ Members : tcb[t].prio \notin Prios
        <3>1. OS_LOWEST_PRIO + 1 \notin Prios
            BY CoreAssumption DEF Prios
        <3> QED BY <1>1, <1>4, <3>1
    <2>4. pc \in [Tasks -> SharedPCs]
        BY <1>2, <2>2
    <2>5. \A e \in Events : event[e].type = L.events[e].type /\ event[e].cnt \in Nat /\ event[e].wait = {}
        BY <1>0, <1>1, <1>2
    <2> QED BY <1>1, <1>3, <1>5, <2>1, <2>3, <2>4, <2>5 DEF SharedTyped
<1>7. ASSUME NEW t \in Members PROVE MemberWell(t)
    <2>1. t \in Tasks /\ t \in D /\ pc[t] = InTask /\ tcb[t].prio = prio[t] /\ tcb[t].multi = {}
          /\ tcb[t].stat = {} /\ tcb[t].ev = Null /\ tcb[t].dly = 0
        BY <1>1, <1>4
    <2>2. Resting(t)
        BY <1>1, <1>2, <2>1 DEF Resting, In, InTask
    <2>3. RankWell(t)
        BY <1>0, <1>3, <2>1 DEF RankWell
    <2>4. Unkept(t) /\ tcb[t].prio \in OSRdyTbl
        BY <1>2, <2>1 DEF Unkept
    <2> QED BY <2>1, <2>2, <2>3, <2>4 DEF MemberWell
<1>8. ASSUME NEW e \in Events, Mutex(e) PROVE MutexWell(e)
    <2>1. /\ IsMutex(e) /\ event[e].cnt = L.events[e].cnt /\ event[e].ptr = L.events[e].ptr /\ event[e].wait = {}
        BY <1>0, <1>1, <1>2, <1>8 DEF Mutex, IsMutex
    <2>2. /\ L.events[e].cnt = 256 * PipOf(e) + 255 /\ L.events[e].ptr = Null /\ PipOf(e) \in Prios
          /\ \A t \in Members : L.prio[t] # PipOf(e)
        BY <2>1 DEF Sharing, MutexesSetUp, OS_MUTEX_AVAILABLE
    <2>3. PipOf(e) \in Nat
        BY <2>2, CoreAssumption DEF Prios
    <2>4. (256 * PipOf(e) + 255) % 256 = 255
        BY <2>3, CntBytes
    <2>5. Pip(e) = PipOf(e) /\ OwnerPrio(e) = OS_MUTEX_AVAILABLE
        BY <2>1, <2>2, <2>4 DEF Pip, PipOf, OwnerPrio, OS_MUTEX_AVAILABLE
    <2>6. OSTCBPrioTbl[PipOf(e)] = Reserved
        BY <1>0, <1>1, <1>3, <2>1, <2>2
    <2> QED BY <2>1, <2>2, <2>5, <2>6 DEF MutexWell, Unowned
<1>9. Running
    <2>1. OSRdyTbl \in SUBSET Nat /\ OSRdyTbl # {}
        BY <1>1, <1>2, CoreAssumption DEF Prios
    <2>2. OSPrioCur \in OSRdyTbl
        BY <1>2, <2>1, LeastExists
    <2>3. PICK t \in D : prio[t] = OSPrioCur
        BY <1>2, <2>2
    <2>4. OSTCBCur = t /\ t \in Tasks /\ IdleTask \in Tasks
        BY <1>1, <1>2, <1>3, <2>3
    <2>5. OSPrioCur = tcb[OSTCBCur].prio
        BY <1>4, <2>3, <2>4
    <2>6. pc[IdleTask].at = "task" /\ tcb[IdleTask].dly = 0
        BY <1>4, <2>4 DEF InTask
    <2>7. OSIntNesting = 0 /\ OSLockNesting = 0 /\ OSPrioCur = Highest(OSRdyTbl)
        BY <1>2
    <2>8. lazy \in BOOLEAN
        BY <1>1
    <2>9. OSTCBCur \in Members /\ IdleTask \in Members /\ OSIntNesting \in 0 .. 1
        BY <1>1, <2>4, <2>7
    <2> QED BY <2>2, <2>5, <2>6, <2>7, <2>8, <2>9 DEF Running, Current
<1> QED BY <1>6, <1>7, <1>8, <1>9 DEF SharingInv, PlacesInv, MembersWell, MutexesWell

LEMMA SharingAlways == Spec => [](Sharing => SharingInv)
<1>1. ASSUME Sharing => SharingInv, BlocksInv, [Next]_kernelVars
      PROVE  (Sharing => SharingInv)'
    <2>1. UNCHANGED load
        BY <1>1 DEF Next, MemCalls, kernelVars
    <2>2. Sharing' = Sharing
        BY <2>1 DEF Sharing, Competes, MutexesSetUp, IsMutex, PipOf, Members, L
    <2> QED BY <1>1, <2>2, SharingStays
<1> QED BY <1>1, SharedAtFirst, EventAndQueueBlocks, PTL DEF Spec

-----------------------------------------------------------------------------
(* What the invariant says, in the words of OsKernel.                      *)

LEMMA SharedUndeleted ==
    ASSUME PlacesInv
    PROVE  \A t : ~Deleting(t)
BY SharedFacts DEF PlacesInv, SharedTyped, SharedPCs, Deleting

LEMMA SharedOwners ==
    ASSUME PlacesInv
    PROVE  OwnedByOne
<1>1. Live = Members /\ Members \subseteq Tasks /\ Null \notin Tasks
    BY SharedFacts, CoreAssumption
<1>2. ASSUME NEW e \in Events, Mutex(e)
      PROVE  /\ OwnerPrio(e) = OS_MUTEX_AVAILABLE <=> event[e].ptr = Null
             /\ event[e].ptr # Null => tcb[event[e].ptr].prio \in {OwnerPrio(e), Pip(e)}
             /\ event[e].ptr = Null => Waiters(e) = {} /\ OSTCBPrioTbl[Pip(e)] = Reserved
    <2>1. MutexWell(e) /\ Pip(e) = PipOf(e)
        BY <1>2 DEF PlacesInv, MutexesWell, MutexWell
    <2>2. CASE Unowned(e)
        BY <2>1, <2>2 DEF Unowned, Waiters
    <2>3. ASSUME NEW t \in Members, OwnedBy(e, t)
          PROVE  /\ OwnerPrio(e) # OS_MUTEX_AVAILABLE /\ event[e].ptr = t
                 /\ tcb[t].prio \in {OwnerPrio(e), Pip(e)}
        <3>1. OwnerPrio(e) = L.prio[t] /\ L.prio[t] \in Prios /\ event[e].ptr = t
            BY <2>3, SharedFacts DEF OwnedBy
        <3>2. OwnerPrio(e) # OS_MUTEX_AVAILABLE
            BY <3>1, CoreAssumption DEF PlacesInv, Sharing, Prios, OS_MUTEX_AVAILABLE
        <3>3. RankWell(t)
            BY DEF PlacesInv, MembersWell, MemberWell
        <3> QED BY <2>1, <2>3, <3>1, <3>2, <3>3 DEF OwnedBy, RankWell
    <2> QED BY <1>1, <2>1, <2>2, <2>3 DEF MutexWell
<1>3. ASSUME NEW e \in Events, NEW t \in Members, pc[t].at = "wake", pc[t].op = "MUTEX", e \in pc[t].on,
             tcb[t].stat \cap PendBits = {}, tcb[t].pend = "OK"
      PROVE  event[e].ptr = t
    <2>1. Awaiting(t)
        BY <1>3 DEF PlacesInv, MembersWell, MemberWell, Resting
    <2>2. tcb[t].ev = e
        BY <1>3, <2>1 DEF Awaiting
    <2>3. ~Queued(t)
        BY <1>3 DEF Queued, PendBits
    <2> QED BY <1>3, <2>1, <2>2, <2>3 DEF Awaiting, HandedOver, Owns
<1> QED BY <1>1, <1>2, <1>3 DEF OwnedByOne

LEMMA SharedOrder ==
    ASSUME PlacesInv
    PROVE  NoInversion
<1>1. ASSUME NEW e \in Events, Mutex(e), NEW p \in event[e].wait
      PROVE  tcb[event[e].ptr].prio < p
    <2>1. MutexWell(e)
        BY <1>1 DEF PlacesInv, MutexesWell
    <2> QED BY <1>1, <2>1 DEF MutexWell, Unowned, OwnedBy
<1> QED BY <1>1 DEF NoInversion, Waiters

LEMMA SharedReady ==
    ASSUME PlacesInv
    PROVE  ReadyIffRunnable
<1>1. \A t \in Live : Runnable(t) <=> tcb[t].prio \in OSRdyTbl
    BY SharedFacts, SharedUndeleted DEF PlacesInv, MembersWell, MemberWell, Resting, Awaiting, Queued,
                                        HandedOver, Unkept, Runnable, Suspended
<1>2. OSRdyTbl \subseteq {tcb[t].prio : t \in Live}
    BY SharedFacts DEF PlacesInv, SharedTyped, PriosOf
<1> QED BY <1>1, <1>2 DEF ReadyIffRunnable

LEMMA SharedListed ==
    ASSUME PlacesInv
    PROVE  ListedIffWaiting
<1>1. ASSUME NEW t \in Members, NEW e \in Events
      PROVE  tcb[t].prio \in event[e].wait <=> WaitsFor(t, e)
    <2>1. ~Deleting(t) /\ MemberWell(t) /\ tcb[t].multi = {}
        BY SharedUndeleted DEF PlacesInv, MembersWell, MemberWell
    <2>2. CASE Resting(t)
        BY <2>2 DEF Resting, In, WaitsFor
    <2>3. CASE Awaiting(t) /\ Queued(t)
        BY <2>1, <2>3 DEF Awaiting, Queued, Inside, In, WaitsFor, PendBits
    <2>4. CASE Awaiting(t) /\ HandedOver(t)
        BY <2>1, <2>4 DEF HandedOver, In, WaitsFor
    <2> QED BY <2>1, <2>2, <2>3, <2>4 DEF MemberWell, Awaiting
<1>2. \A e \in Events : event[e].wait \subseteq {tcb[t].prio : t \in Members}
    BY DEF PlacesInv, SharedTyped, PriosOf
<1>3. ASSUME NEW e \in Events
      PROVE  event[e].wait = {tcb[t].prio : t \in {x \in Live : WaitsFor(x, e)}}
    BY <1>1, <1>2, SharedFacts
<1> QED BY <1>3 DEF ListedIffWaiting, Waiters

LEMMA SharedRuns ==
    ASSUME SharingInv
    PROVE  HighestRuns
<1> SUFFICES ASSUME OSIntNesting = 0, ~lazy, pc[OSTCBCur].at \in {"task", "wake"}
    PROVE  OSTCBCur = OSTCBPrioTbl[Highest(OSRdyTbl)] /\ OSPrioCur = tcb[OSTCBCur].prio
    BY DEF HighestRuns
<1>1. PlacesInv /\ OSTCBCur \in Members /\ tcb[OSTCBCur].prio \in OSRdyTbl /\ OSPrioCur = Highest(OSRdyTbl)
    BY DEF SharingInv, Running, Runs
<1>2. OSRdyTbl \in SUBSET Nat /\ OSRdyTbl \subseteq PriosOf(Members)
    BY <1>1, SharedFacts DEF PlacesInv, SharedTyped
<1>3. OSPrioCur \in OSRdyTbl
    BY <1>1, <1>2, LeastExists
<1>4. PICK t \in Members : tcb[t].prio = OSPrioCur /\ OSTCBPrioTbl[OSPrioCur] = t /\ t \in Tasks
    BY <1>1, <1>2, <1>3, SharedFacts DEF PriosOf
<1>5. OSPrioCur = tcb[OSTCBCur].prio
    <2>1. Reserved \notin Tasks
        BY CoreAssumption
    <2> QED BY <1>4, <2>1 DEF SharingInv, Running, Current, Spare
<1> QED BY <1>1, <1>5, SharedFacts

(* In an application that shares mutexes and semaphores, whatever its tasks*)
(* call, in whatever order, and whenever the timer comes: a mutex has one  *)
(* owner or none; the owner runs at its own priority or the raised one; and*)
(* who comes back from OSMutexPend without an error owns it.               *)
THEOREM MutexHasOneOwner == Spec => [](Sharing => OwnedByOne)
<1>1. SharingInv => OwnedByOne
    BY SharedOwners DEF SharingInv
<1> QED BY <1>1, SharingAlways, PTL

(* In such an application nobody waits for a mutex whose owner is less     *)
(* urgent: OSMutexPend has raised the owner, wherever it was, and          *)
(* OSMutexPost lowers it only as it lets go.                               *)
THEOREM NobodyIsInverted == Spec => [](Sharing => NoInversion)
<1>1. SharingInv => NoInversion
    BY SharedOrder DEF SharingInv
<1> QED BY <1>1, SharingAlways, PTL

(* In such an application the ready list and the lists of the events follow*)
(* an owner that is raised or lowered: its bit is in them under the        *)
(* priority that it has, and under no other.                               *)
THEOREM RaisedTasksAreListed == Spec => [](Sharing => ReadyIffRunnable /\ ListedIffWaiting)
<1>1. SharingInv => ReadyIffRunnable /\ ListedIffWaiting
    BY SharedReady, SharedListed DEF SharingInv
<1> QED BY <1>1, SharingAlways, PTL

(* In such an application the task that runs is the most urgent one that is*)
(* ready, at the priority that raising and lowering have left it.          *)
THEOREM HighestRunsDespiteRaising == Spec => [](Sharing => HighestRuns)
<1>1. SharingInv => HighestRuns
    BY SharedRuns
<1> QED BY <1>1, SharingAlways, PTL
=============================================================================
