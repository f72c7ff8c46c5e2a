---------------------------- MODULE OsKernelProofs --------------------------
(***************************************************************************)
(* The kernel, for any number of tasks, events and queues: its data        *)
(* structures, of any size; the blocks of its events and queues, in any    *)
(* application; and who is ready, who waits where and who runs, in a       *)
(* settled application.                                                    *)
(***************************************************************************)
EXTENDS OsKernel, OsReadyList, OsRing, SequenceTheorems, FiniteSetTheorems, TLAPS

(***************************************************************************)
(* The two-level bit map is a set of priorities, and its lookup finds the  *)
(* least of them.                                                          *)
(***************************************************************************)

(* A priority is its byte and its bit, and bytes come before bits. *)
LEMMA Places ==
    /\ \A p \in 0 .. 63 : Y(p) \in Bits /\ X(p) \in Bits /\ p = 8 * Y(p) + X(p)
    /\ \A y, x \in Bits : 8 * y + x \in 0 .. 63 /\ Y(8 * y + x) = y /\ X(8 * y + x) = x
BY DEF X, Y, Bits

LEMMA ListFields ==
    ASSUME NEW list \in Lists
    PROVE  /\ list.grp \in SUBSET Bits
           /\ list.tbl \in [Bits -> SUBSET Bits]
           /\ \A y \in Bits : y \in list.grp <=> list.tbl[y] # {}
BY DEF Lists

LEMMA LowestBit ==
    ASSUME NEW bits \in SUBSET Bits, bits # {}
    PROVE  /\ OSUnMapTbl(bits) \in bits
           /\ \A c \in bits : OSUnMapTbl(bits) <= c
<1>1. \E b \in bits : \A c \in bits : b <= c
    <2>1. \A c \in bits : c \in {0, 1, 2, 3, 4, 5, 6, 7}
        BY DEF Bits
    <2>2. ASSUME NEW b \in bits, \A c \in bits : c >= b
          PROVE  \E d \in bits : \A c \in bits : d <= c
        <3>1. \A c \in bits : b <= c
            BY <2>1, <2>2
        <3> QED BY <3>1
    <2>3. CASE 0 \in bits
        BY <2>1, <2>2, <2>3
    <2>4. CASE 0 \notin bits /\ 1 \in bits
        BY <2>1, <2>2, <2>4
    <2>5. CASE 0 \notin bits /\ 1 \notin bits /\ 2 \in bits
        BY <2>1, <2>2, <2>5
    <2>6. CASE bits \cap {0, 1, 2} = {} /\ 3 \in bits
        BY <2>1, <2>2, <2>6
    <2>7. CASE bits \cap {0, 1, 2, 3} = {} /\ 4 \in bits
        BY <2>1, <2>2, <2>7
    <2>8. CASE bits \cap {0, 1, 2, 3, 4} = {}
        <3>1. CASE 5 \in bits
            BY <2>1, <2>2, <2>8, <3>1
        <3>2. CASE 5 \notin bits /\ 6 \in bits
            BY <2>1, <2>2, <2>8, <3>2
        <3>3. CASE 5 \notin bits /\ 6 \notin bits
            BY <2>1, <2>2, <2>8, <3>3
        <3> QED BY <3>1, <3>2, <3>3
    <2> QED BY <2>3, <2>4, <2>5, <2>6, <2>7, <2>8
<1> QED BY <1>1 DEF OSUnMapTbl

(* The list starts empty (OS_InitRdyList, OS_EventWaitListInit). *)
THEOREM EmptyListIsEmpty == EmptyList \in Lists /\ PriosIn(EmptyList) = {}
BY Places DEF Lists, EmptyList, PriosIn

(* Setting the two bits adds the priority and nothing else. *)
THEOREM InsertedAdds ==
    ASSUME NEW list \in Lists, NEW prio \in 0 .. 63
    PROVE  /\ Inserted(list, prio) \in Lists
           /\ PriosIn(Inserted(list, prio)) = PriosIn(list) \cup {prio}
<1> DEFINE new == Inserted(list, prio)
           y == Y(prio)
           x == X(prio)
<1>1. y \in Bits /\ x \in Bits /\ prio = 8 * y + x
    BY Places
<1>2. /\ new.grp = list.grp \cup {y}
      /\ new.tbl = [list.tbl EXCEPT ![y] = list.tbl[y] \cup {x}]
    BY DEF Inserted
<1>3. new.grp \in SUBSET Bits /\ new.tbl \in [Bits -> SUBSET Bits]
    BY <1>1, <1>2, ListFields
<1>4. \A z \in Bits : new.tbl[z] = IF z = y THEN list.tbl[y] \cup {x} ELSE list.tbl[z]
    BY <1>1, <1>2, ListFields
<1>5. new \in Lists
    <2>1. \A z \in Bits : z \in new.grp <=> new.tbl[z] # {}
        BY <1>1, <1>2, <1>4, ListFields, ZenonT(60)
    <2>2. new \in [grp : SUBSET Bits, tbl : [Bits -> SUBSET Bits]]
        BY <1>2, <1>3 DEF Inserted
    <2> QED BY <2>1, <2>2 DEF Lists
<1>6. \A p \in 0 .. 63 : X(p) \in new.tbl[Y(p)] <=> X(p) \in list.tbl[Y(p)] \/ p = prio
    <2> TAKE p \in 0 .. 63
    <2>1. Y(p) \in Bits /\ X(p) \in Bits /\ p = 8 * Y(p) + X(p)
        BY Places
    <2>2. p = prio <=> Y(p) = y /\ X(p) = x
        BY <1>1, <2>1
    <2> QED BY <1>4, <2>1, <2>2
<1> QED BY <1>5, <1>6 DEF PriosIn

(* Clearing them takes it away and nothing else, also when it is not there. *)
THEOREM WithoutRemoves ==
    ASSUME NEW list \in Lists, NEW prio \in 0 .. 63
    PROVE  /\ Without(list, prio) \in Lists
           /\ PriosIn(Without(list, prio)) = PriosIn(list) \ {prio}
<1> DEFINE new == Without(list, prio)
           y == Y(prio)
           x == X(prio)
           byte == list.tbl[y] \ {x}
<1>1. y \in Bits /\ x \in Bits /\ prio = 8 * y + x
    BY Places
<1>2. /\ new.grp = IF byte = {} THEN list.grp \ {y} ELSE list.grp
      /\ new.tbl = [list.tbl EXCEPT ![y] = byte]
    BY DEF Without
<1>3. new.grp \in SUBSET Bits /\ new.tbl \in [Bits -> SUBSET Bits]
    BY <1>1, <1>2, ListFields
<1>4. \A z \in Bits : new.tbl[z] = IF z = y THEN byte ELSE list.tbl[z]
    BY <1>1, <1>2, ListFields
<1>5. new \in Lists
    <2>1. ASSUME NEW z \in Bits
          PROVE  z \in new.grp <=> new.tbl[z] # {}
        <3>1. z \in list.grp <=> list.tbl[z] # {}
            BY ListFields
        <3>2. CASE z = y
            <4>1. new.tbl[z] = byte /\ (z \in new.grp <=> byte # {} /\ z \in list.grp)
                BY <1>1, <1>2, <1>4, <3>2
            <4> QED BY <3>1, <3>2, <4>1
        <3>3. CASE z # y
            BY <1>2, <1>4, <3>1, <3>3
        <3> QED BY <3>2, <3>3
    <2>2. new \in [grp : SUBSET Bits, tbl : [Bits -> SUBSET Bits]]
        BY <1>2, <1>3 DEF Without
    <2> QED BY <2>1, <2>2 DEF Lists
<1>6. \A p \in 0 .. 63 : X(p) \in new.tbl[Y(p)] <=> X(p) \in list.tbl[Y(p)] /\ p # prio
    <2> TAKE p \in 0 .. 63
    <2>1. Y(p) \in Bits /\ X(p) \in Bits /\ p = 8 * Y(p) + X(p)
        BY Places
    <2>2. p = prio <=> Y(p) = y /\ X(p) = x
        BY <1>1, <2>1
    <2> QED BY <1>4, <2>1, <2>2
<1> QED BY <1>5, <1>6 DEF PriosIn

(* Two lookups find the most urgent of the tasks that are ready            *)
(* (OS_SchedNew) or that wait for an event (OS_EventTaskRdy): OsCore's     *)
(* Highest.                                                                *)
THEOREM HighestPrioIsLeast ==
    ASSUME NEW list \in Lists, PriosIn(list) # {}
    PROVE  /\ HighestPrio(list) \in PriosIn(list)
           /\ \A p \in PriosIn(list) : HighestPrio(list) <= p
<1> DEFINE y == OSUnMapTbl(list.grp)
           x == OSUnMapTbl(list.tbl[y])
<1>1. \A p \in PriosIn(list) : /\ Y(p) \in list.grp /\ X(p) \in list.tbl[Y(p)]
                               /\ p = 8 * Y(p) + X(p) /\ X(p) \in Bits /\ Y(p) \in Bits
    BY Places, ListFields DEF PriosIn
<1>2. y \in list.grp /\ y \in Bits /\ \A z \in list.grp : y <= z
    BY <1>1, ListFields, LowestBit
<1>3. list.tbl[y] \in SUBSET Bits /\ list.tbl[y] # {}
    BY <1>2, ListFields
<1>4. x \in list.tbl[y] /\ x \in Bits /\ \A z \in list.tbl[y] : x <= z
    BY <1>3, LowestBit
<1>5. HighestPrio(list) = 8 * y + x
    BY DEF HighestPrio
<1> HIDE DEF y, x
<1>6. 8 * y + x \in PriosIn(list)
    BY <1>2, <1>4, Places DEF PriosIn
<1>7. ASSUME NEW p \in PriosIn(list)
      PROVE  8 * y + x <= p
    <2>1. y <= Y(p) /\ (Y(p) = y => x <= X(p)) /\ p = 8 * Y(p) + X(p)
        BY <1>1, <1>2, <1>4
    <2>2. Y(p) \in Bits /\ X(p) \in Bits
        BY <1>1
    <2> QED BY <2>1, <2>2, <1>2, <1>4 DEF Bits
<1> QED BY <1>5, <1>6, <1>7

-----------------------------------------------------------------------------
(***************************************************************************)
(* A ring of any size is a queue.  Two of its pointers and a counter say   *)
(* the same thing twice, and OSQPost, OSQPostFront, OSQPend and the others *)
(* move them apart from each other.                                        *)
(***************************************************************************)

(* A place counted from OSQOut is a slot, and different places are         *)
(* different slots.                                                        *)
LEMMA SlotsApart ==
    ASSUME NEW M, NEW n \in Nat \ {0}, NEW pq \in Rings(n, M)
    PROVE  /\ \A k \in 0 .. n : SlotAfter(pq, k) \in 0 .. n - 1
           /\ \A j, k \in 0 .. n - 1 : SlotAfter(pq, j) = SlotAfter(pq, k) => j = k
<1>1. pq.size = n /\ pq.out \in 0 .. n - 1
    BY DEF Rings
<1> QED BY <1>1 DEF SlotAfter

(* What is known of the fields. *)
LEMMA Fields ==
    ASSUME NEW M, NEW n \in Nat \ {0}, NEW pq \in Rings(n, M)
    PROVE  /\ pq.size = n /\ pq.out \in 0 .. n - 1 /\ pq.entries \in 0 .. n
           /\ pq.in \in 0 .. n - 1 /\ pq.in = SlotAfter(pq, pq.entries)
           /\ pq.slots \in [0 .. n - 1 -> M]
BY SlotsApart DEF Rings

LEMMA ContentsType ==
    ASSUME NEW M, NEW n \in Nat \ {0}, NEW pq \in Rings(n, M)
    PROVE  /\ Contents(pq) \in Seq(M)
           /\ Len(Contents(pq)) = pq.entries
<1>1. \A i \in 1 .. pq.entries : pq.slots[SlotAfter(pq, i - 1)] \in M
    BY Fields, SlotsApart, SMTT(30)
<1>2. pq.entries \in Nat /\ Contents(pq) \in [1 .. pq.entries -> M]
    BY <1>1, Fields DEF Contents
<1> QED BY <1>2

(* A new ring, or one that has been flushed, has no message (OSQCreate,    *)
(* OSQFlush).                                                              *)
THEOREM NewRingIsEmpty ==
    ASSUME NEW M, NEW fill \in M, NEW n \in Nat \ {0}
    PROVE  /\ NewRing(n, fill) \in Rings(n, M)
           /\ Contents(NewRing(n, fill)) = <<>>
<1>1. NewRing(n, fill) \in Rings(n, M)
    BY DEF Rings, NewRing, SlotAfter
<1>2. Len(Contents(NewRing(n, fill))) = 0
    BY <1>1, ContentsType DEF NewRing
<1> QED BY <1>1, <1>2, ContentsType

THEOREM FlushEmpties ==
    ASSUME NEW M, NEW n \in Nat \ {0}, NEW pq \in Rings(n, M)
    PROVE  Flushed(pq) \in Rings(n, M) /\ Contents(Flushed(pq)) = <<>>
<1> DEFINE new == Flushed(pq)
<1>1. new = [size |-> n, in |-> 0, out |-> 0, entries |-> 0, slots |-> pq.slots]
    BY Fields DEF Flushed
<1> HIDE DEF new
<1>2. new \in Rings(n, M)
    BY <1>1, Fields DEF Rings, SlotAfter
<1>3. Len(Contents(new)) = 0
    BY <1>1, <1>2, ContentsType
<1> QED BY <1>2, <1>3, ContentsType DEF new

(* A message that is posted comes after all the others (OSQPost).          *)
THEOREM PutAppends ==
    ASSUME NEW M, NEW n \in Nat \ {0}, NEW pq \in Rings(n, M), ~Full(pq), NEW msg \in M
    PROVE  /\ Put(pq, msg) \in Rings(n, M)
           /\ Contents(Put(pq, msg)) = Append(Contents(pq), msg)
<1> DEFINE new == Put(pq, msg)
           e == pq.entries
<1>1. /\ pq.size = n /\ pq.out \in 0 .. n - 1 /\ e \in 0 .. n - 1
      /\ pq.in \in 0 .. n - 1 /\ pq.in = SlotAfter(pq, e)
      /\ pq.slots \in [0 .. n - 1 -> M]
    BY Fields DEF Full
<1>2. \A k \in 0 .. n - 1 : /\ SlotAfter(pq, k) \in 0 .. n - 1
                            /\ k # e => SlotAfter(pq, k) # pq.in
    BY <1>1, SlotsApart, SMTT(30)
<1>3. NextSlot(pq, pq.in) \in 0 .. n - 1 /\ NextSlot(pq, pq.in) = SlotAfter(pq, e + 1)
    <2>1. PICK in, out, k : in = pq.in /\ out = pq.out /\ k = e
        OBVIOUS
    <2>2. /\ in \in 0 .. n - 1 /\ out \in 0 .. n - 1 /\ k \in 0 .. n - 1
          /\ in = IF out + k < n THEN out + k ELSE out + k - n
        BY <1>1, <2>1 DEF SlotAfter
    <2>3. /\ (IF in + 1 = n THEN 0 ELSE in + 1) \in 0 .. n - 1
          /\ (IF in + 1 = n THEN 0 ELSE in + 1) =
                 IF out + (k + 1) < n THEN out + (k + 1) ELSE out + (k + 1) - n
        BY <2>2
    <2> QED BY <1>1, <2>1, <2>3 DEF NextSlot, SlotAfter
<1>4. /\ new.size = n /\ new.in = NextSlot(pq, pq.in) /\ new.out = pq.out
      /\ new.entries = e + 1
      /\ new.slots = [pq.slots EXCEPT ![pq.in] = msg]
    BY <1>1 DEF Put
<1>5. \A k \in 0 .. n : SlotAfter(new, k) = SlotAfter(pq, k)
    BY <1>1, <1>4 DEF SlotAfter
<1>6. new \in [size : {n}, in : 0 .. n - 1, out : 0 .. n - 1, entries : 0 .. n,
               slots : [0 .. n - 1 -> M]]
    BY <1>1, <1>3 DEF Put
<1> HIDE DEF new
<1>7. new \in Rings(n, M)
    BY <1>1, <1>3, <1>4, <1>5, <1>6 DEF Rings
<1>8. Contents(new) = [i \in 1 .. e + 1 |-> IF i = e + 1 THEN msg ELSE pq.slots[SlotAfter(pq, i - 1)]]
    <2>1. ASSUME NEW i \in 1 .. e + 1
          PROVE  new.slots[SlotAfter(new, i - 1)] =
                     IF i = e + 1 THEN msg ELSE pq.slots[SlotAfter(pq, i - 1)]
        <3>1. i - 1 \in 0 .. n - 1 /\ (i - 1 = e <=> i = e + 1)
            BY <1>1
        <3>2. SlotAfter(new, i - 1) = SlotAfter(pq, i - 1)
            BY <3>1, <1>1, <1>5
        <3> QED BY <3>1, <3>2, <1>1, <1>2, <1>4
    <2> QED BY <2>1, <1>4 DEF Contents
<1>9. Contents(pq) = [i \in 1 .. e |-> pq.slots[SlotAfter(pq, i - 1)]]
    BY DEF Contents
<1>10. Contents(pq) \in Seq(M) /\ Len(Contents(pq)) = e
    BY ContentsType
<1>11. Contents(new) = Append(Contents(pq), msg)
    BY <1>1, <1>8, <1>9, <1>10
<1> QED BY <1>7, <1>11 DEF new

(* A message that is posted to the front comes before them (OSQPostFront). *)
THEOREM PutFrontPrepends ==
    ASSUME NEW M, NEW n \in Nat \ {0}, NEW pq \in Rings(n, M), ~Full(pq), NEW msg \in M
    PROVE  /\ PutFront(pq, msg) \in Rings(n, M)
           /\ Contents(PutFront(pq, msg)) = <<msg>> \o Contents(pq)
<1> DEFINE new == PutFront(pq, msg)
           e == pq.entries
           first == PrevSlot(pq, pq.out)
<1>1. /\ pq.size = n /\ pq.out \in 0 .. n - 1 /\ e \in 0 .. n - 1
      /\ pq.in \in 0 .. n - 1 /\ pq.in = SlotAfter(pq, e)
      /\ pq.slots \in [0 .. n - 1 -> M]
    BY Fields DEF Full
<1>2. first \in 0 .. n - 1 /\ first = SlotAfter(pq, n - 1)
    BY <1>1 DEF PrevSlot, SlotAfter
<1>3. \A k \in 0 .. n - 1 : /\ SlotAfter(pq, k) \in 0 .. n - 1
                            /\ k # n - 1 => SlotAfter(pq, k) # first
    BY <1>1, <1>2, SlotsApart, SMTT(30)
<1>4. /\ new.size = n /\ new.in = pq.in /\ new.out = first /\ new.entries = e + 1
      /\ new.slots = [pq.slots EXCEPT ![first] = msg]
    BY <1>1 DEF PutFront
<1>5. SlotAfter(new, 0) = first /\ \A k \in 0 .. n - 1 : SlotAfter(new, k + 1) = SlotAfter(pq, k)
    <2>1. first = IF pq.out = 0 THEN n - 1 ELSE pq.out - 1
        BY <1>1 DEF PrevSlot
    <2> HIDE DEF new, first
    <2>2. /\ \A k \in Int : SlotAfter(new, k) = IF first + k < n THEN first + k ELSE first + k - n
          /\ \A k \in Int : SlotAfter(pq, k) = IF pq.out + k < n THEN pq.out + k ELSE pq.out + k - n
        BY <1>1, <1>4 DEF SlotAfter
    <2>3. first \in Int /\ n \in Nat /\ pq.out \in Nat /\ pq.out < n
        BY <1>1, <1>2
    <2>4. SlotAfter(new, 0) = first
        BY <1>2, <2>2
    <2>5. ASSUME NEW k \in 0 .. n - 1
          PROVE  SlotAfter(new, k + 1) = SlotAfter(pq, k)
        <3>1. CASE pq.out = 0
            BY <2>1, <2>2, <2>3, <3>1
        <3>2. CASE pq.out # 0
            <4>1. first = pq.out - 1 /\ first + (k + 1) = pq.out + k
                BY <2>1, <2>3, <3>2
            <4> QED BY <4>1, <2>2, <2>3
        <3> QED BY <3>1, <3>2
    <2> QED BY <2>4, <2>5
<1>6. new \in [size : {n}, in : 0 .. n - 1, out : 0 .. n - 1, entries : 0 .. n,
               slots : [0 .. n - 1 -> M]]
    BY <1>1, <1>2 DEF PutFront
<1> HIDE DEF new, first
<1>7. new \in Rings(n, M)
    BY <1>1, <1>4, <1>5, <1>6 DEF Rings
<1>8. Contents(new) = [i \in 1 .. e + 1 |-> IF i = 1 THEN msg ELSE pq.slots[SlotAfter(pq, i - 2)]]
    <2>1. ASSUME NEW i \in 1 .. e + 1, i # 1
          PROVE  SlotAfter(new, i - 1) = SlotAfter(pq, i - 2) /\ SlotAfter(pq, i - 2) \in 0 .. n - 1
                 /\ SlotAfter(pq, i - 2) # first
        <3>1. i - 2 \in 0 .. n - 1 /\ i - 2 # n - 1 /\ (i - 2) + 1 = i - 1
            BY <2>1, <1>1
        <3> QED BY <3>1, <1>3, <1>5
    <2>2. \A i \in 1 .. e + 1 : new.slots[SlotAfter(new, i - 1)] =
                          (IF i = 1 THEN msg ELSE pq.slots[SlotAfter(pq, i - 2)])
        <3> TAKE i \in 1 .. e + 1
        <3>1. CASE i = 1
            BY <1>1, <1>2, <1>4, <1>5, <3>1
        <3>2. CASE i # 1
            BY <1>1, <1>4, <2>1, <3>2
        <3> QED BY <3>1, <3>2
    <2> QED BY <2>2, <1>4 DEF Contents
<1>9. Contents(pq) = [i \in 1 .. e |-> pq.slots[SlotAfter(pq, i - 1)]]
    BY DEF Contents
<1>10. Contents(pq) \in Seq(M) /\ Len(Contents(pq)) = e
    BY ContentsType
<1>11. Contents(new) = <<msg>> \o Contents(pq)
    <2>1. Contents(new) \in Seq(M) /\ Len(Contents(new)) = e + 1
        BY <1>4, <1>7, ContentsType
    <2>2. <<msg>> \o Contents(pq) \in Seq(M) /\ Len(<<msg>> \o Contents(pq)) = e + 1
        BY <1>1, <1>10
    <2>3. \A i \in 1 .. e + 1 : Contents(new)[i] = (<<msg>> \o Contents(pq))[i]
        BY <1>1, <1>8, <1>9, <1>10
    <2> QED BY <2>1, <2>2, <2>3, SeqEqual
<1> QED BY <1>7, <1>11 DEF new

(* The message that is taken is the first one (OSQAccept, OSQPend,         *)
(* OSEventPendMulti).                                                      *)
THEOREM TakenIsFirst ==
    ASSUME NEW M, NEW n \in Nat \ {0}, NEW pq \in Rings(n, M), pq.entries > 0
    PROVE  /\ Taken(pq) \in Rings(n, M)
           /\ OldestIn(pq) = Head(Contents(pq))
           /\ Contents(Taken(pq)) = Tail(Contents(pq))
<1> DEFINE new == Taken(pq)
           e == pq.entries
<1>1. /\ pq.size = n /\ pq.out \in 0 .. n - 1 /\ e \in 1 .. n
      /\ pq.in \in 0 .. n - 1 /\ pq.in = SlotAfter(pq, e)
      /\ pq.slots \in [0 .. n - 1 -> M]
    BY Fields
<1>2. /\ new.size = n /\ new.in = pq.in /\ new.out = NextSlot(pq, pq.out)
      /\ new.entries = e - 1 /\ new.slots = pq.slots
    BY <1>1 DEF Taken
<1>3. NextSlot(pq, pq.out) \in 0 .. n - 1
    BY <1>1 DEF NextSlot
<1>4. \A k \in 0 .. n - 1 : SlotAfter(new, k) = SlotAfter(pq, k + 1)
    <2>1. new.out = IF pq.out + 1 = n THEN 0 ELSE pq.out + 1
        BY <1>1, <1>2 DEF NextSlot
    <2> HIDE DEF new
    <2>2. /\ \A k \in Int : SlotAfter(new, k) = IF new.out + k < n THEN new.out + k ELSE new.out + k - n
          /\ \A k \in Int : SlotAfter(pq, k) = IF pq.out + k < n THEN pq.out + k ELSE pq.out + k - n
        BY <1>1, <1>2 DEF SlotAfter
    <2>3. n \in Nat /\ pq.out \in Nat /\ pq.out < n
        BY <1>1
    <2>4. ASSUME NEW k \in 0 .. n - 1
          PROVE  SlotAfter(new, k) = SlotAfter(pq, k + 1)
        <3>1. CASE pq.out + 1 = n
            BY <2>1, <2>2, <2>3, <3>1
        <3>2. CASE pq.out + 1 # n
            BY <2>1, <2>2, <2>3, <3>2
        <3> QED BY <3>1, <3>2
    <2> QED BY <2>4
<1>5. new \in [size : {n}, in : 0 .. n - 1, out : 0 .. n - 1, entries : 0 .. n,
               slots : [0 .. n - 1 -> M]]
    BY <1>1, <1>3 DEF Taken
<1> HIDE DEF new
<1>6. new \in Rings(n, M)
    <2>1. e - 1 \in 0 .. n - 1 /\ (e - 1) + 1 = e
        BY <1>1
    <2>2. new.in = SlotAfter(new, new.entries)
        BY <2>1, <1>1, <1>2, <1>4
    <2> QED BY <2>2, <1>5 DEF Rings
<1>7. Contents(pq) \in Seq(M) /\ Len(Contents(pq)) = e
    BY ContentsType
<1>8. OldestIn(pq) = Contents(pq)[1]
    <2>1. SlotAfter(pq, 1 - 1) = pq.out
        BY <1>1 DEF SlotAfter
    <2> QED BY <1>1, <2>1 DEF Contents, OldestIn
<1>9. Contents(new) = Tail(Contents(pq))
    <2>1. \A i \in 1 .. e - 1 : SlotAfter(new, i - 1) = SlotAfter(pq, i)
        <3>1. \A i \in 1 .. e - 1 : i - 1 \in 0 .. n - 1 /\ (i - 1) + 1 = i
            BY <1>1
        <3> QED BY <3>1, <1>4
    <2>2. Contents(new) = [i \in 1 .. e - 1 |-> pq.slots[SlotAfter(pq, i)]]
        BY <1>2, <2>1 DEF Contents
    <2>3. \A i \in 1 .. e - 1 : Contents(pq)[i + 1] = pq.slots[SlotAfter(pq, i)]
        <3>1. \A i \in 1 .. e - 1 : i + 1 \in 1 .. e /\ (i + 1) - 1 = i
            BY <1>1
        <3> QED BY <3>1 DEF Contents
    <2>4. Len(Tail(Contents(pq))) = e - 1 /\ Tail(Contents(pq)) \in Seq(M)
        BY <1>1, <1>7
    <2>5. Contents(new) \in Seq(M) /\ Len(Contents(new)) = e - 1
        BY <1>2, <1>6, ContentsType
    <2>6. \A i \in 1 .. e - 1 : Tail(Contents(pq))[i] = Contents(pq)[i + 1]
        BY <1>1, <1>7
    <2>7. \A i \in 1 .. e - 1 : Contents(new)[i] = Tail(Contents(pq))[i]
        BY <2>2, <2>3, <2>6
    <2> QED BY <2>4, <2>5, <2>7, SeqEqual
<1>10. OldestIn(pq) = Head(Contents(pq))
    BY <1>1, <1>7, <1>8
<1> QED BY <1>6, <1>9, <1>10 DEF new

-----------------------------------------------------------------------------
(***************************************************************************)
(* The blocks of a partition of any size are conserved.                    *)
(***************************************************************************)

MemType ==
    /\ mem \in [free : Addr \cup {0}, nfree : 0 .. MemBlocks, nblks : 0 .. MemBlocks]
    /\ word \in [Addr -> Addr \cup {0}]
    /\ lent \subseteq Blocks
    /\ mem.nfree <= mem.nblks

MemInv == MemType /\ BlocksChained

(* At the start there are no blocks, and a chain of none.                   *)
LEMMA InitChains == MemInit => MemInv
<1> SUFFICES ASSUME MemInit PROVE MemInv
  OBVIOUS
<1> USE MemAssumption DEF MemInit, Addr, Blocks
<1>1. MemType
  BY DEF MemType
<1>2. Chain([i \in 1 .. 1 |-> 0])
  BY DEF Chain
<1>3. BlocksChained
  BY <1>2 DEF BlocksChained, Chain
<1> QED
  BY <1>1, <1>3 DEF MemInv

(* OSMemCreate chains the blocks in the order of their addresses.           *)
LEMMA CreateChains ==
  ASSUME MemInv, NEW n \in Addr, OSMemCreate(n) PROVE MemInv'
<1> USE MemAssumption DEF Addr, Blocks
<1>1. /\ n \in 2 .. MemBlocks /\ n \in Nat
      /\ mem' = [free |-> 1, nfree |-> n, nblks |-> n]
      /\ word' = [b \in Addr |-> IF b < n THEN b + 1 ELSE IF b = n THEN 0 ELSE word[b]]
      /\ lent' = {} /\ word \in [Addr -> Addr \cup {0}]
  BY DEF MemInv, MemType, OSMemCreate
<1>2. MemType'
  BY <1>1 DEF MemType
<1> DEFINE s == [i \in 1 .. n + 1 |-> IF i = n + 1 THEN 0 ELSE i]
<1>3. s \in [1 .. n + 1 -> Addr \cup {0}]
  BY <1>1
<1>4. \A i \in 1 .. n : s[i] = i /\ word'[i] = s[i + 1]
  BY <1>1
<1>5. Chain(s)'
  <2>1. mem'.nfree = n /\ mem'.nblks = n /\ mem'.free = 1 /\ s[1] = 1 /\ s[n + 1] = 0
    BY <1>1
  <2>2. \A i \in 1 .. n : s[i] \in (1 .. n) \ lent' /\ word'[s[i]] = s[i + 1]
    BY <1>1, <1>4
  <2>3. \A i, j \in 1 .. n : s[i] = s[j] => i = j
    BY <1>4
  <2>4. \A b \in (1 .. n) \ lent' : \E i \in 1 .. n : s[i] = b
    BY <1>4
  <2> HIDE DEF s
  <2> QED
    BY <1>3, <2>1, <2>2, <2>3, <2>4 DEF Chain
<1>6. BlocksChained'
  BY <1>1, <1>3, <1>5 DEF BlocksChained
<1> QED
  BY <1>2, <1>6 DEF MemInv

(* OSMemGet takes the first block of the chain away.                        *)
LEMMA GetChains ==
  ASSUME MemInv, OSMemGet PROVE MemInv'
<1> USE MemAssumption DEF Addr, Blocks
<1>0. PICK f \in Nat : f = mem.nfree
  BY DEF MemInv, MemType
<1>1. PICK s \in [1 .. f + 1 -> Addr \cup {0}] : Chain(s)
  BY <1>0 DEF MemInv, BlocksChained
<1>2. /\ f \in Nat /\ f > 0 /\ f <= mem.nblks /\ mem.nblks \in 0 .. MemBlocks
      /\ mem'.free = s[2] /\ mem'.nfree = f - 1 /\ mem'.nblks = mem.nblks
      /\ mem' = [free |-> s[2], nfree |-> f - 1, nblks |-> mem.nblks]
      /\ lent' = lent \cup {s[1]} /\ word' = word
      /\ s[1] \in 1 .. mem.nblks /\ s[1] \notin lent
  <2>1. /\ f > 0 /\ f <= mem.nblks /\ mem.nblks \in 0 .. MemBlocks
        /\ mem \in [free : Addr \cup {0}, nfree : 0 .. MemBlocks, nblks : 0 .. MemBlocks]
    BY <1>0 DEF MemInv, MemType, OSMemGet
  <2>2. s[1] = mem.free /\ s[1] \in (1 .. mem.nblks) \ lent /\ word[s[1]] = s[2]
    BY <1>0, <1>1, <2>1 DEF Chain
  <2>3. mem' = [mem EXCEPT !.free = word[mem.free], !.nfree = @ - 1]
    BY DEF OSMemGet
  <2>4. mem' = [free |-> s[2], nfree |-> f - 1, nblks |-> mem.nblks]
    BY <1>0, <2>1, <2>2, <2>3
  <2> QED
    BY <1>0, <2>1, <2>2, <2>4 DEF OSMemGet
<1>3. MemType'
  <2>1. s[2] \in Addr \cup {0} /\ f - 1 \in 0 .. MemBlocks
    BY <1>1, <1>2
  <2>2. mem' \in [free : Addr \cup {0}, nfree : 0 .. MemBlocks, nblks : 0 .. MemBlocks]
    BY <1>2, <2>1
  <2>3. lent \subseteq 1 .. mem.nblks /\ word \in [Addr -> Addr \cup {0}]
    BY DEF MemInv, MemType
  <2>4. lent' \subseteq 1 .. mem'.nblks /\ word' \in [Addr -> Addr \cup {0}]
    BY <1>2, <2>3
  <2>5. mem'.nfree <= mem'.nblks
    BY <1>2
  <2> QED
    BY <2>2, <2>4, <2>5 DEF MemType
<1> DEFINE t == [i \in 1 .. f |-> s[i + 1]]
<1>4. t \in [1 .. f -> Addr \cup {0}]
  BY <1>1, <1>2
<1>5. Chain(t)'
  <2>1. t \in [1 .. mem'.nfree + 1 -> Addr \cup {0}]
    BY <1>2, <1>4
  <2>2. t[1] = mem'.free /\ t[mem'.nfree + 1] = 0
    BY <1>0, <1>1, <1>2 DEF Chain
  <2>3. \A i \in 1 .. mem'.nfree :
           t[i] \in (1 .. mem'.nblks) \ lent' /\ word'[t[i]] = t[i + 1]
    BY <1>0, <1>1, <1>2, SMTT(30) DEF Chain
  <2>4. ASSUME NEW i \in 1 .. mem'.nfree, NEW j \in 1 .. mem'.nfree, t[i] = t[j] PROVE i = j
    <3>1. i + 1 \in 1 .. f /\ j + 1 \in 1 .. f /\ s[i + 1] = s[j + 1]
      BY <1>2, <2>4
    <3>2. i + 1 = j + 1
      BY <1>0, <1>1, <3>1 DEF Chain
    <3> QED
      BY <1>2, <3>2
  <2>5. ASSUME NEW b \in (1 .. mem'.nblks) \ lent'
        PROVE  \E i \in 1 .. mem'.nfree : t[i] = b
    <3>1. PICK i \in 1 .. f : s[i] = b
      BY <1>0, <1>1, <1>2 DEF Chain
    <3>2. i # 1 /\ i - 1 \in 1 .. f - 1 /\ t[i - 1] = b
      BY <1>2, <3>1
    <3> QED
      BY <1>2, <3>2
  <2> HIDE DEF t
  <2> QED
    BY <2>1, <2>2, <2>3, <2>4, <2>5 DEF Chain
<1>6. BlocksChained'
  BY <1>2, <1>4, <1>5 DEF BlocksChained, Chain
<1> QED
  BY <1>3, <1>6 DEF MemInv

(* OSMemPut puts the block in front of the chain.                           *)
LEMMA PutChains ==
  ASSUME MemInv, NEW p \in lent, OSMemPut(p) PROVE MemInv'
<1> USE MemAssumption DEF Addr, Blocks
<1>0. PICK f \in Nat : f = mem.nfree
  BY DEF MemInv, MemType
<1>1. PICK s \in [1 .. f + 1 -> Addr \cup {0}] : Chain(s)
  BY <1>0 DEF MemInv, BlocksChained
<1>2. /\ f \in Nat /\ f < mem.nblks /\ mem.nblks \in 0 .. MemBlocks
      /\ mem' = [free |-> p, nfree |-> f + 1, nblks |-> mem.nblks]
      /\ lent' = lent \ {p} /\ word' = [word EXCEPT ![p] = s[1]]
      /\ p \in 1 .. mem.nblks /\ p \in Addr /\ word \in [Addr -> Addr \cup {0}]
      /\ lent \subseteq 1 .. mem.nblks
  <2>1. /\ f < mem.nblks /\ mem.nblks \in 0 .. MemBlocks
        /\ mem \in [free : Addr \cup {0}, nfree : 0 .. MemBlocks, nblks : 0 .. MemBlocks]
        /\ p \in 1 .. mem.nblks /\ word \in [Addr -> Addr \cup {0}]
        /\ lent \subseteq 1 .. mem.nblks
    BY <1>0 DEF MemInv, MemType, OSMemPut
  <2>2. s[1] = mem.free
    BY <1>1 DEF Chain
  <2>3. mem' = [mem EXCEPT !.free = p, !.nfree = @ + 1]
    BY DEF OSMemPut
  <2>4. mem' = [free |-> p, nfree |-> f + 1, nblks |-> mem.nblks]
    BY <1>0, <2>1, <2>3
  <2>5. p \in Addr
    BY <2>1
  <2>6. lent' = lent \ {p} /\ word' = [word EXCEPT ![p] = s[1]]
    BY <2>2 DEF OSMemPut
  <2> QED
    BY <2>1, <2>4, <2>5, <2>6
<1>3. MemType'
  BY <1>1, <1>2 DEF MemType
<1> DEFINE t == [i \in 1 .. f + 2 |-> IF i = 1 THEN p ELSE s[i - 1]]
<1>4. t \in [1 .. f + 2 -> Addr \cup {0}]
  BY <1>1, <1>2
<1>5. \A i \in 1 .. f : s[i] \in (1 .. mem.nblks) \ lent /\ s[i] # p /\ word'[s[i]] = s[i + 1]
  BY <1>0, <1>1, <1>2 DEF Chain
<1>6. Chain(t)'
  <2>1. t \in [1 .. mem'.nfree + 1 -> Addr \cup {0}]
    BY <1>2, <1>4
  <2>2. t[1] = mem'.free /\ t[mem'.nfree + 1] = 0
    BY <1>0, <1>1, <1>2 DEF Chain
  <2>3. \A i \in 1 .. mem'.nfree :
           t[i] \in (1 .. mem'.nblks) \ lent' /\ word'[t[i]] = t[i + 1]
    BY <1>1, <1>2, <1>5
  <2>4. ASSUME NEW i \in 1 .. mem'.nfree, NEW j \in 1 .. mem'.nfree, t[i] = t[j] PROVE i = j
    <3>1. CASE i = 1 \/ j = 1
      BY <1>2, <1>5, <2>4, <3>1
    <3>2. CASE i # 1 /\ j # 1
      <4>1. i - 1 \in 1 .. f /\ j - 1 \in 1 .. f /\ s[i - 1] = s[j - 1]
        BY <1>2, <2>4, <3>2
      <4>2. i - 1 = j - 1
        BY <1>0, <1>1, <4>1 DEF Chain
      <4> QED
        BY <1>2, <4>2
    <3> QED
      BY <3>1, <3>2
  <2>5. ASSUME NEW b \in (1 .. mem'.nblks) \ lent'
        PROVE  \E i \in 1 .. mem'.nfree : t[i] = b
    <3>1. CASE b = p
      <4>1. 1 \in 1 .. mem'.nfree /\ t[1] = p
        BY <1>2
      <4> QED
        BY <3>1, <4>1
    <3>2. CASE b # p
      <4>1. PICK i \in 1 .. f : s[i] = b
        BY <1>0, <1>1, <1>2, <3>2 DEF Chain
      <4>2. i + 1 \in 1 .. mem'.nfree /\ t[i + 1] = b
        BY <1>2, <4>1
      <4> QED
        BY <4>2
    <3> QED
      BY <3>1, <3>2
  <2> HIDE DEF t
  <2> QED
    BY <2>1, <2>2, <2>3, <2>4, <2>5 DEF Chain
<1>7. BlocksChained'
  BY <1>2, <1>4, <1>6 DEF BlocksChained, Chain
<1> QED
  BY <1>3, <1>7 DEF MemInv

(* What the application writes into its blocks does not touch the chain.    *)
LEMMA FillChains ==
  ASSUME MemInv, NEW p \in lent, NEW v \in Addr \cup {0}, Fill(p, v) PROVE MemInv'
<1> USE MemAssumption DEF Addr, Blocks
<1>1. PICK s \in [1 .. mem.nfree + 1 -> Addr \cup {0}] : Chain(s)
  BY DEF MemInv, BlocksChained
<1>2. MemType'
  BY DEF MemInv, MemType, Fill
<1>3. \A i \in 1 .. mem.nfree : s[i] \in Addr /\ s[i] # p
  BY <1>1 DEF Chain, MemInv, MemType
<1>4. Chain(s)'
  BY <1>1, <1>3 DEF Chain, Fill, MemInv, MemType
<1>5. BlocksChained'
  BY <1>1, <1>4 DEF BlocksChained, Fill
<1> QED
  BY <1>2, <1>5 DEF MemInv

LEMMA UnchangedChains == MemInv /\ UNCHANGED memVars => MemInv'
<1> SUFFICES ASSUME MemInv, UNCHANGED memVars PROVE MemInv'
  OBVIOUS
<1>1. mem' = mem /\ word' = word /\ lent' = lent
  BY DEF memVars
<1>2. MemType'
  BY <1>1 DEF MemInv, MemType, Blocks
<1>3. \A s : Chain(s) => Chain(s)'
  BY <1>1 DEF Chain, Blocks
<1>4. BlocksChained'
  BY <1>1, <1>3 DEF MemInv, BlocksChained
<1> QED
  BY <1>2, <1>4 DEF MemInv

(* For partitions of any size, whatever is written into the blocks that     *)
(* are lent, the others are chained once each and counted right: OSMemGet   *)
(* never lends a block twice and OSMemPut never loses one.                  *)
THEOREM BlocksStayChained == MemSpec => []BlocksChained
<1>1. MemInit => MemInv
  BY InitChains
<1>2. MemInv /\ [MemNext]_memVars => MemInv'
  <2> SUFFICES ASSUME MemInv, [MemNext]_memVars PROVE MemInv'
    OBVIOUS
  <2>1. CASE UNCHANGED memVars
    BY <2>1, UnchangedChains
  <2>2. CASE MemNext
    BY <2>2, CreateChains, GetChains, PutChains, FillChains DEF MemNext
  <2> QED
    BY <2>1, <2>2
<1>3. MemInv => BlocksChained
  BY DEF MemInv
<1> QED
  BY <1>1, <1>2, <1>3, PTL DEF MemSpec

(***************************************************************************)
(* The blocks of events and queues, in any application.                    *)
(***************************************************************************)

(* A list of priorities has a highest one.                                 *)
LEMMA LeastExists ==
    ASSUME NEW S \in SUBSET Nat, S # {}
    PROVE  Highest(S) \in S /\ \A p \in S : Highest(S) <= p
<1> DEFINE R == {ss \in Nat \X Nat : ss[1] < ss[2]}
<1>1. IsWellFoundedOn(R, Nat)
    BY NatLessThanWellFounded DEF OpToRel
<1>2. \E x \in S : \A y \in S : ~ (<<y, x>> \in R)
    <2> HIDE DEF R
    <2> QED BY <1>1, WFMin
<1>3. PICK x \in S : \A y \in S : ~ (<<y, x>> \in R)
    BY <1>2
<1>4. ASSUME NEW y \in S
      PROVE  x <= y
    <2>1. x \in Nat /\ y \in Nat /\ <<y, x>> \in Nat \X Nat
        OBVIOUS
    <2>2. y < x => <<y, x>> \in R
        BY <2>1
    <2> QED BY <1>3, <2>1, <2>2
<1> QED BY <1>4 DEF Highest, Min

-----------------------------------------------------------------------------
(* Event control blocks and queues, in every application.  A queue that is *)
(* in use belongs to one event, and its ring is one of OsRing's.           *)

EventsWell ==
    /\ DOMAIN event = Events
    /\ \A e \in Events : event[e] = [type |-> event[e].type, cnt |-> event[e].cnt,
                                     ptr |-> event[e].ptr, wait |-> event[e].wait]

RingWell(pq) ==
    /\ queue[pq].size \in Nat \ {0}
    /\ queue[pq] \in Rings(queue[pq].size, Messages \cup {Null})

QueuesWell ==
    /\ OSEventFreeList = {e \in Events : event[e].type = "UNUSED"}
    /\ DOMAIN queue = Queues
    /\ \A pq \in Queues : RingWell(pq)
    /\ OSQFreeList \subseteq Queues
    /\ \A e \in Events : Queue(e) => event[e].ptr \in Queues \ OSQFreeList
    /\ \A d, e \in Events : Queue(d) /\ Queue(e) /\ event[d].ptr = event[e].ptr => d = e
    /\ \A pq \in Queues \ OSQFreeList : \E e \in Events : Queue(e) /\ event[e].ptr = pq

BlocksInv == EventsWell /\ QueuesWell /\ MemInv

(* f: event, but for counts, lists, and pointers to what is no queue.      *)
Kept(f) ==
    /\ DOMAIN f = Events
    /\ \A e \in Events :
          /\ f[e] = [type |-> f[e].type, cnt |-> f[e].cnt, ptr |-> f[e].ptr, wait |-> f[e].wait]
          /\ f[e].type = event[e].type
          /\ Queue(e) => f[e].ptr = event[e].ptr

LEMMA EventKept == EventsWell => Kept(event)
BY DEF EventsWell, Kept

LEMMA KeptBut ==
    ASSUME NEW f, Kept(f), NEW x, NEW v
    PROVE  /\ Kept([f EXCEPT ![x].wait = v])
           /\ Kept([f EXCEPT ![x].cnt = v])
           /\ (x \notin Events \/ ~Queue(x)) => Kept([f EXCEPT ![x].ptr = v])
<1>1. Kept([f EXCEPT ![x].wait = v])
    BY DEF Kept
<1>2. Kept([f EXCEPT ![x].cnt = v])
    BY DEF Kept
<1>3. ASSUME x \notin Events \/ ~Queue(x)
      PROVE  Kept([f EXCEPT ![x].ptr = v])
    BY <1>3 DEF Kept
<1> QED BY <1>1, <1>2, <1>3

LEMMA ListsKept ==
    ASSUME EventsWell
    PROVE  /\ \A e, prios : Kept(EventsAfterRdy(e, prios))
           /\ \A events : Kept(Enlisted(events)) /\ Kept(Removed(events))
           /\ \A t, new : Kept(MovedInLists(t, new))
<1>1. \A e, prios : Kept(EventsAfterRdy(e, prios))
    BY DEF EventsWell, EventsAfterRdy, Kept
<1>2. \A events : Kept(Enlisted(events))
    BY DEF EventsWell, Enlisted, Kept
<1>3. \A events : Kept(Removed(events))
    BY DEF EventsWell, Removed, Kept
<1>4. \A t, new : Kept(MovedInLists(t, new))
    BY DEF EventsWell, MovedInLists, Kept
<1> QED BY <1>1, <1>2, <1>3, <1>4

(* What a step does to one ring, and to the event control blocks.          *)
RingStep(pq) ==
    \/ queue'[pq] \in {queue[pq], Flushed(queue[pq])}
    \/ queue[pq].entries > 0 /\ queue'[pq] = Taken(queue[pq])
    \/ \E m \in Messages : ~Full(queue[pq]) /\ queue'[pq] \in {Put(queue[pq], m), PutFront(queue[pq], m)}

Used ==
    /\ Kept(event')
    /\ UNCHANGED <<OSEventFreeList, OSQFreeList>>
    /\ DOMAIN queue' = Queues
    /\ \A pq \in Queues : RingStep(pq)

Made(e, type, cnt, ptr) ==
    /\ e \in OSEventFreeList /\ OSEventFreeList' = OSEventFreeList \ {e}
    /\ type \in EventTypes \ {"UNUSED"}
    /\ event' = [event EXCEPT ![e] = NewEvent(type, cnt, ptr)]
    /\ IF type = "Q"
         THEN /\ ptr \in OSQFreeList /\ OSQFreeList' = OSQFreeList \ {ptr}
              /\ \E size \in Nat \ {0} : queue' = [queue EXCEPT ![ptr] = NewRing(size, Null)]
         ELSE UNCHANGED queueVars

Gone(e) ==
    /\ e \in Events
    /\ OSEventFreeList' = OSEventFreeList \cup {e}
    /\ \E f : Kept(f) /\ event' = [f EXCEPT ![e] = Unused]
    /\ queue' = queue
    /\ OSQFreeList' = IF Queue(e) THEN OSQFreeList \cup {event[e].ptr} ELSE OSQFreeList

(* What RingIsAQueue says of one event. *)
OneAtAnEnd(e) ==
    LET old == Contents(Of(e))
        new == Contents(Of(e))'
    IN  \/ new \in {old, <<>>}
        \/ old # <<>> /\ new = Tail(old)
        \/ \E m \in Messages : new \in {Append(old, m), <<m>> \o old}

LEMMA RingMoves ==
    ASSUME NEW pq \in Queues, RingWell(pq), RingStep(pq)
    PROVE  /\ RingWell(pq)'
           /\ LET old == Contents(queue[pq])
                  new == Contents(queue'[pq])
              IN  \/ new \in {old, <<>>}
                  \/ old # <<>> /\ new = Tail(old)
                  \/ \E m \in Messages : new \in {Append(old, m), <<m>> \o old}
<1> DEFINE r == queue[pq]
           s == queue'[pq]
           n == r.size
           M == Messages \cup {Null}
<1>1. n \in Nat \ {0} /\ r \in Rings(n, M)
    BY DEF RingWell
<1>2. \A x \in Rings(n, M) : x.size = n
    BY DEF Rings
<1>3. Contents(r) \in Seq(M) /\ Len(Contents(r)) = r.entries
    BY <1>1, ContentsType
<1>4. RingWell(pq)' <=> s.size \in Nat \ {0} /\ s \in Rings(s.size, M)
    BY DEF RingWell
<1>5. \/ s \in {r, Flushed(r)}
      \/ r.entries > 0 /\ s = Taken(r)
      \/ \E m \in Messages : ~Full(r) /\ s \in {Put(r, m), PutFront(r, m)}
    BY DEF RingStep
<1> HIDE DEF r, s, n, M
<1>6. CASE s \in {r, Flushed(r)}
    <2>1. s \in Rings(n, M) /\ Contents(s) \in {Contents(r), <<>>}
        BY <1>1, <1>6, FlushEmpties
    <2> QED BY <1>1, <1>2, <1>4, <2>1 DEF r, s
<1>7. CASE r.entries > 0 /\ s = Taken(r)
    <2>1. s \in Rings(n, M) /\ Contents(s) = Tail(Contents(r))
        BY <1>1, <1>7, TakenIsFirst
    <2>2. Contents(r) # <<>>
        BY <1>3, <1>7
    <2> QED BY <1>1, <1>2, <1>4, <2>1, <2>2 DEF r, s
<1>8. ASSUME NEW m \in Messages, ~Full(r), s \in {Put(r, m), PutFront(r, m)}
      PROVE  s \in Rings(n, M) /\ Contents(s) \in {Append(Contents(r), m), <<m>> \o Contents(r)}
    <2>1. m \in M
        BY DEF M
    <2>2. CASE s = Put(r, m)
        BY <1>1, <1>8, <2>1, <2>2, PutAppends
    <2>3. CASE s = PutFront(r, m)
        BY <1>1, <1>8, <2>1, <2>3, PutFrontPrepends
    <2> QED BY <1>8, <2>2, <2>3
<1>9. CASE \E m \in Messages : ~Full(r) /\ s \in {Put(r, m), PutFront(r, m)}
    <2>1. PICK m \in Messages : ~Full(r) /\ s \in {Put(r, m), PutFront(r, m)}
        BY <1>9
    <2>2. s \in Rings(n, M) /\ Contents(s) \in {Append(Contents(r), m), <<m>> \o Contents(r)}
        BY <1>8, <2>1
    <2> QED BY <1>1, <1>2, <1>4, <2>2 DEF r, s
<1> QED BY <1>5, <1>6, <1>7, <1>9

LEMMA UsedWell ==
    ASSUME EventsWell, QueuesWell, Used
    PROVE  /\ EventsWell' /\ QueuesWell'
           /\ \A e \in Events : Queue(e) /\ Queue(e)' => OneAtAnEnd(e)
<1>1. /\ EventsWell'
      /\ \A e \in Events : Queue(e)' <=> Queue(e)
      /\ \A e \in Events : Queue(e) => event'[e].ptr = event[e].ptr
    BY DEF Used, Kept, EventsWell, Queue
<1>2. \A pq \in Queues : RingWell(pq)'
    BY RingMoves DEF Used, QueuesWell
<1>3. OSEventFreeList' = {e \in Events : event'[e].type = "UNUSED"}
    BY DEF Used, Kept, QueuesWell
<1>4. QueuesWell'
    BY <1>1, <1>2, <1>3 DEF Used, QueuesWell
<1>5. ASSUME NEW e \in Events, Queue(e)
      PROVE  OneAtAnEnd(e)
    <2>1. event[e].ptr \in Queues /\ event'[e].ptr = event[e].ptr
        BY <1>1, <1>5 DEF QueuesWell
    <2>2. Of(e) = queue[event[e].ptr] /\ Of(e)' = queue'[event[e].ptr]
        BY <2>1 DEF Of
    <2>3. Contents(Of(e))' = Contents(queue'[event[e].ptr])
        BY <2>2 DEF Contents, SlotAfter
    <2>4. RingWell(event[e].ptr) /\ RingStep(event[e].ptr)
        BY <2>1 DEF Used, QueuesWell
    <2> QED BY <2>1, <2>2, <2>3, <2>4, RingMoves DEF OneAtAnEnd
<1> QED BY <1>1, <1>4, <1>5

LEMMA MadeWell ==
    ASSUME EventsWell, QueuesWell, NEW e, NEW type, NEW cnt, NEW ptr, Made(e, type, cnt, ptr)
    PROVE  /\ EventsWell' /\ QueuesWell'
           /\ \A x \in Events : Queue(x) /\ Queue(x)' => OneAtAnEnd(x)
<1>1. /\ e \in Events /\ ~Queue(e) /\ type # "UNUSED"
      /\ event' = [event EXCEPT ![e] = [type |-> type, cnt |-> cnt, ptr |-> ptr, wait |-> {}]]
    BY DEF Made, QueuesWell, Queue, NewEvent
<1>2. /\ \A x \in Events \ {e} : event'[x] = event[x]
      /\ event'[e] = [type |-> type, cnt |-> cnt, ptr |-> ptr, wait |-> {}]
      /\ DOMAIN event' = Events
    BY <1>1 DEF EventsWell
<1>3. EventsWell'
    BY <1>1, <1>2 DEF EventsWell
<1>4. OSEventFreeList' = {x \in Events : event'[x].type = "UNUSED"}
    BY <1>1, <1>2 DEF Made, QueuesWell
<1>5. \A x \in Events \ {e} : (Queue(x)' <=> Queue(x)) /\ event'[x].ptr = event[x].ptr
    BY <1>2 DEF Queue
<1>6. \A x \in Events : Queue(x) => x # e /\ event[x].ptr \in Queues /\ event[x].ptr \notin OSQFreeList
    BY <1>1 DEF QueuesWell
<1>7. CASE type # "Q"
    <2>1. queue' = queue /\ OSQFreeList' = OSQFreeList /\ ~Queue(e)'
        BY <1>2, <1>7 DEF Made, queueVars, Queue
    <2>2. \A pq \in Queues : RingWell(pq)'
        BY <2>1 DEF QueuesWell, RingWell
    <2>3. QueuesWell'
        BY <1>1, <1>4, <1>5, <2>1, <2>2 DEF QueuesWell
    <2>4. ASSUME NEW x \in Events, Queue(x)
          PROVE  Contents(Of(x))' = Contents(Of(x))
        <3>1. Of(x)' = Of(x)
            BY <1>5, <1>6, <2>1, <2>4 DEF Of
        <3> QED BY <3>1 DEF Contents, SlotAfter
    <2> QED BY <1>3, <2>3, <2>4 DEF OneAtAnEnd
<1>8. CASE type = "Q"
    <2>1. PICK size \in Nat \ {0} :
              /\ ptr \in OSQFreeList /\ OSQFreeList' = OSQFreeList \ {ptr}
              /\ queue' = [queue EXCEPT ![ptr] = NewRing(size, Null)]
        BY <1>8 DEF Made
    <2>2. ptr \in Queues /\ DOMAIN queue = Queues /\ DOMAIN queue' = Queues
          /\ queue'[ptr] = NewRing(size, Null) /\ \A pq \in Queues \ {ptr} : queue'[pq] = queue[pq]
        BY <2>1 DEF QueuesWell
    <2>3. NewRing(size, Null) \in Rings(size, Messages \cup {Null}) /\ NewRing(size, Null).size = size
        BY NewRingIsEmpty DEF NewRing
    <2>4. \A pq \in Queues : RingWell(pq)'
        BY <2>1, <2>2, <2>3 DEF QueuesWell, RingWell
    <2>5. event'[e].ptr = ptr /\ Queue(e)'
        BY <1>2, <1>8 DEF Queue
    <2>6. \A x \in Events : Queue(x) => event[x].ptr # ptr
        BY <1>6, <2>1
    <2>7. QueuesWell'
        <3>1. OSQFreeList' \subseteq Queues /\ \A x \in Events : Queue(x)' => event'[x].ptr \in Queues \ OSQFreeList'
            BY <1>5, <1>6, <2>1, <2>2, <2>5 DEF QueuesWell
        <3>2. \A d, x \in Events : Queue(d)' /\ Queue(x)' /\ event'[d].ptr = event'[x].ptr => d = x
            BY <1>5, <2>5, <2>6 DEF QueuesWell
        <3>3. ASSUME NEW pq \in Queues \ OSQFreeList'
              PROVE  \E x \in Events : Queue(x)' /\ event'[x].ptr = pq
            <4>1. CASE pq = ptr
                BY <1>1, <2>5, <4>1
            <4>2. CASE pq # ptr
                <5>1. PICK x \in Events : Queue(x) /\ event[x].ptr = pq
                    BY <2>1, <4>2 DEF QueuesWell
                <5> QED BY <1>5, <1>6, <5>1
            <4> QED BY <4>1, <4>2
        <3> QED BY <1>4, <2>2, <2>4, <3>1, <3>2, <3>3 DEF QueuesWell
    <2>8. ASSUME NEW x \in Events, Queue(x)
          PROVE  Contents(Of(x))' = Contents(Of(x))
        <3>1. Of(x)' = Of(x)
            BY <1>5, <1>6, <2>2, <2>6, <2>8 DEF Of
        <3> QED BY <3>1 DEF Contents, SlotAfter
    <2> QED BY <1>3, <2>7, <2>8 DEF OneAtAnEnd
<1> QED BY <1>7, <1>8

LEMMA GoneWell ==
    ASSUME EventsWell, QueuesWell, NEW e, Gone(e)
    PROVE  /\ EventsWell' /\ QueuesWell'
           /\ \A x \in Events : Queue(x) /\ Queue(x)' => OneAtAnEnd(x)
<1>1. PICK f : Kept(f) /\ event' = [f EXCEPT ![e] = [type |-> "UNUSED", cnt |-> 0, ptr |-> Null, wait |-> {}]]
    BY DEF Gone, Unused, NewEvent
<1>2. e \in Events
    BY DEF Gone
<1>3. /\ DOMAIN event' = Events
      /\ \A x \in Events \ {e} : event'[x] = f[x]
      /\ event'[e] = [type |-> "UNUSED", cnt |-> 0, ptr |-> Null, wait |-> {}]
    BY <1>1, <1>2 DEF Kept
<1>4. EventsWell'
    BY <1>1, <1>2, <1>3 DEF Kept, EventsWell
<1>5. /\ \A x \in Events \ {e} : (Queue(x)' <=> Queue(x)) /\ event'[x].type = event[x].type
      /\ \A x \in Events \ {e} : Queue(x) => event'[x].ptr = event[x].ptr
      /\ ~Queue(e)' /\ event'[e].type = "UNUSED"
    BY <1>1, <1>3 DEF Queue, Kept
<1>6. OSEventFreeList' = {x \in Events : event'[x].type = "UNUSED"}
    <2>1. OSEventFreeList' = {x \in Events : event[x].type = "UNUSED"} \cup {e}
        BY DEF Gone, QueuesWell
    <2> QED BY <1>2, <1>5, <2>1
<1>7. queue' = queue /\ OSQFreeList' = IF Queue(e) THEN OSQFreeList \cup {event[e].ptr} ELSE OSQFreeList
    BY DEF Gone
<1>8. \A pq \in Queues : RingWell(pq)'
    BY <1>7 DEF RingWell, QueuesWell
<1>9. QueuesWell'
    <2>1. OSQFreeList' \subseteq Queues
        BY <1>2, <1>7 DEF QueuesWell
    <2>2. \A x \in Events : Queue(x)' => event'[x].ptr \in Queues \ OSQFreeList'
        BY <1>2, <1>5, <1>7 DEF QueuesWell
    <2>3. \A d, x \in Events : Queue(d)' /\ Queue(x)' /\ event'[d].ptr = event'[x].ptr => d = x
        BY <1>5 DEF QueuesWell
    <2>4. ASSUME NEW pq \in Queues \ OSQFreeList'
          PROVE  \E x \in Events : Queue(x)' /\ event'[x].ptr = pq
        <3>1. PICK x \in Events : Queue(x) /\ event[x].ptr = pq
            BY <1>7 DEF QueuesWell
        <3>2. x # e
            BY <1>7, <3>1
        <3> QED BY <1>5, <3>1, <3>2
    <2> QED BY <1>6, <1>7, <1>8, <2>1, <2>2, <2>3, <2>4 DEF QueuesWell
<1>10. ASSUME NEW x \in Events, Queue(x), Queue(x)'
       PROVE  Contents(Of(x))' = Contents(Of(x))
    <2>1. Of(x)' = Of(x)
        BY <1>5, <1>7, <1>10 DEF Of
    <2> QED BY <2>1 DEF Contents, SlotAfter
<1> QED BY <1>4, <1>9, <1>10 DEF OneAtAnEnd

BlockStep == Used \/ (\E e, type, cnt, ptr : Made(e, type, cnt, ptr)) \/ (\E e : Gone(e))

LEMMA QuietUsed ==
    ASSUME EventsWell, QueuesWell, Kept(event'), UNCHANGED OSEventFreeList, UNCHANGED queueVars
    PROVE  BlockStep
BY DEF Used, QueuesWell, queueVars, RingStep, BlockStep

(* The tasks in an event's list are made ready, or the event is deleted.   *)
LEMMA RdyUsed ==
    ASSUME EventsWell, QueuesWell, UNCHANGED OSEventFreeList, UNCHANGED queueVars,
           NEW e, NEW prios, event' = EventsAfterRdy(e, prios)
    PROVE  BlockStep
BY ListsKept, QuietUsed

LEMMA PendAbortUsed ==
    ASSUME EventsWell, QueuesWell, UNCHANGED queueVars, NEW bit, NEW e, NEW broadcast,
           PendAbort(bit, e, broadcast)
    PROVE  BlockStep
BY RdyUsed DEF PendAbort, restVars

LEMMA DeleteEventGone ==
    ASSUME EventsWell, QueuesWell, NEW e \in Events, NEW bit, NEW always, DeleteEvent(bit, e, always),
           UNCHANGED queue, OSQFreeList' = IF Queue(e) THEN OSQFreeList \cup {event[e].ptr} ELSE OSQFreeList
    PROVE  BlockStep
<1>1. Kept(EventsAfterRdy(e, Waiters(e)))
    BY ListsKept
<1>2. Gone(e)
    BY <1>1 DEF DeleteEvent, Gone
<1> QED BY <1>2 DEF BlockStep

LEMMA CreateEventMade ==
    ASSUME EventsWell, QueuesWell, NEW e, NEW type, NEW cnt, NEW ptr,
           CreateEvent(e, NewEvent(type, cnt, ptr)), type \in {"SEM", "MBOX"}, UNCHANGED queueVars
    PROVE  BlockStep
<1>1. Made(e, type, cnt, ptr)
    BY DEF CreateEvent, Made, EventTypes
<1> QED BY <1>1 DEF BlockStep

LEMMA ReturnUsed ==
    ASSUME EventsWell, QueuesWell, UNCHANGED queueVars, NEW op, NEW keeps, ReturnFromPend(op, keeps)
    PROVE  BlockStep
<1>1. Kept(event')
    BY ListsKept, EventKept DEF ReturnFromPend
<1> QED BY <1>1, QuietUsed DEF ReturnFromPend, restVars

LEMMA WaitUsed ==
    ASSUME EventsWell, QueuesWell, UNCHANGED queueVars, UNCHANGED OSEventFreeList,
           NEW events, event' = Enlisted(events)
    PROVE  BlockStep
BY ListsKept, QuietUsed

LEMMA SemBlocks ==
    ASSUME EventsWell, QueuesWell, SemCalls PROVE BlockStep
<1> USE DEF restVars
<1>1. UNCHANGED queueVars
    BY DEF SemCalls
<1>2. PICK e \in Events :
          \/ OSSemAccept(e) \/ (\E timeout : OSSemPend(e, timeout)) \/ OSSemPost(e)
          \/ (\E broadcast : OSSemPendAbort(e, broadcast)) \/ (\E cnt : OSSemSet(e, cnt))
          \/ OSSemCreate(e, 0) \/ (\E always : OSSemDel(e, always))
    BY DEF SemCalls
<1>3. \A v : Kept([event EXCEPT ![e].cnt = v])
    BY EventKept, KeptBut
<1>4. CASE OSSemAccept(e)
    BY <1>1, <1>3, <1>4, QuietUsed DEF OSSemAccept
<1>5. ASSUME NEW timeout, OSSemPend(e, timeout) PROVE BlockStep
    BY <1>1, <1>3, <1>5, QuietUsed, WaitUsed DEF OSSemPend, OS_EventTaskWait
<1>6. CASE OSSemPost(e)
    BY <1>1, <1>3, <1>6, QuietUsed, RdyUsed DEF OSSemPost
<1>7. ASSUME NEW broadcast, OSSemPendAbort(e, broadcast) PROVE BlockStep
    BY <1>1, <1>7, PendAbortUsed DEF OSSemPendAbort
<1>8. ASSUME NEW cnt, OSSemSet(e, cnt) PROVE BlockStep
    BY <1>1, <1>3, <1>8, QuietUsed DEF OSSemSet
<1>9. CASE OSSemCreate(e, 0)
    BY <1>1, <1>9, CreateEventMade DEF OSSemCreate
<1>10. ASSUME NEW always, OSSemDel(e, always) PROVE BlockStep
    BY <1>1, <1>10, DeleteEventGone DEF OSSemDel, Sem, Queue, queueVars
<1> QED BY <1>2, <1>4, <1>5, <1>6, <1>7, <1>8, <1>9, <1>10

LEMMA MboxBlocks ==
    ASSUME EventsWell, QueuesWell, MboxCalls PROVE BlockStep
<1> USE DEF restVars
<1>1. UNCHANGED queueVars
    BY DEF MboxCalls
<1>2. PICK e \in Events :
          \/ OSMboxAccept(e) \/ (\E timeout : OSMboxPend(e, timeout))
          \/ (\E m, broadcast, sched : OSMboxPostOpt(e, m, broadcast, sched))
          \/ (\E broadcast : OSMboxPendAbort(e, broadcast))
          \/ OSMboxCreate(e, Null) \/ (\E always : OSMboxDel(e, always))
    BY DEF MboxCalls, OSMboxPost
<1>3. Mbox(e) => \A v : Kept([event EXCEPT ![e].ptr = v])
    BY EventKept, KeptBut DEF Mbox, Queue
<1>4. CASE OSMboxAccept(e)
    BY <1>1, <1>3, <1>4, QuietUsed DEF OSMboxAccept
<1>5. ASSUME NEW timeout, OSMboxPend(e, timeout) PROVE BlockStep
    BY <1>1, <1>3, <1>5, QuietUsed, WaitUsed DEF OSMboxPend, OS_EventTaskWait
<1>6. ASSUME NEW m, NEW broadcast, NEW sched, OSMboxPostOpt(e, m, broadcast, sched) PROVE BlockStep
    BY <1>1, <1>3, <1>6, QuietUsed, RdyUsed DEF OSMboxPostOpt
<1>7. ASSUME NEW broadcast, OSMboxPendAbort(e, broadcast) PROVE BlockStep
    BY <1>1, <1>7, PendAbortUsed DEF OSMboxPendAbort
<1>9. CASE OSMboxCreate(e, Null)
    BY <1>1, <1>9, CreateEventMade DEF OSMboxCreate
<1>10. ASSUME NEW always, OSMboxDel(e, always) PROVE BlockStep
    BY <1>1, <1>10, DeleteEventGone DEF OSMboxDel, Mbox, Queue, queueVars
<1> QED BY <1>2, <1>4, <1>5, <1>6, <1>7, <1>9, <1>10

(* One ring moves. *)
LEMMA RingUsed ==
    ASSUME EventsWell, QueuesWell, NEW pq \in Queues, NEW v, queue' = [queue EXCEPT ![pq] = v],
           \/ v = Flushed(queue[pq])
           \/ queue[pq].entries > 0 /\ v = Taken(queue[pq])
           \/ \E m \in Messages : ~Full(queue[pq]) /\ v \in {Put(queue[pq], m), PutFront(queue[pq], m)},
           UNCHANGED <<event, OSEventFreeList, OSQFreeList>>
    PROVE  BlockStep
<1>1. DOMAIN queue' = Queues /\ queue'[pq] = v /\ \A x \in Queues \ {pq} : queue'[x] = queue[x]
    BY DEF QueuesWell
<1>2. \A x \in Queues : RingStep(x)
    BY <1>1 DEF RingStep
<1>3. Kept(event')
    BY EventKept
<1> QED BY <1>1, <1>2, <1>3 DEF Used, BlockStep

LEMMA QBlocks ==
    ASSUME EventsWell, QueuesWell, QCalls PROVE BlockStep
<1> USE DEF restVars
<1>2. PICK e \in Events :
          \/ OSQAccept(e) \/ (\E timeout : OSQPend(e, timeout))
          \/ (\E m \in Messages : \E broadcast, front, sched : OSQPostOpt(e, m, broadcast, front, sched))
          \/ OSQFlush(e) \/ (\E broadcast : OSQPendAbort(e, broadcast))
          \/ OSQCreate(e, 2) \/ (\E always : OSQDel(e, always))
    BY DEF QCalls, OSQPost, OSQPostFront
<1>3. Queue(e) => event[e].ptr \in Queues
    BY DEF QueuesWell
<1>4. CASE OSQAccept(e)
    BY <1>3, <1>4, RingUsed DEF OSQAccept, Of
<1>5. ASSUME NEW timeout, OSQPend(e, timeout) PROVE BlockStep
    <2>1. CASE Of(e).entries > 0
        BY <1>3, <1>5, <2>1, RingUsed DEF OSQPend, Of
    <2>2. CASE ~(Of(e).entries > 0)
        BY <1>5, <2>2, WaitUsed DEF OSQPend, OS_EventTaskWait, queueVars
    <2> QED BY <2>1, <2>2
<1>6. ASSUME NEW m \in Messages, NEW broadcast, NEW front, NEW sched,
             OSQPostOpt(e, m, broadcast, front, sched)
      PROVE  BlockStep
    <2>1. CASE Waiters(e) # {}
        BY <1>6, <2>1, RdyUsed DEF OSQPostOpt, queueVars
    <2>2. CASE Waiters(e) = {}
        <3> DEFINE pq == event[e].ptr
                   v == IF front THEN PutFront(queue[pq], m) ELSE Put(queue[pq], m)
        <3>1. /\ pq \in Queues /\ ~Full(queue[pq]) /\ queue' = [queue EXCEPT ![pq] = v]
              /\ UNCHANGED <<event, OSEventFreeList, OSQFreeList>>
            BY <1>3, <1>6, <2>2 DEF OSQPostOpt, Of
        <3>2. v \in {Put(queue[pq], m), PutFront(queue[pq], m)}
            OBVIOUS
        <3> HIDE DEF pq, v
        <3> QED BY <3>1, <3>2, RingUsed
    <2> QED BY <2>1, <2>2
<1>7. CASE OSQFlush(e)
    BY <1>3, <1>7, RingUsed DEF OSQFlush
<1>8. ASSUME NEW broadcast, OSQPendAbort(e, broadcast) PROVE BlockStep
    BY <1>8, PendAbortUsed DEF OSQPendAbort
<1>9. CASE OSQCreate(e, 2)
    <2>1. PICK pq \in OSQFreeList : /\ CreateEvent(e, NewEvent("Q", 0, pq))
                                    /\ queue' = [queue EXCEPT ![pq] = NewRing(2, Null)]
                                    /\ OSQFreeList' = OSQFreeList \ {pq}
        BY <1>9 DEF OSQCreate
    <2>2. \E size \in Nat \ {0} : queue' = [queue EXCEPT ![pq] = NewRing(size, Null)]
        <3>1. 2 \in Nat \ {0}
            OBVIOUS
        <3> QED BY <2>1, <3>1
    <2>3. e \in OSEventFreeList /\ OSEventFreeList' = OSEventFreeList \ {e}
          /\ event' = [event EXCEPT ![e] = NewEvent("Q", 0, pq)]
        BY <2>1 DEF CreateEvent
    <2>4. Made(e, "Q", 0, pq)
        BY <2>1, <2>2, <2>3 DEF Made, EventTypes
    <2> QED BY <2>4 DEF BlockStep
<1>10. ASSUME NEW always, OSQDel(e, always) PROVE BlockStep
    BY <1>10, DeleteEventGone DEF OSQDel, QueuesFreed
<1> QED BY <1>2, <1>4, <1>5, <1>6, <1>7, <1>8, <1>9, <1>10

LEMMA MultiBlocks ==
    ASSUME EventsWell, QueuesWell, MultiCalls PROVE BlockStep
<1>1. PICK timeout : OSEventPendMulti(Events, timeout)
    BY DEF MultiCalls
<1>2. UNCHANGED <<OSEventFreeList, OSQFreeList>>
    BY <1>1 DEF OSEventPendMulti, restVars
<1>3. CASE ~ \E e \in Events : Available(e)
    BY <1>1, <1>2, <1>3, WaitUsed DEF OSEventPendMulti, OS_EventTaskWaitMulti, queueVars
<1>4. CASE \E e \in Events : Available(e)
    <2>1. TakenFrom(Events)
        BY <1>1, <1>4 DEF OSEventPendMulti
    <2>2. Kept(event')
        BY <2>1 DEF TakenFrom, EventsWell, Kept, Sem, Mbox, Queue
    <2>3. ASSUME NEW pq \in Queues
          PROVE  RingStep(pq)
        <3>1. queue'[pq] = IF \E e \in Events : Queue(e) /\ event[e].ptr = pq /\ Available(e)
                             THEN Taken(queue[pq]) ELSE queue[pq]
            BY <2>1 DEF TakenFrom
        <3>2. \A e \in Events : Queue(e) /\ event[e].ptr = pq /\ Available(e) => queue[pq].entries > 0
            BY DEF Available, Sem, Mbox, Queue, Of
        <3> QED BY <3>1, <3>2 DEF RingStep
    <2>4. DOMAIN queue' = Queues
        BY <2>1 DEF TakenFrom
    <2> QED BY <1>2, <2>2, <2>3, <2>4 DEF Used, BlockStep
<1> QED BY <1>3, <1>4

LEMMA MutexBlocks ==
    ASSUME EventsWell, QueuesWell, MutexCalls PROVE BlockStep
<1> USE DEF restVars
<1>1. PICK e \in Events :
          \/ OSMutexAccept(e) \/ (\E timeout : OSMutexPend(e, timeout)) \/ OSMutexPost(e)
          \/ (\E prio : OSMutexCreate(e, prio)) \/ (\E always : OSMutexDel(e, always))
    BY DEF MutexCalls
<1>2. ASSUME NEW f, Kept(f), Mutex(e), NEW v, NEW w
      PROVE  Kept([f EXCEPT ![e].cnt = v, ![e].ptr = w])
    <2>1. Kept([[f EXCEPT ![e].cnt = v] EXCEPT ![e].ptr = w])
        BY <1>2, KeptBut DEF Mutex, Queue
    <2>2. [f EXCEPT ![e].cnt = v, ![e].ptr = w] = [[f EXCEPT ![e].cnt = v] EXCEPT ![e].ptr = w]
        OBVIOUS
    <2> QED BY <2>1, <2>2
<1>3. ASSUME Mutex(e), TakeMutex(e) PROVE BlockStep
    <2>1. Kept(event')
        BY <1>2, <1>3, EventKept DEF TakeMutex
    <2> QED BY <1>3, <2>1, QuietUsed DEF TakeMutex
<1>4. CASE OSMutexAccept(e)
    BY <1>3, <1>4 DEF OSMutexAccept
<1>5. ASSUME NEW timeout, OSMutexPend(e, timeout) PROVE BlockStep
    <2>1. CASE TakeMutex(e)
        BY <1>3, <1>5, <2>1 DEF OSMutexPend
    <2>2. CASE ~TakeMutex(e)
        <3>1. UNCHANGED OSEventFreeList /\ UNCHANGED queueVars
            BY <1>5, <2>2 DEF OSMutexPend, queueVars
        <3>2. event' \in {ListedAtPip(event[e].ptr, Pip(e), Enlisted({e})), Enlisted({e})}
            BY <1>5, <2>2 DEF OSMutexPend, OS_EventTaskWait
        <3>3. Kept(ListedAtPip(event[e].ptr, Pip(e), Enlisted({e}))) /\ Kept(Enlisted({e}))
            <4> DEFINE f == Enlisted({e})
            <4>1. Kept(f)
                BY ListsKept
            <4> HIDE DEF f
            <4>2. \A x, v : Kept([f EXCEPT ![x].wait = v])
                BY <4>1, KeptBut
            <4>3. \A t, p : Kept(ListedAtPip(t, p, f))
                BY <4>1, <4>2 DEF ListedAtPip
            <4> QED BY <4>1, <4>3 DEF f
        <3>4. Kept(event')
            BY <3>2, <3>3
        <3> QED BY <3>1, <3>4, QuietUsed
    <2> QED BY <2>1, <2>2
<1>6. CASE OSMutexPost(e)
    <2>1. UNCHANGED OSEventFreeList /\ UNCHANGED queueVars /\ Mutex(e)
        BY <1>6 DEF OSMutexPost, queueVars
    <2>2. \E f, v, w : Kept(f) /\ event' = [f EXCEPT ![e].cnt = v, ![e].ptr = w]
        <3>1. CASE Waiters(e) # {}
            BY <1>6, <3>1, ListsKept DEF OSMutexPost
        <3>2. CASE Waiters(e) = {}
            BY <1>6, <3>2, EventKept DEF OSMutexPost
        <3> QED BY <3>1, <3>2
    <2>3. Kept(event')
        <3>1. PICK f, v, w : Kept(f) /\ event' = [f EXCEPT ![e].cnt = v, ![e].ptr = w]
            BY <2>2
        <3>2. Kept([f EXCEPT ![e].cnt = v, ![e].ptr = w])
            BY <1>2, <2>1, <3>1
        <3> QED BY <3>1, <3>2
    <2> QED BY <2>1, <2>3, QuietUsed
<1>7. ASSUME NEW prio, OSMutexCreate(e, prio) PROVE BlockStep
    <2>1. Made(e, "MUTEX", 256 * prio + OS_MUTEX_AVAILABLE, Null)
        BY <1>7 DEF OSMutexCreate, Made, EventTypes
    <2> QED BY <2>1 DEF BlockStep
<1>8. ASSUME NEW always, OSMutexDel(e, always) PROVE BlockStep
    <2>1. /\ Mutex(e) /\ UNCHANGED queueVars /\ OSEventFreeList' = OSEventFreeList \cup {e}
          /\ event' = [EventsAfterRdy(e, Waiters(e)) EXCEPT ![e] = Unused]
        BY <1>8 DEF OSMutexDel
    <2>2. Gone(e)
        BY <2>1, ListsKept DEF Gone, Mutex, Queue, queueVars
    <2> QED BY <2>2 DEF BlockStep
<1> QED BY <1>1, <1>4, <1>5, <1>6, <1>7, <1>8

LEMMA FlagBlocks ==
    ASSUME EventsWell, QueuesWell, FlagCalls PROVE BlockStep
<1>1. UNCHANGED queueVars
    BY DEF FlagCalls
<1>2. UNCHANGED <<event, OSEventFreeList>>
    <2>1. PICK g, want :
              \/ \E type, consume : OSFlagAccept(g, want, type, consume)
              \/ \E type, consume, timeout : OSFlagPend(g, want, type, consume, timeout)
              \/ \E set : OSFlagPost(g, want, set)
              \/ OSFlagCreate(g, want)
              \/ \E always : OSFlagDel(g, always)
        BY DEF FlagCalls
    <2>2. ASSUME NEW type, NEW consume, OSFlagAccept(g, want, type, consume)
          PROVE  UNCHANGED <<event, OSEventFreeList>>
        BY <2>2 DEF OSFlagAccept, restVars
    <2>3. ASSUME NEW type, NEW consume, NEW timeout, OSFlagPend(g, want, type, consume, timeout)
          PROVE  UNCHANGED <<event, OSEventFreeList>>
        BY <2>3 DEF OSFlagPend, restVars
    <2>4. ASSUME NEW set, OSFlagPost(g, want, set)
          PROVE  UNCHANGED <<event, OSEventFreeList>>
        BY <2>4 DEF OSFlagPost, restVars
    <2>5. ASSUME NEW always, OSFlagCreate(g, want) \/ OSFlagDel(g, always)
          PROVE  UNCHANGED <<event, OSEventFreeList>>
        BY <2>5 DEF OSFlagCreate, OSFlagDel, restVars
    <2> QED BY <2>1, <2>2, <2>3, <2>4, <2>5
<1> QED BY <1>1, <1>2, EventKept, QuietUsed

LEMMA TaskBlocks ==
    ASSUME EventsWell, QueuesWell, TaskCalls PROVE BlockStep
<1> USE DEF restVars, Others
<1>1. UNCHANGED queueVars
    BY DEF TaskCalls
<1>2. \/ \E t : \/ \E prio : OSTaskChangePrio(t, prio)
                \/ OSTaskSuspend(t) \/ OSTaskResume(t) \/ OSTimeDlyResume(t) \/ OSTaskDelReq(t)
                \/ OSTaskDel(t)
      \/ \E prio : OSTaskCreate(prio)
      \/ OS_TCBInit \/ TaskDelEnd
      \/ \E ticks : OSTimeDly(ticks)
    BY DEF TaskCalls
<1>3. UNCHANGED OSEventFreeList
    <2>1. ASSUME NEW t, NEW prio, OSTaskChangePrio(t, prio) PROVE UNCHANGED OSEventFreeList
        BY <2>1 DEF OSTaskChangePrio
    <2>2. ASSUME NEW t,
                 OSTaskSuspend(t) \/ OSTaskResume(t) \/ OSTimeDlyResume(t) \/ OSTaskDelReq(t)
          PROVE  UNCHANGED OSEventFreeList
        BY <2>2 DEF OSTaskSuspend, OSTaskResume, OSTimeDlyResume, OSTaskDelReq
    <2>3. ASSUME NEW t, OSTaskDel(t) PROVE UNCHANGED OSEventFreeList
        BY <2>3 DEF OSTaskDel
    <2>4. ASSUME NEW prio, OSTaskCreate(prio) PROVE UNCHANGED OSEventFreeList
        BY <2>4 DEF OSTaskCreate
    <2>5. ASSUME OS_TCBInit \/ TaskDelEnd PROVE UNCHANGED OSEventFreeList
        BY <2>5 DEF OS_TCBInit, TaskDelEnd
    <2>6. ASSUME NEW ticks, OSTimeDly(ticks) PROVE UNCHANGED OSEventFreeList
        BY <2>6 DEF OSTimeDly
    <2> QED BY <1>2, <2>1, <2>2, <2>3, <2>4, <2>5, <2>6
<1>4. Kept(event')
    <2>1. ASSUME NEW t, NEW prio, OSTaskChangePrio(t, prio) PROVE Kept(event')
        BY <2>1, ListsKept DEF OSTaskChangePrio
    <2>2. ASSUME NEW t,
                 OSTaskSuspend(t) \/ OSTaskResume(t) \/ OSTimeDlyResume(t) \/ OSTaskDelReq(t)
          PROVE  Kept(event')
        BY <2>2, EventKept DEF OSTaskSuspend, OSTaskResume, OSTimeDlyResume, OSTaskDelReq
    <2>3. ASSUME NEW t, OSTaskDel(t) PROVE Kept(event')
        <3>1. event' = [e \in Events |->
                   IF e = tcb[t].ev \/ e \in tcb[t].multi
                     THEN [event[e] EXCEPT !.wait = @ \ {tcb[t].prio}] ELSE event[e]]
            BY <2>3 DEF OSTaskDel
        <3>2. ASSUME NEW e \in Events
              PROVE  \/ event'[e] = event[e]
                     \/ event'[e] = [event[e] EXCEPT !.wait = @ \ {tcb[t].prio}]
            BY <3>1
        <3>3. DOMAIN event' = Events
            BY <3>1
        <3> QED BY <3>2, <3>3 DEF EventsWell, Kept
    <2>4. ASSUME NEW prio, OSTaskCreate(prio) PROVE Kept(event')
        BY <2>4, EventKept DEF OSTaskCreate
    <2>5. ASSUME OS_TCBInit \/ TaskDelEnd PROVE Kept(event')
        BY <2>5, EventKept DEF OS_TCBInit, TaskDelEnd
    <2>6. ASSUME NEW ticks, OSTimeDly(ticks) PROVE Kept(event')
        BY <2>6, EventKept DEF OSTimeDly
    <2> QED BY <1>2, <2>1, <2>2, <2>3, <2>4, <2>5, <2>6
<1> QED BY <1>1, <1>3, <1>4, QuietUsed

LEMMA ReturnBlocks ==
    ASSUME EventsWell, QueuesWell, Returns PROVE BlockStep
<1>1. ASSUME NEW op, NEW keeps, ReturnFromPend(op, keeps), UNCHANGED queueVars
      PROVE  BlockStep
    BY <1>1, ReturnUsed
<1>2. CASE MultiReturn
    <2>1. Kept(event')
        BY <1>2, ListsKept, EventKept DEF MultiReturn
    <2>2. UNCHANGED OSEventFreeList /\ UNCHANGED queueVars
        BY <1>2 DEF MultiReturn, restVars
    <2> QED BY <2>1, <2>2, QuietUsed
<1>3. CASE FlagReturn /\ UNCHANGED queueVars
    <2>1. UNCHANGED <<event, OSEventFreeList>>
        BY <1>3 DEF FlagReturn, restVars
    <2> QED BY <1>3, <2>1, EventKept, QuietUsed
<1> QED BY <1>1, <1>2, <1>3 DEF Returns, SemReturn, MboxReturn, QReturn, MutexReturn

(* The steps that touch no event. *)
LEMMA SchedulerBlocks ==
    ASSUME EventsWell, QueuesWell, Sched \/ IntEnter \/ Tick \/ IntExit \/ Lock \/ Unlock
    PROVE  BlockStep
<1>1. UNCHANGED queueVars
    BY DEF Sched, IntExit, Switch, IntEnter, Tick, Lock, Unlock, Outside
<1>2. UNCHANGED <<event, OSEventFreeList>>
    BY DEF Sched, IntExit, Switch, IntEnter, Tick, Lock, Unlock, OS_Sched, OSIntExit, OSIntEnter,
           OSTimeTick, OSSchedLock, OSSchedUnlock, restVars
<1> QED BY <1>1, <1>2, EventKept, QuietUsed

LEMMA MemMoves ==
    ASSUME MemInv, MemCalls \/ UNCHANGED memVars
    PROVE  MemInv'
<1>1. CASE UNCHANGED memVars
    BY <1>1, UnchangedChains
<1>2. CASE MemCalls
    <2>1. \A n : OSMemCreate(n) => n \in Addr
        BY MemAssumption DEF OSMemCreate, Addr
    <2> QED BY <1>2, <2>1, CreateChains, GetChains, PutChains, FillChains DEF MemCalls
<1> QED BY <1>1, <1>2

LEMMA NextBlocks ==
    ASSUME EventsWell, QueuesWell, [Next]_kernelVars
    PROVE  BlockStep
<1>1. ASSUME UNCHANGED <<coreVars, queueVars>>
      PROVE  BlockStep
    BY <1>1, EventKept, QuietUsed DEF coreVars
<1>2. CASE EventCalls
    BY <1>2, SemBlocks, MboxBlocks, QBlocks, MultiBlocks, MutexBlocks DEF EventCalls
<1>3. CASE FlagCalls \/ TaskCalls \/ Returns
    BY <1>3, FlagBlocks, TaskBlocks, ReturnBlocks
<1>4. CASE Sched \/ IntEnter \/ Tick \/ IntExit \/ Lock \/ Unlock
    BY <1>4, SchedulerBlocks
<1>5. CASE MemCalls
    BY <1>1, <1>5 DEF MemCalls
<1>6. CASE UNCHANGED kernelVars
    BY <1>1, <1>6 DEF kernelVars
<1> QED BY <1>2, <1>3, <1>4, <1>5, <1>6 DEF Next

LEMMA BlocksStay ==
    ASSUME BlocksInv, [Next]_kernelVars
    PROVE  /\ BlocksInv'
           /\ \A e \in Events : Queue(e) /\ Queue(e)' => OneAtAnEnd(e)
<1>1. EventsWell /\ QueuesWell /\ MemInv
    BY DEF BlocksInv
<1>2. MemCalls \/ UNCHANGED memVars
    BY DEF Next, kernelVars
<1>3. MemInv'
    BY <1>1, <1>2, MemMoves
<1>4. EventsWell' /\ QueuesWell' /\ \A e \in Events : Queue(e) /\ Queue(e)' => OneAtAnEnd(e)
    BY <1>1, NextBlocks, UsedWell, MadeWell, GoneWell DEF BlockStep
<1> QED BY <1>3, <1>4 DEF BlocksInv

LEMMA BlocksAtFirst == Init => BlocksInv
<1> SUFFICES ASSUME Init PROVE BlocksInv
    OBVIOUS
<1>1. Workload(L)
    BY WorkloadAssumption DEF Init, L
<1>2. /\ event = L.events /\ queue = L.queues
      /\ OSEventFreeList = {e \in Events : L.events[e].type = "UNUSED"}
      /\ OSQFreeList = {pq \in Queues : \A e \in Events : L.events[e].ptr # pq}
    BY DEF Init, CoreInit
<1>3. /\ event \in [Events -> [type : EventTypes, cnt : Nat, wait : {{}},
                               ptr : Messages \cup Queues \cup {Null}]]
      /\ \A e \in Events : Queue(e) <=> event[e].ptr \in Queues
      /\ \A d, e \in Events : Queue(d) /\ event[d].ptr = event[e].ptr => d = e
    BY <1>1, <1>2 DEF Workload, Queue
<1>4. EventsWell
    BY <1>3 DEF EventsWell
<1>5. \A pq \in Queues : RingWell(pq)
    <2>1. \A n \in Nat \ {0} : NewRing(n, Null) \in Rings(n, Messages \cup {Null})
        BY NewRingIsEmpty
    <2> QED BY <1>1, <1>2, <2>1, ZenonT(60) DEF Workload, RingWell
<1>6. QueuesWell
    <2>1. \A e \in Events : Queue(e) => event[e].ptr \in Queues \ OSQFreeList
        BY <1>2, <1>3
    <2>2. ASSUME NEW pq \in Queues \ OSQFreeList
          PROVE  \E e \in Events : Queue(e) /\ event[e].ptr = pq
        BY <1>2, <1>3
    <2>3. DOMAIN queue = Queues
        BY <1>1, <1>2 DEF Workload
    <2> QED BY <1>2, <1>3, <1>5, <2>1, <2>2, <2>3 DEF QueuesWell
<1>7. MemInv
    BY InitChains DEF Init
<1> QED BY <1>4, <1>6, <1>7 DEF BlocksInv

(* In every application, an event control block is in its list exactly     *)
(* when it is no event; a queue is in its list or belongs to one event;    *)
(* every ring is one of OsRing's; and the blocks of the partition are all  *)
(* there (os_core.c, os_q.c, os_mem.c).                                    *)
THEOREM EventAndQueueBlocks == Spec => []BlocksInv
<1>1. BlocksInv /\ [Next]_kernelVars => BlocksInv'
    BY BlocksStay
<1> QED BY <1>1, BlocksAtFirst, PTL DEF Spec

(* In every application, whatever the calls and however they interleave, a *)
(* message that a step adds to a queue is at one end of it, and one that a *)
(* step takes is the oldest.                                               *)
THEOREM QueuesKeepTheOrder == Spec => RingIsAQueue
<1>1. BlocksInv /\ [Next]_kernelVars =>
          [\A e \in Events : Queue(e) /\ Queue(e)' =>
              LET old == Contents(Of(e))
                  new == Contents(Of(e))'
              IN  \/ new \in {old, <<>>}
                  \/ old # <<>> /\ new = Tail(old)
                  \/ \E m \in Messages : new \in {Append(old, m), <<m>> \o old}]_kernelVars
    BY BlocksStay DEF OneAtAnEnd
<1> QED BY <1>1, EventAndQueueBlocks, PTL DEF Spec, RingIsAQueue

(***************************************************************************)
(* Who is ready, who waits where, and who runs, in a settled application.  *)
(***************************************************************************)

(* Applications whose tasks are created before OSStart and keep their      *)
(* priorities: they call neither os_mutex.c nor the services of os_task.c  *)
(* that create or delete a task or change a priority.  And if a task waits *)
(* for several events, none is suspended (see ResumedIsReady) and no event *)
(* is deleted (see MultiReturn).  The rest they may call, from any     *)
(* task and from the handler, in any order.                                *)

CanCall(op) == op \in L.handler \/ \E t \in Tasks : op \in L.menu[t]

Settled ==
    /\ \A op \in {"OSTaskCreate", "OSTaskDel", "OSTaskChangePrio", "OSMutexAccept", "OSMutexPend",
                  "OSMutexPost", "OSMutexCreate", "OSMutexDel"} : ~CanCall(op)
    /\ CanCall("OSEventPendMulti") =>
          \A op \in {"OSTaskSuspend", "OSSemDel", "OSMboxDel", "OSQDel"} : ~CanCall(op)

TCBs == [prio : 0 .. OS_LOWEST_PRIO + 1, stat : SUBSET StatBits, pend : {"OK", "TO", "ABORT"},
         dly : 0 .. MaxDelay, ev : Events \cup {Null}, multi : SUBSET Events,
         msg : Messages \cup {Null}, delreq : BOOLEAN]

PCs == [at : {"task", "sched", "pended", "wake"},
        op : {"none", "SEM", "MBOX", "Q", "MULTI", "FLAG", "FLAG_CLR", "FLAG_SET"},
        on : SUBSET (Events \cup Groups)]

Nodes == [grp : Groups, want : SUBSET Flags, type : WaitTypes]

FlagOps == {"FLAG", "FLAG_CLR", "FLAG_SET"}

PriosOf(tasks) == {tcb[t].prio : t \in tasks}

Typed ==
    /\ load \in DOMAIN Workloads
    /\ tcb \in [Tasks -> TCBs]
    /\ pc \in [Tasks -> PCs]
    /\ OSTCBFlagNode \in [Tasks -> Nodes \cup {NoNode}]
    /\ \A t \in Tasks \ Live : OSTCBFlagNode[t] = NoNode
    /\ OSTCBFreeList = Tasks \ Live
    /\ OSRdyTbl \subseteq PriosOf(Live)
    /\ \A e \in Events : event[e].wait \subseteq PriosOf(Live)

(* Where a task is and what it waits for: its place in the call, its block,*)
(* its flag node and the events in whose lists it stands.                  *)
In(t)      == {e \in Events : tcb[t].prio \in event[e].wait}
Pending(t) == tcb[t].stat \cap PendBits
Inside(t)  == pc[t].at \in {"pended", "wake"}

AtEase(t) ==
    /\ pc[t].at \in {"task", "sched"}
    /\ tcb[t].stat \subseteq {"SUSPEND"} /\ tcb[t].multi = {} /\ tcb[t].ev = Null
    /\ In(t) = {} /\ OSTCBFlagNode[t] = NoNode

TimedOutNow(t) == tcb[t].pend = "TO" /\ Pending(t) = {} /\ tcb[t].dly = 0

OnOne(t) ==
    /\ Inside(t) /\ pc[t].op \in {"SEM", "MBOX", "Q"} /\ pc[t].on = {tcb[t].ev}
    /\ tcb[t].ev \in Events /\ tcb[t].multi = {} /\ OSTCBFlagNode[t] = NoNode
    /\ tcb[t].stat \subseteq {pc[t].op, "SUSPEND"}
    /\ \/ /\ In(t) = {tcb[t].ev} /\ event[tcb[t].ev].type = pc[t].op
          /\ (Pending(t) = {pc[t].op} /\ tcb[t].pend = "OK") \/ TimedOutNow(t)
       \/ In(t) = {} /\ Pending(t) = {} /\ tcb[t].pend # "TO" /\ tcb[t].dly = 0

OnSeveral(t) ==
    /\ Inside(t) /\ pc[t].op = "MULTI" /\ pc[t].on = Events
    /\ tcb[t].multi = Events /\ OSTCBFlagNode[t] = NoNode
    /\ ~Suspended(t) /\ CanCall("OSEventPendMulti")
    /\ \/ /\ In(t) = Events /\ tcb[t].ev = Null /\ \A e \in Events : event[e].type # "UNUSED"
          /\ (Pending(t) # {} /\ tcb[t].pend = "OK") \/ TimedOutNow(t)
       \/ In(t) = {} /\ tcb[t].ev \in Events /\ tcb[t].pend # "TO" /\ tcb[t].dly = 0

OnFlags(t) ==
    /\ Inside(t) /\ pc[t].op \in FlagOps
    /\ tcb[t].multi = {} /\ tcb[t].ev = Null /\ In(t) = {}
    /\ tcb[t].stat \subseteq {"FLAG", "SUSPEND"}
    /\ \E g \in Groups :
          /\ pc[t].on = {g}
          /\ \/ /\ OSTCBFlagNode[t].grp = g
                /\ (Pending(t) = {"FLAG"} /\ tcb[t].pend = "OK") \/ TimedOutNow(t)
             \/ OSTCBFlagNode[t] = NoNode /\ Pending(t) = {} /\ tcb[t].pend = "OK" /\ tcb[t].dly = 0

Free(t) ==
    /\ tcb[t].dly = 0 /\ ~Suspended(t)
    /\ IF tcb[t].multi = {} THEN tcb[t].stat = {} ELSE tcb[t].ev # Null \/ tcb[t].pend = "TO"

TaskWell(t) ==
    /\ AtEase(t) \/ OnOne(t) \/ OnSeveral(t) \/ OnFlags(t)
    /\ tcb[t].prio \in OSRdyTbl <=> Free(t)

(* The scheduler.  A task that runs its own code is ready and, unless a    *)
(* call has put the change off, the most urgent one that is.               *)
Runs == OSIntNesting = 0 /\ OSLockNesting = 0 /\ pc[OSTCBCur].at \in {"task", "wake"}

Scheduled ==
    /\ OSTCBCur \in Live /\ OSPrioCur = tcb[OSTCBCur].prio
    /\ OSIntNesting \in 0 .. 1 /\ OSLockNesting \in 0 .. 1
    /\ IdleTask \in Live /\ tcb[IdleTask].prio \in OSRdyTbl /\ pc[IdleTask].at = "task"
    /\ OSLockNesting > 0 => pc[OSTCBCur].at \in {"task", "sched"}
    /\ lazy \in BOOLEAN
    /\ Runs => OSPrioCur \in OSRdyTbl
    /\ Runs /\ ~lazy => OSPrioCur = Highest(OSRdyTbl)

TasksInv == Typed /\ \A t \in Live : TaskWell(t)

SettledInv == TasksInv /\ Scheduled

(* While a task waits for several events, all of them are there.           *)
OfSeveral(t) == Inside(t) /\ pc[t].op = "MULTI"

SeveralInv ==
    \A t \in Tasks : OfSeveral(t) =>
        CanCall("OSEventPendMulti") /\ \A e \in Events : event[e].type \in {"SEM", "MBOX", "Q"}

(* No two tasks have the same priority, and a list holds one of them for   *)
(* each of its priorities.                                                 *)
LEMMA OnePerPrio ==
    /\ \A t, u \in Live : tcb[t].prio = tcb[u].prio => t = u
    /\ \A prios \in SUBSET PriosOf(Live) :
          Woken(prios) = {t \in Live : tcb[t].prio \in prios}
BY DEF Live, PriosOf, Woken

(* The priorities that tasks have do not change. *)
SamePrios == UNCHANGED OSTCBPrioTbl /\ \A t \in Tasks : tcb'[t].prio = tcb[t].prio

LEMMA SameLive ==
    ASSUME SamePrios
    PROVE  Live' = Live /\ \A S \in SUBSET Tasks : PriosOf(S)' = PriosOf(S)
BY DEF SamePrios, Live, PriosOf

(* A task goes on to where its call ends, or comes back behind OS_Sched.   *)
GoesOn(t) ==
    /\ pc'[t].op = pc[t].op /\ pc'[t].on = pc[t].on
    /\ \/ pc'[t].at = pc[t].at
       \/ pc'[t].at \in {"task", "sched"} /\ pc[t].at \in {"task", "sched"}
       \/ pc'[t].at \in {"pended", "wake"} /\ pc[t].at \in {"pended", "wake"}

AllGoOn == pc' \in [Tasks -> PCs] /\ \A t \in Tasks : GoesOn(t)

SameLists(t) ==
    /\ In(t)' = In(t) /\ \A e \in In(t) : event'[e].type = event[e].type
    /\ tcb'[t].prio \in OSRdyTbl' <=> tcb[t].prio \in OSRdyTbl

SameBlock(t) ==
    /\ tcb'[t].prio = tcb[t].prio /\ tcb'[t].stat = tcb[t].stat /\ tcb'[t].pend = tcb[t].pend
    /\ tcb'[t].dly = tcb[t].dly /\ tcb'[t].ev = tcb[t].ev /\ tcb'[t].multi = tcb[t].multi
    /\ OSTCBFlagNode'[t] = OSTCBFlagNode[t]

LEMMA SameTask ==
    ASSUME NEW t, TaskWell(t), SameBlock(t), SameLists(t), GoesOn(t), load' = load
    PROVE  TaskWell(t)'
<1>1. Pending(t)' = Pending(t) /\ Suspended(t)' = Suspended(t) /\ TimedOutNow(t)' = TimedOutNow(t)
      /\ Free(t)' = Free(t) /\ CanCall("OSEventPendMulti")' = CanCall("OSEventPendMulti")
    BY DEF Pending, Suspended, TimedOutNow, Free, SameBlock, CanCall, L
<1>2. AtEase(t) => AtEase(t)'
    BY <1>1 DEF AtEase, SameBlock, SameLists, GoesOn
<1>3. Inside(t) => Inside(t)'
    BY DEF Inside, GoesOn
<1>4. OnOne(t) => OnOne(t)'
    BY <1>1, <1>3 DEF OnOne, SameBlock, SameLists, GoesOn
<1>5. OnSeveral(t) => OnSeveral(t)'
    BY <1>1, <1>3 DEF OnSeveral, SameBlock, SameLists, GoesOn
<1>6. OnFlags(t) => OnFlags(t)'
    BY <1>1, <1>3 DEF OnFlags, SameBlock, SameLists, GoesOn
<1> QED BY <1>1, <1>2, <1>4, <1>5, <1>6 DEF TaskWell, SameLists, SameBlock

LEMMA CallsGoOn ==
    ASSUME Typed, OSTCBCur \in Tasks
    PROVE  /\ Return => AllGoOn
           /\ CallSched /\ (OSIntNesting > 0 \/ pc[OSTCBCur].at = "task") => AllGoOn
<1>1. UNCHANGED pc => AllGoOn
    BY DEF Typed, AllGoOn, GoesOn
<1>2. ASSUME pc' = [pc EXCEPT ![OSTCBCur].at = "sched"], pc[OSTCBCur].at = "task"
      PROVE  AllGoOn
    <2>1. pc' \in [Tasks -> PCs]
        BY <1>2 DEF Typed, PCs
    <2>2. ASSUME NEW t \in Tasks PROVE GoesOn(t)
        BY <1>2 DEF Typed, PCs, GoesOn
    <2> QED BY <2>1, <2>2 DEF AllGoOn
<1> QED BY <1>1, <1>2 DEF Return, CallSched

(* OS_EventTaskRdy, for any tasks in the list of an event, by a post, an   *)
(* abort or a deletion.                                                    *)
Wakes(e, prios, msg, pend) ==
    /\ prios \subseteq event[e].wait /\ msg \in Messages \cup {Null} /\ pend \in {"OK", "ABORT"}
    /\ event[e].type \in {"SEM", "MBOX", "Q"}
    /\ OS_EventTaskRdy(e, prios, msg, {event[e].type}, pend)
    /\ \A x \in Events : event'[x].wait = EventsAfterRdy(e, prios)[x].wait
    /\ \A x \in Events : event'[x].type = event[x].type \/ (x = e /\ prios = event[e].wait)
    /\ UNCHANGED <<OSTCBPrioTbl, OSTCBFreeList, OSTCBFlagNode, load>>
    /\ AllGoOn

(* The blocks of those who are woken, and of the others. *)
LEMMA WokenBlock ==
    ASSUME Typed, NEW e \in Events, NEW prios, NEW msg, NEW pend, Wakes(e, prios, msg, pend)
    PROVE  /\ Woken(prios) = {t \in Live : tcb[t].prio \in prios} /\ Woken(prios) \subseteq Tasks
           /\ \A t \in Tasks \ Woken(prios) : tcb'[t] = tcb[t]
           /\ \A t \in Woken(prios) :
                 /\ tcb'[t] \in TCBs
                 /\ tcb'[t].prio = tcb[t].prio /\ tcb'[t].stat = tcb[t].stat \ {event[e].type}
                 /\ tcb'[t].pend = pend /\ tcb'[t].dly = 0 /\ tcb'[t].multi = tcb[t].multi
                 /\ tcb'[t].ev = IF tcb[t].multi = {} THEN tcb[t].ev ELSE e
                 /\ tcb'[t].msg = msg
<1> DEFINE W == {t \in Live : tcb[t].prio \in prios}
<1>1. Woken(prios) = W /\ W \subseteq Tasks
    BY OnePerPrio DEF Wakes, Typed, Live
<1>2. \A t \in Tasks : tcb[t] \in TCBs
    BY DEF Typed
<1>3. \A t \in Tasks \ W : tcb'[t] = tcb[t]
    BY <1>1 DEF Wakes, OS_EventTaskRdy, TCBsAfterRdy
<1>4. ASSUME NEW t \in W
      PROVE  /\ tcb'[t] \in TCBs
             /\ tcb'[t].prio = tcb[t].prio /\ tcb'[t].stat = tcb[t].stat \ {event[e].type}
             /\ tcb'[t].pend = pend /\ tcb'[t].dly = 0 /\ tcb'[t].multi = tcb[t].multi
             /\ tcb'[t].ev = IF tcb[t].multi = {} THEN tcb[t].ev ELSE e
             /\ tcb'[t].msg = msg
    <2>1. t \in Tasks /\ tcb[t] \in TCBs
        BY <1>1, <1>2
    <2>2. tcb'[t] = [tcb[t] EXCEPT !.dly = 0, !.msg = msg, !.stat = @ \ {event[e].type}, !.pend = pend,
                                   !.ev = IF tcb[t].multi = {} THEN @ ELSE e]
        BY <1>1, <2>1 DEF Wakes, OS_EventTaskRdy, TCBsAfterRdy
    <2>3. 0 \in 0 .. MaxDelay /\ msg \in Messages \cup {Null} /\ pend \in {"OK", "TO", "ABORT"}
        BY CoreAssumption DEF Wakes
    <2> DEFINE ev == IF tcb[t].multi = {} THEN tcb[t].ev ELSE e
               stat == tcb[t].stat \ {event[e].type}
    <2>4. ev \in Events \cup {Null} /\ stat \in SUBSET StatBits
        BY <2>1 DEF TCBs
    <2>5. tcb'[t] = [tcb[t] EXCEPT !.dly = 0, !.msg = msg, !.stat = stat, !.pend = pend, !.ev = ev]
        BY <2>2
    <2> HIDE DEF ev, stat
    <2>6. /\ tcb'[t] \in TCBs
          /\ tcb'[t].prio = tcb[t].prio /\ tcb'[t].stat = stat
          /\ tcb'[t].pend = pend /\ tcb'[t].dly = 0 /\ tcb'[t].multi = tcb[t].multi
          /\ tcb'[t].ev = ev /\ tcb'[t].msg = msg
        BY <2>1, <2>3, <2>4, <2>5, ZenonT(40) DEF TCBs
    <2> QED BY <2>6 DEF ev, stat
<1> QED BY <1>1, <1>3, <1>4

LEMMA WokenStop ==
    ASSUME TasksInv, EventsWell, NEW e \in Events, NEW prios, NEW msg, NEW pend,
           Wakes(e, prios, msg, pend)
    PROVE  /\ TasksInv' /\ SamePrios
           /\ OSRdyTbl \subseteq OSRdyTbl'
<1> DEFINE W == {t \in Live : tcb[t].prio \in prios}
<1>0. /\ Woken(prios) = {t \in Live : tcb[t].prio \in prios} /\ Woken(prios) \subseteq Tasks
      /\ \A t \in Tasks \ Woken(prios) : tcb'[t] = tcb[t]
      /\ \A t \in Woken(prios) :
             /\ tcb'[t] \in TCBs
             /\ tcb'[t].prio = tcb[t].prio /\ tcb'[t].stat = tcb[t].stat \ {event[e].type}
             /\ tcb'[t].pend = pend /\ tcb'[t].dly = 0 /\ tcb'[t].multi = tcb[t].multi
             /\ tcb'[t].ev = IF tcb[t].multi = {} THEN tcb[t].ev ELSE e
             /\ tcb'[t].msg = msg
    BY WokenBlock DEF TasksInv
<1>1. Woken(prios) = W /\ W \subseteq Tasks
    BY <1>0
<1>2. \A t \in Tasks : tcb[t] \in TCBs
    BY DEF TasksInv, Typed
<1>3. \A t \in Tasks \ W : tcb'[t] = tcb[t]
    BY <1>0
<1>4. ASSUME NEW t \in W
      PROVE  /\ tcb'[t] \in TCBs
             /\ tcb'[t].prio = tcb[t].prio /\ tcb'[t].stat = tcb[t].stat \ {event[e].type}
             /\ tcb'[t].pend = pend /\ tcb'[t].dly = 0 /\ tcb'[t].multi = tcb[t].multi
             /\ tcb'[t].ev = IF tcb[t].multi = {} THEN tcb[t].ev ELSE e
             /\ tcb'[t].msg = msg
    BY <1>0
<1>5. tcb' \in [Tasks -> TCBs]
    <2>1. tcb' = [t \in Tasks |-> tcb'[t]]
        BY DEF Wakes, OS_EventTaskRdy, TCBsAfterRdy
    <2>2. \A t \in Tasks : tcb'[t] \in TCBs
        BY <1>2, <1>3, <1>4
    <2> QED BY <2>1, <2>2
<1>6. SamePrios /\ Live' = Live
    BY <1>3, <1>4, SameLive DEF SamePrios, Wakes
<1>7. OSRdyTbl' = OSRdyTbl \cup {tcb[t].prio : t \in {w \in W : ~Suspended(w)}}
    BY <1>1 DEF Wakes, OS_EventTaskRdy, ReadyAfterRdy
<1>8. \A x \in Events : event'[x].wait =
          event[x].wait \ {tcb[t].prio : t \in {w \in W : x = e \/ x \in tcb[w].multi}}
    <2>1. \A x \in Events : EventsAfterRdy(e, prios)[x].wait =
              event[x].wait \ {tcb[t].prio : t \in {w \in W : x = e \/ x \in tcb[w].multi}}
        BY <1>1 DEF EventsAfterRdy, EventsWell
    <2> QED BY <2>1 DEF Wakes
<1> HIDE DEF W
<1>9. Typed'
    <2>1. OSRdyTbl' \subseteq PriosOf(Live)
        BY <1>7 DEF TasksInv, Typed, PriosOf, W
    <2>2. \A x \in Events : event'[x].wait \subseteq PriosOf(Live)
        BY <1>8 DEF TasksInv, Typed
    <2>3. PriosOf(Live)' = PriosOf(Live)
        BY <1>6, SameLive DEF Live
    <2> QED BY <1>5, <1>6, <2>1, <2>2, <2>3 DEF TasksInv, Typed, Wakes, AllGoOn
<1>10. ASSUME NEW t \in Live, t \notin W
       PROVE  TaskWell(t)'
    <2>1. t \in Tasks /\ tcb'[t] = tcb[t]
        BY <1>3, <1>10 DEF Live
    <2>2. \A u \in W : tcb[u].prio # tcb[t].prio
        BY <1>10, OnePerPrio DEF W
    <2>3. In(t)' = In(t) /\ (tcb'[t].prio \in OSRdyTbl' <=> tcb[t].prio \in OSRdyTbl)
        BY <1>7, <1>8, <2>1, <2>2 DEF In
    <2>4. \A x \in In(t) : event'[x].type = event[x].type
        <3>1. tcb[t].prio \notin prios
            BY <1>10 DEF W
        <3> QED BY <3>1 DEF In, Wakes
    <2>5. SameBlock(t)
        BY <2>1 DEF SameBlock, Wakes
    <2>6. GoesOn(t) /\ load' = load
        BY <2>1 DEF Wakes, AllGoOn
    <2> QED BY <2>3, <2>4, <2>5, <2>6, SameTask DEF TasksInv, SameLists
<1>11. ASSUME NEW t \in W
       PROVE  TaskWell(t)'
    <2>1. t \in Tasks /\ t \in Live /\ e \in In(t) /\ TaskWell(t)
        BY <1>1 DEF W, In, Wakes, TasksInv
    <2>2. In(t)' = IF tcb[t].multi = {} THEN In(t) \ {e} ELSE In(t) \ (tcb[t].multi \cup {e})
        <3>1. \A x \in Events : tcb[t].prio \in event'[x].wait
                  <=> tcb[t].prio \in event[x].wait /\ ~(x = e \/ x \in tcb[t].multi)
            BY <1>8, <2>1, OnePerPrio DEF W
        <3> QED BY <1>4, <3>1 DEF In
    <2>3. tcb[t].prio \in OSRdyTbl' <=> (tcb[t].prio \in OSRdyTbl \/ ~Suspended(t))
        BY <1>7, <2>1, OnePerPrio DEF W
    <2>4. Suspended(t)' = Suspended(t) /\ pend \in {"OK", "ABORT"} /\ pend # "TO"
          /\ event[e].type \in {"SEM", "MBOX", "Q"}
        BY <1>4 DEF Suspended, Wakes
    <2>5. GoesOn(t) /\ OSTCBFlagNode'[t] = OSTCBFlagNode[t] /\ load' = load
        BY <2>1 DEF Wakes, AllGoOn
    <2>6. tcb[t].prio \in OSRdyTbl <=> Free(t)
        BY <2>1 DEF TaskWell
    <2>7. CASE OnOne(t)
        <3>1. tcb[t].ev = e /\ event[e].type = pc[t].op /\ In(t) = {e} /\ tcb[t].multi = {}
              /\ tcb[t].stat \subseteq {pc[t].op, "SUSPEND"}
            BY <2>1, <2>7 DEF OnOne
        <3>2. In(t)' = {} /\ tcb'[t].ev = e /\ tcb'[t].multi = {} /\ tcb'[t].stat \subseteq {"SUSPEND"}
            BY <1>4, <2>2, <3>1
        <3>3. Pending(t)' = {}
            BY <3>2 DEF Pending, PendBits
        <3>4. OnOne(t)'
            <4>1. Inside(t)' /\ pc'[t].op = pc[t].op /\ pc'[t].on = pc[t].on
                BY <2>5, <2>7 DEF OnOne, GoesOn, Inside
            <4>2. pc[t].op \in {"SEM", "MBOX", "Q"} /\ pc[t].on = {e}
                BY <2>7, <3>1 DEF OnOne
            <4>3. tcb'[t].pend # "TO" /\ tcb'[t].dly = 0 /\ OSTCBFlagNode'[t] = NoNode
                BY <1>4, <2>4, <2>5, <2>7 DEF OnOne
            <4> QED BY <3>2, <3>3, <4>1, <4>2, <4>3 DEF OnOne
        <3>5. Free(t)' <=> ~Suspended(t)
            BY <1>4, <2>4, <3>2 DEF Free, Suspended
        <3>6. Free(t) => ~Suspended(t)
            BY DEF Free
        <3> QED BY <1>4, <2>3, <2>6, <3>4, <3>5, <3>6 DEF TaskWell
    <2>8. CASE OnSeveral(t)
        <3>1. In(t) = Events /\ tcb[t].multi = Events /\ Events # {} /\ ~Suspended(t)
            BY <2>1, <2>8, CoreAssumption DEF OnSeveral
        <3>2. In(t)' = {} /\ tcb'[t].ev = e /\ tcb'[t].multi = Events /\ e # Null
            BY <1>4, <2>2, <3>1, CoreAssumption
        <3>3. CanCall("OSEventPendMulti")' = CanCall("OSEventPendMulti")
            BY <2>5 DEF CanCall, L
        <3>4. OnSeveral(t)'
            BY <1>4, <2>4, <2>5, <2>8, <3>1, <3>2, <3>3 DEF OnSeveral, GoesOn, Inside
        <3>5. Free(t)'
            BY <1>4, <2>4, <3>1, <3>2 DEF Free
        <3> QED BY <1>4, <2>3, <3>1, <3>4, <3>5 DEF TaskWell
    <2>9. ~AtEase(t) /\ ~OnFlags(t)
        BY <2>1 DEF AtEase, OnFlags
    <2> QED BY <2>1, <2>7, <2>8, <2>9 DEF TaskWell
<1>12. TasksInv'
    BY <1>6, <1>9, <1>10, <1>11 DEF TasksInv
<1> QED BY <1>6, <1>7, <1>12

(* The caller waits: OS_EventTaskWait, OS_EventTaskWaitMulti.              *)
StartsToWait(bits, multi, events, ev, timeout, op) ==
    /\ OSTCBCur \in Live /\ pc[OSTCBCur].at = "task" /\ tcb[OSTCBCur].prio \in OSRdyTbl
    /\ timeout \in 0 .. MaxDelay
    /\ tcb' = Waiting(bits, timeout, ev, multi)
    /\ event' = Enlisted(events)
    /\ OSRdyTbl' = OSRdyTbl \ {tcb[OSTCBCur].prio}
    /\ Pended(op, events)
    /\ UNCHANGED <<OSTCBPrioTbl, OSTCBFreeList, OSTCBFlagNode, load>>

LEMMA AtEaseWhenFree ==
    ASSUME NEW t, TaskWell(t), pc[t].at \in {"task", "sched"}
    PROVE  AtEase(t) /\ (tcb[t].prio \in OSRdyTbl => tcb[t].stat = {} /\ tcb[t].dly = 0)
BY DEF TaskWell, AtEase, OnOne, OnSeveral, OnFlags, Inside, Free

LEMMA WaitersWait ==
    ASSUME TasksInv, EventsWell, NEW bits, NEW multi, NEW events, NEW ev, NEW timeout, NEW op,
           StartsToWait(bits, multi, events, ev, timeout, op),
           \/ /\ ev \in Events /\ events = {ev} /\ multi = {}
              /\ op \in {"SEM", "MBOX", "Q"} /\ bits = {op} /\ event[ev].type = op
           \/ /\ ev = Null /\ events = Events /\ multi = Events /\ op = "MULTI"
              /\ bits \subseteq StatBits /\ bits \cap PendBits # {} /\ "SUSPEND" \notin bits
              /\ CanCall("OSEventPendMulti") /\ \A e \in Events : event[e].type # "UNUSED"
    PROVE  TasksInv' /\ SamePrios /\ ~(tcb[OSTCBCur].prio \in OSRdyTbl')
<1>0. PICK me \in Tasks : me = OSTCBCur
    BY DEF StartsToWait, Live
<1>. PICK p : p = tcb[me].prio
    OBVIOUS
<1>1. me \in Live /\ TaskWell(me) /\ tcb \in [Tasks -> TCBs] /\ tcb[me] \in TCBs
    BY <1>0 DEF StartsToWait, TasksInv, Typed
<1>2. AtEase(me) /\ tcb[me].stat = {} /\ tcb[me].multi = {} /\ In(me) = {} /\ OSTCBFlagNode[me] = NoNode
    BY <1>0, <1>1, AtEaseWhenFree DEF StartsToWait, AtEase
<1>3. bits \subseteq StatBits /\ events \subseteq Events /\ multi \subseteq Events /\ ev \in Events \cup {Null}
      /\ timeout \in 0 .. MaxDelay
    BY DEF StatBits, PendBits, StartsToWait
<1>4. tcb' = [tcb EXCEPT ![me] = [tcb[me] EXCEPT !.stat = bits, !.pend = "OK", !.dly = timeout,
                                                 !.ev = ev, !.multi = multi]]
    <2>1. tcb' = [tcb EXCEPT ![me] = [tcb[me] EXCEPT !.stat = tcb[me].stat \cup bits, !.pend = "OK",
                                      !.dly = timeout, !.ev = ev,
                                      !.multi = IF multi = {} THEN tcb[me].multi ELSE multi]]
        <3> DEFINE v == [tcb[OSTCBCur] EXCEPT !.stat = tcb[OSTCBCur].stat \cup bits, !.pend = "OK",
                                      !.dly = timeout, !.ev = ev,
                                      !.multi = IF multi = {} THEN tcb[OSTCBCur].multi ELSE multi]
        <3>1. tcb' = [tcb EXCEPT ![OSTCBCur] = v]
            BY DEF StartsToWait, Waiting
        <3> HIDE DEF v
        <3>2. tcb' = [tcb EXCEPT ![me] = v]
            BY <1>0, <3>1
        <3> QED BY <1>0, <3>2 DEF v
    <2>2. tcb[me].stat \cup bits = bits /\ (IF multi = {} THEN tcb[me].multi ELSE multi) = multi
        BY <1>2
    <2> QED BY <2>1, <2>2
<1>5. /\ \A t \in Tasks \ {me} : tcb'[t] = tcb[t]
      /\ tcb' \in [Tasks -> TCBs]
      /\ tcb'[me].prio = p /\ tcb'[me].stat = bits /\ tcb'[me].pend = "OK" /\ tcb'[me].dly = timeout
      /\ tcb'[me].ev = ev /\ tcb'[me].multi = multi
    <2>1. [tcb[me] EXCEPT !.stat = bits, !.pend = "OK", !.dly = timeout, !.ev = ev, !.multi = multi] \in TCBs
        BY <1>1, <1>3 DEF TCBs
    <2>2. \A t \in Tasks \ {me} : tcb'[t] = tcb[t] /\ tcb[t] \in TCBs
        BY <1>1, <1>4
    <2>3. tcb'[me] = [tcb[me] EXCEPT !.stat = bits, !.pend = "OK", !.dly = timeout, !.ev = ev, !.multi = multi]
        BY <1>1, <1>4
    <2>4. tcb' \in [Tasks -> TCBs]
        BY <1>1, <1>4, <2>1
    <2> QED BY <1>1, <2>2, <2>3, <2>4 DEF TCBs
<1>6. SamePrios /\ Live' = Live
    BY <1>5, SameLive DEF SamePrios, StartsToWait
<1>7. /\ pc' \in [Tasks -> PCs] /\ \A t \in Tasks \ {me} : pc'[t] = pc[t]
      /\ pc'[me].at = "pended" /\ pc'[me].op = op /\ pc'[me].on = events
    <2>1. pc \in [Tasks -> PCs] /\ pc' = [pc EXCEPT ![me] = [at |-> "pended", op |-> op, on |-> events]]
        BY <1>0 DEF TasksInv, Typed, StartsToWait, Pended
    <2>2. [at |-> "pended", op |-> op, on |-> events] \in PCs
        BY <1>3 DEF PCs
    <2> QED BY <1>1, <2>1, <2>2
<1>8. OSRdyTbl' = OSRdyTbl \ {p}
    BY <1>0 DEF StartsToWait
<1>9. \A x \in Events : event'[x].type = event[x].type
          /\ event'[x].wait = IF x \in events THEN event[x].wait \cup {p} ELSE event[x].wait
    BY <1>0 DEF StartsToWait, Enlisted, EventsWell
<1>10. Typed'
    <2>1. p \in PriosOf(Live) /\ PriosOf(Live)' = PriosOf(Live)
        BY <1>1, <1>6, SameLive DEF PriosOf, Live
    <2>2. OSRdyTbl' \subseteq PriosOf(Live) /\ \A x \in Events : event'[x].wait \subseteq PriosOf(Live)
        BY <1>8, <1>9, <2>1 DEF TasksInv, Typed
    <2> QED BY <1>5, <1>6, <1>7, <2>1, <2>2 DEF TasksInv, Typed, StartsToWait
<1>11. ASSUME NEW t \in Live, t # me
       PROVE  TaskWell(t)'
    <2>1. t \in Tasks /\ tcb[t].prio # p
        BY <1>1, <1>11, OnePerPrio DEF Live
    <2>2. SameBlock(t) /\ GoesOn(t) /\ load' = load
        BY <1>5, <1>7, <1>11, <2>1 DEF SameBlock, GoesOn, StartsToWait
    <2>3. SameLists(t)
        <3>1. ASSUME NEW x \in Events
              PROVE  tcb'[t].prio \in event'[x].wait <=> tcb[t].prio \in event[x].wait
            <4>1. tcb'[t] = tcb[t]
                BY <1>5, <1>11, <2>1
            <4>2. event'[x].wait = event[x].wait \cup {p} \/ event'[x].wait = event[x].wait
                BY <1>9
            <4> QED BY <2>1, <4>1, <4>2
        <3>2. In(t)' = In(t)
            BY <3>1 DEF In
        <3>3. \A x \in In(t) : event'[x].type = event[x].type
            BY <1>9 DEF In
        <3>4. tcb'[t].prio \in OSRdyTbl' <=> tcb[t].prio \in OSRdyTbl
            BY <1>5, <1>8, <1>11, <2>1
        <3> QED BY <3>2, <3>3, <3>4 DEF SameLists
    <2> QED BY <2>2, <2>3, SameTask DEF TasksInv
<1>12. TaskWell(me)'
    <2>1. In(me)' = events
        <3>1. \A x \in Events : p \in event[x].wait <=> x \in In(me)
            BY DEF In
        <3>2. \A x \in Events : tcb'[me].prio \in event'[x].wait <=> x \in events
            BY <1>2, <1>5, <1>9, <3>1
        <3>3. In(me)' = {x \in Events : tcb'[me].prio \in event'[x].wait}
            BY DEF In
        <3> QED BY <1>3, <3>2, <3>3
    <2>2. OSTCBFlagNode'[me] = NoNode /\ CanCall("OSEventPendMulti")' = CanCall("OSEventPendMulti")
        BY <1>2 DEF StartsToWait, CanCall, L
    <2>3. Inside(me)' /\ Pending(me)' = bits \cap PendBits /\ tcb'[me].prio \notin OSRdyTbl'
        BY <1>5, <1>7, <1>8 DEF Inside, Pending
    <2>4. CASE ev \in Events /\ events = {ev} /\ multi = {}
               /\ op \in {"SEM", "MBOX", "Q"} /\ bits = {op} /\ event[ev].type = op
        <3>1. Pending(me)' = {op} /\ bits # {}
            BY <2>3, <2>4 DEF PendBits
        <3>2. OnOne(me)'
            BY <1>5, <1>7, <1>9, <2>1, <2>2, <2>3, <2>4, <3>1 DEF OnOne
        <3>3. ~Free(me)'
            BY <1>5, <2>4, <3>1 DEF Free
        <3> QED BY <2>3, <3>2, <3>3 DEF TaskWell
    <2>5. CASE /\ ev = Null /\ events = Events /\ multi = Events /\ op = "MULTI"
               /\ bits \subseteq StatBits /\ bits \cap PendBits # {} /\ "SUSPEND" \notin bits
               /\ CanCall("OSEventPendMulti") /\ \A e \in Events : event[e].type # "UNUSED"
        <3>1. ~Suspended(me)'
            BY <1>5, <2>5 DEF Suspended
        <3>2. OnSeveral(me)'
            <4>1. \A x \in Events : event'[x].type # "UNUSED"
                BY <1>9, <2>5
            <4>2. In(me)' = Events /\ Pending(me)' # {}
                BY <2>1, <2>3, <2>5
            <4> QED BY <1>5, <1>7, <2>2, <2>3, <2>5, <3>1, <4>1, <4>2 DEF OnSeveral
        <3>3. ~Free(me)'
            BY <1>5, <2>5, CoreAssumption DEF Free
        <3> QED BY <2>3, <3>2, <3>3 DEF TaskWell
    <2> QED BY <2>4, <2>5
<1>13. TasksInv'
    BY <1>6, <1>10, <1>11, <1>12 DEF TasksInv
<1> QED BY <1>0, <1>6, <1>8, <1>13

(* The tasks of S move, the others are as they were. *)
LEMMA SomeMove ==
    ASSUME TasksInv, SamePrios, NEW S,
           tcb' \in [Tasks -> TCBs], pc' \in [Tasks -> PCs],
           OSTCBFlagNode' \in [Tasks -> Nodes \cup {NoNode}],
           \A t \in Tasks \ Live : OSTCBFlagNode'[t] = NoNode,
           UNCHANGED <<OSTCBFreeList, load>>,
           OSRdyTbl' \subseteq PriosOf(Live),
           \A e \in Events : event'[e].wait \subseteq PriosOf(Live),
           \A t \in Live \ S : SameBlock(t) /\ SameLists(t) /\ GoesOn(t),
           \A t \in Live \cap S : TaskWell(t)'
    PROVE  TasksInv'
<1>1. Live' = Live /\ PriosOf(Live)' = PriosOf(Live)
    BY SameLive DEF Live
<1>2. Typed'
    BY <1>1 DEF TasksInv, Typed
<1>3. ASSUME NEW t \in Live PROVE TaskWell(t)'
    <2>1. CASE t \in S
        BY <2>1
    <2>2. CASE t \notin S
        BY <2>2, SameTask DEF TasksInv
    <2> QED BY <2>1, <2>2
<1> QED BY <1>1, <1>2, <1>3 DEF TasksInv

LEMMA OneMoves ==
    ASSUME TasksInv, SamePrios, NEW me, TaskWell(me)',
           tcb' \in [Tasks -> TCBs], pc' \in [Tasks -> PCs],
           OSTCBFlagNode' \in [Tasks -> Nodes \cup {NoNode}],
           \A t \in Tasks \ Live : OSTCBFlagNode'[t] = NoNode,
           UNCHANGED <<OSTCBFreeList, load>>,
           OSRdyTbl' \subseteq PriosOf(Live),
           \A e \in Events : event'[e].wait \subseteq PriosOf(Live),
           \A t \in Live \ {me} : SameBlock(t) /\ SameLists(t) /\ GoesOn(t)
    PROVE  TasksInv'
<1>1. \A t \in Live \cap {me} : TaskWell(t)'
    OBVIOUS
<1> QED BY <1>1, SomeMove

(* No task moves, and no list. *)
Calm ==
    /\ UNCHANGED <<tcb, OSTCBPrioTbl, OSTCBFreeList, OSRdyTbl, OSTCBFlagNode, load>>
    /\ AllGoOn
    /\ \A e \in Events : /\ event'[e].wait = event[e].wait
                         /\ event'[e].type = event[e].type \/ event[e].wait = {}

LEMMA CalmStays ==
    ASSUME TasksInv, Calm
    PROVE  TasksInv' /\ SamePrios
<1>1. SamePrios
    BY DEF SamePrios, Calm
<1>2. ASSUME NEW t \in Live PROVE SameBlock(t) /\ SameLists(t) /\ GoesOn(t)
    <2>1. t \in Tasks /\ tcb'[t] = tcb[t]
        BY DEF Live, Calm
    <2>2. In(t)' = In(t) /\ \A e \in In(t) : event'[e].type = event[e].type
        BY <2>1 DEF In, Calm
    <2> QED BY <2>1, <2>2 DEF SameBlock, SameLists, Calm, AllGoOn
<1> QED BY <1>1, <1>2, SomeMove DEF TasksInv, Typed, Calm, AllGoOn

(* An event that is none is in the way of nobody. *)
LEMMA NobodyWaitsForNone ==
    ASSUME TasksInv, NEW e \in Events, event[e].type = "UNUSED"
    PROVE  event[e].wait = {}
<1> SUFFICES ASSUME NEW t \in Live, tcb[t].prio \in event[e].wait PROVE FALSE
    BY DEF TasksInv, Typed, PriosOf
<1>1. e \in In(t) /\ TaskWell(t)
    BY DEF In, TasksInv
<1> QED BY <1>1 DEF TaskWell, AtEase, OnOne, OnSeveral, OnFlags

(* A task that runs behind OS_Sched is ready: its wait is over. *)
BackFromWait(me) ==
    /\ me \in Live /\ pc[me].at = "wake" /\ tcb[me].prio \in OSRdyTbl

LEMMA WaitIsOver ==
    ASSUME TasksInv, NEW me, BackFromWait(me)
    PROVE  /\ Free(me) /\ TaskWell(me)
           /\ pc[me].op \in {"SEM", "MBOX", "Q"} =>
                 /\ OSTCBFlagNode[me] = NoNode
                 /\ In(me) = IF tcb[me].pend = "TO" THEN pc[me].on ELSE {}
           /\ pc[me].op = "MULTI" =>
                 /\ OSTCBFlagNode[me] = NoNode
                 /\ In(me) = IF tcb[me].pend = "TO" \/ tcb[me].ev = Null THEN pc[me].on ELSE {}
           /\ pc[me].op \in FlagOps =>
                 /\ In(me) = {} /\ tcb[me].ev = Null /\ tcb[me].multi = {} /\ tcb[me].stat = {}
                 /\ tcb[me].pend = "OK" => OSTCBFlagNode[me] = NoNode
<1>1. Free(me) /\ TaskWell(me) /\ ~AtEase(me)
    BY DEF BackFromWait, TasksInv, TaskWell, AtEase
<1>2. CASE pc[me].op \in {"SEM", "MBOX", "Q"}
    <2>1. OnOne(me)
        BY <1>1, <1>2 DEF TaskWell, OnSeveral, OnFlags, FlagOps
    <2>2. tcb[me].stat = {}
        BY <1>1, <2>1 DEF Free, OnOne
    <2>3. Pending(me) = {} /\ Pending(me) # {pc[me].op}
        BY <2>2 DEF Pending
    <2> QED BY <1>1, <1>2, <2>1, <2>3 DEF OnOne, TimedOutNow, FlagOps
<1>3. CASE pc[me].op = "MULTI"
    <2>1. OnSeveral(me)
        BY <1>1, <1>3 DEF TaskWell, OnOne, OnFlags, FlagOps
    <2>2. tcb[me].multi # {}
        BY <2>1, CoreAssumption DEF OnSeveral
    <2>3. tcb[me].ev # Null \/ tcb[me].pend = "TO"
        BY <1>1, <2>2 DEF Free
    <2>4. Null \notin Events
        BY CoreAssumption
    <2> QED BY <1>1, <1>3, <2>1, <2>3, <2>4 DEF OnSeveral, TimedOutNow, FlagOps
<1>4. CASE pc[me].op \in FlagOps
    <2>1. OnFlags(me)
        BY <1>1, <1>4 DEF TaskWell, OnOne, OnSeveral, FlagOps
    <2>2. tcb[me].stat = {}
        BY <1>1, <2>1 DEF Free, OnFlags
    <2>3. Pending(me) = {} /\ Pending(me) # {"FLAG"}
        BY <2>2 DEF Pending
    <2> QED BY <1>1, <1>4, <2>1, <2>2, <2>3 DEF OnFlags, TimedOutNow, FlagOps
<1>5. pc[me].op \in {"SEM", "MBOX", "Q", "MULTI"} \cup FlagOps
    BY <1>1 DEF TaskWell, OnOne, OnSeveral, OnFlags
<1> QED BY <1>1, <1>2, <1>3, <1>4, <1>5

LEMMA RestedBlock ==
    ASSUME NEW me \in Tasks, me = OSTCBCur, tcb \in [Tasks -> TCBs],
           tcb' = Rested \/ tcb' = [Rested EXCEPT ![OSTCBCur].msg = Null]
    PROVE  /\ tcb' \in [Tasks -> TCBs]
           /\ \A t \in Tasks \ {me} : tcb'[t] = tcb[t]
           /\ tcb'[me].prio = tcb[me].prio /\ tcb'[me].stat = {} /\ tcb'[me].pend = "OK"
           /\ tcb'[me].dly = tcb[me].dly /\ tcb'[me].ev = Null /\ tcb'[me].multi = {}
<1> DEFINE v == [tcb[me] EXCEPT !.stat = {}, !.pend = "OK", !.ev = Null, !.multi = {}]
<1>1. tcb[me] \in TCBs
    OBVIOUS
<1>2. /\ v \in TCBs /\ v.prio = tcb[me].prio /\ v.stat = {} /\ v.pend = "OK"
      /\ v.dly = tcb[me].dly /\ v.ev = Null /\ v.multi = {}
    BY <1>1 DEF TCBs
<1>3. Rested = [tcb EXCEPT ![me] = v]
    BY DEF Rested
<1> HIDE DEF v
<1>4. CASE tcb' = Rested
    BY <1>2, <1>3, <1>4
<1>5. CASE tcb' = [Rested EXCEPT ![me].msg = Null]
    <2> DEFINE w == [v EXCEPT !.msg = Null]
    <2>1. /\ w \in TCBs /\ w.prio = v.prio /\ w.stat = {} /\ w.pend = "OK"
          /\ w.dly = v.dly /\ w.ev = Null /\ w.multi = {}
        BY <1>2 DEF TCBs
    <2>2. tcb' = [tcb EXCEPT ![me] = w]
        BY <1>3, <1>5
    <2> HIDE DEF w
    <2> QED BY <1>2, <2>1, <2>2
<1> QED BY <1>4, <1>5

(* The caller of a pend comes back, and is in no list. *)
LEMMA CallersRest ==
    ASSUME TasksInv, EventsWell, NEW me, me = OSTCBCur, BackFromWait(me), NEW out \in BOOLEAN,
           In(me) = IF out THEN pc[me].on ELSE {}, OSTCBFlagNode[me] = NoNode,
           pc' = [pc EXCEPT ![OSTCBCur] = InTask],
           event' = IF out THEN Removed(pc[OSTCBCur].on) ELSE event,
           tcb' = Rested \/ tcb' = [Rested EXCEPT ![OSTCBCur].msg = Null],
           UNCHANGED <<OSRdyTbl, OSTCBPrioTbl, OSTCBFreeList, OSTCBFlagNode, load>>
    PROVE  TasksInv' /\ SamePrios
<1>1. me \in Tasks /\ me \in Live /\ tcb \in [Tasks -> TCBs]
    BY DEF BackFromWait, Live, TasksInv, Typed
<1>2. /\ tcb' \in [Tasks -> TCBs] /\ \A t \in Tasks \ {me} : tcb'[t] = tcb[t]
      /\ tcb'[me].prio = tcb[me].prio /\ tcb'[me].stat = {} /\ tcb'[me].pend = "OK"
      /\ tcb'[me].dly = tcb[me].dly /\ tcb'[me].ev = Null /\ tcb'[me].multi = {}
    BY <1>1, RestedBlock
<1>3. SamePrios
    BY <1>2 DEF SamePrios
<1>4. /\ pc' \in [Tasks -> PCs] /\ \A t \in Tasks \ {me} : pc'[t] = pc[t]
      /\ pc'[me].at = "task"
    <2>1. pc \in [Tasks -> PCs] /\ InTask \in PCs /\ InTask.at = "task"
        BY DEF TasksInv, Typed, PCs, InTask
    <2> QED BY <1>1, <2>1
<1>5. \A x \in Events : event'[x].type = event[x].type
          /\ event'[x].wait = IF out /\ x \in pc[me].on THEN event[x].wait \ {tcb[me].prio} ELSE event[x].wait
    BY DEF Removed, EventsWell
<1>6. ASSUME NEW t \in Live \ {me} PROVE SameBlock(t) /\ SameLists(t) /\ GoesOn(t)
    <2>1. t \in Tasks /\ tcb'[t] = tcb[t] /\ pc'[t] = pc[t]
        BY <1>2, <1>4 DEF Live
    <2>2. tcb[t].prio # tcb[me].prio
        BY <1>1, OnePerPrio
    <2>3. \A x \in Events : tcb'[t].prio \in event'[x].wait <=> tcb[t].prio \in event[x].wait
        BY <1>5, <2>1, <2>2
    <2>4. In(t)' = In(t) /\ \A e \in In(t) : event'[e].type = event[e].type
        BY <1>5, <2>3 DEF In
    <2> QED BY <2>1, <2>4 DEF SameBlock, SameLists, GoesOn
<1>7. TaskWell(me)'
    <2>1. Free(me) /\ tcb[me].prio \in OSRdyTbl
        BY WaitIsOver DEF BackFromWait
    <2>2. In(me)' = {}
        <3>1. \A x \in Events : tcb[me].prio \in event[x].wait => out /\ x \in pc[me].on
            BY DEF In
        <3>2. \A x \in Events : tcb'[me].prio \notin event'[x].wait
            BY <1>2, <1>5, <3>1
        <3> QED BY <3>2 DEF In
    <2>3. AtEase(me)'
        BY <1>2, <1>4, <2>2 DEF AtEase
    <2>4. Free(me)'
        BY <1>2, <2>1 DEF Free, Suspended
    <2> QED BY <1>2, <2>1, <2>3, <2>4 DEF TaskWell
<1>8. \A x \in Events : event'[x].wait \subseteq PriosOf(Live)
    BY <1>5 DEF TasksInv, Typed
<1>9. /\ OSTCBFlagNode' \in [Tasks -> Nodes \cup {NoNode}]
      /\ \A t \in Tasks \ Live : OSTCBFlagNode'[t] = NoNode
      /\ OSRdyTbl' \subseteq PriosOf(Live)
    BY DEF TasksInv, Typed
<1>10. TasksInv'
    BY <1>2, <1>3, <1>4, <1>6, <1>7, <1>8, <1>9, OneMoves
<1> QED BY <1>3, <1>10

(* Where FlagReturn leaves the block of the caller. *)
LEMMA FlagCallersRest ==
    ASSUME TasksInv, BackFromWait(OSTCBCur), FlagReturn, UNCHANGED load
    PROVE  TasksInv' /\ SamePrios
<1>0. PICK me : me = OSTCBCur
    OBVIOUS
<1>1. me \in Tasks /\ me \in Live /\ tcb \in [Tasks -> TCBs] /\ tcb[me] \in TCBs /\ pc[me].op \in FlagOps
      /\ OSTCBFlagNode \in [Tasks -> Nodes \cup {NoNode}]
    BY <1>0 DEF BackFromWait, Live, TasksInv, Typed, FlagReturn, FlagOps
<1>2. /\ Free(me) /\ tcb[me].prio \in OSRdyTbl
      /\ In(me) = {} /\ tcb[me].ev = Null /\ tcb[me].multi = {} /\ tcb[me].stat = {}
      /\ tcb[me].pend = "OK" => OSTCBFlagNode[me] = NoNode
    BY <1>0, <1>1, WaitIsOver DEF BackFromWait
<1>3. /\ tcb' \in [Tasks -> TCBs] /\ \A t \in Tasks \ {me} : tcb'[t] = tcb[t]
      /\ tcb'[me].prio = tcb[me].prio /\ tcb'[me].stat = {}
      /\ tcb'[me].dly = tcb[me].dly /\ tcb'[me].ev = Null /\ tcb'[me].multi = {}
    <2>1. CASE tcb' = [tcb EXCEPT ![me] = [tcb[me] EXCEPT !.stat = {}, !.pend = "OK"]]
        <3> DEFINE v == [tcb[me] EXCEPT !.stat = {}, !.pend = "OK"]
        <3>1. /\ v \in TCBs /\ v.prio = tcb[me].prio /\ v.stat = {}
              /\ v.dly = tcb[me].dly /\ v.ev = tcb[me].ev /\ v.multi = tcb[me].multi
            BY <1>1 DEF TCBs
        <3>2. tcb' = [tcb EXCEPT ![me] = v]
            BY <2>1
        <3> HIDE DEF v
        <3> QED BY <1>1, <1>2, <3>1, <3>2
    <2>2. CASE tcb' = tcb
        BY <1>1, <1>2, <2>2
    <2> QED BY <1>0, <2>1, <2>2 DEF FlagReturn
<1>4. SamePrios
    BY <1>3 DEF SamePrios, FlagReturn, restVars
<1>5. /\ pc' \in [Tasks -> PCs] /\ \A t \in Tasks \ {me} : pc'[t] = pc[t]
      /\ pc'[me].at = "task"
    <2>1. pc \in [Tasks -> PCs] /\ InTask \in PCs /\ InTask.at = "task"
        BY DEF TasksInv, Typed, PCs, InTask
    <2> QED BY <1>0, <1>1, <2>1 DEF FlagReturn
<1>6. /\ OSTCBFlagNode' \in [Tasks -> Nodes \cup {NoNode}] /\ OSTCBFlagNode'[me] = NoNode
      /\ \A t \in Tasks \ {me} : OSTCBFlagNode'[t] = OSTCBFlagNode[t]
    BY <1>0, <1>1, <1>2 DEF FlagReturn
<1>7. UNCHANGED <<event, OSRdyTbl, OSTCBFreeList>>
    BY DEF FlagReturn, restVars
<1>8. ASSUME NEW t \in Live \ {me} PROVE SameBlock(t) /\ SameLists(t) /\ GoesOn(t)
    <2>1. t \in Tasks /\ tcb'[t] = tcb[t] /\ pc'[t] = pc[t] /\ OSTCBFlagNode'[t] = OSTCBFlagNode[t]
        BY <1>3, <1>5, <1>6 DEF Live
    <2> QED BY <1>7, <2>1 DEF SameBlock, SameLists, GoesOn, In
<1>9. TaskWell(me)'
    <2>1. AtEase(me)'
        BY <1>2, <1>3, <1>5, <1>6, <1>7 DEF AtEase, In
    <2>2. Free(me)'
        BY <1>2, <1>3 DEF Free, Suspended
    <2> QED BY <1>2, <1>3, <1>7, <2>1, <2>2 DEF TaskWell
<1>10. TasksInv'
    <2>1. \A t \in Tasks \ Live : OSTCBFlagNode'[t] = NoNode
        BY <1>1, <1>6 DEF TasksInv, Typed
    <2>2. OSRdyTbl' \subseteq PriosOf(Live) /\ \A e \in Events : event'[e].wait \subseteq PriosOf(Live)
        BY <1>7 DEF TasksInv, Typed
    <2> QED BY <1>3, <1>4, <1>5, <1>6, <1>7, <1>8, <1>9, <2>1, <2>2, OneMoves
<1> QED BY <1>4, <1>10

-----------------------------------------------------------------------------
(* One block changes, and no list but the ready list. *)
OneBlock(me, v) ==
    /\ v \in TCBs /\ v.prio = tcb[me].prio
    /\ tcb' = [tcb EXCEPT ![me] = v]
    /\ OSRdyTbl' \in {OSRdyTbl, OSRdyTbl \cup {tcb[me].prio}, OSRdyTbl \ {tcb[me].prio}}
    /\ UNCHANGED <<event, OSTCBPrioTbl, OSTCBFreeList, OSTCBFlagNode, load>>
    /\ AllGoOn

LEMMA OneBlockMoves ==
    ASSUME TasksInv, NEW me \in Live, NEW v, OneBlock(me, v)
    PROVE  /\ SamePrios /\ tcb'[me] = v /\ In(me)' = In(me)
           /\ TaskWell(me)' => TasksInv'
<1>1. me \in Tasks /\ tcb \in [Tasks -> TCBs]
    BY DEF Live, TasksInv, Typed
<1>2. /\ tcb' \in [Tasks -> TCBs] /\ tcb'[me] = v
      /\ \A t \in Tasks \ {me} : tcb'[t] = tcb[t]
    BY <1>1 DEF OneBlock
<1>3. SamePrios
    BY <1>2 DEF SamePrios, OneBlock
<1>4. ASSUME NEW t \in Live \ {me} PROVE SameBlock(t) /\ SameLists(t) /\ GoesOn(t)
    <2>1. t \in Tasks /\ tcb'[t] = tcb[t]
        BY <1>2 DEF Live
    <2>2. tcb[t].prio # tcb[me].prio
        BY OnePerPrio
    <2>3. In(t)' = In(t) /\ \A e \in In(t) : event'[e].type = event[e].type
        BY <2>1 DEF In, OneBlock
    <2>4. tcb'[t].prio \in OSRdyTbl' <=> tcb[t].prio \in OSRdyTbl
        BY <2>1, <2>2 DEF OneBlock
    <2> QED BY <2>1, <2>3, <2>4 DEF SameBlock, SameLists, OneBlock, AllGoOn
<1>5. In(me)' = In(me)
    BY <1>2 DEF In, OneBlock
<1>6. /\ pc' \in [Tasks -> PCs] /\ OSTCBFlagNode' \in [Tasks -> Nodes \cup {NoNode}]
      /\ \A t \in Tasks \ Live : OSTCBFlagNode'[t] = NoNode
      /\ \A e \in Events : event'[e].wait \subseteq PriosOf(Live)
    BY DEF TasksInv, Typed, OneBlock, AllGoOn
<1>7. OSRdyTbl' \subseteq PriosOf(Live)
    <2>1. tcb[me].prio \in PriosOf(Live)
        BY DEF PriosOf
    <2> QED BY <2>1 DEF TasksInv, Typed, OneBlock
<1>8. TaskWell(me)' => TasksInv'
    BY <1>2, <1>3, <1>4, <1>6, <1>7, OneMoves DEF OneBlock
<1> QED BY <1>2, <1>3, <1>5, <1>8

LEMMA ExpiredBlock ==
    ASSUME NEW block \in TCBs
    PROVE  Expired(block) \in TCBs /\ Expired(block).prio = block.prio
<1> DEFINE pend == IF block.stat \cap PendBits # {} THEN "TO" ELSE "OK"
           stat == block.stat \ PendBits
<1>1. pend \in {"OK", "TO", "ABORT"} /\ stat \in SUBSET StatBits /\ 0 \in 0 .. MaxDelay
    BY CoreAssumption DEF TCBs
<1>2. Expired(block) = [block EXCEPT !.dly = 0, !.stat = stat, !.pend = pend]
    BY DEF Expired
<1> HIDE DEF pend, stat
<1> QED BY <1>1, <1>2 DEF TCBs

(* A wait with a timeout, or a delay, is at its end. *)
LEMMA ExpiredWell ==
    ASSUME NEW t, TaskWell(t), tcb[t] \in TCBs, tcb[t].dly # 0,
           tcb'[t] = Expired(tcb[t]), OSTCBFlagNode'[t] = OSTCBFlagNode[t],
           In(t)' = In(t), \A e \in Events : event'[e].type = event[e].type,
           GoesOn(t), load' = load,
           tcb[t].prio \in OSRdyTbl' <=> (tcb[t].prio \in OSRdyTbl \/ ~Suspended(t))
    PROVE  TaskWell(t)'
<1> DEFINE pend == IF tcb[t].stat \cap PendBits # {} THEN "TO" ELSE "OK"
<1>1. /\ tcb'[t].prio = tcb[t].prio /\ tcb'[t].dly = 0 /\ tcb'[t].stat = tcb[t].stat \ PendBits
      /\ tcb'[t].pend = pend /\ tcb'[t].ev = tcb[t].ev /\ tcb'[t].multi = tcb[t].multi
    BY DEF TCBs, Expired
<1> HIDE DEF pend
<1>2. Pending(t)' = {} /\ (Suspended(t)' <=> Suspended(t))
    BY <1>1 DEF Pending, Suspended, PendBits
<1>3. Pending(t) # {} => pend = "TO"
    BY DEF pend, Pending
<1>4. ~Free(t)
    BY DEF Free
<1>5. tcb'[t].prio \in OSRdyTbl' <=> ~Suspended(t)
    BY <1>1, <1>4 DEF TaskWell
<1>6. CanCall("OSEventPendMulti")' = CanCall("OSEventPendMulti")
    BY DEF CanCall, L
<1>7. CASE AtEase(t)
    <2>1. AtEase(t)'
        BY <1>1, <1>7 DEF AtEase, GoesOn
    <2>2. Free(t)' <=> ~Suspended(t)
        BY <1>1, <1>2, <1>7 DEF AtEase, Free, PendBits, Suspended
    <2> QED BY <1>5, <2>1, <2>2 DEF TaskWell
<1>8. CASE OnOne(t)
    <2>1. In(t) = {tcb[t].ev} /\ event[tcb[t].ev].type = pc[t].op /\ Pending(t) = {pc[t].op}
        BY <1>8 DEF OnOne, TimedOutNow
    <2>2. TimedOutNow(t)'
        BY <1>1, <1>2, <1>3, <2>1 DEF TimedOutNow
    <2>3. tcb'[t].stat \subseteq {"SUSPEND"}
        BY <1>1, <1>8 DEF OnOne, PendBits
    <2>4. OnOne(t)'
        <3>1. Inside(t)' /\ pc'[t].op = pc[t].op /\ pc'[t].on = pc[t].on
            BY <1>8 DEF OnOne, Inside, GoesOn
        <3> QED BY <1>1, <1>8, <2>1, <2>2, <2>3, <3>1 DEF OnOne
    <2>5. Free(t)' <=> ~Suspended(t)
        BY <1>1, <1>2, <1>8, <2>3 DEF OnOne, Free, Suspended
    <2> QED BY <1>5, <2>4, <2>5 DEF TaskWell
<1>9. CASE OnSeveral(t)
    <2>1. In(t) = Events /\ tcb[t].ev = Null /\ Pending(t) # {} /\ \A e \in Events : event[e].type # "UNUSED"
        BY <1>9 DEF OnSeveral, TimedOutNow
    <2>2. TimedOutNow(t)'
        BY <1>1, <1>2, <1>3, <2>1 DEF TimedOutNow
    <2>3. OnSeveral(t)'
        <3>1. Inside(t)' /\ pc'[t].op = pc[t].op /\ pc'[t].on = pc[t].on
            BY <1>9 DEF OnSeveral, Inside, GoesOn
        <3> QED BY <1>1, <1>2, <1>6, <1>9, <2>1, <2>2, <3>1 DEF OnSeveral
    <2>4. Free(t)' /\ ~Suspended(t)
        BY <1>1, <1>2, <1>3, <1>9, <2>1, CoreAssumption DEF OnSeveral, Free
    <2> QED BY <1>5, <2>3, <2>4 DEF TaskWell
<1>10. CASE OnFlags(t)
    <2>1. PICK g \in Groups : pc[t].on = {g} /\ OSTCBFlagNode[t].grp = g /\ Pending(t) = {"FLAG"}
        BY <1>10 DEF OnFlags, TimedOutNow
    <2>2. TimedOutNow(t)'
        BY <1>1, <1>2, <1>3, <2>1 DEF TimedOutNow
    <2>3. tcb'[t].stat \subseteq {"SUSPEND"}
        BY <1>1, <1>10 DEF OnFlags, PendBits
    <2>4. OnFlags(t)'
        <3>1. Inside(t)' /\ pc'[t].op = pc[t].op /\ pc'[t].on = pc[t].on
            BY <1>10 DEF OnFlags, Inside, GoesOn
        <3> QED BY <1>1, <1>10, <2>1, <2>2, <2>3, <3>1 DEF OnFlags
    <2>5. Free(t)' <=> ~Suspended(t)
        BY <1>1, <1>2, <1>10, <2>3 DEF OnFlags, Free, Suspended
    <2> QED BY <1>5, <2>4, <2>5 DEF TaskWell
<1> QED BY <1>7, <1>8, <1>9, <1>10 DEF TaskWell

LEMMA TickStays ==
    ASSUME TasksInv, OSTimeTick, UNCHANGED <<OSTCBFlagNode, load>>
    PROVE  TasksInv' /\ SamePrios /\ OSRdyTbl \subseteq OSRdyTbl'
<1>1. tcb \in [Tasks -> TCBs] /\ Live \subseteq Tasks
    BY DEF Live, TasksInv, Typed
<1>2. tcb' = [t \in Tasks |->
                 IF t \notin Live \/ tcb[t].dly = 0 THEN tcb[t]
                 ELSE IF t \in Expiring THEN Expired(tcb[t])
                 ELSE [tcb[t] EXCEPT !.dly = @ - 1]]
    BY DEF OSTimeTick
<1>3. \A t \in Tasks : t \in Expiring <=> t \in Live /\ tcb[t].dly = 1
    BY <1>1 DEF Expiring
<1>4. ASSUME NEW t \in Tasks
      PROVE  tcb'[t] \in TCBs /\ tcb'[t].prio = tcb[t].prio
    <2>1. tcb[t] \in TCBs
        BY <1>1
    <2>2. Expired(tcb[t]) \in TCBs /\ Expired(tcb[t]).prio = tcb[t].prio
        BY <2>1, ExpiredBlock
    <2>3. ASSUME tcb[t].dly # 0
          PROVE  [tcb[t] EXCEPT !.dly = @ - 1] \in TCBs
        BY <2>1, <2>3, CoreAssumption DEF TCBs
    <2>4. [tcb[t] EXCEPT !.dly = @ - 1].prio = tcb[t].prio
        BY <2>1 DEF TCBs
    <2> QED BY <1>2, <2>1, <2>2, <2>3, <2>4
<1>5. tcb' \in [Tasks -> TCBs]
    <2>1. tcb' = [t \in Tasks |-> tcb'[t]]
        BY <1>2
    <2> QED BY <1>4, <2>1
<1>6. SamePrios
    BY <1>4 DEF SamePrios, OSTimeTick, restVars
<1>7. UNCHANGED <<event, pc, OSTCBFreeList>>
    BY DEF OSTimeTick, restVars
<1>8. ASSUME NEW t \in Tasks
      PROVE  In(t)' = In(t) /\ GoesOn(t)
    BY <1>4, <1>7 DEF In, GoesOn
<1>9. \A t \in Live : tcb[t].prio \in OSRdyTbl'
                          <=> (tcb[t].prio \in OSRdyTbl \/ (t \in Expiring /\ ~Suspended(t)))
    <2>1. \A t, u \in Live : tcb[t].prio = tcb[u].prio => t = u
        BY OnePerPrio
    <2>2. OSRdyTbl' = OSRdyTbl \cup {tcb[t].prio : t \in {x \in Expiring : ~Suspended(x)}}
        BY DEF OSTimeTick, MadeReady
    <2> QED BY <1>1, <1>3, <2>1, <2>2 DEF Expiring
<1>10. ASSUME NEW t \in Live
       PROVE  TaskWell(t)'
    <2>1. t \in Tasks /\ tcb[t] \in TCBs /\ TaskWell(t)
        BY <1>1 DEF TasksInv
    <2>2. CASE tcb[t].dly = 0
        <3>1. tcb'[t] = tcb[t] /\ t \notin Expiring
            BY <1>2, <1>3, <2>1, <2>2
        <3>2. SameLists(t)
            BY <1>7, <1>8, <1>9, <2>1, <3>1 DEF SameLists
        <3> QED BY <1>8, <2>1, <3>1, <3>2, SameTask DEF SameBlock
    <2>3. CASE tcb[t].dly = 1
        <3>1. tcb'[t] = Expired(tcb[t]) /\ t \in Expiring
            BY <1>2, <1>3, <2>1, <2>3
        <3> QED BY <1>7, <1>8, <1>9, <2>1, <2>3, <3>1, ExpiredWell
    <2>4. CASE tcb[t].dly \notin {0, 1}
        <3>1. tcb'[t] = [tcb[t] EXCEPT !.dly = @ - 1] /\ t \notin Expiring
            BY <1>2, <1>3, <2>1, <2>4
        <3>2. /\ tcb'[t].prio = tcb[t].prio /\ tcb'[t].stat = tcb[t].stat /\ tcb'[t].pend = tcb[t].pend
              /\ tcb'[t].dly # 0 /\ tcb[t].dly # 0 /\ tcb'[t].ev = tcb[t].ev /\ tcb'[t].multi = tcb[t].multi
            BY <2>1, <2>4, <3>1, CoreAssumption DEF TCBs
        <3>3. ~Free(t) /\ ~Free(t)' /\ ~TimedOutNow(t)
            BY <3>2 DEF Free, TimedOutNow
        <3>4. tcb'[t].prio \notin OSRdyTbl'
            BY <1>9, <2>1, <3>1, <3>2, <3>3 DEF TaskWell
        <3>5. Pending(t)' = Pending(t) /\ Suspended(t)' = Suspended(t) /\ In(t)' = In(t) /\ UNCHANGED <<event, pc>>
              /\ OSTCBFlagNode'[t] = OSTCBFlagNode[t]
              /\ CanCall("OSEventPendMulti")' = CanCall("OSEventPendMulti")
            BY <1>7, <1>8, <2>1, <3>2 DEF Pending, Suspended, CanCall, L
        <3>6. AtEase(t) => AtEase(t)'
            BY <3>2, <3>5 DEF AtEase
        <3>7. OnOne(t) => OnOne(t)'
            BY <3>2, <3>3, <3>5 DEF OnOne, Inside
        <3>8. OnSeveral(t) => OnSeveral(t)'
            BY <3>2, <3>3, <3>5 DEF OnSeveral, Inside
        <3>9. OnFlags(t) => OnFlags(t)'
            BY <3>2, <3>3, <3>5 DEF OnFlags, Inside
        <3> QED BY <2>1, <3>3, <3>4, <3>6, <3>7, <3>8, <3>9 DEF TaskWell
    <2> QED BY <2>2, <2>3, <2>4
<1>11. OSRdyTbl' \subseteq PriosOf(Live) /\ OSRdyTbl \subseteq OSRdyTbl'
    <2>1. MadeReady(Expiring) \subseteq PriosOf(Live)
        BY <1>1, <1>3 DEF MadeReady, PriosOf, Expiring
    <2> QED BY <2>1 DEF OSTimeTick, TasksInv, Typed
<1>12. /\ pc' \in [Tasks -> PCs] /\ OSTCBFlagNode' \in [Tasks -> Nodes \cup {NoNode}]
       /\ \A t \in Tasks \ Live : OSTCBFlagNode'[t] = NoNode
       /\ \A e \in Events : event'[e].wait \subseteq PriosOf(Live)
    BY <1>7 DEF TasksInv, Typed
<1>13. TasksInv'
    <2>1. \A t \in Live \ Live : SameBlock(t) /\ SameLists(t) /\ GoesOn(t)
        OBVIOUS
    <2>2. \A t \in Live \cap Live : TaskWell(t)'
        BY <1>10
    <2> QED BY <1>5, <1>6, <1>7, <1>11, <1>12, <2>1, <2>2, SomeMove
<1> QED BY <1>6, <1>11, <1>13

-----------------------------------------------------------------------------
(* The services of os_task.c and os_time.c that a settled application uses.*)

LEMMA DlyStays ==
    ASSUME TasksInv, OSTCBCur \in Live, pc[OSTCBCur].at = "task", AllGoOn,
           NEW ticks \in 1 .. MaxDelay, OSTimeDly(ticks), UNCHANGED <<OSTCBFlagNode, load>>
    PROVE  TasksInv' /\ SamePrios
<1>0. PICK me \in Live : me = OSTCBCur
    OBVIOUS
<1>1. me \in Tasks /\ tcb[me] \in TCBs /\ TaskWell(me)
    BY DEF TasksInv, Typed, Live
<1> DEFINE v == [tcb[me] EXCEPT !.dly = ticks]
<1>2. /\ v \in TCBs /\ v.prio = tcb[me].prio /\ v.stat = tcb[me].stat /\ v.dly # 0
      /\ v.ev = tcb[me].ev /\ v.multi = tcb[me].multi
    BY <1>1, CoreAssumption DEF TCBs
<1>3. tcb' = [tcb EXCEPT ![me] = v]
    BY <1>0 DEF OSTimeDly
<1> HIDE DEF v
<1>4. OneBlock(me, v)
    BY <1>0, <1>2, <1>3 DEF OneBlock, OSTimeDly, restVars
<1>5. SamePrios /\ tcb'[me] = v /\ In(me)' = In(me) /\ (TaskWell(me)' => TasksInv')
    BY <1>4, OneBlockMoves
<1>6. AtEase(me)'
    <2>1. AtEase(me) /\ pc'[me].at \in {"task", "sched"}
        BY <1>0, <1>1, AtEaseWhenFree DEF AllGoOn, GoesOn
    <2> QED BY <1>2, <1>5, <2>1 DEF AtEase
<1>7. ~Free(me)' /\ tcb'[me].prio \notin OSRdyTbl'
    BY <1>0, <1>2, <1>5 DEF Free, OSTimeDly
<1> QED BY <1>5, <1>6, <1>7 DEF TaskWell

LEMMA DlyResumeStays ==
    ASSUME TasksInv, AllGoOn, NEW t, OSTimeDlyResume(t), UNCHANGED <<OSTCBFlagNode, load>>
    PROVE  TasksInv' /\ SamePrios
<1>1. t \in Live /\ t \in Tasks /\ tcb[t] \in TCBs /\ TaskWell(t) /\ tcb[t].dly # 0
    BY DEF TasksInv, Typed, Live, OSTimeDlyResume
<1>2. tcb' = [tcb EXCEPT ![t] = Expired(tcb[t])] /\ Expired(tcb[t]) \in TCBs
      /\ Expired(tcb[t]).prio = tcb[t].prio
    BY <1>1, ExpiredBlock DEF OSTimeDlyResume
<1>3. OSRdyTbl' = IF Suspended(t) THEN OSRdyTbl ELSE OSRdyTbl \cup {tcb[t].prio}
    BY DEF OSTimeDlyResume, MadeReady
<1>4. UNCHANGED <<event, OSTCBPrioTbl, OSTCBFreeList>>
    BY DEF OSTimeDlyResume, restVars
<1>5. OneBlock(t, Expired(tcb[t]))
    BY <1>2, <1>3, <1>4 DEF OneBlock
<1>6. SamePrios /\ tcb'[t] = Expired(tcb[t]) /\ In(t)' = In(t) /\ (TaskWell(t)' => TasksInv')
    BY <1>1, <1>5, OneBlockMoves
<1>7. tcb[t].prio \in OSRdyTbl' <=> (tcb[t].prio \in OSRdyTbl \/ ~Suspended(t))
    BY <1>3
<1>8. GoesOn(t)
    BY <1>1 DEF AllGoOn
<1> QED BY <1>1, <1>4, <1>6, <1>7, <1>8, ExpiredWell

LEMMA DelReqStays ==
    ASSUME TasksInv, AllGoOn, NEW t, OSTaskDelReq(t), UNCHANGED <<OSTCBFlagNode, load>>
    PROVE  TasksInv' /\ SamePrios
<1>1. t \in Live /\ t \in Tasks /\ tcb[t] \in TCBs /\ TaskWell(t)
    BY DEF TasksInv, Typed, Live, OSTaskDelReq
<1> DEFINE v == [tcb[t] EXCEPT !.delreq = TRUE]
<1>2. /\ v \in TCBs /\ v.prio = tcb[t].prio /\ v.stat = tcb[t].stat /\ v.dly = tcb[t].dly
      /\ v.ev = tcb[t].ev /\ v.multi = tcb[t].multi /\ v.pend = tcb[t].pend
    BY <1>1 DEF TCBs
<1>3. tcb' = [tcb EXCEPT ![t] = v]
    BY DEF OSTaskDelReq
<1> HIDE DEF v
<1>4. UNCHANGED <<event, OSRdyTbl>> /\ OneBlock(t, v)
    BY <1>2, <1>3 DEF OneBlock, OSTaskDelReq, restVars
<1>5. SamePrios /\ tcb'[t] = v /\ In(t)' = In(t) /\ (TaskWell(t)' => TasksInv')
    BY <1>1, <1>4, OneBlockMoves
<1>6. SameBlock(t) /\ SameLists(t) /\ GoesOn(t)
    BY <1>1, <1>2, <1>4, <1>5 DEF SameBlock, SameLists, AllGoOn
<1> QED BY <1>1, <1>5, <1>6, SameTask

(* Suspending and resuming: the bits but for this one are left alone.      *)
LEMMA OtherBits ==
    ASSUME NEW t, TaskWell(t), ~OnSeveral(t), GoesOn(t), load' = load,
           In(t)' = In(t), UNCHANGED event, OSTCBFlagNode'[t] = OSTCBFlagNode[t],
           tcb'[t].pend = tcb[t].pend, tcb'[t].dly = tcb[t].dly,
           tcb'[t].ev = tcb[t].ev, tcb'[t].multi = tcb[t].multi,
           Pending(t)' = Pending(t), tcb'[t].stat \ {"SUSPEND"} = tcb[t].stat \ {"SUSPEND"}
    PROVE  AtEase(t)' \/ OnOne(t)' \/ OnFlags(t)'
<1>1. TimedOutNow(t)' = TimedOutNow(t)
    BY DEF TimedOutNow
<1>2. CASE AtEase(t)
    BY <1>2 DEF AtEase, GoesOn
<1>3. CASE OnOne(t)
    <2>1. Inside(t)' /\ pc'[t].op = pc[t].op /\ pc'[t].on = pc[t].on
        BY <1>3 DEF OnOne, Inside, GoesOn
    <2> QED BY <1>1, <1>3, <2>1 DEF OnOne
<1>4. CASE OnFlags(t)
    <2>1. Inside(t)' /\ pc'[t].op = pc[t].op /\ pc'[t].on = pc[t].on
        BY <1>4 DEF OnFlags, Inside, GoesOn
    <2> QED BY <1>1, <1>4, <2>1 DEF OnFlags
<1> QED BY <1>2, <1>3, <1>4 DEF TaskWell

LEMMA SuspendStays ==
    ASSUME TasksInv, AllGoOn, Settled, CanCall("OSTaskSuspend"),
           NEW t, OSTaskSuspend(t), UNCHANGED <<OSTCBFlagNode, load>>
    PROVE  TasksInv' /\ SamePrios
<1>1. t \in Live /\ t \in Tasks /\ tcb[t] \in TCBs /\ TaskWell(t) /\ ~OnSeveral(t)
    BY DEF TasksInv, Typed, Live, OSTaskSuspend, Settled, OnSeveral
<1> DEFINE v == [tcb[t] EXCEPT !.stat = tcb[t].stat \cup {"SUSPEND"}]
<1>2. /\ v \in TCBs /\ v.prio = tcb[t].prio /\ v.stat = tcb[t].stat \cup {"SUSPEND"} /\ v.dly = tcb[t].dly
      /\ v.ev = tcb[t].ev /\ v.multi = tcb[t].multi /\ v.pend = tcb[t].pend
    BY <1>1 DEF TCBs, StatBits
<1>3. tcb' = [tcb EXCEPT ![t] = v]
    BY DEF OSTaskSuspend
<1> HIDE DEF v
<1>4. OneBlock(t, v)
    BY <1>2, <1>3 DEF OneBlock, OSTaskSuspend, restVars
<1>5. SamePrios /\ tcb'[t] = v /\ In(t)' = In(t) /\ (TaskWell(t)' => TasksInv')
    BY <1>1, <1>4, OneBlockMoves
<1>6. Pending(t)' = Pending(t) /\ tcb'[t].stat \ {"SUSPEND"} = tcb[t].stat \ {"SUSPEND"}
    BY <1>2, <1>5 DEF Pending, PendBits
<1>7. AtEase(t)' \/ OnOne(t)' \/ OnFlags(t)'
    <2>1. GoesOn(t) /\ UNCHANGED event
        BY <1>1 DEF AllGoOn, OSTaskSuspend
    <2> QED BY <1>1, <1>2, <1>5, <1>6, <2>1, OtherBits
<1>8. ~Free(t)' /\ tcb'[t].prio \notin OSRdyTbl'
    BY <1>2, <1>5 DEF Free, Suspended, OSTaskSuspend
<1> QED BY <1>5, <1>7, <1>8 DEF TaskWell

LEMMA ResumeStays ==
    ASSUME TasksInv, AllGoOn, NEW t, OSTaskResume(t), UNCHANGED <<OSTCBFlagNode, load>>
    PROVE  TasksInv' /\ SamePrios
<1>1. t \in Live /\ t \in Tasks /\ tcb[t] \in TCBs /\ TaskWell(t) /\ ~OnSeveral(t) /\ Suspended(t)
    BY DEF TasksInv, Typed, Live, OSTaskResume, OnSeveral
<1> DEFINE v == [tcb[t] EXCEPT !.stat = tcb[t].stat \ {"SUSPEND"}]
<1>2. /\ v \in TCBs /\ v.prio = tcb[t].prio /\ v.stat = tcb[t].stat \ {"SUSPEND"} /\ v.dly = tcb[t].dly
      /\ v.ev = tcb[t].ev /\ v.multi = tcb[t].multi /\ v.pend = tcb[t].pend
    BY <1>1 DEF TCBs, StatBits
<1>3. tcb' = [tcb EXCEPT ![t] = v]
    BY DEF OSTaskResume
<1> HIDE DEF v
<1>4. OneBlock(t, v)
    BY <1>2, <1>3 DEF OneBlock, OSTaskResume, restVars
<1>5. SamePrios /\ tcb'[t] = v /\ In(t)' = In(t) /\ (TaskWell(t)' => TasksInv')
    BY <1>1, <1>4, OneBlockMoves
<1>6. Pending(t)' = Pending(t) /\ tcb'[t].stat \ {"SUSPEND"} = tcb[t].stat \ {"SUSPEND"}
    BY <1>2, <1>5 DEF Pending, PendBits
<1>7. AtEase(t)' \/ OnOne(t)' \/ OnFlags(t)'
    <2>1. GoesOn(t) /\ UNCHANGED event
        BY <1>1 DEF AllGoOn, OSTaskResume
    <2> QED BY <1>1, <1>2, <1>5, <1>6, <2>1, OtherBits
<1>8. Free(t)' <=> Resumable(t)
    <2>1. tcb'[t].multi = {}
        BY <1>7 DEF AtEase, OnOne, OnFlags
    <2> QED BY <1>2, <1>5, <2>1 DEF Free, Suspended, Resumable
<1>9. tcb'[t].prio \in OSRdyTbl' <=> Resumable(t)
    <2>1. tcb[t].prio \notin OSRdyTbl
        BY <1>1 DEF TaskWell, Free
    <2> QED BY <1>2, <1>5, <2>1 DEF OSTaskResume
<1> QED BY <1>5, <1>7, <1>8, <1>9 DEF TaskWell

-----------------------------------------------------------------------------
(* Event flags. *)

LEMMA FlagWaitersWait ==
    ASSUME TasksInv, OSTCBCur \in Live, pc[OSTCBCur].at = "task", tcb[OSTCBCur].prio \in OSRdyTbl,
           NEW g \in Groups, NEW want \in SUBSET Flags, NEW type \in WaitTypes,
           NEW timeout \in 0 .. MaxDelay, NEW op \in FlagOps,
           OS_FlagBlock(g, want, type, timeout), Pended(op, {g}),
           UNCHANGED <<event, OSTCBPrioTbl, OSTCBFreeList, load>>
    PROVE  TasksInv' /\ SamePrios /\ tcb[OSTCBCur].prio \notin OSRdyTbl'
<1>0. PICK me \in Live : me = OSTCBCur
    OBVIOUS
<1>1. me \in Tasks /\ tcb \in [Tasks -> TCBs] /\ tcb[me] \in TCBs /\ TaskWell(me)
    BY DEF TasksInv, Typed, Live
<1>2. AtEase(me) /\ tcb[me].stat = {} /\ tcb[me].multi = {} /\ In(me) = {} /\ tcb[me].ev = Null
    BY <1>0, <1>1, AtEaseWhenFree DEF AtEase
<1> DEFINE v == [tcb[me] EXCEPT !.stat = tcb[me].stat \cup {"FLAG"}, !.pend = "OK", !.dly = timeout]
<1>3. /\ v \in TCBs /\ v.prio = tcb[me].prio /\ v.stat = {"FLAG"} /\ v.pend = "OK"
      /\ v.ev = Null /\ v.multi = {}
    BY <1>1, <1>2 DEF TCBs, StatBits, PendBits
<1>4. tcb' = [tcb EXCEPT ![me] = v]
    BY <1>0 DEF OS_FlagBlock
<1> HIDE DEF v
<1>5. /\ tcb' \in [Tasks -> TCBs] /\ tcb'[me] = v
      /\ \A t \in Tasks \ {me} : tcb'[t] = tcb[t]
    BY <1>1, <1>3, <1>4
<1>6. SamePrios
    BY <1>3, <1>5 DEF SamePrios
<1>7. /\ pc' \in [Tasks -> PCs] /\ \A t \in Tasks \ {me} : pc'[t] = pc[t]
      /\ pc'[me].at = "pended" /\ pc'[me].op = op /\ pc'[me].on = {g}
    <2> DEFINE w == [at |-> "pended", op |-> op, on |-> {g}]
    <2>1. pc \in [Tasks -> PCs] /\ pc' = [pc EXCEPT ![me] = w]
        BY <1>0 DEF TasksInv, Typed, Pended
    <2>2. w \in PCs /\ w.at = "pended" /\ w.op = op /\ w.on = {g}
        BY DEF PCs, FlagOps
    <2> HIDE DEF w
    <2> QED BY <1>1, <2>1, <2>2
<1>8. /\ OSTCBFlagNode' \in [Tasks -> Nodes \cup {NoNode}] /\ OSTCBFlagNode'[me].grp = g
      /\ \A t \in Tasks \ {me} : OSTCBFlagNode'[t] = OSTCBFlagNode[t]
    <2> DEFINE w == [grp |-> g, want |-> want, type |-> type]
    <2>1. OSTCBFlagNode \in [Tasks -> Nodes \cup {NoNode}] /\ OSTCBFlagNode' = [OSTCBFlagNode EXCEPT ![me] = w]
        BY <1>0 DEF TasksInv, Typed, OS_FlagBlock
    <2>2. w \in Nodes /\ w.grp = g
        BY DEF Nodes
    <2> HIDE DEF w
    <2> QED BY <1>1, <2>1, <2>2
<1>9. OSRdyTbl' = OSRdyTbl \ {tcb[me].prio}
    BY <1>0 DEF OS_FlagBlock
<1>10. ASSUME NEW t \in Live \ {me} PROVE SameBlock(t) /\ SameLists(t) /\ GoesOn(t)
    <2>1. t \in Tasks /\ tcb'[t] = tcb[t] /\ pc'[t] = pc[t] /\ OSTCBFlagNode'[t] = OSTCBFlagNode[t]
        BY <1>5, <1>7, <1>8 DEF Live
    <2>2. tcb[t].prio # tcb[me].prio
        BY OnePerPrio
    <2> QED BY <1>9, <2>1, <2>2 DEF SameBlock, SameLists, GoesOn, In
<1>11. TaskWell(me)'
    <2>1. Pending(me)' = {"FLAG"} /\ Inside(me)' /\ In(me)' = {}
        BY <1>2, <1>3, <1>5, <1>7 DEF Pending, PendBits, Inside, In
    <2>2. OnFlags(me)'
        BY <1>3, <1>5, <1>7, <1>8, <2>1 DEF OnFlags
    <2>3. ~Free(me)' /\ tcb'[me].prio \notin OSRdyTbl'
        BY <1>3, <1>5, <1>9 DEF Free
    <2> QED BY <2>2, <2>3 DEF TaskWell
<1>12. /\ \A t \in Tasks \ Live : OSTCBFlagNode'[t] = NoNode
       /\ OSRdyTbl' \subseteq PriosOf(Live)
       /\ \A e \in Events : event'[e].wait \subseteq PriosOf(Live)
    BY <1>8, <1>9 DEF TasksInv, Typed
<1>13. TasksInv'
    BY <1>5, <1>6, <1>7, <1>8, <1>10, <1>11, <1>12, OneMoves
<1> QED BY <1>0, <1>6, <1>9, <1>13

(* OS_FlagTaskRdy, for any of those in the list of a group. *)
LEMMA FlagWokenStop ==
    ASSUME TasksInv, AllGoOn, NEW g \in Groups, NEW woken \in SUBSET FlagWaiters(g), NEW rdy,
           OS_FlagTaskRdy(woken, rdy),
           UNCHANGED <<event, OSTCBPrioTbl, OSTCBFreeList, load>>
    PROVE  TasksInv' /\ SamePrios /\ OSRdyTbl \subseteq OSRdyTbl'
<1>1. tcb \in [Tasks -> TCBs] /\ Live \subseteq Tasks /\ OSTCBFlagNode \in [Tasks -> Nodes \cup {NoNode}]
    BY DEF TasksInv, Typed, Live
<1>2. \A t \in woken : t \in Live /\ t \in Tasks /\ OSTCBFlagNode[t].grp = g /\ OSTCBFlagNode[t] # NoNode
    <2>1. g # Null
        BY FlagAssumption
    <2> QED BY <2>1 DEF FlagWaiters, NoNode, TasksInv, Typed
<1>3. ASSUME NEW t \in Tasks \ woken
      PROVE  tcb'[t] = tcb[t] /\ OSTCBFlagNode'[t] = OSTCBFlagNode[t]
    BY DEF OS_FlagTaskRdy
<1>4. ASSUME NEW t \in woken
      PROVE  /\ tcb'[t] \in TCBs /\ OSTCBFlagNode'[t] = NoNode
             /\ tcb'[t].prio = tcb[t].prio /\ tcb'[t].stat = tcb[t].stat \ {"FLAG"}
             /\ tcb'[t].pend = "OK" /\ tcb'[t].dly = 0 /\ tcb'[t].ev = tcb[t].ev
             /\ tcb'[t].multi = tcb[t].multi
    <2>1. t \in Tasks /\ tcb[t] \in TCBs /\ 0 \in 0 .. MaxDelay
        BY <1>1, <1>2, CoreAssumption
    <2> DEFINE stat == tcb[t].stat \ {"FLAG"}
    <2>2. tcb'[t] = [tcb[t] EXCEPT !.dly = 0, !.stat = stat, !.pend = "OK"] /\ OSTCBFlagNode'[t] = NoNode
        BY <2>1 DEF OS_FlagTaskRdy
    <2>3. stat \in SUBSET StatBits
        BY <2>1 DEF TCBs
    <2> HIDE DEF stat
    <2>4. /\ tcb'[t] \in TCBs /\ tcb'[t].prio = tcb[t].prio /\ tcb'[t].stat = stat
          /\ tcb'[t].pend = "OK" /\ tcb'[t].dly = 0 /\ tcb'[t].ev = tcb[t].ev
          /\ tcb'[t].multi = tcb[t].multi
        BY <2>1, <2>2, <2>3 DEF TCBs
    <2> QED BY <2>2, <2>4 DEF stat
<1>5. tcb' \in [Tasks -> TCBs] /\ OSTCBFlagNode' \in [Tasks -> Nodes \cup {NoNode}]
    <2>1. tcb' = [t \in Tasks |-> tcb'[t]] /\ OSTCBFlagNode' = [t \in Tasks |-> OSTCBFlagNode'[t]]
        BY DEF OS_FlagTaskRdy
    <2>2. \A t \in Tasks : tcb'[t] \in TCBs /\ OSTCBFlagNode'[t] \in Nodes \cup {NoNode}
        BY <1>1, <1>3, <1>4
    <2> QED BY <2>1, <2>2
<1>6. SamePrios
    BY <1>3, <1>4 DEF SamePrios
<1>7. OSRdyTbl' = OSRdyTbl \cup {tcb[t].prio : t \in {x \in woken : tcb[x].stat \ {"FLAG"} = {}}}
    BY DEF OS_FlagTaskRdy, Released
<1>8. \A t \in Live : tcb[t].prio \in OSRdyTbl'
          <=> (tcb[t].prio \in OSRdyTbl \/ (t \in woken /\ tcb[t].stat \ {"FLAG"} = {}))
    <2>1. \A t, u \in Live : tcb[t].prio = tcb[u].prio => t = u
        BY OnePerPrio
    <2> QED BY <1>2, <1>7, <2>1
<1>9. ASSUME NEW t \in Live \ woken PROVE SameBlock(t) /\ SameLists(t) /\ GoesOn(t)
    <2>1. t \in Tasks /\ tcb'[t] = tcb[t] /\ OSTCBFlagNode'[t] = OSTCBFlagNode[t] /\ GoesOn(t)
        BY <1>1, <1>3 DEF AllGoOn
    <2> QED BY <1>8, <2>1 DEF SameBlock, SameLists, In
<1>10. ASSUME NEW t \in Live \cap woken PROVE TaskWell(t)'
    <2>1. t \in Tasks /\ TaskWell(t) /\ GoesOn(t)
        BY <1>1 DEF TasksInv, AllGoOn
    <2>2. OnFlags(t)
        BY <1>2, <2>1 DEF TaskWell, AtEase, OnOne, OnSeveral
    <2>3. In(t)' = {}
        BY <1>4, <2>2 DEF In, OnFlags
    <2>4. tcb'[t].stat \subseteq {"SUSPEND"} /\ (tcb'[t].stat = {} <=> ~Suspended(t))
          /\ tcb'[t].ev = Null /\ tcb'[t].multi = {}
        BY <1>4, <2>2 DEF OnFlags, Suspended
    <2>5. Pending(t)' = {} /\ (Free(t)' <=> ~Suspended(t))
        BY <1>4, <2>4 DEF Pending, PendBits, Free, Suspended
    <2>6. OnFlags(t)'
        <3>1. Inside(t)' /\ pc'[t].op = pc[t].op /\ pc'[t].on = pc[t].on
            BY <2>1, <2>2 DEF OnFlags, Inside, GoesOn
        <3> QED BY <1>4, <2>2, <2>3, <2>4, <2>5, <3>1 DEF OnFlags
    <2>7. tcb'[t].prio \in OSRdyTbl' <=> ~Suspended(t)
        <3>1. tcb[t].prio \in OSRdyTbl => ~Suspended(t)
            BY <2>1 DEF TaskWell, Free
        <3>2. tcb[t].stat \ {"FLAG"} = {} <=> ~Suspended(t)
            BY <1>4, <2>4
        <3> QED BY <1>4, <1>8, <3>1, <3>2
    <2> QED BY <2>5, <2>6, <2>7 DEF TaskWell
<1>11. OSRdyTbl' \subseteq PriosOf(Live) /\ OSRdyTbl \subseteq OSRdyTbl'
    BY <1>2, <1>7 DEF TasksInv, Typed, PriosOf
<1>12. /\ pc' \in [Tasks -> PCs]
       /\ \A t \in Tasks \ Live : OSTCBFlagNode'[t] = NoNode
       /\ \A e \in Events : event'[e].wait \subseteq PriosOf(Live)
    BY <1>2, <1>3 DEF TasksInv, Typed, AllGoOn
<1>13. TasksInv'
    BY <1>5, <1>6, <1>9, <1>10, <1>11, <1>12, SomeMove
<1> QED BY <1>6, <1>11, <1>13

-----------------------------------------------------------------------------
(* What every service keeps of the scheduler's part: it changes no task,   *)
(* and one who calls it either goes to OS_Sched or stays the most urgent,  *)
(* unless the change is put off.                                           *)

Caller == OSIntNesting = 1 \/ (OSIntNesting = 0 /\ pc[OSTCBCur].at = "task" /\ OSTCBCur # IdleTask)

StaysIn ==
    \/ OSRdyTbl' \subseteq OSRdyTbl /\ (OSPrioCur \in OSRdyTbl => OSPrioCur \in OSRdyTbl')
    \/ OSRdyTbl \subseteq OSRdyTbl' /\ lazy'

ServiceStep ==
    /\ TasksInv' /\ SamePrios /\ Caller
    /\ UNCHANGED <<OSTCBCur, OSPrioCur, OSIntNesting, OSLockNesting>>
    /\ tcb[IdleTask].prio \in OSRdyTbl'
    /\ lazy' \in BOOLEAN /\ (lazy => lazy')
    /\ \/ UNCHANGED pc /\ (OSIntNesting = 1 \/ StaysIn)
       \/ /\ OSIntNesting = 0
          /\ pc'[OSTCBCur].at = "sched" \/ (OSLockNesting = 0 /\ pc'[OSTCBCur].at = "pended")
          /\ \A t \in Tasks \ {OSTCBCur} : pc'[t] = pc[t]

LEMMA ServiceScheduled ==
    ASSUME SettledInv, ServiceStep
    PROVE  SettledInv'
<1>1. OSTCBCur \in Live /\ OSTCBCur \in Tasks /\ IdleTask \in Live /\ IdleTask \in Tasks /\ Live' = Live
    BY SameLive DEF SettledInv, Scheduled, ServiceStep, Live
<1>2. /\ OSTCBCur' \in Live' /\ OSPrioCur' = tcb'[OSTCBCur'].prio
      /\ IdleTask \in Live' /\ tcb'[IdleTask].prio \in OSRdyTbl'
    BY <1>1 DEF SettledInv, Scheduled, ServiceStep, SamePrios
<1>3. CASE UNCHANGED pc /\ (OSIntNesting = 1 \/ StaysIn)
    <2>1. Runs' => Runs /\ StaysIn
        BY <1>3 DEF Runs, ServiceStep
    <2>2. Runs' => OSPrioCur' \in OSRdyTbl'
        BY <2>1 DEF SettledInv, Scheduled, StaysIn, ServiceStep
    <2>3. ASSUME Runs', ~lazy' PROVE OSPrioCur' = Highest(OSRdyTbl')
        <3>1. OSRdyTbl' \subseteq OSRdyTbl /\ OSPrioCur \in OSRdyTbl' /\ OSPrioCur = Highest(OSRdyTbl)
            BY <2>1, <2>2, <2>3 DEF SettledInv, Scheduled, StaysIn, ServiceStep
        <3>2. OSRdyTbl \in SUBSET Nat /\ OSRdyTbl' \in SUBSET Nat
            <4>1. PriosOf(Live) \subseteq Nat
                BY CoreAssumption DEF PriosOf, Live, Prios
            <4> QED BY <3>1, <4>1 DEF SettledInv, TasksInv, Typed
        <3>3. \A p \in OSRdyTbl : OSPrioCur <= p
            BY <3>1, <3>2, LeastExists
        <3>4. Highest(OSRdyTbl') \in OSRdyTbl' /\ Highest(OSRdyTbl') <= OSPrioCur
            BY <3>1, <3>2, LeastExists
        <3>5. PICK h \in OSRdyTbl' : h = Highest(OSRdyTbl')
            BY <3>4
        <3>6. h \in Nat /\ OSPrioCur \in Nat /\ h <= OSPrioCur /\ OSPrioCur <= h
            BY <3>1, <3>2, <3>3, <3>4, <3>5
        <3> QED BY <3>5, <3>6 DEF ServiceStep
    <2>4. Scheduled'
        BY <1>2, <1>3, <2>2, <2>3 DEF SettledInv, Scheduled, ServiceStep
    <2> QED BY <2>4 DEF SettledInv, ServiceStep
<1>4. CASE /\ OSIntNesting = 0
           /\ pc'[OSTCBCur].at = "sched" \/ (OSLockNesting = 0 /\ pc'[OSTCBCur].at = "pended")
           /\ \A t \in Tasks \ {OSTCBCur} : pc'[t] = pc[t]
    <2>1. ~Runs'
        BY <1>4 DEF Runs, ServiceStep
    <2>2. pc'[IdleTask].at = "task"
        BY <1>1, <1>4 DEF SettledInv, Scheduled, ServiceStep, Caller
    <2>3. OSLockNesting' > 0 => pc'[OSTCBCur'].at \in {"task", "sched"}
        BY <1>4 DEF ServiceStep, SettledInv, Scheduled
    <2>4. Scheduled'
        BY <1>2, <2>1, <2>2, <2>3 DEF SettledInv, Scheduled, ServiceStep
    <2> QED BY <2>4 DEF SettledInv, ServiceStep
<1> QED BY <1>3, <1>4 DEF ServiceStep

(* Who may call a service. *)
LEMMA MayCalls ==
    ASSUME SettledInv, NEW op, May(op)
    PROVE  /\ Caller /\ CanCall(op) /\ OSTCBCur \in Live /\ OSTCBCur \in Tasks
           /\ OSIntNesting = 0 => pc[OSTCBCur].at = "task" /\ op \in L.menu[OSTCBCur]
           /\ OSIntNesting = 0 /\ OSLockNesting = 0 => tcb[OSTCBCur].prio \in OSRdyTbl
<1>1. OSTCBCur \in Live /\ OSTCBCur \in Tasks /\ OSIntNesting \in 0 .. 1 /\ OSPrioCur = tcb[OSTCBCur].prio
      /\ load \in DOMAIN Workloads
    BY DEF SettledInv, Scheduled, Live, TasksInv, Typed
<1>2. CASE OSIntNesting = 0
    <2>1. pc[OSTCBCur].at = "task" /\ op \in L.menu[OSTCBCur]
        BY <1>2 DEF May
    <2>2. L.menu[IdleTask] = {}
        BY <1>1, WorkloadAssumption DEF Workload, L
    <2>3. OSLockNesting = 0 => OSPrioCur \in OSRdyTbl
        BY <1>2, <2>1 DEF SettledInv, Scheduled, Runs
    <2> QED BY <1>1, <1>2, <2>1, <2>2, <2>3 DEF Caller, CanCall
<1>3. CASE OSIntNesting = 1
    BY <1>1, <1>3 DEF May, Caller, CanCall
<1> QED BY <1>1, <1>2, <1>3

CoreKept == UNCHANGED <<OSTCBCur, OSPrioCur, OSIntNesting, OSLockNesting>>

(* The end of a service that takes no ready task away. *)
LEMMA ServiceEnds ==
    ASSUME SettledInv, Caller, TasksInv', SamePrios, CoreKept,
           OSRdyTbl \subseteq OSRdyTbl',
           CallSched \/ (Return /\ (OSRdyTbl' = OSRdyTbl \/ OSIntNesting = 1 \/ lazy')),
           lazy' \in BOOLEAN, lazy => lazy'
    PROVE  ServiceStep
<1>1. OSTCBCur \in Tasks /\ tcb[IdleTask].prio \in OSRdyTbl' /\ pc \in [Tasks -> PCs]
      /\ OSIntNesting \in 0 .. 1
    BY DEF SettledInv, Scheduled, Live, TasksInv, Typed
<1>2. CASE UNCHANGED pc /\ (OSIntNesting = 1 \/ StaysIn)
    BY <1>1, <1>2 DEF ServiceStep, CoreKept
<1>3. CASE OSIntNesting = 0 /\ pc' = [pc EXCEPT ![OSTCBCur].at = "sched"]
    <2>1. pc'[OSTCBCur].at = "sched" /\ \A t \in Tasks \ {OSTCBCur} : pc'[t] = pc[t]
        BY <1>1, <1>3 DEF PCs
    <2> QED BY <1>1, <1>3, <2>1 DEF ServiceStep, CoreKept
<1>4. CASE Return /\ (OSRdyTbl' = OSRdyTbl \/ OSIntNesting = 1 \/ lazy')
    BY <1>2, <1>4 DEF Return, StaysIn
<1>5. CASE CallSched
    BY <1>1, <1>2, <1>3, <1>5 DEF CallSched
<1> QED BY <1>4, <1>5

LEMMA PromptOrPutOff ==
    ASSUME SettledInv, Caller, Prompt \/ PutsOff
    PROVE  /\ lazy' \in BOOLEAN /\ (lazy => lazy')
           /\ PutsOff => OSRdyTbl' = OSRdyTbl \/ OSIntNesting = 1 \/ lazy'
BY DEF SettledInv, Scheduled, Caller, Prompt, PutsOff

LEMMA CallersGoOn ==
    ASSUME SettledInv, Caller
    PROVE  Return \/ CallSched => AllGoOn
<1>1. Typed /\ OSTCBCur \in Tasks /\ (OSIntNesting > 0 \/ pc[OSTCBCur].at = "task")
    BY DEF SettledInv, TasksInv, Scheduled, Live, Caller
<1> QED BY <1>1, CallsGoOn

(* No list changes but the ready list. *)
LEMMA CalmService ==
    ASSUME SettledInv, Caller, Return, CoreKept,
           UNCHANGED <<tcb, OSTCBPrioTbl, OSTCBFreeList, OSRdyTbl, OSTCBFlagNode, load>>,
           \A e \in Events : /\ event'[e].wait = event[e].wait
                             /\ event'[e].type = event[e].type \/ event[e].wait = {},
           Prompt \/ PutsOff
    PROVE  ServiceStep
<1>1. Calm
    BY CallersGoOn DEF Calm
<1>2. TasksInv' /\ SamePrios
    BY <1>1, CalmStays DEF SettledInv
<1> QED BY <1>2, PromptOrPutOff, ServiceEnds

(* OS_EventTaskRdy, for some or all of those who wait. *)
LEMMA WakingWakes ==
    ASSUME SettledInv, EventsWell, Caller, NEW e \in Events, NEW prios, NEW msg, NEW pend,
           prios \subseteq event[e].wait, msg \in Messages \cup {Null}, pend \in {"OK", "ABORT"},
           event[e].type \in {"SEM", "MBOX", "Q"},
           OS_EventTaskRdy(e, prios, msg, {event[e].type}, pend),
           \/ event' = EventsAfterRdy(e, prios)
           \/ event' = [EventsAfterRdy(e, prios) EXCEPT ![e] = Unused] /\ prios = event[e].wait,
           UNCHANGED <<OSTCBPrioTbl, OSTCBFreeList, OSTCBFlagNode, load>>, CallSched \/ Return
    PROVE  Wakes(e, prios, msg, pend)
<1>1. AllGoOn
    BY CallersGoOn
<1>2. \A x \in Events : EventsAfterRdy(e, prios)[x].type = event[x].type
    BY DEF EventsAfterRdy, EventsWell
<1>3. \A x \in Events : event'[x].wait = EventsAfterRdy(e, prios)[x].wait
    <2>1. CASE event' = EventsAfterRdy(e, prios)
        BY <2>1
    <2>2. CASE event' = [EventsAfterRdy(e, prios) EXCEPT ![e] = Unused] /\ prios = event[e].wait
        <3>1. \A x \in Events \ {e} : event'[x] = EventsAfterRdy(e, prios)[x]
            BY <2>2 DEF EventsAfterRdy
        <3>2. event'[e] = Unused /\ Unused.wait = {}
            BY <2>2 DEF EventsAfterRdy, Unused, NewEvent
        <3>3. EventsAfterRdy(e, prios)[e].wait = {}
            <4>1. prios \in SUBSET PriosOf(Live)
                BY <2>2 DEF SettledInv, TasksInv, Typed
            <4>2. Woken(prios) = {t \in Live : tcb[t].prio \in prios}
                BY <4>1, OnePerPrio
            <4>3. EventsAfterRdy(e, prios)[e].wait = event[e].wait \ {tcb[t].prio : t \in Woken(prios)}
                BY DEF EventsAfterRdy, EventsWell
            <4>4. \A p \in prios : p \in {tcb[t].prio : t \in Woken(prios)}
                BY <4>1, <4>2 DEF PriosOf
            <4> QED BY <2>2, <4>3, <4>4
        <3> QED BY <3>1, <3>2, <3>3
    <2> QED BY <2>1, <2>2
<1>4. \A x \in Events : event'[x].type = event[x].type \/ (x = e /\ prios = event[e].wait)
    <2>1. \A x \in Events \ {e} : event'[x] = EventsAfterRdy(e, prios)[x]
        BY DEF EventsAfterRdy
    <2> QED BY <1>2, <2>1
<1> QED BY <1>1, <1>3, <1>4 DEF Wakes

LEMMA WakingService ==
    ASSUME SettledInv, EventsWell, Caller, CoreKept,
           NEW e \in Events, NEW prios, NEW msg, NEW pend,
           prios \subseteq event[e].wait, msg \in Messages \cup {Null}, pend \in {"OK", "ABORT"},
           event[e].type \in {"SEM", "MBOX", "Q"},
           OS_EventTaskRdy(e, prios, msg, {event[e].type}, pend),
           \/ event' = EventsAfterRdy(e, prios)
           \/ event' = [EventsAfterRdy(e, prios) EXCEPT ![e] = Unused] /\ prios = event[e].wait,
           UNCHANGED <<OSTCBPrioTbl, OSTCBFreeList, OSTCBFlagNode, load>>,
           \/ CallSched /\ Prompt
           \/ Return /\ PutsOff
           \/ Return /\ prios = {} /\ Prompt
    PROVE  ServiceStep
<1>1. Wakes(e, prios, msg, pend)
    BY WakingWakes
<1>2. TasksInv' /\ SamePrios /\ OSRdyTbl \subseteq OSRdyTbl'
    BY <1>1, WokenStop DEF SettledInv
<1>3. prios = {} => OSRdyTbl' = OSRdyTbl
    BY DEF OS_EventTaskRdy, ReadyAfterRdy, Woken
<1> QED BY <1>2, <1>3, PromptOrPutOff, ServiceEnds

(* The caller waits. *)
LEMMA WaitingService ==
    ASSUME SettledInv, Caller, MayPend, CoreKept, Prompt,
           TasksInv', SamePrios, OSRdyTbl' = OSRdyTbl \ {tcb[OSTCBCur].prio},
           NEW op, NEW events, Pended(op, events)
    PROVE  ServiceStep
<1>1. OSTCBCur \in Tasks /\ OSTCBCur \in Live /\ IdleTask \in Live /\ pc \in [Tasks -> PCs]
      /\ tcb[IdleTask].prio \in OSRdyTbl /\ lazy \in BOOLEAN
    BY DEF SettledInv, Scheduled, Live, TasksInv, Typed
<1>2. OSTCBCur # IdleTask /\ OSIntNesting = 0 /\ OSLockNesting = 0
    BY DEF Caller, MayPend
<1>3. tcb[IdleTask].prio \in OSRdyTbl'
    BY <1>1, <1>2, OnePerPrio
<1>4. pc'[OSTCBCur].at = "pended" /\ \A t \in Tasks \ {OSTCBCur} : pc'[t] = pc[t]
    <2>1. [at |-> "pended", op |-> op, on |-> events].at = "pended"
        OBVIOUS
    <2> QED BY <1>1, <2>1 DEF Pended
<1> QED BY <1>1, <1>2, <1>3, <1>4 DEF ServiceStep, CoreKept, Prompt

-----------------------------------------------------------------------------
(* The services for events. *)

LEMMA Arguments ==
    ASSUME SettledInv
    PROVE  Workload(L)
BY WorkloadAssumption DEF SettledInv, TasksInv, Typed, L

LEMMA HighestWaits ==
    ASSUME SettledInv, NEW e \in Events, Waiters(e) # {}
    PROVE  {Highest(Waiters(e))} \subseteq event[e].wait
<1>1. event[e].wait \in SUBSET Nat
    <2>1. PriosOf(Live) \subseteq Nat
        BY CoreAssumption DEF PriosOf, Live, Prios
    <2> QED BY <2>1 DEF SettledInv, TasksInv, Typed
<1> QED BY <1>1, LeastExists DEF Waiters

TaskSideKept == UNCHANGED <<OSTCBPrioTbl, OSTCBFreeList, OSTCBFlagNode, load>>

LEMMA WaitOnOneService ==
    ASSUME SettledInv, EventsWell, NEW op, May(op), MayPend, CoreKept, Prompt, TaskSideKept,
           NEW e \in Events, NEW timeout \in L.timeouts, NEW bit,
           bit \in {"SEM", "MBOX", "Q"}, event[e].type = bit,
           OS_EventTaskWait(bit, e, timeout), Pended(bit, {e})
    PROVE  ServiceStep
<1>1. timeout \in 0 .. MaxDelay
    BY Arguments DEF Workload
<1>2. /\ Caller /\ OSTCBCur \in Live /\ pc[OSTCBCur].at = "task" /\ tcb[OSTCBCur].prio \in OSRdyTbl
    BY MayCalls DEF MayPend
<1>3. StartsToWait({bit}, {}, {e}, e, timeout, bit)
    BY <1>1, <1>2 DEF StartsToWait, OS_EventTaskWait, TaskSideKept
<1>4. TasksInv' /\ SamePrios
    BY <1>3, WaitersWait DEF SettledInv
<1> QED BY <1>2, <1>4, WaitingService DEF OS_EventTaskWait

LEMMA PendAbortService ==
    ASSUME SettledInv, EventsWell, NEW op, May(op), Prompt, UNCHANGED <<OSTCBFlagNode, load>>,
           NEW e \in Events, NEW bit, NEW broadcast,
           bit \in {"SEM", "MBOX", "Q"}, event[e].type = bit, PendAbort(bit, e, broadcast)
    PROVE  ServiceStep
<1>1. Caller /\ CoreKept /\ TaskSideKept
    BY MayCalls DEF PendAbort, CoreKept, TaskSideKept, restVars
<1> DEFINE prios == IF broadcast THEN Waiters(e) ELSE {Highest(Waiters(e))}
<1>2. prios \subseteq event[e].wait
    BY HighestWaits DEF PendAbort, Waiters
<1>3. /\ OS_EventTaskRdy(e, prios, Null, {event[e].type}, "ABORT")
      /\ event' = EventsAfterRdy(e, prios) /\ CallSched
    BY DEF PendAbort
<1> HIDE DEF prios
<1>4. Null \in Messages \cup {Null} /\ "ABORT" \in {"OK", "ABORT"} /\ event[e].type \in {"SEM", "MBOX", "Q"}
    OBVIOUS
<1> QED BY <1>1, <1>2, <1>3, <1>4, WakingService DEF TaskSideKept

LEMMA DeleteService ==
    ASSUME SettledInv, EventsWell, NEW op, May(op), Prompt, UNCHANGED <<OSTCBFlagNode, load>>,
           NEW e \in Events, NEW bit, NEW always,
           bit \in {"SEM", "MBOX", "Q"}, event[e].type = bit, DeleteEvent(bit, e, always)
    PROVE  ServiceStep
<1>1. Caller /\ CoreKept /\ TaskSideKept
    BY MayCalls DEF DeleteEvent, CoreKept, TaskSideKept
<1>2. PICK prios : prios = Waiters(e)
    OBVIOUS
<1>3. /\ OS_EventTaskRdy(e, prios, Null, {event[e].type}, "OK")
      /\ event' = [EventsAfterRdy(e, prios) EXCEPT ![e] = Unused] /\ prios = event[e].wait
      /\ CallSched \/ (Return /\ prios = {})
    BY <1>2 DEF DeleteEvent, Waiters
<1>4. Null \in Messages \cup {Null} /\ "OK" \in {"OK", "ABORT"} /\ event[e].type \in {"SEM", "MBOX", "Q"}
      /\ prios \subseteq event[e].wait
    BY <1>3
<1> QED BY <1>1, <1>3, <1>4, WakingService DEF TaskSideKept

LEMMA PostService ==
    ASSUME SettledInv, EventsWell, NEW op, May(op), CoreKept, TaskSideKept,
           NEW e \in Events, NEW bit, NEW msg \in Messages \cup {Null}, NEW prios,
           bit \in {"SEM", "MBOX", "Q"}, event[e].type = bit, Waiters(e) # {},
           prios = Waiters(e) \/ prios = {Highest(Waiters(e))},
           OS_EventTaskRdy(e, prios, msg, {bit}, "OK"), event' = EventsAfterRdy(e, prios),
           (CallSched /\ Prompt) \/ (Return /\ PutsOff)
    PROVE  ServiceStep
<1>1. prios \subseteq event[e].wait
    BY HighestWaits DEF Waiters
<1>2. "OK" \in {"OK", "ABORT"} /\ event[e].type \in {"SEM", "MBOX", "Q"} /\ Caller
    BY MayCalls
<1> QED BY <1>1, <1>2, WakingService DEF TaskSideKept

LEMMA CreateService ==
    ASSUME SettledInv, QueuesWell, EventsWell, NEW op, May(op), Prompt, UNCHANGED <<OSTCBFlagNode, load>>,
           NEW e \in Events, NEW type, NEW cnt, NEW ptr, CreateEvent(e, NewEvent(type, cnt, ptr))
    PROVE  ServiceStep
<1>1. Caller /\ CoreKept /\ TaskSideKept
    BY MayCalls DEF CreateEvent, CoreKept, TaskSideKept
<1>2. event[e].wait = {}
    BY NobodyWaitsForNone DEF CreateEvent, QueuesWell, SettledInv
<1>3. event' = [event EXCEPT ![e] = NewEvent(type, cnt, ptr)]
    BY DEF CreateEvent
<1>4. \A x \in Events : /\ event'[x].wait = event[x].wait
                        /\ event'[x].type = event[x].type \/ event[x].wait = {}
    <2>1. DOMAIN event = Events
        BY DEF EventsWell
    <2> QED BY <1>2, <1>3, <2>1 DEF NewEvent
<1> QED BY <1>1, <1>4, CalmService DEF CreateEvent, TaskSideKept

(* A count or a pointer changes, or a ring. *)
LEMMA FieldService ==
    ASSUME SettledInv, EventsWell, NEW op, May(op), Prompt \/ PutsOff, UNCHANGED <<OSTCBFlagNode, load>>,
           UNCHANGED <<tcb, OSRdyTbl, restVars>>, Return, NEW e \in Events, NEW v,
           \/ UNCHANGED event
           \/ event' = [event EXCEPT ![e].cnt = v]
           \/ event' = [event EXCEPT ![e].ptr = v]
    PROVE  ServiceStep
<1>1. Caller /\ CoreKept
    BY MayCalls DEF CoreKept, restVars
<1>2. \A x \in Events : event'[x].wait = event[x].wait /\ event'[x].type = event[x].type
    <2>1. DOMAIN event = Events
        BY DEF EventsWell
    <2>2. event[e] = [type |-> event[e].type, cnt |-> event[e].cnt,
                      ptr |-> event[e].ptr, wait |-> event[e].wait]
        BY DEF EventsWell
    <2>3. CASE event' = [event EXCEPT ![e].cnt = v]
        <3>1. event'[e] = [event[e] EXCEPT !.cnt = v] /\ \A x \in Events \ {e} : event'[x] = event[x]
            BY <2>1, <2>3
        <3> QED BY <2>2, <3>1
    <2>4. CASE event' = [event EXCEPT ![e].ptr = v]
        <3>1. event'[e] = [event[e] EXCEPT !.ptr = v] /\ \A x \in Events \ {e} : event'[x] = event[x]
            BY <2>1, <2>4
        <3> QED BY <2>2, <3>1
    <2> QED BY <2>3, <2>4
<1> QED BY <1>1, <1>2, CalmService DEF restVars

LEMMA SemService ==
    ASSUME SettledInv, EventsWell, QueuesWell, SemCalls, UNCHANGED <<OSTCBFlagNode, load>>
    PROVE  ServiceStep
<1>0. Prompt
    BY DEF SemCalls
<1>1. PICK e \in Events :
          \/ May("OSSemAccept") /\ OSSemAccept(e)
          \/ May("OSSemPend") /\ \E timeout \in L.timeouts : OSSemPend(e, timeout)
          \/ May("OSSemPost") /\ OSSemPost(e)
          \/ May("OSSemPendAbort") /\ \E broadcast : OSSemPendAbort(e, broadcast)
          \/ May("OSSemSet") /\ \E cnt : OSSemSet(e, cnt)
          \/ May("OSSemCreate") /\ OSSemCreate(e, 0)
          \/ May("OSSemDel") /\ \E always : OSSemDel(e, always)
    BY DEF SemCalls
<1>2. CASE May("OSSemAccept") /\ OSSemAccept(e)
    BY <1>0, <1>2, FieldService DEF OSSemAccept
<1>3. ASSUME May("OSSemPend"), NEW timeout \in L.timeouts, OSSemPend(e, timeout) PROVE ServiceStep
    <2>1. event[e].type = "SEM" /\ MayPend /\ UNCHANGED restVars
        BY <1>3 DEF OSSemPend, Sem
    <2>2. CASE event' = [event EXCEPT ![e].cnt = event[e].cnt - 1] /\ Return /\ UNCHANGED <<tcb, OSRdyTbl>>
        BY <1>0, <1>3, <2>1, <2>2, FieldService
    <2>3. CASE OS_EventTaskWait("SEM", e, timeout) /\ Pended("SEM", {e})
        BY <1>0, <1>3, <2>1, <2>3, WaitOnOneService DEF CoreKept, TaskSideKept, restVars
    <2> QED BY <1>3, <2>2, <2>3 DEF OSSemPend
<1>4. CASE May("OSSemPost") /\ OSSemPost(e)
    <2>1. event[e].type = "SEM" /\ UNCHANGED restVars
        BY <1>4 DEF OSSemPost, Sem
    <2>2. CASE Waiters(e) # {}
        <3>1. PICK prios : prios = {Highest(Waiters(e))}
            OBVIOUS
        <3>2. OS_EventTaskRdy(e, prios, Null, {"SEM"}, "OK") /\ event' = EventsAfterRdy(e, prios) /\ CallSched
            BY <1>4, <2>2, <3>1 DEF OSSemPost
        <3> QED BY <1>0, <1>4, <2>1, <2>2, <3>1, <3>2, PostService DEF CoreKept, TaskSideKept, restVars
    <2>3. CASE ~(Waiters(e) # {})
        BY <1>0, <1>4, <2>1, <2>3, FieldService DEF OSSemPost
    <2> QED BY <2>2, <2>3
<1>5. ASSUME May("OSSemPendAbort"), NEW broadcast, OSSemPendAbort(e, broadcast) PROVE ServiceStep
    BY <1>0, <1>5, PendAbortService DEF OSSemPendAbort, Sem
<1>6. ASSUME May("OSSemSet"), NEW cnt, OSSemSet(e, cnt) PROVE ServiceStep
    BY <1>0, <1>6, FieldService DEF OSSemSet
<1>7. CASE May("OSSemCreate") /\ OSSemCreate(e, 0)
    BY <1>0, <1>7, CreateService DEF OSSemCreate
<1>8. ASSUME May("OSSemDel"), NEW always, OSSemDel(e, always) PROVE ServiceStep
    BY <1>0, <1>8, DeleteService DEF OSSemDel, Sem
<1> QED BY <1>1, <1>2, <1>3, <1>4, <1>5, <1>6, <1>7, <1>8

LEMMA MboxPostService ==
    ASSUME SettledInv, EventsWell, UNCHANGED <<OSTCBFlagNode, load>>, NEW op, May(op),
           NEW e \in Events, NEW m \in Messages, NEW broadcast, NEW sched,
           OSMboxPostOpt(e, m, broadcast, sched), IF sched THEN Prompt ELSE PutsOff
    PROVE  ServiceStep
<1>1. event[e].type = "MBOX" /\ UNCHANGED restVars
    BY DEF OSMboxPostOpt, Mbox
<1>2. CASE Waiters(e) # {}
    <2>1. PICK prios : prios = IF broadcast THEN Waiters(e) ELSE {Highest(Waiters(e))}
        OBVIOUS
    <2>2. OS_EventTaskRdy(e, prios, m, {"MBOX"}, "OK") /\ event' = EventsAfterRdy(e, prios)
          /\ IF sched THEN CallSched ELSE Return
        BY <1>2, <2>1 DEF OSMboxPostOpt
    <2>3. (CallSched /\ Prompt) \/ (Return /\ PutsOff)
        BY <2>2
    <2>4. prios = Waiters(e) \/ prios = {Highest(Waiters(e))}
        BY <2>1
    <2> QED BY <1>1, <1>2, <2>2, <2>3, <2>4, PostService DEF CoreKept, TaskSideKept, restVars
<1>3. CASE ~(Waiters(e) # {})
    BY <1>1, <1>3, FieldService DEF OSMboxPostOpt
<1> QED BY <1>2, <1>3

LEMMA MboxService ==
    ASSUME SettledInv, EventsWell, QueuesWell, MboxCalls, UNCHANGED <<OSTCBFlagNode, load>>
    PROVE  ServiceStep
<1>1. PICK e \in Events :
          \/ May("OSMboxAccept") /\ OSMboxAccept(e) /\ Prompt
          \/ May("OSMboxPend") /\ (\E timeout \in L.timeouts : OSMboxPend(e, timeout)) /\ Prompt
          \/ May("OSMboxPost") /\ (\E m \in Messages : OSMboxPost(e, m)) /\ Prompt
          \/ /\ May("OSMboxPostOpt")
             /\ \E m \in Messages, broadcast \in L.broadcast, sched \in BOOLEAN :
                   OSMboxPostOpt(e, m, broadcast, sched) /\ (IF sched THEN Prompt ELSE PutsOff)
          \/ May("OSMboxPendAbort") /\ (\E broadcast : OSMboxPendAbort(e, broadcast)) /\ Prompt
          \/ May("OSMboxCreate") /\ OSMboxCreate(e, Null) /\ Prompt
          \/ May("OSMboxDel") /\ (\E always : OSMboxDel(e, always)) /\ Prompt
    BY DEF MboxCalls
<1>2. CASE May("OSMboxAccept") /\ OSMboxAccept(e) /\ Prompt
    BY <1>2, FieldService DEF OSMboxAccept
<1>3. ASSUME May("OSMboxPend"), NEW timeout \in L.timeouts, OSMboxPend(e, timeout), Prompt PROVE ServiceStep
    <2>1. event[e].type = "MBOX" /\ MayPend /\ UNCHANGED restVars
        BY <1>3 DEF OSMboxPend, Mbox
    <2>2. CASE event' = [event EXCEPT ![e].ptr = Null] /\ Return /\ UNCHANGED <<tcb, OSRdyTbl>>
        BY <1>3, <2>1, <2>2, FieldService
    <2>3. CASE OS_EventTaskWait("MBOX", e, timeout) /\ Pended("MBOX", {e})
        BY <1>3, <2>1, <2>3, WaitOnOneService DEF CoreKept, TaskSideKept, restVars
    <2> QED BY <1>3, <2>2, <2>3 DEF OSMboxPend
<1>4. ASSUME May("OSMboxPost"), NEW m \in Messages, OSMboxPost(e, m), Prompt PROVE ServiceStep
    <2>1. OSMboxPostOpt(e, m, FALSE, TRUE) /\ IF TRUE THEN Prompt ELSE PutsOff
        BY <1>4 DEF OSMboxPost
    <2> QED BY <1>4, <2>1, MboxPostService
<1>5. ASSUME May("OSMboxPostOpt"), NEW m \in Messages, NEW broadcast, NEW sched,
             OSMboxPostOpt(e, m, broadcast, sched), IF sched THEN Prompt ELSE PutsOff
      PROVE  ServiceStep
    BY <1>5, MboxPostService
<1>6. ASSUME May("OSMboxPendAbort"), NEW broadcast, OSMboxPendAbort(e, broadcast), Prompt PROVE ServiceStep
    BY <1>6, PendAbortService DEF OSMboxPendAbort, Mbox
<1>7. CASE May("OSMboxCreate") /\ OSMboxCreate(e, Null) /\ Prompt
    BY <1>7, CreateService DEF OSMboxCreate
<1>8. ASSUME May("OSMboxDel"), NEW always, OSMboxDel(e, always), Prompt PROVE ServiceStep
    BY <1>8, DeleteService DEF OSMboxDel, Mbox
<1> QED BY <1>1, <1>2, <1>3, <1>4, <1>5, <1>6, <1>7, <1>8

LEMMA QPostService ==
    ASSUME SettledInv, EventsWell, UNCHANGED <<OSTCBFlagNode, load>>, NEW op, May(op),
           NEW e \in Events, NEW m \in Messages, NEW broadcast, NEW front, NEW sched,
           OSQPostOpt(e, m, broadcast, front, sched), IF sched THEN Prompt ELSE PutsOff
    PROVE  ServiceStep
<1>1. event[e].type = "Q" /\ UNCHANGED restVars
    BY DEF OSQPostOpt, Queue
<1>2. CASE Waiters(e) # {}
    <2>1. PICK prios : prios = IF broadcast THEN Waiters(e) ELSE {Highest(Waiters(e))}
        OBVIOUS
    <2>2. OS_EventTaskRdy(e, prios, m, {"Q"}, "OK") /\ event' = EventsAfterRdy(e, prios)
          /\ IF sched THEN CallSched ELSE Return
        BY <1>2, <2>1 DEF OSQPostOpt
    <2>3. (CallSched /\ Prompt) \/ (Return /\ PutsOff)
        BY <2>2
    <2>4. prios = Waiters(e) \/ prios = {Highest(Waiters(e))}
        BY <2>1
    <2> QED BY <1>1, <1>2, <2>2, <2>3, <2>4, PostService DEF CoreKept, TaskSideKept, restVars
<1>3. CASE ~(Waiters(e) # {})
    BY <1>1, <1>3, FieldService DEF OSQPostOpt
<1> QED BY <1>2, <1>3

LEMMA QService ==
    ASSUME SettledInv, EventsWell, QueuesWell, QCalls, UNCHANGED <<OSTCBFlagNode, load>>
    PROVE  ServiceStep
<1>1. PICK e \in Events :
          \/ May("OSQAccept") /\ OSQAccept(e) /\ Prompt
          \/ May("OSQPend") /\ (\E timeout \in L.timeouts : OSQPend(e, timeout)) /\ Prompt
          \/ May("OSQPost") /\ (\E m \in Messages : OSQPost(e, m)) /\ Prompt
          \/ May("OSQPostFront") /\ (\E m \in Messages : OSQPostFront(e, m)) /\ Prompt
          \/ /\ May("OSQPostOpt")
             /\ \E m \in Messages, broadcast \in L.broadcast, front \in BOOLEAN, sched \in BOOLEAN :
                   OSQPostOpt(e, m, broadcast, front, sched) /\ (IF sched THEN Prompt ELSE PutsOff)
          \/ May("OSQFlush") /\ OSQFlush(e) /\ Prompt
          \/ May("OSQPendAbort") /\ (\E broadcast : OSQPendAbort(e, broadcast)) /\ Prompt
          \/ May("OSQCreate") /\ OSQCreate(e, 2) /\ Prompt
          \/ May("OSQDel") /\ (\E always : OSQDel(e, always)) /\ Prompt
    BY DEF QCalls
<1>2. CASE ((May("OSQAccept") /\ OSQAccept(e)) \/ (May("OSQFlush") /\ OSQFlush(e))) /\ Prompt
    BY <1>2, FieldService DEF OSQAccept, OSQFlush
<1>3. ASSUME May("OSQPend"), NEW timeout \in L.timeouts, OSQPend(e, timeout), Prompt PROVE ServiceStep
    <2>1. event[e].type = "Q" /\ MayPend /\ UNCHANGED restVars
        BY <1>3 DEF OSQPend, Queue
    <2>2. CASE Return /\ UNCHANGED <<tcb, OSRdyTbl, event>>
        BY <1>3, <2>1, <2>2, FieldService
    <2>3. CASE OS_EventTaskWait("Q", e, timeout) /\ Pended("Q", {e})
        BY <1>3, <2>1, <2>3, WaitOnOneService DEF CoreKept, TaskSideKept, restVars
    <2> QED BY <1>3, <2>2, <2>3 DEF OSQPend
<1>4. ASSUME NEW op, May(op), NEW m \in Messages, OSQPost(e, m) \/ OSQPostFront(e, m), Prompt
      PROVE  ServiceStep
    <2>1. PICK front : OSQPostOpt(e, m, FALSE, front, TRUE) /\ IF TRUE THEN Prompt ELSE PutsOff
        BY <1>4 DEF OSQPost, OSQPostFront
    <2> QED BY <1>4, <2>1, QPostService
<1>5. ASSUME May("OSQPostOpt"), NEW m \in Messages, NEW broadcast, NEW front, NEW sched,
             OSQPostOpt(e, m, broadcast, front, sched), IF sched THEN Prompt ELSE PutsOff
      PROVE  ServiceStep
    BY <1>5, QPostService
<1>6. ASSUME May("OSQPendAbort"), NEW broadcast, OSQPendAbort(e, broadcast), Prompt PROVE ServiceStep
    BY <1>6, PendAbortService DEF OSQPendAbort, Queue
<1>7. CASE May("OSQCreate") /\ OSQCreate(e, 2) /\ Prompt
    <2>1. PICK pq : CreateEvent(e, NewEvent("Q", 0, pq))
        BY <1>7 DEF OSQCreate
    <2> QED BY <1>7, <2>1, CreateService
<1>8. ASSUME May("OSQDel"), NEW always, OSQDel(e, always), Prompt PROVE ServiceStep
    BY <1>8, DeleteService DEF OSQDel, Queue
<1> QED BY <1>1, <1>2, <1>3, <1>4, <1>5, <1>6, <1>7, <1>8

LEMMA MultiService ==
    ASSUME SettledInv, EventsWell, MultiCalls, UNCHANGED <<OSTCBFlagNode, load>>
    PROVE  ServiceStep
<1>1. PICK timeout \in L.timeouts : OSEventPendMulti(Events, timeout)
    BY DEF MultiCalls
<1>2. /\ May("OSEventPendMulti") /\ Prompt /\ MayPend /\ UNCHANGED restVars
      /\ \A e \in Events : event[e].type \in {"SEM", "MBOX", "Q"}
    BY <1>1 DEF MultiCalls, OSEventPendMulti
<1>3. /\ Caller /\ CanCall("OSEventPendMulti") /\ OSTCBCur \in Live /\ pc[OSTCBCur].at = "task"
      /\ tcb[OSTCBCur].prio \in OSRdyTbl
    BY <1>2, MayCalls DEF MayPend
<1>4. CASE TakenFrom(Events) /\ Return /\ UNCHANGED <<tcb, OSRdyTbl>>
    <2>1. \A x \in Events : event'[x].wait = event[x].wait /\ event'[x].type = event[x].type
        BY <1>4 DEF TakenFrom, EventsWell
    <2>2. CoreKept /\ UNCHANGED <<OSTCBPrioTbl, OSTCBFreeList>>
        BY <1>2 DEF CoreKept, restVars
    <2> QED BY <1>2, <1>3, <1>4, <2>1, <2>2, CalmService
<1> DEFINE types == {event[e].type : e \in Events}
           bits == types \cup {"MULTI"}
<1>5. CASE OS_EventTaskWaitMulti(types, Events, timeout) /\ Pended("MULTI", Events)
    <2>1. timeout \in 0 .. MaxDelay
        BY Arguments DEF Workload
    <2>2. bits \subseteq StatBits /\ bits \cap PendBits # {} /\ "SUSPEND" \notin bits
        <3>1. \E e \in Events : event[e].type \in types /\ event[e].type \in PendBits
            BY <1>2, CoreAssumption DEF PendBits
        <3>2. types \subseteq {"SEM", "MBOX", "Q"}
            BY <1>2
        <3> HIDE DEF types
        <3> QED BY <3>1, <3>2 DEF StatBits, PendBits
    <2> HIDE DEF types
    <2>3. StartsToWait(bits, Events, Events, Null, timeout, "MULTI")
        BY <1>2, <1>3, <1>5, <2>1 DEF StartsToWait, OS_EventTaskWaitMulti, restVars
    <2>4. \A e \in Events : event[e].type # "UNUSED"
        BY <1>2
    <2> HIDE DEF bits
    <2>5. TasksInv' /\ SamePrios
        BY <1>3, <2>2, <2>3, <2>4, WaitersWait DEF SettledInv
    <2>6. CoreKept /\ OSRdyTbl' = OSRdyTbl \ {tcb[OSTCBCur].prio}
        BY <1>2, <1>5 DEF CoreKept, restVars, OS_EventTaskWaitMulti
    <2> QED BY <1>2, <1>3, <1>5, <2>5, <2>6, WaitingService
<1> QED BY <1>1, <1>4, <1>5 DEF OSEventPendMulti

-----------------------------------------------------------------------------
(* The other services. *)

LEMMA FlagService ==
    ASSUME SettledInv, FlagCalls, UNCHANGED load
    PROVE  ServiceStep
<1>0. Prompt
    BY DEF FlagCalls
<1>1. PICK g \in Groups, want \in L.wants :
          \/ May("OSFlagAccept") /\ \E type, consume : OSFlagAccept(g, want, type, consume)
          \/ /\ May("OSFlagPend")
             /\ \E type \in L.waitTypes, consume \in L.consume, timeout \in L.timeouts :
                   OSFlagPend(g, want, type, consume, timeout)
          \/ May("OSFlagPost") /\ \E set \in BOOLEAN : OSFlagPost(g, want, set)
          \/ May("OSFlagCreate") /\ OSFlagCreate(g, want)
          \/ May("OSFlagDel") /\ \E always : OSFlagDel(g, always)
    BY DEF FlagCalls
<1>2. ASSUME NEW op, May(op), UNCHANGED <<tcb, OSRdyTbl, event, restVars, OSTCBFlagNode>>, Return
      PROVE  ServiceStep
    <2>1. Caller /\ CoreKept
        BY <1>2, MayCalls DEF CoreKept, restVars
    <2> QED BY <1>0, <1>2, <2>1, CalmService DEF restVars
<1>3. ASSUME May("OSFlagAccept"), NEW type, NEW consume, OSFlagAccept(g, want, type, consume)
      PROVE  ServiceStep
    BY <1>2, <1>3 DEF OSFlagAccept
<1>4. ASSUME May("OSFlagPend"), NEW type \in L.waitTypes, NEW consume \in L.consume, NEW timeout \in L.timeouts,
             OSFlagPend(g, want, type, consume, timeout)
      PROVE  ServiceStep
    <2>1. MayPend /\ UNCHANGED <<event, restVars>>
        BY <1>4 DEF OSFlagPend, MayPend
    <2>2. CASE Return /\ UNCHANGED <<tcb, OSRdyTbl, OSTCBFlagNode>>
        BY <1>2, <1>4, <2>1, <2>2
    <2>3. CASE OS_FlagBlock(g, want, type, timeout)
               /\ Pended(IF ~consume THEN "FLAG" ELSE IF type.set THEN "FLAG_CLR" ELSE "FLAG_SET", {g})
        <3>1. PICK op \in FlagOps : op = IF ~consume THEN "FLAG" ELSE IF type.set THEN "FLAG_CLR" ELSE "FLAG_SET"
            BY DEF FlagOps
        <3>2. Pended(op, {g})
            BY <2>3, <3>1
        <3>3. want \in SUBSET Flags /\ type \in WaitTypes /\ timeout \in 0 .. MaxDelay
            BY Arguments DEF Workload
        <3>4. Caller /\ OSTCBCur \in Live /\ pc[OSTCBCur].at = "task" /\ tcb[OSTCBCur].prio \in OSRdyTbl
            BY <1>4, <2>1, MayCalls DEF MayPend
        <3>5. UNCHANGED <<event, OSTCBPrioTbl, OSTCBFreeList, load>> /\ CoreKept
            BY <2>1 DEF restVars, CoreKept
        <3>6. TasksInv' /\ SamePrios
            BY <2>3, <3>2, <3>3, <3>4, <3>5, FlagWaitersWait DEF SettledInv
        <3> QED BY <1>0, <2>1, <2>3, <3>2, <3>4, <3>5, <3>6, WaitingService DEF OS_FlagBlock
    <2> QED BY <1>4, <2>2, <2>3 DEF OSFlagPend
<1>5. ASSUME NEW op, May(op), NEW woken \in SUBSET FlagWaiters(g), NEW rdy,
             OS_FlagTaskRdy(woken, rdy), UNCHANGED <<event, restVars>>,
             CallSched \/ (Return /\ Released(woken) = {})
      PROVE  ServiceStep
    <2>1. Caller
        BY <1>5, MayCalls
    <2>2. AllGoOn
        BY <1>5, <2>1, CallersGoOn
    <2>3. CoreKept /\ UNCHANGED <<event, OSTCBPrioTbl, OSTCBFreeList, load>>
        BY <1>5 DEF CoreKept, restVars
    <2>4. TasksInv' /\ SamePrios /\ OSRdyTbl \subseteq OSRdyTbl'
        BY <1>5, <2>2, <2>3, FlagWokenStop DEF SettledInv
    <2>5. Released(woken) = {} => OSRdyTbl' = OSRdyTbl
        BY <1>5 DEF OS_FlagTaskRdy
    <2> QED BY <1>0, <1>5, <2>1, <2>3, <2>4, <2>5, PromptOrPutOff, ServiceEnds
<1>6. ASSUME May("OSFlagPost"), NEW set \in BOOLEAN, OSFlagPost(g, want, set)
      PROVE  ServiceStep
    <2>1. PICK now : now = IF set THEN group[g].flags \cup want ELSE group[g].flags \ want
        OBVIOUS
    <2>2. PICK woken, rdy : woken = Awaited(g, now) /\ OS_FlagTaskRdy(woken, rdy)
              /\ UNCHANGED <<event, restVars>> /\ (CallSched \/ (Return /\ Released(woken) = {}))
        BY <1>6, <2>1 DEF OSFlagPost
    <2>3. woken \in SUBSET FlagWaiters(g)
        BY <2>2 DEF Awaited
    <2> QED BY <1>5, <1>6, <2>2, <2>3
<1>7. CASE May("OSFlagCreate") /\ OSFlagCreate(g, want)
    BY <1>2, <1>7 DEF OSFlagCreate
<1>8. ASSUME May("OSFlagDel"), NEW always, OSFlagDel(g, always)
      PROVE  ServiceStep
    <2>1. PICK woken, rdy : woken = FlagWaiters(g) /\ OS_FlagTaskRdy(woken, rdy)
              /\ UNCHANGED <<event, restVars>> /\ (CallSched \/ (Return /\ woken = {}))
        BY <1>8 DEF OSFlagDel
    <2>2. woken = {} => Released(woken) = {}
        BY DEF Released
    <2> QED BY <1>5, <1>8, <2>1, <2>2
<1> QED BY <1>1, <1>3, <1>4, <1>6, <1>7, <1>8

LEMMA TaskService ==
    ASSUME SettledInv, Settled, TaskCalls, UNCHANGED load
    PROVE  ServiceStep
<1>0. Prompt
    BY DEF TaskCalls
<1>1. ~May("OSTaskChangePrio") /\ ~May("OSTaskCreate") /\ ~May("OSTaskDel")
    BY MayCalls DEF Settled
<1>2. ~OS_TCBInit /\ ~TaskDelEnd
    <2>1. pc[OSTCBCur].at \in {"task", "sched", "pended", "wake"}
        BY DEF SettledInv, TasksInv, Typed, PCs, Scheduled, Live
    <2> QED BY <2>1 DEF OS_TCBInit, TaskDelEnd
<1>3. UNCHANGED OSTCBFlagNode
    BY <1>1 DEF TaskCalls, flagVars
<1>4. \/ \E t : \/ May("OSTaskSuspend") /\ OSTaskSuspend(t)
                \/ May("OSTaskResume") /\ OSTaskResume(t)
                \/ May("OSTimeDlyResume") /\ OSTimeDlyResume(t)
                \/ May("OSTaskDelReq") /\ OSTaskDelReq(t)
      \/ May("OSTimeDly") /\ \E ticks \in 1 .. MaxDelay : OSTimeDly(ticks)
    BY <1>1, <1>2 DEF TaskCalls
<1>5. OSTCBCur \in Tasks /\ OSTCBCur \in Live /\ pc \in [Tasks -> PCs] /\ IdleTask \in Live
      /\ tcb[IdleTask].prio \in OSRdyTbl /\ lazy' = lazy /\ lazy \in BOOLEAN
    BY <1>0 DEF SettledInv, Scheduled, Live, TasksInv, Typed, Prompt
(* One that takes no ready task away. *)
<1>6. ASSUME NEW op, May(op), NEW t,
             OSTaskResume(t) \/ OSTimeDlyResume(t) \/ OSTaskDelReq(t)
      PROVE  ServiceStep
    <2>1. Caller /\ CoreKept
        BY <1>6, MayCalls DEF CoreKept, restVars, OSTaskResume, OSTimeDlyResume, OSTaskDelReq
    <2>2. CallSched \/ (Return /\ OSRdyTbl' = OSRdyTbl)
        BY <1>6 DEF OSTaskResume, OSTimeDlyResume, OSTaskDelReq, MadeReady
    <2>3. OSRdyTbl \subseteq OSRdyTbl'
        BY <1>6 DEF OSTaskResume, OSTimeDlyResume, OSTaskDelReq
    <2>4. AllGoOn
        BY <2>1, <2>2, CallersGoOn
    <2>5. TasksInv' /\ SamePrios
        BY <1>3, <1>6, <2>4, ResumeStays, DlyResumeStays, DelReqStays DEF SettledInv
    <2> QED BY <1>0, <2>1, <2>2, <2>3, <2>5, PromptOrPutOff, ServiceEnds
(* One that takes a task from the ready list, not the idle task.           *)
<1>7. ASSUME NEW op, May(op), NEW t \in Live, t # IdleTask, OSRdyTbl' = OSRdyTbl \ {tcb[t].prio},
             TasksInv', SamePrios, CoreKept,
             CallSched \/ (Return /\ t # OSTCBCur)
      PROVE  ServiceStep
    <2>1. Caller
        BY <1>7, MayCalls
    <2>2. tcb[IdleTask].prio \in OSRdyTbl'
        BY <1>5, <1>7, OnePerPrio
    <2>3. CASE Return /\ t # OSTCBCur
        <3>1. tcb[t].prio # OSPrioCur
            BY <1>5, <2>3, OnePerPrio DEF SettledInv, Scheduled
        <3>2. StaysIn
            BY <1>7, <3>1 DEF StaysIn
        <3> QED BY <1>5, <1>7, <2>1, <2>2, <2>3, <3>2 DEF ServiceStep, CoreKept, Return
    <2>4. CASE CallSched /\ OSIntNesting = 0
        <3>1. pc'[OSTCBCur].at = "sched" /\ \A x \in Tasks \ {OSTCBCur} : pc'[x] = pc[x]
            BY <1>5, <2>4 DEF CallSched, PCs
        <3> QED BY <1>5, <1>7, <2>1, <2>2, <2>4, <3>1 DEF ServiceStep, CoreKept
    <2>5. CASE CallSched /\ OSIntNesting = 1
        BY <1>5, <1>7, <2>1, <2>2, <2>5 DEF ServiceStep, CoreKept, CallSched
    <2> QED BY <1>7, <2>1, <2>3, <2>4, <2>5 DEF Caller
<1>8. ASSUME May("OSTaskSuspend"), NEW t, OSTaskSuspend(t) PROVE ServiceStep
    <2>1. /\ t \in Live /\ t # IdleTask /\ OSRdyTbl' = OSRdyTbl \ {tcb[t].prio} /\ CoreKept
          /\ CallSched \/ (Return /\ t # OSTCBCur)
        BY <1>8 DEF OSTaskSuspend, CoreKept, restVars
    <2>2. Caller /\ CanCall("OSTaskSuspend")
        BY <1>8, MayCalls
    <2>3. AllGoOn
        BY <2>1, <2>2, CallersGoOn
    <2>4. TasksInv' /\ SamePrios
        BY <1>3, <1>8, <2>2, <2>3, SuspendStays DEF SettledInv
    <2> QED BY <1>7, <1>8, <2>1, <2>4
<1>9. ASSUME May("OSTimeDly"), NEW ticks \in 1 .. MaxDelay, OSTimeDly(ticks) PROVE ServiceStep
    <2>1. /\ OSIntNesting = 0 /\ OSRdyTbl' = OSRdyTbl \ {tcb[OSTCBCur].prio} /\ CoreKept /\ CallSched
        BY <1>9 DEF OSTimeDly, CoreKept, restVars
    <2>2. Caller /\ OSTCBCur # IdleTask /\ pc[OSTCBCur].at = "task"
        BY <1>9, <2>1, MayCalls DEF Caller
    <2>3. AllGoOn
        BY <2>1, <2>2, CallersGoOn
    <2>4. TasksInv' /\ SamePrios
        BY <1>3, <1>5, <1>9, <2>2, <2>3, DlyStays DEF SettledInv
    <2>5. PICK me \in Live : me = OSTCBCur
        BY <1>5
    <2> QED BY <1>7, <1>9, <2>1, <2>2, <2>4, <2>5
<1> QED BY <1>4, <1>6, <1>8, <1>9

-----------------------------------------------------------------------------
(* The kernel's own steps. *)

LEMMA NotGone ==
    ASSUME SettledInv, SeveralInv, MultiReturn
    PROVE  ~EventGone
<1>1. OSTCBCur \in Live /\ OSTCBCur \in Tasks /\ tcb[OSTCBCur] \in TCBs
    BY DEF SettledInv, TasksInv, Typed, Scheduled, Live
<1>2. \A e \in Events : event[e].type \in {"SEM", "MBOX", "Q"}
    BY <1>1 DEF SeveralInv, OfSeveral, Inside, MultiReturn
<1>3. tcb[OSTCBCur].ev = Null \/ tcb[OSTCBCur].ev \in Events
    BY <1>1 DEF TCBs
<1> QED BY <1>2, <1>3 DEF EventGone, TimedOut

LEMMA ReturnsKeep ==
    ASSUME SettledInv, SeveralInv, EventsWell, Returns, UNCHANGED load
    PROVE  SettledInv'
<1>0. PICK me \in Live : me = OSTCBCur
    BY DEF SettledInv, Scheduled
<1>1. /\ OSIntNesting = 0 /\ pc[me].at = "wake" /\ lazy' = lazy /\ pc' = [pc EXCEPT ![OSTCBCur] = InTask]
      /\ UNCHANGED <<OSRdyTbl, restVars>>
    BY <1>0 DEF Returns, SemReturn, MboxReturn, QReturn, MutexReturn, MultiReturn, FlagReturn, ReturnFromPend
<1>2. Runs /\ BackFromWait(me)
    BY <1>0, <1>1 DEF SettledInv, Scheduled, Runs, BackFromWait
<1>3. pc[me].op \in {"none", "SEM", "MBOX", "Q", "MULTI", "FLAG", "FLAG_CLR", "FLAG_SET"} /\ me \in Tasks
      /\ pc \in [Tasks -> PCs]
    BY DEF SettledInv, TasksInv, Typed, Live, PCs
<1>4. TasksInv' /\ SamePrios
    <2>1. ASSUME NEW op, op \in {"SEM", "MBOX", "Q"}, NEW keeps, ReturnFromPend(op, keeps), UNCHANGED flagVars
          PROVE  TasksInv' /\ SamePrios
        <3>1. PICK out \in BOOLEAN : out = (tcb[me].pend = "TO")
            OBVIOUS
        <3>2. pc[me].op = op /\ event' = IF out THEN Removed(pc[OSTCBCur].on) ELSE event
            BY <1>0, <2>1, <3>1 DEF ReturnFromPend
        <3>3. OSTCBFlagNode[me] = NoNode /\ In(me) = IF out THEN pc[me].on ELSE {}
            BY <1>2, <2>1, <3>1, <3>2, WaitIsOver DEF SettledInv
        <3>4. tcb' = Rested \/ tcb' = [Rested EXCEPT ![OSTCBCur].msg = Null]
            BY <2>1 DEF ReturnFromPend
        <3>5. UNCHANGED <<OSRdyTbl, OSTCBPrioTbl, OSTCBFreeList, OSTCBFlagNode, load>>
            BY <1>1, <2>1 DEF restVars, flagVars
        <3> QED BY <1>0, <1>1, <1>2, <3>2, <3>3, <3>4, <3>5, CallersRest DEF SettledInv
    <2>2. CASE MultiReturn /\ UNCHANGED flagVars
        <3>0. ~EventGone
            BY <2>2, NotGone
        <3>1. PICK out \in BOOLEAN : out = (tcb[me].pend = "TO" \/ tcb[me].ev = Null)
            OBVIOUS
        <3>2. pc[me].op = "MULTI" /\ event' = IF out THEN Removed(pc[OSTCBCur].on) ELSE event
            BY <1>0, <2>2, <3>0, <3>1 DEF MultiReturn, TimedOut
        <3>3. OSTCBFlagNode[me] = NoNode /\ In(me) = IF out THEN pc[me].on ELSE {}
            BY <1>2, <3>1, <3>2, WaitIsOver DEF SettledInv
        <3>4. tcb' = [Rested EXCEPT ![OSTCBCur].msg = Null]
            BY <2>2, <3>0 DEF MultiReturn
        <3>5. UNCHANGED <<OSRdyTbl, OSTCBPrioTbl, OSTCBFreeList, OSTCBFlagNode, load>>
            BY <1>1, <2>2 DEF restVars, flagVars
        <3> QED BY <1>0, <1>1, <1>2, <3>2, <3>3, <3>4, <3>5, CallersRest DEF SettledInv
    <2>3. CASE FlagReturn
        BY <1>0, <1>2, <2>3, FlagCallersRest DEF SettledInv
    <2>4. ~MutexReturn
        BY <1>0, <1>3 DEF MutexReturn, ReturnFromPend
    <2> QED BY <2>1, <2>2, <2>3, <2>4 DEF Returns, SemReturn, MboxReturn, QReturn
<1>5. Live' = Live /\ pc'[me].at = "task" /\ (\A t \in Tasks \ {me} : pc'[t] = pc[t]) /\ IdleTask # me
    <2>1. InTask.at = "task"
        BY DEF InTask
    <2> QED BY <1>0, <1>1, <1>3, <1>4, <2>1, SameLive DEF SettledInv, Scheduled
<1>6. Scheduled'
    <2>1. OSTCBCur' \in Live' /\ OSPrioCur' = tcb'[OSTCBCur'].prio /\ Runs'
        BY <1>0, <1>1, <1>2, <1>3, <1>4, <1>5 DEF SettledInv, Scheduled, SamePrios, restVars, Runs
    <2>2. IdleTask \in Live' /\ tcb'[IdleTask].prio \in OSRdyTbl' /\ pc'[IdleTask].at = "task"
        BY <1>1, <1>4, <1>5 DEF SettledInv, Scheduled, SamePrios, Live
    <2> QED BY <1>1, <1>2, <2>1, <2>2 DEF SettledInv, Scheduled, restVars, Runs
<1> QED BY <1>4, <1>6 DEF SettledInv

(* OS_TASK_SW: the most urgent of the tasks that are ready.                *)
LEMMA SwitchesToHighest ==
    ASSUME SettledInv, SwitchTo(Highest(OSRdyTbl))
    PROVE  /\ OSTCBCur' \in Live /\ OSPrioCur' = tcb[OSTCBCur'].prio
           /\ OSPrioCur' \in OSRdyTbl /\ OSPrioCur' = Highest(OSRdyTbl)
<1>1. OSRdyTbl \in SUBSET Nat /\ OSRdyTbl # {} /\ OSRdyTbl \subseteq PriosOf(Live)
    <2>1. PriosOf(Live) \subseteq Nat
        BY CoreAssumption DEF PriosOf, Live, Prios
    <2> QED BY <2>1 DEF SettledInv, TasksInv, Typed, Scheduled
<1>2. PICK p \in OSRdyTbl : p = Highest(OSRdyTbl)
    BY <1>1, LeastExists
<1>3. PICK t \in Live : tcb[t].prio = p
    BY <1>1 DEF PriosOf
<1>4. OSTCBPrioTbl[p] = t
    BY <1>3 DEF Live
<1>5. SwitchTo(p)
    BY <1>2
<1> QED BY <1>2, <1>3, <1>4, <1>5 DEF SwitchTo, SettledInv, Scheduled

(* Who is switched to, and from, goes on where it was. *)
LEMMA SwitchersGoOn ==
    ASSUME SettledInv, Sched \/ IntExit
    PROVE  /\ AllGoOn /\ \A t \in Tasks : pc[t].at = "task" => pc'[t].at = "task"
           /\ pc[OSTCBCur].at \in {"task", "sched"} => pc'[OSTCBCur].at \in {"task", "sched"}
<1>0. OSTCBCur \in Tasks /\ pc \in [Tasks -> PCs]
    BY DEF SettledInv, TasksInv, Typed, Scheduled, Live
<1>1. CASE UNCHANGED pc
    BY <1>0, <1>1 DEF AllGoOn, GoesOn
<1>2. CASE /\ pc[OSTCBCur].at \in {"sched", "pended"}
           /\ pc' = [pc EXCEPT ![OSTCBCur].at = IF @ = "sched" THEN "task" ELSE "wake"]
    <2>1. PICK at \in {"task", "wake"} : at = IF pc[OSTCBCur].at = "sched" THEN "task" ELSE "wake"
        OBVIOUS
    <2>2. pc' = [pc EXCEPT ![OSTCBCur].at = at]
        BY <1>2, <2>1
    <2>3. /\ pc'[OSTCBCur] = [pc[OSTCBCur] EXCEPT !.at = at]
          /\ \A t \in Tasks \ {OSTCBCur} : pc'[t] = pc[t]
        BY <1>0, <2>2
    <2>4. pc[OSTCBCur] \in PCs
        BY <1>0
    <2>5. /\ pc'[OSTCBCur] \in PCs /\ pc'[OSTCBCur].at = at
          /\ pc'[OSTCBCur].op = pc[OSTCBCur].op /\ pc'[OSTCBCur].on = pc[OSTCBCur].on
        BY <2>3, <2>4 DEF PCs
    <2>6. pc' \in [Tasks -> PCs]
        <3>1. DOMAIN pc' = Tasks /\ pc' = [t \in Tasks |-> pc'[t]]
            BY <1>0, <2>2
        <3>2. \A t \in Tasks : pc'[t] \in PCs
            BY <1>0, <2>3, <2>5
        <3> QED BY <3>1, <3>2
    <2>7. \A t \in Tasks : GoesOn(t)
        BY <1>2, <2>1, <2>3, <2>5 DEF GoesOn
    <2> QED BY <1>2, <2>1, <2>3, <2>5, <2>6, <2>7 DEF AllGoOn
<1> QED BY <1>1, <1>2 DEF Sched, IntExit, Switch, OS_Sched, OSIntExit

LEMMA SwitchKeeps ==
    ASSUME SettledInv, Sched \/ IntExit, UNCHANGED load
    PROVE  SettledInv'
<1>1. /\ UNCHANGED <<tcb, OSTCBPrioTbl, OSTCBFreeList, OSRdyTbl, OSLockNesting, event, OSTCBFlagNode>>
      /\ IF OSLockNesting = 0 THEN SwitchTo(Highest(OSRdyTbl)) ELSE UNCHANGED <<OSTCBCur, OSPrioCur>>
      /\ lazy' = (lazy /\ OSLockNesting > 0) /\ OSIntNesting' = 0
    BY DEF Sched, IntExit, Switch, OS_Sched, OSIntExit, flagVars
<1>2. OSTCBCur \in Tasks /\ pc \in [Tasks -> PCs]
    BY DEF SettledInv, TasksInv, Typed, Scheduled, Live
<1>3. AllGoOn /\ (\A t \in Tasks : pc[t].at = "task" => pc'[t].at = "task")
      /\ (pc[OSTCBCur].at \in {"task", "sched"} => pc'[OSTCBCur].at \in {"task", "sched"})
    BY SwitchersGoOn
<1>4. TasksInv' /\ SamePrios
    <2>1. Calm
        BY <1>1, <1>3 DEF Calm
    <2> QED BY <2>1, CalmStays DEF SettledInv
<1>5. Live' = Live
    BY <1>4, SameLive
<1>6. IdleTask \in Live' /\ tcb'[IdleTask].prio \in OSRdyTbl' /\ pc'[IdleTask].at = "task" /\ lazy' \in BOOLEAN
    BY <1>1, <1>3, <1>5 DEF SettledInv, Scheduled, Live
<1>7. CASE OSLockNesting = 0
    <2>1. /\ OSTCBCur' \in Live /\ OSPrioCur' = tcb[OSTCBCur'].prio
          /\ OSPrioCur' \in OSRdyTbl /\ OSPrioCur' = Highest(OSRdyTbl)
        BY <1>1, <1>7, SwitchesToHighest
    <2> QED BY <1>1, <1>4, <1>5, <1>6, <1>7, <2>1 DEF SettledInv, Scheduled
<1>8. CASE OSLockNesting = 1
    <2>1. UNCHANGED <<OSTCBCur, OSPrioCur>> /\ pc[OSTCBCur].at \in {"task", "sched"}
        BY <1>1, <1>8 DEF SettledInv, Scheduled
    <2>2. pc'[OSTCBCur'].at \in {"task", "sched"} /\ ~Runs'
        BY <1>1, <1>3, <1>8, <2>1 DEF Runs
    <2> QED BY <1>1, <1>4, <1>5, <1>6, <1>8, <2>1, <2>2 DEF SettledInv, Scheduled
<1> QED BY <1>7, <1>8 DEF SettledInv, Scheduled

LEMMA OutsideKeeps ==
    ASSUME SettledInv, IntEnter \/ Tick \/ Lock \/ Unlock, UNCHANGED load
    PROVE  SettledInv'
<1>1. CASE IntEnter
    <2>1. UNCHANGED <<tcb, OSTCBPrioTbl, OSTCBFreeList, OSRdyTbl, OSTCBCur, OSPrioCur, OSLockNesting,
                      event, pc, OSTCBFlagNode, lazy>> /\ OSIntNesting' = 1
        BY <1>1 DEF IntEnter, OSIntEnter, Outside, flagVars
    <2>2. Calm
        BY <2>1 DEF Calm, AllGoOn, GoesOn, SettledInv, TasksInv, Typed
    <2>3. TasksInv' /\ SamePrios /\ Live' = Live /\ ~Runs'
        BY <2>1, <2>2, CalmStays, SameLive DEF SettledInv, Runs
    <2> QED BY <2>1, <2>3 DEF SettledInv, Scheduled
<1>2. CASE Tick
    <2>1. OSTimeTick /\ UNCHANGED <<restVars, pc, OSTCBFlagNode, lazy>> /\ OSIntNesting = 1
        BY <1>2 DEF Tick, OSTimeTick, Outside, flagVars
    <2>2. TasksInv' /\ SamePrios /\ OSRdyTbl \subseteq OSRdyTbl' /\ Live' = Live
        BY <2>1, TickStays, SameLive DEF SettledInv
    <2>3. /\ OSTCBCur \in Tasks /\ IdleTask \in Tasks /\ ~Runs'
        BY <2>1 DEF SettledInv, Scheduled, Live, Runs, restVars
    <2> QED BY <2>1, <2>2, <2>3 DEF SettledInv, Scheduled, restVars, SamePrios
<1>3. CASE Lock
    <2>1. UNCHANGED <<tcb, OSTCBPrioTbl, OSTCBFreeList, OSRdyTbl, OSTCBCur, OSPrioCur, OSIntNesting,
                      event, pc, OSTCBFlagNode, lazy>> /\ OSLockNesting' = 1 /\ OSIntNesting = 0
        BY <1>3 DEF Lock, OSSchedLock, Outside, flagVars
    <2>2. Calm
        BY <2>1 DEF Calm, AllGoOn, GoesOn, SettledInv, TasksInv, Typed
    <2>3. TasksInv' /\ SamePrios /\ Live' = Live /\ ~Runs'
        BY <2>1, <2>2, CalmStays, SameLive DEF SettledInv, Runs
    <2>4. pc[OSTCBCur].at = "task"
        BY <1>3, <2>1, MayCalls DEF Lock
    <2> QED BY <2>1, <2>3, <2>4 DEF SettledInv, Scheduled
<1>4. CASE Unlock
    <2>1. UNCHANGED <<tcb, OSTCBPrioTbl, OSTCBFreeList, OSRdyTbl, OSTCBCur, OSPrioCur, OSIntNesting,
                      event, OSTCBFlagNode, lazy>> /\ OSLockNesting' = OSLockNesting - 1 /\ OSIntNesting = 0
          /\ OSLockNesting > 0
        BY <1>4 DEF Unlock, OSSchedUnlock, Outside, flagVars
    <2>2. OSLockNesting = 1 /\ OSLockNesting' = 0
        BY <2>1 DEF SettledInv, Scheduled
    <2>3. CallSched /\ Caller /\ OSTCBCur \in Tasks
        BY <1>4, <2>2, MayCalls DEF Unlock, OSSchedUnlock
    <2>4. Calm
        BY <2>1, <2>3, CallersGoOn DEF Calm
    <2>5. TasksInv' /\ SamePrios /\ Live' = Live
        BY <2>4, CalmStays, SameLive DEF SettledInv
    <2>6. pc'[OSTCBCur].at = "sched" /\ (\A t \in Tasks \ {OSTCBCur} : pc'[t] = pc[t]) /\ OSTCBCur # IdleTask
        <3>1. pc \in [Tasks -> PCs]
            BY DEF SettledInv, TasksInv, Typed
        <3> QED BY <2>1, <2>3, <3>1 DEF CallSched, PCs, Caller
    <2>7. ~Runs' /\ pc'[IdleTask].at = "task"
        BY <2>1, <2>6 DEF Runs, SettledInv, Scheduled, Live
    <2> QED BY <2>1, <2>2, <2>5, <2>6, <2>7 DEF SettledInv, Scheduled
<1> QED BY <1>1, <1>2, <1>3, <1>4

(* No block goes back to the list of those that are free, if tasks wait    *)
(* for several events.                                                     *)
LEMMA NoEventFreed ==
    ASSUME SettledInv, Settled, CanCall("OSEventPendMulti"), [Next]_kernelVars
    PROVE  OSEventFreeList' \subseteq OSEventFreeList
<1>1. ~May("OSSemDel") /\ ~May("OSMboxDel") /\ ~May("OSQDel") /\ ~MutexCalls
    BY MayCalls DEF Settled, MutexCalls
<1>2. CASE SemCalls
    <2>1. PICK e, cnt, timeout, broadcast :
              \/ OSSemAccept(e) \/ OSSemPend(e, timeout) \/ OSSemPost(e) \/ OSSemSet(e, cnt)
              \/ PendAbort("SEM", e, broadcast) \/ CreateEvent(e, cnt)
        BY <1>1, <1>2 DEF SemCalls, OSSemPendAbort, OSSemCreate
    <2> QED BY <2>1 DEF OSSemAccept, OSSemPend, OSSemPost, OSSemSet, PendAbort, CreateEvent, restVars
<1>3. CASE MboxCalls
    <2>1. PICK e, timeout, m, broadcast, sched :
              \/ OSMboxAccept(e) \/ OSMboxPend(e, timeout) \/ OSMboxPostOpt(e, m, broadcast, sched)
              \/ PendAbort("MBOX", e, broadcast) \/ CreateEvent(e, m)
        BY <1>1, <1>3 DEF MboxCalls, OSMboxPost, OSMboxPendAbort, OSMboxCreate
    <2> QED BY <2>1 DEF OSMboxAccept, OSMboxPend, OSMboxPostOpt, PendAbort, CreateEvent, restVars
<1>4. CASE QCalls
    <2>1. PICK e, timeout, m, broadcast, front, sched :
              \/ OSQAccept(e) \/ OSQPend(e, timeout) \/ OSQPostOpt(e, m, broadcast, front, sched) \/ OSQFlush(e)
              \/ PendAbort("Q", e, broadcast) \/ CreateEvent(e, m)
        BY <1>1, <1>4 DEF QCalls, OSQPost, OSQPostFront, OSQPendAbort, OSQCreate
    <2> QED BY <2>1 DEF OSQAccept, OSQPend, OSQPostOpt, OSQFlush, PendAbort, CreateEvent, restVars
<1>5. CASE MultiCalls
    BY <1>5 DEF MultiCalls, OSEventPendMulti, restVars
<1>6. CASE FlagCalls
    <2>1. PICK g, want, type, consume, timeout, set :
              \/ OSFlagAccept(g, want, type, consume) \/ OSFlagPend(g, want, type, consume, timeout)
              \/ OSFlagPost(g, want, set) \/ OSFlagCreate(g, want) \/ OSFlagDel(g, set)
        BY <1>6 DEF FlagCalls
    <2> QED BY <2>1 DEF OSFlagAccept, OSFlagPend, OSFlagPost, OSFlagCreate, OSFlagDel, restVars
<1>7. CASE TaskCalls
    <2>1. ~May("OSTaskDel") /\ ~May("OSTaskCreate") /\ ~May("OSTaskChangePrio")
        BY MayCalls DEF Settled
    <2>2. ~OS_TCBInit /\ ~TaskDelEnd
        BY DEF OS_TCBInit, TaskDelEnd, SettledInv, TasksInv, Typed, PCs, Scheduled, Live
    <2>3. PICK t, ticks :
              \/ OSTaskSuspend(t) \/ OSTaskResume(t) \/ OSTimeDlyResume(t) \/ OSTaskDelReq(t)
              \/ OSTimeDly(ticks)
        BY <1>7, <2>1, <2>2 DEF TaskCalls
    <2> QED BY <2>3 DEF OSTaskSuspend, OSTaskResume, OSTimeDlyResume, OSTaskDelReq, OSTimeDly, restVars
<1>8. CASE Returns
    BY <1>8 DEF Returns, SemReturn, MboxReturn, QReturn, MultiReturn, MutexReturn, FlagReturn,
                ReturnFromPend, restVars
<1>9. CASE Sched \/ IntExit \/ IntEnter \/ Tick \/ Lock \/ Unlock
    BY <1>9 DEF Sched, IntExit, Switch, IntEnter, Tick, Lock, Unlock, OS_Sched, OSIntExit, OSIntEnter,
                OSTimeTick, OSSchedLock, OSSchedUnlock, restVars
<1>10. CASE MemCalls \/ UNCHANGED kernelVars
    BY <1>10 DEF MemCalls, kernelVars, coreVars
<1> QED BY <1>1, <1>2, <1>3, <1>4, <1>5, <1>6, <1>7, <1>8, <1>9, <1>10 DEF Next, EventCalls

(* What is an event stays the event it is, then.                           *)
LEMMA EventsLast ==
    ASSUME SettledInv, Settled, BlocksInv, CanCall("OSEventPendMulti"), [Next]_kernelVars,
           NEW e \in Events, event[e].type # "UNUSED"
    PROVE  event'[e].type = event[e].type
<1>1. EventsWell /\ QueuesWell /\ e \notin OSEventFreeList
    BY DEF BlocksInv, QueuesWell
<1>2. CASE Used
    BY <1>2 DEF Used, Kept
<1>3. ASSUME NEW x, NEW type, NEW cnt, NEW ptr, Made(x, type, cnt, ptr) PROVE event'[e].type = event[e].type
    BY <1>1, <1>3 DEF Made, EventsWell
<1>4. ASSUME NEW x, Gone(x) PROVE event'[e].type = event[e].type
    <2>1. x \in OSEventFreeList
        BY <1>4, NoEventFreed DEF Gone
    <2>2. PICK f : Kept(f) /\ event' = [f EXCEPT ![x] = Unused]
        BY <1>4 DEF Gone
    <2> QED BY <1>1, <2>1, <2>2 DEF Kept
<1> QED BY <1>1, <1>2, <1>3, <1>4, NextBlocks DEF BlockStep

(* Nobody begins to wait for several events but by OSEventPendMulti.       *)
StaysOut == \A t \in Tasks : OfSeveral(t)' => OfSeveral(t)

LEMMA NobodyEnters ==
    ASSUME SettledInv,
           \/ AllGoOn \/ Return \/ CallSched
           \/ \E op \in {"SEM", "MBOX", "Q", "FLAG", "FLAG_CLR", "FLAG_SET"} : \E on : Pended(op, on)
           \/ pc' = [pc EXCEPT ![OSTCBCur] = InTask]
    PROVE  StaysOut
<1>1. pc \in [Tasks -> PCs] /\ OSTCBCur \in Tasks
    BY DEF SettledInv, TasksInv, Typed, Scheduled, Live
<1>2. CASE AllGoOn
    BY <1>2 DEF AllGoOn, GoesOn, StaysOut, OfSeveral, Inside
<1>3. CASE UNCHANGED pc
    BY <1>3 DEF StaysOut, OfSeveral, Inside
<1>4. CASE pc' = [pc EXCEPT ![OSTCBCur].at = "sched"]
    <2>1. pc'[OSTCBCur].at = "sched" /\ \A t \in Tasks \ {OSTCBCur} : pc'[t] = pc[t]
        BY <1>1, <1>4 DEF PCs
    <2> QED BY <2>1 DEF StaysOut, OfSeveral, Inside
<1>5. ASSUME NEW new, new.op # "MULTI", pc' = [pc EXCEPT ![OSTCBCur] = new] PROVE StaysOut
    <2>1. pc'[OSTCBCur] = new /\ \A t \in Tasks \ {OSTCBCur} : pc'[t] = pc[t]
        BY <1>1, <1>5
    <2> QED BY <1>5, <2>1 DEF StaysOut, OfSeveral, Inside
<1> QED BY <1>2, <1>3, <1>4, <1>5 DEF Return, CallSched, Pended, InTask

LEMMA OnlyMultiEnters ==
    ASSUME SettledInv, Settled, [Next]_kernelVars, ~MultiCalls
    PROVE  StaysOut
<1>1. ~MutexCalls
    BY MayCalls DEF Settled, MutexCalls
<1>2. CASE SemCalls
    <2>1. Return \/ CallSched \/ \E e : Pended("SEM", {e})
        BY <1>2 DEF SemCalls, OSSemAccept, OSSemPend, OSSemPost, OSSemPendAbort, PendAbort, OSSemSet,
                    OSSemCreate, CreateEvent, OSSemDel, DeleteEvent
    <2> QED BY <2>1, NobodyEnters
<1>3. CASE MboxCalls
    <2>1. PICK e, timeout, m, broadcast, sched :
              \/ OSMboxAccept(e) \/ OSMboxPend(e, timeout) \/ OSMboxPostOpt(e, m, broadcast, sched)
              \/ PendAbort("MBOX", e, broadcast) \/ CreateEvent(e, m) \/ DeleteEvent("MBOX", e, broadcast)
        BY <1>3 DEF MboxCalls, OSMboxPost, OSMboxPendAbort, OSMboxCreate, OSMboxDel
    <2>2. Return \/ CallSched \/ Pended("MBOX", {e})
        BY <2>1 DEF OSMboxAccept, OSMboxPend, OSMboxPostOpt, PendAbort, CreateEvent, DeleteEvent
    <2> QED BY <2>2, NobodyEnters
<1>4. CASE QCalls
    <2>1. PICK e, timeout, m, broadcast, front, sched :
              \/ OSQAccept(e) \/ OSQPend(e, timeout) \/ OSQPostOpt(e, m, broadcast, front, sched) \/ OSQFlush(e)
              \/ PendAbort("Q", e, broadcast) \/ CreateEvent(e, m) \/ DeleteEvent("Q", e, broadcast)
        BY <1>4 DEF QCalls, OSQPost, OSQPostFront, OSQPendAbort, OSQCreate, OSQDel
    <2>2. Return \/ CallSched \/ Pended("Q", {e})
        BY <2>1 DEF OSQAccept, OSQPend, OSQPostOpt, OSQFlush, PendAbort, CreateEvent, DeleteEvent
    <2> QED BY <2>2, NobodyEnters
<1>5. CASE FlagCalls
    <2>1. PICK g, want, type, consume, timeout, set :
              \/ OSFlagAccept(g, want, type, consume) \/ OSFlagPend(g, want, type, consume, timeout)
              \/ OSFlagPost(g, want, set) \/ OSFlagCreate(g, want) \/ OSFlagDel(g, set)
        BY <1>5 DEF FlagCalls
    <2>2. Return \/ CallSched \/ \E op \in {"FLAG", "FLAG_CLR", "FLAG_SET"} : Pended(op, {g})
        BY <2>1 DEF OSFlagAccept, OSFlagPend, OSFlagPost, OSFlagCreate, OSFlagDel
    <2> QED BY <2>2, NobodyEnters
<1>6. CASE TaskCalls
    <2>1. ~May("OSTaskDel") /\ ~May("OSTaskCreate") /\ ~May("OSTaskChangePrio")
        BY MayCalls DEF Settled
    <2>2. ~OS_TCBInit /\ ~TaskDelEnd
        BY DEF OS_TCBInit, TaskDelEnd, SettledInv, TasksInv, Typed, PCs, Scheduled, Live
    <2>3. Return \/ CallSched
        BY <1>6, <2>1, <2>2
        DEF TaskCalls, OSTaskSuspend, OSTaskResume, OSTimeDlyResume, OSTaskDelReq, OSTimeDly
    <2> QED BY <2>3, NobodyEnters
<1>7. CASE Returns
    <2>1. pc' = [pc EXCEPT ![OSTCBCur] = InTask]
        BY <1>7 DEF Returns, SemReturn, MboxReturn, QReturn, MultiReturn, MutexReturn, FlagReturn, ReturnFromPend
    <2> QED BY <2>1, NobodyEnters
<1>8. CASE Sched \/ IntExit
    BY <1>8, SwitchersGoOn, NobodyEnters
<1>9. CASE IntEnter \/ Tick \/ Lock \/ Unlock \/ MemCalls \/ UNCHANGED kernelVars
    <2>1. Return \/ CallSched
        BY <1>9 DEF IntEnter, Tick, Lock, Unlock, OSIntEnter, OSTimeTick, OSSchedLock, OSSchedUnlock, Return,
                    MemCalls, kernelVars, coreVars
    <2> QED BY <2>1, NobodyEnters
<1> QED BY <1>1, <1>2, <1>3, <1>4, <1>5, <1>6, <1>7, <1>8, <1>9 DEF Next, EventCalls

LEMMA SeveralStays ==
    ASSUME SettledInv, SeveralInv, Settled, BlocksInv, [Next]_kernelVars
    PROVE  SeveralInv'
<1>1. UNCHANGED load
    BY DEF Next, MemCalls, kernelVars
<1>2. ASSUME NEW t \in Tasks, OfSeveral(t)'
      PROVE  CanCall("OSEventPendMulti") /\ \A e \in Events : event[e].type \in {"SEM", "MBOX", "Q"}
    <2>1. CASE MultiCalls
        BY <2>1, MayCalls DEF MultiCalls, OSEventPendMulti
    <2>2. CASE ~MultiCalls
        BY <1>2, <2>2, OnlyMultiEnters DEF StaysOut, SeveralInv
    <2> QED BY <2>1, <2>2
<1>3. ASSUME CanCall("OSEventPendMulti"), NEW e \in Events, event[e].type \in {"SEM", "MBOX", "Q"}
      PROVE  event'[e].type \in {"SEM", "MBOX", "Q"}
    BY <1>3, EventsLast
<1>4. CanCall("OSEventPendMulti") => CanCall("OSEventPendMulti")'
    BY <1>1 DEF CanCall, L
<1> QED BY <1>2, <1>3, <1>4 DEF SeveralInv

(* The invariant of the settled applications is inductive. *)
LEMMA SettledStays ==
    ASSUME SettledInv, SeveralInv, Settled, BlocksInv, [Next]_kernelVars
    PROVE  SettledInv'
<1>1. EventsWell /\ QueuesWell
    BY DEF BlocksInv
<1>2. ASSUME UNCHANGED <<coreVars, flagVars, load, lazy>> PROVE SettledInv'
    <2>1. Calm
        BY <1>2 DEF Calm, AllGoOn, GoesOn, SettledInv, TasksInv, Typed, coreVars, flagVars
    <2>2. TasksInv' /\ SamePrios /\ Live' = Live /\ Runs' = Runs
        BY <1>2, <2>1, CalmStays, SameLive DEF SettledInv, Runs, coreVars
    <2> QED BY <1>2, <2>2 DEF SettledInv, Scheduled, coreVars
<1>3. CASE MemCalls \/ UNCHANGED kernelVars
    BY <1>2, <1>3 DEF MemCalls, kernelVars
<1>4. CASE EventCalls /\ UNCHANGED load
    <2>1. UNCHANGED <<OSTCBFlagNode, load>>
        BY <1>4 DEF EventCalls, flagVars
    <2>2. ~MutexCalls
        BY MayCalls DEF MutexCalls, Settled
    <2>3. ServiceStep
        BY <1>1, <1>4, <2>1, <2>2, SemService, MboxService, QService, MultiService DEF EventCalls
    <2> QED BY <2>3, ServiceScheduled
<1>5. CASE (FlagCalls \/ TaskCalls) /\ UNCHANGED load
    BY <1>5, FlagService, TaskService, ServiceScheduled
<1>6. CASE Returns /\ UNCHANGED load
    BY <1>1, <1>6, ReturnsKeep
<1>7. CASE (Sched \/ IntExit) /\ UNCHANGED load
    BY <1>7, SwitchKeeps
<1>8. CASE (IntEnter \/ Tick \/ Lock \/ Unlock) /\ UNCHANGED load
    BY <1>8, OutsideKeeps
<1> QED BY <1>3, <1>4, <1>5, <1>6, <1>7, <1>8 DEF Next

LEMMA SettledAtFirst == Init => SettledInv
<1> SUFFICES ASSUME Init PROVE SettledInv
    OBVIOUS
<1>0. PICK prio, events, pips, groups :
          /\ prio = L.prio /\ events = L.events
          /\ CoreInit(prio, events, pips) /\ FlagInit(groups)
    BY DEF Init
<1> DEFINE D == DOMAIN prio
<1>1. /\ load \in DOMAIN Workloads /\ lazy = FALSE
      /\ D \subseteq Tasks /\ prio \in [D -> Prios] /\ (\A t, u \in D : prio[t] = prio[u] => t = u)
      /\ IdleTask \in D /\ prio[IdleTask] = OS_LOWEST_PRIO
      /\ \A e \in Events : events[e].wait = {}
    <2>1. load \in DOMAIN Workloads /\ lazy = FALSE /\ Workload(L)
        BY WorkloadAssumption DEF Init, L
    <2>2. prio \in [D -> Prios] /\ \A t, u \in D : prio[t] = prio[u] => t = u
        BY <1>0, <2>1 DEF Workload, Injection, IsInjective
    <2>3. \A e \in Events : events[e].wait \in {{}}
        BY <1>0, <2>1 DEF Workload
    <2> QED BY <1>0, <2>1, <2>2, <2>3 DEF Workload
<1>2. /\ tcb = [t \in Tasks |-> FreshTCB(IF t \in D THEN prio[t] ELSE OS_LOWEST_PRIO + 1)]
      /\ \A p \in Prios : (\E t \in D : prio[t] = p) => OSTCBPrioTbl[p] = CHOOSE t \in D : prio[t] = p
      /\ OSTCBFreeList = Tasks \ D
      /\ OSRdyTbl = {prio[t] : t \in D}
      /\ OSPrioCur = Highest(OSRdyTbl) /\ OSTCBCur = OSTCBPrioTbl[OSPrioCur]
      /\ OSIntNesting = 0 /\ OSLockNesting = 0
      /\ event = events /\ pc = [t \in Tasks |-> InTask]
      /\ OSTCBFlagNode = [t \in Tasks |-> NoNode]
    BY <1>0 DEF CoreInit, FlagInit
<1> HIDE DEF D
<1>3. \A t \in D : OSTCBPrioTbl[prio[t]] = t
    BY <1>1, <1>2
<1>4. ASSUME NEW t \in Tasks
      PROVE  /\ tcb[t] \in TCBs /\ tcb[t].prio = IF t \in D THEN prio[t] ELSE OS_LOWEST_PRIO + 1
             /\ tcb[t].stat = {} /\ tcb[t].dly = 0 /\ tcb[t].ev = Null /\ tcb[t].multi = {}
    <2> DEFINE p == IF t \in D THEN prio[t] ELSE OS_LOWEST_PRIO + 1
    <2>1. p \in 0 .. OS_LOWEST_PRIO + 1
        BY <1>1, CoreAssumption DEF Prios
    <2>2. tcb[t] = FreshTCB(p)
        BY <1>2
    <2>3. 0 \in 0 .. MaxDelay
        BY CoreAssumption
    <2> HIDE DEF p
    <2>4. /\ tcb[t] \in TCBs /\ tcb[t].prio = p
          /\ tcb[t].stat = {} /\ tcb[t].dly = 0 /\ tcb[t].ev = Null /\ tcb[t].multi = {}
        BY <2>1, <2>2, <2>3 DEF FreshTCB, TCBs
    <2> QED BY <2>4 DEF p
<1>5. Live = D
    <2>1. OS_LOWEST_PRIO + 1 \notin Prios
        BY CoreAssumption DEF Prios
    <2>2. \A t \in Tasks : t \in D => t \in Live
        BY <1>1, <1>3, <1>4 DEF Live
    <2>3. \A t \in Tasks : t \notin D => t \notin Live
        BY <1>4, <2>1 DEF Live
    <2>4. Live \subseteq Tasks
        BY DEF Live
    <2> QED BY <1>1, <2>2, <2>3, <2>4
<1>6. PriosOf(Live) = OSRdyTbl
    <2>1. \A t \in D : tcb[t].prio = prio[t]
        BY <1>1, <1>4
    <2> QED BY <1>2, <1>5, <2>1 DEF PriosOf
<1>7. Typed
    <2>1. tcb \in [Tasks -> TCBs]
        BY <1>2, <1>4
    <2>2. InTask \in PCs
        BY DEF InTask, PCs
    <2> QED BY <1>1, <1>2, <1>5, <1>6, <2>1, <2>2 DEF Typed
<1>8. ASSUME NEW t \in Live PROVE TaskWell(t)
    <2>1. t \in Tasks /\ pc[t].at = "task" /\ OSTCBFlagNode[t] = NoNode
        BY <1>2 DEF Live, InTask
    <2>2. In(t) = {}
        BY <1>1, <1>2 DEF In
    <2>3. AtEase(t)
        BY <1>4, <2>1, <2>2 DEF AtEase
    <2>4. Free(t) /\ tcb[t].prio \in OSRdyTbl
        BY <1>4, <1>6, <2>1 DEF Free, Suspended, PriosOf
    <2> QED BY <2>3, <2>4 DEF TaskWell
<1>9. Scheduled
    <2>1. OSRdyTbl \in SUBSET Nat /\ OSRdyTbl # {}
        BY <1>1, <1>2, CoreAssumption DEF Prios
    <2>2. OSPrioCur \in OSRdyTbl
        BY <1>2, <2>1, LeastExists
    <2>3. PICK t \in D : prio[t] = OSPrioCur
        BY <1>2, <2>2
    <2>4. OSTCBCur = t /\ t \in Tasks /\ IdleTask \in Tasks
        BY <1>1, <1>2, <1>3, <2>3
    <2>5. OSPrioCur = tcb[t].prio
        BY <1>4, <2>3, <2>4
    <2>6. tcb[IdleTask].prio \in OSRdyTbl /\ pc[IdleTask].at = "task"
        <3>1. IdleTask \in Live
            BY <1>1, <1>5
        <3>2. pc[IdleTask] = InTask
            BY <1>2, <2>4
        <3> QED BY <1>6, <3>1, <3>2 DEF InTask, PriosOf
    <2>7. OSIntNesting = 0 /\ OSLockNesting = 0 /\ lazy = FALSE /\ OSPrioCur = Highest(OSRdyTbl)
        BY <1>1, <1>2
    <2>8. OSTCBCur \in Live /\ IdleTask \in Live
        BY <1>1, <1>5, <2>4
    <2>9. lazy \in BOOLEAN /\ OSIntNesting \in 0 .. 1 /\ OSLockNesting \in 0 .. 1 /\ ~(OSLockNesting > 0)
        <3>1. lazy \in BOOLEAN
            BY <2>7
        <3> QED BY <2>7, <3>1
    <2>10. OSPrioCur = tcb[OSTCBCur].prio
        BY <2>4, <2>5
    <2> QED BY <2>2, <2>6, <2>7, <2>8, <2>9, <2>10 DEF Scheduled
<1> QED BY <1>7, <1>8, <1>9 DEF SettledInv, TasksInv

LEMMA SettledAlways == Spec => [](Settled => SettledInv /\ SeveralInv)
<1>1. Init => (Settled => SettledInv /\ SeveralInv)
    <2>1. Init => SeveralInv
        BY DEF Init, CoreInit, InTask, SeveralInv, OfSeveral, Inside, Live
    <2> QED BY <2>1, SettledAtFirst
<1>2. ASSUME Settled => SettledInv /\ SeveralInv, BlocksInv, [Next]_kernelVars
      PROVE  (Settled => SettledInv /\ SeveralInv)'
    <2>1. UNCHANGED load
        BY <1>2 DEF Next, MemCalls, kernelVars
    <2>2. Settled' = Settled
        BY <2>1 DEF Settled, CanCall, L
    <2> QED BY <1>2, <2>2, SettledStays, SeveralStays
<1> QED BY <1>1, <1>2, EventAndQueueBlocks, PTL DEF Spec

-----------------------------------------------------------------------------
(* What the invariant says, in the words of OsKernel.                      *)

LEMMA NobodyDeleting ==
    ASSUME Typed
    PROVE  \A t : ~Deleting(t)
BY DEF Typed, PCs, Deleting, Live

LEMMA WhoIsReady ==
    ASSUME TasksInv
    PROVE  ReadyIffRunnable
<1>1. \A t \in Live : Runnable(t) <=> tcb[t].prio \in OSRdyTbl
    BY NobodyDeleting DEF TasksInv, TaskWell, Free, Runnable
<1>2. OSRdyTbl \subseteq {tcb[t].prio : t \in Live}
    BY DEF TasksInv, Typed, PriosOf
<1> QED BY <1>1, <1>2 DEF ReadyIffRunnable

LEMMA WhoIsListed ==
    ASSUME TasksInv
    PROVE  ListedIffWaiting
<1>1. ASSUME NEW t \in Live, NEW e \in Events
      PROVE  tcb[t].prio \in event[e].wait <=> WaitsFor(t, e)
    <2>1. ~Deleting(t) /\ TaskWell(t)
        BY NobodyDeleting DEF TasksInv
    <2>2. CASE AtEase(t)
        BY <2>2 DEF AtEase, In, WaitsFor
    <2>3. CASE OnOne(t)
        BY <2>1, <2>3 DEF OnOne, In, Pending, Inside, TimedOutNow, WaitsFor
    <2>4. CASE OnSeveral(t)
        <3>1. tcb[t].multi # {} /\ Null \notin Events
            BY <2>4, CoreAssumption DEF OnSeveral
        <3> QED BY <2>1, <2>4, <3>1 DEF OnSeveral, In, Inside, TimedOutNow, WaitsFor
    <2>5. CASE OnFlags(t)
        <3>1. e \notin pc[t].on /\ e \notin In(t)
            BY <2>5, FlagAssumption DEF OnFlags
        <3> QED BY <3>1 DEF In, WaitsFor
    <2> QED BY <2>1, <2>2, <2>3, <2>4, <2>5 DEF TaskWell
<1>2. \A e \in Events : event[e].wait \subseteq {tcb[t].prio : t \in Live}
    BY DEF TasksInv, Typed, PriosOf
<1>3. ASSUME NEW e \in Events
      PROVE  event[e].wait = {tcb[t].prio : t \in {x \in Live : WaitsFor(x, e)}}
    BY <1>1, <1>2
<1> QED BY <1>3 DEF ListedIffWaiting, Waiters

LEMMA WhoRuns ==
    ASSUME SettledInv
    PROVE  HighestRuns
BY DEF SettledInv, Scheduled, Runs, HighestRuns, Live

(* In a settled application, whatever the calls of its tasks and of the    *)
(* handler and however they interleave, a task is in the ready list        *)
(* exactly when no wait, no delay and no suspension keeps it.              *)
THEOREM ReadyTasksAreRunnable == Spec => [](Settled => ReadyIffRunnable)
<1>1. SettledInv => ReadyIffRunnable
    BY WhoIsReady DEF SettledInv
<1> QED BY <1>1, SettledAlways, PTL

(* In a settled application the list of an event holds the tasks that wait *)
(* for it, and those whose wait has timed out and that have not run since. *)
THEOREM ListedTasksWait == Spec => [](Settled => ListedIffWaiting)
<1>1. SettledInv => ListedIffWaiting
    BY WhoIsListed DEF SettledInv
<1> QED BY <1>1, SettledAlways, PTL

(* In a settled application the task that runs is the most urgent one that *)
(* is ready, unless the scheduler is locked or a call has put the change   *)
(* off.                                                                    *)
THEOREM HighestOfReadyRuns == Spec => [](Settled => HighestRuns)
<1>1. SettledInv => HighestRuns
    BY WhoRuns
<1> QED BY <1>1, SettledAlways, PTL

(* In a settled application no control block and no memory block is lost   *)
(* or handed out twice.                                                    *)
THEOREM NoBlockIsLost == Spec => [](Settled => BlocksConserved)
<1>1. ASSUME BlocksInv, SettledInv
      PROVE  BlocksConserved
    <2>1. ASSUME NEW pq \in Queues
          PROVE  Cardinality({e \in Events : Queue(e) /\ event[e].ptr = pq}) =
                     IF pq \in OSQFreeList THEN 0 ELSE 1
        <3> DEFINE Q == {e \in Events : Queue(e) /\ event[e].ptr = pq}
        <3>1. CASE pq \in OSQFreeList
            <4>1. Q = {}
                BY <1>1, <3>1 DEF BlocksInv, QueuesWell
            <4> QED BY <3>1, <4>1, FS_EmptySet
        <3>2. CASE pq \notin OSQFreeList
            <4>1. PICK e \in Events : Q = {e}
                BY <1>1, <3>2 DEF BlocksInv, QueuesWell
            <4> QED BY <3>2, <4>1, FS_Singleton
        <3> QED BY <3>1, <3>2
    <2>2. OSTCBFreeList = Tasks \ Live
        BY <1>1 DEF SettledInv, TasksInv, Typed
    <2>3. OSEventFreeList = {e \in Events : event[e].type = "UNUSED"}
        BY <1>1 DEF BlocksInv, QueuesWell
    <2>4. BlocksChained
        BY <1>1 DEF BlocksInv, MemInv
    <2> QED BY <2>1, <2>2, <2>3, <2>4 DEF BlocksConserved
<1> QED BY <1>1, SettledAlways, EventAndQueueBlocks, PTL

-----------------------------------------------------------------------------
(* The types that no other invariant needs.                                *)

GroupsTyped == group \in [Groups -> [used : BOOLEAN, flags : SUBSET Flags]]

FlagsWell ==
    /\ GroupsTyped
    /\ OSTCBFlagsRdy \in [Tasks -> SUBSET Flags]

TableWell == OSTCBPrioTbl \in [Prios -> Tasks \cup {Null, Reserved}]

EventTypesWell == \A e \in Events : event[e].type \in EventTypes

LEMMA EventTypesStay ==
    ASSUME EventsWell, QueuesWell, EventTypesWell, [Next]_kernelVars
    PROVE  EventTypesWell'
<1>1. CASE Used
    BY <1>1 DEF Used, Kept, EventTypesWell
<1>2. ASSUME NEW e, NEW type, NEW cnt, NEW ptr, Made(e, type, cnt, ptr) PROVE EventTypesWell'
    BY <1>2 DEF Made, NewEvent, EventsWell, EventTypesWell
<1>3. ASSUME NEW e, Gone(e) PROVE EventTypesWell'
    BY <1>3 DEF Gone, Unused, NewEvent, Kept, EventTypesWell, EventTypes
<1> QED BY <1>1, <1>2, <1>3, NextBlocks DEF BlockStep

LEMMA TableStays ==
    ASSUME SettledInv, Settled, BlocksInv, [Next]_kernelVars
    PROVE  UNCHANGED OSTCBPrioTbl
<1>1. EventsWell /\ QueuesWell
    BY DEF BlocksInv
<1>2. CASE EventCalls /\ UNCHANGED load
    <2>1. UNCHANGED <<OSTCBFlagNode, load>>
        BY <1>2 DEF EventCalls, flagVars
    <2>2. ~MutexCalls
        BY MayCalls DEF MutexCalls, Settled
    <2>3. ServiceStep
        BY <1>1, <1>2, <2>1, <2>2, SemService, MboxService, QService, MultiService DEF EventCalls
    <2> QED BY <2>3 DEF ServiceStep, SamePrios
<1>3. CASE (FlagCalls \/ TaskCalls) /\ UNCHANGED load
    BY <1>3, FlagService, TaskService DEF ServiceStep, SamePrios
<1>4. CASE Returns /\ UNCHANGED load
    <2>1. ~MutexReturn
        BY DEF MutexReturn, ReturnFromPend, SettledInv, TasksInv, Typed, Scheduled, Live, PCs
    <2> QED BY <1>4, <2>1 DEF Returns, SemReturn, MboxReturn, QReturn, MultiReturn, FlagReturn,
            ReturnFromPend, restVars
<1>5. CASE Sched \/ IntExit \/ IntEnter \/ Tick \/ Lock \/ Unlock
    BY <1>5 DEF Sched, IntExit, Switch, IntEnter, Tick, Lock, Unlock, OS_Sched, OSIntExit, OSIntEnter,
           OSTimeTick, OSSchedLock, OSSchedUnlock, restVars
<1>6. CASE MemCalls \/ UNCHANGED kernelVars
    BY <1>6 DEF MemCalls, kernelVars, coreVars
<1> QED BY <1>2, <1>3, <1>4, <1>5, <1>6 DEF Next

LEMMA FlagsStay ==
    ASSUME SettledInv, FlagsWell, [Next]_kernelVars
    PROVE  FlagsWell'
<1>0. \A flags \in SUBSET Flags : \A want \in SUBSET Flags : \A type :
          /\ ReadyFlags(flags, want, type) \in SUBSET Flags
          /\ Consumed(flags, want, type) \in SUBSET Flags
    BY DEF ReadyFlags, Consumed
<1>1. ASSUME UNCHANGED <<group, OSTCBFlagsRdy>> PROVE FlagsWell'
    BY <1>1 DEF FlagsWell, GroupsTyped
<1>2. ASSUME NEW g \in Groups, NEW flags \in SUBSET Flags
      PROVE  /\ group' = [group EXCEPT ![g].flags = flags] => GroupsTyped'
             /\ \A used \in BOOLEAN :
                   group' = [group EXCEPT ![g] = [used |-> used, flags |-> flags]] => GroupsTyped'
    BY DEF FlagsWell, GroupsTyped
<1>3. ASSUME FlagCalls PROVE FlagsWell'
    <2>1. PICK g \in Groups, want \in L.wants :
              \/ \E type, consume : OSFlagAccept(g, want, type, consume)
              \/ \E type, consume, timeout : OSFlagPend(g, want, type, consume, timeout)
              \/ \E set : OSFlagPost(g, want, set)
              \/ OSFlagCreate(g, want)
              \/ \E always : OSFlagDel(g, always)
        BY <1>3 DEF FlagCalls
    <2>2. want \in SUBSET Flags /\ group[g].flags \in SUBSET Flags /\ OSTCBCur \in Tasks
        BY Arguments DEF Workload, SettledInv, TasksInv, Scheduled, Live, FlagsWell, GroupsTyped
    <2>3. ASSUME NEW type, NEW consume, OSFlagAccept(g, want, type, consume) PROVE FlagsWell'
        <3>1. PICK flags \in SUBSET Flags : group' = [group EXCEPT ![g].flags = flags]
            BY <1>0, <2>2, <2>3 DEF OSFlagAccept
        <3> QED BY <1>2, <2>3, <3>1 DEF OSFlagAccept, FlagsWell
    <2>4. ASSUME NEW type, NEW consume, NEW timeout, OSFlagPend(g, want, type, consume, timeout)
          PROVE  FlagsWell'
        <3>1. CASE Satisfied(group[g].flags, want, type)
            <4>1. PICK rdy \in SUBSET Flags, flags \in SUBSET Flags :
                      /\ group' = [group EXCEPT ![g].flags = flags] \/ group' = group
                      /\ OSTCBFlagsRdy' = [OSTCBFlagsRdy EXCEPT ![OSTCBCur] = rdy]
                BY <1>0, <2>2, <2>4, <3>1 DEF OSFlagPend
            <4>2. group' = group => GroupsTyped'
                BY DEF FlagsWell, GroupsTyped
            <4>3. OSTCBFlagsRdy' \in [Tasks -> SUBSET Flags]
                BY <4>1 DEF FlagsWell
            <4> QED BY <1>2, <4>1, <4>2, <4>3 DEF FlagsWell
        <3>2. CASE ~Satisfied(group[g].flags, want, type)
            BY <1>1, <2>4, <3>2 DEF OSFlagPend
        <3> QED BY <3>1, <3>2
    <2>5. ASSUME NEW woken \in SUBSET FlagWaiters(g), NEW rdy, OS_FlagTaskRdy(woken, rdy),
                 \A t \in woken : rdy[t] \in SUBSET Flags
          PROVE  OSTCBFlagsRdy' \in [Tasks -> SUBSET Flags]
        BY <2>5 DEF OS_FlagTaskRdy, FlagsWell
    <2>6. ASSUME NEW set, OSFlagPost(g, want, set) PROVE FlagsWell'
        <3>1. PICK now \in SUBSET Flags : now = IF set THEN group[g].flags \cup want ELSE group[g].flags \ want
            BY <2>2
        <3>2. PICK woken, rdy : /\ woken = Awaited(g, now) /\ rdy = [t \in woken |-> FlagsOf(t, now)]
                                /\ OS_FlagTaskRdy(woken, rdy)
            BY <2>6, <3>1 DEF OSFlagPost
        <3>3. \A t \in woken : rdy[t] \in SUBSET Flags
            <4>1. ASSUME NEW t \in woken PROVE FlagsOf(t, now) \in SUBSET Flags
                <5>1. OSTCBFlagNode[t] \in Nodes \cup {NoNode} /\ OSTCBFlagNode[t].grp = g
                    BY <3>2 DEF Awaited, FlagWaiters, SettledInv, TasksInv, Typed
                <5>2. OSTCBFlagNode[t].want \in SUBSET Flags
                    BY <5>1, FlagAssumption DEF Nodes, NoNode
                <5> QED BY <1>0, <5>2 DEF FlagsOf
            <4> QED BY <3>2, <4>1
        <3>4. woken \in SUBSET FlagWaiters(g)
            BY <3>2 DEF Awaited
        <3>5. group' = [group EXCEPT ![g].flags = now]
            BY <2>6, <3>1 DEF OSFlagPost
        <3> QED BY <1>2, <2>5, <3>2, <3>3, <3>4, <3>5 DEF FlagsWell
    <2>7. ASSUME OSFlagCreate(g, want) PROVE FlagsWell'
        <3>1. GroupsTyped'
            BY <1>2, <2>2, <2>7 DEF OSFlagCreate
        <3> QED BY <2>7, <3>1 DEF OSFlagCreate, FlagsWell
    <2>8. ASSUME NEW always, OSFlagDel(g, always) PROVE FlagsWell'
        <3>1. PICK woken, rdy : /\ woken = FlagWaiters(g) /\ rdy = [t \in woken |-> {}]
                                /\ OS_FlagTaskRdy(woken, rdy)
            BY <2>8 DEF OSFlagDel
        <3>2. \A t \in woken : rdy[t] \in SUBSET Flags
            BY <3>1
        <3>3. {} \in SUBSET Flags /\ FALSE \in BOOLEAN
            OBVIOUS
        <3>4. GroupsTyped'
            BY <1>2, <2>8, <3>3 DEF OSFlagDel
        <3> QED BY <2>5, <3>1, <3>2, <3>4 DEF FlagsWell
    <2> QED BY <2>1, <2>3, <2>4, <2>6, <2>7, <2>8
<1>4. ASSUME FlagReturn PROVE FlagsWell'
    <2>1. OSTCBCur \in Tasks /\ OSTCBFlagsRdy[OSTCBCur] \in SUBSET Flags /\ UNCHANGED OSTCBFlagsRdy
        BY <1>4 DEF SettledInv, TasksInv, Scheduled, Live, FlagsWell, FlagReturn
    <2>2. CASE UNCHANGED group
        BY <1>1, <2>1, <2>2
    <2>3. CASE group' = [g \in Groups |->
                    IF g \notin pc[OSTCBCur].on THEN group[g]
                    ELSE CASE pc[OSTCBCur].op = "FLAG"     -> group[g]
                           [] pc[OSTCBCur].op = "FLAG_CLR" -> [group[g] EXCEPT !.flags = @ \ OSTCBFlagsRdy[OSTCBCur]]
                           [] pc[OSTCBCur].op = "FLAG_SET" -> [group[g] EXCEPT !.flags = @ \cup OSTCBFlagsRdy[OSTCBCur]]]
        <3>1. pc[OSTCBCur].op \in {"FLAG", "FLAG_CLR", "FLAG_SET"}
            BY <1>4 DEF FlagReturn
        <3>2. ASSUME NEW g \in Groups
              PROVE  group'[g] \in [used : BOOLEAN, flags : SUBSET Flags]
            <4>1. group[g] \in [used : BOOLEAN, flags : SUBSET Flags]
                BY DEF FlagsWell, GroupsTyped
            <4>2. group'[g] \in {group[g], [group[g] EXCEPT !.flags = group[g].flags \ OSTCBFlagsRdy[OSTCBCur]],
                                 [group[g] EXCEPT !.flags = group[g].flags \cup OSTCBFlagsRdy[OSTCBCur]]}
                BY <2>3, <3>1
            <4> QED BY <2>1, <4>1, <4>2
        <3>3. GroupsTyped'
            BY <2>3, <3>2 DEF GroupsTyped
        <3> QED BY <2>1, <3>3 DEF FlagsWell
    <2> QED BY <1>4, <2>2, <2>3 DEF FlagReturn
<1>5. CASE TaskCalls
    BY <1>1, <1>5 DEF TaskCalls, flagVars
<1>6. CASE Returns
    BY <1>1, <1>4, <1>6 DEF Returns, flagVars
<1>7. CASE EventCalls \/ Sched \/ IntExit \/ IntEnter \/ Tick \/ Lock \/ Unlock
    BY <1>1, <1>7 DEF EventCalls, Sched, IntExit, Switch, IntEnter, Tick, Lock, Unlock, Outside, flagVars
<1>8. CASE MemCalls \/ UNCHANGED kernelVars
    BY <1>1, <1>8 DEF MemCalls, kernelVars, flagVars
<1> QED BY <1>3, <1>5, <1>6, <1>7, <1>8 DEF Next

SettledTypes == FlagsWell /\ TableWell /\ EventTypesWell

LEMMA TypesAtFirst == Init => SettledTypes
<1> SUFFICES ASSUME Init PROVE SettledTypes
    OBVIOUS
<1>1. Workload(L) /\ FlagInit(L.groups) /\ event = L.events
    BY WorkloadAssumption DEF Init, L, CoreInit
<1>2. FlagsWell
    BY <1>1 DEF FlagsWell, GroupsTyped, FlagInit, Workload
<1>3. EventTypesWell
    BY <1>1 DEF EventTypesWell, Workload
<1>4. TableWell
    <2> DEFINE D == DOMAIN L.prio
    <2>1. D \subseteq Tasks
        BY <1>1 DEF Workload
    <2>2. PICK pips : OSTCBPrioTbl = [p \in Prios |->
              IF \E t \in D : L.prio[t] = p THEN CHOOSE t \in D : L.prio[t] = p
              ELSE IF p \in pips THEN Reserved ELSE Null]
        BY DEF Init, CoreInit
    <2> HIDE DEF D
    <2>3. ASSUME NEW p \in Prios
          PROVE  OSTCBPrioTbl[p] \in Tasks \cup {Null, Reserved}
        BY <2>1, <2>2
    <2> QED BY <2>2, <2>3 DEF TableWell
<1> QED BY <1>2, <1>3, <1>4 DEF SettledTypes

LEMMA TypesAlways == Spec => [](Settled => SettledTypes)
<1>1. Init => (Settled => SettledTypes)
    BY TypesAtFirst
<1>2. ASSUME Settled => SettledTypes, Settled => SettledInv, BlocksInv, [Next]_kernelVars
      PROVE  (Settled => SettledTypes)'
    <2>1. UNCHANGED load
        BY <1>2 DEF Next, MemCalls, kernelVars
    <2>2. Settled' = Settled
        BY <2>1 DEF Settled, CanCall, L
    <2>3. ASSUME Settled PROVE SettledTypes'
        <3>1. FlagsWell'
            BY <1>2, <2>3, FlagsStay DEF SettledTypes
        <3>2. EventTypesWell'
            BY <1>2, <2>3, EventTypesStay DEF SettledTypes, BlocksInv
        <3>3. UNCHANGED OSTCBPrioTbl
            BY <1>2, <2>3, TableStays
        <3> QED BY <1>2, <2>3, <3>1, <3>2, <3>3 DEF SettledTypes, TableWell
    <2> QED BY <2>2, <2>3
<1> QED BY <1>1, <1>2, SettledAlways, EventAndQueueBlocks, PTL DEF Spec

(* In a settled application every variable of the kernel keeps its type.   *)
THEOREM KernelTypes == Spec => [](Settled => TypeOK)
<1>1. ASSUME SettledInv, SettledTypes, BlocksInv PROVE TypeOK
    <2>1. Typed /\ Scheduled /\ QueuesWell /\ FlagsWell /\ TableWell /\ EventTypesWell
        BY <1>1 DEF SettledInv, TasksInv, SettledTypes, BlocksInv
    <2>2. Live \subseteq Tasks /\ PriosOf(Live) \subseteq Prios
        BY DEF Live, PriosOf
    <2>3. ASSUME NEW t \in Tasks
          PROVE  /\ tcb[t].prio \in 0 .. OS_LOWEST_PRIO + 1
                 /\ tcb[t].stat \subseteq StatBits
                 /\ tcb[t].pend \in {"OK", "TO", "ABORT"}
                 /\ tcb[t].dly \in 0 .. MaxDelay
                 /\ tcb[t].ev \in Events \cup {Null} /\ tcb[t].multi \subseteq Events
                 /\ tcb[t].msg \in Messages \cup {Null}
                 /\ pc[t].at \in {"task", "sched", "pended", "wake", "create", "delete"}
        BY <2>1 DEF Typed, TCBs, PCs
    <2>4. OSTCBFreeList \subseteq Tasks /\ OSEventFreeList \subseteq Events /\ OSQFreeList \subseteq Queues
        BY <2>1 DEF Typed, QueuesWell
    <2>5. OSRdyTbl \subseteq Prios /\ OSTCBCur \in Tasks /\ OSPrioCur \in Prios
        BY <2>1, <2>2 DEF Typed, Scheduled, PriosOf
    <2>6. OSIntNesting \in 0 .. 1 /\ OSLockNesting \in 0 .. 2
        BY <2>1 DEF Scheduled
    <2>7. \A e \in Events : event[e].type \in EventTypes /\ event[e].wait \subseteq Prios
        BY <2>1, <2>2 DEF Typed, EventTypesWell
    <2>8. \A pq \in Queues : queue[pq].entries \in 0 .. queue[pq].size
        BY <2>1 DEF QueuesWell, RingWell, Rings
    <2>9. \A g \in Groups : group[g].flags \subseteq Flags
        BY <2>1 DEF FlagsWell, GroupsTyped
    <2> QED BY <2>1, <2>3, <2>4, <2>5, <2>6, <2>7, <2>8, <2>9 DEF TypeOK, TableWell
<1> QED BY <1>1, SettledAlways, TypesAlways, EventAndQueueBlocks, PTL
=============================================================================
