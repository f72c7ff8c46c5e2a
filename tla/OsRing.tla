-------------------------------- MODULE OsRing ------------------------------
(***************************************************************************)
(* The ring of a message queue (os_q.c, OS_Q): OSQIn, OSQOut and the       *)
(* number of entries.  OSQIn and OSQOut are the index of a slot; OSQStart  *)
(* is the slot 0 and OSQEnd the one after the last.                        *)
(***************************************************************************)
EXTENDS Integers, Sequences

(* A ring of size slots; fill: what they hold before they are used.  A slot *)
(* keeps its last message.                                                  *)
NewRing(size, fill) == [size |-> size, in |-> 0, out |-> 0, entries |-> 0,
                        slots |-> [i \in 0 .. size - 1 |-> fill]]

NextSlot(pq, i) == IF i + 1 = pq.size THEN 0 ELSE i + 1

(* Seeded fault: no wrap below the first slot. *)
FaultyPrevSlot(pq, i) == IF i = 0 THEN 0 ELSE i - 1

PrevSlot(pq, i) == IF i = 0 THEN pq.size - 1 ELSE i - 1

Put(pq, msg) ==
    [size |-> pq.size, in |-> NextSlot(pq, pq.in), out |-> pq.out, entries |-> pq.entries + 1,
     slots |-> [pq.slots EXCEPT ![pq.in] = msg]]

PutFront(pq, msg) ==
    [size |-> pq.size, in |-> pq.in, out |-> PrevSlot(pq, pq.out), entries |-> pq.entries + 1,
     slots |-> [pq.slots EXCEPT ![PrevSlot(pq, pq.out)] = msg]]

Taken(pq) ==
    [size |-> pq.size, in |-> pq.in, out |-> NextSlot(pq, pq.out), entries |-> pq.entries - 1,
     slots |-> pq.slots]

OldestIn(pq) == pq.slots[pq.out]

Flushed(pq) == [size |-> pq.size, in |-> 0, out |-> 0, entries |-> 0, slots |-> pq.slots]

(* Seeded fault: off by one. *)
FaultyFull(pq) == pq.entries > pq.size

Full(pq) == pq.entries >= pq.size

(* Its messages, the oldest first: the slots from OSQOut on, k = 0, 1, ... *)
SlotAfter(pq, k) == IF pq.out + k < pq.size THEN pq.out + k ELSE pq.out + k - pq.size

Contents(pq) == [i \in 1 .. pq.entries |-> pq.slots[SlotAfter(pq, i - 1)]]

(* The rings of n slots for the messages M: OSQIn is where the entries end. *)
Rings(n, M) ==
    {pq \in [size : {n}, in : 0 .. n - 1, out : 0 .. n - 1, entries : 0 .. n,
             slots : [0 .. n - 1 -> M]] : pq.in = SlotAfter(pq, pq.entries)}
=============================================================================
