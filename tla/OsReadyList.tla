----------------------------- MODULE OsReadyList ----------------------------
(***************************************************************************)
(* How the kernel keeps a set of priorities: the ready list, OSRdyGrp and  *)
(* OSRdyTbl, and the wait list of an event, OSEventGrp and OSEventTbl.     *)
(* Priority 8 * y + x is bit x of byte y of the table, and bit y of the    *)
(* group says whether the byte is zero.  OsCore has the set itself; a      *)
(* byte is the set of its bits here.  OS_LOWEST_PRIO is 20, below the 63   *)
(* that the kernel keeps this way.                                         *)
(***************************************************************************)
EXTENDS Integers

Bits == 0 .. 7

Y(prio) == prio \div 8
X(prio) == prio % 8

EmptyList == [grp |-> {}, tbl |-> [y \in Bits |-> {}]]

Inserted(list, prio) ==
    [grp |-> list.grp \cup {Y(prio)},
     tbl |-> [list.tbl EXCEPT ![Y(prio)] = list.tbl[Y(prio)] \cup {X(prio)}]]

(* The bit of the group is cleared with the last bit of the byte. *)
Without(list, prio) ==
    LET byte == list.tbl[Y(prio)] \ {X(prio)} IN
    [grp |-> IF byte = {} THEN list.grp \ {Y(prio)} ELSE list.grp,
     tbl |-> [list.tbl EXCEPT ![Y(prio)] = byte]]

(* The lowest bit. *)
OSUnMapTbl(bits) == CHOOSE b \in bits : \A c \in bits : b <= c

HighestPrio(list) ==
    LET y == OSUnMapTbl(list.grp) IN 8 * y + OSUnMapTbl(list.tbl[y])

(* The set that the list stands for, and the lists that agree in their two *)
(* parts.                                                                  *)
PriosIn(list) == {p \in 0 .. 63 : X(p) \in list.tbl[Y(p)]}

Lists == {list \in [grp : SUBSET Bits, tbl : [Bits -> SUBSET Bits]] :
             \A y \in Bits : y \in list.grp <=> list.tbl[y] # {}}
=============================================================================
