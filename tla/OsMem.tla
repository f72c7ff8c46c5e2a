-------------------------------- MODULE OsMem -------------------------------
(***************************************************************************)
(* A memory partition (os_mem.c).  The free blocks are chained through     *)
(* their own first words, which belong to the application while it has     *)
(* the block.  A block is its number; 0 is the null pointer.               *)
(***************************************************************************)
EXTENDS Integers

CONSTANT MemBlocks    \* how many blocks the memory at addr has room for

ASSUME MemAssumption == MemBlocks \in Nat

VARIABLES
    mem,      \* the OS_MEM: OSMemFreeList, OSMemNFree, OSMemNBlks; no blocks: not created
    word,     \* the first word of each block
    lent      \* the blocks that the application has

memVars == <<mem, word, lent>>

Addr   == 1 .. MemBlocks
Blocks == 1 .. mem.nblks

MemInit ==
    /\ mem = [free |-> 0, nfree |-> 0, nblks |-> 0]
    /\ word = [b \in Addr |-> 0]
    /\ lent = {}

-----------------------------------------------------------------------------
(* Only the caller knows the partition until it is made. *)
OSMemCreate(nblks) ==
    /\ mem.nblks = 0 /\ nblks \in 2 .. MemBlocks
    /\ mem' = [free |-> 1, nfree |-> nblks, nblks |-> nblks]
    /\ word' = [b \in Addr |-> IF b < nblks THEN b + 1 ELSE IF b = nblks THEN 0 ELSE word[b]]
    /\ UNCHANGED lent

(* With no block left it answers the null pointer and changes nothing. *)
OSMemGet ==
    /\ mem.nfree > 0
    /\ mem' = [mem EXCEPT !.free = word[mem.free], !.nfree = @ - 1]
    /\ lent' = lent \cup {mem.free}
    /\ UNCHANGED word

(* Whoever has a block may give it back.  A block too many is refused. *)
OSMemPut(pblk) ==
    /\ pblk \in lent
    /\ mem.nfree < mem.nblks
    /\ word' = [word EXCEPT ![pblk] = mem.free]
    /\ mem' = [mem EXCEPT !.free = pblk, !.nfree = @ + 1]
    /\ lent' = lent \ {pblk}

(* The application fills a block that it has. *)
Fill(pblk, value) ==
    /\ pblk \in lent
    /\ word' = [word EXCEPT ![pblk] = value]
    /\ UNCHANGED <<mem, lent>>

MemNext ==
    \/ \E n \in Addr : OSMemCreate(n)
    \/ OSMemGet
    \/ \E b \in lent : OSMemPut(b)
    \/ \E b \in lent, value \in Addr \cup {0} : Fill(b, value)

MemSpec == MemInit /\ [][MemNext]_memVars

-----------------------------------------------------------------------------
(* s is the chain: it starts at OSMemFreeList, goes through nfree blocks    *)
(* that nobody has, each once, and ends with the null pointer.             *)
Chain(s) ==
    /\ s \in [1 .. mem.nfree + 1 -> Addr \cup {0}]
    /\ s[1] = mem.free /\ s[mem.nfree + 1] = 0
    /\ \A i \in 1 .. mem.nfree : s[i] \in Blocks \ lent /\ word[s[i]] = s[i + 1]
    /\ \A i, j \in 1 .. mem.nfree : s[i] = s[j] => i = j
    /\ \A b \in Blocks \ lent : \E i \in 1 .. mem.nfree : s[i] = b

(* No block is lost and none is lent twice, whatever the application       *)
(* writes into those it has: the others are chained, and counted right.    *)
BlocksChained == \E s \in [1 .. mem.nfree + 1 -> Addr \cup {0}] : Chain(s)
=============================================================================
