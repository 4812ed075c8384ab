---------------------------- MODULE MemBlockMgr -----------------------------
(***************************************************************************)
(* The memory block manager (core/local/util/res) from which the transport *)
(* takes the buffers it shares with other processes: a list of free blocks *)
(* and one of allocated blocks.  alloc takes the smallest free block that  *)
(* fits; if none does it merges adjacent blocks and looks again.           *)
(*                                                                         *)
(* The lists are sets: among blocks that a sort or a search does not tell  *)
(* apart, any may be taken.                                                *)
(***************************************************************************)
EXTENDS Integers, FiniteSets, FiniteSetsExt

CONSTANTS
  Start, Size,  \* the pool: its first address and its length
  Requests      \* what clients ask for: [nbytes, alignment]

ASSUME PoolAssumption == Start \in Nat /\ Size \in Nat \ {0}

ASSUME RequestAssumption == Requests \subseteq [nbytes : Nat \ {0}, alignment : Nat]

VARIABLES
  free_list,   \* free blocks
  alloc_list,  \* allocated blocks
  used,        \* bytes in allocated blocks
  rc           \* the request that the last call refused, or 0 for success

vars == <<free_list, alloc_list, used, rc>>

\* addr and size of an allocated block are its own, aligned_addr is what the
\* client was given, and nbytes what it asked for.
FreeBlock == [addr : Nat, size : Nat \ {0}]
AllocBlock == [addr : Nat, size : Nat \ {0}, aligned_addr : Nat, nbytes : Nat \ {0}]

Extent(b) == b.addr .. b.addr + b.size - 1

Covered(F) == UNION {Extent(b) : b \in F}

Pool == Start .. Start + Size - 1

Init ==
  /\ free_list = {[addr |-> Start, size |-> Size]}
  /\ alloc_list = {}
  /\ used = 0 /\ rc = 0

-----------------------------------------------------------------------------
Bit(a, i) == (a \div 2 ^ i) % 2

\* a & ~ mask, for 32 bit operands.
AndNot(a, mask) ==
  MapThenSumSet(LAMBDA i : IF Bit(a, i) = 1 /\ Bit(mask, i) = 0 THEN 2 ^ i ELSE 0, 0 .. 30)

ALIGN(addr, alignment) == IF alignment = 0 THEN addr ELSE AndNot(addr, alignment - 1)

\* Mutant of Defrag: it leaves the list as it is.
DefragNot(F) == F

\* The loop of defrag merges adjacent blocks until there are none: the
\* maximal intervals of free addresses remain.  This is what the loop does to
\* blocks that do not overlap, as without alignment they never do.
Defrag(F) ==
  LET C == Covered(F)
      from == {b.addr : b \in {c \in F : c.addr - 1 \notin C}}
      to == {b.addr + b.size : b \in {c \in F : c.addr + c.size \notin C}}
  IN {[addr |-> p[1], size |-> p[2] - p[1]] :
        p \in {q \in from \X to : q[1] < q[2] /\ q[1] .. q[2] - 1 \subseteq C}}

\* Mutant of Fitting: the test is off by one.
FittingLess(F, n) == {b \in F : b.size >= n - 1 /\ b.size > 1}

Fitting(F, n) == {b \in F : b.size >= n}

\* The first block that fits, in a list sorted by size and by address.
Smallest(F, n) == {b \in Fitting(F, n) : \A c \in Fitting(F, n) : b.size <= c.size}
Lowest(F, n) == {b \in Fitting(F, n) : \A c \in Fitting(F, n) : b.addr <= c.addr}

\* What alloc adds to the length.
Padded(r) == r.nbytes + r.alignment \div 8

\* Mutant of Rest: the remainder starts one byte early.
RestEarly(b, n) == IF b.size > n THEN {[addr |-> b.addr + n - 1, size |-> b.size - n + 1]} ELSE {}

\* Mutant of Rest: the remainder is lost.
RestLost(b, n) == {}

\* Mutant of Rest: the case of equal sizes is missing.
RestEmpty(b, n) == {[addr |-> b.addr + n, size |-> b.size - n]}

\* What remains of a free block, if anything.
Rest(b, n) == IF b.size > n THEN {[addr |-> b.addr + n, size |-> b.size - n]} ELSE {}

\* The block b of the list F is handed out.
Take(F, b, r) ==
  /\ free_list' = (F \ {b}) \cup Rest(b, Padded(r))
  /\ alloc_list' = alloc_list \cup
       {[addr |-> b.addr, size |-> Padded(r), aligned_addr |-> ALIGN(b.addr, r.alignment),
         nbytes |-> r.nbytes]}
  /\ used' = used + Padded(r)
  /\ rc' = 0

\* The list as the pass that ends the search sees it.
Searched(n) == IF Fitting(free_list, n) # {} THEN free_list ELSE Defrag(free_list)

Chosen(n) ==
  IF Fitting(free_list, n) # {} THEN Smallest(free_list, n) ELSE Lowest(Defrag(free_list), n)

Alloc(r) == \E b \in Chosen(Padded(r)) : Take(Searched(Padded(r)), b, r)

\* Both passes fail.
AllocFail(r) ==
  /\ Chosen(Padded(r)) = {}
  /\ free_list' = Defrag(free_list)
  /\ rc' = Padded(r)
  /\ UNCHANGED <<alloc_list, used>>

\* Mutant of Free: used is not updated.
FreeUsed(b) ==
  /\ free_list' = Defrag(free_list \cup {[addr |-> b.aligned_addr, size |-> b.size]})
  /\ alloc_list' = alloc_list \ {b}
  /\ rc' = 0 /\ UNCHANGED used

\* A client frees the address it was given; the block that is found by that
\* address is its own unless two blocks overlap.
Free(b) ==
  /\ free_list' = Defrag(free_list \cup {[addr |-> b.aligned_addr, size |-> b.size]})
  /\ alloc_list' = alloc_list \ {b}
  /\ used' = used - b.size
  /\ rc' = 0

Next == \/ \E r \in Requests : Alloc(r) \/ AllocFail(r)
        \/ \E b \in alloc_list : Free(b)

Spec == Init /\ [][Next]_vars

-----------------------------------------------------------------------------
TypeOK ==
  /\ free_list \subseteq FreeBlock /\ alloc_list \subseteq AllocBlock
  /\ used \in Nat /\ rc \in Nat

\* What the client of a block may write.
Usable(b) == b.aligned_addr .. b.aligned_addr + b.nbytes - 1

\* alloc never hands out memory that another client holds, nor memory
\* outside the pool.
HeldDisjoint ==
  \A b \in alloc_list :
    /\ Usable(b) \subseteq Pool
    /\ \A c \in alloc_list : b # c => Usable(b) \cap Usable(c) = {}

Disjoint(F) == \A b, c \in F : b # c => Extent(b) \cap Extent(c) = {}

\* The blocks of the two lists are a partition of the pool: splitting and
\* merging neither lose a byte nor count one twice.
Partition ==
  /\ Disjoint(free_list) /\ Disjoint(alloc_list)
  /\ Covered(free_list) \cap Covered(alloc_list) = {}
  /\ Covered(free_list) \cup Covered(alloc_list) = Pool

\* used, which alloc and free update on their own, is the number of bytes
\* in allocated blocks.
UsedIsAllocated == used = Cardinality(Covered(alloc_list))

\* No two free blocks are adjacent, after any sequence of calls: free merges,
\* alloc splits at the front, and so the second pass of alloc never finds a
\* block that the first did not.
Merged(F) ==
  \A b \in F : b.addr - 1 \notin Covered(F) /\ b.addr + b.size \notin Covered(F)

AlwaysMerged == Merged(free_list)

\* When everything has been freed, in whatever order, the pool is one block
\* again.
NothingLost == alloc_list = {} => free_list = {[addr |-> Start, size |-> Size]}

\* alloc refuses a request only if no free region, of whichever blocks it
\* consists, is long enough.
RefusedForCause ==
  rc # 0 => \A a \in Covered(free_list) : ~ (a .. a + rc - 1 \subseteq Covered(free_list))

\* The manager implements the pool of its interface: the regions are the
\* allocated blocks, the unused addresses those of the free blocks, and a
\* request is refused only when the pool has no room for it.
Abstract == INSTANCE MemoryPool WITH
  Lengths <- {Padded(r) : r \in Requests},
  unused  <- Covered(free_list),
  regions <- {[addr |-> b.aligned_addr, len |-> b.size] : b \in alloc_list},
  refused <- rc

ImplementsPool == Abstract!Spec
=============================================================================
