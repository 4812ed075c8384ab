------------------------- MODULE MemBlockMgr_proofs -------------------------
(***************************************************************************)
(* Proofs about MemBlockMgr for a pool of any size and any requests that   *)
(* ask for no alignment, as those of the mailboxes and of the protocol     *)
(* information do.                                                         *)
(***************************************************************************)
EXTENDS MemBlockMgr, TLAPS, FiniteSetTheorems, WellFoundedInduction

NoAlignment == \A r \in Requests : r.alignment = 0

-----------------------------------------------------------------------------
\* A set of numbers that is not empty has a least element.
LEMMA LeastNumber ==
  ASSUME NEW T \in SUBSET Nat, T # {}
  PROVE  \E x \in T : \A y \in T : x <= y
<1>1. PICK x \in T : \A y \in T : ~ (<<y, x>> \in OpToRel(<, Nat))
  BY Zenon, WFMin, NatLessThanWellFounded
<1>2. \A y \in T : ~ (y < x)
  BY Zenon, <1>1 DEF OpToRel
<1>3. QED
  BY <1>2

\* The addresses of a set of blocks.
LEMMA CoveredBy ==
  ASSUME NEW F \in SUBSET FreeBlock
  PROVE  \A x : x \in Covered(F) <=>
           x \in Nat /\ \E b \in F : b.addr <= x /\ x < b.addr + b.size
  BY DEF Covered, Extent, FreeBlock

\* Around a covered address lies an interval that starts where some block
\* starts and has no covered address before it.
LEMMA IntervalStarts ==
  ASSUME NEW F \in SUBSET FreeBlock, NEW x \in Covered(F)
  PROVE  \E b \in F : b.addr - 1 \notin Covered(F) /\ b.addr <= x /\ b.addr .. x \subseteq Covered(F)
<1> DEFINE C == Covered(F)
           T == {a \in Nat : a <= x /\ a .. x \subseteq C}
<1>1. x \in Nat /\ x .. x = {x}
  BY CoveredBy
<1>2. T \in SUBSET Nat /\ x \in T
  BY <1>1
<1>3. PICK a \in T : \A y \in T : a <= y
  BY Zenon, <1>2, LeastNumber
<1>4. a \in Nat /\ a <= x /\ a .. x \subseteq C
  BY <1>3
<1>5. a - 1 \notin C
  <2> SUFFICES ASSUME a - 1 \in C PROVE FALSE
    OBVIOUS
  <2>1. a - 1 \in Nat
    BY CoveredBy
  <2>2. (a - 1) .. x \subseteq C
    BY <1>1, <1>4, <2>1
  <2>3. a - 1 \in T
    BY <1>1, <1>4, <2>1, <2>2
  <2>4. QED
    BY <1>3, <1>4, <2>3
<1>6. a \in C
  BY <1>1, <1>4
<1>7. PICK b \in F : b.addr <= a /\ a < b.addr + b.size
  BY <1>6, CoveredBy
<1>8. b.addr \in Nat /\ b.size \in Nat
  BY DEF FreeBlock
<1>9. b.addr = a
  <2> SUFFICES ASSUME b.addr < a PROVE FALSE
    BY <1>4, <1>7, <1>8
  <2>1. a - 1 \in Nat /\ b.addr <= a - 1 /\ a - 1 < b.addr + b.size
    BY <1>4, <1>7, <1>8
  <2>2. a - 1 \in C
    BY <2>1, CoveredBy
  <2>3. QED
    BY <1>5, <2>2
<1>10. QED
  BY <1>4, <1>5, <1>9

\* It also ends where some block ends, with no covered address after it.
LEMMA IntervalEnds ==
  ASSUME NEW F \in SUBSET FreeBlock, NEW m \in Nat, Covered(F) \subseteq 0 .. m,
         NEW x \in Covered(F)
  PROVE  \E b \in F : /\ b.addr + b.size \notin Covered(F) /\ x < b.addr + b.size
                      /\ x .. b.addr + b.size - 1 \subseteq Covered(F)
<1> DEFINE C == Covered(F)
           T == {e \in Nat : x < e /\ e \notin C}
<1>1. x \in Nat /\ x <= m
  OBVIOUS
<1>2. T \in SUBSET Nat /\ m + 1 \in T
  BY <1>1
<1>3. PICK e \in T : \A y \in T : e <= y
  BY Zenon, <1>2, LeastNumber
<1>4. e \in Nat /\ x < e /\ e \notin C
  BY <1>3
<1>5. x .. e - 1 \subseteq C
  <2> SUFFICES ASSUME NEW y \in x .. e - 1, y \notin C PROVE FALSE
    OBVIOUS
  <2>1. y \in Nat /\ x < y /\ y < e
    BY <1>1, <1>4
  <2>2. QED
    BY <1>3, <2>1
<1>6. e - 1 \in C
  BY <1>1, <1>4, <1>5
<1>7. PICK b \in F : b.addr <= e - 1 /\ e - 1 < b.addr + b.size
  BY <1>6, CoveredBy
<1>8. b.addr \in Nat /\ b.size \in Nat
  BY DEF FreeBlock
<1>9. b.addr + b.size = e
  <2> SUFFICES ASSUME e < b.addr + b.size PROVE FALSE
    BY <1>4, <1>7, <1>8
  <2>1. e \in C
    BY <1>4, <1>7, <1>8, CoveredBy
  <2>2. QED
    BY <1>4, <2>1
<1>10. /\ b.addr + b.size \notin Covered(F) /\ x < b.addr + b.size
       /\ x .. b.addr + b.size - 1 \subseteq Covered(F)
  <2>1. b.addr + b.size - 1 = e - 1
    BY <1>4, <1>8, <1>9
  <2>2. QED
    BY Zenon, <1>4, <1>5, <1>9, <2>1
<1>11. QED
  BY Zenon, <1>10

\* defrag keeps the free addresses, and leaves no two blocks adjacent.
LEMMA DefragFacts ==
  ASSUME NEW F \in SUBSET FreeBlock, NEW m \in Nat, Covered(F) \subseteq 0 .. m
  PROVE  /\ Defrag(F) \in SUBSET FreeBlock
         /\ Covered(Defrag(F)) = Covered(F)
         /\ Merged(Defrag(F))
<1> DEFINE C == Covered(F)
           from == {b.addr : b \in {c \in F : c.addr - 1 \notin C}}
           to == {b.addr + b.size : b \in {c \in F : c.addr + c.size \notin C}}
           D == Defrag(F)
<1>1. \A d \in D : \E a \in from : \E e \in to :
        a < e /\ a .. e - 1 \subseteq C /\ d = [addr |-> a, size |-> e - a]
  BY DEF Defrag
<1>2. \A a \in from : \A e \in to :
        a < e /\ a .. e - 1 \subseteq C => [addr |-> a, size |-> e - a] \in D
  <2> SUFFICES ASSUME NEW a \in from, NEW e \in to, a < e, a .. e - 1 \subseteq C
               PROVE  [addr |-> a, size |-> e - a] \in D
    OBVIOUS
  <2>1. <<a, e>> \in {q \in from \X to : q[1] < q[2] /\ q[1] .. q[2] - 1 \subseteq C}
    OBVIOUS
  <2>2. QED
    BY <2>1 DEF Defrag
<1>3. \A a \in from : a \in Nat /\ a - 1 \notin C
  BY DEF FreeBlock
<1>4. \A e \in to : e \in Nat /\ e \notin C
  BY DEF FreeBlock
<1>5. \A x \in C : \E a \in from : a <= x /\ a .. x \subseteq C
  BY IntervalStarts
<1>6. \A x \in C : \E e \in to : x < e /\ x .. e - 1 \subseteq C
  <2> SUFFICES ASSUME NEW x \in C PROVE \E e \in to : x < e /\ x .. e - 1 \subseteq C
    OBVIOUS
  <2>1. PICK b \in F : /\ b.addr + b.size \notin C /\ x < b.addr + b.size
                       /\ x .. b.addr + b.size - 1 \subseteq C
    BY Zenon, IntervalEnds
  <2>2. PICK e \in to : e = b.addr + b.size
    BY <2>1
  <2>3. b.addr + b.size - 1 = e - 1
    BY <2>2 DEF FreeBlock
  <2>4. x < e /\ x .. e - 1 \subseteq C
    BY Zenon, <2>1, <2>2, <2>3
  <2>5. QED
    BY Zenon, <2>4
<1> HIDE DEF from, to, D
<1>7. D \in SUBSET FreeBlock
  BY <1>1, <1>3, <1>4 DEF FreeBlock
<1>8. Covered(D) \subseteq C
  <2> SUFFICES ASSUME NEW x \in Covered(D) PROVE x \in C
    OBVIOUS
  <2>1. PICK d \in D : d.addr <= x /\ x < d.addr + d.size /\ x \in Nat
    BY <1>7, CoveredBy
  <2>2. PICK a \in from, e \in to :
          a < e /\ a .. e - 1 \subseteq C /\ d = [addr |-> a, size |-> e - a]
    BY <1>1
  <2>3. a \in Nat /\ e \in Nat /\ x \in a .. e - 1
    BY <1>3, <1>4, <2>1, <2>2
  <2>4. QED
    BY <2>2, <2>3
<1>9. C \subseteq Covered(D)
  <2> SUFFICES ASSUME NEW x \in C PROVE x \in Covered(D)
    OBVIOUS
  <2>1. x \in Nat
    BY CoveredBy
  <2>2. PICK a \in from : a <= x /\ a .. x \subseteq C
    BY <1>5
  <2>3. PICK e \in to : x < e /\ x .. e - 1 \subseteq C
    BY <1>6
  <2>4. a \in Nat /\ e \in Nat
    BY <1>3, <1>4
  <2>5. a < e /\ a .. e - 1 \subseteq C
    BY <2>1, <2>2, <2>3, <2>4
  <2>6. [addr |-> a, size |-> e - a] \in D
    BY <1>2, <2>5
  <2>7. QED
    BY <1>7, <2>1, <2>2, <2>3, <2>4, <2>6, CoveredBy
<1>10. Covered(D) = C
  BY <1>8, <1>9
<1>11. Merged(D)
  <2> SUFFICES ASSUME NEW d \in D
               PROVE  d.addr - 1 \notin Covered(D) /\ d.addr + d.size \notin Covered(D)
    BY DEF Merged
  <2>1. PICK a \in from, e \in to : d = [addr |-> a, size |-> e - a]
    BY <1>1
  <2>2. d.addr = a /\ d.addr + d.size = e
    BY <1>3, <1>4, <2>1
  <2>3. QED
    BY <1>3, <1>4, <1>10, <2>2
<1>12. QED
  BY <1>7, <1>10, <1>11 DEF D

\* Blocks of a merged list do not overlap.
LEMMA MergedDisjoint ==
  ASSUME NEW F \in SUBSET FreeBlock, Merged(F)
  PROVE  Disjoint(F)
<1> SUFFICES ASSUME NEW b \in F, NEW c \in F, NEW x \in Extent(b) \cap Extent(c)
             PROVE  b = c
  BY DEF Disjoint
<1>1. /\ b \in FreeBlock /\ b.addr \in Nat /\ b.size \in Nat
      /\ c \in FreeBlock /\ c.addr \in Nat /\ c.size \in Nat
      /\ x \in Nat /\ b.addr <= x /\ x < b.addr + b.size /\ c.addr <= x /\ x < c.addr + c.size
  BY DEF Extent, FreeBlock
<1>2. ~ (b.addr < c.addr) /\ ~ (c.addr < b.addr)
  <2>1. b.addr < c.addr => c.addr - 1 \in Covered(F)
    BY <1>1, CoveredBy
  <2>2. c.addr < b.addr => b.addr - 1 \in Covered(F)
    BY <1>1, CoveredBy
  <2>3. QED
    BY <2>1, <2>2 DEF Merged
<1>3. ~ (b.addr + b.size < c.addr + c.size) /\ ~ (c.addr + c.size < b.addr + b.size)
  <2>1. b.addr + b.size < c.addr + c.size => b.addr + b.size \in Covered(F)
    BY <1>1, CoveredBy
  <2>2. c.addr + c.size < b.addr + b.size => c.addr + c.size \in Covered(F)
    BY <1>1, CoveredBy
  <2>3. QED
    BY <2>1, <2>2 DEF Merged
<1>4. b.addr = c.addr /\ b.size = c.size
  BY <1>1, <1>2, <1>3
<1>5. QED
  BY <1>1, <1>4 DEF FreeBlock

\* A free list from which the front of a block was taken.
LEMMA TakeFacts ==
  ASSUME NEW F \in SUBSET FreeBlock, Merged(F), NEW b \in F,
         NEW n \in Nat \ {0}, n <= b.size
  PROVE  LET G == (F \ {b}) \cup Rest(b, n)
             R == b.addr .. b.addr + n - 1
         IN /\ G \in SUBSET FreeBlock /\ Merged(G)
            /\ Covered(G) = Covered(F) \ R /\ R \subseteq Covered(F)
<1> DEFINE G == (F \ {b}) \cup Rest(b, n)
           R == b.addr .. b.addr + n - 1
<1>1. b.addr \in Nat /\ b.size \in Nat \ {0}
  BY DEF FreeBlock
<1>2. G \in SUBSET FreeBlock
  BY <1>1 DEF Rest, FreeBlock
<1>3. \A x : x \in R <=> x \in Nat /\ b.addr <= x /\ x < b.addr + n
  BY <1>1
<1>4. \A x : x \in Covered(F) <=> x \in Nat /\ \E d \in F : d.addr <= x /\ x < d.addr + d.size
  BY CoveredBy
<1>5. \A x : x \in Covered(G) <=> x \in Nat /\ \E d \in G : d.addr <= x /\ x < d.addr + d.size
  BY <1>2, CoveredBy
<1>6. \A d \in F : d # b => \A x \in Nat : ~ (/\ d.addr <= x /\ x < d.addr + d.size
                                              /\ b.addr <= x /\ x < b.addr + b.size)
  BY MergedDisjoint DEF Disjoint, Extent, FreeBlock
<1>7. \A d \in G : \/ d \in F /\ d # b
                   \/ d.addr = b.addr + n /\ d.addr + d.size = b.addr + b.size
  BY <1>1 DEF Rest
<1>8. \A x \in Nat : b.addr + n <= x /\ x < b.addr + b.size =>
        \E d \in G : d.addr <= x /\ x < d.addr + d.size
  <2> SUFFICES ASSUME NEW x \in Nat, b.addr + n <= x, x < b.addr + b.size
               PROVE  \E d \in G : d.addr <= x /\ x < d.addr + d.size
    OBVIOUS
  <2> DEFINE d == [addr |-> b.addr + n, size |-> b.size - n]
  <2>1. d \in G
    BY <1>1 DEF Rest
  <2>2. d.addr <= x /\ x < d.addr + d.size
    BY <1>1
  <2> HIDE DEF d
  <2>3. QED
    BY <2>1, <2>2
<1> HIDE DEF G, R
<1>9. R \subseteq Covered(F)
  BY <1>1, <1>3, <1>4
<1>10. Covered(G) \subseteq Covered(F) \ R
  <2> SUFFICES ASSUME NEW x \in Covered(G) PROVE x \in Covered(F) /\ x \notin R
    OBVIOUS
  <2>1. PICK d \in G : x \in Nat /\ d.addr <= x /\ x < d.addr + d.size
    BY <1>5
  <2>2. CASE d \in F /\ d # b
    BY <1>1, <1>3, <1>4, <1>6, <2>1, <2>2
  <2>3. CASE d.addr = b.addr + n /\ d.addr + d.size = b.addr + b.size
    BY <1>1, <1>3, <1>4, <2>1, <2>3
  <2>4. QED
    BY <1>7, <2>2, <2>3
<1>11. Covered(F) \ R \subseteq Covered(G)
  <2> SUFFICES ASSUME NEW x \in Covered(F), x \notin R PROVE x \in Covered(G)
    OBVIOUS
  <2>1. PICK d \in F : x \in Nat /\ d.addr <= x /\ x < d.addr + d.size
    BY <1>4
  <2>2. CASE d # b
    BY Zenon, <1>5, <2>1, <2>2 DEF G
  <2>3. CASE d = b
    BY <1>1, <1>3, <1>5, <1>8, <2>1, <2>3
  <2>4. QED
    BY <2>2, <2>3
<1>12. Covered(G) = Covered(F) \ R
  BY <1>10, <1>11
<1>13. Merged(G)
  <2> SUFFICES ASSUME NEW d \in G
               PROVE  d.addr - 1 \notin Covered(G) /\ d.addr + d.size \notin Covered(G)
    BY DEF Merged
  <2>1. CASE d \in F
    BY <1>12, <2>1 DEF Merged
  <2>2. CASE d.addr = b.addr + n /\ d.addr + d.size = b.addr + b.size
    <3>1. d.addr - 1 \in R
      BY <1>1, <1>3, <2>2
    <3>2. d.addr + d.size \notin Covered(F)
      BY <2>2 DEF Merged
    <3>3. QED
      BY <1>12, <3>1, <3>2
  <2>3. QED
    BY <1>7, <2>1, <2>2
<1>14. QED
  BY Zenon, <1>2, <1>9, <1>12, <1>13 DEF G, R

\* In a merged list that has no block of n bytes no n free addresses are
\* consecutive.
LEMMA NoneFits ==
  ASSUME NEW F \in SUBSET FreeBlock, Merged(F), NEW n \in Nat \ {0}, Fitting(F, n) = {}
  PROVE  \A a \in Covered(F) : ~ (a .. a + n - 1 \subseteq Covered(F))
<1> SUFFICES ASSUME NEW a \in Covered(F), a .. a + n - 1 \subseteq Covered(F) PROVE FALSE
  OBVIOUS
<1>1. PICK b \in F : a \in Nat /\ b.addr <= a /\ a < b.addr + b.size
  BY CoveredBy
<1>2. b.addr \in Nat /\ b.size \in Nat /\ b.size < n
  BY DEF Fitting, FreeBlock
<1>3. b.addr + b.size \in a .. a + n - 1
  BY <1>1, <1>2
<1>4. QED
  BY <1>3 DEF Merged

\* If a block fits, there is a smallest and a lowest one.
LEMMA LeastFitting ==
  ASSUME NEW F \in SUBSET FreeBlock, NEW n \in Nat, Fitting(F, n) # {}
  PROVE  Smallest(F, n) # {} /\ Lowest(F, n) # {}
<1> DEFINE S == {b.size : b \in Fitting(F, n)}
           A == {b.addr : b \in Fitting(F, n)}
<1>1. S \in SUBSET Nat /\ S # {} /\ A \in SUBSET Nat /\ A # {}
  BY DEF Fitting, FreeBlock
<1>2. PICK x \in S : \A y \in S : x <= y
  BY Zenon, <1>1, LeastNumber
<1>3. PICK z \in A : \A y \in A : z <= y
  BY Zenon, <1>1, LeastNumber
<1>4. Smallest(F, n) # {}
  BY <1>2 DEF Smallest
<1>5. Lowest(F, n) # {}
  BY <1>3 DEF Lowest
<1>6. QED
  BY <1>4, <1>5

\* An interval of the pool that cannot be extended is the pool.
LEMMA WholePool ==
  ASSUME NEW a \in Nat, NEW z \in Nat \ {0},
         a \in Pool, a + z - 1 \in Pool, a - 1 \notin Pool, a + z \notin Pool
  PROVE  a = Start /\ z = Size
  BY PoolAssumption DEF Pool

\* A merged list that covers the pool is one block.
LEMMA MergedPool ==
  ASSUME NEW F \in SUBSET FreeBlock, Merged(F), Covered(F) = Pool
  PROVE  F = {[addr |-> Start, size |-> Size]}
<1>1. \A b \in F : b = [addr |-> Start, size |-> Size]
  <2> SUFFICES ASSUME NEW b \in F PROVE b = [addr |-> Start, size |-> Size]
    OBVIOUS
  <2>1. b \in FreeBlock /\ b.addr \in Nat /\ b.size \in Nat \ {0}
    BY DEF FreeBlock
  <2>2. b.addr \in Pool /\ b.addr + b.size - 1 \in Pool
    BY <2>1, CoveredBy
  <2>3. b.addr - 1 \notin Pool /\ b.addr + b.size \notin Pool
    BY DEF Merged
  <2>4. b.addr = Start /\ b.size = Size
    BY Zenon, <2>1, <2>2, <2>3, WholePool
  <2>5. QED
    BY <2>1, <2>4 DEF FreeBlock
<1>2. F # {}
  <2>1. Start \in Covered(F)
    BY PoolAssumption DEF Pool
  <2>2. QED
    BY <2>1, CoveredBy
<1>3. QED
  BY <1>1, <1>2

\* An allocated block more.
LEMMA AddFacts ==
  ASSUME NEW A \in SUBSET AllocBlock, Disjoint(A), NEW a \in AllocBlock,
         Extent(a) \cap Covered(A) = {}
  PROVE  Disjoint(A \cup {a}) /\ Covered(A \cup {a}) = Covered(A) \cup Extent(a)
  BY DEF Disjoint, Covered

\* An allocated block less.
LEMMA DropFacts ==
  ASSUME NEW A \in SUBSET AllocBlock, Disjoint(A), NEW a \in A
  PROVE  /\ Disjoint(A \ {a}) /\ Extent(a) \subseteq Covered(A)
         /\ Covered(A \ {a}) = Covered(A) \ Extent(a)
<1>1. Disjoint(A \ {a})
  BY DEF Disjoint
<1>2. Extent(a) \subseteq Covered(A)
  BY DEF Covered
<1>3. Covered(A \ {a}) = Covered(A) \ Extent(a)
  BY DEF Disjoint, Covered
<1>4. QED
  BY <1>1, <1>2, <1>3

\* The number of bytes in a set of addresses that gains or loses a region.
LEMMA CountFacts ==
  ASSUME NEW S, IsFiniteSet(S), NEW b, b.addr \in Nat, b.size \in Nat \ {0}
  PROVE  /\ Cardinality(S) \in Nat
         /\ S \cap Extent(b) = {} => Cardinality(S \cup Extent(b)) = Cardinality(S) + b.size
         /\ Extent(b) \subseteq S => /\ Cardinality(S \ Extent(b)) = Cardinality(S) - b.size
                                     /\ b.size <= Cardinality(S)
<1>1. IsFiniteSet(Extent(b)) /\ Cardinality(Extent(b)) = b.size
  <2> DEFINE x == b.addr
             y == b.addr + b.size - 1
  <2>1. x \in Int /\ y \in Int /\ ~ (x > y) /\ y - x + 1 = b.size
    OBVIOUS
  <2>2. Extent(b) = x .. y
    BY DEF Extent
  <2> HIDE DEF x, y
  <2>3. QED
    BY <2>1, <2>2, FS_Interval
<1>2. Cardinality(S) \in Nat
  BY FS_CardinalityType
<1>3. ASSUME S \cap Extent(b) = {} PROVE Cardinality(S \cup Extent(b)) = Cardinality(S) + b.size
  <2>1. Cardinality(S \cup Extent(b)) = Cardinality(S) + Cardinality(Extent(b)) - Cardinality(S \cap Extent(b))
    BY <1>1, FS_Union
  <2>2. Cardinality(S \cap Extent(b)) = 0
    BY <1>3, FS_EmptySet
  <2>3. QED
    BY <1>1, <1>2, <2>1, <2>2
<1>4. ASSUME Extent(b) \subseteq S
      PROVE  Cardinality(S \ Extent(b)) = Cardinality(S) - b.size /\ b.size <= Cardinality(S)
  <2>1. S \cap Extent(b) = Extent(b)
    BY <1>4
  <2>2. Cardinality(S \ Extent(b)) = Cardinality(S) - Cardinality(S \cap Extent(b))
    BY Zenon, FS_Difference
  <2>3. Cardinality(Extent(b)) <= Cardinality(S)
    BY <1>4, FS_Subset
  <2>4. QED
    BY Zenon, <1>1, <2>1, <2>2, <2>3
<1>5. QED
  BY <1>2, <1>3, <1>4

-----------------------------------------------------------------------------
(***************************************************************************)
(* The inductive invariant.  Partition alone is not inductive: that the    *)
(* list is merged makes a refusal final, and free gives back the right     *)
(* block only because the address handed out is the block's own.           *)
(***************************************************************************)
OwnAddress == \A b \in alloc_list : b.aligned_addr = b.addr /\ b.nbytes = b.size

MemInv == /\ TypeOK /\ AlwaysMerged /\ Partition /\ UsedIsAllocated
          /\ OwnAddress /\ RefusedForCause

\* What the steps below use of the invariant.
LEMMA MemFacts ==
  ASSUME MemInv
  PROVE  /\ free_list \in SUBSET FreeBlock /\ Merged(free_list)
         /\ alloc_list \in SUBSET AllocBlock /\ Disjoint(alloc_list)
         /\ Covered(free_list) \cap Covered(alloc_list) = {}
         /\ Covered(free_list) \cup Covered(alloc_list) = Pool
         /\ IsFiniteSet(Covered(alloc_list))
         /\ Start + Size - 1 \in Nat /\ Pool \subseteq 0 .. Start + Size - 1
<1>1. Start + Size - 1 \in Nat /\ Pool \subseteq 0 .. Start + Size - 1
  BY PoolAssumption DEF Pool
<1>2. Covered(alloc_list) \subseteq Pool
  BY DEF MemInv, Partition
<1>3. IsFiniteSet(Pool)
  <2>1. Start \in Int /\ Start + Size - 1 \in Int
    BY PoolAssumption
  <2>2. QED
    BY <2>1, FS_Interval DEF Pool
<1>4. IsFiniteSet(Covered(alloc_list))
  BY <1>2, <1>3, FS_Subset
<1>5. QED
  BY <1>1, <1>4 DEF MemInv, TypeOK, AlwaysMerged, Partition

\* The pool starts as one free block.
LEMMA MemInit == Init => MemInv
<1> SUFFICES ASSUME Init PROVE MemInv
  OBVIOUS
<1>1. TypeOK
  BY PoolAssumption DEF Init, TypeOK, FreeBlock
<1>2. Covered(free_list) = Pool /\ Covered(alloc_list) = {}
  BY DEF Init, Covered, Extent, Pool
<1>3. AlwaysMerged
  <2>1. Start - 1 \notin Pool /\ Start + Size \notin Pool
    BY PoolAssumption DEF Pool
  <2>2. QED
    BY <1>2, <2>1 DEF Init, AlwaysMerged, Merged
<1>4. Disjoint(free_list) /\ Disjoint(alloc_list)
  BY DEF Init, Disjoint
<1>5. UsedIsAllocated
  BY <1>2, FS_EmptySet DEF Init, UsedIsAllocated
<1>6. OwnAddress /\ RefusedForCause
  BY DEF Init, OwnAddress, RefusedForCause
<1>7. QED
  BY <1>1, <1>2, <1>3, <1>4, <1>5, <1>6 DEF MemInv, Partition

\* The list that alloc searches, in either pass, and a block it finds there.
LEMMA ChosenFacts ==
  ASSUME MemInv, NEW n \in Nat \ {0}
  PROVE  /\ Searched(n) \in SUBSET FreeBlock /\ Merged(Searched(n))
         /\ Covered(Searched(n)) = Covered(free_list)
         /\ Defrag(free_list) \in SUBSET FreeBlock /\ Merged(Defrag(free_list))
         /\ Covered(Defrag(free_list)) = Covered(free_list)
         /\ \A b \in Chosen(n) : b \in Searched(n) /\ n <= b.size
<1>1. /\ Defrag(free_list) \in SUBSET FreeBlock /\ Merged(Defrag(free_list))
      /\ Covered(Defrag(free_list)) = Covered(free_list)
  BY MemFacts, DefragFacts
<1>2. /\ Searched(n) \in SUBSET FreeBlock /\ Merged(Searched(n))
      /\ Covered(Searched(n)) = Covered(free_list)
  BY <1>1, MemFacts DEF Searched
<1>3. \A b \in Chosen(n) : b \in Searched(n) /\ n <= b.size
  BY DEF Chosen, Searched, Smallest, Lowest, Fitting
<1>4. QED
  BY <1>1, <1>2, <1>3

\* What a successful alloc does to the two lists.
LEMMA AllocEffect ==
  ASSUME NoAlignment, MemInv, NEW r \in Requests, Alloc(r)
  PROVE  \E a \in AllocBlock :
           /\ a.size = Padded(r) /\ a.aligned_addr = a.addr /\ a.nbytes = a.size
           /\ alloc_list' = alloc_list \cup {a} /\ used' = used + a.size /\ rc' = 0
           /\ free_list' \in SUBSET FreeBlock /\ Merged(free_list)'
           /\ Extent(a) \subseteq Covered(free_list)
           /\ Covered(free_list)' = Covered(free_list) \ Extent(a)
<1> DEFINE n == Padded(r)
           F == Searched(n)
<1>1. r.nbytes \in Nat \ {0} /\ r.alignment = 0 /\ n = r.nbytes
  BY RequestAssumption DEF NoAlignment, Padded
<1>2. /\ F \in SUBSET FreeBlock /\ Merged(F) /\ Covered(F) = Covered(free_list)
      /\ \A b \in Chosen(n) : b \in F /\ n <= b.size
  BY <1>1, ChosenFacts
<1>3. PICK b \in Chosen(n) : Take(F, b, r)
  BY DEF Alloc
<1>4. b \in F /\ n <= b.size /\ b \in FreeBlock /\ b.addr \in Nat /\ ALIGN(b.addr, r.alignment) = b.addr
  BY <1>1, <1>2 DEF ALIGN, FreeBlock
<1> DEFINE a == [addr |-> b.addr, size |-> n, aligned_addr |-> b.addr, nbytes |-> r.nbytes]
           G == (F \ {b}) \cup Rest(b, n)
<1>5. free_list' = G /\ alloc_list' = alloc_list \cup {a} /\ used' = used + n /\ rc' = 0
  BY <1>3, <1>4 DEF Take
<1>6. a \in AllocBlock /\ Extent(a) = b.addr .. b.addr + n - 1
  BY <1>1, <1>4 DEF AllocBlock, Extent
<1>7. a.size = n /\ a.aligned_addr = a.addr /\ a.nbytes = a.size
  BY <1>1
<1> HIDE DEF a, F, n
<1>8. /\ G \in SUBSET FreeBlock /\ Merged(G)
      /\ Covered(G) = Covered(F) \ (b.addr .. b.addr + n - 1)
      /\ b.addr .. b.addr + n - 1 \subseteq Covered(F)
  <2>1. n \in Nat \ {0}
    BY <1>1
  <2>2. QED
    BY <1>2, <1>4, <2>1, TakeFacts, Zenon
<1> HIDE DEF G
<1>9. /\ free_list' \in SUBSET FreeBlock /\ Merged(free_list)'
      /\ Extent(a) \subseteq Covered(free_list)
      /\ Covered(free_list)' = Covered(free_list) \ Extent(a)
  <2>1. Covered(free_list)' = Covered(G) /\ (Merged(free_list)' <=> Merged(G))
    BY <1>5 DEF Covered, Merged
  <2>2. QED
    BY <1>2, <1>5, <1>6, <1>8, <2>1
<1>10. QED
  BY Zenon, <1>5, <1>6, <1>7, <1>9 DEF n

\* alloc, when it succeeds, keeps the invariant.
LEMMA AllocStep ==
  ASSUME NoAlignment, MemInv, NEW r \in Requests, Alloc(r)
  PROVE  MemInv'
<1>1. PICK a \in AllocBlock :
           /\ a.aligned_addr = a.addr /\ a.nbytes = a.size
           /\ alloc_list' = alloc_list \cup {a} /\ used' = used + a.size /\ rc' = 0
           /\ free_list' \in SUBSET FreeBlock /\ Merged(free_list)'
           /\ Extent(a) \subseteq Covered(free_list)
           /\ Covered(free_list)' = Covered(free_list) \ Extent(a)
  BY AllocEffect
<1>2. Extent(a) \cap Covered(alloc_list) = {}
  BY <1>1, MemFacts
<1>3. Disjoint(alloc_list \cup {a}) /\ Covered(alloc_list \cup {a}) = Covered(alloc_list) \cup Extent(a)
  BY Zenon, <1>2, MemFacts, AddFacts
<1>4. Disjoint(alloc_list)' /\ Covered(alloc_list)' = Covered(alloc_list) \cup Extent(a)
  BY <1>1, <1>3 DEF Disjoint, Covered
<1>5. Partition'
  <2>1. Disjoint(free_list)'
    BY <1>1, MergedDisjoint DEF Disjoint, Merged, Covered
  <2>2. QED
    BY Zenon, <1>1, <1>4, <2>1, MemFacts DEF Partition, Pool
<1>6. UsedIsAllocated' /\ used' \in Nat
  <2>1. a.addr \in Nat /\ a.size \in Nat \ {0}
    BY DEF AllocBlock
  <2>2. /\ Cardinality(Covered(alloc_list)) \in Nat
        /\ Cardinality(Covered(alloc_list) \cup Extent(a)) = Cardinality(Covered(alloc_list)) + a.size
    <3>1. IsFiniteSet(Covered(alloc_list)) /\ Covered(alloc_list) \cap Extent(a) = {}
      BY <1>2, MemFacts
    <3>2. QED
      BY <2>1, <3>1, CountFacts
  <2>3. used = Cardinality(Covered(alloc_list))
    BY DEF MemInv, UsedIsAllocated
  <2>4. used' = Cardinality(Covered(alloc_list)')
    BY <1>1, <1>4, <2>2, <2>3, Zenon
  <2>5. used' \in Nat
    BY <1>1, <2>1, <2>2, <2>3
  <2>6. QED
    BY <2>4, <2>5 DEF UsedIsAllocated
<1>7. TypeOK'
  BY <1>1, <1>6, MemFacts DEF TypeOK
<1>8. OwnAddress' /\ RefusedForCause' /\ AlwaysMerged'
  BY <1>1 DEF MemInv, OwnAddress, RefusedForCause, AlwaysMerged
<1>9. QED
  BY <1>5, <1>6, <1>7, <1>8 DEF MemInv

\* A refused alloc merges the list at most, and refuses for cause.
LEMMA AllocFailStep ==
  ASSUME NoAlignment, MemInv, NEW r \in Requests, AllocFail(r)
  PROVE  MemInv' /\ Covered(free_list)' = Covered(free_list)
<1> DEFINE n == Padded(r)
           D == Defrag(free_list)
<1>1. n \in Nat \ {0}
  BY RequestAssumption DEF NoAlignment, Padded
<1>2. D \in SUBSET FreeBlock /\ Merged(D) /\ Covered(D) = Covered(free_list)
  BY <1>1, ChosenFacts
<1>3. /\ Chosen(n) = {} /\ free_list' = D /\ rc' = n
      /\ alloc_list' = alloc_list /\ used' = used
  BY DEF AllocFail
<1>4. Fitting(D, n) = {}
  <2>1. Lowest(D, n) = {}
    <3>1. Fitting(free_list, n) # {} => Smallest(free_list, n) # {}
      BY <1>1, LeastFitting, MemFacts
    <3>2. QED
      BY <1>3, <3>1 DEF Chosen
  <2>2. QED
    BY <1>1, <1>2, <2>1, LeastFitting
<1> HIDE DEF D, n
<1>5. Covered(free_list)' = Covered(free_list) /\ Merged(free_list)' /\ Covered(alloc_list)' = Covered(alloc_list)
  BY <1>2, <1>3 DEF Covered, Merged
<1>6. RefusedForCause'
  <2>1. \A a \in Covered(D) : ~ (a .. a + n - 1 \subseteq Covered(D))
    BY <1>1, <1>2, <1>4, NoneFits
  <2>2. QED
    BY <1>2, <1>3, <1>5, <2>1 DEF RefusedForCause
<1>7. Partition'
  <2>1. Disjoint(free_list)'
    BY <1>2, <1>3, MergedDisjoint DEF Disjoint
  <2>2. Disjoint(alloc_list)'
    BY <1>3, MemFacts DEF Disjoint
  <2>3. QED
    BY <1>5, <2>1, <2>2, MemFacts DEF Partition, Pool
<1>8. TypeOK' /\ UsedIsAllocated' /\ OwnAddress' /\ AlwaysMerged'
  BY <1>1, <1>2, <1>3, <1>5 DEF MemInv, TypeOK, UsedIsAllocated, OwnAddress, AlwaysMerged
<1>9. QED
  BY <1>5, <1>6, <1>7, <1>8 DEF MemInv

\* free merges the block with its neighbours, and keeps the invariant.
LEMMA FreeStep ==
  ASSUME MemInv, NEW b \in alloc_list, Free(b)
  PROVE  /\ MemInv'
         /\ Covered(free_list)' = Covered(free_list) \cup Extent(b)
<1> DEFINE f == [addr |-> b.aligned_addr, size |-> b.size]
           E == free_list \cup {f}
<1>1. b \in AllocBlock /\ b.aligned_addr = b.addr /\ b.nbytes = b.size
      /\ b.addr \in Nat /\ b.size \in Nat \ {0}
  BY MemFacts DEF MemInv, OwnAddress, AllocBlock
<1>2. f \in FreeBlock /\ Extent(f) = Extent(b)
  BY <1>1 DEF FreeBlock, Extent
<1>3. /\ free_list' = Defrag(E) /\ alloc_list' = alloc_list \ {b}
      /\ used' = used - b.size /\ rc' = 0
  BY DEF Free
<1> HIDE DEF f
<1>4. E \in SUBSET FreeBlock /\ Covered(E) = Covered(free_list) \cup Extent(b)
  <2>1. E \in SUBSET FreeBlock
    BY <1>2, MemFacts
  <2>2. QED
    BY <1>2, <2>1 DEF Covered
<1> HIDE DEF E
<1>5. Extent(b) \subseteq Covered(alloc_list)
  BY DEF Covered
<1>6. Covered(E) \subseteq 0 .. Start + Size - 1
  BY <1>4, <1>5, MemFacts
<1>7. Defrag(E) \in SUBSET FreeBlock /\ Merged(Defrag(E)) /\ Covered(Defrag(E)) = Covered(E)
  BY <1>4, <1>6, MemFacts, DefragFacts
<1>8. Covered(free_list)' = Covered(free_list) \cup Extent(b) /\ Merged(free_list)'
  BY <1>3, <1>4, <1>7 DEF Covered, Merged
<1>9. Disjoint(alloc_list \ {b}) /\ Covered(alloc_list \ {b}) = Covered(alloc_list) \ Extent(b)
  BY Zenon, MemFacts, DropFacts
<1>10. Disjoint(alloc_list)' /\ Covered(alloc_list)' = Covered(alloc_list) \ Extent(b)
  BY <1>3, <1>9 DEF Disjoint, Covered
<1>11. Partition'
  <2>1. Disjoint(free_list)'
    BY <1>3, <1>7, MergedDisjoint DEF Disjoint
  <2>2. QED
    BY <1>5, <1>8, <1>10, <2>1, MemFacts DEF Partition, Pool
<1>12. UsedIsAllocated' /\ used' \in Nat
  <2>2. /\ Cardinality(Covered(alloc_list)) \in Nat /\ b.size <= Cardinality(Covered(alloc_list))
        /\ Cardinality(Covered(alloc_list) \ Extent(b)) = Cardinality(Covered(alloc_list)) - b.size
    <3>1. IsFiniteSet(Covered(alloc_list)) /\ b.addr \in Nat /\ b.size \in Nat \ {0}
      BY <1>1, MemFacts
    <3>2. QED
      BY Zenon, <1>5, <3>1, CountFacts
  <2>3. used = Cardinality(Covered(alloc_list))
    BY DEF MemInv, UsedIsAllocated
  <2>4. used' = Cardinality(Covered(alloc_list)')
    BY <1>3, <1>10, <2>2, <2>3, Zenon
  <2>5. used' \in Nat
    BY <1>1, <1>3, <2>2, <2>3
  <2>6. QED
    BY <2>4, <2>5 DEF UsedIsAllocated
<1>13. TypeOK'
  BY <1>3, <1>7, <1>12, MemFacts DEF TypeOK
<1>14. OwnAddress' /\ RefusedForCause' /\ AlwaysMerged'
  BY <1>3, <1>8 DEF MemInv, OwnAddress, RefusedForCause, AlwaysMerged
<1>15. QED
  BY <1>8, <1>11, <1>12, <1>13, <1>14 DEF MemInv

\* Every call keeps the invariant.
LEMMA MemStep ==
  ASSUME NoAlignment, MemInv, [Next]_vars
  PROVE  MemInv'
<1>1. CASE \E r \in Requests : Alloc(r)
  BY <1>1, AllocStep
<1>2. CASE \E r \in Requests : AllocFail(r)
  BY <1>2, AllocFailStep
<1>3. CASE \E b \in alloc_list : Free(b)
  BY <1>3, FreeStep
<1>4. CASE UNCHANGED vars
  BY <1>4 DEF vars, MemInv, TypeOK, AlwaysMerged, Merged, Partition, Disjoint, Covered,
              UsedIsAllocated, OwnAddress, RefusedForCause
<1>5. QED
  BY <1>1, <1>2, <1>3, <1>4 DEF Next

\* The invariant of the memory block manager, when no client asks for an
\* alignment: types, merged free list, partition, count, own addresses.
THEOREM MemCorrect ==
  ASSUME NoAlignment
  PROVE  Spec => []MemInv
<1>1. Init => MemInv
  BY MemInit
<1>2. MemInv /\ [Next]_vars => MemInv'
  BY MemStep
<1>3. QED
  BY <1>1, <1>2, PTL DEF Spec

\* alloc never hands out memory that another client holds.
THEOREM HeldDisjointCorrect ==
  ASSUME NoAlignment
  PROVE  Spec => []HeldDisjoint
<1>1. MemInv => HeldDisjoint
  <2> SUFFICES ASSUME MemInv PROVE HeldDisjoint
    OBVIOUS
  <2>1. \A b \in alloc_list : Usable(b) = Extent(b)
    BY DEF MemInv, OwnAddress, Usable, Extent
  <2>2. \A b \in alloc_list : Extent(b) \subseteq Covered(alloc_list)
    BY DEF Covered
  <2>3. QED
    BY <2>1, <2>2, MemFacts DEF HeldDisjoint, Disjoint
<1>2. QED
  BY <1>1, MemCorrect, PTL

\* The two lists partition the pool: no byte is lost or counted twice.
THEOREM PartitionCorrect ==
  ASSUME NoAlignment
  PROVE  Spec => []Partition
<1>1. MemInv => Partition
  BY DEF MemInv
<1>2. QED
  BY <1>1, MemCorrect, PTL

\* Every block of the lists, and every address handed out, lies in the pool.
THEOREM TypesCorrect ==
  ASSUME NoAlignment
  PROVE  Spec => []TypeOK
<1>1. MemInv => TypeOK
  BY DEF MemInv
<1>2. QED
  BY <1>1, MemCorrect, PTL

\* The count of used bytes is that of the allocated blocks, and no two free
\* blocks are adjacent, whatever alloc and free have done.
THEOREM CountCorrect ==
  ASSUME NoAlignment
  PROVE  Spec => [](UsedIsAllocated /\ AlwaysMerged)
<1>1. MemInv => UsedIsAllocated /\ AlwaysMerged
  BY DEF MemInv
<1>2. QED
  BY <1>1, MemCorrect, PTL

\* alloc refuses a request only if no free region is long enough.
THEOREM RefusedForCauseCorrect ==
  ASSUME NoAlignment
  PROVE  Spec => []RefusedForCause
<1>1. MemInv => RefusedForCause
  BY DEF MemInv
<1>2. QED
  BY <1>1, MemCorrect, PTL

\* When everything was freed the pool is one block again, in whatever order
\* that happened.
THEOREM NothingLostCorrect ==
  ASSUME NoAlignment
  PROVE  Spec => []NothingLost
<1>1. MemInv => NothingLost
  <2> SUFFICES ASSUME MemInv, alloc_list = {}
               PROVE  free_list = {[addr |-> Start, size |-> Size]}
    BY DEF NothingLost
  <2>1. Covered(alloc_list) = {}
    BY DEF Covered
  <2>2. Covered(free_list) = Pool
    BY Zenon, <2>1, MemFacts
  <2>3. QED
    BY <2>2, MemFacts, MergedPool
<1>2. QED
  BY <1>1, MemCorrect, PTL

-----------------------------------------------------------------------------
(***************************************************************************)
(* The refinement: Alloc is Grant, AllocFail is Refuse, Free is Return.    *)
(***************************************************************************)
Regions == {[addr |-> b.aligned_addr, len |-> b.size] : b \in alloc_list}

\* The initial pool is all unused.
LEMMA PoolInit == Init => Abstract!Init
<1> SUFFICES ASSUME Init PROVE Abstract!Init
  OBVIOUS
<1> DEFINE b == [addr |-> Start, size |-> Size]
<1>1. Covered(free_list) = Extent(b)
  BY DEF Init, Covered
<1>2. Extent(b) = Start .. Start + Size - 1
  BY DEF Extent
<1>3. {[addr |-> c.aligned_addr, len |-> c.size] : c \in alloc_list} = {} /\ rc = 0
  BY DEF Init
<1>4. QED
  BY <1>1, <1>2, <1>3 DEF Abstract!Init

\* A successful alloc grants a region that was unused.
LEMMA AllocIsGrant ==
  ASSUME NoAlignment, MemInv, NEW r \in Requests, Alloc(r)
  PROVE  Abstract!Grant(Padded(r))
<1>1. PICK a \in AllocBlock :
           /\ a.size = Padded(r) /\ a.aligned_addr = a.addr /\ a.nbytes = a.size
           /\ alloc_list' = alloc_list \cup {a} /\ used' = used + a.size /\ rc' = 0
           /\ free_list' \in SUBSET FreeBlock /\ Merged(free_list)'
           /\ Extent(a) \subseteq Covered(free_list)
           /\ Covered(free_list)' = Covered(free_list) \ Extent(a)
  BY AllocEffect
<1> DEFINE g == [addr |-> a.addr, len |-> Padded(r)]
<1>2. Abstract!Bytes(g) = Extent(a)
  BY <1>1 DEF Abstract!Bytes, Extent
<1>3. a.addr \in Covered(free_list)
  <2>1. a.addr \in Extent(a)
    BY DEF AllocBlock, Extent
  <2>2. QED
    BY <1>1, <2>1
<1>4. Regions' = Regions \cup {g}
  BY <1>1 DEF Regions
<1>5. QED
  BY <1>1, <1>2, <1>3, <1>4 DEF Abstract!Grant, Regions

\* A refused request finds no room in the pool.
LEMMA AllocFailIsRefuse ==
  ASSUME NoAlignment, MemInv, NEW r \in Requests, AllocFail(r)
  PROVE  Abstract!Refuse(Padded(r))
<1>1. MemInv' /\ Covered(free_list)' = Covered(free_list)
  BY AllocFailStep
<1>2. rc' = Padded(r) /\ rc' # 0 /\ Regions' = Regions
  BY RequestAssumption DEF AllocFail, NoAlignment, Padded, Regions
<1>3. \A a \in Covered(free_list)' : ~ (a .. a + rc' - 1 \subseteq Covered(free_list)')
  BY <1>1, <1>2 DEF MemInv, RefusedForCause
<1>4. QED
  BY <1>1, <1>2, <1>3 DEF Abstract!Refuse, Regions

\* free returns the region of its block, and no other block has that region.
LEMMA FreeIsReturn ==
  ASSUME MemInv, NEW b \in alloc_list, Free(b)
  PROVE  Abstract!Return
<1> DEFINE g == [addr |-> b.aligned_addr, len |-> b.size]
<1>1. Covered(free_list)' = Covered(free_list) \cup Extent(b)
  BY FreeStep
<1>2. alloc_list' = alloc_list \ {b} /\ rc' = 0
  BY DEF Free
<1>3. b.aligned_addr = b.addr /\ Abstract!Bytes(g) = Extent(b)
  BY DEF MemInv, OwnAddress, Abstract!Bytes, Extent
<1>4. \A c \in alloc_list : c # b => c.aligned_addr # b.aligned_addr
  <2> SUFFICES ASSUME NEW c \in alloc_list, c # b, c.aligned_addr = b.aligned_addr
               PROVE  FALSE
    OBVIOUS
  <2>1. c.addr = b.addr /\ c.addr \in Nat /\ c.size \in Nat \ {0} /\ b.size \in Nat \ {0}
    BY MemFacts DEF MemInv, OwnAddress, AllocBlock
  <2>2. b.addr \in Extent(b) /\ b.addr \in Extent(c)
    BY <2>1 DEF Extent
  <2>3. QED
    BY <2>2, MemFacts DEF Disjoint
<1>5. g \in Regions /\ Regions' = Regions \ {g}
  BY <1>2, <1>4 DEF Regions
<1>6. QED
  BY <1>1, <1>2, <1>3, <1>5 DEF Abstract!Return, Regions

\* The memory block manager implements the pool of its interface, when no
\* client asks for an alignment.
THEOREM PoolImplemented ==
  ASSUME NoAlignment
  PROVE  Spec => ImplementsPool
<1>1. Init => Abstract!Init
  BY PoolInit
<1>2. MemInv /\ [Next]_vars
        => [Abstract!Next]_<<Covered(free_list),
              {[addr |-> b.aligned_addr, len |-> b.size] : b \in alloc_list}, rc>>
  <2> SUFFICES ASSUME MemInv, [Next]_vars
               PROVE  [Abstract!Next]_<<Covered(free_list),
                        {[addr |-> b.aligned_addr, len |-> b.size] : b \in alloc_list}, rc>>
    OBVIOUS
  <2>1. CASE \E r \in Requests : Alloc(r)
    BY <2>1, AllocIsGrant DEF Abstract!Next
  <2>2. CASE \E r \in Requests : AllocFail(r)
    BY <2>2, AllocFailIsRefuse DEF Abstract!Next
  <2>3. CASE \E b \in alloc_list : Free(b)
    BY <2>3, FreeIsReturn DEF Abstract!Next
  <2>4. CASE UNCHANGED vars
    BY <2>4 DEF vars, Covered
  <2>5. QED
    BY <2>1, <2>2, <2>3, <2>4 DEF Next
<1>3. QED
  BY <1>1, <1>2, MemCorrect, PTL DEF Spec, ImplementsPool, Abstract!Spec
=============================================================================
