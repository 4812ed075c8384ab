--------------------------- MODULE MCMemBlockMgr ----------------------------
(***************************************************************************)
(* Instances of MemBlockMgr for TLC, and the loop of defrag as a recursive *)
(* operator, against which the closed form Defrag is checked.              *)
(***************************************************************************)
EXTENDS MemBlockMgr, SequencesExt

PlainRequests == {[nbytes |-> n, alignment |-> 0] : n \in {1, 2, 3, 5}}

\* The transport asks for buffers with alignment 7.
PortRequests == {[nbytes |-> n, alignment |-> 7] : n \in {8, 13}}

\* free_list.sort() with sort_by_size false, the first merge, and again.
RECURSIVE DefragLoop(_)
DefragLoop(F) ==
  LET s == SetToSortSeq(F, LAMBDA a, b : a.addr < b.addr)
      merges == {i \in 1 .. Len(s) - 1 : s[i].addr + s[i].size = s[i + 1].addr}
  IN IF merges = {} THEN F
     ELSE LET i == Min(merges)
          IN DefragLoop((F \ {s[i], s[i + 1]}) \cup
                        {[addr |-> s[i].addr, size |-> s[i].size + s[i + 1].size]})

\* The closed form of Defrag is what the loop computes, whenever alloc or
\* free calls it.
DefragIsLoop ==
  /\ Defrag(free_list) = DefragLoop(free_list)
  /\ \A b \in alloc_list :
       LET F == free_list \cup {[addr |-> b.aligned_addr, size |-> b.size]}
       IN Defrag(F) = DefragLoop(F)
=============================================================================
