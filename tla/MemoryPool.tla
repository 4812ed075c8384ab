----------------------------- MODULE MemoryPool -----------------------------
(***************************************************************************)
(* What a pool of memory promises its clients (the interface               *)
(* ResourceServices of DtSharedMemoryInternal.h): regions that were handed *)
(* out do not overlap, and a request is refused only if no region of its   *)
(* length is free.  Where a region lies is left open.                      *)
(***************************************************************************)
EXTENDS Integers

CONSTANTS Start, Size, Lengths

VARIABLES
  unused,   \* the addresses that belong to no region
  regions,  \* the regions handed out: address and length
  refused   \* the length that the last call refused, or 0

Bytes(r) == r.addr .. r.addr + r.len - 1

Init == unused = Start .. Start + Size - 1 /\ regions = {} /\ refused = 0

\* A region of n free bytes is handed out.
Grant(n) ==
  \E a \in unused :
    LET r == [addr |-> a, len |-> n] IN
    /\ Bytes(r) \subseteq unused
    /\ unused' = unused \ Bytes(r)
    /\ regions' = regions \cup {r}
    /\ refused' = 0

\* A request is refused: no n consecutive addresses are free.
Refuse(n) ==
  /\ \A a \in unused : ~ (a .. a + n - 1 \subseteq unused)
  /\ refused' = n
  /\ UNCHANGED <<unused, regions>>

\* A region is given back.
Return ==
  \E r \in regions :
    /\ unused' = unused \cup Bytes(r)
    /\ regions' = regions \ {r}
    /\ refused' = 0

Next == Return \/ \E n \in Lengths : Grant(n) \/ Refuse(n)

Spec == Init /\ [][Next]_<<unused, regions, refused>>
=============================================================================
