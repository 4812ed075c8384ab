-------------------------- MODULE ReliableTransfer --------------------------
(***************************************************************************)
(* What a data transfer driver promises to the transport above it, whatever*)
(* carries the bytes: a posted transfer writes each of its messages into   *)
(* the peer's memory at most once, in any order; it raises the flag of the *)
(* transfer with the last of them; it reports CompleteSuccess only then.   *)
(***************************************************************************)
EXTENDS Naturals, Sequences

CONSTANTS
  Node,   \* the processes
  Msgs    \* [Node -> Seq(Nat)], the messages of each transfer of a process

VARIABLES
  posted,     \* how many transfers a process has posted
  delivered,  \* the messages that are in the peer's memory
  flag,       \* the transfer's flag is up at the peer
  done        \* the transfer has reported CompleteSuccess

avars == <<posted, delivered, flag, done>>

\* Transfers <<n, k>>: the k-th one that process n posts.
Transfer == UNION {{n} \X (1 .. Len(Msgs[n])) : n \in Node}
MsgsOf(t) == 1 .. Msgs[t[1]][t[2]]

AInit ==
  /\ posted = [n \in Node |-> 0]
  /\ delivered = [t \in Transfer |-> {}]
  /\ flag = [t \in Transfer |-> FALSE]
  /\ done = [t \in Transfer |-> FALSE]

Post(n) ==
  /\ posted[n] < Len(Msgs[n])
  /\ posted' = [posted EXCEPT ![n] = @ + 1]
  /\ UNCHANGED <<delivered, flag, done>>

Deliver(t) ==
  /\ t[2] <= posted[t[1]]
  /\ \E i \in MsgsOf(t) \ delivered[t] :
       delivered' = [delivered EXCEPT ![t] = @ \cup {i}]
  /\ flag' = [flag EXCEPT ![t] = delivered'[t] = MsgsOf(t)]
  /\ UNCHANGED <<posted, done>>

Finish(t) ==
  /\ flag[t] /\ ~ done[t]
  /\ done' = [done EXCEPT ![t] = TRUE]
  /\ UNCHANGED <<posted, delivered, flag>>

ANext == \/ \E n \in Node : Post(n)
         \/ \E t \in Transfer : Deliver(t) \/ Finish(t)

ASpec == AInit /\ [][ANext]_avars
=============================================================================
