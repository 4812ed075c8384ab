------------------------------ MODULE Channel ------------------------------
(***************************************************************************)
(* What a connection promises to the workers at its ends: every message    *)
(* the producer sends is handed to every consumer, once, in the order of   *)
(* the sends, and at most Capacity messages wait for the slowest of them.  *)
(* Messages are known by their number in the order of the sends.           *)
(***************************************************************************)
EXTENDS Naturals, Sequences

CONSTANTS
  Inputs,    \* the consumers' ports
  Capacity   \* how many messages the connection holds

VARIABLES
  sent,      \* how many messages the producer has sent
  received   \* [Inputs -> Seq(Nat)], what each consumer was handed

cvars == <<sent, received>>

CInit ==
  /\ sent = 0
  /\ received = [p \in Inputs |-> <<>>]

CSend ==
  /\ \A p \in Inputs : sent < Len(received[p]) + Capacity
  /\ sent' = sent + 1
  /\ UNCHANGED received

CReceive(p) ==
  /\ Len(received[p]) < sent
  /\ received' = [received EXCEPT ![p] = Append(@, Len(@) + 1)]
  /\ UNCHANGED sent

CNext == CSend \/ \E p \in Inputs : CReceive(p)

CSpec == CInit /\ [][CNext]_cvars
=============================================================================
