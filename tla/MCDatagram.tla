----------------------------- MODULE MCDatagram -----------------------------
(* Instances of Datagram for TLC: process a sends to process b, or both     *)
(* send to each other.                                                      *)
EXTENDS Datagram, TLC

CONSTANTS a, b

MCPeer == (a :> b) @@ (b :> a)

\* Both directions, so that acknowledgements ride on data frames: a transfer
\* of two frames and one that reuses its record, against two flags.
Duplex == (a :> <<3, 2>>) @@ (b :> <<1, 1>>)
\* One direction, one transfer after the other: more frames than the ring has.
OneWay == (a :> <<2, 1>>) @@ (b :> <<>>)
\* Transactions that are one frame each, posted without waiting.
Pipelined == (a :> <<2, 2>>) @@ (b :> <<>>)
=============================================================================
