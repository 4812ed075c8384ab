---------------------------- MODULE MCSimControl ----------------------------
(* Instances of SimControl for TLC: one client, or two.                     *)
EXTENDS SimControl

CONSTANTS c1, c2
=============================================================================
