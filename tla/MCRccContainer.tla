--------------------------- MODULE MCRccContainer ---------------------------
(* Instances of RccContainer for TLC: an application of one or two workers. *)
EXTENDS RccContainer
=============================================================================
