---------------------------- MODULE MCRoundRobin ----------------------------
(***************************************************************************)
(* RoundRobin on small instances.                                          *)
(***************************************************************************)
EXTENDS RoundRobin, TLC

=============================================================================
