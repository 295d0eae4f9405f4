----------------------------- MODULE MCStreams ------------------------------
(***************************************************************************)
(* Streams on small instances.                                             *)
(***************************************************************************)
EXTENDS Streams, TLC

=============================================================================
