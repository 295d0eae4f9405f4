----------------------------- MODULE MCPlayback -----------------------------
(***************************************************************************)
(* Playback on small instances: the configurations give the constants      *)
(* their model values.                                                     *)
(***************************************************************************)
EXTENDS Playback

=============================================================================
