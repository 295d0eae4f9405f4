----------------------------- MODULE MCMuteVote -----------------------------
(***************************************************************************)
(* MuteVote on small instances: the creator, and another address whose     *)
(* user may leave and come back.                                           *)
(***************************************************************************)
EXTENDS MuteVote, TLC

CONSTANTS u1, u2, u3, ip1, ip2

\* The creator u1, and u2, who comes back as u3.
MCIPOf == (u1 :> ip1) @@ (u2 :> ip2) @@ (u3 :> ip2)

\* Goroutines of a kind are interchangeable.
Symmetry == Permutations(Request) \cup Permutations(Timer)

=============================================================================
