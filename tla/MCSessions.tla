----------------------------- MODULE MCSessions -----------------------------
(***************************************************************************)
(* Sessions on small instances: an address whose users come and go.        *)
(***************************************************************************)
EXTENDS Sessions, TLC

CONSTANTS u1, u2, u3, ip1

\* All users from one address.
MCSameIPOf == (u1 :> ip1) @@ (u2 :> ip1) @@ (u3 :> ip1)

=============================================================================
