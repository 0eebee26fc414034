--------------------------- MODULE MCNwkSecurity ---------------------------
(* NwkSecurity with three keys whose sequence numbers wrap: 7, 0 and 1 of 8. *)
EXTENDS NwkSecurity, TLC

CONSTANTS k0, k1, k2

MCKeySeq == (k0 :> 7) @@ (k1 :> 0) @@ (k2 :> 1)

Symmetry == Permutations(Sources)
=============================================================================
