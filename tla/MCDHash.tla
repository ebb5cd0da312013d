------------------------------- MODULE MCDHash -------------------------------
(* Small tables for TLC: hash values that collide on a size, and after growth *)
(* no longer do, or the other way round.                                      *)
EXTENDS DHash, TLC

CONSTANTS k1, k2, k3, k4

Hash3 == k1 :> 0 @@ k2 :> 3 @@ k3 :> 1 @@ k4 :> 5
FixedSize == <<4>>
GrowingSizes == <<2, 3, 5>>
=============================================================================
