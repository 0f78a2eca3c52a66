--------------------------- MODULE MCRevealService ---------------------------
(* Instances of RevealService for TLC. *)
EXTENDS RevealService, TLC

CONSTANTS v1, v2, part

\* A value and an element of it; two values with an element in common.
MCNested == (v1 :> <<v1, part>>) @@ (part :> <<part>>)
MCShared == (v1 :> <<v1, part>>) @@ (v2 :> <<v2, part>>)
===============================================================================
