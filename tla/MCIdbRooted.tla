----------------------------- MODULE MCIdbRooted -----------------------------
(* Instances of IdbRooted for TLC. *)
EXTENDS IdbRooted, TLC

CONSTANTS a, b, r, q

\* Resets that set roots of their own, and resets that set the same one.
MCApart == (r :> <<r>>) @@ (q :> <<q>>)
MCSame == (r :> <<r>>) @@ (q :> <<r>>)
===============================================================================
