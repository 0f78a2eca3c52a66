-------------------------- MODULE MCWebrtcTransfer --------------------------
(* Instances of WebrtcTransfer for TLC. *)
EXTENDS WebrtcTransfer, TLC

CONSTANTS o, a, b

\* One process of each role, and one that takes the role that is free.
MCAsks == (o :> "offerer") @@ (a :> "answerer") @@ (b :> "any")
\* The last one alone has more to say than the relay keeps for it.
MCCandidates == (o :> 1) @@ (a :> 1) @@ (b :> 2)
=============================================================================
