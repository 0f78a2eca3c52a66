------------------------------ MODULE DurableRoot ------------------------------
(* What a rooted store promises of its root (rooted.cljc): one current hash and *)
(* one that is stable.  What becomes stable is the hash that is current at that *)
(* moment, and a restart goes on from the stable one.                           *)
CONSTANTS Roots, NoRoot

VARIABLES current, stable

Init == current = NoRoot /\ stable = NoRoot

Install == current' \in Roots \cup {NoRoot} /\ UNCHANGED stable

Persist == stable' = current /\ UNCHANGED current

Restart == current' = stable /\ UNCHANGED stable

Next == Install \/ Persist \/ Restart

Spec == Init /\ [][Next]_<<current, stable>>
=============================================================================
