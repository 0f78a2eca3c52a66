--------------------------- MODULE MCPeerResponder ---------------------------
(* Instances of PeerResponder for TLC. *)
EXTENDS PeerResponder, TLC

CONSTANTS a, b, c

\* Two collections that share the page b, and the page alone, whose item takes two
\* frames.
MCHashes == {a, b, c}
MCPageOrder == (a :> <<a, b>>) @@ (c :> <<c, b>>) @@ (b :> <<b>>)
MCFrames == [h \in MCHashes |-> IF h = b THEN 2 ELSE 1]

\* Filter is the library's SelectSeq.
ASSUME FilterSelects ==
    \A n \in 0 .. 4, S \in SUBSET (1 .. 3) : \A s \in [1 .. n -> 1 .. 3] :
        Filter(s, S) = SelectSeq(s, LAMBDA x : x \in S)
=============================================================================
