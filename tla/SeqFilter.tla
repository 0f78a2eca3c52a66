------------------------------- MODULE SeqFilter -------------------------------
(* The elements of a sequence that are in a set, in their order: what filterv *)
(* and remove of the code's language give.  It is SelectSeq, defined by the    *)
(* ranks of the positions that stay, so that it can be reasoned about.         *)
EXTENDS Naturals, Sequences, FiniteSets

Elements(seq) == {seq[i] : i \in DOMAIN seq}

\* How many of the positions in a set come before i.
Rank(kept, i) == Cardinality({j \in kept : j < i})

\* The positions that stay.
Kept(s, S) == {i \in DOMAIN s : s[i] \in S}

Filter(s, S) ==
    [k \in 1 .. Cardinality(Kept(s, S)) |->
        s[CHOOSE i \in Kept(s, S) : Rank(Kept(s, S), i) = k - 1]]
================================================================================
