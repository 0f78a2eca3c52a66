--------------------------- MODULE MCRootedStore ---------------------------
(* Instances of RootedStore for TLC. *)
EXTENDS RootedStore, TLC

CONSTANTS a, b, c, y, z

\* b shares a; b and c share y, whose item holds z too; c also names z itself.
MCNodes == {a, b, c, y, z}
MCChildren == (a :> {}) @@ (b :> {a, y}) @@ (c :> {y, z}) @@ (y :> {z}) @@ (z :> {})
MCRoots == {a, b, c}
MCLiteral == {y, z}
=============================================================================
