------------------------------ MODULE RootedStore ------------------------------
(***************************************************************************)
(* A rooted store (rooted.cljc) over a chunked content store               *)
(* (store/chunk.cljc): a root in memory, the cell that makes it durable, a *)
(* working overlay in memory and an inner store of pack items; commits and *)
(* garbage collection (rooted/gc.cljc) by one or several threads, store    *)
(* calls that fail, and crashes.                                           *)
(*                                                                         *)
(* A value is its top node; a node names its children.  An item is a node  *)
(* alone or, for the nodes in Literal, the node with all below it.  The    *)
(* inner store is asked for the hash of an item: what is inside a literal  *)
(* is found only after the literal was read into memory.  (A literal that  *)
(* cannot be read whole when it is encoded would become a node alone; that *)
(* does not come up while the root is readable.)  A sweep is one step: a   *)
(* crash in the middle of one leaves more behind, never less.              *)
(***************************************************************************)
EXTENDS Naturals, Sequences, FiniteSets

CONSTANTS
    Nodes,         \* the hashes of all nodes
    Children,      \* the nodes that a node names
    Roots,         \* the values that are made the root
    Literal,       \* the nodes whose item holds all below them
    Writers,       \* the threads that use the store
    Blind,         \* whether a caller names nodes it has not met in this store
    FileCell,      \* whether the cell is a file, or LMDB's meta database
    Collects,      \* bound: "never", "untilFault" (no commit failed) or "always"
    MaxInstalls,   \* bound: how often the root moves
    MaxFaults,     \* bound: commits that fail
    NoRoot

ASSUME NodesAssumption ==
    /\ NoRoot \notin Nodes
    /\ Children \in [Nodes -> SUBSET Nodes]
    /\ Roots \subseteq Nodes /\ Literal \subseteq Nodes
ASSUME ModesAssumption ==
    {FileCell, Blind} \subseteq BOOLEAN /\ Collects \in {"never", "untilFault", "always"}
ASSUME BoundsAssumption == MaxInstalls \in Nat /\ MaxFaults \in Nat

VARIABLES
    root,       \* root-atom
    cell,       \* what the cell holds
    overlay,    \* the nodes in memory
    inner,      \* the nodes whose item the inner store holds
    pc,         \* per writer: where it is
    expected,   \* per writer: the root it built on
    new,        \* per writer: the root it installs
    keep,       \* per writer: the hashes its sweep keeps
    todo,       \* per writer: the items it has still to put
    log,        \* history: the roots that were installed, in order
    at,         \* history, per writer: the place of its root in log
    acked,      \* history: the place of the latest root whose call has returned
    faults      \* how many commits have failed

memory == <<root, overlay>>
durable == <<cell, inner>>
locals == <<pc, expected, new, keep, todo>>
history == <<log, at, acked>>
vars == <<memory, durable, locals, history, faults>>

MaybeRoot == Roots \cup {NoRoot}
Stages == {"idle", "built", "encode", "put", "write", "sweep", "collect"}

TypeOK ==
    /\ root \in MaybeRoot /\ cell \in MaybeRoot
    /\ overlay \in SUBSET Nodes /\ inner \in SUBSET Nodes
    /\ pc \in [Writers -> Stages]
    /\ expected \in [Writers -> MaybeRoot] /\ new \in [Writers -> MaybeRoot]
    /\ keep \in [Writers -> SUBSET Nodes] /\ todo \in [Writers -> SUBSET Nodes]
    /\ log \in Seq(MaybeRoot) /\ Len(log) <= MaxInstalls
    /\ at \in [Writers -> 0..Len(log)] /\ acked \in 0..Len(log)
    /\ faults \in 0..MaxFaults

Init ==
    /\ root = NoRoot /\ cell = NoRoot
    /\ overlay = {} /\ inner = {}
    /\ pc = [w \in Writers |-> "idle"]
    /\ expected = [w \in Writers |-> NoRoot] /\ new = [w \in Writers |-> NoRoot]
    /\ keep = [w \in Writers |-> {}] /\ todo = [w \in Writers |-> {}]
    /\ log = <<>> /\ at = [w \in Writers |-> 0] /\ acked = 0
    /\ faults = 0

-----------------------------------------------------------------------------
(* Walks *)

\* Variant: the start of a walk is taken without looking at the store.
ReachedUnchecked(v, held, cut) ==
    LET closed == {S \in SUBSET Nodes :
                     /\ v \in Nodes => v \in S
                     /\ \A m \in S \ cut : Children[m] \cap held \subseteq S}
    IN  {v} \cup {n \in Nodes : \A S \in closed : n \in S}

\* What a walk from v meets: the nodes that are held, and nothing below a cut.
Reached(v, held, cut) ==
    LET closed == {S \in SUBSET Nodes :
                     /\ v \in held => v \in S
                     /\ \A m \in S \ cut : Children[m] \cap held \subseteq S}
    IN  {n \in Nodes : \A S \in closed : n \in S}

Below(v) == Reached(v, Nodes, {})
Items(v) == Reached(v, Nodes, Literal)

\* What a read finds: a node in memory, or an item of the inner store under its own
\* hash (s-get, s-has?).
Found == overlay \cup inner

\* Variant: of a literal, only its top is brought into memory.
BringsTop(n) == {n}

\* What the read of an item brings into memory (hydrate-inner!).
Brings(n) == IF n \in Literal THEN Below(n) ELSE {n}

\* The literals whose parts are not in memory yet: a walk does not see below them.
Unread == (inner \cap Literal) \ overlay

\* The nodes that can be named by who follows links from v and reads no further item.
Direct(v) == Reached(v, Nodes, Unread)

\* What a walk over all of v finds and brings into memory.
Loaded(v) ==
    LET met == Reached(v, Found, {})
    IN  met \cup UNION {Brings(n) : n \in met \cap Unread}

\* Any entry may be read at any time.
Read(n) ==
    /\ n \in inner \ overlay
    /\ overlay' = overlay \cup Brings(n)
    /\ UNCHANGED <<root, durable, locals, history, faults>>

-----------------------------------------------------------------------------
(* Commits *)

\* What a value takes over from the one it is built on.
Shared(v) ==
    ({v} \cup UNION {Children[n] : n \in Below(v) \ Below(root)}) \cap Below(root)

\* A successor is built on the root that is read: its new nodes are put, the ones
\* it shares stay where they are.  Their hashes were met in the root, or else (Blind)
\* the caller kept them, say from before a restart.
Build(w, v) ==
    /\ pc[w] = "idle"
    /\ Len(log) < MaxInstalls
    /\ Blind \/ Shared(v) \subseteq Direct(root)
    /\ overlay' = overlay \cup (Below(v) \ Below(root))
    /\ pc' = [pc EXCEPT ![w] = "built"]
    /\ expected' = [expected EXCEPT ![w] = root]
    /\ new' = [new EXCEPT ![w] = v]
    /\ UNCHANGED <<root, durable, keep, todo, history, faults>>

\* The root moves in memory, before anything is durable.
InstallRoot(w) ==
    /\ Len(log) < MaxInstalls
    /\ root' = new[w]
    /\ log' = Append(log, new[w])
    /\ at' = [at EXCEPT ![w] = Len(log) + 1]
    /\ pc' = [pc EXCEPT ![w] = "encode"]
    /\ UNCHANGED <<overlay, durable, expected, new, keep, todo, acked, faults>>

\* cas-root!, and the loop of update-root! that builds again on a conflict.
CasRoot(w) ==
    /\ pc[w] = "built"
    /\ \/ root = expected[w] /\ InstallRoot(w)
       \/ /\ root # expected[w]
          /\ pc' = [pc EXCEPT ![w] = "idle"]
          /\ UNCHANGED <<memory, durable, expected, new, keep, todo, history, faults>>

\* set-root!
SetRoot(w) == pc[w] = "built" /\ InstallRoot(w)

\* encode-reachable, on the store as it reads now: what is missing is passed over.
\* Whether the walk finds what is inside a literal depends on which it comes to first.
Encode(w) ==
    /\ pc[w] = "encode"
    /\ \E late \in SUBSET (Loaded(new[w]) \ Found) :
         LET items == Reached(new[w], Found \cup late, Literal) IN
         /\ todo' = [todo EXCEPT ![w] = items]
         /\ keep' = [keep EXCEPT ![w] = items]
    /\ overlay' = overlay \cup Loaded(new[w])
    /\ pc' = [pc EXCEPT ![w] = "put"]
    /\ UNCHANGED <<root, durable, expected, new, history, faults>>

PutItem(w) ==
    /\ pc[w] = "put"
    /\ \E n \in todo[w] :
         /\ inner' = inner \cup {n}
         /\ todo' = [todo EXCEPT ![w] = @ \ {n}]
    /\ UNCHANGED <<memory, cell, pc, expected, new, keep, history, faults>>

\* Variant: the cell is written before the items.
ItemsArePutIgnored(w) == TRUE

ItemsArePut(w) == todo[w] = {}

\* Variant: the root that was replaced goes to the cell.
PersistedIsOld(w) == expected[w]

Persisted(w) == new[w]

\* rc-put!: LMDB's cell in one transaction; a file is emptied, then written.
PutCell(w) ==
    LET empties == FileCell /\ pc[w] = "put" IN
    /\ pc[w] \in {"put", "write"}
    /\ ItemsArePut(w)
    /\ cell' = IF empties THEN NoRoot ELSE Persisted(w)
    /\ pc' = [pc EXCEPT ![w] = IF empties THEN "write" ELSE "sweep"]
    /\ UNCHANGED <<memory, inner, expected, new, keep, todo, history, faults>>

\* retain-inner!, unless the root was unset; then the call returns.
Sweep(w) ==
    /\ pc[w] = "sweep"
    /\ inner' = IF new[w] = NoRoot THEN inner ELSE inner \cap keep[w]
    /\ acked' = IF at[w] > acked THEN at[w] ELSE acked
    /\ pc' = [pc EXCEPT ![w] = "idle"]
    /\ UNCHANGED <<memory, cell, expected, new, keep, todo, log, at, faults>>

\* A store call of the commit fails and the call throws; the root has moved.
Fail(w) ==
    /\ pc[w] \in {"encode", "put", "write", "sweep"}
    /\ faults < MaxFaults
    /\ faults' = faults + 1
    /\ pc' = [pc EXCEPT ![w] = "idle"]
    /\ UNCHANGED <<memory, durable, expected, new, keep, todo, history>>

-----------------------------------------------------------------------------
(* Garbage collection and crashes *)

\* mark-reachable, from the root in memory.
Mark(w) ==
    /\ pc[w] = "idle"
    /\ Collects = "always" \/ (Collects = "untilFault" /\ faults = 0)
    /\ keep' = [keep EXCEPT ![w] = Loaded(root)]
    /\ overlay' = overlay \cup Loaded(root)
    /\ pc' = [pc EXCEPT ![w] = "collect"]
    /\ UNCHANGED <<root, durable, expected, new, todo, history, faults>>

\* sweep-unmarked, in memory and in the inner store.
Collect(w) ==
    /\ pc[w] = "collect"
    /\ overlay' = overlay \cap keep[w]
    /\ inner' = inner \cap keep[w]
    /\ pc' = [pc EXCEPT ![w] = "idle"]
    /\ UNCHANGED <<root, cell, expected, new, keep, todo, history, faults>>

\* The process dies and starts again: the root is what the cell holds.
Crash ==
    /\ root' = cell
    /\ overlay' = {}
    /\ pc' = [w \in Writers |-> "idle"]
    /\ UNCHANGED <<durable, expected, new, keep, todo, history, faults>>

-----------------------------------------------------------------------------

Next ==
    \/ \E w \in Writers :
         \/ \E v \in MaybeRoot : Build(w, v)
         \/ CasRoot(w) \/ SetRoot(w)
         \/ Encode(w) \/ PutItem(w) \/ PutCell(w) \/ Sweep(w)
         \/ Fail(w)
         \/ Mark(w) \/ Collect(w)
    \/ \E n \in Nodes : Read(n)
    \/ Crash

Spec == Init /\ [][Next]_vars

-----------------------------------------------------------------------------
(* Properties *)

\* The root that a restart would find is whole in the inner store, at every step of
\* a commit or a collection: every node that is named outside a literal has an item
\* of its own there.  A crash leaves debris, not a missing root (persist-chunked!,
\* commit!).
RootIsStored == cell # NoRoot => Items(cell) \subseteq inner

\* Whoever follows links from the current root finds each node under its own hash, in
\* memory or in the inner store, whatever was read before: a successor shares nodes
\* that were never brought into memory or that come out of the middle of a literal,
\* and the sweeps that follow a commit or a collection delete from both (s-get,
\* put-reachable!, collect-garbage!).
RootIsReadable == root # NoRoot => Direct(root) \subseteq Found

\* An update whose call has returned is not undone by a crash: the cell holds it or
\* one that was installed later (commit!).
AckedSurvives == acked > 0 => \E i \in acked..Len(log) : cell = log[i]

\* The root and its cell behave as the durable root they promise to be.
Durable == INSTANCE DurableRoot WITH current <- root, stable <- cell
ImplementsDurableRoot == Durable!Spec
=============================================================================
