--------------------------- MODULE RootedStoreProofs ---------------------------
(* Proofs about RootedStore: its type invariant for any writers and cell, and *)
(* for one writer over a transactional cell, that an acknowledged root is not *)
(* lost and that the store implements DurableRoot.                            *)
EXTENDS RootedStore, TLAPS

\* Where the root stands is known to a thread only while no other moves it.
OneWriter == \A u, w \in Writers : u = w

-----------------------------------------------------------------------------
(* Types *)

\* What a walk meets is nodes.
LEMMA ReachedType == \A v, held, cut : Reached(v, held, cut) \in SUBSET Nodes
BY DEF Reached

\* So is what the read of an item brings, and what a walk loads.
LEMMA LoadedType == \A v : Brings(v) \subseteq Nodes \cup {v} /\ Loaded(v) \in SUBSET Nodes
<1>1. \A v : Below(v) \in SUBSET Nodes /\ Reached(v, Found, {}) \in SUBSET Nodes
  BY ReachedType DEF Below
<1>2. \A v : Brings(v) \subseteq Nodes \cup {v}
  BY <1>1 DEF Brings
<1>3. ASSUME NEW v, NEW n \in Loaded(v) PROVE n \in Nodes
  <2> DEFINE met == Reached(v, Found, {})
  <2>1. CASE n \in met
    BY <1>1, <2>1
  <2>2. ASSUME NEW m \in met \cap Unread, n \in Brings(m) PROVE n \in Nodes
    BY <1>1, <1>2, <2>2
  <2> QED
    BY <1>3, <2>1, <2>2 DEF Loaded
<1> QED
  BY <1>2, <1>3

\* A root that is installed is the last of the log.
LEMMA AppendLog ==
    ASSUME NEW s \in Seq(MaybeRoot), NEW r \in MaybeRoot
    PROVE  /\ Append(s, r) \in Seq(MaybeRoot)
           /\ Len(Append(s, r)) = Len(s) + 1
           /\ Append(s, r)[Len(s) + 1] = r
           /\ \A i \in 1..Len(s) : Append(s, r)[i] = s[i]
OBVIOUS

LEMMA InitType == Init => TypeOK
<1> SUFFICES ASSUME Init PROVE TypeOK
  OBVIOUS
<1>1. log \in Seq(MaybeRoot) /\ Len(log) = 0
  BY DEF Init
<1> QED
  BY <1>1, BoundsAssumption DEF Init, TypeOK, MaybeRoot, Stages

\* InstallRoot, for both of the actions that it is part of.
LEMMA InstallType ==
    ASSUME TypeOK, NEW w \in Writers, InstallRoot(w) PROVE TypeOK'
<1>1. new[w] \in MaybeRoot
  BY DEF TypeOK
<1>2. /\ log' \in Seq(MaybeRoot) /\ Len(log') = Len(log) + 1
      /\ Len(log) \in Nat /\ Len(log') <= MaxInstalls
  BY <1>1, AppendLog, BoundsAssumption DEF TypeOK, InstallRoot
<1>3. at' \in [Writers -> 0..Len(log')] /\ acked' \in 0..Len(log')
  BY <1>2 DEF TypeOK, InstallRoot
<1>4. pc' \in [Writers -> Stages] /\ root' \in MaybeRoot
  BY <1>1 DEF TypeOK, InstallRoot, Stages
<1> QED
  BY <1>2, <1>3, <1>4 DEF TypeOK, InstallRoot, durable

\* A writer's step of a commit, or of a collection.
LEMMA WriterType ==
    ASSUME TypeOK, NEW w \in Writers,
           \/ \E v \in MaybeRoot : Build(w, v)
           \/ CasRoot(w) \/ SetRoot(w)
           \/ Encode(w) \/ PutItem(w) \/ PutCell(w) \/ Sweep(w)
           \/ Fail(w) \/ Mark(w) \/ Collect(w)
    PROVE  TypeOK'
<1> USE DEF memory, durable, history
<1>1. CASE \E v \in MaybeRoot : Build(w, v)
  <2> PICK v \in MaybeRoot : Build(w, v)
    BY <1>1
  <2>1. Below(v) \in SUBSET Nodes
    BY ReachedType DEF Below
  <2> QED
    BY <2>1 DEF Build, TypeOK, Stages
<1>2. CASE CasRoot(w)
  <2>1. CASE InstallRoot(w)
    BY <2>1, InstallType
  <2>2. CASE root # expected[w]
    BY <1>2, <2>2 DEF CasRoot, TypeOK, Stages
  <2> QED
    BY <1>2, <2>1, <2>2 DEF CasRoot
<1>3. CASE SetRoot(w)
  BY <1>3, InstallType DEF SetRoot
<1>4. CASE Encode(w)
  <2>1. Loaded(new[w]) \in SUBSET Nodes
    BY LoadedType
  <2>2. PICK late \in SUBSET (Loaded(new[w]) \ Found) :
          LET items == Reached(new[w], Found \cup late, Literal) IN
          todo' = [todo EXCEPT ![w] = items] /\ keep' = [keep EXCEPT ![w] = items]
    BY <1>4 DEF Encode
  <2>3. Reached(new[w], Found \cup late, Literal) \in SUBSET Nodes
    BY ReachedType
  <2> QED
    BY <1>4, <2>1, <2>2, <2>3 DEF Encode, TypeOK, Stages
<1>5. CASE PutItem(w)
  BY <1>5 DEF PutItem, TypeOK
<1>6. CASE PutCell(w)
  <2>1. cell' \in MaybeRoot
    BY <1>6 DEF PutCell, Persisted, TypeOK, MaybeRoot
  <2> QED
    BY <1>6, <2>1 DEF PutCell, TypeOK, Stages
<1>7. CASE Sweep(w)
  BY <1>7 DEF Sweep, TypeOK, Stages
<1>8. CASE Fail(w)
  BY <1>8, BoundsAssumption DEF Fail, TypeOK, Stages
<1>9. CASE Mark(w)
  <2>1. Loaded(root) \in SUBSET Nodes
    BY LoadedType
  <2> QED
    BY <1>9, <2>1 DEF Mark, TypeOK, Stages
<1>10. CASE Collect(w)
  BY <1>10 DEF Collect, TypeOK, Stages
<1> QED
  BY <1>1, <1>2, <1>3, <1>4, <1>5, <1>6, <1>7, <1>8, <1>9, <1>10

LEMMA NextType == TypeOK /\ [Next]_vars => TypeOK'
<1> SUFFICES ASSUME TypeOK, [Next]_vars PROVE TypeOK'
  OBVIOUS
<1>1. CASE Crash
  BY <1>1 DEF Crash, TypeOK, Stages, durable, history
<1>2. CASE UNCHANGED vars
  BY <1>2 DEF TypeOK, vars, memory, durable, locals, history
<1>3. ASSUME NEW n \in Nodes, Read(n) PROVE TypeOK'
  <2>1. Brings(n) \in SUBSET Nodes
    BY LoadedType
  <2> QED
    BY <1>3, <2>1 DEF Read, TypeOK, durable, locals, history
<1> QED
  BY <1>1, <1>2, <1>3, WriterType DEF Next

\* The variables of a rooted store keep their types, and the log its bound, whatever
\* threads use it and whatever its cell is.
THEOREM TypeCorrect == Spec => []TypeOK
<1>1. Init => TypeOK
  BY InitType
<1>2. TypeOK /\ [Next]_vars => TypeOK'
  BY NextType
<1> QED
  BY <1>1, <1>2, PTL DEF Spec

-----------------------------------------------------------------------------
(* One writer over LMDB's cell *)

\* While a commit is under way its root is still the current one, the last of the log,
\* and once the cell is written it is the cell's: AckedSurvives and the refinement need
\* both, and neither says so itself.
CommitInv ==
    /\ TypeOK
    /\ \A w \in Writers : pc[w] # "write"
    /\ \A w \in Writers : pc[w] \in {"encode", "put", "sweep"} =>
         /\ new[w] = root
         /\ at[w] = Len(log) /\ Len(log) > 0 /\ log[Len(log)] = root
    /\ \A w \in Writers : pc[w] = "sweep" => cell = root
    /\ AckedSurvives

LEMMA InitCommit == Init => CommitInv
<1> SUFFICES ASSUME Init PROVE CommitInv
  OBVIOUS
<1> QED
  BY InitType DEF Init, CommitInv, AckedSurvives

\* The root moves: what was acknowledged keeps its place in the log.
LEMMA InstallCommit ==
    ASSUME OneWriter, CommitInv, TypeOK', NEW w \in Writers, InstallRoot(w)
    PROVE  CommitInv'
<1>1. new[w] \in MaybeRoot /\ log \in Seq(MaybeRoot) /\ Len(log) \in Nat /\ acked \in 0..Len(log)
  BY DEF CommitInv, TypeOK
<1>2. /\ Len(log') = Len(log) + 1 /\ log'[Len(log')] = root'
      /\ \A i \in 1..Len(log) : log'[i] = log[i]
  BY <1>1, AppendLog DEF InstallRoot
<1>3. \A u \in Writers : u = w
  BY DEF OneWriter
<1>4. pc'[w] = "encode" /\ at'[w] = Len(log') /\ new'[w] = root'
  BY <1>1, <1>2 DEF InstallRoot, CommitInv, TypeOK
<1>5. AckedSurvives'
  <2>1. acked' = acked /\ cell' = cell
    BY DEF InstallRoot, durable
  <2>2. ASSUME acked > 0 PROVE \E i \in acked..Len(log') : cell = log'[i]
    <3>1. PICK i \in acked..Len(log) : cell = log[i]
      BY <2>2 DEF CommitInv, AckedSurvives
    <3>2. i \in 1..Len(log) /\ i \in acked..Len(log')
      BY <1>1, <1>2, <2>2, <3>1
    <3> QED
      BY <1>2, <3>1, <3>2
  <2> QED
    BY <2>1, <2>2 DEF AckedSurvives
<1> QED
  BY <1>1, <1>2, <1>3, <1>4, <1>5 DEF CommitInv

LEMMA NextCommit == OneWriter /\ ~FileCell /\ CommitInv /\ [Next]_vars => CommitInv'
<1> SUFFICES ASSUME OneWriter, ~FileCell, CommitInv, [Next]_vars PROVE CommitInv'
  OBVIOUS
<1>1. TypeOK /\ TypeOK'
  BY NextType DEF CommitInv
<1> USE DEF memory, durable, history
<1>2. ASSUME UNCHANGED <<root, cell, log, acked>>,
             \A w \in Writers :
               \/ pc'[w] \in {"idle", "built", "collect"}
               \/ /\ new'[w] = new[w] /\ at'[w] = at[w]
                  /\ pc'[w] \in {"encode", "put", "sweep"}
                  /\ pc[w] \in {"encode", "put", "sweep"}
                  /\ pc'[w] = "sweep" => pc[w] = "sweep"
      PROVE  CommitInv'
  BY <1>1, <1>2 DEF CommitInv, AckedSurvives
<1>3. ASSUME NEW w \in Writers, \E v \in MaybeRoot : Build(w, v) PROVE CommitInv'
  BY <1>1, <1>2, <1>3 DEF Build, OneWriter, TypeOK
<1>4. ASSUME NEW w \in Writers, CasRoot(w) PROVE CommitInv'
  <2>1. CASE InstallRoot(w)
    BY <1>1, <2>1, InstallCommit
  <2>2. CASE root # expected[w]
    BY <1>1, <1>2, <1>4, <2>2 DEF CasRoot, InstallRoot, OneWriter, TypeOK
  <2> QED
    BY <1>4, <2>1, <2>2 DEF CasRoot
<1>5. ASSUME NEW w \in Writers, SetRoot(w) PROVE CommitInv'
  BY <1>1, <1>5, InstallCommit DEF SetRoot
<1>6. ASSUME NEW w \in Writers, Encode(w) PROVE CommitInv'
  BY <1>1, <1>2, <1>6 DEF Encode, OneWriter, TypeOK
<1>7. ASSUME NEW w \in Writers, PutItem(w) PROVE CommitInv'
  BY <1>1, <1>2, <1>7 DEF PutItem, OneWriter, TypeOK
<1>8. ASSUME NEW w \in Writers, PutCell(w) PROVE CommitInv'
  <2>1. pc[w] = "put" /\ pc'[w] = "sweep" /\ cell' = root
        /\ UNCHANGED <<root, new, at, log, acked>>
    BY <1>1, <1>8 DEF PutCell, Persisted, CommitInv, TypeOK
  <2>2. AckedSurvives'
    BY <1>1, <2>1 DEF AckedSurvives, CommitInv, TypeOK
  <2> QED
    BY <1>1, <2>1, <2>2 DEF CommitInv, OneWriter
<1>9. ASSUME NEW w \in Writers, Sweep(w) PROVE CommitInv'
  <2>1. /\ pc[w] = "sweep" /\ pc'[w] = "idle" /\ acked' = Len(log)
        /\ UNCHANGED <<root, cell, log, new, at>>
    BY <1>1, <1>9 DEF Sweep, CommitInv, TypeOK
  <2>2. AckedSurvives'
    BY <1>1, <2>1 DEF AckedSurvives, CommitInv, TypeOK
  <2> QED
    BY <1>1, <2>1, <2>2 DEF CommitInv, OneWriter
<1>10. ASSUME NEW w \in Writers, Fail(w) PROVE CommitInv'
  BY <1>1, <1>2, <1>10 DEF Fail, OneWriter, TypeOK
<1>11. ASSUME NEW w \in Writers, Mark(w) PROVE CommitInv'
  BY <1>1, <1>2, <1>11 DEF Mark, OneWriter, TypeOK
<1>12. ASSUME NEW w \in Writers, Collect(w) PROVE CommitInv'
  BY <1>1, <1>2, <1>12 DEF Collect, OneWriter, TypeOK
<1>13. CASE Crash
  <2>1. /\ UNCHANGED <<cell, log, acked>>
        /\ \A w \in Writers : pc'[w] = "idle"
    BY <1>13 DEF Crash
  <2> QED
    BY <1>1, <2>1 DEF CommitInv, AckedSurvives
<1>14. CASE UNCHANGED vars
  BY <1>1, <1>14 DEF vars, locals, CommitInv, AckedSurvives
<1>15. ASSUME NEW n \in Nodes, Read(n) PROVE CommitInv'
  BY <1>1, <1>15 DEF Read, locals, CommitInv, AckedSurvives
<1> QED
  BY <1>3, <1>4, <1>5, <1>6, <1>7, <1>8, <1>9, <1>10, <1>11, <1>12, <1>13, <1>14,
     <1>15
  DEF Next

LEMMA CommitAlways == OneWriter /\ ~FileCell => (Spec => []CommitInv)
<1> SUFFICES ASSUME OneWriter, ~FileCell PROVE Spec => []CommitInv
  OBVIOUS
<1>1. Init => CommitInv
  BY InitCommit
<1>2. CommitInv /\ [Next]_vars => CommitInv'
  BY NextCommit
<1> QED
  BY <1>1, <1>2, PTL DEF Spec

\* With one writer and a cell that is written in one transaction, a crash undoes no
\* update whose call has returned, however many commits have failed (commit!).
THEOREM AckedAlwaysSurvives ==
    ASSUME OneWriter, ~FileCell PROVE Spec => []AckedSurvives
<1>1. Spec => []CommitInv
  BY CommitAlways
<1>2. CommitInv => AckedSurvives
  BY DEF CommitInv
<1> QED
  BY <1>1, <1>2, PTL

-----------------------------------------------------------------------------
(* Refinement *)

\* Each step of a commit, a failure, a collection or a crash is a step of the durable
\* root, or leaves root and cell alone.
LEMMA NextRefines ==
    ASSUME ~FileCell, CommitInv, [Next]_vars
    PROVE  [Durable!Next]_<<root, cell>>
<1> USE DEF memory, durable, history
<1>1. ASSUME NEW w \in Writers, InstallRoot(w) PROVE Durable!Install
  BY <1>1 DEF InstallRoot, Durable!Install, CommitInv, TypeOK, MaybeRoot
<1>2. ASSUME NEW w \in Writers, PutCell(w) PROVE Durable!Persist
  BY <1>2 DEF PutCell, Persisted, Durable!Persist, CommitInv
<1>3. CASE Crash
  BY <1>3 DEF Crash, Durable!Restart, Durable!Next
<1>4. ASSUME NEW w \in Writers, CasRoot(w) \/ SetRoot(w)
      PROVE  Durable!Install \/ UNCHANGED <<root, cell>>
  BY <1>1, <1>4 DEF CasRoot, SetRoot
<1>5. ASSUME NEW w \in Writers,
             \/ \E v \in MaybeRoot : Build(w, v)
             \/ Encode(w) \/ PutItem(w) \/ Sweep(w)
             \/ Fail(w) \/ Mark(w) \/ Collect(w)
      PROVE  UNCHANGED <<root, cell>>
  BY <1>5 DEF Build, Encode, PutItem, Sweep, Fail, Mark, Collect
<1>6. CASE UNCHANGED vars
  BY <1>6 DEF vars
<1>7. ASSUME NEW n \in Nodes, Read(n) PROVE UNCHANGED <<root, cell>>
  BY <1>7 DEF Read
<1> QED
  BY <1>2, <1>3, <1>4, <1>5, <1>6, <1>7 DEF Next, Durable!Next

\* A rooted store with one writer and a transactional cell implements the durable root:
\* what becomes stable is the current root, and a restart goes on from it.
THEOREM RootImplementsDurable ==
    ASSUME OneWriter, ~FileCell PROVE Spec => ImplementsDurableRoot
<1>1. Init => Durable!Init
  BY DEF Init, Durable!Init
<1>2. CommitInv /\ [Next]_vars => [Durable!Next]_<<root, cell>>
  BY NextRefines
<1>3. Spec => []CommitInv
  BY CommitAlways
<1> QED
  BY <1>1, <1>2, <1>3, PTL DEF Spec, ImplementsDurableRoot, Durable!Spec

-----------------------------------------------------------------------------
(* Walks *)

\* A walk meets where it starts, if that is held.
LEMMA ReachedStart ==
    ASSUME NEW v, NEW held \in SUBSET Nodes, NEW cut, v \in held
    PROVE  v \in Reached(v, held, cut)
BY DEF Reached

\* A walk goes on to the children that are held, except below a cut.
LEMMA ReachedChildren ==
    ASSUME NEW v, NEW held \in SUBSET Nodes, NEW cut,
           NEW m \in Reached(v, held, cut) \ cut, NEW c \in Children[m] \cap held
    PROVE  c \in Reached(v, held, cut)
BY DEF Reached

\* A walk meets no more than any set that is closed in this way.
LEMMA ReachedLeast ==
    ASSUME NEW v, NEW held \in SUBSET Nodes, NEW cut, NEW S \in SUBSET Nodes,
           v \in held => v \in S,
           \A m \in S \ cut : Children[m] \cap held \subseteq S
    PROVE  Reached(v, held, cut) \subseteq S
BY DEF Reached

\* Every walk stays below its start.
LEMMA ReachedBelow ==
    ASSUME NEW v, NEW held \in SUBSET Nodes, NEW cut
    PROVE  Reached(v, held, cut) \subseteq Below(v)
<1> DEFINE S == Below(v)
<1>1. S \in SUBSET Nodes
  BY ReachedType DEF Below
<1>2. v \in held => v \in S
  BY ReachedStart DEF Below
<1>3. \A m \in S \ cut : Children[m] \cap held \subseteq S
  BY ReachedChildren DEF Below
<1> HIDE DEF S
<1> QED
  BY <1>1, <1>2, <1>3, ReachedLeast DEF S

\* With fewer cuts a walk meets more.
LEMMA ReachedCut ==
    ASSUME NEW v, NEW held \in SUBSET Nodes, NEW cut, NEW less, less \subseteq cut
    PROVE  Reached(v, held, cut) \subseteq Reached(v, held, less)
<1> DEFINE S == Reached(v, held, less)
<1>1. S \in SUBSET Nodes /\ (v \in held => v \in S)
  BY ReachedType, ReachedStart
<1>2. \A m \in S \ cut : Children[m] \cap held \subseteq S
  BY ReachedChildren
<1> HIDE DEF S
<1> QED
  BY <1>1, <1>2, ReachedLeast DEF S

\* When literals are read, a walk meets no more than it did and what they hold.
LEMMA ReachedUncut ==
    ASSUME NEW v, NEW cut, NEW less, NEW T \in SUBSET Nodes,
           \A m \in T : Children[m] \cap Nodes \subseteq T, cut \ less \subseteq T
    PROVE  Reached(v, Nodes, less) \subseteq Reached(v, Nodes, cut) \cup T
<1> DEFINE S == Reached(v, Nodes, cut) \cup T
<1>1. S \in SUBSET Nodes /\ (v \in Nodes => v \in S)
  BY ReachedType, ReachedStart
<1>2. \A m \in S \ less : Children[m] \cap Nodes \subseteq S
  BY ReachedChildren
<1> HIDE DEF S
<1>3. Reached(v, Nodes, less) \subseteq S
  BY <1>1, <1>2, ReachedLeast
<1> QED
  BY <1>3 DEF S

\* A walk whose nodes are all held misses nothing.
LEMMA ReachedWhole ==
    ASSUME NEW v, NEW held \in SUBSET Nodes, NEW cut,
           Reached(v, Nodes, cut) \subseteq held
    PROVE  Reached(v, Nodes, cut) \subseteq Reached(v, held, cut)
<1> DEFINE S == Reached(v, held, cut) \cap Reached(v, Nodes, cut)
<1>1. S \in SUBSET Nodes
  BY ReachedType
<1>2. v \in Nodes => v \in S
  BY ReachedStart
<1>3. ASSUME NEW m \in S \ cut, NEW c \in Children[m] \cap Nodes PROVE c \in S
  <2>1. c \in Reached(v, Nodes, cut)
    BY <1>3, ReachedChildren
  <2> QED
    BY <1>3, <2>1, ReachedChildren
<1> HIDE DEF S
<1>4. \A m \in S \ cut : Children[m] \cap Nodes \subseteq S
  BY <1>3
<1>5. Reached(v, Nodes, cut) \subseteq S
  BY <1>1, <1>2, <1>4, ReachedLeast
<1> QED
  BY <1>5 DEF S

\* All that is below a value is met by a walk, or is below a cut that it meets.
LEMMA ReachedAll ==
    ASSUME NEW v, NEW cut
    PROVE  Below(v) \subseteq
             Reached(v, Nodes, cut)
               \cup UNION {Below(n) : n \in Reached(v, Nodes, cut) \cap cut}
<1> DEFINE R == Reached(v, Nodes, cut)
           S == R \cup UNION {Below(n) : n \in R \cap cut}
<1>1. R \in SUBSET Nodes /\ \A n : Below(n) \in SUBSET Nodes
  BY ReachedType DEF Below
<1>2. S \in SUBSET Nodes
  BY <1>1
<1>3. v \in Nodes => v \in S
  BY ReachedStart
<1>4. ASSUME NEW m \in S, NEW c \in Children[m] \cap Nodes PROVE c \in S
  <2>1. CASE m \in R \ cut
    <3>1. c \in R
      BY <1>4, <2>1, ReachedChildren
    <3> QED
      BY <3>1
  <2>2. ASSUME NEW n \in R \cap cut, m \in Below(n) PROVE c \in S
    <3>1. c \in Below(n)
      BY <1>4, <2>2, ReachedChildren DEF Below
    <3> QED
      BY <3>1, <2>2
  <2>3. CASE m \in R \cap cut
    <3>1. m \in Below(m)
      BY <1>1, <2>3, ReachedStart DEF Below
    <3> QED
      BY <2>2, <2>3, <3>1
  <2> QED
    BY <2>1, <2>2, <2>3
<1> HIDE DEF S, R
<1>5. \A m \in S \ {} : Children[m] \cap Nodes \subseteq S
  BY <1>4
<1>6. Below(v) \subseteq S
  BY <1>2, <1>3, <1>5, ReachedLeast DEF Below
<1> QED
  BY <1>6 DEF S, R

\* A value that can be read is loaded whole: what is met directly is found, and what is
\* not is inside a literal that is.
LEMMA LoadedWhole ==
    ASSUME NEW v, Found \in SUBSET Nodes, Direct(v) \subseteq Found
    PROVE  Below(v) \subseteq Loaded(v)
<1> DEFINE met == Reached(v, Found, {})
<1>1. Direct(v) \subseteq met
  <2>1. Direct(v) \subseteq Reached(v, Found, Unread)
    BY ReachedWhole DEF Direct
  <2>2. Reached(v, Found, Unread) \subseteq met
    BY ReachedCut
  <2> QED
    BY <2>1, <2>2
<1>2. \A n \in Unread : Brings(n) = Below(n)
  BY DEF Unread, Brings
<1>3. Below(v) \subseteq Direct(v) \cup UNION {Below(n) : n \in Direct(v) \cap Unread}
  BY ReachedAll DEF Direct
<1>4. Loaded(v) = met \cup UNION {Brings(n) : n \in met \cap Unread}
  BY DEF Loaded
<1> HIDE DEF met
<1> QED
  BY <1>1, <1>2, <1>3, <1>4

-----------------------------------------------------------------------------
(* The root is whole *)

\* What holds of the store at each step of a commit or a collection.  The root's items
\* are kept by a sweep because the walk that found them missed nothing, and it missed
\* nothing because the root could be read: neither RootIsStored nor RootIsReadable is
\* inductive without the other.
StoredInv ==
    /\ CommitInv
    /\ Items(cell) \subseteq inner
    /\ Direct(root) \subseteq Found
    /\ \A w \in Writers :
         /\ pc[w] = "built" => Direct(new[w]) \subseteq Found
         /\ pc[w] \in {"put", "sweep"} =>
              Below(root) \subseteq overlay /\ Items(root) \subseteq keep[w]
         /\ pc[w] = "put" => keep[w] \ todo[w] \subseteq inner
         /\ pc[w] = "collect" =>
              cell = root /\ Below(root) \subseteq overlay \cap keep[w]
         /\ faults = 0 /\ pc[w] \in {"idle", "built"} => cell = root

LEMMA InitStored == Init => StoredInv
<1> SUFFICES ASSUME Init PROVE StoredInv
  OBVIOUS
<1>1. CommitInv
  BY InitCommit
<1>2. ASSUME NEW cut PROVE Reached(NoRoot, Nodes, cut) \subseteq {}
  <2> DEFINE S == {}
  <2>1. /\ S \in SUBSET Nodes /\ (NoRoot \in Nodes => NoRoot \in S)
        /\ \A m \in S \ cut : Children[m] \cap Nodes \subseteq S
    BY NodesAssumption
  <2> HIDE DEF S
  <2>2. Reached(NoRoot, Nodes, cut) \subseteq S
    BY <2>1, ReachedLeast
  <2> QED
    BY <2>2 DEF S
<1> QED
  BY <1>1, <1>2 DEF Init, StoredInv, Direct, Items

LEMMA FoundType == TypeOK => Found \in SUBSET Nodes
BY DEF TypeOK, Found

\* What is in memory whole is found whatever has been read.
LEMMA InMemory ==
    ASSUME NEW v, Below(v) \subseteq overlay PROVE Direct(v) \subseteq Found
<1>1. Reached(v, Nodes, Unread) \subseteq Below(v)
  BY ReachedBelow
<1> QED
  BY <1>1 DEF Direct, Found

\* Where items are added and none is read, what could be found still is.
LEMMA DirectGrows ==
    ASSUME overlay' = overlay, inner \subseteq inner',
           NEW v, Direct(v) \subseteq Found
    PROVE  Reached(v, Nodes, Unread') \subseteq Found'
<1>1. Unread \subseteq Unread'
  BY DEF Unread
<1>2. Reached(v, Nodes, Unread') \subseteq Reached(v, Nodes, Unread)
  BY <1>1, ReachedCut
<1> QED
  BY <1>2 DEF Found, Direct

\* Steps that take nothing away and neither build, encode nor mark.
LEMMA GrowStored ==
    ASSUME StoredInv, CommitInv', NEW w \in Writers, OneWriter,
           UNCHANGED <<root, cell, overlay, new>>,
           inner \subseteq inner', faults' >= faults, faults' \in Nat, faults \in Nat,
           \/ pc'[w] = "idle" /\ (faults' = 0 => cell = root)
           \/ /\ pc[w] = "put" /\ pc'[w] = "put" /\ keep' = keep
              /\ keep[w] \ todo'[w] \subseteq inner'
    PROVE  StoredInv'
<1>1. Direct(root)' \subseteq Found'
  BY DirectGrows DEF StoredInv, Direct
<1> QED
  BY <1>1 DEF StoredInv, OneWriter, Items, Below

\* A literal that is read brings all that is now met below it.
LEMMA ReadStored ==
    ASSUME StoredInv, CommitInv', NEW n \in Nodes, Read(n)
    PROVE  StoredInv'
<1>1. /\ n \in inner /\ overlay' = overlay \cup Brings(n)
      /\ UNCHANGED <<root, cell, inner, pc, new, keep, todo, faults>>
  BY DEF Read, durable, locals
<1>2. ASSUME NEW v, Direct(v) \subseteq Found
      PROVE  Reached(v, Nodes, Unread') \subseteq Found'
  <2>1. CASE n \in Literal
    <3>1. Brings(n) = Below(n) /\ Below(n) \in SUBSET Nodes
      BY <2>1, ReachedType DEF Brings, Below
    <3>2. \A m \in Below(n) : Children[m] \cap Nodes \subseteq Below(n)
      BY ReachedChildren DEF Below
    <3>3. Unread \ Unread' \subseteq Below(n)
      BY <1>1, <3>1 DEF Unread
    <3>4. Reached(v, Nodes, Unread') \subseteq Reached(v, Nodes, Unread) \cup Below(n)
      BY <3>1, <3>2, <3>3, ReachedUncut
    <3> QED
      BY <1>1, <1>2, <3>1, <3>4 DEF Direct, Found
  <2>2. CASE n \notin Literal
    <3>1. Unread' = Unread
      BY <1>1, <2>2 DEF Unread, Brings
    <3> QED
      BY <1>1, <1>2, <3>1 DEF Direct, Found
  <2> QED
    BY <2>1, <2>2
<1>3. Direct(root)' \subseteq Found'
  BY <1>1, <1>2 DEF StoredInv, Direct
<1>4. ASSUME NEW w \in Writers, pc'[w] = "built" PROVE Direct(new[w])' \subseteq Found'
  BY <1>1, <1>2, <1>4 DEF StoredInv, Direct
<1> QED
  BY <1>1, <1>3, <1>4 DEF StoredInv, Items, Below

\* A successor takes over only what can be met in the root, and the nodes of its own
\* are in memory.
LEMMA BuildStored ==
    ASSUME StoredInv, CommitInv', NEW w \in Writers, OneWriter, ~Blind,
           NEW v \in MaybeRoot, Build(w, v)
    PROVE  StoredInv'
<1> DEFINE own == Below(v) \ Below(root)
           S == own \cup Direct(root)
<1>1. /\ UNCHANGED <<root, cell, inner, faults>> /\ overlay' = overlay \cup own
      /\ pc[w] = "idle" /\ pc'[w] = "built" /\ new'[w] = v
      /\ Shared(v) \subseteq Direct(root)
  BY DEF Build, durable, StoredInv, CommitInv, TypeOK
<1>2. /\ Below(v) \in SUBSET Nodes /\ Below(root) \in SUBSET Nodes
      /\ Direct(root) \in SUBSET Nodes /\ Direct(root) \subseteq Below(root)
  BY ReachedType, ReachedBelow DEF Below, Direct
<1>3. Unread \ Unread' \subseteq own
  BY <1>1 DEF Unread
<1>4. ASSUME NEW m \in Direct(root) \ Unread' PROVE Children[m] \cap Nodes \subseteq Direct(root)
  <2>1. m \notin Unread
    BY <1>2, <1>3, <1>4
  <2> QED
    BY <1>4, <2>1, ReachedChildren DEF Direct
<1>5. Reached(root, Nodes, Unread') \subseteq Direct(root)
  <2>1. root \in Nodes => root \in Direct(root)
    BY ReachedStart DEF Direct
  <2> QED
    BY <1>2, <1>4, <2>1, ReachedLeast
<1>6. Reached(v, Nodes, Unread') \subseteq S
  <2>1. S \in SUBSET Nodes
    BY <1>2
  <2>2. v \in Nodes => v \in S
    <3>1. v \in Nodes => v \in Below(v)
      BY ReachedStart DEF Below
    <3> QED
      BY <1>1, <3>1 DEF Shared
  <2>3. ASSUME NEW m \in own, NEW c \in Children[m] \cap Nodes
        PROVE  c \in S
    <3>1. c \in Below(v)
      BY <2>3, ReachedChildren DEF Below
    <3>2. c \in Below(root) => c \in Shared(v)
      BY <2>3 DEF Shared
    <3> QED
      BY <1>1, <3>1, <3>2
  <2>4. \A m \in S \ Unread' : Children[m] \cap Nodes \subseteq S
    BY <1>4, <2>3
  <2> HIDE DEF S
  <2> QED
    BY <2>1, <2>2, <2>4, ReachedLeast
<1>7. Direct(root) \subseteq Found' /\ own \subseteq Found'
  BY <1>1 DEF StoredInv, Found
<1>8. Direct(root)' \subseteq Found'
  BY <1>1, <1>5, <1>7 DEF Direct
<1>9. Direct(new[w])' \subseteq Found'
  BY <1>1, <1>6, <1>7 DEF Direct
<1> QED
  BY <1>1, <1>8, <1>9 DEF StoredInv, OneWriter, Items

LEMMA InstallStored ==
    ASSUME StoredInv, CommitInv', NEW w \in Writers, OneWriter, pc[w] = "built",
           InstallRoot(w)
    PROVE  StoredInv'
<1>1. /\ root' = new[w] /\ pc'[w] = "encode"
      /\ UNCHANGED <<overlay, inner, cell, faults>>
  BY DEF InstallRoot, durable, StoredInv, CommitInv, TypeOK
<1>2. Direct(root)' \subseteq Found'
  BY <1>1 DEF StoredInv, Direct, Found, Unread
<1> QED
  BY <1>1, <1>2 DEF StoredInv, OneWriter, Items

\* The walk that makes the items finds all of the root, and brings it into memory.
LEMMA EncodeStored ==
    ASSUME StoredInv, CommitInv', NEW w \in Writers, OneWriter, Encode(w)
    PROVE  StoredInv'
<1>1. /\ new[w] = root /\ pc'[w] = "put" /\ UNCHANGED <<root, cell, inner, faults>>
      /\ overlay' = overlay \cup Loaded(root)
  BY DEF Encode, durable, StoredInv, CommitInv, TypeOK
<1>2. PICK late \in SUBSET (Loaded(root) \ Found) :
        /\ keep'[w] = Reached(root, Found \cup late, Literal) /\ todo'[w] = keep'[w]
  BY <1>1 DEF Encode, StoredInv, CommitInv, TypeOK
<1>3. Found \in SUBSET Nodes /\ Loaded(root) \in SUBSET Nodes /\ Direct(root) \subseteq Found
  BY FoundType, LoadedType DEF StoredInv, CommitInv
<1>4. Items(root) \subseteq keep'[w]
  <2>1. Items(root) \subseteq Direct(root)
    BY ReachedCut DEF Items, Direct, Unread
  <2>2. Reached(root, Nodes, Literal) \subseteq Reached(root, Found \cup late, Literal)
    BY <1>3, <2>1, ReachedWhole DEF Items
  <2> QED
    BY <1>2, <2>2 DEF Items
<1>5. Below(root) \subseteq overlay'
  BY <1>1, <1>3, LoadedWhole
<1>6. Direct(root)' \subseteq Found'
  BY <1>1, <1>5, InMemory, ReachedBelow DEF Direct, Found
<1>7. Items(root)' = Items(root) /\ Below(root)' = Below(root) /\ Items(cell)' = Items(cell)
  BY <1>1 DEF Items, Below
<1> QED
  BY <1>1, <1>2, <1>4, <1>5, <1>6, <1>7 DEF StoredInv, OneWriter

LEMMA PutCellStored ==
    ASSUME StoredInv, CommitInv', NEW w \in Writers, OneWriter, ~FileCell, PutCell(w)
    PROVE  StoredInv'
<1>1. /\ pc[w] = "put" /\ pc'[w] = "sweep" /\ todo[w] = {} /\ cell' = root
      /\ UNCHANGED <<root, overlay, inner, new, keep, faults>>
  BY DEF PutCell, ItemsArePut, Persisted, memory, StoredInv, CommitInv, TypeOK
<1>2. Direct(root)' \subseteq Found'
  BY <1>1 DEF StoredInv, Direct, Found, Unread
<1>3. Items(root) \subseteq inner
  BY <1>1 DEF StoredInv
<1> QED
  BY <1>1, <1>2, <1>3 DEF StoredInv, OneWriter, Items, Below

LEMMA SweepStored ==
    ASSUME StoredInv, CommitInv', NEW w \in Writers, OneWriter, Sweep(w)
    PROVE  StoredInv'
<1>1. /\ pc[w] = "sweep" /\ pc'[w] = "idle" /\ cell = root
      /\ UNCHANGED <<root, cell, overlay, new, keep, faults>>
      /\ inner' = inner \/ inner' = inner \cap keep[w]
  BY DEF Sweep, memory, StoredInv, CommitInv, TypeOK
<1>2. Direct(root)' \subseteq Found'
  BY <1>1, ReachedBelow DEF StoredInv, Direct, Found
<1>3. Items(cell) \subseteq inner'
  BY <1>1 DEF StoredInv
<1> QED
  BY <1>1, <1>2, <1>3 DEF StoredInv, OneWriter, Items

\* A collection marks everything that the root and the cell, which are the same then,
\* name.
LEMMA MarkStored ==
    ASSUME StoredInv, CommitInv', NEW w \in Writers, OneWriter,
           Collects # "always", Mark(w)
    PROVE  StoredInv'
<1>1. /\ pc[w] = "idle" /\ pc'[w] = "collect" /\ faults = 0
      /\ UNCHANGED <<root, cell, inner, new, faults>>
      /\ keep'[w] = Loaded(root) /\ overlay' = overlay \cup Loaded(root)
  BY DEF Mark, durable, StoredInv, CommitInv, TypeOK
<1>2. Found \in SUBSET Nodes /\ Direct(root) \subseteq Found
  BY FoundType DEF StoredInv, CommitInv
<1>3. Below(root) \subseteq keep'[w] /\ Below(root) \subseteq overlay'
  BY <1>1, <1>2, LoadedWhole
<1>4. Direct(root)' \subseteq Found'
  BY <1>1, <1>3, ReachedBelow DEF Direct, Found
<1> QED
  BY <1>1, <1>2, <1>3, <1>4 DEF StoredInv, OneWriter, Items, Below

LEMMA CollectStored ==
    ASSUME StoredInv, CommitInv', NEW w \in Writers, OneWriter, Collect(w)
    PROVE  StoredInv'
<1>1. /\ pc[w] = "collect" /\ pc'[w] = "idle" /\ cell = root
      /\ UNCHANGED <<root, cell, new, faults>>
      /\ overlay' = overlay \cap keep[w] /\ inner' = inner \cap keep[w]
      /\ Below(root) \subseteq overlay \cap keep[w]
  BY DEF Collect, StoredInv, CommitInv, TypeOK
<1>2. Items(root) \subseteq Below(root)
  BY ReachedBelow DEF Items
<1>3. Direct(root)' \subseteq Found'
  BY <1>1, ReachedBelow DEF Direct, Found
<1>4. Items(cell) \subseteq inner'
  BY <1>1, <1>2 DEF StoredInv
<1> QED
  BY <1>1, <1>3, <1>4 DEF StoredInv, OneWriter, Items

\* After a crash the literals are unread: a walk from the cell meets its items and
\* nothing inside them.
LEMMA CrashStored == ASSUME StoredInv, CommitInv', Crash PROVE StoredInv'
<1>1. /\ root' = cell /\ overlay' = {} /\ UNCHANGED <<cell, inner>>
      /\ \A w \in Writers : pc'[w] = "idle"
  BY DEF Crash, durable
<1>2. Items(cell) \in SUBSET Nodes /\ Items(cell) \subseteq inner
  BY ReachedType DEF Items, StoredInv
<1>3. \A m \in Items(cell) \ Unread' : Children[m] \cap Nodes \subseteq Items(cell)
  BY <1>1, <1>2, ReachedChildren DEF Items, Unread
<1>4. cell \in Nodes => cell \in Items(cell)
  BY ReachedStart DEF Items
<1>5. Reached(cell, Nodes, Unread') \subseteq Items(cell)
  BY <1>2, <1>3, <1>4, ReachedLeast
<1>6. Direct(root)' \subseteq Found'
  BY <1>1, <1>2, <1>5 DEF Direct, Found
<1> QED
  BY <1>1, <1>6 DEF StoredInv, Items

LEMMA NextStored ==
    ASSUME OneWriter, ~FileCell, ~Blind, Collects # "always", StoredInv, [Next]_vars
    PROVE  StoredInv'
<1>1. CommitInv'
  BY NextCommit DEF StoredInv
<1>2. ASSUME NEW w \in Writers, \E v \in MaybeRoot : Build(w, v) PROVE StoredInv'
  BY <1>1, <1>2, BuildStored
<1>3. ASSUME NEW w \in Writers, CasRoot(w) PROVE StoredInv'
  <2>1. CASE InstallRoot(w)
    BY <1>1, <1>3, <2>1, InstallStored DEF CasRoot
  <2>2. CASE root # expected[w]
    BY <1>1, <1>3, <2>2, GrowStored DEF CasRoot, InstallRoot, memory, durable, StoredInv,
       CommitInv, TypeOK
  <2> QED
    BY <1>3, <2>1, <2>2 DEF CasRoot
<1>4. ASSUME NEW w \in Writers, SetRoot(w) PROVE StoredInv'
  BY <1>1, <1>4, InstallStored DEF SetRoot
<1>5. ASSUME NEW w \in Writers, PutItem(w) PROVE StoredInv'
  <2>1. PICK n \in todo[w] : inner' = inner \cup {n} /\ todo' = [todo EXCEPT ![w] = @ \ {n}]
    BY <1>5 DEF PutItem
  <2>2. keep[w] \ todo'[w] \subseteq inner'
    BY <1>5, <2>1 DEF PutItem, StoredInv, CommitInv, TypeOK
  <2>3. /\ UNCHANGED <<root, cell, overlay, new, keep, faults>>
        /\ pc[w] = "put" /\ pc'[w] = "put" /\ inner \subseteq inner' /\ faults \in Nat
    BY <1>5, <2>1, BoundsAssumption DEF PutItem, memory, StoredInv, CommitInv, TypeOK
  <2> QED
    BY <1>1, <1>5, <2>2, <2>3, GrowStored
<1>6. ASSUME NEW w \in Writers, Fail(w) PROVE StoredInv'
  BY <1>1, <1>6, GrowStored, BoundsAssumption
  DEF Fail, memory, durable, StoredInv, CommitInv, TypeOK
<1>7. CASE UNCHANGED vars
  BY <1>1, <1>7 DEF vars, memory, durable, locals, StoredInv, Direct, Found, Unread, Items, Below
<1>8. CASE Crash
  BY <1>1, <1>8, CrashStored
<1>9. ASSUME NEW n \in Nodes, Read(n) PROVE StoredInv'
  BY <1>1, <1>9, ReadStored
<1> QED
  BY <1>1, <1>2, <1>3, <1>4, <1>5, <1>6, <1>7, <1>8, <1>9, EncodeStored, PutCellStored,
     SweepStored, MarkStored, CollectStored
  DEF Next

LEMMA StoredAlways ==
    ASSUME OneWriter, ~FileCell, ~Blind, Collects # "always" PROVE Spec => []StoredInv
<1>1. Init => StoredInv
  BY InitStored
<1>2. StoredInv /\ [Next]_vars => StoredInv'
  BY NextStored
<1> QED
  BY <1>1, <1>2, PTL DEF Spec

\* For any graph of nodes and any choice of literals, the root that a restart would find
\* is whole at every step of a commit or a collection, as long as one thread commits,
\* nothing is collected after a commit that threw, and a successor takes over only nodes
\* that were met since the last restart by following links from the root
\* (persist-chunked!, commit!, s-get).
THEOREM RootAlwaysStored ==
    ASSUME OneWriter, ~FileCell, ~Blind, Collects # "always" PROVE Spec => []RootIsStored
<1>1. Spec => []StoredInv
  BY StoredAlways
<1>2. StoredInv => RootIsStored
  BY DEF StoredInv, RootIsStored
<1> QED
  BY <1>1, <1>2, PTL

\* Under the same conditions whoever follows links from the current root finds every node
\* under its own hash, whatever was read before, although the sweeps of commits and
\* collections delete from memory and from the inner store (s-get, collect-garbage!).
THEOREM RootAlwaysReadable ==
    ASSUME OneWriter, ~FileCell, ~Blind, Collects # "always" PROVE Spec => []RootIsReadable
<1>1. Spec => []StoredInv
  BY StoredAlways
<1>2. StoredInv => RootIsReadable
  BY DEF StoredInv, RootIsReadable
<1> QED
  BY <1>1, <1>2, PTL
=============================================================================
