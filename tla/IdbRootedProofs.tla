---------------------------- MODULE IdbRootedProofs ----------------------------
(* Proofs about IdbRooted: its types, that a drive waits for one request, that *)
(* no swap is applied twice, that what a quiet page shows is durable, and that *)
(* drives that follow one another lose neither swaps nor items.                *)
EXTENDS IdbRooted, SeqFilterProofs, TLAPS

Roots == Seq(Drives)

CasLatches == {<<"cas", R, Append(R, d)>> : R \in Roots, d \in Swaps}
SetLatches == {<<"set", ResetTo[d]>> : d \in Resets}

Mems == [root: Roots, ready: BOOLEAN, cas: {Unset} \cup CasLatches,
         set: {Unset} \cup SetLatches, keep: SUBSET Roots, retained: BOOLEAN,
         swept: {Unset} \cup (Drives \X SUBSET Roots), cache: SUBSET Roots]

Loads == [drive: Drives, kind: {"load"}, store: {"meta"}, root: Roots]
Puts == [drive: Drives, kind: {"put"}, store: {"nodes"}, root: Roots]
Sweeps == [drive: Drives, kind: {"sweep"}, store: {"nodes"}, keep: SUBSET Roots]
SwapWrites == {Write(d, Append(R, d), <<"cas", R, Append(R, d)>>) : R \in Roots, d \in Swaps}
ResetWrites == {Write(d, ResetTo[d], <<"set", ResetTo[d]>>) : d \in Resets}
Requests == Loads \cup Puts \cup Sweeps \cup SwapWrites \cup ResetWrites

TypeInv ==
    /\ mem \in Mems
    /\ disk \in [root: Roots, nodes: SUBSET Roots]
    /\ queue \in Seq(Requests)
    /\ events \in Seq(Requests)
    /\ phase \in [Drives -> {"new", "running", "done", "lost"}]
    /\ overlapped \in BOOLEAN

-----------------------------------------------------------------------------
(* Operators *)

LEMMA RemoveAtParts ==
    ASSUME NEW T, NEW s \in Seq(T), NEW i \in DOMAIN s
    PROVE  /\ RemoveAt(s, i) \in Seq(T)
           /\ DOMAIN s = 1 .. Len(s) /\ Len(s) \in Nat /\ i \in 1 .. Len(s)
           /\ DOMAIN RemoveAt(s, i) = 1 .. (Len(s) - 1)
           /\ \A k \in 1 .. (Len(s) - 1) :
                RemoveAt(s, i)[k] = s[IF k < i THEN k ELSE k + 1]
<1> DEFINE a == SubSeq(s, 1, i - 1)
           b == SubSeq(s, i + 1, Len(s))
           n == Len(s)
<1>1. n \in Nat /\ DOMAIN s = 1 .. n /\ i \in 1 .. n
  OBVIOUS
<1>2. /\ a \in Seq(T) /\ Len(a) = i - 1
      /\ \A k \in 1 .. (i - 1) : a[k] = s[k]
  BY <1>1
<1>3. /\ b \in Seq(T) /\ Len(b) = n - i
      /\ \A k \in 1 .. (n - i) : b[k] = s[i + k]
  BY <1>1
<1> HIDE DEF a, b
<1>4. /\ a \o b \in Seq(T) /\ Len(a \o b) = Len(a) + Len(b)
      /\ \A k \in 1 .. (Len(a) + Len(b)) :
            (a \o b)[k] = IF k <= Len(a) THEN a[k] ELSE b[k - Len(a)]
  BY <1>2, <1>3
<1> DEFINE r == a \o b
<1>5. RemoveAt(s, i) = r
  BY DEF RemoveAt, a, b
<1> HIDE DEF r, n
<1>6. Len(r) = n - 1 /\ r \in Seq(T)
  BY <1>1, <1>2, <1>3, <1>4 DEF r
<1>7. DOMAIN r = 1 .. (n - 1)
  BY <1>6
<1>8. ASSUME NEW k \in 1 .. (n - 1) PROVE r[k] = s[IF k < i THEN k ELSE k + 1]
  <2>1. CASE k < i
    BY <1>1, <1>2, <1>3, <1>4, <2>1 DEF r
  <2>2. CASE ~(k < i)
    <3>1. k - (i - 1) \in 1 .. (n - i) /\ i + (k - (i - 1)) = k + 1
      BY <1>1, <2>2
    <3>2. r[k] = b[k - (i - 1)]
      BY <1>1, <1>2, <1>3, <1>4, <2>2 DEF r
    <3> QED
      BY <1>3, <2>2, <3>1, <3>2
  <2> QED
    BY <2>1, <2>2
<1> QED
  BY <1>1, <1>5, <1>6, <1>7, <1>8 DEF n

LEMMA ConcatOne ==
    ASSUME NEW T, NEW s \in Seq(T), NEW x \in T
    PROVE  s \o <<x>> = Append(s, x)
OBVIOUS

LEMMA ConcatNone ==
    ASSUME NEW T, NEW s \in Seq(T)
    PROVE  s \o <<>> = s
OBVIOUS

LEMMA RequestKinds ==
    ASSUME NEW q \in Requests
    PROVE  /\ q.drive \in Drives
           /\ q.kind \in {"load", "put", "sweep", "write"}
           /\ q.kind = "load" <=> q \in Loads
           /\ q.kind = "put" <=> q \in Puts
           /\ q.kind = "sweep" <=> q \in Sweeps
           /\ q.kind = "write" <=> q \in SwapWrites \cup ResetWrites
           /\ q.store = IF q.kind \in {"load", "write"} THEN "meta" ELSE "nodes"
<1>1. CASE q \in Loads
  BY <1>1 DEF Loads, Puts, Sweeps, SwapWrites, ResetWrites, Write
<1>2. CASE q \in Puts
  BY <1>2 DEF Loads, Puts, Sweeps, SwapWrites, ResetWrites, Write
<1>3. CASE q \in Sweeps
  BY <1>3 DEF Loads, Puts, Sweeps, SwapWrites, ResetWrites, Write
<1>4. CASE q \in SwapWrites \cup ResetWrites
  BY <1>4 DEF Loads, Puts, Sweeps, SwapWrites, ResetWrites, Write, Drives
<1> QED
  BY <1>1, <1>2, <1>3, <1>4 DEF Requests

\* A write by a swap adds the swap to a root; a write by a reset sets its root.
LEMMA WriteKinds ==
    ASSUME NEW q \in SwapWrites \cup ResetWrites
    PROVE  /\ q.drive \in Swaps <=> q \in SwapWrites
           /\ q.drive \in Resets <=> q \in ResetWrites
           /\ q.drive \in Drives /\ q.root \in Roots
           /\ q \in SwapWrites =>
                 /\ q.latch \in CasLatches /\ q.latch[1] = "cas"
                 /\ q.latch[2] \in Roots /\ q.latch[3] = q.root
                 /\ q.root = Append(q.latch[2], q.drive)
           /\ q \in ResetWrites =>
                 /\ q.latch \in SetLatches /\ q.latch[1] = "set"
                 /\ q.latch = <<"set", q.root>> /\ q.root = ResetTo[q.drive]
<1>1. CASE q \in SwapWrites
  <2>1. PICK R \in Roots, d \in Swaps : q = Write(d, Append(R, d), <<"cas", R, Append(R, d)>>)
    BY <1>1 DEF SwapWrites
  <2>2. Append(R, d) \in Roots
    BY DEF Roots, Drives
  <2>3. d \notin Resets
    BY IdbAssumption
  <2>4. /\ q.drive = d /\ q.root = Append(R, d) /\ q.latch = <<"cas", R, Append(R, d)>>
    BY <2>1 DEF Write
  <2>5. q \notin ResetWrites
    BY <2>3, <2>4 DEF ResetWrites, Write
  <2> QED
    BY <1>1, <2>2, <2>3, <2>4, <2>5 DEF CasLatches, Drives
<1>2. CASE q \in ResetWrites
  <2>1. PICK d \in Resets : q = Write(d, ResetTo[d], <<"set", ResetTo[d]>>)
    BY <1>2 DEF ResetWrites
  <2>2. ResetTo[d] \in Roots /\ d \notin Swaps
    BY IdbAssumption DEF Roots
  <2>3. /\ q.drive = d /\ q.root = ResetTo[d] /\ q.latch = <<"set", ResetTo[d]>>
    BY <2>1 DEF Write
  <2>4. q \notin SwapWrites
    BY <2>2, <2>3 DEF SwapWrites, Write
  <2> QED
    BY <1>2, <2>2, <2>3, <2>4 DEF SetLatches, Drives
<1> QED
  BY <1>1, <1>2

Writes == SwapWrites \cup ResetWrites

LEMMA KindsApart ==
    ASSUME NEW q \in Requests
    PROVE  /\ q \in Loads => q \notin Puts \cup Sweeps \cup Writes /\ q.store = "meta"
           /\ q \in Puts => q \notin Loads \cup Sweeps \cup Writes
           /\ q \in Sweeps => q \notin Loads \cup Puts \cup Writes
           /\ q \in Writes => q \notin Loads \cup Puts \cup Sweeps /\ q.store = "meta"
           /\ q \in SwapWrites => q \notin ResetWrites
           /\ q \in Loads \cup Puts \cup Sweeps \cup Writes
<1>1. q \in SwapWrites => q \notin ResetWrites
  BY WriteKinds, IdbAssumption
<1>2. \/ q \in Loads /\ q.kind = "load"
      \/ q \in Puts /\ q.kind = "put"
      \/ q \in Sweeps /\ q.kind = "sweep"
      \/ q \in Writes /\ q.kind = "write"
  BY RequestKinds DEF Requests, Writes
<1>3. /\ q.kind # "load" => q \notin Loads
      /\ q.kind # "put" => q \notin Puts
      /\ q.kind # "sweep" => q \notin Sweeps
      /\ q.kind # "write" => q \notin Writes
      /\ q.store = IF q.kind \in {"load", "write"} THEN "meta" ELSE "nodes"
  BY RequestKinds DEF Writes
<1>4. CASE q.kind = "load"
  BY <1>1, <1>2, <1>3, <1>4
<1>5. CASE q.kind = "put"
  BY <1>1, <1>2, <1>3, <1>5
<1>6. CASE q.kind = "sweep"
  BY <1>1, <1>2, <1>3, <1>6
<1>7. CASE q.kind = "write"
  BY <1>1, <1>2, <1>3, <1>7
<1> QED
  BY <1>2, <1>4, <1>5, <1>6, <1>7

-----------------------------------------------------------------------------
(* What one run of a drive does *)

\* The root a drive makes, and the latch that tells it that the root is durable.
New(d, m) == IF d \in Swaps THEN Append(m.root, d) ELSE ResetTo[d]
Latch(d, m) == IF d \in Swaps THEN <<"cas", m.root, New(d, m)>> ELSE <<"set", New(d, m)>>
Latched(d, m) == IF d \in Swaps THEN m.cas = Latch(d, m)
                 ELSE m.root = New(d, m) \/ m.set = Latch(d, m)

\* The run ends in a request.
Asks(d, q) == queue' = Append(queue, q) /\ phase' = [phase EXCEPT ![d] = "running"]

\* The run ends the drive.
Settles(d) == queue' = queue /\ phase' = [phase EXCEPT ![d] = "done"]

AsksLoad(d, m) == ~m.ready /\ Asks(d, Load(d)) /\ mem' = m

AsksPut(d, m) ==
    /\ m.ready /\ ~Latched(d, m) /\ New(d, m) # NoRoot
    /\ Asks(d, Put(d, New(d, m))) /\ mem' = m

AsksWrite(d, m) ==
    /\ m.ready /\ ~Latched(d, m) /\ (New(d, m) = NoRoot \/ New(d, m) \in m.cache)
    /\ Asks(d, Write(d, New(d, m), Latch(d, m)))
    /\ mem' = [m EXCEPT !.keep = IF New(d, m) = NoRoot THEN @ ELSE {New(d, m)},
                        !.retained = @ /\ Latch(d, m)[1] = "set"]

AsksSweep(d, m) ==
    /\ m.ready /\ d \in Swaps /\ Latched(d, m)
    /\ Asks(d, Sweep(d, m.keep))
    /\ mem' = [m EXCEPT !.cache = @ \cap m.keep]

EndsSwap(d, m) ==
    /\ m.ready /\ d \in Swaps /\ Latched(d, m) /\ Settles(d)
    /\ mem' = [m EXCEPT !.retained = TRUE, !.root = New(d, m)]

EndsReset(d, m) ==
    /\ m.ready /\ d \in Resets /\ Latched(d, m) /\ Settles(d)
    /\ \/ m.root = New(d, m) /\ mem' = m
       \/ m.set = Latch(d, m) /\ mem' = [m EXCEPT !.root = New(d, m)]

RunStep(d, m) == \/ AsksLoad(d, m) \/ AsksPut(d, m) \/ AsksWrite(d, m)
                 \/ AsksSweep(d, m) \/ EndsSwap(d, m) \/ EndsReset(d, m)

LEMMA NewType ==
    ASSUME NEW d \in Drives, NEW m \in Mems
    PROVE  /\ New(d, m) \in Roots
           /\ d \in Swaps => Latch(d, m) \in CasLatches
           /\ d \notin Swaps => d \in Resets /\ Latch(d, m) \in SetLatches
           /\ Load(d) \in Requests /\ Put(d, New(d, m)) \in Requests
           /\ Write(d, New(d, m), Latch(d, m)) \in Requests
           /\ Sweep(d, m.keep) \in Requests
<1>1. m.root \in Roots /\ m.keep \in SUBSET Roots
  BY DEF Mems
<1>2. New(d, m) \in Roots
  BY <1>1, IdbAssumption DEF New, Roots, Drives
<1>3. Load(d) \in Loads /\ Put(d, New(d, m)) \in Puts /\ Sweep(d, m.keep) \in Sweeps
  <2>1. NoRoot \in Roots
    BY DEF NoRoot, Roots
  <2> QED
    BY <1>1, <1>2, <2>1 DEF Loads, Puts, Sweeps, Load, Put, Sweep
<1>4. CASE d \in Swaps
  <2>1. /\ New(d, m) = Append(m.root, d)
        /\ Latch(d, m) = <<"cas", m.root, Append(m.root, d)>>
    BY <1>4 DEF New, Latch
  <2>2. Latch(d, m) \in CasLatches /\ Write(d, New(d, m), Latch(d, m)) \in SwapWrites
    <3>1. Latch(d, m) \in CasLatches
      BY <1>1, <1>4, <2>1 DEF CasLatches
    <3> DEFINE R == m.root
    <3>2. Write(d, New(d, m), Latch(d, m)) = Write(d, Append(R, d), <<"cas", R, Append(R, d)>>)
      BY <2>1
    <3> HIDE DEF R
    <3>3. R \in Roots
      BY <1>1 DEF R
    <3>4. Write(d, Append(R, d), <<"cas", R, Append(R, d)>>) \in SwapWrites
      BY <1>4, <3>3 DEF SwapWrites
    <3> QED
      BY <3>1, <3>2, <3>4
  <2> QED
    BY <1>2, <1>3, <1>4, <2>2 DEF Requests
<1>5. CASE d \notin Swaps
  <2>1. /\ New(d, m) = ResetTo[d] /\ Latch(d, m) = <<"set", ResetTo[d]>> /\ d \in Resets
    BY <1>5 DEF New, Latch, Drives
  <2>2. Latch(d, m) \in SetLatches /\ Write(d, New(d, m), Latch(d, m)) \in ResetWrites
    BY <2>1 DEF SetLatches, ResetWrites
  <2> QED
    BY <1>2, <1>3, <1>5, <2>1, <2>2 DEF Requests
<1> QED
  BY <1>4, <1>5

LEMMA RunCases ==
    ASSUME NEW d \in Drives, NEW m \in Mems, queue \in Seq(Requests), RunFrom(d, m)
    PROVE  RunStep(d, m)
<1> DEFINE o == Run(d, m)
<1>0. /\ mem' = o.mem /\ queue' = queue \o o.asks
      /\ phase' = [phase EXCEPT ![d] = IF o.done THEN "done" ELSE "running"]
  BY DEF RunFrom
<1>1. ASSUME NEW n, NEW q \in Requests, o = Waits(n, q)
      PROVE  mem' = n /\ Asks(d, q)
  <2>1. o.mem = n /\ o.asks = <<q>> /\ o.done = FALSE
    BY <1>1 DEF Waits
  <2> HIDE DEF o
  <2>2. queue \o <<q>> = Append(queue, q)
    BY ConcatOne
  <2> QED
    BY <1>0, <2>1, <2>2 DEF Asks
<1>2. ASSUME NEW n, o = Ends(n)
      PROVE  mem' = n /\ Settles(d)
  <2>1. o.mem = n /\ o.asks = <<>> /\ o.done = TRUE
    BY <1>2 DEF Ends
  <2> HIDE DEF o
  <2>2. queue \o <<>> = queue
    BY ConcatNone
  <2> QED
    BY <1>0, <2>1, <2>2 DEF Settles
<1>3. CASE ~m.ready
  <2>1. o = Waits(m, Load(d))
    BY <1>3 DEF Run
  <2> QED
    BY <1>1, <1>3, <2>1, NewType DEF AsksLoad, RunStep
<1>4. ASSUME m.ready, ~Latched(d, m), o = PutThenWrite(d, m, New(d, m), Latch(d, m))
      PROVE  RunStep(d, m)
  <2>1. CASE New(d, m) # NoRoot /\ New(d, m) \notin m.cache
    <3>1. o = Waits(m, Put(d, New(d, m)))
      BY <1>4, <2>1 DEF PutThenWrite
    <3> QED
      BY <1>1, <1>4, <2>1, <3>1, NewType DEF AsksPut, RunStep
  <2>2. CASE New(d, m) = NoRoot \/ New(d, m) \in m.cache
    <3> DEFINE n == [m EXCEPT !.keep = IF New(d, m) = NoRoot THEN @ ELSE {New(d, m)},
                              !.retained = @ /\ Latch(d, m)[1] = "set"]
    <3>1. o = Waits(n, Write(d, New(d, m), Latch(d, m)))
      BY <1>4, <2>2 DEF PutThenWrite
    <3> QED
      BY <1>1, <1>4, <2>2, <3>1, NewType DEF AsksWrite, RunStep
  <2> QED
    BY <2>1, <2>2
<1>5. CASE m.ready /\ d \in Swaps
  <2>1. o = IF Latched(d, m) THEN Publish(d, m, New(d, m))
            ELSE PutThenWrite(d, m, New(d, m), Latch(d, m))
    BY <1>5 DEF Run, RunSwap, Latched, Latch, New
  <2>2. CASE Latched(d, m) /\ o = Waits([m EXCEPT !.cache = @ \cap m.keep], Sweep(d, m.keep))
    BY <1>1, <1>5, <2>2, NewType DEF AsksSweep, RunStep
  <2>3. CASE Latched(d, m) /\ o = Ends([m EXCEPT !.retained = TRUE, !.root = New(d, m)])
    BY <1>2, <1>5, <2>3 DEF EndsSwap, RunStep
  <2> QED
    BY <1>4, <1>5, <2>1, <2>2, <2>3 DEF Publish
<1>6. CASE m.ready /\ d \notin Swaps
  <2>0. d \in Resets
    BY <1>6 DEF Drives
  <2>1. o = IF m.root = New(d, m) THEN Ends(m)
            ELSE IF m.set = Latch(d, m) THEN Ends([m EXCEPT !.root = New(d, m)])
            ELSE PutThenWrite(d, m, New(d, m), Latch(d, m))
    BY <1>6 DEF Run, RunReset, Latched, Latch, New
  <2>2. CASE Latched(d, m)
    BY <1>2, <1>6, <2>0, <2>1, <2>2 DEF EndsReset, RunStep, Latched
  <2> QED
    BY <1>4, <1>6, <2>1, <2>2 DEF Latched
<1> QED
  BY <1>3, <1>5, <1>6

\* What the callback of each kind of request changes.
LEMMA NotedCases ==
    ASSUME NEW m \in Mems, NEW q \in Requests
    PROVE  /\ Noted(m, q) \in Mems
           /\ q \in Loads => Noted(m, q) = [m EXCEPT !.root = q.root, !.ready = TRUE]
           /\ q \in Puts => Noted(m, q) = [m EXCEPT !.cache = @ \cup {q.root}]
           /\ q \in Sweeps => Noted(m, q) = [m EXCEPT !.swept = <<q.drive, q.keep>>]
           /\ q \in SwapWrites => Noted(m, q) = [m EXCEPT !.cas = q.latch]
           /\ q \in ResetWrites => Noted(m, q) = [m EXCEPT !.set = q.latch]
<1>0. "load" # "put" /\ "load" # "sweep" /\ "load" # "write" /\ "put" # "sweep"
      /\ "put" # "write" /\ "sweep" # "write" /\ "cas" # "set"
  OBVIOUS
<1>1. CASE q \in Loads
  <2>1. q.kind = "load" /\ q.root \in Roots
    BY <1>1 DEF Loads
  <2>2. Noted(m, q) = [m EXCEPT !.root = q.root, !.ready = TRUE]
    BY <2>1 DEF Noted
  <2> QED
    <3>1. q \notin Puts /\ q \notin Sweeps /\ q \notin SwapWrites /\ q \notin ResetWrites
      BY <2>1, RequestKinds
    <3>2. [m EXCEPT !.root = q.root, !.ready = TRUE] \in Mems
      BY <2>1 DEF Mems
    <3> QED
      BY <2>2, <3>1, <3>2
<1>2. CASE q \in Puts
  <2>1. q.kind = "put" /\ q.root \in Roots
    BY <1>2 DEF Puts
  <2>2. Noted(m, q) = [m EXCEPT !.cache = @ \cup {q.root}]
    BY <2>1 DEF Noted
  <2> QED
    BY <1>2, <2>1, <2>2 DEF Mems, Loads, Puts, Sweeps, SwapWrites, ResetWrites, Write
<1>3. CASE q \in Sweeps
  <2>1. q.kind = "sweep" /\ q.drive \in Drives /\ q.keep \in SUBSET Roots
    BY <1>3 DEF Sweeps
  <2>2. Noted(m, q) = [m EXCEPT !.swept = <<q.drive, q.keep>>]
    BY <2>1 DEF Noted
  <2> QED
    BY <1>3, <2>1, <2>2 DEF Mems, Loads, Puts, Sweeps, SwapWrites, ResetWrites, Write
<1>4. CASE q \in SwapWrites
  <2>1. q.kind = "write" /\ q.latch[1] = "cas" /\ q.latch \in CasLatches /\ q \notin ResetWrites
    BY <1>4, WriteKinds, RequestKinds, IdbAssumption
  <2>2. Noted(m, q) = [m EXCEPT !.cas = q.latch]
    BY <2>1 DEF Noted
  <2> QED
    BY <1>4, <2>1, <2>2 DEF Mems, Loads, Puts, Sweeps
<1>5. CASE q \in ResetWrites
  <2>1. q.kind = "write" /\ q.latch[1] = "set" /\ q.latch \in SetLatches /\ q \notin SwapWrites
    BY <1>5, WriteKinds, RequestKinds, IdbAssumption
  <2>2. Noted(m, q) = [m EXCEPT !.set = q.latch]
    BY <2>1 DEF Noted
  <2> QED
    BY <1>5, <2>1, <2>2 DEF Mems, Loads, Puts, Sweeps
<1> QED
  BY <1>1, <1>2, <1>3, <1>4, <1>5 DEF Requests

\* The same, field by field.
LEMMA NotedFields ==
    ASSUME NEW m \in Mems, NEW q \in Requests, NEW n, n = Noted(m, q)
    PROVE  /\ n \in Mems /\ n.keep = m.keep /\ n.retained = m.retained
           /\ q \in Loads => /\ n.root = q.root /\ n.ready = TRUE /\ n.cas = m.cas
                             /\ n.set = m.set /\ n.cache = m.cache
           /\ q \in Puts => /\ n.root = m.root /\ n.ready = m.ready /\ n.cas = m.cas
                            /\ n.set = m.set /\ n.cache = m.cache \cup {q.root}
           /\ q \in Sweeps => /\ n.root = m.root /\ n.ready = m.ready /\ n.cas = m.cas
                              /\ n.set = m.set /\ n.cache = m.cache
           /\ q \in SwapWrites => /\ n.root = m.root /\ n.ready = m.ready /\ n.cas = q.latch
                                  /\ n.set = m.set /\ n.cache = m.cache
           /\ q \in ResetWrites => /\ n.root = m.root /\ n.ready = m.ready /\ n.cas = m.cas
                                   /\ n.set = q.latch /\ n.cache = m.cache
<1>1. n \in Mems
  BY NotedCases
<1>2. CASE q \in Loads /\ n = [m EXCEPT !.root = q.root, !.ready = TRUE]
  <2>1. /\ q \in Loads /\ q \notin Puts /\ q \notin Sweeps
        /\ q \notin SwapWrites /\ q \notin ResetWrites
    BY <1>2, KindsApart DEF Writes
  <2> QED
    BY <1>1, <1>2, <2>1 DEF Mems
<1>3. CASE q \in Puts /\ n = [m EXCEPT !.cache = @ \cup {q.root}]
  <2>1. /\ q \notin Loads /\ q \in Puts /\ q \notin Sweeps
        /\ q \notin SwapWrites /\ q \notin ResetWrites
    BY <1>3, KindsApart DEF Writes
  <2> QED
    BY <1>1, <1>3, <2>1 DEF Mems
<1>4. CASE q \in Sweeps /\ n = [m EXCEPT !.swept = <<q.drive, q.keep>>]
  <2>1. /\ q \notin Loads /\ q \notin Puts /\ q \in Sweeps
        /\ q \notin SwapWrites /\ q \notin ResetWrites
    BY <1>4, KindsApart DEF Writes
  <2> QED
    BY <1>1, <1>4, <2>1 DEF Mems
<1>5. CASE q \in SwapWrites /\ n = [m EXCEPT !.cas = q.latch]
  <2>1. q \notin Loads /\ q \notin Puts /\ q \notin Sweeps
    BY <1>5 DEF Loads, Puts, Sweeps, SwapWrites, Write
  <2>2. q \notin ResetWrites
    BY <1>5, WriteKinds, IdbAssumption
  <2> QED
    BY <1>1, <1>5, <2>1, <2>2 DEF Mems
<1>6. CASE q \in ResetWrites /\ n = [m EXCEPT !.set = q.latch]
  <2>1. q \notin Loads /\ q \notin Puts /\ q \notin Sweeps
    BY <1>6 DEF Loads, Puts, Sweeps, ResetWrites, Write
  <2>2. q \notin SwapWrites
    BY <1>6, WriteKinds, IdbAssumption
  <2> QED
    BY <1>1, <1>6, <2>1, <2>2 DEF Mems
<1> QED
  BY <1>2, <1>3, <1>4, <1>5, <1>6, NotedCases DEF Requests

\* Only a load changes the root that the page shows, or makes it ready.
LEMMA NotedRoot ==
    ASSUME NEW m \in Mems, NEW q \in Requests, NEW n, n = Noted(m, q)
    PROVE  /\ q \in Loads => n.root = q.root /\ n.ready = TRUE
           /\ q \notin Loads => n.root = m.root /\ n.ready = m.ready
<1>1. q \in Loads => n.root = q.root /\ n.ready = TRUE
  BY NotedFields
<1>2. q \in Puts => n.root = m.root /\ n.ready = m.ready
  BY NotedFields
<1>3. q \in Sweeps => n.root = m.root /\ n.ready = m.ready
  BY NotedFields
<1>4. q \in SwapWrites => n.root = m.root /\ n.ready = m.ready
  BY NotedFields
<1>5. q \in ResetWrites => n.root = m.root /\ n.ready = m.ready
  BY NotedFields
<1> QED
  BY <1>1, <1>2, <1>3, <1>4, <1>5 DEF Requests

\* Only the write of a swap changes its latch, and only a put the read cache.
LEMMA NotedCache ==
    ASSUME NEW m \in Mems, NEW q \in Requests, NEW n, n = Noted(m, q)
    PROVE  /\ n.cas = IF q \in SwapWrites THEN q.latch ELSE m.cas
           /\ n.cache = IF q \in Puts THEN m.cache \cup {q.root} ELSE m.cache
           /\ n.root = IF q \in Loads THEN q.root ELSE m.root
<1>1. q \in Loads => n.cas = m.cas /\ n.cache = m.cache
  BY NotedFields
<1>2. q \in Puts => n.cas = m.cas /\ n.cache = m.cache \cup {q.root}
  <2>1. q \in Puts => n = [m EXCEPT !.cache = @ \cup {q.root}]
    BY NotedCases
  <2> QED
    BY <2>1 DEF Mems
<1>3. q \in Sweeps => n.cas = m.cas /\ n.cache = m.cache
  BY NotedFields
<1>4. q \in SwapWrites => n.cas = q.latch /\ n.cache = m.cache
  <2>1. q \in SwapWrites => n = [m EXCEPT !.cas = q.latch]
    BY NotedCases
  <2> QED
    BY <2>1 DEF Mems
<1>5. q \in ResetWrites => n.cas = m.cas /\ n.cache = m.cache
  BY NotedFields
<1>6. /\ q \in SwapWrites => q \notin Puts
      /\ q \in Puts \cup Loads \cup Sweeps \cup ResetWrites => q \notin SwapWrites
      /\ q \in Loads \cup Sweeps \cup ResetWrites => q \notin Puts
  BY KindsApart DEF Writes
<1>7. q \in Loads \cup Puts \cup Sweeps \cup SwapWrites \cup ResetWrites
  BY DEF Requests
<1>8. n.root = IF q \in Loads THEN q.root ELSE m.root
  BY NotedRoot
<1> QED
  BY <1>1, <1>2, <1>3, <1>4, <1>5, <1>6, <1>7, <1>8

-----------------------------------------------------------------------------
(* Types, and one request per drive *)

\* What a drive waits for is one request, in the queue or among the events, and a
\* drive that waits is running.
Awaits(q, e, p) ==
    /\ \A i \in DOMAIN q : p[q[i].drive] = "running"
    /\ \A i \in DOMAIN e : p[e[i].drive] = "running"
    /\ \A i, j \in DOMAIN q : q[i].drive = q[j].drive => i = j
    /\ \A i, j \in DOMAIN e : e[i].drive = e[j].drive => i = j
    /\ \A i \in DOMAIN q, j \in DOMAIN e : q[i].drive # e[j].drive

OneRequest == Awaits(queue, events, phase)

BaseInv == TypeInv /\ OneRequest

\* A drive runs from its start, in the memory m, with the events e still to come: it
\* is new, or what it waited for has come.
Runs(d, m, e) ==
    /\ d \in Drives /\ m \in Mems /\ e \in Seq(Requests)
    /\ phase[d] \in {"new", "running"}
    /\ Awaits(queue, e, phase)
    /\ \A i \in DOMAIN queue : queue[i].drive # d
    /\ \A i \in DOMAIN e : e[i].drive # d
    /\ RunStep(d, m)
    /\ events' = e
    /\ UNCHANGED disk

LEMMA RunsShape ==
    ASSUME NEW d, NEW m, NEW e, Runs(d, m, e)
    PROVE  \/ Settles(d)
           \/ \E q \in Requests : q.drive = d /\ Asks(d, q)
<1>1. d \in Drives /\ m \in Mems /\ RunStep(d, m)
  BY DEF Runs
<1>2. /\ Load(d).drive = d /\ Put(d, New(d, m)).drive = d /\ Sweep(d, m.keep).drive = d
      /\ Write(d, New(d, m), Latch(d, m)).drive = d
  BY DEF Load, Put, Sweep, Write
<1> QED
  BY <1>1, <1>2, NewType
     DEF RunStep, AsksLoad, AsksPut, AsksWrite, AsksSweep, EndsSwap, EndsReset

LEMMA RunsBase ==
    ASSUME TypeInv, NEW d, NEW m, NEW e, Runs(d, m, e), overlapped' \in BOOLEAN
    PROVE  BaseInv'
<1>1. d \in Drives /\ m \in Mems /\ RunStep(d, m) /\ e \in Seq(Requests)
  BY DEF Runs
<1>2. mem' \in Mems
  <2>1. CASE AsksLoad(d, m) \/ AsksPut(d, m)
    BY <1>1, <2>1 DEF AsksLoad, AsksPut
  <2>2. CASE AsksWrite(d, m)
    <3>1. (m.retained /\ Latch(d, m)[1] = "set") \in BOOLEAN
      OBVIOUS
    <3>2. (IF New(d, m) = NoRoot THEN m.keep ELSE {New(d, m)}) \in SUBSET Roots
      BY <1>1, NewType DEF Mems
    <3> QED
      BY <1>1, <2>2, <3>1, <3>2 DEF AsksWrite, Mems
  <2>3. CASE AsksSweep(d, m)
    BY <1>1, <2>3 DEF AsksSweep, Mems
  <2>4. CASE EndsSwap(d, m) \/ EndsReset(d, m)
    <3> DEFINE n == New(d, m)
    <3>1. n \in Roots
      BY <1>1, NewType
    <3>2. \/ mem' = m \/ mem' = [m EXCEPT !.root = n]
          \/ mem' = [m EXCEPT !.retained = TRUE, !.root = n]
      BY <2>4 DEF EndsSwap, EndsReset
    <3> HIDE DEF n
    <3> QED
      BY <1>1, <3>1, <3>2 DEF Mems
  <2> QED
    BY <1>1, <2>1, <2>2, <2>3, <2>4 DEF RunStep
<1>3. CASE Settles(d)
  <2>1. phase' \in [Drives -> {"new", "running", "done", "lost"}]
    BY <1>1, <1>3 DEF Settles, TypeInv
  <2>2. TypeInv'
    BY <1>1, <1>2, <1>3, <2>1 DEF TypeInv, Settles, Runs
  <2>3. \A f \in Drives : f # d => phase'[f] = phase[f]
    BY <1>3 DEF Settles, TypeInv
  <2>4. /\ \A i \in DOMAIN queue : queue[i].drive \in Drives
        /\ \A i \in DOMAIN e : e[i].drive \in Drives
    BY <1>1, RequestKinds DEF TypeInv
  <2>5. Awaits(queue, e, phase')
    BY <2>3, <2>4 DEF Runs, Awaits
  <2> QED
    BY <1>3, <2>2, <2>5 DEF BaseInv, OneRequest, Settles, Runs
<1>4. ASSUME NEW q \in Requests, q.drive = d, Asks(d, q) PROVE BaseInv'
  <2>1. phase' \in [Drives -> {"new", "running", "done", "lost"}]
    BY <1>1, <1>4 DEF Asks, TypeInv
  <2>2. TypeInv'
    BY <1>1, <1>2, <1>4, <2>1 DEF TypeInv, Asks, Runs
  <2>3. phase'[d] = "running" /\ \A f \in Drives : f # d => phase'[f] = phase[f]
    BY <1>1, <1>4 DEF Asks, TypeInv
  <2>4. /\ \A i \in DOMAIN queue : queue[i].drive \in Drives
        /\ \A i \in DOMAIN e : e[i].drive \in Drives
    BY <1>1, RequestKinds DEF TypeInv
  <2> DEFINE r == Append(queue, q)
  <2>5. /\ Len(queue) \in Nat /\ DOMAIN queue = 1 .. Len(queue)
        /\ DOMAIN r = 1 .. (Len(queue) + 1)
        /\ \A i \in 1 .. Len(queue) : r[i] = queue[i]
        /\ r[Len(queue) + 1] = q
    BY AppendParts DEF TypeInv
  <2> HIDE DEF r
  <2>6. \A i \in DOMAIN r : r[i].drive = d \/ (i \in DOMAIN queue /\ r[i] = queue[i])
    BY <1>4, <2>5
  <2>7. \A i \in DOMAIN r : phase'[r[i].drive] = "running"
    BY <2>3, <2>4, <2>6 DEF Runs, Awaits
  <2>8. \A i \in DOMAIN e : phase'[e[i].drive] = "running"
    BY <2>3, <2>4 DEF Runs, Awaits
  <2>9. \A i, j \in DOMAIN r : r[i].drive = r[j].drive => i = j
    <3>1. \A i \in 1 .. Len(queue) : r[i].drive # d
      BY <2>5 DEF Runs
    <3>2. \A i, j \in 1 .. Len(queue) : r[i].drive = r[j].drive => i = j
      BY <2>5 DEF Runs, Awaits
    <3> QED
      BY <1>4, <2>5, <3>1, <3>2
  <2>10. \A i \in DOMAIN r, j \in DOMAIN e : r[i].drive # e[j].drive
    BY <2>6 DEF Runs, Awaits
  <2>11. Awaits(r, e, phase')
    BY <2>7, <2>8, <2>9, <2>10 DEF Runs, Awaits
  <2>12. queue' = r /\ events' = e
    BY <1>4 DEF Asks, r, Runs
  <2> QED
    BY <2>2, <2>11, <2>12 DEF BaseInv, OneRequest
<1> QED
  BY <1>3, <1>4, RunsShape

\* The drive whose callback is the next waits for nothing else.
LEMMA TailAwaits ==
    ASSUME TypeInv, OneRequest, events # <<>>
    PROVE  /\ Head(events) \in Requests /\ Tail(events) \in Seq(Requests)
           /\ Head(events) = events[1] /\ 1 \in DOMAIN events
           /\ \A i \in DOMAIN Tail(events) : /\ i + 1 \in DOMAIN events /\ i + 1 # 1
                                             /\ Tail(events)[i] = events[i + 1]
           /\ phase[Head(events).drive] = "running"
           /\ Awaits(queue, Tail(events), phase)
           /\ \A i \in DOMAIN queue : queue[i].drive # Head(events).drive
           /\ \A i \in DOMAIN Tail(events) : Tail(events)[i].drive # Head(events).drive
<1> DEFINE h == Head(events)
           t == Tail(events)
           n == Len(events)
<1>1. /\ h \in Requests /\ h = events[1] /\ t \in Seq(Requests)
      /\ n \in Nat \ {0} /\ DOMAIN events = 1 .. n /\ DOMAIN t = 1 .. (n - 1)
      /\ \A i \in 1 .. (n - 1) : t[i] = events[i + 1]
  BY TailParts DEF TypeInv
<1> HIDE DEF h, t, n
<1>2. 1 \in DOMAIN events
  BY <1>1
<1>3. \A i \in DOMAIN t : i + 1 \in DOMAIN events /\ i + 1 # 1 /\ t[i] = events[i + 1]
  BY <1>1
<1>4. phase[h.drive] = "running"
  BY <1>1, <1>2 DEF OneRequest, Awaits
<1>5. Awaits(queue, t, phase)
  <2>1. \A i, j \in DOMAIN t : t[i].drive = t[j].drive => i = j
    <3> SUFFICES ASSUME NEW i \in DOMAIN t, NEW j \in DOMAIN t, t[i].drive = t[j].drive
                 PROVE  i = j
      OBVIOUS
    <3>1. i + 1 = j + 1
      BY <1>3 DEF OneRequest, Awaits
    <3> QED
      BY <1>1, <3>1
  <2> QED
    BY <1>3, <2>1 DEF OneRequest, Awaits
<1>6. \A i \in DOMAIN queue : queue[i].drive # h.drive
  BY <1>1, <1>2 DEF OneRequest, Awaits
<1>7. \A i \in DOMAIN t : t[i].drive # h.drive
  BY <1>1, <1>2, <1>3 DEF OneRequest, Awaits
<1> QED
  BY <1>1, <1>2, <1>3, <1>4, <1>5, <1>6, <1>7 DEF h, t

\* A callback runs its drive, in the memory that it has noted.
LEMMA CallbackRuns ==
    ASSUME TypeInv, OneRequest, Callback
    PROVE  /\ events # <<>> /\ Head(events) \in Requests
           /\ Runs(Head(events).drive, Noted(mem, Head(events)), Tail(events))
<1> DEFINE h == Head(events)
<1>1. events # <<>>
  BY DEF Callback
<1>2. h \in Requests /\ h.drive \in Drives /\ Noted(mem, h) \in Mems
  BY <1>1, TailAwaits, RequestKinds, NotedCases DEF TypeInv
<1>3. /\ RunFrom(h.drive, Noted(mem, h)) /\ events' = Tail(events) /\ UNCHANGED disk
  BY DEF Callback
<1>4. RunStep(h.drive, Noted(mem, h))
  BY <1>2, <1>3, RunCases DEF TypeInv
<1> QED
  BY <1>1, <1>2, <1>3, <1>4, TailAwaits DEF Runs

LEMMA StartRuns ==
    ASSUME TypeInv, OneRequest, NEW d \in Drives, Start(d)
    PROVE  phase[d] = "new" /\ Runs(d, mem, events)
<1>1. phase[d] = "new" /\ mem \in Mems /\ RunFrom(d, mem) /\ UNCHANGED <<disk, events>>
  BY DEF Start, TypeInv
<1>2. RunStep(d, mem)
  BY <1>1, RunCases DEF TypeInv
<1>3. /\ \A i \in DOMAIN queue : queue[i].drive # d
      /\ \A i \in DOMAIN events : events[i].drive # d
  BY <1>1 DEF OneRequest, Awaits
<1> QED
  BY <1>1, <1>2, <1>3 DEF Runs, OneRequest, TypeInv

\* What the database does with a request, and the event that tells of it.
LEMMA CommitParts ==
    ASSUME TypeInv, NEW i \in DOMAIN queue, Commit(i)
    PROVE  /\ queue[i] \in Requests /\ queue' \in Seq(Requests) /\ i \in 1 .. Len(queue)
           /\ Len(queue) \in Nat /\ DOMAIN queue = 1 .. Len(queue)
           /\ DOMAIN queue' = 1 .. (Len(queue) - 1)
           /\ \A k \in 1 .. (Len(queue) - 1) : queue'[k] = queue[IF k < i THEN k ELSE k + 1]
           /\ queue[i] \in Loads => disk' = disk
           /\ queue[i] \in Puts => disk' = [disk EXCEPT !.nodes = @ \cup {queue[i].root}]
           /\ queue[i] \in Sweeps => disk' = [disk EXCEPT !.nodes = @ \cap queue[i].keep]
           /\ queue[i] \in SwapWrites \cup ResetWrites =>
                 disk' = [disk EXCEPT !.root = queue[i].root]
           /\ \E e \in Requests :
                 /\ events' = Append(events, e) /\ e.drive = queue[i].drive
                 /\ queue[i] \in Loads => e \in Loads /\ e.root = disk.root
                 /\ queue[i] \notin Loads => e = queue[i]
           /\ UNCHANGED <<mem, phase, reloads, overlapped>>
<1> DEFINE q == queue[i]
<1>1. q \in Requests
  BY DEF TypeInv
<1>2. /\ RemoveAt(queue, i) \in Seq(Requests)
      /\ DOMAIN queue = 1 .. Len(queue) /\ Len(queue) \in Nat /\ i \in 1 .. Len(queue)
      /\ DOMAIN RemoveAt(queue, i) = 1 .. (Len(queue) - 1)
      /\ \A k \in 1 .. (Len(queue) - 1) :
            RemoveAt(queue, i)[k] = queue[IF k < i THEN k ELSE k + 1]
  BY RemoveAtParts DEF TypeInv
<1>3. queue' = RemoveAt(queue, i) /\ UNCHANGED <<mem, phase, reloads, overlapped>>
  BY DEF Commit
<1>4. /\ queue' \in Seq(Requests) /\ DOMAIN queue' = 1 .. (Len(queue) - 1)
      /\ \A k \in 1 .. (Len(queue) - 1) : queue'[k] = queue[IF k < i THEN k ELSE k + 1]
  BY <1>2, <1>3
<1>5. /\ q.kind = "load" => disk' = disk
      /\ q.kind = "put" => disk' = [disk EXCEPT !.nodes = @ \cup {q.root}]
      /\ q.kind = "sweep" => disk' = [disk EXCEPT !.nodes = @ \cap q.keep]
      /\ q.kind = "write" => disk' = [disk EXCEPT !.root = q.root]
  <2>0. disk' = CASE q.kind = "load"  -> disk
                  [] q.kind = "put"   -> [disk EXCEPT !.nodes = @ \cup {q.root}]
                  [] q.kind = "sweep" -> [disk EXCEPT !.nodes = @ \cap q.keep]
                  [] q.kind = "write" -> [disk EXCEPT !.root = q.root]
    BY DEF Commit
  <2> QED
    BY <2>0
<1>6. \E e \in Requests :
        /\ events' = Append(events, e) /\ e.drive = q.drive
        /\ q \in Loads => e \in Loads /\ e.root = disk.root
        /\ q \notin Loads => e = q
  <2>0. events' = Append(events, IF q.kind = "load" THEN [q EXCEPT !.root = disk.root] ELSE q)
    BY DEF Commit
  <2>1. CASE q.kind = "load"
    <3> DEFINE e == [q EXCEPT !.root = disk.root]
    <3>1. q \in Loads /\ disk.root \in Roots
      BY <1>1, <2>1, RequestKinds DEF TypeInv
    <3>2. e \in Loads /\ e.drive = q.drive /\ e.root = disk.root
      BY <3>1 DEF Loads
    <3>3. events' = Append(events, e)
      BY <2>0, <2>1
    <3> HIDE DEF e
    <3> QED
      BY <3>1, <3>2, <3>3 DEF Requests
  <2>2. CASE q.kind # "load"
    BY <1>1, <2>0, <2>2, RequestKinds
  <2> QED
    BY <2>1, <2>2
<1>7. /\ q \in Loads => q.kind = "load"
      /\ q \in Puts => q.kind = "put"
      /\ q \in Sweeps => q.kind = "sweep"
      /\ q \in SwapWrites \cup ResetWrites => q.kind = "write"
  BY <1>1, RequestKinds
<1> HIDE DEF q
<1>8. /\ q \in Loads => disk' = disk
      /\ q \in Puts => disk' = [disk EXCEPT !.nodes = @ \cup {q.root}]
      /\ q \in Sweeps => disk' = [disk EXCEPT !.nodes = @ \cap q.keep]
      /\ q \in SwapWrites \cup ResetWrites => disk' = [disk EXCEPT !.root = q.root]
  BY <1>5, <1>7
<1> QED
  BY <1>1, <1>2, <1>3, <1>4, <1>6, <1>8 DEF q

\* The request that is done leaves the queue and its event joins the events.
LEMMA CommitOrder ==
    ASSUME TypeInv, NEW i \in DOMAIN queue, Commit(i)
    PROVE  /\ queue[i] \in Requests /\ queue' \in Seq(Requests)
           /\ \A k \in DOMAIN queue' : \E l \in DOMAIN queue :
                l # i /\ queue'[k] = queue[l]
           /\ \A k, l \in DOMAIN queue' : k < l =>
                \E x, y \in DOMAIN queue : /\ x < y /\ x # i /\ y # i
                                           /\ queue'[k] = queue[x] /\ queue'[l] = queue[y]
<1> DEFINE n == Len(queue)
           at(k) == IF k < i THEN k ELSE k + 1
<1>1. /\ queue[i] \in Requests /\ queue' \in Seq(Requests) /\ n \in Nat /\ i \in 1 .. n
      /\ DOMAIN queue = 1 .. n /\ DOMAIN queue' = 1 .. (n - 1)
      /\ \A k \in 1 .. (n - 1) : queue'[k] = queue[at(k)]
  BY CommitParts
<1> HIDE DEF n
<1>2. \A k \in 1 .. (n - 1) : at(k) \in 1 .. n /\ at(k) # i
  BY <1>1
<1>3. \A k, l \in 1 .. (n - 1) : k < l => at(k) < at(l)
  BY <1>1
<1> HIDE DEF at
<1>4. \A k \in DOMAIN queue' : \E l \in DOMAIN queue : l # i /\ queue'[k] = queue[l]
  BY <1>1, <1>2
<1>5. ASSUME NEW k \in DOMAIN queue', NEW l \in DOMAIN queue', k < l
      PROVE  \E x, y \in DOMAIN queue : /\ x < y /\ x # i /\ y # i
                                        /\ queue'[k] = queue[x] /\ queue'[l] = queue[y]
  <2>1. at(k) < at(l)
    BY <1>1, <1>3, <1>5
  <2> QED
    BY <1>1, <1>2, <1>5, <2>1
<1> QED
  BY <1>1, <1>4, <1>5

LEMMA CommitBase ==
    ASSUME TypeInv, OneRequest, NEW i \in DOMAIN queue, Commit(i)
    PROVE  BaseInv'
<1> DEFINE q == queue[i]
<1>1. /\ q \in Requests /\ queue' \in Seq(Requests) /\ UNCHANGED <<mem, phase, overlapped>>
      /\ q \in Loads => disk' = disk
      /\ q \in Puts => disk' = [disk EXCEPT !.nodes = @ \cup {q.root}]
      /\ q \in Sweeps => disk' = [disk EXCEPT !.nodes = @ \cap q.keep]
      /\ q \in SwapWrites \cup ResetWrites => disk' = [disk EXCEPT !.root = q.root]
  BY CommitParts
<1>2. PICK e \in Requests : events' = Append(events, e) /\ e.drive = q.drive
  BY CommitParts
<1>3. disk' \in [root: Roots, nodes: SUBSET Roots]
  <2>1. q \in SwapWrites \cup ResetWrites => q.root \in Roots
    BY WriteKinds
  <2>2. q \in Puts => q.root \in Roots
    BY DEF Puts
  <2> QED
    BY <1>1, <2>1, <2>2 DEF TypeInv, Requests
<1>4. events' \in Seq(Requests)
  BY <1>2 DEF TypeInv
<1>5. TypeInv'
  BY <1>1, <1>3, <1>4 DEF TypeInv
<1> DEFINE n == Len(events)
<1>6. /\ n \in Nat /\ DOMAIN events = 1 .. n /\ DOMAIN events' = 1 .. (n + 1)
      /\ \A k \in 1 .. n : events'[k] = events[k]
      /\ events'[n + 1] = e
  BY <1>2, AppendParts DEF TypeInv
<1> HIDE DEF n
<1>7. \A k \in DOMAIN queue' : \E l \in DOMAIN queue : l # i /\ queue'[k] = queue[l]
  BY CommitOrder
<1>8. \A k, l \in DOMAIN queue' : queue'[k].drive = queue'[l].drive => k = l
  <2> SUFFICES ASSUME NEW k \in DOMAIN queue', NEW l \in DOMAIN queue', k < l
               PROVE  queue'[k].drive # queue'[l].drive
    <3>1. DOMAIN queue' \subseteq Nat
      BY <1>1
    <3> QED
      BY <3>1
  <2>1. PICK x \in DOMAIN queue, y \in DOMAIN queue :
            x < y /\ queue'[k] = queue[x] /\ queue'[l] = queue[y]
    BY CommitOrder
  <2>2. x # y
    <3>1. DOMAIN queue \subseteq Nat
      BY DEF TypeInv
    <3> QED
      BY <2>1, <3>1
  <2> QED
    BY <2>1, <2>2 DEF OneRequest, Awaits
<1>9. \A k \in DOMAIN queue' :
         /\ phase[queue'[k].drive] = "running"
         /\ queue'[k].drive # q.drive
         /\ \A l \in DOMAIN events : queue'[k].drive # events[l].drive
  BY <1>7 DEF OneRequest, Awaits
<1>10. phase[q.drive] = "running" /\ \A l \in DOMAIN events : q.drive # events[l].drive
  BY DEF OneRequest, Awaits
<1>11. \A k \in DOMAIN events' : (k \in DOMAIN events /\ events'[k] = events[k]) \/ events'[k] = e
  BY <1>6
<1>12. \A k \in DOMAIN events' : phase[events'[k].drive] = "running"
  BY <1>2, <1>10, <1>11 DEF OneRequest, Awaits
<1>13. \A k, l \in DOMAIN events' : events'[k].drive = events'[l].drive => k = l
  <2>1. \A k, l \in 1 .. n : events'[k].drive = events'[l].drive => k = l
    BY <1>6 DEF OneRequest, Awaits
  <2>2. \A k \in 1 .. n : events'[k].drive # e.drive
    BY <1>2, <1>6, <1>10
  <2> QED
    BY <1>6, <2>1, <2>2
<1>14. \A k \in DOMAIN queue', l \in DOMAIN events' : queue'[k].drive # events'[l].drive
  BY <1>2, <1>9, <1>11
<1>15. OneRequest'
  BY <1>1, <1>8, <1>9, <1>12, <1>13, <1>14 DEF OneRequest, Awaits
<1> QED
  BY <1>5, <1>15 DEF BaseInv

LEMMA ReloadBase ==
    ASSUME TypeInv, Reload
    PROVE  BaseInv'
<1>1. mem' \in Mems
  <2>1. NoRoot \in Roots
    BY DEF NoRoot, Roots
  <2>2. {} \in SUBSET Roots
    OBVIOUS
  <2> QED
    BY <2>1, <2>2 DEF Reload, Fresh, Mems
<1>2. phase' \in [Drives -> {"new", "running", "done", "lost"}]
  BY DEF Reload, TypeInv
<1>3. queue' \in Seq(Requests) /\ events' \in Seq(Requests)
  BY DEF Reload
<1>4. TypeInv'
  BY <1>1, <1>2, <1>3 DEF Reload, TypeInv
<1>5. DOMAIN queue' = {} /\ DOMAIN events' = {}
  BY DEF Reload
<1> QED
  BY <1>4, <1>5 DEF BaseInv, OneRequest, Awaits

LEMMA InitBase == Init => BaseInv
<1> SUFFICES ASSUME Init PROVE BaseInv
  OBVIOUS
<1>1. NoRoot \in Roots
  BY DEF NoRoot, Roots
<1>2. mem \in Mems
  <2>1. {} \in SUBSET Roots
    OBVIOUS
  <2> QED
    BY <1>1, <2>1 DEF Init, Fresh, Mems
<1>3. queue \in Seq(Requests) /\ events \in Seq(Requests)
  BY DEF Init
<1>4. DOMAIN queue = {} /\ DOMAIN events = {}
  BY DEF Init
<1>5. disk \in [root: Roots, nodes: SUBSET Roots]
  BY <1>1 DEF Init
<1> QED
  BY <1>2, <1>3, <1>4, <1>5 DEF Init, BaseInv, TypeInv, OneRequest, Awaits

LEMMA NextBase == BaseInv /\ [Next]_vars => BaseInv'
<1> SUFFICES ASSUME BaseInv, [Next]_vars PROVE BaseInv'
  OBVIOUS
<1>0. TypeInv /\ OneRequest
  BY DEF BaseInv
<1>1. ASSUME NEW d \in Drives, Start(d) PROVE BaseInv'
  <2>1. overlapped' \in BOOLEAN
    BY <1>0, <1>1 DEF Start, TypeInv
  <2> QED
    BY <1>0, <1>1, <2>1, StartRuns, RunsBase
<1>2. ASSUME NEW i \in DOMAIN queue, Commit(i) PROVE BaseInv'
  BY <1>0, <1>2, CommitBase
<1>3. CASE Callback
  <2>1. overlapped' \in BOOLEAN
    BY <1>0, <1>3 DEF Callback, TypeInv
  <2> QED
    BY <1>0, <1>3, <2>1, CallbackRuns, RunsBase
<1>4. CASE Reload
  BY <1>0, <1>4, ReloadBase
<1>5. CASE UNCHANGED vars
  BY <1>5 DEF vars, BaseInv, TypeInv, OneRequest
<1> QED
  BY <1>1, <1>2, <1>3, <1>4, <1>5 DEF Next

LEMMA BaseAlways == Spec => []BaseInv
<1>1. Init => BaseInv
  BY InitBase
<1>2. BaseInv /\ [Next]_vars => BaseInv'
  BY NextBase
<1> QED
  BY <1>1, <1>2, PTL DEF Spec

\* What the steps of a page are, for the proofs of its invariants.
LEMMA StepCases ==
    ASSUME BaseInv, [Next]_vars
    PROVE  \/ \E d \in Drives : Start(d) /\ phase[d] = "new" /\ Runs(d, mem, events)
           \/ /\ Callback /\ events # <<>> /\ Head(events) \in Requests
              /\ Runs(Head(events).drive, Noted(mem, Head(events)), Tail(events))
           \/ \E i \in DOMAIN queue : Commit(i)
           \/ Reload
           \/ UNCHANGED vars
BY StartRuns, CallbackRuns DEF Next, BaseInv

-----------------------------------------------------------------------------
(* Loads come before writes *)

\* A page asks for its root first: no write is done before a load, and none has been
\* noted while a load is out.
LoadsFirst(m, q, e) ==
    /\ ~m.ready => /\ m.cas = Unset /\ m.set = Unset
                   /\ \A i \in DOMAIN q : q[i] \in Loads
                   /\ \A i \in DOMAIN e : e[i] \in Loads
    /\ \A i, j \in DOMAIN q : i < j /\ q[j] \in Loads => q[i] \notin Writes
    /\ \A i, j \in DOMAIN e : i < j /\ e[j] \in Loads => e[i] \notin Writes
    /\ \A i \in DOMAIN q, j \in DOMAIN e : q[i] \in Loads => e[j] \notin Writes
    /\ \A i \in DOMAIN q : q[i] \in Loads => m.cas = Unset /\ m.set = Unset
    /\ \A i \in DOMAIN e : e[i] \in Loads => m.cas = Unset /\ m.set = Unset

LoadInv == LoadsFirst(mem, queue, events)

\* The queue after a run.
LEMMA AsksParts ==
    ASSUME queue \in Seq(Requests), NEW d, NEW q \in Requests, Asks(d, q)
    PROVE  /\ Len(queue) \in Nat /\ DOMAIN queue = 1 .. Len(queue)
           /\ DOMAIN queue' = 1 .. (Len(queue) + 1)
           /\ \A i \in 1 .. Len(queue) : queue'[i] = queue[i]
           /\ queue'[Len(queue) + 1] = q
           /\ \A i \in DOMAIN queue' : (i \in DOMAIN queue /\ queue'[i] = queue[i]) \/ queue'[i] = q
<1>1. queue' = Append(queue, q)
  BY DEF Asks
<1>2. /\ Len(queue) \in Nat /\ DOMAIN queue = 1 .. Len(queue)
      /\ DOMAIN queue' = 1 .. (Len(queue) + 1)
      /\ \A i \in 1 .. Len(queue) : queue'[i] = queue[i]
      /\ queue'[Len(queue) + 1] = q
  BY <1>1, AppendParts
<1> QED
  BY <1>2

LEMMA RunsLoads ==
    ASSUME TypeInv, NEW d, NEW m, NEW e, Runs(d, m, e), LoadsFirst(m, queue, e)
    PROVE  LoadInv'
<1>1. /\ d \in Drives /\ m \in Mems /\ RunStep(d, m) /\ events' = e /\ queue \in Seq(Requests)
  BY DEF Runs, TypeInv
<1>2. CASE AsksLoad(d, m)
  <2>1. Load(d) \in Loads /\ Load(d) \in Requests
    <3>1. NoRoot \in Roots
      BY DEF NoRoot, Roots
    <3> QED
      BY <1>1, <3>1 DEF Load, Loads, Requests
  <2>2. \A i \in DOMAIN queue : queue[i] \in Loads /\ queue[i] \notin Writes
    BY <1>1, <1>2, KindsApart DEF AsksLoad, LoadsFirst
  <2>3. \A i \in DOMAIN e : e[i] \in Loads /\ e[i] \notin Writes
    BY <1>1, <1>2, KindsApart DEF AsksLoad, LoadsFirst, Runs
  <2>4. \A i \in DOMAIN queue' : queue'[i] \in Loads /\ queue'[i] \notin Writes
    BY <1>1, <1>2, <2>1, <2>2, AsksParts, KindsApart DEF AsksLoad
  <2> QED
    BY <1>1, <1>2, <2>3, <2>4 DEF AsksLoad, LoadsFirst, LoadInv
<1>3. ASSUME m.ready, NEW q \in Requests, q \notin Loads, Asks(d, q),
             mem'.ready = m.ready, mem'.cas = m.cas, mem'.set = m.set
      PROVE  LoadInv'
  <2> DEFINE n == Len(queue)
  <2>1. /\ n \in Nat /\ DOMAIN queue = 1 .. n /\ DOMAIN queue' = 1 .. (n + 1)
        /\ \A i \in 1 .. n : queue'[i] = queue[i]
        /\ queue'[n + 1] = q
    BY <1>1, <1>3, AsksParts
  <2> HIDE DEF n
  <2>2. \A i \in DOMAIN queue' : queue'[i] \in Loads => i \in DOMAIN queue /\ queue'[i] = queue[i]
    BY <1>3, <2>1
  <2>3. \A i, j \in DOMAIN queue' : i < j /\ queue'[j] \in Loads => queue'[i] \notin Writes
    <3> SUFFICES ASSUME NEW i \in DOMAIN queue', NEW j \in DOMAIN queue', i < j, queue'[j] \in Loads
                 PROVE  queue'[i] \notin Writes
      OBVIOUS
    <3>1. j \in DOMAIN queue /\ queue'[j] = queue[j]
      BY <2>2
    <3>2. i \in DOMAIN queue /\ queue'[i] = queue[i]
      BY <2>1, <3>1
    <3> QED
      BY <3>1, <3>2 DEF LoadsFirst
  <2> QED
    BY <1>1, <1>3, <2>2, <2>3 DEF LoadsFirst, LoadInv
<1>4. CASE AsksPut(d, m) \/ AsksWrite(d, m) \/ AsksSweep(d, m)
  <2>1. /\ Put(d, New(d, m)).kind = "put" /\ Sweep(d, m.keep).kind = "sweep"
        /\ Write(d, New(d, m), Latch(d, m)).kind = "write"
    BY DEF Put, Sweep, Write
  <2>2. /\ Put(d, New(d, m)) \in Requests \ Loads /\ Sweep(d, m.keep) \in Requests \ Loads
        /\ Write(d, New(d, m), Latch(d, m)) \in Requests \ Loads
    BY <1>1, <2>1, NewType, RequestKinds
  <2>3. mem'.ready = m.ready /\ mem'.cas = m.cas /\ mem'.set = m.set /\ m.ready
    BY <1>1, <1>4 DEF AsksPut, AsksWrite, AsksSweep, Mems
  <2> QED
    BY <1>3, <1>4, <2>2, <2>3 DEF AsksPut, AsksWrite, AsksSweep
<1>5. CASE EndsSwap(d, m) \/ EndsReset(d, m)
  <2>1. mem'.ready = m.ready /\ mem'.cas = m.cas /\ mem'.set = m.set /\ m.ready
    BY <1>1, <1>5 DEF EndsSwap, EndsReset, Mems
  <2>2. queue' = queue
    BY <1>5 DEF EndsSwap, EndsReset, Settles
  <2> QED
    BY <1>1, <2>1, <2>2 DEF LoadsFirst, LoadInv
<1> QED
  BY <1>1, <1>2, <1>4, <1>5 DEF RunStep

\* The memory that has noted the next event.
LEMMA NotedLoads ==
    ASSUME BaseInv, LoadInv, events # <<>>
    PROVE  LoadsFirst(Noted(mem, Head(events)), queue, Tail(events))
<1> DEFINE h == Head(events)
           t == Tail(events)
           m == Noted(mem, h)
<1>1. /\ h \in Requests /\ h = events[1] /\ 1 \in DOMAIN events
      /\ \A i \in DOMAIN t : i + 1 \in DOMAIN events /\ i + 1 # 1 /\ t[i] = events[i + 1]
  BY TailAwaits DEF BaseInv
<1>2. mem \in Mems
  BY DEF BaseInv, TypeInv
<1>3. DOMAIN t \subseteq Nat \ {0} /\ DOMAIN events \subseteq Nat
  <2>1. t \in Seq(Requests)
    BY TailAwaits DEF BaseInv
  <2> QED
    BY <2>1 DEF BaseInv, TypeInv
<1>10. m = Noted(mem, h) /\ h \in Requests
  BY <1>1
<1> HIDE DEF h, t, m
<1>11. /\ h \in Puts => m.ready = mem.ready /\ m.cas = mem.cas /\ m.set = mem.set
       /\ h \in Sweeps => m.ready = mem.ready /\ m.cas = mem.cas /\ m.set = mem.set
       /\ h \in Loads => m.ready = TRUE /\ m.cas = mem.cas /\ m.set = mem.set
  BY <1>2, <1>10, NotedFields
<1>4. \A i, j \in DOMAIN t : i < j /\ t[j] \in Loads => t[i] \notin Writes
  <2> SUFFICES ASSUME NEW i \in DOMAIN t, NEW j \in DOMAIN t, i < j, t[j] \in Loads
               PROVE  t[i] \notin Writes
    OBVIOUS
  <2>1. i + 1 < j + 1
    BY <1>3
  <2> QED
    BY <1>1, <2>1 DEF LoadInv, LoadsFirst
<1>5. \A i \in DOMAIN queue, j \in DOMAIN t : queue[i] \in Loads => t[j] \notin Writes
  BY <1>1 DEF LoadInv, LoadsFirst
<1>6. \A i, j \in DOMAIN queue : i < j /\ queue[j] \in Loads => queue[i] \notin Writes
  BY DEF LoadInv, LoadsFirst
<1>7. CASE h \in Loads
  <2>1. m.ready = TRUE /\ m.cas = mem.cas /\ m.set = mem.set
    BY <1>7, <1>11
  <2>2. mem.cas = Unset /\ mem.set = Unset
    BY <1>1, <1>7 DEF LoadInv, LoadsFirst
  <2> QED
    BY <1>4, <1>5, <1>6, <2>1, <2>2 DEF LoadsFirst, h, t, m
<1>8. CASE h \in Writes
  <2>0. h \notin Loads
    BY <1>1, <1>8, KindsApart
  <2>1. mem.ready
    BY <1>1, <2>0 DEF LoadInv, LoadsFirst
  <2>2. m.ready = mem.ready
    BY <1>1, <1>2, <1>8, <1>10, NotedFields DEF Writes
  <2>3. \A i \in DOMAIN queue : queue[i] \notin Loads
    BY <1>1, <1>8 DEF LoadInv, LoadsFirst
  <2>4. \A i \in DOMAIN t : t[i] \notin Loads
    <3> SUFFICES ASSUME NEW i \in DOMAIN t, t[i] \in Loads PROVE FALSE
      OBVIOUS
    <3>1. 1 < i + 1
      BY <1>3
    <3> QED
      BY <1>1, <1>8, <3>1 DEF LoadInv, LoadsFirst
  <2> QED
    BY <1>4, <1>5, <1>6, <2>1, <2>2, <2>3, <2>4 DEF LoadsFirst, h, t, m
<1>9. CASE h \in Puts \/ h \in Sweeps
  <2>0. h \notin Loads
    BY <1>1, <1>9, KindsApart
  <2>1. mem.ready
    BY <1>1, <2>0 DEF LoadInv, LoadsFirst
  <2>2. m.ready = mem.ready /\ m.cas = mem.cas /\ m.set = mem.set
    BY <1>9, <1>11
  <2>3. \A i \in DOMAIN t : t[i] \in Loads => mem.cas = Unset /\ mem.set = Unset
    BY <1>1 DEF LoadInv, LoadsFirst
  <2>4. \A i \in DOMAIN queue : queue[i] \in Loads => mem.cas = Unset /\ mem.set = Unset
    BY DEF LoadInv, LoadsFirst
  <2> QED
    BY <1>4, <1>5, <1>6, <2>1, <2>2, <2>3, <2>4 DEF LoadsFirst, h, t, m
<1> QED
  BY <1>1, <1>7, <1>8, <1>9, KindsApart

\* While a load is in the queue, or before any has come, the database does no write.
LEMMA WriteNeedsLoaded ==
    ASSUME BaseInv, LoadInv, NEW i \in DOMAIN queue, Commit(i), queue[i] \in Writes
    PROVE  mem.ready /\ \A j \in DOMAIN queue : queue[j] \notin Loads
<1>1. DOMAIN queue = 1 .. Len(queue) /\ Len(queue) \in Nat /\ \A j \in DOMAIN queue : queue[j] \in Requests
  BY DEF BaseInv, TypeInv
<1>2. mem.ready
  BY <1>1, KindsApart DEF LoadInv, LoadsFirst
<1>3. ASSUME NEW j \in DOMAIN queue, queue[j] \in Loads PROVE FALSE
  <2>1. j # i
    BY <1>1, <1>3, KindsApart
  <2>2. CASE i < j
    BY <1>3, <2>2 DEF LoadInv, LoadsFirst
  <2>3. CASE j < i
    <3>1. j \in 1 .. i - 1 /\ queue[j].store = "meta" /\ queue[i].store = "meta"
      BY <1>1, <1>3, <2>3, KindsApart
    <3> QED
      BY <3>1 DEF Commit, First
  <2> QED
    BY <1>1, <2>1, <2>2, <2>3
<1> QED
  BY <1>2, <1>3

LEMMA CommitLoads ==
    ASSUME BaseInv, LoadInv, NEW i \in DOMAIN queue, Commit(i)
    PROVE  LoadInv'
<1> DEFINE q == queue[i]
           n == Len(events)
<1>0. TypeInv
  BY DEF BaseInv
<1>1. q \in Requests /\ UNCHANGED mem
  BY <1>0, CommitParts
<1>2. PICK e \in Requests : /\ events' = Append(events, e)
                            /\ q \in Loads => e \in Loads
                            /\ q \notin Loads => e = q
  BY <1>0, CommitParts
<1>3. /\ n \in Nat /\ DOMAIN events = 1 .. n /\ DOMAIN events' = 1 .. (n + 1)
      /\ \A k \in 1 .. n : events'[k] = events[k]
      /\ events'[n + 1] = e
  BY <1>0, <1>2, AppendParts DEF TypeInv
<1> HIDE DEF n
<1>4. \A k \in DOMAIN queue' : \E l \in DOMAIN queue : l # i /\ queue'[k] = queue[l]
  BY <1>0, CommitOrder
<1>5. \A k, l \in DOMAIN queue' : k < l /\ queue'[l] \in Loads => queue'[k] \notin Writes
  <2> SUFFICES ASSUME NEW k \in DOMAIN queue', NEW l \in DOMAIN queue', k < l, queue'[l] \in Loads
               PROVE  queue'[k] \notin Writes
    OBVIOUS
  <2>1. PICK x \in DOMAIN queue, y \in DOMAIN queue :
            x < y /\ queue'[k] = queue[x] /\ queue'[l] = queue[y]
    BY <1>0, CommitOrder
  <2> QED
    BY <2>1 DEF LoadInv, LoadsFirst
<1>6. e \in Loads => q \in Loads
  BY <1>1, <1>2, KindsApart
<1>7. e \in Writes => q \in Writes
  BY <1>1, <1>2, KindsApart
<1>8. \A k, l \in DOMAIN events' : k < l /\ events'[l] \in Loads => events'[k] \notin Writes
  <2> SUFFICES ASSUME NEW k \in DOMAIN events', NEW l \in DOMAIN events', k < l, events'[l] \in Loads
               PROVE  events'[k] \notin Writes
    OBVIOUS
  <2>1. k \in DOMAIN events /\ events'[k] = events[k]
    BY <1>3
  <2>2. CASE l \in DOMAIN events
    BY <1>3, <2>1, <2>2 DEF LoadInv, LoadsFirst
  <2>3. CASE l = n + 1
    BY <1>3, <1>6, <2>1, <2>3 DEF LoadInv, LoadsFirst
  <2> QED
    BY <1>3, <2>2, <2>3
<1>9. \A k \in DOMAIN queue', l \in DOMAIN events' : queue'[k] \in Loads => events'[l] \notin Writes
  <2> SUFFICES ASSUME NEW k \in DOMAIN queue', NEW l \in DOMAIN events', queue'[k] \in Loads
               PROVE  events'[l] \notin Writes
    OBVIOUS
  <2>1. PICK x \in DOMAIN queue : queue'[k] = queue[x]
    BY <1>4
  <2>2. q \notin Writes
    BY <2>1, WriteNeedsLoaded
  <2> QED
    BY <1>3, <1>7, <2>1, <2>2 DEF LoadInv, LoadsFirst
<1>10. \A k \in DOMAIN queue' : queue'[k] \in Loads => mem.cas = Unset /\ mem.set = Unset
  BY <1>4 DEF LoadInv, LoadsFirst
<1>11. \A k \in DOMAIN events' : events'[k] \in Loads => mem.cas = Unset /\ mem.set = Unset
  BY <1>3, <1>6 DEF LoadInv, LoadsFirst
<1>12. ~mem.ready => /\ mem.cas = Unset /\ mem.set = Unset
                     /\ \A k \in DOMAIN queue' : queue'[k] \in Loads
                     /\ \A k \in DOMAIN events' : events'[k] \in Loads
  BY <1>2, <1>3, <1>4 DEF LoadInv, LoadsFirst
<1> QED
  BY <1>1, <1>5, <1>8, <1>9, <1>10, <1>11, <1>12 DEF LoadInv, LoadsFirst

LEMMA LoadAlways == Spec => []LoadInv
<1>1. Init => LoadInv
  <2> SUFFICES ASSUME Init PROVE LoadInv
    OBVIOUS
  <2>1. DOMAIN queue = {} /\ DOMAIN events = {} /\ mem.cas = Unset /\ mem.set = Unset
    BY DEF Init, Fresh
  <2> QED
    BY <2>1 DEF LoadInv, LoadsFirst
<1>2. BaseInv /\ LoadInv /\ [Next]_vars => LoadInv'
  <2> SUFFICES ASSUME BaseInv, LoadInv, [Next]_vars PROVE LoadInv'
    OBVIOUS
  <2>0. TypeInv
    BY DEF BaseInv
  <2>1. ASSUME NEW d \in Drives, Runs(d, mem, events) PROVE LoadInv'
    BY <2>0, <2>1, RunsLoads DEF LoadInv
  <2>2. CASE /\ events # <<>>
             /\ Runs(Head(events).drive, Noted(mem, Head(events)), Tail(events))
    BY <2>0, <2>2, NotedLoads, RunsLoads
  <2>3. ASSUME NEW i \in DOMAIN queue, Commit(i) PROVE LoadInv'
    BY <2>3, CommitLoads
  <2>4. CASE Reload
    <3>1. /\ DOMAIN queue' = {} /\ DOMAIN events' = {}
          /\ mem'.cas = Unset /\ mem'.set = Unset
      BY <2>4 DEF Reload, Fresh
    <3> QED
      BY <3>1 DEF LoadInv, LoadsFirst
  <2>5. CASE UNCHANGED vars
    BY <2>5 DEF vars, LoadInv
  <2> QED
    BY <2>1, <2>2, <2>3, <2>4, <2>5, StepCases
<1> QED
  BY <1>1, <1>2, BaseAlways, PTL DEF Spec

-----------------------------------------------------------------------------
(* No swap is applied twice *)

\* What a reset sets shows no swap, nor any drive twice.
ResetsShowNoSwap ==
    \A d \in Resets : /\ ResetTo[d] \in Seq(Resets)
                      /\ \A i, j \in DOMAIN ResetTo[d] : ResetTo[d][i] = ResetTo[d][j] => i = j

Distinct(r) == \A i, j \in DOMAIN r : r[i] = r[j] => i = j

\* A root shows each drive once, and the swaps it shows are over, or have begun.
Past(r, p) == Distinct(r) /\ \A i \in DOMAIN r : r[i] \in Swaps => p[r[i]] \in {"done", "lost"}
Begun(r, p) == Distinct(r) /\ \A i \in DOMAIN r : r[i] \in Swaps => p[r[i]] # "new"

\* What is current shows only swaps that are over, and what a load is to bring too.
Applied(m, q, e, p) ==
    /\ Past(m.root, p)
    /\ Begun(disk.root, p)
    /\ ~m.ready => Past(disk.root, p)
    /\ \A i \in DOMAIN q : q[i] \in Loads => Past(disk.root, p)
    /\ \A i \in DOMAIN q : q[i] \in Writes => Begun(q[i].root, p)
    /\ \A i \in DOMAIN e : e[i] \in Writes => Begun(e[i].root, p)
    /\ \A i \in DOMAIN e : e[i] \in Loads => Past(e[i].root, p)

AppliedInv == Applied(mem, queue, events, phase)

LEMMA PastBegun ==
    ASSUME NEW r, NEW p, Past(r, p) PROVE Begun(r, p)
<1>1. \A i \in DOMAIN r : r[i] \in Swaps => p[r[i]] # "new"
  <2>1. "done" # "new" /\ "lost" # "new"
    OBVIOUS
  <2> QED
    BY <2>1 DEF Past
<1> QED
  BY <1>1 DEF Past, Begun

LEMMA AppendDistinct ==
    ASSUME NEW T, NEW r \in Seq(T), NEW x \in T, Distinct(r), \A i \in DOMAIN r : r[i] # x
    PROVE  Distinct(Append(r, x))
<1> DEFINE a == Append(r, x)
           n == Len(r)
<1>1. /\ n \in Nat /\ DOMAIN r = 1 .. n /\ DOMAIN a = 1 .. (n + 1)
      /\ \A i \in 1 .. n : a[i] = r[i]
      /\ a[n + 1] = x
  BY AppendParts
<1> HIDE DEF a, n
<1>2. \A i, j \in 1 .. n : a[i] = a[j] => i = j
  BY <1>1 DEF Distinct
<1>3. \A i \in 1 .. n : a[i] # x
  BY <1>1
<1>4. Distinct(a)
  BY <1>1, <1>2, <1>3 DEF Distinct
<1> QED
  BY <1>4 DEF a

\* The root that a drive makes shows what was over, and the drive.
LEMMA NewShows ==
    ASSUME ResetsShowNoSwap, NEW d \in Drives, NEW m \in Mems, NEW p, Past(m.root, p),
           p[d] \in {"new", "running"},
           NEW pp, pp[d] # "new", \A f \in Drives : f # d => pp[f] = p[f]
    PROVE  /\ Begun(New(d, m), pp)
           /\ pp[d] = "done" => Past(New(d, m), pp)
<1> DEFINE n == New(d, m)
<1>0. p[d] \notin {"done", "lost"}
  OBVIOUS
<1>1. CASE d \in Swaps
  <2> DEFINE r == m.root
  <2>1. r \in Seq(Drives) /\ n = Append(r, d)
    BY <1>1 DEF Mems, Roots, New
  <2>2. \A i \in DOMAIN r : r[i] # d /\ r[i] \in Drives
    BY <1>0, <1>1, <2>1 DEF Past
  <2>3. Distinct(n)
    BY <2>1, <2>2, AppendDistinct DEF Past
  <2>4. \A i \in DOMAIN n : n[i] = d \/ \E j \in DOMAIN r : n[i] = r[j]
    <3>1. /\ Len(r) \in Nat /\ DOMAIN r = 1 .. Len(r) /\ DOMAIN n = 1 .. (Len(r) + 1)
          /\ \A i \in 1 .. Len(r) : n[i] = r[i]
          /\ n[Len(r) + 1] = d
      BY <2>1, AppendParts
    <3> HIDE DEF n, r
    <3> QED
      BY <3>1
  <2>5. \A j \in DOMAIN r : r[j] \in Swaps => pp[r[j]] \in {"done", "lost"}
    BY <2>2 DEF Past
  <2>6. \A j \in DOMAIN r : r[j] \in Swaps => pp[r[j]] # "new"
    BY <2>5
  <2> HIDE DEF n, r
  <2>7. Begun(n, pp)
    BY <2>3, <2>4, <2>6 DEF Begun
  <2>8. pp[d] = "done" => Past(n, pp)
    BY <2>3, <2>4, <2>5 DEF Past
  <2> QED
    BY <2>7, <2>8 DEF n
<1>2. CASE d \notin Swaps
  <2>1. n = ResetTo[d] /\ d \in Resets
    BY <1>2 DEF New, Drives
  <2>2. n \in Seq(Resets) /\ Distinct(n)
    BY <2>1 DEF ResetsShowNoSwap, Distinct
  <2>3. \A i \in DOMAIN n : n[i] \notin Swaps
    BY <2>2, IdbAssumption
  <2> QED
    BY <2>2, <2>3 DEF Past, Begun
<1> QED
  BY <1>1, <1>2

LEMMA RunsApplied ==
    ASSUME ResetsShowNoSwap, TypeInv, NEW d, NEW m, NEW e, Runs(d, m, e),
           Applied(m, queue, e, phase)
    PROVE  AppliedInv'
<1>1. /\ d \in Drives /\ m \in Mems /\ RunStep(d, m) /\ events' = e /\ disk' = disk
      /\ queue \in Seq(Requests) /\ phase[d] \in {"new", "running"}
      /\ disk.root \in Roots /\ m.root \in Roots
  BY DEF Runs, TypeInv, Mems
<1>2. phase'[d] # "new" /\ \A f \in Drives : f # d => phase'[f] = phase[f]
  BY <1>1, RunsShape DEF Settles, Asks, TypeInv
<1>3. ASSUME NEW r \in Roots
      PROVE  /\ Past(r, phase) => Past(r, phase')
             /\ Begun(r, phase) => Begun(r, phase')
  <2>1. \A i \in DOMAIN r : r[i] \in Drives
    BY DEF Roots
  <2>2. phase[d] \notin {"done", "lost"}
    BY <1>1
  <2> QED
    BY <1>2, <2>1, <2>2 DEF Past, Begun
<1>4. /\ Begun(New(d, m), phase')
      /\ phase'[d] = "done" => Past(New(d, m), phase')
  BY <1>1, <1>2, NewShows DEF Applied
<1>5. \A i \in DOMAIN queue : queue[i] \in Requests
  BY <1>1
<1>6. \A i \in DOMAIN e : e[i] \in Requests
  BY DEF Runs
<1>7. \A q \in Requests : (q \in Writes \/ q \in Loads) => q.root \in Roots
  BY WriteKinds DEF Writes, Loads
<1>8. /\ Past(m.root, phase') /\ Begun(disk.root, phase')
      /\ ~m.ready => Past(disk.root, phase')
      /\ \A i \in DOMAIN queue : queue[i] \in Loads => Past(disk.root, phase')
      /\ \A i \in DOMAIN queue : queue[i] \in Writes => Begun(queue[i].root, phase')
      /\ \A i \in DOMAIN e : e[i] \in Writes => Begun(e[i].root, phase')
      /\ \A i \in DOMAIN e : e[i] \in Loads => Past(e[i].root, phase')
  BY <1>1, <1>3, <1>5, <1>6, <1>7 DEF Applied
<1>9. ASSUME NEW q \in Requests, Asks(d, q), mem'.root = m.root, mem'.ready = m.ready,
             q \in Loads => ~m.ready,
             q \in Writes => q.root = New(d, m)
      PROVE  AppliedInv'
  <2>1. \A i \in DOMAIN queue' : (i \in DOMAIN queue /\ queue'[i] = queue[i]) \/ queue'[i] = q
    BY <1>1, <1>9, AsksParts
  <2>2. \A i \in DOMAIN queue' : queue'[i] \in Loads => Past(disk.root, phase')
    BY <1>8, <1>9, <2>1
  <2>3. \A i \in DOMAIN queue' : queue'[i] \in Writes => Begun(queue'[i].root, phase')
    BY <1>4, <1>8, <1>9, <2>1
  <2> QED
    BY <1>1, <1>8, <1>9, <2>2, <2>3 DEF AppliedInv, Applied
<1>10. /\ Load(d) \in Requests /\ Load(d) \notin Writes
       /\ Put(d, New(d, m)) \in Requests \ (Loads \cup Writes)
       /\ Sweep(d, m.keep) \in Requests \ (Loads \cup Writes)
       /\ Write(d, New(d, m), Latch(d, m)) \in Requests \ Loads
       /\ Write(d, New(d, m), Latch(d, m)).root = New(d, m)
  <2>1. /\ Put(d, New(d, m)).kind = "put" /\ Sweep(d, m.keep).kind = "sweep"
        /\ Load(d).kind = "load"
        /\ Write(d, New(d, m), Latch(d, m)).kind = "write"
        /\ Write(d, New(d, m), Latch(d, m)).root = New(d, m)
    BY DEF Put, Sweep, Write, Load
  <2> QED
    BY <1>1, <2>1, NewType, RequestKinds DEF Writes
<1>11. CASE AsksLoad(d, m) \/ AsksPut(d, m)
  BY <1>9, <1>10, <1>11 DEF AsksLoad, AsksPut
<1>12. CASE AsksWrite(d, m) \/ AsksSweep(d, m)
  <2>1. mem'.root = m.root /\ mem'.ready = m.ready
    BY <1>1, <1>12 DEF AsksWrite, AsksSweep, Mems
  <2> QED
    BY <1>9, <1>10, <1>12, <2>1 DEF AsksWrite, AsksSweep
<1>13. CASE EndsSwap(d, m) \/ EndsReset(d, m)
  <2>1. mem'.ready = m.ready /\ (mem'.root = m.root \/ mem'.root = New(d, m))
    BY <1>1, <1>13 DEF EndsSwap, EndsReset, Mems
  <2>2. queue' = queue /\ phase'[d] = "done"
    BY <1>1, <1>13 DEF EndsSwap, EndsReset, Settles, TypeInv
  <2> QED
    BY <1>1, <1>4, <1>8, <2>1, <2>2 DEF AppliedInv, Applied
<1> QED
  BY <1>1, <1>11, <1>12, <1>13 DEF RunStep

LEMMA NotedApplied ==
    ASSUME BaseInv, LoadInv, AppliedInv, events # <<>>
    PROVE  Applied(Noted(mem, Head(events)), queue, Tail(events), phase)
<1> DEFINE h == Head(events)
           t == Tail(events)
           m == Noted(mem, h)
<1>1. /\ h \in Requests /\ h = events[1] /\ 1 \in DOMAIN events
      /\ \A i \in DOMAIN t : i + 1 \in DOMAIN events /\ t[i] = events[i + 1]
  BY TailAwaits DEF BaseInv
<1>2. mem \in Mems /\ m = Noted(mem, h) /\ h \in Requests
  BY <1>1 DEF BaseInv, TypeInv
<1> HIDE DEF h, t, m
<1>3. /\ h \in Loads => m.root = h.root /\ m.ready = TRUE
      /\ h \notin Loads => m.root = mem.root /\ m.ready = mem.ready
  BY <1>2, NotedRoot
<1>4. /\ \A i \in DOMAIN t : t[i] \in Writes => Begun(t[i].root, phase)
      /\ \A i \in DOMAIN t : t[i] \in Loads => Past(t[i].root, phase)
  BY <1>1 DEF AppliedInv, Applied
<1>5. CASE h \in Loads
  <2>1. Past(h.root, phase)
    BY <1>1, <1>5 DEF AppliedInv, Applied
  <2> QED
    BY <1>3, <1>4, <1>5, <2>1 DEF AppliedInv, Applied, h, t, m
<1>6. CASE m.root = mem.root /\ m.ready = mem.ready
  BY <1>4, <1>6 DEF AppliedInv, Applied, h, t, m
<1> QED
  BY <1>3, <1>5, <1>6

LEMMA CommitApplied ==
    ASSUME BaseInv, LoadInv, AppliedInv, NEW i \in DOMAIN queue, Commit(i)
    PROVE  AppliedInv'
<1> DEFINE q == queue[i]
<1>0. TypeInv
  BY DEF BaseInv
<1>1. /\ q \in Requests /\ UNCHANGED <<mem, phase>>
      /\ q \in Loads => disk' = disk
      /\ q \in Puts => disk' = [disk EXCEPT !.nodes = @ \cup {q.root}]
      /\ q \in Sweeps => disk' = [disk EXCEPT !.nodes = @ \cap q.keep]
      /\ q \in Writes => disk' = [disk EXCEPT !.root = q.root]
  BY <1>0, CommitParts DEF Writes
<1>2. PICK e \in Requests : /\ events' = Append(events, e)
                            /\ q \in Loads => e \in Loads /\ e.root = disk.root
                            /\ q \notin Loads => e = q
  BY <1>0, CommitParts
<1>3. \A k \in DOMAIN events' : (k \in DOMAIN events /\ events'[k] = events[k]) \/ events'[k] = e
  <2>1. /\ Len(events) \in Nat /\ DOMAIN events = 1 .. Len(events)
        /\ DOMAIN events' = 1 .. (Len(events) + 1)
        /\ \A k \in 1 .. Len(events) : events'[k] = events[k]
        /\ events'[Len(events) + 1] = e
    BY <1>0, <1>2, AppendParts DEF TypeInv
  <2> QED
    BY <2>1
<1>4. \A k \in DOMAIN queue' : \E l \in DOMAIN queue : queue'[k] = queue[l]
  BY <1>0, CommitOrder
<1>5. disk'.root = IF q \in Writes THEN q.root ELSE disk.root
  BY <1>0, <1>1, KindsApart DEF TypeInv
<1>6. q \in Writes => /\ mem.ready /\ \A k \in DOMAIN queue : queue[k] \notin Loads
                      /\ Begun(q.root, phase)
  BY WriteNeedsLoaded DEF AppliedInv, Applied
<1> HIDE DEF q
<1>7. /\ Begun(disk'.root, phase)
      /\ ~mem.ready => Past(disk'.root, phase)
      /\ \A k \in DOMAIN queue' : queue'[k] \in Loads => Past(disk'.root, phase)
  BY <1>4, <1>5, <1>6 DEF AppliedInv, Applied
<1>8. \A k \in DOMAIN queue' : queue'[k] \in Writes => Begun(queue'[k].root, phase)
  BY <1>4 DEF AppliedInv, Applied
<1>9. e \in Writes => q \in Writes /\ e = q
  BY <1>1, <1>2, KindsApart
<1>10. e \in Loads => Past(e.root, phase)
  <2>1. e \in Loads => q \in Loads
    BY <1>1, <1>2
  <2>2. q \in Loads => Past(disk.root, phase)
    BY DEF AppliedInv, Applied, q
  <2> QED
    BY <1>2, <2>1, <2>2
<1>11. \A k \in DOMAIN events' : events'[k] \in Writes => Begun(events'[k].root, phase)
  BY <1>3, <1>6, <1>9 DEF AppliedInv, Applied
<1>12. \A k \in DOMAIN events' : events'[k] \in Loads => Past(events'[k].root, phase)
  BY <1>3, <1>10 DEF AppliedInv, Applied
<1> QED
  BY <1>1, <1>7, <1>8, <1>11, <1>12 DEF AppliedInv, Applied

LEMMA ReloadApplied ==
    ASSUME BaseInv, AppliedInv, Reload
    PROVE  AppliedInv'
<1>1. mem'.root = <<>> /\ UNCHANGED disk /\ DOMAIN queue' = {} /\ DOMAIN events' = {}
  BY DEF Reload, Fresh, NoRoot
<1>2. disk.root \in Roots
  BY DEF BaseInv, TypeInv
<1>3. \A d \in Drives : phase[d] # "new" => phase'[d] \in {"done", "lost"}
  BY DEF Reload, BaseInv, TypeInv
<1>4. \A i \in DOMAIN disk.root : disk.root[i] \in Drives
  BY <1>2 DEF Roots
<1>5. Past(disk.root, phase')
  BY <1>3, <1>4 DEF AppliedInv, Applied, Past, Begun
<1>6. Past(mem'.root, phase')
  BY <1>1 DEF Past, Distinct
<1>7. Begun(disk.root, phase')
  BY <1>5, PastBegun
<1> QED
  BY <1>1, <1>5, <1>6, <1>7 DEF AppliedInv, Applied

LEMMA AppliedAlways == ASSUME ResetsShowNoSwap PROVE Spec => []AppliedInv
<1>1. Init => AppliedInv
  <2> SUFFICES ASSUME Init PROVE AppliedInv
    OBVIOUS
  <2>1. /\ mem.root = <<>> /\ disk.root = <<>>
        /\ DOMAIN queue = {} /\ DOMAIN events = {}
    BY DEF Init, Fresh, NoRoot
  <2>2. Past(<<>>, phase) /\ Begun(<<>>, phase)
    BY DEF Past, Begun, Distinct
  <2> QED
    BY <2>1, <2>2 DEF AppliedInv, Applied
<1>2. BaseInv /\ LoadInv /\ AppliedInv /\ [Next]_vars => AppliedInv'
  <2> SUFFICES ASSUME BaseInv, LoadInv, AppliedInv, [Next]_vars PROVE AppliedInv'
    OBVIOUS
  <2>0. TypeInv
    BY DEF BaseInv
  <2>1. ASSUME NEW d \in Drives, Runs(d, mem, events) PROVE AppliedInv'
    BY <2>0, <2>1, RunsApplied DEF AppliedInv
  <2>2. CASE /\ events # <<>>
             /\ Runs(Head(events).drive, Noted(mem, Head(events)), Tail(events))
    BY <2>0, <2>2, NotedApplied, RunsApplied
  <2>3. ASSUME NEW i \in DOMAIN queue, Commit(i) PROVE AppliedInv'
    BY <2>3, CommitApplied
  <2>4. CASE Reload
    BY <2>4, ReloadApplied
  <2>5. CASE UNCHANGED vars
    BY <2>5 DEF vars, AppliedInv, Applied
  <2> QED
    BY <2>1, <2>2, <2>3, <2>4, <2>5, StepCases
<1> QED
  BY <1>1, <1>2, BaseAlways, LoadAlways, PTL DEF Spec

\* No swap is applied twice, on disk or in memory, for any number of drives that
\* interleave at every wait, replays, lost pages and resets, if what the resets set
\* shows no swap.
THEOREM AlwaysAppliedOnce == ASSUME ResetsShowNoSwap PROVE Spec => []AppliedOnce
<1>1. AppliedInv => AppliedOnce
  <2> SUFFICES ASSUME AppliedInv PROVE AppliedOnce
    OBVIOUS
  <2>1. Distinct(mem.root) /\ Distinct(disk.root)
    BY DEF AppliedInv, Applied, Past, Begun
  <2> QED
    BY <2>1 DEF AppliedOnce, Distinct
<1> QED
  BY <1>1, AppliedAlways, PTL

-----------------------------------------------------------------------------
(* What a page shows was shown by drives that are over *)

\* Each reset sets a root of its own.
ResetsApart ==
    /\ ResetsShowNoSwap
    /\ \A d \in Resets : ResetTo[d] # NoRoot
    /\ \A d, f \in Resets : ResetTo[d] = ResetTo[f] => d = f

\* All that a root shows is over.
Settled(r, p) == Past(r, p) /\ \A d \in Resets : r = ResetTo[d] => p[d] \in {"done", "lost"}

\* So it is with the current root, and with each root that a swap has started from.
Shown(m, q, e, p) ==
    /\ Settled(m.root, p)
    /\ ~m.ready => Settled(disk.root, p)
    /\ m.cas # Unset => Settled(m.cas[2], p)
    /\ \A i \in DOMAIN q : q[i] \in Loads => Settled(disk.root, p)
    /\ \A i \in DOMAIN e : e[i] \in Loads => Settled(e[i].root, p)
    /\ \A i \in DOMAIN q : q[i] \in SwapWrites => Settled(q[i].latch[2], p)
    /\ \A i \in DOMAIN e : e[i] \in SwapWrites => Settled(e[i].latch[2], p)
    /\ \A d \in Resets : disk.root = ResetTo[d] => p[d] # "new"

ShownInv == Shown(mem, queue, events, phase)

\* The root of a swap is none that a reset sets, and not the one it started from.
LEMMA NewApart ==
    ASSUME ResetsApart, NEW d \in Swaps, NEW R \in Roots
    PROVE  /\ \A f \in Resets : Append(R, d) # ResetTo[f]
           /\ Append(R, d) # R /\ Append(R, d) # NoRoot
<1> DEFINE n == Append(R, d)
<1>1. /\ Len(R) \in Nat /\ Len(n) = Len(R) + 1 /\ DOMAIN n = 1 .. (Len(R) + 1)
      /\ n[Len(R) + 1] = d /\ n \in Seq(Drives) /\ n # <<>>
  BY AppendParts DEF Roots, Drives
<1> HIDE DEF n
<1>2. n # R
  BY <1>1
<1>3. ASSUME NEW f \in Resets, n = ResetTo[f] PROVE FALSE
  <2>1. n \in Seq(Resets)
    BY <1>3 DEF ResetsApart, ResetsShowNoSwap
  <2>2. Len(R) + 1 \in DOMAIN n
    BY <1>1
  <2>3. \A i \in DOMAIN n : n[i] \in Resets
    BY <2>1
  <2>4. d \in Resets
    BY <1>1, <2>2, <2>3
  <2> QED
    BY <2>4, IdbAssumption
<1> QED
  BY <1>1, <1>2, <1>3 DEF n, NoRoot

LEMMA NewSettled ==
    ASSUME ResetsApart, NEW d \in Drives, NEW m \in Mems, Settled(m.root, phase),
           phase[d] \in {"new", "running"}, phase'[d] = "done",
           \A f \in Drives : f # d => phase'[f] = phase[f]
    PROVE  Settled(New(d, m), phase')
<1>1. Past(New(d, m), phase')
  BY NewShows DEF Settled, ResetsApart
<1>2. ASSUME NEW f \in Resets, New(d, m) = ResetTo[f] PROVE phase'[f] \in {"done", "lost"}
  <2>1. CASE d \in Swaps
    <3>1. m.root \in Roots /\ New(d, m) = Append(m.root, d)
      BY <2>1 DEF Mems, New
    <3> QED
      BY <1>2, <2>1, <3>1, NewApart
  <2>2. CASE d \notin Swaps
    <3>1. d \in Resets /\ New(d, m) = ResetTo[d]
      BY <2>2 DEF New, Drives
    <3>2. d = f
      BY <1>2, <3>1 DEF ResetsApart
    <3> QED
      BY <3>2
  <2> QED
    BY <2>1, <2>2
<1> QED
  BY <1>1, <1>2 DEF Settled

\* What is settled stays settled.
LEMMA SettledStays ==
    ASSUME NEW r \in Roots, NEW p, NEW pp, Settled(r, p),
           \A f \in Drives : p[f] \in {"done", "lost"} => pp[f] \in {"done", "lost"}
    PROVE  Settled(r, pp)
<1>1. \A i \in DOMAIN r : r[i] \in Drives
  BY DEF Roots
<1> QED
  BY <1>1 DEF Settled, Past, Drives

LEMMA RunsShown ==
    ASSUME ResetsApart, TypeInv, NEW d, NEW m, NEW e, Runs(d, m, e),
           Shown(m, queue, e, phase)
    PROVE  ShownInv'
<1>1. /\ d \in Drives /\ m \in Mems /\ RunStep(d, m) /\ events' = e /\ disk' = disk
      /\ queue \in Seq(Requests) /\ e \in Seq(Requests) /\ phase[d] \in {"new", "running"}
      /\ disk.root \in Roots /\ m.root \in Roots
  BY DEF Runs, TypeInv, Mems
<1>2. phase'[d] # "new" /\ \A f \in Drives : f # d => phase'[f] = phase[f]
  BY <1>1, RunsShape DEF Settles, Asks, TypeInv
<1>3. \A r \in Roots : Settled(r, phase) => Settled(r, phase')
  <2>1. \A f \in Drives : phase[f] \in {"done", "lost"} => phase'[f] \in {"done", "lost"}
    BY <1>1, <1>2
  <2> QED
    BY <2>1, SettledStays
<1>4. /\ \A q \in Requests : q \in Loads => q.root \in Roots
      /\ \A q \in Requests : q \in SwapWrites => q.latch[2] \in Roots
      /\ m.cas # Unset => m.cas[2] \in Roots
  <2>1. \A q \in Requests : q \in SwapWrites => q.latch[2] \in Roots
    BY WriteKinds
  <2>2. m.cas # Unset => m.cas[2] \in Roots
    BY <1>1 DEF Mems, CasLatches
  <2> QED
    BY <2>1, <2>2 DEF Loads
<1>5. /\ \A i \in DOMAIN queue : queue[i] \in Requests
      /\ \A i \in DOMAIN e : e[i] \in Requests
  BY <1>1
<1>6. /\ Settled(m.root, phase')
      /\ ~m.ready => Settled(disk.root, phase')
      /\ m.cas # Unset => Settled(m.cas[2], phase')
      /\ \A i \in DOMAIN queue : queue[i] \in Loads => Settled(disk.root, phase')
      /\ \A i \in DOMAIN e : e[i] \in Loads => Settled(e[i].root, phase')
      /\ \A i \in DOMAIN queue : queue[i] \in SwapWrites => Settled(queue[i].latch[2], phase')
      /\ \A i \in DOMAIN e : e[i] \in SwapWrites => Settled(e[i].latch[2], phase')
      /\ \A f \in Resets : disk.root = ResetTo[f] => phase'[f] # "new"
  <2>1. \A f \in Resets : disk.root = ResetTo[f] => phase'[f] # "new"
    BY <1>2 DEF Shown, Drives
  <2> QED
    BY <1>1, <1>3, <1>4, <1>5, <2>1 DEF Shown
<1>7. ASSUME NEW q \in Requests, Asks(d, q), mem'.root = m.root, mem'.ready = m.ready,
             mem'.cas = m.cas,
             q \in Loads => ~m.ready,
             q \in SwapWrites => q.latch[2] = m.root
      PROVE  ShownInv'
  <2>1. \A i \in DOMAIN queue' : (i \in DOMAIN queue /\ queue'[i] = queue[i]) \/ queue'[i] = q
    BY <1>1, <1>7, AsksParts
  <2>2. \A i \in DOMAIN queue' : queue'[i] \in Loads => Settled(disk.root, phase')
    BY <1>6, <1>7, <2>1
  <2>3. \A i \in DOMAIN queue' : queue'[i] \in SwapWrites => Settled(queue'[i].latch[2], phase')
    BY <1>6, <1>7, <2>1
  <2> QED
    BY <1>1, <1>6, <1>7, <2>2, <2>3 DEF ShownInv, Shown
<1>8. /\ Load(d) \in Requests /\ Load(d) \notin SwapWrites
      /\ Put(d, New(d, m)) \in Requests \ (Loads \cup SwapWrites)
      /\ Sweep(d, m.keep) \in Requests \ (Loads \cup SwapWrites)
      /\ Write(d, New(d, m), Latch(d, m)) \in Requests \ Loads
      /\ Write(d, New(d, m), Latch(d, m)) \in SwapWrites =>
            Write(d, New(d, m), Latch(d, m)).latch[2] = m.root
  <2>1. /\ Put(d, New(d, m)).kind = "put" /\ Sweep(d, m.keep).kind = "sweep"
        /\ Load(d).kind = "load"
        /\ Write(d, New(d, m), Latch(d, m)).kind = "write"
        /\ Write(d, New(d, m), Latch(d, m)).drive = d
        /\ Write(d, New(d, m), Latch(d, m)).latch = Latch(d, m)
    BY DEF Put, Sweep, Write, Load
  <2>2. Write(d, New(d, m), Latch(d, m)) \in SwapWrites => Latch(d, m)[2] = m.root
    <3>1. Write(d, New(d, m), Latch(d, m)) \in SwapWrites => d \in Swaps
      BY <2>1, WriteKinds
    <3>2. d \in Swaps => Latch(d, m)[2] = m.root
      BY DEF Latch
    <3> QED
      BY <3>1, <3>2
  <2> QED
    BY <1>1, <2>1, <2>2, NewType, RequestKinds DEF Writes
<1>9. CASE AsksLoad(d, m) \/ AsksPut(d, m)
  BY <1>7, <1>8, <1>9 DEF AsksLoad, AsksPut
<1>10. CASE AsksWrite(d, m) \/ AsksSweep(d, m)
  <2>1. mem'.root = m.root /\ mem'.ready = m.ready /\ mem'.cas = m.cas
    BY <1>1, <1>10 DEF AsksWrite, AsksSweep, Mems
  <2> QED
    BY <1>7, <1>8, <1>10, <2>1 DEF AsksWrite, AsksSweep
<1>11. CASE EndsSwap(d, m) \/ EndsReset(d, m)
  <2>1. /\ mem'.ready = m.ready /\ (mem'.root = m.root \/ mem'.root = New(d, m))
        /\ mem'.cas = m.cas
    BY <1>1, <1>11 DEF EndsSwap, EndsReset, Mems
  <2>2. queue' = queue /\ phase'[d] = "done"
    BY <1>1, <1>11 DEF EndsSwap, EndsReset, Settles, TypeInv
  <2>3. Settled(New(d, m), phase')
    BY <1>1, <1>2, <2>2, NewSettled DEF Shown
  <2> QED
    BY <1>1, <1>6, <2>1, <2>2, <2>3 DEF ShownInv, Shown
<1> QED
  BY <1>1, <1>9, <1>10, <1>11 DEF RunStep

LEMMA NotedShown ==
    ASSUME BaseInv, ShownInv, events # <<>>
    PROVE  Shown(Noted(mem, Head(events)), queue, Tail(events), phase)
<1> DEFINE h == Head(events)
           t == Tail(events)
           m == Noted(mem, h)
<1>1. /\ h \in Requests /\ h = events[1] /\ 1 \in DOMAIN events
      /\ \A i \in DOMAIN t : i + 1 \in DOMAIN events /\ t[i] = events[i + 1]
  BY TailAwaits DEF BaseInv
<1>2. mem \in Mems /\ m = Noted(mem, h) /\ h \in Requests
  BY <1>1 DEF BaseInv, TypeInv
<1> HIDE DEF h, t, m
<1>3. /\ h \in Loads => m.root = h.root /\ m.ready = TRUE
      /\ h \notin Loads => m.root = mem.root /\ m.ready = mem.ready
  BY <1>2, NotedRoot
<1>4. m.cas = IF h \in SwapWrites THEN h.latch ELSE mem.cas
  <2>1. h \in SwapWrites => m.cas = h.latch
    <3>1. h \in SwapWrites => m = [mem EXCEPT !.cas = h.latch]
      BY <1>2, NotedCases
    <3> QED
      BY <1>2, <3>1 DEF Mems
  <2>2. h \in Loads \cup Puts \cup Sweeps => m.cas = mem.cas
    BY <1>2, NotedFields
  <2>3. h \in ResetWrites => m.cas = mem.cas
    BY <1>2, NotedFields
  <2> QED
    BY <1>2, <2>1, <2>2, <2>3 DEF Requests
<1>5. m.cas # Unset => Settled(m.cas[2], phase)
  BY <1>1, <1>4 DEF ShownInv, Shown
<1>6. Settled(m.root, phase)
  BY <1>1, <1>3 DEF ShownInv, Shown
<1>7. ~m.ready => Settled(disk.root, phase)
  BY <1>3 DEF ShownInv, Shown
<1>8. /\ \A i \in DOMAIN t : t[i] \in Loads => Settled(t[i].root, phase)
      /\ \A i \in DOMAIN t : t[i] \in SwapWrites => Settled(t[i].latch[2], phase)
  BY <1>1 DEF ShownInv, Shown
<1> QED
  BY <1>5, <1>6, <1>7, <1>8 DEF ShownInv, Shown, h, t, m

LEMMA CommitShown ==
    ASSUME ResetsApart, BaseInv, LoadInv, ShownInv, NEW i \in DOMAIN queue, Commit(i)
    PROVE  ShownInv'
<1> DEFINE q == queue[i]
<1>0. TypeInv
  BY DEF BaseInv
<1>1. /\ q \in Requests /\ UNCHANGED <<mem, phase>>
      /\ q \in Loads => disk' = disk
      /\ q \in Puts => disk' = [disk EXCEPT !.nodes = @ \cup {q.root}]
      /\ q \in Sweeps => disk' = [disk EXCEPT !.nodes = @ \cap q.keep]
      /\ q \in Writes => disk' = [disk EXCEPT !.root = q.root]
  BY <1>0, CommitParts DEF Writes
<1>2. PICK e \in Requests : /\ events' = Append(events, e)
                            /\ q \in Loads => e \in Loads /\ e.root = disk.root
                            /\ q \notin Loads => e = q
  BY <1>0, CommitParts
<1>3. \A k \in DOMAIN events' : (k \in DOMAIN events /\ events'[k] = events[k]) \/ events'[k] = e
  <2>1. /\ Len(events) \in Nat /\ DOMAIN events = 1 .. Len(events)
        /\ DOMAIN events' = 1 .. (Len(events) + 1)
        /\ \A k \in 1 .. Len(events) : events'[k] = events[k]
        /\ events'[Len(events) + 1] = e
    BY <1>0, <1>2, AppendParts DEF TypeInv
  <2> QED
    BY <2>1
<1>4. \A k \in DOMAIN queue' : \E l \in DOMAIN queue : queue'[k] = queue[l]
  BY <1>0, CommitOrder
<1>5. disk'.root = IF q \in Writes THEN q.root ELSE disk.root
  BY <1>0, <1>1, KindsApart DEF TypeInv
<1>6. q \in Writes => mem.ready /\ \A k \in DOMAIN queue : queue[k] \notin Loads
  BY WriteNeedsLoaded
<1>7. \A f \in Resets : disk'.root = ResetTo[f] => phase[f] # "new"
  <2> SUFFICES ASSUME NEW f \in Resets, disk'.root = ResetTo[f] PROVE phase[f] # "new"
    OBVIOUS
  <2>1. CASE q \in SwapWrites
    <3>1. q.root = Append(q.latch[2], q.drive) /\ q.latch[2] \in Roots /\ q.drive \in Swaps
      BY <2>1, WriteKinds
    <3> QED
      BY <1>5, <2>1, <3>1, NewApart DEF Writes
  <2>2. CASE q \in ResetWrites
    <3>1. q.root = ResetTo[q.drive] /\ q.drive \in Resets
      BY <2>2, WriteKinds
    <3>2. q.drive = f
      BY <1>5, <2>2, <3>1 DEF ResetsApart, Writes
    <3>3. phase[q.drive] = "running"
      BY DEF BaseInv, OneRequest, Awaits
    <3> QED
      BY <3>2, <3>3
  <2>3. CASE q \notin Writes
    BY <1>5, <2>3 DEF ShownInv, Shown
  <2> QED
    BY <2>1, <2>2, <2>3 DEF Writes
<1>8. e \in SwapWrites => e = q /\ q \in SwapWrites
  BY <1>1, <1>2, KindsApart DEF Writes
<1>9. e \in Loads => Settled(e.root, phase)
  <2>1. e \in Loads => q \in Loads
    BY <1>1, <1>2
  <2>2. q \in Loads => Settled(disk.root, phase)
    BY DEF ShownInv, Shown
  <2> QED
    BY <1>2, <2>1, <2>2
<1>10. q \in SwapWrites => Settled(q.latch[2], phase)
  BY DEF ShownInv, Shown
<1> HIDE DEF q
<1>11. \A k \in DOMAIN events' : /\ events'[k] \in Loads => Settled(events'[k].root, phase)
                                 /\ events'[k] \in SwapWrites => Settled(events'[k].latch[2], phase)
  BY <1>3, <1>8, <1>9, <1>10 DEF ShownInv, Shown
<1>12. \A k \in DOMAIN queue' : /\ queue'[k] \in Loads => Settled(disk'.root, phase)
                                /\ queue'[k] \in SwapWrites => Settled(queue'[k].latch[2], phase)
  BY <1>4, <1>5, <1>6 DEF ShownInv, Shown
<1>13. ~mem.ready => Settled(disk'.root, phase)
  BY <1>5, <1>6 DEF ShownInv, Shown
<1> QED
  BY <1>1, <1>7, <1>11, <1>12, <1>13 DEF ShownInv, Shown

LEMMA ShownAlways == ASSUME ResetsApart PROVE Spec => []ShownInv
<1>0. Past(<<>>, phase) /\ Past(<<>>, phase')
  BY DEF Past, Distinct
<1>1. Init => ShownInv
  <2> SUFFICES ASSUME Init PROVE ShownInv
    OBVIOUS
  <2>1. /\ mem.root = NoRoot /\ disk.root = NoRoot /\ mem.cas = Unset
        /\ DOMAIN queue = {} /\ DOMAIN events = {}
    BY DEF Init, Fresh
  <2>2. Settled(NoRoot, phase)
    BY <1>0 DEF Settled, NoRoot, ResetsApart
  <2> QED
    BY <2>1, <2>2 DEF ShownInv, Shown, ResetsApart
<1>2. BaseInv /\ LoadInv /\ AppliedInv /\ ShownInv /\ [Next]_vars => ShownInv'
  <2> SUFFICES ASSUME BaseInv, LoadInv, AppliedInv, ShownInv, [Next]_vars PROVE ShownInv'
    OBVIOUS
  <2>0. TypeInv
    BY DEF BaseInv
  <2>1. ASSUME NEW d \in Drives, Runs(d, mem, events) PROVE ShownInv'
    BY <2>0, <2>1, RunsShown DEF ShownInv
  <2>2. CASE /\ events # <<>>
             /\ Runs(Head(events).drive, Noted(mem, Head(events)), Tail(events))
    BY <2>0, <2>2, NotedShown, RunsShown
  <2>3. ASSUME NEW i \in DOMAIN queue, Commit(i) PROVE ShownInv'
    BY <2>3, CommitShown
  <2>4. CASE Reload
    <3>1. /\ mem'.root = NoRoot /\ mem'.cas = Unset /\ UNCHANGED disk
          /\ DOMAIN queue' = {} /\ DOMAIN events' = {}
      BY <2>4 DEF Reload, Fresh
    <3>2. \A d \in Drives : phase[d] # "new" => phase'[d] \in {"done", "lost"}
      BY <2>0, <2>4 DEF Reload, TypeInv
    <3>3. Past(disk.root, phase')
      <4>1. AppliedInv'
        BY <2>4, ReloadApplied
      <4>2. ~mem'.ready
        BY <2>4 DEF Reload, Fresh
      <4> QED
        BY <3>1, <4>1, <4>2 DEF AppliedInv, Applied
    <3>4. \A d \in Resets : disk.root = ResetTo[d] => phase'[d] \in {"done", "lost"}
      BY <3>2 DEF ShownInv, Shown, Drives
    <3>5. Settled(disk.root, phase')
      BY <3>3, <3>4 DEF Settled
    <3>6. Settled(NoRoot, phase')
      BY <1>0 DEF Settled, NoRoot, ResetsApart
    <3> QED
      BY <3>1, <3>4, <3>5, <3>6 DEF ShownInv, Shown
  <2>5. CASE UNCHANGED vars
    BY <2>5 DEF vars, ShownInv, Shown
  <2> QED
    BY <2>1, <2>2, <2>3, <2>4, <2>5, StepCases
<1> QED
  BY <1>1, <1>2, BaseAlways, LoadAlways, AppliedAlways, PTL DEF Spec, ResetsApart

-----------------------------------------------------------------------------
(* What a quiet page shows is durable *)

\* The latch of a swap that has started from another root than r.
CasOld(m, r) == m.cas = Unset \/ m.cas[2] # r

\* What the page shows is on disk, or the swap that wrote what is on disk still runs.
OnDisk(m, p) ==
    \/ disk.root = m.root /\ CasOld(m, m.root)
    \/ \E f \in Swaps : /\ p[f] = "running" /\ m.cas \in CasLatches
                        /\ m.cas = <<"cas", m.cas[2], Append(m.cas[2], f)>>
                        /\ disk.root = Append(m.cas[2], f)

\* The latch in memory is of the reset d.
SetBy(m, d) == d \in Resets /\ m.set = <<"set", ResetTo[d]>>

NoWrites(e) == \A i \in DOMAIN e : e[i] \notin Writes

\* The last write whose callback is to run is what is on disk; a load brings what is
\* current.
Lags(m, q, e) ==
    /\ \A i \in DOMAIN e :
         e[i] \in Writes /\ (\A j \in DOMAIN e : j > i => e[j] \notin Writes)
           => disk.root = e[i].root
    /\ \A i \in DOMAIN q : q[i] \in Loads /\ m.ready => disk.root = m.root
    /\ \A i \in DOMAIN e : e[i] \in Loads => e[i].root = IF m.ready THEN m.root ELSE disk.root

DurableInv ==
    /\ Lags(mem, queue, events)
    /\ \A d \in Resets : SetBy(mem, d) => phase[d] \in {"done", "lost"}
    /\ mem.ready /\ NoWrites(events) => OnDisk(mem, phase)

\* The same in the memory m with which a drive d is about to run.
Durable(d, m, e) ==
    /\ Lags(m, queue, e)
    /\ \A f \in Resets \ {d} : SetBy(m, f) => phase[f] \in {"done", "lost"}
    /\ m.ready /\ NoWrites(e) =>
         IF SetBy(m, d) THEN disk.root = ResetTo[d] /\ CasOld(m, ResetTo[d])
         ELSE OnDisk(m, phase)

LEMMA RunsDurable ==
    ASSUME ResetsApart, TypeInv, NEW d, NEW m, NEW e, Runs(d, m, e), LoadsFirst(m, queue, e),
           Shown(m, queue, e, phase), Durable(d, m, e)
    PROVE  DurableInv'
<1>1. /\ d \in Drives /\ m \in Mems /\ RunStep(d, m) /\ events' = e /\ disk' = disk
      /\ queue \in Seq(Requests) /\ e \in Seq(Requests) /\ phase[d] \in {"new", "running"}
      /\ disk.root \in Roots /\ m.root \in Roots
  BY DEF Runs, TypeInv, Mems
<1>2. \A f \in Drives : f # d => phase'[f] = phase[f]
  BY <1>1, RunsShape DEF Settles, Asks, TypeInv
<1>3. CASE AsksLoad(d, m) \/ AsksPut(d, m) \/ AsksWrite(d, m) \/ AsksSweep(d, m)
  <2>1. PICK q \in Requests : Asks(d, q) /\ (q \in Loads => ~m.ready)
    <3>1. /\ Put(d, New(d, m)).kind = "put" /\ Sweep(d, m.keep).kind = "sweep"
          /\ Write(d, New(d, m), Latch(d, m)).kind = "write"
      BY DEF Put, Sweep, Write
    <3>2. /\ Load(d) \in Requests
          /\ Put(d, New(d, m)) \in Requests \ Loads
          /\ Sweep(d, m.keep) \in Requests \ Loads
          /\ Write(d, New(d, m), Latch(d, m)) \in Requests \ Loads
      BY <1>1, <3>1, NewType, RequestKinds
    <3> QED
      BY <1>3, <3>2 DEF AsksLoad, AsksPut, AsksWrite, AsksSweep
  <2>2. mem'.root = m.root /\ mem'.ready = m.ready /\ mem'.cas = m.cas /\ mem'.set = m.set
    BY <1>1, <1>3 DEF AsksLoad, AsksPut, AsksWrite, AsksSweep, Mems
  <2>3. ~SetBy(m, d)
    <3>1. m.set = Unset \/ d \in Swaps \/ ~Latched(d, m)
      BY <1>3 DEF AsksLoad, AsksPut, AsksWrite, AsksSweep, LoadsFirst
    <3>2. d \notin Swaps /\ ~Latched(d, m) => m.set # <<"set", ResetTo[d]>>
      BY DEF Latched, Latch, New
    <3>3. d \in Swaps => d \notin Resets
      BY IdbAssumption
    <3>4. <<"set", ResetTo[d]>> # Unset
      BY DEF Unset
    <3> QED
      BY <3>1, <3>2, <3>3, <3>4 DEF SetBy
  <2>4. phase'[d] = "running"
    BY <1>1, <2>1 DEF Asks, TypeInv
  <2>5. \A i \in DOMAIN queue' : (i \in DOMAIN queue /\ queue'[i] = queue[i]) \/ queue'[i] = q
    BY <1>1, <2>1, AsksParts
  <2>6. Lags(mem', queue', events')
    BY <1>1, <2>1, <2>2, <2>5 DEF Durable, Lags
  <2>7. \A f \in Resets : SetBy(mem', f) => phase'[f] \in {"done", "lost"}
    BY <1>2, <2>2, <2>3 DEF Durable, SetBy, Drives
  <2>8. mem'.ready /\ NoWrites(events') => OnDisk(mem', phase')
    <3> SUFFICES ASSUME m.ready, NoWrites(e) PROVE OnDisk(mem', phase')
      BY <1>1, <2>2
    <3>1. OnDisk(m, phase)
      BY <2>3 DEF Durable
    <3>2. \A f \in Swaps : phase[f] = "running" => phase'[f] = "running"
      BY <1>2, <2>4 DEF Drives
    <3> QED
      BY <1>1, <2>2, <3>1, <3>2 DEF OnDisk, CasOld
  <2>9. Lags(mem, queue, events)'
    BY <1>1, <2>6 DEF Lags
  <2>10. (\A f \in Resets : SetBy(mem, f) => phase[f] \in {"done", "lost"})'
    BY <2>7 DEF SetBy
  <2>11. (mem.ready /\ NoWrites(events) => OnDisk(mem, phase))'
    BY <1>1, <2>8 DEF OnDisk, CasOld, NoWrites
  <2> QED
    BY <2>9, <2>10, <2>11 DEF DurableInv
<1>4. CASE EndsSwap(d, m)
  <2> DEFINE n == New(d, m)
  <2>1. /\ mem'.root = n /\ mem'.ready = m.ready /\ mem'.cas = m.cas /\ mem'.set = m.set
        /\ queue' = queue
    BY <1>1, <1>4 DEF EndsSwap, Mems, Settles
  <2>2. /\ d \in Swaps /\ n = Append(m.root, d) /\ m.cas = <<"cas", m.root, n>> /\ m.ready
        /\ m.cas # Unset
    BY <1>4 DEF EndsSwap, Latched, Latch, New, Unset
  <2>3. d \notin Resets
    BY <2>2, IdbAssumption
  <2>4. n # m.root
    BY <1>1, <2>2, NewApart
  <2> HIDE DEF n
  <2>5. Lags(mem, queue, events)'
    <3>1. /\ \A i \in DOMAIN queue : queue[i] \notin Loads
          /\ \A i \in DOMAIN e : e[i] \notin Loads
      BY <2>2 DEF LoadsFirst
    <3> QED
      BY <1>1, <2>1, <3>1 DEF Lags, Durable
  <2>6. (\A f \in Resets : SetBy(mem, f) => phase[f] \in {"done", "lost"})'
    BY <1>2, <2>1, <2>3 DEF Durable, SetBy, Drives
  <2>7. (mem.ready /\ NoWrites(events) => OnDisk(mem, phase))'
    <3> SUFFICES ASSUME NoWrites(e) PROVE OnDisk(mem, phase)'
      BY <1>1 DEF NoWrites
    <3>1. OnDisk(m, phase)
      BY <2>2, <2>3 DEF Durable, SetBy
    <3>2. m.cas[2] = m.root
      BY <2>2
    <3>3. disk.root = n
      BY <2>2, <3>1, <3>2 DEF OnDisk, CasOld
    <3> QED
      BY <1>1, <2>1, <2>4, <3>2, <3>3 DEF OnDisk, CasOld
  <2> QED
    BY <2>5, <2>6, <2>7 DEF DurableInv
<1>5. CASE EndsReset(d, m)
  <2>1. /\ d \in Resets /\ d \notin Swaps /\ New(d, m) = ResetTo[d] /\ phase'[d] = "done"
        /\ queue' = queue
    BY <1>1, <1>5, IdbAssumption DEF EndsReset, New, Settles, TypeInv
  <2>2. m.root # ResetTo[d]
    BY <1>1, <2>1 DEF Shown, Settled
  <2>3. SetBy(m, d) /\ mem' = [m EXCEPT !.root = ResetTo[d]] /\ m.ready
    BY <1>5, <2>1, <2>2 DEF EndsReset, SetBy, Latch
  <2>4. /\ mem'.root = ResetTo[d] /\ mem'.ready = m.ready /\ mem'.cas = m.cas
        /\ mem'.set = m.set
    BY <1>1, <2>3 DEF Mems
  <2>5. Lags(mem, queue, events)'
    <3>1. m.set # Unset
      BY <2>3 DEF SetBy, Unset
    <3>2. /\ \A i \in DOMAIN queue : queue[i] \notin Loads
          /\ \A i \in DOMAIN e : e[i] \notin Loads
      BY <3>1 DEF LoadsFirst
    <3> QED
      BY <1>1, <2>1, <2>4, <3>2 DEF Lags, Durable
  <2>6. (\A f \in Resets : SetBy(mem, f) => phase[f] \in {"done", "lost"})'
    BY <1>2, <2>1, <2>4 DEF Durable, SetBy, Drives
  <2>7. (mem.ready /\ NoWrites(events) => OnDisk(mem, phase))'
    <3> SUFFICES ASSUME NoWrites(e) PROVE OnDisk(mem, phase)'
      BY <1>1 DEF NoWrites
    <3> QED
      BY <1>1, <2>3, <2>4 DEF Durable, OnDisk, CasOld
  <2> QED
    BY <2>5, <2>6, <2>7 DEF DurableInv
<1> QED
  BY <1>1, <1>3, <1>4, <1>5 DEF RunStep

LEMMA NotedDurable ==
    ASSUME ResetsApart, BaseInv, LoadInv, ShownInv, DurableInv, events # <<>>
    PROVE  Durable(Head(events).drive, Noted(mem, Head(events)), Tail(events))
<1> DEFINE h == Head(events)
           t == Tail(events)
           m == Noted(mem, h)
           d == h.drive
<1>1. /\ h \in Requests /\ h = events[1] /\ 1 \in DOMAIN events
      /\ \A i \in DOMAIN t : i + 1 \in DOMAIN events /\ i + 1 # 1 /\ t[i] = events[i + 1]
      /\ phase[d] = "running"
  BY TailAwaits DEF BaseInv
<1>2. mem \in Mems /\ m = Noted(mem, h) /\ h \in Requests
  BY <1>1 DEF BaseInv, TypeInv
<1>3. /\ DOMAIN events = 1 .. Len(events) /\ Len(events) \in Nat
      /\ DOMAIN t = 1 .. (Len(events) - 1)
      /\ \A i \in DOMAIN events : events[i] \in Requests
  BY TailParts DEF BaseInv, TypeInv
<1> HIDE DEF h, t, m, d
<1>4. /\ h \in Loads => m.root = h.root /\ m.ready = TRUE
      /\ h \notin Loads => m.root = mem.root /\ m.ready = mem.ready
  BY <1>2, NotedRoot
<1>5. /\ h \in SwapWrites => m.cas = h.latch /\ m.set = mem.set
      /\ h \in ResetWrites => m.cas = mem.cas /\ m.set = h.latch
      /\ h \notin Writes => m.cas = mem.cas /\ m.set = mem.set
  <2>1. h \in SwapWrites => m.cas = h.latch /\ m.set = mem.set
    <3>1. h \in SwapWrites => m = [mem EXCEPT !.cas = h.latch]
      BY <1>2, NotedCases
    <3> QED
      BY <1>2, <3>1 DEF Mems
  <2>2. h \in ResetWrites => m.cas = mem.cas /\ m.set = h.latch
    <3>1. h \in ResetWrites => m = [mem EXCEPT !.set = h.latch]
      BY <1>2, NotedCases
    <3> QED
      BY <1>2, <3>1 DEF Mems
  <2>3. h \in Loads \cup Puts \cup Sweeps => m.cas = mem.cas /\ m.set = mem.set
    BY <1>2, NotedFields
  <2> QED
    BY <1>2, <2>1, <2>2, <2>3 DEF Requests, Writes
<1>6. \A i \in DOMAIN t : t[i] \in Writes /\ (\A j \in DOMAIN t : j > i => t[j] \notin Writes)
                            => disk.root = t[i].root
  <2> SUFFICES ASSUME NEW i \in DOMAIN t, t[i] \in Writes,
                      \A j \in DOMAIN t : j > i => t[j] \notin Writes
               PROVE  disk.root = t[i].root
    OBVIOUS
  <2>1. \A j \in DOMAIN events : j > i + 1 => events[j] \notin Writes
    <3> SUFFICES ASSUME NEW j \in DOMAIN events, j > i + 1 PROVE events[j] \notin Writes
      OBVIOUS
    <3>1. j - 1 \in DOMAIN t /\ j - 1 > i /\ (j - 1) + 1 = j
      BY <1>3
    <3>2. t[j - 1] = events[j]
      BY <1>1, <3>1
    <3> QED
      BY <3>1, <3>2
  <2> QED
    BY <1>1, <2>1 DEF DurableInv, Lags
<1>7. NoWrites(t) => \A j \in DOMAIN events : j > 1 => events[j] \notin Writes
  <2> SUFFICES ASSUME NoWrites(t), NEW j \in DOMAIN events, j > 1 PROVE events[j] \notin Writes
    OBVIOUS
  <2>1. j - 1 \in DOMAIN t /\ (j - 1) + 1 = j
    BY <1>3
  <2>2. t[j - 1] = events[j]
    BY <1>1, <2>1
  <2> QED
    BY <2>1, <2>2 DEF NoWrites
<1>8. NoWrites(t) => IF h \in Writes THEN disk.root = h.root ELSE NoWrites(events)
  <2>1. NoWrites(t) /\ h \in Writes => disk.root = h.root
    BY <1>1, <1>7 DEF DurableInv, Lags
  <2>2. NoWrites(t) /\ h \notin Writes => NoWrites(events)
    BY <1>1, <1>3, <1>7 DEF NoWrites
  <2> QED
    BY <2>1, <2>2
<1>9. \A i \in DOMAIN t : t[i] \in Loads => t[i].root = IF m.ready THEN m.root ELSE disk.root
  <2> SUFFICES ASSUME NEW i \in DOMAIN t, t[i] \in Loads
               PROVE  t[i].root = IF m.ready THEN m.root ELSE disk.root
    OBVIOUS
  <2>1. t[i].root = IF mem.ready THEN mem.root ELSE disk.root
    BY <1>1 DEF DurableInv, Lags
  <2>2. h \in Loads => h.root = IF mem.ready THEN mem.root ELSE disk.root
    BY <1>1 DEF DurableInv, Lags
  <2> QED
    BY <1>4, <2>1, <2>2
<1>10. \A i \in DOMAIN queue : queue[i] \in Loads /\ m.ready => disk.root = m.root
  <2> SUFFICES ASSUME NEW i \in DOMAIN queue, queue[i] \in Loads, m.ready
               PROVE  disk.root = m.root
    OBVIOUS
  <2>1. mem.ready => disk.root = mem.root
    BY DEF DurableInv, Lags
  <2>2. h \in Loads => h.root = IF mem.ready THEN mem.root ELSE disk.root
    BY <1>1 DEF DurableInv, Lags
  <2> QED
    BY <1>4, <2>1, <2>2
<1>11. Lags(m, queue, t)
  BY <1>6, <1>9, <1>10 DEF Lags
<1>12. \A f \in Resets \ {d} : SetBy(m, f) => phase[f] \in {"done", "lost"}
  <2>1. CASE h \in ResetWrites
    <3>1. /\ m.set = <<"set", ResetTo[d]>> /\ d \in Resets
      BY <1>5, <2>1, WriteKinds DEF d
    <3>2. \A f \in Resets \ {d} : ~SetBy(m, f)
      <4> SUFFICES ASSUME NEW f \in Resets, SetBy(m, f) PROVE f = d
        OBVIOUS
      <4>1. <<"set", ResetTo[d]>> = <<"set", ResetTo[f]>>
        BY <3>1 DEF SetBy
      <4>2. ResetTo[d] = ResetTo[f]
        BY <4>1
      <4> QED
        BY <3>1, <4>2 DEF ResetsApart
    <3> QED
      BY <3>2
  <2>2. CASE h \notin ResetWrites
    BY <1>5, <2>2 DEF DurableInv, SetBy, Writes
  <2> QED
    BY <2>1, <2>2
<1>13. ASSUME m.ready, NoWrites(t)
       PROVE  IF SetBy(m, d) THEN disk.root = ResetTo[d] /\ CasOld(m, ResetTo[d])
              ELSE OnDisk(m, phase)
  <2>1. CASE h \in ResetWrites
    <3>1. /\ d \in Resets /\ h.latch = <<"set", ResetTo[d]>> /\ h.root = ResetTo[d]
      BY <2>1, WriteKinds DEF d
    <3>2. SetBy(m, d)
      BY <1>5, <2>1, <3>1 DEF SetBy
    <3>3. disk.root = ResetTo[d]
      BY <1>8, <1>13, <2>1, <3>1 DEF Writes
    <3>4. CasOld(m, ResetTo[d])
      <4>1. m.cas # Unset => Settled(m.cas[2], phase)
        BY <1>5, <2>1 DEF ShownInv, Shown
      <4> QED
        BY <1>1, <3>1, <4>1 DEF Settled, CasOld
    <3> QED
      BY <3>2, <3>3, <3>4
  <2>2. CASE h \notin ResetWrites
    <3>1. ~SetBy(m, d)
      <4>1. SetBy(m, d) => SetBy(mem, d)
        BY <1>5, <2>2 DEF SetBy, Writes
      <4>2. SetBy(mem, d) => phase[d] \in {"done", "lost"}
        BY DEF DurableInv, SetBy
      <4> QED
        BY <1>1, <4>1, <4>2
    <3>2. CASE h \in SwapWrites
      <4>1. /\ d \in Swaps /\ h.latch \in CasLatches /\ h.root = Append(h.latch[2], d)
            /\ h.latch[3] = h.root
        BY <3>2, WriteKinds DEF d
      <4>2. h.latch = <<"cas", h.latch[2], Append(h.latch[2], d)>>
        BY <4>1 DEF CasLatches
      <4>3. disk.root = h.root
        BY <1>8, <1>13, <3>2 DEF Writes
      <4>4. OnDisk(m, phase)
        BY <1>1, <1>5, <3>2, <4>1, <4>2, <4>3 DEF OnDisk
      <4> QED
        BY <3>1, <4>4
    <3>3. CASE h \notin Writes
      <4>1. NoWrites(events) /\ m.cas = mem.cas
        BY <1>5, <1>8, <1>13, <3>3
      <4>2. CASE mem.ready
        <5>1. OnDisk(mem, phase)
          BY <4>1, <4>2 DEF DurableInv
        <5>2. m.root = mem.root
          <6>1. h \in Loads => h.root = mem.root
            BY <1>1, <4>2 DEF DurableInv, Lags
          <6> QED
            BY <1>4, <6>1
        <5> QED
          BY <3>1, <4>1, <5>1, <5>2 DEF OnDisk, CasOld
      <4>3. CASE ~mem.ready
        <5>1. h \in Loads
          BY <1>4, <1>13, <4>3
        <5>2. h.root = disk.root
          BY <1>1, <4>3, <5>1 DEF DurableInv, Lags
        <5>3. mem.cas = Unset
          BY <4>3 DEF LoadInv, LoadsFirst
        <5> QED
          BY <1>4, <3>1, <4>1, <5>1, <5>2, <5>3 DEF OnDisk, CasOld
      <4> QED
        BY <4>2, <4>3
    <3> QED
      BY <2>2, <3>2, <3>3 DEF Writes
  <2> QED
    BY <2>1, <2>2
<1>14. Durable(d, m, t)
  BY <1>11, <1>12, <1>13 DEF Durable
<1> QED
  BY <1>14 DEF d, h, m, t

LEMMA CommitDurable ==
    ASSUME ResetsApart, BaseInv, LoadInv, DurableInv, NEW i \in DOMAIN queue, Commit(i)
    PROVE  DurableInv'
<1> DEFINE q == queue[i]
           n == Len(events)
<1>0. TypeInv
  BY DEF BaseInv
<1>1. /\ q \in Requests /\ UNCHANGED <<mem, phase>>
      /\ q \in Loads => disk' = disk
      /\ q \in Puts => disk' = [disk EXCEPT !.nodes = @ \cup {q.root}]
      /\ q \in Sweeps => disk' = [disk EXCEPT !.nodes = @ \cap q.keep]
      /\ q \in Writes => disk' = [disk EXCEPT !.root = q.root]
  BY <1>0, CommitParts DEF Writes
<1>2. PICK e \in Requests : /\ events' = Append(events, e)
                            /\ q \in Loads => e \in Loads /\ e.root = disk.root
                            /\ q \notin Loads => e = q
  BY <1>0, CommitParts
<1>3. /\ n \in Nat /\ DOMAIN events = 1 .. n /\ DOMAIN events' = 1 .. (n + 1)
      /\ \A k \in 1 .. n : events'[k] = events[k]
      /\ events'[n + 1] = e
  BY <1>0, <1>2, AppendParts DEF TypeInv
<1>4. \A k \in DOMAIN queue' : \E l \in DOMAIN queue : queue'[k] = queue[l]
  BY <1>0, CommitOrder
<1>5. disk'.root = IF q \in Writes THEN q.root ELSE disk.root
  BY <1>0, <1>1, KindsApart DEF TypeInv
<1>6. q \in Writes => mem.ready /\ \A k \in DOMAIN queue : queue[k] \notin Loads
  BY WriteNeedsLoaded
<1>7. q \in Loads /\ mem.ready => disk.root = mem.root
  BY DEF DurableInv, Lags
<1> HIDE DEF q, n
<1>8. /\ e \in Writes => q \in Writes /\ e = q
      /\ e \in Loads => q \in Loads
      /\ q \in Writes => e = q
  BY <1>1, <1>2, KindsApart
<1>9. \A k \in DOMAIN events' :
         events'[k] \in Writes /\ (\A j \in DOMAIN events' : j > k => events'[j] \notin Writes)
           => disk'.root = events'[k].root
  <2> SUFFICES ASSUME NEW k \in DOMAIN events', events'[k] \in Writes,
                      \A j \in DOMAIN events' : j > k => events'[j] \notin Writes
               PROVE  disk'.root = events'[k].root
    OBVIOUS
  <2>1. CASE k = n + 1
    BY <1>3, <1>5, <1>8, <2>1
  <2>2. CASE k \in 1 .. n
    <3>1. e \notin Writes
      BY <1>3, <2>2
    <3>2. \A j \in DOMAIN events : j > k => events[j] \notin Writes
      BY <1>3
    <3>3. disk.root = events[k].root
      BY <1>3, <2>2, <3>2 DEF DurableInv, Lags
    <3> QED
      BY <1>3, <1>5, <1>8, <2>2, <3>1, <3>3
  <2> QED
    BY <1>3, <2>1, <2>2
<1>10. \A k \in DOMAIN queue' : queue'[k] \in Loads /\ mem.ready => disk'.root = mem.root
  BY <1>4, <1>5, <1>6 DEF DurableInv, Lags
<1>11. \A k \in DOMAIN events' :
          events'[k] \in Loads => events'[k].root = IF mem.ready THEN mem.root ELSE disk'.root
  <2> SUFFICES ASSUME NEW k \in DOMAIN events', events'[k] \in Loads
               PROVE  events'[k].root = IF mem.ready THEN mem.root ELSE disk'.root
    OBVIOUS
  <2>1. ~mem.ready => disk'.root = disk.root
    BY <1>5, <1>6
  <2>2. CASE k = n + 1
    BY <1>2, <1>3, <1>7, <1>8, <2>1, <2>2
  <2>3. CASE k \in 1 .. n
    BY <1>3, <2>1, <2>3 DEF DurableInv, Lags
  <2> QED
    BY <1>3, <2>2, <2>3
<1>12. Lags(mem, queue, events)'
  BY <1>1, <1>9, <1>10, <1>11 DEF Lags
<1>13. (mem.ready /\ NoWrites(events) => OnDisk(mem, phase))'
  <2> SUFFICES ASSUME mem.ready, NoWrites(events') PROVE OnDisk(mem, phase)'
    BY <1>1 DEF NoWrites
  <2>1. NoWrites(events) /\ q \notin Writes
    <3>1. e \notin Writes
      BY <1>3 DEF NoWrites
    <3>2. NoWrites(events)
      BY <1>3 DEF NoWrites
    <3> QED
      BY <1>8, <3>1, <3>2
  <2>2. OnDisk(mem, phase)
    BY <2>1 DEF DurableInv
  <2> QED
    BY <1>1, <1>5, <2>1, <2>2 DEF OnDisk, CasOld
<1> QED
  BY <1>1, <1>12, <1>13 DEF DurableInv, SetBy

LEMMA DurableAlways == ASSUME ResetsApart PROVE Spec => []DurableInv
<1>0. <<"unset">> # <<"set", NoRoot>> /\ \A r : <<"set", r>> # <<"unset">>
  OBVIOUS
<1>1. Init => DurableInv
  <2> SUFFICES ASSUME Init PROVE DurableInv
    OBVIOUS
  <2>1. /\ ~mem.ready /\ mem.set = Unset /\ DOMAIN queue = {} /\ DOMAIN events = {}
    BY DEF Init, Fresh
  <2> QED
    BY <1>0, <2>1 DEF DurableInv, Lags, SetBy, Unset
<1>2. BaseInv /\ LoadInv /\ ShownInv /\ DurableInv /\ [Next]_vars => DurableInv'
  <2> SUFFICES ASSUME BaseInv, LoadInv, ShownInv, DurableInv, [Next]_vars PROVE DurableInv'
    OBVIOUS
  <2>0. TypeInv
    BY DEF BaseInv
  <2>1. ASSUME NEW d \in Drives, phase[d] = "new", Runs(d, mem, events) PROVE DurableInv'
    <3>1. ~SetBy(mem, d)
      BY <2>1 DEF DurableInv, SetBy
    <3>2. Durable(d, mem, events)
      BY <3>1 DEF DurableInv, Durable
    <3> QED
      BY <2>0, <2>1, <3>2, RunsDurable DEF LoadInv, ShownInv
  <2>2. CASE /\ events # <<>>
             /\ Runs(Head(events).drive, Noted(mem, Head(events)), Tail(events))
    BY <2>0, <2>2, NotedLoads, NotedShown, NotedDurable, RunsDurable
  <2>3. ASSUME NEW i \in DOMAIN queue, Commit(i) PROVE DurableInv'
    BY <2>3, CommitDurable
  <2>4. CASE Reload
    <3>1. /\ ~mem'.ready /\ mem'.set = Unset /\ DOMAIN queue' = {} /\ DOMAIN events' = {}
      BY <2>4 DEF Reload, Fresh
    <3> QED
      BY <1>0, <3>1 DEF DurableInv, Lags, SetBy, Unset
  <2>5. CASE UNCHANGED vars
    BY <2>5 DEF vars, DurableInv, Lags, SetBy, NoWrites, OnDisk, CasOld
  <2> QED
    BY <2>1, <2>2, <2>3, <2>4, <2>5, StepCases
<1> QED
  BY <1>1, <1>2, BaseAlways, LoadAlways, ShownAlways, PTL DEF Spec

\* When no drive is running, what the page shows is what a reload brings back, though
\* drives overwrite roots for each other and publish out of order: if each reset sets
\* a root of its own (IdbStale shows that two which set the same one break it).
THEOREM QuietAlwaysDurable == ASSUME ResetsApart PROVE Spec => []QuietIsDurable
<1>1. BaseInv /\ DurableInv => QuietIsDurable
  <2> SUFFICES ASSUME BaseInv, DurableInv, Running = {}, mem.ready PROVE mem.root = disk.root
    BY DEF QuietIsDurable
  <2>1. \A f \in Drives : phase[f] # "running"
    BY DEF Running
  <2>2. NoWrites(events)
    <3>1. \A k \in DOMAIN events : events[k].drive \in Drives /\ phase[events[k].drive] = "running"
      BY RequestKinds DEF BaseInv, TypeInv, OneRequest, Awaits
    <3> QED
      BY <2>1, <3>1 DEF NoWrites
  <2>3. OnDisk(mem, phase)
    BY <2>2 DEF DurableInv
  <2> QED
    BY <2>1, <2>3 DEF OnDisk, Drives
<1> QED
  BY <1>1, BaseAlways, DurableAlways, PTL

-----------------------------------------------------------------------------
(* Drives that follow one another *)

\* One drive runs at a time.
SoloInv ==
    ~overlapped => \A d, f \in Drives : phase[d] = "running" /\ phase[f] = "running" => d = f

\* A drive that runs alone finds no request of another, and none but its own is asked.
LEMMA RunsAlone ==
    ASSUME TypeInv, SoloInv, NEW d, NEW m, NEW e, Runs(d, m, e), ~overlapped',
           overlapped' = overlapped,
           phase[d] = "running" \/ Running = {}
    PROVE  /\ DOMAIN queue = {} /\ DOMAIN e = {}
           /\ \A f \in Drives : phase'[f] = "running" => f = d
           /\ \A f \in Drives \ {d} : phase'[f] = phase[f] /\ phase[f] # "running"
<1>1. /\ d \in Drives
      /\ \A i \in DOMAIN queue : queue[i].drive \in Drives
      /\ \A i \in DOMAIN e : e[i].drive \in Drives
  BY RequestKinds DEF Runs, TypeInv
<1>2. \A f \in Drives : phase[f] = "running" => f = d
  BY <1>1 DEF SoloInv, Running
<1>3. DOMAIN queue = {} /\ DOMAIN e = {}
  BY <1>1, <1>2 DEF Runs, Awaits
<1>4. \A f \in Drives : f # d => phase'[f] = phase[f]
  BY <1>1, RunsShape DEF Settles, Asks, TypeInv
<1> QED
  BY <1>2, <1>3, <1>4

LEMMA CommitAlone ==
    ASSUME BaseInv, SoloInv, ~overlapped, NEW i \in DOMAIN queue, Commit(i)
    PROVE  /\ DOMAIN queue' = {} /\ DOMAIN events = {}
           /\ queue[i].drive \in Drives /\ phase[queue[i].drive] = "running"
           /\ \A f \in Drives : phase[f] = "running" => f = queue[i].drive
           /\ \A k \in DOMAIN queue : k = i
<1>0. TypeInv /\ OneRequest
  BY DEF BaseInv
<1>1. /\ \A k \in DOMAIN queue : queue[k].drive \in Drives /\ phase[queue[k].drive] = "running"
      /\ \A k \in DOMAIN events : events[k].drive \in Drives /\ phase[events[k].drive] = "running"
  BY <1>0, RequestKinds DEF TypeInv, OneRequest, Awaits
<1>2. \A f \in Drives : phase[f] = "running" => f = queue[i].drive
  BY <1>1 DEF SoloInv
<1>3. \A k \in DOMAIN queue : k = i
  BY <1>0, <1>1, <1>2 DEF OneRequest, Awaits
<1>4. DOMAIN events = {}
  BY <1>0, <1>1, <1>2 DEF OneRequest, Awaits
<1>5. \A k \in DOMAIN queue' : \E l \in DOMAIN queue : l # i /\ queue'[k] = queue[l]
  BY <1>0, CommitOrder
<1>6. DOMAIN queue' = {}
  BY <1>3, <1>5
<1> QED
  BY <1>1, <1>2, <1>3, <1>4, <1>6

LEMMA SoloStep ==
    ASSUME BaseInv, SoloInv, [Next]_vars PROVE SoloInv'
<1>0. TypeInv
  BY DEF BaseInv
<1>1. ASSUME NEW d \in Drives, Start(d) PROVE SoloInv'
  <2> SUFFICES ASSUME ~overlapped' PROVE SoloInv'
    BY DEF SoloInv
  <2>1. Running = {} /\ Runs(d, mem, events)
    BY <1>0, <1>1, StartRuns DEF Start, BaseInv
  <2>2. \A f \in Drives : f # d => phase'[f] = phase[f]
    BY <1>0, <2>1, RunsShape DEF Settles, Asks, TypeInv
  <2> QED
    BY <2>1, <2>2 DEF SoloInv, Running
<1>2. CASE Callback
  <2>1. PICK d : /\ Runs(d, Noted(mem, Head(events)), Tail(events))
                 /\ d \in Drives /\ phase[d] = "running"
    BY <1>2, CallbackRuns, TailAwaits, RequestKinds DEF BaseInv
  <2>2. \A f \in Drives : f # d => phase'[f] = phase[f]
    BY <1>0, <2>1, RunsShape DEF Settles, Asks, TypeInv
  <2>3. overlapped' = overlapped
    BY <1>2 DEF Callback
  <2> QED
    BY <2>1, <2>2, <2>3 DEF SoloInv
<1>3. ASSUME NEW i \in DOMAIN queue, Commit(i) PROVE SoloInv'
  BY <1>3 DEF Commit, SoloInv
<1>4. CASE Reload
  BY <1>0, <1>4 DEF Reload, SoloInv, TypeInv
<1>5. CASE UNCHANGED vars
  BY <1>5 DEF vars, SoloInv
<1> QED
  BY <1>1, <1>2, <1>3, <1>4, <1>5 DEF Next

LEMMA SoloAlways == Spec => []SoloInv
<1>1. Init => SoloInv
  BY DEF Init, SoloInv
<1>2. BaseInv /\ SoloInv /\ [Next]_vars => SoloInv'
  BY SoloStep
<1> QED
  BY <1>1, <1>2, BaseAlways, PTL DEF Spec

-----------------------------------------------------------------------------
(* Swaps that have returned *)

Has(r, d) == \E i \in DOMAIN r : r[i] = d

\* The root has every swap that has returned.
HasDone(r, p) == \A d \in Swaps : p[d] = "done" => Has(r, d)

\* The latch in memory is of a swap that has begun; while it runs, its write is on disk.
CasOnDisk(m, p) ==
    \A f \in Swaps, R \in Roots : m.cas = <<"cas", R, Append(R, f)>> =>
        p[f] # "new" /\ (p[f] = "running" => Has(disk.root, f))

Acked(m, q, e, p) ==
    /\ HasDone(disk.root, p)
    /\ m.ready => HasDone(m.root, p)
    /\ \A i \in DOMAIN q : q[i] \in Writes => HasDone(q[i].root, p)
    /\ \A i \in DOMAIN e : e[i] \in Loads => HasDone(e[i].root, p)
    /\ \A i \in DOMAIN e : e[i] \in Writes => disk.root = e[i].root
    /\ CasOnDisk(m, p)

AckedInv ==
    ~overlapped /\ (\A d \in Resets : phase[d] = "new") => Acked(mem, queue, events, phase)

LEMMA AppendHas ==
    ASSUME NEW R \in Roots, NEW d \in Swaps
    PROVE  /\ Has(Append(R, d), d)
           /\ \A f : Has(R, f) => Has(Append(R, d), f)
<1> DEFINE n == Append(R, d)
<1>1. /\ Len(R) \in Nat /\ DOMAIN R = 1 .. Len(R) /\ DOMAIN n = 1 .. (Len(R) + 1)
      /\ n[Len(R) + 1] = d /\ \A i \in 1 .. Len(R) : n[i] = R[i]
  BY AppendParts DEF Roots, Drives
<1> HIDE DEF n
<1>2. Len(R) + 1 \in DOMAIN n /\ \A i \in DOMAIN R : i \in DOMAIN n
  BY <1>1
<1>3. Has(n, d) /\ \A f : Has(R, f) => Has(n, f)
  BY <1>1, <1>2 DEF Has
<1> QED
  BY <1>3 DEF n

\* A latch names its swap.
LEMMA LatchSwap ==
    ASSUME NEW R \in Roots, NEW S \in Roots, NEW d \in Swaps, NEW f \in Swaps,
           <<"cas", R, Append(R, d)>> = <<"cas", S, Append(S, f)>>
    PROVE  R = S /\ d = f
<1>1. R = S /\ Append(R, d) = Append(R, f)
  OBVIOUS
<1>2. /\ Append(R, d)[Len(R) + 1] = d /\ Append(R, f)[Len(R) + 1] = f
  BY AppendParts DEF Roots, Drives
<1> QED
  BY <1>1, <1>2

LEMMA RunsAcked ==
    ASSUME TypeInv, NEW d, NEW m, NEW e, Runs(d, m, e), DOMAIN queue = {}, DOMAIN e = {},
           \A f \in Drives \ {d} : phase'[f] = phase[f] /\ phase[f] # "running",
           d \in Swaps, Acked(m, queue, e, phase)
    PROVE  Acked(mem, queue, events, phase)'
<1>1. /\ d \in Drives /\ m \in Mems /\ RunStep(d, m) /\ events' = e /\ disk' = disk
      /\ queue \in Seq(Requests) /\ phase[d] \in {"new", "running"}
      /\ disk.root \in Roots /\ m.root \in Roots /\ d \notin Resets
  BY IdbAssumption DEF Runs, TypeInv, Mems
<1>2. New(d, m) = Append(m.root, d) /\ Latch(d, m) = <<"cas", m.root, Append(m.root, d)>>
  BY DEF New, Latch
<1>3. Latched(d, m) <=> m.cas = <<"cas", m.root, Append(m.root, d)>>
  BY <1>2 DEF Latched
<1>4. CASE Settles(d)
  <2>1. EndsSwap(d, m)
    <3>1. phase'[d] = "done"
      BY <1>1, <1>4 DEF Settles, TypeInv
    <3>2. \A q : Asks(d, q) => phase'[d] = "running"
      BY <1>1 DEF Asks, TypeInv
    <3> QED
      BY <1>1, <3>1, <3>2
         DEF RunStep, AsksLoad, AsksPut, AsksWrite, AsksSweep, EndsReset
  <2>2. /\ m.ready /\ m.cas = <<"cas", m.root, Append(m.root, d)>>
        /\ mem'.root = Append(m.root, d) /\ mem'.cas = m.cas
        /\ queue' = queue /\ phase'[d] = "done"
    BY <1>1, <1>2, <1>3, <1>4, <2>1 DEF EndsSwap, Settles, TypeInv, Mems
  <2>3. Has(disk.root, d)
    BY <1>1, <2>2 DEF Acked, CasOnDisk
  <2>4. \A f \in Swaps : phase'[f] = "done" => f = d \/ phase[f] = "done"
    BY DEF Drives
  <2>5. HasDone(disk.root, phase')
    BY <2>3, <2>4 DEF Acked, HasDone
  <2>6. HasDone(mem'.root, phase')
    BY <1>1, <2>2, <2>4, AppendHas DEF Acked, HasDone
  <2>7. CasOnDisk(mem, phase)'
    <3> SUFFICES ASSUME NEW f \in Swaps, NEW R \in Roots, m.cas = <<"cas", R, Append(R, f)>>
                 PROVE  phase'[f] # "new" /\ phase'[f] # "running"
      BY <2>2 DEF CasOnDisk
    <3>1. f = d
      BY <1>1, <2>2, LatchSwap
    <3> QED
      BY <2>2, <3>1
  <2> QED
    BY <1>1, <2>2, <2>5, <2>6, <2>7 DEF Acked
<1>5. ASSUME NEW q \in Requests, Asks(d, q), mem'.root = m.root, mem'.ready = m.ready,
             mem'.cas = m.cas,
             q \in Writes => q.root = Append(m.root, d) /\ m.ready
      PROVE  Acked(mem, queue, events, phase)'
  <2>1. phase'[d] = "running"
    BY <1>1, <1>5 DEF Asks, TypeInv
  <2>2. \A r : HasDone(r, phase) => HasDone(r, phase')
    BY <2>1 DEF HasDone, Drives
  <2>3. \A i \in DOMAIN queue' : queue'[i] = q
    BY <1>1, <1>5, AsksParts
  <2>4. q \in Writes => HasDone(q.root, phase')
    <3> SUFFICES ASSUME q \in Writes
                 PROVE  HasDone(q.root, phase')
      OBVIOUS
    <3>1. q.root = Append(m.root, d) /\ HasDone(m.root, phase')
      BY <1>5, <2>2 DEF Acked
    <3>2. \A f : Has(m.root, f) => Has(q.root, f)
      BY <1>1, <3>1, AppendHas
    <3> QED
      BY <3>1, <3>2 DEF HasDone
  <2>5. CasOnDisk(mem, phase)'
    <3> SUFFICES ASSUME NEW f \in Swaps, NEW R \in Roots, m.cas = <<"cas", R, Append(R, f)>>
                 PROVE  phase'[f] # "new" /\ (phase'[f] = "running" => Has(disk.root, f))
      BY <1>1, <1>5 DEF CasOnDisk
    <3>1. phase[f] # "new" /\ (phase[f] = "running" => Has(disk.root, f))
      BY DEF Acked, CasOnDisk
    <3>2. f = d \/ phase'[f] = phase[f]
      BY DEF Drives
    <3> QED
      BY <1>1, <2>1, <3>1, <3>2
  <2> QED
    BY <1>1, <1>5, <2>2, <2>3, <2>4, <2>5 DEF Acked
<1>6. CASE ~Settles(d)
  <2>1. /\ Load(d) \in Requests \ Writes
        /\ Put(d, New(d, m)) \in Requests \ Writes
        /\ Sweep(d, m.keep) \in Requests \ Writes
        /\ Write(d, New(d, m), Latch(d, m)) \in Requests
        /\ Write(d, New(d, m), Latch(d, m)).root = New(d, m)
    <3>1. /\ Put(d, New(d, m)).kind = "put" /\ Sweep(d, m.keep).kind = "sweep"
          /\ Load(d).kind = "load"
          /\ Write(d, New(d, m), Latch(d, m)).root = New(d, m)
      BY DEF Put, Sweep, Write, Load
    <3> QED
      BY <1>1, <3>1, NewType, RequestKinds DEF Writes
  <2>2. CASE AsksLoad(d, m) \/ AsksPut(d, m)
    BY <1>5, <2>1, <2>2 DEF AsksLoad, AsksPut
  <2>3. CASE AsksWrite(d, m) \/ AsksSweep(d, m)
    <3>1. mem'.root = m.root /\ mem'.ready = m.ready /\ mem'.cas = m.cas
      BY <1>1, <2>3 DEF AsksWrite, AsksSweep, Mems
    <3> QED
      BY <1>2, <1>5, <2>1, <2>3, <3>1 DEF AsksWrite, AsksSweep
  <2> QED
    BY <1>1, <1>6, <2>2, <2>3 DEF RunStep, EndsSwap, EndsReset
<1> QED
  BY <1>4, <1>6
\* The callback of a write finds the write on disk, and that of a load the root.
LEMMA NotedAcked ==
    ASSUME BaseInv, events # <<>>, Acked(mem, queue, events, phase)
    PROVE  Acked(Noted(mem, Head(events)), queue, Tail(events), phase)
<1> DEFINE h == Head(events)
           t == Tail(events)
           m == Noted(mem, h)
<1>1. /\ h \in Requests /\ h = events[1] /\ 1 \in DOMAIN events
      /\ \A i \in DOMAIN t : i + 1 \in DOMAIN events /\ t[i] = events[i + 1]
      /\ phase[h.drive] = "running"
  BY TailAwaits DEF BaseInv
<1>2. mem \in Mems /\ m = Noted(mem, h) /\ h \in Requests
  BY <1>1 DEF BaseInv, TypeInv
<1> HIDE DEF h, t, m
<1>3. /\ h \in Loads => m.root = h.root /\ m.ready = TRUE
      /\ h \notin Loads => m.root = mem.root /\ m.ready = mem.ready
  BY <1>2, NotedRoot
<1>4. m.ready => HasDone(m.root, phase)
  BY <1>1, <1>3 DEF Acked
<1>5. /\ \A i \in DOMAIN t : t[i] \in Loads => HasDone(t[i].root, phase)
      /\ \A i \in DOMAIN t : t[i] \in Writes => disk.root = t[i].root
  BY <1>1 DEF Acked
<1>6. CasOnDisk(m, phase)
  <2>1. CASE h \in SwapWrites
    <3>1. /\ m.cas = h.latch /\ h.drive \in Swaps /\ h.latch[2] \in Roots
          /\ h.latch[3] = Append(h.latch[2], h.drive) /\ h.root = h.latch[3]
      <4>1. m.cas = h.latch
        BY <1>2, <2>1, NotedFields
      <4>2. /\ h.drive \in Swaps /\ h.latch[2] \in Roots /\ h.latch[3] = h.root
            /\ h.root = Append(h.latch[2], h.drive)
        BY <2>1, WriteKinds
      <4> QED
        BY <4>1, <4>2
    <3>2. disk.root = h.root
      BY <1>1, <2>1 DEF Acked, Writes
    <3>3. Has(disk.root, h.drive)
      BY <3>1, <3>2, AppendHas
    <3> SUFFICES ASSUME NEW f \in Swaps, NEW R \in Roots, m.cas = <<"cas", R, Append(R, f)>>
                 PROVE  phase[f] # "new" /\ (phase[f] = "running" => Has(disk.root, f))
      BY DEF CasOnDisk
    <3>4. h.latch = <<"cas", R, Append(R, f)>>
      BY <3>1
    <3>5. h.latch[2] = R /\ h.latch[3] = Append(R, f)
      BY <3>4
    <3>6. <<"cas", R, Append(R, f)>> = <<"cas", R, Append(R, h.drive)>>
      BY <3>1, <3>5
    <3>7. f = h.drive
      BY <3>1, <3>6, LatchSwap
    <3> QED
      BY <1>1, <3>3, <3>7
  <2>2. CASE h \notin SwapWrites
    <3>1. h \in Loads \cup Puts \cup Sweeps \cup ResetWrites
      BY <1>2, <2>2 DEF Requests
    <3>2. /\ h \in Loads => m.cas = mem.cas
          /\ h \in Puts => m.cas = mem.cas
      BY <1>2, NotedFields
    <3>3. /\ h \in Sweeps => m.cas = mem.cas
          /\ h \in ResetWrites => m.cas = mem.cas
      BY <1>2, NotedFields
    <3>4. m.cas = mem.cas
      BY <3>1, <3>2, <3>3
    <3> QED
      BY <3>4 DEF Acked, CasOnDisk
  <2> QED
    BY <2>1, <2>2
<1> QED
  BY <1>4, <1>5, <1>6 DEF Acked, h, t, m

\* A write of a swap that runs alone has the swaps that have returned, and its own.
LEMMA CommitAcked ==
    ASSUME BaseInv, SoloInv, ~overlapped, \A d \in Resets : phase[d] = "new",
           Acked(mem, queue, events, phase), NEW i \in DOMAIN queue, Commit(i)
    PROVE  Acked(mem, queue, events, phase)'
<1> DEFINE q == queue[i]
<1>0. TypeInv
  BY DEF BaseInv
<1>1. /\ q \in Requests /\ UNCHANGED <<mem, phase>>
      /\ q \in Loads => disk' = disk
      /\ q \in Puts => disk' = [disk EXCEPT !.nodes = @ \cup {q.root}]
      /\ q \in Sweeps => disk' = [disk EXCEPT !.nodes = @ \cap q.keep]
      /\ q \in Writes => disk' = [disk EXCEPT !.root = q.root]
  BY <1>0, CommitParts DEF Writes
<1>2. PICK e \in Requests : /\ events' = Append(events, e)
                            /\ q \in Loads => e \in Loads /\ e.root = disk.root
                            /\ q \notin Loads => e = q
  BY <1>0, CommitParts
<1>3. /\ DOMAIN queue' = {} /\ DOMAIN events = {}
      /\ q.drive \in Drives /\ phase[q.drive] = "running"
      /\ \A f \in Drives : phase[f] = "running" => f = q.drive
  BY CommitAlone
<1>4. \A k \in DOMAIN events' : events'[k] = e
  <2>1. /\ Len(events) \in Nat /\ DOMAIN events = 1 .. Len(events)
        /\ DOMAIN events' = 1 .. (Len(events) + 1)
        /\ \A k \in 1 .. Len(events) : events'[k] = events[k]
        /\ events'[Len(events) + 1] = e
    BY <1>0, <1>2, AppendParts DEF TypeInv
  <2> QED
    BY <1>3, <2>1
<1>5. disk'.root = IF q \in Writes THEN q.root ELSE disk.root
  BY <1>0, <1>1, KindsApart DEF TypeInv
<1>6. q \in Writes => HasDone(q.root, phase)
  BY DEF Acked
<1>7. q \in Writes => q.drive \in Swaps /\ Has(q.root, q.drive)
  <2> SUFFICES ASSUME q \in Writes PROVE q.drive \in Swaps /\ Has(q.root, q.drive)
    OBVIOUS
  <2>1. q.drive \in Swaps
    BY <1>3 DEF Drives
  <2>2. q.latch[2] \in Roots /\ q.root = Append(q.latch[2], q.drive)
    BY <2>1, WriteKinds DEF Writes
  <2> QED
    BY <2>1, <2>2, AppendHas
<1> HIDE DEF q
<1>8. HasDone(disk'.root, phase)
  BY <1>5, <1>6 DEF Acked
<1>9. e \in Writes => q \in Writes /\ e = q
  BY <1>1, <1>2, KindsApart
<1>10. e \in Loads => q \in Loads /\ e.root = disk.root
  BY <1>1, <1>2
<1>11. e \in Loads => HasDone(e.root, phase)
  BY <1>10 DEF Acked
<1>12. e \in Writes => disk'.root = e.root
  BY <1>5, <1>9
<1>13. CasOnDisk(mem, phase)'
  <2> SUFFICES ASSUME NEW f \in Swaps, NEW R \in Roots, mem.cas = <<"cas", R, Append(R, f)>>
               PROVE  phase[f] # "new" /\ (phase[f] = "running" => Has(disk'.root, f))
    BY <1>1 DEF CasOnDisk
  <2>1. phase[f] # "new" /\ (phase[f] = "running" => Has(disk.root, f))
    BY DEF Acked, CasOnDisk
  <2>2. phase[f] = "running" => f = q.drive
    BY <1>3 DEF Drives
  <2> QED
    BY <1>5, <1>7, <2>1, <2>2
<1>14. /\ mem'.ready => HasDone(mem'.root, phase')
       /\ HasDone(disk'.root, phase')
  BY <1>1, <1>8 DEF Acked
<1>15. /\ \A k \in DOMAIN events' : events'[k] \in Loads => HasDone(events'[k].root, phase')
       /\ \A k \in DOMAIN events' : events'[k] \in Writes => disk'.root = events'[k].root
  BY <1>1, <1>4, <1>11, <1>12
<1> QED
  BY <1>3, <1>13, <1>14, <1>15 DEF Acked

LEMMA ReloadAcked ==
    ASSUME BaseInv, HasDone(disk.root, phase), Reload
    PROVE  Acked(mem, queue, events, phase)'
<1>1. /\ mem'.ready = FALSE /\ mem'.cas = Unset /\ UNCHANGED disk
      /\ DOMAIN queue' = {} /\ DOMAIN events' = {}
  BY DEF Reload, Fresh
<1>2. \A d \in Drives : phase'[d] = "done" => phase[d] = "done"
  BY DEF Reload, BaseInv, TypeInv
<1>3. HasDone(disk.root, phase')
  BY <1>2 DEF HasDone, Drives
<1>4. \A f \in Swaps, R \in Roots : Unset # <<"cas", R, Append(R, f)>>
  BY DEF Unset
<1> QED
  BY <1>1, <1>3, <1>4 DEF Acked, CasOnDisk

LEMMA AckedAlways == Spec => []AckedInv
<1>1. Init => AckedInv
  <2> SUFFICES ASSUME Init PROVE AckedInv
    OBVIOUS
  <2>1. /\ mem.ready = FALSE /\ mem.cas = Unset
        /\ DOMAIN queue = {} /\ DOMAIN events = {}
    BY DEF Init, Fresh
  <2>2. \A r : HasDone(r, phase)
    BY DEF Init, HasDone, Drives
  <2>3. \A f \in Swaps, R \in Roots : Unset # <<"cas", R, Append(R, f)>>
    BY DEF Unset
  <2> QED
    BY <2>1, <2>2, <2>3 DEF AckedInv, Acked, CasOnDisk
<1>2. BaseInv /\ SoloInv /\ AckedInv /\ [Next]_vars => AckedInv'
  <2> SUFFICES ASSUME BaseInv, SoloInv, AckedInv, [Next]_vars,
                      ~overlapped', \A d \in Resets : phase'[d] = "new"
               PROVE  Acked(mem, queue, events, phase)'
    BY DEF AckedInv
  <2>0. TypeInv /\ OneRequest
    BY DEF BaseInv
  <2>1. ASSUME NEW d, NEW m, NEW e, Runs(d, m, e), overlapped' = overlapped,
               phase[d] = "running" \/ Running = {},
               Acked(mem, queue, events, phase) => Acked(m, queue, e, phase)
        PROVE  Acked(mem, queue, events, phase)'
    <3>1. /\ DOMAIN queue = {} /\ DOMAIN e = {} /\ d \in Drives
          /\ \A f \in Drives \ {d} : phase'[f] = phase[f] /\ phase[f] # "running"
      BY <2>0, <2>1, RunsAlone DEF Runs
    <3>2. phase'[d] # "new"
      BY <2>0, <2>1, <3>1, RunsShape DEF Settles, Asks, TypeInv
    <3>3. d \in Swaps /\ \A f \in Resets : phase[f] = "new"
      BY <3>1, <3>2 DEF Drives
    <3> QED
      BY <2>0, <2>1, <3>1, <3>3, RunsAcked DEF AckedInv
  <2>2. ASSUME NEW d \in Drives, Start(d) PROVE Acked(mem, queue, events, phase)'
    <3>1. overlapped' = overlapped /\ Running = {}
      BY <2>0, <2>2 DEF Start, TypeInv
    <3> QED
      BY <2>0, <2>1, <2>2, <3>1, StartRuns
  <2>3. CASE Callback
    <3>1. overlapped' = overlapped /\ events # <<>> /\ phase[Head(events).drive] = "running"
      BY <2>0, <2>3, TailAwaits DEF Callback
    <3> QED
      BY <2>0, <2>1, <2>3, <3>1, CallbackRuns, NotedAcked
  <2>4. ASSUME NEW i \in DOMAIN queue, Commit(i) PROVE Acked(mem, queue, events, phase)'
    <3>1. UNCHANGED <<phase, overlapped>>
      BY <2>4 DEF Commit
    <3> QED
      BY <2>4, <3>1, CommitAcked DEF AckedInv
  <2>5. CASE Reload
    <3>1. overlapped' = overlapped /\ \A d \in Resets : phase[d] = "new"
      BY <2>0, <2>5 DEF Reload, TypeInv, Drives
    <3> QED
      BY <2>5, <3>1, ReloadAcked DEF AckedInv, Acked
  <2>6. CASE UNCHANGED vars
    BY <2>6 DEF vars, AckedInv, Acked, CasOnDisk
  <2> QED
    BY <2>2, <2>3, <2>4, <2>5, <2>6 DEF Next
<1> QED
  BY <1>1, <1>2, BaseAlways, SoloAlways, PTL DEF Spec

\* A swap that has returned is in the root that a reload brings back, as long as drives
\* followed one another and none has set the root: every root that is written was made
\* from one that had it (-cas-root!, drive), whatever was replayed or lost with its page.
THEOREM AckedAlwaysSurvives == Spec => []AckedSurvives
<1>1. AckedInv => AckedSurvives
  BY DEF AckedInv, Acked, AckedSurvives, HasDone, Has
<1> QED
  BY <1>1, AckedAlways, PTL
-----------------------------------------------------------------------------
(* The items of the root *)

\* The latch that tells d that what it makes of the root of m is durable.
Swapped(m, d) == <<"cas", m.root, Append(m.root, d)>>

Held(m, r) == r # NoRoot => m.keep = {r}

\* What a swap that is running finds latched is on disk, and will be kept.
CasStored(m, p) ==
    /\ \A f \in Swaps, R \in Roots : m.cas = <<"cas", R, Append(R, f)>> => p[f] # "new"
    /\ \A f \in Swaps : m.cas = Swapped(m, f) /\ p[f] = "running" =>
          disk.root = Append(m.root, f) /\ Held(m, disk.root)

\* What is in the queue finds its items stored, and a sweep keeps them.
QueueStored(m, q) ==
    /\ \A i \in DOMAIN q : q[i] \in Writes =>
          /\ q[i].root # NoRoot => q[i].root \in disk.nodes
          /\ Held(m, q[i].root)
          /\ m.cas # Swapped(m, q[i].drive)
    /\ \A i \in DOMAIN q : q[i] \in Sweeps =>
          m.cache \subseteq q[i].keep /\ disk.root \in q[i].keep

EventsStored(m, e) ==
    /\ \A i \in DOMAIN e : e[i] \in Puts => e[i].root \in disk.nodes
    /\ \A i \in DOMAIN e : e[i] \in Writes => disk.root = e[i].root /\ Held(m, disk.root)

DiskStored(m) ==
    /\ disk.root # NoRoot => disk.root \in disk.nodes
    /\ m.cache \subseteq disk.nodes

Stored(m, q, e, p) ==
    DiskStored(m) /\ QueueStored(m, q) /\ EventsStored(m, e) /\ CasStored(m, p)

StoredInv == ~overlapped => Stored(mem, queue, events, phase)

\* A swap makes a root that is not the one it was made from.
LEMMA AppendOther ==
    ASSUME NEW R \in Roots, NEW d \in Swaps
    PROVE  Append(R, d) # R /\ Append(R, d) # NoRoot /\ Append(R, d) \in Roots
<1> DEFINE n == Append(R, d)
<1>1. /\ Len(n) = Len(R) + 1 /\ Len(R) \in Nat /\ n \in Roots
  BY DEF Roots, Drives
<1>2. Len(NoRoot) = 0
  BY DEF NoRoot
<1> HIDE DEF n
<1>3. Len(n) # Len(R) /\ Len(n) # Len(NoRoot)
  BY <1>1, <1>2
<1>4. n # R /\ n # NoRoot
  BY <1>3
<1> QED
  BY <1>1, <1>4 DEF n

\* A request is asked, in a memory with the same root and latch.
LEMMA AsksStored ==
    ASSUME TypeInv, NEW d, NEW m, NEW e, Runs(d, m, e), DOMAIN queue = {}, DOMAIN e = {},
           \A f \in Drives \ {d} : phase'[f] = phase[f] /\ phase[f] # "running",
           Stored(m, queue, e, phase), NEW q \in Requests, Asks(d, q), q.drive = d,
           mem'.root = m.root, mem'.cas = m.cas, mem'.cache \subseteq m.cache,
           d \in Swaps /\ m.cas = Swapped(m, d) => mem'.keep = m.keep,
           q \in Writes => /\ q.root # NoRoot => q.root \in disk.nodes
                           /\ Held(mem', q.root)
                           /\ m.cas # Swapped(m, d),
           q \in Sweeps => mem'.cache \subseteq q.keep /\ disk.root \in q.keep,
           m.cas \in {Unset} \cup CasLatches
    PROVE  Stored(mem, queue, events, phase)'
<1>1. /\ d \in Drives /\ events' = e /\ disk' = disk /\ queue \in Seq(Requests)
      /\ phase[d] \in {"new", "running"}
  BY DEF Runs, TypeInv
<1>2. phase'[d] = "running"
  BY <1>1 DEF Asks, TypeInv
<1>3. \A i \in DOMAIN queue' : queue'[i] = q
  BY <1>1, AsksParts
<1>4. \A f : Swapped(mem', f) = Swapped(m, f)
  BY DEF Swapped
<1>5. DiskStored(mem)'
  BY <1>1 DEF Stored, DiskStored
<1>6. QueueStored(mem, queue)'
  BY <1>1, <1>3, <1>4 DEF QueueStored
<1>7. EventsStored(mem, events)'
  BY <1>1 DEF EventsStored
<1>8. ASSUME NEW f \in Swaps, NEW R \in Roots, m.cas = <<"cas", R, Append(R, f)>>
      PROVE  phase'[f] # "new"
  BY <1>2, <1>8 DEF Stored, CasStored, Drives
<1>9. ASSUME NEW f \in Swaps, m.cas = Swapped(m, f), phase'[f] = "running"
      PROVE  disk.root = Append(m.root, f) /\ Held(mem', disk.root)
  <2>1. f = d
    BY <1>9 DEF Drives
  <2>2. phase[f] # "new"
    <3>1. m.root \in Roots
      BY DEF Runs, Mems
    <3> QED
      BY <1>9, <3>1 DEF Stored, CasStored, Swapped
  <2>3. phase[f] = "running" /\ mem'.keep = m.keep
    BY <1>1, <1>9, <2>1, <2>2
  <2> QED
    BY <1>9, <2>3 DEF Stored, CasStored, Held
<1>10. CasStored(mem, phase)'
  BY <1>1, <1>4, <1>8, <1>9 DEF CasStored
<1> QED
  BY <1>5, <1>6, <1>7, <1>10 DEF Stored

\* A drive ends, and the page shows what it made.
LEMMA SettlesStored ==
    ASSUME TypeInv, NEW d, NEW m, NEW e, Runs(d, m, e), DOMAIN queue = {}, DOMAIN e = {},
           \A f \in Drives \ {d} : phase'[f] = phase[f] /\ phase[f] # "running",
           Stored(m, queue, e, phase), Settles(d),
           mem'.cas = m.cas, mem'.cache = m.cache
    PROVE  Stored(mem, queue, events, phase)'
<1>1. /\ d \in Drives /\ events' = e /\ disk' = disk /\ queue' = queue
  BY DEF Runs, Settles
<1>2. \A f \in Drives : phase'[f] # "running" /\ (phase'[f] = "new" => phase[f] = "new")
  BY <1>1 DEF Settles, TypeInv
<1>3. DiskStored(mem)' /\ QueueStored(mem, queue)' /\ EventsStored(mem, events)'
  BY <1>1 DEF Stored, DiskStored, QueueStored, EventsStored
<1>4. CasStored(mem, phase)'
  BY <1>1, <1>2 DEF Stored, CasStored, Drives
<1> QED
  BY <1>3, <1>4 DEF Stored

LEMMA RunsStored ==
    ASSUME TypeInv, NEW d, NEW m, NEW e, Runs(d, m, e), DOMAIN queue = {}, DOMAIN e = {},
           \A f \in Drives \ {d} : phase'[f] = phase[f] /\ phase[f] # "running",
           Stored(m, queue, e, phase)
    PROVE  Stored(mem, queue, events, phase)'
<1>1. /\ d \in Drives /\ m \in Mems /\ RunStep(d, m)
      /\ m.root \in Roots /\ m.cas \in {Unset} \cup CasLatches /\ m.cache \subseteq Roots
      /\ phase[d] \in {"new", "running"}
  BY DEF Runs, Mems
<1> DEFINE put == Put(d, New(d, m))
           load == Load(d)
           write == Write(d, New(d, m), Latch(d, m))
           sweep == Sweep(d, m.keep)
<1>2. /\ put \in Requests /\ put.drive = d /\ put.kind = "put"
      /\ load \in Requests /\ load.drive = d /\ load.kind = "load"
      /\ write \in Requests /\ write.drive = d /\ write.kind = "write" /\ write.root = New(d, m)
      /\ sweep \in Requests /\ sweep.drive = d /\ sweep.kind = "sweep" /\ sweep.keep = m.keep
  BY <1>1, NewType DEF Put, Load, Write, Sweep
<1>3. /\ put \notin Writes \cup Sweeps /\ load \notin Writes \cup Sweeps
      /\ write \notin Sweeps /\ sweep \notin Writes
  BY <1>2, RequestKinds DEF Writes
<1>4. d \in Swaps => /\ New(d, m) = Append(m.root, d)
                     /\ (Latched(d, m) <=> m.cas = Swapped(m, d))
  BY DEF New, Latch, Latched, Swapped
<1>5. CASE AsksLoad(d, m)
  <2>1. Asks(d, load) /\ mem' = m
    BY <1>5 DEF AsksLoad
  <2> HIDE DEF load
  <2> QED
    BY <1>1, <1>2, <1>3, <2>1, AsksStored
<1>6. CASE AsksPut(d, m)
  <2>1. Asks(d, put) /\ mem' = m
    BY <1>6 DEF AsksPut
  <2> HIDE DEF put
  <2> QED
    BY <1>1, <1>2, <1>3, <2>1, AsksStored
<1>7. CASE AsksWrite(d, m)
  <2>1. /\ Asks(d, write) /\ ~Latched(d, m) /\ (New(d, m) = NoRoot \/ New(d, m) \in m.cache)
        /\ mem'.root = m.root /\ mem'.cas = m.cas /\ mem'.cache = m.cache
        /\ mem'.keep = IF New(d, m) = NoRoot THEN m.keep ELSE {New(d, m)}
    BY <1>1, <1>7 DEF AsksWrite, Mems
  <2>2. /\ write.root # NoRoot => write.root \in disk.nodes
        /\ Held(mem', write.root)
    BY <1>2, <2>1 DEF Stored, DiskStored, Held
  <2>3. m.cas # Swapped(m, d)
    <3>1. CASE d \in Swaps
      BY <1>4, <2>1, <3>1
    <3>2. CASE d \notin Swaps
      <4> SUFFICES ASSUME m.cas = Swapped(m, d) PROVE FALSE
        OBVIOUS
      <4>1. Swapped(m, d) # Unset
        BY DEF Swapped, Unset
      <4>2. PICK R \in Roots, f \in Swaps : m.cas = <<"cas", R, Append(R, f)>>
        BY <1>1, <4>1 DEF CasLatches
      <4>3. R = m.root /\ Append(R, f) = Append(m.root, d)
        BY <4>2 DEF Swapped
      <4>4. /\ Append(R, f)[Len(R) + 1] = f /\ Append(m.root, d)[Len(m.root) + 1] = d
        BY <1>1, AppendParts DEF Roots, Drives
      <4> QED
        BY <3>2, <4>3, <4>4
    <3> QED
      BY <3>1, <3>2
  <2> HIDE DEF write
  <2> QED
    BY <1>1, <1>2, <1>3, <2>1, <2>2, <2>3, AsksStored
<1>8. CASE AsksSweep(d, m)
  <2>1. /\ Asks(d, sweep) /\ d \in Swaps /\ m.cas = Swapped(m, d)
        /\ mem'.root = m.root /\ mem'.cas = m.cas /\ mem'.cache = m.cache \cap m.keep
        /\ mem'.keep = m.keep
    BY <1>1, <1>4, <1>8 DEF AsksSweep, Mems
  <2>2. phase[d] # "new"
    BY <1>1, <2>1 DEF Stored, CasStored, Swapped
  <2>3. disk.root = Append(m.root, d) /\ Held(m, disk.root)
    BY <1>1, <2>1, <2>2 DEF Stored, CasStored
  <2>4. disk.root \in m.keep
    BY <1>1, <2>1, <2>3, AppendOther DEF Held
  <2> HIDE DEF sweep
  <2> QED
    BY <1>1, <1>2, <1>3, <2>1, <2>4, AsksStored
<1>9. CASE EndsSwap(d, m) \/ EndsReset(d, m)
  <2>1. Settles(d) /\ mem'.cas = m.cas /\ mem'.cache = m.cache
    BY <1>1, <1>9 DEF EndsSwap, EndsReset, Mems
  <2> QED
    BY <2>1, SettlesStored
<1> QED
  BY <1>1, <1>5, <1>6, <1>7, <1>8, <1>9 DEF RunStep
\* A callback that comes alone: the read cache gets an item that is stored, a latch is
\* of the root on disk, and no latch is there when the root is loaded.
LEMMA NotedStored ==
    ASSUME BaseInv, LoadInv, events # <<>>, Stored(mem, queue, events, phase),
           DOMAIN queue = {}, DOMAIN Tail(events) = {}
    PROVE  Stored(Noted(mem, Head(events)), queue, Tail(events), phase)
<1> DEFINE h == Head(events)
           t == Tail(events)
           m == Noted(mem, h)
<1>1. h \in Requests /\ h = events[1] /\ 1 \in DOMAIN events /\ phase[h.drive] = "running"
  BY TailAwaits DEF BaseInv
<1>2. mem \in Mems /\ m = Noted(mem, h) /\ h \in Requests
  BY <1>1 DEF BaseInv, TypeInv
<1>3. DOMAIN t = {}
  OBVIOUS
<1> HIDE DEF h, t, m
<1>4. m.keep = mem.keep
  BY <1>2, NotedFields
<1>10. /\ m.cas = IF h \in SwapWrites THEN h.latch ELSE mem.cas
       /\ m.cache = IF h \in Puts THEN mem.cache \cup {h.root} ELSE mem.cache
       /\ m.root = IF h \in Loads THEN h.root ELSE mem.root
  BY <1>2, NotedCache
<1>12. h \in Puts \cup Sweeps \cup ResetWrites => h \notin Loads \cup SwapWrites
  BY <1>2, KindsApart DEF Writes
<1>13. h \in Loads \cup SwapWrites => h \notin Puts
  BY <1>2, KindsApart DEF Writes
<1>14. h \in Loads => h \notin SwapWrites
  BY <1>2, KindsApart DEF Writes
<1>15. m \in Mems
  BY <1>2, NotedFields
<1>5. QueueStored(m, queue) /\ EventsStored(m, t)
  BY <1>3 DEF QueueStored, EventsStored
<1>6. CASE h \in Loads
  <2>1. mem.cas = Unset
    BY <1>1, <1>6 DEF LoadInv, LoadsFirst
  <2>2. m.cas = Unset /\ m.cache = mem.cache
    BY <1>6, <1>10, <1>13, <1>14, <2>1
  <2>3. DiskStored(m)
    BY <2>2 DEF Stored, DiskStored
  <2>4. CasStored(m, phase)
    BY <2>2 DEF CasStored, Swapped, Unset
  <2> QED
    BY <1>5, <2>3, <2>4 DEF Stored, h, t, m
<1>7. CASE h \in SwapWrites
  <2>1. m.cas = h.latch /\ m.cache = mem.cache
    BY <1>7, <1>10, <1>13
  <2>2. /\ h.drive \in Swaps /\ h.latch[2] \in Roots /\ h.latch[3] = h.root
        /\ h.root = Append(h.latch[2], h.drive)
    BY <1>7, WriteKinds
  <2>3. disk.root = h.root /\ Held(mem, disk.root)
    BY <1>1, <1>7 DEF Stored, EventsStored, Writes
  <2>4. DiskStored(m)
    BY <2>1 DEF Stored, DiskStored
  <2>5. ASSUME NEW f \in Swaps, NEW R \in Roots, m.cas = <<"cas", R, Append(R, f)>>
        PROVE  f = h.drive /\ R = h.latch[2]
    <3>1. h.latch[2] = R /\ h.latch[3] = Append(R, f)
      BY <2>1, <2>5
    <3>2. <<"cas", R, Append(R, f)>> = <<"cas", R, Append(R, h.drive)>>
      BY <2>2, <3>1
    <3> QED
      BY <2>2, <3>1, <3>2, LatchSwap
  <2>6. \A f \in Swaps, R \in Roots : m.cas = <<"cas", R, Append(R, f)>> => phase[f] # "new"
    BY <1>1, <2>5
  <2>7. m.root \in Roots
    BY <1>15 DEF Mems
  <2>8. ASSUME NEW f \in Swaps, m.cas = Swapped(m, f)
        PROVE  disk.root = Append(m.root, f) /\ Held(m, disk.root)
    <3>1. f = h.drive /\ m.root = h.latch[2]
      BY <2>5, <2>7, <2>8 DEF Swapped
    <3> QED
      BY <1>4, <2>2, <2>3, <3>1 DEF Held
  <2> QED
    BY <1>5, <2>4, <2>6, <2>8 DEF Stored, CasStored, h, t, m
<1>8. CASE h \in Puts \cup Sweeps \cup ResetWrites
  <2>1. m.cache \subseteq disk.nodes
    <3>1. h \in Puts => h.root \in disk.nodes
      BY <1>1 DEF Stored, EventsStored
    <3>2. mem.cache \subseteq disk.nodes
      BY DEF Stored, DiskStored
    <3> QED
      BY <1>10, <3>1, <3>2
  <2>2. m.cas = mem.cas /\ m.root = mem.root
    BY <1>8, <1>10, <1>12
  <2>3. DiskStored(m)
    BY <2>1 DEF Stored, DiskStored
  <2>4. \A f : Swapped(m, f) = Swapped(mem, f)
    BY <2>2 DEF Swapped
  <2>5. CasStored(m, phase)
    BY <1>4, <2>2, <2>4 DEF Stored, CasStored, Held
  <2> QED
    BY <1>5, <2>3, <2>5 DEF Stored, h, t, m
<1> QED
  BY <1>2, <1>6, <1>7, <1>8 DEF Requests

LEMMA CommitStored ==
    ASSUME BaseInv, SoloInv, ~overlapped, Stored(mem, queue, events, phase),
           NEW i \in DOMAIN queue, Commit(i)
    PROVE  Stored(mem, queue, events, phase)'
<1> DEFINE q == queue[i]
<1>0. TypeInv
  BY DEF BaseInv
<1>1. /\ q \in Requests /\ UNCHANGED <<mem, phase>>
      /\ q \in Loads => disk' = disk
      /\ q \in Puts => disk' = [disk EXCEPT !.nodes = @ \cup {q.root}]
      /\ q \in Sweeps => disk' = [disk EXCEPT !.nodes = @ \cap q.keep]
      /\ q \in Writes => disk' = [disk EXCEPT !.root = q.root]
  BY <1>0, CommitParts DEF Writes
<1>2. PICK e \in Requests : /\ events' = Append(events, e)
                            /\ q \in Loads => e \in Loads
                            /\ q \notin Loads => e = q
  BY <1>0, CommitParts
<1>3. /\ DOMAIN queue' = {} /\ DOMAIN events = {} /\ q.drive \in Drives
      /\ \A f \in Drives : phase[f] = "running" => f = q.drive
  BY CommitAlone
<1>4. \A k \in DOMAIN events' : events'[k] = e
  <2>1. /\ Len(events) \in Nat /\ DOMAIN events = 1 .. Len(events)
        /\ DOMAIN events' = 1 .. (Len(events) + 1)
        /\ \A k \in 1 .. Len(events) : events'[k] = events[k]
        /\ events'[Len(events) + 1] = e
    BY <1>0, <1>2, AppendParts DEF TypeInv
  <2> QED
    BY <1>3, <2>1
<1>5. /\ q \in Writes => /\ q.root # NoRoot => q.root \in disk.nodes
                         /\ Held(mem, q.root)
                         /\ mem.cas # Swapped(mem, q.drive)
      /\ q \in Sweeps => mem.cache \subseteq q.keep /\ disk.root \in q.keep
  BY DEF Stored, QueueStored
<1>6. q \in Loads \cup Puts \cup Sweeps \cup Writes
  BY <1>1, KindsApart
<1> HIDE DEF q
<1>7. /\ q \in Writes => disk'.root = q.root /\ disk'.nodes = disk.nodes
      /\ q \in Puts => disk'.root = disk.root /\ disk'.nodes = disk.nodes \cup {q.root}
      /\ q \in Sweeps => disk'.root = disk.root /\ disk'.nodes = disk.nodes \cap q.keep
      /\ q \in Loads => disk' = disk
  BY <1>0, <1>1 DEF TypeInv
<1>8. /\ disk'.root # NoRoot => disk'.root \in disk'.nodes
      /\ mem.cache \subseteq disk'.nodes
  BY <1>5, <1>6, <1>7 DEF Stored, DiskStored
<1>9. DiskStored(mem)'
  BY <1>1, <1>8 DEF DiskStored
<1>10. QueueStored(mem, queue)'
  BY <1>3 DEF QueueStored
<1>11. /\ e \in Puts => q \in Puts /\ e = q
       /\ e \in Writes => q \in Writes /\ e = q
  BY <1>1, <1>2, KindsApart
<1>12. /\ e \in Puts => e.root \in disk'.nodes
       /\ e \in Writes => disk'.root = e.root /\ Held(mem, disk'.root)
  BY <1>5, <1>7, <1>11
<1>13. EventsStored(mem, events)'
  BY <1>1, <1>4, <1>12 DEF EventsStored, Held
<1>14. ASSUME NEW f \in Swaps, mem.cas = Swapped(mem, f), phase[f] = "running"
       PROVE  disk'.root = Append(mem.root, f) /\ Held(mem, disk'.root)
  <2>1. f = q.drive
    BY <1>3, <1>14 DEF Drives
  <2>2. q \notin Writes
    BY <1>5, <1>14, <2>1
  <2>3. disk'.root = disk.root
    BY <1>6, <1>7, <2>2
  <2> QED
    BY <1>14, <2>3 DEF Stored, CasStored
<1>15. CasStored(mem, phase)'
  BY <1>1, <1>14 DEF Stored, CasStored, Swapped, Held
<1> QED
  BY <1>9, <1>10, <1>13, <1>15 DEF Stored

\* A page that was just opened.
LEMMA FreshStored ==
    ASSUME NEW p, disk.root # NoRoot => disk.root \in disk.nodes
    PROVE  Stored(Fresh, <<>>, <<>>, p)
<1>1. Fresh.cas = Unset /\ Fresh.cache = {}
  BY DEF Fresh
<1>2. DiskStored(Fresh) /\ QueueStored(Fresh, <<>>) /\ EventsStored(Fresh, <<>>)
  BY <1>1 DEF DiskStored, QueueStored, EventsStored
<1>3. /\ \A f : Unset # Swapped(Fresh, f)
      /\ \A f \in Swaps, R \in Roots : Unset # <<"cas", R, Append(R, f)>>
  BY DEF Swapped, Unset
<1>4. CasStored(Fresh, p)
  BY <1>1, <1>3 DEF CasStored
<1> QED
  BY <1>2, <1>4 DEF Stored

LEMMA StoredAlways == Spec => []StoredInv
<1>1. Init => StoredInv
  <2> SUFFICES ASSUME Init PROVE Stored(mem, queue, events, phase)
    BY DEF StoredInv
  <2>1. mem = Fresh /\ queue = <<>> /\ events = <<>> /\ disk.root = NoRoot
    BY DEF Init
  <2> QED
    BY <2>1, FreshStored
<1>2. BaseInv /\ LoadInv /\ SoloInv /\ StoredInv /\ [Next]_vars => StoredInv'
  <2> SUFFICES ASSUME BaseInv, LoadInv, SoloInv, StoredInv, [Next]_vars, ~overlapped'
               PROVE  Stored(mem, queue, events, phase)'
    BY DEF StoredInv
  <2>0. TypeInv /\ OneRequest
    BY DEF BaseInv
  <2>1. ASSUME NEW d, NEW m, NEW e, Runs(d, m, e), overlapped' = overlapped,
               phase[d] = "running" \/ Running = {},
               DOMAIN queue = {} /\ DOMAIN e = {} /\ Stored(mem, queue, events, phase) =>
                  Stored(m, queue, e, phase)
        PROVE  Stored(mem, queue, events, phase)'
    BY <2>0, <2>1, RunsAlone, RunsStored DEF StoredInv
  <2>2. ASSUME NEW d \in Drives, Start(d) PROVE Stored(mem, queue, events, phase)'
    <3>1. overlapped' = overlapped /\ Running = {}
      BY <2>0, <2>2 DEF Start, TypeInv
    <3> QED
      BY <2>0, <2>1, <2>2, <3>1, StartRuns
  <2>3. CASE Callback
    <3>1. overlapped' = overlapped /\ events # <<>> /\ phase[Head(events).drive] = "running"
      BY <2>0, <2>3, TailAwaits DEF Callback
    <3> QED
      BY <2>0, <2>1, <2>3, <3>1, CallbackRuns, NotedStored
  <2>4. ASSUME NEW i \in DOMAIN queue, Commit(i) PROVE Stored(mem, queue, events, phase)'
    <3>1. UNCHANGED overlapped
      BY <2>4 DEF Commit
    <3> QED
      BY <2>4, <3>1, CommitStored DEF StoredInv
  <2>5. CASE Reload
    <3>1. /\ overlapped' = overlapped /\ UNCHANGED disk
          /\ mem' = Fresh /\ queue' = <<>> /\ events' = <<>>
      BY <2>5 DEF Reload
    <3>2. disk.root # NoRoot => disk.root \in disk.nodes
      BY <3>1 DEF StoredInv, Stored, DiskStored
    <3>3. Stored(Fresh, <<>>, <<>>, phase')
      BY <3>2, FreshStored
    <3> QED
      BY <3>1, <3>3 DEF Stored, DiskStored, QueueStored, EventsStored, CasStored, Swapped, Held
  <2>6. CASE UNCHANGED vars
    BY <2>6 DEF vars, StoredInv, Stored, DiskStored, QueueStored, EventsStored, CasStored,
                Swapped, Held
  <2> QED
    BY <2>2, <2>3, <2>4, <2>5, <2>6 DEF Next
<1> QED
  BY <1>1, <1>2, BaseAlways, LoadAlways, SoloAlways, PTL DEF Spec

\* The items of the root on disk are on disk, as long as drives followed one another: a
\* root is written when its items are read from the cache, which holds only what is
\* stored, and the sweep of a swap keeps its root (put-reachable!, retain-inner!).
THEOREM RootAlwaysStored == Spec => []RootIsStored
<1>1. StoredInv => RootIsStored
  BY DEF StoredInv, Stored, DiskStored, RootIsStored
<1> QED
  BY <1>1, StoredAlways, PTL
================================================================================
