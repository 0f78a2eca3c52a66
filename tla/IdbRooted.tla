------------------------------- MODULE IdbRooted -------------------------------
(***************************************************************************)
(* The rooted store of a web page (store/idb.cljs: IdbRooted, drive) over  *)
(* IndexedDB.  An operation runs inside drive: whenever it has to wait, it *)
(* is thrown away and run again from its start when the request it waited  *)
(* for has completed, and latches in memory tell the run what is done      *)
(* already.  Drives of one page interleave at every wait, and the page may *)
(* be reloaded at any time.                                                *)
(*                                                                         *)
(* A root is the sequence of the drives whose effect it shows, so a swap   *)
(* appends the drive that does it.  What a root needs stored are its pack  *)
(* items; items that two roots have in common are not told apart.          *)
(***************************************************************************)
EXTENDS Naturals, SequencesExt, FiniteSets

CONSTANTS
    Swaps,       \* the drives that swap! the root
    Resets,      \* the drives that reset! it
    ResetTo,     \* per reset: the root it sets
    MaxReloads   \* how often the page is reloaded

Drives == Swaps \cup Resets

ASSUME IdbAssumption ==
    /\ IsFiniteSet(Drives) /\ Swaps \cap Resets = {}
    /\ ResetTo \in [Resets -> Seq(Drives)]
    /\ MaxReloads \in Nat

VARIABLES
    mem,         \* the atoms of the store, see Fresh
    disk,        \* the database: the root in meta, and whose items are in nodes
    queue,       \* the requests the database has still to do, oldest first
    events,      \* the requests it has done, whose callbacks are to run
    phase,       \* per drive: new, running, done or lost with its page
    reloads,
    overlapped   \* history: two drives have run at the same time

vars == <<mem, disk, queue, events, phase, reloads, overlapped>>

NoRoot == <<>>
Unset == <<"unset">>

\* The memory of a page that was just opened.
Fresh == [
    root     |-> NoRoot,
    ready    |-> FALSE,    \* root-ready
    cas      |-> Unset,    \* durable-cas
    set      |-> Unset,    \* durable-set
    keep     |-> {},
    retained |-> FALSE,
    swept    |-> Unset,    \* sweep-token
    cache    |-> {}]       \* the roots whose items are in the read cache

Init ==
    /\ mem = Fresh
    /\ disk = [root |-> NoRoot, nodes |-> {}]
    /\ queue = <<>>
    /\ events = <<>>
    /\ phase = [d \in Drives |-> "new"]
    /\ reloads = 0
    /\ overlapped = FALSE

\* The outcomes of a run: it waits for a request, or it is done.
Waits(m, request) == [mem |-> m, asks |-> <<request>>, done |-> FALSE]
Ends(m) == [mem |-> m, asks |-> <<>>, done |-> TRUE]

Load(d) == [drive |-> d, kind |-> "load", store |-> "meta", root |-> NoRoot]
Put(d, r) == [drive |-> d, kind |-> "put", store |-> "nodes", root |-> r]
Sweep(d, keep) == [drive |-> d, kind |-> "sweep", store |-> "nodes", keep |-> keep]
Write(d, r, latch) == [drive |-> d, kind |-> "write", store |-> "meta", root |-> r, latch |-> latch]

\* Variant: the root is written without waiting for its items.
WriteAtOnce(d, m, new, latch) ==
    Waits([m EXCEPT !.keep = IF new = NoRoot THEN @ ELSE {new},
                    !.retained = @ /\ latch[1] = "set"],
          Write(d, new, latch))

\* put-reachable!, then write-root!: the items of the new root, then the root.
\* A swap is to sweep when it is published; a reset never sweeps.
PutThenWrite(d, m, new, latch) ==
    IF new # NoRoot /\ new \notin m.cache THEN Waits(m, Put(d, new))
    ELSE Waits([m EXCEPT !.keep = IF new = NoRoot THEN @ ELSE {new},
                         !.retained = @ /\ latch[1] = "set"],
               Write(d, new, latch))

\* retain-inner!, then the new root is published.
Publish(d, m, new) ==
    IF ~m.retained /\ m.swept # <<d, m.keep>>
      THEN Waits([m EXCEPT !.cache = @ \cap m.keep], Sweep(d, m.keep))
      ELSE Ends([m EXCEPT !.retained = TRUE, !.root = new])

\* Variant: the latch of any compare-and-set counts.
RunSwapAny(d, m) ==
    LET new   == Append(m.root, d)
        latch == <<"cas", m.root, new>>
    IN  IF m.cas # Unset THEN Publish(d, m, new) ELSE PutThenWrite(d, m, new, latch)

\* ref-swap! and -cas-root!: the expected root is read in the same run, so it
\* is the current one.
RunSwap(d, m) ==
    LET new   == Append(m.root, d)
        latch == <<"cas", m.root, new>>
    IN  IF m.cas = latch THEN Publish(d, m, new) ELSE PutThenWrite(d, m, new, latch)

\* Variant: the latch of any set counts.
RunResetAny(d, m) ==
    LET new == ResetTo[d]
    IN  IF m.root = new THEN Ends(m)
        ELSE IF m.set # Unset THEN Ends([m EXCEPT !.root = new])
        ELSE PutThenWrite(d, m, new, <<"set", new>>)

\* ref-reset! and -set-root!
RunReset(d, m) ==
    LET new   == ResetTo[d]
        latch == <<"set", new>>
    IN  IF m.root = new THEN Ends(m)
        ELSE IF m.set = latch THEN Ends([m EXCEPT !.root = new])
        ELSE PutThenWrite(d, m, new, latch)

\* One run of a drive from its start.
Run(d, m) ==
    IF ~m.ready THEN Waits(m, Load(d))
    ELSE IF d \in Swaps THEN RunSwap(d, m) ELSE RunReset(d, m)

Running == {d \in Drives : phase[d] = "running"}

RunFrom(d, m) ==
    LET outcome == Run(d, m)
    IN  /\ mem' = outcome.mem
        /\ queue' = queue \o outcome.asks
        /\ phase' = [phase EXCEPT ![d] = IF outcome.done THEN "done" ELSE "running"]

Start(d) ==
    /\ phase[d] = "new"
    /\ RunFrom(d, mem)
    /\ overlapped' = (overlapped \/ Running # {})
    /\ UNCHANGED <<disk, events, reloads>>

\* The requests on one object store are done in their order.
First(i) == \A j \in 1 .. i - 1 : queue[j].store # queue[i].store

\* The database does a request: what it read or stored is in its event.
Commit(i) ==
    LET request == queue[i]
    IN  /\ First(i)
        /\ disk' = CASE request.kind = "load"  -> disk
                     [] request.kind = "put"   -> [disk EXCEPT !.nodes = @ \cup {request.root}]
                     [] request.kind = "sweep" -> [disk EXCEPT !.nodes = @ \cap request.keep]
                     [] request.kind = "write" -> [disk EXCEPT !.root = request.root]
        /\ events' = Append(events, IF request.kind = "load"
                                      THEN [request EXCEPT !.root = disk.root] ELSE request)
        /\ queue' = RemoveAt(queue, i)
        /\ UNCHANGED <<mem, phase, reloads, overlapped>>

\* Variant: the root is published as soon as it is written.
NotedEarly(m, event) ==
    CASE event.kind = "load"  -> [m EXCEPT !.root = event.root, !.ready = TRUE]
      [] event.kind = "put"   -> [m EXCEPT !.cache = @ \cup {event.root}]
      [] event.kind = "sweep" -> [m EXCEPT !.swept = <<event.drive, event.keep>>]
      [] event.kind = "write" /\ event.latch[1] = "cas" ->
             [m EXCEPT !.cas = event.latch, !.root = event.root]
      [] event.kind = "write" /\ event.latch[1] = "set" -> [m EXCEPT !.set = event.latch]

\* What the callback of a request changes in memory.
Noted(m, event) ==
    CASE event.kind = "load"  -> [m EXCEPT !.root = event.root, !.ready = TRUE]
      [] event.kind = "put"   -> [m EXCEPT !.cache = @ \cup {event.root}]
      [] event.kind = "sweep" -> [m EXCEPT !.swept = <<event.drive, event.keep>>]
      [] event.kind = "write" /\ event.latch[1] = "cas" -> [m EXCEPT !.cas = event.latch]
      [] event.kind = "write" /\ event.latch[1] = "set" -> [m EXCEPT !.set = event.latch]

\* The callback, and the run it starts: promises settle before the next event.
Callback ==
    /\ events # <<>>
    /\ RunFrom(Head(events).drive, Noted(mem, Head(events)))
    /\ events' = Tail(events)
    /\ UNCHANGED <<disk, reloads, overlapped>>

\* The page is reloaded: requests that were not done are lost.
Reload ==
    /\ reloads < MaxReloads
    /\ reloads' = reloads + 1
    /\ mem' = Fresh
    /\ queue' = <<>> /\ events' = <<>>
    /\ phase' = [d \in Drives |-> IF phase[d] = "running" THEN "lost" ELSE phase[d]]
    /\ UNCHANGED <<disk, overlapped>>

Next ==
    \/ \E d \in Drives : Start(d)
    \/ \E i \in DOMAIN queue : Commit(i)
    \/ Callback
    \/ Reload

Spec == Init /\ [][Next]_vars
-------------------------------------------------------------------------------
\* No swap is applied twice, on disk or in memory, however often it is run
\* again: the root is published on the run that finds it durable ("Publishing
\* earlier would make v/swap! apply its function twice").
AppliedOnce ==
    \A r \in {mem.root, disk.root} : \A i, j \in DOMAIN r : r[i] = r[j] => i = j

\* When no drive is running, what the page shows is what a reload brings back,
\* whatever the drives before overwrote for each other.
QuietIsDurable ==
    Running = {} /\ mem.ready => mem.root = disk.root

\* A swap that has returned is in the root after a reload too, as long as
\* drives followed one another and none has set the root.
AckedSurvives ==
    ~overlapped /\ (\A d \in Resets : phase[d] = "new") =>
        \A d \in Swaps : phase[d] = "done" => \E i \in DOMAIN disk.root : disk.root[i] = d

\* The items of the root on disk are on disk, as long as drives followed one
\* another: they are put before the root and the sweep keeps them.
RootIsStored ==
    ~overlapped /\ disk.root # NoRoot => disk.root \in disk.nodes
===============================================================================
