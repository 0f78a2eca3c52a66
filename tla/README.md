# Dacite in TLA+

Dacite stores immutable values as content-addressed nodes: the key of a node is the
hash of its content, a value is the hash of its top node, and a *rooted store* adds
one mutable cell, the hash of the current value. Nodes move between processes over
HTTP, over the reveal protocol and, most recently, between peers over data channels.
The implementation is `src/impl/clojure/src/dacite` (27,000 lines of Clojure and
ClojureScript that run on the JVM, nbb and the browser), beside a few Node scripts in
`src/scripts`. File names below are relative to the first directory, those of the scripts to
the second.

This directory holds TLA+ modules of the parts that have a protocol, TLC
configurations that check them, and TLAPS proofs. `PROJECT.json` maps each definition
to the lines it stands for.

## 1. Inventory

| Component | State | Operations | Talks to |
|---|---|---|---|
| peer client `peer/client.cljc`, `peer/verify.cljc`, `peer/bucket.cljc` | wants, per peer a session (stream table, bucket, what it verified), per stream the unchecked headers, the queue of steps | `request!`, `tick!`, `open-session!`, `on-frame!`, `close-session!` | frames with the responder; the one store all sessions share |
| peer responder `peer/responder.cljc` | per peer a session: stream table, streams with frames and credit, sent record, bucket | `open-session!`, `on-frame!` (hello, get, ack, cancel), `tick!` | store reads that answer later; one channel per peer and how full it is |
| framing, messages, rates `peer/frame.cljc`, `peer/msg.cljc`, `peer/rates.cljc` | reader of a stream; stream table | encode, chunk, feed, validate, share a rate | both sides of a session |
| link, transports `peer/link.cljc`, `peer/transport*` | the channel of each peer; queues of the in-memory network | attach, detach, deliver, close | binds client and responder to channels by callbacks |
| rooted store `rooted.cljc`, `rooted/gc.cljc`, `store/chunk.cljc` | root in memory, cell, overlay, inner store | read, compare-and-set, set, collect, restart | content store; threads of the HTTP service |
| packs, sync `store/pack.cljc`, `store/sync.cljc`, `store/bound.cljc`, `wire/binary.cljc` | none | encode what is reachable, bound literals, apply chunks | rooted store, HTTP, peers |
| reveal `reveal/engine.cljc`, `service/reveal.clj`, `store/reveal.clj` | session: reveals, offered and held pages, clock | open, take, ack, forget, cancel, trim | browser caches that evict and reset |
| HTTP service `service.clj`, `service/throttle.clj` | hub of subscribers, counters, buckets | handlers for root, nodes, chunks, events; admission | rooted store, from a pool of threads |
| browser stores `store/browser.cljs`, `store/idb.cljs` | caches, latches of what a replayed call has already done | `drive`: run, suspend on a promise, run again | HTTP and IndexedDB |
| caches `store/client_cache.cljc`, `store/lru.cljc`, `store/rate_limit.cljc` | local copy, what was uploaded, order of use, tokens | read through, flush, evict | remote stores |
| signaling scripts `webrtc-signal-server.mjs`, `webrtc-signal-client.mjs`, `webrtc-transfer.mjs` | room: two seats, queues of signals; per process its backlog, peer connection and channel | join, relay, leave; publish, apply, send, receive | processes over sockets and data channels |
| references, lenses `value/root_ref.cljc`, `store/lens.cljc` | watches | swap, compare-and-set of a value or of a part of it | rooted store |
| collections `value/finger_tree.cljc`, `value/hamt.cljc`, `value/lit.cljc` | none | pure functions over nodes | content store |
| values, hashing, backends, examples, benchmarks, `archive` | none of their own | conversions, SL2 hashing, files, LMDB | |

How they interact: a `get` of the client becomes a stream of the responder; the frames
of the answer are verified, stored and dropped one at a time by the client, into a
store that its other sessions read and write too. A committed value reaches disk
through the rooted store: pack items first, then the cell, then a sweep.

What is hard here, and makes each part correct:

- **Peer client.** Sessions share a store but not their trust. A header is stored
  before it can be checked; another session may replace it, check it or delete it
  meanwhile. Correct: nothing unchecked is taken for an answer, nothing unchecked is
  left behind, a want is at one peer at a time and reaches every peer that may have it.
- **Peer responder.** A store answers late, streams share a channel and a record of
  what was sent. Correct: each stream answers a get of its session, leaves out only
  what the session has really been sent, is written only while the channel takes it,
  and ends.
- **Rooted store.** Root in memory, cell, overlay and inner store change one after
  another, and the process may die between any two. Correct: a restart finds a whole
  root, and none older than the last update that returned.
- **Signaling and transfer.** Two processes come in any order, a third is refused or takes a
  seat that has just become free, and each may die at every step. Correct: the signals
  between two processes are whole and in order and reach nobody else, a pair that is left
  alone moves its payload, and nobody waits for ever.
- **Reveal.** Requests of one connection share a session and wait on each other's streams;
  a page is offered, written and acknowledged in three steps and each may fail. Correct:
  one stream writes for a reveal, only what was written counts as held, nothing is written
  twice, and every request ends.
- **IndexedDB.** An operation is run again from its start after every wait, with latches in
  memory for what it has done; operations interleave at the waits and a reload may come at
  any time. Correct: nothing takes effect twice, and memory never differs from the
  database for good.
- **Later parts.** Counters must be given back on every path (throttle); what was uploaded
  may have been collected (write-back).

## 2. Plan

In order of what matters most, with what is done:

1. `PeerClient`, `PeerClientProofs` – done.
2. `PeerResponder`, `PeerResponderProofs` – done, over `SeqFilter`, which restates the
   filtering of a sequence by positions so that it can be reasoned about.
3. `DurableRoot`, `RootedStore`, `RootedStoreProofs` – done.
4. `SignalRelay`, `WebrtcTransfer` and their proofs – done: the relay alone, and composed
   with the signaling client and the transfer.
5. `RevealEngine`, `RevealService`, `RevealServiceProofs` – done: the session as operators,
   and one connection of the service that uses them.
6. `IdbRooted`, `IdbRootedProofs` – done: `drive`, its replays and the latches of `idb.cljs`.
7. `PeerFraming`: chunking items into frames, the reader, the stream table, integer
   shares of a rate, against reference definitions.
8. `PeerExchange`: client and responder over `link.cljc` and the in-memory transport:
   expired streams, a `send!` that throws.
9. `Throttle`, `WriteBack`, `LensRoot`, caches.
10. Algorithms: `store/bound.cljc`, `value/hamt.cljc`, `value/finger_tree.cljc`,
   `wire/binary.cljc` on small inputs.
11. Proofs about what is still modelled with its bounds: `PeerResponder` while reads cross
   sessions, and what `IdbRooted` promises of swaps that overlap.

## 3. Modules

### PeerClient

One client, its peers, and its store. A *value* is a collection: a header and one root
page. A page is checked from its own bytes; a header is stored when it comes and checked
when its root page is stored, because the hash does not cover its root, count and size.
A *copy* of a header is `honest`, `miscounted` (its check fails when the root comes) or
`misrooted` (it names a root that never comes). `hdr[v]` is the copy in the store,
`pages` the values whose root page is stored.

| Model | Code |
|---|---|
| `wanted`, `done`, `failed`, `tried`, `atPeer`, `atSid` | `:wanted` with `:tried` and `:at`, `:done`, `:failed` |
| `status`, `hello`, `tokens`, `asked` | per session `:status`, `:hello`, `:bucket`, `:table`, `:streams` |
| `pending[p][s]`, `served` | a stream's `:rx` and `:served?` |
| `verified[p]`, `acked[p]` | the session's `:verified` cache and `:acked` |
| `older` | the order of the sessions, which breaks ties in `candidate-peers` |
| `agenda` | the hashes that a `dispatch-waiting!` has still to look at |
| `ending` | a session between the drop of its headers and `reask!` (`end-session!`) |
| `lost`, `reopened` | history: the hashes and headers that a replaced session took with it; how often a session was opened over an open one |

`Request`, `OpenSession`, `OnHello`, `Tick`, `SessionEnds` are the entry points;
`Receive` is a frame: a header, a page, a FIN with or without PARTIAL, an error, or
any of these with a store call that fails. `Dispatch` is one `dispatch!`. `serially!`
lets one step run at a time: `Idle` guards the actions that are queued. `tick!` and
`open-session!` are not queued and run between the two halves of an ending session.
`OpenSession` replaces whatever session the peer has, as `open-session!` and `attach!` of
`link.cljc` do: the streams of an open session and what they tracked are forgotten, the
wants keep the place they had. Stream ids that are closed are used again.

A frame that the codec or a limit refuses is a `SessionEnds`: which bytes it had makes no
difference to what follows.

### PeerResponder

One peer of the responder. Hashes name pages in the order of `reveal/page-order`;
`Frames[h]` is how many frames the item of `h` takes. A get is a read that is answered
later (`Get`, `ReadDone`); a tick (`Tick`) expires streams, reads the fill of the
channel once for all of them, and writes stream after stream (`WriteFrame`,
`StopWriting`, `FinishStream`); the channel drains at any time, also during a tick
(`Drain`, external). Credit is counted in frames and granted by the environment, at
most `MaxGrant` at a time: the rate formula (`peer/rates.cljc`, with `exp`) is not
modelled. A cancel or an expiry removes a stream wherever it stands.

`sent` is history: the pages whose last frame was written in this session.

### SeqFilter

`Filter(s, S)` is what `filterv` and `remove` give: the elements of `s` that are in `S`, in
their order. `SelectSeq` says the same by recursion, of which nothing can be proved without
induction; here a position that stays is found by its rank, and `SeqFilterProofs` proves what
a filter keeps (its elements, its order, no repetitions) from cardinalities alone. The
responder's record and plans and the session of the reveals use it.

### DurableRoot and RootedStore

`DurableRoot` is what `rooted.cljc` promises: a current root, a stable one that is
only ever set to the current, and a restart that goes back to the stable one.

`RootedStore` has the root atom, the cell, the overlay and the inner store of
`chunk.cljc`. `Found` is what a read finds: a node in memory, or an item of the inner store
under its own hash. What is inside a literal is found only after the literal was read, which
`Read` does at any time and the walks of a commit and of a collection do on their way
(`Loaded`). A walk of a commit that comes to such a node before it comes to the literal
passes over it; which it comes to first is open (`Encode`). A commit is `Build`, `CasRoot` or `SetRoot`, `Encode`, one `PutItem` per
item, `PutCell`, `Sweep`; any store call of it may `Fail`; `Crash` may come between any
two steps and keeps cell and inner store only. `Mark` and `Collect` are
`collect-garbage!`. A node in `Literal` is stored as an item that holds all below it;
the choice depends on its size, so it is a constant. A successor names nodes that its caller
met by following links from the root since the last restart (`Direct`); with `Blind = TRUE` it
names any. `acked` and `log` are history.

The refinement maps `current` to `root` and `stable` to `cell`.

### SignalRelay and WebrtcTransfer

`SignalRelay` is one room of the relay: `slots` and `pending` are `rec.slots` and
`rec.pending`, `seat[p]` the role that the handlers of p's socket closed over. Every socket
is a FIFO channel each way; `up[p]` has what the server has not handled, `down[p]` all that
it ever sent and `read[p]` how far the process has come. `Refuse` and `Join` are the
connection handler, `Relay` the message handler, `HearClose` and `Leave` the two ends of a
close: in between the socket keeps its seat but takes no messages.

`WebrtcTransfer` extends it with the processes. `Connect`, `Handle`, `Attach` and `Publish`
are `connectSignal`, `applyRemote` and `diffSignal`; `OnOpen` to `PartnerLeft` follow
`overWs` step by step to the end of each role. The peer connection is a library: `Dial`
says when it is up, `Deliver` moves one message, and a send on a channel that has lost its
other end throws. `Kill` and `TimeOut` end a process at any step and at every wait that has
a timer; a process that exits may lose the last messages it sent. Descriptions and
candidates are numbers; the payload is a sequence of frames.

### RevealEngine and RevealService

`RevealEngine` has the functions of `reveal/engine.cljc` as operators on a session. The walk
of a value is a constant, the order of its pages; a cursor is what is left of it. Whether a
page is due depends on shares that decay by `exp`, so here it may fall due at any time: the
model has every schedule the rates could produce, and more.

`RevealService` is one connection. All work is done under the connection's lock, so
`lock` says what its holder is doing: `advance` while pages fall due one by one (`Emit`),
`write` while the batches are written (`Write`, `WriteThrows`), `close` while streams end
(`Close`), and for a failing last writer `advance` again for `cancel-reveal`. `Begin`,
`Return`, `Idle`, `LookAgain` and `GiveUp` are the request's thread; `Pump` is the scheduler.
A write may throw at any page, and a reveal may pause or exhaust its budget at any time.
`written`, `copies` and `clean` are history.

### IdbRooted

One page of a browser and its IndexedDB. `mem` has the atoms of the store, `disk` the two
object stores, `queue` the requests that the database has still to do (those on one object
store in order) and `events` their callbacks. A *drive* is one `swap!` or `reset!`; each
`RunFrom` is one run of it from its start to the next wait, computed from the latches in
memory. `Reload` loses memory and all requests that were not done. Roots are sequences of
the drives they show, so a second effect of a drive can be seen.

## 4. Runs

| Run | Instance | Checks |
|---|---|---|
| PeerClientShared | 2 peers, 2 values, 2 streams per session, all kinds of copies, partial ends, 1 session opened again | `UncheckedIsTracked`, `HaveIsChecked`, `DispatchOnce`, `VerifiedIsStored`, `DoneIsVerified`, `StreamsMatchWants`, `VerifiedStays` |
| PeerClientLive | 2 peers, one honest, 1 value, partial ends, 1 session opened again, 1 store failure, buckets that refill | `TypeOK`, `WantedGetsDone` |
| PeerClientDisplaced | copies that name another root | `DoneStaysStored` fails |
| PeerResponder | 1 session, 3 stream ids, 2 at once, 3 pages, one of two frames | `TypeOK`, `StreamsAreAsked`, `StreamsAreComplete`, `RecordIsSent`, `StreamsEnd` |
| PeerResponderHigh | the same | `NoWriteAtHighMark` fails |
| RootedStore | 1 thread, 3 values that share nodes, one of them a node from inside a literal, 3 commits, 1 failed commit, LMDB's cell | `TypeOK`, `RootIsStored`, `RootIsReadable`, `AckedSurvives`, `ImplementsDurableRoot` |
| RootedRace | 2 threads, no collection, no failure | `RootIsStored` fails |
| WebrtcTransfer | an offerer, an answerer and a process that takes what is free; pending signals 2, frames 2, high mark 1, one or two candidates each | `TypeOK`, `NoMismatch`, `EmptyRoomIsFresh`, `PresenceIsKnown`, `SignalsAreOfPartner`, `SignalsAreInOrder`, `PairSucceeds`, `EveryoneEnds` |
| RevealService | 3 requests for a value and its element, 1 page remembered, 1 reveal kept, pauses | `TypeOK`, `OneWriter`, `OfferedIsLive`, `SentIsWritten`, `WrittenOnce`, `OkIsComplete`, `RequestEnds` |
| RevealReturned | 3 requests for two values with a common element, no pause | `ReturnedIsWritten` fails |
| IdbRooted | 2 swaps, 2 resets to different roots, 1 reload | `AppliedOnce`, `QuietIsDurable`, `AckedSurvives`, `RootIsStored` |
| IdbStale | 1 swap, 2 resets to the same root | `QuietIsDurable` fails |

Deadlock is not checked: each system may stop when its bounds are used up, and in the
code nothing is left to do when every want is done or every commit has returned.

**Why the bounds are enough.** The client's hazards are between two sessions and one
header, or between one session and two values (a page of one that settles the header
of the other): two peers and two values make both. A session ends and comes back, or is
replaced while it is open, with two streams or one. The responder's hazards need two streams that share a
page, a third after one of them has gone, and a record too small for all pages; `HighMark`
2 and `LowMark` 1 keep the hysteresis of 4 and 1. The rooted store's values share a
plain node and a literal with the next, and one of them names a node that the other has only
inside its literal, so that a commit keeps, sweeps and makes an item of a part; three commits are two replacements with a restart before, between or after them.
A room has two seats, so a third process is what it takes to be refused, to take a seat
that has become free and to meet what the last pair left; the candidates of one of them
alone exceed `MaxPending`, and the payload exceeds the send buffer. Three requests make a
writer, the one that takes over and one for another reveal; a session that remembers one
page and keeps one reveal forgets and trims all the time. Two swaps and two resets are the
smallest mix in which each latch is found by its own replay, by the other drive and by the
other kind of drive; one reload separates what memory knew from what the database has.

**What the passing runs assume, and which findings lie behind it.**

- `PeerClientShared`: `VerifiedStays` allows for the one way in which a verified header goes,
  a copy that names another root and is written over it (`Displaced`); that it can then be
  deleted is `PeerClientDisplaced`. `StreamsMatchWants` and `UncheckedIsTracked` allow for what a
  session had when it was replaced while open (`lost`): `open-session!` drops neither its
  headers nor its wants, although `peer-v1.md:584` has them dropped and asked again when a
  session ends, and nothing comes back to them later.
- `PeerClientLive` leaves out copies that name another root. `WantedGetsDone` is about runs in
  which no peer ends streams PARTIAL after the header for ever. A peer that does stays the
  first candidate, as it is never marked as tried: it is asked again and again, an honest
  peer beside it is not asked, and the property without its premise fails. The client's
  docstring ("A hash is never asked twice of the same peer") does not hold then. The
  property also leaves out the hashes that a replaced session lost.
- `PeerResponder` does not let a read cross into a new session (`Crossing = FALSE`). With it
  a store that answers late starts a stream in a session that never asked for it, and
  `StreamsAreAsked` fails. Streams that share a channel overrun the high mark
  (`PeerResponderHigh`).
- `RootedStore` has one thread, a transactional cell, no collection after a commit that threw,
  and callers that meet what they share. With two threads see `RootedRace`; with a file as
  cell (`FileCell = TRUE`) a crash between emptying ROOT and writing it loses the root and
  `AckedSurvives` fails; with `Collects = "always"` a collection that follows a failed commit
  marks from the root in memory and sweeps what the cell still names, and `RootIsStored` fails
  with one thread and one failure. With two threads a collection can also sweep the nodes of a
  value that is being built, and `RootIsReadable` fails. With `Blind = TRUE` a caller kept a
  hash from before a restart, of a node that is stored only inside a literal: `chunk.cljc`
  looks the inner store up by the hash of the whole item, the commit passes over the node, and
  `RootIsReadable` fails with one thread and no failure.
- `WebrtcTransfer`: `PairSucceeds` speaks of two processes while no third has connected and
  nobody was killed or timed out. A pair in which one is replaced by a third process does
  not come together: the one that stays does not send its description again, and its
  `peerLeft` stays set (`LeftIsOfPartner` does not hold). Such processes end by their timers,
  which is what `EveryoneEnds` says of them. It leaves out one process (`Stuck`): a sender whose
  partner goes while the send buffer is full. `sendWithBackpressure` waits for room without a
  timer, and what would throw is the send behind that wait. The model keeps the buffer full
  then; whether the library empties it is not known from this code.
- `RevealService`: `OkIsComplete` speaks of connections on which no write failed and no
  reveal paused; what happens after a failure is `RevealReturned`. `RequestEnds` leaves out
  a stream whose reveal was trimmed while it waited (`Stranded`): only its timer ends it. A
  request whose timer runs out and that finds its failed stream gone returns as if all was
  written (`FailedThrows` does not hold).
- `IdbRooted`: `AckedSurvives` and `RootIsStored` hold while operations follow one another,
  with reloads in between. When they overlap, the sweep of one deletes the items of
  another and a reload can then find a root without its items; a swap may return on a
  root that another has overwritten on disk. Two swaps in one drive never settle, as each
  replay finds only the latch of the last one: one operation per drive is modelled. The
  resets set different roots (`IdbStale` has the same one twice). Every swap makes a root
  of its own, so a swap that finds the `[expected new]` latch of an earlier, equal one
  (line 653) is not reached; it is the same defect of the same kind of latch.

**Fairness.** Safety needs none. `PeerClient!Fairness`: the caller ticks, queued steps
run in order (`serially!`, `drain!`) so each runs although ticks come between (strong
fairness), buckets refill with time, the honest peer answers, and a stream of another
peer ends in the end, by its last frame or because its session does; nothing is
assumed of what it sends. The code itself forces neither: the responder drops an expired
stream without a last frame, and the client has no timeout of its own. A peer that keeps
its session open and stays silent holds its wants until the session ends, and liveness
here says nothing of such a peer. `PeerResponder!Fairness`: a tick runs to its end, stores
answer, the network takes what is buffered, and a stream that is not blocked gets
credit again and again, as its share is positive until its deadline. `StreamsEnd` then
says that back-pressure starves no stream; streams that expire end at once and need no
fairness. `WebrtcTransfer!FairSpec`: the server and each process do what they can do next;
timers may fire early but need not, except in `EveryoneEnds`, whose claim is that every wait
but that of a stuck sender ends, and where it is assumed that some timer fires while one is
running.
`RevealService!FairSpec`: the holder of the lock goes on, the scheduler comes back, pages of
a reveal that has not paused fall due some time, and a request that can resume does although
others take the lock in between (strong fairness: the monitor is handed on). No write has to
succeed.

## 5. Findings

Five runs show where the code and its own documents differ; `PROJECT.json` quotes the
lines. A verified header can be replaced and deleted by another session
(`PeerClientDisplaced`). A tick writes at the high mark, as it asks for the fill of a channel
once for all of its streams (`PeerResponderHigh`). Commits of two threads sweep each other's items (`RootedRace`). A
request that takes over a reveal from a writer that failed returns although a page was
never written, and no later request on that connection gets it (`RevealReturned`). A root
that is set twice with a swap in between is set in memory only the second time
(`IdbStale`). Further divergences that the models exhibit under other constants are
described with the runs above: the peer that ends PARTIAL, the session that is replaced, the
read that crosses sessions, the ROOT file, the hash kept over a restart.

## 6. Proofs

Every safety property that a passing run checks is also proved, for every value of the
constants that the named assumptions allow; where a theorem has a condition of its own, the
table says so and the text says what happens without it. Each module proves, for each of its
inductive invariants, that the initial states have it and every step keeps it, one lemma per
action, and combines them by temporal logic at the end.

### PeerClientProofs

It proves, for every set of peers and values, every bound and every
mix of copies, from the named assumptions of `PeerClient` alone:

| Theorem | Property |
|---|---|
| `TypeCorrect` | `TypeOK` |
| `StreamsAlwaysMatchWants` | `StreamsMatchWants` |
| `AlwaysDispatchOnce` | `DispatchOnce` |
| `HaveAlwaysChecked` | `HaveIsChecked` |
| `VerifiedAlwaysStored` | `VerifiedIsStored` |
| `DoneAlwaysVerified` | `DoneIsVerified` |
| `VerifiedAlwaysStays` | `VerifiedStays` |
| `DoneAlwaysStored` | `DoneStaysStored`, if `Rooted` (checked only where it fails) |
| `UncheckedAlwaysTracked` | `UncheckedIsTracked` |

The argument. `TypeOK` is inductive, action by action. `StreamsMatchWants` and
`DispatchOnce` are not inductive alone: whether a re-asked hash may go out depends on what
the ending session was serving and on what the running step has still to dispatch, and
each of those on the streams. `WantsInv` is the conjunction of the three with two facts
about a session that is ending (its hashes are on no stream, and there are none when no
session is ending). `HaveIsChecked` is not inductive either: what makes the cache right is
that the entry a session remembers is an honest copy whose root page is stored, and that
pages never leave the store; `VerifiedInv` says so, its step has to show that a header
passes its check only when it is put in the store again, and the two action properties
come out of the same step. The lemmas per operation (`EndSessionWants`, `SettleVerified`,
...) are each used by every action that calls the operation, as in the code.

A verified header stays in every step but `Displaced` (`NextKeeps`): a copy that comes for it
and names the root that is stored is checked before it is put, and one that fails is not put;
and no drop takes a header that matches its stored root. `Rooted` says that no
copy of a header names a root that is not its own, and then nothing is displaced. It is
needed for `DoneStaysStored`: `PeerClientDisplaced` has such copies and loses a verified header.
`DoneInv` adds that what is done was verified when it became so. `UncheckedIsTracked` has no
condition. It needs `WantsInv`, as a session without streams tracks nothing, and that the
list of headers to drop is empty when no session is ending (`TrackedInv`): otherwise the
next session to end would replace a list that is still to be worked off.

### RootedStoreProofs

For every graph of nodes, every choice of literals and every bound, from the named
assumptions of `RootedStore`:

| Theorem | Property | Conditions |
|---|---|---|
| `TypeCorrect` | `TypeOK` | none |
| `AckedAlwaysSurvives` | `AckedSurvives` | one writer, no file as cell |
| `RootImplementsDurable` | `ImplementsDurableRoot` | one writer, no file as cell |
| `RootAlwaysStored` | `RootIsStored` | and no collection after a commit that threw, no `Blind` caller |
| `RootAlwaysReadable` | `RootIsReadable` | and no collection after a commit that threw, no `Blind` caller |

The conditions are the ones without which section 4 says the properties fail. The first
two need `CommitInv`: while a commit is under way its root is still the current one and
the last of the log, and once the cell is written it is the cell's. That is what a second
writer breaks. The last two are proved together by `StoredInv`: a sweep keeps the root's
items because the walk that made them missed nothing (`ReachedWhole`); it missed nothing
because every node that can be met from the root was found under its own hash; after a
restart, with an empty overlay, nothing inside a literal can be met, so the cell's items are
enough (`CrashStored`); reading a literal brings all that can now be met (`ReadStored`); and
a successor takes over only what could be met (`BuildStored`). A collection
marks from the root in memory and is harmless to the cell because, with no failed commit,
the two are the same. Walks are defined as least closed sets, so their lemmas need no
induction.

### PeerResponderProofs

For every graph of pages, every limit and any number of sessions, from the assumptions of
`PeerResponder`:

| Theorem | Property | Conditions |
|---|---|---|
| `TypeCorrect` | `TypeOK` | none |
| `RecordAlwaysSent` | `RecordIsSent` | none |
| `StreamsAlwaysComplete` | `StreamsAreComplete` | none |
| `StreamsAlwaysAsked` | `StreamsAreAsked` | no read crosses into a new session |

`TypeOK` needs that a stream that a tick is done with keeps at most one frame of its credit
(`CreditLeft`), or the next grant would exceed the bound.
`StreamsAreComplete` follows from `RecordIsSent` at the moment a read is answered, and from
`sent` only growing after that, whatever is evicted or acknowledged. `AskedInv` adds what a
read that is out knows of its id: open, and not written yet. The condition is `Crossing = FALSE`; section 4 says what a crossing read does.

### IdbRootedProofs

For any number of swaps, resets and reloads, from the assumption of `IdbRooted`:

| Theorem | Property | Conditions |
|---|---|---|
| `AlwaysAppliedOnce` | `AppliedOnce` | `ResetsShowNoSwap` |
| `QuietAlwaysDurable` | `QuietIsDurable` | `ResetsApart` |
| `AckedAlwaysSurvives` | `AckedSurvives` | none |
| `RootAlwaysStored` | `RootIsStored` | none |

`ResetsShowNoSwap`: the roots that resets set show no swap (a reset sets a value of its
caller, and here a swap counts as applied by what a root shows). `ResetsApart`: in addition
they are different and none is the empty root; `IdbStale` shows that two resets to the same
root break `QuietIsDurable`. The base of all four is that a running drive has exactly one
request, in the queue or among the events (`BaseInv`), and that loads come before all that
depends on them (`LoadInv`). Above it, `AppliedInv` says what roots may show in memory, on
disk, in requests and in latches; `ShownInv` that what is current is shown by drives that are
over, so no replay can mistake the root of another for its own; `DurableInv` that memory
differs from the disk only by a write whose callback is still to run, or by a swap that has
still to see its latch. The last two theorems speak of drives that follow one another, and
`SoloInv` is what that means for requests: none but those of the one that runs.

### SignalRelayProofs and WebrtcTransferProofs

`RelaySpec`, defined beside its proofs, is the relay among processes that do what they like:
open a socket at any time, send any signals and closes, lose any of what they sent, and read
or not. `TransferUsesRelay` proves that the composed `Spec` implements it, so that what is
proved of the relay holds for the scripts and for any other client.

| Theorem | Specification | Property |
|---|---|---|
| `RelayTypeCorrect` | `RelaySpec` | `RelayTypeOK` |
| `EmptyRoomAlwaysFresh` | `RelaySpec` | `EmptyRoomIsFresh` |
| `PresenceAlwaysKnown` | `RelaySpec` | `PresenceIsKnown` |
| `SignalsAlwaysOfPartner` | `RelaySpec` | `SignalsAreOfPartner` |
| `TransferUsesRelay` | `Spec` | `RelaySpec` |
| `TransferTypeCorrect` | `Spec` | `TypeOK` |
| `PeersAlwaysInformed` | `Spec` | the three above |
| `NeverMismatched` | `Spec` | `NoMismatch` |
| `SignalsAlwaysInOrder` | `Spec` | `SignalsAreInOrder` |

`RelayInv` has the seats (`SeatInv`: an open socket holds the seat of its role, and what
waits in a room was sent by the peer that is there) and what each peer was told
(`ToldInv`: its last notice agrees with the other seat, and each of its signals came between
a ready and a peer-left of the same partner). `TransferInv` describes the two ends of one
channel together: what one has sent is what the other has read, and what is on its way; what
is on its way is the payload in order. `SignalsAreInOrder` is about counters of two processes
and four places a signal may be in, and `OrderInv` says of each place which signal comes
next; `HeardInv` has what it needs of the processes' phases. Order is a property of the
composition, as in `RelaySpec` a process may send what it likes.

### RevealServiceProofs

For any values and walks, any number of requests and any limits of the session, from the
assumptions of `RevealEngine` and `RevealService`:

| Theorem | Property |
|---|---|
| `TypeCorrect` | `TypeOK` |
| `AlwaysOneWriter` | `OneWriter` |
| `OfferedAlwaysLive` | `OfferedIsLive` |
| `HeldAlwaysWritten` | `SentIsWritten` |
| `AlwaysWrittenOnce` | `WrittenOnce` |
| `OkAlwaysComplete` | `OkIsComplete` |

First come lemmas about the operators of `RevealEngine`, one per function of `engine.cljc`
(`PrepareParts`, `EmitParts`, `AckParts`, `RememberParts`, `CancelParts`, ...): each says that a
session that satisfies `SessionInv` still does, what became of each reveal and page, and that
what is no longer left to visit is held or in flight. Then six invariants, which TLC checked on three
instances (nested and shared values, with and without pauses) before they were proved:

- `TypeInv`: types, and `SessionInv` (a value and an id are of one reveal, a page in flight
  has its reveal, a reveal has something queued or is done);
- `LockInv`: what the holder of the lock can rely on in each of its phases;
- `WriterInv`: a reveal with a stream that stays has a writer, and never two;
- `PageInv`: a page that a stream offered is in flight for its reveal, offered by no other,
  and written or planned; what is written is remembered;
- `LinkInv`: a stream is on the reveal of the value its request asked for, or that reveal is
  about to be opened;
- `WalkInv`: as long as nothing failed or paused, every page of a walk is written, planned, or
  left to visit.

`WrittenOnce` is not inductive because a page is chosen before it is planned and planned
before it is written, and other reveals choose in between: `PageInv` follows it through all
three. `OkIsComplete` needs all six: the pages that one walk skips were offered for another
reveal, whose stream is there only because of `LinkInv` and `WalkInv`.

### What only TLC checks

- Liveness: `WantedGetsDone`, `StreamsEnd`, `PairSucceeds`, `EveryoneEnds` and `RequestEnds`
  rest on fairness, and the prover treats neither fairness nor ENABLED.
- The five divergences of section 5, which TLC shows by a counterexample.
- The properties whose theorem has a condition are checked on instances that satisfy it; what
  happens outside is described in section 4, and there the property fails.
- That `Filter` gives what `SelectSeq` gives (`FilterSelects` in `MCPeerResponder`, on
  sequences of up to four elements): in general it needs induction over sequences. What is
  proved of `Filter` is all that the proofs use.

## 7. Not modelled

Bytes, hashes and their arithmetic, the wire codec, JSON and EDN, HTTP parsing, WebRTC
negotiation itself, rendering, examples, benchmarks and the archived implementation. By
lines, most of the repository's JavaScript is compiled output: the `main.js` of the example
pages is generated from the ClojureScript of these components by its compiler and holds no
code of its own; what is modelled is its source, and the hand-written Node scripts.

Of the modelled parts: validators and watches of a rooted store; rates as real numbers (a
page is due, or credit is granted, at any time); the schedules of two JVM threads inside
one `dispatch!` (`tick!` is not queued); the `--dir` mode of the transfer and its mode inside
one process; malformed and oversized signaling messages, which fail their sender like an
overfull queue; `signal-over-ws!`, a second client of the relay; the end of a reveal
connection when the server stops, store reads that fail under the scheduler, and the client
that reads a reveal; evictions of IndexedDB's read cache, `s-reset`, failing requests, and
two tabs on one database. `PROJECT.json` lists each part with its reason.
