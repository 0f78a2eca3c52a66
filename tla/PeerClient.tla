------------------------------ MODULE PeerClient ------------------------------
(***************************************************************************)
(* The requesting side of the peer protocol (peer/client.cljc) with the    *)
(* receiver it verifies items with (peer/verify.cljc), the stream table    *)
(* (peer/frame.cljc) and the request bucket (peer/bucket.cljc).            *)
(*                                                                         *)
(* A value is a collection: a header item and one root page.  A page is    *)
(* checked from its own bytes; a header is stored on arrival and checked   *)
(* when its root page is stored.  A copy of a header is "honest",          *)
(* "miscounted" (its count or size is not its root's) or "misrooted" (it   *)
(* names a root that never comes).  None of the three can be told from     *)
(* the hash alone: the hash covers the elements-fuse only.                 *)
(*                                                                         *)
(* The client does one task at a time (serially!), so a frame is one step; *)
(* the two things a step of a task may leave behind it are modelled: the   *)
(* session that is ending while its headers are dropped (ending), and the  *)
(* loop that dispatches several hashes one after the other (agenda).       *)
(* open-session! and tick! do not wait for the task, and may run while a   *)
(* session is ending.  A channel may also be attached while the session of *)
(* the one before it is open: what that session served and tracked is then *)
(* lost (lost, a history variable that no action reads).                   *)
(***************************************************************************)
EXTENDS Naturals, FiniteSets

CONSTANTS
    Peers,          \* the peers a session may be open with
    Values,         \* the hashes that may be requested
    Honest,         \* the peers that answer every get fully
    Copies,         \* the kinds of header copies that are sent
    Partials,       \* whether a stream may end PARTIAL
    MaxReopened,    \* bound: sessions that follow an earlier one of their peer
    MaxSid,         \* bound: streams of one session that are open at once
    Burst,          \* req-burst of every peer's hello
    Refills,        \* bound: whether time passes, so that request buckets refill
    MaxFaults,      \* bound: store calls that fail
    NoPeer, NoValue

CopyKinds == {"honest", "miscounted", "misrooted"}
NoCopy == "none"
Sids == 1..MaxSid

ASSUME PeersAssumption == NoPeer \notin Peers
ASSUME ValuesAssumption == NoValue \notin Values
ASSUME HonestAssumption == Honest \subseteq Peers
ASSUME CopiesAssumption == Copies \subseteq CopyKinds
ASSUME FlagsAssumption == {Partials, Refills} \subseteq BOOLEAN
ASSUME BoundsAssumption == {MaxSid, Burst, MaxFaults, MaxReopened} \subseteq Nat
\* The client has no limit of its own: the bound is never met.
ASSUME MaxSidAssumption == IsFiniteSet(Values) /\ Cardinality(Values) <= MaxSid

VARIABLES
    status,     \* per peer: "none", "open" or "ended"
    hello,      \* per peer: whether its hello has arrived
    tokens,     \* per peer: what is left in the request bucket
    verified,   \* per peer: the entry its session verified, per hash
    acked,      \* per peer: the hashes acked to it
    older,      \* pairs of peers: the session of the first is the older
    asked,      \* per peer and id: the hash of the open stream, or NoValue
    served,     \* per peer and id: whether the asked hash has come
    pending,    \* per peer and id: the headers that wait for their root
    wanted,     \* per hash: whether it is wanted
    tried,      \* per wanted hash: the peers that failed to serve it
    atPeer,     \* per wanted hash: the peer its get is out to, or NoPeer
    atSid,      \* per wanted hash: the stream id of that get
    done,       \* the hashes that were received, verified and stored
    failed,     \* the hashes that failed because the store failed
    hdr,        \* the store: the header copy it holds, per hash
    pages,      \* the store: the values whose root page it holds
    ending,     \* the session whose end waits for the store
    agenda,     \* the hashes the running task has still to dispatch
    faults,     \* how many store calls have failed
    reopened,   \* how many sessions have followed an earlier one
    lost        \* what sessions served and tracked that were replaced while open

sessionVars == <<status, hello, tokens, verified, acked, older>>
streamVars  == <<asked, served, pending>>
wantVars    == <<wanted, tried, atPeer, atSid, done, failed>>
storeVars   == <<hdr, pages>>
historyVars == <<faults, reopened, lost>>
vars == <<sessionVars, streamVars, wantVars, storeVars, ending, agenda, historyVars>>

Header == Values \X CopyKinds
NotEnding == [peer |-> NoPeer, hashes |-> {}, headers |-> {}]

TypeOK ==
    /\ status \in [Peers -> {"none", "open", "ended"}]
    /\ hello \in [Peers -> BOOLEAN]
    /\ tokens \in [Peers -> 0..Burst]
    /\ verified \in [Peers -> [Values -> CopyKinds \cup {NoCopy}]]
    /\ acked \in [Peers -> SUBSET Values]
    /\ older \in SUBSET (Peers \X Peers)
    /\ asked \in [Peers -> [Sids -> Values \cup {NoValue}]]
    /\ served \in [Peers -> [Sids -> BOOLEAN]]
    /\ pending \in [Peers -> [Sids -> SUBSET Header]]
    /\ wanted \in [Values -> BOOLEAN]
    /\ tried \in [Values -> SUBSET Peers]
    /\ atPeer \in [Values -> Peers \cup {NoPeer}]
    /\ atSid \in [Values -> 0..MaxSid]
    /\ done \in SUBSET Values
    /\ failed \in SUBSET Values
    /\ hdr \in [Values -> CopyKinds \cup {NoCopy}]
    /\ pages \in SUBSET Values
    /\ ending \in [peer: Peers \cup {NoPeer}, hashes: SUBSET Values,
                   headers: SUBSET Header]
    /\ agenda \in SUBSET Values
    /\ faults \in 0..MaxFaults
    /\ reopened \in 0..MaxReopened
    /\ lost \in [hashes: SUBSET Values, headers: SUBSET Header]

Init ==
    /\ status = [p \in Peers |-> "none"]
    /\ hello = [p \in Peers |-> FALSE]
    /\ tokens = [p \in Peers |-> 0]
    /\ verified = [p \in Peers |-> [v \in Values |-> NoCopy]]
    /\ acked = [p \in Peers |-> {}]
    /\ older = {}
    /\ asked = [p \in Peers |-> [s \in Sids |-> NoValue]]
    /\ served = [p \in Peers |-> [s \in Sids |-> FALSE]]
    /\ pending = [p \in Peers |-> [s \in Sids |-> {}]]
    /\ wanted = [v \in Values |-> FALSE]
    /\ tried = [v \in Values |-> {}]
    /\ atPeer = [v \in Values |-> NoPeer]
    /\ atSid = [v \in Values |-> 0]
    /\ done = {}
    /\ failed = {}
    /\ hdr = [v \in Values |-> NoCopy]
    /\ pages = {}
    /\ ending = NotEnding
    /\ agenda = {}
    /\ faults = 0
    /\ reopened = 0
    /\ lost = [hashes |-> {}, headers |-> {}]

-----------------------------------------------------------------------------
(* What the store and the sessions say *)

HasRoot(copy) == copy # "misrooted"

Open(p) == status[p] = "open"
OpenStreams(p) == {s \in Sids : asked[p][s] # NoValue}

\* No task runs and none waits for the store: the next task may start.
Idle == ending.peer = NoPeer /\ agenda = {}

\* The header in the store matches a root that is stored (verify/checked?).
Checked(v) == hdr[v] = "honest" /\ v \in pages

\* Variant: what any session verified counts, whatever the store holds now.
HaveInForgetsEntry(store, v) ==
    \/ store[v] # NoCopy /\ \E p \in Peers : verified[p][v] # NoCopy
    \/ store[v] = "honest" /\ v \in pages

\* Variant: what is stored counts as had.
HaveInUnchecked(store, v) == store[v] # NoCopy

\* have? on a store: a session verified this hash and the store holds the entry
\* it stored, or else the header matches its root.
HaveIn(store, v) ==
    \/ store[v] # NoCopy /\ \E p \in Peers : verified[p][v] = store[v]
    \/ store[v] = "honest" /\ v \in pages

Have(v) == HaveIn(hdr, v)

\* Variant: a tick dispatches every wanted hash, asked or not.
WaitingIgnoresAt == {v \in Values : wanted[v]}

Waiting == {v \in Values : wanted[v] /\ atPeer[v] = NoPeer}

\* Every header that a receiver of the session still tracks.
PendingOf(p) == UNION {pending[p][s] : s \in OpenStreams(p)}

-----------------------------------------------------------------------------
(* The store, as the receivers use it *)

\* The headers of a receiver whose root is in the store.
Due(headers, stored) == {h \in headers : HasRoot(h[2]) /\ h[1] \in stored}

\* A receiver tracks one header per root and hash: the later copy replaces
\* the earlier one.
Track(headers, v, copy) ==
    (IF HasRoot(copy) THEN {h \in headers : h[1] # v \/ ~HasRoot(h[2])} ELSE headers)
      \cup {<<v, copy>>}

\* Variant: a header that fails is dropped, whichever copy the store holds.
AfterChecksDropsAny(store, headers) ==
    [v \in Values |->
       IF <<v, "honest">> \in headers THEN "honest"
       ELSE IF \E copy \in CopyKinds : <<v, copy>> \in headers THEN NoCopy
       ELSE store[v]]

\* Variant: a header that passes is not stored again.
AfterChecksKeepsStore(store, headers) ==
    [v \in Values |->
       IF <<v, store[v]>> \in headers /\ store[v] # "honest" THEN NoCopy ELSE store[v]]

\* check-waiting!: a header that passes is stored again; one that fails is
\* dropped, if the store still holds that copy.
AfterChecks(store, headers) ==
    [v \in Values |->
       IF <<v, "honest">> \in headers THEN "honest"
       ELSE IF <<v, store[v]>> \in headers THEN NoCopy
       ELSE store[v]]

\* drop-header! for each of the headers: a copy that another session replaced
\* stays, and so does one that has meanwhile been verified.
AfterDrops(store, stored, headers) ==
    [v \in Values |->
       IF <<v, store[v]>> \in headers /\ ~(store[v] = "honest" /\ v \in stored)
       THEN NoCopy ELSE store[v]]

-----------------------------------------------------------------------------
(* Asking *)

Load(p) == Cardinality(OpenStreams(p))

\* Variant: a peer that failed to serve the hash is asked again.
CandidatesForgetTried(v) ==
    {p \in Peers : Open(p) /\ hello[p] /\ tokens[p] > 0}

\* Variant: the request bucket is not looked at.
CandidatesIgnoreTokens(v) ==
    {p \in Peers : Open(p) /\ hello[p] /\ p \notin tried[v]}

Candidates(v) ==
    {p \in Peers : /\ Open(p)
                   /\ hello[p]
                   /\ p \notin tried[v]
                   /\ tokens[p] > 0}

\* Fewest streams first, the oldest session on a tie.
Best(v) ==
    {p \in Candidates(v) : \A q \in Candidates(v) \ {p} :
        Load(p) < Load(q) \/ (Load(p) = Load(q) /\ <<p, q>> \in older)}

\* An id becomes a stream, a token is spent, and the get goes out.  The code takes
\* a new id for each get and ignores what comes late for an old one (C35); here the
\* id of a stream that ended is taken again.
SendGet(v, p, s) ==
    /\ asked[p][s] = NoValue
    /\ \A t \in Sids : t < s => asked[p][t] # NoValue
    /\ tokens' = [tokens EXCEPT ![p] = @ - 1]
    /\ asked' = [asked EXCEPT ![p][s] = v]
    /\ atPeer' = [atPeer EXCEPT ![v] = p]
    /\ atSid' = [atSid EXCEPT ![v] = s]
    /\ UNCHANGED <<status, hello, verified, acked, older, served, pending>>
    /\ UNCHANGED <<wanted, tried, done, failed>>

\* One turn of the running task's loop over the hashes it asks for.
Dispatch(v) ==
    /\ v \in agenda
    /\ agenda' = agenda \ {v}
    /\ \/ \E p \in Best(v), s \in Sids : SendGet(v, p, s)
       \/ /\ Candidates(v) = {}
          /\ UNCHANGED <<sessionVars, streamVars, wantVars>>
    /\ UNCHANGED <<storeVars, ending, historyVars>>

\* tick!: what waited for a token goes out.  It does not wait for the task.
Tick ==
    /\ agenda = {}
    /\ Waiting # {}
    /\ agenda' = Waiting
    /\ UNCHANGED <<sessionVars, streamVars, wantVars, storeVars, ending, historyVars>>

\* Time refills a request bucket.
Refill(p) ==
    /\ Refills
    /\ agenda = {}
    /\ hello[p] /\ Open(p)
    /\ tokens[p] < Burst
    /\ tokens' = [tokens EXCEPT ![p] = @ + 1]
    /\ UNCHANGED <<status, hello, verified, acked, older>>
    /\ UNCHANGED <<streamVars, wantVars, storeVars, ending, agenda, historyVars>>

\* A hash that is had is done at once; a new want forgets who was tried.
Request(v) ==
    /\ Idle
    /\ IF Have(v)
       THEN /\ done' = done \cup {v}
            /\ UNCHANGED <<wanted, tried, atPeer, atSid, failed, agenda>>
       ELSE /\ ~wanted[v]
            /\ wanted' = [wanted EXCEPT ![v] = TRUE]
            /\ tried' = [tried EXCEPT ![v] = {}]
            /\ atPeer' = [atPeer EXCEPT ![v] = NoPeer]
            /\ failed' = failed \ {v}
            /\ agenda' = {v}
            /\ UNCHANGED <<done, atSid>>
    /\ UNCHANGED <<sessionVars, streamVars, storeVars, ending, historyVars>>

-----------------------------------------------------------------------------
(* Sessions *)

\* A connection is up: a fresh session takes the place of the peer's last one,
\* which may still be open.  Nothing is done with what that one had under way: its
\* gets stay noted on their hashes, and the headers it had stored stay.
OpenSession(p) ==
    /\ agenda = {}
    /\ \/ status[p] = "none" /\ UNCHANGED reopened
       \/ status[p] # "none" /\ reopened < MaxReopened /\ reopened' = reopened + 1
    /\ status' = [status EXCEPT ![p] = "open"]
    /\ hello' = [hello EXCEPT ![p] = FALSE]
    /\ tokens' = [tokens EXCEPT ![p] = 0]
    /\ verified' = [verified EXCEPT ![p] = [v \in Values |-> NoCopy]]
    /\ acked' = [acked EXCEPT ![p] = {}]
    /\ older' = {pair \in older : p \notin {pair[1], pair[2]}} \cup ((Peers \ {p}) \X {p})
    /\ asked' = [asked EXCEPT ![p] = [s \in Sids |-> NoValue]]
    /\ served' = [served EXCEPT ![p] = [s \in Sids |-> FALSE]]
    /\ pending' = [pending EXCEPT ![p] = [s \in Sids |-> {}]]
    /\ lost' = [hashes |-> lost.hashes \cup {asked[p][s] : s \in OpenStreams(p)},
                headers |-> {h \in lost.headers \cup PendingOf(p) : hdr[h[1]] = h[2]}]
    /\ UNCHANGED <<wantVars, storeVars, ending, agenda, faults>>

\* The peer's hello: what waited for a session goes out.
OnHello(p) ==
    /\ Idle
    /\ Open(p) /\ ~hello[p]
    /\ hello' = [hello EXCEPT ![p] = TRUE]
    /\ tokens' = [tokens EXCEPT ![p] = Burst]
    /\ agenda' = Waiting
    /\ UNCHANGED <<status, verified, acked, older>>
    /\ UNCHANGED <<streamVars, wantVars, storeVars, ending, historyVars>>

ClearSession(p) ==
    /\ status' = [status EXCEPT ![p] = "ended"]
    /\ verified' = [verified EXCEPT ![p] = [v \in Values |-> NoCopy]]
    /\ asked' = [asked EXCEPT ![p] = [s \in Sids |-> NoValue]]
    /\ served' = [served EXCEPT ![p] = [s \in Sids |-> FALSE]]
    /\ pending' = [pending EXCEPT ![p] = [s \in Sids |-> {}]]
    /\ UNCHANGED <<hello, tokens, acked, older>>

\* A hello with no version in common: no stream is open yet, nothing is asked
\* again.
OnHelloMismatch(p) ==
    /\ Idle
    /\ Open(p) /\ ~hello[p]
    /\ ClearSession(p)
    /\ UNCHANGED <<wantVars, storeVars, ending, agenda, historyVars>>

\* Variant: the headers the session tracked are forgotten.
EndSessionForgetsHeaders(p, headers) ==
    /\ ClearSession(p)
    /\ ending' = [peer |-> p, headers |-> {},
                  hashes |-> {asked[p][s] : s \in OpenStreams(p)}]

\* Variant: the hashes the session was serving are forgotten.
EndSessionForgetsHashes(p, headers) ==
    /\ ClearSession(p)
    /\ ending' = [peer |-> p, headers |-> headers, hashes |-> {}]

\* end-session!, up to the store: the session is over at once and what it was
\* serving and tracking is remembered for FinishEnding.
EndSession(p, headers) ==
    /\ ClearSession(p)
    /\ ending' = [peer |-> p, headers |-> headers,
                  hashes |-> {asked[p][s] : s \in OpenStreams(p)}]

\* The connection closes, the peer sends a fatal error, or it breaks a rule: a
\* frame the codec refuses, a frame before its hello, a second hello, a stream
\* that was never opened, an item that does not hash to its hash.
SessionEnds(p) ==
    /\ Idle
    /\ Open(p)
    /\ EndSession(p, PendingOf(p))
    /\ UNCHANGED <<wantVars, storeVars, agenda, historyVars>>

\* reask!: the peer is marked for each of the hashes, and they are dispatched.
Reask(p, hashes) ==
    /\ wanted' = [v \in Values |-> wanted[v] \/ v \in hashes]
    /\ tried' = [v \in Values |-> IF v \in hashes THEN tried[v] \cup {p} ELSE tried[v]]
    /\ atPeer' = [v \in Values |-> IF v \in hashes THEN NoPeer ELSE atPeer[v]]
    /\ agenda' = hashes
    /\ UNCHANGED <<atSid, done, failed>>

\* The store has answered: the ended session's unchecked headers are dropped
\* and its hashes go to other sessions.
FinishEnding ==
    /\ ending.peer # NoPeer
    /\ agenda = {}
    /\ hdr' = AfterDrops(hdr, pages, ending.headers)
    /\ Reask(ending.peer, ending.hashes)
    /\ ending' = NotEnding
    /\ UNCHANGED <<sessionVars, streamVars, pages, historyVars>>

-----------------------------------------------------------------------------
(* Receiving *)

StreamOpen(p, s) == Idle /\ Open(p) /\ asked[p][s] # NoValue

CloseStream(p, s) ==
    /\ asked' = [asked EXCEPT ![p][s] = NoValue]
    /\ served' = [served EXCEPT ![p][s] = FALSE]
    /\ pending' = [pending EXCEPT ![p][s] = {}]

\* resolve-pending! after an item for v, with the store and the receiver as the
\* item left them.  A root with a failing header ends the session; the roots
\* after it are then not looked at.
Settle(p, s, v, isHeader, store, stored, headers) ==
    LET due     == Due(headers, stored)
        failing == {h \in due : h[2] = "miscounted"}
        passing == due \ failing
        left    == {h[1] : h \in headers \ due}
        fresh   == {h[1] : h \in pending[p][s]} \ left
        mine    == IF isHeader /\ v \notin {h[1] : h \in headers} THEN fresh \cup {v} ELSE fresh
        after   == AfterChecks(store, passing)
    IN
    /\ pages' = stored
    /\ IF failing = {}
       THEN /\ hdr' = after
            /\ pending' = [pending EXCEPT ![p][s] = headers \ due]
            /\ verified' = [verified EXCEPT ![p] =
                 [w \in Values |-> IF w \in mine /\ after[w] # NoCopy THEN after[w] ELSE @[w]]]
            /\ served' = [served EXCEPT ![p][s] = @ \/ (isHeader /\ v = asked[p][s])]
            /\ UNCHANGED <<status, hello, tokens, acked, older, asked, ending>>
       ELSE \E bad \in failing, ok \in SUBSET passing :
            /\ hdr' = AfterChecks(store, ok \cup {bad})
            /\ EndSession(p, (PendingOf(p) \ pending[p][s])
                               \cup (headers \ (ok \cup {bad})))
    /\ UNCHANGED <<wantVars, agenda, historyVars>>

\* A header item.  It is checked at once when its root is stored, and then
\* stores nothing when it fails; otherwise it is stored and waits for its root.
OnHeader(p, s, v, copy) ==
    /\ StreamOpen(p, s)
    /\ p \in Honest => copy = "honest" /\ v = asked[p][s]
    /\ LET known == HasRoot(copy) /\ v \in pages IN
       IF known /\ copy = "miscounted"
       THEN /\ EndSession(p, PendingOf(p))
            /\ UNCHANGED <<wantVars, storeVars, agenda, historyVars>>
       ELSE Settle(p, s, v, TRUE, [hdr EXCEPT ![v] = copy], pages,
                   IF known THEN pending[p][s] ELSE Track(pending[p][s], v, copy))

\* A root page: its bytes are enough to check it.
OnPage(p, s, v) ==
    /\ StreamOpen(p, s)
    /\ p \in Honest => served[p][s] /\ v = asked[p][s]
    /\ Settle(p, s, v, FALSE, hdr, pages \cup {v}, pending[p][s])

\* An honest peer ends a stream once it has sent the value.
MayFinish(p, s) == p \in Honest => served[p][s] /\ pending[p][s] = {}

\* finish-stream!, FIN without PARTIAL, with a header whose root never came.
FinUnchecked(p, s) ==
    /\ StreamOpen(p, s)
    /\ MayFinish(p, s)
    /\ pending[p][s] # {}
    /\ hdr' = AfterDrops(hdr, pages, pending[p][s])
    /\ EndSession(p, PendingOf(p) \ pending[p][s])
    /\ UNCHANGED <<wantVars, pages, agenda, historyVars>>

\* finish-stream!: PARTIAL drops the headers that wait.  Then the hash is done
\* when it is had; asked again of anyone when it was served here; or asked of
\* another peer.
FinStream(p, s, partial) ==
    LET v     == asked[p][s]
        store == IF partial THEN AfterDrops(hdr, pages, pending[p][s]) ELSE hdr
        had   == HaveIn(store, v)
    IN
    /\ StreamOpen(p, s)
    /\ MayFinish(p, s)
    /\ IF partial THEN Partials ELSE pending[p][s] = {}
    /\ hdr' = store
    /\ CloseStream(p, s)
    /\ acked' = [acked EXCEPT ![p] = @ \cup {w \in Values : verified[p][w] # NoCopy}]
    /\ \/ /\ had
          /\ done' = done \cup {v}
          /\ wanted' = [wanted EXCEPT ![v] = FALSE]
          /\ tried' = [tried EXCEPT ![v] = {}]
          /\ atPeer' = [atPeer EXCEPT ![v] = NoPeer]
          /\ UNCHANGED <<atSid, failed, agenda>>
       \/ /\ ~had /\ served[p][s]
          /\ atPeer' = [atPeer EXCEPT ![v] = NoPeer]
          /\ agenda' = {v}
          /\ UNCHANGED <<wanted, tried, atSid, done, failed>>
       \/ /\ ~had /\ ~served[p][s]
          /\ Reask(p, {v})
    /\ UNCHANGED <<status, hello, tokens, verified, older, pages, ending, historyVars>>

\* on-error! for a stream: the peer did not serve the hash.
StreamError(p, s) ==
    /\ StreamOpen(p, s)
    /\ p \notin Honest
    /\ hdr' = AfterDrops(hdr, pages, pending[p][s])
    /\ CloseStream(p, s)
    /\ Reask(p, {asked[p][s]})
    /\ UNCHANGED <<sessionVars, pages, ending, historyVars>>

-----------------------------------------------------------------------------
(* Store calls that fail *)

\* What an item may have left behind when the store fails: nothing; a header
\* that waits; or a page, with one root whose headers the receiver has let go
\* of to check them.
LeftBehind(p, s) ==
    LET mine == pending[p][s] IN
    {[store |-> hdr, stored |-> pages, headers |-> mine]}
    \cup {[store |-> [hdr EXCEPT ![h[1]] = h[2]], stored |-> pages,
           headers |-> Track(mine, h[1], h[2])] :
           h \in {g \in Values \X Copies : ~HasRoot(g[2]) \/ g[1] \notin pages}}
    \cup UNION {{[store |-> hdr, stored |-> pages \cup {v}, headers |-> mine \ gone] :
                   gone \in {{}} \cup {{h} : h \in Due(mine, pages \cup {v})}} :
                v \in Values}

\* fail-locally!: the stream is closed on this side, the hash has failed, and
\* the session lives.  Dropping the headers is best effort.
StoreFails(p, s) ==
    LET v == asked[p][s] IN
    /\ StreamOpen(p, s)
    /\ faults < MaxFaults
    /\ faults' = faults + 1
    /\ \E left \in LeftBehind(p, s) :
         /\ pages' = left.stored
         /\ \E dropped \in SUBSET left.headers :
              hdr' = AfterDrops(left.store, left.stored, dropped)
    /\ CloseStream(p, s)
    /\ wanted' = [wanted EXCEPT ![v] = FALSE]
    /\ tried' = [tried EXCEPT ![v] = {}]
    /\ atPeer' = [atPeer EXCEPT ![v] = NoPeer]
    /\ failed' = failed \cup {v}
    /\ UNCHANGED <<sessionVars, atSid, done, ending, agenda, reopened, lost>>

\* The store fails while an ended session's headers are dropped: some stay.
FinishEndingFails ==
    /\ ending.peer # NoPeer
    /\ agenda = {}
    /\ faults < MaxFaults
    /\ faults' = faults + 1
    /\ \E dropped \in SUBSET ending.headers : hdr' = AfterDrops(hdr, pages, dropped)
    /\ Reask(ending.peer, ending.hashes)
    /\ ending' = NotEnding
    /\ UNCHANGED <<sessionVars, streamVars, pages, reopened, lost>>

-----------------------------------------------------------------------------

Receive(p, s) ==
    \/ \E v \in Values, c \in Copies : OnHeader(p, s, v, c)
    \/ \E v \in Values : OnPage(p, s, v)
    \/ FinUnchecked(p, s)
    \/ \E partial \in BOOLEAN : FinStream(p, s, partial)
    \/ StreamError(p, s)
    \/ StoreFails(p, s)

Next ==
    \/ \E v \in Values : Request(v) \/ Dispatch(v)
    \/ Tick
    \/ FinishEnding
    \/ FinishEndingFails
    \/ \E p \in Peers : \/ OpenSession(p)
                        \/ OnHello(p)
                        \/ OnHelloMismatch(p)
                        \/ SessionEnds(p)
                        \/ Refill(p)
    \/ \E p \in Peers, s \in Sids : Receive(p, s)

Spec == Init /\ [][Next]_vars

\* Frames and closes that arrive while a task runs are queued, and the queue is
\* drained in order (serially!, drain!): each runs although ticks come between.
\* Time passes, and the caller ticks.  Of the peers, an honest one keeps
\* answering; of any other it is assumed only that each of its streams ends.
Fairness ==
    /\ \A v \in Values : WF_vars(Dispatch(v))
    /\ WF_vars(Tick)
    /\ SF_vars(FinishEnding)
    /\ \A p \in Peers : SF_vars(Refill(p))
    /\ \A p \in Honest : SF_vars(OnHello(p))
    /\ \A p \in Honest, s \in Sids :
         /\ SF_vars(~served[p][s] /\ \E v \in Values : OnHeader(p, s, v, "honest"))
         /\ SF_vars(pending[p][s] # {} /\ \E v \in Values : OnPage(p, s, v))
         /\ SF_vars(FinStream(p, s, FALSE))
    /\ \A p \in Peers \ Honest, s \in Sids :
         SF_vars(FinUnchecked(p, s) \/ StreamError(p, s) \/ \E partial \in BOOLEAN : FinStream(p, s, partial))

LiveSpec == Spec /\ Fairness

-----------------------------------------------------------------------------
(* Properties *)

\* A hash that is out to a peer is the hash of exactly that open stream, or of
\* the session whose end still waits for the store, or was lost with a session that
\* was replaced while open; an open stream's hash is wanted, is out to that stream,
\* and was not already missed by that peer.  So only a replaced session leaves a hash
\* stuck, none is asked twice at once, and none goes back to a peer that failed it
\* (dispatch!, reask!, retry!, end-session!, finish-stream!, open-session!).
StreamsMatchWants ==
    /\ \A v \in Values : atPeer[v] # NoPeer =>
         /\ wanted[v]
         /\ \/ atSid[v] \in Sids /\ asked[atPeer[v]][atSid[v]] = v
            \/ ending.peer = atPeer[v] /\ v \in ending.hashes
            \/ v \in lost.hashes
    /\ \A p \in Peers, s \in Sids : asked[p][s] # NoValue =>
         /\ Open(p) /\ hello[p]
         /\ atPeer[asked[p][s]] = p /\ atSid[asked[p][s]] = s
         /\ p \notin tried[asked[p][s]]

\* What the running task has still to dispatch is wanted and out to nobody, and
\* what an ending session was serving is asked of nobody until it has ended.
DispatchOnce ==
    /\ \A v \in agenda : wanted[v] /\ atPeer[v] = NoPeer
    /\ \A v \in ending.hashes : wanted[v] /\ atPeer[v] = ending.peer

\* While no store call has failed, every header in the store that is not
\* verified belongs to a receiver that will check it or drop it, on an open
\* stream or in the session that is ending (C27, C31), or was lost with a session
\* that was replaced while open: nothing checks or drops it any more.
UncheckedIsTracked ==
    faults = 0 =>
      \A v \in Values : hdr[v] # NoCopy /\ ~Checked(v) =>
        <<v, hdr[v]>> \in ending.headers \cup lost.headers \cup UNION {PendingOf(p) : p \in Peers}

\* The short cut of have? is right: whatever a session remembers, the check
\* against the store would say the same, however other sessions rewrote or
\* dropped the shared header since.
HaveIsChecked == \A v \in Values : Have(v) => Checked(v)

\* A hash becomes done only while it is verified in the store.
DoneIsVerified ==
    [][\A v \in done' \ done : hdr'[v] = "honest" /\ v \in pages']_vars

\* What a session comes to remember as verified is verified in the store, however
\* other sessions replaced or dropped the shared header while its root was
\* outstanding (check-waiting! stores a header that passes again).
VerifiedIsStored ==
    [][\A p \in Peers, v \in Values :
         verified[p][v] # verified'[p][v] /\ verified'[p][v] # NoCopy
         => hdr'[v] = "honest" /\ v \in pages']_vars

\* A copy that names another root took the place of the one of v (accept-item!); when
\* the store fails right after that, it is dropped within the same step.
Displaced(v) ==
    "misrooted" \in Copies /\ (hdr'[v] = "misrooted" \/ faults' # faults)

\* C14: items already verified and stored stay, whichever sessions end, are
\* replaced or fail: the one thing that takes a verified header away is a copy that
\* names another root and is written over it.
VerifiedStays ==
    [][\A v \in Values : Checked(v) => Checked(v)' \/ Displaced(v)]_vars

\* C14: a hash that is done is held by the store, whichever sessions have given up
\* since (drop-header!: what was verified is not taken away).  It does not hold once
\* a copy that names another root was written over the verified one and its session
\* ended.
DoneStaysStored == \A v \in done : hdr[v] # NoCopy

\* A stream ends PARTIAL after the header of the hash that was asked for: the hash
\* is asked again and the peer is not marked (finish-stream!, retry!).
EndsPartialAfterHeader ==
    \E p \in Peers \ Honest, s \in Sids : served[p][s] /\ FinStream(p, s, TRUE)

\* A hash that is wanted is done in the end, or has failed with the store, while some
\* honest peer that never gave up on it keeps its session, whatever the other peers
\* send and however their sessions end (C14, request!, tick!, reask!).  Two things in
\* the code stand against it: a hash may be lost with a session that is replaced while
\* open, and a peer that ends stream after stream PARTIAL after the header is asked
\* again for ever.
WantedGetsDone ==
    <>[][~EndsPartialAfterHeader]_vars =>
      \A v \in Values :
        (\E p \in Honest : <>[](Open(p) /\ p \notin tried[v])) =>
          (wanted[v] ~> v \in done \cup failed \cup lost.hashes)
=============================================================================
