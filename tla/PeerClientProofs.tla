--------------------------- MODULE PeerClientProofs ---------------------------
(* Theorems about PeerClient, for every value of its constants. *)
EXTENDS PeerClient, TLAPS

-----------------------------------------------------------------------------
(* Type correctness *)

LEMMA SendGetType ==
    ASSUME TypeOK, NEW v \in Values, NEW p \in Best(v), NEW s \in Sids, SendGet(v, p, s),
           UNCHANGED <<storeVars, ending, historyVars>>, agenda' \in SUBSET Values
    PROVE  TypeOK'
<1>1. p \in Peers /\ tokens[p] \in 1..Burst
  BY BoundsAssumption DEF Best, Candidates, TypeOK, Sids
<1> QED
  BY <1>1, BoundsAssumption DEF TypeOK, SendGet, storeVars, Sids, historyVars

LEMMA ClearSessionType ==
    ASSUME TypeOK, NEW p \in Peers, ClearSession(p)
    PROVE  /\ status' \in [Peers -> {"none", "open", "ended"}]
           /\ verified' \in [Peers -> [Values -> CopyKinds \cup {NoCopy}]]
           /\ asked' \in [Peers -> [Sids -> Values \cup {NoValue}]]
           /\ served' \in [Peers -> [Sids -> BOOLEAN]]
           /\ pending' \in [Peers -> [Sids -> SUBSET Header]]
BY DEF TypeOK, ClearSession

LEMMA PendingOfType ==
    ASSUME TypeOK, NEW p \in Peers
    PROVE  PendingOf(p) \in SUBSET Header
BY DEF TypeOK, PendingOf, OpenStreams

LEMMA EndSessionType ==
    ASSUME TypeOK, NEW p \in Peers, NEW headers \in SUBSET Header, EndSession(p, headers)
    PROVE  /\ status' \in [Peers -> {"none", "open", "ended"}]
           /\ verified' \in [Peers -> [Values -> CopyKinds \cup {NoCopy}]]
           /\ asked' \in [Peers -> [Sids -> Values \cup {NoValue}]]
           /\ served' \in [Peers -> [Sids -> BOOLEAN]]
           /\ pending' \in [Peers -> [Sids -> SUBSET Header]]
           /\ ending' \in [peer: Peers \cup {NoPeer}, hashes: SUBSET Values,
                           headers: SUBSET Header]
           /\ UNCHANGED <<hello, tokens, acked, older>>
<1>1. {asked[p][s] : s \in OpenStreams(p)} \in SUBSET Values
  BY DEF TypeOK, OpenStreams
<1>2. ClearSession(p)
  BY DEF EndSession
<1> QED
  BY <1>1, <1>2, ClearSessionType DEF EndSession, ClearSession

LEMMA ReaskType ==
    ASSUME TypeOK, NEW p \in Peers, NEW hashes \in SUBSET Values, Reask(p, hashes)
    PROVE  /\ wanted' \in [Values -> BOOLEAN]
           /\ tried' \in [Values -> SUBSET Peers]
           /\ atPeer' \in [Values -> Peers \cup {NoPeer}]
           /\ agenda' \in SUBSET Values
           /\ UNCHANGED <<atSid, done, failed>>
BY DEF TypeOK, Reask

LEMMA StoreType ==
    ASSUME NEW store \in [Values -> CopyKinds \cup {NoCopy}], NEW stored, NEW headers
    PROVE  /\ AfterChecks(store, headers) \in [Values -> CopyKinds \cup {NoCopy}]
           /\ AfterDrops(store, stored, headers) \in [Values -> CopyKinds \cup {NoCopy}]
BY DEF AfterChecks, AfterDrops, CopyKinds

LEMMA TrackType ==
    ASSUME NEW headers \in SUBSET Header, NEW v \in Values, NEW copy \in CopyKinds
    PROVE  Track(headers, v, copy) \in SUBSET Header
BY DEF Track, Header

LEMMA CloseStreamType ==
    ASSUME TypeOK, NEW p \in Peers, NEW s \in Sids, CloseStream(p, s)
    PROVE  /\ asked' \in [Peers -> [Sids -> Values \cup {NoValue}]]
           /\ served' \in [Peers -> [Sids -> BOOLEAN]]
           /\ pending' \in [Peers -> [Sids -> SUBSET Header]]
BY DEF TypeOK, CloseStream

LEMMA SettleType ==
    ASSUME TypeOK, NEW p \in Peers, NEW s \in Sids, NEW v \in Values,
           NEW isHeader \in BOOLEAN,
           NEW store \in [Values -> CopyKinds \cup {NoCopy}],
           NEW stored \in SUBSET Values,
           NEW headers \in SUBSET Header,
           Settle(p, s, v, isHeader, store, stored, headers)
    PROVE  TypeOK'
<1> DEFINE due     == Due(headers, stored)
           failing == {h \in due : h[2] = "miscounted"}
           passing == due \ failing
           left    == {h[1] : h \in headers \ due}
           fresh   == {h[1] : h \in pending[p][s]} \ left
           mine    == IF isHeader /\ v \notin {h[1] : h \in headers}
                      THEN fresh \cup {v} ELSE fresh
           after   == AfterChecks(store, passing)
<1>1. after \in [Values -> CopyKinds \cup {NoCopy}]
  BY StoreType
<1>2. CASE failing = {}
  <2>1. /\ hdr' = after
        /\ pending' = [pending EXCEPT ![p][s] = headers \ due]
        /\ verified' = [verified EXCEPT ![p] =
             [w \in Values |-> IF w \in mine /\ after[w] # NoCopy THEN after[w] ELSE @[w]]]
        /\ served' = [served EXCEPT ![p][s] = @ \/ (isHeader /\ v = asked[p][s])]
        /\ UNCHANGED <<status, hello, tokens, acked, older, asked, ending>>
        /\ UNCHANGED <<wantVars, agenda, historyVars>>
        /\ pages' = stored
    BY <1>2 DEF Settle
  <2> HIDE DEF due, failing, passing, left, fresh, mine, after
  <2>2. served' \in [Peers -> [Sids -> BOOLEAN]]
    BY <2>1 DEF TypeOK
  <2>3. pending' \in [Peers -> [Sids -> SUBSET Header]]
    BY <2>1 DEF TypeOK
  <2>4. verified' \in [Peers -> [Values -> CopyKinds \cup {NoCopy}]]
    BY <1>1, <2>1 DEF TypeOK
  <2> QED
    BY <1>1, <2>1, <2>2, <2>3, <2>4 DEF TypeOK, wantVars, historyVars
<1>3. CASE failing # {}
  <2>1. PICK bad \in failing, ok \in SUBSET passing :
          /\ hdr' = AfterChecks(store, ok \cup {bad})
          /\ EndSession(p, (PendingOf(p) \ pending[p][s]) \cup (headers \ (ok \cup {bad})))
    BY <1>3 DEF Settle
  <2>2. pages' = stored /\ UNCHANGED <<wantVars, agenda, historyVars>>
    BY DEF Settle
  <2>3. hdr' \in [Values -> CopyKinds \cup {NoCopy}]
    BY <2>1, StoreType
  <2>4. (PendingOf(p) \ pending[p][s]) \cup (headers \ (ok \cup {bad})) \in SUBSET Header
    BY PendingOfType
  <2> QED
    BY <2>1, <2>2, <2>3, <2>4, EndSessionType DEF TypeOK, wantVars, historyVars
<1> QED
  BY <1>2, <1>3

\* The steps that take nothing from a peer.
LEMMA AskingType ==
    ASSUME TypeOK,
           \/ \E v \in Values : Request(v) \/ Dispatch(v)
           \/ Tick
           \/ \E p \in Peers : Refill(p)
    PROVE  TypeOK'
<1>1. ASSUME NEW v \in Values, Request(v) PROVE TypeOK'
  BY <1>1 DEF TypeOK, Request, sessionVars, streamVars, storeVars, historyVars
<1>2. ASSUME NEW v \in Values, Dispatch(v) PROVE TypeOK'
  <2>0. agenda' \in SUBSET Values /\ UNCHANGED <<storeVars, ending, historyVars>>
    BY <1>2 DEF Dispatch, TypeOK
  <2>1. ASSUME NEW p \in Best(v), NEW s \in Sids, SendGet(v, p, s) PROVE TypeOK'
    BY <2>0, <2>1, SendGetType
  <2>2. CASE UNCHANGED <<sessionVars, streamVars, wantVars>>
    BY <2>0, <2>2 DEF TypeOK, sessionVars, streamVars, wantVars, storeVars, historyVars
  <2> QED
    BY <1>2, <2>1, <2>2 DEF Dispatch
<1>3. CASE Tick
  BY <1>3 DEF TypeOK, Tick, Waiting, sessionVars, streamVars, wantVars, storeVars, historyVars
<1>4. ASSUME NEW p \in Peers, Refill(p) PROVE TypeOK'
  <2>1. tokens' \in [Peers -> 0..Burst]
    BY <1>4, BoundsAssumption DEF TypeOK, Refill
  <2> QED
    BY <1>4, <2>1 DEF TypeOK, Refill, streamVars, wantVars, storeVars, historyVars
<1> QED
  BY <1>1, <1>2, <1>3, <1>4

LEMMA SessionType ==
    ASSUME TypeOK, NEW p \in Peers,
           OpenSession(p) \/ OnHello(p) \/ OnHelloMismatch(p) \/ SessionEnds(p)
    PROVE  TypeOK'
<1>1. CASE OpenSession(p)
  <2>1. older' \in SUBSET (Peers \X Peers)
    BY <1>1 DEF TypeOK, OpenSession
  <2>2. tokens' \in [Peers -> 0..Burst]
    BY <1>1, BoundsAssumption DEF TypeOK, OpenSession
  <2>3. reopened' \in 0..MaxReopened
    BY <1>1, BoundsAssumption DEF TypeOK, OpenSession
  <2>4. lost' \in [hashes: SUBSET Values, headers: SUBSET Header]
    <3>1. {asked[p][s] : s \in OpenStreams(p)} \in SUBSET Values
      BY DEF TypeOK, OpenStreams
    <3> QED
      BY <1>1, <3>1, PendingOfType DEF TypeOK, OpenSession
  <2>5. /\ asked' \in [Peers -> [Sids -> Values \cup {NoValue}]]
        /\ served' \in [Peers -> [Sids -> BOOLEAN]]
        /\ pending' \in [Peers -> [Sids -> SUBSET Header]]
    BY <1>1 DEF TypeOK, OpenSession
  <2> QED
    BY <1>1, <2>1, <2>2, <2>3, <2>4, <2>5 DEF TypeOK, OpenSession, wantVars, storeVars
<1>2. CASE OnHello(p)
  <2>1. tokens' \in [Peers -> 0..Burst]
    BY <1>2, BoundsAssumption DEF TypeOK, OnHello
  <2> QED
    BY <1>2, <2>1 DEF TypeOK, OnHello, Waiting, streamVars, wantVars, storeVars, historyVars
<1>3. CASE OnHelloMismatch(p)
  <2>1. ClearSession(p)
    BY <1>3 DEF OnHelloMismatch
  <2> QED
    BY <1>3, <2>1, ClearSessionType
    DEF TypeOK, OnHelloMismatch, ClearSession, wantVars, storeVars, historyVars
<1>4. CASE SessionEnds(p)
  <2>1. EndSession(p, PendingOf(p)) /\ UNCHANGED <<wantVars, storeVars, agenda, historyVars>>
    BY <1>4 DEF SessionEnds
  <2> QED
    BY <2>1, PendingOfType, EndSessionType DEF TypeOK, wantVars, storeVars, historyVars
<1> QED
  BY <1>1, <1>2, <1>3, <1>4

\* What StoreFails and FinishEndingFails may leave in the store is a store.
LEMMA LeftBehindType ==
    ASSUME TypeOK, NEW p \in Peers, NEW s \in Sids, NEW left \in LeftBehind(p, s)
    PROVE  /\ left.store \in [Values -> CopyKinds \cup {NoCopy}]
           /\ left.stored \in SUBSET Values /\ pages \subseteq left.stored
           /\ left.headers \in SUBSET Header
<1> DEFINE mine == pending[p][s]
<1>1. mine \in SUBSET Header
  BY DEF TypeOK
<1>2. CASE left = [store |-> hdr, stored |-> pages, headers |-> mine]
  BY <1>1, <1>2 DEF TypeOK
<1>3. ASSUME NEW h \in Values \X Copies,
             left = [store |-> [hdr EXCEPT ![h[1]] = h[2]], stored |-> pages,
                     headers |-> Track(mine, h[1], h[2])]
      PROVE  /\ left.store \in [Values -> CopyKinds \cup {NoCopy}]
             /\ left.stored \in SUBSET Values /\ pages \subseteq left.stored
             /\ left.headers \in SUBSET Header
  <2>1. h[1] \in Values /\ h[2] \in CopyKinds
    BY CopiesAssumption
  <2>2. Track(mine, h[1], h[2]) \in SUBSET Header
    BY <1>1, <2>1, TrackType
  <2> QED
    BY <1>3, <2>1, <2>2 DEF TypeOK
<1>4. ASSUME NEW v \in Values, NEW gone,
             left = [store |-> hdr, stored |-> pages \cup {v}, headers |-> mine \ gone]
      PROVE  /\ left.store \in [Values -> CopyKinds \cup {NoCopy}]
             /\ left.stored \in SUBSET Values /\ pages \subseteq left.stored
             /\ left.headers \in SUBSET Header
  BY <1>1, <1>4 DEF TypeOK
<1>5. \/ left = [store |-> hdr, stored |-> pages, headers |-> mine]
      \/ \E h \in Values \X Copies :
           left = [store |-> [hdr EXCEPT ![h[1]] = h[2]], stored |-> pages,
                   headers |-> Track(mine, h[1], h[2])]
      \/ \E v \in Values : \E gone \in SUBSET Header :
           left = [store |-> hdr, stored |-> pages \cup {v}, headers |-> mine \ gone]
  <2>1. \A v \in Values : Due(mine, pages \cup {v}) \subseteq Header
    BY <1>1 DEF Due
  <2> HIDE DEF mine
  <2>2. LeftBehind(p, s) =
          {[store |-> hdr, stored |-> pages, headers |-> mine]}
          \cup {[store |-> [hdr EXCEPT ![h[1]] = h[2]], stored |-> pages,
                 headers |-> Track(mine, h[1], h[2])] :
                 h \in {g \in Values \X Copies : ~HasRoot(g[2]) \/ g[1] \notin pages}}
          \cup UNION {{[store |-> hdr, stored |-> pages \cup {v}, headers |-> mine \ gone] :
                         gone \in {{}} \cup {{h} : h \in Due(mine, pages \cup {v})}} :
                      v \in Values}
    BY DEF LeftBehind, mine
  <2>3. CASE \E v \in Values : left \in
               {[store |-> hdr, stored |-> pages \cup {v}, headers |-> mine \ gone] :
                  gone \in {{}} \cup {{h} : h \in Due(mine, pages \cup {v})}}
    <3>0. PICK v \in Values : left \in
               {[store |-> hdr, stored |-> pages \cup {v}, headers |-> mine \ gone] :
                  gone \in {{}} \cup {{h} : h \in Due(mine, pages \cup {v})}}
      BY <2>3
    <3>1. PICK gone \in {{}} \cup {{h} : h \in Due(mine, pages \cup {v})} :
            left = [store |-> hdr, stored |-> pages \cup {v}, headers |-> mine \ gone]
      BY <3>0
    <3>2. gone \in SUBSET Header
      BY <2>1
    <3> QED
      BY <3>1, <3>2
  <2> QED
    BY <2>2, <2>3
<1> QED
  BY <1>2, <1>3, <1>4, <1>5

LEMMA ReceiveType ==
    ASSUME TypeOK, NEW p \in Peers, NEW s \in Sids, Receive(p, s)
    PROVE  TypeOK'
<1>1. ASSUME NEW v \in Values, NEW c \in Copies, OnHeader(p, s, v, c) PROVE TypeOK'
  <2> DEFINE known == HasRoot(c) /\ v \in pages
             headers == IF known THEN pending[p][s] ELSE Track(pending[p][s], v, c)
  <2>0. c \in CopyKinds /\ headers \in SUBSET Header
    BY TrackType, CopiesAssumption DEF TypeOK
  <2>1. CASE known /\ c = "miscounted"
    <3>1. EndSession(p, PendingOf(p)) /\ UNCHANGED <<wantVars, storeVars, agenda, historyVars>>
      BY <1>1, <2>1 DEF OnHeader
    <3> QED
      BY <3>1, PendingOfType, EndSessionType DEF TypeOK, wantVars, storeVars, historyVars
  <2>2. CASE ~(known /\ c = "miscounted")
    <3>1. Settle(p, s, v, TRUE, [hdr EXCEPT ![v] = c], pages, headers)
      BY <1>1, <2>2 DEF OnHeader
    <3>2. [hdr EXCEPT ![v] = c] \in [Values -> CopyKinds \cup {NoCopy}] /\ pages \in SUBSET Values
      BY <2>0 DEF TypeOK
    <3> HIDE DEF headers
    <3> QED
      BY <2>0, <3>1, <3>2, SettleType
  <2> QED
    BY <2>1, <2>2
<1>2. ASSUME NEW v \in Values, OnPage(p, s, v) PROVE TypeOK'
  <2>1. Settle(p, s, v, FALSE, hdr, pages \cup {v}, pending[p][s])
    BY <1>2 DEF OnPage
  <2>2. /\ hdr \in [Values -> CopyKinds \cup {NoCopy}]
        /\ pages \cup {v} \in SUBSET Values
        /\ pending[p][s] \in SUBSET Header
    BY DEF TypeOK
  <2> QED
    BY <2>1, <2>2, SettleType
<1>3. CASE FinUnchecked(p, s)
  <2>1. /\ hdr' = AfterDrops(hdr, pages, pending[p][s])
        /\ EndSession(p, PendingOf(p) \ pending[p][s])
        /\ UNCHANGED <<wantVars, pages, agenda, historyVars>>
    BY <1>3 DEF FinUnchecked
  <2>2. hdr' \in [Values -> CopyKinds \cup {NoCopy}]
    BY <2>1, StoreType DEF TypeOK
  <2>3. PendingOf(p) \ pending[p][s] \in SUBSET Header
    BY PendingOfType
  <2> QED
    BY <2>1, <2>2, <2>3, EndSessionType DEF TypeOK, wantVars, historyVars
<1>4. ASSUME NEW partial \in BOOLEAN, FinStream(p, s, partial) PROVE TypeOK'
  <2> DEFINE v     == asked[p][s]
             store == IF partial THEN AfterDrops(hdr, pages, pending[p][s]) ELSE hdr
             had   == HaveIn(store, v)
  <2>1. v \in Values
    BY <1>4 DEF TypeOK, FinStream, StreamOpen
  <2>2. store \in [Values -> CopyKinds \cup {NoCopy}]
    BY StoreType DEF TypeOK
  <2>3. /\ hdr' = store
        /\ CloseStream(p, s)
        /\ acked' = [acked EXCEPT ![p] = @ \cup {w \in Values : verified[p][w] # NoCopy}]
        /\ UNCHANGED <<status, hello, tokens, verified, older, pages, ending, historyVars>>
    BY <1>4 DEF FinStream
  <2>4. acked' \in [Peers -> SUBSET Values]
    BY <2>3 DEF TypeOK
  <2>5. /\ wanted' \in [Values -> BOOLEAN] /\ tried' \in [Values -> SUBSET Peers]
        /\ atPeer' \in [Values -> Peers \cup {NoPeer}] /\ atSid' = atSid
        /\ done' \in SUBSET Values /\ failed' = failed /\ agenda' \in SUBSET Values
    <3>1. CASE Reask(p, {v})
      BY <2>1, <3>1, ReaskType DEF TypeOK
    <3>2. \/ /\ done' = done \cup {v}
             /\ wanted' = [wanted EXCEPT ![v] = FALSE]
             /\ tried' = [tried EXCEPT ![v] = {}]
             /\ atPeer' = [atPeer EXCEPT ![v] = NoPeer]
             /\ UNCHANGED <<atSid, failed, agenda>>
          \/ /\ atPeer' = [atPeer EXCEPT ![v] = NoPeer]
             /\ agenda' = {v}
             /\ UNCHANGED <<wanted, tried, atSid, done, failed>>
          \/ Reask(p, {v})
      BY <1>4 DEF FinStream
    <3> HIDE DEF v
    <3> QED
      BY <2>1, <3>1, <3>2 DEF TypeOK
  <2> HIDE DEF store
  <2> QED
    BY <2>2, <2>3, <2>4, <2>5, CloseStreamType DEF TypeOK, historyVars
<1>5. CASE StreamError(p, s)
  <2>1. asked[p][s] \in Values
    BY <1>5 DEF TypeOK, StreamError, StreamOpen
  <2>2. hdr' \in [Values -> CopyKinds \cup {NoCopy}]
    BY <1>5, StoreType DEF TypeOK, StreamError
  <2>3. CloseStream(p, s) /\ Reask(p, {asked[p][s]})
        /\ UNCHANGED <<sessionVars, pages, ending, historyVars>>
    BY <1>5 DEF StreamError
  <2> QED
    BY <2>1, <2>2, <2>3, CloseStreamType, ReaskType DEF TypeOK, sessionVars, historyVars
<1>6. CASE StoreFails(p, s)
  <2>1. asked[p][s] \in Values
    BY <1>6 DEF TypeOK, StoreFails, StreamOpen
  <2>2. PICK left \in LeftBehind(p, s) :
          /\ pages' = left.stored
          /\ \E dropped \in SUBSET left.headers :
               hdr' = AfterDrops(left.store, left.stored, dropped)
    BY <1>6 DEF StoreFails
  <2>3. hdr' \in [Values -> CopyKinds \cup {NoCopy}] /\ pages' \in SUBSET Values
    <3>1. /\ left.store \in [Values -> CopyKinds \cup {NoCopy}]
          /\ left.stored \in SUBSET Values
      BY LeftBehindType
    <3> QED
      BY <2>2, <3>1, StoreType
  <2>4. faults' \in 0..MaxFaults
    BY <1>6, BoundsAssumption DEF TypeOK, StoreFails
  <2>5. CloseStream(p, s)
    BY <1>6 DEF StoreFails
  <2>6. /\ wanted' \in [Values -> BOOLEAN] /\ tried' \in [Values -> SUBSET Peers]
        /\ atPeer' \in [Values -> Peers \cup {NoPeer}] /\ failed' \in SUBSET Values
        /\ UNCHANGED <<sessionVars, atSid, done, ending, agenda, reopened, lost>>
    BY <1>6, <2>1 DEF TypeOK, StoreFails
  <2> QED
    BY <2>3, <2>4, <2>5, <2>6, CloseStreamType DEF TypeOK, sessionVars
<1> QED
  BY <1>1, <1>2, <1>3, <1>4, <1>5, <1>6 DEF Receive

LEMMA EndingType ==
    ASSUME TypeOK, FinishEnding \/ FinishEndingFails
    PROVE  TypeOK'
<1>0. /\ ending.peer \in Peers
      /\ ending.hashes \in SUBSET Values
  BY DEF TypeOK, FinishEnding, FinishEndingFails
<1>1. Reask(ending.peer, ending.hashes) /\ ending' = NotEnding
      /\ UNCHANGED <<sessionVars, streamVars, pages, reopened, lost>>
  BY DEF FinishEnding, FinishEndingFails, historyVars
<1>2. ending' \in [peer: Peers \cup {NoPeer}, hashes: SUBSET Values, headers: SUBSET Header]
  BY <1>1 DEF NotEnding
<1>3. hdr' \in [Values -> CopyKinds \cup {NoCopy}]
  <2>1. \A headers : AfterDrops(hdr, pages, headers) \in [Values -> CopyKinds \cup {NoCopy}]
    BY StoreType DEF TypeOK
  <2> QED
    BY <2>1 DEF FinishEnding, FinishEndingFails
<1>4. faults' \in 0..MaxFaults
  BY BoundsAssumption DEF TypeOK, FinishEnding, FinishEndingFails, historyVars
<1>5. /\ wanted' \in [Values -> BOOLEAN]
      /\ tried' \in [Values -> SUBSET Peers]
      /\ atPeer' \in [Values -> Peers \cup {NoPeer}]
      /\ agenda' \in SUBSET Values
      /\ UNCHANGED <<atSid, done, failed>>
  BY <1>0, <1>1, ReaskType
<1> QED
  BY <1>1, <1>2, <1>3, <1>4, <1>5 DEF TypeOK, sessionVars, streamVars, historyVars

LEMMA InitType == Init => TypeOK
BY BoundsAssumption DEF Init, TypeOK, NotEnding, CopyKinds

LEMMA NextType == TypeOK /\ [Next]_vars => TypeOK'
<1>1. CASE UNCHANGED vars
  BY <1>1 DEF TypeOK, vars, sessionVars, streamVars, wantVars, storeVars, historyVars
<1>2. CASE Next
  BY <1>2, AskingType, SessionType, EndingType, ReceiveType DEF Next
<1> QED
  BY <1>1, <1>2

\* Every variable of the client keeps its type: the request bucket never goes
\* below zero or above req-burst.
THEOREM TypeCorrect == Spec => []TypeOK
<1>1. Init => TypeOK
  BY InitType
<1>2. TypeOK /\ [Next]_vars => TypeOK'
  BY NextType
<1> QED
  BY <1>1, <1>2, PTL DEF Spec

-----------------------------------------------------------------------------
(* Streams and wants *)

\* StreamsMatchWants and DispatchOnce, strengthened with what is true while a
\* session's end waits for the store: its hashes are on no stream, and there are
\* none when no session is ending.  Without the second a hash asked for anew
\* could still be on the list of an ended session.
WantsInv ==
    /\ TypeOK
    /\ StreamsMatchWants
    /\ DispatchOnce
    /\ \A p \in Peers, s \in Sids : asked[p][s] \notin ending.hashes
    /\ ending.peer = NoPeer => ending.hashes = {}

LEMMA InitWants == Init => WantsInv
<1> SUFFICES ASSUME Init PROVE WantsInv
  OBVIOUS
<1>1. TypeOK
  BY InitType
<1> QED
  BY <1>1, PeersAssumption, ValuesAssumption
  DEF Init, WantsInv, StreamsMatchWants, DispatchOnce, NotEnding

\* A get goes out to a peer that has not missed the hash, under an id that no
\* open stream has.
LEMMA SendGetWants ==
    ASSUME WantsInv, NEW v \in agenda, NEW p \in Best(v), NEW s \in Sids, SendGet(v, p, s),
           agenda' = agenda \ {v}, UNCHANGED <<storeVars, ending, historyVars>>,
           TypeOK'
    PROVE  WantsInv'
<1>1. /\ p \in Peers /\ Open(p) /\ hello[p] /\ p \notin tried[v]
      /\ v \in Values
  BY BoundsAssumption DEF Best, Candidates, TypeOK, Sids, WantsInv
<1>2. wanted[v] /\ atPeer[v] = NoPeer /\ v \notin ending.hashes
  BY <1>1, PeersAssumption, ValuesAssumption DEF WantsInv, DispatchOnce, TypeOK
<1>3. asked[p][s] = NoValue
  BY DEF SendGet
<1>4. StreamsMatchWants'
  <2>1. ASSUME NEW w \in Values, atPeer'[w] # NoPeer
        PROVE  /\ wanted'[w]
               /\ \/ atSid'[w] \in Sids /\ asked'[atPeer'[w]][atSid'[w]] = w
                  \/ ending'.peer = atPeer'[w] /\ w \in ending'.hashes
                  \/ w \in lost'.hashes
    BY <1>1, <1>2, <1>3, <2>1, ValuesAssumption
    DEF SendGet, WantsInv, StreamsMatchWants, TypeOK, historyVars
  <2>2. ASSUME NEW q \in Peers, NEW r \in Sids, asked'[q][r] # NoValue
        PROVE  /\ status'[q] = "open" /\ hello'[q]
               /\ atPeer'[asked'[q][r]] = q /\ atSid'[asked'[q][r]] = r
               /\ q \notin tried'[asked'[q][r]]
    <3>1. CASE q = p /\ r = s
      BY <1>1, <3>1 DEF SendGet, TypeOK, Open, Sids, WantsInv
    <3>2. CASE ~(q = p /\ r = s)
      <4>1. asked'[q][r] = asked[q][r] /\ asked[q][r] \in Values
        BY <1>1, <2>2, <3>2 DEF SendGet, TypeOK, WantsInv
      <4>2. /\ status[q] = "open" /\ hello[q]
            /\ atPeer[asked[q][r]] = q /\ atSid[asked[q][r]] = r
            /\ q \notin tried[asked[q][r]]
        BY <2>2, <4>1 DEF WantsInv, StreamsMatchWants, Open
      <4>3. asked[q][r] # v
        BY <1>2, <4>2, PeersAssumption
      <4> QED
        BY <1>1, <4>1, <4>2, <4>3 DEF SendGet, TypeOK, WantsInv
    <3> QED
      BY <3>1, <3>2
  <2> QED
    BY <2>1, <2>2 DEF StreamsMatchWants, Open
<1>5. DispatchOnce'
  BY <1>1, <1>2 DEF SendGet, WantsInv, DispatchOnce, TypeOK
<1>6. \A q \in Peers, r \in Sids : asked'[q][r] \notin ending'.hashes
  BY <1>1, <1>2 DEF SendGet, WantsInv, TypeOK
<1> QED
  BY <1>4, <1>5, <1>6 DEF WantsInv

LEMMA DispatchWants ==
    ASSUME WantsInv, NEW v \in Values, Dispatch(v), TypeOK'
    PROVE  WantsInv'
<1>1. CASE \E p \in Best(v), s \in Sids : SendGet(v, p, s)
  BY <1>1, SendGetWants DEF Dispatch
<1>2. CASE UNCHANGED <<sessionVars, streamVars, wantVars>>
  BY <1>2 DEF Dispatch, WantsInv, StreamsMatchWants, DispatchOnce, Open,
     sessionVars, streamVars, wantVars, storeVars, historyVars
<1> QED
  BY <1>1, <1>2 DEF Dispatch

LEMMA RequestWants ==
    ASSUME WantsInv, NEW v \in Values, Request(v), TypeOK'
    PROVE  WantsInv'
<1>1. CASE Have(v)
  BY <1>1 DEF Request, WantsInv, StreamsMatchWants, DispatchOnce, Open, TypeOK,
     sessionVars, streamVars, storeVars, historyVars
<1>2. CASE ~Have(v)
  <2>1. atPeer[v] = NoPeer /\ ~wanted[v]
    BY <1>2 DEF Request, WantsInv, StreamsMatchWants
  <2>2. \A p \in Peers, s \in Sids : asked[p][s] # v
    <3> SUFFICES ASSUME NEW p \in Peers, NEW s \in Sids, asked[p][s] = v PROVE FALSE
      OBVIOUS
    <3>1. asked[p][s] # NoValue
      BY ValuesAssumption
    <3>2. atPeer[asked[p][s]] = p
      BY <3>1 DEF WantsInv, StreamsMatchWants
    <3> QED
      BY <2>1, <3>2, PeersAssumption
  <2>3. StreamsMatchWants'
    BY <1>2, <2>1, <2>2 DEF Request, WantsInv, StreamsMatchWants, Open, TypeOK,
       sessionVars, streamVars, storeVars, historyVars
  <2>4. DispatchOnce'
    BY <1>2, <2>1 DEF Request, Idle, WantsInv, DispatchOnce, TypeOK
  <2> QED
    BY <1>2, <2>3, <2>4 DEF Request, WantsInv, streamVars
<1> QED
  BY <1>1, <1>2

\* The hashes that are out to nobody are dispatched: by tick! and by on-hello!.
LEMMA WaitingWants ==
    ASSUME WantsInv, TypeOK', Tick \/ \E p \in Peers : OnHello(p) \/ Refill(p)
    PROVE  WantsInv'
<1>1. agenda' \in {agenda, Waiting} /\ UNCHANGED <<wantVars, streamVars, ending, status, lost>>
      /\ \A p \in Peers : hello[p] => hello'[p]
  BY DEF Tick, OnHello, Refill, sessionVars, WantsInv, TypeOK, historyVars
<1>2. DispatchOnce'
  BY <1>1 DEF WantsInv, DispatchOnce, Waiting, wantVars
<1>3. StreamsMatchWants'
  BY <1>1 DEF WantsInv, StreamsMatchWants, Open, wantVars, streamVars
<1> QED
  BY <1>1, <1>2, <1>3 DEF WantsInv, streamVars

\* A stream of p whose hash is v is the only stream that asks for v.
LEMMA OneStream ==
    ASSUME WantsInv, NEW p \in Peers, NEW s \in Sids, asked[p][s] # NoValue,
           NEW q \in Peers, NEW r \in Sids, asked[q][r] = asked[p][s]
    PROVE  q = p /\ r = s
BY DEF WantsInv, StreamsMatchWants

\* A session that opens has no stream; whatever was out to that peer is on the
\* list of its ending session, or is lost with the session that was open.
LEMMA OpenSessionWants ==
    ASSUME WantsInv, NEW p \in Peers, OpenSession(p), TypeOK'
    PROVE  WantsInv'
<1>1. /\ \A s \in Sids : asked'[p][s] = NoValue
      /\ \A q \in Peers \ {p} : /\ asked'[q] = asked[q] /\ status'[q] = status[q]
                                /\ hello'[q] = hello[q]
  BY DEF OpenSession, WantsInv, TypeOK
<1>2. lost'.hashes = lost.hashes \cup {asked[p][s] : s \in OpenStreams(p)}
  BY DEF OpenSession
<1>3. UNCHANGED <<wantVars, ending, agenda>>
  BY DEF OpenSession
<1>4. StreamsMatchWants'
  <2>1. ASSUME NEW v \in Values, atPeer'[v] # NoPeer
        PROVE  /\ wanted'[v]
               /\ \/ atSid'[v] \in Sids /\ asked'[atPeer'[v]][atSid'[v]] = v
                  \/ ending'.peer = atPeer'[v] /\ v \in ending'.hashes
                  \/ v \in lost'.hashes
    <3>1. /\ atPeer[v] \in Peers /\ wanted[v]
          /\ \/ atSid[v] \in Sids /\ asked[atPeer[v]][atSid[v]] = v
             \/ ending.peer = atPeer[v] /\ v \in ending.hashes
             \/ v \in lost.hashes
      BY <1>3, <2>1 DEF WantsInv, StreamsMatchWants, TypeOK, wantVars
    <3>2. CASE atPeer[v] = p /\ atSid[v] \in Sids /\ asked[p][atSid[v]] = v
      <4>1. atSid[v] \in OpenStreams(p)
        BY <3>2, ValuesAssumption DEF OpenStreams
      <4> QED
        BY <1>2, <1>3, <3>1, <3>2, <4>1 DEF wantVars
    <3> QED
      BY <1>1, <1>2, <1>3, <3>1, <3>2 DEF wantVars
  <2>2. ASSUME NEW q \in Peers, NEW r \in Sids, asked'[q][r] # NoValue
        PROVE  /\ status'[q] = "open" /\ hello'[q]
               /\ atPeer'[asked'[q][r]] = q /\ atSid'[asked'[q][r]] = r
               /\ q \notin tried'[asked'[q][r]]
    BY <1>1, <1>3, <2>2 DEF WantsInv, StreamsMatchWants, Open, wantVars
  <2> QED
    BY <2>1, <2>2 DEF StreamsMatchWants, Open
<1>5. DispatchOnce'
  BY <1>3 DEF WantsInv, DispatchOnce, wantVars
<1>6. \A q \in Peers, s \in Sids : asked'[q][s] \notin ending'.hashes
  <2>1. NoValue \notin ending.hashes
    BY ValuesAssumption DEF WantsInv, TypeOK
  <2> QED
    BY <1>1, <1>3, <2>1 DEF WantsInv
<1> QED
  BY <1>3, <1>4, <1>5, <1>6 DEF WantsInv

\* A session that ends leaves its hashes on the list of what it was serving.
LEMMA EndSessionWants ==
    ASSUME WantsInv, Idle, NEW p \in Peers, NEW headers, EndSession(p, headers),
           UNCHANGED <<wantVars, agenda, lost>>, TypeOK'
    PROVE  WantsInv'
<1>1. /\ ending'.peer = p
      /\ ending'.hashes = {asked[p][s] : s \in OpenStreams(p)}
      /\ \A s \in Sids : asked'[p][s] = NoValue
      /\ \A q \in Peers \ {p}, s \in Sids : asked'[q][s] = asked[q][s]
      /\ \A q \in Peers \ {p} : status'[q] = status[q]
      /\ UNCHANGED hello
  BY DEF EndSession, ClearSession, WantsInv, TypeOK
<1>2. ending.peer = NoPeer /\ ending.hashes = {} /\ agenda = {}
  BY DEF Idle, WantsInv
<1>3. StreamsMatchWants'
  <2>1. ASSUME NEW v \in Values, atPeer'[v] # NoPeer
        PROVE  /\ wanted'[v]
               /\ \/ atSid'[v] \in Sids /\ asked'[atPeer'[v]][atSid'[v]] = v
                  \/ ending'.peer = atPeer'[v] /\ v \in ending'.hashes
                  \/ v \in lost'.hashes
    <3>1. /\ atPeer[v] \in Peers /\ wanted[v]
          /\ \/ atSid[v] \in Sids /\ asked[atPeer[v]][atSid[v]] = v
             \/ v \in lost.hashes
      BY <1>2, <2>1 DEF WantsInv, StreamsMatchWants, TypeOK, wantVars
    <3>2. CASE atPeer[v] = p /\ v \notin lost.hashes
      <4>1. atSid[v] \in OpenStreams(p)
        BY <3>1, <3>2, ValuesAssumption DEF OpenStreams
      <4> QED
        BY <1>1, <3>1, <3>2, <4>1 DEF wantVars
    <3>3. CASE ~(atPeer[v] = p /\ v \notin lost.hashes)
      BY <1>1, <3>1, <3>3 DEF wantVars
    <3> QED
      BY <3>2, <3>3
  <2>2. ASSUME NEW q \in Peers, NEW r \in Sids, asked'[q][r] # NoValue
        PROVE  /\ status'[q] = "open" /\ hello'[q]
               /\ atPeer'[asked'[q][r]] = q /\ atSid'[asked'[q][r]] = r
               /\ q \notin tried'[asked'[q][r]]
    BY <1>1, <2>2 DEF WantsInv, StreamsMatchWants, Open, wantVars
  <2> QED
    BY <2>1, <2>2 DEF StreamsMatchWants, Open
<1>4. DispatchOnce'
  <2>1. ASSUME NEW s \in OpenStreams(p)
        PROVE  wanted'[asked[p][s]] /\ atPeer'[asked[p][s]] = p
    <3>1. s \in Sids /\ asked[p][s] \in Values /\ asked[p][s] # NoValue
      BY DEF OpenStreams, WantsInv, TypeOK
    <3>2. atPeer[asked[p][s]] = p
      BY <3>1 DEF WantsInv, StreamsMatchWants
    <3>3. wanted[asked[p][s]]
      BY <3>1, <3>2, PeersAssumption DEF WantsInv, StreamsMatchWants
    <3> QED
      BY <3>2, <3>3 DEF wantVars
  <2> QED
    BY <1>1, <1>2, <2>1 DEF DispatchOnce
<1>5. ASSUME NEW q \in Peers, NEW r \in Sids PROVE asked'[q][r] \notin ending'.hashes
  <2> SUFFICES ASSUME NEW s \in OpenStreams(p), asked'[q][r] = asked[p][s] PROVE FALSE
    BY <1>1
  <2>1. s \in Sids /\ asked[p][s] # NoValue
    BY DEF OpenStreams
  <2>2. q # p /\ asked[q][r] = asked[p][s]
    BY <1>1, <2>1
  <2> QED
    BY <2>1, <2>2, OneStream
<1> QED
  BY <1>1, <1>3, <1>4, <1>5, PeersAssumption DEF WantsInv

\* What an ended session was serving is marked, free, and on the task's list.
LEMMA FinishEndingWants ==
    ASSUME WantsInv, FinishEnding \/ FinishEndingFails, TypeOK'
    PROVE  WantsInv'
<1> DEFINE p == ending.peer
           hashes == ending.hashes
<1>1. /\ p \in Peers /\ hashes \in SUBSET Values /\ agenda = {}
      /\ ending'.peer = NoPeer /\ ending'.hashes = {}
      /\ UNCHANGED <<sessionVars, streamVars, lost>>
      /\ Reask(p, hashes)
  BY DEF WantsInv, TypeOK, FinishEnding, FinishEndingFails, NotEnding, historyVars
<1> HIDE DEF p, hashes
<1>2. /\ \A v \in hashes : wanted'[v] /\ p \in tried'[v] /\ atPeer'[v] = NoPeer
      /\ \A v \in Values \ hashes :
           wanted'[v] = wanted[v] /\ tried'[v] = tried[v] /\ atPeer'[v] = atPeer[v]
      /\ agenda' = hashes /\ atSid' = atSid
  BY <1>1 DEF Reask, WantsInv, TypeOK
<1>3. StreamsMatchWants'
  <2>1. ASSUME NEW v \in Values, atPeer'[v] # NoPeer
        PROVE  /\ wanted'[v]
               /\ \/ atSid'[v] \in Sids /\ asked'[atPeer'[v]][atSid'[v]] = v
                  \/ ending'.peer = atPeer'[v] /\ v \in ending'.hashes
                  \/ v \in lost'.hashes
    BY <1>1, <1>2, <2>1 DEF WantsInv, StreamsMatchWants, streamVars, hashes
  <2>2. ASSUME NEW q \in Peers, NEW r \in Sids, asked'[q][r] # NoValue
        PROVE  /\ status'[q] = "open" /\ hello'[q]
               /\ atPeer'[asked'[q][r]] = q /\ atSid'[asked'[q][r]] = r
               /\ q \notin tried'[asked'[q][r]]
    <3>1. asked'[q][r] = asked[q][r] /\ asked[q][r] \in Values \ hashes
      BY <1>1, <2>2 DEF WantsInv, TypeOK, streamVars, hashes
    <3> QED
      BY <1>1, <1>2, <2>2, <3>1
      DEF WantsInv, StreamsMatchWants, Open, sessionVars, streamVars
  <2> QED
    BY <2>1, <2>2 DEF StreamsMatchWants, Open
<1>4. DispatchOnce'
  BY <1>1, <1>2 DEF DispatchOnce
<1> QED
  BY <1>1, <1>3, <1>4 DEF WantsInv

\* A stream that is closed, whatever becomes of its hash, leaves the hash out to
\* nobody; the task dispatches it again only if it is still wanted.
LEMMA CloseStreamWants ==
    ASSUME WantsInv, Idle, NEW p \in Peers, NEW s \in Sids, NEW v \in Values,
           asked[p][s] = v, CloseStream(p, s), atPeer'[v] = NoPeer,
           \A w \in Values \ {v} :
             wanted'[w] = wanted[w] /\ tried'[w] = tried[w] /\ atPeer'[w] = atPeer[w],
           UNCHANGED <<atSid, status, hello, lost, ending>>,
           agenda' = {} \/ (agenda' = {v} /\ wanted'[v]),
           TypeOK'
    PROVE  WantsInv'
<1>0. asked[p][s] # NoValue
  BY ValuesAssumption
<1>1. /\ asked'[p][s] = NoValue
      /\ \A q \in Peers, r \in Sids : ~(q = p /\ r = s) => asked'[q][r] = asked[q][r]
  BY DEF CloseStream, WantsInv, TypeOK
<1>2. StreamsMatchWants'
  <2>1. ASSUME NEW w \in Values, atPeer'[w] # NoPeer
        PROVE  /\ wanted'[w]
               /\ \/ atSid'[w] \in Sids /\ asked'[atPeer'[w]][atSid'[w]] = w
                  \/ ending'.peer = atPeer'[w] /\ w \in ending'.hashes
                  \/ w \in lost'.hashes
    <3>1. w # v /\ atPeer[w] \in Peers
      BY <2>1 DEF WantsInv, TypeOK
    <3> QED
      BY <1>1, <2>1, <3>1 DEF WantsInv, StreamsMatchWants
  <2>2. ASSUME NEW q \in Peers, NEW r \in Sids, asked'[q][r] # NoValue
        PROVE  /\ status'[q] = "open" /\ hello'[q]
               /\ atPeer'[asked'[q][r]] = q /\ atSid'[asked'[q][r]] = r
               /\ q \notin tried'[asked'[q][r]]
    <3>1. ~(q = p /\ r = s) /\ asked'[q][r] = asked[q][r] /\ asked[q][r] \in Values
      BY <1>1, <2>2 DEF WantsInv, TypeOK
    <3>2. asked[q][r] # v
      BY <1>0, <3>1, OneStream
    <3> QED
      BY <2>2, <3>1, <3>2 DEF WantsInv, StreamsMatchWants, Open
  <2> QED
    BY <2>1, <2>2 DEF StreamsMatchWants, Open
<1>3. DispatchOnce'
  BY DEF DispatchOnce, WantsInv, Idle
<1>4. \A q \in Peers, r \in Sids : asked'[q][r] \notin ending'.hashes
  BY DEF WantsInv, Idle
<1> QED
  BY <1>2, <1>3, <1>4 DEF WantsInv

\* An item changes no want: it settles, or it ends the session.
LEMMA SettleWants ==
    ASSUME WantsInv, Idle, NEW p \in Peers, NEW s, NEW v, NEW isHeader,
           NEW store, NEW stored, NEW headers,
           Settle(p, s, v, isHeader, store, stored, headers), TypeOK'
    PROVE  WantsInv'
<1>1. UNCHANGED <<wantVars, agenda, lost>>
  BY DEF Settle, historyVars
<1>2. CASE UNCHANGED <<status, hello, asked, ending>>
  BY <1>1, <1>2 DEF WantsInv, StreamsMatchWants, DispatchOnce, Open, wantVars
<1>3. CASE \E unchecked : EndSession(p, unchecked)
  BY <1>1, <1>3, EndSessionWants
<1> QED
  BY <1>2, <1>3 DEF Settle

LEMMA ReceiveWants ==
    ASSUME WantsInv, NEW p \in Peers, NEW s \in Sids, Receive(p, s), TypeOK'
    PROVE  WantsInv'
<1>0. Idle
  BY DEF Receive, OnHeader, OnPage, FinUnchecked, FinStream, StreamError, StoreFails, StreamOpen
<1>1. ASSUME NEW v \in Values, NEW c \in Copies, OnHeader(p, s, v, c) PROVE WantsInv'
  <2>1. CASE HasRoot(c) /\ v \in pages /\ c = "miscounted"
    <3>1. EndSession(p, PendingOf(p)) /\ UNCHANGED <<wantVars, agenda, lost>>
      BY <1>1, <2>1 DEF OnHeader, historyVars
    <3> QED
      BY <1>0, <3>1, EndSessionWants
  <2>2. CASE ~(HasRoot(c) /\ v \in pages /\ c = "miscounted")
    <3>1. \E headers : Settle(p, s, v, TRUE, [hdr EXCEPT ![v] = c], pages, headers)
      BY <1>1, <2>2 DEF OnHeader
    <3> QED
      BY <1>0, <3>1, SettleWants
  <2> QED
    BY <2>1, <2>2
<1>2. ASSUME NEW v \in Values, OnPage(p, s, v) PROVE WantsInv'
  BY <1>0, <1>2, SettleWants DEF OnPage
<1>3. CASE FinUnchecked(p, s)
  <2>1. EndSession(p, PendingOf(p) \ pending[p][s]) /\ UNCHANGED <<wantVars, agenda, lost>>
    BY <1>3 DEF FinUnchecked, historyVars
  <2> QED
    BY <1>0, <2>1, EndSessionWants
<1>4. ASSUME NEW partial \in BOOLEAN, FinStream(p, s, partial) PROVE WantsInv'
  <2>1. asked[p][s] \in Values /\ atPeer[asked[p][s]] = p /\ wanted[asked[p][s]]
    BY <1>4, PeersAssumption DEF FinStream, StreamOpen, WantsInv, StreamsMatchWants, TypeOK
  <2>2. PICK v \in Values : v = asked[p][s]
    BY <2>1
  <2>3. /\ CloseStream(p, s)
        /\ UNCHANGED <<status, hello, lost, ending>>
    BY <1>4 DEF FinStream, historyVars
  <2>4. \/ /\ wanted' = [wanted EXCEPT ![v] = FALSE]
           /\ tried' = [tried EXCEPT ![v] = {}]
           /\ atPeer' = [atPeer EXCEPT ![v] = NoPeer]
           /\ UNCHANGED <<atSid, agenda>>
        \/ /\ atPeer' = [atPeer EXCEPT ![v] = NoPeer]
           /\ agenda' = {v}
           /\ UNCHANGED <<wanted, tried, atSid>>
        \/ Reask(p, {v})
    BY <1>4, <2>2 DEF FinStream
  <2>5. /\ atPeer'[v] = NoPeer /\ atSid' = atSid
        /\ \A w \in Values \ {v} :
             wanted'[w] = wanted[w] /\ tried'[w] = tried[w] /\ atPeer'[w] = atPeer[w]
        /\ agenda' = {} \/ (agenda' = {v} /\ wanted'[v])
    <3>1. CASE Reask(p, {v})
      BY <3>1 DEF Reask, WantsInv, TypeOK
    <3>2. CASE ~Reask(p, {v})
      <4>1. agenda = {} /\ wanted[v]
        BY <1>0, <2>1, <2>2 DEF Idle
      <4> QED
        BY <2>4, <3>2, <4>1 DEF WantsInv, TypeOK
    <3> QED
      BY <3>1, <3>2
  <2> QED
    BY <1>0, <2>2, <2>3, <2>5, CloseStreamWants
<1>5. CASE StreamError(p, s)
  <2>1. PICK v \in Values : v = asked[p][s]
    BY <1>5 DEF StreamError, StreamOpen, WantsInv, TypeOK
  <2>2. /\ CloseStream(p, s) /\ Reask(p, {v})
        /\ UNCHANGED <<status, hello, lost, ending>>
    BY <1>5, <2>1 DEF StreamError, sessionVars, historyVars
  <2>3. /\ atPeer'[v] = NoPeer /\ atSid' = atSid
        /\ \A w \in Values \ {v} :
             wanted'[w] = wanted[w] /\ tried'[w] = tried[w] /\ atPeer'[w] = atPeer[w]
        /\ agenda' = {v} /\ wanted'[v]
    BY <2>2 DEF Reask, WantsInv, TypeOK
  <2> QED
    BY <1>0, <2>1, <2>2, <2>3, CloseStreamWants
<1>6. CASE StoreFails(p, s)
  <2>1. PICK v \in Values : v = asked[p][s]
    BY <1>6 DEF StoreFails, StreamOpen, WantsInv, TypeOK
  <2>2. /\ CloseStream(p, s)
        /\ wanted' = [wanted EXCEPT ![v] = FALSE]
        /\ tried' = [tried EXCEPT ![v] = {}]
        /\ atPeer' = [atPeer EXCEPT ![v] = NoPeer]
        /\ UNCHANGED <<atSid, status, hello, lost, ending, agenda>>
    BY <1>6, <2>1 DEF StoreFails, sessionVars
  <2>3. /\ atPeer'[v] = NoPeer
        /\ \A w \in Values \ {v} :
             wanted'[w] = wanted[w] /\ tried'[w] = tried[w] /\ atPeer'[w] = atPeer[w]
        /\ agenda' = {}
    BY <1>0, <2>2 DEF WantsInv, TypeOK, Idle
  <2> QED
    BY <1>0, <2>1, <2>2, <2>3, CloseStreamWants
<1> QED
  BY <1>1, <1>2, <1>3, <1>4, <1>5, <1>6 DEF Receive

LEMMA NextWants == WantsInv /\ [Next]_vars => WantsInv'
<1> SUFFICES ASSUME WantsInv, [Next]_vars PROVE WantsInv'
  OBVIOUS
<1>0. TypeOK'
  BY NextType DEF WantsInv
<1>1. CASE UNCHANGED vars
  BY <1>0, <1>1 DEF WantsInv, StreamsMatchWants, DispatchOnce, Open,
     vars, sessionVars, streamVars, wantVars, historyVars
<1>2. ASSUME NEW v \in Values, Request(v) \/ Dispatch(v) PROVE WantsInv'
  BY <1>0, <1>2, RequestWants, DispatchWants
<1>3. CASE Tick \/ \E p \in Peers : OnHello(p) \/ Refill(p)
  BY <1>0, <1>3, WaitingWants
<1>4. CASE FinishEnding \/ FinishEndingFails
  BY <1>0, <1>4, FinishEndingWants
<1>5. ASSUME NEW p \in Peers, OpenSession(p) PROVE WantsInv'
  BY <1>0, <1>5, OpenSessionWants
<1>6. ASSUME NEW p \in Peers, OnHelloMismatch(p) PROVE WantsInv'
  <2>1. \A s \in Sids : asked[p][s] = NoValue
    BY <1>6 DEF OnHelloMismatch, WantsInv, StreamsMatchWants
  <2>2. /\ asked' = asked /\ UNCHANGED <<hello, wantVars, ending, agenda, lost>>
        /\ \A q \in Peers \ {p} : status'[q] = status[q]
    BY <1>6, <2>1 DEF OnHelloMismatch, ClearSession, WantsInv, TypeOK, historyVars
  <2> QED
    BY <1>0, <2>1, <2>2 DEF WantsInv, StreamsMatchWants, DispatchOnce, Open, wantVars
<1>7. ASSUME NEW p \in Peers, SessionEnds(p) PROVE WantsInv'
  BY <1>0, <1>7, EndSessionWants DEF SessionEnds, historyVars
<1>8. ASSUME NEW p \in Peers, NEW s \in Sids, Receive(p, s) PROVE WantsInv'
  BY <1>0, <1>8, ReceiveWants
<1> QED
  BY <1>1, <1>2, <1>3, <1>4, <1>5, <1>6, <1>7, <1>8 DEF Next

LEMMA WantsAlways == Spec => []WantsInv
<1>1. Init => WantsInv
  BY InitWants
<1>2. WantsInv /\ [Next]_vars => WantsInv'
  BY NextWants
<1> QED
  BY <1>1, <1>2, PTL DEF Spec

\* A hash is out to a peer while that peer's stream for it is open or the end of its
\* session waits for the store, and after that only when the session was replaced
\* while open; no peer is asked again for a hash it failed to serve.  For any number
\* of peers, values, streams and replaced sessions.
THEOREM StreamsAlwaysMatchWants == Spec => []StreamsMatchWants
<1>1. WantsInv => StreamsMatchWants
  BY DEF WantsInv
<1> QED
  BY <1>1, WantsAlways, PTL

\* What a task has still to dispatch is wanted and out to nobody, whatever ticks
\* and sessions come while the end of a session waits for the store.
THEOREM AlwaysDispatchOnce == Spec => []DispatchOnce
<1>1. WantsInv => DispatchOnce
  BY DEF WantsInv
<1> QED
  BY <1>1, WantsAlways, PTL

-----------------------------------------------------------------------------
(* What a session remembers as verified *)

\* What a session has verified is an honest copy whose root page is stored; pages
\* are never taken away.
VerifiedInv ==
    /\ TypeOK
    /\ \A p \in Peers, v \in Values :
         verified[p][v] # NoCopy => verified[p][v] = "honest" /\ v \in pages

\* resolve-pending! lets go of a header only when it passes, and then it is in
\* the store again, whatever other sessions did to it.
LEMMA SettleVerified ==
    ASSUME VerifiedInv, NEW p \in Peers, NEW s \in Sids, NEW v \in Values,
           NEW isHeader \in BOOLEAN,
           NEW store \in [Values -> CopyKinds \cup {NoCopy}],
           NEW stored \in SUBSET Values, pages \subseteq stored,
           NEW headers \in SUBSET Header,
           \A h \in pending[p][s] : h \in headers \/ \E c : <<h[1], c>> \in headers \ Due(headers, stored),
           isHeader /\ v \notin {h[1] : h \in headers} => store[v] = "honest" /\ v \in stored,
           Settle(p, s, v, isHeader, store, stored, headers), TypeOK'
    PROVE  /\ VerifiedInv'
           /\ \A q \in Peers, w \in Values :
                verified'[q][w] # verified[q][w] /\ verified'[q][w] # NoCopy
                => hdr'[w] = "honest" /\ w \in pages'
<1> DEFINE due     == Due(headers, stored)
           failing == {h \in due : h[2] = "miscounted"}
           passing == due \ failing
           left    == {h[1] : h \in headers \ due}
           fresh   == {h[1] : h \in pending[p][s]} \ left
           mine    == IF isHeader /\ v \notin {h[1] : h \in headers}
                      THEN fresh \cup {v} ELSE fresh
           after   == AfterChecks(store, passing)
<1>0. pages' = stored
  BY DEF Settle
<1>1. CASE failing = {}
  <2>1. /\ hdr' = after
        /\ verified' = [verified EXCEPT ![p] =
             [w \in Values |-> IF w \in mine /\ after[w] # NoCopy THEN after[w] ELSE @[w]]]
    BY <1>1 DEF Settle
  <2>2. \A w \in fresh : <<w, "honest">> \in passing /\ w \in stored
    <3> SUFFICES ASSUME NEW h \in pending[p][s], h[1] \notin left
                 PROVE  <<h[1], "honest">> \in passing /\ h[1] \in stored
      OBVIOUS
    <3>1. h \in Header /\ h = <<h[1], h[2]>> /\ h[2] \in CopyKinds
      BY DEF VerifiedInv, TypeOK, Header
    <3>2. h \in due
      <4>1. ASSUME NEW c, <<h[1], c>> \in headers \ Due(headers, stored) PROVE h[1] \in left
        BY <4>1
      <4> QED
        BY <4>1
    <3>3. HasRoot(h[2]) /\ h[1] \in stored /\ h[2] # "miscounted"
      BY <1>1, <3>2 DEF Due
    <3>4. h[2] = "honest"
      BY <3>1, <3>3 DEF HasRoot, CopyKinds
    <3> QED
      BY <1>1, <3>1, <3>2, <3>3, <3>4
  <2>3. ASSUME NEW w \in mine, w \in Values PROVE after[w] = "honest" /\ w \in stored
    <3>1. CASE w \in fresh
      BY <2>2, <2>3, <3>1 DEF AfterChecks
    <3>2. CASE w = v /\ isHeader /\ v \notin {h[1] : h \in headers}
      <4>1. \A c : <<v, c>> \notin passing
        <5> SUFFICES ASSUME NEW c, <<v, c>> \in headers PROVE FALSE
          BY DEF Due
        <5>1. <<v, c>>[1] = v
          OBVIOUS
        <5> QED
          BY <3>2, <5>1
      <4> QED
        BY <3>2, <4>1 DEF AfterChecks
    <3> QED
      BY <2>3, <3>1, <3>2
  <2> HIDE DEF due, failing, passing, left, fresh, mine, after
  <2>4. ASSUME NEW q \in Peers, NEW w \in Values, verified'[q][w] # NoCopy
        PROVE  /\ verified'[q][w] = "honest" /\ w \in stored
               /\ verified'[q][w] # verified[q][w] => after[w] = "honest"
    <3>1. CASE q = p /\ w \in mine /\ after[w] # NoCopy
      BY <2>1, <2>3, <3>1 DEF VerifiedInv, TypeOK
    <3>2. CASE ~(q = p /\ w \in mine /\ after[w] # NoCopy)
      <4>1. verified'[q][w] = verified[q][w]
        BY <2>1, <3>2 DEF VerifiedInv, TypeOK
      <4> QED
        BY <2>4, <4>1 DEF VerifiedInv
    <3> QED
      BY <3>1, <3>2
  <2> QED
    BY <1>0, <2>1, <2>4 DEF VerifiedInv
<1>2. CASE failing # {}
  <2>1. \E unchecked : EndSession(p, unchecked)
    BY <1>2 DEF Settle
  <2>2. \A q \in Peers, w \in Values : verified'[q][w] \in {NoCopy, verified[q][w]}
    BY <2>1 DEF EndSession, ClearSession, VerifiedInv, TypeOK
  <2> QED
    BY <1>0, <2>2 DEF VerifiedInv
<1> QED
  BY <1>1, <1>2

\* What a step adds to what the sessions have verified is verified in the store.
AddsOnlyVerified ==
    \A p \in Peers, v \in Values :
      verified[p][v] # verified'[p][v] /\ verified'[p][v] # NoCopy
      => hdr'[v] = "honest" /\ v \in pages'

LEMMA NextVerified ==
    ASSUME VerifiedInv, [Next]_vars
    PROVE  VerifiedInv' /\ AddsOnlyVerified
<1>0. TypeOK'
  BY NextType DEF VerifiedInv
\* Most steps verify nothing and lose no page; a session may forget.
<1>1. ASSUME pages \subseteq pages',
             \A p \in Peers, v \in Values : verified'[p][v] \in {NoCopy, verified[p][v]}
      PROVE  VerifiedInv' /\ AddsOnlyVerified
  BY <1>0, <1>1 DEF VerifiedInv, AddsOnlyVerified
<1>2. CASE UNCHANGED vars
  BY <1>1, <1>2 DEF vars, sessionVars, storeVars
<1>3. ASSUME NEW v \in Values, Request(v) \/ Dispatch(v) PROVE VerifiedInv' /\ AddsOnlyVerified
  BY <1>1, <1>3 DEF Request, Dispatch, SendGet, sessionVars, storeVars
<1>4. CASE Tick \/ FinishEnding \/ FinishEndingFails
  BY <1>1, <1>4 DEF Tick, FinishEnding, FinishEndingFails, sessionVars, storeVars
<1>5. ASSUME NEW p \in Peers,
             OpenSession(p) \/ OnHello(p) \/ OnHelloMismatch(p) \/ SessionEnds(p) \/ Refill(p)
      PROVE  VerifiedInv' /\ AddsOnlyVerified
  <2>1. pages' = pages
    BY <1>5 DEF OpenSession, OnHello, OnHelloMismatch, SessionEnds, Refill, storeVars
  <2>2. \A q \in Peers, w \in Values : verified'[q][w] \in {NoCopy, verified[q][w]}
    <3>1. CASE OpenSession(p)
      BY <3>1 DEF OpenSession, VerifiedInv, TypeOK
    <3>2. CASE OnHello(p) \/ Refill(p)
      BY <3>2 DEF OnHello, Refill
    <3>3. CASE OnHelloMismatch(p) \/ SessionEnds(p)
      <4>1. ClearSession(p)
        BY <3>3 DEF OnHelloMismatch, SessionEnds, EndSession
      <4> QED
        BY <4>1 DEF ClearSession, VerifiedInv, TypeOK
    <3> QED
      BY <1>5, <3>1, <3>2, <3>3
  <2> QED
    BY <1>1, <2>1, <2>2
<1>6. ASSUME NEW p \in Peers, NEW s \in Sids, Receive(p, s)
      PROVE  VerifiedInv' /\ AddsOnlyVerified
  <2>1. ASSUME NEW v \in Values, NEW c \in Copies, OnHeader(p, s, v, c)
        PROVE  VerifiedInv' /\ AddsOnlyVerified
    <3> DEFINE known   == HasRoot(c) /\ v \in pages
               mine    == pending[p][s]
               headers == IF known THEN mine ELSE Track(mine, v, c)
               store   == [hdr EXCEPT ![v] = c]
    <3>1. c \in CopyKinds /\ mine \in SUBSET Header
      BY CopiesAssumption DEF VerifiedInv, TypeOK
    <3>2. CASE known /\ c = "miscounted"
      <4>1. EndSession(p, PendingOf(p)) /\ pages' = pages
        BY <2>1, <3>2 DEF OnHeader, storeVars
      <4>2. \A q \in Peers, w \in Values : verified'[q][w] \in {NoCopy, verified[q][w]}
        BY <4>1 DEF EndSession, ClearSession, VerifiedInv, TypeOK
      <4> QED
        BY <1>1, <4>1, <4>2
    <3>3. CASE ~(known /\ c = "miscounted")
      <4>1. Settle(p, s, v, TRUE, store, pages, headers)
        BY <2>1, <3>3 DEF OnHeader
      <4>2. headers \in SUBSET Header
        BY <3>1, TrackType
      <4>3. store \in [Values -> CopyKinds \cup {NoCopy}] /\ pages \in SUBSET Values
        BY <3>1 DEF VerifiedInv, TypeOK
      <4>4. \A h \in pending[p][s] :
              h \in headers \/ \E d : <<h[1], d>> \in headers \ Due(headers, pages)
        <5>1. CASE known
          BY <5>1
        <5>2. CASE ~known
          <6>1. <<v, c>> \in headers \ Due(headers, pages)
            BY <5>2 DEF Track, Due
          <6>2. \A h \in mine : h[1] # v => h \in headers
            BY <5>2 DEF Track
          <6> QED
            BY <6>1, <6>2
        <5> QED
          BY <5>1, <5>2
      <4>5. TRUE /\ v \notin {h[1] : h \in headers} => store[v] = "honest" /\ v \in pages
        <5>1. CASE known
          BY <3>1, <3>3, <5>1 DEF HasRoot, CopyKinds, VerifiedInv, TypeOK
        <5>2. CASE ~known
          <6>1. <<v, c>> \in headers /\ <<v, c>>[1] = v
            BY <5>2 DEF Track
          <6> QED
            BY <6>1
        <5> QED
          BY <5>1, <5>2
      <4> HIDE DEF mine, headers, store, known
      <4>6. /\ VerifiedInv'
            /\ \A q \in Peers, w \in Values :
                 verified'[q][w] # verified[q][w] /\ verified'[q][w] # NoCopy
                 => hdr'[w] = "honest" /\ w \in pages'
        BY <1>0, <4>1, <4>2, <4>3, <4>4, <4>5, SettleVerified
      <4> QED
        BY <4>6 DEF AddsOnlyVerified
    <3> QED
      BY <3>2, <3>3
  <2>2. ASSUME NEW v \in Values, OnPage(p, s, v) PROVE VerifiedInv' /\ AddsOnlyVerified
    <3>1. Settle(p, s, v, FALSE, hdr, pages \cup {v}, pending[p][s])
      BY <2>2 DEF OnPage
    <3>2. /\ hdr \in [Values -> CopyKinds \cup {NoCopy}]
          /\ pages \cup {v} \in SUBSET Values
          /\ pending[p][s] \in SUBSET Header
      BY DEF VerifiedInv, TypeOK
    <3> QED
      BY <1>0, <3>1, <3>2, SettleVerified DEF AddsOnlyVerified
  <2>3. CASE FinUnchecked(p, s)
    <3>1. \A q \in Peers, w \in Values : verified'[q][w] \in {NoCopy, verified[q][w]}
      BY <2>3 DEF FinUnchecked, EndSession, ClearSession, VerifiedInv, TypeOK
    <3> QED
      BY <1>1, <2>3, <3>1 DEF FinUnchecked
  <2>4. ASSUME NEW partial \in BOOLEAN, FinStream(p, s, partial)
        PROVE  VerifiedInv' /\ AddsOnlyVerified
    BY <1>1, <2>4 DEF FinStream
  <2>5. CASE StreamError(p, s)
    BY <1>1, <2>5 DEF StreamError, sessionVars
  <2>6. CASE StoreFails(p, s)
    <3>1. PICK left \in LeftBehind(p, s) : pages' = left.stored
      BY <2>6 DEF StoreFails
    <3>2. pages \subseteq left.stored
      BY LeftBehindType DEF VerifiedInv
    <3>3. verified' = verified
      BY <2>6 DEF StoreFails, sessionVars
    <3> QED
      BY <1>1, <3>1, <3>2, <3>3
  <2> QED
    BY <1>6, <2>1, <2>2, <2>3, <2>4, <2>5, <2>6 DEF Receive
<1> QED
  BY <1>2, <1>3, <1>4, <1>5, <1>6 DEF Next

LEMMA VerifiedAlways == Spec => []VerifiedInv
<1>1. Init => VerifiedInv
  BY InitType DEF Init, VerifiedInv
<1>2. VerifiedInv /\ [Next]_vars => VerifiedInv'
  BY NextVerified
<1> QED
  BY <1>1, <1>2, PTL DEF Spec

\* What have? takes on a session's word is verified in the store itself, for any
\* interleaving of any number of sessions that share it.
THEOREM HaveAlwaysChecked == Spec => []HaveIsChecked
<1>1. VerifiedInv => HaveIsChecked
  BY DEF VerifiedInv, HaveIsChecked, Have, HaveIn, Checked
<1> QED
  BY <1>1, VerifiedAlways, PTL

\* A session comes to remember a hash only when its header is stored and matches
\* a stored root.
THEOREM VerifiedAlwaysStored == Spec => VerifiedIsStored
<1>1. VerifiedInv /\ [Next]_vars => [AddsOnlyVerified]_vars
  BY NextVerified
<1> QED
  BY <1>1, VerifiedAlways, PTL DEF Spec, VerifiedIsStored, AddsOnlyVerified

LEMMA NextDone ==
    ASSUME VerifiedInv, [Next]_vars, NEW v \in done' \ done
    PROVE  hdr'[v] = "honest" /\ v \in pages'
<1>0. \A store : HaveIn(store, v) /\ v \in Values => store[v] = "honest" /\ v \in pages
  BY DEF HaveIn, VerifiedInv
<1>1. CASE UNCHANGED vars
  BY <1>1 DEF vars, wantVars
<1>2. ASSUME NEW w \in Values, Request(w) PROVE hdr'[v] = "honest" /\ v \in pages'
  BY <1>0, <1>2 DEF Request, Have, storeVars
<1>3. ASSUME NEW p \in Peers, NEW s \in Sids, NEW partial \in BOOLEAN, FinStream(p, s, partial)
      PROVE  hdr'[v] = "honest" /\ v \in pages'
  <2>1. HaveIn(hdr', asked[p][s]) /\ v = asked[p][s] /\ pages' = pages
    BY <1>3 DEF FinStream, Reask
  <2>2. v \in Values
    BY <1>3, <2>1 DEF FinStream, StreamOpen, VerifiedInv, TypeOK
  <2> QED
    BY <1>0, <2>1, <2>2
<1>4. ASSUME NEW p \in Peers, NEW s \in Sids,
             \/ \E w \in Values, c \in Copies : OnHeader(p, s, w, c)
             \/ \E w \in Values : OnPage(p, s, w)
             \/ FinUnchecked(p, s) \/ StreamError(p, s) \/ StoreFails(p, s)
      PROVE  FALSE
  BY <1>4 DEF OnHeader, OnPage, Settle, FinUnchecked, StreamError, Reask, StoreFails, wantVars
<1>5. ASSUME \/ \E w \in Values : Dispatch(w)
             \/ Tick \/ FinishEnding \/ FinishEndingFails
             \/ \E p \in Peers : \/ OpenSession(p) \/ OnHello(p) \/ OnHelloMismatch(p)
                                 \/ SessionEnds(p) \/ Refill(p)
      PROVE  FALSE
  BY <1>5 DEF Dispatch, SendGet, Tick, FinishEnding, FinishEndingFails, Reask, OpenSession,
     OnHello, OnHelloMismatch, SessionEnds, Refill, wantVars
<1> QED
  BY <1>1, <1>2, <1>3, <1>4, <1>5 DEF Next, Receive

\* A hash becomes done only while its header and its root page are in the store
\* and match.
THEOREM DoneAlwaysVerified == Spec => DoneIsVerified
<1>1. VerifiedInv /\ [Next]_vars
      => [\A v \in done' \ done : hdr'[v] = "honest" /\ v \in pages']_vars
  BY NextDone
<1> QED
  BY <1>1, VerifiedAlways, PTL DEF Spec, DoneIsVerified

-----------------------------------------------------------------------------
(* What is verified in the store stays *)

\* Only copies of a header that name its root are sent: the other kind may replace
\* one that has been verified (see the run PeerClientDisplaced).
Rooted == "misrooted" \notin Copies

\* Neither the checks of a receiver nor its drops take away what is verified.
LEMMA StoreKeeps ==
    ASSUME NEW store, NEW stored, NEW headers, NEW v \in Values, store[v] = "honest"
    PROVE  /\ AfterChecks(store, headers)[v] = "honest"
           /\ v \in stored => AfterDrops(store, stored, headers)[v] = "honest"
BY DEF AfterChecks, AfterDrops

LEMMA SettleKeeps ==
    ASSUME NEW p, NEW s, NEW w, NEW isHeader, NEW store, NEW stored, NEW headers,
           Settle(p, s, w, isHeader, store, stored, headers),
           NEW v \in Values, v \in stored
    PROVE  /\ store[v] = "honest" => hdr'[v] = "honest" /\ v \in pages'
           /\ store[v] = "misrooted" => hdr'[v] \in {"honest", "misrooted"} /\ v \in pages'
<1>1. pages' = stored
  BY DEF Settle
<1>2. \E passed \in SUBSET Due(headers, stored) : hdr' = AfterChecks(store, passed)
  <2>1. CASE {h \in Due(headers, stored) : h[2] = "miscounted"} = {}
    BY <2>1 DEF Settle
  <2>2. CASE {h \in Due(headers, stored) : h[2] = "miscounted"} # {}
    BY <2>2 DEF Settle
  <2> QED
    BY <2>1, <2>2
<1>3. <<v, "misrooted">> \notin Due(headers, stored)
  BY DEF Due, HasRoot
<1>4. store[v] = "misrooted" => hdr'[v] \in {"honest", "misrooted"}
  BY <1>2, <1>3 DEF AfterChecks
<1> QED
  BY <1>1, <1>2, <1>4, StoreKeeps

LEMMA LeftBehindKeeps ==
    ASSUME Rooted, TypeOK, NEW p \in Peers, NEW s \in Sids, NEW left \in LeftBehind(p, s),
           NEW v \in Values, Checked(v)
    PROVE  left.store[v] = "honest" /\ v \in left.stored
<1>1. v \in left.stored
  BY LeftBehindType DEF Checked
<1>2. \/ left.store = hdr
      \/ \E h \in Values \X Copies : /\ ~HasRoot(h[2]) \/ h[1] \notin pages
                                     /\ left.store = [hdr EXCEPT ![h[1]] = h[2]]
  <2>1. CASE \E w \in Values : left \in
               {[store |-> hdr, stored |-> pages \cup {w}, headers |-> pending[p][s] \ gone] :
                  gone \in {{}} \cup {{h} : h \in Due(pending[p][s], pages \cup {w})}}
    BY <2>1
  <2>2. CASE left \in
          {[store |-> [hdr EXCEPT ![h[1]] = h[2]], stored |-> pages,
            headers |-> Track(pending[p][s], h[1], h[2])] :
             h \in {g \in Values \X Copies : ~HasRoot(g[2]) \/ g[1] \notin pages}}
    <3>1. PICK h \in {g \in Values \X Copies : ~HasRoot(g[2]) \/ g[1] \notin pages} :
            left = [store |-> [hdr EXCEPT ![h[1]] = h[2]], stored |-> pages,
                    headers |-> Track(pending[p][s], h[1], h[2])]
      BY <2>2
    <3>2. left.store = [hdr EXCEPT ![h[1]] = h[2]]
      BY <3>1
    <3> QED
      BY <3>2
  <2>3. CASE left = [store |-> hdr, stored |-> pages, headers |-> pending[p][s]]
    BY <2>3
  <2> QED
    BY <2>1, <2>2, <2>3 DEF LeftBehind
<1>3. ASSUME NEW h \in Values \X Copies, ~HasRoot(h[2]) \/ h[1] \notin pages,
             left.store = [hdr EXCEPT ![h[1]] = h[2]]
      PROVE  left.store[v] = "honest"
  <2>1. h[1] # v
    BY <1>3 DEF Rooted, HasRoot, Checked
  <2> QED
    BY <1>3, <2>1 DEF TypeOK, Checked
<1> QED
  BY <1>1, <1>2, <1>3 DEF Checked

\* Every step keeps what is verified, or puts a copy in its place that names another
\* root: a header that arrives when its root is stored is stored only when it matches.
Stays(v) == (hdr'[v] = "honest" /\ v \in pages') \/ Displaced(v)

LEMMA NextKeeps ==
    ASSUME TypeOK, [Next]_vars, NEW v \in Values, Checked(v)
    PROVE  Stays(v)
<1>0. hdr[v] = "honest" /\ v \in pages
  BY DEF Checked
<1>1. CASE UNCHANGED storeVars
  BY <1>0, <1>1 DEF storeVars, Stays
<1>2. ASSUME NEW dropped, hdr' = AfterDrops(hdr, pages, dropped), pages' = pages
      PROVE  Stays(v)
  BY <1>0, <1>2, StoreKeeps DEF Stays
<1>3. CASE UNCHANGED vars
  BY <1>1, <1>3 DEF vars
<1>4. ASSUME NEW w \in Values, Request(w) \/ Dispatch(w)
      PROVE  Stays(v)
  BY <1>1, <1>4 DEF Request, Dispatch
<1>5. CASE Tick \/ FinishEnding \/ FinishEndingFails
  BY <1>1, <1>2, <1>5 DEF Tick, FinishEnding, FinishEndingFails
<1>6. ASSUME NEW p \in Peers,
             OpenSession(p) \/ OnHello(p) \/ OnHelloMismatch(p) \/ SessionEnds(p) \/ Refill(p)
      PROVE  Stays(v)
  BY <1>1, <1>6 DEF OpenSession, OnHello, OnHelloMismatch, SessionEnds, Refill
<1>7. ASSUME NEW p \in Peers, NEW s \in Sids, Receive(p, s)
      PROVE  Stays(v)
  <2>1. ASSUME NEW w \in Values, NEW c \in Copies, OnHeader(p, s, w, c)
        PROVE  Stays(v)
    <3>1. c \in CopyKinds /\ (HasRoot(c) \/ ~Rooted)
      BY CopiesAssumption DEF Rooted, HasRoot
    <3>2. CASE HasRoot(c) /\ w \in pages /\ c = "miscounted"
      BY <1>1, <2>1, <3>2 DEF OnHeader
    <3>3. CASE ~(HasRoot(c) /\ w \in pages /\ c = "miscounted")
      <4>1. \E headers : Settle(p, s, w, TRUE, [hdr EXCEPT ![w] = c], pages, headers)
        BY <2>1, <3>3 DEF OnHeader
      <4>2. CASE w = v /\ ~HasRoot(c)
        <5>1. [hdr EXCEPT ![w] = c][v] = "misrooted"
          BY <4>2 DEF TypeOK, HasRoot
        <5>2. hdr'[v] \in {"honest", "misrooted"} /\ v \in pages'
          BY <1>0, <4>1, <5>1, SettleKeeps
        <5> QED
          BY <3>1, <4>2, <5>2 DEF Stays, Displaced, Rooted
      <4>3. CASE ~(w = v /\ ~HasRoot(c))
        <5>1. [hdr EXCEPT ![w] = c][v] = "honest"
          BY <1>0, <3>1, <3>3, <4>3 DEF TypeOK, HasRoot, CopyKinds
        <5> QED
          BY <1>0, <4>1, <5>1, SettleKeeps DEF Stays
      <4> QED
        BY <4>2, <4>3
    <3> QED
      BY <3>2, <3>3
  <2>2. ASSUME NEW w \in Values, OnPage(p, s, w) PROVE Stays(v)
    <3>1. Settle(p, s, w, FALSE, hdr, pages \cup {w}, pending[p][s])
      BY <2>2 DEF OnPage
    <3>2. v \in pages \cup {w}
      BY <1>0
    <3> QED
      BY <1>0, <3>1, <3>2, SettleKeeps DEF Stays
  <2>3. CASE FinUnchecked(p, s)
    BY <1>2, <2>3 DEF FinUnchecked
  <2>4. ASSUME NEW partial \in BOOLEAN, FinStream(p, s, partial)
        PROVE  Stays(v)
    <3>1. pages' = pages
      BY <2>4 DEF FinStream
    <3>2. hdr' = hdr \/ \E dropped : hdr' = AfterDrops(hdr, pages, dropped)
      BY <2>4 DEF FinStream
    <3> QED
      BY <1>0, <1>2, <3>1, <3>2 DEF Stays
  <2>5. CASE StreamError(p, s)
    BY <1>2, <2>5 DEF StreamError
  <2>6. CASE StoreFails(p, s)
    <3>1. PICK left \in LeftBehind(p, s) :
            /\ pages' = left.stored
            /\ \E dropped \in SUBSET left.headers :
                 hdr' = AfterDrops(left.store, left.stored, dropped)
      BY <2>6 DEF StoreFails
    <3>2. CASE Rooted
      <4>1. left.store[v] = "honest" /\ v \in left.stored
        BY <3>2, LeftBehindKeeps
      <4> QED
        BY <3>1, <4>1, StoreKeeps DEF Stays
    <3>3. CASE ~Rooted
      <4>1. faults' # faults
        BY <2>6, BoundsAssumption DEF StoreFails, TypeOK
      <4> QED
        BY <3>3, <4>1 DEF Stays, Displaced, Rooted
    <3> QED
      BY <3>2, <3>3
  <2> QED
    BY <1>7, <2>1, <2>2, <2>3, <2>4, <2>5, <2>6 DEF Receive
<1> QED
  BY <1>3, <1>4, <1>5, <1>6, <1>7 DEF Next

\* C14, for any number of sessions that end, fail or are replaced: what is verified
\* and stored stays so, unless a copy that names another root is written over it; and
\* when no such copy is sent, it stays whatever happens.
THEOREM VerifiedAlwaysStays == Spec => VerifiedStays
<1>1. TypeOK /\ [Next]_vars
      => [\A v \in Values : Checked(v) => Checked(v)' \/ Displaced(v)]_vars
  BY NextKeeps DEF Checked, Stays
<1> QED
  BY <1>1, TypeCorrect, PTL DEF Spec, VerifiedStays

\* A hash is verified when it becomes done, and stays verified.
DoneInv == VerifiedInv /\ \A v \in done : Checked(v)

\* When only copies that name their root are sent, a hash that is done is still held by the store,
\* whichever sessions have given up since.
THEOREM DoneAlwaysStored == ASSUME Rooted PROVE Spec => []DoneStaysStored
<1>1. Init => DoneInv
  BY InitType DEF Init, VerifiedInv, DoneInv
<1>2. DoneInv /\ [Next]_vars => DoneInv'
  <2> SUFFICES ASSUME DoneInv, [Next]_vars PROVE DoneInv'
    OBVIOUS
  <2>1. VerifiedInv' /\ TypeOK /\ TypeOK'
    BY NextVerified DEF DoneInv, VerifiedInv
  <2>2. \A v \in done' \ done : Checked(v)'
    BY NextDone DEF DoneInv, Checked
  <2>3. \A v \in done : Checked(v)'
    BY <2>1, NextKeeps DEF DoneInv, Checked, TypeOK, Stays, Displaced, Rooted
  <2> QED
    BY <2>1, <2>2, <2>3 DEF DoneInv
<1>3. DoneInv => DoneStaysStored
  BY DEF DoneInv, DoneStaysStored, Checked, NoCopy
<1> QED
  BY <1>1, <1>2, <1>3, PTL DEF Spec

-----------------------------------------------------------------------------
(* Headers that are stored before they are checked *)

\* A header that the receiver of an open stream still tracks.
TrackedBy(p, s, h) == asked[p][s] # NoValue /\ h \in pending[p][s]

Tracked(h) ==
    h \in ending.headers \cup lost.headers \/ \E p \in Peers, s \in Sids : TrackedBy(p, s, h)

Unchecked(v) == hdr[v] # NoCopy /\ ~Checked(v)

\* UncheckedIsTracked, strengthened with what is true when no session is ending:
\* nothing is left on its list, so that the next end may replace the list.
TrackedInv ==
    /\ WantsInv
    /\ ending.peer = NoPeer => ending.headers = {}
    /\ faults = 0 => \A v \in Values : Unchecked(v) => Tracked(<<v, hdr[v]>>)

LEMMA TrackedMeans == TrackedInv => UncheckedIsTracked
<1> SUFFICES ASSUME TrackedInv, faults = 0, NEW v \in Values, Unchecked(v)
             PROVE  <<v, hdr[v]>> \in ending.headers \cup lost.headers \cup UNION {PendingOf(p) : p \in Peers}
  BY DEF UncheckedIsTracked, Unchecked
<1>1. Tracked(<<v, hdr[v]>>)
  BY DEF TrackedInv
<1>2. ASSUME NEW p \in Peers, NEW s \in Sids, TrackedBy(p, s, <<v, hdr[v]>>)
      PROVE  <<v, hdr[v]>> \in PendingOf(p)
  BY <1>2 DEF TrackedBy, PendingOf, OpenStreams
<1> QED
  BY <1>1, <1>2 DEF Tracked

\* A session that was opened before its hello, or not at all, has no stream.
LEMMA NoStreams ==
    ASSUME WantsInv, NEW p \in Peers, ~Open(p) \/ ~hello[p], NEW s \in Sids
    PROVE  asked[p][s] = NoValue
BY DEF WantsInv, StreamsMatchWants

\* What a session tracks is on the list when the session ends, and nothing else
\* was on the list.
LEMMA EndSessionTracks ==
    ASSUME WantsInv, Idle, ending.headers = {}, NEW p \in Peers, NEW headers,
           EndSession(p, headers), UNCHANGED lost, NEW h, Tracked(h),
           (\E s \in Sids : TrackedBy(p, s, h)) => h \in headers
    PROVE  Tracked(h)'
<1>1. ending'.headers = headers
  BY DEF EndSession
<1>2. \A q \in Peers \ {p}, s \in Sids : asked'[q][s] = asked[q][s] /\ pending'[q][s] = pending[q][s]
  BY DEF EndSession, ClearSession, WantsInv, TypeOK
<1>0. CASE h \in lost.headers
  BY <1>0 DEF Tracked
<1> SUFFICES ASSUME h \notin lost.headers PROVE Tracked(h)'
  BY <1>0
<1>3. PICK q \in Peers, s \in Sids : TrackedBy(q, s, h)
  BY DEF Tracked
<1>4. CASE q = p
  BY <1>1, <1>3, <1>4 DEF Tracked
<1>5. CASE q # p
  BY <1>2, <1>3, <1>5 DEF Tracked, TrackedBy
<1> QED
  BY <1>4, <1>5

LEMMA InPendingOf ==
    ASSUME NEW p, NEW s \in Sids, NEW h, TrackedBy(p, s, h)
    PROVE  h \in PendingOf(p)
BY DEF TrackedBy, PendingOf, OpenStreams

\* A drop takes away what it names, and keeps only what is verified of it.
LEMMA DropsOnly ==
    ASSUME NEW store, NEW stored, NEW headers, NEW v \in Values,
           AfterDrops(store, stored, headers)[v] # NoCopy,
           ~(AfterDrops(store, stored, headers)[v] = "honest" /\ v \in stored)
    PROVE  AfterDrops(store, stored, headers)[v] = store[v] /\ <<v, store[v]>> \notin headers
BY DEF AfterDrops

LEMMA ChecksOnly ==
    ASSUME NEW store, NEW stored, NEW headers, NEW passed \in SUBSET Due(headers, stored),
           NEW v \in Values, AfterChecks(store, passed)[v] # NoCopy,
           ~(AfterChecks(store, passed)[v] = "honest" /\ v \in stored)
    PROVE  AfterChecks(store, passed)[v] = store[v] /\ <<v, store[v]>> \notin passed
<1>1. <<v, "honest">> \in passed => v \in stored
  <2>1. <<v, "honest">>[1] = v
    OBVIOUS
  <2> QED
    BY <2>1 DEF Due
<1> QED
  BY <1>1 DEF AfterChecks

\* The header that the store holds for a hash, unless it is verified, is still
\* tracked by the receiver or by another one, and then not by this one too, or it
\* was lost with a session that was replaced.
Accounted(p, s, store, stored, headers) ==
    \A v \in Values :
      store[v] # NoCopy /\ ~(store[v] = "honest" /\ v \in stored) =>
        \/ <<v, store[v]>> \in headers \cup lost.headers
        \/ /\ <<v, store[v]>> \notin pending[p][s]
           /\ \E q \in Peers, t \in Sids : <<q, t>> # <<p, s>> /\ TrackedBy(q, t, <<v, store[v]>>)

LEMMA SettleTracks ==
    ASSUME WantsInv, Idle, ending.headers = {}, NEW p \in Peers, NEW s \in Sids,
           asked[p][s] # NoValue, NEW v, NEW isHeader, NEW store, NEW stored, NEW headers,
           Accounted(p, s, store, stored, headers),
           Settle(p, s, v, isHeader, store, stored, headers),
           NEW w \in Values, Unchecked(w)'
    PROVE  Tracked(<<w, hdr[w]>>)'
<1> DEFINE due     == Due(headers, stored)
           failing == {h \in due : h[2] = "miscounted"}
           passing == due \ failing
<1>0. pages' = stored /\ hdr'[w] # NoCopy /\ ~(hdr'[w] = "honest" /\ w \in stored)
      /\ UNCHANGED lost
  BY DEF Settle, Unchecked, Checked, historyVars
<1>1. CASE failing = {}
  <2>1. /\ hdr' = AfterChecks(store, passing)
        /\ pending' = [pending EXCEPT ![p][s] = headers \ due]
        /\ asked' = asked /\ ending' = ending
    BY <1>1 DEF Settle
  <2>2. hdr'[w] = store[w] /\ <<w, store[w]>> \notin due
    <3>1. passing \in SUBSET Due(headers, stored)
      OBVIOUS
    <3> QED
      BY <1>0, <1>1, <2>1, <3>1, ChecksOnly
  <2>3. CASE <<w, store[w]>> \in headers
    <3>1. <<w, hdr'[w]>> \in pending'[p][s]
      BY <2>1, <2>2, <2>3 DEF WantsInv, TypeOK
    <3> QED
      BY <2>1, <3>1 DEF Tracked, TrackedBy
  <2>4. CASE \E q \in Peers, t \in Sids : <<q, t>> # <<p, s>> /\ TrackedBy(q, t, <<w, store[w]>>)
    <3>1. PICK q \in Peers, t \in Sids : <<q, t>> # <<p, s>> /\ TrackedBy(q, t, <<w, store[w]>>)
      BY <2>4
    <3>2. pending'[q][t] = pending[q][t]
      BY <2>1, <3>1 DEF WantsInv, TypeOK
    <3> QED
      BY <2>1, <2>2, <3>1, <3>2 DEF Tracked, TrackedBy
  <2>5. CASE <<w, store[w]>> \in lost.headers
    BY <1>0, <2>2, <2>5 DEF Tracked
  <2> QED
    BY <1>0, <2>2, <2>3, <2>4, <2>5 DEF Accounted
<1>2. CASE failing # {}
  <2>1. PICK bad \in failing, ok \in SUBSET passing :
          /\ hdr' = AfterChecks(store, ok \cup {bad})
          /\ EndSession(p, (PendingOf(p) \ pending[p][s]) \cup (headers \ (ok \cup {bad})))
    BY <1>2 DEF Settle
  <2>2. hdr'[w] = store[w] /\ <<w, store[w]>> \notin ok \cup {bad}
    <3>1. ok \cup {bad} \in SUBSET Due(headers, stored)
      OBVIOUS
    <3> QED
      BY <1>0, <2>1, <3>1, ChecksOnly
  <2> HIDE DEF due, failing, passing
  <2>3. CASE <<w, store[w]>> \in headers
    BY <2>1, <2>2, <2>3 DEF EndSession, Tracked
  <2>4. CASE /\ <<w, store[w]>> \notin pending[p][s]
             /\ \E q \in Peers, t \in Sids : <<q, t>> # <<p, s>> /\ TrackedBy(q, t, <<w, store[w]>>)
    <3>1. Tracked(<<w, store[w]>>)
      BY <2>4 DEF Tracked
    <3>2. (\E t \in Sids : TrackedBy(p, t, <<w, store[w]>>))
          => <<w, store[w]>> \in (PendingOf(p) \ pending[p][s]) \cup (headers \ (ok \cup {bad}))
      BY <2>4, InPendingOf
    <3> QED
      BY <1>0, <2>1, <2>2, <3>1, <3>2, EndSessionTracks
  <2>5. CASE <<w, store[w]>> \in lost.headers
    BY <1>0, <2>2, <2>5 DEF Tracked
  <2> QED
    BY <1>0, <2>2, <2>3, <2>4, <2>5 DEF Accounted
<1> QED
  BY <1>1, <1>2

\* A step that leaves the store alone and closes no stream loses no header.
LEMMA KeepsTracked ==
    ASSUME UNCHANGED <<storeVars, pending, ending, lost>>,
           \A p \in Peers, s \in Sids : asked[p][s] # NoValue => asked'[p][s] # NoValue,
           NEW v \in Values, Unchecked(v) => Tracked(<<v, hdr[v]>>), Unchecked(v)'
    PROVE  Tracked(<<v, hdr[v]>>)'
BY DEF Unchecked, Checked, Tracked, TrackedBy, storeVars

\* A stream that closes has its headers dropped before.
LEMMA DropAndClose ==
    ASSUME WantsInv, NEW p \in Peers, NEW s \in Sids, CloseStream(p, s),
           NEW headers, pending[p][s] \subseteq headers,
           hdr' = AfterDrops(hdr, pages, headers), UNCHANGED <<pages, ending, lost>>,
           NEW v \in Values, Unchecked(v) => Tracked(<<v, hdr[v]>>), Unchecked(v)'
    PROVE  Tracked(<<v, hdr[v]>>)'
<1>1. hdr'[v] = hdr[v] /\ <<v, hdr[v]>> \notin headers
  BY DropsOnly DEF Unchecked, Checked
<1>2. Tracked(<<v, hdr[v]>>)
  BY <1>1 DEF Unchecked, Checked
<1>3. ASSUME NEW q \in Peers, NEW t \in Sids, TrackedBy(q, t, <<v, hdr[v]>>)
      PROVE  TrackedBy(q, t, <<v, hdr[v]>>)'
  <2>1. <<q, t>> # <<p, s>>
    BY <1>1, <1>3 DEF TrackedBy
  <2>2. asked'[q][t] = asked[q][t] /\ pending'[q][t] = pending[q][t]
    BY <2>1 DEF CloseStream, WantsInv, TypeOK
  <2> QED
    BY <1>1, <1>3, <2>2 DEF TrackedBy
<1> QED
  BY <1>1, <1>2, <1>3 DEF Tracked

LEMMA HeaderAccounted ==
    ASSUME TypeOK, NEW p \in Peers, NEW s \in Sids, asked[p][s] # NoValue, ending.headers = {},
           \A v \in Values : Unchecked(v) => Tracked(<<v, hdr[v]>>),
           NEW v \in Values, NEW c \in CopyKinds, ~(v \in pages /\ c = "miscounted"),
           NEW headers,
           headers = IF HasRoot(c) /\ v \in pages THEN pending[p][s]
                                                  ELSE Track(pending[p][s], v, c)
    PROVE  Accounted(p, s, [hdr EXCEPT ![v] = c], pages, headers)
<1> PICK store : store = [hdr EXCEPT ![v] = c]
  OBVIOUS
<1> SUFFICES ASSUME NEW w \in Values, store[w] # NoCopy, ~(store[w] = "honest" /\ w \in pages),
                    <<w, store[w]>> \notin headers \cup lost.headers
             PROVE  /\ <<w, store[w]>> \notin pending[p][s]
                    /\ \E q \in Peers, t \in Sids :
                         <<q, t>> # <<p, s>> /\ TrackedBy(q, t, <<w, store[w]>>)
  BY DEF Accounted
<1>1. w # v
  <2>1. SUFFICES ASSUME w = v PROVE FALSE
    OBVIOUS
  <2>2. store[w] = c
    BY <2>1 DEF TypeOK
  <2>3. HasRoot(c) /\ v \in pages
    BY <2>1, <2>2 DEF Track
  <2> QED
    BY <2>1, <2>2, <2>3 DEF HasRoot, CopyKinds
<1>2. store[w] = hdr[w]
  BY <1>1 DEF TypeOK
<1>3. <<w, store[w]>> \notin pending[p][s]
  <2>1. <<w, store[w]>>[1] = w
    OBVIOUS
  <2> QED
    BY <1>1, <2>1 DEF Track
<1>4. Tracked(<<w, hdr[w]>>)
  BY <1>2 DEF Unchecked, Checked
<1>5. PICK q \in Peers, t \in Sids : TrackedBy(q, t, <<w, hdr[w]>>)
  BY <1>2, <1>4 DEF Tracked
<1>6. <<q, t>> # <<p, s>>
  BY <1>2, <1>3, <1>5 DEF TrackedBy
<1> QED
  BY <1>2, <1>3, <1>5, <1>6

LEMMA PageAccounted ==
    ASSUME TypeOK, NEW p \in Peers, NEW s \in Sids, asked[p][s] # NoValue, ending.headers = {},
           \A v \in Values : Unchecked(v) => Tracked(<<v, hdr[v]>>), NEW v \in Values
    PROVE  Accounted(p, s, hdr, pages \cup {v}, pending[p][s])
<1> SUFFICES ASSUME NEW w \in Values, hdr[w] # NoCopy, ~(hdr[w] = "honest" /\ w \in pages),
                    <<w, hdr[w]>> \notin pending[p][s] \cup lost.headers
             PROVE  \E q \in Peers, t \in Sids :
                      <<q, t>> # <<p, s>> /\ TrackedBy(q, t, <<w, hdr[w]>>)
  BY DEF Accounted
<1>1. PICK q \in Peers, t \in Sids : TrackedBy(q, t, <<w, hdr[w]>>)
  BY DEF Unchecked, Checked, Tracked
<1>2. <<q, t>> # <<p, s>>
  BY <1>1 DEF TrackedBy
<1> QED
  BY <1>1, <1>2

\* The list of an ended session is empty again when none is ending.
LEMMA NextList ==
    ASSUME TypeOK, ending.peer = NoPeer => ending.headers = {}, [Next]_vars
    PROVE  (ending.peer = NoPeer => ending.headers = {})'
<1>1. CASE UNCHANGED ending
  BY <1>1
<1>2. ASSUME NEW p \in Peers, NEW headers, EndSession(p, headers)
      PROVE  (ending.peer = NoPeer => ending.headers = {})'
  <2>1. ending'.peer = p
    BY <1>2 DEF EndSession
  <2> QED
    BY <2>1, PeersAssumption
<1>3. CASE ending' = NotEnding
  BY <1>3 DEF NotEnding
<1>4. CASE UNCHANGED vars
  BY <1>1, <1>4 DEF vars
<1>5. CASE \E v \in Values : Request(v) \/ Dispatch(v)
  BY <1>1, <1>5 DEF Request, Dispatch
<1>6. CASE Tick \/ FinishEnding \/ FinishEndingFails
  BY <1>1, <1>3, <1>6 DEF Tick, FinishEnding, FinishEndingFails
<1>7. ASSUME NEW p \in Peers,
             OpenSession(p) \/ OnHello(p) \/ OnHelloMismatch(p) \/ SessionEnds(p) \/ Refill(p)
      PROVE  (ending.peer = NoPeer => ending.headers = {})'
  BY <1>1, <1>2, <1>7 DEF OpenSession, OnHello, OnHelloMismatch, SessionEnds, Refill
<1>8. ASSUME NEW p \in Peers, NEW s \in Sids, Receive(p, s)
      PROVE  (ending.peer = NoPeer => ending.headers = {})'
  <2>1. ASSUME NEW v, NEW isHeader, NEW store, NEW stored, NEW headers,
               Settle(p, s, v, isHeader, store, stored, headers)
        PROVE  UNCHANGED ending \/ \E unchecked : EndSession(p, unchecked)
    BY <2>1 DEF Settle
  <2>2. ASSUME NEW v \in Values, NEW c \in Copies, OnHeader(p, s, v, c)
        PROVE  (ending.peer = NoPeer => ending.headers = {})'
    <3>1. CASE EndSession(p, PendingOf(p))
      BY <1>2, <3>1
    <3>2. CASE ~EndSession(p, PendingOf(p))
      <4>1. \E store, stored, headers : Settle(p, s, v, TRUE, store, stored, headers)
        BY <2>2, <3>2 DEF OnHeader
      <4> QED
        BY <1>1, <1>2, <2>1, <4>1
    <3> QED
      BY <3>1, <3>2
  <2>3. ASSUME NEW v \in Values, OnPage(p, s, v)
        PROVE  (ending.peer = NoPeer => ending.headers = {})'
    <3>1. \E store, stored, headers : Settle(p, s, v, FALSE, store, stored, headers)
      BY <2>3 DEF OnPage
    <3> QED
      BY <1>1, <1>2, <2>1, <3>1
  <2>4. CASE FinUnchecked(p, s)
    BY <1>2, <2>4 DEF FinUnchecked
  <2>5. CASE (\E partial \in BOOLEAN : FinStream(p, s, partial)) \/ StreamError(p, s) \/ StoreFails(p, s)
    BY <1>1, <2>5 DEF FinStream, StreamError, StoreFails
  <2> QED
    BY <1>8, <2>2, <2>3, <2>4, <2>5 DEF Receive
<1> QED
  BY <1>4, <1>5, <1>6, <1>7, <1>8 DEF Next

\* What a session tracks that is replaced while open is lost; the rest stays where it
\* was.
LEMMA OpenSessionTracks ==
    ASSUME TypeOK, NEW p \in Peers, OpenSession(p),
           NEW v \in Values, Unchecked(v) => Tracked(<<v, hdr[v]>>), Unchecked(v)'
    PROVE  Tracked(<<v, hdr[v]>>)'
<1>1. /\ UNCHANGED <<storeVars, ending>>
      /\ lost'.headers = {h \in lost.headers \cup PendingOf(p) : hdr[h[1]] = h[2]}
      /\ \A q \in Peers \ {p}, s \in Sids : asked'[q][s] = asked[q][s] /\ pending'[q][s] = pending[q][s]
  BY DEF OpenSession, TypeOK
<1>2. Tracked(<<v, hdr[v]>>) /\ hdr' = hdr
  BY <1>1 DEF Unchecked, Checked, storeVars
<1>3. ASSUME <<v, hdr[v]>> \in lost.headers \cup PendingOf(p) PROVE Tracked(<<v, hdr[v]>>)'
  <2>1. <<v, hdr[v]>>[1] = v /\ <<v, hdr[v]>>[2] = hdr[v]
    OBVIOUS
  <2> QED
    BY <1>1, <1>2, <1>3, <2>1 DEF Tracked
<1>4. ASSUME NEW q \in Peers, NEW s \in Sids, TrackedBy(q, s, <<v, hdr[v]>>)
      PROVE  Tracked(<<v, hdr[v]>>)'
  <2>1. CASE q = p
    BY <1>3, <1>4, <2>1, InPendingOf
  <2>2. CASE q # p
    BY <1>1, <1>2, <1>4, <2>2 DEF Tracked, TrackedBy
  <2> QED
    BY <2>1, <2>2
<1>5. <<v, hdr[v]>> \in ending.headers => Tracked(<<v, hdr[v]>>)'
  BY <1>1, <1>2 DEF Tracked
<1> QED
  BY <1>2, <1>3, <1>4, <1>5 DEF Tracked

LEMMA NextTracked ==
    ASSUME TrackedInv, [Next]_vars, faults' = 0, NEW v \in Values, Unchecked(v)'
    PROVE  Tracked(<<v, hdr[v]>>)'
<1>0. WantsInv /\ TypeOK
  BY DEF TrackedInv, WantsInv
<1>1. faults = 0
  <2>1. faults \in Nat
    BY <1>0, BoundsAssumption DEF TypeOK
  <2>2. faults' = faults \/ faults' = faults + 1
    <3>1. CASE UNCHANGED vars
      BY <3>1 DEF vars, historyVars
    <3>2. ASSUME NEW w \in Values, Request(w) \/ Dispatch(w) PROVE faults' = faults
      BY <3>2 DEF Request, Dispatch, historyVars
    <3>3. CASE Tick \/ FinishEnding \/ FinishEndingFails
      BY <3>3 DEF Tick, FinishEnding, FinishEndingFails, historyVars
    <3>4. ASSUME NEW p \in Peers,
                 OpenSession(p) \/ OnHello(p) \/ OnHelloMismatch(p) \/ SessionEnds(p) \/ Refill(p)
          PROVE  faults' = faults
      BY <3>4 DEF OpenSession, OnHello, OnHelloMismatch, SessionEnds, Refill, historyVars
    <3>5. ASSUME NEW p \in Peers, NEW s \in Sids, Receive(p, s)
          PROVE  faults' = faults \/ faults' = faults + 1
      <4>1. ASSUME NEW w \in Values, NEW c \in Copies, OnHeader(p, s, w, c) PROVE faults' = faults
        BY <4>1 DEF OnHeader, Settle, historyVars
      <4>2. ASSUME NEW w \in Values, OnPage(p, s, w) PROVE faults' = faults
        BY <4>2 DEF OnPage, Settle, historyVars
      <4> QED
        BY <3>5, <4>1, <4>2 DEF Receive, FinUnchecked, FinStream, StreamError, StoreFails, historyVars
    <3> QED
      BY <3>1, <3>2, <3>3, <3>4, <3>5 DEF Next
  <2> QED
    BY <2>1, <2>2
<1>2. /\ \A w \in Values : Unchecked(w) => Tracked(<<w, hdr[w]>>)
      /\ Idle => ending.headers = {}
  BY <1>1 DEF TrackedInv, Idle
\* A session that ends and leaves the store alone.
<1>3. ASSUME NEW p \in Peers, Idle, EndSession(p, PendingOf(p)), UNCHANGED <<storeVars, lost>>
      PROVE  Tracked(<<v, hdr[v]>>)'
  <2>1. Tracked(<<v, hdr[v]>>) /\ hdr' = hdr
    BY <1>2, <1>3 DEF Unchecked, Checked, storeVars
  <2>2. (\E s \in Sids : TrackedBy(p, s, <<v, hdr[v]>>)) => <<v, hdr[v]>> \in PendingOf(p)
    BY InPendingOf
  <2> QED
    BY <1>0, <1>2, <1>3, <2>1, <2>2, EndSessionTracks
<1>4. CASE UNCHANGED vars
  BY <1>2, <1>4, KeepsTracked DEF vars, streamVars, historyVars
<1>5. ASSUME NEW w \in Values, Request(w) \/ Dispatch(w) PROVE Tracked(<<v, hdr[v]>>)'
  <2>1. UNCHANGED <<storeVars, pending, ending, lost>>
    BY <1>5 DEF Request, Dispatch, SendGet, streamVars, historyVars
  <2>2. UNCHANGED asked \/ \E p \in Peers, s \in Sids : asked' = [asked EXCEPT ![p][s] = w]
    BY <1>5 DEF Request, Dispatch, SendGet, streamVars, Best, Candidates
  <2>3. ASSUME NEW p \in Peers, NEW s \in Sids, asked[p][s] # NoValue
        PROVE  asked'[p][s] # NoValue
    <3>1. asked \in [Peers -> [Sids -> Values \cup {NoValue}]]
      BY <1>0 DEF TypeOK
    <3>2. ASSUME NEW q \in Peers, NEW r \in Sids, asked' = [asked EXCEPT ![q][r] = w]
          PROVE  asked'[p][s] \in {asked[p][s], w}
      BY <3>1, <3>2
    <3>3. asked'[p][s] \in {asked[p][s], w}
      BY <2>2, <3>2
    <3> QED
      BY <2>3, <3>3, ValuesAssumption
  <2> QED
    BY <1>2, <2>1, <2>3, KeepsTracked
<1>6. CASE Tick
  BY <1>2, <1>6, KeepsTracked DEF Tick, streamVars, historyVars
<1>7. CASE FinishEnding
  <2>1. hdr' = AfterDrops(hdr, pages, ending.headers) /\ pages' = pages /\ UNCHANGED <<streamVars, lost>>
    BY <1>7 DEF FinishEnding, historyVars
  <2>2. hdr'[v] = hdr[v] /\ <<v, hdr[v]>> \notin ending.headers
    BY <2>1, DropsOnly DEF Unchecked, Checked
  <2>3. Tracked(<<v, hdr[v]>>)
    BY <1>2, <2>1, <2>2 DEF Unchecked, Checked
  <2> QED
    BY <2>1, <2>2, <2>3 DEF Tracked, TrackedBy, streamVars
<1>8. CASE FinishEndingFails
  BY <1>1, <1>8 DEF FinishEndingFails
<1>9. ASSUME NEW p \in Peers, OpenSession(p) \/ OnHello(p) \/ OnHelloMismatch(p) \/ Refill(p)
      PROVE  Tracked(<<v, hdr[v]>>)'
  <2>1. CASE OnHello(p) \/ Refill(p)
    BY <1>2, <2>1, KeepsTracked DEF OnHello, Refill, streamVars, historyVars
  <2>2. CASE OnHelloMismatch(p)
    <3>1. \A s \in Sids : asked[p][s] = NoValue
      BY <1>0, <2>2, NoStreams DEF OnHelloMismatch
    <3>2. /\ UNCHANGED <<storeVars, ending, lost>>
          /\ \A q \in Peers \ {p}, s \in Sids : asked'[q][s] = asked[q][s] /\ pending'[q][s] = pending[q][s]
      BY <1>0, <2>2 DEF OnHelloMismatch, ClearSession, TypeOK, historyVars
    <3>3. Tracked(<<v, hdr[v]>>) /\ hdr' = hdr
      BY <1>2, <3>2 DEF Unchecked, Checked, storeVars
    <3> QED
      BY <3>1, <3>2, <3>3 DEF Tracked, TrackedBy
  <2>3. CASE OpenSession(p)
    BY <1>0, <1>2, <2>3, OpenSessionTracks
  <2> QED
    BY <1>9, <2>1, <2>2, <2>3
<1>10. ASSUME NEW p \in Peers, SessionEnds(p) PROVE Tracked(<<v, hdr[v]>>)'
  BY <1>3, <1>10 DEF SessionEnds, historyVars
<1>11. ASSUME NEW p \in Peers, NEW s \in Sids, Receive(p, s) PROVE Tracked(<<v, hdr[v]>>)'
  <2>0. Idle /\ asked[p][s] # NoValue /\ ending.headers = {}
    BY <1>2, <1>11 DEF Receive, OnHeader, OnPage, FinUnchecked, FinStream, StreamError,
       StoreFails, StreamOpen
  <2>1. ASSUME NEW w \in Values, NEW c \in Copies, OnHeader(p, s, w, c)
        PROVE  Tracked(<<v, hdr[v]>>)'
    <3>0. c \in CopyKinds
      BY CopiesAssumption
    <3>1. CASE w \in pages /\ c = "miscounted"
      BY <1>3, <2>0, <2>1, <3>1 DEF OnHeader, HasRoot, historyVars
    <3>2. CASE ~(w \in pages /\ c = "miscounted")
      <4> PICK headers : headers = IF HasRoot(c) /\ w \in pages THEN pending[p][s]
                                   ELSE Track(pending[p][s], w, c)
        OBVIOUS
      <4>1. Settle(p, s, w, TRUE, [hdr EXCEPT ![w] = c], pages, headers)
        BY <2>1, <3>2 DEF OnHeader
      <4>2. Accounted(p, s, [hdr EXCEPT ![w] = c], pages, headers)
        BY <1>0, <1>2, <2>0, <3>0, <3>2, HeaderAccounted
      <4> QED
        BY <1>0, <2>0, <4>1, <4>2, SettleTracks
    <3> QED
      BY <3>1, <3>2
  <2>2. ASSUME NEW w \in Values, OnPage(p, s, w) PROVE Tracked(<<v, hdr[v]>>)'
    <3>1. Settle(p, s, w, FALSE, hdr, pages \cup {w}, pending[p][s])
      BY <2>2 DEF OnPage
    <3>2. Accounted(p, s, hdr, pages \cup {w}, pending[p][s])
      BY <1>0, <1>2, <2>0, PageAccounted
    <3> QED
      BY <1>0, <2>0, <3>1, <3>2, SettleTracks
  <2>3. CASE FinUnchecked(p, s)
    <3>1. /\ hdr' = AfterDrops(hdr, pages, pending[p][s]) /\ pages' = pages
          /\ EndSession(p, PendingOf(p) \ pending[p][s]) /\ UNCHANGED lost
      BY <2>3 DEF FinUnchecked, historyVars
    <3>2. hdr'[v] = hdr[v] /\ <<v, hdr[v]>> \notin pending[p][s]
      BY <3>1, DropsOnly DEF Unchecked, Checked
    <3>3. Tracked(<<v, hdr[v]>>)
      BY <1>2, <3>1, <3>2 DEF Unchecked, Checked
    <3>4. (\E t \in Sids : TrackedBy(p, t, <<v, hdr[v]>>))
          => <<v, hdr[v]>> \in PendingOf(p) \ pending[p][s]
      BY <3>2, InPendingOf
    <3> QED
      BY <1>0, <2>0, <3>1, <3>2, <3>3, <3>4, EndSessionTracks
  <2>4. ASSUME NEW partial \in BOOLEAN, FinStream(p, s, partial) PROVE Tracked(<<v, hdr[v]>>)'
    <3>1. CloseStream(p, s) /\ UNCHANGED <<pages, ending, lost>>
      BY <2>4 DEF FinStream, historyVars
    <3>2. CASE partial
      <4>1. hdr' = AfterDrops(hdr, pages, pending[p][s])
        BY <2>4, <3>2 DEF FinStream
      <4> QED
        BY <1>0, <1>2, <3>1, <4>1, DropAndClose
    <3>3. CASE ~partial
      <4>1. hdr' = hdr /\ pending[p][s] = {}
        BY <2>4, <3>3 DEF FinStream
      <4>2. Tracked(<<v, hdr[v]>>)
        BY <1>2, <3>1, <4>1 DEF Unchecked, Checked
      <4>3. ASSUME NEW q \in Peers, NEW t \in Sids, TrackedBy(q, t, <<v, hdr[v]>>)
            PROVE  TrackedBy(q, t, <<v, hdr[v]>>)'
        <5>1. <<q, t>> # <<p, s>>
          BY <4>1, <4>3 DEF TrackedBy
        <5>2. asked'[q][t] = asked[q][t] /\ pending'[q][t] = pending[q][t]
          BY <1>0, <3>1, <5>1 DEF CloseStream, TypeOK
        <5> QED
          BY <4>1, <4>3, <5>2 DEF TrackedBy
      <4> QED
        BY <3>1, <4>1, <4>2, <4>3 DEF Tracked
    <3> QED
      BY <3>2, <3>3
  <2>5. CASE StreamError(p, s)
    <3>1. CloseStream(p, s) /\ UNCHANGED <<pages, ending, lost>>
          /\ hdr' = AfterDrops(hdr, pages, pending[p][s])
      BY <2>5 DEF StreamError, historyVars
    <3> QED
      BY <1>0, <1>2, <3>1, DropAndClose
  <2>6. CASE StoreFails(p, s)
    BY <1>1, <2>6 DEF StoreFails
  <2> QED
    BY <1>11, <2>1, <2>2, <2>3, <2>4, <2>5, <2>6 DEF Receive
<1> QED
  BY <1>4, <1>5, <1>6, <1>7, <1>8, <1>9, <1>10, <1>11 DEF Next

\* C27, C31: while the store has not failed, no header stays in it unchecked
\* without a receiver, of an open stream or of an ending session, that will check
\* it or drop it, unless the session that tracked it was replaced while open.  For any
\* number of sessions that write the same store.
THEOREM UncheckedAlwaysTracked == Spec => []UncheckedIsTracked
<1>1. Init => TrackedInv
  BY InitWants DEF Init, TrackedInv, Unchecked, NotEnding
<1>2. TrackedInv /\ [Next]_vars => TrackedInv'
  <2> SUFFICES ASSUME TrackedInv, [Next]_vars PROVE TrackedInv'
    OBVIOUS
  <2>1. WantsInv'
    BY NextWants DEF TrackedInv
  <2>2. (ending.peer = NoPeer => ending.headers = {})'
    BY NextList DEF TrackedInv, WantsInv
  <2>3. faults' = 0 => \A v \in Values : Unchecked(v)' => Tracked(<<v, hdr[v]>>)'
    BY NextTracked
  <2> QED
    BY <2>1, <2>2, <2>3 DEF TrackedInv
<1> QED
  BY <1>1, <1>2, TrackedMeans, PTL DEF Spec
=============================================================================
