-------------------------- MODULE PeerResponderProofs --------------------------
(* Proofs about PeerResponder: its types, that what a stream leaves out was    *)
(* sent, that the record is of this session, and, for a peer that waits for    *)
(* its reads before it comes back, that streams are asked for and that the     *)
(* channel is bounded.                                                         *)
EXTENDS PeerResponder, SeqFilterProofs, TLAPS

Streams == [root: Held \cup {NoHash}, todo: Seq(Hashes), part: Nat,
            credit: 0..(MaxGrant + 1), blocked: BOOLEAN]

-----------------------------------------------------------------------------
(* Operators *)

\* The stream whose turn it is is one of those still to visit.
LEMMA TurnType == ASSUME TypeOK, turn # {} PROVE Turn \in turn /\ Turn \in Sids
<1>1. turn \in SUBSET Nat /\ turn \in SUBSET Sids
  BY LimitsAssumption DEF TypeOK, Sids
<1>2. \E s \in turn : \A t \in turn : s <= t
  BY <1>1, LeastNatural
<1> QED
  BY <1>1, <1>2 DEF Turn

LEMMA NoStreamType == NoStream \in Streams
BY LimitsAssumption DEF NoStream, Streams

\* What a get sends begins with nothing the record names but the root itself.
LEMMA ToSendType ==
    ASSUME NEW h \in Held
    PROVE  /\ ToSend(h) \in Seq(Hashes)
           /\ Pages(h) \ Elements(record) \subseteq Elements(ToSend(h))
<1> DEFINE S == (Hashes \ Elements(record)) \cup {h}
<1>1. PageOrder[h] \in Seq(Hashes)
  BY OrderAssumption
<1>2. /\ Filter(PageOrder[h], S) \in Seq(Hashes)
      /\ Elements(Filter(PageOrder[h], S)) = Elements(PageOrder[h]) \cap S
  BY <1>1, FilterElements
<1>3. Elements(PageOrder[h]) \subseteq Hashes /\ Pages(h) = Elements(PageOrder[h])
  BY <1>1 DEF Elements, Pages
<1> QED
  BY <1>2, <1>3 DEF ToSend

\* A credit stays within its bound, and within one frame when none is granted.
LEMMA CreditType ==
    ASSUME NEW had \in Nat, NEW blocked \in BOOLEAN, NEW share \in Nat
    PROVE  /\ CreditOf(had, blocked, share) \in Nat
           /\ CreditOf(had, blocked, share) <= had + share
           /\ blocked => CreditOf(had, blocked, share) <= 1
BY DEF CreditOf

LEMMA BlockedType ==
    ASSUME NEW was \in BOOLEAN, NEW frames \in Nat
    PROVE  Blocked(was, frames) \in BOOLEAN
<1>1. (frames > LowMark) \in BOOLEAN /\ (frames >= HighMark) \in BOOLEAN
  BY LimitsAssumption
<1> QED
  BY <1>1 DEF Blocked

\* The record after a hash is recorded.
LEMMA RecordSentType ==
    ASSUME NEW h \in Hashes, record \in Seq(Hashes)
    PROVE  RecordSent(h) \in Seq(Hashes)
<1>1. Append(record, h) \in Seq(Hashes) /\ Append(record, h) # <<>>
  OBVIOUS
<1>2. Tail(Append(record, h)) \in Seq(Hashes)
  BY <1>1
<1> QED
  BY <1>1, <1>2 DEF RecordSent

\* The record after a recorded hash was acknowledged.
LEMMA AckType ==
    ASSUME NEW h \in Hashes, record \in Seq(Hashes)
    PROVE  /\ Filter(record, Hashes \ {h}) \in Seq(Hashes)
           /\ Append(Filter(record, Hashes \ {h}), h) \in Seq(Hashes)
<1>1. Filter(record, Hashes \ {h}) \in Seq(Hashes)
  BY FilterElements
<1> QED
  BY <1>1

-----------------------------------------------------------------------------
(* Types *)

\* Between ticks no stream has more than one frame of credit left, so that a grant
\* keeps within the bound.
CreditLeft == \A s \in Sids \ turn : streams[s].credit <= 1

TypeInv == TypeOK /\ CreditLeft

LEMMA InitTypeInv == Init => TypeInv
<1> SUFFICES ASSUME Init PROVE TypeInv
  OBVIOUS
<1>1. streams \in [Sids -> Streams]
  BY NoStreamType DEF Init
<1>2. CreditLeft
  BY DEF Init, CreditLeft, NoStream
<1>3. record \in Seq(Hashes) /\ asked \in [Sids -> Hashes \cup {NoHash}]
  BY DEF Init
<1>4. sessions \in 0 .. MaxSessions /\ tokens \in 0 .. Burst /\ buffered \in Nat
  BY LimitsAssumption DEF Init
<1>5. TypeOK
  BY <1>1, <1>3, <1>4 DEF Init, TypeOK, Streams
<1> QED
  BY <1>2, <1>5 DEF TypeInv

\* A stream is replaced by none.
LEMMA ClearType ==
    ASSUME streams \in [Sids -> Streams], NEW s \in Sids
    PROVE  /\ [streams EXCEPT ![s] = NoStream] \in [Sids -> Streams]
           /\ [streams EXCEPT ![s] = NoStream][s].credit = 0
BY NoStreamType DEF NoStream

LEMMA NextTypeInv == TypeInv /\ [Next]_vars => TypeInv'
<1> SUFFICES ASSUME TypeInv, [Next]_vars PROVE TypeInv'
  OBVIOUS
<1> USE DEF TypeInv, CreditLeft
<1>0. streams \in [Sids -> Streams] /\ TypeOK
  BY DEF TypeOK, Streams
<1>1. CASE OpenSession
  <2>1. streams' \in [Sids -> Streams]
    BY <1>1, NoStreamType DEF OpenSession
  <2>2. \A s \in Sids : streams'[s].credit = 0
    BY <1>1 DEF OpenSession, NoStream
  <2> QED
    <3>3. record' \in Seq(Hashes) /\ asked' \in [Sids -> Hashes \cup {NoHash}]
      BY <1>1 DEF OpenSession
    <3>4. sessions' \in 0 .. MaxSessions /\ tokens' \in 0 .. Burst /\ buffered' \in Nat
      BY <1>1, LimitsAssumption DEF OpenSession, TypeOK
    <3>1. TypeOK'
      BY <1>1, <2>1, <3>3, <3>4 DEF OpenSession, TypeOK, Streams
    <3>2. CreditLeft'
      BY <2>2
    <3> QED
      BY <3>1, <3>2
<1>2. CASE PeerHello
  BY <1>2 DEF PeerHello, TypeOK, history
<1>3. CASE EndSession
  <2>1. streams' \in [Sids -> Streams]
    BY <1>3, NoStreamType DEF EndSession
  <2>2. \A s \in Sids : streams'[s].credit = 0
    BY <1>3 DEF EndSession, NoStream
  <2> QED
    BY <1>3, <2>1, <2>2 DEF EndSession, TypeOK, Streams, history, tableVars
<1>4. CASE Refill
  BY <1>4, LimitsAssumption DEF Refill, TypeOK, history, tableVars
<1>5. ASSUME NEW s \in Sids, NEW h \in Hashes, Get(s, h) PROVE TypeInv'
  <2>1. tokens' \in 0 .. Burst
    BY <1>5, LimitsAssumption DEF Get, TypeOK
  <2>2. /\ used' \in SUBSET Sids /\ open' \in SUBSET Sids
        /\ reads' \in SUBSET (Sids \X Hashes)
        /\ asked' \in [Sids -> Hashes \cup {NoHash}]
    <3>1. <<s, h>> \in Sids \X Hashes
      OBVIOUS
    <3> QED
      BY <1>5, <3>1 DEF Get, TypeOK, tableVars
  <2> QED
    BY <1>5, <2>1, <2>2 DEF Get, TypeOK
<1>6. ASSUME NEW s \in Sids, NEW h \in Hashes, ReadDone(s, h) PROVE TypeInv'
  <2>1. reads' \in SUBSET (Sids \X Hashes) /\ open' \in SUBSET Sids
    BY <1>6 DEF ReadDone, TypeOK, Slots
  <2>2. /\ streams' \in [Sids -> Streams]
        /\ \A t \in Sids : streams'[t] = streams[t] \/ streams'[t].credit = 0
    <3>1. CASE UNCHANGED streams
      BY <1>0, <3>1
    <3>2. CASE /\ h \in Held
               /\ streams' = [streams EXCEPT ![s] =
                     [NoStream EXCEPT !.root = h, !.todo = ToSend(h)]]
      <4> DEFINE new == [NoStream EXCEPT !.root = h, !.todo = ToSend(h)]
      <4>1. new \in Streams /\ new.credit = 0
        BY <3>2, ToSendType, NoStreamType, LimitsAssumption DEF NoStream, Streams
      <4> HIDE DEF new
      <4> QED
        BY <1>0, <3>2, <4>1 DEF new
    <3>3. CASE streams' = [streams EXCEPT ![s] = NoStream]
      BY <1>0, <3>3, ClearType
    <3> QED
      BY <1>6, <3>1, <3>2, <3>3 DEF ReadDone
  <2>3. CreditLeft'
    BY <1>0, <1>6, <2>2 DEF ReadDone, Streams
  <2> QED
    BY <1>6, <2>1, <2>2, <2>3 DEF ReadDone, TypeOK, Streams, sessionVars, history
<1>7. ASSUME NEW h \in Hashes, Ack(h) PROVE TypeInv'
  <2>1. record' \in Seq(Hashes)
    BY <1>7, AckType DEF Ack, TypeOK
  <2> QED
    BY <1>7, <2>1 DEF Ack, TypeOK, sessionVars, tableVars, history
<1>8. ASSUME NEW expired \in SUBSET Active, NEW grant \in Grants, Tick(expired, grant)
      PROVE  TypeInv'
  <2> DEFINE blocked(s) == Blocked(streams[s].blocked, buffered)
             credit(s) == CreditOf(streams[s].credit, blocked(s), grant[s])
             ticked(s) == [streams[s] EXCEPT !.blocked = blocked(s), !.credit = credit(s)]
  <2>1. ASSUME NEW s \in Sids
        PROVE  ticked(s) \in Streams
    <3>1. streams[s].credit \in 0 .. 1 /\ streams[s].blocked \in BOOLEAN
      <4>1. streams[s] \in Streams /\ streams[s].credit <= 1
        BY <1>0, <1>8 DEF Tick
      <4> QED
        BY <4>1, LimitsAssumption DEF Streams
    <3>2. blocked(s) \in BOOLEAN /\ grant[s] \in 0 .. MaxGrant
      BY <3>1, BlockedType DEF Grants, TypeOK
    <3> HIDE DEF blocked
    <3>3. credit(s) \in 0 .. (MaxGrant + 1)
      BY <3>1, <3>2, LimitsAssumption DEF CreditOf
    <3> HIDE DEF credit
    <3> QED
      BY <1>0, <3>2, <3>3 DEF Streams
  <2>2. \A s \in Sids : streams'[s] = IF s \notin Active \ expired THEN NoStream ELSE ticked(s)
    BY <1>8 DEF Tick
  <2>3. streams' \in [Sids -> Streams]
    <3>1. \A s \in Sids : streams'[s] \in Streams
      BY <2>1, <2>2, NoStreamType
    <3>2. streams' = [s \in Sids |-> streams'[s]]
      BY <1>8 DEF Tick
    <3> QED
      BY <3>1, <3>2
  <2>4. CreditLeft'
    <3> HIDE DEF ticked
    <3>1. \A s \in Sids \ turn' : streams'[s] = NoStream
      BY <1>8, <2>2 DEF Tick
    <3> QED
      BY <3>1 DEF NoStream
  <2> QED
    BY <1>8, <2>3, <2>4 DEF Tick, TypeOK, Streams, sessionVars, history, Active, Slots
<1>9. CASE WriteFrame
  <2> DEFINE st == streams[Turn]
             new == [st EXCEPT !.todo = IF ItemEnds(st) THEN Tail(@) ELSE @,
                               !.part = IF ItemEnds(st) THEN 0 ELSE @ + 1,
                               !.credit = @ - 1,
                               !.blocked = Blocked(FALSE, buffered + 1)]
  <2>1. Turn \in turn /\ Turn \in Sids /\ st \in Streams
    BY <1>0, <1>9, TurnType DEF WriteFrame
  <2>2. st.todo \in Seq(Hashes) /\ st.todo # <<>> /\ st.credit \in 1 .. (MaxGrant + 1)
    BY <1>9, <2>1, LimitsAssumption DEF WriteFrame, Streams
  <2>3. Head(st.todo) \in Hashes /\ Tail(st.todo) \in Seq(Hashes)
    BY <2>2
  <2>4. new \in Streams
    <3>1. st.credit - 1 \in 0 .. (MaxGrant + 1) /\ Blocked(FALSE, buffered + 1) \in BOOLEAN
      <4>1. buffered + 1 \in Nat
        BY DEF TypeOK
      <4>2. Blocked(FALSE, buffered + 1) \in BOOLEAN
        BY <4>1, BlockedType
      <4>3. st.credit - 1 \in 0 .. (MaxGrant + 1)
        BY <2>2, LimitsAssumption
      <4> QED
        BY <4>2, <4>3
    <3>2. (IF ItemEnds(st) THEN Tail(st.todo) ELSE st.todo) \in Seq(Hashes)
      BY <2>2, <2>3
    <3>3. (IF ItemEnds(st) THEN 0 ELSE st.part + 1) \in Nat
      BY <2>1 DEF Streams
    <3> QED
      BY <2>1, <3>1, <3>2, <3>3 DEF Streams
  <2>5. streams' = [streams EXCEPT ![Turn] = new]
    BY <1>9 DEF WriteFrame
  <2>6. record' \in Seq(Hashes) /\ sent' \in SUBSET Hashes
    BY <1>9, <2>3, RecordSentType DEF WriteFrame, NoteFrameSent, TypeOK
  <2> HIDE DEF new
  <2>7. streams' \in [Sids -> Streams] /\ CreditLeft'
    BY <1>0, <1>9, <2>1, <2>4, <2>5 DEF WriteFrame
  <2> QED
    BY <1>9, <2>6, <2>7 DEF WriteFrame, TypeOK, Streams, sessionVars, tableVars
<1>10. CASE StopWriting
  <2> DEFINE st == streams[Turn]
             credit == CreditOf(st.credit, st.blocked, 0)
  <2>1. Turn \in turn /\ Turn \in Sids /\ st \in Streams
    BY <1>0, <1>10, TurnType DEF StopWriting
  <2>2. credit \in 0 .. 1 /\ credit \in 0 .. (MaxGrant + 1)
    BY <1>10, <2>1, LimitsAssumption DEF StopWriting, CreditOf, Streams
  <2>3. streams' = [streams EXCEPT ![Turn] = [st EXCEPT !.credit = credit]]
    BY <1>10 DEF StopWriting
  <2> HIDE DEF credit
  <2>4. [st EXCEPT !.credit = credit] \in Streams
    BY <2>1, <2>2 DEF Streams
  <2>5. streams' \in [Sids -> Streams]
    BY <1>0, <2>1, <2>3, <2>4
  <2>6. CreditLeft'
    BY <1>0, <1>10, <2>1, <2>2, <2>3 DEF StopWriting, Streams
  <2> QED
    BY <1>10, <2>5, <2>6 DEF StopWriting, TypeOK, Streams, sessionVars, tableVars, history
<1>11. CASE FinishStream
  <2>1. Turn \in turn /\ Turn \in Sids
    BY <1>11, TurnType DEF FinishStream
  <2>2. streams' \in [Sids -> Streams] /\ CreditLeft'
    BY <1>0, <1>11, <2>1, ClearType DEF FinishStream
  <2> QED
    BY <1>11, <2>2 DEF FinishStream, TypeOK, Streams, sessionVars, history, Slots
<1>12. CASE Drain
  BY <1>12 DEF Drain, TypeOK, sessionVars, tableVars, history
<1>13. CASE UNCHANGED vars
  BY <1>13 DEF TypeOK, vars, sessionVars, tableVars, history
<1> QED
  BY <1>1, <1>2, <1>3, <1>4, <1>5, <1>6, <1>7, <1>8, <1>9, <1>10, <1>11, <1>12, <1>13
     DEF Next, Ticks

LEMMA TypeInvariance == Spec => []TypeInv
<1>1. Init => TypeInv
  BY InitTypeInv
<1>2. TypeInv /\ [Next]_vars => TypeInv'
  BY NextTypeInv
<1> QED
  BY <1>1, <1>2, PTL DEF Spec

\* The variables of the responder keep their types, tokens and credits their bounds,
\* for any graph of pages, any limits and any number of sessions.
THEOREM TypeCorrect == Spec => []TypeOK
<1>1. TypeInv => TypeOK
  BY DEF TypeInv
<1> QED
  BY <1>1, TypeInvariance, PTL
-----------------------------------------------------------------------------
(* The record *)

\* Recording a hash adds it alone, keeps the record without repetitions, and within
\* its cap.
LEMMA RecordSentKeeps ==
    ASSUME NEW h \in Hashes, record \in Seq(Hashes), RecordIsSent
    PROVE  /\ Elements(RecordSent(h)) \subseteq Elements(record) \cup {h}
           /\ Len(RecordSent(h)) <= RecordCap
           /\ \A i, j \in DOMAIN RecordSent(h) : RecordSent(h)[i] = RecordSent(h)[j] => i = j
<1> DEFINE r == Append(record, h)
<1>1. CASE h \in Elements(record)
  BY <1>1 DEF RecordSent, RecordIsSent
<1>2. CASE h \notin Elements(record)
  <2>1. /\ r \in Seq(Hashes) /\ r # <<>> /\ Len(r) = Len(record) + 1
        /\ \A i \in 1 .. Len(record) : r[i] = record[i]
        /\ r[Len(record) + 1] = h
        /\ Len(record) \in Nat /\ DOMAIN record = 1 .. Len(record)
    OBVIOUS
  <2>2. \A i \in 1 .. Len(r) : r[i] \in Elements(record) \cup {h}
    BY <2>1 DEF Elements
  <2>3. \A i, j \in 1 .. Len(r) : r[i] = r[j] => i = j
    <3>1. \A i \in 1 .. Len(record) : r[i] \in Elements(record) /\ r[i] # h
      BY <1>2, <2>1 DEF Elements
    <3>2. \A i, j \in 1 .. Len(record) : r[i] = r[j] => i = j
      BY <2>1 DEF RecordIsSent
    <3> HIDE DEF r
    <3> QED
      BY <2>1, <3>1, <3>2
  <2> HIDE DEF r
  <2>4. CASE Len(record) < RecordCap
    <3>1. RecordSent(h) = r
      BY <1>2, <2>4 DEF RecordSent, r
    <3>2. Len(r) <= RecordCap /\ DOMAIN r = 1 .. Len(r)
      BY <2>1, <2>4, LimitsAssumption
    <3> QED
      BY <2>2, <2>3, <3>1, <3>2 DEF Elements
  <2>5. CASE ~ Len(record) < RecordCap
    <3>1. RecordSent(h) = Tail(r)
      BY <1>2, <2>5 DEF RecordSent, r
    <3>2. /\ Tail(r) \in Seq(Hashes) /\ Len(Tail(r)) = Len(r) - 1
          /\ \A i \in 1 .. Len(Tail(r)) : i + 1 \in 1 .. Len(r) /\ Tail(r)[i] = r[i + 1]
          /\ DOMAIN Tail(r) = 1 .. Len(Tail(r))
      BY <2>1
    <3>3. Len(Tail(r)) <= RecordCap
      BY <2>1, <2>5, <3>2, LimitsAssumption DEF RecordIsSent
    <3>4. \A i, j \in DOMAIN Tail(r) : Tail(r)[i] = Tail(r)[j] => i = j
      <4> SUFFICES ASSUME NEW i \in 1 .. Len(Tail(r)), NEW j \in 1 .. Len(Tail(r)),
                          Tail(r)[i] = Tail(r)[j]
                   PROVE  i = j
        BY <3>2
      <4>1. i + 1 = j + 1
        BY <2>3, <3>2
      <4> QED
        BY <4>1
    <3>5. Elements(Tail(r)) \subseteq Elements(record) \cup {h}
      <4>1. \A i \in DOMAIN Tail(r) : Tail(r)[i] \in Elements(record) \cup {h}
        BY <2>2, <3>2
      <4> QED
        BY <4>1 DEF Elements
    <3> QED
      BY <3>1, <3>3, <3>4, <3>5
  <2> QED
    BY <2>4, <2>5
<1> QED
  BY <1>1, <1>2

\* An acknowledged hash only changes its place.
AckedRecord(r, h) == r = Append(Filter(record, Hashes \ {h}), h)

LEMMA AckKeeps ==
    ASSUME NEW h \in Elements(record), record \in Seq(Hashes), RecordIsSent,
           NEW r, AckedRecord(r, h)
    PROVE  /\ Elements(r) \subseteq Elements(record)
           /\ Len(r) <= RecordCap
           /\ \A i, j \in DOMAIN r : r[i] = r[j] => i = j
<1> DEFINE f == Filter(record, Hashes \ {h})
<1>0. /\ DOMAIN record = 1 .. Len(record) /\ Len(record) \in Nat
      /\ \A i \in DOMAIN record : record[i] \in Hashes
  OBVIOUS
<1>1. PICK o \in DOMAIN record : record[o] = h
  BY DEF Elements
<1>2. /\ f \in Seq(Hashes) /\ Elements(f) = Elements(record) \cap (Hashes \ {h})
      /\ \A i, j \in DOMAIN f : f[i] = f[j] => i = j
  BY FilterElements, FilterDistinct DEF RecordIsSent
<1>3. Len(f) = Len(record) - 1
  <2>1. \A i \in DOMAIN record : record[i] \in Hashes \ {h} <=> i # o
    BY <1>0, <1>1 DEF RecordIsSent
  <2> DEFINE S == Hashes \ {h}
  <2> HIDE DEF S
  <2>2. \A i \in DOMAIN record : record[i] \in S <=> i # o
    BY <2>1 DEF S
  <2>3. Len(Filter(record, S)) = Len(record) - 1
    BY <2>2, FilterOneOut
  <2> QED
    BY <2>3 DEF S
<1> HIDE DEF f
<1>4. h \in Hashes
  BY <1>0, <1>1
<1>5. /\ Len(r) = Len(f) + 1 /\ DOMAIN r = 1 .. (Len(f) + 1) /\ DOMAIN f = 1 .. Len(f)
      /\ \A i \in 1 .. Len(f) : r[i] = f[i]
      /\ r[Len(f) + 1] = h /\ Len(f) \in Nat
  <2> DEFINE t == Append(f, h)
  <2>1. /\ Len(t) = Len(f) + 1 /\ DOMAIN t = 1 .. (Len(f) + 1) /\ DOMAIN f = 1 .. Len(f)
        /\ \A i \in 1 .. Len(f) : t[i] = f[i]
        /\ t[Len(f) + 1] = h /\ Len(f) \in Nat
    BY <1>2, <1>4, AppendParts
  <2>2. r = t
    BY DEF AckedRecord, f
  <2> HIDE DEF t
  <2> QED
    BY <2>1, <2>2
<1>6. \A i \in 1 .. Len(f) : f[i] \in Elements(record) /\ f[i] # h
  BY <1>2, <1>5 DEF Elements
<1>7. Elements(r) \subseteq Elements(record)
  <2>1. \A i \in DOMAIN r : r[i] \in Elements(record)
    BY <1>5, <1>6
  <2> QED
    BY <2>1 DEF Elements
<1>8. \A i, j \in DOMAIN r : r[i] = r[j] => i = j
  BY <1>2, <1>5, <1>6
<1>9. Len(r) <= RecordCap
  BY <1>0, <1>1, <1>3, <1>5, LimitsAssumption DEF RecordIsSent
<1> QED
  BY <1>7, <1>8, <1>9

LEMMA NextRecord == TypeOK /\ RecordIsSent /\ [Next]_vars => RecordIsSent'
<1> SUFFICES ASSUME TypeOK, RecordIsSent, [Next]_vars PROVE RecordIsSent'
  OBVIOUS
<1>0. record \in Seq(Hashes)
  BY DEF TypeOK
<1>1. CASE OpenSession
  <2>1. record' = <<>> /\ DOMAIN <<>> = {} /\ Len(<<>>) = 0
    BY <1>1 DEF OpenSession
  <2>2. Elements(record') = {}
    BY <2>1 DEF Elements
  <2> QED
    BY <2>1, <2>2, LimitsAssumption DEF RecordIsSent
<1>2. ASSUME NEW h \in Hashes, Ack(h) PROVE RecordIsSent'
  <2> DEFINE r == Append(Filter(record, Hashes \ {h}), h)
  <2>1. h \in Elements(record) /\ record' = r /\ sent' = sent
    BY <1>2 DEF Ack, history
  <2> HIDE DEF r
  <2>2. /\ Elements(r) \subseteq Elements(record) /\ Len(r) <= RecordCap
        /\ \A i, j \in DOMAIN r : r[i] = r[j] => i = j
    <3>1. AckedRecord(r, h)
      BY DEF AckedRecord, r
    <3> QED
      BY <1>0, <2>1, <3>1, AckKeeps
  <2> QED
    BY <2>1, <2>2 DEF RecordIsSent
<1>3. CASE WriteFrame
  <2> DEFINE st == streams[Turn]
             h == Head(st.todo)
  <2>1. Turn \in Sids
    BY <1>3, TurnType DEF WriteFrame
  <2>2. st.todo \in Seq(Hashes) /\ st.todo # <<>>
    BY <1>3, <2>1 DEF WriteFrame, TypeOK
  <2>3. h \in Hashes
    BY <2>2
  <2>4. CASE ItemEnds(st)
    <3>1. record' = RecordSent(h) /\ sent' = sent \cup {h}
      BY <1>3, <2>4 DEF WriteFrame, NoteFrameSent
    <3> HIDE DEF h
    <3> QED
      BY <1>0, <2>3, <3>1, RecordSentKeeps DEF RecordIsSent
  <2>5. CASE ~ItemEnds(st)
    BY <1>3, <2>5 DEF WriteFrame, NoteFrameSent, RecordIsSent
  <2> QED
    BY <2>4, <2>5
<1>4. CASE UNCHANGED <<record, sent>>
  BY <1>4 DEF RecordIsSent
<1>5. \/ OpenSession \/ (\E h \in Hashes : Ack(h)) \/ WriteFrame
      \/ UNCHANGED <<record, sent>>
  BY DEF Next, PeerHello, EndSession, Refill, Get, ReadDone, Ticks, Tick, StopWriting,
         FinishStream, Drain, vars, history
<1> QED
  BY <1>1, <1>2, <1>3, <1>4, <1>5

\* The record names only what this session has sent in full, each hash once and at
\* most sent-cap of them, whatever is acknowledged and in whatever order (C21).
THEOREM RecordAlwaysSent == Spec => []RecordIsSent
<1>1. Init => RecordIsSent
  <2> SUFFICES ASSUME Init PROVE RecordIsSent
    OBVIOUS
  <2>1. record = <<>> /\ DOMAIN <<>> = {} /\ Len(<<>>) = 0
    BY DEF Init
  <2>2. Elements(record) = {}
    BY <2>1 DEF Elements
  <2> QED
    BY <2>1, <2>2, LimitsAssumption DEF RecordIsSent
<1>2. TypeOK /\ RecordIsSent /\ [Next]_vars => RecordIsSent'
  BY NextRecord
<1> QED
  BY <1>1, <1>2, TypeCorrect, PTL DEF Spec

-----------------------------------------------------------------------------
(* What streams leave out *)

LEMMA NextComplete ==
    TypeOK /\ RecordIsSent /\ StreamsAreComplete /\ [Next]_vars => StreamsAreComplete'
<1> SUFFICES ASSUME TypeOK, RecordIsSent, StreamsAreComplete, [Next]_vars
             PROVE  StreamsAreComplete'
  OBVIOUS
<1>0. streams \in [Sids -> Streams] /\ NoStream.root = NoHash
  BY DEF TypeOK, Streams, NoStream
<1>1. ASSUME UNCHANGED sent,
             \A s \in Sids : \/ streams'[s].root = NoHash
                             \/ /\ streams'[s].root = streams[s].root
                                /\ streams'[s].todo = streams[s].todo
      PROVE  StreamsAreComplete'
  BY <1>1 DEF StreamsAreComplete, Active
<1>2. CASE OpenSession
  BY <1>0, <1>2 DEF OpenSession, StreamsAreComplete, Active
<1>3. CASE EndSession
  BY <1>0, <1>1, <1>3 DEF EndSession, history
<1>4. ASSUME NEW s \in Sids, NEW h \in Hashes, ReadDone(s, h) PROVE StreamsAreComplete'
  <2>0. sent' = sent
    BY <1>4 DEF ReadDone, history
  <2>1. CASE UNCHANGED streams
    BY <1>1, <2>0, <2>1
  <2>2. CASE streams' = [streams EXCEPT ![s] = NoStream]
    BY <1>0, <1>1, <2>0, <2>2
  <2>3. CASE /\ h \in Held
             /\ streams' = [streams EXCEPT ![s] =
                   [NoStream EXCEPT !.root = h, !.todo = ToSend(h)]]
    <3>1. /\ streams'[s].root = h /\ streams'[s].todo = ToSend(h)
          /\ \A t \in Sids \ {s} : streams'[t] = streams[t]
      BY <1>0, <2>3 DEF NoStream
    <3>2. Pages(h) \subseteq sent \cup Elements(ToSend(h))
      BY <2>3, ToSendType DEF RecordIsSent
    <3> QED
      BY <2>0, <3>1, <3>2 DEF StreamsAreComplete, Active
  <2> QED
    BY <1>4, <2>1, <2>2, <2>3 DEF ReadDone
<1>5. ASSUME NEW expired \in SUBSET Active, NEW grant \in Grants, Tick(expired, grant)
      PROVE  StreamsAreComplete'
  <2>1. sent' = sent
    BY <1>5 DEF Tick, history
  <2>2. ASSUME NEW s \in Sids
        PROVE  \/ streams'[s].root = NoHash
               \/ /\ streams'[s].root = streams[s].root
                  /\ streams'[s].todo = streams[s].todo
    BY <1>0, <1>5 DEF Tick, Streams
  <2> QED
    BY <1>1, <2>1, <2>2
<1>6. CASE WriteFrame
  <2> DEFINE st == streams[Turn]
  <2>1. Turn \in Sids
    BY <1>6, TurnType DEF WriteFrame
  <2>2. st.todo \in Seq(Hashes) /\ st.todo # <<>>
    BY <1>0, <1>6, <2>1 DEF WriteFrame, Streams
  <2>3. /\ \A t \in Sids \ {Turn} : streams'[t] = streams[t]
        /\ streams'[Turn].root = st.root
        /\ streams'[Turn].todo = IF ItemEnds(st) THEN Tail(st.todo) ELSE st.todo
    BY <1>0, <1>6, <2>1 DEF WriteFrame, Streams
  <2>4. sent' = IF ItemEnds(st) THEN sent \cup {Head(st.todo)} ELSE sent
    BY <1>6 DEF WriteFrame
  <2>5. Elements(st.todo) \subseteq {Head(st.todo)} \cup Elements(Tail(st.todo))
    BY <2>2, TailElements
  <2>6. sent \subseteq sent'
    BY <2>4
  <2>7. ASSUME NEW t \in Active'
        PROVE  Pages(streams'[t].root) \subseteq sent' \cup Elements(streams'[t].todo)
    <3>1. t \in Active /\ streams'[t].root = streams[t].root
      BY <2>3, <2>7 DEF Active
    <3>2. Pages(streams[t].root) \subseteq sent \cup Elements(streams[t].todo)
      BY <3>1 DEF StreamsAreComplete
    <3> QED
      BY <2>3, <2>4, <2>5, <2>6, <3>1, <3>2 DEF Active
  <2> QED
    BY <2>7 DEF StreamsAreComplete
<1>7. CASE StopWriting
  <2>1. Turn \in Sids
    BY <1>7, TurnType DEF StopWriting
  <2> QED
    BY <1>0, <1>1, <1>7, <2>1 DEF StopWriting, history, Streams
<1>8. CASE FinishStream
  <2>1. Turn \in Sids
    BY <1>8, TurnType DEF FinishStream
  <2> QED
    BY <1>0, <1>1, <1>8, <2>1 DEF FinishStream, history
<1>9. CASE UNCHANGED <<streams, sent>>
  BY <1>1, <1>9
<1>10. \/ OpenSession \/ EndSession \/ (\E s \in Sids, h \in Hashes : ReadDone(s, h))
       \/ Ticks \/ WriteFrame \/ StopWriting \/ FinishStream
       \/ UNCHANGED <<streams, sent>>
  BY DEF Next, PeerHello, Refill, Get, Ack, Drain, vars, history
<1> QED
  BY <1>2, <1>3, <1>4, <1>5, <1>6, <1>7, <1>8, <1>9, <1>10 DEF Ticks

\* What a stream leaves out has been sent in full on the same session, for any graph
\* of shared pages: no eviction from the record, no order of acks and no stream that
\* is dropped half way makes two streams leave a page to each other (C19, C20).
THEOREM StreamsAlwaysComplete == Spec => []StreamsAreComplete
<1>1. Init => StreamsAreComplete
  BY DEF Init, StreamsAreComplete, Active, NoStream
<1>2. TypeOK /\ RecordIsSent /\ StreamsAreComplete /\ [Next]_vars => StreamsAreComplete'
  BY NextComplete
<1> QED
  BY <1>1, <1>2, TypeCorrect, RecordAlwaysSent, PTL DEF Spec

-----------------------------------------------------------------------------
(* The ids that are open *)

\* On an open connection that waited for the reads of the one before it, a read is
\* of an open id whose stream is not written yet, and the streams of a tick are live.
AskedInv ==
    /\ StreamsAreAsked
    /\ open \subseteq used
    /\ turn \subseteq Active
    /\ status # "open" => Active = {}
    /\ ~greeted => open = {} /\ reads = {} /\ Active = {}
    /\ status = "open" =>
         \A s \in Sids, h \in Hashes :
            <<s, h>> \in reads => s \in open /\ asked[s] = h /\ s \notin Active

\* A step that only closes the streams in over, and their ids, or leaves all alone.
LEMMA CloseKeepsAsked ==
    ASSUME TypeOK, AskedInv, NEW over \in SUBSET Active,
           UNCHANGED <<status, greeted, used, reads, asked>>,
           open' = open \ over, Active' = Active \ over, turn' \subseteq Active',
           \A s \in Active' : streams'[s].root = streams[s].root
    PROVE  AskedInv'
<1>1. StreamsAreAsked'
  <2> SUFFICES ASSUME status = "open"
               PROVE  /\ \A s \in Active' : s \in open' /\ asked[s] = streams'[s].root
                      /\ \A s \in open' : s \in Active' \/ <<s, asked[s]>> \in reads
    BY DEF StreamsAreAsked
  <2> QED
    BY DEF AskedInv, StreamsAreAsked
<1> QED
  BY <1>1 DEF AskedInv

LEMMA InitAsked == Init => AskedInv
BY DEF Init, AskedInv, StreamsAreAsked, Active, NoStream

LEMMA NextAsked ==
    ASSUME ~Crossing PROVE TypeOK /\ AskedInv /\ [Next]_vars => AskedInv'
<1> SUFFICES ASSUME TypeOK, AskedInv, [Next]_vars PROVE AskedInv'
  OBVIOUS
<1>0. streams \in [Sids -> Streams] /\ NoStream.root = NoHash /\ Active \subseteq Sids
  BY DEF TypeOK, Streams, NoStream, Active
<1>1. CASE OpenSession
  <2>1. Active' = {}
    BY <1>0, <1>1 DEF OpenSession, Active
  <2> QED
    BY <1>1, <2>1 DEF OpenSession, AskedInv, StreamsAreAsked
<1>2. CASE PeerHello
  <2>1. Active' = Active /\ Active = {} /\ reads = {}
    BY <1>2 DEF PeerHello, AskedInv, Active
  <2> QED
    BY <1>2, <2>1 DEF PeerHello, AskedInv, StreamsAreAsked, history
<1>3. CASE EndSession
  <2>1. Active' = {}
    BY <1>0, <1>3 DEF EndSession, Active
  <2> QED
    BY <1>3, <2>1 DEF EndSession, AskedInv, StreamsAreAsked, tableVars
<1>4. ASSUME NEW s \in Sids, NEW h \in Hashes, Get(s, h) PROVE AskedInv'
  <2>1. Active' = Active /\ streams' = streams
    BY <1>4 DEF Get, Active
  <2>2. CASE UNCHANGED <<tableVars, asked>>
    BY <1>4, <2>1, <2>2, CloseKeepsAsked DEF Get, tableVars, AskedInv
  <2>3. CASE /\ NextSid(s)
             /\ used' = used \cup {s} /\ open' = open \cup {s}
             /\ reads' = reads \cup {<<s, h>>}
             /\ asked' = [asked EXCEPT ![s] = h]
    <3>1. s \notin open /\ s \notin Active /\ status = "open" /\ greeted
      BY <1>4, <2>3 DEF Get, NextSid, AskedInv, StreamsAreAsked
    <3>2. asked'[s] = h /\ \A t \in Sids \ {s} : asked'[t] = asked[t]
      BY <2>3 DEF TypeOK
    <3>3. StreamsAreAsked'
      <4>1. \A t \in Active : t \in open' /\ asked'[t] = streams[t].root
        BY <1>0, <2>3, <3>1, <3>2 DEF AskedInv, StreamsAreAsked
      <4>2. \A t \in open' : t \in Active \/ <<t, asked'[t]>> \in reads'
        <5>1. open \subseteq Sids
          BY DEF TypeOK
        <5> QED
          BY <2>3, <3>1, <3>2, <5>1 DEF AskedInv, StreamsAreAsked
      <4> QED
        BY <2>1, <4>1, <4>2 DEF StreamsAreAsked
    <3>4. ASSUME NEW t \in Sids, NEW g \in Hashes, <<t, g>> \in reads'
          PROVE  t \in open' /\ asked'[t] = g /\ t \notin Active
      <4>1. CASE <<t, g>> = <<s, h>>
        BY <2>3, <3>1, <3>2, <4>1
      <4>2. CASE <<t, g>> \in reads
        <5>1. t \in open /\ asked[t] = g /\ t \notin Active
          BY <3>1, <4>2 DEF AskedInv
        <5> QED
          BY <2>3, <3>1, <3>2, <5>1
      <4> QED
        BY <2>3, <3>4, <4>1, <4>2
    <3>5. UNCHANGED <<status, greeted, turn>> /\ open' \subseteq used'
      BY <1>4, <2>3 DEF Get, AskedInv
    <3> QED
      BY <2>1, <3>1, <3>3, <3>4, <3>5 DEF AskedInv
  <2> QED
    BY <1>4, <2>2, <2>3 DEF Get
<1>5. ASSUME NEW s \in Sids, NEW h \in Hashes, ReadDone(s, h) PROVE AskedInv'
  <2>0. /\ reads' = reads \ {<<s, h>>} /\ <<s, h>> \in reads
        /\ UNCHANGED <<status, greeted, used, asked, turn>> /\ turn = {}
    BY <1>5 DEF ReadDone, sessionVars, history
  <2>1. CASE status # "open" /\ UNCHANGED <<streams, open>>
    <3>1. Active' = Active
      BY <2>1 DEF Active
    <3> QED
      BY <2>0, <2>1, <3>1 DEF AskedInv, StreamsAreAsked
  <2>2. CASE /\ status = "open" /\ h \in Held /\ UNCHANGED open
             /\ streams' = [streams EXCEPT ![s] =
                   [NoStream EXCEPT !.root = h, !.todo = ToSend(h)]]
    <3>1. s \in open /\ asked[s] = h /\ s \notin Active /\ greeted
      BY <2>0, <2>2 DEF AskedInv
    <3>2. /\ streams'[s].root = h
          /\ \A t \in Sids \ {s} : streams'[t] = streams[t]
      BY <1>0, <2>2 DEF NoStream
    <3>3. Active' = Active \cup {s}
      BY <3>2, <2>2, OrderAssumption DEF Active
    <3>4. StreamsAreAsked'
      <4>1. \A t \in Active' : t \in open /\ asked[t] = streams'[t].root
        BY <1>0, <2>2, <3>1, <3>2, <3>3 DEF AskedInv, StreamsAreAsked
      <4>2. \A t \in open : t \in Active' \/ <<t, asked[t]>> \in reads'
        BY <2>0, <2>2, <3>3 DEF AskedInv, StreamsAreAsked
      <4> QED
        BY <2>0, <2>2, <4>1, <4>2 DEF StreamsAreAsked
    <3>5. ASSUME NEW t \in Sids, NEW g \in Hashes, <<t, g>> \in reads'
          PROVE  t \in open /\ asked[t] = g /\ t \notin Active'
      <4>1. t \in open /\ asked[t] = g /\ t \notin Active
        BY <2>0, <2>2, <3>5 DEF AskedInv
      <4>2. t # s
        BY <2>0, <3>1, <3>5, <4>1
      <4> QED
        BY <3>3, <4>1, <4>2
    <3> QED
      BY <2>0, <2>2, <3>1, <3>4, <3>5 DEF AskedInv
  <2>3. CASE /\ status = "open" /\ open' = Slots({s})
             /\ streams' = [streams EXCEPT ![s] = NoStream]
    <3>1. s \in open /\ asked[s] = h /\ s \notin Active /\ greeted
      BY <2>0, <2>3 DEF AskedInv
    <3>2. Active' = Active /\ \A t \in Active : streams'[t] = streams[t]
      BY <1>0, <2>3, <3>1 DEF Active
    <3>3. StreamsAreAsked'
      <4>1. \A t \in Active : t \in open' /\ asked[t] = streams'[t].root
        BY <2>3, <3>1, <3>2 DEF AskedInv, StreamsAreAsked, Slots
      <4>2. \A t \in open' : t \in Active \/ <<t, asked[t]>> \in reads'
        BY <2>0, <2>3 DEF AskedInv, StreamsAreAsked, Slots
      <4> QED
        BY <2>0, <2>3, <3>2, <4>1, <4>2 DEF StreamsAreAsked
    <3>4. ASSUME NEW t \in Sids, NEW g \in Hashes, <<t, g>> \in reads'
          PROVE  t \in open' /\ asked[t] = g /\ t \notin Active
      <4>1. t \in open /\ asked[t] = g /\ t \notin Active
        BY <2>0, <2>3, <3>4 DEF AskedInv
      <4>2. t # s
        BY <2>0, <3>1, <3>4, <4>1
      <4> QED
        BY <2>3, <4>1, <4>2 DEF Slots
    <3>5. open' \subseteq used /\ turn \subseteq Active
      BY <2>3 DEF AskedInv, Slots
    <3> QED
      BY <2>0, <2>3, <3>1, <3>2, <3>3, <3>4, <3>5 DEF AskedInv
  <2> QED
    BY <1>5, <2>1, <2>2, <2>3 DEF ReadDone
<1>6. ASSUME NEW expired \in SUBSET Active, NEW grant \in Grants, Tick(expired, grant)
      PROVE  AskedInv'
  <2>1. \A s \in Sids : streams'[s].root =
                          IF s \in Active \ expired THEN streams[s].root ELSE NoHash
    BY <1>0, <1>6 DEF Tick, Streams
  <2>2. Active' = Active \ expired
    BY <2>1 DEF Active
  <2> QED
    BY <1>0, <1>6, <2>1, <2>2, CloseKeepsAsked DEF Tick, sessionVars, history, Slots
<1>7. CASE WriteFrame
  <2>1. Turn \in Sids
    BY <1>7, TurnType DEF WriteFrame
  <2>2. \A s \in Sids : streams'[s].root = streams[s].root
    BY <1>0, <1>7, <2>1 DEF WriteFrame, Streams
  <2>3. Active' = Active
    BY <2>2 DEF Active
  <2>4. /\ UNCHANGED <<status, greeted, used, reads, asked>>
        /\ open' = open \ {} /\ Active' = Active \ {} /\ turn' \subseteq Active'
    BY <1>7, <2>3 DEF WriteFrame, sessionVars, tableVars, history, AskedInv
  <2>5. \A s \in Active' : streams'[s].root = streams[s].root
    BY <1>0, <2>2, <2>3
  <2>6. {} \in SUBSET Active
    OBVIOUS
  <2> QED
    BY <2>4, <2>5, <2>6, CloseKeepsAsked
<1>8. CASE StopWriting
  <2>1. Turn \in Sids
    BY <1>8, TurnType DEF StopWriting
  <2>2. \A s \in Sids : streams'[s].root = streams[s].root
    BY <1>0, <1>8, <2>1 DEF StopWriting, Streams
  <2>3. Active' = Active
    BY <2>2 DEF Active
  <2>4. /\ UNCHANGED <<status, greeted, used, reads, asked>>
        /\ open' = open \ {} /\ Active' = Active \ {} /\ turn' \subseteq Active'
    BY <1>8, <2>3 DEF StopWriting, sessionVars, tableVars, history, AskedInv
  <2>5. \A s \in Active' : streams'[s].root = streams[s].root
    BY <1>0, <2>2, <2>3
  <2>6. {} \in SUBSET Active
    OBVIOUS
  <2> QED
    BY <2>4, <2>5, <2>6, CloseKeepsAsked
<1>9. CASE FinishStream
  <2>1. Turn \in Sids /\ Turn \in turn
    BY <1>9, TurnType DEF FinishStream
  <2>2. Turn \in Active
    BY <2>1 DEF AskedInv
  <2>3. \A s \in Sids : streams'[s].root = IF s = Turn THEN NoHash ELSE streams[s].root
    BY <1>0, <1>9, <2>1 DEF FinishStream
  <2>4. Active' = Active \ {Turn}
    BY <2>3 DEF Active
  <2>5. turn' \subseteq Active'
    BY <1>9, <2>4 DEF FinishStream, AskedInv
  <2>6. \A s \in Active' : streams'[s].root = streams[s].root
    BY <1>0, <2>3, <2>4
  <2> QED
    BY <1>9, <2>2, <2>4, <2>5, <2>6, CloseKeepsAsked DEF FinishStream, sessionVars, history, Slots
<1>10. CASE UNCHANGED <<status, greeted, tableVars, streams, turn, asked>>
  <2>1. Active' = Active
    BY <1>10 DEF Active
  <2> QED
    BY <1>10, <2>1 DEF AskedInv, StreamsAreAsked, tableVars
<1>11. \/ OpenSession \/ PeerHello \/ EndSession
       \/ (\E s \in Sids, h \in Hashes : Get(s, h) \/ ReadDone(s, h))
       \/ Ticks \/ WriteFrame \/ StopWriting \/ FinishStream
       \/ UNCHANGED <<status, greeted, tableVars, streams, turn, asked>>
  BY DEF Next, Refill, Ack, Drain, vars, sessionVars, tableVars, history
<1> QED
  BY <1>1, <1>2, <1>3, <1>4, <1>5, <1>6, <1>7, <1>8, <1>9, <1>10, <1>11 DEF Ticks

LEMMA AskedAlways == ASSUME ~Crossing PROVE Spec => []AskedInv
<1>1. Init => AskedInv
  BY InitAsked
<1>2. TypeOK /\ AskedInv /\ [Next]_vars => AskedInv'
  BY NextAsked
<1> QED
  BY <1>1, <1>2, TypeCorrect, PTL DEF Spec

\* A stream that is written answers a get of its own session, and an id is open only
\* for a stream or for a read that is out, so that no stream that has ended keeps a
\* slot: for a peer that comes back only after its reads are done (C11, C38).
THEOREM StreamsAlwaysAsked == ASSUME ~Crossing PROVE Spec => []StreamsAreAsked
<1>1. AskedInv => StreamsAreAsked
  BY DEF AskedInv
<1> QED
  BY <1>1, AskedAlways, PTL

==============================================================================
