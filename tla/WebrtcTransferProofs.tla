------------------------- MODULE WebrtcTransferProofs -------------------------
(* Proofs about WebrtcTransfer: its processes use the relay as any process may, *)
(* the payload arrives whole and in order, and so do the signals.               *)
EXTENDS WebrtcTransfer, SignalRelayProofs, SequenceTheorems

Frame0 == {Frame(i) : i \in Nat}
Packets == {Start} \cup Frame0 \cup {Result(f) : f \in Seq(Nat)}

Early == {"off", "joining", "joined"}
Offering == {"ready", "sending", "result"}
Answering == {"receiving", "draining", "leaving"}
Phases == Early \cup {"opening"} \cup Offering \cup Answering \cup Ended

Procs == [phase: Phases, sent: Nat, backlog: Seq(Signals), left: BOOLEAN,
          remote: Peers \cup {NoPeer}, waiting: SUBSET Peers, added: SUBSET Peers,
          channel: Peers \cup {NoPeer}, buffer: Seq(Packets), inbox: Seq(Packets),
          moved: Seq(Nat)]

-----------------------------------------------------------------------------
(* The inductive invariant *)

\* What an offerer has on its channel: until it has heard the start it has sent nothing;
\* then it gets results alone.
OffererSound(s) ==
    /\ s.phase \in {"opening", "ready"} =>
          s.moved = <<>> /\ \A i \in DOMAIN s.inbox : i = 1 /\ s.inbox[i] = Start
    /\ s.phase \in {"sending", "result"} => \A i \in DOMAIN s.inbox : s.inbox[i] = Result(Payload)

\* What an answerer has: the frames it has read and those that wait, in order.
AnswererSound(s) ==
    /\ \A i \in DOMAIN s.moved : s.moved[i] = i
    /\ \A i \in DOMAIN s.inbox : s.inbox[i] = Frame(Len(s.moved) + i)
    /\ s.phase \in {"opening", "receiving"} => Len(s.moved) < Frames
    /\ s.phase \in {"draining", "leaving"} => s.moved = Payload

\* A process by itself, in the memory s with its role.
Alone(p, s) ==
    /\ s.sent <= 1 + Candidates[p]
    /\ s.phase = "off" => s.sent = 0
    /\ s.phase \in Offering => seat[p] = "offerer"
    /\ s.phase \in Answering => seat[p] = "answerer"
    /\ s.phase \in {"joined", "opening"} => seat[p] \in Roles
    /\ s.phase \in Early \cup Ended => s.channel = NoPeer
    /\ s.phase \in Offering \cup Answering => s.channel # NoPeer
    /\ s.channel = NoPeer => s.buffer = <<>> /\ s.inbox = <<>>
    /\ s.channel = NoPeer /\ s.phase \notin Ended => s.moved = <<>>
    /\ s.phase # "mismatch"
    /\ s.channel # NoPeer /\ seat[p] = "offerer" => OffererSound(s)
    /\ s.channel # NoPeer /\ seat[p] = "answerer" => AnswererSound(s)

\* The two ends of a channel: s of the offerer, t of the answerer.
Joint(s, t) ==
    /\ Len(s.moved) = Len(t.moved) + Len(t.inbox) + Len(s.buffer)
    /\ \A i \in DOMAIN s.buffer : s.buffer[i] = Frame(Len(t.moved) + Len(t.inbox) + i)
    /\ s.phase \in {"opening", "ready"} =>
          /\ \A i \in DOMAIN t.buffer : i = 1 /\ t.buffer[i] = Start
          /\ s.inbox = <<>> \/ t.buffer = <<>>
    /\ s.phase \in {"sending", "result"} => \A i \in DOMAIN t.buffer : t.buffer[i] = Result(Payload)
    /\ t.phase = "opening" =>
          s.phase \in {"opening", "ready"} /\ s.inbox = <<>> /\ t.buffer = <<>>

\* The channel of p goes to a process of the other role, and back, until that has ended.
Paired(p) ==
    LET q == proc[p].channel
    IN  q # NoPeer => /\ seat[p] \in Roles /\ seat[q] = OtherRole(seat[p])
                      /\ proc[q].channel = p \/ proc[q].phase \in Ended

Jointly(p) ==
    LET q == proc[p].channel
    IN  q # NoPeer /\ proc[q].channel = p /\ seat[p] = "offerer" => Joint(proc[p], proc[q])

TransferInv ==
    /\ proc \in [Peers -> Procs]
    /\ disturbed \in SUBSET Peers
    /\ \A p \in Peers : Alone(p, proc[p])
    /\ \A p \in Peers : Paired(p)
    /\ \A p \in Peers : Jointly(p)

\* A process that has not started has no socket, and one that has not ended has not closed
\* its own; it is told joined once, and first, and acts on that before all else.
First(d) == \A i \in DOMAIN d : d[i].type = "joined" => i = 1

HeardInv ==
    /\ \A p \in Peers : In(p, "off") => socket[p] = "none" /\ up[p] = <<>>
    /\ \A p \in Peers : proc[p].phase \notin Ended =>
          socket[p] \notin {"leaving", "closed"} /\ \A i \in DOMAIN up[p] : up[p][i] # Close
    /\ \A p \in Peers : First(down[p])
    /\ \A p \in Peers : Live(p) /\ ~In(p, "joining") => read[p] >= 1

-----------------------------------------------------------------------------
(* Operators *)

LEMMA RolesApart ==
    /\ "offerer" \in Roles /\ "answerer" \in Roles /\ "none" \notin Roles
    /\ OtherRole("offerer") = "answerer" /\ OtherRole("answerer") = "offerer"
    /\ \A r \in Roles : r = "offerer" \/ r = "answerer"
BY OtherRoles DEF Roles

LEMMA PayloadParts ==
    /\ Payload \in Seq(Nat) /\ Len(Payload) = Frames /\ Frames \in Nat \ {0}
    /\ \A f \in Seq(Nat) : Len(f) = Frames /\ (\A i \in DOMAIN f : f[i] = i) => f = Payload
BY TransferAssumption DEF Payload

\* What applyRemote leaves alone, and what it may set.
LEMMA AppliedFields ==
    ASSUME NEW s \in Procs, NEW msgs \in Seq(Signals), NEW a, a = Applied(s, msgs)
    PROVE  /\ a \in Procs
           /\ a.phase = s.phase /\ a.sent = s.sent /\ a.backlog = s.backlog
           /\ a.channel = s.channel /\ a.buffer = s.buffer /\ a.inbox = s.inbox
           /\ a.moved = s.moved
<1> DEFINE Of(isDescription) == {i \in DOMAIN msgs : (msgs[i].n = 1) = isDescription}
           candidates == s.waiting \cup {msgs[i].from : i \in Of(FALSE)}
           first == CHOOSE i \in Of(TRUE) : \A j \in Of(TRUE) : i <= j
           remote == IF s.remote = NoPeer THEN msgs[first].from ELSE s.remote
<1>1. \A i \in DOMAIN msgs : msgs[i].from \in Peers
  <2>1. \A i \in DOMAIN msgs : msgs[i] \in Signals
    OBVIOUS
  <2> QED
    BY <2>1 DEF Signals
<1>2. candidates \in SUBSET Peers
  BY <1>1 DEF Procs
<1>3. CASE s.remote = NoPeer /\ Of(TRUE) = {}
  <2>1. a = [s EXCEPT !.waiting = candidates]
    BY <1>3 DEF Applied
  <2> HIDE DEF candidates
  <2> QED
    BY <1>2, <2>1 DEF Procs
<1>4. CASE ~(s.remote = NoPeer /\ Of(TRUE) = {})
  <2>1. a = [s EXCEPT !.remote = remote, !.added = s.added \cup candidates, !.waiting = {}]
    BY <1>4 DEF Applied
  <2>2. remote \in Peers \cup {NoPeer}
    <3>1. CASE s.remote # NoPeer
      BY <3>1 DEF Procs
    <3>2. CASE s.remote = NoPeer
      <4>1. Of(TRUE) # {} /\ Of(TRUE) \in SUBSET Nat
        BY <1>4, <3>2
      <4> HIDE DEF Of
      <4>2. \E i \in Of(TRUE) : \A j \in Of(TRUE) : i <= j
        BY <4>1, LeastNatural
      <4>3. first \in Of(TRUE)
        BY <4>2
      <4>4. first \in DOMAIN msgs
        BY <4>3 DEF Of
      <4> QED
        BY <1>1, <3>2, <4>4
    <3> QED
      BY <3>1, <3>2
  <2> HIDE DEF candidates, remote
  <2> QED
    BY <1>2, <2>1, <2>2 DEF Procs
<1> QED
  BY <1>3, <1>4

LEMMA HeardFields ==
    ASSUME NEW c \in Procs, NEW m \in Signals, NEW s, s = Heard(c, m)
    PROVE  /\ s \in Procs /\ s.phase = c.phase /\ s.sent = c.sent /\ s.channel = c.channel
           /\ s.buffer = c.buffer /\ s.inbox = c.inbox /\ s.moved = c.moved
<1>1. CASE c.phase = "joined"
  <2>1. Append(c.backlog, m) \in Seq(Signals)
    BY DEF Procs
  <2>2. s = [c EXCEPT !.backlog = Append(c.backlog, m)]
    BY <1>1 DEF Heard
  <2> QED
    BY <2>1, <2>2 DEF Procs
<1>2. CASE c.phase # "joined"
  <2>1. s = Applied(c, <<m>>) /\ <<m>> \in Seq(Signals)
    BY <1>2 DEF Heard
  <2> QED
    BY <2>1, AppliedFields
<1> QED
  BY <1>1, <1>2

LEMMA FreshProc == Fresh \in Procs
<1>1. <<>> \in Seq(Signals) /\ <<>> \in Seq(Packets) /\ <<>> \in Seq(Nat)
  OBVIOUS
<1> QED
  BY <1>1 DEF Fresh, Procs, Phases, Early

\* What is left of a process that has ended.
Left(s, x) == [Fresh EXCEPT !.phase = x, !.moved = s.moved]

LEMMA EndedProc ==
    ASSUME NEW s \in Procs, NEW x \in Ended, NEW t, t = Left(s, x)
    PROVE  /\ t \in Procs /\ t.phase = x /\ t.channel = NoPeer /\ t.sent = 0
           /\ t.buffer = <<>> /\ t.inbox = <<>>
<1>1. Fresh \in Procs /\ Fresh.channel = NoPeer /\ Fresh.sent = 0
      /\ Fresh.buffer = <<>> /\ Fresh.inbox = <<>>
  BY FreshProc DEF Fresh
<1>2. s.moved \in Seq(Nat) /\ x \in Phases
  BY DEF Procs, Phases, Ended
<1> QED
  BY <1>1, <1>2 DEF Left, Procs

-----------------------------------------------------------------------------
(* A step of one process *)

LEMMA ProcTyped ==
    ASSUME TransferInv, NEW p \in Peers
    PROVE  /\ proc[p] \in Procs /\ Alone(p, proc[p]) /\ Paired(p) /\ Jointly(p)
           /\ proc[p].channel \in Peers \cup {NoPeer} /\ proc[p].phase \in Phases
           /\ proc[p].sent \in Nat /\ proc[p].backlog \in Seq(Signals)
           /\ proc[p].buffer \in Seq(Packets) /\ proc[p].inbox \in Seq(Packets)
           /\ proc[p].moved \in Seq(Nat)
BY DEF TransferInv, Procs

\* The two ends of a channel.
LEMMA Ends ==
    ASSUME TransferInv, NEW p \in Peers, NEW q, q = proc[p].channel, q # NoPeer
    PROVE  /\ q \in Peers /\ q # p /\ seat[p] \in Roles /\ seat[q] \in Roles
           /\ seat[q] = OtherRole(seat[p]) /\ seat[p] # seat[q]
           /\ proc[q].channel = p \/ proc[q].phase \in Ended
           /\ proc[q].channel = p /\ seat[p] = "offerer" =>
                 seat[q] = "answerer" /\ Joint(proc[p], proc[q])
           /\ proc[q].channel = p /\ seat[p] = "answerer" =>
                 seat[q] = "offerer" /\ Joint(proc[q], proc[p])
<1>1. q \in Peers /\ Paired(p) /\ Jointly(p) /\ Jointly(q)
  BY ProcTyped
<1>2. /\ seat[p] \in Roles /\ seat[q] = OtherRole(seat[p])
      /\ proc[q].channel = p \/ proc[q].phase \in Ended
  BY <1>1 DEF Paired
<1>3. seat[q] \in Roles /\ seat[p] # seat[q] /\ p # NoPeer
  BY <1>2, OtherRoles, RelayAssumption
<1>4. seat[p] = "offerer" => seat[q] = "answerer"
  BY <1>2, RolesApart
<1>5. seat[p] = "answerer" => seat[q] = "offerer"
  BY <1>2, RolesApart
<1> QED
  BY <1>1, <1>2, <1>3, <1>4, <1>5 DEF Jointly

\* The memory s is what p may go on with: its channel stays, or it ends.
Fits(p, s) ==
    /\ s \in Procs /\ Alone(p, s) /\ proc[p].phase \notin Ended
    /\ s.channel = proc[p].channel \/ (s.channel = NoPeer /\ s.phase \in Ended)
    /\ \A q \in Peers : s.channel = q /\ seat[p] = "offerer" /\ Joint(proc[p], proc[q])
                        => Joint(s, proc[q])
    /\ \A q \in Peers : /\ s.channel = q /\ seat[p] = "answerer" /\ proc[q].channel = p
                         /\ seat[q] = "offerer" /\ Joint(proc[q], proc[p])
                        => Joint(proc[q], s)

\* One process changes its memory.
LEMMA OneProc ==
    ASSUME TransferInv, NEW p \in Peers, NEW s, Fits(p, s), proc' = [proc EXCEPT ![p] = s],
           seat' = seat, disturbed' \in SUBSET Peers
    PROVE  TransferInv'
<1>0. /\ s \in Procs /\ Alone(p, s) /\ proc[p].phase \notin Ended
      /\ s.channel = proc[p].channel \/ (s.channel = NoPeer /\ s.phase \in Ended)
      /\ \A q \in Peers : s.channel = q /\ seat[p] = "offerer" /\ Joint(proc[p], proc[q])
                          => Joint(s, proc[q])
      /\ \A q \in Peers : /\ s.channel = q /\ seat[p] = "answerer" /\ proc[q].channel = p
                           /\ seat[q] = "offerer" /\ Joint(proc[q], proc[p])
                          => Joint(proc[q], s)
  BY DEF Fits
<1>1. /\ proc' \in [Peers -> Procs]
      /\ \A x \in Peers : proc'[x] = IF x = p THEN s ELSE proc[x]
  BY <1>0 DEF TransferInv
<1>2. \A x \in Peers : Alone(x, proc[x])'
  <2>1. \A x \in Peers : Alone(x, proc[x])
    BY DEF TransferInv
  <2>2. \A x \in Peers : x # p => Alone(x, proc[x])'
    BY <1>1, <2>1 DEF Alone
  <2>3. Alone(p, proc[p])'
    BY <1>0, <1>1 DEF Alone
  <2> QED
    BY <2>2, <2>3
<1>3. ASSUME NEW x \in Peers PROVE Paired(x)'
  <2> DEFINE q == proc'[x].channel
  <2> SUFFICES ASSUME q # NoPeer
               PROVE  /\ seat[x] \in Roles /\ seat[q] = OtherRole(seat[x])
                      /\ proc'[q].channel = x \/ proc'[q].phase \in Ended
    BY DEF Paired
  <2>1. q = proc[x].channel
    BY <1>0, <1>1
  <2>2. q \in Peers /\ seat[x] \in Roles /\ seat[q] = OtherRole(seat[x])
        /\ (proc[q].channel = x \/ proc[q].phase \in Ended)
    BY <2>1, Ends
  <2>3. CASE q = p
    <3>1. CASE s.channel = proc[p].channel
      BY <1>0, <1>1, <2>2, <2>3, <3>1
    <3>2. CASE s.phase \in Ended
      BY <1>1, <2>2, <2>3, <3>2
    <3> QED
      BY <1>0, <3>1, <3>2
  <2>4. CASE q # p
    BY <1>1, <2>2, <2>4
  <2> QED
    BY <2>2, <2>3, <2>4
<1>4. ASSUME NEW x \in Peers PROVE Jointly(x)'
  <2> DEFINE q == proc'[x].channel
  <2> SUFFICES ASSUME q # NoPeer, proc'[q].channel = x, seat[x] = "offerer"
               PROVE  Joint(proc'[x], proc'[q])
    BY DEF Jointly
  <2>1. q = proc[x].channel
    BY <1>0, <1>1
  <2>2. q \in Peers /\ q # x
    BY <2>1, Ends
  <2>3. proc[q].channel = x
    <3>1. x # NoPeer
      BY RelayAssumption
    <3> QED
      BY <1>0, <1>1, <2>2, <3>1
  <2>4. seat[q] = "answerer" /\ Joint(proc[x], proc[q])
    BY <2>1, <2>3, Ends
  <2>5. CASE x = p
    BY <1>0, <1>1, <2>2, <2>4, <2>5
  <2>6. CASE q = p
    BY <1>0, <1>1, <2>1, <2>2, <2>3, <2>4, <2>6
  <2>7. CASE x # p /\ q # p
    BY <1>1, <2>2, <2>4, <2>7
  <2> QED
    BY <2>5, <2>6, <2>7
<1> QED
  BY <1>1, <1>2, <1>3, <1>4 DEF TransferInv

\* What the invariant says of a process is the same again.
LEMMA SameView ==
    ASSUME TransferInv, NEW p \in Peers, NEW s \in Procs, proc' = [proc EXCEPT ![p] = s],
           seat' = seat, disturbed' \in SUBSET Peers, proc[p].phase \notin Ended,
           s.phase = proc[p].phase, s.sent \in Nat, s.sent <= 1 + Candidates[p],
           s.phase = "off" => s.sent = 0,
           s.channel = proc[p].channel, s.buffer = proc[p].buffer,
           s.inbox = proc[p].inbox, s.moved = proc[p].moved
    PROVE  TransferInv'
<1>1. Alone(p, proc[p])
  BY ProcTyped
<1>2. Alone(p, s)
  BY <1>1 DEF Alone, OffererSound, AnswererSound
<1>3. \A q \in Peers : s.channel = q /\ seat[p] = "offerer" /\ Joint(proc[p], proc[q])
         => Joint(s, proc[q])
  BY DEF Joint
<1>4. \A q \in Peers : s.channel = q /\ seat[p] = "answerer" /\ proc[q].channel = p
                       /\ seat[q] = "offerer" /\ Joint(proc[q], proc[p])
         => Joint(proc[q], s)
  BY DEF Joint
<1>5. Fits(p, s)
  BY <1>2, <1>3, <1>4 DEF Fits
<1> QED
  BY <1>5, OneProc

\* The process ends.
LEMMA EndTransfer ==
    ASSUME TransferInv, NEW p \in Peers, NEW x \in {"ok", "failed"}, End(p, x),
           seat' = seat, disturbed' \in SUBSET Peers, proc[p].phase \notin Ended
    PROVE  TransferInv'
<1>0. PICK s : s = Left(proc[p], x)
  OBVIOUS
<1>1. proc' = [proc EXCEPT ![p] = s]
  BY <1>0 DEF End, Left
<1>2. /\ s \in Procs /\ s.phase = x /\ s.channel = NoPeer /\ s.sent = 0
      /\ s.buffer = <<>> /\ s.inbox = <<>>
  <2>1. proc[p] \in Procs /\ x \in Ended
    BY ProcTyped DEF Ended
  <2> QED
    BY <1>0, <2>1, EndedProc
<1>3. x \in Ended /\ x # "mismatch" /\ x \notin Early \cup Offering \cup Answering \cup {"opening"}
  BY DEF Ended, Early, Offering, Answering
<1>4. Alone(p, s)
  <2>1. Candidates[p] \in Nat
    BY TransferAssumption
  <2> QED
    BY <1>2, <1>3, <2>1 DEF Alone, Early
<1> QED
  <2>1. \A q \in Peers : s.channel # q
    BY <1>2, RelayAssumption
  <2>2. \A q \in Peers : s.channel = q /\ seat[p] = "offerer" /\ Joint(proc[p], proc[q])
           => Joint(s, proc[q])
    BY <2>1
  <2>3. \A q \in Peers : s.channel = q /\ seat[p] = "answerer" /\ proc[q].channel = p
                         /\ seat[q] = "offerer" /\ Joint(proc[q], proc[p])
           => Joint(proc[q], s)
    BY <2>1
  <2>4. Fits(p, s)
    BY <1>2, <1>3, <1>4, <2>2, <2>3 DEF Fits
  <2> QED
    BY <1>1, <2>4, OneProc

\* The seats of those who have one stay.
LEMMA SeatsTransfer ==
    ASSUME TransferInv, UNCHANGED <<proc, disturbed>>,
           \A x \in Peers : seat[x] \in Roles => seat'[x] = seat[x]
    PROVE  TransferInv'
<1>1. ASSUME NEW x \in Peers PROVE Alone(x, proc[x])' /\ Paired(x)' /\ Jointly(x)'
  <2>1. Alone(x, proc[x]) /\ Paired(x) /\ Jointly(x)
    BY ProcTyped
  <2>2. CASE seat[x] \in Roles
    <3>1. seat'[x] = seat[x]
      BY <2>2
    <3>2. Alone(x, proc[x])'
      BY <2>1, <3>1 DEF Alone
    <3>3. Jointly(x)'
      BY <2>1, <3>1 DEF Jointly
    <3>4. proc[x].channel # NoPeer => seat'[proc[x].channel] = seat[proc[x].channel]
      BY Ends
    <3> QED
      BY <2>1, <3>1, <3>2, <3>3, <3>4 DEF Paired
  <2>3. CASE seat[x] \notin Roles
    <3>1. proc[x].channel = NoPeer /\ proc[x].phase \notin Offering \cup Answering \cup {"joined", "opening"}
      <4>1. proc[x].channel = NoPeer
        BY <2>1, <2>3 DEF Paired
      <4> QED
        BY <2>1, <2>3, <4>1 DEF Alone
    <3> QED
      BY <2>1, <3>1 DEF Alone, Paired, Jointly
  <2> QED
    BY <2>2, <2>3
<1> QED
  BY <1>1 DEF TransferInv

\* A process without a channel goes on to a phase without one.
LEMMA PhaseTransfer ==
    ASSUME TransferInv, NEW p \in Peers, NEW s \in Procs, proc' = [proc EXCEPT ![p] = s],
           seat' = seat, disturbed' = disturbed,
           proc[p].channel = NoPeer, proc[p].phase \notin Ended,
           s.phase \in {"joining", "joined", "opening"},
           s.phase \in {"joined", "opening"} => seat[p] \in Roles,
           s.sent = proc[p].sent, s.channel = NoPeer, s.buffer = proc[p].buffer,
           s.inbox = proc[p].inbox, s.moved = proc[p].moved
    PROVE  TransferInv'
<1>1. Alone(p, proc[p])
  BY ProcTyped
<1>2. s.phase \notin Offering \cup Answering \cup Ended \cup {"off", "mismatch"}
  BY DEF Offering, Answering, Ended
<1>3. Alone(p, s)
  BY <1>1, <1>2 DEF Alone
<1>4. \A q \in Peers : s.channel # q
  BY RelayAssumption
<1>5. Fits(p, s)
  <2>1. \A q \in Peers : s.channel = q /\ seat[p] = "offerer" /\ Joint(proc[p], proc[q])
           => Joint(s, proc[q])
    BY <1>4
  <2>2. \A q \in Peers : s.channel = q /\ seat[p] = "answerer" /\ proc[q].channel = p
                         /\ seat[q] = "offerer" /\ Joint(proc[q], proc[p])
           => Joint(proc[q], s)
    BY <1>4
  <2> QED
    BY <1>3, <2>1, <2>2 DEF Fits
<1>6. disturbed' \in SUBSET Peers
  BY DEF TransferInv
<1> QED
  BY <1>5, <1>6, OneProc

LEMMA ConnectTransfer ==
    ASSUME TransferInv, NEW p \in Peers, Connect(p)
    PROVE  TransferInv'
<1>0. PICK s : s = [proc[p] EXCEPT !.phase = "joining"]
  OBVIOUS
<1>1. proc[p].phase = "off" /\ proc' = [proc EXCEPT ![p] = s] /\ seat' = seat
      /\ disturbed' = disturbed
  BY <1>0 DEF Connect, In
<1>2. proc[p].phase \notin Ended /\ proc[p].channel = NoPeer
  BY <1>1, ProcTyped DEF Alone, Early, Ended
<1>3. /\ s \in Procs /\ s.phase = "joining" /\ s.sent = proc[p].sent
      /\ s.channel = proc[p].channel /\ s.buffer = proc[p].buffer
      /\ s.inbox = proc[p].inbox /\ s.moved = proc[p].moved
  <2>1. proc[p] \in Procs
    BY ProcTyped
  <2> QED
    BY <1>0, <2>1 DEF Procs, Phases, Early
<1> QED
  BY <1>1, <1>2, <1>3, PhaseTransfer

\* The first message to a process that waits for it gives it its seat.
LEMMA HearJoined ==
    ASSUME RelayInv, HeardInv, NEW p \in Peers, Live(p), read[p] < Len(down[p]),
           down[p][read[p] + 1].type = "joined"
    PROVE  In(p, "joining") /\ seat[p] \in Roles
<1>1. down[p] \in Seq(Messages) /\ read[p] \in Nat
  BY DEF RelayInv, RelayTypes
<1>2. read[p] + 1 \in DOMAIN down[p] /\ down[p] # <<>>
  BY <1>1
<1>3. read[p] = 0
  BY <1>1, <1>2 DEF HeardInv, First
<1>4. seat[p] \in Roles
  BY <1>2 DEF RelayInv, SeatInv
<1> QED
  BY <1>3, <1>4 DEF HeardInv

LEMMA HandleTransfer ==
    ASSUME RelayInv, HeardInv, TransferInv, NEW p \in Peers, Handle(p)
    PROVE  TransferInv'
<1> DEFINE m == down[p][read[p] + 1]
<1>1. Live(p) /\ read[p] < Len(down[p]) /\ seat' = seat
  BY DEF Handle
<1>2. m \in Messages
  <2>1. down[p] \in Seq(Messages) /\ read[p] \in Nat
    BY DEF RelayInv, RelayTypes
  <2>2. read[p] + 1 \in DOMAIN down[p]
    BY <1>1, <2>1
  <2> QED
    BY <2>1, <2>2
<1>3. /\ proc[p].phase \notin Ended \cup {"off"} /\ proc[p] \in Procs /\ Alone(p, proc[p])
      /\ disturbed \in SUBSET Peers
  BY <1>1, ProcTyped DEF Live, TransferInv
<1>4. CASE m.type = "joined" /\ proc' = [proc EXCEPT ![p].phase = "joined"]
           /\ disturbed' = disturbed
  <2>0. PICK s : s = [proc[p] EXCEPT !.phase = "joined"]
    OBVIOUS
  <2>1. proc' = [proc EXCEPT ![p] = s]
    BY <1>4, <2>0
  <2>2. In(p, "joining") /\ seat[p] \in Roles
    BY <1>1, <1>4, HearJoined
  <2>3. proc[p].channel = NoPeer
    BY <1>3, <2>2 DEF In, Alone, Early
  <2>4. /\ s \in Procs /\ s.phase = "joined" /\ s.sent = proc[p].sent
        /\ s.channel = proc[p].channel /\ s.buffer = proc[p].buffer
        /\ s.inbox = proc[p].inbox /\ s.moved = proc[p].moved
    BY <1>3, <2>0 DEF Procs, Phases, Early
  <2> QED
    BY <1>1, <1>3, <1>4, <2>1, <2>2, <2>3, <2>4, PhaseTransfer
<1>5. CASE m.type = "signal" /\ disturbed' = disturbed
           /\ proc' = [proc EXCEPT ![p] = Heard(@, m)]
  <2>0. m \in Signals
    BY <1>2, <1>5, MessageTypes DEF Messages
  <2> HIDE DEF m
  <2>1. PICK c : c = proc[p]
    OBVIOUS
  <2>2. PICK s : s = Heard(c, m)
    OBVIOUS
  <2>3. proc' = [proc EXCEPT ![p] = s]
    BY <1>5, <2>1, <2>2
  <2>4. /\ s \in Procs /\ s.phase = c.phase /\ s.sent = c.sent /\ s.channel = c.channel
        /\ s.buffer = c.buffer /\ s.inbox = c.inbox /\ s.moved = c.moved
    BY <1>3, <2>0, <2>1, <2>2, HeardFields
  <2>5. s.sent \in Nat /\ s.sent <= 1 + Candidates[p] /\ (s.phase = "off" => s.sent = 0)
    BY <1>3, <2>1, <2>4 DEF Alone, Procs
  <2> QED
    BY <1>1, <1>3, <1>5, <2>1, <2>3, <2>4, <2>5, SameView
<1>6. CASE proc' = [proc EXCEPT ![p].left = TRUE] /\ disturbed' = disturbed
  <2>0. PICK s : s = [proc[p] EXCEPT !.left = TRUE]
    OBVIOUS
  <2>1. proc' = [proc EXCEPT ![p] = s]
    BY <1>6, <2>0
  <2>2. /\ s \in Procs /\ s.phase = proc[p].phase /\ s.sent = proc[p].sent
        /\ s.channel = proc[p].channel /\ s.buffer = proc[p].buffer
        /\ s.inbox = proc[p].inbox /\ s.moved = proc[p].moved
    BY <1>3, <2>0 DEF Procs
  <2>3. s.sent \in Nat /\ s.sent <= 1 + Candidates[p] /\ (s.phase = "off" => s.sent = 0)
    BY <1>3, <2>2 DEF Alone, Procs
  <2> QED
    BY <1>1, <1>3, <1>6, <2>1, <2>2, <2>3, SameView
<1>7. CASE proc' = proc /\ disturbed' = disturbed
  BY <1>1, <1>7, SeatsTransfer
<1>8. CASE Exit(p)
  <2>1. End(p, "failed") /\ disturbed' \in SUBSET Peers
    BY <1>3, <1>8 DEF Exit
  <2> QED
    BY <1>1, <1>3, <2>1, EndTransfer
<1> QED
  BY <1>4, <1>5, <1>6, <1>7, <1>8 DEF Handle

LEMMA AttachTransfer ==
    ASSUME TransferInv, NEW p \in Peers, Attach(p)
    PROVE  TransferInv'
<1>0. PICK c : c = proc[p]
  OBVIOUS
<1>1. PICK a : a = Applied(c, Backlog(c))
  OBVIOUS
<1>2. PICK s : s = [a EXCEPT !.phase = "opening", !.backlog = <<>>]
  OBVIOUS
<1>3. proc' = [proc EXCEPT ![p] = s] /\ c.phase = "joined" /\ seat' = seat /\ disturbed' = disturbed
  BY <1>0, <1>1, <1>2 DEF Attach, In, OnlyProc, relayVars
<1>4. c \in Procs /\ c.channel = NoPeer /\ seat[p] \in Roles /\ c.phase \notin Ended
  BY <1>0, <1>3, ProcTyped DEF Alone, Early, Ended
<1>5. a \in Procs /\ a.sent = c.sent /\ a.channel = c.channel /\ a.buffer = c.buffer
      /\ a.inbox = c.inbox /\ a.moved = c.moved
  <2>1. Backlog(c) \in Seq(Signals)
    BY <1>4 DEF Backlog, Procs
  <2> QED
    BY <1>1, <1>4, <2>1, AppliedFields
<1>6. <<>> \in Seq(Signals) /\ "opening" \in Phases
  BY DEF Phases
<1>7. /\ s \in Procs /\ s.phase = "opening" /\ s.sent = c.sent /\ s.channel = NoPeer
      /\ s.buffer = c.buffer /\ s.inbox = c.inbox /\ s.moved = c.moved
  BY <1>2, <1>4, <1>5, <1>6 DEF Procs
<1> QED
  BY <1>0, <1>3, <1>4, <1>7, PhaseTransfer

LEMMA PublishTransfer ==
    ASSUME TransferInv, NEW p \in Peers, Publish(p)
    PROVE  TransferInv'
<1>0. PICK s : s = [proc[p] EXCEPT !.sent = proc[p].sent + 1]
  OBVIOUS
<1>1. /\ proc' = [proc EXCEPT ![p] = s] /\ Live(p) /\ seat' = seat /\ disturbed' = disturbed
      /\ proc[p].sent < 1 + Candidates[p]
  BY <1>0 DEF Publish, BesidesUp
<1>2. proc[p] \in Procs /\ proc[p].sent \in Nat /\ proc[p].phase \notin Ended \cup {"off"}
  BY <1>1, ProcTyped DEF Live
<1>3. Candidates[p] \in Nat
  BY TransferAssumption
<1>4. /\ s \in Procs /\ s.phase = proc[p].phase /\ s.sent = proc[p].sent + 1
      /\ s.channel = proc[p].channel /\ s.buffer = proc[p].buffer
      /\ s.inbox = proc[p].inbox /\ s.moved = proc[p].moved
  <2>1. PICK c : c = proc[p]
    OBVIOUS
  <2>2. PICK n : n = c.sent + 1
    OBVIOUS
  <2>3. n \in Nat /\ c \in Procs
    BY <1>2, <2>1, <2>2
  <2>4. s = [c EXCEPT !.sent = n]
    BY <1>0, <2>1, <2>2
  <2>5. /\ s \in Procs /\ s.phase = c.phase /\ s.sent = n /\ s.channel = c.channel
        /\ s.buffer = c.buffer /\ s.inbox = c.inbox /\ s.moved = c.moved
    BY <2>3, <2>4 DEF Procs
  <2> QED
    BY <2>1, <2>2, <2>5
<1>5. s.sent \in Nat /\ s.sent <= 1 + Candidates[p] /\ (s.phase = "off" => s.sent = 0)
  BY <1>1, <1>2, <1>3, <1>4
<1>6. disturbed' \in SUBSET Peers
  BY <1>1 DEF TransferInv
<1> QED
  BY <1>1, <1>2, <1>4, <1>5, <1>6, SameView

-----------------------------------------------------------------------------
(* Steps on the channel *)

LEMMA EmptyLength ==
    ASSUME NEW T, NEW w \in Seq(T), Len(w) = 0
    PROVE  w = <<>>
OBVIOUS

LEMMA PacketParts ==
    /\ Start \in Packets /\ \A i \in Nat : Frame(i) \in Packets
    /\ \A f \in Seq(Nat) : Result(f) \in Packets
    /\ \A i \in Nat : Frame(i).n = i
    /\ \A f : Result(f).frames = f
BY DEF Packets, Frame0, Start, Frame, Result

\* The phases that go with a channel.
LEMMA ChannelPhases ==
    ASSUME TransferInv, NEW p \in Peers, proc[p].channel # NoPeer
    PROVE  /\ proc[p].phase \in {"opening"} \cup Offering \cup Answering
           /\ proc[p].phase \notin Early \cup Ended
           /\ seat[p] = "offerer" => proc[p].phase \in {"opening"} \cup Offering
                                     /\ OffererSound(proc[p])
           /\ seat[p] = "answerer" => proc[p].phase \in {"opening"} \cup Answering
                                      /\ AnswererSound(proc[p])
<1>1. proc[p].phase \in Phases /\ Alone(p, proc[p])
  BY ProcTyped
<1>2. proc[p].phase \notin Early \cup Ended
  BY <1>1 DEF Alone
<1>3. proc[p].phase \in {"opening"} \cup Offering \cup Answering
  BY <1>1, <1>2 DEF Phases
<1>4. seat[p] = "offerer" => proc[p].phase \notin Answering
  BY <1>1 DEF Alone
<1>5. seat[p] = "answerer" => proc[p].phase \notin Offering
  BY <1>1 DEF Alone
<1> QED
  BY <1>1, <1>2, <1>3, <1>4, <1>5 DEF Alone

LEMMA OnOpenTransfer ==
    ASSUME TransferInv, NEW p \in Peers, OnOpen(p)
    PROVE  TransferInv'
<1>0. PICK c : c = proc[p]
  OBVIOUS
<1>1. /\ c.phase = "opening" /\ c.channel # NoPeer /\ seat' = seat /\ disturbed' = disturbed
      /\ seat[p] = "offerer" =>
            proc' = [proc EXCEPT ![p] = [proc[p] EXCEPT !.phase = "ready"]]
      /\ seat[p] # "offerer" =>
            proc' = [proc EXCEPT ![p] = [proc[p] EXCEPT !.phase = "receiving",
                                                        !.buffer = Append(proc[p].buffer, Start)]]
  BY <1>0 DEF OnOpen, In, OnlyProc, relayVars
<1>2. c \in Procs /\ Alone(p, c) /\ disturbed' \in SUBSET Peers
  BY <1>0, <1>1, ProcTyped DEF TransferInv
<1>3. seat[p] = "offerer" \/ seat[p] = "answerer"
  BY <1>0, <1>1, Ends, RolesApart
<1>4. "opening" \notin Ended
  BY DEF Ended
<1>5. CASE seat[p] = "offerer"
  <2>1. PICK s : s = [c EXCEPT !.phase = "ready"]
    OBVIOUS
  <2>2. /\ s \in Procs /\ s.phase = "ready" /\ s.sent = c.sent /\ s.channel = c.channel
        /\ s.buffer = c.buffer /\ s.inbox = c.inbox /\ s.moved = c.moved
    BY <1>2, <2>1 DEF Procs, Phases, Offering
  <2>3. "ready" \in Offering /\ "ready" \notin Answering \cup Early \cup Ended
    BY DEF Offering, Answering, Early, Ended
  <2>4. Alone(p, s)
    BY <1>1, <1>2, <1>5, <2>2, <2>3 DEF Alone, OffererSound
  <2>5. \A q \in Peers : Joint(c, proc[q]) => Joint(s, proc[q])
    BY <1>1, <2>2 DEF Joint
  <2>6. Fits(p, s)
    BY <1>0, <1>1, <1>4, <1>5, <2>2, <2>4, <2>5 DEF Fits
  <2> QED
    BY <1>0, <1>1, <1>2, <1>5, <2>1, <2>6, OneProc
<1>6. CASE seat[p] = "answerer"
  <2>1. PICK s : s = [c EXCEPT !.phase = "receiving", !.buffer = Append(c.buffer, Start)]
    OBVIOUS
  <2>2. /\ s \in Procs /\ s.phase = "receiving" /\ s.sent = c.sent /\ s.channel = c.channel
        /\ s.buffer = Append(c.buffer, Start) /\ s.inbox = c.inbox /\ s.moved = c.moved
    <3>1. Append(c.buffer, Start) \in Seq(Packets)
      BY <1>2, PacketParts DEF Procs
    <3> QED
      BY <1>2, <2>1, <3>1 DEF Procs, Phases, Answering
  <2>3. "receiving" \in Answering /\ "receiving" \notin Offering \cup Early \cup Ended
    BY DEF Offering, Answering, Early, Ended
  <2>4. Alone(p, s)
    BY <1>1, <1>2, <1>6, <2>2, <2>3 DEF Alone, AnswererSound
  <2>5. ASSUME NEW q \in Peers, Joint(proc[q], c) PROVE Joint(proc[q], s)
    <3>1. c.buffer = <<>> /\ proc[q].phase \in {"opening", "ready"} /\ proc[q].inbox = <<>>
      BY <1>1, <2>5 DEF Joint
    <3>2. s.buffer = <<Start>> /\ DOMAIN s.buffer = 1 .. 1 /\ s.buffer[1] = Start
      BY <2>2, <3>1
    <3> QED
      <4>1. \A i \in DOMAIN s.buffer : i = 1 /\ s.buffer[i] = Start
        BY <3>2
      <4>2. proc[q].phase \notin {"sending", "result"} /\ s.phase # "opening"
        BY <2>2, <3>1
      <4> QED
        BY <2>2, <2>5, <3>1, <4>1, <4>2 DEF Joint
  <2>6. Fits(p, s)
    BY <1>0, <1>1, <1>4, <1>6, <2>2, <2>4, <2>5 DEF Fits
  <2> QED
    BY <1>0, <1>1, <1>2, <1>6, <2>1, <2>6, OneProc
<1> QED
  BY <1>3, <1>5, <1>6

LEMMA HearReadyTransfer ==
    ASSUME TransferInv, NEW p \in Peers, HearReady(p)
    PROVE  TransferInv'
<1>0. PICK c : c = proc[p]
  OBVIOUS
<1>1. PICK s : s = [c EXCEPT !.phase = "sending", !.inbox = Tail(c.inbox)]
  OBVIOUS
<1>2. /\ c.phase = "ready" /\ c.inbox # <<>> /\ seat' = seat /\ disturbed' = disturbed
      /\ proc' = [proc EXCEPT ![p] = s]
  BY <1>0, <1>1 DEF HearReady, In, OnlyProc, relayVars
<1>3. c \in Procs /\ Alone(p, c) /\ disturbed' \in SUBSET Peers /\ c.inbox \in Seq(Packets)
  BY <1>0, <1>2, ProcTyped DEF TransferInv
<1>4. /\ "ready" \in Offering /\ "ready" \notin Ended /\ "sending" \in Offering
      /\ "sending" \notin Answering \cup Early \cup Ended
  BY DEF Offering, Answering, Early, Ended
<1>5. seat[p] = "offerer" /\ c.channel # NoPeer /\ OffererSound(c)
  BY <1>2, <1>3, <1>4 DEF Alone
<1>6. Tail(c.inbox) = <<>>
  <2>1. /\ Tail(c.inbox) \in Seq(Packets) /\ Len(c.inbox) \in Nat \ {0}
        /\ DOMAIN c.inbox = 1 .. Len(c.inbox) /\ Len(Tail(c.inbox)) = Len(c.inbox) - 1
    BY <1>2, <1>3, TailParts
  <2>2. Len(c.inbox) \in DOMAIN c.inbox
    BY <2>1
  <2>3. Len(c.inbox) = 1
    BY <1>2, <1>5, <2>2 DEF OffererSound
  <2>4. Len(Tail(c.inbox)) = 0
    BY <2>1, <2>3
  <2> QED
    BY <2>1, <2>4, EmptyLength
<1>7. /\ s \in Procs /\ s.phase = "sending" /\ s.sent = c.sent /\ s.channel = c.channel
      /\ s.buffer = c.buffer /\ s.inbox = <<>> /\ s.moved = c.moved
  <2>1. <<>> \in Seq(Packets)
    OBVIOUS
  <2> QED
    BY <1>1, <1>3, <1>6, <2>1 DEF Procs, Phases, Offering
<1>8. Alone(p, s)
  <2>1. OffererSound(s)
    BY <1>7 DEF OffererSound
  <2> QED
    BY <1>3, <1>4, <1>5, <1>7, <2>1, RolesApart DEF Alone
<1>9. ASSUME NEW q \in Peers, Joint(c, proc[q]) PROVE Joint(s, proc[q])
  <2>1. proc[q].buffer = <<>> /\ proc[q].phase # "opening"
    BY <1>2, <1>9 DEF Joint
  <2>2. \A i \in DOMAIN proc[q].buffer : proc[q].buffer[i] = Result(Payload)
    BY <2>1
  <2>3. s.phase \notin {"opening", "ready"}
    BY <1>7
  <2> QED
    BY <1>7, <1>9, <2>1, <2>2, <2>3 DEF Joint
<1>10. Fits(p, s)
  BY <1>0, <1>2, <1>4, <1>5, <1>7, <1>8, <1>9, RolesApart DEF Fits
<1> QED
  BY <1>0, <1>2, <1>3, <1>10, OneProc

LEMMA SendFrameTransfer ==
    ASSUME TransferInv, NEW p \in Peers, SendFrame(p)
    PROVE  TransferInv'
<1>0. PICK c : c = proc[p]
  OBVIOUS
<1> DEFINE n == Len(c.moved) + 1
<1>1. PICK phase : phase = IF n = Frames THEN "result" ELSE c.phase
  OBVIOUS
<1>2. PICK s : s = [c EXCEPT !.moved = Append(c.moved, n), !.buffer = c.buffer \o <<Frame(n)>>,
                             !.phase = phase]
  OBVIOUS
<1>3. /\ c.phase = "sending" /\ seat' = seat /\ disturbed' = disturbed
      /\ proc' = [proc EXCEPT ![p] = s]
  BY <1>0, <1>1, <1>2 DEF SendFrame, In, OnlyProc, relayVars, Queued
<1>4. /\ c \in Procs /\ Alone(p, c) /\ disturbed' \in SUBSET Peers
      /\ c.buffer \in Seq(Packets) /\ c.moved \in Seq(Nat) /\ n \in Nat /\ Len(c.moved) \in Nat
  BY <1>0, <1>3, ProcTyped DEF TransferInv
<1>5. /\ "sending" \in Offering /\ "result" \in Offering /\ "sending" \notin Ended
      /\ {"sending", "result"} \cap (Answering \cup Early \cup Ended) = {}
      /\ {"sending", "result"} \subseteq Phases
  BY DEF Offering, Answering, Early, Ended, Phases
<1>6. seat[p] = "offerer" /\ c.channel # NoPeer /\ OffererSound(c)
  BY <1>3, <1>4, <1>5 DEF Alone
<1>7. phase \in {"sending", "result"}
  BY <1>1, <1>3
<1>m. PICK m : m = Append(c.moved, n)
  OBVIOUS
<1>b. PICK b : b = c.buffer \o <<Frame(n)>>
  OBVIOUS
<1>8. m \in Seq(Nat) /\ Len(m) = Len(c.moved) + 1
  BY <1>m, <1>4, AppendParts
<1>9. /\ b \in Seq(Packets) /\ Len(c.buffer) \in Nat /\ Len(b) = Len(c.buffer) + 1
      /\ DOMAIN c.buffer = 1 .. Len(c.buffer) /\ DOMAIN b = 1 .. (Len(c.buffer) + 1)
      /\ \A i \in 1 .. Len(c.buffer) : b[i] = c.buffer[i]
      /\ b[Len(c.buffer) + 1] = Frame(n)
  <2>1. Frame(n) \in Packets
    BY <1>4, PacketParts
  <2>2. b = Append(c.buffer, Frame(n))
    BY <1>b, <1>4, <2>1
  <2> HIDE DEF n
  <2> QED
    BY <1>4, <2>1, <2>2, AppendParts
<1>10. /\ s \in Procs /\ s.phase = phase /\ s.sent = c.sent /\ s.channel = c.channel
       /\ s.buffer = b /\ s.inbox = c.inbox /\ s.moved = m
  <2>1. s = [c EXCEPT !.moved = m, !.buffer = b, !.phase = phase] /\ phase \in Phases
    BY <1>2, <1>5, <1>7, <1>m, <1>b
  <2> QED
    BY <1>4, <1>8, <1>9, <2>1 DEF Procs
<1>11. Alone(p, s)
  <2>1. OffererSound(s)
    BY <1>3, <1>6, <1>7, <1>10 DEF OffererSound
  <2> QED
    BY <1>4, <1>5, <1>6, <1>7, <1>10, <2>1, RolesApart DEF Alone
<1>12. ASSUME NEW q \in Peers, Joint(c, proc[q]) PROVE Joint(s, proc[q])
  <2>t. PICK t : t = proc[q]
    OBVIOUS
  <2>0. PICK k : k = Len(t.moved) + Len(t.inbox)
    OBVIOUS
  <2>1. k \in Nat
    <3>1. Len(t.moved) \in Nat /\ Len(t.inbox) \in Nat
      BY <2>t, ProcTyped
    <3>2. \A x, y \in Nat : x + y \in Nat
      OBVIOUS
    <3>3. Len(t.moved) + Len(t.inbox) \in Nat
      BY <3>1, <3>2, Zenon
    <3> QED
      BY <2>0, <3>3, Zenon
  <2>2. Len(c.moved) = k + Len(c.buffer)
    BY <1>12, <2>0, <2>t DEF Joint
  <2>3. \A i \in DOMAIN c.buffer : c.buffer[i] = Frame(k + i)
    BY <1>12, <2>0, <2>t DEF Joint
  <2>4. /\ \A i \in DOMAIN t.buffer : t.buffer[i] = Result(Payload)
        /\ t.phase # "opening"
    BY <1>3, <1>12, <2>t DEF Joint
  <2>5. Len(m) = k + Len(b)
    BY <1>8, <1>9, <2>1, <2>2
  <2>6. ASSUME NEW i \in DOMAIN b PROVE b[i] = Frame(k + i)
    <3>1. CASE i \in 1 .. Len(c.buffer)
      BY <1>9, <2>3, <3>1
    <3>2. CASE i = Len(c.buffer) + 1
      <4>1. n = k + i
        BY <1>9, <2>1, <2>2, <3>2
      <4> QED
        BY <1>9, <3>2, <4>1
    <3>3. i \in 1 .. Len(c.buffer) \/ i = Len(c.buffer) + 1
      <4>1. i \in 1 .. (Len(c.buffer) + 1) /\ Len(c.buffer) \in Nat
        BY <1>9
      <4> QED
        BY <4>1
    <3> QED
      BY <3>1, <3>2, <3>3
  <2> QED
    BY <1>7, <1>10, <2>0, <2>4, <2>5, <2>6, <2>t DEF Joint
<1>13. Fits(p, s)
  BY <1>0, <1>3, <1>5, <1>6, <1>10, <1>11, <1>12, RolesApart DEF Fits
<1> QED
  BY <1>0, <1>3, <1>4, <1>13, OneProc

\* Sums of lengths are numbers.
LEMMA SumTyped ==
    ASSUME NEW x \in Nat, NEW y \in Nat PROVE x + y \in Nat
OBVIOUS

LEMMA ReadFrameTransfer ==
    ASSUME TransferInv, NEW p \in Peers, ReadFrame(p)
    PROVE  TransferInv'
<1>0. PICK c : c = proc[p]
  OBVIOUS
<1>1. /\ c \in Procs /\ Alone(p, c) /\ c.inbox \in Seq(Packets) /\ c.moved \in Seq(Nat)
      /\ c.buffer \in Seq(Packets) /\ disturbed \in SUBSET Peers
  BY <1>0, ProcTyped DEF TransferInv
<1>2. c.phase = "receiving" /\ c.inbox # <<>> /\ seat' = seat /\ disturbed' = disturbed
  BY <1>0 DEF ReadFrame, In, OnlyProc, relayVars
<1>p. PICK f : f = Append(c.moved, Head(c.inbox).n)
  OBVIOUS
<1>q. \/ /\ Len(f) < Frames
         /\ proc' = [proc EXCEPT ![p].moved = f, ![p].inbox = Tail(proc[p].inbox)]
      \/ /\ Len(f) >= Frames
         /\ proc' = [proc EXCEPT ![p].moved = f, ![p].inbox = Tail(proc[p].inbox),
                                 ![p].phase = "draining",
                                 ![p].buffer = Append(proc[p].buffer, Result(f))]
  BY <1>0, <1>p DEF ReadFrame
<1>3. /\ "receiving" \in Answering /\ "draining" \in Answering /\ "receiving" \notin Ended
      /\ {"receiving", "draining"} \cap (Offering \cup Early \cup Ended) = {}
      /\ {"receiving", "draining"} \subseteq Phases
  BY DEF Offering, Answering, Early, Ended, Phases
<1>4. seat[p] = "answerer" /\ c.channel # NoPeer /\ AnswererSound(c)
  BY <1>1, <1>2, <1>3 DEF Alone
<1>5. PICK l : l = Len(c.moved)
  OBVIOUS
<1>6. l \in Nat /\ DOMAIN c.moved = 1 .. l /\ l < Frames /\ Frames \in Nat \ {0}
  BY <1>1, <1>2, <1>4, <1>5, TransferAssumption DEF AnswererSound
<1>7. PICK tail : tail = Tail(c.inbox)
  OBVIOUS
<1>8. /\ tail \in Seq(Packets) /\ Len(c.inbox) \in Nat \ {0} /\ Len(tail) = Len(c.inbox) - 1
      /\ DOMAIN c.inbox = 1 .. Len(c.inbox) /\ DOMAIN tail = 1 .. (Len(c.inbox) - 1)
      /\ \A i \in 1 .. (Len(c.inbox) - 1) : tail[i] = c.inbox[i + 1]
      /\ Head(c.inbox) = c.inbox[1]
  BY <1>1, <1>2, <1>7, TailParts
<1>9. Head(c.inbox).n = l + 1
  <2>1. c.inbox[1] = Frame(l + 1)
    BY <1>4, <1>5, <1>8 DEF AnswererSound
  <2> QED
    BY <1>6, <1>8, <2>1, PacketParts
<1>10. PICK frames : frames = Append(c.moved, l + 1)
  OBVIOUS
<1>11. /\ frames \in Seq(Nat) /\ Len(frames) = l + 1 /\ DOMAIN frames = 1 .. (l + 1)
       /\ \A i \in DOMAIN frames : frames[i] = i
  <2>1. l + 1 \in Nat
    BY <1>6
  <2>2. /\ frames \in Seq(Nat) /\ Len(frames) = l + 1 /\ DOMAIN frames = 1 .. (l + 1)
        /\ \A i \in 1 .. l : frames[i] = c.moved[i]
        /\ frames[l + 1] = l + 1
    BY <1>1, <1>5, <1>10, <2>1, AppendParts
  <2>3. \A i \in 1 .. l : c.moved[i] = i
    BY <1>4, <1>6 DEF AnswererSound
  <2> QED
    BY <1>6, <2>2, <2>3
<1>12. \A i \in DOMAIN tail : tail[i] = Frame(Len(frames) + i)
  <2>1. ASSUME NEW i \in DOMAIN tail PROVE tail[i] = Frame(Len(frames) + i)
    <3>1. i \in 1 .. (Len(c.inbox) - 1) /\ i + 1 \in 1 .. Len(c.inbox)
      BY <1>8
    <3>2. tail[i] = Frame(l + (i + 1))
      BY <1>4, <1>5, <1>8, <3>1 DEF AnswererSound
    <3>3. l + (i + 1) = Len(frames) + i
      BY <1>6, <1>11, <3>1
    <3> QED
      BY <3>2, <3>3
  <2> QED
    BY <2>1
\* What the change comes to, for either phase.
<1>13. ASSUME NEW s \in Procs, s.sent = c.sent, s.channel = c.channel, s.inbox = tail,
              s.moved = frames, proc' = [proc EXCEPT ![p] = s],
              NEW b \in Seq(Packets), s.buffer = b,
              \/ s.phase = "receiving" /\ l + 1 < Frames /\ b = c.buffer
              \/ s.phase = "draining" /\ l + 1 = Frames /\ b = Append(c.buffer, Result(Payload))
       PROVE  TransferInv'
  <2>1. AnswererSound(s)
    <3>1. s.phase = "draining" => s.moved = Payload
      BY <1>11, <1>13, PayloadParts
    <3>2. s.phase \in {"opening", "receiving"} => Len(s.moved) < Frames
      BY <1>11, <1>13
    <3> QED
      BY <1>11, <1>12, <1>13, <3>1, <3>2 DEF AnswererSound
  <2>2. Alone(p, s)
    BY <1>1, <1>3, <1>4, <1>13, <2>1, RolesApart DEF Alone
  <2>3. ASSUME NEW q \in Peers, s.channel = q, proc[q].channel = p, seat[q] = "offerer",
               Joint(proc[q], c)
        PROVE  Joint(proc[q], s)
    <3>1. PICK t : t = proc[q]
      OBVIOUS
    <3>2. /\ t.channel # NoPeer /\ t.phase \in {"opening"} \cup Offering /\ OffererSound(t)
          /\ t.buffer \in Seq(Packets) /\ t.moved \in Seq(Nat)
      BY <2>3, <3>1, ChannelPhases, ProcTyped, RelayAssumption
    <3>3. PICK k : k = l + Len(c.inbox)
      OBVIOUS
    <3>4. /\ Len(t.moved) = k + Len(t.buffer) /\ k \in Nat /\ Len(t.buffer) \in Nat
          /\ \A i \in DOMAIN t.buffer : t.buffer[i] = Frame(k + i)
      <4>1. Len(c.inbox) \in Nat
        BY <1>8
      <4>2. k \in Nat
        BY <1>6, <3>3, <4>1, SumTyped
      <4>3. Len(t.buffer) \in Nat
        BY <3>2
      <4>4. /\ Len(t.moved) = k + Len(t.buffer)
            /\ \A i \in DOMAIN t.buffer : t.buffer[i] = Frame(k + i)
        BY <1>5, <2>3, <3>1, <3>3 DEF Joint
      <4> QED
        BY <4>2, <4>3, <4>4
    <3>5. k = Len(s.moved) + Len(s.inbox)
      <4>1. PICK n : n = Len(c.inbox)
        OBVIOUS
      <4>2. n \in Nat /\ k = l + n /\ Len(s.moved) = l + 1 /\ Len(s.inbox) = n - 1
        BY <1>8, <1>11, <1>13, <3>3, <4>1
      <4> QED
        BY <1>6, <4>2
    <3>6. t.phase \notin {"opening", "ready"}
      <4>1. k > 0
        BY <1>6, <1>8, <3>3
      <4>2. Len(t.moved) # 0
        BY <3>4, <4>1
      <4>3. t.moved # <<>>
        BY <4>2
      <4> QED
        BY <3>2, <4>3 DEF OffererSound
    <3>7. t.phase \in {"sending", "result"}
      BY <3>2, <3>6 DEF Offering
    <3>8. \A i \in DOMAIN c.buffer : c.buffer[i] = Result(Payload)
      BY <2>3, <3>1, <3>7 DEF Joint
    <3>9. \A i \in DOMAIN b : b[i] = Result(Payload)
      <4>1. CASE b = c.buffer
        BY <3>8, <4>1
      <4>2. CASE b = Append(c.buffer, Result(Payload))
        <5>1. Result(Payload) \in Packets
          BY PacketParts, PayloadParts
        <5>2. /\ Len(c.buffer) \in Nat /\ DOMAIN b = 1 .. (Len(c.buffer) + 1)
              /\ DOMAIN c.buffer = 1 .. Len(c.buffer)
              /\ \A i \in 1 .. Len(c.buffer) : b[i] = c.buffer[i]
              /\ b[Len(c.buffer) + 1] = Result(Payload)
          BY <1>1, <4>2, <5>1, AppendParts
        <5> QED
          BY <3>8, <5>2
      <4> QED
        BY <1>13, <4>1, <4>2
    <3>10. s.phase # "opening"
      BY <1>13
    <3> QED
      BY <1>13, <3>1, <3>4, <3>5, <3>6, <3>9, <3>10 DEF Joint
  <2>4. Fits(p, s)
    BY <1>0, <1>2, <1>3, <1>4, <1>13, <2>2, <2>3, RolesApart DEF Fits
  <2> QED
    BY <1>1, <1>2, <1>13, <2>4, OneProc
<1>f. f = frames
  BY <1>9, <1>10, <1>p
<1>14. CASE /\ Len(frames) < Frames
            /\ proc' = [proc EXCEPT ![p].moved = f, ![p].inbox = Tail(proc[p].inbox)]
  <2>1. PICK s : s = [c EXCEPT !.moved = frames, !.inbox = tail]
    OBVIOUS
  <2>2. proc' = [proc EXCEPT ![p] = s]
    BY <1>0, <1>7, <1>f, <1>14, <2>1
  <2>3. /\ s \in Procs /\ s.sent = c.sent /\ s.channel = c.channel /\ s.inbox = tail
        /\ s.moved = frames /\ s.buffer = c.buffer /\ s.phase = "receiving"
    BY <1>1, <1>2, <1>8, <1>11, <2>1 DEF Procs
  <2> QED
    BY <1>1, <1>11, <1>13, <1>14, <2>2, <2>3
<1>15. CASE /\ Len(frames) >= Frames
            /\ proc' = [proc EXCEPT ![p].moved = f, ![p].inbox = Tail(proc[p].inbox),
                                    ![p].phase = "draining",
                                    ![p].buffer = Append(proc[p].buffer, Result(f))]
  <2>0. PICK b : b = Append(c.buffer, Result(frames))
    OBVIOUS
  <2>1. PICK s : s = [c EXCEPT !.moved = frames, !.inbox = tail, !.phase = "draining", !.buffer = b]
    OBVIOUS
  <2>2. proc' = [proc EXCEPT ![p] = s]
    BY <1>0, <1>7, <1>f, <1>15, <2>0, <2>1
  <2>3. l + 1 = Frames /\ frames = Payload
    <3>1. l + 1 = Frames
      BY <1>6, <1>11, <1>15
    <3> QED
      BY <1>11, <3>1, PayloadParts
  <2>4. b \in Seq(Packets)
    BY <1>1, <1>11, <2>0, PacketParts
  <2>5. /\ s \in Procs /\ s.sent = c.sent /\ s.channel = c.channel /\ s.inbox = tail
        /\ s.moved = frames /\ s.buffer = b /\ s.phase = "draining"
    BY <1>1, <1>2, <1>3, <1>8, <1>11, <2>1, <2>4 DEF Procs
  <2> QED
    BY <1>13, <2>0, <2>2, <2>3, <2>4, <2>5
<1> QED
  BY <1>f, <1>q, <1>14, <1>15

-----------------------------------------------------------------------------
(* A process ends *)

LEMMA LeavingPhases ==
    /\ {"joining", "opening", "ready", "sending", "receiving", "draining", "result", "leaving"}
          \cap Ended = {}
    /\ {"draining", "leaving", "receiving"} \subseteq Answering
    /\ {"ready", "sending", "result"} \subseteq Offering
    /\ {"draining", "leaving", "result"} \cap (Early \cup Ended) = {}
    /\ {"draining", "leaving"} \cap Offering = {}
    /\ {"draining", "leaving"} \subseteq Phases
BY DEF Ended, Answering, Offering, Early, Phases

LEMMA ExitTransfer ==
    ASSUME TransferInv, NEW p \in Peers, Exit(p), BesidesUp, proc[p].phase \notin Ended
    PROVE  TransferInv'
<1>1. End(p, "failed") /\ disturbed' \in SUBSET Peers /\ seat' = seat
  BY DEF Exit, BesidesUp, TransferInv
<1> QED
  BY <1>1, EndTransfer

LEMMA ExitsTransfer ==
    ASSUME TransferInv, NEW p \in Peers, SendThrows(p) \/ TimeOut(p) \/ Kill(p)
    PROVE  TransferInv'
<1>1. proc[p].phase \notin Ended
  BY LeavingPhases DEF SendThrows, TimeOut, Kill, Live, In
<1>2. Exit(p) /\ BesidesUp
  BY DEF SendThrows, TimeOut, Kill
<1> QED
  BY <1>1, <1>2, ExitTransfer

\* The answerer has read the payload: it leaves.
LEMMA DrainedTransfer ==
    ASSUME TransferInv, NEW p \in Peers, Drained(p)
    PROVE  TransferInv'
<1>0. PICK c : c = proc[p]
  OBVIOUS
<1>1. c \in Procs /\ Alone(p, c) /\ c.phase = "draining" /\ seat' = seat
  BY <1>0, ProcTyped DEF Drained, In, BesidesUp
<1>2. seat[p] = "answerer" /\ c.channel # NoPeer /\ AnswererSound(c)
  BY <1>1, LeavingPhases DEF Alone
<1>3. c.moved = Payload
  BY <1>1, <1>2 DEF AnswererSound
<1>4. PICK s : s = [c EXCEPT !.phase = "leaving"]
  OBVIOUS
<1>5. proc' = [proc EXCEPT ![p] = s]
  BY <1>0, <1>3, <1>4 DEF Drained
<1>6. disturbed' \in SUBSET Peers
  BY DEF Drained, TransferInv
<1>7. /\ s \in Procs /\ s.phase = "leaving" /\ s.sent = c.sent /\ s.channel = c.channel
      /\ s.buffer = c.buffer /\ s.inbox = c.inbox /\ s.moved = c.moved
  BY <1>1, <1>4, LeavingPhases DEF Procs
<1>8. Alone(p, s)
  <2>1. AnswererSound(s)
    BY <1>1, <1>2, <1>3, <1>7 DEF AnswererSound
  <2> QED
    BY <1>1, <1>2, <1>7, <2>1, LeavingPhases, RolesApart DEF Alone
<1>9. \A q \in Peers : Joint(proc[q], c) => Joint(proc[q], s)
  BY <1>1, <1>7 DEF Joint
<1>10. Fits(p, s)
  BY <1>0, <1>1, <1>2, <1>7, <1>8, <1>9, LeavingPhases, RolesApart DEF Fits
<1> QED
  BY <1>0, <1>1, <1>5, <1>6, <1>10, OneProc

\* The result that the offerer gets is of the payload.
LEMMA ResultRight ==
    ASSUME TransferInv, NEW p \in Peers, In(p, "result"), proc[p].inbox # <<>>
    PROVE  Head(proc[p].inbox).frames = Payload
<1>0. PICK c : c = proc[p]
  OBVIOUS
<1>1. /\ c \in Procs /\ Alone(p, c) /\ c.phase = "result" /\ c.inbox # <<>>
      /\ c.inbox \in Seq(Packets)
  BY <1>0, ProcTyped DEF In
<1>2. OffererSound(c)
  BY <1>1, LeavingPhases DEF Alone
<1>3. Head(c.inbox) = c.inbox[1] /\ 1 \in DOMAIN c.inbox
  <2>1. /\ Head(c.inbox) = c.inbox[1] /\ Len(c.inbox) \in Nat \ {0}
        /\ DOMAIN c.inbox = 1 .. Len(c.inbox)
    BY <1>1, TailParts
  <2> QED
    BY <2>1
<1>4. Head(c.inbox) = Result(Payload)
  BY <1>1, <1>2, <1>3 DEF OffererSound
<1> QED
  BY <1>0, <1>4, PacketParts

LEMMA EndsTransfer ==
    ASSUME TransferInv, NEW p \in Peers, HearResult(p) \/ PartnerLeft(p)
    PROVE  TransferInv'
<1>1. proc[p].phase \notin Ended /\ seat' = seat /\ disturbed' = disturbed
  BY LeavingPhases DEF HearResult, PartnerLeft, In, BesidesUp
<1>2. End(p, "ok")
  BY ResultRight DEF HearResult, PartnerLeft
<1>3. disturbed' \in SUBSET Peers
  BY <1>1 DEF TransferInv
<1> QED
  BY <1>1, <1>2, <1>3, EndTransfer

-----------------------------------------------------------------------------
(* Steps of two processes *)

\* The two ends of a channel change their memory: s is of the offerer, t of the answerer.
LEMMA TwoProcs ==
    ASSUME TransferInv, NEW p \in Peers, NEW q \in Peers, p # q,
           seat[p] = "offerer", seat[q] = "answerer",
           NEW s \in Procs, NEW t \in Procs,
           proc' \in [Peers -> Procs],
           \A x \in Peers : proc'[x] = IF x = p THEN s ELSE IF x = q THEN t ELSE proc[x],
           UNCHANGED <<seat, disturbed>>,
           s.channel = q, t.channel = p, Alone(p, s), Alone(q, t), Joint(s, t),
           \A x \in Peers : proc[x].channel = p => x = q,
           \A x \in Peers : proc[x].channel = q => x = p
    PROVE  TransferInv'
<1>1. p # NoPeer /\ q # NoPeer /\ OtherRole(seat[p]) = seat[q] /\ OtherRole(seat[q]) = seat[p]
      /\ seat[p] \in Roles /\ seat[q] \in Roles /\ seat[p] # seat[q]
  BY RelayAssumption, RolesApart
<1>2. ASSUME NEW x \in Peers PROVE Alone(x, proc[x])'
  <2>1. Alone(x, proc[x])
    BY ProcTyped
  <2>2. CASE x # p /\ x # q
    BY <2>1, <2>2 DEF Alone
  <2>3. CASE x = p
    BY <2>3 DEF Alone
  <2>4. CASE x = q
    <3>1. proc'[x] = t
      BY <2>4
    <3> QED
      BY <2>4, <3>1 DEF Alone
  <2> QED
    BY <2>2, <2>3, <2>4
<1>3. ASSUME NEW x \in Peers PROVE Paired(x)' /\ Jointly(x)'
  <2>1. CASE x = p
    BY <1>1, <2>1 DEF Paired, Jointly
  <2>2. CASE x = q
    <3>1. proc'[x] = t /\ proc'[p] = s
      BY <2>2
    <3> QED
      BY <1>1, <2>2, <3>1 DEF Paired, Jointly
  <2>3. CASE x # p /\ x # q
    <3>1. proc'[x] = proc[x]
      BY <2>3
    <3>2. CASE proc[x].channel = NoPeer
      BY <3>1, <3>2 DEF Paired, Jointly
    <3>3. CASE proc[x].channel # NoPeer
      <4>1. proc[x].channel \in Peers /\ proc[x].channel # p /\ proc[x].channel # q
        BY <2>3, <3>3, Ends
      <4>2. proc'[proc[x].channel] = proc[proc[x].channel]
        BY <4>1
      <4> QED
        BY <3>1, <4>2, ProcTyped DEF Paired, Jointly
    <3> QED
      BY <3>2, <3>3
  <2> QED
    BY <2>1, <2>2, <2>3
<1> QED
  BY <1>2, <1>3 DEF TransferInv

\* Nobody else has its channel to a process that has not ended.
LEMMA OneChannel ==
    ASSUME TransferInv, NEW p \in Peers, NEW x \in Peers, proc[x].channel = p,
           proc[p].phase \notin Ended
    PROVE  proc[p].channel = x
BY Ends, RelayAssumption

LEMMA DialTransfer ==
    ASSUME TransferInv, NEW p \in Peers, NEW q \in Peers, Dial(p, q)
    PROVE  TransferInv'
<1>0. PICK c : c = proc[p]
  OBVIOUS
<1>1. PICK d : d = proc[q]
  OBVIOUS
<1>2. PICK s : s = [c EXCEPT !.channel = q]
  OBVIOUS
<1>3. PICK t : t = [d EXCEPT !.channel = p]
  OBVIOUS
<1>4. /\ c.phase = "opening" /\ d.phase = "opening" /\ seat[p] = "offerer" /\ seat[q] = "answerer"
      /\ c.channel = NoPeer /\ d.channel = NoPeer /\ UNCHANGED <<seat, disturbed>>
      /\ proc' = [proc EXCEPT ![p].channel = q, ![q].channel = p]
  BY <1>0, <1>1 DEF Dial, In, OnlyProc, relayVars
<1>5. /\ c \in Procs /\ d \in Procs /\ Alone(p, c) /\ Alone(q, d) /\ p # q
      /\ "opening" \notin Ended /\ proc \in [Peers -> Procs]
  BY <1>0, <1>1, <1>4, ProcTyped DEF Ended, TransferInv
<1>6. /\ s \in Procs /\ s.phase = "opening" /\ s.sent = c.sent /\ s.channel = q
      /\ s.buffer = c.buffer /\ s.inbox = c.inbox /\ s.moved = c.moved
  BY <1>2, <1>4, <1>5 DEF Procs
<1>7. /\ t \in Procs /\ t.phase = "opening" /\ t.sent = d.sent /\ t.channel = p
      /\ t.buffer = d.buffer /\ t.inbox = d.inbox /\ t.moved = d.moved
  BY <1>3, <1>4, <1>5 DEF Procs
<1>8. /\ \A x \in Peers : proc'[x] = IF x = p THEN s ELSE IF x = q THEN t ELSE proc[x]
      /\ proc' \in [Peers -> Procs]
  <2>1. proc' = [[proc EXCEPT ![p] = s] EXCEPT ![q] = t]
    BY <1>0, <1>1, <1>2, <1>3, <1>4, <1>5
  <2> QED
    BY <1>5, <1>6, <1>7, <2>1
<1>9. /\ "opening" \notin Offering \cup Answering \cup Early \cup Ended
      /\ q # NoPeer /\ p # NoPeer
  BY RelayAssumption DEF Offering, Answering, Early, Ended
<1>10. /\ c.buffer = <<>> /\ c.inbox = <<>> /\ c.moved = <<>>
       /\ d.buffer = <<>> /\ d.inbox = <<>> /\ d.moved = <<>>
  BY <1>4, <1>5, <1>9 DEF Alone
<1>11. Len(<<>>) = 0 /\ DOMAIN <<>> = {} /\ 0 < Frames
  BY TransferAssumption
<1>12. Alone(p, s)
  <2>1. OffererSound(s)
    BY <1>6, <1>10, <1>11 DEF OffererSound
  <2> QED
    BY <1>4, <1>5, <1>6, <1>9, <2>1, RolesApart DEF Alone
<1>13. Alone(q, t)
  <2>1. AnswererSound(t)
    BY <1>7, <1>10, <1>11 DEF AnswererSound
  <2> QED
    BY <1>4, <1>5, <1>7, <1>9, <2>1, RolesApart DEF Alone
<1>14. Joint(s, t)
  BY <1>6, <1>7, <1>10, <1>11 DEF Joint
<1>15. \A x \in Peers : proc[x].channel # p /\ proc[x].channel # q
  BY <1>0, <1>1, <1>4, <1>5, OneChannel, RelayAssumption
<1>16. /\ \A x \in Peers : proc[x].channel = p => x = q
       /\ \A x \in Peers : proc[x].channel = q => x = p
  BY <1>15
<1>17. /\ s \in Procs /\ t \in Procs /\ s.channel = q /\ t.channel = p /\ UNCHANGED <<seat, disturbed>>
       /\ p # q /\ seat[p] = "offerer" /\ seat[q] = "answerer"
  BY <1>4, <1>5, <1>6, <1>7
<1> QED
  BY <1>8, <1>12, <1>13, <1>14, <1>16, <1>17, TwoProcs

\* A message of the offerer arrives: a frame.
LEMMA DeliverFrame ==
    ASSUME TransferInv, NEW p \in Peers, Deliver(p), seat[p] = "offerer"
    PROVE  TransferInv'
<1>0. PICK q : q = proc[p].channel
  OBVIOUS
<1>1. PICK c : c = proc[p]
  OBVIOUS
<1>2. PICK d : d = proc[q]
  OBVIOUS
<1>3. PICK buffer : buffer = Tail(c.buffer)
  OBVIOUS
<1>4. PICK inbox : inbox = Append(d.inbox, Head(c.buffer))
  OBVIOUS
<1>5. PICK s : s = [c EXCEPT !.buffer = buffer]
  OBVIOUS
<1>6. PICK t : t = [d EXCEPT !.inbox = inbox]
  OBVIOUS
<1>7. /\ q # NoPeer /\ d.channel = p /\ c.buffer # <<>> /\ UNCHANGED <<seat, disturbed>>
      /\ proc' = [proc EXCEPT ![p].buffer = Tail(c.buffer),
                              ![q].inbox = Append(@, Head(c.buffer))]
  BY <1>0, <1>1, <1>2 DEF Deliver, Linked, OnlyProc, relayVars
<1>8. /\ q \in Peers /\ q # p /\ seat[q] = "answerer" /\ Joint(c, d) /\ p # NoPeer
  BY <1>0, <1>1, <1>2, <1>7, Ends, RelayAssumption
<1>9. /\ c \in Procs /\ d \in Procs /\ Alone(p, c) /\ Alone(q, d) /\ proc \in [Peers -> Procs]
      /\ c.buffer \in Seq(Packets) /\ d.inbox \in Seq(Packets) /\ c.moved \in Seq(Nat)
      /\ d.moved \in Seq(Nat)
  BY <1>1, <1>2, <1>8, ProcTyped DEF TransferInv
<1>10. /\ OffererSound(c) /\ AnswererSound(d) /\ c.phase \notin Ended /\ d.phase \notin Ended
  BY <1>0, <1>1, <1>2, <1>7, <1>8, ChannelPhases
<1>11. /\ buffer \in Seq(Packets) /\ Head(c.buffer) = c.buffer[1] /\ Head(c.buffer) \in Packets
       /\ Len(c.buffer) \in Nat \ {0} /\ Len(buffer) = Len(c.buffer) - 1
       /\ DOMAIN c.buffer = 1 .. Len(c.buffer) /\ DOMAIN buffer = 1 .. (Len(c.buffer) - 1)
       /\ \A i \in 1 .. (Len(c.buffer) - 1) : buffer[i] = c.buffer[i + 1]
  BY <1>3, <1>7, <1>9, TailParts
<1>12. /\ inbox \in Seq(Packets) /\ Len(inbox) = Len(d.inbox) + 1 /\ Len(d.inbox) \in Nat
       /\ DOMAIN d.inbox = 1 .. Len(d.inbox) /\ DOMAIN inbox = 1 .. (Len(d.inbox) + 1)
       /\ \A i \in 1 .. Len(d.inbox) : inbox[i] = d.inbox[i]
       /\ inbox[Len(d.inbox) + 1] = Head(c.buffer)
  BY <1>4, <1>9, <1>11, AppendParts
<1>13. /\ s \in Procs /\ s.phase = c.phase /\ s.sent = c.sent /\ s.channel = q
       /\ s.buffer = buffer /\ s.inbox = c.inbox /\ s.moved = c.moved
  BY <1>0, <1>1, <1>5, <1>9, <1>11 DEF Procs
<1>14. /\ t \in Procs /\ t.phase = d.phase /\ t.sent = d.sent /\ t.channel = p
       /\ t.buffer = d.buffer /\ t.inbox = inbox /\ t.moved = d.moved
  BY <1>6, <1>7, <1>9, <1>12 DEF Procs
<1>15. /\ \A x \in Peers : proc'[x] = IF x = p THEN s ELSE IF x = q THEN t ELSE proc[x]
       /\ proc' \in [Peers -> Procs]
  <2>1. proc' = [[proc EXCEPT ![p] = s] EXCEPT ![q] = t]
    BY <1>1, <1>2, <1>3, <1>4, <1>5, <1>6, <1>7, <1>8, <1>9
  <2> QED
    BY <1>8, <1>9, <1>13, <1>14, <2>1
<1>16. Alone(p, s)
  <2>1. OffererSound(s)
    BY <1>10, <1>13 DEF OffererSound
  <2> QED
    BY <1>0, <1>1, <1>7, <1>8, <1>9, <1>13, <2>1, RolesApart DEF Alone
<1>17. PICK l : l = Len(d.moved)
  OBVIOUS
<1>18. PICK n : n = Len(d.inbox)
  OBVIOUS
<1>19. PICK m : m = Len(c.buffer)
  OBVIOUS
<1>20. /\ l \in Nat /\ n \in Nat /\ m \in Nat \ {0} /\ Len(c.moved) = l + n + m
       /\ \A i \in 1 .. m : c.buffer[i] = Frame(l + n + i)
       /\ \A i \in 1 .. n : d.inbox[i] = Frame(l + i)
  <2>1. l \in Nat /\ n \in Nat /\ m \in Nat \ {0}
    BY <1>9, <1>11, <1>12, <1>17, <1>18, <1>19
  <2>2. Len(c.moved) = l + n + m
    BY <1>8, <1>17, <1>18, <1>19 DEF Joint
  <2>3. \A i \in 1 .. m : c.buffer[i] = Frame(l + n + i)
    BY <1>8, <1>11, <1>17, <1>18, <1>19 DEF Joint
  <2>4. \A i \in 1 .. n : d.inbox[i] = Frame(l + i)
    BY <1>10, <1>12, <1>17, <1>18 DEF AnswererSound
  <2> QED
    BY <2>1, <2>2, <2>3, <2>4
<1>21. \A i \in 1 .. (n + 1) : inbox[i] = Frame(l + i)
  <2>1. inbox[n + 1] = Frame(l + n + 1)
    BY <1>11, <1>12, <1>18, <1>19, <1>20
  <2>2. l + n + 1 = l + (n + 1)
    BY <1>20
  <2>3. \A i \in 1 .. n : inbox[i] = d.inbox[i]
    BY <1>12, <1>18
  <2> QED
    BY <1>20, <2>1, <2>2, <2>3
<1>22. \A i \in 1 .. (m - 1) : buffer[i] = Frame(l + (n + 1) + i)
  <2>1. ASSUME NEW i \in 1 .. (m - 1) PROVE buffer[i] = Frame(l + (n + 1) + i)
    <3>1. i + 1 \in 1 .. m /\ l + n + (i + 1) = l + (n + 1) + i
      BY <1>20
    <3>2. buffer[i] = c.buffer[i + 1]
      BY <1>11, <1>19
    <3> QED
      BY <1>20, <3>1, <3>2
  <2> QED
    BY <2>1
<1>23. Alone(q, t)
  <2>1. AnswererSound(t)
    BY <1>10, <1>12, <1>14, <1>17, <1>18, <1>21 DEF AnswererSound
  <2> QED
    BY <1>7, <1>8, <1>9, <1>14, <2>1, RolesApart DEF Alone
<1>24. Joint(s, t)
  <2>1. Len(s.moved) = Len(t.moved) + Len(t.inbox) + Len(s.buffer)
    <3>1. Len(s.moved) = l + n + m /\ Len(t.moved) = l /\ Len(t.inbox) = n + 1
          /\ Len(s.buffer) = m - 1
      BY <1>11, <1>12, <1>13, <1>14, <1>17, <1>18, <1>19, <1>20
    <3> QED
      BY <1>20, <3>1
  <2>2. \A i \in DOMAIN s.buffer : s.buffer[i] = Frame(Len(t.moved) + Len(t.inbox) + i)
    <3>1. /\ DOMAIN s.buffer = 1 .. (m - 1) /\ s.buffer = buffer
          /\ Len(t.moved) = l /\ Len(t.inbox) = n + 1
      BY <1>11, <1>12, <1>13, <1>14, <1>17, <1>18, <1>19
    <3> QED
      BY <1>22, <3>1
  <2> QED
    BY <1>8, <1>13, <1>14, <2>1, <2>2 DEF Joint
<1>25. /\ \A x \in Peers : proc[x].channel = p => x = q
       /\ \A x \in Peers : proc[x].channel = q => x = p
  BY <1>0, <1>1, <1>2, <1>7, <1>8, <1>10, OneChannel
<1>26. s \in Procs /\ t \in Procs /\ s.channel = q /\ t.channel = p /\ UNCHANGED <<seat, disturbed>>
       /\ q \in Peers /\ p # q /\ seat[q] = "answerer"
  BY <1>7, <1>8, <1>13, <1>14
<1> QED
  BY <1>15, <1>16, <1>23, <1>24, <1>25, <1>26, TwoProcs

\* A message of the answerer arrives: the start or a result.
LEMMA DeliverAnswer ==
    ASSUME TransferInv, NEW q \in Peers, Deliver(q), seat[q] = "answerer"
    PROVE  TransferInv'
<1>0. PICK p : p = proc[q].channel
  OBVIOUS
<1>1. PICK c : c = proc[p]
  OBVIOUS
<1>2. PICK d : d = proc[q]
  OBVIOUS
<1>3. PICK buffer : buffer = Tail(d.buffer)
  OBVIOUS
<1>4. PICK inbox : inbox = Append(c.inbox, Head(d.buffer))
  OBVIOUS
<1>5. PICK s : s = [c EXCEPT !.inbox = inbox]
  OBVIOUS
<1>6. PICK t : t = [d EXCEPT !.buffer = buffer]
  OBVIOUS
<1>7. /\ p # NoPeer /\ c.channel = q /\ d.buffer # <<>> /\ UNCHANGED <<seat, disturbed>>
      /\ proc' = [proc EXCEPT ![q].buffer = Tail(d.buffer),
                              ![p].inbox = Append(@, Head(d.buffer))]
  BY <1>0, <1>1, <1>2 DEF Deliver, Linked, OnlyProc, relayVars
<1>8. /\ p \in Peers /\ q # p /\ seat[p] = "offerer" /\ Joint(c, d) /\ q # NoPeer
  BY <1>0, <1>1, <1>2, <1>7, Ends, RelayAssumption
<1>9. /\ c \in Procs /\ d \in Procs /\ Alone(p, c) /\ Alone(q, d) /\ proc \in [Peers -> Procs]
      /\ d.buffer \in Seq(Packets) /\ c.inbox \in Seq(Packets)
  BY <1>1, <1>2, <1>8, ProcTyped DEF TransferInv
<1>10. /\ OffererSound(c) /\ AnswererSound(d) /\ c.phase \notin Ended /\ d.phase \notin Ended
       /\ c.phase \in {"opening"} \cup Offering
  BY <1>0, <1>1, <1>2, <1>7, <1>8, ChannelPhases
<1>11. /\ buffer \in Seq(Packets) /\ Head(d.buffer) = d.buffer[1] /\ Head(d.buffer) \in Packets
       /\ Len(d.buffer) \in Nat \ {0} /\ DOMAIN d.buffer = 1 .. Len(d.buffer)
       /\ DOMAIN buffer = 1 .. (Len(d.buffer) - 1)
       /\ \A i \in 1 .. (Len(d.buffer) - 1) : buffer[i] = d.buffer[i + 1]
       /\ Len(buffer) = Len(d.buffer) - 1
  BY <1>3, <1>7, <1>9, TailParts
<1>12. /\ inbox \in Seq(Packets) /\ Len(c.inbox) \in Nat
       /\ DOMAIN c.inbox = 1 .. Len(c.inbox) /\ DOMAIN inbox = 1 .. (Len(c.inbox) + 1)
       /\ \A i \in 1 .. Len(c.inbox) : inbox[i] = c.inbox[i]
       /\ inbox[Len(c.inbox) + 1] = Head(d.buffer)
  BY <1>4, <1>9, <1>11, AppendParts
<1>13. /\ s \in Procs /\ s.phase = c.phase /\ s.sent = c.sent /\ s.channel = q
       /\ s.buffer = c.buffer /\ s.inbox = inbox /\ s.moved = c.moved
  BY <1>5, <1>7, <1>9, <1>12 DEF Procs
<1>14. /\ t \in Procs /\ t.phase = d.phase /\ t.sent = d.sent /\ t.channel = p
       /\ t.buffer = buffer /\ t.inbox = d.inbox /\ t.moved = d.moved
  BY <1>0, <1>2, <1>6, <1>9, <1>11 DEF Procs
<1>15. /\ \A x \in Peers : proc'[x] = IF x = p THEN s ELSE IF x = q THEN t ELSE proc[x]
       /\ proc' \in [Peers -> Procs]
  <2>1. proc' = [[proc EXCEPT ![q] = t] EXCEPT ![p] = s]
    BY <1>1, <1>2, <1>3, <1>4, <1>5, <1>6, <1>7, <1>8, <1>9
  <2> QED
    BY <1>8, <1>9, <1>13, <1>14, <2>1
<1>16. d.phase # "opening"
  BY <1>7, <1>8 DEF Joint
<1>17. 1 \in DOMAIN d.buffer
  BY <1>11
<1>18. ASSUME c.phase \in {"opening", "ready"} PROVE OffererSound(s) /\ Joint(s, t)
  <2>1. Head(d.buffer) = Start /\ c.inbox = <<>>
    BY <1>7, <1>8, <1>11, <1>17, <1>18 DEF Joint
  <2>2. Len(d.buffer) = 1
    <3>1. Len(d.buffer) \in DOMAIN d.buffer
      BY <1>11
    <3> QED
      BY <1>8, <1>18, <3>1 DEF Joint
  <2>3. buffer = <<>>
    <3>1. Len(buffer) = 0
      BY <1>11, <2>2
    <3> QED
      BY <1>11, <3>1, EmptyLength
  <2>4. \A i \in DOMAIN inbox : i = 1 /\ inbox[i] = Start
    <3>1. Len(c.inbox) = 0
      BY <2>1
    <3> QED
      BY <1>12, <2>1, <3>1
  <2>5. c.phase \notin {"sending", "result"}
    BY <1>18
  <2>6. OffererSound(s)
    BY <1>10, <1>13, <2>4, <2>5 DEF OffererSound
  <2>7. Joint(s, t)
    <3>1. \A i \in DOMAIN t.buffer : i = 1 /\ t.buffer[i] = Start
      BY <1>14, <2>3
    <3> QED
      BY <1>8, <1>13, <1>14, <1>16, <2>3, <2>5, <3>1 DEF Joint
  <2> QED
    BY <2>6, <2>7
<1>19. ASSUME c.phase \in {"sending", "result"} PROVE OffererSound(s) /\ Joint(s, t)
  <2>1. \A i \in DOMAIN d.buffer : d.buffer[i] = Result(Payload)
    BY <1>8, <1>19 DEF Joint
  <2>2. \A i \in DOMAIN inbox : inbox[i] = Result(Payload)
    <3>1. \A i \in DOMAIN c.inbox : c.inbox[i] = Result(Payload)
      BY <1>10, <1>19 DEF OffererSound
    <3>2. Head(d.buffer) = Result(Payload)
      BY <1>11, <1>17, <2>1
    <3> QED
      BY <1>12, <3>1, <3>2
  <2>3. \A i \in DOMAIN buffer : buffer[i] = Result(Payload)
    <3>1. \A i \in DOMAIN buffer : i + 1 \in DOMAIN d.buffer /\ buffer[i] = d.buffer[i + 1]
      BY <1>11
    <3> QED
      BY <2>1, <3>1
  <2>4. c.phase \notin {"opening", "ready"}
    BY <1>19
  <2>5. OffererSound(s)
    BY <1>13, <2>2, <2>4 DEF OffererSound
  <2>6. Joint(s, t)
    BY <1>8, <1>13, <1>14, <1>16, <2>3, <2>4 DEF Joint
  <2> QED
    BY <2>5, <2>6
<1>20. OffererSound(s) /\ Joint(s, t)
  BY <1>10, <1>18, <1>19 DEF Offering
<1>21. Alone(p, s)
  BY <1>1, <1>7, <1>8, <1>9, <1>13, <1>20, RolesApart DEF Alone
<1>22. Alone(q, t)
  <2>1. AnswererSound(t)
    BY <1>10, <1>14 DEF AnswererSound
  <2> QED
    BY <1>0, <1>2, <1>7, <1>8, <1>9, <1>14, <2>1, RolesApart DEF Alone
<1>23. /\ \A x \in Peers : proc[x].channel = p => x = q
       /\ \A x \in Peers : proc[x].channel = q => x = p
  BY <1>0, <1>1, <1>2, <1>7, <1>8, <1>10, OneChannel
<1>24. s \in Procs /\ t \in Procs /\ s.channel = q /\ t.channel = p /\ UNCHANGED <<seat, disturbed>>
       /\ p \in Peers /\ p # q /\ seat[p] = "offerer"
  BY <1>7, <1>8, <1>13, <1>14
<1> QED
  BY <1>15, <1>20, <1>21, <1>22, <1>23, <1>24, TwoProcs

LEMMA DeliverTransfer ==
    ASSUME TransferInv, NEW p \in Peers, Deliver(p)
    PROVE  TransferInv'
<1>1. seat[p] \in Roles
  BY Ends DEF Deliver, Linked
<1> QED
  BY <1>1, RolesApart, DeliverFrame, DeliverAnswer

\* The server gives seats to those who have none.
LEMMA ServeSeats ==
    ASSUME RelayInv, NEW p \in Peers, ServerStep(p)
    PROVE  \A x \in Peers : seat[x] \in Roles => seat'[x] = seat[x]
<1>1. CASE Join(p)
  <2>1. socket[p] = "connecting" /\ seat' = [seat EXCEPT ![p] = RoleFor(p)]
    BY <1>1 DEF Join
  <2>2. seat[p] = "none" /\ seat \in [Peers -> Roles \cup {"none"}]
    BY <2>1 DEF RelayInv, SeatInv, RelayTypes
  <2> QED
    BY <2>1, <2>2, RolesApart
<1>2. CASE ~Join(p)
  BY <1>2 DEF ServerStep, Refuse, Relay, HearClose, Leave
<1> QED
  BY <1>1, <1>2

LEMMA NextTransfer ==
    ASSUME RelayInv, HeardInv, TransferInv, [Next]_vars
    PROVE  TransferInv'
<1>1. ASSUME NEW p \in Peers, Connect(p) \/ Runs(p) \/ TimeOut(p) \/ Kill(p)
      PROVE  TransferInv'
  <2>1. CASE Connect(p)
    BY <2>1, ConnectTransfer
  <2>2. CASE Serve(p)
    BY <2>2, ServeSeats, SeatsTransfer DEF Serve
  <2>3. CASE Handle(p)
    BY <2>3, HandleTransfer
  <2>4. CASE Attach(p) \/ Publish(p)
    BY <2>4, AttachTransfer, PublishTransfer
  <2>5. CASE \E q \in Peers : Dial(p, q)
    BY <2>5, DialTransfer
  <2>6. CASE Deliver(p) \/ OnOpen(p) \/ HearReady(p) \/ SendFrame(p) \/ ReadFrame(p)
    BY <2>6, DeliverTransfer, OnOpenTransfer, HearReadyTransfer, SendFrameTransfer,
       ReadFrameTransfer
  <2>7. CASE SendThrows(p) \/ TimeOut(p) \/ Kill(p)
    BY <2>7, ExitsTransfer
  <2>8. CASE Drained(p) \/ HearResult(p) \/ PartnerLeft(p)
    BY <2>8, DrainedTransfer, EndsTransfer
  <2> QED
    BY <1>1, <2>1, <2>2, <2>3, <2>4, <2>5, <2>6, <2>7, <2>8 DEF Runs
<1>2. CASE UNCHANGED vars
  BY <1>2, SeatsTransfer DEF vars, relayVars
<1> QED
  BY <1>1, <1>2 DEF Next

-----------------------------------------------------------------------------
(* What a process sends, and what it is told *)

\* No process sends anything, and none starts, hears its role or ends.
Quietly ==
    /\ up' = up
    /\ \A x \in Peers :
          /\ proc'[x].sent = proc[x].sent
          /\ proc'[x].phase # proc[x].phase =>
                Live(x) /\ ~In(x, "joining") /\ proc'[x].phase \notin Ended \cup Early

\* A process sends its next signal.
Sends(p) ==
    /\ proc[p].phase \notin Ended \cup Early
    /\ up' = [up EXCEPT ![p] = Append(@, Signal(p, proc[p].sent + 1))]
    /\ \A x \in Peers : proc'[x].phase = proc[x].phase
    /\ \A x \in Peers : proc'[x].sent = IF x = p THEN proc[p].sent + 1 ELSE proc[x].sent

\* A process ends, and closes its socket behind a part of what it sent.
Closes(p) ==
    /\ proc[p].phase \notin Ended
    /\ proc'[p].phase \in Ended
    /\ \A x \in Peers : x # p => proc'[x] = proc[x]
    /\ \E k \in 0 .. Len(up[p]) : up' = [up EXCEPT ![p] = Append(SubSeq(@, 1, k), Close)]

Kinds(p) == Quietly \/ Sends(p) \/ Closes(p)

LEMMA EndCloses ==
    ASSUME RelayInv, TransferInv, NEW p \in Peers, NEW x \in Ended, End(p, x),
           DropSocket(p) \/ CloseSocket(p), proc[p].phase \notin Ended
    PROVE  Closes(p)
<1>1. PICK s : s = Left(proc[p], x)
  OBVIOUS
<1>2. s.phase = x
  <2>1. proc[p] \in Procs
    BY ProcTyped
  <2> QED
    BY <1>1, <2>1, EndedProc
<1>3. proc' = [proc EXCEPT ![p] = s] /\ proc \in [Peers -> Procs]
  BY <1>1 DEF End, Left, TransferInv
<1>4. \E k \in 0 .. Len(up[p]) : up' = [up EXCEPT ![p] = Append(SubSeq(@, 1, k), Close)]
  <2>1. CASE DropSocket(p)
    BY <2>1 DEF DropSocket
  <2>2. CASE CloseSocket(p)
    <3>1. up[p] \in Seq(Signals \cup {Close})
      BY DEF RelayInv, RelayTypes
    <3>2. Len(up[p]) \in 0 .. Len(up[p]) /\ SubSeq(up[p], 1, Len(up[p])) = up[p]
      BY <3>1, SubSeqFull
    <3> QED
      BY <2>2, <3>2 DEF CloseSocket
  <2> QED
    BY <2>1, <2>2
<1> QED
  BY <1>2, <1>3, <1>4 DEF Closes

\* One process goes on to another phase, or stays, and sends nothing.
LEMMA QuietStep ==
    ASSUME TransferInv, NEW p \in Peers, up' = up, Live(p), ~In(p, "joining"),
           \A x \in Peers : proc'[x].sent = proc[x].sent,
           \A x \in Peers : x # p => proc'[x].phase = proc[x].phase,
           proc'[p].phase \notin Ended \cup Early \/ proc'[p].phase = proc[p].phase
    PROVE  Quietly
BY DEF Quietly

\* What a process does by itself: it sends, it ends, or nothing of it is seen.
Alike == UNCHANGED <<room, socket, seat, down, read>>

LEMMA ActKinds ==
    ASSUME RelayInv, TransferInv, NEW p \in Peers,
           \/ Attach(p) \/ Publish(p) \/ (\E q \in Peers : Dial(p, q)) \/ Deliver(p)
           \/ OnOpen(p) \/ HearReady(p) \/ SendFrame(p) \/ SendThrows(p) \/ ReadFrame(p)
           \/ Drained(p) \/ HearResult(p) \/ PartnerLeft(p) \/ TimeOut(p) \/ Kill(p)
    PROVE  Alike /\ Kinds(p)
<1>0. proc \in [Peers -> Procs] /\ \A x \in Peers : proc[x] \in Procs /\ proc[x].phase \in Phases
  BY ProcTyped DEF TransferInv
<1>1. /\ Ended \cap Early = {} /\ "joined" \notin Ended
      /\ {"opening", "ready", "sending", "receiving", "draining", "result", "leaving"}
           \cap (Ended \cup Early) = {}
  BY DEF Ended, Early
<1>2. CASE Attach(p)
  <2>1. PICK a : a = Applied(proc[p], Backlog(proc[p]))
    OBVIOUS
  <2>2. a \in Procs /\ a.sent = proc[p].sent
    <3>1. Backlog(proc[p]) \in Seq(Signals)
      BY ProcTyped DEF Backlog
    <3> QED
      BY <1>0, <2>1, <3>1, AppliedFields
  <2>3. proc' = [proc EXCEPT ![p] = [a EXCEPT !.phase = "opening", !.backlog = <<>>]]
        /\ In(p, "joined") /\ OnlyProc
    BY <1>2, <2>1 DEF Attach
  <2>4. PICK s : s = [a EXCEPT !.phase = "opening", !.backlog = <<>>]
    OBVIOUS
  <2>5. s.sent = proc[p].sent /\ s.phase = "opening"
    BY <2>2, <2>4 DEF Procs
  <2>6. \A x \in Peers : proc'[x] = IF x = p THEN s ELSE proc[x]
    BY <1>0, <2>3, <2>4
  <2>7. Quietly
    BY <1>1, <2>3, <2>5, <2>6, QuietStep DEF OnlyProc, relayVars, In, Live
  <2> QED
    BY <2>3, <2>7 DEF Kinds, Alike, OnlyProc, relayVars, room
<1>3. CASE Publish(p)
  <2>1. /\ Live(p) /\ proc[p].phase \notin {"joining", "joined"} /\ BesidesUp
        /\ up' = [up EXCEPT ![p] = Append(@, Signal(p, proc[p].sent + 1))]
    BY <1>3 DEF Publish
  <2>2. /\ \A x \in Peers : proc'[x].phase = proc[x].phase
        /\ \A x \in Peers : proc'[x].sent = IF x = p THEN proc[p].sent + 1 ELSE proc[x].sent
    BY <1>0, <1>3 DEF Publish, Procs
  <2> QED
    BY <2>1, <2>2 DEF Kinds, Sends, Alike, BesidesUp, Live, Early
<1>4. CASE \E q \in Peers : Dial(p, q)
  <2>1. PICK q \in Peers : Dial(p, q)
    BY <1>4
  <2>2. /\ \A x \in Peers : proc'[x].phase = proc[x].phase
        /\ \A x \in Peers : proc'[x].sent = proc[x].sent
    <3>1. PICK s : s = [proc[p] EXCEPT !.channel = q]
      OBVIOUS
    <3>2. PICK t : t = [proc[q] EXCEPT !.channel = p]
      OBVIOUS
    <3>3. p # q
      BY <2>1, RolesApart DEF Dial
    <3>4. proc' = [[proc EXCEPT ![p] = s] EXCEPT ![q] = t]
      BY <1>0, <2>1, <3>1, <3>2, <3>3 DEF Dial
    <3>5. \A x \in Peers : proc'[x] = IF x = p THEN s ELSE IF x = q THEN t ELSE proc[x]
      BY <1>0, <3>3, <3>4
    <3>6. /\ s.phase = proc[p].phase /\ s.sent = proc[p].sent
          /\ t.phase = proc[q].phase /\ t.sent = proc[q].sent
      BY <1>0, <3>1, <3>2 DEF Procs
    <3> QED
      BY <3>5, <3>6
  <2> QED
    BY <2>1, <2>2 DEF Dial, Kinds, Quietly, Alike, OnlyProc, relayVars, room
<1>5. CASE Deliver(p)
  <2>1. /\ \A x \in Peers : proc'[x].phase = proc[x].phase
        /\ \A x \in Peers : proc'[x].sent = proc[x].sent
    <3>0. PICK q : q = proc[p].channel
      OBVIOUS
    <3>1. PICK s : s = [proc[p] EXCEPT !.buffer = Tail(proc[p].buffer)]
      OBVIOUS
    <3>2. PICK t : t = [proc[q] EXCEPT !.inbox = Append(proc[q].inbox, Head(proc[p].buffer))]
      OBVIOUS
    <3>3. p # q /\ q \in Peers
      BY <1>5, <3>0, Ends DEF Deliver, Linked
    <3>4. proc' = [[proc EXCEPT ![p] = s] EXCEPT ![q] = t]
      BY <1>0, <1>5, <3>0, <3>1, <3>2, <3>3 DEF Deliver
    <3>5. \A x \in Peers : proc'[x] = IF x = p THEN s ELSE IF x = q THEN t ELSE proc[x]
      BY <1>0, <3>3, <3>4
    <3>6. /\ s.phase = proc[p].phase /\ s.sent = proc[p].sent
          /\ t.phase = proc[q].phase /\ t.sent = proc[q].sent
      BY <1>0, <3>1, <3>2, <3>3 DEF Procs
    <3> QED
      BY <3>5, <3>6
  <2> QED
    BY <1>5, <2>1 DEF Deliver, Kinds, Quietly, Alike, OnlyProc, relayVars, room
<1>6. CASE OnOpen(p) \/ HearReady(p) \/ SendFrame(p) \/ ReadFrame(p)
  <2>1. OnlyProc /\ proc[p].phase \in {"opening", "ready", "sending", "receiving"}
    BY <1>6 DEF OnOpen, HearReady, SendFrame, ReadFrame, In
  <2>2. \A x \in Peers : proc'[x].sent = proc[x].sent
    <3>1. CASE OnOpen(p)
      <4>1. \/ proc' = [proc EXCEPT ![p].phase = "ready"]
            \/ proc' = [proc EXCEPT ![p].phase = "receiving",
                                    ![p].buffer = Append(proc[p].buffer, Start)]
        BY <3>1 DEF OnOpen
      <4>2. CASE proc' = [proc EXCEPT ![p].phase = "ready"]
        BY <1>0, <4>2 DEF Procs
      <4>3. CASE proc' = [proc EXCEPT ![p].phase = "receiving",
                                      ![p].buffer = Append(proc[p].buffer, Start)]
        BY <1>0, <4>3 DEF Procs
      <4> QED
        BY <4>1, <4>2, <4>3
    <3>2. CASE HearReady(p)
      BY <1>0, <3>2 DEF HearReady, Procs
    <3>3. CASE SendFrame(p)
      BY <1>0, <3>3 DEF SendFrame, Procs
    <3>4. CASE ReadFrame(p)
      <4>0. PICK f : f = Append(proc[p].moved, Head(proc[p].inbox).n)
        OBVIOUS
      <4>1. \/ proc' = [proc EXCEPT ![p].moved = f, ![p].inbox = Tail(proc[p].inbox)]
            \/ proc' = [proc EXCEPT ![p].moved = f, ![p].inbox = Tail(proc[p].inbox),
                                    ![p].phase = "draining",
                                    ![p].buffer = Append(proc[p].buffer, Result(f))]
        BY <3>4, <4>0 DEF ReadFrame
      <4>2. CASE proc' = [proc EXCEPT ![p].moved = f, ![p].inbox = Tail(proc[p].inbox)]
        BY <1>0, <4>2 DEF Procs
      <4>3. CASE proc' = [proc EXCEPT ![p].moved = f, ![p].inbox = Tail(proc[p].inbox),
                                      ![p].phase = "draining",
                                      ![p].buffer = Append(proc[p].buffer, Result(f))]
        BY <1>0, <4>3 DEF Procs
      <4> QED
        BY <4>1, <4>2, <4>3
    <3> QED
      BY <1>6, <3>1, <3>2, <3>3, <3>4
  <2>3. \A x \in Peers : x # p => proc'[x].phase = proc[x].phase
    BY <1>0, <1>6 DEF OnOpen, HearReady, SendFrame, ReadFrame, Procs
  <2>4. proc'[p].phase \in {"ready", "receiving", "sending", "result", "draining"}
    <3>1. CASE OnOpen(p)
      BY <1>0, <3>1 DEF OnOpen, Procs
    <3>2. CASE HearReady(p)
      BY <1>0, <3>2 DEF HearReady, Procs
    <3>3. CASE SendFrame(p)
      BY <1>0, <3>3 DEF SendFrame, Procs, In
    <3>4. CASE ReadFrame(p)
      BY <1>0, <3>4 DEF ReadFrame, Procs, In
    <3> QED
      BY <1>6, <3>1, <3>2, <3>3, <3>4
  <2>5. Quietly
    BY <1>1, <2>1, <2>2, <2>3, <2>4, QuietStep DEF OnlyProc, relayVars, In, Live
  <2> QED
    BY <2>1, <2>5 DEF Kinds, Alike, OnlyProc, relayVars, room
<1>7. CASE SendThrows(p) \/ TimeOut(p) \/ Kill(p)
  <2>1. proc[p].phase \notin Ended
    BY <1>7, LeavingPhases DEF SendThrows, TimeOut, Kill, Live, In
  <2>2. Exit(p) /\ BesidesUp
    BY <1>7 DEF SendThrows, TimeOut, Kill
  <2>3. Closes(p)
    BY <2>1, <2>2, EndCloses DEF Exit, Ended
  <2> QED
    BY <2>2, <2>3 DEF Kinds, Alike, BesidesUp
<1>8. CASE HearResult(p) \/ PartnerLeft(p)
  <2>1. proc[p].phase \notin Ended /\ BesidesUp /\ CloseSocket(p)
    BY <1>8, LeavingPhases DEF HearResult, PartnerLeft, In
  <2>2. End(p, "ok") \/ End(p, "mismatch")
    BY <1>8 DEF HearResult, PartnerLeft
  <2>3. Closes(p)
    BY <2>1, <2>2, EndCloses DEF Ended
  <2> QED
    BY <2>1, <2>3 DEF Kinds, Alike, BesidesUp
<1>9. CASE Drained(p)
  <2>1. In(p, "draining") /\ BesidesUp /\ proc[p].phase \notin Ended
    BY <1>9, LeavingPhases DEF Drained, In
  <2>2. CASE proc' = [proc EXCEPT ![p].phase = "leaving"] /\ UNCHANGED up
    <3>1. /\ \A x \in Peers : proc'[x].sent = proc[x].sent
          /\ \A x \in Peers : x # p => proc'[x].phase = proc[x].phase
          /\ proc'[p].phase = "leaving"
      BY <1>0, <2>2 DEF Procs
    <3>2. Quietly
      BY <1>1, <2>1, <2>2, <3>1, QuietStep DEF In, Live
    <3> QED
      BY <2>1, <3>2 DEF Kinds, Alike, BesidesUp
  <2>3. CASE End(p, "mismatch") /\ DropSocket(p)
    <3>1. Closes(p)
      BY <2>1, <2>3, EndCloses DEF Ended
    <3> QED
      BY <2>1, <3>1 DEF Kinds, Alike, BesidesUp
  <2> QED
    BY <1>9, <2>2, <2>3 DEF Drained
<1> QED
  BY <1>2, <1>3, <1>4, <1>5, <1>6, <1>7, <1>8, <1>9

\* A process that waits for its role hears it.
Hears(p) ==
    /\ In(p, "joining") /\ up' = up
    /\ \A x \in Peers : proc'[x].sent = proc[x].sent
    /\ \A x \in Peers : proc'[x].phase = IF x = p THEN "joined" ELSE proc[x].phase

LEMMA HandleKinds ==
    ASSUME RelayInv, HeardInv, TransferInv, NEW p \in Peers, Handle(p)
    PROVE  /\ UNCHANGED <<room, socket, seat, down>>
           /\ read[p] < Len(down[p]) /\ read' = [read EXCEPT ![p] = @ + 1]
           /\ Kinds(p) \/ Hears(p)
<1> DEFINE m == down[p][read[p] + 1]
<1>1. /\ Live(p) /\ read[p] < Len(down[p]) /\ read' = [read EXCEPT ![p] = @ + 1]
      /\ UNCHANGED <<room, socket, seat, down>>
  BY DEF Handle
<1>2. /\ proc \in [Peers -> Procs] /\ proc[p] \in Procs /\ proc[p].phase \notin Ended
      /\ \A x \in Peers : proc[x] \in Procs
  BY <1>1, ProcTyped DEF TransferInv, Live
<1>3. m \in Messages
  <2>1. down[p] \in Seq(Messages) /\ read[p] \in Nat
    BY DEF RelayInv, RelayTypes
  <2>2. read[p] + 1 \in DOMAIN down[p]
    BY <1>1, <2>1
  <2> QED
    BY <2>1, <2>2
<1>4. CASE m.type = "joined" /\ proc' = [proc EXCEPT ![p].phase = "joined"] /\ UNCHANGED up
  <2>1. In(p, "joining")
    BY <1>1, <1>4, HearJoined
  <2>2. /\ \A x \in Peers : proc'[x].sent = proc[x].sent
        /\ \A x \in Peers : proc'[x].phase = IF x = p THEN "joined" ELSE proc[x].phase
    BY <1>2, <1>4 DEF Procs
  <2> QED
    BY <1>1, <1>4, <2>1, <2>2 DEF Hears
<1>5. CASE m.type = "signal" /\ proc' = [proc EXCEPT ![p] = Heard(@, m)] /\ UNCHANGED up
  <2>0. m \in Signals
    BY <1>3, <1>5, MessageTypes DEF Messages
  <2> HIDE DEF m
  <2>1. PICK c : c = proc[p]
    OBVIOUS
  <2>2. PICK s : s = Heard(c, m)
    OBVIOUS
  <2>3. proc' = [proc EXCEPT ![p] = s]
    BY <1>5, <2>1, <2>2
  <2>4. s.phase = c.phase /\ s.sent = c.sent
    BY <1>2, <2>0, <2>1, <2>2, HeardFields
  <2>5. \A x \in Peers : proc'[x].sent = proc[x].sent /\ proc'[x].phase = proc[x].phase
    BY <1>2, <2>1, <2>3, <2>4
  <2> QED
    BY <1>1, <1>5, <2>5 DEF Kinds, Quietly
<1>6. CASE proc' = [proc EXCEPT ![p].left = TRUE] /\ UNCHANGED up
  <2>1. \A x \in Peers : proc'[x].sent = proc[x].sent /\ proc'[x].phase = proc[x].phase
    BY <1>2, <1>6 DEF Procs
  <2> QED
    BY <1>1, <1>6, <2>1 DEF Kinds, Quietly
<1>7. CASE UNCHANGED <<up, proc>>
  BY <1>1, <1>7 DEF Kinds, Quietly
<1>8. CASE Exit(p)
  <2>1. Closes(p)
    BY <1>2, <1>8, EndCloses DEF Exit, Ended
  <2> QED
    BY <1>1, <2>1 DEF Kinds
<1> QED
  BY <1>4, <1>5, <1>6, <1>7, <1>8 DEF Handle

-----------------------------------------------------------------------------
(* The processes use the relay as any process may *)

LEMMA QuietUses ==
    ASSUME RelayInv, NEW p \in Peers, UNCHANGED <<room, socket, seat, down>>, up' = up,
           read' = read \/ (read[p] < Len(down[p]) /\ read' = [read EXCEPT ![p] = @ + 1])
    PROVE  Uses(p)
<1>1. up[p] \in Seq(Signals \cup {Close}) /\ Own(p, up[p])
  BY DEF RelayInv, RelayTypes
<1>2. up' = [up EXCEPT ![p] = up[p]]
  BY DEF RelayInv, RelayTypes
<1> QED
  BY <1>1, <1>2 DEF Uses

LEMMA SendsUses ==
    ASSUME RelayInv, TransferInv, NEW p \in Peers, UNCHANGED <<room, socket, seat, down>>, Sends(p),
           read' = read \/ (read[p] < Len(down[p]) /\ read' = [read EXCEPT ![p] = @ + 1])
    PROVE  Uses(p)
<1> DEFINE m == Signal(p, proc[p].sent + 1)
           w == up[p]
<1>1. w \in Seq(Signals \cup {Close}) /\ Own(p, w)
  BY DEF RelayInv, RelayTypes
<1>2. m \in Signals /\ m.from = p
  <2>1. proc[p].sent + 1 \in Nat
    BY ProcTyped
  <2> QED
    BY <2>1 DEF Signal, Signals
<1>3. seat[p] \in Roles
  <2>1. proc[p].phase \in Phases /\ Alone(p, proc[p]) /\ proc[p].phase \notin Ended \cup Early
    BY ProcTyped DEF Sends
  <2> QED
    BY <2>1, RolesApart DEF Alone, Phases
<1> HIDE DEF m, w
<1>4. /\ Append(w, m) \in Seq(Signals \cup {Close}) /\ Len(w) \in Nat
      /\ DOMAIN w = 1 .. Len(w) /\ DOMAIN Append(w, m) = 1 .. (Len(w) + 1)
      /\ \A i \in 1 .. Len(w) : Append(w, m)[i] = w[i]
      /\ Append(w, m)[Len(w) + 1] = m
  BY <1>1, <1>2, AppendParts
<1>5. Own(p, Append(w, m))
  BY <1>1, <1>2, <1>3, <1>4 DEF Own
<1>6. up' = [up EXCEPT ![p] = Append(w, m)]
  BY DEF Sends, m, w
<1> QED
  BY <1>4, <1>5, <1>6 DEF Uses

LEMMA ClosesUses ==
    ASSUME RelayInv, NEW p \in Peers, UNCHANGED <<room, socket, seat, down>>, Closes(p),
           read' = read \/ (read[p] < Len(down[p]) /\ read' = [read EXCEPT ![p] = @ + 1])
    PROVE  Uses(p)
<1> DEFINE w == up[p]
<1>1. w \in Seq(Signals \cup {Close}) /\ Own(p, w) /\ Len(w) \in Nat /\ DOMAIN w = 1 .. Len(w)
  BY DEF RelayInv, RelayTypes
<1>2. PICK k \in 0 .. Len(w) : up' = [up EXCEPT ![p] = Append(SubSeq(w, 1, k), Close)]
  BY DEF Closes
<1> HIDE DEF w
<1> DEFINE v == SubSeq(w, 1, k)
<1>3. /\ v \in Seq(Signals \cup {Close}) /\ Len(v) = k /\ DOMAIN v = 1 .. k
      /\ \A i \in 1 .. k : v[i] = w[i] /\ i \in DOMAIN w
  BY <1>1, <1>2
<1> HIDE DEF v
<1>4. /\ Append(v, Close) \in Seq(Signals \cup {Close})
      /\ DOMAIN Append(v, Close) = 1 .. (k + 1)
      /\ \A i \in 1 .. k : Append(v, Close)[i] = v[i]
      /\ Append(v, Close)[k + 1] = Close
  BY <1>3, AppendParts
<1>5. Own(p, Append(v, Close))
  BY <1>1, <1>2, <1>3, <1>4 DEF Own
<1>6. up' = [up EXCEPT ![p] = Append(v, Close)]
  BY <1>2 DEF v
<1> QED
  BY <1>4, <1>5, <1>6 DEF Uses

LEMMA KindsUses ==
    ASSUME RelayInv, TransferInv, NEW p \in Peers, UNCHANGED <<room, socket, seat, down>>,
           Kinds(p) \/ Hears(p),
           read' = read \/ (read[p] < Len(down[p]) /\ read' = [read EXCEPT ![p] = @ + 1])
    PROVE  Uses(p)
BY QuietUses, SendsUses, ClosesUses DEF Kinds, Quietly, Hears

LEMMA ConnectOpens ==
    ASSUME HeardInv, NEW p \in Peers, Connect(p)
    PROVE  Opens(p)
BY DEF HeardInv, Connect, Opens, room

\* Every step is one of the relay's server, or of a process that uses it as it may.
LEMMA NextRefines ==
    ASSUME RelayInv, HeardInv, TransferInv, [Next]_vars
    PROVE  [RelayNext]_relayVars
<1>1. ASSUME NEW p \in Peers, Connect(p) \/ Runs(p) \/ TimeOut(p) \/ Kill(p)
      PROVE  ServerStep(p) \/ Opens(p) \/ Uses(p)
  <2>1. CASE Connect(p)
    BY <2>1, ConnectOpens
  <2>2. CASE Serve(p)
    BY <2>2 DEF Serve
  <2>3. CASE Handle(p)
    BY <2>3, HandleKinds, KindsUses
  <2>4. CASE \/ Attach(p) \/ Publish(p) \/ (\E q \in Peers : Dial(p, q)) \/ Deliver(p)
             \/ OnOpen(p) \/ HearReady(p) \/ SendFrame(p) \/ SendThrows(p) \/ ReadFrame(p)
             \/ Drained(p) \/ HearResult(p) \/ PartnerLeft(p) \/ TimeOut(p) \/ Kill(p)
    <3>1. Alike /\ Kinds(p)
      BY <2>4, ActKinds
    <3> QED
      BY <3>1, KindsUses DEF Alike
  <2> QED
    BY <1>1, <2>1, <2>2, <2>3, <2>4 DEF Runs
<1>2. CASE UNCHANGED vars
  BY <1>2 DEF vars
<1> QED
  BY <1>1, <1>2 DEF Next, RelayNext

-----------------------------------------------------------------------------
(* What the server tells *)

LEMMA FailDown ==
    ASSUME RelayTypes, NEW p \in Peers, NEW x, Fail(p, x)
    PROVE  \A q \in Peers :
              /\ down'[q] = IF q = p /\ socket[p] \in {"connecting", "open"}
                            THEN down[p] \o <<Failure(x), Close>> ELSE down[q]
              /\ socket'[q] = IF q = p /\ socket[p] \in {"connecting", "open"}
                              THEN "failing" ELSE socket[q]
<1> DEFINE s == IF socket[p] \in {"connecting", "open"} THEN <<Failure(x), Close>> ELSE <<>>
<1>1. down' = [down EXCEPT ![p] = down[p] \o s] /\ down \in [Peers -> Seq(Messages)]
      /\ socket \in [Peers -> SocketStates]
  BY DEF Fail, RelayTypes
<1>2. down[p] \o <<>> = down[p]
  BY <1>1
<1>3. \A q \in Peers : socket'[q] = IF q = p /\ socket[p] \in {"connecting", "open"}
                                    THEN "failing" ELSE socket[q]
  BY <1>1 DEF Fail
<1> QED
  BY <1>1, <1>2, <1>3

\* Who is told what when p takes its seat.
JoinTells(p, r, o) ==
    /\ r \in Roles /\ o = slots[OtherRole(r)] /\ o # p /\ slots[r] = NoPeer /\ seat[p] = "none"
    /\ socket[p] = "connecting" /\ down[p] = <<>>
    /\ \A x \in Roles : slots'[x] = IF x = r THEN p ELSE slots[x]
    /\ \A x \in Peers : /\ socket'[x] = IF x = p THEN "open" ELSE socket[x]
                        /\ seat'[x] = IF x = p THEN r ELSE seat[x]
                        /\ down'[x] = IF x = p
                                      THEN <<Joined(r)>> \o (IF o = NoPeer THEN <<>>
                                                             ELSE <<Ready>> \o pending[OtherRole(r)])
                                      ELSE IF x = o /\ IsOpen(o) THEN down[o] \o <<Ready>>
                                      ELSE down[x]
    /\ pending' = IF o = NoPeer THEN pending ELSE [x \in Roles |-> <<>>]
    /\ up' = up /\ read' = read

LEMMA JoinDown ==
    ASSUME RelayInv, NEW p \in Peers, Join(p)
    PROVE  \E r, o : JoinTells(p, r, o)
<1>0. RelayTypes /\ SeatInv
  BY DEF RelayInv
<1>1. PICK r : r = RoleFor(p)
  OBVIOUS
<1>2. PICK o : o = slots[OtherRole(r)]
  OBVIOUS
<1>3. PICK g : g = IF o = NoPeer THEN <<>> ELSE Greeting(r)
  OBVIOUS
<1>4. PICK d : d = SendTo(o, Greeting(OtherRole(r)))
  OBVIOUS
<1>5. /\ r \in Roles /\ OtherRole(r) \in Roles /\ OtherRole(OtherRole(r)) = r
      /\ o \in Peers \cup {NoPeer}
  BY <1>0, <1>1, <1>2, RoleForType, OtherRoles DEF RelayTypes
<1>6. /\ socket[p] = "connecting" /\ slots[r] = NoPeer
      /\ slots' = [slots EXCEPT ![r] = p] /\ seat' = [seat EXCEPT ![p] = r]
      /\ socket' = [socket EXCEPT ![p] = "open"]
      /\ pending' = IF o = NoPeer THEN pending ELSE [x \in Roles |-> <<>>]
      /\ down' = [d EXCEPT ![p] = d[p] \o <<Joined(r)>> \o g]
      /\ up' = up /\ read' = read
  BY <1>1, <1>2, <1>3, <1>4 DEF Join
<1>7. down[p] = <<>> /\ seat[p] = "none" /\ pending[r] = <<>> /\ o # p
  <2>1. p # NoPeer /\ socket[p] \notin {"open", "failing", "leaving"}
    BY <1>6, RelayAssumption
  <2>2. o # NoPeer => socket[o] \in {"open", "failing", "leaving"}
    BY <1>0, <1>2, <1>5 DEF SeatInv
  <2> QED
    BY <1>0, <1>5, <1>6, <2>1, <2>2 DEF SeatInv
<1>8. g = IF o = NoPeer THEN <<>> ELSE <<Ready>> \o pending[OtherRole(r)]
  BY <1>3 DEF Greeting
<1>9. \A x \in Peers : d[x] = IF x = o /\ IsOpen(o) THEN down[o] \o <<Ready>> ELSE down[x]
  <2>1. Greeting(OtherRole(r)) = <<Ready>>
    <3>1. Greeting(OtherRole(r)) = <<Ready>> \o <<>>
      BY <1>5, <1>7 DEF Greeting
    <3>2. <<Ready>> \in Seq(Messages)
      BY NoticesTyped DEF Messages
    <3> QED
      BY <3>1, <3>2
  <2> QED
    BY <1>0, <1>4, <2>1 DEF SendTo, RelayTypes
<1>10. \E D : down' = D /\ D = [d EXCEPT ![p] = <<Joined(r)>> \o g] /\ DOMAIN d = Peers
  <2>1. d[p] = <<>>
    BY <1>7, <1>9
  <2>2. <<>> \o <<Joined(r)>> = <<Joined(r)>>
    OBVIOUS
  <2>3. DOMAIN d = Peers
    BY <1>0, <1>4 DEF SendTo, RelayTypes
  <2> QED
    BY <1>6, <2>1, <2>2, <2>3
<1>11. \A x \in Peers : down'[x] = IF x = p THEN <<Joined(r)>> \o g ELSE d[x]
  BY <1>10
<1>12. /\ \A x \in Roles : slots'[x] = IF x = r THEN p ELSE slots[x]
       /\ \A x \in Peers : /\ socket'[x] = IF x = p THEN "open" ELSE socket[x]
                           /\ seat'[x] = IF x = p THEN r ELSE seat[x]
  BY <1>0, <1>6 DEF RelayTypes
<1>13. JoinTells(p, r, o)
  BY <1>2, <1>5, <1>6, <1>7, <1>8, <1>9, <1>11, <1>12 DEF JoinTells
<1> QED
  BY <1>13

\* Who is told what when p has left.
LeaveTells(p, o) ==
    /\ socket[p] = "leaving"
    /\ \A x \in Peers : /\ socket'[x] = IF x = p THEN "closed" ELSE socket[x]
                        /\ read'[x] = IF x = p THEN 0 ELSE read[x]
                        /\ down'[x] = IF x = p THEN <<>>
                                      ELSE IF x = o THEN down[x] \o <<PeerLeft>> ELSE down[x]
    /\ \/ UNCHANGED room
       \/ pending' = [x \in Roles |-> <<>>] /\ \A x \in Roles : slots'[x] \in {slots[x], NoPeer}
    /\ UNCHANGED <<seat, up>>

LEMMA LeaveDown ==
    ASSUME RelayInv, NEW p \in Peers, Leave(p)
    PROVE  \E o : LeaveTells(p, o)
<1>0. RelayTypes
  BY DEF RelayInv
<1>1. PICK r : r = seat[p]
  OBVIOUS
<1>2. /\ socket[p] = "leaving" /\ socket' = [socket EXCEPT ![p] = "closed"]
      /\ read' = [read EXCEPT ![p] = 0] /\ UNCHANGED <<seat, up>>
  BY DEF Leave
<1>3. \A x \in Peers : /\ socket'[x] = IF x = p THEN "closed" ELSE socket[x]
                       /\ read'[x] = IF x = p THEN 0 ELSE read[x]
  BY <1>0, <1>2 DEF RelayTypes
<1>4. CASE r # "none" /\ slots[r] = p
  <2>1. PICK d : d = Farewell(r)
    OBVIOUS
  <2>2. /\ slots' = [slots EXCEPT ![r] = NoPeer] /\ pending' = [x \in Roles |-> <<>>]
        /\ down' = [d EXCEPT ![p] = <<>>]
    BY <1>1, <1>4, <2>1 DEF Leave, AfterLeave
  <2>3. \E o : \A x \in Peers : d[x] = IF x = o THEN down[x] \o <<PeerLeft>> ELSE down[x]
    <3>1. PICK o : o = slots[OtherRole(r)]
      OBVIOUS
    <3>2. d = IF IsOpen(o) THEN [down EXCEPT ![o] = down[o] \o <<PeerLeft>>] ELSE down
      BY <2>1, <3>1 DEF Farewell, SendTo
    <3>3. CASE IsOpen(o)
      <4>1. \A x \in Peers : d[x] = IF x = o THEN down[x] \o <<PeerLeft>> ELSE down[x]
        BY <1>0, <3>2, <3>3 DEF RelayTypes
      <4> QED
        BY <4>1
    <3>4. CASE ~IsOpen(o)
      <4>1. \A x \in Peers : d[x] = IF x = NoPeer THEN down[x] \o <<PeerLeft>> ELSE down[x]
        BY <3>2, <3>4, RelayAssumption
      <4> QED
        BY <4>1
    <3> QED
      BY <3>3, <3>4
  <2>4. PICK o : \A x \in Peers : d[x] = IF x = o THEN down[x] \o <<PeerLeft>> ELSE down[x]
    BY <2>3
  <2>5. DOMAIN d = Peers
    BY <1>0, <2>1 DEF Farewell, SendTo, RelayTypes
  <2>6. \A x \in Peers : down'[x] = IF x = p THEN <<>>
                                   ELSE IF x = o THEN down[x] \o <<PeerLeft>> ELSE down[x]
    BY <2>2, <2>4, <2>5
  <2>7. \A x \in Roles : slots'[x] \in {slots[x], NoPeer}
    BY <1>0, <2>2 DEF RelayTypes
  <2>8. LeaveTells(p, o)
    BY <1>2, <1>3, <2>2, <2>6, <2>7 DEF LeaveTells
  <2> QED
    BY <2>8
<1>5. CASE ~(r # "none" /\ slots[r] = p)
  <2>1. UNCHANGED room /\ down' = [down EXCEPT ![p] = <<>>]
    BY <1>1, <1>5 DEF Leave
  <2>2. \A x \in Peers : down'[x] = IF x = p THEN <<>>
                                   ELSE IF x = NoPeer THEN down[x] \o <<PeerLeft>> ELSE down[x]
    BY <1>0, <2>1, RelayAssumption DEF RelayTypes
  <2>3. LeaveTells(p, NoPeer)
    BY <1>2, <1>3, <2>1, <2>2 DEF LeaveTells
  <2> QED
    BY <2>3
<1> QED
  BY <1>4, <1>5

\* A signal is sent on, waits, or fails its sender.
RelayTells(p, r, m) ==
    /\ r \in Roles /\ slots[r] = p /\ m \in Signals /\ m.from = p /\ m = up[p][1]
    /\ up[p] # <<>> /\ up' = [up EXCEPT ![p] = Tail(@)] /\ UNCHANGED <<slots, seat, read>>
    /\ \/ /\ \E o \in Peers :
               /\ o = slots[OtherRole(r)] /\ IsOpen(o)
               /\ \A x \in Peers : down'[x] = IF x = o THEN down[o] \o <<m>> ELSE down[x]
          /\ UNCHANGED <<pending, socket>>
       \/ /\ ~IsOpen(slots[OtherRole(r)]) /\ UNCHANGED <<socket, down>>
          /\ pending' = [pending EXCEPT ![r] = Append(@, m)]
       \/ Fail(p, "bad-message") /\ UNCHANGED pending

LEMMA RelayDown ==
    ASSUME RelayInv, NEW p \in Peers, Relay(p)
    PROVE  \E r, m : RelayTells(p, r, m)
<1>0. RelayTypes
  BY DEF RelayInv
<1>1. PICK r : r = seat[p]
  OBVIOUS
<1>2. PICK m : m = Head(up[p])
  OBVIOUS
<1>3. m \in Signals /\ m.from = p /\ r \in Roles /\ m = up[p][1]
  <2>1. up[p] # <<>> /\ m.type = "signal"
    BY <1>2 DEF Relay
  <2> QED
    BY <1>0, <1>1, <1>2, <2>1, TailOwn
<1>4. /\ up[p] # <<>> /\ up' = [up EXCEPT ![p] = Tail(@)] /\ UNCHANGED <<slots, seat, read>>
      /\ slots[r] = p
  BY <1>1 DEF Relay
<1>5. \/ /\ IsOpen(slots[OtherRole(r)]) /\ UNCHANGED <<pending, socket>>
         /\ down' = SendTo(slots[OtherRole(r)], <<m>>)
      \/ /\ ~IsOpen(slots[OtherRole(r)]) /\ UNCHANGED <<socket, down>>
         /\ pending' = [pending EXCEPT ![r] = Append(@, m)]
      \/ Fail(p, "bad-message") /\ UNCHANGED pending
  BY <1>1, <1>2 DEF Relay
<1>6. CASE /\ IsOpen(slots[OtherRole(r)]) /\ UNCHANGED <<pending, socket>>
           /\ down' = SendTo(slots[OtherRole(r)], <<m>>)
  <2>1. PICK o : o = slots[OtherRole(r)]
    OBVIOUS
  <2>2. o \in Peers /\ IsOpen(o)
    BY <1>0, <1>3, <1>6, <2>1, OtherRoles DEF RelayTypes, IsOpen
  <2>3. \A x \in Peers : down'[x] = IF x = o THEN down[o] \o <<m>> ELSE down[x]
    BY <1>0, <1>6, <2>1, <2>2 DEF SendTo, RelayTypes
  <2>4. RelayTells(p, r, m)
    BY <1>3, <1>4, <1>6, <2>1, <2>2, <2>3 DEF RelayTells
  <2> QED
    BY <2>4
<1>7. CASE ~(/\ IsOpen(slots[OtherRole(r)]) /\ UNCHANGED <<pending, socket>>
             /\ down' = SendTo(slots[OtherRole(r)], <<m>>))
  <2>1. RelayTells(p, r, m)
    BY <1>3, <1>4, <1>5, <1>7 DEF RelayTells
  <2> QED
    BY <2>1
<1> QED
  BY <1>6, <1>7

\* What is added to what a process was told, other than its role.
LEMMA FirstTold ==
    ASSUME NEW d \in Seq(Messages), NEW s \in Seq(Messages), First(d),
           \A k \in DOMAIN s : s[k].type # "joined"
    PROVE  First(d \o s)
BY DownParts DEF First

LEMMA FirstJoined ==
    ASSUME NEW s \in Seq(Messages), NEW r \in Roles, \A k \in DOMAIN s : s[k].type # "joined"
    PROVE  First(<<Joined(r)>> \o s)
<1>1. <<Joined(r)>> \in Seq(Messages) /\ DOMAIN <<Joined(r)>> = 1 .. 1
  BY NoticesTyped DEF Messages
<1>2. First(<<Joined(r)>>)
  BY <1>1 DEF First
<1> QED
  BY <1>1, <1>2, FirstTold

LEMMA ServeFirst ==
    ASSUME RelayInv, HeardInv, NEW p \in Peers, ServerStep(p), NEW x \in Peers
    PROVE  First(down'[x])
<1>0. RelayTypes /\ down[x] \in Seq(Messages) /\ First(down[x])
  BY DEF RelayInv, RelayTypes, HeardInv
<1>1. First(<<>>)
  BY DEF First
<1>2. ASSUME NEW m \in Messages, m.type # "joined"
      PROVE  First(down[x] \o <<m>>)
  <2> DEFINE s == <<m>>
  <2>1. s \in Seq(Messages) /\ \A k \in DOMAIN s : s[k].type # "joined"
    BY <1>2
  <2> HIDE DEF s
  <2>2. First(down[x] \o s)
    BY <1>0, <2>1, FirstTold
  <2> QED
    BY <2>2 DEF s
<1>3. /\ Ready \in Messages /\ PeerLeft \in Messages /\ Ready.type # "joined" /\ PeerLeft.type # "joined"
      /\ \A m \in Signals : m \in Messages /\ m.type # "joined"
  BY NoticesTyped DEF Messages
<1>4. ASSUME NEW y \in {"room-full", "role-taken", "bad-message"}, Fail(p, y)
      PROVE  First(down'[x])
  <2> DEFINE s == <<Failure(y), Close>>
  <2>1. s \in Seq(Messages) /\ \A k \in DOMAIN s : s[k].type # "joined"
    <3>1. Failure(y) \in Messages /\ Close \in Messages
          /\ Failure(y).type # "joined" /\ Close.type # "joined"
      BY NoticesTyped DEF Messages
    <3> QED
      BY <3>1
  <2>2. First(down[x] \o s)
    BY <1>0, <2>1, FirstTold
  <2> QED
    BY <1>0, <1>4, <2>2, FailDown
<1>5. CASE Refuse(p)
  BY <1>4, <1>5 DEF Refuse
<1>6. CASE Join(p)
  <2>1. PICK r, o : JoinTells(p, r, o)
    BY <1>6, JoinDown
  <2>2. PICK s : s = IF o = NoPeer THEN <<>> ELSE <<Ready>> \o pending[OtherRole(r)]
    OBVIOUS
  <2>3. r \in Roles /\ s \in Seq(Messages) /\ \A k \in DOMAIN s : s[k].type # "joined"
    <3>1. r \in Roles /\ pending[OtherRole(r)] \in Seq(Signals)
      BY <1>0, <2>1, OtherRoles DEF JoinTells, RelayTypes
    <3>2. CASE o = NoPeer
      BY <2>2, <3>1, <3>2
    <3>3. CASE o # NoPeer
      <4>1. PICK w : w = pending[OtherRole(r)]
        OBVIOUS
      <4>2. w \in Seq(Messages) /\ \A k \in DOMAIN w : w[k].type # "joined"
        BY <1>3, <3>1, <4>1 DEF Messages
      <4>3. <<Ready>> \in Seq(Messages) /\ \A k \in DOMAIN <<Ready>> : <<Ready>>[k].type # "joined"
        BY <1>3
      <4>4. s = <<Ready>> \o w
        BY <2>2, <3>3, <4>1
      <4> QED
        BY <3>1, <4>2, <4>3, <4>4, DownParts
    <3> QED
      BY <3>2, <3>3
  <2>4. First(<<Joined(r)>> \o s)
    BY <2>3, FirstJoined
  <2>5. First(down[x] \o <<Ready>>)
    BY <1>2, <1>3
  <2>6. down'[x] = IF x = p THEN <<Joined(r)>> \o s
                   ELSE IF x = o /\ IsOpen(o) THEN down[o] \o <<Ready>> ELSE down[x]
    BY <2>1, <2>2 DEF JoinTells
  <2> QED
    BY <1>0, <2>4, <2>5, <2>6
<1>7. CASE Relay(p)
  <2>1. PICK r, m : RelayTells(p, r, m)
    BY <1>7, RelayDown
  <2>2. First(down[x] \o <<m>>)
    BY <1>2, <1>3, <2>1 DEF RelayTells
  <2> QED
    BY <1>0, <1>4, <2>1, <2>2 DEF RelayTells
<1>8. CASE HearClose(p)
  BY <1>0, <1>8 DEF HearClose
<1>9. CASE Leave(p)
  <2>1. PICK o : LeaveTells(p, o)
    BY <1>9, LeaveDown
  <2>2. First(down[x] \o <<PeerLeft>>)
    BY <1>2, <1>3
  <2> QED
    BY <1>0, <1>1, <2>1, <2>2 DEF LeaveTells
<1> QED
  BY <1>5, <1>6, <1>7, <1>8, <1>9 DEF ServerStep

\* What is heard first is a signal, or the close of a process that has ended.
LEMMA CloseEnds ==
    ASSUME RelayInv, HeardInv, NEW p \in Peers, HearClose(p)
    PROVE  proc[p].phase \in Ended /\ up[p] # <<>>
<1>1. up[p] # <<>> /\ Head(up[p]).type = "close" /\ up[p] \in Seq(Signals \cup {Close})
  BY DEF HearClose, RelayInv, RelayTypes
<1>2. Head(up[p]) \in Signals \cup {Close} /\ Head(up[p]) = up[p][1] /\ 1 \in DOMAIN up[p]
  BY <1>1
<1>3. up[p][1] = Close
  BY <1>1, <1>2, MessageTypes
<1> QED
  BY <1>1, <1>2, <1>3 DEF HeardInv

LEMMA ServeHeard ==
    ASSUME RelayInv, HeardInv, NEW p \in Peers, ServerStep(p), UNCHANGED proc
    PROVE  HeardInv'
<1>0. RelayTypes /\ SeatInv
  BY DEF RelayInv
<1>1. \A x \in Peers : /\ x # p => socket'[x] = socket[x] /\ up'[x] = up[x] /\ read'[x] = read[x]
                       /\ socket[p] = "none" => up[p] # <<>>
                       /\ socket'[p] \in {"leaving", "closed"} =>
                             socket[p] \in {"leaving", "closed"} \/ proc[p].phase \in Ended
                       /\ read'[p] = read[p] \/ socket[p] = "leaving"
                       /\ up'[p] = up[p] \/ up'[p] = <<>> \/ (up[p] # <<>> /\ up'[p] = Tail(up[p]))
  <2>1. CASE Refuse(p)
    <3>1. PICK y : Fail(p, y)
      BY <2>1 DEF Refuse
    <3> QED
      BY <1>0, <2>1, <3>1, FailDown DEF Refuse
  <2>2. CASE Join(p)
    BY <1>0, <2>2 DEF Join, RelayTypes
  <2>3. CASE Relay(p)
    <3>1. PICK r, m : RelayTells(p, r, m)
      BY <2>3, RelayDown
    <3>2. up[p] # <<>> /\ up' = [up EXCEPT ![p] = Tail(@)] /\ read' = read
          /\ (socket' = socket \/ Fail(p, "bad-message"))
      BY <3>1 DEF RelayTells
    <3>3. \A x \in Peers : socket'[x] = socket[x] \/ (x = p /\ socket'[x] = "failing")
      BY <1>0, <3>2, FailDown
    <3>4. \A x \in Peers : up'[x] = IF x = p THEN Tail(up[p]) ELSE up[x]
      BY <1>0, <3>2 DEF RelayTypes
    <3> QED
      BY <3>2, <3>3, <3>4
  <2>4. CASE HearClose(p)
    BY <1>0, <2>4, CloseEnds DEF HearClose, RelayTypes
  <2>5. CASE Leave(p)
    <3>1. PICK o : LeaveTells(p, o)
      BY <2>5, LeaveDown
    <3> QED
      BY <3>1 DEF LeaveTells
  <2> QED
    BY <2>1, <2>2, <2>3, <2>4, <2>5 DEF ServerStep
<1>2. ~In(p, "off")
  BY <1>1 DEF HeardInv
<1>3. ASSUME NEW x \in Peers, In(x, "off") PROVE socket'[x] = "none" /\ up'[x] = <<>>
  BY <1>1, <1>2, <1>3 DEF HeardInv
<1>4. ASSUME NEW x \in Peers, proc[x].phase \notin Ended
      PROVE  socket'[x] \notin {"leaving", "closed"} /\ \A i \in DOMAIN up'[x] : up'[x][i] # Close
  <2>1. socket[x] \notin {"leaving", "closed"} /\ \A i \in DOMAIN up[x] : up[x][i] # Close
    BY <1>4 DEF HeardInv
  <2>2. socket'[x] \notin {"leaving", "closed"}
    BY <1>1, <1>4, <2>1
  <2>3. CASE up'[x] = up[x] \/ up'[x] = <<>>
    BY <2>1, <2>2, <2>3
  <2>4. CASE up[x] # <<>> /\ up'[x] = Tail(up[x])
    <3>1. up[x] \in Seq(Signals \cup {Close})
      BY <1>0 DEF RelayTypes
    <3>2. \A i \in DOMAIN Tail(up[x]) : i + 1 \in DOMAIN up[x] /\ Tail(up[x])[i] = up[x][i + 1]
      BY <2>4, <3>1
    <3> QED
      BY <2>1, <2>2, <2>4, <3>2
  <2> QED
    BY <1>1, <2>3, <2>4
<1>5. ASSUME NEW x \in Peers, Live(x), ~In(x, "joining") PROVE read'[x] >= 1
  <2>1. read[x] >= 1 /\ proc[x].phase \notin Ended
    BY <1>5 DEF HeardInv, Live
  <2>2. socket[x] # "leaving"
    BY <2>1 DEF HeardInv
  <2> QED
    BY <1>1, <2>1, <2>2
<1>6. \A x \in Peers : First(down'[x])
  BY ServeFirst
<1> QED
  BY <1>3, <1>4, <1>5, <1>6 DEF HeardInv, In, Live

LEMMA KindsHeard ==
    ASSUME RelayInv, HeardInv, TransferInv, NEW p \in Peers, UNCHANGED <<room, socket, seat, down>>,
           \/ Kinds(p) /\ read' = read
           \/ (Kinds(p) \/ Hears(p)) /\ read' = [read EXCEPT ![p] = @ + 1]
    PROVE  HeardInv'
<1>0. RelayTypes
  BY DEF RelayInv
<1>1. \A x \in Peers : read[x] \in Nat /\ read'[x] \in Nat /\ read'[x] >= read[x]
  <2>1. read \in [Peers -> Nat]
    BY <1>0 DEF RelayTypes
  <2>2. CASE read' = [read EXCEPT ![p] = read[p] + 1]
    BY <2>1, <2>2
  <2> QED
    BY <2>1, <2>2
<1>2. \A x \in Peers : /\ proc'[x].phase = "off" => proc[x].phase = "off" /\ up'[x] = up[x]
                       /\ proc'[x].phase \notin Ended => proc[x].phase \notin Ended
                       /\ Live(x)' /\ ~In(x, "joining")' =>
                             \/ Live(x) /\ ~In(x, "joining")
                             \/ x = p /\ read' = [read EXCEPT ![p] = @ + 1]
  <2>1. "off" \in Early /\ "off" \notin Ended /\ "joining" \in Early /\ "joining" \notin Ended
        /\ "joined" \notin Ended /\ "joined" # "off"
    BY DEF Early, Ended
  <2>2. CASE Quietly
    BY <2>1, <2>2 DEF Quietly, Live, In
  <2>3. CASE Sends(p)
    <3>1. \A x \in Peers : x # p => up'[x] = up[x]
      BY <1>0, <2>3 DEF Sends, RelayTypes
    <3> QED
      BY <2>1, <2>3, <3>1 DEF Sends, Live, In
  <2>4. CASE Closes(p)
    <3>1. \A x \in Peers : x # p => up'[x] = up[x]
      BY <1>0, <2>4 DEF Closes, RelayTypes
    <3> QED
      BY <2>1, <2>4, <3>1 DEF Closes, Live, In
  <2>5. CASE Hears(p) /\ read' = [read EXCEPT ![p] = @ + 1]
    BY <2>1, <2>5 DEF Hears, Live, In
  <2> QED
    BY <2>2, <2>3, <2>4, <2>5 DEF Kinds
<1>3. ASSUME NEW x \in Peers, proc'[x].phase \notin Ended
      PROVE  \A i \in DOMAIN up'[x] : up'[x][i] # Close
  <2>1. \A i \in DOMAIN up[x] : up[x][i] # Close
    BY <1>2, <1>3 DEF HeardInv
  <2>2. CASE up'[x] = up[x]
    BY <2>1, <2>2
  <2>3. CASE Sends(p) /\ x = p
    <3>1. PICK m : m = Signal(p, proc[p].sent + 1)
      OBVIOUS
    <3>2. m \in Signals
      <4>1. proc[p].sent + 1 \in Nat
        BY ProcTyped
      <4> QED
        BY <3>1, <4>1 DEF Signal, Signals
    <3>3. up'[x] = Append(up[x], m) /\ up[x] \in Seq(Signals \cup {Close})
      BY <1>0, <2>3, <3>1 DEF Sends, RelayTypes
    <3>4. m # Close
      BY <3>2 DEF Signals, Close
    <3>5. \A i \in DOMAIN Append(up[x], m) :
             (i \in DOMAIN up[x] /\ Append(up[x], m)[i] = up[x][i]) \/ Append(up[x], m)[i] = m
      BY <3>2, <3>3
    <3> QED
      BY <2>1, <3>3, <3>4, <3>5
  <2>4. CASE up'[x] # up[x] /\ ~(Sends(p) /\ x = p)
    <3>1. x = p /\ Closes(p)
      <4>1. Sends(p) => \A y \in Peers : y # p => up'[y] = up[y]
        BY <1>0 DEF Sends, RelayTypes
      <4>2. Closes(p) => \A y \in Peers : y # p => up'[y] = up[y]
        BY <1>0 DEF Closes, RelayTypes
      <4> QED
        BY <2>4, <4>1, <4>2 DEF Kinds, Quietly, Hears
    <3> QED
      BY <1>3, <3>1 DEF Closes
  <2> QED
    BY <2>2, <2>3, <2>4
<1>4. ASSUME NEW x \in Peers, Live(x)', ~In(x, "joining")' PROVE read'[x] >= 1
  <2>1. CASE Live(x) /\ ~In(x, "joining")
    <3>1. read[x] >= 1
      BY <2>1 DEF HeardInv
    <3> QED
      BY <1>1, <3>1
  <2>2. CASE x = p /\ read' = [read EXCEPT ![p] = @ + 1]
    <3>1. read \in [Peers -> Nat]
      BY <1>0 DEF RelayTypes
    <3> QED
      BY <2>2, <3>1
  <2> QED
    BY <1>2, <1>4, <2>1, <2>2
<1> QED
  BY <1>2, <1>3, <1>4 DEF HeardInv, In

LEMMA NextHeard ==
    ASSUME RelayInv, HeardInv, TransferInv, [Next]_vars
    PROVE  HeardInv'
<1>1. ASSUME NEW p \in Peers, Connect(p) \/ Runs(p) \/ TimeOut(p) \/ Kill(p)
      PROVE  HeardInv'
  <2>1. CASE Connect(p)
    <3>1. /\ In(p, "off") /\ UNCHANGED <<room, seat, up, down, read>>
          /\ proc \in [Peers -> Procs] /\ socket \in [Peers -> SocketStates]
          /\ proc' = [proc EXCEPT ![p].phase = "joining"]
          /\ socket' = [socket EXCEPT ![p] = "connecting"]
      BY <2>1 DEF Connect, TransferInv, RelayInv, RelayTypes
    <3>2. \A x \in Peers : /\ proc'[x].phase = IF x = p THEN "joining" ELSE proc[x].phase
                           /\ socket'[x] = IF x = p THEN "connecting" ELSE socket[x]
      BY <3>1 DEF Procs
    <3>3. "off" \notin Ended
      BY DEF Ended
    <3> QED
      BY <3>1, <3>2, <3>3 DEF HeardInv, In, Live
  <2>2. CASE Serve(p)
    BY <2>2, ServeHeard DEF Serve
  <2>3. CASE Handle(p)
    BY <2>3, HandleKinds, KindsHeard
  <2>4. CASE \/ Attach(p) \/ Publish(p) \/ (\E q \in Peers : Dial(p, q)) \/ Deliver(p)
             \/ OnOpen(p) \/ HearReady(p) \/ SendFrame(p) \/ SendThrows(p) \/ ReadFrame(p)
             \/ Drained(p) \/ HearResult(p) \/ PartnerLeft(p) \/ TimeOut(p) \/ Kill(p)
    <3>1. Alike /\ Kinds(p)
      BY <2>4, ActKinds
    <3> QED
      BY <3>1, KindsHeard DEF Alike
  <2> QED
    BY <1>1, <2>1, <2>2, <2>3, <2>4 DEF Runs
<1>2. CASE UNCHANGED vars
  BY <1>2 DEF vars, relayVars, HeardInv, In, Live
<1> QED
  BY <1>1, <1>2 DEF Next

LEMMA InitTransfer == Init => RelayInv /\ HeardInv /\ TransferInv
<1> SUFFICES ASSUME Init PROVE RelayInv /\ HeardInv /\ TransferInv
  OBVIOUS
<1>1. RelayInv
  BY InitRelay DEF Init
<1>2. /\ proc = [p \in Peers |-> Fresh] /\ disturbed = {} /\ Fresh \in Procs
      /\ Fresh.phase = "off" /\ Fresh.channel = NoPeer /\ Fresh.sent = 0
      /\ Fresh.buffer = <<>> /\ Fresh.inbox = <<>> /\ Fresh.moved = <<>>
  BY FreshProc DEF Init, Fresh
<1>3. HeardInv
  <2>1. \A p \in Peers : proc[p].phase = "off" /\ ~Live(p) /\ In(p, "off")
    BY <1>2 DEF Live, In
  <2>2. \A p \in Peers : socket[p] = "none" /\ up[p] = <<>> /\ down[p] = <<>>
    BY DEF Init, RelayInit
  <2>3. First(<<>>) /\ DOMAIN <<>> = {}
    BY DEF First
  <2> QED
    BY <2>1, <2>2, <2>3 DEF HeardInv
<1>4. TransferInv
  <2>1. "off" \in Early /\ "off" \notin Offering \cup Answering \cup Ended
    BY DEF Early, Offering, Answering, Ended
  <2>2. \A p \in Peers : proc[p] = Fresh /\ Candidates[p] \in Nat
    BY <1>2, TransferAssumption
  <2>3. \A p \in Peers : Alone(p, proc[p])
    BY <1>2, <2>1, <2>2 DEF Alone
  <2>4. \A p \in Peers : Paired(p) /\ Jointly(p)
    BY <1>2, <2>2 DEF Paired, Jointly
  <2> QED
    BY <1>2, <2>3, <2>4 DEF TransferInv
<1> QED
  BY <1>1, <1>3, <1>4

LEMMA TransferAlways == Spec => [](RelayInv /\ HeardInv /\ TransferInv)
<1>1. RelayInv /\ HeardInv /\ TransferInv /\ [Next]_vars => (RelayInv /\ HeardInv /\ TransferInv)'
  BY NextRefines, NextRelay, NextHeard, NextTransfer
<1> QED
  BY <1>1, InitTransfer, PTL DEF Spec

-----------------------------------------------------------------------------
(* What the processes and the relay promise together *)

\* The scripts' processes are among those the relay was proved for: they open one socket
\* each, send signals of their own once they have a seat, and close behind what they sent.
THEOREM TransferUsesRelay == Spec => RelaySpec
<1>1. RelayInv /\ HeardInv /\ TransferInv /\ [Next]_vars => [RelayNext]_relayVars
  BY NextRefines
<1>2. Init => RelayInit
  BY DEF Init
<1> QED
  BY <1>1, <1>2, TransferAlways, PTL DEF Spec, RelaySpec

\* The memory of the processes and the relay's variables keep their types: no process
\* sends more signals than it has candidates and a description.
THEOREM TransferTypeCorrect == Spec => []TypeOK
<1>1. RelayTypeOK /\ TransferInv => TypeOK
  <2> SUFFICES ASSUME RelayTypeOK, TransferInv, NEW p \in Peers
               PROVE  /\ disturbed \subseteq Peers
                      /\ DOMAIN proc[p] = DOMAIN Fresh
                      /\ proc[p].sent \in 0 .. 1 + Candidates[p]
                      /\ proc[p].remote \in Peers \cup {NoPeer}
                      /\ proc[p].channel \in Peers \cup {NoPeer}
    BY DEF TypeOK, TransferInv
  <2>1. proc[p] \in Procs /\ Alone(p, proc[p]) /\ disturbed \subseteq Peers
    BY DEF TransferInv
  <2>2. DOMAIN proc[p] = DOMAIN Fresh
    BY <2>1 DEF Procs, Fresh
  <2>3. proc[p].sent \in Nat /\ proc[p].sent <= 1 + Candidates[p] /\ Candidates[p] \in Nat
    BY <2>1, TransferAssumption DEF Alone, Procs
  <2>4. proc[p].remote \in Peers \cup {NoPeer} /\ proc[p].channel \in Peers \cup {NoPeer}
    BY <2>1 DEF Procs
  <2> QED
    BY <2>1, <2>2, <2>3, <2>4
<1> QED
  BY <1>1, TransferUsesRelay, RelayTypeCorrect, TransferAlways, PTL

\* The payload arrives whole and in order, however small the send buffer and whoever leaves
\* or is killed: neither the answerer nor the offerer finds another payload (overWs).
THEOREM NeverMismatched == Spec => []NoMismatch
<1>1. TransferInv => NoMismatch
  BY DEF TransferInv, Alone, NoMismatch, In
<1> QED
  BY <1>1, TransferAlways, PTL

\* What was proved of the relay among processes that do what they like holds among those
\* of the scripts.
THEOREM PeersAlwaysInformed == Spec => [](EmptyRoomIsFresh /\ PresenceIsKnown /\ SignalsAreOfPartner)
BY TransferUsesRelay, EmptyRoomAlwaysFresh, PresenceAlwaysKnown, SignalsAlwaysOfPartner, PTL

-----------------------------------------------------------------------------
(* The order of the signals *)

Mine(m, q) == m.type = "signal" /\ m.from = q

\* What q has sent after its k-th signal is on its way, and all of it as long as q lives.
Follows(q, k) ==
    /\ \A i \in DOMAIN up[q] : up[q][i] = Close \/ up[q][i].n = k + i
    /\ proc[q].phase \notin Ended =>
          (\A i \in DOMAIN up[q] : up[q][i] # Close) /\ proc[q].sent = k + Len(up[q])

\* The signals of w are consecutive ones.
Run(w) == \A i \in DOMAIN w : w[i].n + Len(w) = w[Len(w)].n + i

\* The i-th message of d is the last that q sent; and those that q sent are consecutive.
LastOf(d, q, i) == Mine(d[i], q) /\ \A j \in DOMAIN d : j > i => ~Mine(d[j], q)
Ordered(d, q) ==
    \A i, j \in DOMAIN d :
        Mine(d[i], q) /\ Mine(d[j], q) /\ i < j
        /\ (\A k \in DOMAIN d : Mine(d[k], q) => k <= i \/ k >= j) => d[j].n = d[i].n + 1

\* A signal of q goes on from the last of q that its partner has or that waits in the room.
OrderInv ==
    /\ \A q \in Peers : \E k \in Nat : Follows(q, k)
    /\ \A r \in Roles : LET w == pending[r]
                        IN  IsOpen(slots[r]) /\ w # <<>> =>
                               Run(w) /\ Follows(slots[r], w[Len(w)].n)
    /\ \A p, q \in Peers : IsOpen(p) /\ IsOpen(q) =>
          \A i \in DOMAIN down[p] : LastOf(down[p], q, i) => Follows(q, down[p][i].n)
    /\ \A p, q \in Peers : IsOpen(q) => Ordered(down[p], q)
    /\ \A p \in Peers : \A i \in DOMAIN down[p] : down[p][i].type = "signal" =>
          seat[p] \in Roles /\ down[p][i].from \in Peers
          /\ seat[down[p][i].from] = OtherRole(seat[p])

\* The signals of e are those of d.
SameSignals(d, e) ==
    /\ \A i \in DOMAIN e : e[i].type = "signal" => i \in DOMAIN d /\ e[i] = d[i]
    /\ \A q : Ordered(d, q) => Ordered(e, q)
    /\ \A q : \A i \in DOMAIN e : LastOf(e, q, i) => i \in DOMAIN d /\ LastOf(d, q, i)

LEMMA AddNotices ==
    ASSUME NEW d \in Seq(Messages), NEW s \in Seq(Messages),
           \A k \in DOMAIN s : s[k].type # "signal"
    PROVE  SameSignals(d, d \o s)
<1>0. PICK e : e = d \o s
  OBVIOUS
<1>1. /\ Len(d) \in Nat /\ Len(s) \in Nat
      /\ DOMAIN d = 1 .. Len(d) /\ DOMAIN s = 1 .. Len(s) /\ DOMAIN e = 1 .. (Len(d) + Len(s))
      /\ \A k \in 1 .. Len(d) : e[k] = d[k]
      /\ \A k \in 1 .. Len(s) : e[Len(d) + k] = s[k]
  BY <1>0, ConcatParts
<1>2. DOMAIN d \subseteq DOMAIN e /\ \A k \in DOMAIN d : e[k] = d[k]
  BY <1>1
<1>3. ASSUME NEW i \in DOMAIN e, e[i].type = "signal" PROVE i \in DOMAIN d /\ e[i] = d[i]
  <2>1. i > Len(d) => i - Len(d) \in 1 .. Len(s) /\ Len(d) + (i - Len(d)) = i
    BY <1>1
  <2>2. ~(i > Len(d))
    BY <1>1, <1>3, <2>1
  <2> QED
    BY <1>1, <2>2
<1>4. \A q : \A i \in DOMAIN e : Mine(e[i], q) => i \in DOMAIN d /\ e[i] = d[i]
  BY <1>3 DEF Mine
<1>5. ASSUME NEW q, Ordered(d, q) PROVE Ordered(e, q)
  <2> SUFFICES ASSUME NEW i \in DOMAIN e, NEW j \in DOMAIN e, Mine(e[i], q), Mine(e[j], q), i < j,
                      \A k \in DOMAIN e : Mine(e[k], q) => k <= i \/ k >= j
               PROVE  e[j].n = e[i].n + 1
    BY DEF Ordered
  <2>1. i \in DOMAIN d /\ j \in DOMAIN d /\ e[i] = d[i] /\ e[j] = d[j]
    BY <1>4
  <2>2. \A k \in DOMAIN d : Mine(d[k], q) => k <= i \/ k >= j
    BY <1>2
  <2> QED
    BY <1>5, <2>1, <2>2 DEF Ordered
<1>6. ASSUME NEW q, NEW i \in DOMAIN e, LastOf(e, q, i) PROVE i \in DOMAIN d /\ LastOf(d, q, i)
  BY <1>2, <1>4, <1>6 DEF LastOf
<1> QED
  BY <1>0, <1>3, <1>5, <1>6 DEF SameSignals

\* The signal m comes after those of d.
OneMore(d, m, e) ==
    /\ \A i \in DOMAIN e : e[i] = m \/ (i \in DOMAIN d /\ e[i] = d[i])
    /\ \A q : /\ Ordered(d, q)
              /\ m.from = q => \A i \in DOMAIN d : LastOf(d, q, i) => m.n = d[i].n + 1
              => Ordered(e, q)
    /\ \A q : \A i \in DOMAIN e : LastOf(e, q, i) =>
          IF m.from = q THEN e[i] = m ELSE i \in DOMAIN d /\ LastOf(d, q, i) /\ e[i] = d[i]

LEMMA AddSignal ==
    ASSUME NEW d \in Seq(Messages), NEW m \in Signals
    PROVE  OneMore(d, m, d \o <<m>>)
<1>0. PICK e : e = d \o <<m>>
  OBVIOUS
<1>1. <<m>> \in Seq(Messages) /\ Len(<<m>>) = 1 /\ <<m>>[1] = m
  BY DEF Messages
<1>2. /\ Len(d) \in Nat /\ DOMAIN d = 1 .. Len(d) /\ DOMAIN e = 1 .. (Len(d) + 1)
      /\ \A k \in 1 .. Len(d) : e[k] = d[k]
      /\ e[Len(d) + 1] = m
  BY <1>0, <1>1, ConcatParts
<1>3. /\ DOMAIN d \subseteq DOMAIN e /\ \A k \in DOMAIN d : e[k] = d[k]
      /\ \A i \in DOMAIN e : i \in DOMAIN d \/ (i = Len(d) + 1 /\ e[i] = m)
      /\ \A i \in DOMAIN d : i < Len(d) + 1
  BY <1>2
<1>4. \A q : Mine(m, q) <=> m.from = q
  BY MessageTypes DEF Mine
<1>5. ASSUME NEW q, Ordered(d, q),
             m.from = q => \A i \in DOMAIN d : LastOf(d, q, i) => m.n = d[i].n + 1
      PROVE  Ordered(e, q)
  <2> SUFFICES ASSUME NEW i \in DOMAIN e, NEW j \in DOMAIN e, Mine(e[i], q), Mine(e[j], q), i < j,
                      \A k \in DOMAIN e : Mine(e[k], q) => k <= i \/ k >= j
               PROVE  e[j].n = e[i].n + 1
    BY DEF Ordered
  <2>1. i \in DOMAIN d /\ e[i] = d[i]
    BY <1>2
  <2>2. \A k \in DOMAIN d : Mine(d[k], q) => k <= i \/ k >= j
    BY <1>3
  <2>3. CASE j \in DOMAIN d
    BY <1>3, <1>5, <2>1, <2>2, <2>3 DEF Ordered
  <2>4. CASE j = Len(d) + 1
    <3>1. LastOf(d, q, i)
      <4>1. \A k \in DOMAIN d : k < j
        BY <1>3, <2>4
      <4>2. \A k \in DOMAIN d : Mine(d[k], q) => k <= i
        BY <1>2, <2>2, <4>1
      <4>3. \A k \in DOMAIN d : k > i => ~Mine(d[k], q)
        BY <1>2, <4>2
      <4> QED
        BY <2>1, <4>3 DEF LastOf
    <3>2. m.from = q /\ e[j] = m
      BY <1>2, <1>4, <2>4
    <3> QED
      BY <1>5, <2>1, <3>1, <3>2
  <2> QED
    BY <1>3, <2>3, <2>4
<1>6. ASSUME NEW q, NEW i \in DOMAIN e, LastOf(e, q, i)
      PROVE  IF m.from = q THEN e[i] = m ELSE i \in DOMAIN d /\ LastOf(d, q, i) /\ e[i] = d[i]
  <2>1. CASE m.from = q
    <3>1. Mine(e[Len(d) + 1], q) /\ Len(d) + 1 \in DOMAIN e
      BY <1>2, <1>4, <2>1
    <3>2. ~(Len(d) + 1 > i)
      BY <1>6, <3>1 DEF LastOf
    <3> QED
      BY <1>3, <2>1, <3>2
  <2>2. CASE m.from # q
    <3>1. i \in DOMAIN d /\ e[i] = d[i]
      BY <1>3, <1>4, <1>6, <2>2 DEF LastOf
    <3>2. LastOf(d, q, i)
      BY <1>3, <1>6, <3>1 DEF LastOf
    <3> QED
      BY <2>2, <3>1, <3>2
  <2> QED
    BY <2>1, <2>2
<1>7. \A i \in DOMAIN e : e[i] = m \/ (i \in DOMAIN d /\ e[i] = d[i])
  BY <1>3
<1> QED
  BY <1>0, <1>5, <1>6, <1>7 DEF OneMore

\* What a process is told when it takes its seat, and w has waited for it.
Greeted(q, w, e) ==
    /\ \A i \in DOMAIN e : e[i].type = "signal" => \E k \in DOMAIN w : i = k + 2 /\ e[i] = w[k]
    /\ Run(w) => Ordered(e, q)
    /\ \A x : x # q => Ordered(e, x)
    /\ \A x : \A i \in DOMAIN e : LastOf(e, x, i) => x = q /\ w # <<>> /\ e[i] = w[Len(w)]

LEMMA AddGreeting ==
    ASSUME NEW r \in Roles, NEW w \in Seq(Signals), NEW q, \A k \in DOMAIN w : w[k].from = q
    PROVE  Greeted(q, w, <<Joined(r)>> \o (<<Ready>> \o w))
<1>0. PICK e : e = <<Joined(r)>> \o (<<Ready>> \o w)
  OBVIOUS
<1>1. /\ <<Joined(r)>> \in Seq(Messages) /\ <<Ready>> \in Seq(Messages) /\ w \in Seq(Messages)
      /\ Joined(r).type # "signal" /\ Ready.type # "signal"
      /\ \A k \in DOMAIN w : w[k] \in Signals
  BY NoticesTyped, MessageTypes DEF Messages
<1> DEFINE g == <<Ready>> \o w
<1>2. /\ g \in Seq(Messages) /\ Len(w) \in Nat /\ DOMAIN w = 1 .. Len(w)
      /\ Len(g) = 1 + Len(w) /\ DOMAIN g = 1 .. (1 + Len(w))
      /\ g[1] = Ready /\ \A k \in 1 .. Len(w) : g[1 + k] = w[k]
  BY <1>1, ConcatParts
<1> HIDE DEF g
<1>3. /\ DOMAIN e = 1 .. (1 + (1 + Len(w))) /\ e[1] = Joined(r)
      /\ \A k \in 1 .. (1 + Len(w)) : e[1 + k] = g[k]
  BY <1>0, <1>1, <1>2, ConcatParts DEF g
<1>4. \A i \in DOMAIN e : i = 1 \/ i = 2 \/ (i - 2 \in 1 .. Len(w) /\ i = (i - 2) + 2)
  BY <1>2, <1>3
<1>5. e[2] = Ready
  BY <1>2, <1>3
<1>6. \A k \in 1 .. Len(w) : k + 2 \in DOMAIN e /\ e[k + 2] = w[k]
  <2>1. \A k \in 1 .. Len(w) : /\ 1 + k \in 1 .. (1 + Len(w)) /\ k + 2 = 1 + (1 + k)
                               /\ k + 2 \in 1 .. (1 + (1 + Len(w)))
    BY <1>2
  <2> QED
    BY <1>2, <1>3, <2>1
<1>7. ASSUME NEW i \in DOMAIN e, e[i].type = "signal"
      PROVE  i - 2 \in 1 .. Len(w) /\ i = (i - 2) + 2 /\ e[i] = w[i - 2]
  <2>1. i # 1 /\ i # 2
    BY <1>1, <1>3, <1>5, <1>7
  <2>2. i - 2 \in 1 .. Len(w) /\ i = (i - 2) + 2
    BY <1>4, <2>1
  <2> QED
    BY <1>6, <2>2
<1>8. ASSUME NEW k \in 1 .. Len(w) PROVE Mine(e[k + 2], q)
  <2>1. e[k + 2] = w[k] /\ w[k] \in Signals /\ w[k].from = q
    BY <1>1, <1>2, <1>6
  <2> QED
    BY <2>1, MessageTypes DEF Mine
<1>9. \A x : \A i \in DOMAIN e : Mine(e[i], x) => x = q
  BY <1>2, <1>7 DEF Mine
<1>10. ASSUME Run(w) PROVE Ordered(e, q)
  <2> SUFFICES ASSUME NEW i \in DOMAIN e, NEW j \in DOMAIN e, Mine(e[i], q), Mine(e[j], q), i < j,
                      \A k \in DOMAIN e : Mine(e[k], q) => k <= i \/ k >= j
               PROVE  e[j].n = e[i].n + 1
    BY DEF Ordered
  <2>1. /\ i - 2 \in 1 .. Len(w) /\ e[i] = w[i - 2] /\ j - 2 \in 1 .. Len(w) /\ e[j] = w[j - 2]
        /\ i = (i - 2) + 2 /\ j = (j - 2) + 2 /\ i \in Nat /\ j \in Nat
    <3>1. e[i].type = "signal" /\ e[j].type = "signal"
      BY DEF Mine
    <3>2. i \in Nat /\ j \in Nat
      BY <1>2, <1>3
    <3> QED
      BY <1>7, <3>1, <3>2
  <2>2. (i - 2) + 1 \in 1 .. Len(w) /\ ((i - 2) + 1) + 2 = i + 1
    BY <1>2, <2>1
  <2>3. i + 1 \in DOMAIN e /\ Mine(e[i + 1], q)
    BY <1>6, <1>8, <2>2
  <2>4. j = i + 1
    <3>1. i + 1 <= i \/ i + 1 >= j
      BY <2>3
    <3>2. i \in Nat /\ j \in Nat
      BY <2>1
    <3> QED
      BY <3>1, <3>2
  <2>5. /\ w[i - 2].n \in Nat /\ w[j - 2].n \in Nat /\ w[Len(w)].n \in Nat
    <3>1. Len(w) \in 1 .. Len(w)
      BY <1>2, <2>1
    <3> QED
      BY <1>1, <1>2, <2>1, <3>1 DEF Signals
  <2>6. /\ w[i - 2].n + Len(w) = w[Len(w)].n + (i - 2)
        /\ w[j - 2].n + Len(w) = w[Len(w)].n + (j - 2)
    BY <1>2, <1>10, <2>1 DEF Run
  <2>7. PICK a \in Nat, b \in Nat, c \in Nat, l \in Nat :
           w[i - 2].n = a /\ w[j - 2].n = b /\ w[Len(w)].n = c /\ Len(w) = l
    BY <1>2, <2>5
  <2>8. w[j - 2].n = w[i - 2].n + 1
    <3>1. a + l = c + (i - 2) /\ b + l = c + (j - 2)
      BY <2>6, <2>7
    <3>2. b = a + 1
      <4>1. i \in Int /\ j = i + 1
        BY <2>1, <2>4
      <4>2. a \in Int /\ b \in Int /\ c \in Int /\ l \in Int
        OBVIOUS
      <4> QED
        BY ONLY <3>1, <4>1, <4>2
    <3> QED
      BY <2>7, <3>2
  <2> QED
    BY <2>1, <2>8
<1>11. ASSUME NEW x, NEW i \in DOMAIN e, LastOf(e, x, i)
       PROVE  x = q /\ w # <<>> /\ e[i] = w[Len(w)]
  <2>1. x = q /\ i - 2 \in 1 .. Len(w) /\ e[i] = w[i - 2] /\ i \in Nat
    BY <1>3, <1>7, <1>9, <1>11 DEF LastOf, Mine
  <2>2. Len(w) \in 1 .. Len(w)
    BY <1>2, <2>1
  <2>3. Len(w) + 2 \in DOMAIN e /\ Mine(e[Len(w) + 2], q)
    BY <1>6, <1>8, <2>2
  <2>4. ~(Len(w) + 2 > i)
    BY <1>11, <2>1, <2>3 DEF LastOf
  <2>5. i - 2 = Len(w)
    BY <1>2, <2>1, <2>4
  <2> QED
    BY <1>2, <2>1, <2>2, <2>5
<1>12. \A i \in DOMAIN e : e[i].type = "signal" => \E k \in DOMAIN w : i = k + 2 /\ e[i] = w[k]
  BY <1>2, <1>7
<1>13. \A x : x # q => Ordered(e, x)
  BY <1>9 DEF Ordered
<1> QED
  BY <1>0, <1>10, <1>11, <1>12, <1>13 DEF Greeted

\* What is on its way goes on, whatever a process does.
LEMMA FollowsKinds ==
    ASSUME RelayInv, TransferInv, NEW p \in Peers, Kinds(p) \/ Hears(p),
           NEW q \in Peers, NEW k \in Nat, Follows(q, k)
    PROVE  Follows(q, k)'
<1>0. up \in [Peers -> Seq(Signals \cup {Close})] /\ up[q] \in Seq(Signals \cup {Close})
  BY DEF RelayInv, RelayTypes
<1>1. /\ \A i \in DOMAIN up[q] : up[q][i] = Close \/ up[q][i].n = k + i
      /\ proc[q].phase \notin Ended =>
            (\A i \in DOMAIN up[q] : up[q][i] # Close) /\ proc[q].sent = k + Len(up[q])
  BY DEF Follows
<1>2. CASE up'[q] = up[q] /\ proc'[q].sent = proc[q].sent
           /\ (proc'[q].phase \notin Ended => proc[q].phase \notin Ended)
  BY <1>1, <1>2 DEF Follows
<1>3. CASE Sends(p) /\ q = p
  <2>1. PICK m : m = Signal(p, proc[p].sent + 1)
    OBVIOUS
  <2>2. /\ proc[q].phase \notin Ended /\ up'[q] = Append(up[q], m)
        /\ proc'[q].sent = proc[q].sent + 1
    BY <1>0, <1>3, <2>1 DEF Sends
  <2>3. proc[q].sent \in Nat /\ proc[q].sent = k + Len(up[q])
        /\ \A i \in DOMAIN up[q] : up[q][i] # Close /\ up[q][i].n = k + i
    BY <1>1, <2>2, ProcTyped
  <2>4. m \in Signals /\ m.n = proc[q].sent + 1 /\ m # Close
    <3>1. proc[p].sent + 1 \in Nat
      BY <1>3, <2>3
    <3>2. m \in Signals /\ m.n = proc[p].sent + 1
      BY <2>1, <3>1 DEF Signal, Signals
    <3> QED
      BY <1>3, <3>2 DEF Signals, Close
  <2>5. /\ Len(up[q]) \in Nat /\ Len(Append(up[q], m)) = Len(up[q]) + 1
        /\ \A i \in DOMAIN Append(up[q], m) :
              \/ i \in DOMAIN up[q] /\ Append(up[q], m)[i] = up[q][i]
              \/ i = Len(up[q]) + 1 /\ Append(up[q], m)[i] = m
    BY <1>0, <2>4
  <2>6. \A i \in DOMAIN up'[q] : up'[q][i] # Close /\ up'[q][i].n = k + i
    <3>1. proc[q].sent + 1 = k + (Len(up[q]) + 1)
      BY <2>3, <2>5
    <3> QED
      BY <2>2, <2>3, <2>4, <2>5, <3>1
  <2>7. proc'[q].sent = k + Len(up'[q])
    BY <2>2, <2>3, <2>5
  <2> QED
    BY <2>6, <2>7 DEF Follows
<1>4. CASE Closes(p) /\ q = p
  <2>1. PICK l \in 0 .. Len(up[q]) : up'[q] = Append(SubSeq(up[q], 1, l), Close)
    BY <1>0, <1>4 DEF Closes
  <2>2. PICK v : v = SubSeq(up[q], 1, l)
    OBVIOUS
  <2>3. /\ v \in Seq(Signals \cup {Close}) /\ DOMAIN v = 1 .. l
        /\ \A i \in 1 .. l : v[i] = up[q][i] /\ i \in DOMAIN up[q]
    BY <1>0, <2>2
  <2>4. \A i \in DOMAIN Append(v, Close) :
           (i \in DOMAIN v /\ Append(v, Close)[i] = v[i]) \/ Append(v, Close)[i] = Close
    BY <2>3
  <2>5. \A i \in DOMAIN up'[q] : up'[q][i] = Close \/ up'[q][i].n = k + i
    BY <1>1, <2>1, <2>2, <2>3, <2>4
  <2>6. proc'[q].phase \in Ended
    BY <1>4 DEF Closes
  <2> QED
    BY <2>5, <2>6 DEF Follows
<1>5. \/ up'[q] = up[q] /\ proc'[q].sent = proc[q].sent
         /\ (proc'[q].phase \notin Ended => proc[q].phase \notin Ended)
      \/ Sends(p) /\ q = p
      \/ Closes(p) /\ q = p
  <2>1. CASE Quietly
    BY <2>1 DEF Quietly, Live
  <2>2. CASE Sends(p) /\ q # p
    BY <1>0, <2>2 DEF Sends
  <2>3. CASE Closes(p) /\ q # p
    BY <1>0, <2>3 DEF Closes
  <2>4. CASE Hears(p)
    BY <2>4, LeavingPhases DEF Hears, In
  <2> QED
    BY <2>1, <2>2, <2>3, <2>4 DEF Kinds
<1> QED
  BY <1>2, <1>3, <1>4, <1>5

\* The server has handled the first of what was on its way.
LEMMA FollowsTail ==
    ASSUME RelayInv, NEW p \in Peers, up[p] # <<>>, up[p][1] \in Signals,
           up' = [up EXCEPT ![p] = Tail(@)], UNCHANGED proc, NEW k \in Nat, Follows(p, k)
    PROVE  up[p][1].n = k + 1 /\ Follows(p, k + 1)'
<1> DEFINE w == up[p]
<1>1. w \in Seq(Signals \cup {Close}) /\ up'[p] = Tail(w)
  BY DEF RelayInv, RelayTypes
<1>2. /\ \A i \in DOMAIN w : w[i] = Close \/ w[i].n = k + i
      /\ proc[p].phase \notin Ended =>
            (\A i \in DOMAIN w : w[i] # Close) /\ proc[p].sent = k + Len(w)
      /\ w # <<>> /\ w[1] \in Signals
  BY DEF Follows
<1> HIDE DEF w
<1>3. /\ Len(w) \in Nat \ {0} /\ DOMAIN w = 1 .. Len(w)
      /\ Len(Tail(w)) = Len(w) - 1 /\ DOMAIN Tail(w) = 1 .. (Len(w) - 1)
      /\ \A i \in 1 .. (Len(w) - 1) : Tail(w)[i] = w[i + 1]
  BY <1>1, <1>2, TailParts
<1>4. w[1].n = k + 1
  <2>1. w[1] # Close
    BY <1>2 DEF Signals, Close
  <2>2. 1 \in DOMAIN w
    BY <1>3
  <2> QED
    BY <1>2, <2>1, <2>2
<1>5. ASSUME NEW i \in DOMAIN Tail(w)
      PROVE  /\ i + 1 \in DOMAIN w /\ Tail(w)[i] = w[i + 1]
             /\ Tail(w)[i] = Close \/ Tail(w)[i].n = (k + 1) + i
  <2>1. i + 1 \in DOMAIN w /\ Tail(w)[i] = w[i + 1] /\ k + (i + 1) = (k + 1) + i
    BY <1>3
  <2>2. w[i + 1] = Close \/ w[i + 1].n = k + (i + 1)
    BY <1>2, <2>1
  <2> QED
    BY <2>1, <2>2
<1>6. ASSUME proc[p].phase \notin Ended
      PROVE  (\A i \in DOMAIN Tail(w) : Tail(w)[i] # Close) /\ proc[p].sent = (k + 1) + Len(Tail(w))
  <2>1. proc[p].sent = (k + 1) + Len(Tail(w))
    BY <1>2, <1>3, <1>6
  <2> QED
    BY <1>2, <1>5, <1>6, <2>1
<1> QED
  BY <1>1, <1>4, <1>5, <1>6 DEF Follows, w

\* A process is told no signal, or what it was told is dropped.
Untold(x) ==
    \/ down'[x] \in {down[x], <<>>}
    \/ \E s \in Seq(Messages) : /\ \A k \in DOMAIN s : s[k].type # "signal"
                                /\ down'[x] = down[x] \o s

LEMMA UntoldParts ==
    ASSUME RelayInv, NEW x \in Peers, Untold(x)
    PROVE  /\ \A i \in DOMAIN down'[x] : down'[x][i].type = "signal" =>
                 i \in DOMAIN down[x] /\ down'[x][i] = down[x][i]
           /\ \A q : Ordered(down[x], q) => Ordered(down'[x], q)
           /\ \A q : \A i \in DOMAIN down'[x] : LastOf(down'[x], q, i) =>
                 i \in DOMAIN down[x] /\ LastOf(down[x], q, i) /\ down'[x][i] = down[x][i]
<1>1. CASE down'[x] = down[x]
  BY <1>1
<1>2. CASE down'[x] = <<>>
  BY <1>2 DEF Ordered
<1>3. CASE \E s \in Seq(Messages) : /\ \A k \in DOMAIN s : s[k].type # "signal"
                                    /\ down'[x] = down[x] \o s
  <2>1. PICK s \in Seq(Messages) : /\ \A k \in DOMAIN s : s[k].type # "signal"
                                   /\ down'[x] = down[x] \o s
    BY <1>3
  <2>2. down[x] \in Seq(Messages)
    BY DEF RelayInv, RelayTypes
  <2>3. PICK e : e = down'[x]
    OBVIOUS
  <2>4. /\ \A i \in DOMAIN e : e[i].type = "signal" => i \in DOMAIN down[x] /\ e[i] = down[x][i]
        /\ \A q : Ordered(down[x], q) => Ordered(e, q)
        /\ \A q : \A i \in DOMAIN e : LastOf(e, q, i) => i \in DOMAIN down[x] /\ LastOf(down[x], q, i)
    <3>1. PICK d : d = down[x]
      OBVIOUS
    <3>2. d \in Seq(Messages) /\ e = d \o s /\ \A k \in DOMAIN s : s[k].type # "signal"
      BY <2>1, <2>2, <2>3, <3>1
    <3>3. SameSignals(d, d \o s)
      BY <3>2, AddNotices
    <3> QED
      BY <3>1, <3>2, <3>3 DEF SameSignals
  <2>5. \A q : \A i \in DOMAIN e : LastOf(e, q, i) => e[i].type = "signal"
    BY DEF LastOf, Mine
  <2> QED
    BY <2>3, <2>4, <2>5
<1> QED
  BY <1>1, <1>2, <1>3 DEF Untold

\* Nobody is told a signal, and none is queued; what is on its way goes on for those that
\* are open, and nobody becomes open.
LEMMA LessOrder ==
    ASSUME RelayInv, OrderInv, UNCHANGED seat, \A x \in Peers : Untold(x),
           \A x \in Peers : socket'[x] = "open" => socket[x] = "open",
           \A x \in Peers : \E k \in Nat : Follows(x, k)',
           \A x \in Peers : \A k \in Nat : socket'[x] = "open" /\ Follows(x, k) => Follows(x, k)',
           \A r \in Roles : pending'[r] = <<>> \/ (pending'[r] = pending[r] /\ slots'[r] = slots[r])
    PROVE  OrderInv'
<1>0. RelayTypes
  BY DEF RelayInv
<1>1. \A x \in Peers : IsOpen(x)' => IsOpen(x) /\ socket'[x] = "open"
  BY DEF IsOpen
<1>2. ASSUME NEW x \in Peers, NEW i \in DOMAIN down[x], down[x][i].type = "signal"
      PROVE  down[x][i].n \in Nat
  <2>1. down[x] \in Seq(Messages)
    BY <1>0 DEF RelayTypes
  <2>2. down[x][i] \in Messages
    BY <2>1
  <2>3. down[x][i] \in Signals
    BY <1>2, <2>2, MessageTypes DEF Messages
  <2> QED
    BY <2>3 DEF Signals
<1>3. ASSUME NEW r \in Roles, IsOpen(slots[r])', pending'[r] # <<>>
      PROVE  Run(pending'[r]) /\ Follows(slots[r], pending[r][Len(pending[r])].n)'
  <2>1. pending'[r] = pending[r] /\ slots'[r] = slots[r] /\ slots[r] \in Peers
    BY <1>0, <1>3 DEF RelayTypes, IsOpen
  <2>2. IsOpen(slots[r]) /\ socket'[slots[r]] = "open"
    BY <1>1, <1>3, <2>1 DEF IsOpen
  <2>3. Run(pending[r]) /\ Follows(slots[r], pending[r][Len(pending[r])].n)
    BY <1>3, <2>1, <2>2 DEF OrderInv
  <2>4. pending[r][Len(pending[r])].n \in Nat
    <3>1. pending[r] \in Seq(Signals) /\ pending[r] # <<>>
      BY <1>0, <1>3, <2>1 DEF RelayTypes
    <3>2. pending[r][Len(pending[r])] \in Signals
      BY <3>1
    <3> QED
      BY <3>2 DEF Signals
  <2>5. PICK n \in Nat : n = pending[r][Len(pending[r])].n
    BY <2>4
  <2>6. PICK q \in Peers : q = slots[r]
    BY <2>1
  <2>7. Follows(q, n)'
    BY <2>2, <2>3, <2>5, <2>6
  <2>8. pending'[r][Len(pending'[r])].n = n /\ slots'[r] = q
    BY <2>1, <2>5, <2>6
  <2> QED
    BY <2>1, <2>3, <2>7, <2>8 DEF Follows
<1>4. ASSUME NEW x \in Peers, NEW q \in Peers, IsOpen(x)', IsOpen(q)', NEW i \in DOMAIN down'[x],
             LastOf(down'[x], q, i)
      PROVE  Follows(q, down[x][i].n)'
  <2>1. i \in DOMAIN down[x] /\ LastOf(down[x], q, i) /\ down'[x][i] = down[x][i]
    BY <1>4, UntoldParts
  <2>2. Follows(q, down[x][i].n)
    BY <1>1, <1>4, <2>1 DEF OrderInv
  <2>3. PICK n \in Nat : n = down[x][i].n
    BY <1>2, <2>1 DEF LastOf, Mine
  <2>4. Follows(q, n)'
    BY <1>1, <1>4, <2>2, <2>3
  <2> QED
    BY <2>1, <2>3, <2>4 DEF Follows
<1>5. \A x, q \in Peers : IsOpen(q)' => Ordered(down'[x], q)
  BY <1>1, UntoldParts DEF OrderInv
<1>6. \A x \in Peers : \A i \in DOMAIN down'[x] : down'[x][i].type = "signal" =>
         seat'[x] \in Roles /\ down'[x][i].from \in Peers
         /\ seat'[down'[x][i].from] = OtherRole(seat'[x])
  BY UntoldParts DEF OrderInv
<1> QED
  BY <1>3, <1>4, <1>5, <1>6 DEF OrderInv

\* What a process does with its socket.
LEMMA KindsOrder ==
    ASSUME RelayInv, TransferInv, OrderInv, NEW p \in Peers, UNCHANGED <<room, seat, down>>,
           \A x \in Peers : socket'[x] = "open" => socket[x] = "open",
           Kinds(p) \/ Hears(p)
    PROVE  OrderInv'
<1>1. \A x \in Peers : \A k \in Nat : Follows(x, k) => Follows(x, k)'
  BY FollowsKinds
<1>2. \A x \in Peers : \E k \in Nat : Follows(x, k)'
  BY <1>1 DEF OrderInv
<1>3. \A x \in Peers : Untold(x)
  BY DEF Untold
<1> QED
  BY <1>1, <1>2, <1>3, LessOrder DEF room

\* The server refuses a socket, fails it, hears its close, or frees its seat.
LEMMA FailOrder ==
    ASSUME RelayInv, OrderInv, NEW p \in Peers, NEW y \in {"room-full", "role-taken", "bad-message"},
           Fail(p, y), UNCHANGED <<room, seat, proc>>,
           \A x \in Peers : x # p => up'[x] = up[x],
           \E k \in Nat : Follows(p, k)'
    PROVE  OrderInv'
<1>0. RelayTypes
  BY DEF RelayInv
<1>1. <<Failure(y), Close>> \in Seq(Messages)
      /\ \A k \in DOMAIN <<Failure(y), Close>> : <<Failure(y), Close>>[k].type # "signal"
  <2>1. Failure(y) \in Notices /\ Close \in Notices
    BY NoticesTyped
  <2>2. Failure(y).type # "signal" /\ Close.type # "signal"
    BY <2>1, MessageTypes
  <2> QED
    BY <2>1, <2>2 DEF Messages
<1>2. \A x \in Peers : Untold(x)
  BY <1>0, <1>1, FailDown DEF Untold
<1>3. \A x \in Peers : socket'[x] = "open" => socket[x] = "open" /\ x # p
  BY <1>0, FailDown
<1>4. ASSUME NEW x \in Peers, x # p, NEW k \in Nat, Follows(x, k) PROVE Follows(x, k)'
  BY <1>4 DEF Follows
<1>5. \A x \in Peers : \E k \in Nat : Follows(x, k)'
  BY <1>4 DEF OrderInv
<1> QED
  BY <1>2, <1>3, <1>4, <1>5, LessOrder DEF room

LEMMA RefuseOrder ==
    ASSUME RelayInv, OrderInv, NEW p \in Peers, Refuse(p), UNCHANGED proc
    PROVE  OrderInv'
<1>1. PICK y \in {"room-full", "role-taken", "bad-message"} : Fail(p, y)
  BY DEF Refuse
<1>2. UNCHANGED <<room, seat, up>>
  BY DEF Refuse
<1>3. \E k \in Nat : Follows(p, k)'
  BY <1>2 DEF OrderInv, Follows
<1> QED
  BY <1>1, <1>2, <1>3, FailOrder

LEMMA HearCloseOrder ==
    ASSUME RelayInv, HeardInv, OrderInv, NEW p \in Peers, HearClose(p), UNCHANGED proc
    PROVE  OrderInv'
<1>0. RelayTypes
  BY DEF RelayInv
<1>1. /\ UNCHANGED <<room, seat, down>> /\ up' = [up EXCEPT ![p] = <<>>]
      /\ socket' = [socket EXCEPT ![p] = "leaving"] /\ proc[p].phase \in Ended
  BY CloseEnds DEF HearClose
<1>2. \A x \in Peers : /\ up'[x] = IF x = p THEN <<>> ELSE up[x]
                       /\ socket'[x] = IF x = p THEN "leaving" ELSE socket[x]
  BY <1>0, <1>1 DEF RelayTypes
<1>3. \A k \in Nat : Follows(p, k)'
  BY <1>1, <1>2 DEF Follows
<1>4. ASSUME NEW x \in Peers, x # p, NEW k \in Nat, Follows(x, k) PROVE Follows(x, k)'
  BY <1>2, <1>4 DEF Follows
<1>5. \A x \in Peers : \E k \in Nat : Follows(x, k)'
  <2>1. 0 \in Nat
    OBVIOUS
  <2> QED
    BY <1>3, <1>4, <2>1 DEF OrderInv
<1>6. \A x \in Peers : Untold(x)
  BY <1>1 DEF Untold
<1> QED
  BY <1>1, <1>2, <1>3, <1>4, <1>5, <1>6, LessOrder DEF room

LEMMA LeaveOrder ==
    ASSUME RelayInv, OrderInv, NEW p \in Peers, Leave(p), UNCHANGED proc
    PROVE  OrderInv'
<1>1. PICK o : LeaveTells(p, o)
  BY LeaveDown
<1>2. <<PeerLeft>> \in Seq(Messages)
      /\ \A k \in DOMAIN <<PeerLeft>> : <<PeerLeft>>[k].type # "signal"
  BY NoticesTyped, MessageTypes DEF Messages
<1>3. \A x \in Peers : Untold(x)
  BY <1>1, <1>2 DEF LeaveTells, Untold
<1>4. \A x \in Peers : \A k \in Nat : Follows(x, k) => Follows(x, k)'
  BY <1>1 DEF LeaveTells, Follows
<1>5. \A x \in Peers : \E k \in Nat : Follows(x, k)'
  BY <1>4 DEF OrderInv
<1>6. /\ UNCHANGED seat /\ \A x \in Peers : socket'[x] = "open" => socket[x] = "open"
      /\ \A r \in Roles : pending'[r] = <<>> \/ (pending'[r] = pending[r] /\ slots'[r] = slots[r])
  BY <1>1 DEF LeaveTells, room
<1> QED
  BY <1>3, <1>4, <1>5, <1>6, LessOrder

LEMMA ToldNat ==
    ASSUME RelayInv, NEW x \in Peers, NEW i \in DOMAIN down[x], down[x][i].type = "signal"
    PROVE  down[x][i].n \in Nat /\ down[x][i] \in Signals
<1>1. down[x] \in Seq(Messages)
  BY DEF RelayInv, RelayTypes
<1>2. down[x][i] \in Messages
  BY <1>1
<1>3. down[x][i] \in Signals
  BY <1>2, MessageTypes DEF Messages
<1> QED
  BY <1>3 DEF Signals

\* A peer takes its seat: what has waited for it is told, and the last of that is what its
\* partner's next one follows.
LEMMA JoinOrder ==
    ASSUME RelayInv, OrderInv, NEW p \in Peers, Join(p), UNCHANGED proc
    PROVE  OrderInv'
<1>0. RelayTypes /\ SeatInv
  BY DEF RelayInv
<1>1. PICK r, o : JoinTells(p, r, o)
  BY JoinDown
<1>2. /\ r \in Roles /\ o = slots[OtherRole(r)] /\ o # p /\ slots[r] = NoPeer /\ seat[p] = "none"
      /\ down[p] = <<>> /\ p # NoPeer /\ OtherRole(r) \in Roles /\ OtherRole(OtherRole(r)) = r
      /\ \A x \in Roles : x = r \/ x = OtherRole(r)
  BY <1>1, OtherRoles, RelayAssumption DEF JoinTells
<1>3. PICK w : w = IF o = NoPeer THEN <<>> ELSE pending[OtherRole(r)]
  OBVIOUS
<1>4. PICK e : e = IF o = NoPeer THEN <<Joined(r)>> ELSE <<Joined(r)>> \o (<<Ready>> \o w)
  OBVIOUS
<1>5. /\ \A x \in Roles : slots'[x] = IF x = r THEN p ELSE slots[x]
      /\ \A x \in Peers : /\ socket'[x] = IF x = p THEN "open" ELSE socket[x]
                          /\ seat'[x] = IF x = p THEN r ELSE seat[x]
      /\ pending' = IF o = NoPeer THEN pending ELSE [x \in Roles |-> <<>>]
      /\ up' = up
  BY <1>1 DEF JoinTells
<1>6. /\ down'[p] = e
      /\ \A x \in Peers : x # p => down'[x] = IF x = o /\ IsOpen(o) THEN down[o] \o <<Ready>> ELSE down[x]
  <2>1. <<Joined(r)>> \o <<>> = <<Joined(r)>>
    <3>1. <<Joined(r)>> \in Seq(Messages)
      BY <1>2, NoticesTyped DEF Messages
    <3> QED
      BY <3>1
  <2> QED
    BY <1>1, <1>3, <1>4, <2>1 DEF JoinTells
<1>7. w \in Seq(Signals) /\ (\A k \in DOMAIN w : w[k].from = o) /\ (w # <<>> => o \in Peers)
  BY <1>0, <1>2, <1>3 DEF RelayTypes, SeatInv
<1>8. Greeted(o, w, e)
  <2>1. CASE o # NoPeer
    BY <1>2, <1>4, <1>7, <2>1, AddGreeting
  <2>2. CASE o = NoPeer
    <3>1. e = <<Joined(r)>> /\ DOMAIN e = 1 .. 1 /\ e[1] = Joined(r) /\ Joined(r).type # "signal"
      BY <1>2, <1>4, <2>2, NoticesTyped, MessageTypes
    <3>2. \A i \in DOMAIN e : e[i].type # "signal"
      BY <3>1
    <3> QED
      BY <3>2 DEF Greeted, Ordered, LastOf, Mine
  <2> QED
    BY <2>1, <2>2
<1>9. \A x \in Peers : x # p => Untold(x)
  <2>1. <<Ready>> \in Seq(Messages) /\ \A k \in DOMAIN <<Ready>> : <<Ready>>[k].type # "signal"
    BY NoticesTyped, MessageTypes DEF Messages
  <2> QED
    BY <1>6, <2>1 DEF Untold
<1>10. \A x \in Peers : \A k \in Nat : Follows(x, k) => Follows(x, k)'
  BY <1>5 DEF Follows
<1>11. ASSUME NEW x \in Peers, NEW i \in DOMAIN down'[x], down'[x][i].type = "signal"
       PROVE  /\ seat'[x] \in Roles /\ down'[x][i].from \in Peers /\ down'[x][i].from # p
              /\ seat'[down'[x][i].from] = OtherRole(seat'[x])
  <2>1. CASE x = p
    <3>1. PICK k \in DOMAIN w : e[i] = w[k]
      BY <1>6, <1>8, <1>11, <2>1 DEF Greeted
    <3>2. down'[x][i].from = o /\ o \in Peers /\ o # NoPeer
      BY <1>3, <1>6, <1>7, <2>1, <3>1
    <3>3. seat[o] = OtherRole(r)
      BY <1>0, <1>2, <3>2 DEF SeatInv
    <3> QED
      BY <1>2, <1>5, <2>1, <3>2, <3>3
  <2>2. CASE x # p
    <3>1. i \in DOMAIN down[x] /\ down'[x][i] = down[x][i]
      BY <1>9, <1>11, <2>2, UntoldParts
    <3>2. /\ seat[x] \in Roles /\ down[x][i].from \in Peers
          /\ seat[down[x][i].from] = OtherRole(seat[x]) /\ OtherRole(seat[x]) \in Roles
      BY <1>11, <3>1, OtherRoles DEF OrderInv
    <3>3. down[x][i].from # p
      BY <1>2, <3>2, RolesApart
    <3> QED
      BY <1>5, <2>2, <3>1, <3>2, <3>3
  <2> QED
    BY <2>1, <2>2
<1>12. \A x \in Peers : IsOpen(x)' /\ x # p => IsOpen(x)
  BY <1>5 DEF IsOpen
<1>13. IsOpen(o) /\ w # <<>> => Run(w) /\ Follows(o, w[Len(w)].n) /\ w[Len(w)].n \in Nat
  <2> SUFFICES ASSUME IsOpen(o), w # <<>>
               PROVE  Run(w) /\ Follows(o, w[Len(w)].n) /\ w[Len(w)].n \in Nat
    OBVIOUS
  <2>1. w = pending[OtherRole(r)]
    BY <1>3
  <2>2. w[Len(w)] \in Signals
    BY <1>7
  <2> QED
    BY <1>2, <2>1, <2>2 DEF OrderInv, Signals
<1>14. ASSUME NEW x \in Peers, NEW q \in Peers, IsOpen(x)', IsOpen(q)', NEW i \in DOMAIN down'[x],
              LastOf(down'[x], q, i)
       PROVE  Follows(q, down[x][i].n)'
  <2>1. CASE x = p
    <3>1. q = o /\ w # <<>> /\ down'[x][i] = w[Len(w)]
      BY <1>6, <1>8, <1>14, <2>1 DEF Greeted
    <3>2. PICK n \in Nat : n = w[Len(w)].n /\ Follows(q, n)
      BY <1>2, <1>12, <1>13, <1>14, <3>1
    <3>3. Follows(q, n)'
      BY <1>10, <3>2
    <3> QED
      BY <3>1, <3>2, <3>3 DEF Follows
  <2>2. CASE x # p
    <3>1. i \in DOMAIN down[x] /\ LastOf(down[x], q, i) /\ down'[x][i] = down[x][i]
      BY <1>9, <1>14, <2>2, UntoldParts
    <3>2. q # p
      BY <1>11, <1>14 DEF LastOf, Mine
    <3>3. PICK n \in Nat : n = down[x][i].n /\ Follows(q, n)
      BY <1>12, <1>14, <2>2, <3>1, <3>2, ToldNat DEF OrderInv, LastOf, Mine
    <3>4. Follows(q, n)'
      BY <1>10, <3>3
    <3> QED
      BY <3>1, <3>3, <3>4 DEF Follows
  <2> QED
    BY <2>1, <2>2
<1>15. ASSUME NEW x \in Peers, NEW q \in Peers, IsOpen(q)' PROVE Ordered(down'[x], q)
  <2>1. CASE q = p
    BY <1>11, <2>1 DEF Ordered, Mine
  <2>2. CASE q # p /\ x = p
    <3>1. q = o /\ w # <<>> => Run(w)
      BY <1>12, <1>13, <1>15, <2>2
    <3>2. w = <<>> => Run(w)
      BY DEF Run
    <3> QED
      BY <1>6, <1>8, <2>2, <3>1, <3>2 DEF Greeted
  <2>3. CASE q # p /\ x # p
    BY <1>9, <1>12, <1>15, <2>3, UntoldParts DEF OrderInv
  <2> QED
    BY <2>1, <2>2, <2>3
<1>16. ASSUME NEW x \in Roles, IsOpen(slots[x])', pending'[x] # <<>> PROVE FALSE
  <2>1. o = NoPeer /\ pending'[x] = pending[x]
    BY <1>5, <1>16
  <2>2. x = OtherRole(r)
    BY <1>0, <1>2, <1>16, <2>1 DEF SeatInv
  <2>3. slots'[x] = NoPeer
    BY <1>2, <1>5, <2>1, <2>2, OtherRoles
  <2> QED
    BY <1>16, <2>3 DEF IsOpen
<1>17. \A x \in Peers : \E k \in Nat : Follows(x, k)'
  BY <1>10 DEF OrderInv
<1> QED
  BY <1>11, <1>14, <1>15, <1>16, <1>17 DEF OrderInv

\* The server has taken the first of what p sent.
LEMMA TakenParts ==
    ASSUME RelayInv, OrderInv, UNCHANGED proc, NEW p \in Peers, NEW r, NEW m, RelayTells(p, r, m)
    PROVE  /\ \A k \in Nat : Follows(p, k) => m.n = k + 1 /\ Follows(p, k + 1)'
           /\ m.n \in Nat /\ Follows(p, m.n)'
           /\ \A x \in Peers : x # p =>
                 up'[x] = up[x] /\ \A k \in Nat : Follows(x, k) => Follows(x, k)'
           /\ \A x \in Peers : \E k \in Nat : Follows(x, k)'
<1>1. /\ up[p] # <<>> /\ up[p][1] \in Signals /\ m = up[p][1] /\ m.n \in Nat
      /\ up' = [up EXCEPT ![p] = Tail(@)]
  BY DEF RelayTells, Signals
<1>2. \A x \in Peers : x # p => up'[x] = up[x]
  BY <1>1 DEF RelayInv, RelayTypes
<1>3. ASSUME NEW k \in Nat, Follows(p, k) PROVE m.n = k + 1 /\ Follows(p, k + 1)'
  BY <1>1, <1>3, FollowsTail
<1>4. Follows(p, m.n)'
  <2>1. PICK k \in Nat : Follows(p, k)
    BY DEF OrderInv
  <2>2. PICK n : n = m.n
    OBVIOUS
  <2>3. n = k + 1 /\ Follows(p, k + 1)'
    BY <1>3, <2>1, <2>2
  <2>4. Follows(p, n)'
    BY <2>3
  <2>5. m' = m
    OBVIOUS
  <2> QED
    BY <2>2, <2>4, <2>5 DEF Follows
<1>5. ASSUME NEW x \in Peers, x # p, NEW k \in Nat, Follows(x, k) PROVE Follows(x, k)'
  BY <1>2, <1>5 DEF Follows
<1>6. ASSUME NEW x \in Peers PROVE \E k \in Nat : Follows(x, k)'
  BY <1>1, <1>4, <1>5 DEF OrderInv
<1> QED
  BY <1>1, <1>2, <1>3, <1>4, <1>5, <1>6

\* It goes to the partner: it comes after the last that the partner has of p.
LEMMA SendOrder ==
    ASSUME RelayInv, OrderInv, UNCHANGED proc, NEW p \in Peers, NEW r, NEW m, RelayTells(p, r, m),
           NEW o \in Peers, o = slots[OtherRole(r)], IsOpen(o), UNCHANGED <<room, socket>>,
           \A x \in Peers : down'[x] = IF x = o THEN down[o] \o <<m>> ELSE down[x]
    PROVE  OrderInv'
<1>0. RelayTypes /\ SeatInv
  BY DEF RelayInv
<1>1. /\ r \in Roles /\ slots[r] = p /\ m \in Signals /\ m.from = p /\ seat' = seat
      /\ OtherRole(r) \in Roles /\ OtherRole(OtherRole(r)) = r
      /\ \A x \in Roles : x = r \/ x = OtherRole(r)
  BY OtherRoles DEF RelayTells
<1>2. seat[p] = r /\ seat[o] = OtherRole(r) /\ pending[r] = <<>>
  BY <1>0, <1>1, RelayAssumption DEF SeatInv, IsOpen
<1>3. /\ \A k \in Nat : Follows(p, k) => m.n = k + 1 /\ Follows(p, k + 1)'
      /\ m.n \in Nat /\ Follows(p, m.n)'
      /\ \A x \in Peers : x # p => \A k \in Nat : Follows(x, k) => Follows(x, k)'
      /\ \A x \in Peers : \E k \in Nat : Follows(x, k)'
  BY TakenParts
<1>4. PICK e : e = down[o] \o <<m>>
  OBVIOUS
<1>5. OneMore(down[o], m, e)
  <2>1. down[o] \in Seq(Messages)
    BY <1>0 DEF RelayTypes
  <2> QED
    BY <1>1, <1>4, <2>1, AddSignal
<1>6. \A x \in Peers : down'[x] = IF x = o THEN e ELSE down[x]
  BY <1>4
<1>7. \A x \in Peers : IsOpen(x)' <=> IsOpen(x)
  BY DEF IsOpen
<1>8. ASSUME NEW x \in Peers, NEW i \in DOMAIN down[x], down[x][i].type = "signal", IsOpen(x)
      PROVE  down[x][i].from = p => x = o
  <2>1. seat[x] \in Roles /\ slots[seat[x]] = x /\ seat[down[x][i].from] = OtherRole(seat[x])
    BY <1>0, <1>8 DEF OrderInv, SeatInv, IsOpen
  <2>2. CASE seat[x] = r
    BY <1>1, <1>2, <2>1, <2>2, OtherRoles
  <2>3. CASE seat[x] = OtherRole(r)
    BY <2>1, <2>3
  <2> QED
    BY <1>1, <2>1, <2>2, <2>3
<1>9. ASSUME NEW x \in Roles, IsOpen(slots[x])', pending'[x] # <<>>
      PROVE  Run(pending'[x]) /\ Follows(slots[x], pending[x][Len(pending[x])].n)'
  <2>1. /\ slots' = slots /\ pending' = pending /\ slots[x] \in Peers /\ x = OtherRole(r)
        /\ IsOpen(slots[x])
    BY <1>0, <1>1, <1>2, <1>9 DEF room, RelayTypes, IsOpen
  <2>2. slots[x] = o /\ o # p
    <3>1. OtherRole(r) # r
      BY <1>1, OtherRoles
    <3> QED
      BY <1>2, <2>1, <3>1
  <2>3. Run(pending[x]) /\ Follows(o, pending[x][Len(pending[x])].n)
    BY <1>9, <2>1, <2>2 DEF OrderInv
  <2>4. pending[x][Len(pending[x])] \in Signals
    <3>1. pending[x] \in Seq(Signals) /\ pending[x] # <<>>
      BY <1>0, <1>9, <2>1 DEF RelayTypes
    <3> QED
      BY <3>1
  <2>5. PICK n \in Nat : n = pending[x][Len(pending[x])].n
    BY <2>4 DEF Signals
  <2>6. Follows(o, n)'
    BY <1>3, <2>2, <2>3, <2>5
  <2> QED
    BY <2>1, <2>2, <2>3, <2>5, <2>6 DEF Follows
<1>10. ASSUME NEW x \in Peers, NEW q \in Peers, IsOpen(x)', IsOpen(q)', NEW i \in DOMAIN down'[x],
              LastOf(down'[x], q, i)
       PROVE  Follows(q, down[x][i].n)'
  <2>1. CASE x = o /\ q = p
    <3>1. down'[x][i] = m
      BY <1>1, <1>5, <1>6, <1>10, <2>1 DEF OneMore
    <3>2. PICK n \in Nat : n = m.n
      BY <1>3
    <3>3. Follows(q, n)'
      BY <1>3, <2>1, <3>2 DEF Follows
    <3> QED
      BY <3>1, <3>2, <3>3 DEF Follows
  <2>2. CASE ~(x = o /\ q = p)
    <3>1. i \in DOMAIN down[x] /\ LastOf(down[x], q, i) /\ down'[x][i] = down[x][i]
      BY <1>1, <1>5, <1>6, <1>10, <2>2 DEF OneMore
    <3>2. PICK n \in Nat : n = down[x][i].n
      BY <3>1, ToldNat DEF LastOf, Mine
    <3>3. q # p
      BY <1>7, <1>8, <1>10, <2>2, <3>1 DEF LastOf, Mine
    <3>4. Follows(q, n)
      BY <1>7, <1>10, <3>1, <3>2 DEF OrderInv
    <3>5. Follows(q, n)'
      BY <1>3, <3>3, <3>4
    <3> QED
      BY <3>1, <3>2, <3>5 DEF Follows
  <2> QED
    BY <2>1, <2>2
<1>11. ASSUME NEW x \in Peers, NEW q \in Peers, IsOpen(q)' PROVE Ordered(down'[x], q)
  <2>1. Ordered(down[x], q) /\ IsOpen(q)
    BY <1>7, <1>11 DEF OrderInv
  <2>2. CASE x # o
    BY <1>6, <2>1, <2>2
  <2>3. CASE x = o
    <3>1. ASSUME m.from = q, NEW i \in DOMAIN down[o], LastOf(down[o], q, i)
          PROVE  m.n = down[o][i].n + 1
      <4>1. PICK n \in Nat : n = down[o][i].n
        BY <3>1, ToldNat DEF LastOf, Mine
      <4>2. Follows(p, n)
        BY <1>1, <2>1, <3>1, <4>1 DEF OrderInv
      <4> QED
        BY <1>3, <4>1, <4>2
    <3> QED
      BY <1>5, <1>6, <2>1, <2>3, <3>1 DEF OneMore
  <2> QED
    BY <2>2, <2>3
<1>12. ASSUME NEW x \in Peers, NEW i \in DOMAIN down'[x], down'[x][i].type = "signal"
       PROVE  /\ seat'[x] \in Roles /\ down'[x][i].from \in Peers
              /\ seat'[down'[x][i].from] = OtherRole(seat'[x])
  <2>1. CASE x = o /\ down'[x][i] = m
    BY <1>1, <1>2, <2>1
  <2>2. CASE ~(x = o /\ down'[x][i] = m)
    <3>1. i \in DOMAIN down[x] /\ down'[x][i] = down[x][i]
      BY <1>5, <1>6, <2>2 DEF OneMore
    <3> QED
      BY <1>1, <1>12, <3>1 DEF OrderInv
  <2> QED
    BY <2>1, <2>2
<1> QED
  BY <1>3, <1>9, <1>10, <1>11, <1>12 DEF OrderInv

\* It waits in the room: it comes after the last that waits.
LEMMA QueueOrder ==
    ASSUME RelayInv, OrderInv, UNCHANGED proc, NEW p \in Peers, NEW r, NEW m, RelayTells(p, r, m),
           ~IsOpen(slots[OtherRole(r)]), UNCHANGED <<slots, socket, down>>,
           pending' = [pending EXCEPT ![r] = Append(@, m)]
    PROVE  OrderInv'
<1>0. RelayTypes /\ SeatInv
  BY DEF RelayInv
<1>1. /\ r \in Roles /\ slots[r] = p /\ m \in Signals /\ m.from = p /\ seat' = seat
      /\ OtherRole(r) \in Roles /\ \A x \in Roles : x = r \/ x = OtherRole(r)
  BY OtherRoles DEF RelayTells
<1>2. seat[p] = r
  BY <1>0, <1>1, RelayAssumption DEF SeatInv
<1>3. /\ \A k \in Nat : Follows(p, k) => m.n = k + 1 /\ Follows(p, k + 1)'
      /\ m.n \in Nat /\ Follows(p, m.n)'
      /\ \A x \in Peers : x # p => \A k \in Nat : Follows(x, k) => Follows(x, k)'
      /\ \A x \in Peers : \E k \in Nat : Follows(x, k)'
  BY TakenParts
<1>4. \A x \in Peers : IsOpen(x)' <=> IsOpen(x)
  BY DEF IsOpen
<1>5. PICK w : w = pending[r]
  OBVIOUS
<1>6. PICK v : v = Append(w, m)
  OBVIOUS
<1>7. /\ w \in Seq(Signals) /\ Len(w) \in Nat /\ DOMAIN w = 1 .. Len(w)
      /\ Len(v) = Len(w) + 1 /\ DOMAIN v = 1 .. (Len(w) + 1)
      /\ \A i \in 1 .. Len(w) : v[i] = w[i] /\ w[i].n \in Nat
      /\ v[Len(w) + 1] = m
  <2>1. w \in Seq(Signals)
    BY <1>0, <1>1, <1>5 DEF RelayTypes
  <2>2. \A i \in DOMAIN w : w[i] \in Signals
    BY <2>1
  <2> QED
    BY <1>1, <1>6, <2>1, <2>2, AppendParts DEF Signals
<1>8. \A x \in Roles : pending'[x] = IF x = r THEN v ELSE pending[x]
  BY <1>0, <1>5, <1>6 DEF RelayTypes
<1>9. IsOpen(p) => Run(v)
  <2> SUFFICES ASSUME IsOpen(p), NEW i \in 1 .. (Len(w) + 1)
               PROVE  v[i].n + (Len(w) + 1) = m.n + i
    BY <1>7 DEF Run
  <2>1. CASE i = Len(w) + 1
    BY <1>3, <1>7, <2>1
  <2>2. CASE i # Len(w) + 1
    <3>1. i \in 1 .. Len(w) /\ w # <<>> /\ Len(w) \in 1 .. Len(w)
      BY <1>7, <2>2
    <3>2. Run(w) /\ Follows(p, w[Len(w)].n) /\ w[Len(w)].n \in Nat
      BY <1>1, <1>5, <1>7, <3>1 DEF OrderInv
    <3>3. m.n = w[Len(w)].n + 1
      BY <1>3, <3>2
    <3>4. w[i].n + Len(w) = w[Len(w)].n + i
      BY <1>7, <3>1, <3>2 DEF Run
    <3>5. PICK a \in Nat, b \in Nat, l \in Nat : a = w[i].n /\ b = w[Len(w)].n /\ l = Len(w)
      BY <1>7, <3>1
    <3>6. a + l = b + i /\ m.n = b + 1 /\ v[i].n = a
      BY <1>7, <3>1, <3>3, <3>4, <3>5
    <3>7. a + (l + 1) = (b + 1) + i
      BY <3>1, <3>6
    <3> QED
      BY <3>5, <3>6, <3>7
  <2> QED
    BY <2>1, <2>2
<1>10. ASSUME NEW x \in Roles, IsOpen(slots[x])', pending'[x] # <<>>
       PROVE  Run(pending'[x]) /\ Follows(slots[x], pending[x][Len(pending[x])].n)'
  <2>1. slots[x] \in Peers /\ IsOpen(slots[x])
    BY <1>0, <1>10 DEF RelayTypes, IsOpen
  <2>2. x = r
    BY <1>1, <2>1
  <2>3. pending'[x] = v /\ slots'[x] = p /\ Run(v) /\ v[Len(v)] = m
    BY <1>1, <1>7, <1>8, <1>9, <2>1, <2>2
  <2>4. PICK n \in Nat : n = m.n
    BY <1>3
  <2>5. Follows(p, n)'
    BY <1>3, <2>4 DEF Follows
  <2> QED
    BY <2>3, <2>4, <2>5 DEF Follows
<1>11. ASSUME NEW x \in Peers, NEW q \in Peers, IsOpen(x)', IsOpen(q)', NEW i \in DOMAIN down'[x],
              LastOf(down'[x], q, i)
       PROVE  Follows(q, down[x][i].n)'
  <2>1. down[x][i].type = "signal" /\ down[x][i].from = q /\ IsOpen(x) /\ IsOpen(q)
    BY <1>4, <1>11 DEF LastOf, Mine
  <2>2. q # p
    <3>1. seat[x] \in Roles /\ slots[seat[x]] = x /\ seat[q] = OtherRole(seat[x])
      BY <1>0, <1>11, <2>1 DEF OrderInv, SeatInv, IsOpen
    <3>2. seat[x] = r
      BY <1>1, <2>1, <3>1
    <3> QED
      BY <1>2, <3>1, <3>2, OtherRoles
  <2>3. PICK n \in Nat : n = down[x][i].n
    BY <1>11, <2>1, ToldNat
  <2>4. Follows(q, n)
    BY <1>11, <2>1, <2>3 DEF OrderInv
  <2>5. Follows(q, n)'
    BY <1>3, <2>2, <2>4
  <2> QED
    BY <2>3, <2>5 DEF Follows
<1>12. \A x, q \in Peers : IsOpen(q)' => Ordered(down'[x], q)
  BY <1>4 DEF OrderInv
<1>13. \A x \in Peers : \A i \in DOMAIN down'[x] : down'[x][i].type = "signal" =>
          /\ seat'[x] \in Roles /\ down'[x][i].from \in Peers
          /\ seat'[down'[x][i].from] = OtherRole(seat'[x])
  BY <1>1 DEF OrderInv
<1> QED
  BY <1>3, <1>10, <1>11, <1>12, <1>13 DEF OrderInv

LEMMA RelayOrder ==
    ASSUME RelayInv, OrderInv, NEW p \in Peers, Relay(p), UNCHANGED proc
    PROVE  OrderInv'
<1>1. PICK r, m : RelayTells(p, r, m)
  BY RelayDown
<1>2. CASE /\ \E o \in Peers :
                 /\ o = slots[OtherRole(r)] /\ IsOpen(o)
                 /\ \A x \in Peers : down'[x] = IF x = o THEN down[o] \o <<m>> ELSE down[x]
           /\ UNCHANGED <<pending, socket>>
  <2>1. PICK o \in Peers :
           /\ o = slots[OtherRole(r)] /\ IsOpen(o)
           /\ \A x \in Peers : down'[x] = IF x = o THEN down[o] \o <<m>> ELSE down[x]
    BY <1>2
  <2>2. UNCHANGED <<room, socket>>
    BY <1>1, <1>2 DEF RelayTells, room
  <2> QED
    BY <1>1, <2>1, <2>2, SendOrder
<1>3. CASE /\ ~IsOpen(slots[OtherRole(r)]) /\ UNCHANGED <<socket, down>>
           /\ pending' = [pending EXCEPT ![r] = Append(@, m)]
  BY <1>1, <1>3, QueueOrder DEF RelayTells
<1>4. CASE Fail(p, "bad-message") /\ UNCHANGED pending
  <2>1. /\ UNCHANGED <<room, seat>> /\ \A x \in Peers : x # p => up'[x] = up[x]
        /\ \E k \in Nat : Follows(p, k)'
    <3>1. /\ \A x \in Peers : x # p => up'[x] = up[x]
          /\ \E k \in Nat : Follows(p, k)'
      BY <1>1, TakenParts
    <3>2. UNCHANGED <<room, seat>>
      BY <1>1, <1>4 DEF RelayTells, room
    <3> QED
      BY <3>1, <3>2
  <2> QED
    BY <1>4, <2>1, FailOrder
<1> QED
  BY <1>1, <1>2, <1>3, <1>4 DEF RelayTells

LEMMA NextOrder ==
    ASSUME RelayInv, HeardInv, TransferInv, OrderInv, [Next]_vars
    PROVE  OrderInv'
<1>1. ASSUME NEW p \in Peers, Connect(p) \/ Runs(p) \/ TimeOut(p) \/ Kill(p)
      PROVE  OrderInv'
  <2>1. CASE Connect(p)
    <3>1. /\ In(p, "off") /\ UNCHANGED <<room, seat, up, down>>
          /\ proc \in [Peers -> Procs] /\ socket \in [Peers -> SocketStates]
          /\ proc' = [proc EXCEPT ![p].phase = "joining"]
          /\ socket' = [socket EXCEPT ![p] = "connecting"]
      BY <2>1 DEF Connect, TransferInv, RelayInv, RelayTypes
    <3>2. \A x \in Peers : /\ proc'[x].sent = proc[x].sent
                           /\ proc'[x].phase = IF x = p THEN "joining" ELSE proc[x].phase
                           /\ socket'[x] = "open" => socket[x] = "open"
      BY <3>1 DEF Procs
    <3>3. "off" \notin Ended
      BY DEF Ended
    <3>4. \A x \in Peers : \A k \in Nat : Follows(x, k) => Follows(x, k)'
      BY <3>1, <3>2, <3>3 DEF Follows, In
    <3>5. \A x \in Peers : Untold(x) /\ \E k \in Nat : Follows(x, k)'
      BY <3>1, <3>4 DEF OrderInv, Untold
    <3> QED
      BY <3>1, <3>2, <3>4, <3>5, LessOrder DEF room
  <2>2. CASE Serve(p)
    BY <2>2, RefuseOrder, JoinOrder, RelayOrder, HearCloseOrder, LeaveOrder DEF Serve, ServerStep
  <2>3. CASE Handle(p)
    BY <2>3, HandleKinds, KindsOrder
  <2>4. CASE \/ Attach(p) \/ Publish(p) \/ (\E q \in Peers : Dial(p, q)) \/ Deliver(p)
             \/ OnOpen(p) \/ HearReady(p) \/ SendFrame(p) \/ SendThrows(p) \/ ReadFrame(p)
             \/ Drained(p) \/ HearResult(p) \/ PartnerLeft(p) \/ TimeOut(p) \/ Kill(p)
    <3>1. Alike /\ Kinds(p)
      BY <2>4, ActKinds
    <3> QED
      BY <3>1, KindsOrder DEF Alike
  <2> QED
    BY <1>1, <2>1, <2>2, <2>3, <2>4 DEF Runs
<1>2. CASE UNCHANGED vars
  BY <1>2 DEF vars, relayVars, room, OrderInv, Follows, IsOpen
<1> QED
  BY <1>1, <1>2 DEF Next

LEMMA InitOrder == Init => OrderInv
<1> SUFFICES ASSUME Init PROVE OrderInv
  OBVIOUS
<1>1. /\ \A r \in Roles : pending[r] = <<>>
      /\ \A p \in Peers : up[p] = <<>> /\ down[p] = <<>> /\ proc[p].sent = 0
  BY DEF Init, RelayInit, Fresh
<1>2. DOMAIN <<>> = {} /\ Len(<<>>) = 0 /\ 0 + 0 = 0
  OBVIOUS
<1>3. \A q \in Peers : Follows(q, 0)
  BY <1>1, <1>2 DEF Follows
<1> QED
  BY <1>1, <1>2, <1>3 DEF OrderInv, Ordered

\* Between two processes no signal is lost, repeated or reordered, whether it was sent on
\* or waited in the room (the message and connection handlers), until the relay fails one.
THEOREM SignalsAlwaysInOrder == Spec => []SignalsAreInOrder
<1>1. RelayInv /\ HeardInv /\ TransferInv /\ OrderInv /\ [Next]_vars => OrderInv'
  BY NextOrder
<1>2. RelayInv /\ OrderInv => SignalsAreInOrder
  <2> SUFFICES ASSUME RelayInv, OrderInv, NEW p \in Peers, NEW q \in Peers, socket[q] = "open"
               PROVE  LET OfQ == {i \in DOMAIN down[p] : down[p][i].type = "signal"
                                                         /\ down[p][i].from = q}
                      IN  \A i, j \in OfQ : i < j /\ (\A k \in OfQ : k <= i \/ k >= j) =>
                             down[p][j].n = down[p][i].n + 1
    BY DEF SignalsAreInOrder
  <2>1. Ordered(down[p], q)
    BY RelayAssumption DEF OrderInv, IsOpen
  <2> QED
    BY <2>1 DEF Ordered, Mine
<1> QED
  BY <1>1, <1>2, InitOrder, TransferAlways, PTL DEF Spec
================================================================================
