---------------------------- MODULE WebrtcTransfer ----------------------------
(***************************************************************************)
(* Processes that move a payload over WebRTC (scripts/webrtc-transfer.mjs, *)
(* overWs), with the signaling client they use                             *)
(* (scripts/webrtc-signal-client.mjs) and the relay between them.          *)
(*                                                                         *)
(* A process joins the room, exchanges descriptions and candidates with    *)
(* its partner and opens the data channel; then the offerer waits for the  *)
(* answerer's ready, sends the frames and waits for the result, and the    *)
(* answerer, once that is sent, waits for the offerer to leave.  Every     *)
(* wait has a timer but those for room in the send buffer, which end only  *)
(* when there is room.  The peer connection is a library: it is up when    *)
(* each side has applied the other's description and one of them a         *)
(* candidate of the other's; what a channel had still to send stays in its *)
(* buffer when the other end goes.                                         *)
(***************************************************************************)
EXTENDS SignalRelay

CONSTANTS
    Candidates,    \* per process: how many candidates it gathers
    Frames,        \* how many frames the payload takes
    High           \* the high mark of the send buffer, in frames

ASSUME TransferAssumption ==
    Candidates \in [Peers -> Nat \ {0}] /\ Frames \in Nat \ {0} /\ High \in Nat \ {0}

VARIABLES
    proc,       \* per process: its memory, see Fresh
    disturbed   \* history: the processes that were killed or gave up

vars == <<relayVars, proc, disturbed>>

\* The memory of a process.
Fresh == [
    phase   |-> "off",     \* where it is
    sent    |-> 0,         \* how many of its signals it has published
    backlog |-> <<>>,      \* signalBacklog: signals before onSignal was called
    left    |-> FALSE,     \* peerLeft
    remote  |-> NoPeer,    \* whose description it has applied
    waiting |-> {},        \* whose candidates wait for a description
    added   |-> {},        \* whose candidates it has added
    channel |-> NoPeer,    \* the process at the other end of its data channel
    buffer  |-> <<>>,      \* what the data channel has still to send
    inbox   |-> <<>>,      \* what has arrived and was not awaited yet
    moved   |-> <<>>]      \* the frames it has sent or read, in order

Ended == {"ok", "mismatch", "failed"}
Live(p) == proc[p].phase \notin Ended \cup {"off"}
In(p, phase) == proc[p].phase = phase

Start == [type |-> "start"]
Frame(i) == [type |-> "frame", n |-> i]
Result(frames) == [type |-> "result", frames |-> frames]
Payload == [i \in 1 .. Frames |-> i]

\* The channel works both ways until one of its ends has gone.
Linked(p) == LET q == proc[p].channel IN q # NoPeer /\ proc[q].channel = p

Init ==
    /\ RelayInit
    /\ proc = [p \in Peers |-> Fresh]
    /\ disturbed = {}

-----------------------------------------------------------------------------
\* The socket of p closes: behind all it has sent, or, when the process exits,
\* behind a part of it.
CloseSocket(p) == up' = [up EXCEPT ![p] = Append(@, Close)]
DropSocket(p) ==
    \E k \in 0 .. Len(up[p]) : up' = [up EXCEPT ![p] = Append(SubSeq(@, 1, k), Close)]

\* The process ends, and its memory and its peer connection with it.
End(p, phase) == proc' = [proc EXCEPT ![p] = [Fresh EXCEPT !.phase = phase, !.moved = proc[p].moved]]

\* process.exit(1)
Exit(p) ==
    /\ End(p, "failed")
    /\ DropSocket(p)
    /\ disturbed' = disturbed \cup {p}

OnlyProc == UNCHANGED <<relayVars, disturbed>>
BesidesUp == UNCHANGED <<room, socket, seat, down, read>>

-----------------------------------------------------------------------------
\* connectSignal: the socket opens.
Connect(p) ==
    /\ In(p, "off")
    /\ proc' = [proc EXCEPT ![p].phase = "joining"]
    /\ socket' = [socket EXCEPT ![p] = "connecting"]
    /\ UNCHANGED <<room, seat, up, down, read, disturbed>>

\* applyRemote, for a run of signals: the first description is applied, and
\* with it the candidates that came before; a later description is ignored.
Applied(s, msgs) ==
    LET Of(isDescription) == {i \in DOMAIN msgs : (msgs[i].n = 1) = isDescription}
        candidates == s.waiting \cup {msgs[i].from : i \in Of(FALSE)}
        first == CHOOSE i \in Of(TRUE) : \A j \in Of(TRUE) : i <= j
    IN  IF s.remote = NoPeer /\ Of(TRUE) = {}
        THEN [s EXCEPT !.waiting = candidates]
        ELSE [s EXCEPT !.remote = IF @ = NoPeer THEN msgs[first].from ELSE @,
                       !.added = @ \cup candidates,
                       !.waiting = {}]

\* A signal waits in the backlog until onSignal is called.
Heard(s, m) == IF s.phase = "joined" THEN [s EXCEPT !.backlog = Append(@, m)]
                                     ELSE Applied(s, <<m>>)

\* The message handler of connectSignal.  An error ends the process, before the join by the
\* rejection and after it by onError.
Handle(p) ==
    LET m == down[p][read[p] + 1]
    IN  /\ Live(p) /\ read[p] < Len(down[p])
        /\ read' = [read EXCEPT ![p] = @ + 1]
        /\ UNCHANGED <<room, socket, seat, down>>
        /\ \/ /\ m.type = "joined"
              /\ proc' = [proc EXCEPT ![p].phase = "joined"]
              /\ UNCHANGED <<up, disturbed>>
           \/ /\ m.type = "signal"
              /\ proc' = [proc EXCEPT ![p] = Heard(@, m)]
              /\ UNCHANGED <<up, disturbed>>
           \/ /\ m.type = "peer-left"
              /\ proc' = [proc EXCEPT ![p].left = TRUE]
              /\ UNCHANGED <<up, disturbed>>
           \/ /\ m.type = "ready"
              /\ UNCHANGED <<up, proc, disturbed>>
           \/ /\ m.type = "error"
              /\ Exit(p)

\* Variant: what came before onSignal is lost.
BacklogLost(s) == <<>>

\* onSignal: the signals that came before it was called.
Backlog(s) == s.backlog

\* The process has its role: onError and onSignal are set, the backlog goes
\* through applyRemote, and the peer connection starts.
Attach(p) ==
    /\ In(p, "joined")
    /\ proc' = [proc EXCEPT ![p] =
           [Applied(@, Backlog(@)) EXCEPT !.phase = "opening", !.backlog = <<>>]]
    /\ OnlyProc

\* onLocalDescription, onLocalCandidate and publish: the part that diffSignal
\* finds new is sent.  An answerer has a description once it has an offer.
Publish(p) ==
    /\ Live(p) /\ proc[p].phase \notin {"joining", "joined"}
    /\ seat[p] = "offerer" \/ proc[p].remote # NoPeer
    /\ proc[p].sent < 1 + Candidates[p]
    /\ proc' = [proc EXCEPT ![p].sent = @ + 1]
    /\ up' = [up EXCEPT ![p] = Append(@, Signal(p, proc[p].sent + 1))]
    /\ BesidesUp /\ UNCHANGED disturbed

\* The library: two peer connections find each other.
Dial(p, q) ==
    /\ In(p, "opening") /\ In(q, "opening")
    /\ seat[p] = "offerer" /\ seat[q] = "answerer"
    /\ proc[p].remote = q /\ proc[q].remote = p
    /\ q \in proc[p].added \/ p \in proc[q].added
    /\ proc[p].channel = NoPeer /\ proc[q].channel = NoPeer
    /\ proc' = [proc EXCEPT ![p].channel = q, ![q].channel = p]
    /\ OnlyProc

\* The library: the next message of p's channel arrives at the other end.
Deliver(p) ==
    /\ Linked(p) /\ proc[p].buffer # <<>>
    /\ proc' = [proc EXCEPT ![p].buffer = Tail(@),
                            ![proc[p].channel].inbox = Append(@, Head(proc[p].buffer))]
    /\ OnlyProc

-----------------------------------------------------------------------------
\* openTracked: the answerer says at once that it listens.
OnOpen(p) ==
    /\ In(p, "opening") /\ proc[p].channel # NoPeer
    /\ \/ /\ seat[p] = "offerer"
          /\ proc' = [proc EXCEPT ![p].phase = "ready"]
       \/ /\ seat[p] # "offerer"
          /\ proc' = [proc EXCEPT ![p].phase = "receiving", ![p].buffer = Append(@, Start)]
    /\ OnlyProc

\* The offerer hears that the answerer listens.
HearReady(p) ==
    /\ In(p, "ready") /\ proc[p].inbox # <<>>
    /\ proc' = [proc EXCEPT ![p].phase = "sending", ![p].inbox = Tail(@)]
    /\ OnlyProc

\* Variant: a frame that filled the buffer is sent again.
QueuedAgain(p, n) == IF Len(proc[p].buffer) + 1 = High THEN <<Frame(n), Frame(n)>> ELSE <<Frame(n)>>

\* sendMessageBinary queues the frame, also when it says that the buffer is full.
Queued(p, n) == <<Frame(n)>>

\* sendWithBackpressure: one frame, once the buffer is below the high mark.
SendFrame(p) ==
    LET n == Len(proc[p].moved) + 1
    IN  /\ In(p, "sending") /\ Linked(p) /\ Len(proc[p].buffer) < High
        /\ proc' = [proc EXCEPT ![p].moved = Append(@, n),
                                ![p].buffer = @ \o Queued(p, n),
                                ![p].phase = IF n = Frames THEN "result" ELSE @]
        /\ OnlyProc

\* Variant: a send on a dead channel says nothing.
BrokenUnnoticed(p) == FALSE

Broken(p) == ~Linked(p)

\* A process whose channel has lost its other end cannot send: it throws, if it comes to
\* send at all.
SendThrows(p) ==
    /\ In(p, "sending") /\ Broken(p) /\ Len(proc[p].buffer) < High
    /\ Exit(p) /\ BesidesUp

\* The answerer reads a frame; after the last one it sends the result.
ReadFrame(p) ==
    LET frames == Append(proc[p].moved, Head(proc[p].inbox).n)
    IN  /\ In(p, "receiving") /\ proc[p].inbox # <<>>
        /\ \/ /\ Len(frames) < Frames
              /\ proc' = [proc EXCEPT ![p].moved = frames, ![p].inbox = Tail(@)]
           \/ /\ Len(frames) >= Frames
              /\ proc' = [proc EXCEPT ![p].moved = frames, ![p].inbox = Tail(@),
                                      ![p].phase = "draining",
                                      ![p].buffer = Append(@, Result(frames))]
        /\ OnlyProc

\* drain: the buffer is empty, or five seconds have passed.
Drained(p) ==
    /\ In(p, "draining")
    /\ disturbed' = IF proc[p].buffer = <<>> THEN disturbed ELSE disturbed \cup {p}
    /\ BesidesUp
    /\ IF proc[p].moved = Payload
       THEN /\ proc' = [proc EXCEPT ![p].phase = "leaving"]
            /\ UNCHANGED up
       ELSE End(p, "mismatch") /\ DropSocket(p)

\* The offerer has the result: it leaves the room and ends.
HearResult(p) ==
    /\ In(p, "result") /\ proc[p].inbox # <<>>
    /\ End(p, IF Head(proc[p].inbox).frames = Payload THEN "ok" ELSE "mismatch")
    /\ CloseSocket(p)
    /\ BesidesUp /\ UNCHANGED disturbed

\* whenPeerLeft: the answerer ends once peerLeft is set.
PartnerLeft(p) ==
    /\ In(p, "leaving") /\ proc[p].left
    /\ End(p, "ok") /\ CloseSocket(p)
    /\ BesidesUp /\ UNCHANGED disturbed

\* The timer of what the process waits for.
TimeOut(p) ==
    /\ proc[p].phase \in {"joining", "opening", "ready", "receiving", "result", "leaving"}
    /\ Exit(p) /\ BesidesUp

\* The process is killed.
Kill(p) == Live(p) /\ Exit(p) /\ BesidesUp

-----------------------------------------------------------------------------
Serve(p) == ServerStep(p) /\ UNCHANGED <<proc, disturbed>>

\* What a process and the server do by themselves, timers aside.
Runs(p) ==
    \/ Serve(p) \/ Handle(p) \/ Attach(p) \/ Publish(p)
    \/ (\E q \in Peers : Dial(p, q)) \/ Deliver(p)
    \/ OnOpen(p) \/ HearReady(p) \/ SendFrame(p) \/ SendThrows(p)
    \/ ReadFrame(p) \/ Drained(p) \/ HearResult(p) \/ PartnerLeft(p)

Next == \E p \in Peers : Connect(p) \/ Runs(p) \/ TimeOut(p) \/ Kill(p)

Spec == Init /\ [][Next]_vars

\* The server and the processes run; timers fire when they like.
FairSpec == Spec /\ \A p \in Peers : WF_vars(Runs(p))

-----------------------------------------------------------------------------
TypeOK ==
    /\ RelayTypeOK
    /\ disturbed \subseteq Peers
    /\ \A p \in Peers :
        /\ DOMAIN proc[p] = DOMAIN Fresh
        /\ proc[p].sent \in 0 .. 1 + Candidates[p]
        /\ proc[p].remote \in Peers \cup {NoPeer}
        /\ proc[p].channel \in Peers \cup {NoPeer}

\* The payload arrives whole and in order, whatever the buffer did: no process
\* finds the wrong hash.
NoMismatch == \A p \in Peers : ~In(p, "mismatch")

\* Two processes that nobody disturbs and no timer stops both end well: the
\* signals meet whichever of the two joins first, and the frames pass a
\* buffer that is smaller than the payload.
Count(phases) == Cardinality({p \in Peers : proc[p].phase \in phases})
PairSucceeds ==
    [](disturbed = {} /\ Count({"off"}) + 2 >= Cardinality(Peers)) =>
        (Count({"off"}) + 2 = Cardinality(Peers) ~> Count({"ok"}) = 2)

\* An answerer waits for its offerer to finish, and peerLeft would say that the
\* process at the other end of its channel has left.  It does not hold, as the
\* flag outlives a partner that left before the channel was open.
LeftIsOfPartner ==
    \A p \in Peers : proc[p].left /\ proc[p].channel # NoPeer => ~Live(proc[p].channel)

\* A sender whose partner has gone while the buffer was full: it waits for room that the
\* code gives it no other way to miss (sendWithBackpressure).
Stuck(p) == In(p, "sending") /\ ~Linked(p) /\ Len(proc[p].buffer) >= High

\* With its timers every process comes to an end, whoever it is left by and wherever that
\* catches it; the one wait that nothing bounds is that of a stuck sender.
EveryoneEnds ==
    WF_vars(\E p \in Peers : TimeOut(p)) => <>[](\A p \in Peers : Live(p) => Stuck(p))
=============================================================================
