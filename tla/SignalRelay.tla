------------------------------ MODULE SignalRelay ------------------------------
(***************************************************************************)
(* The signaling relay (scripts/webrtc-signal-server.mjs): one room with a *)
(* seat for an offerer and one for an answerer, the signals that wait for  *)
(* a peer that is not there yet, and the sockets of the processes that     *)
(* connect.  Rooms share no state, so one is enough; a room that the       *)
(* server deletes and a fresh one look the same here (EmptyRoomIsFresh).   *)
(*                                                                         *)
(* Every process opens one socket, a FIFO channel each way.  A socket that *)
(* is closing keeps its seat until its close event has run: nothing is     *)
(* sent to it, and what it sent before is still handled.                   *)
(***************************************************************************)
EXTENDS Naturals, Sequences, FiniteSets

CONSTANTS
    Peers,         \* the processes that connect
    Asks,          \* the role each names in its URL, or "any"
    MaxPending,    \* MAX_PENDING
    NoPeer

Roles == {"offerer", "answerer"}

ASSUME RelayAssumption ==
    /\ NoPeer \notin Peers
    /\ Asks \in [Peers -> Roles \cup {"any"}]
    /\ MaxPending \in Nat \ {0}

VARIABLES
    slots,      \* rec.slots: the process whose socket has the seat
    pending,    \* rec.pending: the signals of that seat's peer that wait
    socket,     \* per process: the server's end of its socket
    seat,       \* per process: the role its handlers closed over
    up,         \* per process: what it sent and the server has not handled
    down,       \* per process: all that the server ever sent it
    read        \* per process: how much of that it has handled

room == <<slots, pending>>
relayVars == <<room, socket, seat, up, down, read>>

\* failing: the server has called close; leaving: the process has closed.
SocketStates == {"none", "connecting", "open", "failing", "leaving", "closed"}

\* The n-th signal of a process: its description first, then candidates.
Signal(p, n) == [type |-> "signal", from |-> p, n |-> n]
Joined(role) == [type |-> "joined", role |-> role]
Failure(reason) == [type |-> "error", reason |-> reason]
Ready == [type |-> "ready"]
PeerLeft == [type |-> "peer-left"]
Close == [type |-> "close"]

OtherRole(r) == CHOOSE o \in Roles : o # r

RelayInit ==
    /\ slots = [r \in Roles |-> NoPeer]
    /\ pending = [r \in Roles |-> <<>>]
    /\ socket = [p \in Peers |-> "none"]
    /\ seat = [p \in Peers |-> "none"]
    /\ up = [p \in Peers |-> <<>>]
    /\ down = [p \in Peers |-> <<>>]
    /\ read = [p \in Peers |-> 0]

-----------------------------------------------------------------------------
IsOpen(p) == p # NoPeer /\ socket[p] = "open"

\* send: nothing goes to a socket that is not open.
SendTo(p, msgs) == IF IsOpen(p) THEN [down EXCEPT ![p] = @ \o msgs] ELSE down

\* The last messages of a socket, and the close behind them (fail).
Fail(p, reason) ==
    /\ down' = [down EXCEPT ![p] = @ \o
                   (IF socket[p] \in {"connecting", "open"}
                    THEN <<Failure(reason), Close>> ELSE <<>>)]
    /\ socket' = [socket EXCEPT ![p] = IF @ \in {"connecting", "open"}
                                       THEN "failing" ELSE @]

\* The role a connection gets: the one it asks for, else the free one.
RoleFor(p) == IF Asks[p] # "any" THEN Asks[p]
              ELSE IF slots["offerer"] # NoPeer THEN "answerer" ELSE "offerer"

\* The connection handler of a socket that finds no seat.
Refuse(p) ==
    /\ socket[p] = "connecting"
    /\ \/ \A r \in Roles : slots[r] # NoPeer
       \/ slots[RoleFor(p)] # NoPeer
    /\ Fail(p, IF \A r \in Roles : slots[r] # NoPeer THEN "room-full" ELSE "role-taken")
    /\ UNCHANGED <<room, seat, up, read>>

\* Variant: the queue goes before the notice.
GreetingLate(r) == pending[OtherRole(r)] \o <<Ready>>

\* Variant: the newest signal goes first.
GreetingReversed(r) ==
    LET q == pending[OtherRole(r)]
    IN  <<Ready>> \o [i \in DOMAIN q |-> q[Len(q) + 1 - i]]

\* What the peer of a seat is sent when the other is there: ready, and what
\* the other had queued for it.
Greeting(r) == <<Ready>> \o pending[OtherRole(r)]

\* The connection handler of a socket that takes a seat: joined; when the
\* other seat is taken, ready to both and what each had queued for the other.
Join(p) ==
    LET r == RoleFor(p)
        other == slots[OtherRole(r)]
    IN  /\ socket[p] = "connecting"
        /\ \E s \in Roles : slots[s] = NoPeer
        /\ slots[r] = NoPeer
        /\ slots' = [slots EXCEPT ![r] = p]
        /\ seat' = [seat EXCEPT ![p] = r]
        /\ socket' = [socket EXCEPT ![p] = "open"]
        /\ pending' = IF other = NoPeer THEN pending ELSE [s \in Roles |-> <<>>]
        /\ down' = [SendTo(other, Greeting(OtherRole(r))) EXCEPT ![p] =
               @ \o <<Joined(r)>> \o (IF other = NoPeer THEN <<>> ELSE Greeting(r))]
        /\ UNCHANGED <<up, read>>

\* Variant: off by one.
HasRoomOver(r) == Len(pending[r]) <= MaxPending

HasRoom(r) == Len(pending[r]) < MaxPending

\* The message handler of a socket that has its seat: a signal goes to the
\* other seat's socket when that is open, else in the queue, and a queue that
\* is full fails the sender.  A socket that was refused sends nothing.
Relay(p) ==
    LET r == seat[p]
        m == Head(up[p])
        dest == slots[OtherRole(r)]
    IN  /\ up[p] # <<>> /\ m.type = "signal"
        /\ up' = [up EXCEPT ![p] = Tail(@)]
        /\ UNCHANGED <<slots, seat, read>>
        /\ \/ /\ slots[r] = p /\ IsOpen(dest)
              /\ down' = SendTo(dest, <<m>>)
              /\ UNCHANGED <<pending, socket>>
           \/ /\ slots[r] = p /\ ~IsOpen(dest) /\ HasRoom(r)
              /\ pending' = [pending EXCEPT ![r] = Append(@, m)]
              /\ UNCHANGED <<socket, down>>
           \/ /\ slots[r] = p /\ ~IsOpen(dest) /\ ~HasRoom(r)
              /\ Fail(p, "bad-message")
              /\ UNCHANGED pending

\* The process's close has arrived: the socket is closing, and the close
\* event is still to come.
HearClose(p) ==
    /\ up[p] # <<>> /\ Head(up[p]).type = "close"
    /\ up' = [up EXCEPT ![p] = <<>>]
    /\ socket' = [socket EXCEPT ![p] = "leaving"]
    /\ UNCHANGED <<room, seat, down, read>>

\* Variant: the queue of the one who leaves is kept.
AfterLeaveKept(r) == [pending EXCEPT ![OtherRole(r)] = <<>>]

\* The queues once the peer of a seat has left.
AfterLeave(r) == [s \in Roles |-> <<>>]

\* Variant: the other peer is not told.
FarewellUnsaid(r) == down

\* The other peer is told that the one of this seat has left.
Farewell(r) == SendTo(slots[OtherRole(r)], <<PeerLeft>>)

\* The close event: the seat is free, both queues are dropped, the other
\* peer is told.  What was sent to the socket is of no use any more.
Leave(p) ==
    LET r == seat[p]
    IN  /\ socket[p] = "leaving"
        /\ socket' = [socket EXCEPT ![p] = "closed"]
        /\ read' = [read EXCEPT ![p] = 0]
        /\ UNCHANGED <<seat, up>>
        /\ IF r # "none" /\ slots[r] = p
           THEN /\ slots' = [slots EXCEPT ![r] = NoPeer]
                /\ pending' = AfterLeave(r)
                /\ down' = [Farewell(r) EXCEPT ![p] = <<>>]
           ELSE UNCHANGED room /\ down' = [down EXCEPT ![p] = <<>>]

ServerStep(p) == Refuse(p) \/ Join(p) \/ Relay(p) \/ HearClose(p) \/ Leave(p)

-----------------------------------------------------------------------------
RelayTypeOK ==
    /\ slots \in [Roles -> Peers \cup {NoPeer}]
    /\ \A r \in Roles : Len(pending[r]) <= MaxPending
    /\ socket \in [Peers -> SocketStates]
    /\ seat \in [Peers -> Roles \cup {"none"}]
    /\ \A p \in Peers : read[p] \in 0 .. Len(down[p])

\* A room without peers is as a fresh one: nothing of the last pair waits in
\* it, so the server may delete it and whoever joins next starts clean.
EmptyRoomIsFresh ==
    (\A r \in Roles : slots[r] = NoPeer) => \A r \in Roles : pending[r] = <<>>

\* The i-th message to p is a ready that no peer-left has followed by the j-th.
ReadyFrom(p, i, j) == down[p][i] = Ready /\ \A k \in i .. j : down[p][k] # PeerLeft

\* What a peer was last told of the other seat is how it is: ready when it is
\* taken; peer-left, or nothing at all, when it is free.
PresenceIsKnown ==
    \A r \in Roles :
        LET p == slots[r]
        IN  (p # NoPeer /\ socket[p] = "open") =>
                (slots[OtherRole(r)] # NoPeer <=>
                    \E i \in DOMAIN down[p] : ReadyFrom(p, i, Len(down[p])))

\* A peer gets the signals of its partner alone: after a ready and before the
\* peer-left, and all of them between two readies from one process.  Nothing
\* that a process left behind reaches the one that takes its place.
SignalsAreOfPartner ==
    \A p \in Peers : \A j \in DOMAIN down[p] : down[p][j].type = "signal" =>
        \E i \in 1 .. j :
            /\ ReadyFrom(p, i, j)
            /\ \A k \in i .. j : down[p][k].type = "signal" =>
                   down[p][k].from = down[p][j].from

\* Between two processes nothing is lost, repeated or reordered, whether it
\* waited or not: the signals of q to p are consecutive ones, unless the relay
\* has failed q.
SignalsAreInOrder ==
    \A p, q \in Peers :
        LET OfQ == {i \in DOMAIN down[p] : down[p][i].type = "signal" /\ down[p][i].from = q}
        IN  socket[q] = "open" =>
                \A i, j \in OfQ : i < j /\ (\A k \in OfQ : k <= i \/ k >= j) =>
                    down[p][j].n = down[p][i].n + 1
=============================================================================
