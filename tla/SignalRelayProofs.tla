--------------------------- MODULE SignalRelayProofs ---------------------------
(* Proofs about SignalRelay: whatever the processes do with their sockets, the *)
(* room starts fresh, a peer knows whether the other seat is taken, and the    *)
(* signals it gets are its partner's.                                          *)
EXTENDS SignalRelay, SeqFilterProofs, TLAPS

Signals == [type: {"signal"}, from: Peers, n: Nat]
Notices == {Ready, PeerLeft, Close} \cup {Joined(r) : r \in Roles}
           \cup {Failure(reason) : reason \in {"room-full", "role-taken", "bad-message"}}
Messages == Signals \cup Notices

-----------------------------------------------------------------------------
(* The relay among processes that do what they like *)

\* A process opens its socket.
Opens(p) ==
    /\ socket[p] = "none"
    /\ socket' = [socket EXCEPT ![p] = "connecting"]
    /\ UNCHANGED <<room, seat, up, down, read>>

\* What a process may have sent: signals of its own once it has a seat, and closes.
Own(p, s) ==
    /\ s \in Seq(Signals \cup {Close})
    /\ \A i \in DOMAIN s : s[i] = Close \/ (s[i].from = p /\ seat[p] \in Roles)

\* A process sends, closes, drops what it has sent, or reads.
Uses(p) ==
    /\ \E s \in Seq(Signals \cup {Close}) : Own(p, s) /\ up' = [up EXCEPT ![p] = s]
    /\ \/ read' = read
       \/ read[p] < Len(down[p]) /\ read' = [read EXCEPT ![p] = @ + 1]
    /\ UNCHANGED <<room, socket, seat, down>>

RelayNext == \E p \in Peers : ServerStep(p) \/ Opens(p) \/ Uses(p)

RelaySpec == RelayInit /\ [][RelayNext]_relayVars

-----------------------------------------------------------------------------
(* What a peer was told, as a sequence of messages *)

ReadyAt(d, i, j) == d[i] = Ready /\ \A k \in i .. j : d[k] # PeerLeft
FromOne(d, i, j, q) == \A k \in i .. j : d[k].type = "signal" => d[k].from = q

\* Every signal follows a ready, with signals of its sender alone in between.
Whole(d) ==
    \A j \in DOMAIN d : d[j].type = "signal" =>
        \E i \in 1 .. j : ReadyAt(d, i, j) /\ FromOne(d, i, j, d[j].from)

\* The last that d tells is that q is there; or that nobody is.
Present(d, q) == \E i \in DOMAIN d : ReadyAt(d, i, Len(d)) /\ FromOne(d, i, Len(d), q)
Absent(d) == ~ \E i \in DOMAIN d : ReadyAt(d, i, Len(d))

LEMMA MessageTypes ==
    /\ \A m \in Signals : m.type = "signal" /\ m # Ready /\ m # PeerLeft
    /\ \A m \in Notices : m.type # "signal"
    /\ Ready # PeerLeft /\ Ready.type = "ready"
    /\ \A r \in Roles : Joined(r) # Ready
BY DEF Signals, Notices, Ready, PeerLeft, Close, Joined, Failure

LEMMA ConcatParts ==
    ASSUME NEW T, NEW d \in Seq(T), NEW s \in Seq(T)
    PROVE  /\ d \o s \in Seq(T) /\ Len(d) \in Nat /\ Len(s) \in Nat
           /\ Len(d \o s) = Len(d) + Len(s)
           /\ DOMAIN d = 1 .. Len(d) /\ DOMAIN s = 1 .. Len(s)
           /\ DOMAIN (d \o s) = 1 .. (Len(d) + Len(s))
           /\ \A k \in 1 .. Len(d) : (d \o s)[k] = d[k]
           /\ \A k \in 1 .. Len(s) : (d \o s)[Len(d) + k] = s[k]
OBVIOUS

\* What was told already stays told.
LEMMA WholePrefix ==
    ASSUME NEW d \in Seq(Messages), NEW e \in Seq(Messages), Whole(d), Len(d) <= Len(e),
           \A k \in 1 .. Len(d) : e[k] = d[k],
           NEW j \in 1 .. Len(d), e[j].type = "signal"
    PROVE  \E i \in 1 .. j : ReadyAt(e, i, j) /\ FromOne(e, i, j, e[j].from)
<1>1. Len(d) \in Nat /\ DOMAIN d = 1 .. Len(d) /\ e[j] = d[j]
  OBVIOUS
<1>2. PICK i \in 1 .. j : ReadyAt(d, i, j) /\ FromOne(d, i, j, d[j].from)
  BY <1>1 DEF Whole
<1>3. \A k \in i .. j : k \in 1 .. Len(d) /\ e[k] = d[k]
  BY <1>1, <1>2
<1>4. ReadyAt(e, i, j) /\ FromOne(e, i, j, e[j].from)
  BY <1>1, <1>2, <1>3 DEF ReadyAt, FromOne
<1> QED
  BY <1>2, <1>4

\* A notice is appended.
LEMMA NoticeTold ==
    ASSUME NEW d \in Seq(Messages), NEW m \in Notices, Whole(d)
    PROVE  /\ d \o <<m>> \in Seq(Messages)
           /\ Whole(d \o <<m>>)
           /\ m = PeerLeft => Absent(d \o <<m>>)
<1> DEFINE e == d \o <<m>>
           n == Len(d)
<1>1. <<m>> \in Seq(Messages) /\ Len(<<m>>) = 1 /\ <<m>>[1] = m
  BY DEF Messages
<1>2. /\ e \in Seq(Messages) /\ n \in Nat /\ DOMAIN d = 1 .. n /\ Len(e) = n + 1
      /\ DOMAIN e = 1 .. (n + 1) /\ \A k \in 1 .. n : e[k] = d[k]
      /\ e[n + 1] = m
  BY <1>1, ConcatParts
<1> HIDE DEF e, n
<1>3. m.type # "signal"
  BY MessageTypes
<1>4. Whole(e)
  <2> SUFFICES ASSUME NEW j \in DOMAIN e, e[j].type = "signal"
               PROVE  \E i \in 1 .. j : ReadyAt(e, i, j) /\ FromOne(e, i, j, e[j].from)
    BY DEF Whole
  <2>1. j \in 1 .. Len(d) /\ Len(d) <= Len(e)
    BY <1>2, <1>3 DEF n
  <2>2. \A k \in 1 .. Len(d) : e[k] = d[k]
    BY <1>2 DEF n
  <2> QED
    BY <1>2, <2>1, <2>2, WholePrefix
<1>5. m = PeerLeft => Absent(e)
  <2> SUFFICES ASSUME m = PeerLeft, NEW i \in DOMAIN e, ReadyAt(e, i, Len(e)) PROVE FALSE
    BY DEF Absent
  <2>1. n + 1 \in i .. Len(e)
    BY <1>2
  <2> QED
    BY <1>2, <2>1 DEF ReadyAt
<1> QED
  BY <1>2, <1>4, <1>5 DEF e

\* A signal of the one who is there is appended.
LEMMA SignalTold ==
    ASSUME NEW d \in Seq(Messages), NEW m \in Signals, Whole(d), Present(d, m.from)
    PROVE  /\ d \o <<m>> \in Seq(Messages)
           /\ Whole(d \o <<m>>) /\ Present(d \o <<m>>, m.from)
<1> DEFINE e == d \o <<m>>
           n == Len(d)
<1>1. <<m>> \in Seq(Messages) /\ Len(<<m>>) = 1 /\ <<m>>[1] = m
  BY DEF Messages
<1>2. /\ e \in Seq(Messages) /\ n \in Nat /\ DOMAIN d = 1 .. n /\ Len(e) = n + 1
      /\ DOMAIN e = 1 .. (n + 1) /\ \A k \in 1 .. n : e[k] = d[k]
      /\ e[n + 1] = m
  BY <1>1, ConcatParts
<1> HIDE DEF e
<1>3. PICK i \in DOMAIN d : ReadyAt(d, i, n) /\ FromOne(d, i, n, m.from)
  BY DEF Present
<1> HIDE DEF n
<1>4. \A k \in i .. (n + 1) : k = n + 1 \/ (k \in i .. n /\ e[k] = d[k])
  BY <1>2, <1>3
<1>5. i \in 1 .. n /\ e[i] = d[i]
  BY <1>2, <1>3
<1>6. ReadyAt(e, i, n + 1) /\ FromOne(e, i, n + 1, m.from)
  BY <1>2, <1>3, <1>4, <1>5, MessageTypes DEF ReadyAt, FromOne
<1>7. Present(e, m.from)
  BY <1>2, <1>5, <1>6 DEF Present
<1>8. Whole(e)
  <2> SUFFICES ASSUME NEW j \in DOMAIN e, e[j].type = "signal"
               PROVE  \E x \in 1 .. j : ReadyAt(e, x, j) /\ FromOne(e, x, j, e[j].from)
    BY DEF Whole
  <2>1. CASE j \in 1 .. n
    <3>1. j \in 1 .. Len(d) /\ Len(d) <= Len(e) /\ \A k \in 1 .. Len(d) : e[k] = d[k]
      BY <1>2, <2>1 DEF n
    <3> QED
      BY <1>2, <3>1, WholePrefix
  <2>2. CASE j = n + 1
    BY <1>2, <1>5, <1>6, <2>2
  <2> QED
    BY <1>2, <2>1, <2>2
<1> QED
  BY <1>2, <1>7, <1>8 DEF e

\* A ready is appended, and what q had queued.
LEMMA GreetingTold ==
    ASSUME NEW d \in Seq(Messages), Whole(d), NEW q, NEW s \in Seq(Signals),
           \A k \in DOMAIN s : s[k].from = q
    PROVE  /\ d \o (<<Ready>> \o s) \in Seq(Messages)
           /\ Whole(d \o (<<Ready>> \o s)) /\ Present(d \o (<<Ready>> \o s), q)
<1> DEFINE g == <<Ready>> \o s
           e == d \o g
           n == Len(d)
           l == Len(s)
<1>1. <<Ready>> \in Seq(Messages) /\ Len(<<Ready>>) = 1 /\ <<Ready>>[1] = Ready
  BY DEF Messages, Notices
<1>2. s \in Seq(Messages) /\ \A k \in DOMAIN s : s[k] \in Signals
  BY DEF Messages
<1>3. /\ g \in Seq(Messages) /\ l \in Nat /\ Len(g) = 1 + l /\ DOMAIN s = 1 .. l
      /\ g[1] = Ready /\ \A k \in 1 .. l : g[1 + k] = s[k]
  BY <1>1, <1>2, ConcatParts
<1> HIDE DEF g
<1>4. /\ e \in Seq(Messages) /\ n \in Nat /\ Len(e) = n + (1 + l)
      /\ DOMAIN e = 1 .. (n + (1 + l)) /\ \A k \in 1 .. n : e[k] = d[k]
      /\ \A k \in 1 .. (1 + l) : e[n + k] = g[k]
  BY <1>3, ConcatParts
<1> HIDE DEF e, l
<1> DEFINE i == n + 1
<1>5. i \in DOMAIN e /\ e[i] = Ready
  BY <1>3, <1>4
<1>6. ASSUME NEW k \in i .. (n + (1 + l)) PROVE k = i \/ (e[k] \in Signals /\ e[k].from = q)
  <2>1. CASE k # i
    <3>1. k - i \in 1 .. l /\ n + (1 + (k - i)) = k /\ 1 + (k - i) \in 1 .. (1 + l)
      BY <1>3, <1>4, <2>1
    <3>2. e[k] = s[k - i]
      BY <1>3, <1>4, <3>1
    <3> QED
      BY <1>2, <1>3, <3>1, <3>2
  <2> QED
    BY <2>1
<1> HIDE DEF n, i
<1>7. ASSUME NEW j \in i .. (n + (1 + l))
      PROVE  ReadyAt(e, i, j) /\ FromOne(e, i, j, q)
  <2>1. \A k \in i .. j : k \in i .. (n + (1 + l))
    BY <1>3, <1>4, <1>7 DEF i
  <2> QED
    BY <1>5, <1>6, <2>1, MessageTypes DEF ReadyAt, FromOne
<1>8. Present(e, q)
  <2>1. Len(e) \in i .. (n + (1 + l))
    BY <1>3, <1>4 DEF i
  <2> QED
    BY <1>5, <1>7, <2>1 DEF Present
<1>9. Whole(e)
  <2> SUFFICES ASSUME NEW j \in DOMAIN e, e[j].type = "signal"
               PROVE  \E x \in 1 .. j : ReadyAt(e, x, j) /\ FromOne(e, x, j, e[j].from)
    BY DEF Whole
  <2>1. CASE j \in 1 .. n
    <3>1. j \in 1 .. Len(d) /\ Len(d) <= Len(e) /\ \A k \in 1 .. Len(d) : e[k] = d[k]
      BY <1>3, <1>4, <2>1 DEF n
    <3> QED
      BY <1>4, <3>1, WholePrefix
  <2>2. CASE j \notin 1 .. n
    <3>1. j \in i .. (n + (1 + l)) /\ i \in 1 .. j
      BY <1>3, <1>4, <2>2 DEF i
    <3>2. e[j].from = q
      BY <1>5, <1>6, <2>2, <3>1, MessageTypes
    <3> QED
      BY <1>7, <3>1, <3>2
  <2> QED
    BY <2>1, <2>2
<1> QED
  BY <1>4, <1>8, <1>9 DEF e, g
-----------------------------------------------------------------------------
(* Seats *)

RelayTypes ==
    /\ slots \in [Roles -> Peers \cup {NoPeer}]
    /\ pending \in [Roles -> Seq(Signals)]
    /\ \A r \in Roles : Len(pending[r]) <= MaxPending
    /\ socket \in [Peers -> SocketStates]
    /\ seat \in [Peers -> Roles \cup {"none"}]
    /\ up \in [Peers -> Seq(Signals \cup {Close})]
    /\ \A p \in Peers : Own(p, up[p])
    /\ down \in [Peers -> Seq(Messages)]
    /\ read \in [Peers -> Nat]
    /\ \A p \in Peers : read[p] <= Len(down[p])

\* A socket that is open has the seat of its role, no other has it, and what waits in
\* the room was sent by the peer that is there, to a seat whose socket is not open.
SeatInv ==
    /\ \A r \in Roles : slots[r] # NoPeer =>
          seat[slots[r]] = r /\ socket[slots[r]] \in {"open", "failing", "leaving"}
    /\ \A p \in Peers : socket[p] \in {"none", "connecting"} =>
          seat[p] = "none" /\ down[p] = <<>> /\ read[p] = 0
    /\ \A p \in Peers : socket[p] = "open" => seat[p] \in Roles /\ slots[seat[p]] = p
    /\ \A p \in Peers : \A i \in DOMAIN down[p] : down[p][i].type = "joined" => seat[p] \in Roles
    /\ \A r \in Roles : slots[r] = NoPeer => pending[r] = <<>>
    /\ \A r \in Roles : \A i \in DOMAIN pending[r] : pending[r][i].from = slots[r]
    /\ \A r \in Roles : IsOpen(slots[OtherRole(r)]) => pending[r] = <<>>

\* Who is in the other seat, by what p was told.
Knows(p) ==
    LET other == slots[OtherRole(seat[p])]
    IN  /\ other = NoPeer => Absent(down[p])
        /\ other # NoPeer => Present(down[p], other)

ToldInv == \A p \in Peers : Whole(down[p]) /\ (socket[p] = "open" => Knows(p))

RelayInv == RelayTypes /\ SeatInv /\ ToldInv

LEMMA OtherRoles ==
    ASSUME NEW r \in Roles
    PROVE  /\ OtherRole(r) \in Roles /\ OtherRole(r) # r /\ OtherRole(OtherRole(r)) = r
           /\ \A s \in Roles : s = r \/ s = OtherRole(r)
<1>1. \A x \in Roles : \E o \in Roles : o # x
  BY DEF Roles
<1>2. \A x \in Roles : OtherRole(x) \in Roles /\ OtherRole(x) # x
  BY <1>1 DEF OtherRole
<1> QED
  BY <1>2 DEF Roles

LEMMA RoleForType ==
    ASSUME NEW p \in Peers PROVE RoleFor(p) \in Roles
BY RelayAssumption DEF RoleFor, Roles

\* The notices, and the one that tells of a seat.
LEMMA NoticesTyped ==
    /\ Ready \in Notices /\ PeerLeft \in Notices /\ Close \in Notices
    /\ \A r \in Roles : Joined(r) \in Notices
    /\ \A x \in {"room-full", "role-taken", "bad-message"} :
          Failure(x) \in Notices /\ Failure(x).type = "error"
    /\ \A m \in Signals \cup {Ready, PeerLeft, Close} : m.type # "joined"
BY DEF Notices, Signals, Ready, PeerLeft, Close, Failure

\* Messages are appended to what a process was told: notices, or a signal.
LEMMA DownParts ==
    ASSUME NEW d \in Seq(Messages), NEW s \in Seq(Messages)
    PROVE  /\ d \o s \in Seq(Messages) /\ Len(d) <= Len(d \o s)
           /\ \A i \in DOMAIN (d \o s) :
                 (i \in DOMAIN d /\ (d \o s)[i] = d[i]) \/ \E k \in DOMAIN s : (d \o s)[i] = s[k]
<1>1. /\ d \o s \in Seq(Messages) /\ Len(d) \in Nat /\ Len(s) \in Nat
      /\ DOMAIN d = 1 .. Len(d) /\ DOMAIN s = 1 .. Len(s)
      /\ Len(d \o s) = Len(d) + Len(s) /\ DOMAIN (d \o s) = 1 .. (Len(d) + Len(s))
      /\ \A k \in 1 .. Len(d) : (d \o s)[k] = d[k]
      /\ \A k \in 1 .. Len(s) : (d \o s)[Len(d) + k] = s[k]
  BY ConcatParts
<1>2. ASSUME NEW i \in 1 .. (Len(d) + Len(s)), i > Len(d)
      PROVE  \E k \in DOMAIN s : (d \o s)[i] = s[k]
  <2>1. i - Len(d) \in 1 .. Len(s) /\ Len(d) + (i - Len(d)) = i
    BY <1>1, <1>2
  <2> QED
    BY <1>1, <2>1
<1> QED
  BY <1>1, <1>2

\* A socket that is failed: the peer keeps its seat, if it has one, and is not open.
LEMMA FailRelay ==
    ASSUME RelayInv, NEW p \in Peers, NEW x \in {"room-full", "role-taken", "bad-message"},
           Fail(p, x), UNCHANGED <<room, seat, read>>, NEW s, Own(p, s),
           up' = [up EXCEPT ![p] = s]
    PROVE  RelayInv'
<1> DEFINE told == <<Failure(x), Close>>
<1>0. RelayTypes /\ SeatInv /\ ToldInv
  BY DEF RelayInv
<1>1. /\ told \in Seq(Messages) /\ Len(told) = 2 /\ told[1] = Failure(x) /\ told[2] = Close
      /\ DOMAIN told = 1 .. 2
  BY NoticesTyped DEF Messages
<1>2. CASE socket[p] \notin {"connecting", "open"}
  <2>1. socket' = socket /\ down' = down
    <3>1. down[p] \o <<>> = down[p]
      BY <1>0 DEF RelayTypes
    <3> QED
      BY <1>0, <1>2, <3>1 DEF Fail, RelayTypes
  <2>2. RelayTypes'
    BY <1>0, <2>1 DEF RelayTypes, Own, room
  <2> QED
    BY <1>0, <2>1, <2>2
       DEF RelayInv, SeatInv, ToldInv, Knows, IsOpen, room
<1>3. CASE socket[p] \in {"connecting", "open"}
  <2> DEFINE e == down[p] \o told
  <2>1. /\ socket' = [socket EXCEPT ![p] = "failing"]
        /\ down' = [down EXCEPT ![p] = e]
    BY <1>0, <1>3 DEF Fail, RelayTypes
  <2>2. /\ e \in Seq(Messages) /\ Len(down[p]) <= Len(e)
        /\ \A i \in DOMAIN e : (i \in DOMAIN down[p] /\ e[i] = down[p][i]) \/ e[i] \in {Failure(x), Close}
    BY <1>0, <1>1, DownParts DEF RelayTypes
  <2>3. Whole(e)
    <3>1. down[p] \in Seq(Messages) /\ Whole(down[p])
      BY <1>0 DEF RelayTypes, ToldInv
    <3> DEFINE c == down[p] \o <<Failure(x)>>
    <3>2. c \in Seq(Messages) /\ Whole(c)
      BY <3>1, NoticeTold, NoticesTyped
    <3>3. e = c \o <<Close>>
      BY <3>1, NoticesTyped DEF Messages
    <3> HIDE DEF c, e
    <3> QED
      BY <3>2, <3>3, NoticeTold, NoticesTyped
  <2> HIDE DEF e, told
  <2>4. RelayTypes'
    <3>1. down' \in [Peers -> Seq(Messages)] /\ socket' \in [Peers -> SocketStates]
      BY <1>0, <2>1, <2>2 DEF RelayTypes, SocketStates
    <3>2. up' \in [Peers -> Seq(Signals \cup {Close})] /\ \A q \in Peers : Own(q, up[q])'
      BY <1>0 DEF RelayTypes, Own
    <3>3. \A q \in Peers : read'[q] <= Len(down'[q])
      <4>1. \A q \in Peers : read[q] \in Nat /\ Len(down[q]) \in Nat /\ read[q] <= Len(down[q])
        BY <1>0 DEF RelayTypes
      <4>2. Len(e) \in Nat
        BY <2>2
      <4> QED
        BY <1>0, <2>1, <2>2, <4>1, <4>2 DEF RelayTypes
    <3> QED
      BY <1>0, <3>1, <3>2, <3>3 DEF RelayTypes, room
  <2>5. SeatInv'
    <3>1. \A q \in Peers : IsOpen(q)' => IsOpen(q)
      BY <1>0, <2>1 DEF IsOpen, RelayTypes
    <3>2. \A q \in Peers : \A i \in DOMAIN down'[q] :
             down'[q][i].type = "joined" => seat[q] \in Roles
      <4>1. Failure(x).type # "joined" /\ Close.type # "joined"
        BY NoticesTyped
      <4>2. CASE p \in Peers /\ seat[p] \notin Roles
        <5>1. \A i \in DOMAIN e : e[i].type # "joined"
          BY <1>0, <2>2, <4>1, <4>2 DEF SeatInv
        <5> QED
          BY <1>0, <2>1, <5>1 DEF SeatInv, RelayTypes
      <4>3. CASE seat[p] \in Roles
        BY <1>0, <2>1, <4>3 DEF SeatInv, RelayTypes
      <4> QED
        BY <4>2, <4>3
    <3>3. ASSUME NEW r \in Roles, slots[r] # NoPeer
          PROVE  seat[slots[r]] = r /\ socket'[slots[r]] \in {"open", "failing", "leaving"}
      BY <1>0, <2>1, <3>3 DEF SeatInv, RelayTypes
    <3>4. ASSUME NEW q \in Peers, socket'[q] \in {"none", "connecting"}
          PROVE  seat[q] = "none" /\ down'[q] = <<>> /\ read[q] = 0
      BY <1>0, <2>1, <3>4 DEF SeatInv, RelayTypes
    <3>5. ASSUME NEW q \in Peers, socket'[q] = "open"
          PROVE  seat[q] \in Roles /\ slots[seat[q]] = q
      BY <1>0, <2>1, <3>5 DEF SeatInv, RelayTypes
    <3>6. ASSUME NEW r \in Roles, IsOpen(slots[OtherRole(r)])'
          PROVE  pending[r] = <<>>
      <4>1. slots[OtherRole(r)] \in Peers
        BY <1>0, <3>6, OtherRoles DEF IsOpen, RelayTypes, room
      <4> QED
        BY <1>0, <3>1, <3>6, <4>1, OtherRoles DEF SeatInv, IsOpen, room
    <3>7. /\ \A r \in Roles : slots[r] = NoPeer => pending[r] = <<>>
          /\ \A r \in Roles : \A i \in DOMAIN pending[r] : pending[r][i].from = slots[r]
      BY <1>0 DEF SeatInv
    <3> QED
      BY <3>2, <3>3, <3>4, <3>5, <3>6, <3>7 DEF SeatInv, room
  <2>6. ToldInv'
    <3> SUFFICES ASSUME NEW q \in Peers
                 PROVE  Whole(down'[q]) /\ (socket'[q] = "open" => Knows(q)')
      BY DEF ToldInv
    <3>1. CASE q = p
      BY <1>0, <2>1, <2>3, <3>1 DEF RelayTypes
    <3>2. CASE q # p
      BY <1>0, <2>1, <3>2 DEF RelayTypes, ToldInv, Knows, room
    <3> QED
      BY <3>1, <3>2
  <2> QED
    BY <2>4, <2>5, <2>6 DEF RelayInv
<1> QED
  BY <1>2, <1>3
\* A step that leaves the room, the sockets and what was told as they are.
LEMMA OwnRelay ==
    ASSUME RelayInv, UNCHANGED <<room, socket, seat, down>>, NEW p \in Peers, NEW s, Own(p, s),
           up' = [up EXCEPT ![p] = s],
           read' = read \/ (read[p] < Len(down[p]) /\ read' = [read EXCEPT ![p] = @ + 1])
    PROVE  RelayInv'
<1>0. RelayTypes /\ SeatInv /\ ToldInv
  BY DEF RelayInv
<1>1. /\ read' \in [Peers -> Nat] /\ \A q \in Peers : read'[q] <= Len(down[q])
      /\ \A q \in Peers : down[q] = <<>> => read'[q] = read[q]
  <2>1. \A q \in Peers : Len(down[q]) \in Nat /\ read[q] \in Nat /\ read[q] <= Len(down[q])
    BY <1>0 DEF RelayTypes
  <2>2. \A q \in Peers : down[q] = <<>> => Len(down[q]) = 0
    OBVIOUS
  <2>3. read \in [Peers -> Nat]
    BY <1>0 DEF RelayTypes
  <2>4. CASE read' = read
    BY <2>1, <2>3, <2>4
  <2>5. CASE read[p] < Len(down[p]) /\ read' = [read EXCEPT ![p] = read[p] + 1]
    <3>1. down[p] # <<>> /\ read[p] + 1 \in Nat /\ read[p] + 1 <= Len(down[p])
      BY <2>1, <2>2, <2>5
    <3>2. read' \in [Peers -> Nat]
      BY <2>3, <2>5, <3>1
    <3>3. \A q \in Peers : read'[q] = IF q = p THEN read[p] + 1 ELSE read[q]
      BY <2>3, <2>5
    <3> QED
      BY <2>1, <3>1, <3>2, <3>3
  <2> QED
    BY <2>4, <2>5
<1>2. RelayTypes'
  <2>1. up' \in [Peers -> Seq(Signals \cup {Close})] /\ \A q \in Peers : Own(q, up[q])'
    BY <1>0 DEF RelayTypes, Own
  <2> QED
    BY <1>0, <1>1, <2>1 DEF RelayTypes, room
<1>3. SeatInv'
  BY <1>0, <1>1 DEF SeatInv, IsOpen, room
<1>4. ToldInv'
  BY <1>0 DEF ToldInv, Knows, room
<1> QED
  BY <1>2, <1>3, <1>4 DEF RelayInv

LEMMA TailOwn ==
    ASSUME RelayTypes, NEW p \in Peers, up[p] # <<>>
    PROVE  /\ Head(up[p]) \in Signals \cup {Close} /\ Own(p, Tail(up[p]))
           /\ Head(up[p]).type = "signal" => /\ Head(up[p]) \in Signals
                                             /\ Head(up[p]).from = p /\ seat[p] \in Roles
<1> DEFINE s == up[p]
<1>1. s \in Seq(Signals \cup {Close}) /\ Own(p, s)
  BY DEF RelayTypes
<1> HIDE DEF s
<1>2. /\ Head(s) \in Signals \cup {Close} /\ Head(s) = s[1] /\ Tail(s) \in Seq(Signals \cup {Close})
      /\ Len(s) \in Nat \ {0} /\ DOMAIN s = 1 .. Len(s)
      /\ DOMAIN Tail(s) = 1 .. (Len(s) - 1)
      /\ \A i \in 1 .. (Len(s) - 1) : Tail(s)[i] = s[i + 1]
  <2>1. s # <<>>
    BY DEF s
  <2> QED
    BY <1>1, <2>1, TailParts
<1>3. 1 \in DOMAIN s /\ \A i \in DOMAIN Tail(s) : i + 1 \in DOMAIN s
  BY <1>2
<1>4. Own(p, Tail(s))
  BY <1>1, <1>2, <1>3 DEF Own
<1>5. Close.type # "signal"
  BY DEF Close
<1>6. Head(s).type = "signal" => Head(s) \in Signals /\ Head(s).from = p /\ seat[p] \in Roles
  BY <1>1, <1>2, <1>3, <1>5 DEF Own
<1> QED
  BY <1>2, <1>4, <1>6 DEF s

\* A signal waits in the room: its sender is there, and the other seat's socket is not open.
LEMMA QueueRelay ==
    ASSUME RelayInv, NEW p \in Peers, NEW m \in Signals, NEW r \in Roles,
           m.from = p, slots[r] = p, ~IsOpen(slots[OtherRole(r)]), HasRoom(r),
           pending' = [pending EXCEPT ![r] = Append(@, m)],
           UNCHANGED <<slots, socket, seat, down, read>>, NEW s, Own(p, s),
           up' = [up EXCEPT ![p] = s]
    PROVE  RelayInv'
<1>0. RelayTypes /\ SeatInv /\ ToldInv
  BY DEF RelayInv
<1> DEFINE q == Append(pending[r], m)
<1>1. /\ q \in Seq(Signals) /\ Len(q) = Len(pending[r]) + 1 /\ Len(pending[r]) \in Nat
      /\ DOMAIN q = 1 .. (Len(pending[r]) + 1) /\ DOMAIN pending[r] = 1 .. Len(pending[r])
      /\ \A i \in 1 .. Len(pending[r]) : q[i] = pending[r][i]
      /\ q[Len(pending[r]) + 1] = m
  BY <1>0, AppendParts DEF RelayTypes
<1> HIDE DEF q
<1>2. pending' = [pending EXCEPT ![r] = q]
  BY DEF q
<1>3. RelayTypes'
  <2>1. up' \in [Peers -> Seq(Signals \cup {Close})] /\ \A x \in Peers : Own(x, up[x])'
    BY <1>0 DEF RelayTypes, Own
  <2>2. Len(q) <= MaxPending
    BY <1>1, RelayAssumption DEF HasRoom
  <2>3. pending' \in [Roles -> Seq(Signals)]
    BY <1>0, <1>1, <1>2 DEF RelayTypes
  <2>4. \A x \in Roles : Len(pending'[x]) <= MaxPending
    BY <1>0, <1>2, <2>2 DEF RelayTypes
  <2> QED
    BY <1>0, <2>1, <2>3, <2>4 DEF RelayTypes
<1>4. SeatInv'
  <2>1. \A x \in Roles : slots[x] = NoPeer => pending'[x] = <<>>
    BY <1>0, <1>2, RelayAssumption DEF SeatInv, RelayTypes
  <2>2. \A i \in DOMAIN q : q[i].from = p
    BY <1>0, <1>1 DEF SeatInv
  <2>3. \A x \in Roles : \A i \in DOMAIN pending'[x] : pending'[x][i].from = slots[x]
    BY <1>0, <1>2, <2>2 DEF SeatInv, RelayTypes
  <2>4. \A x \in Roles : IsOpen(slots[OtherRole(x)]) => pending'[x] = <<>>
    BY <1>0, <1>2 DEF SeatInv, RelayTypes
  <2> QED
    BY <1>0, <2>1, <2>3, <2>4 DEF SeatInv, IsOpen
<1>5. ToldInv'
  BY <1>0 DEF ToldInv, Knows
<1> QED
  BY <1>3, <1>4, <1>5 DEF RelayInv

\* A signal is sent on: the one it goes to knows that its sender is there.
LEMMA SendRelay ==
    ASSUME RelayInv, NEW p \in Peers, NEW m \in Signals, NEW r \in Roles,
           m.from = p, slots[r] = p, NEW o, o = slots[OtherRole(r)], IsOpen(o),
           down' = [down EXCEPT ![o] = @ \o <<m>>],
           UNCHANGED <<room, socket, seat, read>>, NEW s, Own(p, s),
           up' = [up EXCEPT ![p] = s]
    PROVE  RelayInv'
<1>0. RelayTypes /\ SeatInv /\ ToldInv
  BY DEF RelayInv
<1> DEFINE e == down[o] \o <<m>>
<1>1. o \in Peers /\ down[o] \in Seq(Messages) /\ m \in Messages /\ socket[o] = "open"
  BY <1>0, OtherRoles DEF RelayTypes, IsOpen, Messages
<1>2. seat[o] = OtherRole(r) /\ OtherRole(seat[o]) = r
  BY <1>0, <1>1, OtherRoles DEF SeatInv, IsOpen
<1>3. Whole(down[o]) /\ Present(down[o], p)
  BY <1>0, <1>1, <1>2, RelayAssumption DEF ToldInv, Knows
<1>4. e \in Seq(Messages) /\ Whole(e) /\ Present(e, p)
  BY <1>1, <1>3, SignalTold
<1>5. Len(down[o]) <= Len(e) /\ Len(e) \in Nat
  BY <1>1, DownParts
<1> HIDE DEF e
<1>6. down' = [down EXCEPT ![o] = e]
  BY DEF e
<1>7. RelayTypes'
  <2>1. up' \in [Peers -> Seq(Signals \cup {Close})] /\ \A x \in Peers : Own(x, up[x])'
    BY <1>0 DEF RelayTypes, Own
  <2>2. \A x \in Peers : read[x] \in Nat /\ Len(down[x]) \in Nat /\ read[x] <= Len(down[x])
    BY <1>0 DEF RelayTypes
  <2>3. \A x \in Peers : read[x] <= Len(down'[x])
    BY <1>0, <1>1, <1>5, <1>6, <2>2 DEF RelayTypes
  <2> QED
    <3>1. down' \in [Peers -> Seq(Messages)]
      BY <1>0, <1>4, <1>6 DEF RelayTypes
    <3> QED
      BY <1>0, <2>1, <2>3, <3>1 DEF RelayTypes, room
<1>8. SeatInv'
  <2>1. \A x \in Peers : socket[x] \in {"none", "connecting"} => down'[x] = <<>>
    BY <1>0, <1>1, <1>6 DEF SeatInv, RelayTypes
  <2>2. \A x \in Peers : \A i \in DOMAIN down'[x] :
           down'[x][i].type = "joined" => seat[x] \in Roles
    BY <1>0, <1>1, <1>6 DEF SeatInv, RelayTypes
  <2> QED
    BY <1>0, <2>1, <2>2 DEF SeatInv, IsOpen, room
<1>9. ToldInv'
  <2> SUFFICES ASSUME NEW q \in Peers
               PROVE  Whole(down'[q]) /\ (socket[q] = "open" => Knows(q)')
    BY DEF ToldInv
  <2>1. CASE q = o
    <3>1. down'[o] = e /\ slots'[OtherRole(seat'[o])] = p /\ p # NoPeer
      BY <1>0, <1>1, <1>2, <1>6, RelayAssumption DEF RelayTypes, room
    <3> QED
      BY <1>4, <2>1, <3>1 DEF Knows
  <2>2. CASE q # o
    BY <1>0, <1>6, <2>2 DEF RelayTypes, ToldInv, Knows, room
  <2> QED
    BY <2>1, <2>2
<1> QED
  BY <1>7, <1>8, <1>9 DEF RelayInv

LEMMA RelayRelay ==
    ASSUME RelayInv, NEW p \in Peers, Relay(p)
    PROVE  RelayInv'
<1> DEFINE m == Head(up[p])
           r == seat[p]
           s == Tail(up[p])
<1>0. RelayTypes
  BY DEF RelayInv
<1>1. m \in Signals /\ m.from = p /\ r \in Roles /\ Own(p, s)
  BY <1>0, TailOwn DEF Relay
<1>2. up' = [up EXCEPT ![p] = s] /\ UNCHANGED <<slots, seat, read>> /\ slots[r] = p
  BY DEF Relay
<1>3. \/ /\ IsOpen(slots[OtherRole(r)]) /\ UNCHANGED <<pending, socket>>
         /\ down' = SendTo(slots[OtherRole(r)], <<m>>)
      \/ /\ ~IsOpen(slots[OtherRole(r)]) /\ HasRoom(r) /\ UNCHANGED <<socket, down>>
         /\ pending' = [pending EXCEPT ![r] = Append(@, m)]
      \/ Fail(p, "bad-message") /\ UNCHANGED pending
  BY DEF Relay
<1> HIDE DEF m, r, s
<1>4. CASE /\ IsOpen(slots[OtherRole(r)]) /\ UNCHANGED <<pending, socket>>
           /\ down' = SendTo(slots[OtherRole(r)], <<m>>)
  <2>1. down' = [down EXCEPT ![slots[OtherRole(r)]] = @ \o <<m>>]
    BY <1>4 DEF SendTo
  <2> QED
    BY <1>1, <1>2, <1>4, <2>1, SendRelay DEF room
<1>5. CASE /\ ~IsOpen(slots[OtherRole(r)]) /\ HasRoom(r) /\ UNCHANGED <<socket, down>>
           /\ pending' = [pending EXCEPT ![r] = Append(@, m)]
  BY <1>1, <1>2, <1>5, QueueRelay
<1>6. CASE Fail(p, "bad-message") /\ UNCHANGED pending
  BY <1>1, <1>2, <1>6, FailRelay DEF room
<1> QED
  BY <1>3, <1>4, <1>5, <1>6
\* A peer takes its seat: it is told of the other, and the other, when its socket is
\* open, of it.
LEMMA JoinRelay ==
    ASSUME RelayInv, NEW p \in Peers, Join(p)
    PROVE  RelayInv'
<1> DEFINE r == RoleFor(p)
           o == slots[OtherRole(r)]
           d == down[p]
           greets == IF o = NoPeer THEN <<>> ELSE Greeting(r)
           e == d \o <<Joined(r)>> \o greets
<1>0. RelayTypes /\ SeatInv /\ ToldInv
  BY DEF RelayInv
<1>1. /\ r \in Roles /\ OtherRole(r) \in Roles /\ o \in Peers \cup {NoPeer}
      /\ OtherRole(r) # r /\ OtherRole(OtherRole(r)) = r
      /\ \A x \in Roles : x = r \/ x = OtherRole(r)
  BY <1>0, RoleForType, OtherRoles DEF RelayTypes
<1>2. /\ socket[p] = "connecting" /\ slots[r] = NoPeer
      /\ slots' = [slots EXCEPT ![r] = p] /\ seat' = [seat EXCEPT ![p] = r]
      /\ socket' = [socket EXCEPT ![p] = "open"]
      /\ pending' = IF o = NoPeer THEN pending ELSE [x \in Roles |-> <<>>]
      /\ down' = [SendTo(o, Greeting(OtherRole(r))) EXCEPT ![p] = @ \o <<Joined(r)>> \o greets]
      /\ up' = up /\ read' = read
  BY DEF Join
<1>3. d = <<>> /\ seat[p] = "none" /\ read[p] = 0 /\ o # p /\ pending[r] = <<>>
  <2>1. d = <<>> /\ seat[p] = "none" /\ read[p] = 0
    BY <1>0, <1>2 DEF SeatInv
  <2>2. pending[r] = <<>>
    BY <1>0, <1>1, <1>2 DEF SeatInv
  <2>3. p # NoPeer /\ socket[p] \notin {"open", "failing", "leaving"}
    BY <1>2, RelayAssumption
  <2>4. o # NoPeer => socket[o] \in {"open", "failing", "leaving"}
    BY <1>0, <1>1 DEF SeatInv
  <2> QED
    BY <2>1, <2>2, <2>3, <2>4
<1>4. Greeting(r) = <<Ready>> \o pending[OtherRole(r)] /\ Greeting(OtherRole(r)) = <<Ready>> \o <<>>
  BY <1>1, <1>3 DEF Greeting
<1>5. e \in Seq(Messages) /\ Whole(e) /\ (o = NoPeer => Absent(e)) /\ (o # NoPeer => Present(e, o))
  <2> DEFINE c == d \o <<Joined(r)>>
             w == pending[OtherRole(r)]
  <2>1. d \in Seq(Messages) /\ Whole(d)
    BY <1>0 DEF RelayTypes, ToldInv
  <2>2. c \in Seq(Messages) /\ Whole(c)
    BY <1>1, <2>1, NoticeTold, NoticesTyped
  <2>3. CASE o = NoPeer
    <3>1. e = c \o <<>> /\ c \o <<>> = c
      BY <2>2, <2>3
    <3>2. c = <<Joined(r)>> /\ Len(c) = 1 /\ DOMAIN c = 1 .. 1 /\ c[1] = Joined(r)
      BY <1>3
    <3>3. Absent(c)
      BY <1>1, <3>2, MessageTypes DEF Absent, ReadyAt
    <3> QED
      BY <2>2, <2>3, <3>1, <3>3
  <2>4. CASE o # NoPeer
    <3>1. w \in Seq(Signals) /\ \A k \in DOMAIN w : w[k].from = o
      BY <1>0, <1>1 DEF RelayTypes, SeatInv
    <3>2. e = c \o (<<Ready>> \o w)
      BY <1>4, <2>4
    <3> HIDE DEF c, w, e
    <3> QED
      BY <2>2, <2>4, <3>1, <3>2, GreetingTold
  <2> QED
    BY <2>3, <2>4
<1> DEFINE f == down[o] \o (<<Ready>> \o <<>>)
<1>6. IsOpen(o) => /\ o \in Peers /\ down[o] \in Seq(Messages) /\ f \in Seq(Messages)
                   /\ Whole(f) /\ Present(f, p)
                   /\ Len(f) \in Nat /\ Len(down[o]) <= Len(f)
  <2> SUFFICES ASSUME IsOpen(o)
               PROVE  /\ o \in Peers /\ down[o] \in Seq(Messages) /\ f \in Seq(Messages)
                      /\ Whole(f) /\ Present(f, p)
                      /\ Len(f) \in Nat /\ Len(down[o]) <= Len(f)
    OBVIOUS
  <2>1. o \in Peers
    BY <1>1 DEF IsOpen
  <2>2. down[o] \in Seq(Messages) /\ Whole(down[o])
    BY <1>0, <2>1 DEF RelayTypes, ToldInv
  <2>3. <<>> \in Seq(Signals) /\ \A k \in DOMAIN <<>> : <<>>[k].from = p
    OBVIOUS
  <2>4. f \in Seq(Messages) /\ Whole(f) /\ Present(f, p)
    BY <2>2, <2>3, GreetingTold
  <2>5. <<Ready>> \o <<>> \in Seq(Messages)
    BY NoticesTyped DEF Messages
  <2>6. Len(down[o]) <= Len(f)
    BY <2>2, <2>5, DownParts
  <2> QED
    BY <2>1, <2>2, <2>4, <2>6
<1>7. \A x \in Peers : down'[x] = IF x = p THEN e ELSE IF x = o /\ IsOpen(o) THEN f ELSE down[x]
  <2>1. CASE IsOpen(o)
    <3>1. o \in Peers /\ SendTo(o, Greeting(OtherRole(r))) = [down EXCEPT ![o] = f]
      BY <1>4, <1>6, <2>1 DEF SendTo
    <3> QED
      BY <1>0, <1>2, <1>3, <2>1, <3>1 DEF RelayTypes
  <2>2. CASE ~IsOpen(o)
    <3>1. SendTo(o, Greeting(OtherRole(r))) = down
      BY <2>2 DEF SendTo
    <3> QED
      BY <1>0, <1>2, <2>2, <3>1 DEF RelayTypes
  <2> QED
    BY <2>1, <2>2
<1>8. down' \in [Peers -> Seq(Messages)]
  <2>1. \E D \in [Peers -> Seq(Messages)] : down' = [D EXCEPT ![p] = e]
    <3>1. CASE IsOpen(o)
      <4>1. SendTo(o, Greeting(OtherRole(r))) = [down EXCEPT ![o] = f]
        BY <1>4, <3>1 DEF SendTo
      <4>2. [down EXCEPT ![o] = f] \in [Peers -> Seq(Messages)] /\ [down EXCEPT ![o] = f][p] = d
        BY <1>0, <1>3, <1>6, <3>1 DEF RelayTypes
      <4> QED
        BY <1>2, <4>1, <4>2
    <3>2. CASE ~IsOpen(o)
      <4>1. SendTo(o, Greeting(OtherRole(r))) = down
        BY <3>2 DEF SendTo
      <4> QED
        BY <1>0, <1>2, <4>1 DEF RelayTypes
    <3> QED
      BY <3>1, <3>2
  <2> QED
    BY <1>5, <2>1
<1> HIDE DEF r, o, d, e, f, greets
<1>9. \A x \in Peers : down'[x] \in Seq(Messages) /\ read[x] <= Len(down'[x])
  <2>1. \A x \in Peers : Len(down[x]) \in Nat /\ read[x] \in Nat /\ read[x] <= Len(down[x])
    BY <1>0 DEF RelayTypes
  <2>2. Len(e) \in Nat /\ Len(e) >= 0
    BY <1>5
  <2> QED
    BY <1>3, <1>6, <1>7, <1>8, <2>1, <2>2
<1>10. RelayTypes'
  <2>1. socket' \in [Peers -> SocketStates] /\ seat' \in [Peers -> Roles \cup {"none"}]
        /\ slots' \in [Roles -> Peers \cup {NoPeer}]
    BY <1>0, <1>1, <1>2 DEF RelayTypes, SocketStates
  <2>2. pending' \in [Roles -> Seq(Signals)] /\ \A x \in Roles : Len(pending'[x]) <= MaxPending
    BY <1>0, <1>2, RelayAssumption DEF RelayTypes
  <2>3. \A x \in Peers : Own(x, up[x])'
    BY <1>0, <1>1, <1>2 DEF RelayTypes, Own
  <2> QED
    BY <1>0, <1>2, <1>8, <1>9, <2>1, <2>2, <2>3 DEF RelayTypes
<1>11. SeatInv'
  <2>1. \A x \in Roles : slots'[x] = IF x = r THEN p ELSE slots[x]
    BY <1>0, <1>2 DEF RelayTypes
  <2>2. \A x \in Peers : /\ seat'[x] = IF x = p THEN r ELSE seat[x]
                         /\ socket'[x] = IF x = p THEN "open" ELSE socket[x]
    BY <1>0, <1>2 DEF RelayTypes
  <2>3. \A x \in Roles : pending'[x] = <<>>
                          \/ (pending' = pending /\ o = NoPeer /\ pending[x] = <<>>)
    BY <1>0, <1>1, <1>2, <1>3 DEF SeatInv, o
  <2>4. \A x \in Roles : slots[x] \in Peers \cup {NoPeer}
    BY <1>0 DEF RelayTypes
  <2>5. ASSUME NEW x \in Roles, slots'[x] # NoPeer
        PROVE  seat'[slots'[x]] = x /\ socket'[slots'[x]] \in {"open", "failing", "leaving"}
    <3>1. CASE x = r
      BY <2>1, <2>2, <3>1
    <3>2. CASE x # r
      <4>1. slots'[x] = slots[x] /\ slots[x] \in Peers /\ slots[x] # p
        BY <1>0, <1>2, <2>1, <2>4, <2>5, <3>2 DEF SeatInv
      <4> QED
        BY <1>0, <2>2, <2>5, <4>1 DEF SeatInv
    <3> QED
      BY <3>1, <3>2
  <2>6. ASSUME NEW x \in Peers, socket'[x] \in {"none", "connecting"}
        PROVE  seat'[x] = "none" /\ down'[x] = <<>> /\ read[x] = 0
    <3>1. x # p /\ socket[x] \in {"none", "connecting"}
      BY <2>2, <2>6
    <3>2. ~(x = o /\ IsOpen(o))
      BY <3>1 DEF IsOpen
    <3> QED
      BY <1>0, <1>7, <2>2, <3>1, <3>2 DEF SeatInv
  <2>7. ASSUME NEW x \in Peers, socket'[x] = "open"
        PROVE  seat'[x] \in Roles /\ slots'[seat'[x]] = x
    <3>1. CASE x = p
      BY <1>1, <2>1, <2>2, <3>1
    <3>2. CASE x # p
      <4>1. seat[x] \in Roles /\ slots[seat[x]] = x
        BY <1>0, <2>2, <2>7, <3>2 DEF SeatInv
      <4>2. seat[x] # r
        BY <1>2, <4>1, RelayAssumption
      <4> QED
        BY <2>1, <2>2, <3>2, <4>1, <4>2
    <3> QED
      BY <3>1, <3>2
  <2>8. ASSUME NEW x \in Peers, NEW i \in DOMAIN down'[x], down'[x][i].type = "joined"
        PROVE  seat'[x] \in Roles
    <3>1. CASE x = p
      BY <1>1, <2>2, <3>1
    <3>2. CASE x # p /\ x = o /\ IsOpen(o)
      BY <1>0, <2>2, <3>2 DEF SeatInv, IsOpen
    <3>3. CASE x # p /\ ~(x = o /\ IsOpen(o))
      <4>1. down'[x] = down[x]
        BY <1>7, <3>3
      <4> QED
        BY <1>0, <2>2, <2>8, <3>3, <4>1 DEF SeatInv
    <3> QED
      BY <3>1, <3>2, <3>3
  <2> QED
    BY <1>2, <2>3, <2>5, <2>6, <2>7, <2>8 DEF SeatInv
<1>12. ToldInv'
  <2> SUFFICES ASSUME NEW x \in Peers
               PROVE  Whole(down'[x]) /\ (socket'[x] = "open" => Knows(x)')
    BY DEF ToldInv
  <2>0. o = slots[OtherRole(r)]
    BY DEF o
  <2>1. CASE x = p
    <3>1. down'[p] = e /\ seat'[p] = r /\ slots'[OtherRole(r)] = o
      BY <1>0, <1>1, <1>2, <1>7, <2>0 DEF RelayTypes
    <3> QED
      BY <1>5, <2>1, <3>1 DEF Knows
  <2>2. CASE x # p /\ x = o /\ IsOpen(o)
    <3>1. down'[x] = f /\ seat'[x] = seat[x]
      BY <1>0, <1>2, <1>7, <2>2 DEF RelayTypes
    <3>2. seat[x] = OtherRole(r)
      BY <1>0, <1>1, <2>0, <2>2 DEF SeatInv, IsOpen
    <3>3. slots'[OtherRole(seat'[x])] = p /\ p # NoPeer
      BY <1>0, <1>1, <1>2, <3>1, <3>2, RelayAssumption DEF RelayTypes
    <3> QED
      BY <1>6, <2>2, <3>1, <3>3 DEF Knows
  <2>3. CASE x # p /\ ~(x = o /\ IsOpen(o))
    <3>1. down'[x] = down[x] /\ seat'[x] = seat[x] /\ socket'[x] = socket[x]
      BY <1>0, <1>2, <1>7, <2>3 DEF RelayTypes
    <3>2. ASSUME socket[x] = "open" PROVE FALSE
      <4>1. seat[x] \in Roles /\ slots[seat[x]] = x /\ x # NoPeer
        BY <1>0, <3>2, RelayAssumption DEF SeatInv
      <4>2. seat[x] = OtherRole(r)
        BY <1>1, <1>2, <4>1
      <4> QED
        BY <2>0, <2>3, <3>2, <4>1, <4>2 DEF IsOpen
    <3> QED
      BY <1>0, <3>1, <3>2 DEF ToldInv
  <2> QED
    BY <2>1, <2>2, <2>3
<1> QED
  BY <1>10, <1>11, <1>12 DEF RelayInv
\* The server turns a socket down: the process has no seat.
LEMMA RefuseRelay ==
    ASSUME RelayInv, NEW p \in Peers, Refuse(p)
    PROVE  RelayInv'
<1>1. PICK x \in {"room-full", "role-taken", "bad-message"} : Fail(p, x)
  BY DEF Refuse
<1>2. Own(p, up[p]) /\ up' = [up EXCEPT ![p] = up[p]] /\ UNCHANGED <<room, seat, read>>
  BY DEF Refuse, RelayInv, RelayTypes
<1> QED
  BY <1>1, <1>2, FailRelay

\* The close of a process arrives: its socket is not open any more.
LEMMA HearCloseRelay ==
    ASSUME RelayInv, NEW p \in Peers, HearClose(p)
    PROVE  RelayInv'
<1>0. RelayTypes /\ SeatInv /\ ToldInv
  BY DEF RelayInv
<1>1. /\ up' = [up EXCEPT ![p] = <<>>] /\ socket' = [socket EXCEPT ![p] = "leaving"]
      /\ UNCHANGED <<room, seat, down, read>>
  BY DEF HearClose
<1>2. RelayTypes'
  <2>1. /\ up' \in [Peers -> Seq(Signals \cup {Close})]
        /\ \A q \in Peers : Own(q, up[q])'
    BY <1>0, <1>1 DEF RelayTypes, Own
  <2>2. socket' \in [Peers -> SocketStates]
    BY <1>0, <1>1 DEF RelayTypes, SocketStates
  <2> QED
    BY <1>0, <1>1, <2>1, <2>2 DEF RelayTypes, room
<1>3. /\ \A q \in Peers : socket'[q] = IF q = p THEN "leaving" ELSE socket[q]
      /\ \A r \in Roles : slots[r] \in Peers \cup {NoPeer}
  BY <1>0, <1>1 DEF RelayTypes
<1>4. SeatInv'
  <2>1. \A r \in Roles : slots[r] # NoPeer =>
           seat[slots[r]] = r /\ socket'[slots[r]] \in {"open", "failing", "leaving"}
    BY <1>0, <1>3 DEF SeatInv
  <2>2. \A q \in Peers : socket'[q] \in {"none", "connecting", "open"} => socket'[q] = socket[q]
    BY <1>3
  <2>3. \A r \in Roles : IsOpen(slots[OtherRole(r)])' => IsOpen(slots[OtherRole(r)])
    BY <1>1, <1>3, OtherRoles DEF IsOpen, room
  <2> QED
    BY <1>0, <1>1, <2>1, <2>2, <2>3 DEF SeatInv, room
<1>5. ToldInv'
  BY <1>0, <1>1, <1>3 DEF ToldInv, Knows, room
<1> QED
  BY <1>2, <1>4, <1>5 DEF RelayInv

\* A peer leaves its seat: the other one is told, and nothing waits in the room.
LEMMA LeaveRelay ==
    ASSUME RelayInv, NEW p \in Peers, Leave(p)
    PROVE  RelayInv'
<1> DEFINE r == seat[p]
           o == slots[OtherRole(r)]
           had == r # "none" /\ slots[r] = p
           f == down[o] \o <<PeerLeft>>
<1>0. RelayTypes /\ SeatInv /\ ToldInv
  BY DEF RelayInv
<1>1. /\ socket[p] = "leaving" /\ socket' = [socket EXCEPT ![p] = "closed"]
      /\ read' = [read EXCEPT ![p] = 0] /\ seat' = seat /\ up' = up
  BY DEF Leave
<1>2. p # NoPeer /\ (had => r \in Roles)
  BY <1>0, RelayAssumption DEF RelayTypes
<1>3. had => /\ slots' = [slots EXCEPT ![r] = NoPeer] /\ pending' = [x \in Roles |-> <<>>]
             /\ down' = [Farewell(r) EXCEPT ![p] = <<>>]
  BY DEF Leave, AfterLeave
<1>4. ~had => UNCHANGED <<slots, pending>> /\ down' = [down EXCEPT ![p] = <<>>]
  BY DEF Leave, room
<1>5. had /\ IsOpen(o) => /\ o \in Peers /\ o # p /\ seat[o] = OtherRole(r)
                          /\ f \in Seq(Messages) /\ Whole(f) /\ Absent(f)
                          /\ Len(f) \in Nat /\ Len(down[o]) <= Len(f)
  <2> SUFFICES ASSUME had, IsOpen(o)
               PROVE  /\ o \in Peers /\ o # p /\ seat[o] = OtherRole(r)
                      /\ f \in Seq(Messages) /\ Whole(f) /\ Absent(f)
                      /\ Len(f) \in Nat /\ Len(down[o]) <= Len(f)
    OBVIOUS
  <2>1. r \in Roles /\ OtherRole(r) \in Roles
    BY <1>2, OtherRoles
  <2>2. o \in Peers /\ o # NoPeer /\ socket[o] = "open"
    BY <1>0, <2>1 DEF IsOpen, RelayTypes
  <2>3. seat[o] = OtherRole(r) /\ o # p
    BY <1>0, <1>1, <2>1, <2>2 DEF SeatInv
  <2>4. down[o] \in Seq(Messages) /\ Whole(down[o])
    BY <1>0, <2>2 DEF RelayTypes, ToldInv
  <2>5. f \in Seq(Messages) /\ Whole(f) /\ Absent(f)
    BY <2>4, NoticeTold, NoticesTyped
  <2>6. <<PeerLeft>> \in Seq(Messages)
    BY NoticesTyped DEF Messages
  <2>7. Len(down[o]) <= Len(f)
    BY <2>4, <2>6, DownParts
  <2> QED
    BY <2>2, <2>3, <2>5, <2>7
<1>6. /\ \A x \in Peers : down'[x] = IF x = p THEN <<>>
                                     ELSE IF had /\ x = o /\ IsOpen(o) THEN f ELSE down[x]
      /\ down' \in [Peers -> Seq(Messages)]
  <2>1. CASE had /\ IsOpen(o)
    <3>1. Farewell(r) = [down EXCEPT ![o] = f]
      BY <2>1 DEF Farewell, SendTo
    <3>2. down' = [[down EXCEPT ![o] = f] EXCEPT ![p] = <<>>]
      BY <1>3, <2>1, <3>1
    <3>3. down \in [Peers -> Seq(Messages)] /\ o \in Peers /\ f \in Seq(Messages)
      BY <1>0, <1>5, <2>1 DEF RelayTypes
    <3> HIDE DEF f, o, had
    <3>4. down' \in [Peers -> Seq(Messages)]
      BY <3>2, <3>3
    <3>5. \A x \in Peers : down'[x] = IF x = p THEN <<>> ELSE IF x = o THEN f ELSE down[x]
      BY <3>2, <3>3
    <3> QED
      BY <2>1, <3>4, <3>5
  <2>2. CASE had /\ ~IsOpen(o)
    <3>1. Farewell(r) = down
      BY <2>2 DEF Farewell, SendTo
    <3>2. down' = [down EXCEPT ![p] = <<>>]
      BY <1>3, <2>2, <3>1
    <3> QED
      BY <1>0, <2>2, <3>2 DEF RelayTypes
  <2>3. CASE ~had
    <3>1. down' = [down EXCEPT ![p] = <<>>] /\ down \in [Peers -> Seq(Messages)]
      BY <1>0, <1>4, <2>3 DEF RelayTypes
    <3> HIDE DEF f, o, had
    <3>2. /\ down' \in [Peers -> Seq(Messages)]
          /\ \A x \in Peers : down'[x] = IF x = p THEN <<>> ELSE down[x]
      BY <3>1
    <3> QED
      BY <2>3, <3>2
  <2> QED
    BY <2>1, <2>2, <2>3
<1>7. /\ \A x \in Peers : socket'[x] = IF x = p THEN "closed" ELSE socket[x]
      /\ \A x \in Peers : read'[x] = IF x = p THEN 0 ELSE read[x]
      /\ \A x \in Roles : slots'[x] = IF had /\ x = r THEN NoPeer ELSE slots[x]
      /\ \A x \in Roles : slots[x] \in Peers \cup {NoPeer}
      /\ \A x \in Roles : pending'[x] = IF had THEN <<>> ELSE pending[x]
  BY <1>0, <1>1, <1>3, <1>4 DEF RelayTypes
<1>8. RelayTypes'
  <2>1. slots' \in [Roles -> Peers \cup {NoPeer}] /\ pending' \in [Roles -> Seq(Signals)]
    <3>1. CASE had
      <4>1. /\ slots' = [slots EXCEPT ![r] = NoPeer] /\ pending' = [x \in Roles |-> <<>>]
            /\ slots \in [Roles -> Peers \cup {NoPeer}]
        BY <1>0, <1>3, <3>1 DEF RelayTypes
      <4>2. <<>> \in Seq(Signals) /\ NoPeer \in Peers \cup {NoPeer}
        OBVIOUS
      <4> HIDE DEF r
      <4>3. slots' \in [Roles -> Peers \cup {NoPeer}]
        BY <4>1, <4>2
      <4>4. pending' \in [Roles -> Seq(Signals)]
        BY <4>1, <4>2
      <4> QED
        BY <4>3, <4>4
    <3>2. CASE ~had
      BY <1>0, <1>4, <3>2 DEF RelayTypes
    <3> QED
      BY <3>1, <3>2
  <2>2. \A x \in Roles : Len(pending'[x]) <= MaxPending
    BY <1>0, <1>7, RelayAssumption DEF RelayTypes
  <2>3. socket' \in [Peers -> SocketStates] /\ read' \in [Peers -> Nat]
    BY <1>0, <1>1 DEF RelayTypes, SocketStates
  <2>4. \A x \in Peers : read'[x] <= Len(down'[x])
    <3> SUFFICES ASSUME NEW x \in Peers PROVE read'[x] <= Len(down'[x])
      OBVIOUS
    <3>1. Len(down[x]) \in Nat /\ read[x] \in Nat /\ read[x] <= Len(down[x])
      BY <1>0 DEF RelayTypes
    <3>2. CASE x = p
      BY <1>6, <1>7, <3>2
    <3>3. CASE x # p /\ had /\ x = o /\ IsOpen(o)
      <4>1. down'[x] = f /\ read'[x] = read[x]
        BY <1>6, <1>7, <3>3
      <4> HIDE DEF f
      <4> QED
        BY <1>5, <3>1, <3>3, <4>1
    <3>4. CASE x # p /\ ~(had /\ x = o /\ IsOpen(o))
      <4>1. down'[x] = down[x] /\ read'[x] = read[x]
        BY <1>6, <1>7, <3>4
      <4> QED
        BY <3>1, <4>1
    <3> QED
      BY <3>2, <3>3, <3>4
  <2>5. \A x \in Peers : Own(x, up[x])'
    BY <1>0, <1>1 DEF RelayTypes, Own
  <2> QED
    BY <1>0, <1>1, <1>6, <2>1, <2>2, <2>3, <2>4, <2>5 DEF RelayTypes
<1> HIDE DEF f
<1>9. SeatInv'
  <2>1. ASSUME NEW x \in Roles, slots'[x] # NoPeer
        PROVE  seat[slots'[x]] = x /\ socket'[slots'[x]] \in {"open", "failing", "leaving"}
    <3>1. slots'[x] = slots[x] /\ slots[x] \in Peers /\ seat[slots[x]] = x
          /\ socket[slots[x]] \in {"open", "failing", "leaving"}
      BY <1>0, <1>7, <2>1 DEF SeatInv
    <3>2. slots[x] # p
      <4> SUFFICES ASSUME slots[x] = p PROVE FALSE
        OBVIOUS
      <4>1. x = r /\ r # "none" /\ slots[r] = p
        BY <3>1 DEF Roles
      <4> QED
        BY <1>7, <2>1, <4>1
    <3> QED
      BY <1>7, <3>1, <3>2
  <2>2. ASSUME NEW x \in Peers, socket'[x] \in {"none", "connecting"}
        PROVE  seat[x] = "none" /\ down'[x] = <<>> /\ read'[x] = 0
    <3>1. x # p /\ socket[x] \in {"none", "connecting"}
      BY <1>7, <2>2
    <3>2. ~(had /\ x = o /\ IsOpen(o))
      BY <3>1 DEF IsOpen
    <3>3. down'[x] = down[x] /\ read'[x] = read[x]
      BY <1>6, <1>7, <3>1, <3>2
    <3> QED
      BY <1>0, <3>1, <3>3 DEF SeatInv
  <2>3. ASSUME NEW x \in Peers, socket'[x] = "open"
        PROVE  seat[x] \in Roles /\ slots'[seat[x]] = x
    <3>1. x # p /\ seat[x] \in Roles /\ slots[seat[x]] = x
      BY <1>0, <1>7, <2>3 DEF SeatInv
    <3> QED
      BY <1>7, <3>1
  <2>4. ASSUME NEW x \in Peers, NEW i \in DOMAIN down'[x], down'[x][i].type = "joined"
        PROVE  seat[x] \in Roles
    <3>1. CASE x = p
      <4>1. down'[x] = <<>>
        BY <1>6, <3>1
      <4> QED
        BY <2>4, <4>1
    <3>2. CASE had /\ x = o /\ IsOpen(o)
      BY <1>0, <1>5, <3>2 DEF SeatInv, IsOpen
    <3>3. CASE x # p /\ ~(had /\ x = o /\ IsOpen(o))
      <4>1. down'[x] = down[x]
        BY <1>6, <3>3
      <4> QED
        BY <1>0, <2>4, <4>1 DEF SeatInv
    <3> QED
      BY <3>1, <3>2, <3>3
  <2>5. ASSUME NEW x \in Roles, slots'[x] = NoPeer PROVE pending'[x] = <<>>
    BY <1>0, <1>7, <2>5 DEF SeatInv
  <2>6. ASSUME NEW x \in Roles, NEW i \in DOMAIN pending'[x]
        PROVE  pending'[x][i].from = slots'[x]
    <3>1. CASE had
      <4>1. pending'[x] = <<>>
        BY <1>7, <3>1
      <4> QED
        BY <4>1
    <3>2. CASE ~had
      <4>1. pending'[x] = pending[x] /\ slots'[x] = slots[x]
        BY <1>7, <3>2
      <4> QED
        BY <1>0, <4>1 DEF SeatInv
    <3> QED
      BY <3>1, <3>2
  <2>7. ASSUME NEW x \in Roles, IsOpen(slots[OtherRole(x)])' PROVE pending'[x] = <<>>
    <3>1. CASE had
      BY <1>7, <3>1
    <3>2. CASE ~had
      <4>1. OtherRole(x) \in Roles /\ slots'[OtherRole(x)] = slots[OtherRole(x)]
        BY <1>7, <3>2, OtherRoles
      <4>2. slots[OtherRole(x)] \in Peers /\ socket'[slots[OtherRole(x)]] = "open"
        BY <1>7, <2>7, <4>1 DEF IsOpen
      <4>3. IsOpen(slots[OtherRole(x)])
        BY <1>7, <2>7, <4>1, <4>2 DEF IsOpen
      <4> QED
        BY <1>0, <1>7, <3>2, <4>3 DEF SeatInv
    <3> QED
      BY <3>1, <3>2
  <2> QED
    BY <1>1, <2>1, <2>2, <2>3, <2>4, <2>5, <2>6, <2>7 DEF SeatInv
<1>10. ToldInv'
  <2> SUFFICES ASSUME NEW x \in Peers
               PROVE  Whole(down'[x]) /\ (socket'[x] = "open" => Knows(x)')
    BY DEF ToldInv
  <2>1. CASE x = p
    <3>1. down'[x] = <<>> /\ socket'[x] = "closed" /\ DOMAIN <<>> = {}
      BY <1>6, <1>7, <2>1
    <3> QED
      BY <3>1 DEF Whole
  <2>2. CASE x # p /\ had /\ x = o /\ IsOpen(o)
    <3>1. down'[x] = f /\ seat[x] = OtherRole(r) /\ r \in Roles
      BY <1>2, <1>5, <1>6, <2>2
    <3>2. slots'[OtherRole(seat[x])] = NoPeer
      BY <1>7, <2>2, <3>1, OtherRoles
    <3> QED
      BY <1>1, <1>5, <2>2, <3>1, <3>2 DEF Knows
  <2>3. CASE x # p /\ ~(had /\ x = o /\ IsOpen(o))
    <3>1. down'[x] = down[x] /\ socket'[x] = socket[x]
      BY <1>6, <1>7, <2>3
    <3>2. ASSUME socket[x] = "open" PROVE slots'[OtherRole(seat[x])] = slots[OtherRole(seat[x])]
      <4>1. seat[x] \in Roles /\ slots[seat[x]] = x /\ x # NoPeer
        BY <1>0, <3>2, RelayAssumption DEF SeatInv
      <4>2. CASE had
        <5>1. seat[x] # r
          BY <2>3, <4>1, <4>2
        <5>2. seat[x] = OtherRole(r)
          BY <1>2, <4>1, <4>2, <5>1, OtherRoles
        <5> QED
          BY <2>3, <3>2, <4>1, <4>2, <5>2 DEF IsOpen
      <4>3. CASE ~had
        BY <1>7, <4>1, <4>3, OtherRoles
      <4> QED
        BY <4>2, <4>3
    <3> QED
      BY <1>0, <1>1, <3>1, <3>2 DEF ToldInv, Knows
  <2> QED
    BY <2>1, <2>2, <2>3
<1> QED
  BY <1>8, <1>9, <1>10 DEF RelayInv
LEMMA OpensRelay ==
    ASSUME RelayInv, NEW p \in Peers, Opens(p)
    PROVE  RelayInv'
<1>0. RelayTypes /\ SeatInv /\ ToldInv
  BY DEF RelayInv
<1>1. /\ socket[p] = "none" /\ socket' = [socket EXCEPT ![p] = "connecting"]
      /\ UNCHANGED <<room, seat, up, down, read>>
  BY DEF Opens
<1>2. RelayTypes'
  <2>1. socket' \in [Peers -> SocketStates]
    BY <1>0, <1>1 DEF RelayTypes, SocketStates
  <2> QED
    BY <1>0, <1>1, <2>1 DEF RelayTypes, Own, room
<1>3. /\ \A q \in Peers : socket'[q] = IF q = p THEN "connecting" ELSE socket[q]
      /\ \A r \in Roles : slots[r] \in Peers \cup {NoPeer}
  BY <1>0, <1>1 DEF RelayTypes
<1>4. SeatInv'
  <2>1. \A r \in Roles : slots[r] # NoPeer =>
           seat[slots[r]] = r /\ socket'[slots[r]] \in {"open", "failing", "leaving"}
    BY <1>0, <1>1, <1>3 DEF SeatInv
  <2>2. \A q \in Peers : socket'[q] \in {"none", "connecting"} =>
           seat[q] = "none" /\ down[q] = <<>> /\ read[q] = 0
    BY <1>0, <1>1, <1>3 DEF SeatInv
  <2>3. \A q \in Peers : socket'[q] = "open" => socket[q] = "open"
    BY <1>3
  <2>4. \A r \in Roles : IsOpen(slots[OtherRole(r)])' => IsOpen(slots[OtherRole(r)])
    BY <1>1, <1>3, OtherRoles DEF IsOpen, room
  <2> QED
    BY <1>0, <1>1, <2>1, <2>2, <2>3, <2>4 DEF SeatInv, room
<1>5. ToldInv'
  BY <1>0, <1>1, <1>3 DEF ToldInv, Knows, room
<1> QED
  BY <1>2, <1>4, <1>5 DEF RelayInv

LEMMA InitRelay == RelayInit => RelayInv
<1> SUFFICES ASSUME RelayInit PROVE RelayInv
  OBVIOUS
<1>1. /\ \A r \in Roles : slots[r] = NoPeer /\ pending[r] = <<>>
      /\ \A p \in Peers : /\ socket[p] = "none" /\ seat[p] = "none" /\ up[p] = <<>>
                          /\ down[p] = <<>> /\ read[p] = 0
  BY DEF RelayInit
<1>2. /\ <<>> \in Seq(Signals) /\ <<>> \in Seq(Signals \cup {Close}) /\ <<>> \in Seq(Messages)
      /\ Len(<<>>) = 0 /\ DOMAIN <<>> = {} /\ MaxPending \in Nat /\ 0 <= MaxPending
  BY RelayAssumption
<1>3. RelayTypes
  <2>1. slots \in [Roles -> Peers \cup {NoPeer}] /\ pending \in [Roles -> Seq(Signals)]
    BY <1>2 DEF RelayInit
  <2>2. socket \in [Peers -> SocketStates] /\ seat \in [Peers -> Roles \cup {"none"}]
    BY DEF RelayInit, SocketStates
  <2>3. /\ up \in [Peers -> Seq(Signals \cup {Close})] /\ down \in [Peers -> Seq(Messages)]
        /\ read \in [Peers -> Nat]
    BY <1>2 DEF RelayInit
  <2>4. /\ \A r \in Roles : Len(pending[r]) <= MaxPending
        /\ \A p \in Peers : Own(p, up[p]) /\ read[p] <= Len(down[p])
    <3>1. \A p \in Peers : Own(p, <<>>)
      BY <1>2 DEF Own
    <3> QED
      BY <1>1, <1>2, <3>1
  <2> QED
    BY <2>1, <2>2, <2>3, <2>4 DEF RelayTypes
<1>4. SeatInv
  BY <1>1, <1>2, OtherRoles DEF SeatInv, IsOpen
<1>5. ToldInv
  BY <1>1, <1>2 DEF ToldInv, Whole
<1> QED
  BY <1>3, <1>4, <1>5 DEF RelayInv

LEMMA NextRelay == RelayInv /\ [RelayNext]_relayVars => RelayInv'
<1> SUFFICES ASSUME RelayInv, [RelayNext]_relayVars PROVE RelayInv'
  OBVIOUS
<1>1. ASSUME NEW p \in Peers, ServerStep(p) PROVE RelayInv'
  BY <1>1, RefuseRelay, JoinRelay, RelayRelay, HearCloseRelay, LeaveRelay DEF ServerStep
<1>2. ASSUME NEW p \in Peers, Opens(p) PROVE RelayInv'
  BY <1>2, OpensRelay
<1>3. ASSUME NEW p \in Peers, Uses(p) PROVE RelayInv'
  BY <1>3, OwnRelay DEF Uses
<1>4. CASE UNCHANGED relayVars
  BY <1>4 DEF relayVars, room, RelayInv, RelayTypes, SeatInv, ToldInv, Knows, IsOpen, Own
<1> QED
  BY <1>1, <1>2, <1>3, <1>4 DEF RelayNext

LEMMA RelayAlways == RelaySpec => []RelayInv
BY InitRelay, NextRelay, PTL DEF RelaySpec

-----------------------------------------------------------------------------
(* What the relay promises *)

\* The relay's variables keep their types, its queues their bound, and a process reads
\* no further than what it was sent, among processes that do what they like.
THEOREM RelayTypeCorrect == RelaySpec => []RelayTypeOK
<1>1. RelayInv => RelayTypeOK
  <2> SUFFICES ASSUME RelayInv PROVE RelayTypeOK
    OBVIOUS
  <2>1. \A p \in Peers : read[p] \in Nat /\ Len(down[p]) \in Nat /\ read[p] <= Len(down[p])
    BY DEF RelayInv, RelayTypes
  <2>2. \A p \in Peers : read[p] \in 0 .. Len(down[p])
    BY <2>1
  <2> QED
    BY <2>2 DEF RelayInv, RelayTypes, RelayTypeOK
<1> QED
  BY <1>1, RelayAlways, PTL

\* A room without peers holds no signal of the last pair, so it may be deleted (the close
\* handler): what waits in it was sent by a peer that is still in its seat.
THEOREM EmptyRoomAlwaysFresh == RelaySpec => []EmptyRoomIsFresh
<1>1. RelayInv => EmptyRoomIsFresh
  BY DEF RelayInv, SeatInv, EmptyRoomIsFresh
<1> QED
  BY <1>1, RelayAlways, PTL

\* A peer whose socket is open was last told ready exactly when the other seat is taken
\* (the connection and close handlers), in whatever order sockets open, fail and close.
THEOREM PresenceAlwaysKnown == RelaySpec => []PresenceIsKnown
<1>1. RelayInv => PresenceIsKnown
  <2> SUFFICES ASSUME RelayInv, NEW r \in Roles, slots[r] # NoPeer, socket[slots[r]] = "open"
               PROVE  slots[OtherRole(r)] # NoPeer <=>
                        \E i \in DOMAIN down[slots[r]] :
                           ReadyFrom(slots[r], i, Len(down[slots[r]]))
    BY DEF PresenceIsKnown
  <2> DEFINE p == slots[r]
  <2>1. p \in Peers /\ seat[p] = r
    BY DEF RelayInv, RelayTypes, SeatInv
  <2>2. /\ slots[OtherRole(r)] = NoPeer => Absent(down[p])
        /\ slots[OtherRole(r)] # NoPeer => Present(down[p], slots[OtherRole(r)])
    BY <2>1 DEF RelayInv, ToldInv, Knows
  <2>3. \A i \in DOMAIN down[p] :
           ReadyAt(down[p], i, Len(down[p])) <=> ReadyFrom(p, i, Len(down[p]))
    BY DEF ReadyAt, ReadyFrom
  <2> QED
    BY <2>2, <2>3 DEF Absent, Present
<1> QED
  BY <1>1, RelayAlways, PTL

\* A peer gets the signals of its partner alone, between a ready and a peer-left (the
\* message and close handlers): nothing that a process left behind reaches the next one.
THEOREM SignalsAlwaysOfPartner == RelaySpec => []SignalsAreOfPartner
<1>1. RelayInv => SignalsAreOfPartner
  <2> SUFFICES ASSUME RelayInv, NEW p \in Peers, NEW j \in DOMAIN down[p],
                      down[p][j].type = "signal"
               PROVE  \E i \in 1 .. j :
                         /\ ReadyFrom(p, i, j)
                         /\ \A k \in i .. j : down[p][k].type = "signal" =>
                               down[p][k].from = down[p][j].from
    BY DEF SignalsAreOfPartner
  <2>1. PICK i \in 1 .. j : ReadyAt(down[p], i, j) /\ FromOne(down[p], i, j, down[p][j].from)
    BY DEF RelayInv, ToldInv, Whole
  <2> QED
    BY <2>1 DEF ReadyAt, ReadyFrom, FromOne
<1> QED
  BY <1>1, RelayAlways, PTL
================================================================================
