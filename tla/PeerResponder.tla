---------------------------- MODULE PeerResponder ----------------------------
(***************************************************************************)
(* The answering side of the peer protocol (peer/responder.cljc): gets,    *)
(* the record of what was sent, and the writing of frames.  Sessions share *)
(* only the store, which is never written, so one peer is modelled; it may *)
(* come back after its session has ended.                                  *)
(*                                                                         *)
(* A value is the sequence of hashes that the reveal walk gives, itself    *)
(* first.  An item takes one or more frames and ends in a frame of its     *)
(* own.  Credit is counted in whole frames: what the rates and the decay   *)
(* of interest give a stream at a tick is any number of frames.  A tick    *)
(* visits the streams in the order of their ids, one frame at a time; no   *)
(* frame that arrives is handled before the tick is over.  The channel may *)
(* drain at any time.                                                      *)
(***************************************************************************)
EXTENDS Naturals, Sequences, FiniteSets, SeqFilter

CONSTANTS
    Hashes,         \* what may be asked for
    PageOrder,      \* the reveal order of each hash that is held
    Frames,         \* how many frames the item of each hash takes
    Burst,          \* req-burst
    MaxStreams,     \* max-streams
    RecordCap,      \* sent-cap
    HighMark,       \* high-frames
    LowMark,        \* low-frames
    MaxSid,         \* bound: the ids a session's gets have
    MaxGrant,       \* bound: the frames a stream is given at one tick
    MaxSessions,    \* bound: sessions with the peer, one after the other
    Crossing,       \* whether the peer may come back while a read is still out
    NoHash

Held == DOMAIN PageOrder
Sids == 1..MaxSid
Pages(h) == {PageOrder[h][i] : i \in DOMAIN PageOrder[h]}

ASSUME OrderAssumption ==
    /\ Held \subseteq Hashes /\ NoHash \notin Hashes
    /\ \A h \in Held : /\ PageOrder[h] \in Seq(Hashes) /\ PageOrder[h] # <<>>
                       /\ PageOrder[h][1] = h
ASSUME FramesAssumption == Frames \in [Hashes -> Nat \ {0}]
ASSUME LimitsAssumption ==
    /\ Burst \in Nat /\ MaxStreams \in Nat /\ RecordCap \in Nat \ {0}
    /\ LowMark \in Nat /\ HighMark \in Nat /\ LowMark < HighMark
    /\ MaxSid \in Nat /\ MaxGrant \in Nat /\ MaxSessions \in Nat
    /\ Crossing \in BOOLEAN

VARIABLES
    status,     \* "none", "open" or "ended"
    greeted,    \* whether the peer's hello has arrived
    sessions,   \* how many sessions there have been
    tokens,     \* what is left in the request bucket
    used,       \* the ids that were used on this connection
    open,       \* the ids that are open
    streams,    \* per id: the stream that is written, or NoStream
    record,     \* the hashes recorded as sent, oldest first
    reads,      \* the gets whose read of the store is not done
    buffered,   \* frames the channel holds
    turn,       \* the streams the running tick has still to visit
    asked,      \* history: what the gets of this session asked for, per id
    sent        \* history: the items written in full on this session

sessionVars == <<status, greeted, sessions, tokens>>
tableVars == <<used, open, reads>>
history == <<asked, sent>>
vars == <<sessionVars, tableVars, streams, record, buffered, turn, history>>

NoStream == [root |-> NoHash, todo |-> <<>>, part |-> 0, credit |-> 0, blocked |-> FALSE]
Active == {s \in Sids : streams[s].root # NoHash}

TypeOK ==
    /\ status \in {"none", "open", "ended"}
    /\ greeted \in BOOLEAN
    /\ sessions \in 0..MaxSessions
    /\ tokens \in 0..Burst
    /\ used \in SUBSET Sids
    /\ open \in SUBSET Sids
    /\ streams \in [Sids -> [root: Held \cup {NoHash}, todo: Seq(Hashes), part: Nat,
                             credit: 0..(MaxGrant + 1), blocked: BOOLEAN]]
    /\ record \in Seq(Hashes)
    /\ reads \in SUBSET (Sids \X Hashes)
    /\ buffered \in Nat
    /\ turn \in SUBSET Sids
    /\ asked \in [Sids -> Hashes \cup {NoHash}]
    /\ sent \in SUBSET Hashes

Init ==
    /\ status = "none"
    /\ greeted = FALSE
    /\ sessions = 0
    /\ tokens = 0
    /\ used = {}
    /\ open = {}
    /\ streams = [s \in Sids |-> NoStream]
    /\ record = <<>>
    /\ reads = {}
    /\ buffered = 0
    /\ turn = {}
    /\ asked = [s \in Sids |-> NoHash]
    /\ sent = {}

-----------------------------------------------------------------------------
(* Sessions *)

\* A connection is up.  Its id table comes with the peer's hello.
OpenSession ==
    /\ turn = {}
    /\ status # "open"
    /\ Crossing \/ reads = {}
    /\ sessions < MaxSessions
    /\ sessions' = sessions + 1
    /\ status' = "open"
    /\ greeted' = FALSE
    /\ tokens' = Burst
    /\ record' = <<>>
    /\ streams' = [s \in Sids |-> NoStream]
    /\ used' = {} /\ open' = {}
    /\ buffered' = 0
    /\ asked' = [s \in Sids |-> NoHash]
    /\ sent' = {}
    /\ UNCHANGED <<reads, turn>>

PeerHello ==
    /\ turn = {}
    /\ status = "open" /\ ~greeted
    /\ greeted' = TRUE
    /\ used' = {} /\ open' = {}
    /\ UNCHANGED <<status, sessions, tokens, streams, record, reads, buffered, turn, history>>

\* The connection closes, the peer sends a fatal error, or it breaks a rule.
EndSession ==
    /\ turn = {}
    /\ status = "open"
    /\ status' = "ended"
    /\ streams' = [s \in Sids |-> NoStream]
    /\ UNCHANGED <<greeted, sessions, tokens, tableVars, record, buffered, turn, history>>

\* Time refills the request bucket.
Refill ==
    /\ turn = {}
    /\ status = "open" /\ tokens < Burst
    /\ tokens' = tokens + 1
    /\ UNCHANGED <<status, greeted, sessions, tableVars, streams, record, buffered, turn, history>>

-----------------------------------------------------------------------------
(* Gets *)

\* What a get of h sends: the pages in reveal order, but for those recorded; the
\* root always (pages-to-send).
ToSend(h) == Filter(PageOrder[h], (Hashes \ Elements(record)) \cup {h})

\* Variant: a stream that is over keeps its slot.
SlotsKept(over) == open

\* The ids that stay open when the streams in over are closed (close-stream!).
Slots(over) == open \ over

\* The ids of a connection's gets rise (open-local of the peer).
NextSid(s) == s \notin used /\ \A t \in Sids : t < s => t \in used

\* A get costs a token, answered or refused.  It is refused without a token, for
\* a policy that is not served, for an id that is used or of the wrong parity, and
\* with max-streams open; else its id is open and the store is read.
Get(s, h) ==
    /\ turn = {}
    /\ status = "open" /\ greeted
    /\ tokens > 0
    /\ tokens' = tokens - 1
    /\ \/ UNCHANGED <<tableVars, asked>>
       \/ /\ NextSid(s)
          /\ Cardinality(open) < MaxStreams
          /\ used' = used \cup {s}
          /\ open' = open \cup {s}
          /\ reads' = reads \cup {<<s, h>>}
          /\ asked' = [asked EXCEPT ![s] = h]
    /\ UNCHANGED <<status, greeted, sessions, streams, record, buffered, turn, sent>>

\* The read is done, and the session may have ended meanwhile.  The session and its
\* record are looked up only now.  A hash that is not held, a store that fails and
\* a session that has not been greeted end the stream with an error.
ReadDone(s, h) ==
    /\ turn = {}
    /\ <<s, h>> \in reads
    /\ reads' = reads \ {<<s, h>>}
    /\ \/ /\ status # "open"
          /\ UNCHANGED <<streams, open>>
       \/ /\ status = "open" /\ greeted /\ h \in Held
          /\ streams' = [streams EXCEPT ![s] =
               [NoStream EXCEPT !.root = h, !.todo = ToSend(h)]]
          /\ UNCHANGED open
       \/ /\ status = "open"
          /\ streams' = [streams EXCEPT ![s] = NoStream]
          /\ open' = Slots({s})
    /\ UNCHANGED <<sessionVars, used, record, buffered, turn, history>>

\* record-ack: a recorded hash moves to the newest end.
Ack(h) ==
    /\ turn = {}
    /\ status = "open" /\ greeted
    /\ h \in Elements(record)
    /\ record' = Append(Filter(record, Hashes \ {h}), h)
    /\ UNCHANGED <<sessionVars, tableVars, streams, buffered, turn, history>>

-----------------------------------------------------------------------------
(* Writing *)

\* Variant: a stream that has been blocked stays blocked.
BlockedForGood(was, frames) == was \/ frames >= HighMark

\* Blocked from the high mark until the low mark (blocked?).
Blocked(was, frames) == IF was THEN frames > LowMark ELSE frames >= HighMark

\* Variant: a blocked stream goes on earning credit.
CreditWhileBlocked(had, blocked, share) == had + share

\* The credit of a stream at a tick: a blocked stream takes no share and keeps at
\* most one frame.
CreditOf(had, blocked, share) ==
    IF ~blocked THEN had + share ELSE IF had > 1 THEN 1 ELSE had

\* A tick: streams past their lifetime are dropped; then whether each of the
\* others is blocked is read off the channel, once, and what it is given is added.
Tick(expired, grant) ==
    /\ turn = {}
    /\ status = "open" /\ greeted
    /\ open' = Slots(expired)
    /\ streams' = [s \in Sids |->
         IF s \notin Active \ expired THEN NoStream
         ELSE LET blocked == Blocked(streams[s].blocked, buffered)
              IN [streams[s] EXCEPT !.blocked = blocked,
                                    !.credit = CreditOf(@, blocked, grant[s])]]
    /\ turn' = Active \ expired
    /\ UNCHANGED <<sessionVars, used, reads, record, buffered, history>>

\* The stream whose turn it is.
Turn == CHOOSE s \in turn : \A t \in turn : s <= t

\* Variant: the cap is passed by one.
RecordSentPastCap(h) ==
    IF h \in Elements(record) THEN record
    ELSE IF Len(record) <= RecordCap THEN Append(record, h)
    ELSE Tail(Append(record, h))

\* record-sent: past the cap the oldest is dropped.
RecordSent(h) ==
    IF h \in Elements(record) THEN record
    ELSE IF Len(record) < RecordCap THEN Append(record, h)
    ELSE Tail(Append(record, h))

\* Whether the next frame of a stream is the last of its item.
ItemEnds(st) == st.part + 1 = Frames[Head(st.todo)]

\* Variant: an item is recorded with its first frame.
NoteFrameEarly(st) == RecordSent(Head(st.todo))

\* An item is recorded with the frame it ends in (note-frame-sent!).
NoteFrameSent(st) == IF ItemEnds(st) THEN RecordSent(Head(st.todo)) ELSE record

\* One frame is written.
WriteFrame ==
    LET st == streams[Turn] IN
    /\ turn # {}
    /\ st.todo # <<>> /\ ~st.blocked /\ st.credit > 0
    /\ buffered' = buffered + 1
    /\ streams' = [streams EXCEPT ![Turn] =
         [st EXCEPT !.todo = IF ItemEnds(st) THEN Tail(@) ELSE @,
                    !.part = IF ItemEnds(st) THEN 0 ELSE @ + 1,
                    !.credit = @ - 1,
                    !.blocked = Blocked(FALSE, buffered + 1)]]
    /\ record' = NoteFrameSent(st)
    /\ sent' = IF ItemEnds(st) THEN sent \cup {Head(st.todo)} ELSE sent
    /\ UNCHANGED <<sessionVars, tableVars, turn, asked>>

\* The stream can write no more at this tick.
StopWriting ==
    LET st == streams[Turn] IN
    /\ turn # {}
    /\ st.todo # <<>> /\ (st.blocked \/ st.credit = 0)
    /\ streams' = [streams EXCEPT ![Turn].credit = CreditOf(@, st.blocked, 0)]
    /\ turn' = turn \ {Turn}
    /\ UNCHANGED <<sessionVars, tableVars, record, buffered, history>>

\* All its frames are written, FIN with the last.
FinishStream ==
    /\ turn # {}
    /\ streams[Turn].todo = <<>>
    /\ streams' = [streams EXCEPT ![Turn] = NoStream]
    /\ open' = Slots({Turn})
    /\ turn' = turn \ {Turn}
    /\ UNCHANGED <<sessionVars, used, reads, record, buffered, history>>

\* The channel hands a frame to the network.
Drain ==
    /\ buffered > 0
    /\ buffered' = buffered - 1
    /\ UNCHANGED <<sessionVars, tableVars, streams, record, turn, history>>

-----------------------------------------------------------------------------

Grants == [Sids -> 0..MaxGrant]
Ticks == \E expired \in SUBSET Active, grant \in Grants : Tick(expired, grant)

Next ==
    \/ OpenSession
    \/ PeerHello
    \/ EndSession
    \/ Refill
    \/ \E s \in Sids, h \in Hashes : Get(s, h) \/ ReadDone(s, h)
    \/ \E h \in Hashes : Ack(h)
    \/ Ticks
    \/ WriteFrame
    \/ StopWriting
    \/ FinishStream
    \/ Drain

Spec == Init /\ [][Next]_vars

\* The caller ticks, a tick runs to its end, a store call settles, and the network
\* takes what is buffered.  A share is positive while interest lasts, so again and
\* again a stream that is not blocked has credit for a frame.
Fairness ==
    /\ WF_vars(WriteFrame)
    /\ WF_vars(StopWriting)
    /\ WF_vars(FinishStream)
    /\ WF_vars(Drain)
    /\ \A s \in Sids : WF_vars(\E h \in Hashes : ReadDone(s, h))
    /\ \A s \in Sids :
         SF_vars(s \in Active /\ \E grant \in Grants :
                   grant[s] > 0 /\ Tick({}, grant))

LiveSpec == Spec /\ Fairness

-----------------------------------------------------------------------------
(* Properties *)

\* A stream that is written answers a get of this session, and its id is open; an
\* id is open only for a stream or a read, so a stream that has ended holds no slot
\* (C11, C38).
StreamsAreAsked ==
    status = "open" =>
      /\ \A s \in Active : s \in open /\ asked[s] = streams[s].root
      /\ \A s \in open : s \in Active \/ <<s, asked[s]>> \in reads

\* What a stream leaves out was written in full on this session before, whatever
\* the record has forgotten, acks have reordered or other streams have been dropped
\* with an item half written (C19, C20).
StreamsAreComplete ==
    \A s \in Active : Pages(streams[s].root) \subseteq sent \cup Elements(streams[s].todo)

\* The record is of this session: it holds only what was written in full, each hash
\* once, and at most sent-cap of them (C21).
RecordIsSent ==
    /\ Elements(record) \subseteq sent
    /\ Len(record) <= RecordCap
    /\ \A i, j \in DOMAIN record : record[i] = record[j] => i = j

\* C17: no frame is written to a channel at or above the high mark, so that at most
\* one frame more than it is ever queued.  It does not hold: a tick reads the fill of
\* the channel before its first write, once for all the streams that share it.
NoWriteAtHighMark == [][buffered' > buffered => buffered < HighMark]_vars

\* A stream is written to its end, or dropped, while the channel drains and credit
\* keeps coming, though it may be blocked over and over again (C06, C17).
StreamsEnd == \A s \in Sids : s \in Active ~> s \notin Active
=============================================================================
