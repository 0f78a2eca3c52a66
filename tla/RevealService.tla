---------------------------- MODULE RevealService ----------------------------
(***************************************************************************)
(* One connection of POST /reveal (service/reveal.clj): its session, the   *)
(* stream of each request, and the scheduler thread that writes the pages  *)
(* that are due.  All of it is done under the lock of the connection, so a *)
(* step here is a stage of the work of whoever holds the lock; a request   *)
(* only waits outside of it.                                               *)
(***************************************************************************)
EXTENDS RevealEngine

CONSTANTS
    MaxRequests,   \* how many requests come on this connection
    Pauses         \* whether a reveal may pause or exhaust its budget

ASSUME ServiceAssumption == MaxRequests \in Nat /\ Pauses \in BOOLEAN

VARIABLES
    session,   \* the reveal session
    streams,   \* per request: its stream, while it is in the table
    request,   \* per request: what it asked, its promise and what it does
    lock,      \* what the holder of the lock is doing
    written,   \* history: the pages written whole
    copies,    \* history: per page, how often since it was last not remembered
    clean      \* history: no stream failed and no reveal paused

vars == <<session, streams, request, lock, written, copies, clean>>

\* Requests are numbered as they come, by stream-seq.
Requests == 1 .. MaxRequests

\* A stream that is not in the table.
Gone == [reveal |-> 0, writer |-> FALSE, offered |-> <<>>, moved |-> FALSE]

\* What a request does, the root it asked for, and its promise.
Fresh == [phase |-> "new", hash |-> {}, done |-> "none"]

\* due: the writes planned; closing: the streams to end; opening: the root to
\* open a reveal of; cancel: the reveal being cancelled, if any, and back: what
\* the holder does after that.
Free == [at |-> "free", due |-> <<>>, closing |-> {}, opening |-> {}, cancel |-> 0, back |-> "free"]

Attached == {s \in Requests : streams[s].reveal # 0}
On(id) == {s \in Attached : streams[s].reveal = id}
WriterFor(id) == {s \in On(id) : streams[s].writer}
Revealed(id) == {r \in session.reveals : r.id = id}

Init ==
    /\ session = Empty
    /\ streams = [s \in Requests |-> Gone]
    /\ request = [s \in Requests |-> Fresh]
    /\ lock = Free
    /\ written = {}
    /\ copies = [h \in Hashes |-> 0]
    /\ clean = TRUE

\* begin-reveal!: the stream is put in the table.  Its reveal is opened when
\* the pages due before have been offered (Advanced); it is known which reveal
\* that will be, so a page due before may already be this stream's to write.
Begin(s, x) ==
    /\ lock.at = "free" /\ request[s].phase = "new"
    /\ \A q \in 1 .. s - 1 : request[q].phase # "new"
    /\ LET id == RevealId(session, x)
       IN  streams' = [streams EXCEPT ![s] =
               [Gone EXCEPT !.reveal = id, !.writer = WriterFor(id) = {}]]
    /\ request' = [request EXCEPT ![s].phase = "await", ![s].hash = {x}]
    /\ session' = Prepare(session)
    /\ lock' = [Free EXCEPT !.at = "advance", !.opening = {x}]
    /\ UNCHANGED <<written, copies, clean>>

\* pump-once!: the scheduler takes the lock again and again.
Pump ==
    /\ lock.at = "free" /\ Attached # {}
    /\ session' = Prepare(session)
    /\ lock' = [Free EXCEPT !.at = "advance"]
    /\ UNCHANGED <<streams, request, written, copies, clean>>

\* note-page!: the page is the writer's to acknowledge, and progress for all
\* the streams of its reveal.
Noted(w, id, h) ==
    [s \in Requests |->
        [streams[s] EXCEPT !.offered = IF s = w THEN Append(@, h) ELSE @,
                           !.moved = @ \/ s \in On(id)]]

\* A page falls due: advance offers it, and plan-writes gives it to the writer
\* of its reveal.  Without a writer it is dropped, and so is every page that
\* falls due while a reveal is cancelled.
Emit(id) ==
    /\ lock.at = "advance"
    /\ \E r \in Revealed(id) :
        /\ r.pages # <<>>
        /\ session' = Prepare(EmitPage(session, r))
        /\ IF lock.cancel # 0 \/ WriterFor(id) = {} THEN UNCHANGED <<streams, lock>>
           ELSE \E w \in WriterFor(id) :
                /\ streams' = Noted(w, id, Head(r.pages))
                /\ lock' = [lock EXCEPT !.due = Append(@, <<w, Head(r.pages)>>)]
    /\ UNCHANGED <<request, written, copies, clean>>

\* A page that the session does not remember is counted anew.
Recount(ses) == [h \in Hashes |-> IF h \in SkipSet(ses) THEN copies[h] ELSE 0]

\* What becomes of the session when its clock has reached the present.
Settled ==
    IF lock.cancel # 0
      THEN ForgetPages(CancelReveal(session, lock.cancel),
                       SetToSeq(OfferedBy(session, lock.cancel)))
    ELSE IF lock.opening # {} THEN OpenReveal(session, CHOOSE x \in lock.opening : TRUE)
    ELSE session

Advanced ==
    /\ lock.at = "advance"
    /\ session' = Settled
    /\ lock' = IF lock.cancel # 0 THEN [lock EXCEPT !.at = lock.back, !.cancel = 0]
               ELSE [lock EXCEPT !.at = "write", !.opening = {}]
    /\ copies' = Recount(session')
    /\ UNCHANGED <<streams, request, written, clean>>

\* Variant: nobody takes over from a writer that failed.
PromotedNone(s, others) == {[streams EXCEPT ![s] = Gone]}

\* The stream s leaves, and one of the others writes if it did.
Promoted(s, others) ==
    {[streams EXCEPT ![s] = Gone, ![p].writer = @ \/ streams[s].writer] : p \in others}

\* fail-unlocked!, after which the holder of the lock goes on with next.  The
\* last stream of a reveal is its writer, and cancels it if it is there.
Fail(s, next) ==
    LET id     == streams[s].reveal
        others == On(id) \ {s}
    IN  /\ clean' = FALSE
        /\ streams' \in IF others = {} THEN {[streams EXCEPT ![s] = Gone]} ELSE Promoted(s, others)
        /\ IF others = {} /\ Revealed(id) # {}
             THEN /\ session' = Prepare(session)
                  /\ lock' = [next EXCEPT !.at = "advance", !.cancel = id, !.back = next.at]
             ELSE /\ lock' = next
                  /\ UNCHANGED session

Planned == [lock EXCEPT !.due = Tail(@)]

\* write-batches!: the next page is written, unless its stream has failed.
Write ==
    /\ lock.at = "write" /\ lock.due # <<>>
    /\ LET s == Head(lock.due)[1]
           h == Head(lock.due)[2]
       IN  IF s \in Attached
             THEN /\ written' = written \cup {h}
                  /\ copies' = [copies EXCEPT ![h] = @ + 1]
             ELSE UNCHANGED <<written, copies>>
    /\ lock' = Planned
    /\ UNCHANGED <<session, streams, request, clean>>

\* Variant: a write that throws is passed over.
BrokenUnnoticed(s) ==
    /\ lock' = Planned
    /\ UNCHANGED <<session, streams, request, clean>>

Broken(s) ==
    /\ Fail(s, Planned)
    /\ request' = [request EXCEPT ![s].done = "failed"]

WriteThrows ==
    /\ lock.at = "write" /\ lock.due # <<>>
    /\ Head(lock.due)[1] \in Attached
    /\ Broken(Head(lock.due)[1])
    /\ UNCHANGED <<written, copies>>

\* The lock while the streams in closing are still to end.
Closing(closing) == IF closing = {} THEN Free ELSE [Free EXCEPT !.at = "close", !.closing = closing]

\* Variant: a stream that waits on the writer is not ended with it.
EndingWriters(paused) ==
    {s \in Attached : streams[s].writer /\ \E r \in Revealed(streams[s].reveal) : r.done \/ r \in paused}

Ending(paused) ==
    {s \in Attached : \E r \in Revealed(streams[s].reveal) : r.done \/ r \in paused}

\* finish-done!: the streams of the reveals that are done, have paused or have
\* exhausted their budget are to end.
Finish(paused) ==
    /\ lock.at = "write" /\ lock.due = <<>>
    /\ Pauses \/ paused = {}
    /\ lock' = Closing(Ending(paused))
    /\ clean' = (clean /\ paused = {})
    /\ UNCHANGED <<session, streams, request, written, copies>>

\* close-stream!: the pages it wrote are acknowledged.
Close(s) ==
    /\ lock.at = "close" /\ s \in lock.closing
    /\ session' = AckPages(session, streams[s].offered)
    /\ copies' = Recount(session')
    /\ streams' = [streams EXCEPT ![s] = Gone]
    /\ request' = [request EXCEPT ![s].done = "ok"]
    /\ lock' = Closing(lock.closing \ {s})
    /\ UNCHANGED <<written, clean>>

\* The promise of a request is delivered.
Return(s) ==
    /\ request[s].phase = "await" /\ request[s].done # "none"
    /\ request' = [request EXCEPT ![s].phase = IF request[s].done = "ok" THEN "ok" ELSE "threw"]
    /\ UNCHANGED <<session, streams, lock, written, copies, clean>>

\* It was not, for idle-ms: the request goes for the lock.
Idle(s) ==
    /\ request[s].phase = "await" /\ request[s].done = "none"
    /\ request' = [request EXCEPT ![s].phase = "late"]
    /\ UNCHANGED <<session, streams, lock, written, copies, clean>>

\* With the lock it looks again: its reveal moved on, or its stream has gone.
LookAgain(s) ==
    /\ lock.at = "free" /\ request[s].phase = "late"
    /\ s \in Attached => streams[s].moved
    /\ streams' = [streams EXCEPT ![s].moved = FALSE]
    /\ request' = [request EXCEPT ![s].phase = IF s \in Attached THEN "await" ELSE "ok"]
    /\ UNCHANGED <<session, lock, written, copies, clean>>

GiveUp(s) ==
    /\ lock.at = "free" /\ request[s].phase = "late"
    /\ s \in Attached /\ ~streams[s].moved
    /\ Fail(s, Free)
    /\ request' = [request EXCEPT ![s].phase = "threw", ![s].done = "failed"]
    /\ UNCHANGED <<written, copies>>

Unfinished == {r \in session.reveals : ~r.done}
PageDue == \E id \in Requests : Emit(id)   \* a request opens one reveal at most

\* Whoever holds the lock, and the scheduler that takes it.
Hold ==
    \/ Pump
    \/ PageDue
    \/ Advanced
    \/ Write
    \/ WriteThrows
    \/ \E paused \in SUBSET Unfinished : Finish(paused)
    \/ \E s \in Requests : Close(s)

\* The thread of a request.
Resume(s) == Return(s) \/ LookAgain(s) \/ GiveUp(s)

Next ==
    \/ Hold
    \/ \E s \in Requests, x \in Roots : Begin(s, x)
    \/ \E s \in Requests : Resume(s) \/ Idle(s)

Spec == Init /\ [][Next]_vars

\* The holder of the lock goes on, the scheduler takes it again, and a request
\* resumes when it can.  Pages that do not pause fall due some time.  No write
\* has to succeed and no timer has to run out.
FairSpec ==
    /\ Spec
    /\ WF_vars(Hold)
    /\ SF_vars(PageDue)
    /\ \A s \in Requests : SF_vars(Resume(s))
-------------------------------------------------------------------------------
Quiet == lock.at = "free"

TypeOK ==
    /\ session.sent \in Seq(Hashes) /\ Len(session.sent) <= SentLimit
    /\ session.offered \in [Hashes -> Nat]
    /\ \A r \in session.reveals :
          /\ r.id \in 1 .. session.seq /\ r.hash \in Roots
          /\ r.pages \in Seq(Hashes) /\ r.rest \in Seq(Hashes) /\ r.done \in BOOLEAN
          /\ \A q \in session.reveals : q.id = r.id \/ q.hash = r.hash => q = r
    /\ \A s \in Requests :
          /\ streams[s].reveal \in 0 .. session.seq + 1 /\ streams[s].writer \in BOOLEAN
          /\ streams[s].offered \in Seq(Hashes) /\ streams[s].moved \in BOOLEAN
          /\ request[s].phase \in {"new", "await", "late", "ok", "threw"}
          /\ request[s].hash \subseteq Roots
          /\ request[s].done \in {"none", "ok", "failed"}
    /\ lock.at \in {"free", "advance", "write", "close"}
    /\ \A i \in DOMAIN lock.due : lock.due[i] \in Requests \X Hashes
    /\ lock.closing \subseteq Requests /\ lock.opening \subseteq Roots
    /\ lock.cancel \in Nat /\ lock.back \in {"free", "write"}
    /\ written \subseteq Hashes /\ copies \in [Hashes -> Nat] /\ clean \in BOOLEAN

\* One stream writes for a reveal that has any: of several requests for one
\* value the others wait, and when the writer fails one of them takes over.
OneWriter ==
    lock.at # "close" => \A s \in Attached : Cardinality(WriterFor(streams[s].reveal)) = 1

\* A page in flight is of a reveal that is still there, which can be asked for
\* it again: no cancel and no trim leaves it behind.
OfferedIsLive ==
    Quiet => \A h \in Hashes :
        session.offered[h] # 0 => Revealed(session.offered[h]) # {}

\* A page that counts as held was written whole: the pages of a stream that
\* fails are not acknowledged, whoever writes after it.
SentIsWritten ==
    \A h \in Elements(session.sent) : copies[h] > 0

\* While the session remembers a page it is not written again, though every
\* reveal chose its next page before the others offered theirs.
WrittenOnce ==
    \A h \in Hashes : copies[h] <= 1

\* As long as nothing failed or paused, a request that returns has the walk of
\* its value written on the connection, by whichever streams.
OkIsComplete ==
    clean => \A s \in Requests : request[s].phase = "ok" =>
        \A x \in request[s].hash : Elements(Order[x]) \subseteq written

\* begin-reveal! "Returns when the walk has been offered and acknowledged, or
\* when the reveal pauses": without a pause the walk was written, then, also
\* when other streams of the connection failed.
ReturnedIsWritten ==
    \A s \in Requests : request[s].done = "ok" =>
        \A x \in request[s].hash : Elements(Order[x]) \subseteq written

\* begin-reveal! "Throws when this stream fails".  It does not hold: a request
\* that looked too late finds no stream and returns.
FailedThrows ==
    \A s \in Requests : request[s].done = "failed" => request[s].phase # "ok"

\* Nothing but its timer ends a request whose reveal was trimmed from under it.
Stranded(s) == Quiet /\ s \in Attached /\ Revealed(streams[s].reveal) = {}

\* Every other request ends without its timer, whichever writes fail: its
\* stream is served by its writer, taken over, closed or failed.
RequestEnds ==
    \A s \in Requests :
        Quiet /\ s \in Attached ~> request[s].phase \in {"ok", "threw"} \/ Stranded(s)
===============================================================================
