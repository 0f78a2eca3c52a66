----------------------------- MODULE RevealEngine -----------------------------
(***************************************************************************)
(* A reveal session (reveal/engine.cljc): which pages it offers, holds and *)
(* still has to offer.  The operators take a session and return the next   *)
(* one, as the functions of the engine do.                                 *)
(*                                                                         *)
(* Rates and credit only decide when a page is due, so a page may be due   *)
(* at any time (module RevealService).  The walk of a value is the order   *)
(* of its pages, and a cursor is the part of it not visited yet.           *)
(***************************************************************************)
EXTENDS Naturals, FiniteSets, SequencesExt, SeqFilter

CONSTANTS
    Hashes,        \* the pages of the store
    Roots,         \* the values that are asked for
    Order,         \* per root: its pages in the order of the walk
    SentLimit,     \* how many pages a session remembers as held
    RevealLimit    \* how many reveals a session keeps, if it can

ASSUME RevealAssumption ==
    /\ Order \in [Roots -> Seq(Hashes)]
    /\ \A x \in Roots : \A i, j \in DOMAIN Order[x] :
          Order[x][i] = Order[x][j] => i = j
    /\ SentLimit \in Nat \ {0} /\ RevealLimit \in Nat \ {0}

\* Variant: the last page is left out.
FromShort(s, skip) ==
    LET kept == {i \in DOMAIN s : s[i] \notin skip /\ i < Len(s)}
    IN  IF kept = {} THEN <<>>
        ELSE SubSeq(s, CHOOSE i \in kept : \A j \in kept : i <= j, Len(s) - 1)

\* The rest of a sequence from its first element outside a set.
From(s, skip) ==
    LET kept == {i \in DOMAIN s : s[i] \notin skip}
    IN  IF kept = {} THEN <<>>
        ELSE SubSeq(s, CHOOSE i \in kept : \A j \in kept : i <= j, Len(s))

\* A session: the pages held, oldest first, the reveal that offered each page
\* in flight (0: not in flight), the last reveal id, and the reveals.
Empty == [sent |-> <<>>, offered |-> [h \in Hashes |-> 0], seq |-> 0, reveals |-> {}]

SkipSet(ses) == Elements(ses.sent) \cup {h \in Hashes : ses.offered[h] # 0}

\* Queue the next page of the walk that is not to be skipped.  Pages that are
\* skipped are visited: the walk does not return to them.
Ensure(r, skip) ==
    IF r.pages # <<>> \/ r.done THEN r
    ELSE LET walk == From(r.rest, skip)
         IN  IF walk = <<>> THEN [r EXCEPT !.rest = <<>>, !.done = TRUE]
             ELSE [r EXCEPT !.pages = <<Head(walk)>>, !.rest = Tail(walk)]

\* Variant: a page that another reveal offered meanwhile stays in the queue.
ReadyKept(r, skip) == Ensure(r, skip)

\* A page that another reveal has offered since it was queued is dropped.
Ready(r, skip) == Ensure([r EXCEPT !.pages = From(@, skip)], skip)

\* What each turn of advance does first.
Prepare(ses) == [ses EXCEPT !.reveals = {Ready(r, SkipSet(ses)) : r \in @}]

\* Offer the first page of a reveal.
EmitPage(ses, r) ==
    [ses EXCEPT !.offered[Head(r.pages)] = r.id,
                !.reveals = (@ \ {r}) \cup {[r EXCEPT !.pages = Tail(@)]}]

\* The reveals with a page in flight.
Busy(ses) == {ses.offered[h] : h \in Hashes} \ {0}

Droppable(ses) == {r \in ses.reveals : r.id \notin Busy(ses) /\ (r.done \/ r.pages = <<>>)}

\* Past the limit the oldest reveals that may be dropped go.
Trim(ses) ==
    LET Older(r) == {q \in Droppable(ses) : q.id < r.id}
        Goes(r)  == /\ r \in Droppable(ses)
                    /\ Cardinality(Older(r)) + RevealLimit < Cardinality(ses.reveals)
    IN  [ses EXCEPT !.reveals = {r \in @ : ~Goes(r)}]

LiveReveal(ses, x) == {r \in ses.reveals : r.hash = x}

\* The id a reveal of x has, or gets.
RevealId(ses, x) ==
    IF LiveReveal(ses, x) = {} THEN ses.seq + 1 ELSE (CHOOSE r \in LiveReveal(ses, x) : TRUE).id

NewReveal(ses, x) ==
    Ensure([id |-> ses.seq + 1, hash |-> x, pages |-> <<>>, rest |-> Order[x], done |-> FALSE],
           SkipSet(ses))

\* open-reveal, once the pages due have been offered: a reveal that is there
\* is asked for again, which only restarts its clock.
OpenReveal(ses, x) ==
    Trim(IF LiveReveal(ses, x) # {} THEN ses
         ELSE [ses EXCEPT !.seq = @ + 1, !.reveals = @ \cup {NewReveal(ses, x)}])

\* cancel-reveal, once the pages due have been offered.
CancelReveal(ses, id) == [ses EXCEPT !.reveals = {r \in @ : r.id # id}]

OfferedBy(ses, id) == {h \in Hashes : ses.offered[h] = id}

\* Variant: the oldest page is dropped one too late.
RememberOver(sent, known) ==
    LET all == sent \o known
    IN  IF Len(all) <= SentLimit + 1 THEN all ELSE SubSeq(all, Len(all) - SentLimit, Len(all))

\* Keep the newest pages.
RememberSent(sent, known) ==
    LET all == sent \o known
    IN  IF Len(all) <= SentLimit THEN all
        ELSE SubSeq(all, Len(all) - SentLimit + 1, Len(all))

\* The client holds the pages among hs that are in flight.
AckPages(ses, hs) ==
    LET known == Filter(hs, {h \in Hashes : ses.offered[h] # 0})
    IN  IF known = <<>> THEN ses
        ELSE Trim([ses EXCEPT !.sent = RememberSent(@, known),
                              !.offered = [h \in Hashes |->
                                  IF h \in Elements(known) THEN 0 ELSE @[h]]])

\* Variant: the pages of a cancelled reveal stay offered.
ForgetNone(ses, hs) == ses

\* The client does not hold hs, which are in flight: a reveal that offered some
\* of them, and is still there, has them to offer again, the last one first.
ForgetPages(ses, hs) ==
    LET Again(r)  == Filter(hs, OfferedBy(ses, r.id) \ Elements(r.pages))
        Queued(r) == [r EXCEPT !.pages = Reverse(Again(r)) \o @,
                               !.done = @ /\ Again(r) = <<>>]
    IN  [ses EXCEPT !.offered = [h \in Hashes |-> IF h \in Elements(hs) THEN 0 ELSE @[h]],
                    !.sent = Filter(@, Hashes \ Elements(hs)),
                    !.reveals = {Queued(r) : r \in @}]
===============================================================================
