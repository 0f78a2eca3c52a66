-------------------------- MODULE RevealServiceProofs --------------------------
(* Theorems about RevealService and the engine it uses, for any values, any    *)
(* limits and any number of requests.                                          *)
EXTENDS RevealService, SeqFilterProofs, TLAPS

-----------------------------------------------------------------------------
(* Sequences *)

LEMMA EmptyParts ==
    ASSUME NEW T
    PROVE  /\ <<>> \in Seq(T) /\ Len(<<>>) = 0 /\ Elements(<<>>) = {}
           /\ \A s \in Seq(T) : Elements(s) = {} => s = <<>>
           /\ \A s \in Seq(T) : s # <<>> => Head(s) \in Elements(s)
           /\ \A s \in Seq(T) : Elements(s) \in SUBSET T
<1>1. ASSUME NEW s \in Seq(T) PROVE DOMAIN s = 1 .. Len(s) /\ Len(s) \in Nat
  OBVIOUS
<1>2. ASSUME NEW s \in Seq(T), Elements(s) = {} PROVE s = <<>>
  <2>1. DOMAIN s = {}
    BY <1>2 DEF Elements
  <2>2. Len(s) = 0
    BY <1>1, <2>1
  <2> QED
    BY <2>2
<1>3. ASSUME NEW s \in Seq(T), s # <<>> PROVE Head(s) \in Elements(s)
  <2>1. 1 \in DOMAIN s /\ Head(s) = s[1]
    BY <1>3
  <2> QED
    BY <2>1 DEF Elements
<1>4. ASSUME NEW s \in Seq(T) PROVE Elements(s) \in SUBSET T
  BY DEF Elements
<1> QED
  BY <1>2, <1>3, <1>4 DEF Elements

\* From is the rest of a sequence from the first element outside of the set.
LEMMA FromParts ==
    ASSUME NEW T, NEW s \in Seq(T), NEW skip
    PROVE  /\ From(s, skip) \in Seq(T)
           /\ From(s, skip) # <<>> => Head(From(s, skip)) \notin skip
           /\ Elements(From(s, skip)) \subseteq Elements(s)
           /\ Elements(s) \subseteq Elements(From(s, skip)) \cup skip
<1> PICK kept : kept = {i \in DOMAIN s : s[i] \notin skip}
  OBVIOUS
<1>0. Len(s) \in Nat /\ DOMAIN s = 1 .. Len(s)
  OBVIOUS
<1>1. CASE kept = {}
  <2>1. From(s, skip) = <<>>
    BY <1>1 DEF From
  <2>2. Elements(s) \subseteq skip
    BY <1>1 DEF Elements
  <2> QED
    BY <2>1, <2>2, EmptyParts DEF Elements
<1>2. CASE kept # {}
  <2>1. PICK m : m = CHOOSE i \in kept : \A j \in kept : i <= j
    OBVIOUS
  <2>2. m \in kept /\ \A j \in kept : m <= j
    <3>1. kept \in SUBSET Nat
      BY <1>0
    <3>2. \E i \in kept : \A j \in kept : i <= j
      BY <1>2, <3>1, LeastNatural
    <3> QED
      BY <2>1, <3>2
  <2>3. From(s, skip) = SubSeq(s, m, Len(s))
    BY <1>2, <2>1 DEF From
  <2>4. m \in 1 .. Len(s) /\ s[m] \notin skip
    BY <1>0, <2>2
  <2>5. PICK f : f = SubSeq(s, m, Len(s))
    OBVIOUS
  <2>6. /\ f \in Seq(T) /\ Len(f) = Len(s) - m + 1
        /\ \A k \in 1 .. (Len(s) - m + 1) : f[k] = s[m + k - 1]
    BY <1>0, <2>4, <2>5
  <2>7. DOMAIN f = 1 .. (Len(s) - m + 1)
    BY <2>6
  <2>8. Head(f) = s[m]
    BY <1>0, <2>4, <2>6
  <2>9. Elements(f) \subseteq Elements(s)
    <3>1. ASSUME NEW k \in 1 .. (Len(s) - m + 1) PROVE m + k - 1 \in DOMAIN s
      BY <1>0, <2>4, <3>1
    <3> QED
      BY <2>6, <2>7, <3>1 DEF Elements
  <2>10. ASSUME NEW j \in DOMAIN s, s[j] \notin skip PROVE s[j] \in Elements(f)
    <3>1. j >= m /\ j \in Nat /\ j <= Len(s)
      BY <1>0, <2>2, <2>10
    <3>2. j - m + 1 \in DOMAIN f /\ m + (j - m + 1) - 1 = j
      BY <1>0, <2>4, <2>7, <3>1
    <3>3. f[j - m + 1] = s[j]
      BY <2>6, <2>7, <3>2
    <3> QED
      BY <3>2, <3>3 DEF Elements
  <2>11. Elements(s) \subseteq Elements(f) \cup skip
    BY <2>10 DEF Elements
  <2>12. f # <<>> => Head(f) \notin skip
    BY <2>4, <2>8
  <2> QED
    BY <2>3, <2>5, <2>6, <2>9, <2>11, <2>12
<1> QED
  BY <1>1, <1>2

LEMMA ConcatElements ==
    ASSUME NEW T, NEW s \in Seq(T), NEW t \in Seq(T)
    PROVE  s \o t \in Seq(T) /\ Elements(s \o t) = Elements(s) \cup Elements(t)
<1>1. /\ s \o t \in Seq(T) /\ Len(s) \in Nat /\ Len(t) \in Nat
      /\ DOMAIN s = 1 .. Len(s) /\ DOMAIN t = 1 .. Len(t)
      /\ DOMAIN (s \o t) = 1 .. (Len(s) + Len(t))
      /\ \A k \in 1 .. Len(s) : (s \o t)[k] = s[k]
      /\ \A k \in 1 .. Len(t) : (s \o t)[Len(s) + k] = t[k]
  OBVIOUS
<1> PICK u : u = s \o t
  OBVIOUS
<1>2. ASSUME NEW i \in DOMAIN u PROVE u[i] \in Elements(s) \cup Elements(t)
  <2>1. CASE i <= Len(s)
    BY <1>1, <2>1 DEF Elements
  <2>2. CASE i > Len(s)
    <3>1. i - Len(s) \in 1 .. Len(t) /\ Len(s) + (i - Len(s)) = i
      BY <1>1, <2>2
    <3>2. u[i] = t[i - Len(s)]
      BY <1>1, <3>1
    <3> QED
      BY <1>1, <3>1, <3>2 DEF Elements
  <2> QED
    BY <1>1, <2>1, <2>2
<1>3. ASSUME NEW k \in DOMAIN s PROVE s[k] \in Elements(u)
  <2>1. k \in DOMAIN u
    BY <1>1
  <2> QED
    BY <1>1, <2>1 DEF Elements
<1>4. ASSUME NEW k \in DOMAIN t PROVE t[k] \in Elements(u)
  <2>1. Len(s) + k \in DOMAIN u
    BY <1>1
  <2> QED
    BY <1>1, <2>1 DEF Elements
<1> QED
  BY <1>1, <1>2, <1>3, <1>4 DEF Elements

LEMMA ReverseElements ==
    ASSUME NEW T, NEW s \in Seq(T)
    PROVE  Reverse(s) \in Seq(T) /\ Elements(Reverse(s)) = Elements(s)
<1>1. Len(s) \in Nat /\ DOMAIN s = 1 .. Len(s)
  OBVIOUS
<1> PICK f : f = Reverse(s)
  OBVIOUS
<1>2. f = [i \in 1 .. Len(s) |-> s[(Len(s) - i) + 1]]
  BY DEF Reverse
<1>3. \A i \in 1 .. Len(s) : (Len(s) - i) + 1 \in 1 .. Len(s) /\ f[i] = s[(Len(s) - i) + 1]
  BY <1>1, <1>2
<1>4. f \in Seq(T)
  BY <1>1, <1>2, <1>3
<1>5. DOMAIN f = 1 .. Len(s)
  BY <1>2
<1>6. ASSUME NEW i \in DOMAIN s PROVE s[i] \in Elements(f)
  <2>1. (Len(s) - i) + 1 \in DOMAIN f /\ (Len(s) - ((Len(s) - i) + 1)) + 1 = i
    BY <1>1, <1>5
  <2>2. f[(Len(s) - i) + 1] = s[i]
    BY <1>3, <1>5, <2>1
  <2> QED
    BY <2>1, <2>2 DEF Elements
<1>7. Elements(f) \subseteq Elements(s)
  BY <1>1, <1>3, <1>5 DEF Elements
<1> QED
  BY <1>4, <1>6, <1>7 DEF Elements

\* The pages of a finite set in some order are those pages.
LEMMA SetToSeqElements ==
    ASSUME NEW S, IsFiniteSet(S)
    PROVE  SetToSeq(S) \in Seq(S) /\ Elements(SetToSeq(S)) = S
<1> PICK n : n = Cardinality(S)
  OBVIOUS
<1>1. n \in Nat /\ ExistsBijection(1 .. n, S)
  BY FS_CardinalityType
<1>2. \E f \in [1 .. n -> S] : IsInjective(f)
  BY <1>1 DEF ExistsBijection, Bijection, Injection
<1> PICK f : f = SetToSeq(S)
  OBVIOUS
<1>3. f \in [1 .. n -> S] /\ IsInjective(f)
  BY <1>2 DEF SetToSeq
<1>4. f \in Seq(S)
  BY <1>1, <1>3
<1>5. Elements(f) \in SUBSET S
  BY <1>3 DEF Elements
<1>6. f \in Bijection(1 .. n, Elements(f))
  BY <1>3 DEF Bijection, Injection, Surjection, Elements
<1>7. Cardinality(Elements(f)) = n
  BY <1>1, <1>6, FS_CountingElements DEF ExistsBijection
<1>8. Elements(f) = S
  BY <1>5, <1>7, FS_Subset
<1> QED
  BY <1>4, <1>8

-----------------------------------------------------------------------------
(* The engine: what its operators do to a session *)

Reveals == [id: Nat \ {0}, hash: Roots, pages: Seq(Hashes), rest: Seq(Hashes), done: BOOLEAN]
Sessions == [sent: Seq(Hashes), offered: [Hashes -> Nat], seq: Nat, reveals: SUBSET Reveals]

\* The pages in flight, and those that a reveal has still to visit.
Flying(ses) == {h \in Hashes : ses.offered[h] # 0}
LeftOf(r) == Elements(r.pages) \cup Elements(r.rest)
Same(r, q) == r.id = q.id /\ r.hash = q.hash

\* A reveal that is done has nothing left; and one that has nothing queued is done.
DoneIsOver(r) == r.done => r.pages = <<>> /\ r.rest = <<>>
Queues(r) == DoneIsOver(r) /\ (r.pages = <<>> => r.done)

\* A session in the middle of a turn: values and ids are of one reveal each, and a
\* page in flight is of a reveal that is there.
MidInv(ses) ==
    /\ ses \in Sessions
    /\ Len(ses.sent) <= SentLimit
    /\ IsFiniteSet(Flying(ses))
    /\ \A r \in ses.reveals : r.id <= ses.seq /\ DoneIsOver(r)
    /\ \A r, q \in ses.reveals : r.id = q.id \/ r.hash = q.hash => r = q
    /\ \A h \in Hashes : ses.offered[h] # 0 => \E r \in ses.reveals : r.id = ses.offered[h]

SessionInv(ses) == MidInv(ses) /\ \A r \in ses.reveals : Queues(r)

\* The next page of every reveal may be offered.
HeadsAreDue(ses) ==
    \A r \in ses.reveals : r.pages # <<>> => Head(r.pages) \in Hashes \ SkipSet(ses)

\* A reveal that is there was there before, and what is no longer left to visit
\* is held or in flight.
FromReveals(ses, new) ==
    \A q \in new.reveals : \E r \in ses.reveals :
        /\ Same(r, q) /\ (r.done => q.done)
        /\ LeftOf(r) \subseteq LeftOf(q) \cup SkipSet(new)
ToReveals(ses, new) == \A r \in ses.reveals : \E q \in new.reveals : Same(r, q)

LEMMA EnsureParts ==
    ASSUME NEW r \in Reveals, DoneIsOver(r), NEW skip
    PROVE  /\ Ensure(r, skip) \in Reveals /\ Same(r, Ensure(r, skip)) /\ Queues(Ensure(r, skip))
           /\ r.done => Ensure(r, skip).done
           /\ LeftOf(r) \subseteq LeftOf(Ensure(r, skip)) \cup skip
           /\ r.pages # <<>> => Ensure(r, skip) = r
           /\ r.pages = <<>> /\ Ensure(r, skip).pages # <<>> => Head(Ensure(r, skip).pages) \notin skip
<1>1. CASE r.pages # <<>> \/ r.done
  BY <1>1 DEF Ensure, Queues, DoneIsOver, Same
<1>2. CASE r.pages = <<>> /\ ~r.done
  <2> PICK walk : walk = From(r.rest, skip)
    OBVIOUS
  <2>1. /\ walk \in Seq(Hashes) /\ (walk # <<>> => Head(walk) \notin skip)
        /\ Elements(r.rest) \subseteq Elements(walk) \cup skip
    BY FromParts DEF Reveals
  <2>2. LeftOf(r) \subseteq Elements(walk) \cup skip
    BY <1>2, <2>1, EmptyParts DEF LeftOf
  <2>3. CASE walk = <<>>
    <3>1. Ensure(r, skip) = [r EXCEPT !.rest = <<>>, !.done = TRUE]
      BY <1>2, <2>3 DEF Ensure
    <3> PICK e : e = [r EXCEPT !.rest = <<>>, !.done = TRUE]
      OBVIOUS
    <3>2. e \in Reveals /\ e.id = r.id /\ e.hash = r.hash /\ e.pages = <<>> /\ e.rest = <<>> /\ e.done
      BY <1>2, EmptyParts DEF Reveals
    <3>3. LeftOf(r) \subseteq skip
      BY <2>2, <2>3, EmptyParts
    <3> QED
      BY <1>2, <3>1, <3>2, <3>3 DEF Queues, DoneIsOver, Same
  <2>4. CASE walk # <<>>
    <3>1. Ensure(r, skip) = [r EXCEPT !.pages = <<Head(walk)>>, !.rest = Tail(walk)]
      BY <1>2, <2>4 DEF Ensure
    <3> PICK e : e = [r EXCEPT !.pages = <<Head(walk)>>, !.rest = Tail(walk)]
      OBVIOUS
    <3>2. Head(walk) \in Hashes /\ Tail(walk) \in Seq(Hashes) /\ <<Head(walk)>> \in Seq(Hashes)
      BY <2>1, <2>4
    <3>3. /\ e \in Reveals /\ e.id = r.id /\ e.hash = r.hash
          /\ e.pages = <<Head(walk)>> /\ e.rest = Tail(walk) /\ e.done = r.done
      BY <3>2 DEF Reveals
    <3>4. <<Head(walk)>> # <<>> /\ Head(<<Head(walk)>>) = Head(walk)
      OBVIOUS
    <3>5. Elements(walk) = {Head(walk)} \cup Elements(Tail(walk))
      BY <2>1, <2>4, TailElements
    <3>6. Elements(<<Head(walk)>>) = {Head(walk)}
      BY DEF Elements
    <3> QED
      BY <1>2, <2>1, <2>2, <2>4, <3>1, <3>3, <3>4, <3>5, <3>6 DEF Queues, DoneIsOver, Same, LeftOf
  <2> QED
    BY <2>3, <2>4
<1> QED
  BY <1>1, <1>2

LEMMA ReadyParts ==
    ASSUME NEW r \in Reveals, DoneIsOver(r), NEW skip
    PROVE  /\ Ready(r, skip) \in Reveals /\ Same(r, Ready(r, skip)) /\ Queues(Ready(r, skip))
           /\ r.done => Ready(r, skip).done
           /\ LeftOf(r) \subseteq LeftOf(Ready(r, skip)) \cup skip
           /\ Ready(r, skip).pages # <<>> => Head(Ready(r, skip).pages) \in Hashes \ skip
<1> PICK c : c = [r EXCEPT !.pages = From(@, skip)]
  OBVIOUS
<1>1. /\ From(r.pages, skip) \in Seq(Hashes)
      /\ From(r.pages, skip) # <<>> => Head(From(r.pages, skip)) \notin skip
      /\ Elements(r.pages) \subseteq Elements(From(r.pages, skip)) \cup skip
  BY FromParts DEF Reveals
<1>2. /\ c \in Reveals /\ c.id = r.id /\ c.hash = r.hash /\ c.pages = From(r.pages, skip)
      /\ c.rest = r.rest /\ c.done = r.done
  BY <1>1 DEF Reveals
<1>3. DoneIsOver(c)
  <2>1. From(<<>>, skip) = <<>>
    BY DEF From
  <2> QED
    BY <1>2, <2>1 DEF DoneIsOver
<1>4. Ready(r, skip) = Ensure(c, skip)
  BY DEF Ready
<1>5. LeftOf(r) \subseteq LeftOf(c) \cup skip
  BY <1>1, <1>2 DEF LeftOf
<1>6. /\ Ensure(c, skip) \in Reveals /\ Same(c, Ensure(c, skip)) /\ Queues(Ensure(c, skip))
      /\ c.done => Ensure(c, skip).done
      /\ LeftOf(c) \subseteq LeftOf(Ensure(c, skip)) \cup skip
      /\ c.pages # <<>> => Ensure(c, skip) = c
      /\ c.pages = <<>> /\ Ensure(c, skip).pages # <<>> => Head(Ensure(c, skip).pages) \notin skip
  BY <1>2, <1>3, EnsureParts
<1>7. Ensure(c, skip).pages # <<>> => Head(Ensure(c, skip).pages) \in Hashes
  BY <1>6, EmptyParts DEF Reveals
<1> QED
  BY <1>1, <1>2, <1>4, <1>5, <1>6, <1>7 DEF Same

LEMMA PrepareParts ==
    ASSUME NEW ses, MidInv(ses)
    PROVE  /\ SessionInv(Prepare(ses)) /\ HeadsAreDue(Prepare(ses))
           /\ Prepare(ses).sent = ses.sent /\ Prepare(ses).offered = ses.offered
           /\ Prepare(ses).seq = ses.seq /\ SkipSet(Prepare(ses)) = SkipSet(ses)
           /\ FromReveals(ses, Prepare(ses)) /\ ToReveals(ses, Prepare(ses))
<1> PICK skip : skip = SkipSet(ses)
  OBVIOUS
<1> PICK new : new = Prepare(ses)
  OBVIOUS
<1>0. ses \in Sessions /\ ses.reveals \in SUBSET Reveals
  BY DEF MidInv, Sessions
<1>1. \A r \in ses.reveals :
        /\ Ready(r, skip) \in Reveals /\ Same(r, Ready(r, skip)) /\ Queues(Ready(r, skip))
        /\ r.done => Ready(r, skip).done
        /\ LeftOf(r) \subseteq LeftOf(Ready(r, skip)) \cup skip
        /\ Ready(r, skip).pages # <<>> => Head(Ready(r, skip).pages) \in Hashes \ skip
  BY <1>0, ReadyParts DEF MidInv
<1>2. /\ new.reveals = {Ready(r, skip) : r \in ses.reveals}
      /\ new.sent = ses.sent /\ new.offered = ses.offered /\ new.seq = ses.seq
  BY <1>0 DEF Prepare, Sessions
<1>3. new \in Sessions
  <2>1. new = [ses EXCEPT !.reveals = {Ready(r, skip) : r \in ses.reveals}]
    BY <1>0 DEF Prepare, Sessions
  <2>2. {Ready(r, skip) : r \in ses.reveals} \in SUBSET Reveals
    BY <1>1
  <2> QED
    BY <1>0, <2>1, <2>2 DEF Sessions
<1>4. SkipSet(new) = skip /\ Flying(new) = Flying(ses)
  BY <1>2 DEF SkipSet, Flying
<1>5. \A q \in new.reveals : q.id <= new.seq /\ Queues(q) /\ DoneIsOver(q)
  BY <1>1, <1>2 DEF MidInv, Same, Queues
<1>6. ASSUME NEW q1 \in new.reveals, NEW q2 \in new.reveals, q1.id = q2.id \/ q1.hash = q2.hash
      PROVE  q1 = q2
  <2>1. PICK r1 \in ses.reveals : q1 = Ready(r1, skip)
    BY <1>2
  <2>2. PICK r2 \in ses.reveals : q2 = Ready(r2, skip)
    BY <1>2
  <2>3. r1.id = r2.id \/ r1.hash = r2.hash
    BY <1>1, <1>6, <2>1, <2>2 DEF Same
  <2>4. r1 = r2
    BY <2>3 DEF MidInv
  <2> QED
    BY <2>1, <2>2, <2>4
<1>7. ToReveals(ses, new)
  BY <1>1, <1>2 DEF ToReveals
<1>8. FromReveals(ses, new)
  BY <1>1, <1>2, <1>4 DEF FromReveals
<1>9. \A h \in Hashes : new.offered[h] # 0 => \E q \in new.reveals : q.id = new.offered[h]
  BY <1>2, <1>7 DEF MidInv, ToReveals, Same
<1>10. HeadsAreDue(new)
  BY <1>1, <1>2, <1>4 DEF HeadsAreDue
<1>11. MidInv(new)
  BY <1>2, <1>3, <1>4, <1>5, <1>6, <1>9 DEF MidInv
<1> QED
  BY <1>2, <1>4, <1>5, <1>7, <1>8, <1>10, <1>11 DEF SessionInv

LEMMA EmitParts ==
    ASSUME NEW ses, SessionInv(ses), NEW r \in ses.reveals, r.pages # <<>>
    PROVE  /\ MidInv(EmitPage(ses, r)) /\ Head(r.pages) \in Hashes
           /\ EmitPage(ses, r).sent = ses.sent /\ EmitPage(ses, r).seq = ses.seq
           /\ EmitPage(ses, r).offered = [ses.offered EXCEPT ![Head(r.pages)] = r.id]
           /\ SkipSet(EmitPage(ses, r)) = SkipSet(ses) \cup {Head(r.pages)}
           /\ FromReveals(ses, EmitPage(ses, r)) /\ ToReveals(ses, EmitPage(ses, r))
<1> PICK h : h = Head(r.pages)
  OBVIOUS
<1> PICK c : c = [r EXCEPT !.pages = Tail(@)]
  OBVIOUS
<1> PICK new : new = EmitPage(ses, r)
  OBVIOUS
<1>0. ses \in Sessions /\ MidInv(ses) /\ r \in Reveals /\ r.pages \in Seq(Hashes)
  BY DEF SessionInv, MidInv, Sessions, Reveals
<1>1. /\ h \in Hashes /\ Tail(r.pages) \in Seq(Hashes)
      /\ Elements(r.pages) = {h} \cup Elements(Tail(r.pages))
  BY <1>0, TailParts, TailElements
<1>2. /\ c \in Reveals /\ Same(r, c) /\ c.pages = Tail(r.pages) /\ c.rest = r.rest /\ ~c.done /\ ~r.done
  BY <1>0, <1>1 DEF Reveals, Same, SessionInv, Queues, DoneIsOver
<1>3. /\ new = [ses EXCEPT !.offered[h] = r.id, !.reveals = (ses.reveals \ {r}) \cup {c}]
  BY <1>0 DEF EmitPage, Sessions
<1>4. /\ new.sent = ses.sent /\ new.seq = ses.seq
      /\ new.offered = [ses.offered EXCEPT ![h] = r.id]
      /\ new.reveals = (ses.reveals \ {r}) \cup {c}
      /\ new \in Sessions
  <2>1. r.id \in Nat
    BY <1>0 DEF Reveals
  <2>2. (ses.reveals \ {r}) \cup {c} \in SUBSET Reveals
    BY <1>0, <1>2 DEF Sessions
  <2>3. [ses.offered EXCEPT ![h] = r.id] \in [Hashes -> Nat]
    BY <1>0, <2>1 DEF Sessions
  <2> QED
    BY <1>0, <1>3, <2>2, <2>3 DEF Sessions
<1>5. r.id # 0
  BY <1>0 DEF Reveals
<1>6. Flying(new) = Flying(ses) \cup {h}
  BY <1>0, <1>1, <1>4, <1>5 DEF Flying, Sessions
<1>7. SkipSet(new) = SkipSet(ses) \cup {h}
  BY <1>4, <1>6 DEF SkipSet, Flying
<1>8. IsFiniteSet(Flying(new))
  <2>1. IsFiniteSet(Flying(ses))
    BY <1>0 DEF MidInv
  <2> QED
    <3>1. IsFiniteSet(Flying(ses) \cup {h})
      BY ONLY <2>1, FS_AddElement
    <3> QED
      BY ONLY <3>1, <1>6
<1>9. \A q \in new.reveals : q.id <= new.seq /\ DoneIsOver(q)
  BY <1>0, <1>2, <1>4 DEF MidInv, DoneIsOver, Same
<1>10. \A q1, q2 \in new.reveals : q1.id = q2.id \/ q1.hash = q2.hash => q1 = q2
  <2>1. \A q1, q2 \in ses.reveals : q1.id = q2.id \/ q1.hash = q2.hash => q1 = q2
    BY <1>0 DEF MidInv
  <2>2. c.id = r.id /\ c.hash = r.hash
    BY <1>2 DEF Same
  <2>3. \A q \in ses.reveals \ {r} : q.id # c.id /\ q.hash # c.hash
    BY <2>1, <2>2
  <2> QED
    BY <1>4, <2>1, <2>3
<1>11. LeftOf(r) \subseteq LeftOf(c) \cup {h}
  BY <1>1, <1>2 DEF LeftOf
<1>12. FromReveals(ses, new)
  <2> SUFFICES ASSUME NEW q \in new.reveals
               PROVE  \E p \in ses.reveals : /\ Same(p, q) /\ (p.done => q.done)
                                            /\ LeftOf(p) \subseteq LeftOf(q) \cup SkipSet(new)
    BY DEF FromReveals
  <2>1. CASE q = c
    BY <1>2, <1>7, <1>11, <2>1
  <2>2. CASE q \in ses.reveals
    BY <2>2 DEF Same
  <2> QED
    BY <1>4, <2>1, <2>2
<1>13. ToReveals(ses, new)
  BY <1>2, <1>4 DEF ToReveals, Same
<1>14. ASSUME NEW g \in Hashes, new.offered[g] # 0 PROVE \E q \in new.reveals : q.id = new.offered[g]
  <2>1. CASE g = h
    <3>1. new.offered[g] = c.id
      BY <1>0, <1>1, <1>2, <1>4, <2>1 DEF Sessions, Same
    <3> QED
      BY <1>4, <3>1
  <2>2. CASE g # h
    <3>1. new.offered[g] = ses.offered[g]
      BY <1>0, <1>4, <2>2 DEF Sessions
    <3> QED
      BY <1>0, <1>13, <1>14, <3>1 DEF MidInv, ToReveals, Same
  <2> QED
    BY <2>1, <2>2
<1>15. MidInv(new)
  BY <1>0, <1>4, <1>8, <1>9, <1>10, <1>14 DEF MidInv
<1> QED
  BY <1>1, <1>4, <1>7, <1>12, <1>13, <1>15

LEMMA FromTrans ==
    ASSUME NEW a, NEW b, NEW c, FromReveals(a, b), FromReveals(b, c), SkipSet(b) \subseteq SkipSet(c)
    PROVE  FromReveals(a, c)
<1> SUFFICES ASSUME NEW q \in c.reveals
             PROVE  \E r \in a.reveals : /\ Same(r, q) /\ (r.done => q.done)
                                         /\ LeftOf(r) \subseteq LeftOf(q) \cup SkipSet(c)
  BY DEF FromReveals
<1>1. PICK p \in b.reveals : /\ Same(p, q) /\ (p.done => q.done)
                             /\ LeftOf(p) \subseteq LeftOf(q) \cup SkipSet(c)
  BY DEF FromReveals
<1>2. PICK r \in a.reveals : /\ Same(r, p) /\ (r.done => p.done)
                             /\ LeftOf(r) \subseteq LeftOf(p) \cup SkipSet(b)
  BY DEF FromReveals
<1> QED
  BY <1>1, <1>2 DEF Same

LEMMA TrimParts ==
    ASSUME NEW ses, SessionInv(ses)
    PROVE  /\ SessionInv(Trim(ses)) /\ Trim(ses).reveals \subseteq ses.reveals
           /\ Trim(ses).sent = ses.sent /\ Trim(ses).offered = ses.offered
           /\ Trim(ses).seq = ses.seq /\ SkipSet(Trim(ses)) = SkipSet(ses)
<1> PICK new : new = Trim(ses)
  OBVIOUS
<1>0. ses \in Sessions /\ MidInv(ses)
  BY DEF SessionInv, MidInv
<1>1. PICK goes : /\ new = [ses EXCEPT !.reveals = {r \in ses.reveals : r \notin goes}]
                  /\ goes \subseteq Droppable(ses)
  <2> PICK gone : gone = {r \in Droppable(ses) :
          Cardinality({q \in Droppable(ses) : q.id < r.id}) + RevealLimit < Cardinality(ses.reveals)}
    OBVIOUS
  <2>1. new = [ses EXCEPT !.reveals = {r \in ses.reveals : r \notin gone}]
    BY <1>0 DEF Trim, Sessions
  <2>2. gone \subseteq Droppable(ses)
    OBVIOUS
  <2> QED
    BY <2>1, <2>2
<1>2. /\ new.sent = ses.sent /\ new.offered = ses.offered /\ new.seq = ses.seq
      /\ new.reveals = {r \in ses.reveals : r \notin goes} /\ new \in Sessions
  BY <1>0, <1>1 DEF Sessions
<1>3. SkipSet(new) = SkipSet(ses) /\ Flying(new) = Flying(ses)
  BY <1>2 DEF SkipSet, Flying
<1>4. ASSUME NEW h \in Hashes, new.offered[h] # 0 PROVE \E r \in new.reveals : r.id = new.offered[h]
  <2>1. PICK r \in ses.reveals : r.id = ses.offered[h]
    BY <1>0, <1>2, <1>4 DEF MidInv
  <2>2. r.id \in Busy(ses)
    BY <1>2, <1>4, <2>1 DEF Busy
  <2>3. r \notin Droppable(ses)
    BY <2>2 DEF Droppable
  <2> QED
    BY <1>1, <1>2, <2>1, <2>3
<1>5. MidInv(new)
  BY <1>0, <1>2, <1>3, <1>4 DEF MidInv
<1> QED
  BY <1>2, <1>3, <1>5 DEF SessionInv

LEMMA OpenRevealParts ==
    ASSUME NEW ses, SessionInv(ses), NEW x \in Roots
    PROVE  /\ SessionInv(OpenReveal(ses, x))
           /\ OpenReveal(ses, x).sent = ses.sent /\ OpenReveal(ses, x).offered = ses.offered
           /\ OpenReveal(ses, x).seq \in {ses.seq, ses.seq + 1}
           /\ LiveReveal(ses, x) = {} => OpenReveal(ses, x).seq = ses.seq + 1
           /\ SkipSet(OpenReveal(ses, x)) = SkipSet(ses)
           /\ \A q \in OpenReveal(ses, x).reveals :
                \/ q \in ses.reveals
                \/ /\ LiveReveal(ses, x) = {} /\ q.hash = x /\ q.id = ses.seq + 1
                   /\ Elements(Order[x]) \subseteq LeftOf(q) \cup SkipSet(ses)
<1>0. ses \in Sessions /\ MidInv(ses)
  BY DEF SessionInv, MidInv
<1>1. CASE LiveReveal(ses, x) # {}
  <2>1. OpenReveal(ses, x) = Trim(ses)
    BY <1>1 DEF OpenReveal
  <2> QED
    BY <1>1, <2>1, TrimParts
<1>2. CASE LiveReveal(ses, x) = {}
  <2> PICK fresh : fresh = [id |-> ses.seq + 1, hash |-> x, pages |-> <<>>, rest |-> Order[x], done |-> FALSE]
    OBVIOUS
  <2> PICK r : r = NewReveal(ses, x)
    OBVIOUS
  <2> PICK mid : mid = [ses EXCEPT !.seq = @ + 1, !.reveals = @ \cup {r}]
    OBVIOUS
  <2>1. OpenReveal(ses, x) = Trim(mid)
    BY <1>2 DEF OpenReveal
  <2>2. fresh \in Reveals /\ DoneIsOver(fresh)
    <3>1. Order[x] \in Seq(Hashes)
      BY RevealAssumption
    <3>2. ses.seq + 1 \in Nat \ {0}
      BY <1>0 DEF Sessions
    <3> QED
      BY <3>1, <3>2, EmptyParts DEF Reveals, DoneIsOver
  <2>3. r = Ensure(fresh, SkipSet(ses))
    BY DEF NewReveal
  <2>4. r \in Reveals /\ Same(fresh, r) /\ Queues(r) /\ LeftOf(fresh) \subseteq LeftOf(r) \cup SkipSet(ses)
    <3>1. /\ Ensure(fresh, SkipSet(ses)) \in Reveals /\ Same(fresh, Ensure(fresh, SkipSet(ses)))
          /\ Queues(Ensure(fresh, SkipSet(ses)))
          /\ LeftOf(fresh) \subseteq LeftOf(Ensure(fresh, SkipSet(ses))) \cup SkipSet(ses)
      BY ONLY <2>2, EnsureParts
    <3> QED
      BY <2>3, <3>1
  <2>5. r.id = ses.seq + 1 /\ r.hash = x /\ Elements(Order[x]) \subseteq LeftOf(r) \cup SkipSet(ses)
    BY <2>4 DEF Same, LeftOf
  <2>6. /\ mid.sent = ses.sent /\ mid.offered = ses.offered /\ mid.seq = ses.seq + 1
        /\ mid.reveals = ses.reveals \cup {r} /\ mid \in Sessions
    <3>1. ses.seq + 1 \in Nat /\ ses.reveals \cup {r} \in SUBSET Reveals
      BY <1>0, <2>4 DEF Sessions
    <3> QED
      BY <1>0, <3>1 DEF Sessions
  <2>7. SkipSet(mid) = SkipSet(ses) /\ Flying(mid) = Flying(ses)
    BY <2>6 DEF SkipSet, Flying
  <2>8. \A q \in ses.reveals : q.id \in Nat /\ q.id <= ses.seq /\ q.hash # x
    BY <1>0, <1>2 DEF MidInv, LiveReveal, Sessions, Reveals
  <2>9. ses.seq \in Nat
    BY <1>0 DEF Sessions
  <2>10. \A q \in mid.reveals : q.id <= mid.seq /\ Queues(q) /\ DoneIsOver(q)
    BY <2>4, <2>5, <2>6, <2>8, <2>9 DEF SessionInv, Queues
  <2>11. \A q1, q2 \in mid.reveals : q1.id = q2.id \/ q1.hash = q2.hash => q1 = q2
    <3>1. \A q \in ses.reveals : q.id # r.id /\ q.hash # r.hash
      BY <2>5, <2>8, <2>9
    <3> QED
      BY <1>0, <2>6, <3>1 DEF MidInv
  <2>12. SessionInv(mid)
    BY <1>0, <2>6, <2>7, <2>10, <2>11 DEF SessionInv, MidInv
  <2>13. Trim(mid).reveals \subseteq mid.reveals /\ SessionInv(Trim(mid)) /\ Trim(mid).sent = mid.sent
         /\ Trim(mid).offered = mid.offered /\ Trim(mid).seq = mid.seq /\ SkipSet(Trim(mid)) = SkipSet(mid)
    BY <2>12, TrimParts
  <2> QED
    BY <1>2, <2>1, <2>5, <2>6, <2>7, <2>13
<1> QED
  BY <1>1, <1>2

LEMMA RememberParts ==
    ASSUME NEW sent \in Seq(Hashes), NEW known \in Seq(Hashes)
    PROVE  /\ RememberSent(sent, known) \in Seq(Hashes)
           /\ Len(RememberSent(sent, known)) <= SentLimit
           /\ Elements(RememberSent(sent, known)) \subseteq Elements(sent) \cup Elements(known)
<1> PICK all : all = sent \o known
  OBVIOUS
<1>1. all \in Seq(Hashes) /\ Elements(all) = Elements(sent) \cup Elements(known)
  BY ConcatElements
<1>2. Len(all) \in Nat /\ DOMAIN all = 1 .. Len(all) /\ SentLimit \in Nat \ {0}
  BY <1>1, RevealAssumption
<1>3. CASE Len(all) <= SentLimit
  BY <1>1, <1>3 DEF RememberSent
<1>4. CASE ~(Len(all) <= SentLimit)
  <2> PICK m : m = Len(all) - SentLimit + 1
    OBVIOUS
  <2> PICK f : f = SubSeq(all, m, Len(all))
    OBVIOUS
  <2>1. RememberSent(sent, known) = f
    BY <1>4 DEF RememberSent
  <2>2. m \in 1 .. Len(all) /\ Len(all) - m + 1 = SentLimit
    BY <1>2, <1>4
  <2>3. /\ f \in Seq(Hashes) /\ Len(f) = SentLimit /\ DOMAIN f = 1 .. SentLimit
        /\ \A k \in 1 .. SentLimit : f[k] = all[m + k - 1]
    BY <1>1, <1>2, <2>2
  <2>4. \A k \in 1 .. SentLimit : m + k - 1 \in DOMAIN all
    BY <1>2, <2>2
  <2>5. Elements(f) \subseteq Elements(all)
    <3>1. Elements(f) = {f[i] : i \in 1 .. SentLimit}
      BY <2>3 DEF Elements
    <3>2. ASSUME NEW k \in 1 .. SentLimit PROVE f[k] \in Elements(all)
      <4>1. f[k] = all[m + k - 1] /\ m + k - 1 \in DOMAIN all
        BY <2>3, <2>4
      <4> QED
        BY <4>1 DEF Elements
    <3> QED
      BY <3>1, <3>2
  <2>6. Len(f) <= SentLimit
    BY <1>2, <2>3
  <2> QED
    BY <1>1, <2>1, <2>3, <2>5, <2>6
<1> QED
  BY <1>3, <1>4

LEMMA AckParts ==
    ASSUME NEW ses, SessionInv(ses), NEW hs \in Seq(Hashes)
    PROVE  /\ SessionInv(AckPages(ses, hs)) /\ AckPages(ses, hs).reveals \subseteq ses.reveals
           /\ AckPages(ses, hs).seq = ses.seq
           /\ AckPages(ses, hs).offered = [h \in Hashes |-> IF h \in Elements(hs) THEN 0 ELSE ses.offered[h]]
           /\ Elements(AckPages(ses, hs).sent) \subseteq Elements(ses.sent) \cup (Elements(hs) \cap Flying(ses))
<1> PICK known : known = Filter(hs, {h \in Hashes : ses.offered[h] # 0})
  OBVIOUS
<1> PICK new : new = AckPages(ses, hs)
  OBVIOUS
<1>0. ses \in Sessions /\ MidInv(ses)
  BY DEF SessionInv, MidInv
<1>1. known \in Seq(Hashes) /\ Elements(known) = Elements(hs) \cap Flying(ses)
  BY FilterElements DEF Flying
<1>2. ASSUME NEW h \in Hashes
      PROVE  (IF h \in Elements(known) THEN 0 ELSE ses.offered[h])
              = (IF h \in Elements(hs) THEN 0 ELSE ses.offered[h])
  BY <1>1 DEF Flying
<1>3. CASE known = <<>>
  <2>1. new = ses
    BY <1>3 DEF AckPages
  <2>2. Elements(known) = {}
    BY <1>3, EmptyParts
  <2>3. ses.offered = [h \in Hashes |-> IF h \in Elements(hs) THEN 0 ELSE ses.offered[h]]
    BY <1>0, <1>2, <2>2 DEF Sessions
  <2> QED
    BY <2>1, <2>3
<1>4. CASE known # <<>>
  <2> PICK mid : mid = [ses EXCEPT !.sent = RememberSent(@, known),
                                   !.offered = [h \in Hashes |-> IF h \in Elements(known) THEN 0 ELSE @[h]]]
    OBVIOUS
  <2>1. new = Trim(mid)
    BY <1>4 DEF AckPages
  <2>2. /\ RememberSent(ses.sent, known) \in Seq(Hashes)
        /\ Len(RememberSent(ses.sent, known)) <= SentLimit
        /\ Elements(RememberSent(ses.sent, known)) \subseteq Elements(ses.sent) \cup Elements(known)
    BY <1>0, <1>1, RememberParts DEF Sessions
  <2>3. [h \in Hashes |-> IF h \in Elements(known) THEN 0 ELSE ses.offered[h]] \in [Hashes -> Nat]
    BY <1>0 DEF Sessions
  <2>4. /\ mid.sent = RememberSent(ses.sent, known) /\ mid.seq = ses.seq /\ mid.reveals = ses.reveals
        /\ mid.offered = [h \in Hashes |-> IF h \in Elements(known) THEN 0 ELSE ses.offered[h]]
        /\ mid \in Sessions
    BY <1>0, <2>2, <2>3 DEF Sessions
  <2>5. Flying(mid) \in SUBSET Flying(ses)
    BY <2>4 DEF Flying
  <2>6. IsFiniteSet(Flying(mid))
    <3>1. IsFiniteSet(Flying(ses))
      BY <1>0 DEF MidInv
    <3> QED
      BY ONLY <2>5, <3>1, FS_Subset
  <2>7. \A h \in Hashes : mid.offered[h] # 0 => \E r \in mid.reveals : r.id = mid.offered[h]
    <3>1. \A h \in Hashes : mid.offered[h] # 0 => mid.offered[h] = ses.offered[h]
      BY <2>4
    <3> QED
      BY <1>0, <2>4, <3>1 DEF MidInv
  <2>8. MidInv(mid)
    BY <1>0, <2>2, <2>4, <2>6, <2>7 DEF MidInv
  <2>9. SessionInv(mid)
    BY <2>4, <2>8 DEF SessionInv
  <2>10. /\ SessionInv(Trim(mid)) /\ Trim(mid).reveals \subseteq mid.reveals
         /\ Trim(mid).sent = mid.sent /\ Trim(mid).offered = mid.offered /\ Trim(mid).seq = mid.seq
    BY <2>9, TrimParts
  <2>11. mid.offered = [h \in Hashes |-> IF h \in Elements(hs) THEN 0 ELSE ses.offered[h]]
    BY <1>2, <2>4
  <2> QED
    BY <1>1, <2>1, <2>2, <2>4, <2>10, <2>11
<1> QED
  BY <1>3, <1>4

\* Cancelling a reveal takes back what it has in flight, and nothing else.
LEMMA CancelParts ==
    ASSUME NEW ses, SessionInv(ses), NEW id \in Nat \ {0},
           NEW new, new = ForgetPages(CancelReveal(ses, id), SetToSeq(OfferedBy(ses, id)))
    PROVE  /\ SessionInv(new) /\ new.reveals \subseteq ses.reveals
           /\ new.seq = ses.seq
           /\ new.offered = [h \in Hashes |-> IF ses.offered[h] = id THEN 0 ELSE ses.offered[h]]
           /\ Elements(new.sent) \subseteq Elements(ses.sent)
<1> PICK hs : hs = SetToSeq(OfferedBy(ses, id))
  OBVIOUS
<1> PICK mid : mid = CancelReveal(ses, id)
  OBVIOUS
<1>0. ses \in Sessions /\ MidInv(ses)
  BY DEF SessionInv, MidInv
<1>1. hs \in Seq(Hashes) /\ Elements(hs) = OfferedBy(ses, id)
  <2>1. OfferedBy(ses, id) \in SUBSET Flying(ses)
    BY DEF OfferedBy, Flying
  <2>2. IsFiniteSet(Flying(ses))
    BY <1>0 DEF MidInv
  <2>3. IsFiniteSet(OfferedBy(ses, id))
    BY ONLY <2>1, <2>2, FS_Subset
  <2>4. hs \in Seq(OfferedBy(ses, id)) /\ Elements(hs) = OfferedBy(ses, id)
    BY <2>3, SetToSeqElements
  <2>5. OfferedBy(ses, id) \in SUBSET Hashes
    BY DEF OfferedBy
  <2> QED
    BY <2>4, <2>5
<1>2. /\ mid.reveals = {r \in ses.reveals : r.id # id} /\ mid.sent = ses.sent
      /\ mid.offered = ses.offered /\ mid.seq = ses.seq /\ mid \in Sessions
  BY <1>0 DEF CancelReveal, Sessions
<1> PICK kept : kept = Filter(mid.sent, Hashes \ Elements(hs))
  OBVIOUS
<1>3. kept \in Seq(Hashes) /\ Len(kept) <= SentLimit /\ Elements(kept) \subseteq Elements(ses.sent)
  <2>1. ses.sent \in Seq(Hashes) /\ mid.sent = ses.sent
    BY <1>0, <1>2 DEF Sessions
  <2>2. kept \in Seq(Hashes) /\ Len(kept) <= Len(ses.sent) /\ Elements(kept) \subseteq Elements(ses.sent)
    <3> PICK S : S = Hashes \ Elements(hs)
      OBVIOUS
    <3> PICK sent : sent = ses.sent
      OBVIOUS
    <3>0. sent \in Seq(Hashes)
      BY <2>1
    <3>1. /\ Filter(sent, S) \in Seq(Hashes) /\ Len(Filter(sent, S)) <= Len(sent)
          /\ Elements(Filter(sent, S)) = Elements(sent) \cap S
      BY ONLY <3>0, FilterElements
    <3>2. kept = Filter(sent, S)
      BY <2>1
    <3> QED
      BY <3>1, <3>2
  <2>3. Len(kept) \in Nat /\ Len(ses.sent) \in Nat /\ SentLimit \in Nat /\ Len(ses.sent) <= SentLimit
    BY <1>0, <2>1, <2>2, RevealAssumption DEF MidInv
  <2>4. ASSUME NEW a \in Nat, NEW b \in Nat, NEW c \in Nat, a <= b, b <= c PROVE a <= c
    BY <2>4
  <2>5. Len(kept) <= SentLimit
    BY <2>2, <2>3, <2>4
  <2> QED
    BY <2>2, <2>5
\* No other reveal offered any of them.
<1>4. ASSUME NEW r \in mid.reveals
      PROVE  Filter(hs, OfferedBy(mid, r.id) \ Elements(r.pages)) = <<>>
  <2>1. OfferedBy(mid, r.id) \cap OfferedBy(ses, id) = {}
    BY <1>2 DEF OfferedBy
  <2> PICK S : S = OfferedBy(mid, r.id) \ Elements(r.pages)
    OBVIOUS
  <2>2. Filter(hs, S) \in Seq(Hashes) /\ Elements(Filter(hs, S)) = Elements(hs) \cap S
    BY <1>1, FilterElements
  <2>3. Elements(Filter(hs, S)) = {}
    BY <1>1, <2>1, <2>2
  <2> QED
    BY <2>2, <2>3, EmptyParts
<1> DEFINE Queued(r) ==
             [r EXCEPT !.pages = Reverse(Filter(hs, OfferedBy(mid, r.id) \ Elements(r.pages))) \o @,
                       !.done = @ /\ Filter(hs, OfferedBy(mid, r.id) \ Elements(r.pages)) = <<>>]
<1>5. ASSUME NEW r \in mid.reveals PROVE Queued(r) = r
  <2>1. r \in Reveals
    BY <1>2, <1>0 DEF Sessions
  <2>2. Reverse(<<>>) = <<>>
    <3>1. Reverse(<<>>) \in Seq(Hashes) /\ Elements(Reverse(<<>>)) = {}
      BY EmptyParts, ReverseElements
    <3> QED
      BY <3>1, EmptyParts
  <2>3. <<>> \o r.pages = r.pages
    BY <2>1 DEF Reveals
  <2>4. [r EXCEPT !.pages = r.pages, !.done = r.done] = r
    BY <2>1 DEF Reveals
  <2> QED
    BY <1>4, <2>1, <2>2, <2>3, <2>4 DEF Reveals
<1>6. new = [mid EXCEPT !.offered = [h \in Hashes |-> IF h \in Elements(hs) THEN 0 ELSE mid.offered[h]],
                        !.sent = kept, !.reveals = mid.reveals]
  <2>1. new = [mid EXCEPT !.offered = [h \in Hashes |-> IF h \in Elements(hs) THEN 0 ELSE @[h]],
                          !.sent = Filter(@, Hashes \ Elements(hs)), !.reveals = {Queued(r) : r \in @}]
    BY DEF ForgetPages
  <2> HIDE DEF Queued
  <2>2. {Queued(r) : r \in mid.reveals} = mid.reveals
    BY <1>5
  <2> QED
    BY <1>2, <2>1, <2>2 DEF Sessions
<1>7. /\ new.reveals = {r \in ses.reveals : r.id # id} /\ new.seq = ses.seq /\ new.sent = kept
      /\ new.offered = [h \in Hashes |-> IF h \in Elements(hs) THEN 0 ELSE ses.offered[h]]
      /\ new \in Sessions
  <2>1. [h \in Hashes |-> IF h \in Elements(hs) THEN 0 ELSE ses.offered[h]] \in [Hashes -> Nat]
    BY <1>0 DEF Sessions
  <2>2. mid.reveals \in SUBSET Reveals /\ mid \in Sessions
    BY <1>2 DEF Sessions
  <2>3. new = [mid EXCEPT !.offered = [h \in Hashes |-> IF h \in Elements(hs) THEN 0 ELSE ses.offered[h]],
                          !.sent = kept, !.reveals = mid.reveals]
    BY <1>2, <1>6
  <2>4. /\ new.reveals = mid.reveals /\ new.seq = mid.seq /\ new.sent = kept
        /\ new.offered = [h \in Hashes |-> IF h \in Elements(hs) THEN 0 ELSE ses.offered[h]]
        /\ new \in Sessions
    BY <1>3, <2>1, <2>2, <2>3 DEF Sessions
  <2> QED
    BY <1>2, <2>4
<1>8. new.offered = [h \in Hashes |-> IF ses.offered[h] = id THEN 0 ELSE ses.offered[h]]
  BY <1>1, <1>7 DEF OfferedBy
<1>9. Flying(new) \in SUBSET Flying(ses)
  BY <1>8 DEF Flying
<1>10. IsFiniteSet(Flying(new))
  <2>1. IsFiniteSet(Flying(ses))
    BY <1>0 DEF MidInv
  <2> QED
    BY ONLY <1>9, <2>1, FS_Subset
<1>11. \A h \in Hashes : new.offered[h] # 0 => \E r \in new.reveals : r.id = new.offered[h]
  <2>1. \A h \in Hashes : new.offered[h] # 0 => new.offered[h] = ses.offered[h] /\ ses.offered[h] # id
    BY <1>8
  <2> QED
    BY <1>0, <1>7, <2>1 DEF MidInv
<1>12. MidInv(new)
  BY <1>0, <1>3, <1>7, <1>10, <1>11 DEF MidInv
<1>13. SessionInv(new)
  BY <1>7, <1>12 DEF SessionInv
<1>14. new.reveals \subseteq ses.reveals
  BY <1>7
<1> QED
  BY <1>3, <1>7, <1>8, <1>13, <1>14

LEMMA RevealIdParts ==
    ASSUME NEW ses, SessionInv(ses), NEW x \in Roots
    PROVE  /\ RevealId(ses, x) \in Nat \ {0} /\ RevealId(ses, x) <= ses.seq + 1
           /\ LiveReveal(ses, x) = {} => RevealId(ses, x) = ses.seq + 1
           /\ \A r \in ses.reveals : r.hash = x => r.id = RevealId(ses, x)
<1>0. ses \in Sessions /\ ses.seq \in Nat
  BY DEF SessionInv, MidInv, Sessions
<1>1. CASE LiveReveal(ses, x) = {}
  <2>1. RevealId(ses, x) = ses.seq + 1
    BY <1>1 DEF RevealId
  <2>2. \A r \in ses.reveals : r.hash # x
    BY <1>1 DEF LiveReveal
  <2> QED
    BY <1>0, <2>1, <2>2
<1>2. CASE LiveReveal(ses, x) # {}
  <2> PICK r : r = CHOOSE q \in LiveReveal(ses, x) : TRUE
    OBVIOUS
  <2>1. r \in ses.reveals /\ r.hash = x
    BY <1>2 DEF LiveReveal
  <2>2. RevealId(ses, x) = r.id
    BY <1>2 DEF RevealId
  <2>3. r.id \in Nat \ {0} /\ r.id <= ses.seq
    BY <1>0, <2>1 DEF SessionInv, MidInv, Sessions, Reveals
  <2>4. \A q \in ses.reveals : q.hash = x => q = r
    BY <2>1 DEF SessionInv, MidInv
  <2>5. r.id <= ses.seq + 1
    BY <1>0, <2>3
  <2>6. \A q \in ses.reveals : q.hash = x => q.id = r.id
    BY <2>4
  <2> QED
    BY <1>2, <2>2, <2>3, <2>5, <2>6
<1> QED
  BY <1>1, <1>2

-----------------------------------------------------------------------------
(* Type correctness *)

Streams == [reveal: Nat, writer: BOOLEAN, offered: Seq(Hashes), moved: BOOLEAN]
RequestStates == [phase: {"new", "await", "late", "ok", "threw"}, hash: SUBSET Roots,
                  done: {"none", "ok", "failed"}]
Locks == [at: {"free", "advance", "write", "close"}, due: Seq(Requests \X Hashes),
          closing: SUBSET Requests, opening: SUBSET Roots, cancel: Nat, back: {"free", "write"}]

\* The types, with what the session says of its reveals.
TypeInv ==
    /\ SessionInv(session)
    /\ streams \in [Requests -> Streams]
    /\ \A s \in Requests : streams[s].reveal <= session.seq + 1
    /\ \A s \in Requests : streams[s].reveal = 0 => streams[s] = Gone
    /\ request \in [Requests -> RequestStates]
    /\ lock \in Locks
    /\ written \in SUBSET Hashes
    /\ copies \in [Hashes -> Nat]
    /\ clean \in BOOLEAN

LEMMA TypeMeans == TypeInv => TypeOK
<1> SUFFICES ASSUME TypeInv PROVE TypeOK
  OBVIOUS
<1>1. SessionInv(session) /\ MidInv(session) /\ session \in Sessions
  BY DEF TypeInv, SessionInv, MidInv
<1>2. /\ session.sent \in Seq(Hashes) /\ Len(session.sent) <= SentLimit
      /\ session.offered \in [Hashes -> Nat] /\ session.seq \in Nat
  BY <1>1 DEF MidInv, Sessions
<1>3. ASSUME NEW r \in session.reveals
      PROVE  /\ r.id \in 1 .. session.seq /\ r.hash \in Roots
             /\ r.pages \in Seq(Hashes) /\ r.rest \in Seq(Hashes) /\ r.done \in BOOLEAN
             /\ \A q \in session.reveals : q.id = r.id \/ q.hash = r.hash => q = r
  <2>1. r \in Reveals /\ r.id <= session.seq
    BY <1>1 DEF MidInv, Sessions
  <2>2. \A q \in session.reveals : q.id = r.id \/ q.hash = r.hash => q = r
    BY <1>1 DEF MidInv
  <2> QED
    BY <1>2, <2>1, <2>2 DEF Reveals
<1>4. ASSUME NEW s \in Requests
      PROVE  /\ streams[s].reveal \in 0 .. session.seq + 1 /\ streams[s].writer \in BOOLEAN
             /\ streams[s].offered \in Seq(Hashes) /\ streams[s].moved \in BOOLEAN
             /\ request[s].phase \in {"new", "await", "late", "ok", "threw"}
             /\ request[s].hash \subseteq Roots
             /\ request[s].done \in {"none", "ok", "failed"}
  BY <1>2 DEF TypeInv, Streams, RequestStates
<1>5. /\ lock.at \in {"free", "advance", "write", "close"}
      /\ lock.closing \subseteq Requests /\ lock.opening \subseteq Roots
      /\ lock.cancel \in Nat /\ lock.back \in {"free", "write"}
      /\ \A i \in DOMAIN lock.due : lock.due[i] \in Requests \X Hashes
  BY DEF TypeInv, Locks
<1>6. written \subseteq Hashes /\ copies \in [Hashes -> Nat] /\ clean \in BOOLEAN
  BY DEF TypeInv
<1> QED
  BY <1>2, <1>3, <1>4, <1>5, <1>6 DEF TypeOK

LEMMA InitType == Init => TypeInv
<1> SUFFICES ASSUME Init PROVE TypeInv
  OBVIOUS
<1>1. /\ session.sent = <<>> /\ session.offered = [h \in Hashes |-> 0] /\ session.seq = 0
      /\ session.reveals = {}
  BY DEF Init, Empty
<1>2. session \in Sessions
  BY <1>1, EmptyParts DEF Init, Empty, Sessions
<1>3. Flying(session) = {}
  BY <1>1 DEF Flying
<1>4. IsFiniteSet(Flying(session))
  BY <1>3, FS_EmptySet
<1>5. Len(session.sent) <= SentLimit
  BY <1>1, RevealAssumption, EmptyParts
<1>6. SessionInv(session)
  BY <1>1, <1>2, <1>4, <1>5 DEF SessionInv, MidInv
<1>7. Gone \in Streams /\ Gone.reveal = 0
  BY EmptyParts DEF Gone, Streams
<1>8. Free \in Locks
  BY EmptyParts DEF Free, Locks
<1>9. Fresh \in RequestStates
  BY DEF Fresh, RequestStates
<1>10. \A s \in Requests : streams[s] = Gone /\ streams[s].reveal <= session.seq + 1
  BY <1>1, <1>7 DEF Init
<1> QED
  BY <1>6, <1>7, <1>8, <1>9, <1>10 DEF Init, TypeInv

\* What the start of a stream, a page and a failure do to the table of streams.
LEMMA BeginParts ==
    ASSUME TypeInv, NEW s \in Requests, NEW x \in Roots, Begin(s, x),
           NEW id, id = RevealId(session, x)
    PROVE  /\ id \in Nat \ {0} /\ id <= session.seq + 1
           /\ streams' \in [Requests -> Streams]
           /\ streams'[s].reveal = id /\ streams'[s].offered = <<>>
           /\ streams'[s].writer = (WriterFor(id) = {})
           /\ \A q \in Requests \ {s} : streams'[q] = streams[q]
           /\ session' = Prepare(session)
           /\ lock' = [Free EXCEPT !.at = "advance", !.opening = {x}] /\ lock' \in Locks
<1>1. id \in Nat \ {0} /\ id <= session.seq + 1
  BY RevealIdParts DEF TypeInv
<1> PICK alone \in BOOLEAN : alone = (WriterFor(id) = {})
  OBVIOUS
<1> PICK e : e = [Gone EXCEPT !.reveal = id, !.writer = alone]
  OBVIOUS
<1>2. e \in Streams /\ e.reveal = id /\ e.offered = <<>> /\ e.writer = alone
  BY <1>1, EmptyParts DEF Gone, Streams
<1>3. streams' = [streams EXCEPT ![s] = e]
  BY DEF Begin
<1>4. /\ streams' \in [Requests -> Streams] /\ streams'[s] = e
      /\ \A q \in Requests \ {s} : streams'[q] = streams[q]
  BY <1>2, <1>3 DEF TypeInv
<1>5. lock' = [Free EXCEPT !.at = "advance", !.opening = {x}] /\ session' = Prepare(session)
  BY DEF Begin
<1>6. [Free EXCEPT !.at = "advance", !.opening = {x}] \in Locks
  BY EmptyParts DEF Free, Locks
<1> QED
  BY <1>1, <1>2, <1>4, <1>5, <1>6

LEMMA NotedParts ==
    ASSUME TypeInv, NEW w \in Requests, NEW id, NEW h \in Hashes
    PROVE  /\ Noted(w, id, h) \in [Requests -> Streams]
           /\ \A s \in Requests : /\ Noted(w, id, h)[s].reveal = streams[s].reveal
                                  /\ Noted(w, id, h)[s].writer = streams[s].writer
                                  /\ Noted(w, id, h)[s].offered =
                                       IF s = w THEN Append(streams[s].offered, h) ELSE streams[s].offered
                                  /\ (s \in On(id) \/ streams[s].moved) = Noted(w, id, h)[s].moved
<1>1. ASSUME NEW s \in Requests
      PROVE  /\ streams[s] \in Streams /\ Append(streams[s].offered, h) \in Seq(Hashes)
  BY DEF TypeInv, Streams
<1>2. ASSUME NEW s \in Requests
      PROVE  Noted(w, id, h)[s] = [streams[s] EXCEPT
               !.offered = IF s = w THEN Append(@, h) ELSE @, !.moved = @ \/ s \in On(id)]
  BY DEF Noted
<1>3. ASSUME NEW s \in Requests
      PROVE  /\ Noted(w, id, h)[s] \in Streams
             /\ Noted(w, id, h)[s].reveal = streams[s].reveal
             /\ Noted(w, id, h)[s].writer = streams[s].writer
             /\ Noted(w, id, h)[s].offered =
                  IF s = w THEN Append(streams[s].offered, h) ELSE streams[s].offered
             /\ (s \in On(id) \/ streams[s].moved) = Noted(w, id, h)[s].moved
  BY <1>1, <1>2 DEF Streams
<1>4. Noted(w, id, h) = [s \in Requests |-> Noted(w, id, h)[s]]
  BY DEF Noted
<1>5. Noted(w, id, h) \in [Requests -> Streams]
  BY <1>3, <1>4
<1> QED
  BY <1>3, <1>5

\* The stream s is gone; if others wait on its reveal, one of them writes if it did.
LeavesTo(s, p) ==
    /\ streams' \in [Requests -> Streams]
    /\ streams'[s] = Gone
    /\ \A q \in Requests \ {s} :
         /\ streams'[q].reveal = streams[q].reveal
         /\ streams'[q].offered = streams[q].offered
         /\ q # p => streams'[q] = streams[q]
    /\ p # s => streams'[p].writer = (streams[p].writer \/ streams[s].writer)

LEMMA FailParts ==
    ASSUME TypeInv, NEW s \in Attached, NEW next, Fail(s, next)
    PROVE  /\ \E p \in On(streams[s].reveal) :
                LeavesTo(s, p) /\ (On(streams[s].reveal) \ {s} # {} => p # s)
           /\ \/ /\ On(streams[s].reveal) \ {s} = {}
                 /\ session' = Prepare(session)
                 /\ lock' = [next EXCEPT !.at = "advance", !.cancel = streams[s].reveal, !.back = next.at]
              \/ lock' = next /\ session' = session
           /\ clean' = FALSE
<1> PICK id : id = streams[s].reveal
  OBVIOUS
<1> PICK others : others = On(id) \ {s}
  OBVIOUS
<1>0. s \in Requests /\ s \in On(id) /\ On(id) \subseteq Requests /\ Gone \in Streams
  BY EmptyParts DEF Attached, On, Gone, Streams
<1>1. CASE others = {}
  <2>1. streams' = [streams EXCEPT ![s] = Gone]
    BY <1>1 DEF Fail
  <2>2. LeavesTo(s, s)
    BY <1>0, <2>1 DEF LeavesTo, TypeInv
  <2> QED
    BY <1>0, <1>1, <2>2 DEF Fail
<1>2. CASE others # {}
  <2>1. streams' \in Promoted(s, others)
    BY <1>2 DEF Fail
  <2>2. PICK p \in others : streams' = [streams EXCEPT ![s] = Gone, ![p].writer = @ \/ streams[s].writer]
    BY <2>1 DEF Promoted
  <2>3. p # s /\ p \in On(id)
    OBVIOUS
  <2>4. streams[p] \in Streams /\ streams[s].writer \in BOOLEAN
    BY <1>0, <2>3 DEF TypeInv, Streams
  <2> PICK e : e = [streams[p] EXCEPT !.writer = streams[p].writer \/ streams[s].writer]
    OBVIOUS
  <2>5. /\ e \in Streams /\ e.reveal = streams[p].reveal /\ e.offered = streams[p].offered
        /\ e.writer = (streams[p].writer \/ streams[s].writer)
    BY <2>4 DEF Streams
  <2>6. /\ streams' = [streams EXCEPT ![s] = Gone, ![p] = e]
    BY <1>0, <2>2, <2>3 DEF TypeInv
  <2>7. /\ streams' \in [Requests -> Streams] /\ streams'[s] = Gone /\ streams'[p] = e
        /\ \A q \in Requests \ {s, p} : streams'[q] = streams[q]
    BY <1>0, <2>3, <2>5, <2>6 DEF TypeInv
  <2>8. LeavesTo(s, p)
    BY <1>0, <2>3, <2>5, <2>7 DEF LeavesTo
  <2>9. lock' = next /\ session' = session /\ clean' = FALSE
    BY <1>2 DEF Fail
  <2> QED
    BY <2>3, <2>8, <2>9
<1> QED
  BY <1>1, <1>2

LEMMA PreparedType ==
    ASSUME TypeInv, session' = Prepare(session)
    PROVE  SessionInv(session') /\ session'.seq = session.seq /\ HeadsAreDue(session')
BY PrepareParts DEF TypeInv, SessionInv

LEMMA EmitType ==
    ASSUME TypeInv, NEW id, NEW r \in Revealed(id), r.pages # <<>>,
           session' = Prepare(EmitPage(session, r))
    PROVE  SessionInv(session') /\ session'.seq = session.seq /\ HeadsAreDue(session')
<1>1. r \in session.reveals /\ SessionInv(session)
  BY DEF Revealed, TypeInv
<1>2. MidInv(EmitPage(session, r)) /\ EmitPage(session, r).seq = session.seq
  BY <1>1, EmitParts
<1> QED
  BY <1>2, PrepareParts

LEMMA SettledType ==
    ASSUME TypeInv, session' = Settled
    PROVE  SessionInv(session') /\ session'.seq \in {session.seq, session.seq + 1}
<1>0. SessionInv(session) /\ lock.opening \in SUBSET Roots /\ lock.cancel \in Nat
  BY DEF TypeInv, Locks
<1>1. CASE lock.cancel # 0
  <2>1. session' = ForgetPages(CancelReveal(session, lock.cancel), SetToSeq(OfferedBy(session, lock.cancel)))
    BY <1>1 DEF Settled
  <2>2. lock.cancel \in Nat \ {0}
    BY <1>0, <1>1
  <2> PICK id \in Nat \ {0} : id = lock.cancel
    BY <2>2
  <2> PICK new : new = ForgetPages(CancelReveal(session, id), SetToSeq(OfferedBy(session, id)))
    OBVIOUS
  <2>3. SessionInv(new) /\ new.seq = session.seq
    BY <1>0, CancelParts
  <2> QED
    BY <2>1, <2>3
<1>2. CASE lock.cancel = 0 /\ lock.opening # {}
  <2> PICK x \in lock.opening : x = CHOOSE y \in lock.opening : TRUE
    BY <1>2
  <2>1. session' = OpenReveal(session, x)
    BY <1>2 DEF Settled
  <2> QED
    BY <1>0, <2>1, OpenRevealParts
<1>3. CASE lock.cancel = 0 /\ lock.opening = {}
  BY <1>0, <1>3 DEF Settled
<1> QED
  BY <1>1, <1>2, <1>3

LEMMA LockTypes ==
    ASSUME TypeInv
    PROVE  /\ Free \in Locks /\ Free.due = <<>> /\ Free.closing = {} /\ Free.opening = {}
           /\ Free.cancel = 0 /\ Free.at = "free" /\ Free.back = "free"
           /\ lock.due # <<>> => Planned \in Locks /\ Planned.due = Tail(lock.due)
           /\ Planned.at = lock.at /\ Planned.cancel = lock.cancel /\ Planned.back = lock.back
           /\ Planned.closing = lock.closing /\ Planned.opening = lock.opening
           /\ \A S \in SUBSET Requests :
                /\ Closing(S) \in Locks /\ Closing(S).closing = S /\ Closing(S).due = <<>>
                /\ Closing(S).cancel = 0 /\ Closing(S).opening = {} /\ Closing(S).back = "free"
                /\ Closing(S).at = IF S = {} THEN "free" ELSE "close"
<1>1. Free \in Locks
  BY EmptyParts DEF Free, Locks
<1>2. lock.due # <<>> => Tail(lock.due) \in Seq(Requests \X Hashes)
  BY TailParts DEF TypeInv, Locks
<1>3. lock \in Locks
  BY DEF TypeInv
<1>4. lock.due # <<>> => Planned \in Locks
  BY <1>2, <1>3 DEF Planned, Locks
<1>5. /\ Planned.due = Tail(lock.due)
      /\ Planned.at = lock.at /\ Planned.cancel = lock.cancel /\ Planned.back = lock.back
      /\ Planned.closing = lock.closing /\ Planned.opening = lock.opening
  BY <1>3 DEF Planned, Locks
<1>6. ASSUME NEW S \in SUBSET Requests
      PROVE  /\ Closing(S) \in Locks /\ Closing(S).closing = S /\ Closing(S).due = <<>>
             /\ Closing(S).cancel = 0 /\ Closing(S).opening = {} /\ Closing(S).back = "free"
             /\ Closing(S).at = IF S = {} THEN "free" ELSE "close"
  BY <1>1 DEF Closing, Free, Locks
<1> QED
  BY <1>1, <1>4, <1>5, <1>6 DEF Free

LEMMA FailType ==
    ASSUME TypeInv, NEW s \in Attached, NEW next \in Locks, next.at \in {"free", "write"}, Fail(s, next)
    PROVE  /\ SessionInv(session') /\ session'.seq = session.seq
           /\ streams' \in [Requests -> Streams] /\ lock' \in Locks /\ clean' \in BOOLEAN
           /\ \A q \in Requests : streams'[q].reveal <= session'.seq + 1
           /\ \A q \in Requests : streams'[q].reveal = 0 => streams'[q] = Gone
<1>1. PICK p \in On(streams[s].reveal) : LeavesTo(s, p)
  BY FailParts
<1>2. /\ \/ session' = Prepare(session)
         \/ session' = session
      /\ \/ lock' = [next EXCEPT !.at = "advance", !.cancel = streams[s].reveal, !.back = next.at]
         \/ lock' = next
      /\ clean' = FALSE
  BY FailParts
<1>3. SessionInv(session') /\ session'.seq = session.seq
  BY <1>2, PreparedType DEF TypeInv
<1>4. lock' \in Locks
  <2>1. streams[s].reveal \in Nat
    BY DEF TypeInv, Streams, Attached
  <2> QED
    BY <1>2, <2>1 DEF Locks
<1>5. ASSUME NEW q \in Requests
      PROVE  /\ streams'[q].reveal <= session'.seq + 1
             /\ streams'[q].reveal = 0 => streams'[q] = Gone
  <2>1. CASE q = s
    <3>1. session.seq \in Nat /\ Gone.reveal = 0
      BY DEF TypeInv, SessionInv, MidInv, Sessions, Gone
    <3>2. 0 <= session.seq + 1
      BY <3>1
    <3> QED
      BY <1>1, <1>3, <2>1, <3>1, <3>2 DEF LeavesTo
  <2>2. CASE q # s
    <3>1. streams'[q].reveal = streams[q].reveal /\ (q # p => streams'[q] = streams[q])
      BY <1>1, <2>2 DEF LeavesTo
    <3>2. streams[p].reveal # 0
      BY <1>1 DEF On, Attached
    <3> QED
      BY <1>3, <3>1, <3>2 DEF TypeInv
  <2> QED
    BY <2>1, <2>2
<1> QED
  BY <1>1, <1>2, <1>3, <1>4, <1>5 DEF LeavesTo

LEMMA NextType == TypeInv /\ [Next]_vars => TypeInv'
<1> SUFFICES ASSUME TypeInv, [Next]_vars PROVE TypeInv'
  OBVIOUS
<1>0. /\ SessionInv(session) /\ session.seq \in Nat
      /\ streams \in [Requests -> Streams] /\ request \in [Requests -> RequestStates]
      /\ lock \in Locks /\ written \in SUBSET Hashes /\ copies \in [Hashes -> Nat] /\ clean \in BOOLEAN
      /\ \A s \in Requests : streams[s].reveal <= session.seq + 1
      /\ \A s \in Requests : streams[s].reveal = 0 => streams[s] = Gone
  BY DEF TypeInv, SessionInv, MidInv, Sessions
<1>g. Gone \in Streams /\ Gone.reveal = 0 /\ 0 <= session.seq + 1
  BY <1>0, EmptyParts DEF Gone, Streams
<1>r. \A ses : Recount(ses) \in [Hashes -> Nat]
  BY <1>0 DEF Recount
<1>1. ASSUME NEW s \in Requests, NEW x \in Roots, Begin(s, x) PROVE TypeInv'
  <2> PICK id : id = RevealId(session, x)
    OBVIOUS
  <2>1. /\ id \in Nat \ {0} /\ id <= session.seq + 1
        /\ streams' \in [Requests -> Streams] /\ streams'[s].reveal = id
        /\ \A q \in Requests \ {s} : streams'[q] = streams[q]
        /\ session' = Prepare(session) /\ lock' \in Locks
    BY <1>1, BeginParts
  <2>2. SessionInv(session') /\ session'.seq = session.seq
    BY <2>1, PreparedType
  <2>3. request' \in [Requests -> RequestStates]
    <3>1. request' = [request EXCEPT ![s].phase = "await", ![s].hash = {x}]
      BY <1>1 DEF Begin
    <3>2. request[s] \in RequestStates
      BY <1>0
    <3> PICK e : e = [request[s] EXCEPT !.phase = "await", !.hash = {x}]
      OBVIOUS
    <3>3. e \in RequestStates
      BY <3>2 DEF RequestStates
    <3>4. request' = [request EXCEPT ![s] = e]
      BY <1>0, <3>1, <3>2 DEF RequestStates
    <3> QED
      BY <1>0, <3>3, <3>4
  <2>4. \A q \in Requests : /\ streams'[q].reveal <= session'.seq + 1
                            /\ streams'[q].reveal = 0 => streams'[q] = Gone
    BY <1>0, <2>1, <2>2
  <2>5. written' = written /\ copies' = copies /\ clean' = clean
    BY <1>1 DEF Begin
  <2> QED
    BY <1>0, <2>1, <2>2, <2>3, <2>4, <2>5 DEF TypeInv
<1>2. CASE Pump
  <2>1. session' = Prepare(session) /\ lock' = [Free EXCEPT !.at = "advance"]
        /\ UNCHANGED <<streams, request, written, copies, clean>>
    BY <1>2 DEF Pump
  <2>2. SessionInv(session') /\ session'.seq = session.seq
    BY <2>1, PreparedType
  <2>3. lock' \in Locks
    BY <2>1, EmptyParts DEF Free, Locks
  <2> QED
    BY <1>0, <2>1, <2>2, <2>3 DEF TypeInv
<1>3. ASSUME NEW id \in Requests, Emit(id) PROVE TypeInv'
  <2>1. PICK r \in Revealed(id) :
          /\ r.pages # <<>> /\ session' = Prepare(EmitPage(session, r))
          /\ \/ UNCHANGED <<streams, lock>>
             \/ \E w \in WriterFor(id) :
                  /\ streams' = Noted(w, id, Head(r.pages))
                  /\ lock' = [lock EXCEPT !.due = Append(@, <<w, Head(r.pages)>>)]
    BY <1>3 DEF Emit
  <2>2. SessionInv(session') /\ session'.seq = session.seq
    BY <2>1, EmitType
  <2>3. Head(r.pages) \in Hashes
    BY <1>0, <2>1, EmitParts DEF Revealed
  <2>4. UNCHANGED <<request, written, copies, clean>>
    BY <1>3 DEF Emit
  <2>5. CASE UNCHANGED <<streams, lock>>
    BY <1>0, <2>2, <2>4, <2>5 DEF TypeInv
  <2>6. CASE \E w \in WriterFor(id) :
                  /\ streams' = Noted(w, id, Head(r.pages))
                  /\ lock' = [lock EXCEPT !.due = Append(@, <<w, Head(r.pages)>>)]
    <3> PICK w \in WriterFor(id) :
                  /\ streams' = Noted(w, id, Head(r.pages))
                  /\ lock' = [lock EXCEPT !.due = Append(@, <<w, Head(r.pages)>>)]
      BY <2>6
    <3>1. w \in Requests /\ <<w, Head(r.pages)>> \in Requests \X Hashes
      BY <2>3 DEF WriterFor, On, Attached
    <3>2. lock' \in Locks
      <4>1. lock.due \in Seq(Requests \X Hashes)
        BY <1>0 DEF Locks
      <4>2. Append(lock.due, <<w, Head(r.pages)>>) \in Seq(Requests \X Hashes)
        BY <3>1, <4>1, AppendParts
      <4> QED
        BY <1>0, <4>2 DEF Locks
    <3>3. /\ streams' \in [Requests -> Streams]
          /\ \A s \in Requests : streams'[s].reveal = streams[s].reveal
      BY <2>3, <3>1, NotedParts
    <3>4. ASSUME NEW s \in Requests
          PROVE  /\ streams'[s].reveal <= session'.seq + 1
                 /\ streams'[s].reveal = 0 => streams'[s] = Gone
      <4>1. CASE streams'[s].reveal = 0
        <5>1. streams[s] = Gone /\ s # w /\ s \notin On(id) /\ ~streams[s].moved
          BY <1>0, <3>3, <4>1 DEF WriterFor, On, Attached, Gone
        <5>2. streams'[s] = [streams[s] EXCEPT !.offered = streams[s].offered,
                                               !.moved = streams[s].moved \/ s \in On(id)]
          BY <5>1 DEF Noted
        <5>3. (streams[s].moved \/ s \in On(id)) = FALSE
          BY <5>1
        <5>4. streams'[s] = [Gone EXCEPT !.offered = Gone.offered, !.moved = FALSE]
          BY <5>1, <5>2, <5>3
        <5>5. streams'[s] = Gone
          BY <5>4 DEF Gone
        <5> QED
          BY <1>g, <2>2, <5>5
      <4>2. CASE streams'[s].reveal # 0
        BY <1>0, <2>2, <3>3, <4>2
      <4> QED
        BY <4>1, <4>2
    <3> QED
      BY <1>0, <2>2, <2>4, <3>2, <3>3, <3>4 DEF TypeInv
  <2> QED
    BY <2>1, <2>5, <2>6
<1>4. CASE Advanced
  <2>1. session' = Settled /\ copies' = Recount(session') /\ UNCHANGED <<streams, request, written, clean>>
        /\ lock' = IF lock.cancel # 0 THEN [lock EXCEPT !.at = lock.back, !.cancel = 0]
                   ELSE [lock EXCEPT !.at = "write", !.opening = {}]
    BY <1>4 DEF Advanced
  <2>2. SessionInv(session') /\ session'.seq \in {session.seq, session.seq + 1}
    BY <2>1, SettledType
  <2>3. lock' \in Locks
    BY <1>0, <2>1 DEF Locks
  <2>4. \A q \in Requests : streams[q].reveal <= session'.seq + 1
    <3>1. \A q \in Requests : streams[q].reveal \in Nat
      BY <1>0 DEF Streams
    <3> QED
      BY <1>0, <2>2, <3>1
  <2> QED
    BY <1>0, <1>r, <2>1, <2>2, <2>3, <2>4 DEF TypeInv
<1>5. CASE Write
  <2> PICK s : s = Head(lock.due)[1]
    OBVIOUS
  <2> PICK h : h = Head(lock.due)[2]
    OBVIOUS
  <2>1. /\ lock.due # <<>> /\ lock' = Planned /\ UNCHANGED <<session, streams, request, clean>>
        /\ \/ written' = written \cup {h} /\ copies' = [copies EXCEPT ![h] = @ + 1]
           \/ UNCHANGED <<written, copies>>
    BY <1>5 DEF Write
  <2>2. h \in Hashes
    <3>1. Head(lock.due) \in Requests \X Hashes
      BY <1>0, <2>1, TailParts DEF Locks
    <3> QED
      BY <3>1
  <2>3. lock' \in Locks
    BY <2>1, LockTypes
  <2>4. written' \in SUBSET Hashes /\ copies' \in [Hashes -> Nat]
    BY <1>0, <2>1, <2>2
  <2> QED
    BY <1>0, <2>1, <2>3, <2>4 DEF TypeInv
<1>6. CASE WriteThrows
  <2> PICK s : s = Head(lock.due)[1]
    OBVIOUS
  <2>1. /\ lock.at = "write" /\ lock.due # <<>> /\ s \in Attached /\ Fail(s, Planned)
        /\ request' = [request EXCEPT ![s].done = "failed"] /\ UNCHANGED <<written, copies>>
    BY <1>6 DEF WriteThrows, Broken
  <2>2. Planned \in Locks /\ Planned.at = "write"
    BY <2>1, LockTypes
  <2>3. /\ SessionInv(session') /\ session'.seq = session.seq
        /\ streams' \in [Requests -> Streams] /\ lock' \in Locks /\ clean' \in BOOLEAN
        /\ \A q \in Requests : streams'[q].reveal <= session'.seq + 1
        /\ \A q \in Requests : streams'[q].reveal = 0 => streams'[q] = Gone
    BY <2>1, <2>2, FailType
  <2>4. request' \in [Requests -> RequestStates]
    BY <1>0, <2>1 DEF RequestStates
  <2> QED
    BY <1>0, <2>1, <2>3, <2>4 DEF TypeInv
<1>7. ASSUME NEW paused \in SUBSET Unfinished, Finish(paused) PROVE TypeInv'
  <2>1. lock' = Closing(Ending(paused)) /\ UNCHANGED <<session, streams, request, written, copies>>
        /\ clean' \in BOOLEAN
    BY <1>7 DEF Finish
  <2>2. Ending(paused) \in SUBSET Requests
    BY DEF Ending, Attached
  <2>3. lock' \in Locks
    BY <2>1, <2>2, LockTypes
  <2> QED
    BY <1>0, <2>1, <2>3 DEF TypeInv
<1>8. ASSUME NEW s \in Requests, Close(s) PROVE TypeInv'
  <2>1. /\ session' = AckPages(session, streams[s].offered) /\ copies' = Recount(session')
        /\ streams' = [streams EXCEPT ![s] = Gone] /\ request' = [request EXCEPT ![s].done = "ok"]
        /\ lock' = Closing(lock.closing \ {s}) /\ UNCHANGED <<written, clean>>
    BY <1>8 DEF Close
  <2>2. streams[s].offered \in Seq(Hashes)
    BY <1>0 DEF Streams
  <2>3. SessionInv(session') /\ session'.seq = session.seq
    BY <1>0, <2>1, <2>2, AckParts
  <2>4. lock.closing \ {s} \in SUBSET Requests
    BY <1>0 DEF Locks
  <2>5. lock' \in Locks
    BY <2>1, <2>4, LockTypes
  <2>6. request' \in [Requests -> RequestStates]
    BY <1>0, <2>1 DEF RequestStates
  <2>7. streams' \in [Requests -> Streams]
    BY <1>0, <1>g, <2>1
  <2>8. \A q \in Requests : /\ streams'[q].reveal <= session'.seq + 1
                            /\ streams'[q].reveal = 0 => streams'[q] = Gone
    BY <1>0, <1>g, <2>1, <2>3
  <2> QED
    BY <1>0, <1>r, <2>1, <2>3, <2>5, <2>6, <2>7, <2>8 DEF TypeInv
<1>9. ASSUME NEW s \in Requests, Return(s) \/ Idle(s) PROVE TypeInv'
  <2>1. UNCHANGED <<session, streams, lock, written, copies, clean>>
    BY <1>9 DEF Return, Idle
  <2>2. request' \in [Requests -> RequestStates]
    <3>1. PICK p \in {"ok", "threw", "late"} : request' = [request EXCEPT ![s].phase = p]
      BY <1>9 DEF Return, Idle
    <3> QED
      BY <1>0, <3>1 DEF RequestStates
  <2> QED
    BY <1>0, <2>1, <2>2 DEF TypeInv
<1>10. ASSUME NEW s \in Requests, LookAgain(s) PROVE TypeInv'
  <2>1. UNCHANGED <<session, lock, written, copies, clean>> /\ streams' = [streams EXCEPT ![s].moved = FALSE]
    BY <1>10 DEF LookAgain
  <2>2. request' \in [Requests -> RequestStates]
    <3>1. PICK p \in {"ok", "await"} : request' = [request EXCEPT ![s].phase = p]
      BY <1>10 DEF LookAgain
    <3> QED
      BY <1>0, <3>1 DEF RequestStates
  <2>3. /\ streams' \in [Requests -> Streams]
        /\ \A q \in Requests : streams'[q].reveal = streams[q].reveal
        /\ \A q \in Requests : q # s => streams'[q] = streams[q]
    BY <1>0, <2>1 DEF Streams
  <2>4. ASSUME streams[s] = Gone PROVE streams'[s] = Gone
    <3>1. streams'[s] = [streams[s] EXCEPT !.moved = FALSE]
      BY <1>0, <2>1
    <3>2. streams'[s] = [Gone EXCEPT !.moved = FALSE]
      BY <2>4, <3>1
    <3>3. streams'[s] = Gone
      BY <3>2 DEF Gone
    <3> QED
      BY <3>3
  <2>5. \A q \in Requests : /\ streams'[q].reveal <= session.seq + 1
                            /\ streams'[q].reveal = 0 => streams'[q] = Gone
    BY <1>0, <2>3, <2>4
  <2> QED
    BY <1>0, <2>1, <2>2, <2>3, <2>5 DEF TypeInv
<1>11. ASSUME NEW s \in Requests, GiveUp(s) PROVE TypeInv'
  <2>1. /\ s \in Attached /\ Fail(s, Free) /\ UNCHANGED <<written, copies>>
        /\ request' = [request EXCEPT ![s].phase = "threw", ![s].done = "failed"]
    BY <1>11 DEF GiveUp
  <2>2. Free \in Locks /\ Free.at = "free"
    BY LockTypes
  <2>3. /\ SessionInv(session') /\ session'.seq = session.seq
        /\ streams' \in [Requests -> Streams] /\ lock' \in Locks /\ clean' \in BOOLEAN
        /\ \A q \in Requests : streams'[q].reveal <= session'.seq + 1
        /\ \A q \in Requests : streams'[q].reveal = 0 => streams'[q] = Gone
    BY <2>1, <2>2, FailType
  <2>4. request' \in [Requests -> RequestStates]
    <3>2. request[s] \in RequestStates
      BY <1>0
    <3> PICK e : e = [request[s] EXCEPT !.phase = "threw", !.done = "failed"]
      OBVIOUS
    <3>3. e \in RequestStates
      BY <3>2 DEF RequestStates
    <3>4. request' = [request EXCEPT ![s] = e]
      BY <1>0, <2>1, <3>2 DEF RequestStates
    <3> QED
      BY <1>0, <3>3, <3>4
  <2> QED
    BY <1>0, <2>1, <2>3, <2>4 DEF TypeInv
<1>12. CASE UNCHANGED vars
  BY <1>12 DEF vars, TypeInv, Attached
<1> QED
  BY <1>1, <1>2, <1>3, <1>4, <1>5, <1>6, <1>7, <1>8, <1>9, <1>10, <1>11, <1>12
     DEF Next, Hold, PageDue, Resume

\* The model is well typed, in every reachable state.
THEOREM TypeCorrect == Spec => []TypeOK
<1>1. TypeInv /\ [Next]_vars => TypeInv'
  BY NextType
<1> QED
  BY <1>1, InitType, TypeMeans, PTL DEF Spec

-----------------------------------------------------------------------------
(* The inductive invariants *)

\* What the holder of the lock is at: the heads of the queues may be offered
\* while the pages due are; nothing is planned before or after the writing; the
\* reveal that is cancelled has no stream; and streams end reveal by reveal.
LockInv ==
    /\ lock.at = "advance" => HeadsAreDue(session)
    /\ lock.at \in {"free", "close"} => lock.due = <<>>
    /\ lock.at # "advance" => lock.cancel = 0 /\ lock.opening = {}
    /\ lock.cancel # 0 =>
          /\ lock.opening = {} /\ On(lock.cancel) = {}
          /\ lock.back = "free" => lock.due = <<>>
    /\ lock.at # "close" => lock.closing = {}
    /\ lock.closing \subseteq Attached
    /\ \A s \in lock.closing : On(streams[s].reveal) \subseteq lock.closing

\* A reveal has one writer, if any of its streams stays; and a request has a
\* stream once, after it has begun and until it is answered.
WriterInv ==
    /\ \A s \in Attached \ lock.closing : WriterFor(streams[s].reveal) # {}
    /\ \A s, q \in Attached :
          streams[s].reveal = streams[q].reveal /\ streams[s].writer /\ streams[q].writer => s = q
    /\ \A s \in Requests :
          /\ request[s].phase = "new" => s \notin Attached /\ request[s].hash = {} /\ request[s].done = "none"
          /\ request[s].phase = "ok" => s \notin Attached
          /\ request[s].done = "ok" => s \notin Attached

\* A page that a stream has to write is planned for it.
DueFor(s, h) == \E i \in DOMAIN lock.due : lock.due[i] = <<s, h>>

\* A page that a stream offered is in flight for its reveal, of one stream only,
\* and is written or planned for it.
OfferedIsInFlight ==
    \A s \in Requests : \A h \in Elements(streams[s].offered) : session.offered[h] = streams[s].reveal
OfferedOnce ==
    \A s, q \in Requests : \A h \in Elements(streams[s].offered) :
        h \in Elements(streams[q].offered) => s = q
OfferedIsWritten ==
    \A s \in Requests : \A h \in Elements(streams[s].offered) : copies[h] > 0 \/ DueFor(s, h)

\* A page that is planned is of its stream, if that has not failed, and was not
\* written yet.
DueIsOffered ==
    \A i \in DOMAIN lock.due : lock.due[i][1] \in Attached =>
        lock.due[i][2] \in Elements(streams[lock.due[i][1]].offered) /\ copies[lock.due[i][2]] = 0
DueOnce ==
    \A i, j \in DOMAIN lock.due :
        lock.due[i][1] \in Attached /\ lock.due[j][1] \in Attached
          /\ lock.due[i][2] = lock.due[j][2] => i = j

\* What is written is remembered, and what is held was written.
CountedIsKnown ==
    \A h \in Hashes : copies[h] # 0 => h \in SkipSet(session) /\ h \in written /\ copies[h] = 1
SentIsCounted == \A h \in Elements(session.sent) : copies[h] > 0

PageInv ==
    /\ OfferedIsInFlight /\ OfferedOnce /\ OfferedIsWritten
    /\ DueIsOffered /\ DueOnce
    /\ CountedIsKnown /\ SentIsCounted

\* A stream is on the reveal of the value that its request asked for, or that
\* reveal is about to be opened; and somebody waits for what is about to be.
Linked(s) ==
    /\ streams[s].reveal <= session.seq
    /\ \A r \in session.reveals : r.id = streams[s].reveal => request[s].hash = {r.hash}
Awaits(s) ==
    /\ streams[s].reveal = session.seq + 1
    /\ \E x \in lock.opening : request[s].hash = {x} /\ LiveReveal(session, x) = {}

LinkInv ==
    /\ \A s \in Attached : Linked(s) \/ Awaits(s)
    /\ \A x \in lock.opening :
          lock.opening = {x} /\ (LiveReveal(session, x) = {} => On(session.seq + 1) # {})

DuePages == {lock.due[i][2] : i \in DOMAIN lock.due}
Accounted == written \cup DuePages

\* While nothing failed or paused: what was planned has its stream, the pages
\* in flight and those of a walk that are no longer left are written or due,
\* a reveal has a stream until it is done, and a request without a stream has
\* its value written.
DueIsServed == \A i \in DOMAIN lock.due : lock.due[i][1] \in Attached
RevealsAreServed == \A r \in session.reveals : r.done \/ On(r.id) # {}
WalkIsWritten == \A r \in session.reveals : Elements(Order[r.hash]) \subseteq Accounted \cup LeftOf(r)
EndingIsDone ==
    \A s \in lock.closing : \A r \in session.reveals : r.id = streams[s].reveal => r.done
EndedIsWritten ==
    \A s \in Requests : s \notin Attached \/ s \in lock.closing =>
        \A x \in request[s].hash : Elements(Order[x]) \subseteq written

WalkInv ==
    clean => /\ lock.cancel = 0 /\ DueIsServed /\ SkipSet(session) \subseteq Accounted
             /\ RevealsAreServed /\ WalkIsWritten /\ EndingIsDone /\ EndedIsWritten

-----------------------------------------------------------------------------
(* What the steps do to the streams and the lock *)

LEMMA EmitStep ==
    ASSUME TypeInv, NEW id, Emit(id)
    PROVE  \E r \in session.reveals :
             /\ r.id = id /\ r.pages # <<>> /\ Head(r.pages) \in Hashes /\ lock.at = "advance"
             /\ session' = Prepare(EmitPage(session, r))
             /\ UNCHANGED <<request, written, copies, clean>>
             /\ \A q \in Requests : /\ streams'[q].reveal = streams[q].reveal
                                    /\ streams'[q].writer = streams[q].writer
             /\ lock'.at = lock.at /\ lock'.cancel = lock.cancel /\ lock'.back = lock.back
             /\ lock'.closing = lock.closing /\ lock'.opening = lock.opening
             /\ \/ /\ lock.cancel # 0 \/ WriterFor(id) = {}
                   /\ UNCHANGED <<streams, lock>>
                \/ \E w \in WriterFor(id) :
                     /\ lock.cancel = 0
                     /\ \A q \in Requests : streams'[q].offered =
                          IF q = w THEN Append(streams[q].offered, Head(r.pages)) ELSE streams[q].offered
                     /\ lock'.due = Append(lock.due, <<w, Head(r.pages)>>)
<1> PICK r \in Revealed(id) :
      /\ r.pages # <<>> /\ session' = Prepare(EmitPage(session, r))
      /\ IF lock.cancel # 0 \/ WriterFor(id) = {} THEN UNCHANGED <<streams, lock>>
         ELSE \E w \in WriterFor(id) :
                /\ streams' = Noted(w, id, Head(r.pages))
                /\ lock' = [lock EXCEPT !.due = Append(@, <<w, Head(r.pages)>>)]
  BY DEF Emit
<1>1. r \in session.reveals /\ r.id = id
  BY DEF Revealed
<1>2. Head(r.pages) \in Hashes
  BY <1>1, EmitParts DEF TypeInv
<1>3. UNCHANGED <<request, written, copies, clean>> /\ lock.at = "advance"
  BY DEF Emit
<1>4. CASE lock.cancel # 0 \/ WriterFor(id) = {}
  BY <1>1, <1>2, <1>3, <1>4
<1>5. CASE ~(lock.cancel # 0 \/ WriterFor(id) = {})
  <2> PICK w \in WriterFor(id) :
                /\ streams' = Noted(w, id, Head(r.pages))
                /\ lock' = [lock EXCEPT !.due = Append(@, <<w, Head(r.pages)>>)]
    BY <1>5
  <2>1. w \in Requests
    BY DEF WriterFor, On, Attached
  <2>2. \A q \in Requests :
          /\ streams'[q].reveal = streams[q].reveal
          /\ streams'[q].writer = streams[q].writer
          /\ streams'[q].offered = IF q = w THEN Append(streams[q].offered, Head(r.pages)) ELSE streams[q].offered
    BY <1>2, <2>1, NotedParts
  <2>3. /\ lock'.at = lock.at /\ lock'.cancel = lock.cancel /\ lock'.back = lock.back
        /\ lock'.closing = lock.closing /\ lock'.opening = lock.opening
        /\ lock'.due = Append(lock.due, <<w, Head(r.pages)>>)
    BY DEF TypeInv, Locks
  <2> QED
    BY <1>1, <1>2, <1>3, <1>5, <2>2, <2>3
<1> QED
  BY <1>4, <1>5

LEMMA FailStep ==
    ASSUME TypeInv, NEW s \in Attached, NEW next \in Locks, Fail(s, next)
    PROVE  /\ streams'[s].reveal = 0 /\ streams'[s].offered = <<>>
           /\ \A q \in Requests \ {s} : /\ streams'[q].reveal = streams[q].reveal
                                        /\ streams'[q].offered = streams[q].offered
           /\ clean' = FALSE
           /\ lock'.due = next.due /\ lock'.closing = next.closing /\ lock'.opening = next.opening
           /\ \/ /\ On(streams[s].reveal) \ {s} = {} /\ session' = Prepare(session)
                 /\ lock'.at = "advance" /\ lock'.cancel = streams[s].reveal /\ lock'.back = next.at
              \/ /\ session' = session
                 /\ lock'.at = next.at /\ lock'.cancel = next.cancel /\ lock'.back = next.back
<1> PICK p \in On(streams[s].reveal) : LeavesTo(s, p)
  BY FailParts
<1>1. /\ \/ /\ On(streams[s].reveal) \ {s} = {} /\ session' = Prepare(session)
            /\ lock' = [next EXCEPT !.at = "advance", !.cancel = streams[s].reveal, !.back = next.at]
         \/ lock' = next /\ session' = session
      /\ clean' = FALSE
  BY FailParts
<1>2. \A q \in Requests \ {s} : /\ streams'[q].reveal = streams[q].reveal
                                /\ streams'[q].offered = streams[q].offered
  BY DEF LeavesTo
<1>3. streams'[s].reveal = 0 /\ streams'[s].offered = <<>>
  BY DEF LeavesTo, Gone
<1>4. /\ lock'.due = next.due /\ lock'.closing = next.closing /\ lock'.opening = next.opening
      /\ \/ /\ On(streams[s].reveal) \ {s} = {} /\ session' = Prepare(session)
            /\ lock'.at = "advance" /\ lock'.cancel = streams[s].reveal /\ lock'.back = next.at
         \/ /\ session' = session
            /\ lock'.at = next.at /\ lock'.cancel = next.cancel /\ lock'.back = next.back
  BY <1>1 DEF Locks
<1> QED
  BY <1>1, <1>2, <1>3, <1>4

\* The fields of the lock and the parts of the session after the other steps.
LEMMA BeginStep ==
    ASSUME TypeInv, NEW s \in Requests, NEW x \in Roots, Begin(s, x)
    PROVE  /\ lock.at = "free" /\ request[s].phase = "new"
           /\ streams'[s].reveal = RevealId(session, x) /\ RevealId(session, x) \in Nat \ {0}
           /\ streams'[s].offered = <<>>
           /\ streams'[s].writer = (WriterFor(RevealId(session, x)) = {})
           /\ \A q \in Requests \ {s} : streams'[q] = streams[q]
           /\ request'[s].phase = "await" /\ request'[s].hash = {x} /\ request'[s].done = request[s].done
           /\ \A q \in Requests \ {s} : request'[q] = request[q]
           /\ session' = Prepare(session)
           /\ lock'.at = "advance" /\ lock'.due = <<>> /\ lock'.cancel = 0 /\ lock'.back = "free"
           /\ lock'.closing = {} /\ lock'.opening = {x}
           /\ UNCHANGED <<written, copies, clean>>
<1>1. /\ RevealId(session, x) \in Nat \ {0}
      /\ streams'[s].reveal = RevealId(session, x) /\ streams'[s].offered = <<>>
      /\ streams'[s].writer = (WriterFor(RevealId(session, x)) = {})
      /\ \A q \in Requests \ {s} : streams'[q] = streams[q]
      /\ session' = Prepare(session)
      /\ lock' = [Free EXCEPT !.at = "advance", !.opening = {x}]
  BY BeginParts
<1>2. /\ lock'.at = "advance" /\ lock'.due = <<>> /\ lock'.cancel = 0 /\ lock'.back = "free"
      /\ lock'.closing = {} /\ lock'.opening = {x}
  BY <1>1 DEF Free
<1>3. /\ lock.at = "free" /\ request[s].phase = "new" /\ UNCHANGED <<written, copies, clean>>
      /\ request' = [request EXCEPT ![s].phase = "await", ![s].hash = {x}]
  BY DEF Begin
<1>4. /\ request'[s].phase = "await" /\ request'[s].hash = {x} /\ request'[s].done = request[s].done
      /\ \A q \in Requests \ {s} : request'[q] = request[q]
  BY <1>3 DEF TypeInv, RequestStates
<1> QED
  BY <1>1, <1>2, <1>3, <1>4

LEMMA PumpStep ==
    ASSUME TypeInv, Pump
    PROVE  /\ lock.at = "free" /\ session' = Prepare(session)
           /\ lock'.at = "advance" /\ lock'.due = <<>> /\ lock'.cancel = 0 /\ lock'.back = "free"
           /\ lock'.closing = {} /\ lock'.opening = {}
           /\ UNCHANGED <<streams, request, written, copies, clean>>
BY DEF Pump, Free

LEMMA AdvancedStep ==
    ASSUME TypeInv, Advanced
    PROVE  /\ lock.at = "advance" /\ lock'.due = lock.due /\ lock'.closing = lock.closing
           /\ lock'.cancel = 0
           /\ lock.cancel # 0 => lock'.at = lock.back /\ lock'.opening = lock.opening
           /\ lock.cancel = 0 => lock'.at = "write" /\ lock'.opening = {}
           /\ copies' = Recount(session')
           /\ UNCHANGED <<streams, request, written, clean>>
<1>1. /\ lock.at = "advance" /\ copies' = Recount(session') /\ UNCHANGED <<streams, request, written, clean>>
      /\ lock' = IF lock.cancel # 0 THEN [lock EXCEPT !.at = lock.back, !.cancel = 0]
                 ELSE [lock EXCEPT !.at = "write", !.opening = {}]
  BY DEF Advanced
<1>2. lock \in Locks
  BY DEF TypeInv
<1> QED
  BY <1>1, <1>2 DEF Locks

LEMMA WriteStep ==
    ASSUME TypeInv, Write,
           NEW s, s = Head(lock.due)[1], NEW h, h = Head(lock.due)[2]
    PROVE  /\ lock.at = "write" /\ lock.due # <<>> /\ s \in Requests /\ h \in Hashes
           /\ lock'.at = "write" /\ lock'.due = Tail(lock.due) /\ lock'.cancel = lock.cancel
           /\ lock'.closing = lock.closing /\ lock'.opening = lock.opening
           /\ UNCHANGED <<session, streams, request, clean>>
           /\ s \in Attached => written' = written \cup {h} /\ copies' = [copies EXCEPT ![h] = @ + 1]
           /\ s \notin Attached => UNCHANGED <<written, copies>>
<1>1. /\ lock.at = "write" /\ lock.due # <<>> /\ lock' = Planned
      /\ UNCHANGED <<session, streams, request, clean>>
  BY DEF Write
<1>2. /\ s \in Attached => written' = written \cup {h} /\ copies' = [copies EXCEPT ![h] = @ + 1]
      /\ s \notin Attached => UNCHANGED <<written, copies>>
  BY DEF Write
<1>3. Head(lock.due) \in Requests \X Hashes
  BY <1>1, TailParts DEF TypeInv, Locks
<1>4. s \in Requests /\ h \in Hashes
  BY <1>3
<1>5. /\ Planned.at = lock.at /\ Planned.due = Tail(lock.due) /\ Planned.cancel = lock.cancel
      /\ Planned.closing = lock.closing /\ Planned.opening = lock.opening
  BY <1>1, LockTypes
<1> QED
  BY <1>1, <1>2, <1>4, <1>5

LEMMA ThrowStep ==
    ASSUME TypeInv, WriteThrows, NEW s, s = Head(lock.due)[1]
    PROVE  /\ lock.at = "write" /\ lock.due # <<>> /\ s \in Attached /\ Fail(s, Planned)
           /\ Planned \in Locks /\ Planned.at = "write" /\ Planned.due = Tail(lock.due)
           /\ Planned.cancel = lock.cancel /\ Planned.back = lock.back
           /\ Planned.closing = lock.closing /\ Planned.opening = lock.opening
           /\ request'[s].phase = request[s].phase /\ request'[s].hash = request[s].hash
           /\ request'[s].done = "failed"
           /\ \A q \in Requests \ {s} : request'[q] = request[q]
           /\ UNCHANGED <<written, copies>>
<1>1. /\ lock.at = "write" /\ lock.due # <<>> /\ s \in Attached /\ Fail(s, Planned)
      /\ request' = [request EXCEPT ![s].done = "failed"] /\ UNCHANGED <<written, copies>>
  BY DEF WriteThrows, Broken
<1>2. s \in Requests /\ request \in [Requests -> RequestStates]
  BY <1>1 DEF Attached, TypeInv
<1>3. /\ request'[s].phase = request[s].phase /\ request'[s].hash = request[s].hash
      /\ request'[s].done = "failed"
      /\ \A q \in Requests \ {s} : request'[q] = request[q]
  BY <1>1, <1>2 DEF RequestStates
<1> QED
  BY <1>1, <1>3, LockTypes

LEMMA FinishStep ==
    ASSUME TypeInv, NEW paused, Finish(paused)
    PROVE  /\ lock.at = "write" /\ lock.due = <<>> /\ lock'.due = <<>>
           /\ lock'.closing = Ending(paused) /\ lock'.opening = {} /\ lock'.cancel = 0
           /\ lock'.at = IF Ending(paused) = {} THEN "free" ELSE "close"
           /\ clean' = (clean /\ paused = {})
           /\ UNCHANGED <<session, streams, request, written, copies>>
<1>1. Ending(paused) \in SUBSET Requests
  BY DEF Ending, Attached
<1>2. /\ lock.at = "write" /\ lock.due = <<>> /\ lock' = Closing(Ending(paused))
      /\ clean' = (clean /\ paused = {})
      /\ UNCHANGED <<session, streams, request, written, copies>>
  BY DEF Finish
<1> QED
  BY <1>1, <1>2, LockTypes

LEMMA CloseStep ==
    ASSUME TypeInv, NEW s \in Requests, Close(s)
    PROVE  /\ lock.at = "close" /\ s \in lock.closing /\ lock'.due = <<>>
           /\ lock'.closing = lock.closing \ {s} /\ lock'.opening = {} /\ lock'.cancel = 0
           /\ lock'.at = IF lock.closing \ {s} = {} THEN "free" ELSE "close"
           /\ streams[s].offered \in Seq(Hashes)
           /\ session' = AckPages(session, streams[s].offered) /\ copies' = Recount(session')
           /\ streams'[s] = Gone /\ Gone.reveal = 0 /\ Gone.offered = <<>>
           /\ \A q \in Requests \ {s} : streams'[q] = streams[q]
           /\ request'[s].phase = request[s].phase /\ request'[s].hash = request[s].hash
           /\ request'[s].done = "ok"
           /\ \A q \in Requests \ {s} : request'[q] = request[q]
           /\ UNCHANGED <<written, clean>>
<1>1. /\ lock.at = "close" /\ s \in lock.closing
      /\ session' = AckPages(session, streams[s].offered) /\ copies' = Recount(session')
      /\ streams' = [streams EXCEPT ![s] = Gone] /\ request' = [request EXCEPT ![s].done = "ok"]
      /\ lock' = Closing(lock.closing \ {s}) /\ UNCHANGED <<written, clean>>
  BY DEF Close
<1>2. lock.closing \ {s} \in SUBSET Requests /\ streams[s].offered \in Seq(Hashes)
  BY DEF TypeInv, Locks, Streams
<1>3. /\ lock'.due = <<>> /\ lock'.closing = lock.closing \ {s} /\ lock'.opening = {} /\ lock'.cancel = 0
      /\ lock'.at = IF lock.closing \ {s} = {} THEN "free" ELSE "close"
  BY <1>1, <1>2, LockTypes
<1>4. /\ streams'[s] = Gone /\ Gone.reveal = 0 /\ Gone.offered = <<>>
      /\ \A q \in Requests \ {s} : streams'[q] = streams[q]
  BY <1>1 DEF TypeInv, Gone
<1>5. /\ request'[s].phase = request[s].phase /\ request'[s].hash = request[s].hash
      /\ request'[s].done = "ok"
      /\ \A q \in Requests \ {s} : request'[q] = request[q]
  BY <1>1 DEF TypeInv, RequestStates
<1> QED
  BY <1>1, <1>2, <1>3, <1>4, <1>5

\* The promise, the timer and the second look of a request.
LEMMA RequestStep ==
    ASSUME TypeInv, NEW s \in Requests, Return(s) \/ Idle(s) \/ LookAgain(s)
    PROVE  /\ UNCHANGED <<session, lock, written, copies, clean>>
           /\ \A q \in Requests : /\ streams'[q].reveal = streams[q].reveal
                                  /\ streams'[q].writer = streams[q].writer
                                  /\ streams'[q].offered = streams[q].offered
           /\ request'[s].hash = request[s].hash /\ request'[s].done = request[s].done
           /\ request'[s].phase # "new" /\ request[s].phase # "new"
           /\ request'[s].phase = "ok" => s \notin Attached \/ request[s].done = "ok"
           /\ \A q \in Requests \ {s} : request'[q] = request[q]
<1>0. request \in [Requests -> RequestStates] /\ streams \in [Requests -> Streams]
  BY DEF TypeInv
<1>1. CASE Return(s)
  <2>1. /\ request[s].phase = "await" /\ UNCHANGED <<session, streams, lock, written, copies, clean>>
        /\ request' = [request EXCEPT ![s].phase = IF request[s].done = "ok" THEN "ok" ELSE "threw"]
    BY <1>1 DEF Return
  <2>2. /\ request'[s].phase = IF request[s].done = "ok" THEN "ok" ELSE "threw"
        /\ request'[s].hash = request[s].hash /\ request'[s].done = request[s].done
        /\ \A q \in Requests \ {s} : request'[q] = request[q]
    BY <1>0, <2>1 DEF RequestStates
  <2> QED
    BY <2>1, <2>2
<1>2. CASE Idle(s)
  <2>1. /\ request[s].phase = "await" /\ UNCHANGED <<session, streams, lock, written, copies, clean>>
        /\ request' = [request EXCEPT ![s].phase = "late"]
    BY <1>2 DEF Idle
  <2>2. /\ request'[s].phase = "late"
        /\ request'[s].hash = request[s].hash /\ request'[s].done = request[s].done
        /\ \A q \in Requests \ {s} : request'[q] = request[q]
    BY <1>0, <2>1 DEF RequestStates
  <2> QED
    BY <2>1, <2>2
<1>3. CASE LookAgain(s)
  <2>1. /\ request[s].phase = "late" /\ UNCHANGED <<session, lock, written, copies, clean>>
        /\ streams' = [streams EXCEPT ![s].moved = FALSE]
        /\ request' = [request EXCEPT ![s].phase = IF s \in Attached THEN "await" ELSE "ok"]
    BY <1>3 DEF LookAgain
  <2>2. /\ request'[s].phase = IF s \in Attached THEN "await" ELSE "ok"
        /\ request'[s].hash = request[s].hash /\ request'[s].done = request[s].done
        /\ \A q \in Requests \ {s} : request'[q] = request[q]
    BY <1>0, <2>1 DEF RequestStates
  <2>3. \A q \in Requests : /\ streams'[q].reveal = streams[q].reveal
                            /\ streams'[q].writer = streams[q].writer
                            /\ streams'[q].offered = streams[q].offered
    BY <1>0, <2>1 DEF Streams
  <2> QED
    BY <2>1, <2>2, <2>3
<1> QED
  BY <1>1, <1>2, <1>3

LEMMA GiveUpStep ==
    ASSUME TypeInv, NEW s \in Requests, GiveUp(s)
    PROVE  /\ lock.at = "free" /\ s \in Attached /\ Fail(s, Free)
           /\ Free \in Locks /\ Free.due = <<>> /\ Free.closing = {} /\ Free.opening = {}
           /\ Free.cancel = 0 /\ Free.at = "free" /\ Free.back = "free"
           /\ request'[s].phase = "threw" /\ request'[s].hash = request[s].hash
           /\ request'[s].done = "failed"
           /\ \A q \in Requests \ {s} : request'[q] = request[q]
           /\ UNCHANGED <<written, copies>>
<1>1. /\ lock.at = "free" /\ s \in Attached /\ Fail(s, Free) /\ UNCHANGED <<written, copies>>
      /\ request' = [request EXCEPT ![s].phase = "threw", ![s].done = "failed"]
  BY DEF GiveUp
<1>2. request \in [Requests -> RequestStates]
  BY DEF TypeInv
<1>3. /\ request'[s].phase = "threw" /\ request'[s].hash = request[s].hash
      /\ request'[s].done = "failed"
      /\ \A q \in Requests \ {s} : request'[q] = request[q]
  <2> PICK e : e = [request[s] EXCEPT !.phase = "threw", !.done = "failed"]
    OBVIOUS
  <2>1. e.phase = "threw" /\ e.hash = request[s].hash /\ e.done = "failed"
    BY <1>2 DEF RequestStates
  <2>2. request' = [request EXCEPT ![s] = e]
    BY <1>1, <1>2 DEF RequestStates
  <2> QED
    BY <1>2, <2>1, <2>2
<1> QED
  BY <1>1, <1>3, LockTypes

-----------------------------------------------------------------------------
(* The work under the lock *)

LEMMA NextLock == TypeInv /\ LockInv /\ [Next]_vars => LockInv'
<1> SUFFICES ASSUME TypeInv, LockInv, [Next]_vars PROVE LockInv'
  OBVIOUS
<1>0. lock \in Locks /\ SessionInv(session)
  BY DEF TypeInv
<1>p. session' = Prepare(session) => HeadsAreDue(session')
  BY PreparedType
<1>1. ASSUME NEW s \in Requests, NEW x \in Roots, Begin(s, x) PROVE LockInv'
  <2>1. /\ session' = Prepare(session) /\ lock'.at = "advance" /\ lock'.due = <<>> /\ lock'.cancel = 0
        /\ lock'.closing = {}
    BY <1>1, BeginStep
  <2> QED
    BY <1>p, <2>1 DEF LockInv
<1>2. CASE Pump
  <2>1. /\ session' = Prepare(session) /\ lock'.at = "advance" /\ lock'.due = <<>> /\ lock'.cancel = 0
        /\ lock'.closing = {}
    BY <1>2, PumpStep
  <2> QED
    BY <1>p, <2>1 DEF LockInv
<1>3. ASSUME NEW id \in Requests, Emit(id) PROVE LockInv'
  <2> PICK r \in session.reveals :
        /\ r.id = id /\ r.pages # <<>> /\ Head(r.pages) \in Hashes /\ lock.at = "advance"
        /\ session' = Prepare(EmitPage(session, r))
        /\ \A q \in Requests : /\ streams'[q].reveal = streams[q].reveal
                               /\ streams'[q].writer = streams[q].writer
        /\ lock'.at = lock.at /\ lock'.cancel = lock.cancel /\ lock'.back = lock.back
        /\ lock'.closing = lock.closing /\ lock'.opening = lock.opening
        /\ lock.cancel # 0 => UNCHANGED <<streams, lock>>
    BY <1>3, EmitStep
  <2>1. HeadsAreDue(session')
    <3>1. r \in Revealed(id)
      BY DEF Revealed
    <3> QED
      BY <3>1, EmitType
  <2>2. Attached' = Attached /\ On(lock.cancel)' = On(lock.cancel)
    BY DEF On, Attached
  <2>3. lock.closing = {}
    BY DEF LockInv
  <2> QED
    BY <2>1, <2>2, <2>3 DEF LockInv
<1>4. CASE Advanced
  <2>1. /\ lock.at = "advance" /\ lock'.due = lock.due /\ lock'.closing = lock.closing
        /\ lock'.cancel = 0
        /\ lock.cancel # 0 => lock'.at = lock.back /\ lock'.opening = lock.opening
        /\ lock.cancel = 0 => lock'.at = "write" /\ lock'.opening = {}
    BY <1>4, AdvancedStep
  <2>2. lock.closing = {} /\ lock.back \in {"free", "write"}
        /\ (lock.cancel # 0 => lock.opening = {} /\ (lock.back = "free" => lock.due = <<>>))
    BY <1>0, <2>1 DEF LockInv, Locks
  <2> QED
    BY <2>1, <2>2 DEF LockInv
<1>5. CASE Write
  <2>1. /\ lock.at = "write" /\ lock'.at = "write" /\ lock'.cancel = lock.cancel
        /\ lock'.closing = lock.closing /\ lock'.opening = lock.opening
    BY <1>5, WriteStep
  <2> QED
    BY <2>1 DEF LockInv
<1>6. CASE WriteThrows
  <2> PICK s : s = Head(lock.due)[1]
    OBVIOUS
  <2>1. /\ lock.at = "write" /\ s \in Attached /\ Fail(s, Planned)
        /\ Planned \in Locks /\ Planned.at = "write" /\ Planned.cancel = lock.cancel
        /\ Planned.closing = lock.closing /\ Planned.opening = lock.opening
    BY <1>6, ThrowStep
  <2>2. lock.closing = {} /\ lock.opening = {} /\ lock.cancel = 0
    BY <2>1 DEF LockInv
  <2>3. /\ streams'[s].reveal = 0
        /\ \A q \in Requests \ {s} : streams'[q].reveal = streams[q].reveal
        /\ lock'.closing = {} /\ lock'.opening = {}
        /\ \/ /\ On(streams[s].reveal) \ {s} = {} /\ session' = Prepare(session)
              /\ lock'.at = "advance" /\ lock'.cancel = streams[s].reveal /\ lock'.back = "write"
           \/ lock'.at = "write" /\ lock'.cancel = 0
    BY <2>1, <2>2, FailStep
  <2>4. lock'.at = "write" /\ lock'.cancel = 0 => LockInv'
    BY <2>3 DEF LockInv
  <2>5. ASSUME On(streams[s].reveal) \ {s} = {}, lock'.cancel = streams[s].reveal
        PROVE  On(lock.cancel)' = {}
    BY <2>3, <2>5 DEF On, Attached
  <2> QED
    BY <1>p, <2>3, <2>4, <2>5 DEF LockInv
<1>7. ASSUME NEW paused \in SUBSET Unfinished, Finish(paused) PROVE LockInv'
  <2>1. /\ lock'.due = <<>> /\ lock'.closing = Ending(paused) /\ lock'.opening = {} /\ lock'.cancel = 0
        /\ lock'.at = IF Ending(paused) = {} THEN "free" ELSE "close"
        /\ UNCHANGED <<session, streams>>
    BY <1>7, FinishStep
  <2>2. Ending(paused) \subseteq Attached
    BY DEF Ending
  <2>3. \A s \in Ending(paused) : On(streams[s].reveal) \subseteq Ending(paused)
    BY DEF Ending, On
  <2> QED
    BY <2>1, <2>2, <2>3 DEF LockInv, On, Attached
<1>8. ASSUME NEW s \in Requests, Close(s) PROVE LockInv'
  <2>1. /\ lock.at = "close" /\ s \in lock.closing /\ lock'.due = <<>>
        /\ lock'.closing = lock.closing \ {s} /\ lock'.opening = {} /\ lock'.cancel = 0
        /\ lock'.at = IF lock.closing \ {s} = {} THEN "free" ELSE "close"
        /\ streams'[s].reveal = 0
        /\ \A q \in Requests \ {s} : streams'[q] = streams[q]
    BY <1>8, CloseStep
  <2>2. lock.closing \ {s} \subseteq Attached'
    BY <2>1 DEF LockInv, Attached
  <2>3. ASSUME NEW q \in lock.closing \ {s}, NEW p \in Requests,
               streams'[p].reveal # 0, streams'[p].reveal = streams'[q].reveal
        PROVE  p \in lock.closing \ {s}
    <3>1. p # s
      BY <2>1, <2>3
    <3>2. streams'[p] = streams[p] /\ q \in Requests /\ streams'[q] = streams[q]
      BY <1>0, <2>1, <3>1 DEF Locks
    <3>3. p \in On(streams[q].reveal)
      BY <2>3, <3>2 DEF On, Attached
    <3> QED
      BY <3>1, <3>3 DEF LockInv
  <2> QED
    BY <2>1, <2>2, <2>3 DEF LockInv, On, Attached
<1>9. ASSUME NEW s \in Requests, Return(s) \/ Idle(s) \/ LookAgain(s) PROVE LockInv'
  <2>1. /\ UNCHANGED <<session, lock>>
        /\ \A q \in Requests : streams'[q].reveal = streams[q].reveal
    BY <1>9, RequestStep
  <2>2. lock.closing \subseteq Requests
    BY <1>0 DEF Locks
  <2> QED
    BY <2>1, <2>2 DEF LockInv, On, Attached
<1>11. ASSUME NEW s \in Requests, GiveUp(s) PROVE LockInv'
  <2>1. /\ s \in Attached /\ Fail(s, Free)
        /\ Free \in Locks /\ Free.due = <<>> /\ Free.closing = {} /\ Free.opening = {}
        /\ Free.cancel = 0 /\ Free.at = "free"
    BY <1>11, GiveUpStep
  <2>3. /\ streams'[s].reveal = 0
        /\ \A q \in Requests \ {s} : streams'[q].reveal = streams[q].reveal
        /\ lock'.due = <<>> /\ lock'.closing = {} /\ lock'.opening = {}
        /\ \/ /\ On(streams[s].reveal) \ {s} = {} /\ session' = Prepare(session)
              /\ lock'.at = "advance" /\ lock'.cancel = streams[s].reveal /\ lock'.back = "free"
           \/ lock'.at = "free" /\ lock'.cancel = 0
    BY <2>1, FailStep
  <2>4. lock'.at = "free" /\ lock'.cancel = 0 => LockInv'
    BY <2>3 DEF LockInv
  <2>5. ASSUME On(streams[s].reveal) \ {s} = {}, lock'.cancel = streams[s].reveal
        PROVE  On(lock.cancel)' = {}
    BY <2>3, <2>5 DEF On, Attached
  <2> QED
    BY <1>p, <2>3, <2>4, <2>5 DEF LockInv
<1>12. CASE UNCHANGED vars
  BY <1>12 DEF vars, LockInv, On, Attached
<1> QED
  BY <1>1, <1>2, <1>3, <1>4, <1>5, <1>6, <1>7, <1>8, <1>9, <1>11, <1>12
     DEF Next, Hold, PageDue, Resume

-----------------------------------------------------------------------------
(* Writers *)

LEMMA InitRest == Init => LockInv /\ WriterInv /\ PageInv /\ LinkInv /\ WalkInv
<1> SUFFICES ASSUME Init PROVE LockInv /\ WriterInv /\ PageInv /\ LinkInv /\ WalkInv
  OBVIOUS
<1>1. /\ session.sent = <<>> /\ session.reveals = {} /\ \A h \in Hashes : session.offered[h] = 0
      /\ lock.at = "free" /\ lock.due = <<>> /\ lock.closing = {} /\ lock.opening = {} /\ lock.cancel = 0
  BY DEF Init, Empty, Free
<1>2. \A s \in Requests : /\ streams[s].reveal = 0 /\ streams[s].offered = <<>>
                          /\ request[s].phase = "new" /\ request[s].hash = {} /\ request[s].done = "none"
  BY DEF Init, Gone, Fresh
<1>3. Attached = {} /\ DOMAIN <<>> = {}
  BY <1>2 DEF Attached
<1>4. SkipSet(session) = {} /\ \A h \in Hashes : copies[h] = 0
  BY <1>1, EmptyParts DEF Init, SkipSet
<1>5. LockInv /\ WriterInv /\ LinkInv
  BY <1>1, <1>2, <1>3 DEF LockInv, WriterInv, LinkInv
<1>6. PageInv
  BY <1>1, <1>2, <1>3, <1>4, EmptyParts
     DEF PageInv, OfferedIsInFlight, OfferedOnce, OfferedIsWritten, DueIsOffered, DueOnce,
         CountedIsKnown, SentIsCounted
<1>7. WalkInv
  BY <1>1, <1>2, <1>3, <1>4
     DEF WalkInv, DueIsServed, RevealsAreServed, WalkIsWritten, EndingIsDone, EndedIsWritten
<1> QED
  BY <1>5, <1>6, <1>7

\* A stream that fails hands its writing on.
LEMMA FailWriter ==
    ASSUME TypeInv, LockInv, WriterInv, lock.closing = {},
           NEW s \in Attached, NEW next \in Locks, next.closing = {}, Fail(s, next)
    PROVE  /\ \A q \in Attached' \ lock'.closing : \E w \in Attached' :
                 streams'[w].reveal = streams'[q].reveal /\ streams'[w].writer
           /\ \A q, w \in Attached' :
                 streams'[q].reveal = streams'[w].reveal /\ streams'[q].writer /\ streams'[w].writer => q = w
           /\ Attached' = Attached \ {s}
<1> PICK p \in On(streams[s].reveal) :
      LeavesTo(s, p) /\ (On(streams[s].reveal) \ {s} # {} => p # s)
  BY FailParts
<1>0. /\ streams'[s].reveal = 0
      /\ \A q \in Requests \ {s} : /\ streams'[q].reveal = streams[q].reveal
                                   /\ q # p => streams'[q] = streams[q]
      /\ p # s => streams'[p].writer = (streams[p].writer \/ streams[s].writer)
  BY DEF LeavesTo, Gone
<1>1. Attached' = Attached \ {s} /\ p \in Attached /\ streams[p].reveal = streams[s].reveal
  BY <1>0 DEF Attached, On
<1>2. \A q \in Attached : \E w \in Attached :
         streams[w].reveal = streams[q].reveal /\ streams[w].writer
  BY DEF WriterInv, WriterFor, On
<1>3. \A q, w \in Attached :
         streams[q].reveal = streams[w].reveal /\ streams[q].writer /\ streams[w].writer => q = w
  BY DEF WriterInv
<1>4. \A q \in Attached : q \in Requests
  BY DEF Attached
<1>5. ASSUME NEW q \in Attached \ {s}
      PROVE  \E w \in Attached \ {s} : streams'[w].reveal = streams'[q].reveal /\ streams'[w].writer
  <2> PICK w \in Attached : streams[w].reveal = streams[q].reveal /\ streams[w].writer
    BY <1>2
  <2>1. CASE w = s
    <3>1. q \in On(streams[s].reveal) \ {s}
      BY <2>1 DEF On
    <3>2. p # s /\ streams'[p].writer
      BY <1>0, <2>1, <3>1
    <3>3. streams'[p].reveal = streams'[q].reveal
      BY <1>0, <1>1, <1>4, <2>1, <3>2
    <3> QED
      BY <1>0, <1>1, <3>2, <3>3
  <2>2. CASE w # s /\ w = p
    BY <1>0, <1>4, <2>2
  <2>3. CASE w # s /\ w # p
    BY <1>0, <1>4, <2>3
  <2> QED
    BY <2>1, <2>2, <2>3
<1>6. ASSUME NEW q \in Attached \ {s}, NEW w \in Attached \ {s},
             streams'[q].reveal = streams'[w].reveal, streams'[q].writer, streams'[w].writer
      PROVE  q = w
  <2>1. streams[q].reveal = streams[w].reveal
    BY <1>0, <1>4, <1>6
  <2>2. CASE q # p /\ w # p
    BY <1>0, <1>3, <1>4, <1>6, <2>1, <2>2
  <2>3. CASE q = p /\ w # p
    BY <1>0, <1>1, <1>3, <1>4, <1>6, <2>1, <2>3
  <2>4. CASE q # p /\ w = p
    BY <1>0, <1>1, <1>3, <1>4, <1>6, <2>1, <2>4
  <2> QED
    BY <2>2, <2>3, <2>4
<1> QED
  BY <1>1, <1>5, <1>6

LEMMA NextWriter == TypeInv /\ LockInv /\ WriterInv /\ [Next]_vars => WriterInv'
<1> SUFFICES ASSUME TypeInv, LockInv, WriterInv, [Next]_vars PROVE WriterInv'
  OBVIOUS
<1>0. lock \in Locks /\ request \in [Requests -> RequestStates]
  BY DEF TypeInv
<1>a. \A q \in Attached \ lock.closing : \E w \in Attached :
         streams[w].reveal = streams[q].reveal /\ streams[w].writer
  BY DEF WriterInv, WriterFor, On
<1>b. \A q, w \in Attached :
         streams[q].reveal = streams[w].reveal /\ streams[q].writer /\ streams[w].writer => q = w
  BY DEF WriterInv
<1>c. \A s \in Requests :
        /\ request[s].phase = "new" => s \notin Attached /\ request[s].hash = {} /\ request[s].done = "none"
        /\ request[s].phase = "ok" => s \notin Attached
        /\ request[s].done = "ok" => s \notin Attached
  BY DEF WriterInv
<1>d. ASSUME \A q \in Attached' \ lock'.closing : \E w \in Attached' :
                streams'[w].reveal = streams'[q].reveal /\ streams'[w].writer,
             \A q, w \in Attached' :
                streams'[q].reveal = streams'[w].reveal /\ streams'[q].writer /\ streams'[w].writer => q = w,
             \A s \in Requests :
                /\ request'[s].phase = "new" => s \notin Attached' /\ request'[s].hash = {} /\ request'[s].done = "none"
                /\ request'[s].phase = "ok" => s \notin Attached'
                /\ request'[s].done = "ok" => s \notin Attached'
      PROVE  WriterInv'
  BY <1>d DEF WriterInv, WriterFor, On
<1>e. ASSUME NEW s \in Requests, request'[s].phase # "new",
             \A q \in Requests \ {s} : request'[q] = request[q],
             request'[s].phase = "ok" \/ request'[s].done = "ok" => s \notin Attached',
             Attached' \subseteq Attached \cup {s}
      PROVE  \A q \in Requests :
                /\ request'[q].phase = "new" => q \notin Attached' /\ request'[q].hash = {} /\ request'[q].done = "none"
                /\ request'[q].phase = "ok" => q \notin Attached'
                /\ request'[q].done = "ok" => q \notin Attached'
  BY <1>c, <1>e
<1>1. ASSUME NEW s \in Requests, NEW x \in Roots, Begin(s, x) PROVE WriterInv'
  <2> PICK id : id = RevealId(session, x)
    OBVIOUS
  <2>1. /\ lock.at = "free" /\ request[s].phase = "new"
        /\ streams'[s].reveal = id /\ id # 0
        /\ streams'[s].writer = (WriterFor(id) = {})
        /\ \A q \in Requests \ {s} : streams'[q] = streams[q]
        /\ request'[s].phase = "await" /\ request'[s].done = request[s].done
        /\ \A q \in Requests \ {s} : request'[q] = request[q]
        /\ lock'.closing = {}
    BY <1>1, BeginStep
  <2>2. lock.closing = {} /\ s \notin Attached /\ request[s].done = "none"
    BY <1>c, <2>1 DEF LockInv
  <2>3. Attached' = Attached \cup {s} /\ \A q \in Attached : q \in Requests \ {s}
    BY <2>1, <2>2 DEF Attached
  <2>4. WriterFor(id) = {} <=> ~ \E w \in Attached : streams[w].reveal = id /\ streams[w].writer
    BY DEF WriterFor, On
  <2>5. ASSUME NEW q \in Attached'
        PROVE  \E w \in Attached' : streams'[w].reveal = streams'[q].reveal /\ streams'[w].writer
    <3>1. CASE q = s
      <4>1. CASE WriterFor(id) = {}
        BY <2>1, <2>3, <3>1, <4>1
      <4>2. CASE WriterFor(id) # {}
        BY <2>1, <2>3, <2>4, <3>1, <4>2
      <4> QED
        BY <4>1, <4>2
    <3>2. CASE q # s
      BY <1>a, <2>1, <2>2, <2>3, <3>2
    <3> QED
      BY <3>1, <3>2
  <2>6. ASSUME NEW q \in Attached', NEW w \in Attached',
               streams'[q].reveal = streams'[w].reveal, streams'[q].writer, streams'[w].writer
        PROVE  q = w
    <3>1. CASE q # s /\ w # s
      BY <1>b, <2>1, <2>3, <2>6, <3>1
    <3>2. CASE q = s /\ w # s
      BY <2>1, <2>3, <2>4, <2>6, <3>2
    <3>3. CASE q # s /\ w = s
      BY <2>1, <2>3, <2>4, <2>6, <3>3
    <3> QED
      BY <3>1, <3>2, <3>3
  <2> QED
    BY <1>d, <1>e, <2>1, <2>2, <2>3, <2>5, <2>6
<1>2. CASE Pump
  <2>1. /\ lock.at = "free" /\ lock'.closing = {} /\ UNCHANGED <<streams, request>>
    BY <1>2, PumpStep
  <2>2. lock.closing = {} /\ Attached' = Attached
    BY <2>1 DEF LockInv, Attached
  <2> QED
    BY <1>a, <1>b, <1>c, <1>d, <2>1, <2>2
<1>3. ASSUME NEW id \in Requests, Emit(id) PROVE WriterInv'
  <2>1. /\ \A q \in Requests : /\ streams'[q].reveal = streams[q].reveal
                               /\ streams'[q].writer = streams[q].writer
        /\ lock'.closing = lock.closing /\ UNCHANGED request
    BY <1>3, EmitStep
  <2>2. Attached' = Attached /\ Attached \subseteq Requests
    BY <2>1 DEF Attached
  <2> QED
    BY <1>a, <1>b, <1>c, <1>d, <2>1, <2>2
<1>4. CASE Advanced \/ Write
  <2>1. lock'.closing = lock.closing /\ UNCHANGED <<streams, request>>
    BY <1>4, AdvancedStep, WriteStep
  <2>2. Attached' = Attached
    BY <2>1 DEF Attached
  <2> QED
    BY <1>a, <1>b, <1>c, <1>d, <2>1, <2>2
<1>6. CASE WriteThrows
  <2> PICK s : s = Head(lock.due)[1]
    OBVIOUS
  <2>1. /\ lock.at = "write" /\ s \in Attached /\ Fail(s, Planned)
        /\ Planned \in Locks /\ Planned.closing = lock.closing
        /\ request'[s].phase = request[s].phase /\ request'[s].done = "failed"
        /\ \A q \in Requests \ {s} : request'[q] = request[q]
    BY <1>6, ThrowStep
  <2>2. lock.closing = {} /\ s \in Requests
    BY <2>1 DEF LockInv, Attached
  <2>3. /\ \A q \in Attached' \ lock'.closing : \E w \in Attached' :
              streams'[w].reveal = streams'[q].reveal /\ streams'[w].writer
        /\ \A q, w \in Attached' :
              streams'[q].reveal = streams'[w].reveal /\ streams'[q].writer /\ streams'[w].writer => q = w
        /\ Attached' = Attached \ {s}
    BY <2>1, <2>2, FailWriter
  <2>4. request'[s].phase # "new"
    BY <1>c, <2>1, <2>2
  <2> QED
    BY <1>d, <1>e, <2>1, <2>2, <2>3, <2>4
<1>7. ASSUME NEW paused \in SUBSET Unfinished, Finish(paused) PROVE WriterInv'
  <2>1. /\ lock.at = "write" /\ UNCHANGED <<streams, request>>
    BY <1>7, FinishStep
  <2>2. lock.closing = {} /\ Attached' = Attached
    BY <2>1 DEF LockInv, Attached
  <2> QED
    BY <1>a, <1>b, <1>c, <1>d, <2>1, <2>2
<1>8. ASSUME NEW s \in Requests, Close(s) PROVE WriterInv'
  <2>1. /\ lock.at = "close" /\ s \in lock.closing
        /\ lock'.closing = lock.closing \ {s}
        /\ streams'[s].reveal = 0
        /\ \A q \in Requests \ {s} : streams'[q] = streams[q]
        /\ request'[s].phase = request[s].phase /\ request'[s].done = "ok"
        /\ \A q \in Requests \ {s} : request'[q] = request[q]
    BY <1>8, CloseStep
  <2>2. Attached' = Attached \ {s} /\ s \in Attached /\ Attached \subseteq Requests
    BY <2>1 DEF Attached, LockInv
  <2>3. ASSUME NEW q \in Attached' \ lock'.closing
        PROVE  \E w \in Attached' : streams'[w].reveal = streams'[q].reveal /\ streams'[w].writer
    <3>1. q \in Attached \ lock.closing
      BY <2>1, <2>2
    <3>2. PICK w \in Attached : streams[w].reveal = streams[q].reveal /\ streams[w].writer
      BY <1>a, <3>1
    <3>3. w # s
      <4>1. On(streams[s].reveal) \subseteq lock.closing
        BY <2>1 DEF LockInv
      <4> QED
        BY <3>1, <3>2, <4>1 DEF On
    <3> QED
      BY <2>1, <2>2, <3>1, <3>2, <3>3
  <2>4. ASSUME NEW q \in Attached', NEW w \in Attached',
               streams'[q].reveal = streams'[w].reveal, streams'[q].writer, streams'[w].writer
        PROVE  q = w
    BY <1>b, <2>1, <2>2, <2>4
  <2>5. request'[s].phase # "new"
    BY <1>c, <2>1, <2>2
  <2> QED
    BY <1>d, <1>e, <2>1, <2>2, <2>3, <2>4, <2>5
<1>9. ASSUME NEW s \in Requests, Return(s) \/ Idle(s) \/ LookAgain(s) PROVE WriterInv'
  <2>1. /\ UNCHANGED lock
        /\ \A q \in Requests : /\ streams'[q].reveal = streams[q].reveal
                               /\ streams'[q].writer = streams[q].writer
        /\ request'[s].done = request[s].done /\ request'[s].phase # "new"
        /\ request'[s].phase = "ok" => s \notin Attached \/ request[s].done = "ok"
        /\ \A q \in Requests \ {s} : request'[q] = request[q]
    BY <1>9, RequestStep
  <2>2. Attached' = Attached /\ Attached \subseteq Requests
    BY <2>1 DEF Attached
  <2>3. request'[s].phase = "ok" \/ request'[s].done = "ok" => s \notin Attached'
    BY <1>c, <2>1, <2>2
  <2>4. /\ \A q \in Attached' \ lock'.closing : \E w \in Attached' :
              streams'[w].reveal = streams'[q].reveal /\ streams'[w].writer
        /\ \A q, w \in Attached' :
              streams'[q].reveal = streams'[w].reveal /\ streams'[q].writer /\ streams'[w].writer => q = w
    BY <1>a, <1>b, <2>1, <2>2
  <2> QED
    BY <1>d, <1>e, <2>1, <2>2, <2>3, <2>4
<1>11. ASSUME NEW s \in Requests, GiveUp(s) PROVE WriterInv'
  <2>1. /\ lock.at = "free" /\ s \in Attached /\ Fail(s, Free)
        /\ Free \in Locks /\ Free.closing = {}
        /\ request'[s].phase = "threw" /\ request'[s].done = "failed"
        /\ \A q \in Requests \ {s} : request'[q] = request[q]
    BY <1>11, GiveUpStep
  <2>2. lock.closing = {}
    BY <2>1 DEF LockInv
  <2>3. /\ \A q \in Attached' \ lock'.closing : \E w \in Attached' :
              streams'[w].reveal = streams'[q].reveal /\ streams'[w].writer
        /\ \A q, w \in Attached' :
              streams'[q].reveal = streams'[w].reveal /\ streams'[q].writer /\ streams'[w].writer => q = w
        /\ Attached' = Attached \ {s}
    BY <2>1, <2>2, FailWriter
  <2> QED
    BY <1>d, <1>e, <2>1, <2>3
<1>12. CASE UNCHANGED vars
  BY <1>12 DEF vars, WriterInv, WriterFor, On, Attached
<1> QED
  BY <1>1, <1>2, <1>3, <1>4, <1>6, <1>7, <1>8, <1>9, <1>11, <1>12
     DEF Next, Hold, PageDue, Resume

\* A reveal with streams has one writer (WriterFor), also when it fails.
THEOREM AlwaysOneWriter == Spec => []OneWriter
<1>1. TypeInv /\ LockInv /\ WriterInv => OneWriter
  <2> SUFFICES ASSUME TypeInv, LockInv, WriterInv, lock.at # "close", NEW s \in Attached
               PROVE  Cardinality(WriterFor(streams[s].reveal)) = 1
    BY DEF OneWriter
  <2>1. PICK w : w \in WriterFor(streams[s].reveal)
    BY DEF LockInv, WriterInv
  <2>2. WriterFor(streams[s].reveal) = {w}
    BY <2>1 DEF WriterInv, WriterFor, On
  <2> QED
    BY <2>2, FS_Singleton
<1>2. TypeInv /\ LockInv /\ WriterInv /\ [Next]_vars => (TypeInv /\ LockInv /\ WriterInv)'
  BY NextType, NextLock, NextWriter
<1> QED
  BY <1>1, <1>2, InitType, InitRest, PTL DEF Spec

\* A page in flight is of a reveal that is there.
THEOREM OfferedAlwaysLive == Spec => []OfferedIsLive
<1>1. TypeInv => OfferedIsLive
  BY DEF TypeInv, SessionInv, MidInv, OfferedIsLive, Revealed
<1>2. TypeInv /\ [Next]_vars => TypeInv'
  BY NextType
<1> QED
  BY <1>1, <1>2, InitType, PTL DEF Spec

-----------------------------------------------------------------------------
(* Pages *)

\* The elements of the pages due after one is planned, and after the first.
LEMMA DueParts ==
    ASSUME TypeInv
    PROVE  /\ lock.due \in Seq(Requests \X Hashes)
           /\ \A q \in Requests : streams[q].offered \in Seq(Hashes)
           /\ \A q \in Requests : streams[q].reveal = 0 => Elements(streams[q].offered) = {}
           /\ DOMAIN session.offered = Hashes
<1>1. lock.due \in Seq(Requests \X Hashes) /\ \A q \in Requests : streams[q].offered \in Seq(Hashes)
  BY DEF TypeInv, Locks, Streams
<1>2. \A q \in Requests : streams[q].reveal = 0 => streams[q].offered = <<>>
  BY DEF TypeInv, Gone
<1>3. DOMAIN session.offered = Hashes
  BY DEF TypeInv, SessionInv, MidInv, Sessions
<1> QED
  BY <1>1, <1>2, <1>3, EmptyParts

\* When the clock has reached the present, only what a cancelled reveal had in
\* flight is not in flight any more.
LEMMA SettledPages ==
    ASSUME TypeInv, session' = Settled
    PROVE  /\ Elements(session'.sent) \subseteq Elements(session.sent)
           /\ \A h \in Hashes :
                \/ session'.offered[h] = session.offered[h]
                \/ lock.cancel # 0 /\ session.offered[h] = lock.cancel /\ session'.offered[h] = 0
           /\ lock.cancel = 0 => session'.sent = session.sent /\ session'.offered = session.offered
<1>0. SessionInv(session) /\ lock.opening \in SUBSET Roots /\ lock.cancel \in Nat
  BY DEF TypeInv, Locks
<1>1. CASE lock.cancel # 0
  <2>1. session' = ForgetPages(CancelReveal(session, lock.cancel), SetToSeq(OfferedBy(session, lock.cancel)))
    BY <1>1 DEF Settled
  <2>2. lock.cancel \in Nat \ {0}
    BY <1>0, <1>1
  <2> PICK id \in Nat \ {0} : id = lock.cancel
    BY <2>2
  <2> PICK new : new = ForgetPages(CancelReveal(session, id), SetToSeq(OfferedBy(session, id)))
    OBVIOUS
  <2>3. /\ new.offered = [h \in Hashes |-> IF session.offered[h] = id THEN 0 ELSE session.offered[h]]
        /\ Elements(new.sent) \subseteq Elements(session.sent)
    BY <1>0, CancelParts
  <2>4. session' = new
    BY <2>1
  <2> QED
    BY <1>1, <2>3, <2>4
<1>2. CASE lock.cancel = 0 /\ lock.opening # {}
  <2> PICK x \in lock.opening : x = CHOOSE y \in lock.opening : TRUE
    BY <1>2
  <2>1. session' = OpenReveal(session, x)
    BY <1>2 DEF Settled
  <2>2. x \in Roots
    BY <1>0
  <2>3. OpenReveal(session, x).sent = session.sent /\ OpenReveal(session, x).offered = session.offered
    BY <1>0, <2>2, OpenRevealParts
  <2> QED
    BY <1>2, <2>1, <2>3
<1>3. CASE lock.cancel = 0 /\ lock.opening = {}
  BY <1>0, <1>3 DEF Settled
<1> QED
  BY <1>1, <1>2, <1>3

LEMMA FailPages ==
    ASSUME TypeInv, PageInv, NEW s \in Attached, NEW next \in Locks, Fail(s, next),
           UNCHANGED <<written, copies>>,
           \/ lock.due = <<>> /\ next.due = <<>>
           \/ lock.due # <<>> /\ next.due = Tail(lock.due) /\ Head(lock.due)[1] = s
    PROVE  PageInv'
<1>0. /\ streams'[s].reveal = 0 /\ streams'[s].offered = <<>>
      /\ \A q \in Requests \ {s} : /\ streams'[q].reveal = streams[q].reveal
                                   /\ streams'[q].offered = streams[q].offered
      /\ lock'.due = next.due
      /\ session' = Prepare(session) \/ session' = session
  BY FailStep
<1>1. session'.sent = session.sent /\ session'.offered = session.offered /\ SkipSet(session') = SkipSet(session)
  BY <1>0, PrepareParts DEF TypeInv, SessionInv
<1>2. Attached' = Attached \ {s} /\ Elements(streams'[s].offered) = {}
  BY <1>0, EmptyParts DEF Attached
<1>3. \A q \in Requests : \A h \in Elements(streams'[q].offered) :
         q # s /\ h \in Elements(streams[q].offered) /\ streams'[q].reveal = streams[q].reveal
  BY <1>0, <1>2
<1>4. OfferedIsInFlight'
  BY <1>1, <1>3 DEF PageInv, OfferedIsInFlight
<1>5. OfferedOnce'
  BY <1>3 DEF PageInv, OfferedOnce
\* What is planned after it was planned before, at another place.
<1>6. \A i \in DOMAIN lock'.due : \E k \in DOMAIN lock.due :
         lock'.due[i] = lock.due[k] /\ k = i + 1
  <2>1. CASE lock.due = <<>> /\ next.due = <<>>
    BY <1>0, <2>1
  <2>2. CASE lock.due # <<>> /\ next.due = Tail(lock.due)
    <3>1. /\ Len(lock.due) \in Nat \ {0} /\ DOMAIN lock.due = 1 .. Len(lock.due)
          /\ DOMAIN Tail(lock.due) = 1 .. (Len(lock.due) - 1)
          /\ \A i \in 1 .. (Len(lock.due) - 1) : Tail(lock.due)[i] = lock.due[i + 1]
      BY <2>2, DueParts, TailParts
    <3>2. \A i \in 1 .. (Len(lock.due) - 1) : i + 1 \in 1 .. Len(lock.due)
      BY <3>1
    <3> QED
      BY <1>0, <2>2, <3>1, <3>2
  <2> QED
    BY <2>1, <2>2
<1>7. ASSUME NEW q \in Requests \ {s}, NEW h, DueFor(q, h) PROVE DueFor(q, h)'
  <2> PICK i \in DOMAIN lock.due : lock.due[i] = <<q, h>>
    BY <1>7 DEF DueFor
  <2>1. lock.due # <<>> /\ next.due = Tail(lock.due) /\ Head(lock.due)[1] = s
    OBVIOUS
  <2>2. /\ Len(lock.due) \in Nat \ {0} /\ DOMAIN lock.due = 1 .. Len(lock.due) /\ Head(lock.due) = lock.due[1]
        /\ DOMAIN Tail(lock.due) = 1 .. (Len(lock.due) - 1)
        /\ \A k \in 1 .. (Len(lock.due) - 1) : Tail(lock.due)[k] = lock.due[k + 1]
    BY <2>1, DueParts, TailParts
  <2>3. i # 1
    BY <2>1, <2>2
  <2>4. i - 1 \in 1 .. (Len(lock.due) - 1) /\ (i - 1) + 1 = i
    BY <2>2, <2>3
  <2>5. Tail(lock.due)[i - 1] = <<q, h>> /\ i - 1 \in DOMAIN Tail(lock.due)
    BY <2>2, <2>4
  <2> QED
    BY <1>0, <2>1, <2>5 DEF DueFor
<1>8. OfferedIsWritten'
  <2> SUFFICES ASSUME NEW q \in Requests, NEW h \in Elements(streams'[q].offered)
               PROVE  copies'[h] > 0 \/ DueFor(q, h)'
    BY DEF OfferedIsWritten
  <2>1. q # s /\ h \in Elements(streams[q].offered)
    BY <1>3
  <2>2. copies[h] > 0 \/ DueFor(q, h)
    BY <2>1 DEF PageInv, OfferedIsWritten
  <2> QED
    BY <1>7, <2>1, <2>2
<1>9. DueIsOffered'
  <2> SUFFICES ASSUME NEW i \in DOMAIN lock'.due, lock'.due[i][1] \in Attached'
               PROVE  /\ lock'.due[i][2] \in Elements(streams'[lock'.due[i][1]].offered)
                      /\ copies'[lock'.due[i][2]] = 0
    BY DEF DueIsOffered
  <2> PICK k \in DOMAIN lock.due : lock'.due[i] = lock.due[k]
    BY <1>6
  <2>1. lock.due[k][1] \in Attached /\ lock.due[k][1] \in Requests \ {s}
    BY <1>2 DEF Attached
  <2>2. lock.due[k][2] \in Elements(streams[lock.due[k][1]].offered) /\ copies[lock.due[k][2]] = 0
    BY <2>1 DEF PageInv, DueIsOffered
  <2> QED
    BY <1>0, <2>1, <2>2
<1>10. DueOnce'
  <2> SUFFICES ASSUME NEW i \in DOMAIN lock'.due, NEW j \in DOMAIN lock'.due,
                      lock'.due[i][1] \in Attached', lock'.due[j][1] \in Attached',
                      lock'.due[i][2] = lock'.due[j][2]
               PROVE  i = j
    BY DEF DueOnce
  <2> PICK k \in DOMAIN lock.due : lock'.due[i] = lock.due[k] /\ k = i + 1
    BY <1>6
  <2> PICK l \in DOMAIN lock.due : lock'.due[j] = lock.due[l] /\ l = j + 1
    BY <1>6
  <2>1. k = l
    BY <1>2 DEF PageInv, DueOnce
  <2>2. i \in Nat /\ j \in Nat
    <3>1. lock'.due \in Seq(Requests \X Hashes)
      BY <1>0 DEF Locks
    <3> QED
      BY <3>1
  <2> QED
    BY <2>1, <2>2
<1>11. CountedIsKnown' /\ SentIsCounted'
  BY <1>1 DEF PageInv, CountedIsKnown, SentIsCounted
<1> QED
  BY <1>4, <1>5, <1>8, <1>9, <1>10, <1>11 DEF PageInv

LEMMA EmitPages ==
    ASSUME TypeInv, LockInv, PageInv, NEW id, Emit(id)
    PROVE  PageInv'
<1> PICK r \in session.reveals :
      /\ r.id = id /\ r.pages # <<>> /\ Head(r.pages) \in Hashes /\ lock.at = "advance"
      /\ session' = Prepare(EmitPage(session, r))
      /\ UNCHANGED <<written, copies>>
      /\ \A q \in Requests : streams'[q].reveal = streams[q].reveal
      /\ \/ UNCHANGED <<streams, lock>>
         \/ \E w \in WriterFor(id) :
              /\ \A q \in Requests : streams'[q].offered =
                   IF q = w THEN Append(streams[q].offered, Head(r.pages)) ELSE streams[q].offered
              /\ lock'.due = Append(lock.due, <<w, Head(r.pages)>>)
  BY EmitStep
<1> PICK h \in Hashes : h = Head(r.pages)
  OBVIOUS
<1>0. SessionInv(session)
  BY DEF TypeInv
<1>1. /\ session'.sent = session.sent /\ session'.offered = [session.offered EXCEPT ![h] = id]
      /\ SkipSet(session') = SkipSet(session) \cup {h}
  <2> PICK mid : mid = EmitPage(session, r)
    OBVIOUS
  <2>1. /\ MidInv(mid) /\ mid.sent = session.sent
        /\ mid.offered = [session.offered EXCEPT ![h] = id]
        /\ SkipSet(mid) = SkipSet(session) \cup {h}
    BY <1>0, EmitParts
  <2>2. Prepare(mid).sent = mid.sent /\ Prepare(mid).offered = mid.offered /\ SkipSet(Prepare(mid)) = SkipSet(mid)
    BY <2>1, PrepareParts
  <2> QED
    BY <2>1, <2>2
\* The page was not offered, and is not remembered.
<1>2. h \notin SkipSet(session)
  BY DEF LockInv, HeadsAreDue
<1>3. \A q \in Requests : h \notin Elements(streams[q].offered)
  <2> SUFFICES ASSUME NEW q \in Requests, h \in Elements(streams[q].offered) PROVE FALSE
    OBVIOUS
  <2>1. session.offered[h] = streams[q].reveal /\ streams[q].reveal # 0
    BY DueParts DEF PageInv, OfferedIsInFlight
  <2> QED
    BY <1>2, <2>1 DEF SkipSet
<1>4. copies[h] = 0
  BY <1>2 DEF PageInv, CountedIsKnown
<1>5. Attached' = Attached
  BY DEF Attached
<1>6. CountedIsKnown' /\ SentIsCounted'
  BY <1>1 DEF PageInv, CountedIsKnown, SentIsCounted
<1>7. DOMAIN session.offered = Hashes /\ \A g \in Hashes : g # h => session'.offered[g] = session.offered[g]
  BY <1>1, DueParts
<1>8. session'.offered[h] = id
  BY <1>1, <1>7
<1>e. \A q \in Requests : Elements(streams[q].offered) \subseteq Hashes
  BY DueParts, EmptyParts
<1>9. CASE UNCHANGED <<streams, lock>>
  <2>1. OfferedIsInFlight'
    BY <1>3, <1>7, <1>9, <1>e DEF PageInv, OfferedIsInFlight
  <2>2. OfferedOnce' /\ OfferedIsWritten'
    BY <1>9 DEF PageInv, OfferedOnce, OfferedIsWritten, DueFor
  <2>3. DueIsOffered'
    BY <1>5, <1>9 DEF PageInv, DueIsOffered
  <2>4. DueOnce'
    BY <1>5, <1>9 DEF PageInv, DueOnce
  <2> QED
    BY <1>6, <2>1, <2>2, <2>3, <2>4 DEF PageInv
<1>10. ASSUME NEW w \in WriterFor(id),
              \A q \in Requests : streams'[q].offered =
                   IF q = w THEN Append(streams[q].offered, h) ELSE streams[q].offered,
              lock'.due = Append(lock.due, <<w, h>>)
       PROVE  PageInv'
  <2>1. w \in Requests /\ w \in Attached /\ streams[w].reveal = id
    BY DEF WriterFor, On, Attached
  <2>2. \A q \in Requests : \A g : g \in Elements(streams'[q].offered)
              <=> g \in Elements(streams[q].offered) \/ (q = w /\ g = h)
    <3>1. Elements(Append(streams[w].offered, h)) = Elements(streams[w].offered) \cup {h}
      BY <2>1, DueParts, AppendElements
    <3>2. streams'[w].offered = Append(streams[w].offered, h)
      BY <1>10, <2>1
    <3>3. \A q \in Requests : q # w => streams'[q].offered = streams[q].offered
      BY <1>10
    <3> QED
      BY <3>1, <3>2, <3>3
  <2>3. PICK n \in Nat : /\ DOMAIN lock.due = 1 .. n /\ DOMAIN lock'.due = 1 .. (n + 1)
                         /\ \A i \in 1 .. n : lock'.due[i] = lock.due[i]
                         /\ lock'.due[n + 1] = <<w, h>>
    <3>1. <<w, h>> \in Requests \X Hashes
      BY <2>1
    <3> QED
      BY <1>10, <3>1, DueParts, AppendParts
  <2>4. OfferedIsInFlight'
    <3> SUFFICES ASSUME NEW q \in Requests, NEW g \in Elements(streams'[q].offered)
                 PROVE  session'.offered[g] = streams'[q].reveal
      BY DEF OfferedIsInFlight
    <3>1. CASE g \in Elements(streams[q].offered)
      BY <1>3, <1>7, <1>e, <3>1 DEF PageInv, OfferedIsInFlight
    <3>2. CASE q = w /\ g = h
      BY <1>8, <2>1, <3>2
    <3> QED
      BY <2>2, <3>1, <3>2
  <2>5. OfferedOnce'
    <3> SUFFICES ASSUME NEW q \in Requests, NEW p \in Requests,
                        NEW g \in Elements(streams'[q].offered), g \in Elements(streams'[p].offered)
                 PROVE  q = p
      BY DEF OfferedOnce
    <3>1. CASE g = h
      BY <1>3, <2>2, <3>1
    <3>2. CASE g # h
      BY <2>2, <3>2 DEF PageInv, OfferedOnce
    <3> QED
      BY <3>1, <3>2
  <2>6. OfferedIsWritten'
    <3> SUFFICES ASSUME NEW q \in Requests, NEW g \in Elements(streams'[q].offered)
                 PROVE  copies[g] > 0 \/ \E i \in DOMAIN lock'.due : lock'.due[i] = <<q, g>>
      BY DEF OfferedIsWritten, DueFor
    <3>1. CASE q = w /\ g = h
      <4>1. n + 1 \in DOMAIN lock'.due
        BY <2>3
      <4> QED
        BY <2>3, <3>1, <4>1
    <3>2. CASE g \in Elements(streams[q].offered)
      <4>1. copies[g] > 0 \/ \E i \in DOMAIN lock.due : lock.due[i] = <<q, g>>
        BY <3>2 DEF PageInv, OfferedIsWritten, DueFor
      <4>2. \A i \in DOMAIN lock.due : i \in DOMAIN lock'.due /\ lock'.due[i] = lock.due[i]
        BY <2>3
      <4> QED
        BY <4>1, <4>2
    <3> QED
      BY <2>2, <3>1, <3>2
  <2>7. ASSUME NEW i \in DOMAIN lock'.due PROVE i = n + 1 \/ (i \in DOMAIN lock.due /\ lock'.due[i] = lock.due[i])
    BY <2>3
  <2>8. ASSUME NEW i \in DOMAIN lock.due, lock.due[i][1] \in Attached
        PROVE  /\ lock.due[i][2] # h /\ lock.due[i][1] \in Requests /\ copies[lock.due[i][2]] = 0
               /\ lock.due[i][2] \in Elements(streams[lock.due[i][1]].offered)
    BY <1>3, <2>8 DEF PageInv, DueIsOffered, Attached
  <2>9. DueIsOffered'
    <3> SUFFICES ASSUME NEW i \in DOMAIN lock'.due, lock'.due[i][1] \in Attached
                 PROVE  /\ lock'.due[i][2] \in Elements(streams'[lock'.due[i][1]].offered)
                        /\ copies[lock'.due[i][2]] = 0
      BY <1>5 DEF DueIsOffered
    <3>1. CASE i = n + 1
      <4>1. lock'.due[i][1] = w /\ lock'.due[i][2] = h
        BY <2>3, <3>1
      <4> QED
        BY <1>4, <2>1, <2>2, <4>1
    <3>2. CASE i \in DOMAIN lock.due /\ lock'.due[i] = lock.due[i]
      BY <2>2, <2>8, <3>2
    <3> QED
      BY <2>7, <3>1, <3>2
  <2>10. DueOnce'
    <3> SUFFICES ASSUME NEW i \in DOMAIN lock'.due, NEW j \in DOMAIN lock'.due,
                        lock'.due[i][1] \in Attached, lock'.due[j][1] \in Attached,
                        lock'.due[i][2] = lock'.due[j][2]
                 PROVE  i = j
      BY <1>5 DEF DueOnce
    <3>1. CASE i = n + 1
      BY <2>3, <2>7, <2>8, <3>1
    <3>2. CASE j = n + 1
      BY <2>3, <2>7, <2>8, <3>2
    <3>3. CASE i # n + 1 /\ j # n + 1
      BY <2>7, <3>3 DEF PageInv, DueOnce
    <3> QED
      BY <3>1, <3>2, <3>3
  <2> QED
    BY <1>6, <2>4, <2>5, <2>6, <2>9, <2>10 DEF PageInv
<1> QED
  BY <1>9, <1>10

LEMMA WritePages ==
    ASSUME TypeInv, LockInv, PageInv, Write
    PROVE  PageInv'
<1> PICK s : s = Head(lock.due)[1]
  OBVIOUS
<1> PICK h : h = Head(lock.due)[2]
  OBVIOUS
<1>1. /\ lock.due # <<>> /\ s \in Requests /\ h \in Hashes /\ lock'.due = Tail(lock.due)
      /\ UNCHANGED <<session, streams>>
      /\ s \in Attached => written' = written \cup {h} /\ copies' = [copies EXCEPT ![h] = @ + 1]
      /\ s \notin Attached => UNCHANGED <<written, copies>>
  BY WriteStep
<1>2. PICK n \in Nat \ {0} : /\ DOMAIN lock.due = 1 .. n /\ lock.due[1] = <<s, h>>
                             /\ DOMAIN lock'.due = 1 .. (n - 1)
                             /\ \A i \in 1 .. (n - 1) : lock'.due[i] = lock.due[i + 1]
  <2>1. /\ Head(lock.due) = lock.due[1] /\ Head(lock.due) \in Requests \X Hashes
        /\ Len(lock.due) \in Nat \ {0} /\ DOMAIN lock.due = 1 .. Len(lock.due)
        /\ DOMAIN Tail(lock.due) = 1 .. (Len(lock.due) - 1)
        /\ \A i \in 1 .. (Len(lock.due) - 1) : Tail(lock.due)[i] = lock.due[i + 1]
    BY <1>1, DueParts, TailParts
  <2>2. Head(lock.due) = <<s, h>>
    BY <2>1
  <2> QED
    BY <1>1, <2>1, <2>2
<1>3. 1 \in DOMAIN lock.due /\ \A i \in 1 .. (n - 1) : i + 1 \in DOMAIN lock.due /\ i + 1 # 1
  BY <1>2
<1>4. Attached' = Attached /\ copies \in [Hashes -> Nat]
  BY <1>1 DEF Attached, TypeInv
<1>5. s \in Attached => /\ h \in Elements(streams[s].offered) /\ copies[h] = 0 /\ copies'[h] = 1
                        /\ \A g \in Hashes : g # h => copies'[g] = copies[g]
  <2> SUFFICES ASSUME s \in Attached
               PROVE  /\ h \in Elements(streams[s].offered) /\ copies[h] = 0 /\ copies'[h] = 1
                      /\ \A g \in Hashes : g # h => copies'[g] = copies[g]
    OBVIOUS
  <2>1. lock.due[1][1] = s /\ lock.due[1][2] = h
    BY <1>2
  <2>2. h \in Elements(streams[s].offered) /\ copies[h] = 0
    BY <1>3, <2>1 DEF PageInv, DueIsOffered
  <2> QED
    BY <1>1, <1>4, <2>2
<1>6. s \notin Attached => copies' = copies /\ Elements(streams[s].offered) = {}
  BY <1>1, DueParts DEF Attached
<1>e. \A q \in Requests : Elements(streams[q].offered) \subseteq Hashes
  BY DueParts, EmptyParts
<1>7. OfferedIsInFlight' /\ OfferedOnce'
  BY <1>1 DEF PageInv, OfferedIsInFlight, OfferedOnce
<1>8. OfferedIsWritten'
  <2> SUFFICES ASSUME NEW q \in Requests, NEW g \in Elements(streams[q].offered), ~(copies'[g] > 0)
               PROVE  \E i \in DOMAIN lock'.due : lock'.due[i] = <<q, g>>
    BY <1>1 DEF OfferedIsWritten, DueFor
  <2>1. g \in Hashes /\ ~(copies[g] > 0)
    BY <1>4, <1>5, <1>6, <1>e
  <2>2. PICK i \in DOMAIN lock.due : lock.due[i] = <<q, g>>
    BY <2>1 DEF PageInv, OfferedIsWritten, DueFor
  <2>3. i # 1
    <3> SUFFICES ASSUME i = 1 PROVE FALSE
      OBVIOUS
    <3>1. q = s /\ g = h
      BY <1>2, <2>2
    <3> QED
      BY <1>5, <1>6, <3>1
  <2>4. i - 1 \in 1 .. (n - 1) /\ (i - 1) + 1 = i
    BY <1>2, <2>3
  <2> QED
    BY <1>2, <2>2, <2>4
<1>9. DueIsOffered'
  <2> SUFFICES ASSUME NEW i \in DOMAIN lock'.due, lock'.due[i][1] \in Attached
               PROVE  /\ lock'.due[i][2] \in Elements(streams[lock'.due[i][1]].offered)
                      /\ copies'[lock'.due[i][2]] = 0
    BY <1>1, <1>4 DEF DueIsOffered
  <2> PICK k \in DOMAIN lock.due : k # 1 /\ lock'.due[i] = lock.due[k]
    BY <1>2, <1>3
  <2>1. lock.due[k][1] \in Attached
    OBVIOUS
  <2>2. lock.due[k][2] \in Elements(streams[lock.due[k][1]].offered) /\ copies[lock.due[k][2]] = 0
    BY <2>1 DEF PageInv, DueIsOffered
  <2>3. s \in Attached => lock.due[k][2] # h
    BY <1>2, <1>3, <2>1 DEF PageInv, DueOnce
  <2>4. lock.due[k][2] \in Hashes
    BY <1>e, <2>1, <2>2 DEF Attached
  <2>5. copies'[lock.due[k][2]] = 0
    BY <1>5, <1>6, <2>2, <2>3, <2>4
  <2> QED
    BY <2>2, <2>5
<1>10. DueOnce'
  <2> SUFFICES ASSUME NEW i \in DOMAIN lock'.due, NEW j \in DOMAIN lock'.due,
                      lock'.due[i][1] \in Attached, lock'.due[j][1] \in Attached,
                      lock'.due[i][2] = lock'.due[j][2]
               PROVE  i = j
    BY <1>4 DEF DueOnce
  <2>0. i \in 1 .. (n - 1) /\ j \in 1 .. (n - 1)
    BY <1>2
  <2>1. i + 1 \in DOMAIN lock.due /\ j + 1 \in DOMAIN lock.due
    BY <1>3, <2>0
  <2>2. lock'.due[i] = lock.due[i + 1] /\ lock'.due[j] = lock.due[j + 1]
    BY <1>2, <2>0
  <2>3. i + 1 = j + 1
    BY <2>1, <2>2 DEF PageInv, DueOnce
  <2>4. i \in Nat /\ j \in Nat
    BY <2>0
  <2> QED
    BY <2>3, <2>4
<1>11. CountedIsKnown'
  <2> SUFFICES ASSUME NEW g \in Hashes, copies'[g] # 0
               PROVE  g \in SkipSet(session) /\ g \in written' /\ copies'[g] = 1
    BY <1>1 DEF CountedIsKnown
  <2>1. CASE s \in Attached /\ g = h
    <3>1. session.offered[h] = streams[s].reveal /\ streams[s].reveal # 0
      BY <1>1, <1>5, <2>1 DEF PageInv, OfferedIsInFlight, Attached
    <3>2. h \in SkipSet(session)
      BY <1>1, <3>1 DEF SkipSet
    <3> QED
      BY <1>1, <1>5, <2>1, <3>2
  <2>2. CASE ~(s \in Attached /\ g = h)
    <3>1. copies'[g] = copies[g] /\ written \subseteq written'
      BY <1>1, <1>5, <1>6, <2>2
    <3> QED
      BY <3>1 DEF PageInv, CountedIsKnown
  <2> QED
    BY <2>1, <2>2
<1>12. SentIsCounted'
  <2> SUFFICES ASSUME NEW g \in Elements(session.sent) PROVE copies'[g] > 0
    BY <1>1 DEF SentIsCounted
  <2>1. copies[g] > 0 /\ g \in Hashes
    <3>1. session.sent \in Seq(Hashes)
      BY DEF TypeInv, SessionInv, MidInv, Sessions
    <3> QED
      BY <3>1, EmptyParts DEF PageInv, SentIsCounted
  <2> QED
    BY <1>5, <1>6, <2>1
<1> QED
  BY <1>7, <1>8, <1>9, <1>10, <1>11, <1>12 DEF PageInv

\* The counts are taken anew where the session no longer remembers a page.
LEMMA RecountPages ==
    ASSUME TypeInv, CountedIsKnown, copies' = Recount(session'), UNCHANGED written
    PROVE  /\ CountedIsKnown'
           /\ \A h \in SkipSet(session') \cap Hashes : copies'[h] = copies[h]
           /\ \A h \in Hashes : copies[h] = 0 => copies'[h] = 0
<1>1. \A h \in Hashes : copies'[h] = IF h \in SkipSet(session') THEN copies[h] ELSE 0
  BY DEF Recount
<1> QED
  BY <1>1 DEF CountedIsKnown

LEMMA AdvancedPages ==
    ASSUME TypeInv, LockInv, PageInv, Advanced
    PROVE  PageInv'
<1>1. /\ copies' = Recount(session') /\ lock'.due = lock.due /\ session' = Settled
      /\ UNCHANGED <<streams, written>>
  BY AdvancedStep DEF Advanced
<1>2. /\ Elements(session'.sent) \subseteq Elements(session.sent)
      /\ \A h \in Hashes :
           \/ session'.offered[h] = session.offered[h]
           \/ lock.cancel # 0 /\ session.offered[h] = lock.cancel /\ session'.offered[h] = 0
  BY <1>1, SettledPages
<1>3. /\ CountedIsKnown'
      /\ \A h \in SkipSet(session') \cap Hashes : copies'[h] = copies[h]
      /\ \A h \in Hashes : copies[h] = 0 => copies'[h] = 0
  BY <1>1, RecountPages DEF PageInv
<1>4. Attached' = Attached /\ \A q \in Requests : \A h : DueFor(q, h) => DueFor(q, h)'
  BY <1>1 DEF Attached, DueFor
<1>5. \A q \in Requests : Elements(streams[q].offered) \subseteq Hashes
  BY DueParts, EmptyParts
\* A stream that stays is not of the reveal that is cancelled.
<1>6. ASSUME NEW q \in Requests, NEW h \in Elements(streams[q].offered)
      PROVE  h \in Hashes /\ session'.offered[h] = streams[q].reveal /\ h \in SkipSet(session')
  <2>1. h \in Hashes /\ streams[q].reveal # 0 /\ session.offered[h] = streams[q].reveal
    BY <1>5, DueParts DEF PageInv, OfferedIsInFlight
  <2>2. lock.cancel # 0 => streams[q].reveal # lock.cancel
    BY <2>1 DEF LockInv, On, Attached
  <2>3. session'.offered[h] = streams[q].reveal
    BY <1>2, <2>1, <2>2
  <2> QED
    BY <2>1, <2>3 DEF SkipSet
<1>7. OfferedIsInFlight' /\ OfferedOnce'
  BY <1>1, <1>6 DEF PageInv, OfferedIsInFlight, OfferedOnce
<1>8. OfferedIsWritten'
  <2> SUFFICES ASSUME NEW q \in Requests, NEW h \in Elements(streams[q].offered)
               PROVE  copies'[h] > 0 \/ DueFor(q, h)'
    BY <1>1 DEF OfferedIsWritten
  <2>1. copies[h] > 0 \/ DueFor(q, h)
    BY DEF PageInv, OfferedIsWritten
  <2>2. copies'[h] = copies[h]
    BY <1>3, <1>6
  <2> QED
    BY <1>4, <2>1, <2>2
<1>9. DueIsOffered'
  <2> SUFFICES ASSUME NEW i \in DOMAIN lock.due, lock.due[i][1] \in Attached
               PROVE  /\ lock.due[i][2] \in Elements(streams[lock.due[i][1]].offered)
                      /\ copies'[lock.due[i][2]] = 0
    BY <1>1, <1>4 DEF DueIsOffered
  <2>1. lock.due[i][2] \in Elements(streams[lock.due[i][1]].offered) /\ copies[lock.due[i][2]] = 0
    BY DEF PageInv, DueIsOffered
  <2>2. lock.due[i][2] \in Hashes
    BY <1>5, <2>1 DEF Attached
  <2> QED
    BY <1>3, <2>1, <2>2
<1>10. DueOnce'
  BY <1>1, <1>4 DEF PageInv, DueOnce
<1>11. SentIsCounted'
  <2> SUFFICES ASSUME NEW h \in Elements(session'.sent) PROVE copies'[h] > 0
    BY DEF SentIsCounted
  <2>1. session.sent \in Seq(Hashes) /\ h \in Elements(session.sent)
    BY <1>2 DEF TypeInv, SessionInv, MidInv, Sessions
  <2>2. h \in Hashes /\ copies[h] > 0
    BY <2>1, EmptyParts DEF PageInv, SentIsCounted
  <2>3. h \in SkipSet(session')
    BY DEF SkipSet
  <2> QED
    BY <1>3, <2>2, <2>3
<1> QED
  BY <1>3, <1>7, <1>8, <1>9, <1>10, <1>11 DEF PageInv

LEMMA ClosePages ==
    ASSUME TypeInv, LockInv, PageInv, NEW s \in Requests, Close(s)
    PROVE  PageInv'
<1>1. /\ lock.at = "close" /\ lock'.due = <<>> /\ streams[s].offered \in Seq(Hashes)
      /\ session' = AckPages(session, streams[s].offered) /\ copies' = Recount(session')
      /\ streams'[s].reveal = 0 /\ streams'[s].offered = <<>>
      /\ \A q \in Requests \ {s} : streams'[q] = streams[q]
      /\ UNCHANGED written
  BY CloseStep
<1>2. lock.due = <<>> /\ DOMAIN <<>> = {}
  BY <1>1 DEF LockInv
<1>3. /\ session'.offered =
           [h \in Hashes |-> IF h \in Elements(streams[s].offered) THEN 0 ELSE session.offered[h]]
      /\ Elements(session'.sent) \subseteq Elements(session.sent) \cup Elements(streams[s].offered)
  BY <1>1, AckParts DEF TypeInv
<1>4. /\ CountedIsKnown'
      /\ \A h \in SkipSet(session') \cap Hashes : copies'[h] = copies[h]
  BY <1>1, RecountPages DEF PageInv
<1>5. \A q \in Requests : Elements(streams[q].offered) \subseteq Hashes
  BY DueParts, EmptyParts
\* A stream that stays has offered other pages.
<1>6. ASSUME NEW q \in Requests, NEW h \in Elements(streams'[q].offered)
      PROVE  /\ h \in Hashes /\ q # s /\ h \in Elements(streams[q].offered)
             /\ session'.offered[h] = streams[q].reveal /\ h \in SkipSet(session')
  <2>1. q # s
    BY <1>1, EmptyParts
  <2>2. h \in Elements(streams[q].offered) /\ h \in Hashes
    BY <1>1, <1>5, <2>1
  <2>3. streams[q].reveal # 0 /\ session.offered[h] = streams[q].reveal
    BY <2>2, DueParts DEF PageInv, OfferedIsInFlight
  <2>4. h \notin Elements(streams[s].offered)
    BY <2>1, <2>2 DEF PageInv, OfferedOnce
  <2>5. session'.offered[h] = streams[q].reveal
    BY <1>3, <2>2, <2>3, <2>4
  <2> QED
    BY <2>1, <2>2, <2>3, <2>5 DEF SkipSet
<1>7. OfferedIsInFlight'
  BY <1>1, <1>6 DEF OfferedIsInFlight
<1>8. OfferedOnce'
  BY <1>6 DEF PageInv, OfferedOnce
<1>9. OfferedIsWritten'
  <2> SUFFICES ASSUME NEW q \in Requests, NEW h \in Elements(streams'[q].offered) PROVE copies'[h] > 0
    BY DEF OfferedIsWritten
  <2>1. h \in Elements(streams[q].offered) /\ copies'[h] = copies[h]
    BY <1>4, <1>6
  <2> QED
    BY <1>2, <2>1 DEF PageInv, OfferedIsWritten, DueFor
<1>10. DueIsOffered' /\ DueOnce'
  BY <1>1, <1>2 DEF DueIsOffered, DueOnce
<1>11. SentIsCounted'
  <2> SUFFICES ASSUME NEW h \in Elements(session'.sent) PROVE copies'[h] > 0
    BY DEF SentIsCounted
  <2>1. h \in Hashes /\ copies[h] > 0
    <3>1. CASE h \in Elements(session.sent)
      <4>1. session.sent \in Seq(Hashes)
        BY DEF TypeInv, SessionInv, MidInv, Sessions
      <4> QED
        BY <3>1, <4>1, EmptyParts DEF PageInv, SentIsCounted
    <3>2. CASE h \in Elements(streams[s].offered)
      BY <1>2, <1>5, <3>2 DEF PageInv, OfferedIsWritten, DueFor
    <3> QED
      BY <1>3, <3>1, <3>2
  <2>2. h \in SkipSet(session')
    BY DEF SkipSet
  <2> QED
    BY <1>4, <2>1, <2>2
<1> QED
  BY <1>4, <1>7, <1>8, <1>9, <1>10, <1>11 DEF PageInv

\* A step between the writings that offers nothing.
LEMMA StillPages ==
    ASSUME TypeInv, PageInv, lock.due = <<>>, lock'.due = <<>>,
           session'.sent = session.sent, session'.offered = session.offered,
           UNCHANGED <<written, copies>>,
           \A q \in Requests : \/ Elements(streams'[q].offered) = {}
                               \/ /\ streams'[q].reveal = streams[q].reveal
                                  /\ streams'[q].offered = streams[q].offered
    PROVE  PageInv'
<1>1. SkipSet(session') = SkipSet(session) /\ DOMAIN <<>> = {}
  BY DEF SkipSet
<1>2. \A q \in Requests : \A h \in Elements(streams'[q].offered) :
         h \in Elements(streams[q].offered) /\ streams'[q].reveal = streams[q].reveal
  OBVIOUS
<1>3. OfferedIsInFlight' /\ OfferedOnce'
  <2>1. OfferedIsInFlight'
    BY <1>2 DEF PageInv, OfferedIsInFlight
  <2>2. OfferedOnce'
    BY <1>2 DEF PageInv, OfferedOnce
  <2> QED
    BY <2>1, <2>2
<1>4. OfferedIsWritten'
  BY <1>1, <1>2 DEF PageInv, OfferedIsWritten, DueFor
<1>5. DueIsOffered' /\ DueOnce'
  BY <1>1 DEF DueIsOffered, DueOnce
<1>6. CountedIsKnown' /\ SentIsCounted'
  BY <1>1 DEF PageInv, CountedIsKnown, SentIsCounted
<1> QED
  BY <1>3, <1>4, <1>5, <1>6 DEF PageInv

LEMMA NextPage == TypeInv /\ LockInv /\ PageInv /\ [Next]_vars => PageInv'
<1> SUFFICES ASSUME TypeInv, LockInv, PageInv, [Next]_vars PROVE PageInv'
  OBVIOUS
<1>p. session' = Prepare(session) => session'.sent = session.sent /\ session'.offered = session.offered
  BY PrepareParts DEF TypeInv, SessionInv
<1>1. ASSUME NEW s \in Requests, NEW x \in Roots, Begin(s, x) PROVE PageInv'
  <2>1. /\ lock.at = "free" /\ streams'[s].offered = <<>>
        /\ \A q \in Requests \ {s} : streams'[q] = streams[q]
        /\ session' = Prepare(session) /\ lock'.due = <<>> /\ UNCHANGED <<written, copies>>
    BY <1>1, BeginStep
  <2>2. lock.due = <<>> /\ Elements(<<>>) = {}
    BY <2>1, EmptyParts DEF LockInv
  <2> QED
    BY <1>p, <2>1, <2>2, StillPages
<1>2. CASE Pump
  <2>1. /\ lock.at = "free" /\ session' = Prepare(session) /\ lock'.due = <<>>
        /\ UNCHANGED <<streams, written, copies>>
    BY <1>2, PumpStep
  <2>2. lock.due = <<>>
    BY <2>1 DEF LockInv
  <2> QED
    BY <1>p, <2>1, <2>2, StillPages
<1>3. ASSUME NEW id \in Requests, Emit(id) PROVE PageInv'
  BY <1>3, EmitPages
<1>4. CASE Advanced
  BY <1>4, AdvancedPages
<1>5. CASE Write
  BY <1>5, WritePages
<1>6. CASE WriteThrows
  <2> PICK s : s = Head(lock.due)[1]
    OBVIOUS
  <2>1. /\ lock.due # <<>> /\ s \in Attached /\ Fail(s, Planned)
        /\ Planned \in Locks /\ Planned.due = Tail(lock.due)
        /\ UNCHANGED <<written, copies>>
    BY <1>6, ThrowStep
  <2> QED
    BY <2>1, FailPages
<1>7. ASSUME NEW paused \in SUBSET Unfinished, Finish(paused) PROVE PageInv'
  <2>1. /\ lock.due = <<>> /\ lock'.due = <<>> /\ UNCHANGED <<session, streams, written, copies>>
    BY <1>7, FinishStep
  <2> QED
    BY <2>1, StillPages
<1>8. ASSUME NEW s \in Requests, Close(s) PROVE PageInv'
  BY <1>8, ClosePages
<1>9. ASSUME NEW s \in Requests, Return(s) \/ Idle(s) \/ LookAgain(s) PROVE PageInv'
  <2>1. /\ UNCHANGED <<session, lock, written, copies>>
        /\ \A q \in Requests : /\ streams'[q].reveal = streams[q].reveal
                               /\ streams'[q].offered = streams[q].offered
    BY <1>9, RequestStep
  <2>2. OfferedIsInFlight' /\ OfferedOnce' /\ OfferedIsWritten'
    BY <2>1 DEF PageInv, OfferedIsInFlight, OfferedOnce, OfferedIsWritten, DueFor
  <2>3. Attached' = Attached
    BY <2>1 DEF Attached
  <2>4. DueIsOffered' /\ DueOnce'
    BY <2>1, <2>3 DEF PageInv, DueIsOffered, DueOnce, Attached
  <2>5. CountedIsKnown' /\ SentIsCounted'
    BY <2>1 DEF PageInv, CountedIsKnown, SentIsCounted
  <2> QED
    BY <2>2, <2>4, <2>5 DEF PageInv
<1>11. ASSUME NEW s \in Requests, GiveUp(s) PROVE PageInv'
  <2>1. /\ lock.at = "free" /\ s \in Attached /\ Fail(s, Free) /\ Free \in Locks /\ Free.due = <<>>
        /\ UNCHANGED <<written, copies>>
    BY <1>11, GiveUpStep
  <2>2. lock.due = <<>>
    BY <2>1 DEF LockInv
  <2> QED
    BY <2>1, <2>2, FailPages
<1>12. CASE UNCHANGED vars
  BY <1>12 DEF vars, PageInv, OfferedIsInFlight, OfferedOnce, OfferedIsWritten, DueIsOffered, DueOnce,
               CountedIsKnown, SentIsCounted, DueFor, Attached
<1> QED
  BY <1>1, <1>2, <1>3, <1>4, <1>5, <1>6, <1>7, <1>8, <1>9, <1>11, <1>12
     DEF Next, Hold, PageDue, Resume

\* A page that counts as held was written: AckPages at the end of a stream takes
\* none that a failed stream had only offered.
THEOREM HeldAlwaysWritten == Spec => []SentIsWritten
<1>1. PageInv => SentIsWritten
  BY DEF PageInv, SentIsCounted, SentIsWritten
<1>2. TypeInv /\ LockInv /\ PageInv /\ [Next]_vars => (TypeInv /\ LockInv /\ PageInv)'
  BY NextType, NextLock, NextPage
<1> QED
  BY <1>1, <1>2, InitType, InitRest, PTL DEF Spec

\* No page is written again while the session remembers it (EmitPage, Ready).
THEOREM AlwaysWrittenOnce == Spec => []WrittenOnce
<1>1. TypeInv /\ PageInv => WrittenOnce
  <2> SUFFICES ASSUME TypeInv, PageInv, NEW h \in Hashes PROVE copies[h] <= 1
    BY DEF WrittenOnce
  <2>1. copies[h] = 0 \/ copies[h] = 1
    BY DEF PageInv, CountedIsKnown
  <2> QED
    BY <2>1
<1>2. TypeInv /\ LockInv /\ PageInv /\ [Next]_vars => (TypeInv /\ LockInv /\ PageInv)'
  BY NextType, NextLock, NextPage
<1> QED
  BY <1>1, <1>2, InitType, InitRest, PTL DEF Spec

-----------------------------------------------------------------------------
(* Streams and the reveals of their values *)

\* The reveals of a session were there before.
KeepsReveals(ses, new) ==
    new.seq = ses.seq /\ \A q \in new.reveals : \E r \in ses.reveals : Same(r, q)

LEMMA PreparedLinks ==
    ASSUME TypeInv, session' = Prepare(session)
    PROVE  /\ KeepsReveals(session, session')
           /\ \A x : LiveReveal(session', x) = {} <=> LiveReveal(session, x) = {}
<1>1. FromReveals(session, session') /\ ToReveals(session, session') /\ session'.seq = session.seq
  BY PrepareParts DEF TypeInv, SessionInv
<1> QED
  BY <1>1 DEF KeepsReveals, FromReveals, ToReveals, LiveReveal, Same

\* Streams stay linked while no reveal is added.
LEMMA StillLinked ==
    ASSUME TypeInv, KeepsReveals(session, session'), NEW s \in Requests, Linked(s),
           streams'[s].reveal = streams[s].reveal, request'[s].hash = request[s].hash
    PROVE  Linked(s)'
BY DEF KeepsReveals, Same, Linked

LEMMA QuietLinks ==
    ASSUME TypeInv, LinkInv, lock.opening = {}, lock'.opening = {}, KeepsReveals(session, session'),
           \A q \in Attached' : /\ q \in Attached /\ streams'[q].reveal = streams[q].reveal
                                /\ request'[q].hash = request[q].hash
    PROVE  LinkInv'
<1>1. ASSUME NEW q \in Attached' PROVE Linked(q)'
  <2>1. q \in Attached /\ q \in Requests /\ Linked(q)
    BY DEF LinkInv, Awaits, Attached
  <2> QED
    BY <2>1, StillLinked
<1> QED
  BY <1>1 DEF LinkInv

LEMMA NextLink == TypeInv /\ LockInv /\ LinkInv /\ [Next]_vars => LinkInv'
<1> SUFFICES ASSUME TypeInv, LockInv, LinkInv, [Next]_vars PROVE LinkInv'
  OBVIOUS
<1>0. SessionInv(session) /\ session.seq \in Nat /\ Attached \subseteq Requests
  BY DEF TypeInv, SessionInv, MidInv, Sessions, Attached
<1>r. KeepsReveals(session, session)
  BY DEF KeepsReveals, Same
<1>1. ASSUME NEW s \in Requests, NEW x \in Roots, Begin(s, x) PROVE LinkInv'
  <2> PICK id : id = RevealId(session, x)
    OBVIOUS
  <2>1. /\ lock.at = "free" /\ streams'[s].reveal = id /\ id \in Nat \ {0}
        /\ \A q \in Requests \ {s} : streams'[q] = streams[q]
        /\ request'[s].hash = {x} /\ \A q \in Requests \ {s} : request'[q] = request[q]
        /\ session' = Prepare(session) /\ lock'.opening = {x}
    BY <1>1, BeginStep
  <2>2. lock.opening = {}
    BY <2>1 DEF LockInv
  <2>3. /\ KeepsReveals(session, session')
        /\ LiveReveal(session', x) = {} <=> LiveReveal(session, x) = {}
    BY <2>1, PreparedLinks
  <2>4. ASSUME NEW q \in Attached', q # s PROVE Linked(q)'
    <3>1. q \in Attached /\ q \in Requests /\ Linked(q)
      BY <2>1, <2>2, <2>4 DEF LinkInv, Awaits, Attached
    <3> QED
      BY <2>1, <2>3, <2>4, <3>1, StillLinked
  <2>5. CASE LiveReveal(session, x) = {}
    <3>1. id = session.seq + 1 /\ session'.seq = session.seq
      BY <1>0, <2>3, <2>5, RevealIdParts DEF KeepsReveals
    <3>2. Awaits(s)'
      BY <2>1, <2>3, <2>5, <3>1 DEF Awaits
    <3>3. s \in On(session.seq + 1)'
      BY <2>1, <3>1 DEF On, Attached
    <3> QED
      BY <2>1, <2>4, <3>2, <3>3 DEF LinkInv
  <2>6. CASE LiveReveal(session, x) # {}
    <3>1. PICK r \in session.reveals : r.hash = x
      BY <2>6 DEF LiveReveal
    <3>2. r.id = id /\ r.id <= session.seq
      BY <1>0, <3>1, RevealIdParts DEF SessionInv, MidInv
    <3>3. ASSUME NEW q \in session'.reveals, q.id = id PROVE q.hash = x
      <4>1. PICK p \in session.reveals : Same(p, q)
        BY <2>3 DEF KeepsReveals
      <4>2. p = r
        BY <1>0, <3>2, <3>3, <4>1 DEF SessionInv, MidInv, Same
      <4> QED
        BY <3>1, <4>1, <4>2 DEF Same
    <3>4. Linked(s)'
      BY <2>1, <2>3, <3>2, <3>3 DEF Linked, KeepsReveals
    <3> QED
      BY <2>1, <2>3, <2>4, <2>6, <3>4 DEF LinkInv
  <2> QED
    BY <2>5, <2>6
<1>2. CASE Pump
  <2>1. /\ lock.at = "free" /\ session' = Prepare(session) /\ lock'.opening = {}
        /\ UNCHANGED <<streams, request>>
    BY <1>2, PumpStep
  <2>2. lock.opening = {} /\ KeepsReveals(session, session') /\ Attached' = Attached
    BY <2>1, PreparedLinks DEF LockInv, Attached
  <2> QED
    BY <2>1, <2>2, QuietLinks
<1>3. ASSUME NEW id \in Requests, Emit(id) PROVE LinkInv'
  <2> PICK r \in session.reveals :
        /\ r.id = id /\ r.pages # <<>>
        /\ session' = Prepare(EmitPage(session, r)) /\ UNCHANGED request
        /\ \A q \in Requests : streams'[q].reveal = streams[q].reveal
        /\ lock'.opening = lock.opening
    BY <1>3, EmitStep
  <2> PICK mid : mid = EmitPage(session, r)
    OBVIOUS
  <2>1. MidInv(mid) /\ FromReveals(session, mid) /\ ToReveals(session, mid) /\ mid.seq = session.seq
    BY <1>0, EmitParts
  <2>2. FromReveals(mid, session') /\ ToReveals(mid, session') /\ session'.seq = mid.seq
    BY <2>1, PrepareParts
  <2>3. KeepsReveals(session, session')
    BY <2>1, <2>2 DEF KeepsReveals, FromReveals, Same
  <2>4. \A x : LiveReveal(session', x) = {} <=> LiveReveal(session, x) = {}
    BY <2>1, <2>2 DEF FromReveals, ToReveals, LiveReveal, Same
  <2>5. Attached' = Attached /\ On(session.seq + 1)' = On(session.seq + 1) /\ session'.seq = session.seq
    BY <2>1, <2>2 DEF Attached, On
  <2>6. ASSUME NEW q \in Attached PROVE Linked(q)' \/ Awaits(q)'
    <3>1. CASE Linked(q)
      BY <1>0, <2>3, <3>1, StillLinked
    <3>2. CASE Awaits(q)
      BY <1>0, <2>4, <2>5, <3>2 DEF Awaits
    <3> QED
      BY <3>1, <3>2 DEF LinkInv
  <2> QED
    BY <2>4, <2>5, <2>6 DEF LinkInv
<1>4. CASE Advanced
  <2>1. /\ lock'.opening = IF lock.cancel # 0 THEN lock.opening ELSE {}
        /\ session' = Settled /\ UNCHANGED <<streams, request>>
    BY <1>4, AdvancedStep DEF Advanced
  <2>2. Attached' = Attached
    BY <2>1 DEF Attached
  <2>3. CASE lock.cancel # 0
    <3>1. lock.cancel \in Nat \ {0} /\ lock.opening = {}
      BY <2>3 DEF TypeInv, Locks, LockInv
    <3> PICK id \in Nat \ {0} : id = lock.cancel
      BY <3>1
    <3> PICK new : new = ForgetPages(CancelReveal(session, id), SetToSeq(OfferedBy(session, id)))
      OBVIOUS
    <3>2. new.reveals \subseteq session.reveals /\ new.seq = session.seq
      BY <1>0, CancelParts
    <3>3. session' = new
      BY <2>1, <2>3 DEF Settled
    <3>4. KeepsReveals(session, session')
      BY <3>2, <3>3 DEF KeepsReveals, Same
    <3> QED
      BY <2>1, <2>2, <2>3, <3>1, <3>4, QuietLinks
  <2>4. CASE lock.cancel = 0 /\ lock.opening = {}
    <3>1. session' = session
      BY <2>1, <2>4 DEF Settled
    <3> QED
      BY <1>r, <2>1, <2>2, <2>4, <3>1, QuietLinks
  <2>5. CASE lock.cancel = 0 /\ lock.opening # {}
    <3> PICK x \in lock.opening : x = CHOOSE y \in lock.opening : TRUE
      BY <2>5
    <3>1. session' = OpenReveal(session, x) /\ x \in Roots /\ lock.opening = {x}
      BY <2>1, <2>5 DEF Settled, TypeInv, Locks, LinkInv
    <3>2. /\ session'.seq \in {session.seq, session.seq + 1}
          /\ LiveReveal(session, x) = {} => session'.seq = session.seq + 1
          /\ \A q \in session'.reveals :
               \/ q \in session.reveals
               \/ LiveReveal(session, x) = {} /\ q.hash = x /\ q.id = session.seq + 1
      <4>1. /\ OpenReveal(session, x).seq \in {session.seq, session.seq + 1}
            /\ LiveReveal(session, x) = {} => OpenReveal(session, x).seq = session.seq + 1
            /\ \A q \in OpenReveal(session, x).reveals :
                 \/ q \in session.reveals
                 \/ /\ LiveReveal(session, x) = {} /\ q.hash = x /\ q.id = session.seq + 1
                    /\ Elements(Order[x]) \subseteq LeftOf(q) \cup SkipSet(session)
        BY ONLY <1>0, <3>1, OpenRevealParts
      <4> QED
        BY <3>1, <4>1
    <3>3. ASSUME NEW q \in Attached PROVE Linked(q)'
      <4>0. streams[q].reveal \in Nat
        BY <1>0 DEF TypeInv, Streams
      <4>1. CASE Linked(q)
        <5>1. streams[q].reveal <= session'.seq /\ streams[q].reveal # session.seq + 1
          BY <1>0, <3>2, <4>0, <4>1 DEF Linked
        <5> QED
          BY <2>1, <3>2, <4>1, <5>1 DEF Linked
      <4>2. CASE Awaits(q)
        <5>1. streams[q].reveal = session.seq + 1 /\ request[q].hash = {x} /\ LiveReveal(session, x) = {}
          BY <3>1, <4>2 DEF Awaits
        <5>2. \A r \in session.reveals : r.id # session.seq + 1
          BY <1>0 DEF SessionInv, MidInv, Sessions, Reveals
        <5>3. streams[q].reveal <= session'.seq
          BY <1>0, <3>2, <5>1
        <5> QED
          BY <2>1, <3>2, <5>1, <5>2, <5>3 DEF Linked
      <4> QED
        BY <4>1, <4>2 DEF LinkInv
    <3> QED
      BY <2>1, <2>2, <2>5, <3>3 DEF LinkInv
  <2> QED
    BY <2>3, <2>4, <2>5
<1>5. CASE Write
  <2>1. lock.at = "write" /\ lock'.opening = lock.opening /\ UNCHANGED <<session, streams, request>>
    BY <1>5, WriteStep
  <2>2. lock.opening = {} /\ Attached' = Attached
    BY <2>1 DEF LockInv, Attached
  <2> QED
    BY <1>r, <2>1, <2>2, QuietLinks
<1>6. CASE WriteThrows
  <2> PICK s : s = Head(lock.due)[1]
    OBVIOUS
  <2>1. /\ lock.at = "write" /\ s \in Attached /\ Fail(s, Planned)
        /\ Planned \in Locks /\ Planned.opening = lock.opening
        /\ request'[s].hash = request[s].hash
        /\ \A q \in Requests \ {s} : request'[q] = request[q]
    BY <1>6, ThrowStep
  <2>2. lock.opening = {}
    BY <2>1 DEF LockInv
  <2>3. /\ streams'[s].reveal = 0
        /\ \A q \in Requests \ {s} : streams'[q].reveal = streams[q].reveal
        /\ lock'.opening = {} /\ (session' = Prepare(session) \/ session' = session)
    BY <2>1, <2>2, FailStep
  <2>4. KeepsReveals(session, session')
    BY <1>r, <2>3, PreparedLinks
  <2> QED
    BY <2>1, <2>2, <2>3, <2>4, QuietLinks DEF Attached
<1>7. ASSUME NEW paused \in SUBSET Unfinished, Finish(paused) PROVE LinkInv'
  <2>1. lock.at = "write" /\ lock'.opening = {} /\ UNCHANGED <<session, streams, request>>
    BY <1>7, FinishStep
  <2>2. lock.opening = {} /\ Attached' = Attached
    BY <2>1 DEF LockInv, Attached
  <2> QED
    BY <1>r, <2>1, <2>2, QuietLinks
<1>8. ASSUME NEW s \in Requests, Close(s) PROVE LinkInv'
  <2>1. /\ lock.at = "close" /\ lock'.opening = {} /\ streams[s].offered \in Seq(Hashes)
        /\ session' = AckPages(session, streams[s].offered)
        /\ streams'[s].reveal = 0
        /\ \A q \in Requests \ {s} : streams'[q] = streams[q]
        /\ \A q \in Requests \ {s} : request'[q] = request[q]
    BY <1>8, CloseStep DEF Gone
  <2>2. lock.opening = {}
    BY <2>1 DEF LockInv
  <2>3. session'.reveals \subseteq session.reveals /\ session'.seq = session.seq
    BY <1>0, <2>1, AckParts
  <2>4. KeepsReveals(session, session')
    BY <2>3 DEF KeepsReveals, Same
  <2> QED
    BY <2>1, <2>2, <2>4, QuietLinks DEF Attached
<1>9. ASSUME NEW s \in Requests, Return(s) \/ Idle(s) \/ LookAgain(s) PROVE LinkInv'
  <2>1. /\ UNCHANGED <<session, lock>>
        /\ \A q \in Requests : streams'[q].reveal = streams[q].reveal
        /\ request'[s].hash = request[s].hash
        /\ \A q \in Requests \ {s} : request'[q] = request[q]
    BY <1>9, RequestStep
  <2>2. \A q \in Requests : request'[q].hash = request[q].hash
    BY <2>1
  <2>3. Attached' = Attached /\ On(session.seq + 1)' = On(session.seq + 1)
    BY <2>1 DEF Attached, On
  <2>4. \A q \in Attached : (Linked(q) => Linked(q)') /\ (Awaits(q) => Awaits(q)')
    BY <1>0, <2>1, <2>2 DEF Linked, Awaits
  <2> QED
    BY <2>1, <2>3, <2>4 DEF LinkInv
<1>11. ASSUME NEW s \in Requests, GiveUp(s) PROVE LinkInv'
  <2>1. /\ lock.at = "free" /\ s \in Attached /\ Fail(s, Free)
        /\ Free \in Locks /\ Free.opening = {}
        /\ \A q \in Requests \ {s} : request'[q] = request[q]
    BY <1>11, GiveUpStep
  <2>2. lock.opening = {}
    BY <2>1 DEF LockInv
  <2>3. /\ streams'[s].reveal = 0
        /\ \A q \in Requests \ {s} : streams'[q].reveal = streams[q].reveal
        /\ lock'.opening = {} /\ (session' = Prepare(session) \/ session' = session)
    BY <2>1, FailStep
  <2>4. KeepsReveals(session, session')
    BY <1>r, <2>3, PreparedLinks
  <2> QED
    BY <2>1, <2>2, <2>3, <2>4, QuietLinks DEF Attached
<1>12. CASE UNCHANGED vars
  BY <1>12 DEF vars, LinkInv, Linked, Awaits, On, Attached
<1> QED
  BY <1>1, <1>2, <1>3, <1>4, <1>5, <1>6, <1>7, <1>8, <1>9, <1>11, <1>12
     DEF Next, Hold, PageDue, Resume

-----------------------------------------------------------------------------
(* Complete walks *)

\* A turn of the clock keeps account of the walks.
LEMMA PreparedWalk ==
    ASSUME TypeInv, session' = Prepare(session), WalkIsWritten, RevealsAreServed,
           SkipSet(session) \subseteq Accounted, Accounted \subseteq Accounted',
           Attached \subseteq Attached', \A q \in Attached : streams'[q].reveal = streams[q].reveal
    PROVE  WalkIsWritten' /\ RevealsAreServed' /\ SkipSet(session') \subseteq Accounted'
<1>1. FromReveals(session, session') /\ SkipSet(session') = SkipSet(session)
  BY PrepareParts DEF TypeInv, SessionInv
<1>2. ASSUME NEW q \in session'.reveals
      PROVE  /\ Elements(Order[q.hash]) \subseteq Accounted' \cup LeftOf(q)
             /\ q.done \/ \E w \in Attached' : streams'[w].reveal = q.id
  <2>1. PICK r \in session.reveals : /\ Same(r, q) /\ (r.done => q.done)
                                     /\ LeftOf(r) \subseteq LeftOf(q) \cup SkipSet(session')
    BY <1>1 DEF FromReveals
  <2>2. Elements(Order[q.hash]) \subseteq Accounted \cup LeftOf(r)
    BY <2>1 DEF WalkIsWritten, Same
  <2>3. q.done \/ \E w \in Attached : streams[w].reveal = q.id
    BY <2>1 DEF RevealsAreServed, On, Same
  <2> QED
    BY <1>1, <2>1, <2>2, <2>3
<1> QED
  BY <1>1, <1>2 DEF WalkIsWritten, RevealsAreServed, On

LEMMA EmitWalk ==
    ASSUME TypeInv, LockInv, WriterInv, WalkInv, clean, NEW id, Emit(id)
    PROVE  WalkInv'
<1>0. /\ SessionInv(session) /\ lock.cancel = 0 /\ DueIsServed /\ SkipSet(session) \subseteq Accounted
      /\ RevealsAreServed /\ WalkIsWritten /\ EndedIsWritten
  BY DEF TypeInv, WalkInv
<1> PICK r \in session.reveals :
      /\ r.id = id /\ r.pages # <<>> /\ Head(r.pages) \in Hashes /\ lock.at = "advance"
      /\ session' = Prepare(EmitPage(session, r)) /\ UNCHANGED <<request, written>>
      /\ \A q \in Requests : streams'[q].reveal = streams[q].reveal
      /\ lock'.cancel = lock.cancel /\ lock'.closing = lock.closing
      /\ \/ WriterFor(id) = {}
         \/ \E w \in WriterFor(id) : lock'.due = Append(lock.due, <<w, Head(r.pages)>>)
  BY <1>0, EmitStep
<1> PICK h \in Hashes : h = Head(r.pages)
  OBVIOUS
<1>1. /\ FromReveals(session, session') /\ SkipSet(session') = SkipSet(session) \cup {h}
  <2> PICK mid : mid = EmitPage(session, r)
    OBVIOUS
  <2>1. MidInv(mid) /\ FromReveals(session, mid) /\ SkipSet(mid) = SkipSet(session) \cup {h}
    BY <1>0, EmitParts
  <2>2. FromReveals(mid, session') /\ SkipSet(session') = SkipSet(mid)
    BY <2>1, PrepareParts
  <2> QED
    BY <2>1, <2>2, FromTrans
\* The reveal is not done: it has a stream, and so a writer.
<1>2. PICK w \in WriterFor(id) : lock'.due = Append(lock.due, <<w, h>>)
  <2>1. ~r.done
    BY <1>0 DEF SessionInv, Queues, DoneIsOver
  <2>2. PICK q \in On(id) : TRUE
    BY <1>0, <2>1 DEF RevealsAreServed
  <2>3. q \in Attached \ lock.closing /\ streams[q].reveal = id
    BY <2>2 DEF LockInv, On
  <2>4. WriterFor(id) # {}
    BY <2>3 DEF WriterInv
  <2> QED
    BY <2>4
<1>3. w \in Requests /\ w \in Attached
  BY DEF WriterFor, On, Attached
<1>4. PICK n \in Nat : /\ DOMAIN lock.due = 1 .. n /\ DOMAIN lock'.due = 1 .. (n + 1)
                       /\ \A i \in 1 .. n : lock'.due[i] = lock.due[i]
                       /\ lock'.due[n + 1] = <<w, h>>
  <2>1. <<w, h>> \in Requests \X Hashes
    BY <1>3
  <2> QED
    BY <1>2, <2>1, DueParts, AppendParts
<1>5. Accounted \cup {h} \subseteq Accounted'
  <2>1. h \in DuePages'
    <3>1. n + 1 \in DOMAIN lock'.due /\ lock'.due[n + 1][2] = h
      BY <1>4
    <3> QED
      BY <3>1 DEF DuePages
  <2>2. DuePages \subseteq DuePages'
    <3>1. \A i \in DOMAIN lock.due : i \in DOMAIN lock'.due /\ lock'.due[i] = lock.due[i]
      BY <1>4
    <3> QED
      BY <3>1 DEF DuePages
  <2> QED
    BY <2>1, <2>2 DEF Accounted
<1>6. Attached' = Attached
  BY DEF Attached
<1>7. DueIsServed'
  <2> SUFFICES ASSUME NEW i \in DOMAIN lock'.due PROVE lock'.due[i][1] \in Attached
    BY <1>6 DEF DueIsServed
  <2>1. CASE i = n + 1
    BY <1>3, <1>4, <2>1
  <2>2. CASE i # n + 1
    <3>1. i \in DOMAIN lock.due /\ lock'.due[i] = lock.due[i]
      BY <1>4, <2>2
    <3> QED
      BY <1>0, <3>1 DEF DueIsServed
  <2> QED
    BY <2>1, <2>2
<1>8. ASSUME NEW q \in session'.reveals
      PROVE  /\ Elements(Order[q.hash]) \subseteq Accounted' \cup LeftOf(q)
             /\ q.done \/ \E p \in Attached : streams[p].reveal = q.id
  <2>1. PICK p \in session.reveals : /\ Same(p, q) /\ (p.done => q.done)
                                     /\ LeftOf(p) \subseteq LeftOf(q) \cup SkipSet(session')
    BY <1>1 DEF FromReveals
  <2>2. Elements(Order[q.hash]) \subseteq Accounted \cup LeftOf(p)
    BY <1>0, <2>1 DEF WalkIsWritten, Same
  <2>3. q.done \/ \E s \in Attached : streams[s].reveal = q.id
    BY <1>0, <2>1 DEF RevealsAreServed, On, Same
  <2> QED
    BY <1>0, <1>1, <1>5, <2>1, <2>2, <2>3
<1>9. WalkIsWritten' /\ RevealsAreServed'
  <2>1. \A p \in Attached : streams'[p].reveal = streams[p].reveal
    BY DEF Attached
  <2> QED
    BY <1>6, <1>8, <2>1 DEF WalkIsWritten, RevealsAreServed, On
<1>10. lock'.closing = {}
  BY DEF LockInv
<1>11. EndingIsDone' /\ EndedIsWritten'
  BY <1>0, <1>6, <1>10 DEF EndingIsDone, EndedIsWritten
<1> QED
  BY <1>0, <1>1, <1>5, <1>7, <1>9, <1>11 DEF WalkInv

LEMMA AdvancedWalk ==
    ASSUME TypeInv, LockInv, LinkInv, WalkInv, clean, Advanced
    PROVE  WalkInv'
<1>0. /\ SessionInv(session) /\ lock.cancel = 0 /\ DueIsServed /\ SkipSet(session) \subseteq Accounted
      /\ RevealsAreServed /\ WalkIsWritten /\ EndedIsWritten
  BY DEF TypeInv, WalkInv
<1>1. /\ lock.at = "advance" /\ lock'.due = lock.due /\ lock'.cancel = 0 /\ lock'.closing = lock.closing
      /\ session' = Settled /\ UNCHANGED <<streams, request, written>>
  BY AdvancedStep DEF Advanced
<1>2. Attached' = Attached /\ Accounted' = Accounted /\ lock'.closing = {}
  BY <1>1 DEF Attached, Accounted, DuePages, LockInv
<1>3. DueIsServed' /\ EndingIsDone' /\ EndedIsWritten'
  BY <1>0, <1>1, <1>2 DEF DueIsServed, EndingIsDone, EndedIsWritten
<1>4. CASE lock.opening = {}
  <2>1. session' = session
    BY <1>0, <1>1, <1>4 DEF Settled
  <2>2. WalkIsWritten' /\ RevealsAreServed'
    BY <1>0, <1>1, <1>2, <2>1 DEF WalkIsWritten, RevealsAreServed, On
  <2> QED
    BY <1>0, <1>1, <1>2, <1>3, <2>1, <2>2 DEF WalkInv
<1>5. CASE lock.opening # {}
  <2> PICK x \in lock.opening : x = CHOOSE y \in lock.opening : TRUE
    BY <1>5
  <2>1. session' = OpenReveal(session, x) /\ x \in Roots
    BY <1>0, <1>1, <1>5 DEF Settled, TypeInv, Locks
  <2>2. /\ SkipSet(session') = SkipSet(session)
        /\ \A q \in session'.reveals :
             \/ q \in session.reveals
             \/ /\ LiveReveal(session, x) = {} /\ q.hash = x /\ q.id = session.seq + 1
                /\ Elements(Order[x]) \subseteq LeftOf(q) \cup SkipSet(session)
    <3>1. /\ SkipSet(OpenReveal(session, x)) = SkipSet(session)
          /\ \A q \in OpenReveal(session, x).reveals :
               \/ q \in session.reveals
               \/ /\ LiveReveal(session, x) = {} /\ q.hash = x /\ q.id = session.seq + 1
                  /\ Elements(Order[x]) \subseteq LeftOf(q) \cup SkipSet(session)
      BY ONLY <1>0, <2>1, OpenRevealParts
    <3> QED
      BY <2>1, <3>1
  <2>3. LiveReveal(session, x) = {} => \E w \in Attached : streams[w].reveal = session.seq + 1
    BY DEF LinkInv, On
  <2>4. WalkIsWritten'
    BY <1>0, <1>2, <2>2 DEF WalkIsWritten
  <2>5. RevealsAreServed'
    BY <1>0, <1>1, <1>2, <2>2, <2>3 DEF RevealsAreServed, On
  <2> QED
    BY <1>0, <1>1, <1>2, <1>3, <2>2, <2>4, <2>5 DEF WalkInv
<1> QED
  BY <1>4, <1>5

LEMMA WriteWalk ==
    ASSUME TypeInv, LockInv, WalkInv, clean, Write
    PROVE  WalkInv'
<1>0. /\ lock.cancel = 0 /\ DueIsServed /\ SkipSet(session) \subseteq Accounted
      /\ RevealsAreServed /\ WalkIsWritten /\ EndedIsWritten
  BY DEF WalkInv
<1> PICK s : s = Head(lock.due)[1]
  OBVIOUS
<1> PICK h : h = Head(lock.due)[2]
  OBVIOUS
<1>1. /\ lock.at = "write" /\ lock.due # <<>> /\ lock'.due = Tail(lock.due) /\ lock'.cancel = lock.cancel
      /\ lock'.closing = lock.closing /\ UNCHANGED <<session, streams, request>>
      /\ s \in Attached => written' = written \cup {h}
  BY WriteStep
<1>2. PICK n \in Nat \ {0} : /\ DOMAIN lock.due = 1 .. n /\ Head(lock.due) = lock.due[1]
                             /\ DOMAIN lock'.due = 1 .. (n - 1)
                             /\ \A i \in 1 .. (n - 1) : lock'.due[i] = lock.due[i + 1]
  <2>1. /\ Head(lock.due) = lock.due[1]
        /\ Len(lock.due) \in Nat \ {0} /\ DOMAIN lock.due = 1 .. Len(lock.due)
        /\ DOMAIN Tail(lock.due) = 1 .. (Len(lock.due) - 1)
        /\ \A i \in 1 .. (Len(lock.due) - 1) : Tail(lock.due)[i] = lock.due[i + 1]
    BY <1>1, DueParts, TailParts
  <2> QED
    BY <1>1, <2>1
<1>3. 1 \in DOMAIN lock.due /\ \A i \in 1 .. (n - 1) : i + 1 \in DOMAIN lock.due
  BY <1>2
<1>4. s \in Attached /\ written' = written \cup {h}
  BY <1>0, <1>1, <1>2, <1>3 DEF DueIsServed
<1>5. Attached' = Attached /\ lock'.closing = {}
  BY <1>1 DEF Attached, LockInv
<1>6. DueIsServed'
  BY <1>0, <1>2, <1>3, <1>5 DEF DueIsServed
<1>7. Accounted \subseteq Accounted'
  <2>1. ASSUME NEW i \in DOMAIN lock.due PROVE lock.due[i][2] \in Accounted'
    <3>1. CASE i = 1
      BY <1>2, <1>4, <3>1 DEF Accounted
    <3>2. CASE i # 1
      <4>1. i - 1 \in 1 .. (n - 1) /\ (i - 1) + 1 = i
        BY <1>2, <3>2
      <4>2. i - 1 \in DOMAIN lock'.due /\ lock'.due[i - 1] = lock.due[i]
        BY <1>2, <4>1
      <4>3. lock.due[i][2] \in DuePages'
        BY <4>2 DEF DuePages
      <4> QED
        BY <4>3 DEF Accounted
    <3> QED
      BY <3>1, <3>2
  <2>2. written \subseteq Accounted'
    BY <1>4 DEF Accounted
  <2>3. DuePages \subseteq Accounted'
    BY <2>1 DEF DuePages
  <2> QED
    BY <2>2, <2>3 DEF Accounted
<1>8. WalkIsWritten' /\ RevealsAreServed'
  <2>1. WalkIsWritten'
    BY <1>0, <1>1, <1>7 DEF WalkIsWritten
  <2>2. RevealsAreServed'
    BY <1>0, <1>1, <1>5 DEF RevealsAreServed, On
  <2> QED
    BY <2>1, <2>2
<1>9. EndingIsDone' /\ EndedIsWritten'
  BY <1>0, <1>1, <1>4, <1>5 DEF EndingIsDone, EndedIsWritten
<1> QED
  BY <1>0, <1>1, <1>6, <1>7, <1>8, <1>9 DEF WalkInv

LEMMA FinishWalk ==
    ASSUME TypeInv, LockInv, LinkInv, WalkInv, clean, Finish({})
    PROVE  WalkInv'
<1>0. /\ SessionInv(session) /\ SkipSet(session) \subseteq Accounted
      /\ RevealsAreServed /\ WalkIsWritten /\ EndedIsWritten
  BY DEF TypeInv, WalkInv
<1>1. /\ lock.at = "write" /\ lock.due = <<>> /\ lock'.due = <<>> /\ lock'.closing = Ending({}) /\ lock'.cancel = 0
      /\ UNCHANGED <<session, streams, request, written>>
  BY FinishStep
<1>2. lock.opening = {} /\ lock.closing = {} /\ DOMAIN <<>> = {}
  BY <1>1 DEF LockInv
<1>3. Attached' = Attached /\ Accounted' = Accounted /\ Accounted = written
  BY <1>1, <1>2 DEF Attached, Accounted, DuePages
<1>4. DueIsServed' /\ WalkIsWritten' /\ RevealsAreServed'
  <2>1. DueIsServed'
    BY <1>1, <1>2 DEF DueIsServed
  <2>2. WalkIsWritten'
    BY <1>0, <1>1, <1>3 DEF WalkIsWritten
  <2>3. RevealsAreServed'
    BY <1>0, <1>1, <1>3 DEF RevealsAreServed, On
  <2> QED
    BY <2>1, <2>2, <2>3
<1>5. ASSUME NEW s \in Ending({})
      PROVE  /\ \A r \in session.reveals : r.id = streams[s].reveal => r.done
             /\ \A x \in request[s].hash : Elements(Order[x]) \subseteq written
  <2>1. s \in Attached /\ \E r \in session.reveals : r.id = streams[s].reveal /\ r.done
    BY DEF Ending, Revealed
  <2>2. PICK r \in session.reveals : r.id = streams[s].reveal /\ r.done
    BY <2>1
  <2>3. \A q \in session.reveals : q.id = streams[s].reveal => q = r
    BY <1>0, <2>2 DEF SessionInv, MidInv
  <2>4. Linked(s)
    BY <1>2, <2>1 DEF LinkInv, Awaits
  <2>5. request[s].hash = {r.hash}
    BY <2>2, <2>4 DEF Linked
  <2>6. r.pages = <<>> /\ r.rest = <<>>
    BY <1>0, <2>2 DEF SessionInv, Queues, DoneIsOver
  <2>7. LeftOf(r) = {}
    BY <2>6, EmptyParts DEF LeftOf
  <2>8. Elements(Order[r.hash]) \subseteq written
    BY <1>0, <1>3, <2>7 DEF WalkIsWritten
  <2> QED
    BY <2>2, <2>3, <2>5, <2>8
<1>6. EndingIsDone'
  BY <1>1, <1>5 DEF EndingIsDone
<1>7. EndedIsWritten'
  BY <1>0, <1>1, <1>3, <1>5 DEF EndedIsWritten
<1> QED
  BY <1>0, <1>1, <1>3, <1>4, <1>6, <1>7 DEF WalkInv

LEMMA CloseWalk ==
    ASSUME TypeInv, LockInv, WalkInv, clean, NEW s \in Requests, Close(s)
    PROVE  WalkInv'
<1>0. /\ SessionInv(session) /\ SkipSet(session) \subseteq Accounted
      /\ RevealsAreServed /\ WalkIsWritten /\ EndingIsDone /\ EndedIsWritten
  BY DEF TypeInv, WalkInv
<1>1. /\ lock.at = "close" /\ s \in lock.closing /\ lock'.due = <<>>
      /\ lock'.closing = lock.closing \ {s} /\ lock'.cancel = 0
      /\ streams[s].offered \in Seq(Hashes) /\ session' = AckPages(session, streams[s].offered)
      /\ streams'[s].reveal = 0
      /\ \A q \in Requests \ {s} : streams'[q] = streams[q]
      /\ request'[s].hash = request[s].hash
      /\ \A q \in Requests \ {s} : request'[q] = request[q]
      /\ UNCHANGED written
  BY CloseStep
<1>2. lock.due = <<>> /\ DOMAIN <<>> = {} /\ s \in Attached
  BY <1>1 DEF LockInv
<1>3. Attached' = Attached \ {s} /\ Attached \subseteq Requests /\ Accounted' = Accounted
  BY <1>1, <1>2 DEF Attached, Accounted, DuePages
<1>4. /\ session'.reveals \subseteq session.reveals
      /\ session'.offered =
           [h \in Hashes |-> IF h \in Elements(streams[s].offered) THEN 0 ELSE session.offered[h]]
      /\ Elements(session'.sent)
           \subseteq Elements(session.sent) \cup (Elements(streams[s].offered) \cap Flying(session))
  BY <1>0, <1>1, AckParts
<1>5. SkipSet(session') \subseteq SkipSet(session)
  <2>1. Elements(session'.sent) \subseteq SkipSet(session)
    BY <1>4 DEF SkipSet, Flying
  <2>2. Flying(session') \subseteq SkipSet(session)
    BY <1>4 DEF SkipSet, Flying
  <2> QED
    BY <2>1, <2>2 DEF SkipSet, Flying
<1>6. DueIsServed'
  BY <1>1, <1>2 DEF DueIsServed
<1>7. WalkIsWritten'
  BY <1>0, <1>3, <1>4 DEF WalkIsWritten
<1>8. RevealsAreServed'
  <2> SUFFICES ASSUME NEW r \in session.reveals, ~r.done
               PROVE  \E w \in Attached' : streams'[w].reveal = r.id
    BY <1>4 DEF RevealsAreServed, On
  <2>1. PICK w \in Attached : streams[w].reveal = r.id
    BY <1>0 DEF RevealsAreServed, On
  <2>2. w # s
    BY <1>0, <1>1, <2>1 DEF EndingIsDone
  <2> QED
    BY <1>1, <1>3, <2>1, <2>2
<1>9. EndingIsDone'
  <2> SUFFICES ASSUME NEW q \in lock.closing \ {s}, NEW r \in session.reveals, r.id = streams'[q].reveal
               PROVE  r.done
    BY <1>1, <1>4 DEF EndingIsDone
  <2>1. q \in Requests \ {s}
    BY <1>3 DEF LockInv
  <2> QED
    BY <1>0, <1>1, <2>1 DEF EndingIsDone
<1>10. EndedIsWritten'
  <2> SUFFICES ASSUME NEW q \in Requests, q \notin Attached' \/ q \in lock'.closing,
                      NEW x \in request'[q].hash
               PROVE  Elements(Order[x]) \subseteq written
    BY <1>1 DEF EndedIsWritten
  <2>1. q \notin Attached \/ q \in lock.closing
    BY <1>1, <1>3
  <2>2. x \in request[q].hash
    BY <1>1
  <2> QED
    BY <1>0, <2>1, <2>2 DEF EndedIsWritten
<1> QED
  BY <1>0, <1>1, <1>3, <1>5, <1>6, <1>7, <1>8, <1>9, <1>10 DEF WalkInv

LEMMA NextWalk ==
    TypeInv /\ LockInv /\ WriterInv /\ LinkInv /\ WalkInv /\ [Next]_vars => WalkInv'
<1> SUFFICES ASSUME TypeInv, LockInv, WriterInv, LinkInv, WalkInv, [Next]_vars PROVE WalkInv'
  OBVIOUS
<1>f. ASSUME clean' = FALSE PROVE WalkInv'
  BY <1>f DEF WalkInv
<1>n. ASSUME ~clean, clean' = clean PROVE WalkInv'
  BY <1>n DEF WalkInv
<1>0. clean =>
        /\ SkipSet(session) \subseteq Accounted
        /\ RevealsAreServed /\ WalkIsWritten /\ EndedIsWritten /\ EndingIsDone /\ DueIsServed
        /\ lock.cancel = 0
  BY DEF WalkInv
<1>1. ASSUME NEW s \in Requests, NEW x \in Roots, Begin(s, x) PROVE WalkInv'
  <2>1. /\ lock.at = "free" /\ request[s].phase = "new"
        /\ streams'[s].reveal = RevealId(session, x) /\ RevealId(session, x) \in Nat \ {0}
        /\ \A q \in Requests \ {s} : streams'[q] = streams[q]
        /\ \A q \in Requests \ {s} : request'[q] = request[q]
        /\ session' = Prepare(session)
        /\ lock'.due = <<>> /\ lock'.cancel = 0 /\ lock'.closing = {}
        /\ UNCHANGED <<written, clean>>
    BY <1>1, BeginStep
  <2>2. lock.due = <<>> /\ lock.closing = {} /\ DOMAIN <<>> = {} /\ s \notin Attached
    BY <2>1 DEF LockInv, WriterInv
  <2>3. Attached' = Attached \cup {s} /\ Attached \subseteq Requests \ {s} /\ Accounted' = Accounted
    BY <2>1, <2>2 DEF Attached, Accounted, DuePages
  <2>4. CASE clean
    <3>1. WalkIsWritten' /\ RevealsAreServed' /\ SkipSet(session') \subseteq Accounted'
      BY <1>0, <2>1, <2>3, <2>4, PreparedWalk
    <3>2. DueIsServed' /\ EndingIsDone'
      BY <2>1, <2>2 DEF DueIsServed, EndingIsDone
    <3>3. EndedIsWritten'
      BY <1>0, <2>1, <2>2, <2>3, <2>4 DEF EndedIsWritten
    <3> QED
      BY <2>1, <3>1, <3>2, <3>3 DEF WalkInv
  <2> QED
    BY <1>n, <2>1, <2>4
<1>2. CASE Pump
  <2>1. /\ lock.at = "free" /\ session' = Prepare(session)
        /\ lock'.due = <<>> /\ lock'.cancel = 0 /\ lock'.closing = {}
        /\ UNCHANGED <<streams, request, written, clean>>
    BY <1>2, PumpStep
  <2>2. lock.due = <<>> /\ lock.closing = {} /\ DOMAIN <<>> = {}
    BY <2>1 DEF LockInv
  <2>3. Attached' = Attached /\ Accounted' = Accounted
    BY <2>1, <2>2 DEF Attached, Accounted, DuePages
  <2>4. CASE clean
    <3>1. WalkIsWritten' /\ RevealsAreServed' /\ SkipSet(session') \subseteq Accounted'
      BY <1>0, <2>1, <2>3, <2>4, PreparedWalk
    <3>2. DueIsServed' /\ EndingIsDone'
      BY <2>1, <2>2 DEF DueIsServed, EndingIsDone
    <3>3. EndedIsWritten'
      BY <1>0, <2>1, <2>2, <2>3, <2>4 DEF EndedIsWritten
    <3> QED
      BY <2>1, <3>1, <3>2, <3>3 DEF WalkInv
  <2> QED
    BY <1>n, <2>1, <2>4
<1>3. ASSUME NEW id \in Requests, Emit(id) PROVE WalkInv'
  <2>1. clean' = clean
    BY <1>3 DEF Emit
  <2> QED
    BY <1>3, <1>n, <2>1, EmitWalk DEF TypeInv
<1>4. CASE Advanced
  <2>1. clean' = clean
    BY <1>4 DEF Advanced
  <2> QED
    BY <1>4, <1>n, <2>1, AdvancedWalk DEF TypeInv
<1>5. CASE Write
  <2>1. clean' = clean
    BY <1>5 DEF Write
  <2> QED
    BY <1>5, <1>n, <2>1, WriteWalk DEF TypeInv
<1>6. CASE WriteThrows
  BY <1>6, <1>f DEF WriteThrows, Broken, Fail
<1>7. ASSUME NEW paused \in SUBSET Unfinished, Finish(paused) PROVE WalkInv'
  <2>1. CASE clean /\ paused = {}
    <3>1. Finish({})
      BY <1>7, <2>1
    <3> QED
      BY <2>1, <3>1, FinishWalk
  <2>2. CASE ~(clean /\ paused = {})
    <3>1. clean' = FALSE
      BY <1>7, <2>2 DEF Finish
    <3> QED
      BY <1>f, <3>1
  <2> QED
    BY <2>1, <2>2
<1>8. ASSUME NEW s \in Requests, Close(s) PROVE WalkInv'
  <2>1. clean' = clean
    BY <1>8 DEF Close
  <2> QED
    BY <1>8, <1>n, <2>1, CloseWalk DEF TypeInv
<1>9. ASSUME NEW s \in Requests, Return(s) \/ Idle(s) \/ LookAgain(s) PROVE WalkInv'
  <2>1. /\ UNCHANGED <<session, lock, written, clean>>
        /\ \A q \in Requests : streams'[q].reveal = streams[q].reveal
        /\ request'[s].hash = request[s].hash
        /\ \A q \in Requests \ {s} : request'[q] = request[q]
    BY <1>9, RequestStep
  <2>2. \A q \in Requests : request'[q].hash = request[q].hash
    BY <2>1
  <2>3. Attached' = Attached /\ Accounted' = Accounted /\ Attached \subseteq Requests
        /\ lock.closing \subseteq Requests
    BY <2>1 DEF Attached, Accounted, DuePages, TypeInv, Locks
  <2>4. DueIsServed => DueIsServed'
    BY <2>1, <2>3 DEF DueIsServed
  <2>5. RevealsAreServed => RevealsAreServed'
    BY <2>1, <2>3 DEF RevealsAreServed, On
  <2>6. WalkIsWritten => WalkIsWritten'
    BY <2>1, <2>3 DEF WalkIsWritten
  <2>7. EndingIsDone => EndingIsDone'
    BY <2>1, <2>3 DEF EndingIsDone
  <2>8. EndedIsWritten => EndedIsWritten'
    BY <2>1, <2>2, <2>3 DEF EndedIsWritten
  <2> QED
    BY <1>0, <2>1, <2>3, <2>4, <2>5, <2>6, <2>7, <2>8 DEF WalkInv
<1>11. ASSUME NEW s \in Requests, GiveUp(s) PROVE WalkInv'
  BY <1>11, <1>f DEF GiveUp, Fail
<1>12. CASE UNCHANGED vars
  BY <1>12 DEF vars, WalkInv, DueIsServed, RevealsAreServed, WalkIsWritten, EndingIsDone, EndedIsWritten,
               Accounted, DuePages, On, Attached
<1> QED
  BY <1>1, <1>2, <1>3, <1>4, <1>5, <1>6, <1>7, <1>8, <1>9, <1>11, <1>12
     DEF Next, Hold, PageDue, Resume

\* As long as nothing failed or paused, a request that returns has the walk of
\* its value written, by whichever streams, with pages skipped that another one
\* offered, and reveals that were trimmed.
THEOREM OkAlwaysComplete == Spec => []OkIsComplete
<1>1. WriterInv /\ WalkInv => OkIsComplete
  BY DEF WriterInv, WalkInv, EndedIsWritten, OkIsComplete
<1>2. TypeInv /\ LockInv /\ WriterInv /\ LinkInv /\ WalkInv /\ [Next]_vars
        => (TypeInv /\ LockInv /\ WriterInv /\ LinkInv /\ WalkInv)'
  BY NextType, NextLock, NextWriter, NextLink, NextWalk
<1> QED
  BY <1>1, <1>2, InitType, InitRest, PTL DEF Spec
===============================================================================
