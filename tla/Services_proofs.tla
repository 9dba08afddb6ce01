----------------------------- MODULE Services_proofs -----------------------------
(***************************************************************************)
(* Proofs about services that share no state with one another: the ring of *)
(* a serial monitor session, what the hub tells its listeners, the         *)
(* recorder's files and queries, the mirrored display, the capture relay,  *)
(* and the terminal runner of the test suite.                              *)
(***************************************************************************)
EXTENDS MCServices, Integers, FiniteSetTheorems, SequenceTheorems, WellFoundedInduction, TLAPS

-----------------------------------------------------------------------------
(* Sequences.                                                              *)

LEMMA LengthIsNat == ASSUME NEW S, NEW s \in Seq(S) PROVE Len(s) \in Nat
OBVIOUS

LEMMA AppendAt ==
  ASSUME NEW S, NEW r \in Seq(S), NEW n \in S
  PROVE  /\ Append(r, n) \in Seq(S) /\ Len(Append(r, n)) = Len(r) + 1
         /\ Append(r, n)[Len(r) + 1] = n
OBVIOUS

LEMMA AppendBefore ==
  ASSUME NEW S, NEW r \in Seq(S), NEW n \in S, NEW i \in 1 .. Len(r)
  PROVE  Append(r, n)[i] = r[i]
OBVIOUS

LEMMA TailAt ==
  ASSUME NEW S, NEW r \in Seq(S), r # <<>>
  PROVE  Tail(r) \in Seq(S) /\ Len(Tail(r)) = Len(r) - 1
OBVIOUS

LEMMA TailBefore ==
  ASSUME NEW S, NEW r \in Seq(S), r # <<>>, NEW i \in 1 .. Len(r) - 1
  PROVE  Tail(r)[i] = r[i + 1]
OBVIOUS

LEMMA CutTyped ==
  ASSUME NEW S, NEW r \in Seq(S), NEW from \in 0 .. Len(r), NEW to \in from .. Len(r)
  PROVE  SubSeq(r, from + 1, to) \in Seq(S) /\ Len(SubSeq(r, from + 1, to)) = to - from
OBVIOUS

LEMMA CutAt ==
  ASSUME NEW S, NEW r \in Seq(S), NEW from \in 0 .. Len(r), NEW to \in from .. Len(r),
         NEW i \in 1 .. to - from
  PROVE  SubSeq(r, from + 1, to)[i] = r[from + i]
OBVIOUS

LEMMA JoinTyped ==
  ASSUME NEW S, NEW a \in Seq(S), NEW b \in Seq(S)
  PROVE  a \o b \in Seq(S) /\ Len(a \o b) = Len(a) + Len(b)
OBVIOUS

LEMMA JoinAt ==
  ASSUME NEW S, NEW a \in Seq(S), NEW b \in Seq(S)
  PROVE  /\ \A i \in 1 .. Len(a) : (a \o b)[i] = a[i]
         /\ \A i \in 1 .. Len(b) : (a \o b)[Len(a) + i] = b[i]
OBVIOUS

LEMMA ListTyped ==
  ASSUME NEW S, NEW n \in Nat, NEW s \in [1 .. n -> S]
  PROVE  s \in Seq(S) /\ Len(s) = n
OBVIOUS

\* A list that ends with number n and has no gap.
EndsWith(s, n) == \A i \in 1 .. Len(s) : s[i] = n - Len(s) + i

Ascending(s) == \A i, j \in 1 .. Len(s) : i < j => s[i] < s[j]

LEMMA EndsWithNext ==
  ASSUME NEW S, NEW r \in Seq(S), NEW n \in Nat, n + 1 \in S, EndsWith(r, n)
  PROVE  EndsWith(Append(r, n + 1), n + 1)
<1> SUFFICES ASSUME NEW i \in 1 .. Len(r) + 1
             PROVE  Append(r, n + 1)[i] = (n + 1) - (Len(r) + 1) + i
  BY AppendAt DEF EndsWith
<1>0. PICK k \in Nat : k = Len(r)
  OBVIOUS
<1>1. CASE i = k + 1
  <2>1. Append(r, n + 1)[i] = n + 1
    BY <1>0, <1>1, AppendAt
  <2> QED
    BY <1>0, <1>1, <2>1
<1>2. CASE i # k + 1
  <2>1. i \in 1 .. k
    BY <1>0, <1>2
  <2>2. Append(r, n + 1)[i] = r[i]
    BY <1>0, <2>1, AppendBefore
  <2>3. r[i] = n - k + i
    BY <1>0, <2>1 DEF EndsWith
  <2> QED
    BY <1>0, <2>1, <2>2, <2>3
<1> QED
  BY <1>1, <1>2

-----------------------------------------------------------------------------
(* The ring of a session.                                                  *)

LineNumbers == 1 .. MaxLines

Page == [busy : BOOLEAN, lines : Seq(LineNumbers), next : 0 .. MaxLines,
         dropped : 0 .. MaxLines, full : BOOLEAN, last : BOOLEAN]

SessionTypes ==
  /\ emitted \in 0 .. MaxLines /\ total \in 0 .. MaxLines
  /\ pio \in {"runs", "exited"} /\ drain \in {"runs", "ended"}
  /\ ring \in Seq(LineNumbers)
  /\ cursor \in [Pagers -> 0 .. MaxLines]
  /\ reply \in [Pagers -> Page]
  /\ handed \in [Pagers -> Seq(LineNumbers)]
  /\ missed \in [Pagers -> 0 .. MaxLines]

NoneAfter(s, n) == \A i \in 1 .. Len(s) : s[i] <= n

\* The ring holds the last lines that were drained, and a reader thread that has
\* ended has drained all there will be.
RingStands ==
  /\ total <= emitted /\ Len(ring) <= RingSize /\ Len(ring) <= total
  /\ EndsWith(ring, total)
  /\ drain = "ended" => pio = "exited" /\ total = emitted

\* What a call will answer follows on its caller's cursor.
PageStands(page, since) ==
  /\ since + page.dropped + Len(page.lines) = page.next
  /\ EndsWith(page.lines, page.next)
  /\ page.next <= total
  /\ page.last => drain = "ended"
  /\ page.last /\ ~page.full => page.next = emitted

CallerStands(p) ==
  /\ cursor[p] <= total
  /\ reply[p].busy => PageStands(reply[p], cursor[p])
  /\ Len(handed[p]) + missed[p] = cursor[p]
  /\ Ascending(handed[p]) /\ NoneAfter(handed[p], cursor[p])

SessionStands == SessionTypes /\ RingStands /\ \A p \in Pagers : CallerStands(p)

LEMMA LineIsNumber ==
  ASSUME NEW s \in Seq(LineNumbers), NEW i \in 1 .. Len(s)
  PROVE  s[i] \in Nat
<1>1. s[i] \in LineNumbers
  OBVIOUS
<1> QED
  BY <1>1, SessionAssumption DEF LineNumbers

\* Lines that follow one another.

LEMMA EndsWithTail ==
  ASSUME NEW r \in Seq(LineNumbers), NEW n \in Nat, EndsWith(r, n), r # <<>>
  PROVE  EndsWith(Tail(r), n)
<1> SUFFICES ASSUME NEW i \in 1 .. Len(r) - 1 PROVE Tail(r)[i] = n - (Len(r) - 1) + i
  BY TailAt DEF EndsWith
<1>0. PICK k \in Nat : k = Len(r)
  OBVIOUS
<1>1. Tail(r)[i] = r[i + 1]
  BY TailBefore
<1>2. i + 1 \in 1 .. k
  BY <1>0
<1>3. r[i + 1] = n - k + (i + 1)
  BY <1>0, <1>2 DEF EndsWith
<1> QED
  BY <1>0, <1>1, <1>2, <1>3

LEMMA EndsWithCut ==
  ASSUME NEW r \in Seq(LineNumbers), NEW n \in Nat, EndsWith(r, n),
         NEW from \in 0 .. Len(r), NEW to \in from .. Len(r)
  PROVE  EndsWith(SubSeq(r, from + 1, to), n - Len(r) + to)
<1> SUFFICES ASSUME NEW i \in 1 .. to - from
             PROVE  SubSeq(r, from + 1, to)[i] = (n - Len(r) + to) - (to - from) + i
  BY CutTyped DEF EndsWith
<1>1. SubSeq(r, from + 1, to)[i] = r[from + i]
  BY CutAt
<1>2. from + i \in 1 .. Len(r) /\ Len(r) \in Nat
  OBVIOUS
<1>3. r[from + i] = n - Len(r) + (from + i)
  BY <1>2 DEF EndsWith
<1> QED
  BY <1>1, <1>2, <1>3

LEMMA RingGrows ==
  ASSUME NEW r \in Seq(LineNumbers), NEW size \in Nat \ {0}, NEW n \in Nat, n + 1 \in LineNumbers,
         Len(r) <= size, Len(r) <= n, EndsWith(r, n), NEW s,
         s = IF Len(r) < size THEN Append(r, n + 1) ELSE Append(Tail(r), n + 1)
  PROVE  s \in Seq(LineNumbers) /\ Len(s) <= size /\ Len(s) <= n + 1 /\ EndsWith(s, n + 1)
<1>0. PICK k \in Nat : k = Len(r)
  OBVIOUS
<1>1. CASE k < size
  <2>1. s = Append(r, n + 1)
    BY <1>0, <1>1
  <2>2. s \in Seq(LineNumbers) /\ Len(s) = k + 1
    BY <1>0, <2>1, AppendAt
  <2>3. EndsWith(s, n + 1)
    BY <2>1, EndsWithNext
  <2> QED
    BY <1>0, <1>1, <2>2, <2>3
<1>2. CASE k >= size
  <2>1. r # <<>> /\ s = Append(Tail(r), n + 1) /\ k = size
    BY <1>0, <1>2
  <2>2. Tail(r) \in Seq(LineNumbers) /\ Len(Tail(r)) = k - 1 /\ EndsWith(Tail(r), n)
    BY <1>0, <2>1, TailAt, EndsWithTail
  <2>3. s \in Seq(LineNumbers) /\ Len(s) = (k - 1) + 1
    BY <2>1, <2>2, AppendAt
  <2>4. EndsWith(s, n + 1)
    BY <2>1, <2>2, EndsWithNext
  <2> QED
    BY <1>0, <2>1, <2>3, <2>4
<1> QED
  BY <1>0, <1>1, <1>2

\* The page that ReadRing cuts out of a ring of k lines that ends with line t.

PageStart(since, t, k) == Larger(since, t - k)
PageFrom(since, t, k) == PageStart(since, t, k) - (t - k)
PageTo(since, t, k, n) == Smaller(PageFrom(since, t, k) + n, k)
PageNext(since, t, k, n) == t - k + PageTo(since, t, k, n)
PageGap(since, t, k) == Larger(0, (t - k) - since)

LEMMA PageNumbers ==
  ASSUME NEW t \in Nat, NEW k \in 0 .. t, NEW since \in 0 .. t, NEW n \in Nat \ {0}
  PROVE  /\ PageFrom(since, t, k) \in 0 .. k /\ PageTo(since, t, k, n) \in PageFrom(since, t, k) .. k
         /\ PageGap(since, t, k) \in 0 .. t /\ PageNext(since, t, k, n) \in 0 .. t
         /\ PageStart(since, t, k) + (PageTo(since, t, k, n) - PageFrom(since, t, k)) = PageNext(since, t, k, n)
         /\ since + PageGap(since, t, k) + (PageTo(since, t, k, n) - PageFrom(since, t, k))
              = PageNext(since, t, k, n)
         /\ PageTo(since, t, k, n) - PageFrom(since, t, k) # n => PageNext(since, t, k, n) = t
BY DEF Larger, Smaller, PageStart, PageFrom, PageTo, PageNext, PageGap

PageOf(r, since, t, k, n) == SubSeq(r, PageFrom(since, t, k) + 1, PageTo(since, t, k, n))

LEMMA PageCut ==
  ASSUME NEW r \in Seq(LineNumbers), NEW t \in Nat, Len(r) \in 0 .. t, EndsWith(r, t),
         NEW since \in 0 .. t, NEW n \in Nat \ {0}
  PROVE  /\ PageOf(r, since, t, Len(r), n) \in Seq(LineNumbers)
         /\ since + PageGap(since, t, Len(r)) + Len(PageOf(r, since, t, Len(r), n))
              = PageNext(since, t, Len(r), n)
         /\ EndsWith(PageOf(r, since, t, Len(r), n), PageNext(since, t, Len(r), n))
<1>0. PICK k, from, to, slice : /\ k = Len(r) /\ from = PageFrom(since, t, k) /\ to = PageTo(since, t, k, n)
                              /\ slice = PageOf(r, since, t, k, n)
  OBVIOUS
<1>1. from \in 0 .. k /\ to \in from .. k
  BY <1>0, PageNumbers
<1>2. slice = SubSeq(r, from + 1, to)
  BY <1>0 DEF PageOf
<1>3. slice \in Seq(LineNumbers) /\ Len(slice) = to - from
  BY <1>0, <1>1, <1>2, CutTyped
<1>4. EndsWith(slice, t - k + to)
  <2>1. from \in 0 .. Len(r) /\ to \in from .. Len(r)
    BY <1>0, <1>1
  <2>2. EndsWith(SubSeq(r, from + 1, to), t - Len(r) + to)
    BY <2>1, EndsWithCut
  <2> QED
    BY <1>0, <1>2, <2>2
<1>5. since + PageGap(since, t, k) + (to - from) = PageNext(since, t, k, n)
  BY <1>0, PageNumbers
<1>6. PageNext(since, t, k, n) = t - k + to
  BY <1>0 DEF PageNext
<1> QED
  BY <1>0, <1>3, <1>4, <1>5, <1>6

\* A page that follows on what a caller was handed.
LEMMA Follows ==
  ASSUME NEW h \in Seq(LineNumbers), NEW page \in Seq(LineNumbers), NEW since \in Nat,
         NEW next \in Nat, NEW k \in Nat, NEW m \in Nat, k = Len(h), m = Len(page),
         since + m <= next, Ascending(h), NoneAfter(h, since), EndsWith(page, next)
  PROVE  Ascending(h \o page) /\ NoneAfter(h \o page, next)
<1>0. PICK all : all = h \o page
  OBVIOUS
<1>1. Len(all) = k + m
  BY <1>0, JoinTyped
<1>2. ASSUME NEW i \in 1 .. k PROVE all[i] = h[i] /\ all[i] \in Nat /\ all[i] <= since
  BY <1>0, JoinAt, LineIsNumber DEF NoneAfter
<1>3. ASSUME NEW i \in 1 .. m PROVE all[k + i] = next - m + i
  BY <1>0, JoinAt DEF EndsWith
<1>4. ASSUME NEW i \in 1 .. k + m, i \notin 1 .. k
      PROVE  i - k \in 1 .. m /\ all[i] = next - m + (i - k)
  <2>1. i - k \in 1 .. m /\ k + (i - k) = i
    BY <1>4
  <2> QED
    BY <1>3, <2>1
<1>5. NoneAfter(all, next)
  <2> SUFFICES ASSUME NEW i \in 1 .. k + m PROVE all[i] <= next
    BY <1>1 DEF NoneAfter
  <2>1. CASE i \in 1 .. k
    <3>1. all[i] \in Nat /\ all[i] <= since
      BY <1>2, <2>1
    <3> QED
      BY <3>1
  <2>2. CASE i \notin 1 .. k
    <3>1. i - k \in 1 .. m /\ all[i] = next - m + (i - k)
      BY <1>4, <2>2
    <3> QED
      BY <3>1
  <2> QED
    BY <2>1, <2>2
<1>6. Ascending(all)
  <2> SUFFICES ASSUME NEW i \in 1 .. k + m, NEW j \in 1 .. k + m, i < j
               PROVE  all[i] < all[j]
    BY <1>1 DEF Ascending
  <2>1. CASE i \in 1 .. k /\ j \in 1 .. k
    <3>1. all[i] = h[i] /\ all[j] = h[j]
      BY <1>2, <2>1
    <3>2. h[i] < h[j]
      BY <2>1 DEF Ascending
    <3> QED
      BY <3>1, <3>2
  <2>2. CASE i \in 1 .. k /\ j \notin 1 .. k
    <3>1. all[i] \in Nat /\ all[i] <= since
      BY <1>2, <2>2
    <3>2. j - k \in 1 .. m /\ all[j] = next - m + (j - k)
      BY <1>4, <2>2
    <3> QED
      BY <3>1, <3>2
  <2>3. CASE i \notin 1 .. k /\ j \notin 1 .. k
    <3>1. all[i] = next - m + (i - k) /\ all[j] = next - m + (j - k)
      BY <1>4, <2>3
    <3> QED
      BY <3>1
  <2>4. ~(i \notin 1 .. k /\ j \in 1 .. k)
    OBVIOUS
  <2> QED
    BY <2>1, <2>2, <2>3, <2>4
<1> QED
  BY <1>0, <1>5, <1>6

LEMMA PageFollows ==
  ASSUME NEW h \in Seq(LineNumbers), NEW page \in Seq(LineNumbers),
         NEW since \in Nat, NEW gap \in Nat, NEW skipped \in Nat, NEW next \in Nat,
         Len(h) + skipped = since, since + gap + Len(page) = next,
         Ascending(h), NoneAfter(h, since), EndsWith(page, next)
  PROVE  /\ h \o page \in Seq(LineNumbers) /\ Len(h \o page) + (skipped + gap) = next
         /\ Ascending(h \o page) /\ NoneAfter(h \o page, next)
<1>0. PICK k \in Nat, m \in Nat : k = Len(h) /\ m = Len(page)
  OBVIOUS
<1>1. h \o page \in Seq(LineNumbers) /\ Len(h \o page) = k + m
  BY <1>0, JoinTyped
<1>2. since + m <= next /\ (k + m) + (skipped + gap) = next
  BY <1>0
<1>3. Ascending(h \o page) /\ NoneAfter(h \o page, next)
  BY <1>0, <1>2, Follows
<1> QED
  BY <1>1, <1>2, <1>3

LEMMA SessionStandsInit == SessionInit => SessionStands
<1> SUFFICES ASSUME SessionInit PROVE SessionStands
  OBVIOUS
<1>1. <<>> \in Seq(LineNumbers) /\ Len(<<>>) = 0
  OBVIOUS
<1>2. 0 \in 0 .. MaxLines /\ RingSize \in Nat /\ NoReply \in Page
  BY <1>1, SessionAssumption DEF NoReply, Page
<1>3. SessionTypes
  BY <1>1, <1>2 DEF SessionInit, SessionTypes
<1>4. RingStands
  BY <1>1, <1>2 DEF SessionInit, RingStands, EndsWith
<1>5. ASSUME NEW p \in Pagers PROVE CallerStands(p)
  BY <1>1, <1>5 DEF SessionInit, CallerStands, NoReply, Ascending, NoneAfter
<1> QED
  BY <1>3, <1>4, <1>5 DEF SessionStands

LEMMA SessionStandsNext == SessionStands /\ [SessionNext]_sessionVars => SessionStands'
<1> SUFFICES ASSUME SessionStands, [SessionNext]_sessionVars PROVE SessionStands'
  OBVIOUS
<1>0. SessionTypes /\ RingStands /\ MaxLines \in Nat /\ RingSize \in Nat \ {0}
  BY SessionAssumption DEF SessionStands
<1>1. CASE PioPrints \/ PioExits \/ DrainEnds \/ UNCHANGED sessionVars
  <2>1. /\ UNCHANGED <<ring, total, cursor, reply, handed, missed>>
        /\ emitted' \in 0 .. MaxLines /\ emitted <= emitted' /\ pio' \in {"runs", "exited"}
        /\ drain' \in {"runs", "ended"}
        /\ drain = "ended" => drain' = "ended" /\ pio' = "exited" /\ emitted' = emitted
        /\ drain' = "ended" => pio' = "exited" /\ total = emitted'
    BY <1>0, <1>1 DEF PioPrints, PioExits, DrainEnds, sessionVars, pagerVars, SessionTypes,
       RingStands
  <2>2. SessionTypes'
    BY <1>0, <2>1 DEF SessionTypes
  <2>3. RingStands'
    BY <1>0, <2>1 DEF SessionTypes, RingStands
  <2>4. ASSUME NEW p \in Pagers PROVE CallerStands(p)'
    <3>1. CallerStands(p)
      BY DEF SessionStands
    <3> QED
      BY <2>1, <3>1 DEF CallerStands, PageStands
  <2> QED
    BY <2>2, <2>3, <2>4 DEF SessionStands
<1>2. CASE DrainLine
  <2>1. /\ UNCHANGED <<emitted, pio, drain, cursor, reply, handed, missed>>
        /\ drain = "runs" /\ total' = total + 1 /\ total + 1 \in LineNumbers /\ total < emitted
        /\ ring' = IF Len(ring) < RingSize THEN Append(ring, total + 1)
                   ELSE Append(Tail(ring), total + 1)
    BY <1>0, <1>2 DEF DrainLine, pagerVars, SessionTypes, LineNumbers
  <2>2. /\ total + 1 \in Nat /\ total \in Nat /\ emitted \in Nat /\ Len(ring) \in Nat
    BY <1>0 DEF SessionTypes
  <2>3. /\ ring' \in Seq(LineNumbers) /\ Len(ring') <= RingSize /\ Len(ring') <= total + 1
        /\ EndsWith(ring', total + 1)
    BY <1>0, <2>1, <2>2, RingGrows DEF SessionTypes, RingStands
  <2>4. SessionTypes'
    BY <1>0, <2>1, <2>3 DEF SessionTypes, LineNumbers
  <2>5. RingStands'
    BY <1>0, <2>1, <2>2, <2>3 DEF RingStands
  <2>6. ASSUME NEW p \in Pagers PROVE CallerStands(p)'
    <3>1. CallerStands(p) /\ cursor[p] \in Nat /\ reply[p] \in Page
      BY <1>0 DEF SessionStands, SessionTypes
    <3>2. reply[p].next \in Nat
      BY <3>1 DEF Page
    <3> QED
      BY <2>1, <2>2, <3>1, <3>2 DEF CallerStands, PageStands
  <2> QED
    BY <2>4, <2>5, <2>6 DEF SessionStands
<1>3. ASSUME NEW p \in Pagers, NEW n \in 1 .. MaxPage, ReadRing(p, n) PROVE SessionStands'
  <2>1. CallerStands(p) /\ cursor[p] \in 0 .. total /\ total \in Nat /\ n \in Nat \ {0}
    BY <1>0, SessionAssumption DEF SessionStands, SessionTypes, CallerStands
  <2>2. PICK k, since : k = Len(ring) /\ since = cursor[p]
    OBVIOUS
  <2>3. k \in 0 .. total /\ since \in 0 .. total /\ EndsWith(ring, total)
    BY <1>0, <2>1, <2>2 DEF SessionTypes, RingStands
  <2>4. PICK from, to, next, slice, gap, full, last :
          /\ from = PageFrom(since, total, k) /\ to = PageTo(since, total, k, n)
          /\ next = PageNext(since, total, k, n) /\ slice = SubSeq(ring, from + 1, to)
          /\ gap = PageGap(since, total, k) /\ full = (to - from = n) /\ last = (drain = "ended")
    OBVIOUS
  <2>a. /\ slice \in Seq(LineNumbers) /\ since + gap + Len(slice) = next /\ EndsWith(slice, next)
    <3>1. ring \in Seq(LineNumbers) /\ total \in Nat /\ n \in Nat \ {0}
      BY <1>0, <2>1 DEF SessionTypes
    <3>2. slice = PageOf(ring, since, total, k, n)
      BY <2>4 DEF PageOf
    <3>3. /\ PageOf(ring, since, total, Len(ring), n) \in Seq(LineNumbers)
          /\ since + PageGap(since, total, Len(ring)) + Len(PageOf(ring, since, total, Len(ring), n))
               = PageNext(since, total, Len(ring), n)
          /\ EndsWith(PageOf(ring, since, total, Len(ring), n), PageNext(since, total, Len(ring), n))
      BY <2>2, <2>3, <3>1, PageCut
    <3> QED
      BY <2>2, <2>4, <3>2, <3>3
  <2>b. /\ gap \in 0 .. total /\ next \in 0 .. total
        /\ PageStart(since, total, k) + (to - from) = next
        /\ to - from # n => next = total
    <3>1. total \in Nat /\ n \in Nat \ {0}
      BY <2>1
    <3>2. k \in 0 .. total /\ since \in 0 .. total
      BY <2>3
    <3>3. PageGap(since, total, k) \in 0 .. total /\ PageNext(since, total, k, n) \in 0 .. total
      BY <3>1, <3>2, PageNumbers
    <3>4. PageStart(since, total, k) + (PageTo(since, total, k, n) - PageFrom(since, total, k))
            = PageNext(since, total, k, n)
      BY <3>1, <3>2, PageNumbers
    <3>5. PageTo(since, total, k, n) - PageFrom(since, total, k) # n => PageNext(since, total, k, n) = total
      BY <3>1, <3>2, PageNumbers
    <3> QED
      BY <2>4, <3>3, <3>4, <3>5
  <2>c. PICK page : /\ page = [busy |-> TRUE, lines |-> slice, next |-> next, dropped |-> gap,
                               full |-> full, last |-> last]
                    /\ reply' = [reply EXCEPT ![p] = page]
    BY <1>3, <2>2, <2>4, <2>b DEF ReadRing, HeadCursor, Dropped, NextCursor, PageStart, PageFrom, PageTo, PageGap
  <2>d. gap \in 0 .. MaxLines /\ next \in 0 .. MaxLines /\ full \in BOOLEAN /\ last \in BOOLEAN
    BY <1>0, <2>4, <2>b DEF SessionTypes
  <2>e. /\ page \in Page /\ page.lines = slice /\ page.next = next /\ page.dropped = gap
        /\ page.full = full /\ page.last = last
    BY <2>a, <2>c, <2>d DEF Page
  <2>5. UNCHANGED <<emitted, pio, drain, ring, total, cursor, handed, missed>>
    BY <1>3 DEF ReadRing
  <2>6. PageStands(page, cursor[p])
    <3>1. next <= total
      BY <2>1, <2>b
    <3>2. last => drain = "ended" /\ total = emitted
      BY <1>0, <2>4 DEF RingStands
    <3>3. ~full => next = total
      BY <2>4, <2>b
    <3> QED
      BY <2>2, <2>a, <2>e, <3>1, <3>2, <3>3 DEF PageStands
  <2>7. SessionTypes'
    BY <1>0, <2>c, <2>e, <2>5 DEF SessionTypes
  <2>8. RingStands'
    BY <1>0, <2>5 DEF RingStands
  <2>9. ASSUME NEW q \in Pagers PROVE CallerStands(q)'
    <3>1. CallerStands(q)
      BY DEF SessionStands
    <3>2. reply'[q] = IF q = p THEN page ELSE reply[q]
      BY <1>0, <2>c DEF SessionTypes
    <3>3. PageStands(page, cursor[p])'
      BY <2>5, <2>6 DEF PageStands
    <3> QED
      BY <2>5, <3>1, <3>2, <3>3 DEF CallerStands, PageStands
  <2> QED
    BY <2>7, <2>8, <2>9 DEF SessionStands
<1>4. ASSUME NEW p \in Pagers, ReadReturns(p) PROVE SessionStands'
  <2>1. CallerStands(p) /\ reply[p] \in Page /\ reply[p].busy /\ PageStands(reply[p], cursor[p])
    BY <1>0, <1>4 DEF SessionStands, SessionTypes, CallerStands, ReadReturns
  <2>2. PICK page, since, told, skipped :
          /\ page = reply[p].lines /\ since = cursor[p] /\ told = handed[p] /\ skipped = missed[p]
    OBVIOUS
  <2>3. PICK next, gap : next = reply[p].next /\ gap = reply[p].dropped
    OBVIOUS
  <2>4. /\ page \in Seq(LineNumbers) /\ next \in 0 .. MaxLines /\ gap \in 0 .. MaxLines
        /\ told \in Seq(LineNumbers) /\ skipped \in 0 .. MaxLines /\ since \in 0 .. MaxLines
    BY <1>0, <2>1, <2>2, <2>3 DEF Page, SessionTypes
  <2>5. /\ next \in Nat /\ gap \in Nat /\ skipped \in Nat /\ since \in Nat /\ LineNumbers \subseteq Nat
        /\ Len(told) + skipped = since /\ since + gap + Len(page) = next /\ next <= total
        /\ Ascending(told) /\ NoneAfter(told, since) /\ EndsWith(page, next)
    BY <1>0, <2>1, <2>2, <2>3, <2>4 DEF CallerStands, PageStands, LineNumbers
  <2>6. PICK all : /\ all = told \o page /\ all \in Seq(LineNumbers)
                   /\ Len(all) + (skipped + gap) = next
                   /\ Ascending(all) /\ NoneAfter(all, next)
    BY <2>4, <2>5, PageFollows, ZenonT(60)
  <2>7. /\ cursor' = [cursor EXCEPT ![p] = next] /\ handed' = [handed EXCEPT ![p] = all]
        /\ missed' = [missed EXCEPT ![p] = skipped + gap] /\ reply' = [reply EXCEPT ![p] = NoReply]
        /\ UNCHANGED <<emitted, pio, drain, ring, total>>
    BY <1>0, <1>4, <2>2, <2>3, <2>6 DEF ReadReturns, SessionTypes
  <2>8. NoReply \in Page /\ NoReply.busy = FALSE /\ 0 \in 0 .. MaxLines
    BY <1>0 DEF NoReply, Page
  <2>9. skipped + gap \in 0 .. MaxLines
    <3>1. Len(all) \in Nat
      BY <2>6
    <3> QED
      BY <1>0, <2>4, <2>5, <2>6, <3>1
  <2>10. SessionTypes'
    BY <1>0, <2>4, <2>6, <2>7, <2>8, <2>9 DEF SessionTypes
  <2>11. RingStands'
    BY <1>0, <2>7 DEF RingStands
  <2>12. ASSUME NEW q \in Pagers PROVE CallerStands(q)'
    <3>1. CallerStands(q)
      BY DEF SessionStands
    <3>2. CASE q = p
      <4>1. /\ cursor'[q] = next /\ handed'[q] = all /\ missed'[q] = skipped + gap
            /\ reply'[q] = NoReply
        BY <1>0, <2>7, <3>2 DEF SessionTypes
      <4> QED
        BY <2>5, <2>6, <2>7, <2>8, <4>1 DEF CallerStands
    <3>3. CASE q # p
      <4>1. /\ cursor'[q] = cursor[q] /\ handed'[q] = handed[q] /\ missed'[q] = missed[q]
            /\ reply'[q] = reply[q]
        BY <1>0, <2>7, <3>3 DEF SessionTypes
      <4> QED
        BY <2>7, <3>1, <4>1 DEF CallerStands, PageStands
    <3> QED
      BY <3>2, <3>3
  <2> QED
    BY <2>10, <2>11, <2>12 DEF SessionStands
<1> QED
  BY <1>1, <1>2, <1>3, <1>4 DEF SessionNext

LEMMA SessionInvFollows == SessionStands => SessionInv
<1> SUFFICES ASSUME SessionStands PROVE SessionInv
  OBVIOUS
<1>0. SessionTypes /\ RingStands /\ \A p \in Pagers : CallerStands(p)
  BY DEF SessionStands
<1>1. SessionTypeOK
  BY <1>0 DEF SessionTypes, RingStands, SessionTypeOK, LineNumbers, Page
<1>2. CursorAccounts
  BY <1>0 DEF CallerStands, CursorAccounts
<1>3. EachLineOnce
  <2> SUFFICES ASSUME NEW p \in Pagers
               PROVE  /\ \A i, j \in DOMAIN handed[p] : i < j => handed[p][i] < handed[p][j]
                      /\ \A i \in DOMAIN handed[p] : handed[p][i] <= cursor[p]
    BY DEF EachLineOnce
  <2>1. DOMAIN handed[p] = 1 .. Len(handed[p])
    BY <1>0 DEF SessionTypes
  <2> QED
    BY <1>0, <2>1 DEF CallerStands, Ascending, NoneAfter
<1>4. LastPageIsLast
  BY <1>0 DEF CallerStands, PageStands, LastPageIsLast
<1> QED
  BY <1>1, <1>2, <1>3, <1>4 DEF SessionInv

\* However the ring moves between the calls of a caller, it is handed every line once
\* and in order, or told how many it missed, to the end of the log
\* (serial_session.py: _drain and read_session).
THEOREM SessionInvAlways == SessionSpec => []SessionInv
<1> QED
  BY SessionStandsInit, SessionStandsNext, SessionInvFollows, PTL DEF SessionSpec

-----------------------------------------------------------------------------
(* What a listener of the hub is told.                                     *)

FrameKinds == {"started", "beat", "line", "done"}

NoDone(s) == \A i \in 1 .. Len(s) : s[i] # "done"

OneDone(s) == \E i \in 1 .. Len(s) : \A j \in 1 .. Len(s) : s[j] = "done" <=> j = i

InOrder(s) == \A i, j \in 1 .. Len(s) :
  /\ s[j] = "started" => j = 1
  /\ s[i] = "done" /\ i < j => s[j] = "line"

Walk == [busy : BOOLEAN, todo : SUBSET Peers, to : Peers \cup {NoPeer}, dead : SUBSET Peers]

HubTypes ==
  /\ conns \subseteq Peers /\ topics \subseteq Peers /\ broken \subseteq Peers
  /\ heard \subseteq Peers
  /\ got \in [Peers -> Seq(FrameKinds)]
  /\ action \in {"new", "starts", "body", "stops", "ends", "over"}
  /\ heartbeat \in {"off", "sleeps", "publishes", "over"}
  /\ beats \in 0 .. MaxBeats /\ lines \subseteq Lines
  /\ pub \in [Publishers -> Walk]
  /\ cut \in BOOLEAN

\* Who may be publishing, by how far the action is.
Talking ==
  /\ pub["action"].busy <=> action \in {"starts", "ends"}
  /\ pub["heartbeat"].busy <=> heartbeat = "publishes"
  /\ heartbeat \in {"sleeps", "publishes"} => action = "body"
  /\ \A n \in Lines : pub[n].busy => action \notin {"new", "starts"}
  /\ \A w \in Publishers : pub[w].to # NoPeer => pub[w].busy
  /\ heard = {} \/ action \in {"ends", "over"}
  /\ heard \subseteq topics \ broken

\* How far a peer's frames are.
PeerStands(p) ==
  /\ InOrder(got[p])
  /\ action = "new" => got[p] = <<>>
  /\ action = "starts" /\ p \in pub["action"].todo => got[p] = <<>>
  /\ action \in {"starts", "body", "stops"} => NoDone(got[p])
  /\ action = "ends" /\ p \in pub["action"].todo => NoDone(got[p])
  /\ action = "ends" /\ p \in heard => p \in pub["action"].todo \/ OneDone(got[p])
  /\ action = "over" /\ p \in heard => OneDone(got[p])

HubStands == HubTypes /\ Talking /\ \A p \in Peers : PeerStands(p)

LEMMA NothingYet == <<>> \in Seq(FrameKinds) /\ NoDone(<<>>) /\ InOrder(<<>>)
BY DEF NoDone, InOrder

\* A frame more.
LEMMA FrameAdded ==
  ASSUME NEW s \in Seq(FrameKinds), NEW kind \in FrameKinds, InOrder(s),
         kind = "started" => Len(s) = 0, kind \in {"beat", "done"} => NoDone(s)
  PROVE  /\ Append(s, kind) \in Seq(FrameKinds) /\ InOrder(Append(s, kind))
         /\ NoDone(s) => IF kind = "done" THEN OneDone(Append(s, kind)) ELSE NoDone(Append(s, kind))
         /\ OneDone(s) /\ kind # "done" => OneDone(Append(s, kind))
<1> DEFINE a == Append(s, kind)
<1>a. PICK k \in Nat : k = Len(s)
  BY LengthIsNat
<1>0. k = Len(s) /\ a = Append(s, kind)
  BY <1>a
<1> HIDE DEF a
<1>1. a \in Seq(FrameKinds) /\ Len(a) = k + 1 /\ a[k + 1] = kind
  BY <1>0, AppendAt
<1>2. ASSUME NEW i \in 1 .. k PROVE a[i] = s[i]
  BY <1>0, AppendBefore
<1>3. \A i \in 1 .. k + 1 : i \in 1 .. k \/ i = k + 1
  OBVIOUS
<1>4. InOrder(a)
  <2> SUFFICES ASSUME NEW i \in 1 .. k + 1, NEW j \in 1 .. k + 1
               PROVE  /\ a[j] = "started" => j = 1
                      /\ a[i] = "done" /\ i < j => a[j] = "line"
    BY <1>1 DEF InOrder
  <2>1. CASE i \in 1 .. k /\ j \in 1 .. k
    BY <1>0, <1>2, <2>1 DEF InOrder
  <2>2. CASE i \in 1 .. k /\ j = k + 1
    <3>1. a[i] = s[i] /\ (kind = "started" => k = 0)
      BY <1>0, <1>2, <2>2
    <3>2. s[i] = "done" => kind = "line"
      BY <1>0, <2>2 DEF NoDone, FrameKinds
    <3> QED
      BY <1>1, <2>2, <3>1, <3>2
  <2>3. CASE i = k + 1 /\ j \in 1 .. k
    BY <1>0, <1>2, <2>3 DEF InOrder
  <2>4. CASE i = k + 1 /\ j = k + 1
    <3>1. kind = "started" => k = 0
      BY <1>0
    <3> QED
      BY <1>1, <2>4, <3>1
  <2> QED
    BY <1>3, <2>1, <2>2, <2>3, <2>4
<1>5. ASSUME NoDone(s), kind # "done" PROVE NoDone(a)
  BY <1>0, <1>1, <1>2, <1>3, <1>5 DEF NoDone
<1>6. ASSUME NoDone(s), kind = "done" PROVE OneDone(a)
  <2>1. \A j \in 1 .. k + 1 : a[j] = "done" <=> j = k + 1
    <3> SUFFICES ASSUME NEW j \in 1 .. k + 1 PROVE a[j] = "done" <=> j = k + 1
      OBVIOUS
    <3>1. CASE j = k + 1
      BY <1>1, <1>6, <3>1
    <3>2. CASE j \in 1 .. k
      BY <1>0, <1>2, <1>6, <3>2 DEF NoDone
    <3> QED
      BY <1>3, <3>1, <3>2
  <2>2. k + 1 \in 1 .. k + 1
    OBVIOUS
  <2> QED
    BY <1>1, <2>1, <2>2 DEF OneDone
<1>7. ASSUME OneDone(s), kind # "done" PROVE OneDone(a)
  <2>1. PICK i \in 1 .. k : \A j \in 1 .. k : s[j] = "done" <=> j = i
    BY <1>0, <1>7 DEF OneDone
  <2>2. i \in 1 .. k + 1
    OBVIOUS
  <2>3. \A j \in 1 .. k + 1 : a[j] = "done" <=> j = i
    <3> SUFFICES ASSUME NEW j \in 1 .. k + 1 PROVE a[j] = "done" <=> j = i
      OBVIOUS
    <3>1. CASE j = k + 1
      BY <1>1, <1>7, <3>1
    <3>2. CASE j \in 1 .. k
      BY <1>2, <2>1, <3>2
    <3> QED
      BY <1>3, <3>1, <3>2
  <2>4. PICK d : d = 1 .. k + 1
    OBVIOUS
  <2>5. d = 1 .. Len(a)
    BY <1>1, <2>4
  <2>6. \E f \in d : \A j \in d : a[j] = "done" <=> j = f
    BY <2>2, <2>3, <2>4
  <2> QED
    BY <2>5, <2>6 DEF OneDone
<1> QED
  BY <1>0, <1>1, <1>4, <1>5, <1>6, <1>7

LEMMA HubStandsInit == HubInit => HubStands
<1> SUFFICES ASSUME HubInit PROVE HubStands
  OBVIOUS
<1>1. Quiet \in Walk
  BY DEF Quiet, Walk
<1>2. HubTypes
  <2>1. 0 \in 0 .. MaxBeats
    BY HubAssumption
  <2> QED
    BY <1>1, <2>1, NothingYet DEF HubInit, HubTypes
<1>3. Talking
  BY DEF HubInit, Talking, Publishers, Quiet
<1>4. \A p \in Peers : PeerStands(p)
  BY NothingYet DEF HubInit, PeerStands
<1> QED
  BY <1>2, <1>3, <1>4 DEF HubStands

\* Connections.
LEMMA ConnectionsKeep ==
  ASSUME HubStands, NEW p \in Peers,
         Connect(p) \/ Subscribe(p) \/ Unsubscribe(p) \/ Breaks(p) \/ HandlerRemoves(p)
  PROVE  HubStands'
<1>0. HubTypes /\ Talking
  BY DEF HubStands
<1>1. UNCHANGED <<got, actionVars, pub>>
  BY DEF Connect, Subscribe, Unsubscribe, Breaks, HandlerRemoves
<1>2. /\ conns' \subseteq Peers /\ topics' \subseteq Peers /\ broken' \subseteq Peers
      /\ heard' \subseteq heard /\ heard' \subseteq topics' \ broken'
  BY <1>0 DEF Connect, Subscribe, Unsubscribe, Breaks, HandlerRemoves, HubTypes, Talking
<1>3. HubTypes'
  BY <1>0, <1>1, <1>2 DEF HubTypes, actionVars
<1>4. Talking'
  BY <1>0, <1>1, <1>2 DEF Talking, actionVars
<1>5. ASSUME NEW q \in Peers PROVE PeerStands(q)'
  <2>1. PeerStands(q)
    BY DEF HubStands
  <2> QED
    BY <1>1, <1>2, <2>1 DEF PeerStands, actionVars
<1> QED
  BY <1>3, <1>4, <1>5 DEF HubStands

\* One publisher's walk goes on or ends: no peer is added to it, no frame is sent.
LEMMA WalkGoes ==
  ASSUME HubStands, NEW w \in Publishers, NEW next \in Walk, pub' = [pub EXCEPT ![w] = next],
         next.busy = pub[w].busy, next.todo = pub[w].todo, next.to = NoPeer,
         UNCHANGED <<conns, topics, broken, got, actionVars, heard>>
  PROVE  HubStands'
<1>0. HubTypes /\ Talking
  BY DEF HubStands
<1>1. \A v \in Publishers : pub'[v] = IF v = w THEN next ELSE pub[v]
  BY <1>0 DEF HubTypes
<1>2. \A v \in Publishers : pub'[v].busy = pub[v].busy /\ pub'[v].todo = pub[v].todo
  BY <1>1
<1>3. HubTypes'
  BY <1>0 DEF HubTypes, actionVars
<1>4. Talking'
  BY <1>0, <1>1, <1>2 DEF Talking, actionVars, Publishers
<1>5. ASSUME NEW q \in Peers PROVE PeerStands(q)'
  <2>1. PeerStands(q)
    BY DEF HubStands
  <2> QED
    BY <1>2, <2>1 DEF PeerStands, actionVars, Publishers
<1> QED
  BY <1>3, <1>4, <1>5 DEF HubStands

LEMMA SendEndsKeeps == ASSUME HubStands, NEW w \in Publishers, SendEnds(w) PROVE HubStands'
<1>0. HubTypes /\ pub[w] \in Walk
  BY DEF HubStands, HubTypes
<1>1. UNCHANGED <<conns, topics, broken, got, actionVars, heard>> /\ pub[w].to \in Peers
  BY <1>0 DEF SendEnds, Walk
<1>2. CASE pub[w].to \in broken
  <2>1. PICK next : /\ next = [pub[w] EXCEPT !.to = NoPeer, !.dead = @ \cup {pub[w].to}]
                    /\ pub' = [pub EXCEPT ![w] = next]
    BY <1>2 DEF SendEnds
  <2>2. next \in Walk /\ next.busy = pub[w].busy /\ next.todo = pub[w].todo /\ next.to = NoPeer
    BY <1>0, <1>1, <2>1 DEF Walk
  <2> QED
    BY <1>1, <2>1, <2>2, WalkGoes
<1>3. CASE pub[w].to \notin broken
  <2>1. PICK next : next = [pub[w] EXCEPT !.to = NoPeer] /\ pub' = [pub EXCEPT ![w] = next]
    BY <1>3 DEF SendEnds
  <2>2. next \in Walk /\ next.busy = pub[w].busy /\ next.todo = pub[w].todo /\ next.to = NoPeer
    BY <1>0, <1>1, <2>1 DEF Walk
  <2> QED
    BY <1>1, <2>1, <2>2, WalkGoes
<1> QED
  BY <1>2, <1>3

\* A peer's turn in a walk: nothing if it has not subscribed, else one frame.
LEMMA SendsKeeps ==
  ASSUME HubStands, NEW w \in Publishers, NEW p \in Peers, Sends(w, p) PROVE HubStands'
<1>0. HubTypes /\ Talking /\ pub[w] \in Walk /\ PeerStands(p) /\ got[p] \in Seq(FrameKinds)
  BY DEF HubStands, HubTypes
<1>1. /\ UNCHANGED <<conns, topics, broken, actionVars, heard>>
      /\ pub[w].busy /\ p \in pub[w].todo
  BY DEF Sends
<1>2. PICK next : /\ pub' = [pub EXCEPT ![w] = next] /\ next \in Walk /\ next.busy = pub[w].busy
                  /\ next.todo = pub[w].todo \ {p}
  <2>1. CASE p \in topics
    <3>1. PICK next : /\ next = [pub[w] EXCEPT !.todo = @ \ {p}, !.to = p]
                      /\ pub' = [pub EXCEPT ![w] = next]
      BY <2>1 DEF Sends
    <3>2. next \in Walk /\ next.busy = pub[w].busy /\ next.todo = pub[w].todo \ {p}
      BY <1>0, <3>1 DEF Walk
    <3> QED
      BY <3>1, <3>2
  <2>2. CASE p \notin topics
    <3>1. PICK next : /\ next = [pub[w] EXCEPT !.todo = @ \ {p}]
                      /\ pub' = [pub EXCEPT ![w] = next]
      BY <2>2 DEF Sends
    <3>2. next \in Walk /\ next.busy = pub[w].busy /\ next.todo = pub[w].todo \ {p}
      BY <1>0, <3>1 DEF Walk
    <3> QED
      BY <3>1, <3>2
  <2> QED
    BY <2>1, <2>2
<1>3. \A v \in Publishers : pub'[v] = IF v = w THEN next ELSE pub[v]
  BY <1>0, <1>2 DEF HubTypes
<1>4. \A v \in Publishers : /\ pub'[v].busy = pub[v].busy
                            /\ pub'[v].todo = IF v = w THEN pub[v].todo \ {p} ELSE pub[v].todo
  BY <1>2, <1>3
<1>5. Kind(w) \in FrameKinds
  BY DEF Kind, FrameKinds
<1>6. /\ Kind(w) = "started" => action = "starts" /\ w = "action" /\ Len(got[p]) = 0
      /\ Kind(w) = "done" => action = "ends" /\ w = "action" /\ NoDone(got[p])
      /\ Kind(w) = "beat" => action = "body" /\ NoDone(got[p])
      /\ Kind(w) = "line" => action \in {"body", "stops", "ends", "over"}
      /\ w # "action" => action \in {"body", "stops", "ends", "over"} /\ Kind(w) \notin {"started", "done"}
  <2>1. CASE w = "action"
    <3>1. action \in {"starts", "ends"}
      BY <1>0, <1>1, <2>1 DEF Talking
    <3> QED
      BY <1>0, <1>1, <2>1, <3>1 DEF Kind, PeerStands
  <2>2. CASE w = "heartbeat"
    <3>1. action = "body" /\ Kind(w) = "beat"
      BY <1>0, <1>1, <2>2 DEF Talking, HubTypes, Kind
    <3> QED
      BY <1>0, <2>2, <3>1 DEF PeerStands
  <2>3. CASE w \in Lines /\ w # "action" /\ w # "heartbeat"
    BY <1>0, <1>1, <2>3 DEF Talking, HubTypes, Kind
  <2> QED
    BY <2>1, <2>2, <2>3 DEF Publishers
<1>7. PICK more : more = Append(got[p], Kind(w))
  OBVIOUS
<1>8. /\ more \in Seq(FrameKinds) /\ InOrder(more)
      /\ NoDone(got[p]) => IF Kind(w) = "done" THEN OneDone(more) ELSE NoDone(more)
      /\ OneDone(got[p]) /\ Kind(w) # "done" => OneDone(more)
  <2>1. PICK s, kind : s = got[p] /\ kind = Kind(w)
    OBVIOUS
  <2>2. /\ s \in Seq(FrameKinds) /\ kind \in FrameKinds /\ InOrder(s)
        /\ kind = "started" => Len(s) = 0
        /\ kind \in {"beat", "done"} => NoDone(s)
    BY <1>0, <1>5, <1>6, <2>1 DEF PeerStands
  <2> QED
    BY <1>7, <2>1, <2>2, FrameAdded
<1>9. \/ UNCHANGED got /\ (p \notin topics \/ p \in broken \/ Kind(w) \notin {"started", "done"})
      \/ got' = [got EXCEPT ![p] = more]
  BY <1>7 DEF Sends, Telling
<1>10. HubTypes'
  BY <1>0, <1>1, <1>2, <1>8, <1>9 DEF HubTypes, actionVars
<1>11. Talking'
  <2>1. \A v \in Publishers : pub'[v].to # NoPeer => pub'[v].busy
    BY <1>0, <1>1, <1>3, <1>4 DEF Talking
  <2> QED
    BY <1>0, <1>1, <1>4, <2>1 DEF Talking, actionVars, Publishers
<1>12. ASSUME NEW q \in Peers PROVE PeerStands(q)'
  <2>0. PeerStands(q) /\ "action" \in Publishers /\ action' = action /\ heard' = heard
    BY <1>1 DEF HubStands, Publishers, actionVars
  <2>1. pub'["action"].todo = IF w = "action" THEN pub["action"].todo \ {p} ELSE pub["action"].todo
    BY <1>4, <2>0
  <2>2. CASE q # p
    <3>1. got'[q] = got[q] /\ (q \in pub'["action"].todo <=> q \in pub["action"].todo)
      BY <1>0, <1>9, <2>1, <2>2 DEF HubTypes
    <3> QED
      BY <1>1, <2>0, <3>1 DEF PeerStands, actionVars
  <2>3. CASE q = p /\ got' = [got EXCEPT ![p] = more]
    <3>1. got'[q] = more
      BY <1>0, <2>3 DEF HubTypes
    <3>2. CASE w = "action"
      <4>1. q \notin pub'["action"].todo /\ action \in {"starts", "ends"}
        BY <1>0, <1>1, <2>1, <2>3, <3>2 DEF Talking
      <4>2. IF action = "ends" THEN OneDone(more) ELSE NoDone(more)
        BY <1>1, <1>6, <1>8, <2>0, <2>3, <3>2, <4>1 DEF PeerStands, Kind
      <4> QED
        BY <1>8, <2>0, <3>1, <4>1, <4>2 DEF PeerStands
    <3>3. CASE w # "action"
      <4>1. action \notin {"new", "starts"} /\ Kind(w) # "done"
        BY <1>6, <3>3
      <4>2. (NoDone(got[q]) => NoDone(more)) /\ (OneDone(got[q]) => OneDone(more))
        BY <1>8, <2>3, <4>1
      <4>3. pub'["action"].todo = pub["action"].todo
        BY <2>1, <3>3
      <4> QED
        BY <1>8, <2>0, <3>1, <4>1, <4>2, <4>3 DEF PeerStands
    <3> QED
      BY <3>2, <3>3
  <2>4. CASE /\ q = p /\ got' = got
             /\ p \notin topics \/ p \in broken \/ Kind(w) \notin {"started", "done"}
    <3>1. heard \subseteq topics \ broken
      BY <1>0 DEF Talking
    <3>2. CASE w = "action"
      <4>1. Kind(w) \in {"started", "done"} /\ action \in {"starts", "ends"}
        BY <1>0, <1>1, <3>2 DEF Kind, Talking
      <4>2. q \notin heard
        BY <2>4, <3>1, <4>1
      <4>3. q \notin pub'["action"].todo
        BY <2>1, <2>4, <3>2
      <4> QED
        BY <2>0, <2>4, <4>1, <4>2, <4>3 DEF PeerStands
    <3>3. CASE w # "action"
      <4>1. pub'["action"].todo = pub["action"].todo
        BY <2>1, <3>3
      <4> QED
        BY <2>0, <2>4, <4>1 DEF PeerStands
    <3> QED
      BY <3>2, <3>3
  <2> QED
    BY <1>9, <2>2, <2>3, <2>4
<1> QED
  BY <1>10, <1>11, <1>12 DEF HubStands

\* A publish returns to its caller, or the heartbeat is cancelled in one.
LEMMA PublishEnds ==
  ASSUME HubStands, NEW w \in Publishers, w # "action", pub' = [pub EXCEPT ![w] = Quiet],
         conns' \subseteq conns, UNCHANGED <<topics, broken, got, beats, lines, heard>>,
         heartbeat' \in {"off", "sleeps", "publishes", "over"}, cut' \in BOOLEAN,
         action' = action \/ (action = "body" /\ action' = "stops"),
         heartbeat' \in {"sleeps", "publishes"} => action' = "body",
         heartbeat' = "publishes" <=> heartbeat = "publishes" /\ w # "heartbeat"
  PROVE  HubStands'
<1>0. HubTypes /\ Talking /\ Quiet \in Walk
  BY DEF HubStands, Quiet, Walk
<1>1. \A v \in Publishers : pub'[v] = IF v = w THEN Quiet ELSE pub[v]
  BY <1>0 DEF HubTypes
<1>2. Quiet.busy = FALSE /\ Quiet.to = NoPeer
  BY DEF Quiet
<1>3. HubTypes'
  BY <1>0 DEF HubTypes
<1>4. pub'["action"] = pub["action"]
  BY <1>1 DEF Publishers
<1>5. Talking'
  <2>1. pub'["heartbeat"].busy <=> heartbeat' = "publishes"
    BY <1>0, <1>1, <1>2 DEF Talking, Publishers
  <2>2. \A n \in Lines : pub'[n].busy => action' \notin {"new", "starts"}
    BY <1>0, <1>1, <1>2 DEF Talking, Publishers
  <2>3. \A v \in Publishers : pub'[v].to # NoPeer => pub'[v].busy
    BY <1>0, <1>1, <1>2 DEF Talking
  <2> QED
    BY <1>0, <1>4, <2>1, <2>2, <2>3 DEF Talking
<1>6. ASSUME NEW q \in Peers PROVE PeerStands(q)'
  <2>1. PeerStands(q)
    BY DEF HubStands
  <2> QED
    BY <1>4, <2>1 DEF PeerStands
<1> QED
  BY <1>3, <1>5, <1>6 DEF HubStands

\* A line or a heartbeat begins its walk.
LEMMA PublishBegins ==
  ASSUME HubStands, NEW w \in Publishers, w # "action", Publishes(w), action = "body",
         UNCHANGED <<conns, topics, broken, got, action, heard, cut>>,
         beats' \in 0 .. MaxBeats, lines' \subseteq Lines,
         heartbeat' = IF w = "heartbeat" THEN "publishes" ELSE heartbeat
  PROVE  HubStands'
<1>0. HubTypes /\ Talking
  BY DEF HubStands
<1>1. PICK next : next = [Quiet EXCEPT !.busy = TRUE, !.todo = conns] /\ pub' = [pub EXCEPT ![w] = next]
  BY DEF Publishes
<1>2. next \in Walk /\ next.busy /\ next.to = NoPeer
  BY <1>0, <1>1 DEF Quiet, Walk, HubTypes
<1>3. \A v \in Publishers : pub'[v] = IF v = w THEN next ELSE pub[v]
  BY <1>0, <1>1 DEF HubTypes
<1>4. HubTypes'
  BY <1>0, <1>1, <1>2 DEF HubTypes
<1>5. pub'["action"] = pub["action"]
  BY <1>3 DEF Publishers
<1>6. Talking'
  <2>1. pub'["heartbeat"].busy <=> heartbeat' = "publishes"
    BY <1>0, <1>2, <1>3 DEF Talking, Publishers
  <2>2. \A v \in Publishers : pub'[v].to # NoPeer => pub'[v].busy
    BY <1>0, <1>2, <1>3 DEF Talking
  <2> QED
    BY <1>0, <1>5, <2>1, <2>2 DEF Talking
<1>7. ASSUME NEW q \in Peers PROVE PeerStands(q)'
  <2>1. PeerStands(q)
    BY DEF HubStands
  <2> QED
    BY <1>5, <2>1 DEF PeerStands
<1> QED
  BY <1>4, <1>6, <1>7 DEF HubStands

\* The action begins a walk: everyone is still to hear of it.
LEMMA ActionPublishes == ASSUME HubStands, Enter \/ DonePublishes PROVE HubStands'
<1>0. HubTypes /\ Talking /\ "action" \in Publishers
  BY DEF HubStands, Publishers
<1>1. PICK next : /\ next = [Quiet EXCEPT !.busy = TRUE, !.todo = conns]
                  /\ pub' = [pub EXCEPT !["action"] = next]
  BY DEF Enter, DonePublishes, Publishes
<1>2. next \in Walk /\ next.busy /\ next.to = NoPeer /\ next.todo = conns
  BY <1>0, <1>1 DEF Quiet, Walk, HubTypes
<1>3. \A v \in Publishers : pub'[v] = IF v = "action" THEN next ELSE pub[v]
  BY <1>0, <1>1 DEF HubTypes
<1>4. UNCHANGED <<conns, topics, broken, got, heartbeat, beats, lines, cut>>
  BY DEF Enter, DonePublishes, peerVars
<1>5. \/ action = "new" /\ action' = "starts" /\ heard' = heard
      \/ action = "stops" /\ action' = "ends" /\ heard' = (conns \cap topics) \ broken
  BY DEF Enter, DonePublishes
<1>6. HubTypes'
  BY <1>0, <1>1, <1>2, <1>4, <1>5 DEF HubTypes
<1>7. pub'["action"] = next /\ pub'["heartbeat"] = pub["heartbeat"]
      /\ \A n \in Lines : pub'[n] = pub[n]
  BY <1>3, HubAssumption DEF Publishers
<1>8. Talking'
  <2>1. \A v \in Publishers : pub'[v].to # NoPeer => pub'[v].busy
    BY <1>0, <1>2, <1>3 DEF Talking
  <2>2. heartbeat \in {"sleeps", "publishes"} => action' = "body"
    BY <1>0, <1>5 DEF Talking
  <2>3. \A n \in Lines : pub[n].busy => action' \notin {"new", "starts"}
    BY <1>0, <1>5 DEF Talking
  <2>4. (heard' = {} \/ action' \in {"ends", "over"}) /\ heard' \subseteq topics \ broken
    BY <1>0, <1>5 DEF Talking
  <2> QED
    BY <1>0, <1>2, <1>4, <1>5, <1>7, <2>1, <2>2, <2>3, <2>4 DEF Talking
<1>9. ASSUME NEW q \in Peers PROVE PeerStands(q)'
  <2>1. PeerStands(q) /\ pub'["action"].todo = conns /\ got'[q] = got[q]
    BY <1>2, <1>4, <1>7 DEF HubStands
  <2>2. CASE action = "new" /\ action' = "starts"
    BY <2>1, <2>2, NothingYet DEF PeerStands
  <2>3. CASE action = "stops" /\ action' = "ends" /\ heard' = (conns \cap topics) \ broken
    BY <2>1, <2>3 DEF PeerStands
  <2> QED
    BY <1>5, <2>2, <2>3
<1> QED
  BY <1>6, <1>8, <1>9 DEF HubStands

\* A walk of the action is over: nobody is still to hear.
LEMMA ActionReturns == ASSUME HubStands, BodyBegins \/ DoneReturns PROVE HubStands'
<1>0. HubTypes /\ Talking /\ "action" \in Publishers /\ Quiet \in Walk
  BY DEF HubStands, Publishers, Quiet, Walk
<1>1. /\ pub' = [pub EXCEPT !["action"] = Quiet] /\ conns' \subseteq conns
      /\ pub["action"].todo = {}
      /\ UNCHANGED <<topics, broken, got, beats, lines, heard, cut>>
  BY DEF BodyBegins, DoneReturns, PublishReturns, Walked, peerVars
<1>2. Quiet.busy = FALSE /\ Quiet.to = NoPeer /\ Quiet.todo = {}
  BY DEF Quiet
<1>3. \A v \in Publishers : pub'[v] = IF v = "action" THEN Quiet ELSE pub[v]
  BY <1>0, <1>1 DEF HubTypes
<1>4. \/ action = "starts" /\ action' = "body" /\ heartbeat' = "sleeps"
      \/ action = "ends" /\ action' = "over" /\ heartbeat' = "over"
  BY DEF BodyBegins, DoneReturns
<1>5. HubTypes'
  BY <1>0, <1>1, <1>4 DEF HubTypes
<1>6. pub'["action"] = Quiet /\ pub'["heartbeat"] = pub["heartbeat"]
      /\ \A n \in Lines : pub'[n] = pub[n]
  BY <1>3, HubAssumption DEF Publishers
<1>7. heartbeat # "publishes"
  BY <1>0, <1>4 DEF Talking
<1>8. Talking'
  <2>1. \A v \in Publishers : pub'[v].to # NoPeer => pub'[v].busy
    BY <1>0, <1>2, <1>3 DEF Talking
  <2>2. \A n \in Lines : pub[n].busy => action' \notin {"new", "starts"}
    BY <1>0, <1>4 DEF Talking
  <2>3. (heard = {} \/ action' \in {"ends", "over"}) /\ heard \subseteq topics \ broken
    BY <1>0, <1>4 DEF Talking
  <2>4. ~pub["heartbeat"].busy /\ heartbeat' # "publishes"
    BY <1>0, <1>4, <1>7 DEF Talking
  <2>5. heartbeat' \in {"sleeps", "publishes"} => action' = "body"
    BY <1>4
  <2>6. action' \notin {"starts", "ends"}
    BY <1>4
  <2> QED
    BY <1>1, <1>2, <1>6, <2>1, <2>2, <2>3, <2>4, <2>5, <2>6 DEF Talking
<1>9. ASSUME NEW q \in Peers PROVE PeerStands(q)'
  <2>1. PeerStands(q) /\ pub'["action"].todo = {} /\ got'[q] = got[q] /\ heard' = heard
    BY <1>1, <1>2, <1>6 DEF HubStands
  <2>2. CASE action = "starts" /\ action' = "body"
    BY <2>1, <2>2 DEF PeerStands
  <2>3. CASE action = "ends" /\ action' = "over"
    BY <1>1, <2>1, <2>3 DEF PeerStands
  <2> QED
    BY <1>4, <2>2, <2>3
<1> QED
  BY <1>5, <1>8, <1>9 DEF HubStands

LEMMA HubStandsNext == HubStands /\ [HubNext]_hubVars => HubStands'
<1> SUFFICES ASSUME HubStands, [HubNext]_hubVars PROVE HubStands'
  OBVIOUS
<1>0. HubTypes /\ Talking /\ "heartbeat" \in Publishers /\ "heartbeat" # "action"
  BY DEF HubStands, Publishers
<1>1. ASSUME NEW n \in Lines PROVE n \in Publishers /\ n \notin {"action", "heartbeat"}
  BY HubAssumption DEF Publishers
<1>2. ASSUME NEW n \in Lines, WorkerLine(n) PROVE HubStands'
  <2>1. /\ Publishes(n) /\ action = "body" /\ lines' \subseteq Lines /\ beats' \in 0 .. MaxBeats
        /\ UNCHANGED <<conns, topics, broken, got, action, heartbeat, heard, cut>>
    BY <1>0, <1>2 DEF WorkerLine, peerVars, HubTypes
  <2> QED
    BY <1>1, <2>1, PublishBegins
<1>3. ASSUME NEW n \in Lines, LineReturns(n) PROVE HubStands'
  <2>1. /\ pub' = [pub EXCEPT ![n] = Quiet] /\ conns' \subseteq conns
        /\ UNCHANGED <<topics, broken, got, action, heartbeat, beats, lines, heard, cut>>
    BY <1>3 DEF LineReturns, PublishReturns, peerVars, actionVars
  <2>2. /\ heartbeat' \in {"off", "sleeps", "publishes", "over"} /\ cut' \in BOOLEAN
        /\ heartbeat' \in {"sleeps", "publishes"} => action' = "body"
    BY <1>0, <2>1 DEF HubTypes, Talking
  <2> QED
    BY <1>1, <2>1, <2>2, PublishEnds
<1>4. CASE HeartbeatPublishes
  <2>1. /\ Publishes("heartbeat") /\ heartbeat = "sleeps" /\ heartbeat' = "publishes"
        /\ beats < MaxBeats /\ beats' = beats + 1
        /\ UNCHANGED <<conns, topics, broken, got, action, lines, heard, cut>>
    BY <1>4 DEF HeartbeatPublishes, peerVars
  <2>2. action = "body" /\ lines' \subseteq Lines
    BY <1>0, <2>1 DEF HubTypes, Talking
  <2>3. beats' \in 0 .. MaxBeats
    BY <1>0, <2>1, HubAssumption DEF HubTypes
  <2> QED
    BY <1>0, <2>1, <2>2, <2>3, PublishBegins
<1>5. CASE HeartbeatReturns
  <2>1. /\ pub' = [pub EXCEPT !["heartbeat"] = Quiet] /\ conns' \subseteq conns
        /\ heartbeat = "publishes" /\ heartbeat' = "sleeps"
        /\ UNCHANGED <<topics, broken, got, action, beats, lines, heard, cut>>
    BY <1>5 DEF HeartbeatReturns, PublishReturns, peerVars
  <2>2. action = "body" /\ cut' \in BOOLEAN
    BY <1>0, <2>1 DEF HubTypes, Talking
  <2> QED
    BY <1>0, <2>1, <2>2, PublishEnds
<1>6. CASE Exit
  <2>1. /\ pub' = [pub EXCEPT !["heartbeat"] = Quiet] /\ conns' \subseteq conns
        /\ action = "body" /\ action' = "stops" /\ heartbeat' = "over"
        /\ cut' = (cut \/ pub["heartbeat"].busy)
        /\ UNCHANGED <<topics, broken, got, beats, lines, heard>>
    BY <1>6 DEF Exit, peerVars
  <2>2. cut' \in BOOLEAN
    BY <2>1
  <2> QED
    BY <1>0, <2>1, <2>2, PublishEnds
<1>7. CASE UNCHANGED hubVars
  <2>1. HubTypes' /\ Talking'
    BY <1>0, <1>7 DEF HubTypes, Talking, hubVars
  <2>2. ASSUME NEW q \in Peers PROVE PeerStands(q)'
    <3>1. PeerStands(q)
      BY DEF HubStands
    <3> QED
      BY <1>7, <3>1 DEF PeerStands, hubVars
  <2> QED
    BY <2>1, <2>2 DEF HubStands
<1> QED
  BY <1>2, <1>3, <1>4, <1>5, <1>6, <1>7, ConnectionsKeep, SendsKeeps, SendEndsKeeps,
     ActionPublishes, ActionReturns DEF HubNext

LEMMA HubInvFollows == HubStands => HubInv
<1> SUFFICES ASSUME HubStands PROVE HubInv
  OBVIOUS
<1>0. HubTypes /\ Talking /\ \A p \in Peers : PeerStands(p)
  BY DEF HubStands
<1>1. HubTypeOK
  BY <1>0 DEF HubTypes, Talking, HubTypeOK, Walk, FrameKinds
<1>2. ASSUME NEW p \in Peers PROVE DOMAIN got[p] = 1 .. Len(got[p])
  BY <1>0 DEF HubTypes
<1>3. ActionInOrder
  BY <1>0, <1>2 DEF ActionInOrder, PeerStands, InOrder
<1>4. DoneIsHeard
  <2> SUFFICES ASSUME action = "over", NEW p \in heard
               PROVE  Cardinality({i \in DOMAIN got[p] : got[p][i] = "done"}) = 1
    BY DEF DoneIsHeard
  <2>1. p \in Peers
    BY <1>0 DEF HubTypes
  <2>2. OneDone(got[p]) /\ DOMAIN got[p] = 1 .. Len(got[p])
    BY <1>0, <1>2, <2>1 DEF PeerStands
  <2>3. PICK i \in DOMAIN got[p] : \A j \in DOMAIN got[p] : got[p][j] = "done" <=> j = i
    BY <2>2 DEF OneDone
  <2>4. {j \in DOMAIN got[p] : got[p][j] = "done"} = {i}
    BY <2>3
  <2> QED
    BY <2>4, FS_Singleton
<1> QED
  BY <1>1, <1>3, <1>4 DEF HubInv

\* A peer hears of an action in order, `started` first and nothing but a late line
\* after `done`, and one that listens while `done` is published hears it once,
\* whatever becomes of the other peers (hub.py: publish, activity.py).
THEOREM HubInvAlways == HubSpec => []HubInv
<1> QED
  BY HubStandsInit, HubStandsNext, HubInvFollows, PTL DEF HubSpec

-----------------------------------------------------------------------------
(* The recorder.                                                           *)

Archive == [name : 1 .. MaxRows, rows : Seq(RowNumbers), readable : BOOLEAN]

Queries == [at : {"idle", "reads", "answered"}, todo : Seq(0 .. MaxRows), got : Seq(RowNumbers),
            from : SUBSET RowNumbers, quiet : BOOLEAN, overlapped : BOOLEAN]

LiveFiles == [exists : BOOLEAN, rows : Seq(RowNumbers)]

Rotations == [at : {"no", "create", "copy", "unlink", "open", "prune"}, by : Handlers \cup {NoHandler}]

RecTypes ==
  /\ started \in BOOLEAN /\ paused \in BOOLEAN /\ deaf \in BOOLEAN /\ doubled \in BOOLEAN
  /\ hand \in [Handlers -> {"idle", "has", "stale"}]
  /\ live \in LiveFiles
  /\ fh \in {"open", "none"}
  /\ rot \in Rotations /\ (rot.at = "no" <=> rot.by = NoHandler)
  /\ archives \in Seq(Archive)
  /\ names \in 0 .. MaxRows /\ written \in 0 .. MaxRows /\ moved \in 0 .. MaxRows
  /\ unflushed \in Seq(RowNumbers) /\ lost \subseteq RowNumbers
  /\ late \in [Handlers -> {0, 1}] /\ (written = 0 => \A h \in Handlers : late[h] = 0)
  /\ query \in Queries
  /\ crashes \in 0 .. MaxCrashes

RowsOf(k) == Elements(archives[k].rows)

\* Every row after those that were moved is in the live file or in the buffer, or its own
\* write has lost it.
RowsStand ==
  /\ Ascending(live.rows) /\ Ascending(unflushed) /\ moved <= written
  /\ \A r \in Elements(live.rows) : moved < r /\ r <= written
  /\ \A r \in Elements(unflushed) : moved < r /\ r <= written
  /\ \A r \in Elements(live.rows), q \in Elements(unflushed) : r < q
  /\ \A q \in moved + 1 .. written : q \in Elements(live.rows) \cup Elements(unflushed) \cup lost

\* The live file and the rotation.
FilesStand ==
  /\ ~live.exists => live.rows = <<>>
  /\ fh = "open" => live.exists /\ started
  /\ rot.at \in {"create", "copy", "unlink", "open"} => fh = "none"
  /\ rot.at = "prune" => fh = "open"
  /\ rot.at # "no" => started
  /\ started /\ rot.at = "no" /\ ~deaf => fh = "open"
  /\ fh = "none" \/ rot.at # "no" => unflushed = <<>>
  /\ names <= written /\ (rot.at = "create" => names < written)

\* The archive that a rotation is filling, or has filled.
NewestStands ==
  /\ rot.at \in {"copy", "unlink"} => Len(archives) # 0
  /\ rot.at = "copy" => ~archives[Len(archives)].readable
  /\ rot.at = "unlink" => archives[Len(archives)].readable /\ archives[Len(archives)].rows = live.rows

PauseStands(h) ==
  /\ ~paused => late[h] = 0
  /\ late[h] = 1 => hand[h] # "has" \/ rot.by = h

\* Whatever row an archive has, the rows after it, up to those of the live file, are
\* in it or in newer ones, or were lost by their own write.
Reaches(j, r) ==
  \A q \in r .. moved :
    q \in lost \/ \E k \in j .. Len(archives) : archives[k].readable /\ q \in RowsOf(k)

ArchiveStands(j) ==
  /\ Ascending(archives[j].rows) /\ archives[j].name <= names
  /\ \A r \in RowsOf(j) : r <= written
  /\ archives[j].readable => \A r \in RowsOf(j) : Reaches(j, r)

NamesApart == \A i, j \in 1 .. Len(archives) : i < j => archives[i].name < archives[j].name

\* As long as no row is in two files.
RowsApart ==
  /\ \A i \in 1 .. Len(archives) :
       archives[i].readable \/ (rot.at = "copy" /\ i = Len(archives) /\ archives[i].rows = <<>>)
  /\ \A i, j \in 1 .. Len(archives) : i < j => \A r \in RowsOf(i), q \in RowsOf(j) : r < q
  /\ \A i \in 1 .. Len(archives) :
       (rot.at = "unlink" /\ i = Len(archives)) \/ \A r \in RowsOf(i) : r <= moved

\* A query that has read m archives, and found the live file or not.
GotStands(m) == \A k \in 1 .. m : RowsOf(k) \subseteq Elements(query.got)

ToDo(m, l) == Len(archives) - m + (IF l THEN 1 ELSE 0)

TodoStands(m, l) ==
  /\ Len(query.todo) = ToDo(m, l)
  /\ \A i \in 1 .. Len(archives) - m : query.todo[i] = archives[m + i].name
  /\ l => query.todo[ToDo(m, l)] = LiveName

FromStands(l) ==
  \A r \in query.from :
    (l /\ r \in Elements(live.rows)) \/ \E k \in 1 .. Len(archives) : r \in RowsOf(k)

ReadAll == query.todo = <<>> /\ query.from \subseteq Elements(query.got)

Reading(m, l) == GotStands(m) /\ TodoStands(m, l) /\ FromStands(l)

QueryStands ==
  query.at # "idle" /\ ~query.overlapped /\ ~doubled =>
    /\ rot.at \in {"no", "create"}
    /\ ReadAll \/ (query.at = "reads" /\ \E m \in 0 .. Len(archives), l \in BOOLEAN : Reading(m, l))

\* What a query got is below all it will still read.
OrderStands ==
  query.at # "idle" /\ query.quiet /\ ~doubled =>
    /\ Ascending(query.got) /\ \A r \in Elements(query.got) : r <= written
    /\ \A i, j \in 1 .. Len(query.todo) :
         i < j => query.todo[i] # LiveName /\ (query.todo[j] = LiveName \/ query.todo[i] < query.todo[j])
    /\ \A x \in Elements(query.todo) : x <= names
    /\ rot.at \in {"copy", "unlink"} => archives[Len(archives)].name \notin Elements(query.todo)
    /\ \A k \in 1 .. Len(archives) :
         archives[k].name \in Elements(query.todo) => \A r \in Elements(query.got), q \in RowsOf(k) : r < q
    /\ LiveName \in Elements(query.todo) =>
         \A r \in Elements(query.got), q \in Elements(live.rows) \cup Elements(unflushed) : r < q

ArchivesStand ==
  /\ \A j \in 1 .. Len(archives) : ArchiveStands(j)
  /\ NamesApart /\ (~doubled => RowsApart)

RecStands ==
  /\ RecTypes /\ RowsStand /\ FilesStand /\ NewestStands /\ ArchivesStand
  /\ QueryStands /\ OrderStands
  /\ \A h \in Handlers : PauseStands(h)

-----------------------------------------------------------------------------
\* The rows of a file.

LEMMA RowIsNumber ==
  ASSUME NEW s \in Seq(RowNumbers), NEW r \in Elements(s)
  PROVE  r \in Nat
<1>1. PICK i \in 1 .. Len(s) : s[i] = r
  BY DEF Elements
<1>2. s[i] \in RowNumbers
  BY <1>1
<1> QED
  BY <1>1, <1>2, RecorderAssumption DEF RowNumbers

LEMMA RowsOfNone == Elements(<<>>) = {} /\ Ascending(<<>>) /\ Len(<<>>) = 0 /\ <<>> \in Seq(RowNumbers)
BY DEF Elements, Ascending

\* The first n rows of a file.
LEMMA FirstRows ==
  ASSUME NEW s \in Seq(RowNumbers), NEW n \in 0 .. Len(s), Ascending(s)
  PROVE  /\ SubSeq(s, 1, n) \in Seq(RowNumbers) /\ Ascending(SubSeq(s, 1, n))
         /\ Elements(SubSeq(s, 1, n)) \subseteq Elements(s)
<1>1. PICK k \in Nat : k = Len(s)
  BY LengthIsNat
<1>2. SubSeq(s, 0 + 1, n) \in Seq(RowNumbers) /\ Len(SubSeq(s, 0 + 1, n)) = n - 0
  BY CutTyped
<1>3. PICK c : c = SubSeq(s, 1, n)
  OBVIOUS
<1>4. c \in Seq(RowNumbers) /\ Len(c) = n /\ n \in 0 .. k
  BY <1>1, <1>2, <1>3
<1>5. ASSUME NEW i \in 1 .. n PROVE c[i] = s[i] /\ i \in 1 .. k
  <2>1. i \in 1 .. n - 0
    OBVIOUS
  <2>2. SubSeq(s, 0 + 1, n)[i] = s[0 + i]
    BY <2>1, CutAt
  <2> QED
    BY <1>1, <1>3, <2>2
<1>6. Ascending(c)
  BY <1>1, <1>4, <1>5 DEF Ascending
<1>7. Elements(c) \subseteq Elements(s)
  BY <1>1, <1>4, <1>5 DEF Elements
<1> QED
  BY <1>3, <1>4, <1>6, <1>7

\* The rows after the first n of a file.
LEMMA RestRows ==
  ASSUME NEW s \in Seq(RowNumbers), NEW n \in 0 .. Len(s), Ascending(s)
  PROVE  /\ SubSeq(s, n + 1, Len(s)) \in Seq(RowNumbers) /\ Ascending(SubSeq(s, n + 1, Len(s)))
         /\ Elements(SubSeq(s, n + 1, Len(s))) \subseteq Elements(s)
         /\ \A r \in Elements(SubSeq(s, 1, n)), q \in Elements(SubSeq(s, n + 1, Len(s))) : r < q
         /\ Elements(s) \subseteq Elements(SubSeq(s, 1, n)) \cup Elements(SubSeq(s, n + 1, Len(s)))
<1>1. PICK k \in Nat : k = Len(s)
  BY LengthIsNat
<1>2. PICK c, d : c = SubSeq(s, 1, n) /\ d = SubSeq(s, n + 1, k)
  OBVIOUS
<1>3. n \in 0 .. k /\ k \in n .. k /\ 0 \in 0 .. k /\ n \in 0 .. n /\ 0 + 1 = 1
  BY <1>1
<1>4. d \in Seq(RowNumbers) /\ Len(d) = k - n
  BY <1>1, <1>2, <1>3, CutTyped
<1>5. c \in Seq(RowNumbers) /\ Len(c) = n
  <2>1. SubSeq(s, 0 + 1, n) \in Seq(RowNumbers) /\ Len(SubSeq(s, 0 + 1, n)) = n - 0
    BY CutTyped
  <2> QED
    BY <1>2, <1>3, <2>1
<1>6. ASSUME NEW i \in 1 .. k - n PROVE d[i] = s[n + i] /\ n + i \in 1 .. k
  BY <1>1, <1>2, <1>3, CutAt
<1>7. ASSUME NEW i \in 1 .. n PROVE c[i] = s[i] /\ i \in 1 .. k
  <2>1. i \in 1 .. n - 0
    OBVIOUS
  <2>2. SubSeq(s, 0 + 1, n)[i] = s[0 + i]
    BY <2>1, CutAt
  <2> QED
    BY <1>2, <1>3, <2>2
<1>8. Ascending(d)
  <2> SUFFICES ASSUME NEW i \in 1 .. k - n, NEW j \in 1 .. k - n, i < j PROVE d[i] < d[j]
    BY <1>4 DEF Ascending
  <2>1. n + i < n + j
    BY <1>3
  <2> QED
    BY <1>1, <1>6, <2>1 DEF Ascending
<1>9. Elements(d) \subseteq Elements(s)
  BY <1>1, <1>4, <1>6 DEF Elements
<1>10. ASSUME NEW r \in Elements(c), NEW q \in Elements(d) PROVE r < q
  <2>1. PICK i \in 1 .. n : c[i] = r
    BY <1>5 DEF Elements
  <2>2. PICK j \in 1 .. k - n : d[j] = q
    BY <1>4 DEF Elements
  <2>3. i < n + j
    BY <1>3
  <2> QED
    BY <1>1, <1>6, <1>7, <2>1, <2>2, <2>3 DEF Ascending
<1>11. ASSUME NEW i \in 1 .. k PROVE s[i] \in Elements(c) \cup Elements(d)
  <2>1. CASE i \in 1 .. n
    BY <1>5, <1>7, <2>1 DEF Elements
  <2>2. CASE i \notin 1 .. n
    <3>1. i - n \in 1 .. k - n /\ n + (i - n) = i
      BY <1>3, <2>2
    <3>2. d[i - n] = s[i] /\ d[i - n] \in Elements(d)
      BY <1>4, <1>6, <3>1 DEF Elements
    <3> QED
      BY <3>2
  <2> QED
    BY <2>1, <2>2
<1>12. Elements(s) \subseteq Elements(c) \cup Elements(d)
  BY <1>1, <1>11 DEF Elements
<1> QED
  BY <1>1, <1>2, <1>4, <1>8, <1>9, <1>10, <1>12

\* One file's rows after those of others.
LEMMA RowsJoin ==
  ASSUME NEW a \in Seq(RowNumbers), NEW b \in Seq(RowNumbers)
  PROVE  /\ a \o b \in Seq(RowNumbers) /\ Elements(a \o b) = Elements(a) \cup Elements(b)
         /\ (/\ Ascending(a) /\ Ascending(b)
             /\ \A r \in Elements(a), q \in Elements(b) : r < q) => Ascending(a \o b)
<1>1. PICK m \in Nat, n \in Nat : m = Len(a) /\ n = Len(b)
  BY LengthIsNat
<1>2. PICK c : c = a \o b
  OBVIOUS
<1>3. c \in Seq(RowNumbers) /\ Len(c) = m + n
  BY <1>1, <1>2, JoinTyped
<1>4. ASSUME NEW i \in 1 .. m PROVE c[i] = a[i] /\ a[i] \in Elements(a)
  <2>1. c[i] = a[i]
    BY <1>1, <1>2, JoinAt
  <2> QED
    BY <1>1, <2>1 DEF Elements
<1>5. ASSUME NEW i \in 1 .. n PROVE c[m + i] = b[i] /\ b[i] \in Elements(b)
  <2>1. \A k \in 1 .. Len(b) : (a \o b)[Len(a) + k] = b[k]
    BY JoinAt
  <2>2. c[m + i] = b[i]
    BY <1>1, <1>2, <2>1
  <2> QED
    BY <1>1, <2>2 DEF Elements
<1>6. ASSUME NEW i \in 1 .. m + n PROVE i \in 1 .. m \/ (i - m \in 1 .. n /\ c[i] = b[i - m])
  <2>1. i \in 1 .. m \/ (i - m \in 1 .. n /\ m + (i - m) = i)
    OBVIOUS
  <2> QED
    BY <1>5, <2>1
<1>7. Elements(c) \subseteq Elements(a) \cup Elements(b)
  <2> SUFFICES ASSUME NEW i \in 1 .. m + n PROVE c[i] \in Elements(a) \cup Elements(b)
    BY <1>3 DEF Elements
  <2>1. CASE i \in 1 .. m
    BY <1>4, <2>1
  <2>2. CASE i - m \in 1 .. n /\ c[i] = b[i - m]
    BY <1>1, <2>2 DEF Elements
  <2> QED
    BY <1>6, <2>1, <2>2
<1>8. Elements(a) \cup Elements(b) \subseteq Elements(c)
  <2>1. ASSUME NEW i \in 1 .. m PROVE a[i] \in Elements(c)
    <3>1. i \in 1 .. m + n
      OBVIOUS
    <3>2. c[i] \in Elements(c)
      BY <1>3, <3>1 DEF Elements
    <3> QED
      BY <1>4, <3>2
  <2>2. ASSUME NEW i \in 1 .. n PROVE b[i] \in Elements(c)
    <3>1. m + i \in 1 .. Len(c) /\ DOMAIN c = 1 .. Len(c)
      BY <1>3
    <3>2. c[m + i] \in Elements(c)
      BY <3>1 DEF Elements
    <3> QED
      BY <1>5, <3>2
  <2> QED
    BY <1>1, <2>1, <2>2 DEF Elements
<1>9. ASSUME Ascending(a), Ascending(b), \A r \in Elements(a), q \in Elements(b) : r < q
      PROVE  Ascending(c)
  <2> SUFFICES ASSUME NEW i \in 1 .. m + n, NEW j \in 1 .. m + n, i < j PROVE c[i] < c[j]
    BY <1>3 DEF Ascending
  <2>1. CASE i \in 1 .. m /\ j \in 1 .. m
    BY <1>1, <1>4, <1>9, <2>1 DEF Ascending
  <2>2. CASE i \in 1 .. m /\ (j - m \in 1 .. n /\ c[j] = b[j - m])
    <3>1. b[j - m] \in Elements(b)
      BY <1>5, <2>2
    <3> QED
      BY <1>4, <1>9, <2>2, <3>1
  <2>3. CASE (i - m \in 1 .. n /\ c[i] = b[i - m]) /\ (j - m \in 1 .. n /\ c[j] = b[j - m])
    <3>1. i - m < j - m
      OBVIOUS
    <3>2. \A x, y \in 1 .. n : x < y => b[x] < b[y]
      BY <1>1, <1>9 DEF Ascending
    <3>3. b[i - m] < b[j - m]
      BY <2>3, <3>1, <3>2
    <3> QED
      BY <2>3, <3>3
  <2>4. ~(i \notin 1 .. m /\ j \in 1 .. m)
    OBVIOUS
  <2> QED
    BY <1>6, <2>1, <2>2, <2>3, <2>4
<1> QED
  BY <1>2, <1>3, <1>7, <1>8, <1>9

\* A row after those of a file.
LEMMA RowAdded ==
  ASSUME NEW s \in Seq(RowNumbers), NEW n \in RowNumbers
  PROVE  /\ Append(s, n) \in Seq(RowNumbers) /\ Elements(Append(s, n)) = Elements(s) \cup {n}
         /\ Ascending(s) /\ (\A r \in Elements(s) : r < n) => Ascending(Append(s, n))
<1>1. PICK k \in Nat : k = Len(s)
  BY LengthIsNat
<1>2. PICK c : c = Append(s, n)
  OBVIOUS
<1>3. c \in Seq(RowNumbers) /\ Len(c) = k + 1 /\ c[k + 1] = n
  BY <1>1, <1>2, AppendAt
<1>4. ASSUME NEW i \in 1 .. k PROVE c[i] = s[i] /\ i \in 1 .. k + 1
  BY <1>1, <1>2, AppendBefore
<1>5. \A i \in 1 .. k + 1 : i \in 1 .. k \/ i = k + 1
  OBVIOUS
<1>6. Elements(c) \subseteq Elements(s) \cup {n}
  BY <1>1, <1>3, <1>4, <1>5 DEF Elements
<1>7. n \in Elements(c)
  <2>1. k + 1 \in 1 .. k + 1
    OBVIOUS
  <2> QED
    BY <1>3, <2>1 DEF Elements
<1>8. Elements(s) \subseteq Elements(c)
  BY <1>1, <1>3, <1>4 DEF Elements
<1>9. ASSUME Ascending(s), \A r \in Elements(s) : r < n PROVE Ascending(c)
  <2> SUFFICES ASSUME NEW i \in 1 .. k + 1, NEW j \in 1 .. k + 1, i < j PROVE c[i] < c[j]
    BY <1>3 DEF Ascending
  <2>1. i \in 1 .. k
    OBVIOUS
  <2>2. c[i] = s[i] /\ s[i] \in Elements(s)
    BY <1>1, <1>4, <2>1 DEF Elements
  <2>3. CASE j \in 1 .. k
    BY <1>1, <1>4, <1>9, <2>1, <2>3 DEF Ascending
  <2>4. CASE j = k + 1
    BY <1>3, <1>9, <2>2, <2>4
  <2> QED
    BY <1>5, <2>3, <2>4
<1> QED
  BY <1>2, <1>3, <1>6, <1>7, <1>8, <1>9

-----------------------------------------------------------------------------
LEMMA RecStandsInit == RecInit => RecStands
<1> SUFFICES ASSUME RecInit PROVE RecStands
  OBVIOUS
<1>1. archives = <<>> /\ Len(archives) = 0 /\ live.rows = <<>> /\ live.exists = FALSE /\ rot.at = "no"
      /\ query.at = "idle" /\ written = 0 /\ unflushed = <<>> /\ lost = {} /\ moved = 0
  BY DEF RecInit, NoRotation, NoQuery
<1>2. live \in LiveFiles /\ rot \in Rotations /\ query \in Queries /\ rot.by = NoHandler
  BY DEF RecInit, NoRotation, NoQuery, LiveFiles, Rotations, Queries
<1>a. <<>> \in Seq(Archive) /\ 0 \in 0 .. MaxRows /\ 0 \in 0 .. MaxCrashes
  BY RecorderAssumption
<1>3. RecTypes
  BY <1>1, <1>2, <1>a, RowsOfNone DEF RecInit, RecTypes
<1>4. FilesStand /\ RowsStand
  BY <1>1, RowsOfNone DEF RecInit, FilesStand, RowsStand
<1>5. NewestStands /\ ArchivesStand /\ QueryStands /\ OrderStands
  BY <1>1 DEF NewestStands, ArchivesStand, NamesApart, RowsApart, QueryStands, OrderStands
<1>6. \A h \in Handlers : PauseStands(h)
  BY DEF RecInit, PauseStands
<1> QED
  BY <1>3, <1>4, <1>5, <1>6 DEF RecStands

\* A query whose files are no fewer in order than before.
LEMMA OrderKept ==
  ASSUME OrderStands, query \in Queries, written \in Nat, written' \in Nat, names \in Nat, names' \in Nat,
         query'.at = query.at, query'.got = query.got, query'.todo = query.todo, query'.quiet = query.quiet,
         ~doubled' => ~doubled, written <= written', names <= names',
         \A r \in Elements(live'.rows) \cup Elements(unflushed') :
           r \in Elements(live.rows) \cup Elements(unflushed) \/ (r \in Nat /\ written < r),
         ~doubled' /\ query.at # "idle" /\ query.quiet =>
           /\ rot'.at \in {"copy", "unlink"} => archives'[Len(archives')].name \notin Elements(query.todo)
           /\ \A k \in 1 .. Len(archives') : archives'[k].name \in Elements(query.todo) =>
                \E j \in 1 .. Len(archives) :
                  archives[j].name = archives'[k].name /\ RowsOf(k)' \subseteq RowsOf(j)
  PROVE  OrderStands'
<1> SUFFICES ASSUME query'.at # "idle", query'.quiet, ~doubled' PROVE OrderStands'
  BY DEF OrderStands
<1>1. /\ Ascending(query.got) /\ \A r \in Elements(query.got) : r <= written
      /\ \A i, j \in 1 .. Len(query.todo) :
           i < j => query.todo[i] # LiveName /\ (query.todo[j] = LiveName \/ query.todo[i] < query.todo[j])
      /\ \A x \in Elements(query.todo) : x <= names
      /\ \A k \in 1 .. Len(archives) :
           archives[k].name \in Elements(query.todo) => \A r \in Elements(query.got), q \in RowsOf(k) : r < q
      /\ LiveName \in Elements(query.todo) =>
           \A r \in Elements(query.got), q \in Elements(live.rows) \cup Elements(unflushed) : r < q
  BY DEF OrderStands
<1>2. /\ query.got \in Seq(RowNumbers) /\ query.todo \in Seq(0 .. MaxRows)
      /\ (\A r \in Elements(query.got) : r \in Nat) /\ (\A x \in Elements(query.todo) : x \in Nat)
  <2>1. query.got \in Seq(RowNumbers) /\ query.todo \in Seq(0 .. MaxRows)
    BY DEF Queries
  <2>2. ASSUME NEW x \in Elements(query.todo) PROVE x \in Nat
    <3>1. PICK i \in 1 .. Len(query.todo) : query.todo[i] = x
      BY <2>1 DEF Elements
    <3>2. query.todo[i] \in 0 .. MaxRows
      BY <2>1, <3>1, ElementOfSeq
    <3> QED
      BY <3>1, <3>2, RecorderAssumption
  <2> QED
    BY <2>1, <2>2, RowIsNumber
<1>3. \A r \in Elements(query.got) : r <= written'
  BY <1>1, <1>2
<1>4. \A x \in Elements(query.todo) : x <= names'
  BY <1>1, <1>2
<1>5. ASSUME NEW k \in 1 .. Len(archives'), archives'[k].name \in Elements(query.todo),
             NEW r \in Elements(query.got), NEW q \in RowsOf(k)'
      PROVE  r < q
  <2>1. PICK j \in 1 .. Len(archives) :
          archives[j].name = archives'[k].name /\ RowsOf(k)' \subseteq RowsOf(j)
    BY <1>5
  <2> QED
    BY <1>1, <1>5, <2>1
<1>6. ASSUME LiveName \in Elements(query.todo), NEW r \in Elements(query.got),
             NEW q \in Elements(live'.rows) \cup Elements(unflushed')
      PROVE  r < q
  <2>1. CASE q \in Elements(live.rows) \cup Elements(unflushed)
    BY <1>1, <1>6, <2>1
  <2>2. CASE q \in Nat /\ written < q
    BY <1>1, <1>2, <2>2
  <2> QED
    BY <2>1, <2>2
<1> QED
  BY <1>1, <1>3, <1>4, <1>5, <1>6 DEF OrderStands

\* A step that leaves the files, the rotation and the query as they are.
LEMMA ControlStands ==
  ASSUME RecStands, RecTypes',
         UNCHANGED <<rot, archives, names, written, unflushed, lost, moved, doubled, query>>,
         live'.rows = live.rows,
         FilesStand', \A h \in Handlers : PauseStands(h)'
  PROVE  RecStands'
<1>1. NewestStands'
  BY DEF RecStands, NewestStands
<1>2. moved' = moved /\ \A k : RowsOf(k)' = RowsOf(k)
  BY DEF RowsOf
<1>3. ArchivesStand'
  BY <1>2 DEF RecStands, ArchivesStand, ArchiveStands, Reaches, NamesApart, RowsApart
<1>4. QueryStands' /\ OrderStands'
  BY <1>2 DEF RecStands, QueryStands, OrderStands, ReadAll, Reading, GotStands, TodoStands, ToDo, FromStands
<1>5. RowsStand'
  BY DEF RecStands, RowsStand
<1> QED
  BY <1>1, <1>3, <1>4, <1>5 DEF RecStands

LEMMA ControlSteps ==
  ASSUME RecStands,
         Start \/ Pause \/ Resume \/ \E h \in Handlers : Snapshot(h) \/ WriteNothing(h)
  PROVE  RecStands' /\ written' = written
<1>0. RecTypes /\ FilesStand /\ live \in LiveFiles /\ live.rows \in Seq(RowNumbers)
  BY DEF RecStands, RecTypes, LiveFiles
<1>1. CASE Start
  <2>1. /\ live' = [live EXCEPT !.exists = TRUE] /\ started' = TRUE /\ fh' = "open" /\ deaf' = FALSE /\ ~started
        /\ UNCHANGED <<paused, hand, rot, archives, names, written, unflushed, lost, moved, doubled, late, query, crashes>>
    BY <1>1 DEF Start, diskVars
  <2>2. live' \in LiveFiles /\ live'.rows = live.rows /\ live'.exists
    BY <1>0, <2>1 DEF LiveFiles
  <2>3. RecTypes'
    BY <1>0, <2>1, <2>2 DEF RecTypes
  <2>4. FilesStand'
    BY <1>0, <2>1, <2>2 DEF FilesStand, RecTypes, Rotations
  <2>5. \A h \in Handlers : PauseStands(h)'
    BY <2>1 DEF RecStands, PauseStands
  <2> QED
    BY <2>1, <2>2, <2>3, <2>4, <2>5, ControlStands
<1>3. CASE Pause \/ Resume
  <2>1. /\ paused' \in BOOLEAN
        /\ (late' = late /\ ~paused /\ paused') \/ late' = [h \in Handlers |-> 0]
        /\ UNCHANGED <<started, hand, live, fh, rot, deaf, archives, names, written, unflushed, lost, moved, doubled, query, crashes>>
    BY <1>3 DEF Pause, Resume, diskVars
  <2>2. RecTypes'
    BY <1>0, <2>1 DEF RecTypes
  <2>3. FilesStand'
    BY <1>0, <2>1 DEF FilesStand
  <2>4. \A h \in Handlers : PauseStands(h)'
    BY <2>1 DEF RecStands, PauseStands
  <2> QED
    BY <2>1, <2>2, <2>3, <2>4, ControlStands
<1>4. ASSUME NEW h \in Handlers, Snapshot(h) \/ WriteNothing(h) PROVE RecStands' /\ written' = written
  <2>1. /\ UNCHANGED <<started, paused, live, fh, rot, deaf, archives, names, written, unflushed, lost, moved, doubled, late, query, crashes>>
        /\ \/ hand' = [hand EXCEPT ![h] = "has"] /\ ~paused
           \/ hand' = [hand EXCEPT ![h] = "idle"]
    BY <1>4 DEF Snapshot, WriteNothing, othersOfHandler
  <2>2. RecTypes'
    BY <1>0, <2>1 DEF RecTypes
  <2>3. FilesStand'
    BY <1>0, <2>1 DEF FilesStand
  <2>4. \A g \in Handlers : PauseStands(g)'
    BY <1>0, <2>1 DEF RecStands, PauseStands, RecTypes
  <2> QED
    BY <2>1, <2>2, <2>3, <2>4, ControlStands
<1> QED
  BY <1>1, <1>3, <1>4

-----------------------------------------------------------------------------
\* Rows are written, or lost, and none leaves the live file.
LEMMA RowsGrow ==
  ASSUME RecTypes, RecTypes', RowsStand, moved' = moved, written <= written',
         Ascending(live'.rows), Ascending(unflushed'),
         \A r \in Elements(live'.rows), q \in Elements(unflushed') : r < q,
         \A r \in Elements(live'.rows) \cup Elements(unflushed') :
           r \in Elements(live.rows) \cup Elements(unflushed) \/ (written < r /\ r <= written'),
         \A q \in Elements(live.rows) \cup Elements(unflushed) \cup lost \cup (written + 1 .. written') :
           q \in Elements(live'.rows) \cup Elements(unflushed') \cup lost'
  PROVE  RowsStand'
<1>1. written \in Nat /\ written' \in Nat /\ moved \in Nat /\ live.rows \in Seq(RowNumbers)
      /\ unflushed \in Seq(RowNumbers) /\ live'.rows \in Seq(RowNumbers) /\ unflushed' \in Seq(RowNumbers)
  BY RecorderAssumption DEF RecTypes, LiveFiles
<1>2. \A r \in Elements(live'.rows) \cup Elements(unflushed') : r \in Nat
  BY <1>1, RowIsNumber
<1>3. ASSUME NEW r \in Elements(live'.rows) \cup Elements(unflushed') PROVE moved < r /\ r <= written'
  <2>1. CASE r \in Elements(live.rows) \cup Elements(unflushed)
    <3>1. moved < r /\ r <= written
      BY <2>1 DEF RowsStand
    <3> QED
      BY <1>1, <1>2, <3>1
  <2>2. CASE written < r /\ r <= written'
    <3>1. moved <= written
      BY DEF RowsStand
    <3> QED
      BY <1>1, <1>2, <2>2, <3>1
  <2> QED
    BY <2>1, <2>2
<1>4. ASSUME NEW q \in moved + 1 .. written'
      PROVE  q \in Elements(live'.rows) \cup Elements(unflushed') \cup lost'
  <2>1. CASE q <= written
    <3>1. q \in moved + 1 .. written
      BY <1>1, <2>1
    <3> QED
      BY <3>1 DEF RowsStand
  <2>2. CASE ~(q <= written)
    <3>1. q \in written + 1 .. written'
      BY <1>1, <2>2
    <3> QED
      BY <3>1
  <2> QED
    BY <2>1, <2>2
<1>5. moved <= written'
  BY <1>1 DEF RowsStand
<1> QED
  BY <1>3, <1>4, <1>5 DEF RowsStand

\* The same of the archives and the query, outside a rotation.
LEMMA FilesGrow ==
  ASSUME RecStands, RecTypes', UNCHANGED <<archives, names, moved, doubled, query>>,
         rot.at = "no", rot'.at \in {"no", "create"}, written <= written', lost \subseteq lost',
         Elements(live.rows) \subseteq Elements(live'.rows),
         \A r \in Elements(live'.rows) \cup Elements(unflushed') :
           r \in Elements(live.rows) \cup Elements(unflushed) \/ (written < r /\ r <= written')
  PROVE  NewestStands' /\ ArchivesStand' /\ QueryStands' /\ OrderStands'
<1>1. RecTypes /\ query \in Queries /\ written \in Nat /\ written' \in Nat /\ names \in Nat
      /\ live'.rows \in Seq(RowNumbers) /\ unflushed' \in Seq(RowNumbers)
  BY RecorderAssumption DEF RecStands, RecTypes, LiveFiles
<1>2. \A k : RowsOf(k)' = RowsOf(k)
  BY DEF RowsOf
<1>3. NewestStands'
  BY DEF NewestStands
<1>4. ASSUME NEW j \in 1 .. Len(archives) PROVE ArchiveStands(j)'
  <2>1. ArchiveStands(j) /\ archives[j] \in Archive
    BY <1>1 DEF RecStands, ArchivesStand, RecTypes
  <2>2. \A r \in RowsOf(j) : r \in Nat
    BY <2>1, RowIsNumber DEF RowsOf, Archive
  <2>3. \A r \in RowsOf(j) : r <= written'
    BY <1>1, <2>1, <2>2 DEF ArchiveStands
  <2>4. \A r : Reaches(j, r) => Reaches(j, r)'
    BY <1>2 DEF Reaches
  <2> QED
    BY <1>2, <2>1, <2>3, <2>4 DEF ArchiveStands
<1>5. ArchivesStand'
  BY <1>2, <1>4 DEF RecStands, ArchivesStand, NamesApart, RowsApart
<1>6. QueryStands'
  <2>1. \A l : FromStands(l) => FromStands(l)'
    BY <1>2 DEF FromStands
  <2>2. \A m, l : Reading(m, l) => Reading(m, l)'
    BY <1>2, <2>1 DEF Reading, GotStands, TodoStands, ToDo
  <2>3. ReadAll => ReadAll'
    BY DEF ReadAll
  <2> QED
    BY <2>2, <2>3 DEF RecStands, QueryStands
<1>7. OrderStands'
  <2>1. \A r \in Elements(live'.rows) \cup Elements(unflushed') : r \in Nat
    BY <1>1, RowIsNumber
  <2>2. \A k \in 1 .. Len(archives') :
          \E j \in 1 .. Len(archives) : archives[j].name = archives'[k].name /\ RowsOf(k)' \subseteq RowsOf(j)
    BY <1>2
  <2>3. OrderStands /\ rot'.at \notin {"copy", "unlink"}
    BY DEF RecStands
  <2> QED
    BY <1>1, <2>1, <2>2, <2>3, OrderKept
<1> QED
  BY <1>3, <1>5, <1>6, <1>7

\* What a flush that stops after k rows of the buffer makes of the files.
LEMMA FlushedRows ==
  ASSUME RecStands, NEW k \in 0 .. Len(unflushed), Flushed(k)
  PROVE  /\ live' \in LiveFiles /\ live'.exists = live.exists /\ Ascending(live'.rows)
         /\ live'.rows \in Seq(RowNumbers) /\ StillIn(k) \in Seq(RowNumbers) /\ Ascending(StillIn(k))
         /\ Elements(live.rows) \subseteq Elements(live'.rows)
         /\ \A r \in Elements(live'.rows), q \in Elements(StillIn(k)) : r < q
         /\ Elements(live'.rows) \cup Elements(StillIn(k)) = Elements(live.rows) \cup Elements(unflushed)
         /\ unflushed = <<>> => live'.rows = live.rows
         /\ k = Len(unflushed) => StillIn(k) = <<>>
<1>1. live \in LiveFiles /\ live.rows \in Seq(RowNumbers) /\ unflushed \in Seq(RowNumbers)
      /\ Ascending(live.rows) /\ Ascending(unflushed)
      /\ \A r \in Elements(live.rows), q \in Elements(unflushed) : r < q
  BY DEF RecStands, RecTypes, LiveFiles, RowsStand
<1>2. PICK c, d : c = Out(k) /\ d = StillIn(k)
  OBVIOUS
<1>3. c \in Seq(RowNumbers) /\ Ascending(c) /\ Elements(c) \subseteq Elements(unflushed)
  BY <1>1, <1>2, FirstRows DEF Out
<1>4. d \in Seq(RowNumbers) /\ Ascending(d) /\ Elements(d) \subseteq Elements(unflushed)
      /\ (\A r \in Elements(c), q \in Elements(d) : r < q)
      /\ Elements(unflushed) \subseteq Elements(c) \cup Elements(d)
  BY <1>1, <1>2, RestRows DEF StillIn, Out
<1>5. /\ live.rows \o c \in Seq(RowNumbers) /\ Elements(live.rows \o c) = Elements(live.rows) \cup Elements(c)
      /\ Ascending(live.rows \o c)
  BY <1>1, <1>3, RowsJoin
<1>6. live' \in LiveFiles /\ live'.exists = live.exists /\ live'.rows = live.rows \o c
  BY <1>1, <1>2, <1>5 DEF Flushed, LiveFiles
<1>7. \A r \in Elements(live'.rows), q \in Elements(d) : r < q
  BY <1>1, <1>4, <1>5, <1>6
<1>8. ASSUME unflushed = <<>> PROVE live'.rows = live.rows
  <2>1. k = 0 /\ c = <<>>
    BY <1>2, <1>8 DEF Out
  <2> QED
    BY <1>1, <1>6, <2>1
<1>9. ASSUME k = Len(unflushed) PROVE d = <<>>
  BY <1>1, <1>2, <1>9 DEF StillIn
<1> QED
  BY <1>2, <1>3, <1>4, <1>5, <1>6, <1>7, <1>8, <1>9

LEMMA StopStands ==
  ASSUME RecStands, Stop
  PROVE  RecStands' /\ written' = written
<1>0. /\ RecTypes /\ FilesStand /\ RowsStand /\ written \in Nat
  BY RecorderAssumption DEF RecStands, RecTypes
<1>1. PICK k \in 0 .. Len(unflushed) :
        /\ Flushed(k) /\ lost' = lost \cup Elements(StillIn(k))
        /\ (k = Len(unflushed) /\ started' = FALSE /\ deaf' = deaf)
           \/ (unflushed # <<>> /\ started' = TRUE /\ deaf' = TRUE)
  BY DEF Stop
<1>2. /\ started /\ fh' = "none" /\ rot.at = "no" /\ unflushed' = <<>>
      /\ hand' = [h \in Handlers |-> IF hand[h] = "has" THEN "stale" ELSE hand[h]]
      /\ UNCHANGED <<paused, rot, archives, names, written, moved, doubled, late, query, crashes>>
  BY DEF Stop, diskVars, LockFree
<1>3. /\ live' \in LiveFiles /\ live'.exists = live.exists /\ Ascending(live'.rows)
      /\ live'.rows \in Seq(RowNumbers) /\ StillIn(k) \in Seq(RowNumbers)
      /\ Elements(live.rows) \subseteq Elements(live'.rows)
      /\ Elements(live'.rows) \cup Elements(StillIn(k)) = Elements(live.rows) \cup Elements(unflushed)
      /\ unflushed = <<>> => live'.rows = live.rows
  BY <1>1, FlushedRows
<1>4. lost' \subseteq RowNumbers /\ lost \subseteq lost'
  <2>1. Elements(StillIn(k)) \subseteq RowNumbers
    BY <1>3 DEF Elements
  <2> QED
    BY <1>0, <1>1, <2>1 DEF RecTypes
<1>5. RecTypes'
  BY <1>0, <1>1, <1>2, <1>3, <1>4, RowsOfNone DEF RecTypes
<1>6. RowsStand'
  <2>1. Elements(unflushed') = {} /\ Ascending(unflushed')
    BY <1>2, RowsOfNone
  <2>2. written + 1 .. written' = {}
    BY <1>0, <1>2
  <2> QED
    BY <1>0, <1>1, <1>2, <1>3, <1>5, <2>1, <2>2, RowsGrow
<1>7. FilesStand'
  <2>1. ~live.exists => unflushed = <<>> /\ live.rows = <<>>
    BY <1>0 DEF FilesStand, RecTypes
  <2> QED
    BY <1>0, <1>1, <1>2, <1>3, <2>1 DEF FilesStand
<1>8. NewestStands' /\ ArchivesStand' /\ QueryStands' /\ OrderStands'
  <2>1. Elements(unflushed') = {}
    BY <1>2, RowsOfNone
  <2> QED
    BY <1>0, <1>2, <1>3, <1>4, <1>5, <2>1, FilesGrow
<1>9. \A h \in Handlers : PauseStands(h)'
  BY <1>2 DEF RecStands, PauseStands
<1> QED
  BY <1>2, <1>5, <1>6, <1>7, <1>8, <1>9 DEF RecStands

\* What a write that is about to happen finds, and what it does to the pause.
LEMMA NextRowStands ==
  ASSUME RecStands, NEW h \in Handlers, NextRow(h), UNCHANGED paused,
         \/ (hand' = [hand EXCEPT ![h] = "idle"] /\ rot' = rot)
         \/ (rot' = [at |-> "create", by |-> h] /\ hand' = hand)
  PROVE  /\ started /\ live.exists /\ rot.at = "no" /\ fh = "open" /\ h # NoHandler
         /\ written \in Nat /\ written' = written + 1 /\ written + 1 \in RowNumbers
         /\ written + 1 \in 0 .. MaxRows
         /\ rot' \in Rotations /\ rot'.at \in {"no", "create"}
         /\ (rot'.at = "no" <=> rot'.by = NoHandler)
         /\ hand' \in [Handlers -> {"idle", "has", "stale"}] /\ late' \in [Handlers -> {0, 1}]
         /\ \A g \in Handlers : PauseStands(g)'
<1>0. RecTypes /\ FilesStand /\ written \in Nat
  BY RecorderAssumption DEF RecStands, RecTypes
<1>1. /\ hand[h] = "has" /\ rot.at = "no" /\ fh = "open" /\ written < MaxRows
      /\ written' = written + 1
      /\ late' = IF paused THEN [late EXCEPT ![h] = late[h] + 1] ELSE late
  BY DEF NextRow, LockFree
<1>2. written + 1 \in RowNumbers /\ written + 1 \in 0 .. MaxRows
  BY <1>0, <1>1, RecorderAssumption DEF RowNumbers
<1>4. started /\ live.exists /\ h # NoHandler /\ rot.by = NoHandler /\ rot \in Rotations
  BY <1>0, <1>1, RecorderAssumption DEF FilesStand, RecTypes
<1>5. late[h] = 0 /\ late \in [Handlers -> {0, 1}] /\ hand \in [Handlers -> {"idle", "has", "stale"}]
  BY <1>0, <1>1, <1>4 DEF RecStands, RecTypes, PauseStands
<1>6. late' \in [Handlers -> {0, 1}] /\ hand' \in [Handlers -> {"idle", "has", "stale"}]
  BY <1>1, <1>5
<1>7. rot' \in Rotations /\ rot'.at \in {"no", "create"} /\ (rot'.at = "no" <=> rot'.by = NoHandler)
      /\ (rot' = rot \/ rot'.by = h)
  BY <1>1, <1>4 DEF Rotations
<1>16. ASSUME NEW g \in Handlers PROVE PauseStands(g)'
  <2>1. PauseStands(g)
    BY DEF RecStands
  <2>2. CASE g = h
    BY <1>0, <1>1, <1>4, <1>5, <2>1, <2>2 DEF PauseStands
  <2>3. CASE g # h
    <3>1. late'[g] = late[g] /\ hand'[g] = hand[g]
      BY <1>1, <1>5, <2>3
    <3>2. late[g] = 1 => hand[g] # "has"
      BY <1>4, <2>1, RecorderAssumption DEF PauseStands
    <3> QED
      BY <2>1, <3>1, <3>2 DEF PauseStands
  <2> QED
    BY <2>2, <2>3
<1> QED
  BY <1>0, <1>1, <1>2, <1>4, <1>6, <1>7, <1>16

LEMMA WriteStands ==
  ASSUME RecStands, NEW h \in Handlers, Write(h)
  PROVE  RecStands' /\ started
<1>0. /\ RecTypes /\ FilesStand /\ RowsStand /\ live \in LiveFiles /\ live.rows \in Seq(RowNumbers)
      /\ unflushed \in Seq(RowNumbers)
  BY DEF RecStands, RecTypes, LiveFiles
<1>1. /\ NextRow(h) /\ live' = [live EXCEPT !.rows = Append(live.rows \o unflushed, written + 1)]
      /\ unflushed' = <<>>
      /\ UNCHANGED <<started, paused, deaf, names, moved, doubled, crashes, archives, query, lost>>
  BY <1>0 DEF Write, othersOfHandler, LiveFiles
<1>b. \/ hand' = [hand EXCEPT ![h] = "idle"] /\ UNCHANGED <<fh, rot>>
      \/ fh' = "none" /\ rot' = [at |-> "create", by |-> h] /\ hand' = hand
  BY DEF Write
<1>2. /\ started /\ live.exists /\ rot.at = "no" /\ fh = "open"
      /\ written \in Nat /\ written' = written + 1 /\ written + 1 \in RowNumbers
      /\ written + 1 \in 0 .. MaxRows
      /\ rot' \in Rotations /\ rot'.at \in {"no", "create"}
      /\ (rot'.at = "no" <=> rot'.by = NoHandler)
      /\ hand' \in [Handlers -> {"idle", "has", "stale"}] /\ late' \in [Handlers -> {0, 1}]
      /\ \A g \in Handlers : PauseStands(g)'
  BY <1>1, <1>b, NextRowStands
<1>3. PICK s : s = live.rows \o unflushed
  OBVIOUS
<1>4. s \in Seq(RowNumbers) /\ Elements(s) = Elements(live.rows) \cup Elements(unflushed) /\ Ascending(s)
  BY <1>0, <1>3, RowsJoin DEF RowsStand
<1>5. \A r \in Elements(s) : r < written + 1
  <2>1. ASSUME NEW r \in Elements(s) PROVE r <= written
    BY <1>0, <1>4, <2>1 DEF RowsStand
  <2>2. \A r \in Elements(s) : r \in Nat
    BY <1>4, RowIsNumber
  <2> QED
    BY <1>2, <2>1, <2>2
<1>6. /\ Append(s, written + 1) \in Seq(RowNumbers) /\ Ascending(Append(s, written + 1))
      /\ Elements(Append(s, written + 1)) = Elements(s) \cup {written + 1}
  BY <1>2, <1>4, <1>5, RowAdded
<1>7. /\ live' \in LiveFiles /\ live'.rows = Append(s, written + 1) /\ live'.exists = live.exists
  BY <1>0, <1>1, <1>3, <1>6 DEF LiveFiles
<1>8. RecTypes'
  BY <1>0, <1>1, <1>b, <1>2, <1>7, RowsOfNone DEF RecTypes
<1>9. FilesStand'
  <2>1. names \in Nat /\ names <= written
    BY <1>0, RecorderAssumption DEF RecTypes, FilesStand
  <2>2. names <= written' /\ names < written'
    BY <1>2, <2>1
  <2>3. fh' = "open" \/ rot'.at = "create"
    BY <1>b, <1>2
  <2> QED
    BY <1>0, <1>1, <1>b, <1>2, <1>7, <2>2, <2>3 DEF FilesStand
<1>10. /\ \A r \in Elements(live'.rows) \cup Elements(unflushed') :
            r \in Elements(live.rows) \cup Elements(unflushed) \/ (written < r /\ r <= written')
       /\ Elements(unflushed') = {} /\ Ascending(unflushed') /\ written <= written'
       /\ \A q \in written + 1 .. written' : q = written + 1
  <2>1. written <= written' /\ written < written + 1 /\ written + 1 <= written'
        /\ \A q \in written + 1 .. written' : q = written + 1
    BY <1>2
  <2>2. Elements(unflushed') = {} /\ Ascending(unflushed')
    BY <1>1, RowsOfNone
  <2> QED
    BY <1>4, <1>6, <1>7, <2>1, <2>2
<1>11. RowsStand'
  <2>1. \A q \in Elements(live.rows) \cup Elements(unflushed) \cup lost \cup (written + 1 .. written') :
          q \in Elements(live'.rows) \cup Elements(unflushed') \cup lost'
    BY <1>1, <1>4, <1>6, <1>7, <1>10
  <2> QED
    BY <1>0, <1>1, <1>6, <1>7, <1>8, <1>10, <2>1, RowsGrow
<1>12. NewestStands' /\ ArchivesStand' /\ QueryStands' /\ OrderStands'
  <2>1. Elements(live.rows) \subseteq Elements(live'.rows)
    BY <1>4, <1>6, <1>7
  <2> QED
    BY <1>1, <1>2, <1>8, <1>10, <2>1, FilesGrow
<1> QED
  BY <1>2, <1>8, <1>9, <1>11, <1>12 DEF RecStands

LEMMA WriteFailsStands ==
  ASSUME RecStands, NEW h \in Handlers, WriteFails(h)
  PROVE  RecStands' /\ started
<1>0. /\ RecTypes /\ FilesStand /\ RowsStand /\ unflushed \in Seq(RowNumbers) /\ live.rows \in Seq(RowNumbers)
  BY DEF RecStands, RecTypes, LiveFiles
<1>1. /\ NextRow(h) /\ hand' = [hand EXCEPT ![h] = "idle"]
      /\ UNCHANGED <<started, paused, deaf, names, moved, doubled, crashes, archives, query, fh, rot>>
  BY DEF WriteFails, othersOfHandler
<1>a. PICK k \in 0 .. Len(unflushed) :
        /\ Flushed(k)
        /\ (unflushed' = Append(StillIn(k), written + 1) /\ lost' = lost)
           \/ (unflushed' = StillIn(k) /\ lost' = lost \cup {written + 1})
  BY DEF WriteFails
<1>2. /\ started /\ live.exists /\ rot.at = "no" /\ fh = "open"
      /\ written \in Nat /\ written' = written + 1 /\ written + 1 \in RowNumbers
      /\ written + 1 \in 0 .. MaxRows
      /\ rot' \in Rotations /\ rot'.at \in {"no", "create"}
      /\ (rot'.at = "no" <=> rot'.by = NoHandler)
      /\ hand' \in [Handlers -> {"idle", "has", "stale"}] /\ late' \in [Handlers -> {0, 1}]
      /\ \A g \in Handlers : PauseStands(g)'
  BY <1>1, NextRowStands
<1>3. PICK d : d = StillIn(k)
  OBVIOUS
<1>4. /\ live' \in LiveFiles /\ live'.exists = live.exists /\ Ascending(live'.rows)
      /\ live'.rows \in Seq(RowNumbers) /\ d \in Seq(RowNumbers) /\ Ascending(d)
      /\ Elements(live.rows) \subseteq Elements(live'.rows)
      /\ \A r \in Elements(live'.rows), q \in Elements(d) : r < q
      /\ Elements(live'.rows) \cup Elements(d) = Elements(live.rows) \cup Elements(unflushed)
  BY <1>a, <1>3, FlushedRows
<1>5. \A r \in Elements(live'.rows) \cup Elements(d) : r \in Nat /\ r < written + 1
  <2>1. ASSUME NEW r \in Elements(live'.rows) \cup Elements(d) PROVE r <= written
    BY <1>0, <1>4, <2>1 DEF RowsStand
  <2>2. \A r \in Elements(live'.rows) \cup Elements(d) : r \in Nat
    BY <1>4, RowIsNumber
  <2> QED
    BY <1>2, <2>1, <2>2
<1>6. /\ unflushed' \in Seq(RowNumbers) /\ Ascending(unflushed')
      /\ lost' \subseteq RowNumbers /\ lost \subseteq lost'
      /\ \A r \in Elements(unflushed') : r \in Elements(d) \/ r = written + 1
      /\ Elements(d) \cup lost \cup {written + 1} \subseteq Elements(unflushed') \cup lost'
  <2>1. CASE unflushed' = Append(d, written + 1) /\ lost' = lost
    <3>1. /\ Append(d, written + 1) \in Seq(RowNumbers) /\ Ascending(Append(d, written + 1))
          /\ Elements(Append(d, written + 1)) = Elements(d) \cup {written + 1}
      BY <1>2, <1>4, <1>5, RowAdded
    <3> QED
      BY <1>0, <2>1, <3>1 DEF RecTypes
  <2>2. CASE unflushed' = d /\ lost' = lost \cup {written + 1}
    BY <1>0, <1>2, <1>4, <2>2 DEF RecTypes
  <2> QED
    BY <1>a, <1>3, <2>1, <2>2
<1>8. RecTypes'
  BY <1>0, <1>1, <1>2, <1>4, <1>6 DEF RecTypes
<1>9. FilesStand'
  <2>1. names \in Nat /\ names <= written
    BY <1>0, RecorderAssumption DEF RecTypes, FilesStand
  <2>2. names <= written'
    BY <1>2, <2>1
  <2> QED
    BY <1>0, <1>1, <1>2, <1>4, <2>2 DEF FilesStand
<1>10. /\ \A r \in Elements(live'.rows) \cup Elements(unflushed') :
            r \in Elements(live.rows) \cup Elements(unflushed) \/ (written < r /\ r <= written')
       /\ written <= written' /\ \A q \in written + 1 .. written' : q = written + 1
  <2>1. written <= written' /\ written < written + 1 /\ written + 1 <= written'
        /\ \A q \in written + 1 .. written' : q = written + 1
    BY <1>2
  <2> QED
    BY <1>4, <1>6, <2>1
<1>11. RowsStand'
  <2>1. \A q \in Elements(live.rows) \cup Elements(unflushed) \cup lost \cup (written + 1 .. written') :
          q \in Elements(live'.rows) \cup Elements(unflushed') \cup lost'
    BY <1>4, <1>6, <1>10
  <2>2. \A r \in Elements(live'.rows), q \in Elements(unflushed') : r < q
    BY <1>4, <1>5, <1>6
  <2> QED
    BY <1>0, <1>1, <1>4, <1>6, <1>8, <1>10, <2>1, <2>2, RowsGrow
<1>12. NewestStands' /\ ArchivesStand' /\ QueryStands' /\ OrderStands'
  BY <1>1, <1>2, <1>4, <1>6, <1>8, <1>10, FilesGrow
<1> QED
  BY <1>2, <1>8, <1>9, <1>11, <1>12 DEF RecStands

-----------------------------------------------------------------------------
\* A rotation, which spoils the query that is under way.

LEMMA OverlapStands ==
  ASSUME RecStands, Overlaps
  PROVE  /\ query' \in Queries /\ QueryStands'
         /\ query'.at = query.at /\ query'.got = query.got /\ query'.todo = query.todo
         /\ query'.quiet = query.quiet
<1>1. query \in Queries
  BY DEF RecStands, RecTypes
<1>2. CASE query.at = "idle"
  BY <1>1, <1>2 DEF Overlaps, QueryStands
<1>3. CASE query.at # "idle"
  <2>1. query' = [query EXCEPT !.overlapped = TRUE, !.from = {}]
    BY <1>3 DEF Overlaps
  <2> QED
    BY <1>1, <2>1 DEF Queries, QueryStands
<1> QED
  BY <1>2, <1>3

\* Each step but the last leaves the pause as it is.
LEMMA GoingStands ==
  ASSUME RecStands, UNCHANGED <<paused, late, hand>>, NEW step, rot.at # "no", step # "no",
         step \in {"create", "copy", "unlink", "open", "prune"}, RotationGoes(step)
  PROVE  /\ rot' \in Rotations /\ (rot'.at = "no" <=> rot'.by = NoHandler) /\ rot'.at = step
         /\ \A h \in Handlers : PauseStands(h)'
<1>1. rot \in Rotations /\ rot.by \in Handlers \cup {NoHandler} /\ rot.by # NoHandler
  BY DEF RecStands, RecTypes, Rotations
<1>2. rot' \in Rotations /\ rot'.at = step /\ rot'.by = rot.by
  BY <1>1 DEF RotationGoes, Rotations
<1>3. \A h \in Handlers : PauseStands(h)'
  BY <1>2 DEF RecStands, PauseStands
<1> QED
  BY <1>1, <1>2, <1>3

LEMMA ReturningStands ==
  ASSUME RecStands, UNCHANGED <<paused, late>>, rot.at # "no", RotationReturns
  PROVE  /\ rot' \in Rotations /\ (rot'.at = "no" <=> rot'.by = NoHandler) /\ rot'.at = "no"
         /\ hand' \in [Handlers -> {"idle", "has", "stale"}]
         /\ \A h \in Handlers : PauseStands(h)'
<1>1. /\ rot \in Rotations /\ rot.by \in Handlers /\ hand \in [Handlers -> {"idle", "has", "stale"}]
  BY DEF RecStands, RecTypes, Rotations
<1>2. rot' = [at |-> "no", by |-> NoHandler] /\ hand' = [hand EXCEPT ![rot.by] = "idle"]
  BY DEF RotationReturns, NoRotation
<1>3. rot' \in Rotations /\ rot'.at = "no" /\ rot'.by = NoHandler
  BY <1>2 DEF Rotations
<1>4. ASSUME NEW h \in Handlers PROVE PauseStands(h)'
  BY <1>1, <1>2, <1>4 DEF RecStands, PauseStands
<1> QED
  BY <1>1, <1>2, <1>3, <1>4

LEMMA ArchiveIs ==
  ASSUME RecTypes, NEW j \in 1 .. Len(archives)
  PROVE  /\ archives[j] \in Archive /\ archives[j].name \in Nat
         /\ archives[j].rows \in Seq(RowNumbers) /\ archives[j].readable \in BOOLEAN
         /\ \A r \in RowsOf(j) : r \in Nat
<1>1. archives[j] \in Archive
  BY DEF RecTypes
<1>2. /\ archives[j].name \in Nat
      /\ archives[j].rows \in Seq(RowNumbers) /\ archives[j].readable \in BOOLEAN
  BY <1>1 DEF Archive
<1> QED
  BY <1>1, <1>2, RowIsNumber DEF RowsOf

LEMMA CreateStands ==
  ASSUME RecStands, RotateCreates
  PROVE  RecStands'
<1>0. /\ RecTypes /\ FilesStand /\ archives \in Seq(Archive) /\ names \in Nat /\ written \in 0 .. MaxRows
      /\ written \in Nat
  BY RecorderAssumption DEF RecStands, RecTypes
<1>1. PICK new : new = [name |-> names + 1, rows |-> <<>>, readable |-> FALSE]
  OBVIOUS
<1>2. /\ rot.at = "create" /\ names' = names + 1 /\ archives' = Append(archives, new)
      /\ RotationGoes("copy") /\ Overlaps
      /\ UNCHANGED <<started, paused, late, written, unflushed, lost, crashes, moved, hand, live, fh, deaf,
                       doubled>>
  BY <1>1 DEF RotateCreates, othersOfRotation
<1>3. names + 1 <= written /\ names + 1 \in 1 .. MaxRows
  BY <1>0, <1>2, RecorderAssumption DEF FilesStand
<1>4. new \in Archive /\ new.name = names + 1 /\ new.rows = <<>> /\ new.readable = FALSE
  BY <1>1, <1>3, RowsOfNone DEF Archive
<1>5. PICK n \in Nat : n = Len(archives)
  BY <1>0, LengthIsNat
<1>6. archives' \in Seq(Archive) /\ Len(archives') = n + 1 /\ archives'[n + 1] = new
  BY <1>0, <1>2, <1>4, <1>5, AppendAt
<1>7. ASSUME NEW k \in 1 .. n PROVE archives'[k] = archives[k]
  BY <1>0, <1>2, <1>4, <1>5, AppendBefore
<1>8. /\ rot' \in Rotations /\ (rot'.at = "no" <=> rot'.by = NoHandler) /\ rot'.at = "copy"
      /\ \A h \in Handlers : PauseStands(h)'
  BY <1>2, GoingStands
<1>9. query' \in Queries /\ QueryStands' /\ query'.at = query.at /\ query'.got = query.got
      /\ query'.todo = query.todo /\ query'.quiet = query.quiet
  BY <1>2, OverlapStands
<1>10. RecTypes'
  <2>1. names + 1 \in 0 .. MaxRows
    BY <1>3
  <2> QED
    BY <1>0, <1>2, <1>6, <1>8, <1>9, <2>1 DEF RecTypes
<1>11. FilesStand'
  BY <1>0, <1>2, <1>3, <1>8 DEF FilesStand
<1>12. NewestStands'
  BY <1>4, <1>5, <1>6, <1>8 DEF NewestStands
<1>13. moved' = moved
  BY <1>2
<1>14. \A k \in 1 .. n : RowsOf(k)' = RowsOf(k)
  BY <1>7 DEF RowsOf
<1>15. RowsOf(n + 1)' = {} /\ Ascending(archives'[n + 1].rows)
  BY <1>4, <1>6, RowsOfNone DEF RowsOf
<1>16. \A k \in 1 .. n + 1 : k \in 1 .. n \/ k = n + 1
  OBVIOUS
<1>17. ASSUME NEW j \in 1 .. n, NEW r, Reaches(j, r) PROVE Reaches(j, r)'
  <2> SUFFICES ASSUME NEW q \in r .. moved
               PROVE  q \in lost \/ \E k \in j .. n + 1 : archives'[k].readable /\ q \in RowsOf(k)'
    BY <1>2, <1>6, <1>13 DEF Reaches
  <2>1. CASE q \in lost
    BY <2>1
  <2>2. CASE q \notin lost
    <3>1. PICK k \in j .. n : archives[k].readable /\ q \in RowsOf(k)
      BY <1>5, <1>17, <2>2 DEF Reaches
    <3>2. k \in 1 .. n /\ k \in j .. n + 1
      OBVIOUS
    <3> QED
      BY <1>7, <1>14, <3>1, <3>2
  <2> QED
    BY <2>1, <2>2
<1>18. ASSUME NEW j \in 1 .. n + 1 PROVE ArchiveStands(j)'
  <2>1. CASE j \in 1 .. n
    <3>1. ArchiveStands(j) /\ archives[j].name \in Nat
      BY <1>0, <1>5, <2>1, ArchiveIs DEF RecStands, ArchivesStand
    <3>2. archives[j].name <= names + 1 /\ \A r \in RowsOf(j) : r <= written
      BY <1>0, <3>1 DEF ArchiveStands
    <3> QED
      BY <1>2, <1>7, <1>14, <1>17, <2>1, <3>1, <3>2 DEF ArchiveStands
  <2>2. CASE j = n + 1
    BY <1>0, <1>2, <1>4, <1>6, <1>15, <2>2 DEF ArchiveStands
  <2> QED
    BY <1>16, <2>1, <2>2
<1>19. NamesApart'
  <2> SUFFICES ASSUME NEW i \in 1 .. n + 1, NEW j \in 1 .. n + 1, i < j
               PROVE  archives'[i].name < archives'[j].name
    BY <1>6 DEF NamesApart
  <2>1. i \in 1 .. n
    OBVIOUS
  <2>2. archives[i].name <= names /\ archives[i].name \in Nat
    BY <1>0, <1>5, <2>1, ArchiveIs DEF RecStands, ArchivesStand, ArchiveStands
  <2>3. CASE j \in 1 .. n
    BY <1>5, <1>7, <2>1, <2>3 DEF RecStands, ArchivesStand, NamesApart
  <2>4. CASE j = n + 1
    BY <1>0, <1>4, <1>6, <1>7, <2>1, <2>2, <2>4
  <2> QED
    BY <1>16, <2>3, <2>4
<1>20. ~doubled => RowsApart'
  <2> SUFFICES ASSUME ~doubled PROVE RowsApart'
    OBVIOUS
  <2>1. RowsApart
    BY DEF RecStands, ArchivesStand
  <2>2. \A k \in 1 .. n + 1 :
          archives'[k].readable \/ (rot'.at = "copy" /\ k = n + 1 /\ archives'[k].rows = <<>>)
    BY <1>2, <1>4, <1>5, <1>6, <1>7, <1>8, <1>16, <2>1 DEF RowsApart
  <2>3. ASSUME NEW i \in 1 .. n + 1, NEW j \in 1 .. n + 1, i < j, NEW r \in RowsOf(i)', NEW q \in RowsOf(j)'
        PROVE  r < q
    <3>1. i \in 1 .. n /\ j \in 1 .. n
      BY <1>15, <1>16, <2>3
    <3> QED
      BY <1>5, <1>14, <2>1, <2>3, <3>1 DEF RowsApart
  <2>4. \A k \in 1 .. n + 1 : \A r \in RowsOf(k)' : r <= moved
    BY <1>2, <1>5, <1>14, <1>15, <1>16, <2>1 DEF RowsApart
  <2> QED
    BY <1>6, <1>13, <2>2, <2>3, <2>4 DEF RowsApart
<1>21. RowsStand'
  BY <1>2 DEF RecStands, RowsStand
<1>22. OrderStands'
  <2>1. ASSUME query.at # "idle", query.quiet, ~doubled PROVE names + 1 \notin Elements(query.todo)
    <3>1. \A x \in Elements(query.todo) : x <= names
      BY <2>1 DEF RecStands, OrderStands
    <3> QED
      BY <1>0, <3>1
  <2>2. ASSUME query.at # "idle", query.quiet, ~doubled,
               NEW k \in 1 .. Len(archives'), archives'[k].name \in Elements(query.todo)
        PROVE  \E j \in 1 .. Len(archives) : archives[j].name = archives'[k].name /\ RowsOf(k)' \subseteq RowsOf(j)
    <3>1. k \in 1 .. n
      BY <1>4, <1>6, <1>16, <2>1, <2>2
    <3> QED
      BY <1>5, <1>7, <1>14, <3>1
  <2>3. query.at # "idle" /\ query.quiet /\ ~doubled => archives'[Len(archives')].name \notin Elements(query.todo)
    BY <1>4, <1>6, <2>1
  <2>4. OrderStands /\ query \in Queries /\ names <= names'
    BY <1>0, <1>2 DEF RecStands, RecTypes
  <2>5. written <= written' /\ names' \in Nat
    BY <1>0, <1>2
  <2> QED
    BY <1>0, <1>2, <1>9, <2>2, <2>3, <2>4, <2>5, OrderKept
<1> QED
  BY <1>2, <1>6, <1>8, <1>9, <1>10, <1>11, <1>12, <1>18, <1>19, <1>20, <1>21, <1>22 DEF RecStands, ArchivesStand

\* The newest archive is given rows of the live file.
LEMMA NewestFilled ==
  ASSUME RecStands, rot.at = "copy", NEW rs \in Seq(RowNumbers), NEW w \in BOOLEAN,
         Ascending(rs), Elements(rs) \subseteq Elements(live.rows),
         Newest([rows |-> rs, readable |-> w]), UNCHANGED <<live, written, names, lost, moved>>
  PROVE  /\ archives' \in Seq(Archive) /\ Len(archives') = Len(archives) /\ Len(archives) # 0
         /\ archives'[Len(archives)].rows = rs /\ archives'[Len(archives)].readable = w
         /\ \A k \in 1 .. Len(archives) - 1 : archives'[k] = archives[k]
         /\ \A k \in 1 .. Len(archives) - 1 : RowsOf(k)' = RowsOf(k)
         /\ \A j \in 1 .. Len(archives') : ArchiveStands(j)'
         /\ NamesApart'
         /\ \A r \in Elements(live.rows) : moved < r /\ r <= written
         /\ \A k \in 1 .. Len(archives) : archives'[k].name = archives[k].name
<1>0. /\ RecTypes /\ archives \in Seq(Archive) /\ live.rows \in Seq(RowNumbers) /\ written \in Nat
      /\ moved \in Nat
  BY RecorderAssumption DEF RecStands, RecTypes, LiveFiles
<1>1. PICK n \in Nat : n = Len(archives)
  BY <1>0, LengthIsNat
<1>2. n # 0 /\ ~archives[n].readable /\ n \in 1 .. n
  BY <1>1 DEF RecStands, NewestStands
<1>3. archives[n] \in Archive
  BY <1>0, <1>1, <1>2, ArchiveIs
<1>4. PICK last : last = [archives[n] EXCEPT !.rows = rs, !.readable = w]
  OBVIOUS
<1>5. last \in Archive /\ last.rows = rs /\ last.readable = w /\ last.name = archives[n].name
  BY <1>3, <1>4 DEF Archive
<1>6. archives' = [archives EXCEPT ![n] = last]
  BY <1>1, <1>4 DEF Newest
<1>7. /\ archives' \in Seq(Archive) /\ Len(archives') = n /\ archives'[n] = last
  BY <1>0, <1>1, <1>2, <1>5, <1>6
<1>8. ASSUME NEW k \in 1 .. n - 1 PROVE archives'[k] = archives[k] /\ k \in 1 .. n /\ k # n
  BY <1>0, <1>1, <1>6
<1>9. \A k \in 1 .. n - 1 : RowsOf(k)' = RowsOf(k)
  BY <1>8 DEF RowsOf
<1>10. \A r \in Elements(live.rows) : r \in Nat /\ moved < r /\ r <= written
  BY <1>0, RowIsNumber DEF RecStands, RowsStand
<1>11. RowsOf(n)' = Elements(rs)
  BY <1>5, <1>7 DEF RowsOf
<1>12. moved' = moved /\ lost' = lost /\ moved \in Nat
  BY <1>0
<1>13. ASSUME NEW j \in 1 .. n PROVE ArchiveStands(j)'
  <2>a. ArchiveStands(j)
    BY <1>1 DEF RecStands, ArchivesStand
  <2>b. ASSUME j = n PROVE archives'[j].name = archives[j].name
    BY <1>5, <1>7, <2>b
  <2>c. ASSUME j # n PROVE archives'[j].name = archives[j].name
    <3>1. j \in 1 .. n - 1
      BY <2>c
    <3> QED
      BY <1>8, <3>1
  <2>0. archives'[j].name = archives[j].name
    BY <2>b, <2>c
  <2>1. CASE j = n
    <3>1. ASSUME NEW r \in RowsOf(n)' PROVE r <= written /\ Reaches(n, r)'
      <4>1. r \in Nat /\ moved < r /\ r <= written
        BY <1>10, <1>11, <3>1
      <4>2. \A q \in r .. moved : FALSE
        BY <1>12, <4>1
      <4> QED
        BY <1>12, <4>1, <4>2 DEF Reaches
    <3> QED
      BY <1>5, <1>7, <2>a, <2>0, <2>1, <3>1 DEF ArchiveStands
  <2>2. CASE j # n
    <3>1. j \in 1 .. n - 1
      BY <2>2
    <3>2. archives'[j] = archives[j] /\ RowsOf(j)' = RowsOf(j)
      BY <1>8, <1>9, <3>1
    <3>3. ASSUME NEW r, Reaches(j, r) PROVE Reaches(j, r)'
      <4> SUFFICES ASSUME NEW q \in r .. moved
                   PROVE  q \in lost \/ \E k \in j .. n : archives'[k].readable /\ q \in RowsOf(k)'
        BY <1>7, <1>12 DEF Reaches
      <4> SUFFICES ASSUME q \notin lost PROVE \E k \in j .. n : archives'[k].readable /\ q \in RowsOf(k)'
        OBVIOUS
      <4>1. PICK k \in j .. n : archives[k].readable /\ q \in RowsOf(k)
        BY <1>1, <3>3 DEF Reaches
      <4>2. k \in 1 .. n - 1
        BY <1>2, <4>1
      <4> QED
        BY <1>8, <1>9, <4>1, <4>2
    <3> QED
      BY <2>a, <2>0, <3>2, <3>3 DEF ArchiveStands
  <2> QED
    BY <2>1, <2>2
<1>15. \A k \in 1 .. n : archives'[k].name = archives[k].name
  BY <1>5, <1>7, <1>8
<1>14. NamesApart'
  BY <1>1, <1>7, <1>15 DEF RecStands, ArchivesStand, NamesApart
<1> QED
  BY <1>1, <1>2, <1>5, <1>7, <1>8, <1>9, <1>10, <1>13, <1>14, <1>15

LEMMA CopiesStands ==
  ASSUME RecStands, RotateCopies
  PROVE  RecStands'
<1>0. /\ RecTypes /\ FilesStand /\ live.rows \in Seq(RowNumbers) /\ written \in Nat /\ names \in Nat
      /\ moved \in Nat /\ archives \in Seq(Archive) /\ query \in Queries /\ OrderStands
  BY RecorderAssumption DEF RecStands, RecTypes, LiveFiles
<1>1. /\ rot.at = "copy" /\ Newest([rows |-> live.rows, readable |-> TRUE]) /\ RotationGoes("unlink")
      /\ Overlaps
      /\ UNCHANGED <<started, paused, late, written, unflushed, lost, crashes, moved, hand, live, fh, deaf,
                       names, doubled>>
  BY DEF RotateCopies, othersOfRotation
<1>2. Ascending(live.rows)
  BY DEF RecStands, RowsStand
<1>3. PICK n \in Nat : n = Len(archives)
  BY <1>0, LengthIsNat
<1>4. /\ archives' \in Seq(Archive) /\ Len(archives') = n /\ n # 0
      /\ archives'[n].rows = live.rows /\ archives'[n].readable
      /\ \A k \in 1 .. n - 1 : archives'[k] = archives[k]
      /\ \A k \in 1 .. n - 1 : RowsOf(k)' = RowsOf(k)
      /\ \A j \in 1 .. n : ArchiveStands(j)'
      /\ NamesApart' /\ \A r \in Elements(live.rows) : moved < r
      /\ \A k \in 1 .. n : archives'[k].name = archives[k].name
  BY <1>0, <1>1, <1>2, <1>3, NewestFilled
<1>5. /\ rot' \in Rotations /\ (rot'.at = "no" <=> rot'.by = NoHandler) /\ rot'.at = "unlink"
      /\ \A h \in Handlers : PauseStands(h)'
  BY <1>1, GoingStands
<1>6. query' \in Queries /\ QueryStands' /\ query'.at = query.at /\ query'.got = query.got
      /\ query'.todo = query.todo /\ query'.quiet = query.quiet
  BY <1>1, OverlapStands
<1>7. RecTypes'
  BY <1>0, <1>1, <1>4, <1>5, <1>6 DEF RecTypes
<1>8. FilesStand'
  BY <1>0, <1>1, <1>5 DEF FilesStand
<1>9. NewestStands'
  BY <1>1, <1>4, <1>5 DEF NewestStands
<1>10. moved' = moved /\ moved \in Int
  BY <1>0, <1>1
<1>11. ~doubled => RowsApart'
  <2> SUFFICES ASSUME ~doubled PROVE RowsApart'
    OBVIOUS
  <2>1. RowsApart
    BY DEF RecStands, ArchivesStand
  <2>2. \A k \in 1 .. n : k = n \/ k \in 1 .. n - 1
    OBVIOUS
  <2>3. \A k \in 1 .. n : archives'[k].readable
    <3>1. \A k \in 1 .. n - 1 : k \in 1 .. n /\ k # n
      OBVIOUS
    <3>2. \A k \in 1 .. n - 1 : archives[k].readable
      BY <1>3, <2>1, <3>1 DEF RowsApart
    <3> QED
      BY <1>4, <2>2, <3>2
  <2>4. \A k \in 1 .. n - 1 : \A r \in RowsOf(k)' : r \in Nat /\ r <= moved
    <3>1. ASSUME NEW k \in 1 .. n - 1, NEW r \in RowsOf(k)' PROVE r \in Nat /\ r <= moved
      <4>1. k \in 1 .. n /\ r \in RowsOf(k)
        BY <1>4, <3>1
      <4> QED
        BY <1>0, <1>1, <1>3, <2>1, <4>1, ArchiveIs DEF RowsApart
    <3> QED
      BY <3>1
  <2>5. RowsOf(n)' = Elements(live.rows)
    BY <1>4 DEF RowsOf
  <2>6. ASSUME NEW i \in 1 .. n, NEW j \in 1 .. n, i < j, NEW r \in RowsOf(i)', NEW q \in RowsOf(j)'
        PROVE  r < q
    <3>1. i \in 1 .. n - 1
      BY <2>6
    <3>2. CASE j \in 1 .. n - 1
      BY <1>3, <1>4, <2>1, <2>6, <3>1, <3>2 DEF RowsApart
    <3>3. CASE j = n
      <4>1. q \in Elements(live.rows)
        BY <2>5, <2>6, <3>3
      <4>2. q \in Nat /\ moved < q
        BY <1>0, <1>4, <4>1, RowIsNumber
      <4>3. r \in Nat /\ r <= moved
        BY <2>4, <2>6, <3>1
      <4> QED
        BY <1>10, <4>2, <4>3
    <3> QED
      BY <2>2, <3>2, <3>3
  <2> QED
    BY <1>4, <1>5, <1>10, <2>2, <2>3, <2>4, <2>6 DEF RowsApart
<1>12. RowsStand'
  BY <1>1 DEF RecStands, RowsStand
<1>13. OrderStands'
  <2>1. ASSUME query.at # "idle", query.quiet, ~doubled
        PROVE  archives'[n].name \notin Elements(query.todo)
    BY <1>0, <1>1, <1>3, <1>4, <2>1 DEF OrderStands
  <2>2. ASSUME query.at # "idle", query.quiet, ~doubled,
               NEW k \in 1 .. n, archives'[k].name \in Elements(query.todo)
        PROVE  archives[k].name = archives'[k].name /\ RowsOf(k)' \subseteq RowsOf(k)
    <3>1. k # n
      BY <2>1, <2>2
    <3>2. k \in 1 .. n - 1
      BY <3>1
    <3> QED
      BY <1>4, <3>2
  <2>3. written <= written' /\ names <= names'
    BY <1>0, <1>1
  <2> QED
    BY <1>0, <1>1, <1>3, <1>4, <1>6, <2>1, <2>2, <2>3, OrderKept
<1> QED
  BY <1>1, <1>4, <1>5, <1>6, <1>7, <1>8, <1>9, <1>11, <1>12, <1>13 DEF RecStands, ArchivesStand

LEMMA CopyFailsStands ==
  ASSUME RecStands, RotateCopyFails
  PROVE  RecStands'
<1>0. /\ RecTypes /\ FilesStand /\ RowsStand /\ live.rows \in Seq(RowNumbers) /\ Ascending(live.rows)
      /\ archives \in Seq(Archive)
  BY DEF RecStands, RecTypes, LiveFiles, RowsStand
<1>1. /\ rot.at = "copy" /\ RotationGoes("open") /\ Overlaps /\ doubled' = TRUE
      /\ UNCHANGED <<started, paused, late, written, unflushed, lost, crashes, moved, hand, live, fh, deaf, names>>
  BY DEF RotateCopyFails, othersOfRotation
<1>2. PICK n \in 0 .. Len(live.rows), whole \in BOOLEAN :
        Newest([rows |-> SubSeq(live.rows, 1, n), readable |-> whole])
  BY DEF RotateCopyFails
<1>3. PICK rs : rs = SubSeq(live.rows, 1, n)
  OBVIOUS
<1>4. rs \in Seq(RowNumbers) /\ Ascending(rs) /\ Elements(rs) \subseteq Elements(live.rows)
  BY <1>0, <1>3, FirstRows
<1>5. /\ archives' \in Seq(Archive) /\ \A j \in 1 .. Len(archives') : ArchiveStands(j)'
      /\ NamesApart'
  BY <1>1, <1>2, <1>3, <1>4, NewestFilled
<1>6. /\ rot' \in Rotations /\ (rot'.at = "no" <=> rot'.by = NoHandler) /\ rot'.at = "open"
      /\ \A h \in Handlers : PauseStands(h)'
  BY <1>1, GoingStands
<1>7. query' \in Queries /\ QueryStands'
  BY <1>1, OverlapStands
<1>8. RecTypes'
  BY <1>0, <1>1, <1>5, <1>6, <1>7 DEF RecTypes
<1>9. FilesStand'
  BY <1>0, <1>1, <1>6 DEF FilesStand
<1>10. NewestStands'
  BY <1>6 DEF NewestStands
<1>11. RowsStand'
  BY <1>0, <1>1 DEF RowsStand
<1>12. OrderStands'
  BY <1>1 DEF OrderStands
<1> QED
  BY <1>1, <1>5, <1>6, <1>7, <1>8, <1>9, <1>10, <1>11, <1>12 DEF RecStands, ArchivesStand

\* The rotation removes the live file, whose rows are in the newest archive.
LEMMA UnlinksStands ==
  ASSUME RecStands, RotateUnlinks
  PROVE  RecStands'
<1>0. /\ RecTypes /\ FilesStand /\ RowsStand /\ written \in Nat /\ moved \in Nat /\ names \in Nat
      /\ written \in 0 .. MaxRows /\ archives \in Seq(Archive) /\ query \in Queries /\ OrderStands
  BY RecorderAssumption DEF RecStands, RecTypes
<1>1. /\ rot.at = "unlink" /\ live' = [exists |-> FALSE, rows |-> <<>>] /\ RotationGoes("open") /\ Overlaps
      /\ moved' = written
      /\ UNCHANGED <<started, paused, late, written, unflushed, lost, crashes, hand, fh, archives, deaf, names,
                     doubled>>
  BY DEF RotateUnlinks, othersOfRotation
<1>2. live'.rows = <<>> /\ ~live'.exists /\ live' \in LiveFiles
  BY <1>1, RowsOfNone DEF LiveFiles
<1>3. unflushed = <<>> /\ Elements(unflushed) = {}
  BY <1>0, <1>1, RowsOfNone DEF FilesStand
<1>4. PICK n \in Nat : n = Len(archives)
  BY <1>0, LengthIsNat
<1>5. n # 0 /\ archives[n].readable /\ archives[n].rows = live.rows
  BY <1>1, <1>4 DEF RecStands, NewestStands
<1>6. \A q \in Nat : moved < q /\ q <= written => q \in RowsOf(n) \cup lost
  <2>1. ASSUME NEW q \in Nat, moved < q, q <= written PROVE q \in RowsOf(n) \cup lost
    <3>1. q \in moved + 1 .. written
      BY <1>0, <2>1
    <3> QED
      BY <1>0, <1>3, <1>5, <3>1 DEF RowsOf, RowsStand
  <2> QED
    BY <2>1
<1>7. \A k : RowsOf(k)' = RowsOf(k)
  BY <1>1 DEF RowsOf
<1>8. /\ rot' \in Rotations /\ (rot'.at = "no" <=> rot'.by = NoHandler) /\ rot'.at = "open"
      /\ \A h \in Handlers : PauseStands(h)'
  BY <1>1, GoingStands
<1>9. query' \in Queries /\ QueryStands' /\ query'.at = query.at /\ query'.got = query.got
      /\ query'.todo = query.todo /\ query'.quiet = query.quiet
  BY <1>1, OverlapStands
<1>10. RecTypes'
  BY <1>0, <1>1, <1>2, <1>8, <1>9 DEF RecTypes
<1>11. FilesStand'
  BY <1>0, <1>1, <1>2, <1>8 DEF FilesStand
<1>12. NewestStands'
  BY <1>8 DEF NewestStands
<1>13. ASSUME NEW j \in 1 .. n PROVE ArchiveStands(j)'
  <2>1. ArchiveStands(j) /\ \A r \in RowsOf(j) : r \in Nat
    BY <1>0, <1>4, ArchiveIs DEF RecStands, ArchivesStand
  <2>2. ASSUME NEW r \in RowsOf(j), Reaches(j, r) PROVE Reaches(j, r)'
    <3> SUFFICES ASSUME NEW q \in r .. written
                 PROVE  q \in lost \/ \E k \in j .. n : archives[k].readable /\ q \in RowsOf(k)
      BY <1>1, <1>4, <1>7 DEF Reaches
    <3>1. CASE q <= moved
      <4>1. q \in r .. moved
        BY <1>0, <2>1, <3>1
      <4> QED
        BY <1>4, <2>2, <4>1 DEF Reaches
    <3>2. CASE ~(q <= moved)
      <4>1. q \in Nat /\ moved < q /\ q <= written
        BY <1>0, <2>1, <3>2
      <4>2. n \in j .. n
        OBVIOUS
      <4> QED
        BY <1>5, <1>6, <4>1, <4>2
    <3> QED
      BY <3>1, <3>2
  <2> QED
    BY <1>1, <1>7, <2>1, <2>2 DEF ArchiveStands
<1>14. ~doubled => RowsApart'
  <2> SUFFICES ASSUME ~doubled PROVE RowsApart'
    OBVIOUS
  <2>1. RowsApart /\ \A k \in 1 .. n : \A r \in RowsOf(k) : r <= written
    BY <1>4 DEF RecStands, ArchivesStand, ArchiveStands
  <2> QED
    BY <1>1, <1>4, <1>7, <1>8, <2>1 DEF RowsApart
<1>15. RowsStand'
  <2>1. Elements(live'.rows) = {} /\ Ascending(live'.rows) /\ unflushed' = <<>> /\ Elements(unflushed') = {}
        /\ Ascending(unflushed')
    BY <1>1, <1>2, <1>3, RowsOfNone
  <2>2. moved' + 1 .. written' = {} /\ moved' <= written'
    BY <1>0, <1>1
  <2> QED
    BY <2>1, <2>2 DEF RowsStand
<1>16. OrderStands'
  <2>1. Elements(live'.rows) \cup Elements(unflushed') = {}
    BY <1>1, <1>2, <1>3, RowsOfNone
  <2>2. written <= written' /\ names <= names'
    BY <1>0, <1>1
  <2>3. rot'.at \notin {"copy", "unlink"}
    BY <1>8
  <2> QED
    BY <1>0, <1>1, <1>4, <1>7, <1>9, <2>1, <2>2, <2>3, OrderKept
<1> QED
  BY <1>1, <1>4, <1>8, <1>9, <1>10, <1>11, <1>12, <1>13, <1>14, <1>15, <1>16
     DEF RecStands, ArchivesStand, NamesApart

\* The steps that leave the rows where they are.
LEMMA OtherRotationSteps ==
  ASSUME RecStands, RotateUnlinkFails \/ RotateOpens \/ RotateOpenFails
  PROVE  RecStands'
<1>0. RecTypes /\ FilesStand /\ live \in LiveFiles /\ query \in Queries /\ OrderStands
      /\ written \in Nat /\ names \in Nat
  BY RecorderAssumption DEF RecStands, RecTypes
<1>1. /\ Overlaps /\ UNCHANGED <<started, paused, late, written, unflushed, lost, crashes, moved, archives,
                                    names>>
      /\ live' = live \/ live' = [live EXCEPT !.exists = TRUE]
  BY DEF RotateUnlinkFails, RotateOpens, RotateOpenFails, othersOfRotation
<1>2. live' \in LiveFiles /\ live'.rows = live.rows
  BY <1>0, <1>1 DEF LiveFiles
<1>3. query' \in Queries /\ QueryStands' /\ query'.at = query.at /\ query'.got = query.got
      /\ query'.todo = query.todo /\ query'.quiet = query.quiet
  BY <1>1, OverlapStands
<1>4. /\ rot' \in Rotations /\ (rot'.at = "no" <=> rot'.by = NoHandler) /\ rot'.at \in {"open", "prune", "no"}
      /\ hand' \in [Handlers -> {"idle", "has", "stale"}]
      /\ \A h \in Handlers : PauseStands(h)'
  <2>1. CASE RotateOpenFails
    <3>1. rot.at = "open" /\ RotationReturns
      BY <2>1 DEF RotateOpenFails
    <3> QED
      BY <1>1, <3>1, ReturningStands
  <2>2. CASE RotateUnlinkFails
    <3>1. rot.at = "unlink" /\ RotationGoes("open") /\ hand' = hand
      BY <2>2 DEF RotateUnlinkFails
    <3> QED
      BY <1>0, <1>1, <3>1, GoingStands DEF RecTypes
  <2>3. CASE RotateOpens
    <3>1. rot.at = "open" /\ RotationGoes("prune") /\ hand' = hand
      BY <2>3 DEF RotateOpens
    <3> QED
      BY <1>0, <1>1, <3>1, GoingStands DEF RecTypes
  <2> QED
    BY <2>1, <2>2, <2>3
<1>5. fh' \in {"open", "none"} /\ deaf' \in BOOLEAN /\ doubled' \in BOOLEAN /\ (~doubled' => ~doubled /\ rot.at = "open")
  BY <1>0 DEF RotateUnlinkFails, RotateOpens, RotateOpenFails, RecTypes
<1>6. RecTypes'
  BY <1>0, <1>1, <1>2, <1>3, <1>4, <1>5 DEF RecTypes
<1>7. FilesStand'
  <2>0. live.exists \in BOOLEAN /\ rot.at # "no" /\ started
    BY <1>0 DEF LiveFiles, FilesStand, RotateUnlinkFails, RotateOpens, RotateOpenFails
  <2>1. CASE RotateOpenFails
    <3>1. rot.at = "open" /\ live' = live /\ fh' = fh /\ deaf' = TRUE /\ rot'.at = "no"
      BY <2>1 DEF RotateOpenFails, RotationReturns, NoRotation
    <3> QED
      BY <1>0, <1>1, <3>1 DEF FilesStand
  <2>2. CASE RotateUnlinkFails
    <3>1. rot.at = "unlink" /\ live' = live /\ fh' = fh /\ rot'.at = "open"
      BY <1>0, <2>2 DEF RotateUnlinkFails, RotationGoes, RecTypes, Rotations
    <3> QED
      BY <1>0, <1>1, <2>0, <3>1 DEF FilesStand
  <2>3. CASE RotateOpens
    <3>1. rot.at = "open" /\ live'.exists /\ fh' = "open" /\ rot'.at = "prune"
      BY <1>0, <2>3 DEF RotateOpens, RotationGoes, RecTypes, Rotations, LiveFiles
    <3> QED
      BY <1>0, <1>1, <1>2, <2>0, <3>1 DEF FilesStand
  <2> QED
    BY <2>1, <2>2, <2>3
<1>8. NewestStands'
  BY <1>4 DEF NewestStands
<1>9. moved' = moved /\ \A k : RowsOf(k)' = RowsOf(k)
  BY <1>1, <1>2 DEF RowsOf
<1>10. \A j \in 1 .. Len(archives) : ArchiveStands(j)'
  BY <1>1, <1>9 DEF RecStands, ArchivesStand, ArchiveStands, Reaches
<1>11. ~doubled' => RowsApart'
  BY <1>1, <1>5, <1>9 DEF RecStands, ArchivesStand, RowsApart
<1>12. RowsStand'
  BY <1>1, <1>2 DEF RecStands, RowsStand
<1>13. OrderStands'
  <2>1. written <= written' /\ names <= names' /\ rot'.at \notin {"copy", "unlink"}
    BY <1>0, <1>1, <1>4
  <2> QED
    BY <1>0, <1>1, <1>2, <1>3, <1>5, <1>9, <2>1, OrderKept
<1> QED
  BY <1>1, <1>3, <1>4, <1>6, <1>7, <1>8, <1>10, <1>11, <1>12, <1>13 DEF RecStands, ArchivesStand, NamesApart

\* The oldest archives are removed.
LEMMA PrunesStands ==
  ASSUME RecStands, RotatePrunes
  PROVE  RecStands'
<1>0. /\ RecTypes /\ FilesStand /\ archives \in Seq(Archive) /\ query \in Queries /\ OrderStands
      /\ written \in Nat /\ names \in Nat
  BY RecorderAssumption DEF RecStands, RecTypes
<1>1. /\ rot.at = "prune" /\ RotationReturns /\ Overlaps /\ PruneOldest
      /\ UNCHANGED <<started, paused, late, written, unflushed, lost, crashes, moved, live, fh, deaf, names,
                     doubled>>
  BY DEF RotatePrunes, othersOfRotation
<1>2. PICK n \in Nat : n = Len(archives)
  BY <1>0, LengthIsNat
<1>3. PICK d \in 0 .. n : archives' = SubSeq(archives, d + 1, n)
  <2>1. CASE n > KeepArchives
    <3>1. n - KeepArchives \in 0 .. n
      BY <2>1, RecorderAssumption
    <3> QED
      BY <1>1, <1>2, <2>1, <3>1 DEF PruneOldest
  <2>2. CASE ~(n > KeepArchives)
    <3>1. archives' = archives /\ archives = SubSeq(archives, 1, n)
      BY <1>0, <1>1, <1>2, <2>2 DEF PruneOldest
    <3>2. 0 \in 0 .. n /\ 0 + 1 = 1
      OBVIOUS
    <3> QED
      BY <3>1, <3>2
  <2> QED
    BY <2>1, <2>2
<1>4. archives' \in Seq(Archive) /\ Len(archives') = n - d
  BY <1>0, <1>2, <1>3, CutTyped
<1>5. ASSUME NEW i \in 1 .. n - d PROVE archives'[i] = archives[d + i] /\ d + i \in 1 .. n
  BY <1>0, <1>2, <1>3, CutAt
<1>6. \A i \in 1 .. n - d : RowsOf(i)' = RowsOf(d + i)
  BY <1>5 DEF RowsOf
<1>7. /\ rot' \in Rotations /\ (rot'.at = "no" <=> rot'.by = NoHandler) /\ rot'.at = "no"
      /\ hand' \in [Handlers -> {"idle", "has", "stale"}]
      /\ \A h \in Handlers : PauseStands(h)'
  BY <1>1, ReturningStands
<1>8. query' \in Queries /\ QueryStands' /\ query'.at = query.at /\ query'.got = query.got
      /\ query'.todo = query.todo /\ query'.quiet = query.quiet
  BY <1>1, OverlapStands
<1>9. RecTypes'
  BY <1>0, <1>1, <1>4, <1>7, <1>8 DEF RecTypes
<1>10. FilesStand'
  BY <1>0, <1>1, <1>7 DEF FilesStand
<1>11. NewestStands'
  BY <1>7 DEF NewestStands
<1>12. moved' = moved /\ lost' = lost
  BY <1>1
<1>13. ASSUME NEW j \in 1 .. n - d PROVE ArchiveStands(j)'
  <2>1. ArchiveStands(d + j)
    BY <1>2, <1>5 DEF RecStands, ArchivesStand
  <2>2. ASSUME NEW r, Reaches(d + j, r) PROVE Reaches(j, r)'
    <3> SUFFICES ASSUME NEW q \in r .. moved
                 PROVE  q \in lost \/ \E k \in j .. n - d : archives'[k].readable /\ q \in RowsOf(k)'
      BY <1>4, <1>12 DEF Reaches
    <3> SUFFICES ASSUME q \notin lost PROVE \E k \in j .. n - d : archives'[k].readable /\ q \in RowsOf(k)'
      OBVIOUS
    <3>1. PICK k \in d + j .. n : archives[k].readable /\ q \in RowsOf(k)
      BY <1>2, <2>2 DEF Reaches
    <3>2. PICK i \in j .. n - d : k = d + i
      <4>1. k - d \in j .. n - d /\ k = d + (k - d)
        OBVIOUS
      <4> QED
        BY <4>1
    <3>3. i \in 1 .. n - d
      OBVIOUS
    <3> QED
      BY <1>5, <1>6, <3>1, <3>2, <3>3
  <2> QED
    BY <1>1, <1>5, <1>6, <2>1, <2>2 DEF ArchiveStands
<1>14. ASSUME NEW i \in 1 .. n - d, NEW j \in 1 .. n - d, i < j
       PROVE  d + i \in 1 .. n /\ d + j \in 1 .. n /\ d + i < d + j
  BY <1>14
<1>15. NamesApart'
  <2>1. \A i, j \in 1 .. n : i < j => archives[i].name < archives[j].name
    BY <1>2 DEF RecStands, ArchivesStand, NamesApart
  <2>2. ASSUME NEW i \in 1 .. n - d, NEW j \in 1 .. n - d, i < j
        PROVE  archives'[i].name < archives'[j].name
    <3>1. archives[d + i].name < archives[d + j].name
      BY <1>14, <2>1, <2>2
    <3> QED
      BY <1>5, <3>1
  <2> QED
    BY <1>4, <2>2 DEF NamesApart
<1>16. ~doubled => RowsApart'
  <2> SUFFICES ASSUME ~doubled PROVE RowsApart'
    OBVIOUS
  <2>1. RowsApart
    BY DEF RecStands, ArchivesStand
  <2>2. \A i \in 1 .. n - d : archives'[i].readable /\ \A r \in RowsOf(i)' : r <= moved
    <3>1. \A k \in 1 .. n : archives[k].readable /\ \A r \in RowsOf(k) : r <= moved
      BY <1>1, <1>2, <2>1 DEF RowsApart
    <3> QED
      BY <1>5, <1>6, <3>1
  <2>3. ASSUME NEW i \in 1 .. n - d, NEW j \in 1 .. n - d, i < j
        PROVE  \A r \in RowsOf(i)', q \in RowsOf(j)' : r < q
    <3>1. \A r \in RowsOf(d + i), q \in RowsOf(d + j) : r < q
      BY <1>2, <1>14, <2>1, <2>3 DEF RowsApart
    <3> QED
      BY <1>6, <3>1
  <2> QED
    BY <1>4, <1>12, <2>2, <2>3 DEF RowsApart
<1>17. RowsStand'
  BY <1>1 DEF RecStands, RowsStand
<1>18. OrderStands'
  <2>1. written <= written' /\ names <= names' /\ rot'.at \notin {"copy", "unlink"}
    BY <1>0, <1>1, <1>7
  <2>2. ASSUME NEW k \in 1 .. Len(archives')
        PROVE  \E j \in 1 .. Len(archives) : archives[j].name = archives'[k].name /\ RowsOf(k)' \subseteq RowsOf(j)
    BY <1>2, <1>4, <1>5, <1>6, <2>2
  <2> QED
    BY <1>0, <1>1, <1>8, <2>1, <2>2, OrderKept
<1> QED
  BY <1>1, <1>4, <1>7, <1>8, <1>9, <1>10, <1>11, <1>13, <1>15, <1>16, <1>17, <1>18 DEF RecStands, ArchivesStand

-----------------------------------------------------------------------------
\* A query, which changes nothing but itself.

LEMMA QueryChanges ==
  ASSUME RecStands, UNCHANGED othersOfQuery, query' \in Queries, QueryStands', OrderStands'
  PROVE  RecStands'
<1>1. UNCHANGED <<started, paused, hand, live, fh, rot, archives, names, written, unflushed, lost, moved,
                  late, deaf, doubled, crashes>>
  BY DEF othersOfQuery
<1>2. RecTypes' /\ FilesStand' /\ NewestStands' /\ RowsStand'
  BY <1>1 DEF RecStands, RecTypes, FilesStand, NewestStands, RowsStand
<1>3. \A k : RowsOf(k)' = RowsOf(k)
  BY <1>1 DEF RowsOf
<1>4. ArchivesStand'
  BY <1>1, <1>3 DEF RecStands, ArchivesStand, ArchiveStands, Reaches, NamesApart, RowsApart
<1>5. \A h \in Handlers : PauseStands(h)'
  BY <1>1 DEF RecStands, PauseStands
<1> QED
  BY <1>2, <1>4, <1>5 DEF RecStands

\* The rows that are kept are those of the live file and of the readable archives.
LEMMA KeptRows ==
  ASSUME RecStands
  PROVE  /\ Kept \subseteq RowNumbers
         /\ \A r : r \in Kept <=>
              \/ r \in Elements(live.rows)
              \/ \E k \in 1 .. Len(archives) : archives[k].readable /\ r \in RowsOf(k)
<1>0. archives \in Seq(Archive) /\ live \in LiveFiles /\ live.rows \in Seq(RowNumbers)
  BY DEF RecStands, RecTypes, LiveFiles
<1>1. PICK n \in Nat : n = Len(archives)
  BY <1>0, LengthIsNat
<1>2. \A b : b \in Elements(archives) <=> \E k \in 1 .. n : archives[k] = b
  BY <1>0, <1>1 DEF Elements
<1>3. \A r : r \in Kept <=>
        \/ r \in Elements(live.rows)
        \/ \E k \in 1 .. n : archives[k].readable /\ r \in RowsOf(k)
  BY <1>2 DEF Kept, RowsOf
<1>4. ASSUME NEW s \in Seq(RowNumbers) PROVE Elements(s) \subseteq RowNumbers
  BY DEF Elements
<1>5. \A k \in 1 .. n : RowsOf(k) \subseteq RowNumbers
  <2> SUFFICES ASSUME NEW k \in 1 .. n PROVE RowsOf(k) \subseteq RowNumbers
    OBVIOUS
  <2>1. archives[k].rows \in Seq(RowNumbers)
    BY <1>1, ArchiveIs DEF RecStands
  <2> QED
    BY <1>4, <2>1 DEF RowsOf
<1>6. Elements(live.rows) \subseteq RowNumbers
  BY <1>0, <1>4
<1> QED
  BY <1>1, <1>3, <1>5, <1>6

LEMMA ListsStands ==
  ASSUME RecStands, QueryLists
  PROVE  RecStands'
<1>0. archives \in Seq(Archive) /\ live \in LiveFiles /\ RecTypes /\ FilesStand
  BY DEF RecStands, RecTypes
<1>1. PICK n \in Nat : n = Len(archives)
  BY <1>0, LengthIsNat
<1>2. PICK a : a = [i \in DOMAIN archives |-> archives[i].name]
  OBVIOUS
<1>3. DOMAIN archives = 1 .. n /\ \A i \in 1 .. n : archives[i].name \in 0 .. MaxRows
  <2>1. DOMAIN archives = 1 .. n
    BY <1>0, <1>1
  <2>2. ASSUME NEW i \in 1 .. n PROVE archives[i].name \in 0 .. MaxRows
    <3>1. archives[i] \in Archive
      BY <1>0, <1>1, ArchiveIs
    <3> QED
      BY <3>1, RecorderAssumption DEF Archive
  <2> QED
    BY <2>1, <2>2
<1>4. a \in Seq(0 .. MaxRows) /\ Len(a) = n /\ \A i \in 1 .. n : a[i] = archives[i].name
  <2>1. a \in [1 .. n -> 0 .. MaxRows]
    BY <1>2, <1>3
  <2>2. a \in Seq(0 .. MaxRows) /\ Len(a) = n
    BY <2>1, ListTyped
  <2>3. ASSUME NEW i \in 1 .. n PROVE a[i] = archives[i].name
    BY <1>2, <1>3
  <2> QED
    BY <2>2, <2>3
<1>5. PICK b \in Seq(0 .. MaxRows) : b = IF live.exists THEN <<LiveName>> ELSE <<>>
  <2>1. 0 \in 0 .. MaxRows
    BY RecorderAssumption
  <2>2. <<LiveName>> \in Seq(0 .. MaxRows) /\ <<>> \in Seq(0 .. MaxRows)
    BY <2>1 DEF LiveName
  <2> QED
    BY <2>2
<1>6. PICK t : t = a \o b
  OBVIOUS
<1>7. live.exists \in BOOLEAN /\ Len(b) = (IF live.exists THEN 1 ELSE 0)
      /\ (live.exists => b[1] = LiveName)
  BY <1>0, <1>5 DEF LiveFiles
<1>8. t \in Seq(0 .. MaxRows) /\ Len(t) = n + Len(b) /\ (\A i \in 1 .. n : t[i] = archives[i].name)
      /\ (live.exists => t[n + 1] = LiveName)
  <2>1. t \in Seq(0 .. MaxRows) /\ Len(t) = n + Len(b)
    BY <1>4, <1>6, JoinTyped
  <2>2. \A i \in 1 .. Len(a) : t[i] = a[i]
    BY <1>4, <1>6, JoinAt
  <2>3. \A i \in 1 .. Len(b) : t[Len(a) + i] = b[i]
    BY <1>4, <1>6, JoinAt
  <2>4. \A i \in 1 .. n : t[i] = archives[i].name
    BY <1>4, <2>2
  <2>5. ASSUME live.exists PROVE t[n + 1] = LiveName
    <3>1. 1 \in 1 .. Len(b) /\ b[1] = LiveName
      BY <1>7, <2>5
    <3> QED
      BY <1>4, <2>3, <3>1
  <2> QED
    BY <1>4, <2>1, <2>4, <2>5
<1>9. /\ UNCHANGED othersOfQuery
      /\ query' = [at |-> "reads", todo |-> t, got |-> <<>>, from |-> Kept,
                  quiet |-> rot.at \notin {"copy", "unlink"}, overlapped |-> ~LockFree]
  BY <1>2, <1>5, <1>6 DEF QueryLists, ListFiles
<1>10. query' \in Queries
  <2>1. Kept \subseteq RowNumbers /\ (~LockFree) \in BOOLEAN /\ (rot.at \notin {"copy", "unlink"}) \in BOOLEAN
    BY KeptRows
  <2> QED
    BY <1>8, <1>9, <2>1, RowsOfNone DEF Queries
<1>11. UNCHANGED <<live, rot, archives, names, written, unflushed, doubled>> /\ \A k : RowsOf(k)' = RowsOf(k)
  BY <1>9 DEF othersOfQuery, RowsOf
<1>12. GotStands(0)'
  BY <1>9, RowsOfNone DEF GotStands
<1>13. TodoStands(0, live.exists)'
  BY <1>1, <1>7, <1>8, <1>9, <1>11 DEF TodoStands, ToDo
<1>14. FromStands(live.exists)'
  <2> SUFFICES ASSUME NEW r \in Kept
               PROVE  (live.exists /\ r \in Elements(live.rows)) \/ \E k \in 1 .. n : r \in RowsOf(k)
    BY <1>1, <1>9, <1>11 DEF FromStands
  <2>1. r \in Elements(live.rows) \/ \E k \in 1 .. n : r \in RowsOf(k)
    BY <1>1, KeptRows
  <2>2. r \in Elements(live.rows) => live.exists
    BY <1>0, RowsOfNone DEF FilesStand
  <2> QED
    BY <2>1, <2>2
<1>15. QueryStands'
  <2>1. Reading(0, live.exists)'
    BY <1>12, <1>13, <1>14 DEF Reading
  <2>2. \E m \in 0 .. Len(archives'), l \in BOOLEAN : Reading(m, l)'
    BY <1>1, <1>7, <1>11, <2>1
  <2> QED
    BY <1>9, <1>11, <2>2 DEF QueryStands, LockFree
<1>16. OrderStands'
  <2>0. names \in Nat /\ LiveName = 0
    BY <1>0, RecorderAssumption DEF RecTypes, LiveName
  <2>1. query'.got = <<>> /\ query'.todo = t /\ (query'.quiet => rot.at \notin {"copy", "unlink"})
    BY <1>9
  <2>2. Ascending(query'.got) /\ Elements(query'.got) = {}
    BY <2>1, RowsOfNone
  <2>3. ASSUME NEW i \in 1 .. n PROVE archives[i].name \in Nat /\ archives[i].name # LiveName /\ archives[i].name <= names
    <3>1. archives[i] \in Archive /\ archives[i].name <= names
      BY <1>0, <1>1, ArchiveIs DEF RecStands, ArchivesStand, ArchiveStands
    <3>2. archives[i].name \in 1 .. MaxRows
      BY <3>1 DEF Archive
    <3> QED
      BY <2>0, <3>1, <3>2, RecorderAssumption
  <2>4. ASSUME NEW i \in 1 .. Len(t) PROVE i \in 1 .. n \/ (i = n + 1 /\ t[i] = LiveName)
    BY <1>7, <1>8
  <2>5. ASSUME NEW i \in 1 .. Len(t), NEW j \in 1 .. Len(t), i < j
        PROVE  t[i] # LiveName /\ (t[j] = LiveName \/ t[i] < t[j])
    <3>1. i \in 1 .. n
      BY <1>7, <1>8, <2>4, <2>5
    <3>2. t[i] = archives[i].name /\ t[i] # LiveName
      BY <1>8, <2>3, <3>1
    <3>3. CASE j \in 1 .. n
      <4>1. archives[i].name < archives[j].name
        BY <1>1, <2>5, <3>1, <3>3 DEF RecStands, ArchivesStand, NamesApart
      <4> QED
        BY <1>8, <3>2, <3>3, <4>1
    <3>4. CASE t[j] = LiveName
      BY <3>2, <3>4
    <3> QED
      BY <2>4, <3>3, <3>4
  <2>6. ASSUME NEW x \in Elements(t) PROVE x <= names
    <3>1. PICK i \in 1 .. Len(t) : t[i] = x
      BY <1>8 DEF Elements
    <3> QED
      BY <1>8, <2>0, <2>3, <2>4, <3>1
  <2> QED
    BY <1>11, <2>1, <2>2, <2>5, <2>6 DEF OrderStands
<1> QED
  BY <1>9, <1>10, <1>15, <1>16, QueryChanges

\* Below the archives that are left, a query looks at the file it listed.
LEMMA NextFile ==
  ASSUME RecStands, NEW m \in 0 .. Len(archives), NEW l \in BOOLEAN, TodoStands(m, l),
         query.todo # <<>>
  PROVE  \/ /\ m # Len(archives) /\ m + 1 \in 1 .. Len(archives)
            /\ Head(query.todo) = archives[m + 1].name
            /\ \A i \in 1 .. Len(archives) - (m + 1) : Tail(query.todo)[i] = archives[m + 1 + i].name
            /\ Len(Tail(query.todo)) = ToDo(m + 1, l)
            /\ l => Tail(query.todo)[ToDo(m + 1, l)] = LiveName
         \/ /\ m = Len(archives) /\ l
            /\ Head(query.todo) = LiveName /\ Tail(query.todo) = <<>>
<1>0. query \in Queries /\ archives \in Seq(Archive)
  BY DEF RecStands, RecTypes
<1>1. PICK t \in Seq(0 .. MaxRows) : t = query.todo
  BY <1>0 DEF Queries
<1>2. PICK n \in Nat, k \in Nat : n = Len(archives) /\ k = Len(t)
  BY <1>0, LengthIsNat
<1>3. /\ k = n - m + (IF l THEN 1 ELSE 0) /\ k # 0 /\ t # <<>>
      /\ \A i \in 1 .. n - m : t[i] = archives[m + i].name
      /\ l => t[k] = LiveName
  <2>1. k = n - m + (IF l THEN 1 ELSE 0) /\ (\A i \in 1 .. n - m : t[i] = archives[m + i].name)
        /\ (l => t[k] = LiveName)
    BY <1>1, <1>2 DEF TodoStands, ToDo
  <2>2. t # <<>> /\ k # 0
    BY <1>1, <1>2
  <2> QED
    BY <2>1, <2>2
<1>4. PICK u : u = Tail(t)
  OBVIOUS
<1>5. u \in Seq(0 .. MaxRows) /\ Len(u) = k - 1 /\ Head(t) = t[1]
  <2>1. Tail(t) \in Seq(0 .. MaxRows) /\ Len(Tail(t)) = Len(t) - 1
    BY <1>3, TailAt
  <2>2. Head(t) = t[1]
    BY <1>3
  <2> QED
    BY <1>2, <1>4, <2>1, <2>2
<1>6. ASSUME NEW i \in 1 .. k - 1 PROVE u[i] = t[i + 1]
  BY <1>2, <1>3, <1>4, TailBefore
<1>7. CASE m # n
  <2>1. m + 1 \in 1 .. n /\ 1 \in 1 .. n - m
    BY <1>2, <1>7
  <2>2. t[1] = archives[m + 1].name
    BY <1>3, <2>1
  <2>3. ASSUME NEW i \in 1 .. n - (m + 1) PROVE u[i] = archives[m + 1 + i].name
    <3>1. i \in 1 .. k - 1 /\ i + 1 \in 1 .. n - m /\ m + (i + 1) = m + 1 + i
      BY <1>2, <1>3
    <3>2. u[i] = t[i + 1] /\ t[i + 1] = archives[m + (i + 1)].name
      BY <1>3, <1>6, <3>1
    <3> QED
      BY <3>1, <3>2
  <2>4. k - 1 = n - (m + 1) + (IF l THEN 1 ELSE 0)
    BY <1>2, <1>3
  <2>5. ASSUME l PROVE u[k - 1] = LiveName
    <3>1. k - 1 \in 1 .. k - 1 /\ (k - 1) + 1 = k
      BY <1>2, <1>3, <1>7, <2>5
    <3> QED
      BY <1>3, <1>6, <2>5, <3>1
  <2> QED
    BY <1>1, <1>2, <1>4, <1>5, <1>7, <2>1, <2>2, <2>3, <2>4, <2>5 DEF ToDo
<1>8. CASE m = n
  <2>1. l /\ k = 1
    BY <1>2, <1>3, <1>8
  <2>2. u = <<>>
    BY <1>5, <2>1
  <2> QED
    BY <1>1, <1>2, <1>3, <1>4, <1>5, <1>8, <2>1, <2>2
<1> QED
  BY <1>7, <1>8

\* A query that reads on, whatever it reads, if that is above what it got and below what is left.
LEMMA ReadsOn ==
  ASSUME RecStands, QueryReads, query.quiet, ~doubled, NEW rs \in Seq(RowNumbers), Ascending(rs),
         query' = [query EXCEPT !.todo = Tail(query.todo), !.got = query.got \o rs],
         \A r \in Elements(rs) : r <= written,
         \A r \in Elements(query.got), q \in Elements(rs) : r < q,
         \A k \in 1 .. Len(archives) : archives[k].name \in Elements(Tail(query.todo)) =>
           \A r \in Elements(rs), q \in RowsOf(k) : r < q,
         LiveName \in Elements(Tail(query.todo)) =>
           \A r \in Elements(rs), q \in Elements(live.rows) \cup Elements(unflushed) : r < q
  PROVE  OrderStands'
<1>1. /\ query \in Queries /\ query.got \in Seq(RowNumbers) /\ query.todo \in Seq(0 .. MaxRows)
      /\ query.at # "idle" /\ query.todo # <<>>
  BY DEF RecStands, RecTypes, Queries, QueryReads
<1>2. /\ Ascending(query.got) /\ (\A r \in Elements(query.got) : r <= written)
      /\ (\A i, j \in 1 .. Len(query.todo) :
            i < j => query.todo[i] # LiveName /\ (query.todo[j] = LiveName \/ query.todo[i] < query.todo[j]))
      /\ (\A x \in Elements(query.todo) : x <= names)
      /\ (rot.at \in {"copy", "unlink"} => archives[Len(archives)].name \notin Elements(query.todo))
      /\ (\A k \in 1 .. Len(archives) :
            archives[k].name \in Elements(query.todo) => \A r \in Elements(query.got), q \in RowsOf(k) : r < q)
      /\ (LiveName \in Elements(query.todo) =>
            \A r \in Elements(query.got), q \in Elements(live.rows) \cup Elements(unflushed) : r < q)
  BY <1>1 DEF RecStands, OrderStands
<1>3. PICK g, u : g = query.got \o rs /\ u = Tail(query.todo)
  OBVIOUS
<1>4. g \in Seq(RowNumbers) /\ Ascending(g) /\ Elements(g) = Elements(query.got) \cup Elements(rs)
  BY <1>1, <1>2, <1>3, RowsJoin
<1>5. query'.got = g /\ query'.todo = u
  BY <1>1, <1>3 DEF Queries
<1>6. UNCHANGED <<live, rot, archives, names, written, unflushed, doubled>> /\ \A k : RowsOf(k)' = RowsOf(k)
  BY DEF QueryReads, othersOfQuery, RowsOf
<1>7. PICK m \in Nat : m = Len(query.todo)
  BY <1>1, LengthIsNat
<1>8. u \in Seq(0 .. MaxRows) /\ Len(u) = m - 1
  BY <1>1, <1>3, <1>7, TailAt
<1>9. ASSUME NEW i \in 1 .. m - 1 PROVE u[i] = query.todo[i + 1] /\ i + 1 \in 1 .. m
  BY <1>1, <1>3, <1>7, TailBefore
<1>10. Elements(u) \subseteq Elements(query.todo)
  <2> SUFFICES ASSUME NEW x \in Elements(u) PROVE x \in Elements(query.todo)
    OBVIOUS
  <2>1. PICK i \in 1 .. m - 1 : u[i] = x
    BY <1>8 DEF Elements
  <2>2. query.todo[i + 1] = x /\ i + 1 \in 1 .. m /\ DOMAIN query.todo = 1 .. m
    BY <1>1, <1>7, <1>9, <2>1
  <2> QED
    BY <2>2 DEF Elements
<1>11. ASSUME NEW i \in 1 .. m - 1, NEW j \in 1 .. m - 1, i < j
       PROVE  u[i] # LiveName /\ (u[j] = LiveName \/ u[i] < u[j])
  <2>1. i + 1 < j + 1
    BY <1>11
  <2> QED
    BY <1>2, <1>7, <1>9, <2>1
<1>12. \A k \in 1 .. Len(archives) :
         archives[k].name \in Elements(u) => \A r \in Elements(g), q \in RowsOf(k) : r < q
  BY <1>2, <1>3, <1>4, <1>10
<1>13. LiveName \in Elements(u) =>
         \A r \in Elements(g), q \in Elements(live.rows) \cup Elements(unflushed) : r < q
  BY <1>2, <1>3, <1>4, <1>10
<1> QED
  BY <1>2, <1>4, <1>5, <1>6, <1>7, <1>8, <1>10, <1>11, <1>12, <1>13 DEF OrderStands

\* What a query reads next is not left, and all that is left has a greater name.
LEMMA NextName ==
  ASSUME RecStands, QueryReads, query.quiet, ~doubled
  PROVE  /\ Head(query.todo) \in Elements(query.todo)
         /\ Head(query.todo) = LiveName => Elements(Tail(query.todo)) = {}
         /\ Head(query.todo) # LiveName =>
              \A x \in Elements(Tail(query.todo)) : x = LiveName \/ Head(query.todo) < x
<1>1. /\ query.todo \in Seq(0 .. MaxRows) /\ query.todo # <<>> /\ query.at # "idle"
  BY DEF RecStands, RecTypes, Queries, QueryReads
<1>2. \A i, j \in 1 .. Len(query.todo) :
        i < j => query.todo[i] # LiveName /\ (query.todo[j] = LiveName \/ query.todo[i] < query.todo[j])
  BY <1>1 DEF RecStands, OrderStands
<1>3. PICK m, u : m \in Nat /\ m = Len(query.todo) /\ u = Tail(query.todo)
  BY <1>1, LengthIsNat
<1>4. u \in Seq(0 .. MaxRows) /\ Len(u) = m - 1
  BY <1>1, <1>3, TailAt
<1>5. m # 0 /\ Head(query.todo) = query.todo[1]
  BY <1>1, <1>3
<1>6. 1 \in 1 .. m /\ 1 \in DOMAIN query.todo
  BY <1>1, <1>3, <1>5
<1>7. Head(query.todo) \in Elements(query.todo)
  BY <1>5, <1>6 DEF Elements
<1>8. ASSUME NEW x \in Elements(u)
      PROVE  query.todo[1] # LiveName /\ (x = LiveName \/ query.todo[1] < x)
  <2>1. PICK i \in 1 .. m - 1 : u[i] = x
    BY <1>4 DEF Elements
  <2>2. u[i] = query.todo[i + 1]
    BY <1>1, <1>3, TailBefore
  <2>3. i + 1 \in 1 .. m /\ 1 < i + 1
    BY <1>3
  <2> QED
    BY <1>2, <1>3, <1>6, <2>1, <2>2, <2>3
<1> QED
  BY <1>3, <1>5, <1>7, <1>8

LEMMA ReadsArchive ==
  ASSUME RecStands, ~doubled, rot.at \in {"no", "create"}, NEW m \in 0 .. Len(archives),
         m # Len(archives), NEW l \in BOOLEAN, Reading(m, l),
         Head(query.todo) = archives[m + 1].name, QueryReads
  PROVE  /\ query' = [query EXCEPT !.todo = Tail(@), !.got = @ \o archives[m + 1].rows]
         /\ UNCHANGED othersOfQuery
<1>0. RecTypes /\ archives \in Seq(Archive) /\ query \in Queries
  BY DEF RecStands, RecTypes
<1>1. PICK n \in Nat : n = Len(archives)
  BY <1>0, LengthIsNat
<1>2. m \in Nat /\ m + 1 \in 1 .. n
  BY <1>1
<1>3. archives[m + 1] \in Archive /\ archives[m + 1].name # LiveName
  <2>1. archives[m + 1] \in Archive
    BY <1>0, <1>1, <1>2, ArchiveIs
  <2>2. archives[m + 1].name \in 1 .. MaxRows
    BY <2>1 DEF Archive
  <2> QED
    BY <2>1, <2>2, RecorderAssumption DEF LiveName
<1>4. ASSUME NEW a \in Elements(archives), a.name = archives[m + 1].name PROVE a = archives[m + 1]
  <2>1. PICK k \in 1 .. n : archives[k] = a
    BY <1>0, <1>1 DEF Elements
  <2>2. \A i, j \in 1 .. n : i < j => archives[i].name < archives[j].name
    BY <1>1 DEF RecStands, ArchivesStand, NamesApart
  <2>3. archives[k].name \in Nat /\ archives[m + 1].name \in Nat
    BY <1>0, <1>1, <1>2, ArchiveIs
  <2>4. ~(k < m + 1) /\ ~(m + 1 < k)
    BY <1>2, <1>4, <2>1, <2>2, <2>3
  <2>5. k = m + 1
    BY <1>2, <2>4
  <2> QED
    BY <2>1, <2>5
<1>5. archives[m + 1] \in Elements(archives)
  BY <1>0, <1>1, <1>2 DEF Elements
<1>6. PICK found : found = {a \in Elements(archives) : a.name = archives[m + 1].name}
  OBVIOUS
<1>7. found = {archives[m + 1]}
  BY <1>4, <1>5, <1>6
<1>8. (CHOOSE b \in found : TRUE) = archives[m + 1] /\ found # {}
  BY <1>7
<1>9. archives[m + 1].readable
  <2>1. RowsApart
    BY DEF RecStands, ArchivesStand
  <2> QED
    BY <1>1, <1>2, <2>1 DEF RowsApart
<1> QED
  BY <1>3, <1>6, <1>8, <1>9 DEF QueryReads

LEMMA ReadsStands ==
  ASSUME RecStands, QueryReads
  PROVE  RecStands'
<1>0. /\ RecTypes /\ FilesStand /\ RowsStand /\ archives \in Seq(Archive) /\ query \in Queries
      /\ live.rows \in Seq(RowNumbers) /\ query.got \in Seq(RowNumbers) /\ written \in Nat /\ moved \in Nat
      /\ unflushed \in Seq(RowNumbers)
  BY RecorderAssumption DEF RecStands, RecTypes, LiveFiles, Queries
<1>1. query.at = "reads" /\ query.todo # <<>> /\ UNCHANGED othersOfQuery
  BY DEF QueryReads
<1>2. UNCHANGED <<live, rot, archives, names, written, unflushed, doubled>> /\ \A k : RowsOf(k)' = RowsOf(k)
  BY <1>1 DEF othersOfQuery, RowsOf
<1>3. /\ query.todo \in Seq(0 .. MaxRows)
      /\ Tail(query.todo) \in Seq(0 .. MaxRows)
  <2>1. query.todo \in Seq(0 .. MaxRows)
    BY <1>0 DEF Queries
  <2> QED
    BY <1>1, <2>1, TailAt
<1>4. NoQuery \in Queries
  BY RowsOfNone DEF NoQuery, Queries
<1>5. \/ query' = NoQuery
      \/ \E s \in Seq(RowNumbers) : query' = [query EXCEPT !.todo = Tail(query.todo), !.got = s]
  <2> DEFINE found == {a \in Elements(archives) : a.name = Head(query.todo)}
             next == [query EXCEPT !.todo = Tail(@)]
  <2>1. next = [query EXCEPT !.todo = Tail(query.todo), !.got = query.got]
    BY <1>0 DEF Queries
  <2>2. CASE Head(query.todo) = LiveName
    <3>1. query.got \o live.rows \in Seq(RowNumbers)
      BY <1>0, JoinTyped
    <3>2. query' = [query EXCEPT !.todo = Tail(query.todo), !.got = query.got \o live.rows]
      BY <1>0, <2>2 DEF QueryReads, Queries
    <3> QED
      BY <3>1, <3>2
  <2>3. CASE Head(query.todo) # LiveName /\ found = {}
    <3>1. query' = next
      BY <2>3 DEF QueryReads
    <3> QED
      BY <1>0, <2>1, <3>1
  <2>4. CASE Head(query.todo) # LiveName /\ found # {}
    <3>1. PICK a : a = CHOOSE b \in found : TRUE
      OBVIOUS
    <3>2. a \in Elements(archives)
      BY <2>4, <3>1
    <3>3. query' = IF a.readable THEN [next EXCEPT !.got = @ \o a.rows] ELSE NoQuery
      BY <2>4, <3>1 DEF QueryReads
    <3>4. PICK k \in 1 .. Len(archives) : archives[k] = a
      BY <1>0, <3>2 DEF Elements
    <3>5. a.rows \in Seq(RowNumbers)
      BY <1>0, <3>4, ArchiveIs
    <3>6. query.got \o a.rows \in Seq(RowNumbers)
      BY <1>0, <3>5, JoinTyped
    <3>7. [next EXCEPT !.got = @ \o a.rows] =
            [query EXCEPT !.todo = Tail(query.todo), !.got = query.got \o a.rows]
      BY <1>0 DEF Queries
    <3> QED
      BY <3>3, <3>6, <3>7
  <2> QED
    BY <2>2, <2>3, <2>4
<1>6. query' \in Queries
  <2>1. ASSUME NEW s \in Seq(RowNumbers), query' = [query EXCEPT !.todo = Tail(query.todo), !.got = s]
        PROVE  query' \in Queries
    BY <1>0, <1>3, <2>1 DEF Queries
  <2> QED
    BY <1>4, <1>5, <2>1
<1>7. QueryStands'
  <2> SUFFICES ASSUME query'.at # "idle", ~query'.overlapped, ~doubled
               PROVE  /\ rot.at \in {"no", "create"}
                      /\ ReadAll' \/ (query'.at = "reads"
                           /\ \E m \in 0 .. Len(archives'), l \in BOOLEAN : Reading(m, l)')
    BY <1>2 DEF QueryStands
  <2>1. query.overlapped = query'.overlapped /\ query'.from = query.from /\ query'.at = query.at
    <3>1. PICK s \in Seq(RowNumbers) : query' = [query EXCEPT !.todo = Tail(query.todo), !.got = s]
      <4>1. query' # NoQuery
        BY DEF NoQuery
      <4> QED
        BY <1>5, <4>1
    <3> QED
      BY <1>0, <3>1 DEF Queries
  <2>2. rot.at \in {"no", "create"} /\ ~ReadAll /\ \E m \in 0 .. Len(archives), l \in BOOLEAN : Reading(m, l)
    BY <1>1, <2>1 DEF RecStands, QueryStands, ReadAll
  <2>3. PICK m \in 0 .. Len(archives), l \in BOOLEAN : Reading(m, l)
    BY <2>2
  <2>4. PICK n \in Nat : n = Len(archives)
    BY <1>0, LengthIsNat
  <2>5. GotStands(m) /\ TodoStands(m, l) /\ FromStands(l) /\ m \in 0 .. n
    BY <2>3, <2>4 DEF Reading
  <2>6. ASSUME m # n, m + 1 \in 1 .. n, Head(query.todo) = archives[m + 1].name,
               \A i \in 1 .. n - (m + 1) : Tail(query.todo)[i] = archives[m + 1 + i].name,
               Len(Tail(query.todo)) = ToDo(m + 1, l),
               l => Tail(query.todo)[ToDo(m + 1, l)] = LiveName
        PROVE  Reading(m + 1, l)'
    <3>1. query' = [query EXCEPT !.todo = Tail(query.todo), !.got = query.got \o archives[m + 1].rows]
      BY <2>2, <2>3, <2>4, <2>6, ReadsArchive
    <3>2. PICK rs : rs = archives[m + 1].rows
      OBVIOUS
    <3>3. rs \in Seq(RowNumbers) /\ RowsOf(m + 1) = Elements(rs)
      BY <1>0, <2>4, <2>6, <3>2, ArchiveIs DEF RowsOf
    <3>5. Elements(query.got \o rs) = Elements(query.got) \cup Elements(rs)
      BY <1>0, <3>3, RowsJoin
    <3>6. query'.got = query.got \o rs /\ query'.todo = Tail(query.todo)
      BY <1>0, <3>1, <3>2 DEF Queries
    <3>7. Elements(query'.got) = Elements(query.got) \cup RowsOf(m + 1)
      BY <3>3, <3>5, <3>6
    <3>8. GotStands(m + 1)'
      <4>1. ASSUME NEW k \in 1 .. m + 1 PROVE k \in 1 .. m \/ k = m + 1
        BY <2>5
      <4> QED
        BY <1>2, <2>5, <3>7, <4>1 DEF GotStands
    <3>9. TodoStands(m + 1, l)'
      BY <1>2, <2>4, <2>6, <3>6 DEF TodoStands, ToDo
    <3>10. FromStands(l)'
      BY <1>2, <2>1, <2>5 DEF FromStands
    <3> QED
      BY <3>8, <3>9, <3>10 DEF Reading
  <2>7. ASSUME m = n, l, Head(query.todo) = LiveName, Tail(query.todo) = <<>> PROVE ReadAll'
    <3>1. query' = [query EXCEPT !.todo = Tail(query.todo), !.got = query.got \o live.rows]
      BY <1>0, <2>7 DEF QueryReads, Queries
    <3>2. query'.got = query.got \o live.rows /\ query'.todo = <<>>
      BY <1>0, <2>7, <3>1 DEF Queries
    <3>5. Elements(query.got \o live.rows) = Elements(query.got) \cup Elements(live.rows)
      BY <1>0, RowsJoin
    <3>6. \A k \in 1 .. n : RowsOf(k) \subseteq Elements(query.got)
      BY <2>5, <2>7 DEF GotStands
    <3>7. query.from \subseteq Elements(query.got) \cup Elements(live.rows)
      BY <2>4, <2>5, <3>6 DEF FromStands
    <3> QED
      BY <2>1, <3>2, <3>5, <3>7 DEF ReadAll
  <2>8. \/ /\ m # n /\ m + 1 \in 1 .. n /\ Head(query.todo) = archives[m + 1].name
           /\ \A i \in 1 .. n - (m + 1) : Tail(query.todo)[i] = archives[m + 1 + i].name
           /\ Len(Tail(query.todo)) = ToDo(m + 1, l)
           /\ l => Tail(query.todo)[ToDo(m + 1, l)] = LiveName
        \/ m = n /\ l /\ Head(query.todo) = LiveName /\ Tail(query.todo) = <<>>
    BY <1>1, <2>4, <2>5, NextFile
  <2>9. m # n => m + 1 \in 0 .. n
    BY <2>5
  <2> QED
    BY <1>1, <1>2, <2>1, <2>2, <2>4, <2>6, <2>7, <2>8, <2>9
<1>8. OrderStands'
  <2> SUFFICES ASSUME query'.at # "idle", query'.quiet, ~doubled PROVE OrderStands'
    BY <1>2 DEF OrderStands
  <2>1. PICK s \in Seq(RowNumbers) : query' = [query EXCEPT !.todo = Tail(query.todo), !.got = s]
    <3>1. query' # NoQuery
      BY DEF NoQuery
    <3> QED
      BY <1>5, <3>1
  <2>2. query.quiet
    BY <1>0, <2>1 DEF Queries
  <2>3. /\ Head(query.todo) \in Elements(query.todo)
        /\ Head(query.todo) = LiveName => Elements(Tail(query.todo)) = {}
        /\ Head(query.todo) # LiveName =>
             \A x \in Elements(Tail(query.todo)) : x = LiveName \/ Head(query.todo) < x
    BY <2>2, NextName
  <2>4. /\ (rot.at \in {"copy", "unlink"} => archives[Len(archives)].name \notin Elements(query.todo))
        /\ (\A k \in 1 .. Len(archives) :
              archives[k].name \in Elements(query.todo) => \A r \in Elements(query.got), q \in RowsOf(k) : r < q)
        /\ (LiveName \in Elements(query.todo) =>
              \A r \in Elements(query.got), q \in Elements(live.rows) \cup Elements(unflushed) : r < q)
    BY <1>1, <2>2 DEF RecStands, OrderStands
  <2>5. CASE Head(query.todo) = LiveName
    <3>1. query' = [query EXCEPT !.todo = Tail(query.todo), !.got = query.got \o live.rows]
      BY <1>0, <2>5 DEF QueryReads, Queries
    <3>2. Ascending(live.rows) /\ \A r \in Elements(live.rows) : r <= written
      BY <1>0 DEF RowsStand
    <3> QED
      BY <1>0, <2>2, <2>3, <2>4, <2>5, <3>1, <3>2, ReadsOn
  <2> DEFINE found == {a \in Elements(archives) : a.name = Head(query.todo)}
             next == [query EXCEPT !.todo = Tail(@)]
  <2>6. CASE Head(query.todo) # LiveName /\ found = {}
    <3>1. query' = next
      BY <2>6 DEF QueryReads
    <3>2. query.got = query.got \o <<>>
      BY <1>0
    <3>3. query' = [query EXCEPT !.todo = Tail(query.todo), !.got = query.got \o <<>>]
      BY <1>0, <3>1, <3>2 DEF Queries
    <3> QED
      BY <2>2, <3>3, RowsOfNone, ReadsOn
  <2>7. CASE Head(query.todo) # LiveName /\ found # {}
    <3>1. PICK a : a = CHOOSE b \in found : TRUE
      OBVIOUS
    <3>2. a \in Elements(archives) /\ a.name = Head(query.todo)
      BY <2>7, <3>1
    <3>3. query' = IF a.readable THEN [next EXCEPT !.got = @ \o a.rows] ELSE NoQuery
      BY <2>7, <3>1 DEF QueryReads
    <3>4. PICK k \in 1 .. Len(archives) : archives[k] = a
      BY <1>0, <3>2 DEF Elements
    <3>5. a.rows \in Seq(RowNumbers) /\ Elements(a.rows) = RowsOf(k) /\ a.name \in Nat
      BY <1>0, <3>4, ArchiveIs DEF RowsOf
    <3>6. query' = [query EXCEPT !.todo = Tail(query.todo), !.got = query.got \o a.rows]
      <4>1. query' # NoQuery
        BY DEF NoQuery
      <4> QED
        BY <1>0, <3>3, <4>1 DEF Queries
    <3>7. Ascending(a.rows) /\ \A r \in Elements(a.rows) : r <= written
      BY <3>4, <3>5 DEF RecStands, ArchivesStand, ArchiveStands
    <3>8. \A r \in Elements(query.got), q \in Elements(a.rows) : r < q
      BY <2>3, <2>4, <3>2, <3>4, <3>5
    <3>9. RowsApart /\ NamesApart
      BY DEF RecStands, ArchivesStand
    <3>10. ASSUME NEW j \in 1 .. Len(archives), archives[j].name \in Elements(Tail(query.todo))
           PROVE  \A r \in Elements(a.rows), q \in RowsOf(j) : r < q
      <4>1. archives[j].name \in Nat /\ archives[j].name # LiveName
        <5>1. archives[j] \in Archive
          BY <1>0, ArchiveIs
        <5>2. archives[j].name \in 1 .. MaxRows
          BY <5>1 DEF Archive
        <5> QED
          BY <5>2, RecorderAssumption DEF LiveName
      <4>2. archives[k].name < archives[j].name /\ archives[k].name \in Nat
        BY <2>3, <2>7, <3>2, <3>4, <3>5, <3>10, <4>1
      <4>3. ~(j < k) /\ j # k
        BY <3>9, <4>1, <4>2 DEF NamesApart
      <4>4. k < j
        BY <4>3
      <4> QED
        BY <3>5, <3>9, <4>4 DEF RowsApart
    <3>11. ASSUME NEW r \in Elements(a.rows), NEW q \in Elements(live.rows) \cup Elements(unflushed)
           PROVE  r < q
      <4>1. ~(rot.at = "unlink" /\ k = Len(archives))
        BY <2>3, <2>4, <3>2, <3>4
      <4>2. r <= moved
        BY <3>5, <3>9, <3>11, <4>1 DEF RowsApart
      <4>3. moved < q
        BY <1>0, <3>11 DEF RowsStand
      <4>4. r \in Nat /\ q \in Nat
        BY <1>0, <3>5, <3>11, RowIsNumber
      <4> QED
        BY <1>0, <4>2, <4>3, <4>4
    <3> QED
      BY <2>2, <3>5, <3>6, <3>7, <3>8, <3>10, <3>11, ReadsOn
  <2> QED
    BY <2>5, <2>6, <2>7
<1> QED
  BY <1>1, <1>6, <1>7, <1>8, QueryChanges

\* Once nothing is left to read, everything was read.
LEMMA AnswersStands ==
  ASSUME RecStands, QueryAnswers
  PROVE  RecStands'
<1>0. query \in Queries /\ archives \in Seq(Archive)
  BY DEF RecStands, RecTypes
<1>1. query.at = "reads" /\ query.todo = <<>> /\ query' = [query EXCEPT !.at = "answered"]
      /\ UNCHANGED othersOfQuery
  BY DEF QueryAnswers
<1>2. query' \in Queries /\ query'.at = "answered" /\ query'.todo = query.todo /\ query'.got = query.got
      /\ query'.from = query.from /\ query'.overlapped = query.overlapped /\ query'.quiet = query.quiet
  BY <1>0, <1>1 DEF Queries
<1>3. PICK n \in Nat : n = Len(archives)
  BY <1>0, LengthIsNat
<1>4. ASSUME NEW m \in 0 .. n, NEW l \in BOOLEAN, Reading(m, l) PROVE ReadAll
  <2>1. m = n /\ ~l
    BY <1>1, <1>3, <1>4, RowsOfNone DEF Reading, TodoStands, ToDo
  <2>2. query.from \subseteq Elements(query.got)
    BY <1>3, <1>4, <2>1 DEF Reading, FromStands, GotStands
  <2> QED
    BY <1>1, <2>2 DEF ReadAll
<1>5. ASSUME ~query.overlapped, ~doubled PROVE rot.at \in {"no", "create"} /\ ReadAll
  BY <1>1, <1>3, <1>4, <1>5 DEF RecStands, QueryStands
<1>6. ReadAll => ReadAll'
  BY <1>2 DEF ReadAll
<1>7. UNCHANGED <<doubled, rot, archives, live, names, written, unflushed>> /\ \A k : RowsOf(k)' = RowsOf(k)
  BY <1>1 DEF othersOfQuery, RowsOf
<1>8. QueryStands'
  BY <1>2, <1>5, <1>6, <1>7 DEF QueryStands
<1>9. OrderStands'
  BY <1>1, <1>2, <1>7 DEF RecStands, OrderStands
<1> QED
  BY <1>1, <1>2, <1>8, <1>9, QueryChanges

LEMMA QuerySteps ==
  ASSUME RecStands, QueryLists \/ QueryReads \/ QueryAnswers \/ QueryOver
  PROVE  RecStands' /\ written' = written
<1>1. written' = written
  BY DEF QueryLists, QueryReads, QueryAnswers, QueryOver, othersOfQuery
<1>2. CASE QueryOver
  <2>1. query' = NoQuery /\ query' \in Queries /\ UNCHANGED othersOfQuery
    BY <1>2, RowsOfNone DEF QueryOver, NoQuery, Queries
  <2>2. QueryStands' /\ OrderStands'
    BY <2>1 DEF QueryStands, OrderStands, NoQuery
  <2> QED
    BY <1>1, <2>1, <2>2, QueryChanges
<1> QED
  BY <1>1, <1>2, ListsStands, ReadsStands, AnswersStands

LEMMA CrashStands ==
  ASSUME RecStands, Crash
  PROVE  RecStands' /\ written' = written
<1>0. RecTypes /\ FilesStand /\ RowsStand /\ unflushed \in Seq(RowNumbers)
  BY DEF RecStands, RecTypes
<1>1. /\ crashes < MaxCrashes /\ crashes' = crashes + 1 /\ started' = FALSE /\ paused' = FALSE
      /\ hand' = [h \in Handlers |-> "idle"] /\ fh' = "none"
      /\ rot' = [at |-> "no", by |-> NoHandler] /\ late' = [h \in Handlers |-> 0]
      /\ query' = NoQuery /\ deaf' = FALSE
      /\ doubled' = (doubled \/ rot.at \in {"copy", "unlink"})
      /\ lost' = lost \cup Elements(unflushed) /\ unflushed' = <<>>
      /\ UNCHANGED <<live, archives, names, written, moved>>
  BY DEF Crash, NoRotation
<1>2. rot' \in Rotations /\ rot'.at = "no" /\ rot'.by = NoHandler /\ NoQuery \in Queries
  BY <1>1, RowsOfNone DEF Rotations, NoQuery, Queries
<1>3. crashes' \in 0 .. MaxCrashes
  BY <1>0, <1>1, RecorderAssumption DEF RecTypes
<1>4. RecTypes'
  <2>1. lost' \subseteq RowNumbers
    BY <1>0, <1>1 DEF RecTypes, Elements
  <2> QED
    BY <1>0, <1>1, <1>2, <1>3, <2>1, RowsOfNone DEF RecTypes
<1>5. FilesStand'
  BY <1>0, <1>1, <1>2 DEF FilesStand
<1>6. NewestStands' /\ QueryStands' /\ OrderStands'
  BY <1>1, <1>2 DEF NewestStands, QueryStands, OrderStands, NoQuery
<1>7. \A k : RowsOf(k)' = RowsOf(k)
  BY <1>1 DEF RowsOf
<1>10. RowsStand'
  BY <1>0, <1>1, RowsOfNone DEF RowsStand
<1>8. ArchivesStand'
  BY <1>1, <1>2, <1>7 DEF RecStands, ArchivesStand, ArchiveStands, Reaches, NamesApart, RowsApart
<1>9. \A h \in Handlers : PauseStands(h)'
  BY <1>1 DEF PauseStands
<1> QED
  BY <1>1, <1>4, <1>5, <1>6, <1>8, <1>9, <1>10 DEF RecStands

LEMMA RecStandsNext == RecStands /\ [RecNext]_recVars => RecStands'
<1> SUFFICES ASSUME RecStands, [RecNext]_recVars PROVE RecStands'
  OBVIOUS
<1>1. CASE RotationNext
  BY <1>1, CreateStands, CopiesStands, CopyFailsStands, UnlinksStands, OtherRotationSteps,
     PrunesStands DEF RotationNext
<1>2. CASE UNCHANGED recVars
  <2>1. UNCHANGED <<started, paused, hand, live, fh, rot, archives, names, written, unflushed, lost,
                    moved, late, query, deaf, doubled, crashes>>
    BY <1>2 DEF recVars
  <2>2. RecTypes' /\ FilesStand' /\ \A h \in Handlers : PauseStands(h)'
    BY <2>1 DEF RecStands, RecTypes, FilesStand, PauseStands
  <2> QED
    BY <2>1, <2>2, ControlStands
<1> QED
  BY <1>1, <1>2, ControlSteps, StopStands, WriteStands, WriteFailsStands, QuerySteps, CrashStands
     DEF RecNext

LEMMA RecInvFollows == RecStands => RecInv
<1> SUFFICES ASSUME RecStands PROVE RecInv
  OBVIOUS
<1>0. /\ RecTypes /\ FilesStand /\ RowsStand /\ archives \in Seq(Archive)
      /\ live.rows \in Seq(RowNumbers) /\ written \in Nat /\ moved \in Nat /\ query \in Queries
  BY RecorderAssumption DEF RecStands, RecTypes, LiveFiles
<1>1. RecTypeOK
  <2>1. rot.at \in {"no", "create", "copy", "unlink", "open", "prune"}
        /\ rot.by \in Handlers \cup {NoHandler}
    BY <1>0 DEF RecTypes, Rotations
  <2>2. late \in [Handlers -> 0 .. MaxRows]
    <3>1. ASSUME NEW h \in Handlers PROVE late[h] \in 0 .. MaxRows
      <4>1. late[h] = 0 \/ late[h] = 1
        BY <1>0 DEF RecTypes
      <4>2. late[h] = 1 => 1 <= MaxRows
        BY <1>0, RecorderAssumption DEF RecTypes
      <4> QED
        BY <4>1, <4>2, RecorderAssumption
    <3> QED
      BY <1>0, <3>1 DEF RecTypes
  <2> QED
    BY <1>0, <2>1, <2>2 DEF RecTypes, RecTypeOK, LiveFiles, Archive, Queries
<1>2. KeptIsSuffix
  <2>1. PICK n \in Nat : n = Len(archives)
    BY <1>0, LengthIsNat
  <2> SUFFICES ASSUME NEW r \in Kept, NEW q \in r .. written
               PROVE  q \in Kept \cup lost \cup Elements(unflushed)
    BY DEF KeptIsSuffix
  <2>2. r \in Nat /\ q \in Nat /\ r <= q
    BY <1>0, KeptRows, RecorderAssumption DEF RowNumbers
  <2>3. CASE q <= moved
    <3>1. r \notin Elements(live.rows)
      <4>1. \A x \in Elements(live.rows) : moved < x
        BY <1>0 DEF RowsStand
      <4> QED
        BY <1>0, <2>2, <2>3, <4>1
    <3>2. PICK j \in 1 .. n : archives[j].readable /\ r \in RowsOf(j)
      BY <2>1, <3>1, KeptRows
    <3>3. Reaches(j, r)
      BY <2>1, <3>2 DEF RecStands, ArchivesStand, ArchiveStands
    <3>4. q \in r .. moved
      BY <1>0, <2>2, <2>3
    <3>5. CASE q \in lost
      BY <3>5
    <3>6. CASE q \notin lost
      <4>1. PICK k \in j .. n : archives[k].readable /\ q \in RowsOf(k)
        BY <2>1, <3>3, <3>4, <3>6 DEF Reaches
      <4>2. k \in 1 .. n
        BY <3>2, <4>1
      <4> QED
        BY <2>1, <4>1, <4>2, KeptRows
    <3> QED
      BY <3>5, <3>6
  <2>4. CASE ~(q <= moved)
    <3>1. q \in moved + 1 .. written
      BY <1>0, <2>2, <2>4
    <3>2. q \in Elements(live.rows) \cup Elements(unflushed) \cup lost
      BY <1>0, <3>1 DEF RowsStand
    <3> QED
      BY <3>2, KeptRows
  <2> QED
    BY <2>3, <2>4
<1>3. LiveFileOpen
  BY <1>0 DEF FilesStand, LiveFileOpen, LockFree
<1>4. PauseHolds
  BY <1>0 DEF RecTypes, PauseHolds
<1>5. QueryChronological
  <2> SUFFICES ASSUME query.at = "answered", query.quiet, ~doubled
               PROVE  /\ \A i, j \in DOMAIN query.got : i < j => query.got[i] < query.got[j]
                      /\ ~query.overlapped => query.from \subseteq Elements(query.got)
    BY DEF QueryChronological
  <2>1. Ascending(query.got)
    BY DEF RecStands, OrderStands
  <2>2. query.got \in Seq(RowNumbers)
    BY <1>0 DEF Queries
  <2>3. ~query.overlapped => ReadAll
    BY DEF RecStands, QueryStands
  <2> QED
    BY <2>1, <2>2, <2>3 DEF ReadAll, Ascending
<1> QED
  BY <1>1, <1>2, <1>3, <1>4, <1>5 DEF RecInv

\* What the recorder keeps has no gap but for the rows whose own write failed, whatever fails
\* or dies during a rotation; what it has open, what a pause lets through and what a query
\* answers are as promised.
THEOREM RecInvAlways == RecSpec => []RecInv
<1>1. RecInit => RecStands
  BY RecStandsInit
<1>2. RecStands /\ [RecNext]_recVars => RecStands'
  BY RecStandsNext
<1>3. RecStands => RecInv
  BY RecInvFollows
<1> QED
  BY <1>1, <1>2, <1>3, PTL DEF RecSpec

LEMMA WritesWhileStarted ==
  ASSUME RecStands, [RecNext]_recVars
  PROVE  [~started => written' = written]_recVars
<1> SUFFICES ASSUME RecNext, ~started PROVE written' = written
  OBVIOUS
<1>1. CASE RotationNext
  BY <1>1 DEF RotationNext, RotateCreates, RotateCopies, RotateCopyFails, RotateUnlinks,
     RotateUnlinkFails, RotateOpens, RotateOpenFails, RotatePrunes, othersOfRotation
<1>2. ASSUME NEW h \in Handlers, Write(h) \/ WriteFails(h) PROVE FALSE
  BY <1>2, WriteStands, WriteFailsStands
<1> QED
  BY <1>1, <1>2, ControlSteps, StopStands, QuerySteps, CrashStands DEF RecNext

\* Nothing reaches the disk once stop() has returned.
THEOREM SilentAfterStopAlways == RecSpec => SilentAfterStop
<1>1. RecStands /\ [RecNext]_recVars => RecStands' /\ [~started => written' = written]_recVars
  BY RecStandsNext, WritesWhileStarted
<1> QED
  BY <1>1, RecStandsInit, PTL DEF RecSpec, SilentAfterStop
-----------------------------------------------------------------------------
(* The display mirror.                                                     *)

FrameHeads == [id : FrameIds, kind : Kinds, sig : Signatures \cup {NoSignature}]

Palettes == [signature : Signatures \cup {NoSignature}, regions : Seq(Signatures), total : {0, Chunks}]

DisplayTypes ==
  /\ armed \in BOOLEAN
  /\ frame \in FrameHeads /\ bufFrame \in FrameHeads
  /\ frameAt \in 0..Chunks /\ tableAt \in 0..Chunks
  /\ table \in Signatures \cup {NoSignature} /\ (tableAt < Chunks => table \in Signatures)
  /\ frames \in FrameIds /\ tables \in 0..MaxTables
  /\ capture \in {"settles", "collects", "over"}
  /\ buf \in Seq(FrameIds)
  /\ mono \in Seq(FrameIds) /\ monoSig \in Signatures \cup {NoSignature}
  /\ rects \in [Kinds \ {"mono"} -> Seq(FrameIds)]
  /\ palette \in Palettes

AllAre(s, v) == \A i \in 1 .. Len(s) : s[i] = v

Whole(s) == s = <<>> \/ (Len(s) = Chunks /\ \E v : AllAre(s, v))

\* What is in the buffer is of the frame it began with, and what is in the table of
\* the table it began with.
DisplayStands ==
  /\ DisplayTypes
  /\ Len(buf) < Chunks /\ AllAre(buf, bufFrame.id)
  /\ Whole(mono) /\ \A k \in Kinds \ {"mono"} : Whole(rects[k])
  /\ Len(palette.regions) <= Chunks /\ AllAre(palette.regions, palette.signature)

LEMMA NoneAre == ASSUME NEW v PROVE AllAre(<<>>, v) /\ Len(<<>>) = 0
BY DEF AllAre

LEMMA OneIs ==
  ASSUME NEW S, NEW v \in S
  PROVE  <<v>> \in Seq(S) /\ Len(<<v>>) = 1 /\ AllAre(<<v>>, v)
BY DEF AllAre

LEMMA OneMoreIs ==
  ASSUME NEW S, NEW s \in Seq(S), NEW v \in S, AllAre(s, v)
  PROVE  Append(s, v) \in Seq(S) /\ Len(Append(s, v)) = Len(s) + 1 /\ AllAre(Append(s, v), v)
<1>1. PICK k \in Nat : k = Len(s)
  OBVIOUS
<1>2. Append(s, v) \in Seq(S) /\ Len(Append(s, v)) = k + 1 /\ Append(s, v)[k + 1] = v
  BY <1>1, AppendAt
<1>3. ASSUME NEW i \in 1 .. k + 1 PROVE Append(s, v)[i] = v
  <2>1. CASE i = k + 1
    BY <1>2, <2>1
  <2>2. CASE i \in 1 .. k
    <3>1. Append(s, v)[i] = s[i]
      BY <1>1, <2>2, AppendBefore
    <3> QED
      BY <1>1, <2>2, <3>1 DEF AllAre
  <2>3. i = k + 1 \/ i \in 1 .. k
    OBVIOUS
  <2> QED
    BY <2>1, <2>2, <2>3
<1> QED
  BY <1>1, <1>2, <1>3 DEF AllAre

LEMMA DisplayStandsInit == DisplayInit => DisplayStands
<1> SUFFICES ASSUME DisplayInit PROVE DisplayStands
  OBVIOUS
<1>1. <<>> \in Seq(FrameIds) /\ <<>> \in Seq(Signatures)
  OBVIOUS
<1>2. NoFrame \in FrameHeads
  BY DisplayAssumption DEF NoFrame, FrameHeads, FrameIds
<1>3. palette \in Palettes /\ palette.regions = <<>> /\ buf = <<>> /\ mono = <<>>
      /\ \A k \in Kinds \ {"mono"} : rects[k] = <<>>
  BY <1>1 DEF DisplayInit, Palettes
<1>a. 0 \in FrameIds /\ 0 \in 0 .. MaxTables /\ Chunks \in 0 .. Chunks /\ ~(Chunks < Chunks)
  BY DisplayAssumption DEF FrameIds
<1>4. DisplayTypes
  BY <1>1, <1>2, <1>3, <1>a DEF DisplayInit, DisplayTypes
<1>5. Len(palette.regions) <= Chunks /\ AllAre(palette.regions, palette.signature)
  BY <1>3, NoneAre, DisplayAssumption
<1>6. Len(buf) < Chunks /\ AllAre(buf, bufFrame.id)
  BY <1>3, NoneAre, DisplayAssumption
<1> QED
  BY <1>3, <1>4, <1>5, <1>6 DEF DisplayStands, Whole

LEMMA FramePacketStands ==
  ASSUME DisplayStands, FramePacket
  PROVE  DisplayStands'
<1>t. /\ frame \in FrameHeads /\ bufFrame \in FrameHeads /\ buf \in Seq(FrameIds) /\ frameAt \in 0 .. Chunks
      /\ mono \in Seq(FrameIds) /\ rects \in [Kinds \ {"mono"} -> Seq(FrameIds)]
      /\ Len(buf) < Chunks /\ AllAre(buf, bufFrame.id) /\ Len(buf) \in Nat
  BY DEF DisplayStands, DisplayTypes
<1>i. frame.id \in FrameIds /\ frame.kind \in Kinds /\ frame.sig \in Signatures \cup {NoSignature}
      /\ bufFrame.id \in FrameIds /\ bufFrame.kind \in Kinds
  BY <1>t DEF FrameHeads
<1>0. /\ frameAt < Chunks /\ frameAt' = frameAt + 1
      /\ UNCHANGED <<armed, frame, frames, table, tableAt, tables, capture, palette>>
  BY DEF FramePacket, tableVars
<1>p. AllAre(palette.regions, palette.signature)' /\ (Len(palette.regions) <= Chunks)'
  BY <1>0 DEF DisplayStands
<1>1. CASE ~InSequence(frameAt)
  <2>1. buf' = <<>> /\ UNCHANGED <<bufFrame, mono, monoSig, rects>>
    BY <1>1 DEF FramePacket
  <2>2. DisplayTypes'
    BY <1>t, <1>0, <2>1, DisplayAssumption DEF DisplayStands, DisplayTypes
  <2>3. Len(buf') < Chunks /\ AllAre(buf', bufFrame'.id)
    BY <2>1, NoneAre, DisplayAssumption
  <2> QED
    BY <1>p, <2>1, <2>2, <2>3 DEF DisplayStands, Whole
<1>2. CASE InSequence(frameAt)
  <2>1. PICK head, pixels :
          /\ head = (IF frameAt = 0 THEN frame ELSE bufFrame)
          /\ pixels = (IF frameAt = 0 THEN <<frame.id>> ELSE Append(buf, frame.id))
    OBVIOUS
  <2>2. head \in FrameHeads /\ head.id \in FrameIds /\ head.kind \in Kinds
    BY <1>t, <1>i, <2>1
  <2>3. pixels \in Seq(FrameIds) /\ Len(pixels) <= Chunks /\ Len(pixels) \in Nat \ {0}
        /\ AllAre(pixels, head.id)
    <3>1. CASE frameAt = 0
      BY <1>i, <2>1, <3>1, OneIs, DisplayAssumption
    <3>2. CASE frameAt # 0
      <4>1. frame.id = bufFrame.id
        BY <1>2, <3>2 DEF InSequence
      <4>2. Append(buf, frame.id) \in Seq(FrameIds) /\ Len(Append(buf, frame.id)) = Len(buf) + 1
            /\ AllAre(Append(buf, frame.id), frame.id)
        BY <1>t, <1>i, <4>1, OneMoreIs
      <4> QED
        BY <1>t, <2>1, <3>2, <4>1, <4>2, DisplayAssumption
    <3> QED
      BY <3>1, <3>2
  <2>4. /\ bufFrame' = head
        /\ IF Len(pixels) < Chunks THEN buf' = pixels /\ UNCHANGED <<mono, monoSig, rects>>
           ELSE buf' = <<>> /\ Painted(pixels, head)
    BY <1>2, <2>1 DEF FramePacket, Rest
  <2>5. CASE Len(pixels) < Chunks
    <3>1. buf' = pixels /\ UNCHANGED <<mono, monoSig, rects>>
      BY <2>4, <2>5
    <3>2. DisplayTypes'
      BY <1>t, <1>0, <2>2, <2>3, <2>4, <3>1, DisplayAssumption DEF DisplayStands, DisplayTypes
    <3> QED
      BY <1>p, <2>3, <2>4, <2>5, <3>1, <3>2 DEF DisplayStands, Whole
  <2>6. CASE ~(Len(pixels) < Chunks)
    <3>1. Whole(pixels)
      BY <2>3, <2>6, DisplayAssumption DEF Whole
    <3>2. buf' = <<>> /\ Painted(pixels, head)
      BY <2>4, <2>6
    <3>3. /\ mono' \in {mono, pixels} /\ monoSig' \in {monoSig, frame.sig}
          /\ rects' \in [Kinds \ {"mono"} -> Seq(FrameIds)]
          /\ \A k \in Kinds \ {"mono"} : rects'[k] \in {rects[k], pixels}
      BY <1>t, <2>2, <2>3, <3>2 DEF Painted
    <3>4. DisplayTypes'
      BY <1>t, <1>i, <1>0, <2>2, <2>3, <2>4, <3>2, <3>3, DisplayAssumption DEF DisplayStands, DisplayTypes
    <3>5. Len(buf') < Chunks /\ AllAre(buf', bufFrame'.id)
      BY <3>2, NoneAre, DisplayAssumption
    <3>6. Whole(mono)' /\ \A k \in Kinds \ {"mono"} : Whole(rects[k])'
      <4>1. Whole(mono) /\ \A k \in Kinds \ {"mono"} : Whole(rects[k])
        BY DEF DisplayStands
      <4>2. ASSUME NEW s, Whole(s), NEW r, r = s PROVE Whole(r)
        BY <4>2
      <4> QED
        BY <3>1, <3>3, <4>1
    <3> QED
      BY <1>p, <3>4, <3>5, <3>6 DEF DisplayStands
  <2> QED
    BY <2>5, <2>6
<1> QED
  BY <1>1, <1>2

LEMMA TablePacketStands ==
  ASSUME DisplayStands, TablePacket
  PROVE  DisplayStands'
<1>0. /\ tableAt < Chunks /\ tableAt' = tableAt + 1
      /\ UNCHANGED <<armed, table, tables, frame, frameAt, frames, capture, buf, bufFrame, mono, monoSig, rects>>
  BY DEF TablePacket, deviceVars, canvasVars
<1>t. /\ palette \in Palettes /\ table \in Signatures /\ tableAt \in 0 .. Chunks
      /\ AllAre(palette.regions, palette.signature)
  BY <1>0 DEF DisplayStands, DisplayTypes
<1>f. palette.regions \in Seq(Signatures) /\ palette.signature \in Signatures \cup {NoSignature}
      /\ palette.total \in {0, Chunks} /\ Len(palette.regions) \in Nat
  BY <1>t DEF Palettes
<1>1. PICK next : next = (IF tableAt = 0 THEN <<table>> ELSE IF Continues(tableAt)
                          THEN Append(palette.regions, table) ELSE <<>>)
  OBVIOUS
<1>2. /\ palette' \in Palettes /\ palette'.regions = next
      /\ next # <<>> => palette'.signature = table
      /\ next \in Seq(Signatures) /\ Len(next) <= Chunks /\ AllAre(next, table)
  <2>1. CASE tableAt = 0
    <3>1. palette' = [signature |-> table, regions |-> <<table>>, total |-> Chunks]
      BY <2>1 DEF TablePacket
    <3>2. next = <<table>> /\ <<table>> \in Seq(Signatures) /\ Len(<<table>>) = 1 /\ AllAre(<<table>>, table)
      BY <1>t, <1>1, <2>1, OneIs
    <3> QED
      BY <1>t, <3>1, <3>2, DisplayAssumption DEF Palettes
  <2>2. CASE tableAt # 0 /\ Continues(tableAt)
    <3>1. palette' = [palette EXCEPT !.regions = next]
      BY <1>1, <2>2 DEF TablePacket
    <3>2. table = palette.signature /\ tableAt = Len(palette.regions)
      BY <2>2 DEF Continues
    <3>3. next \in Seq(Signatures) /\ Len(next) = tableAt + 1 /\ AllAre(next, table)
      BY <1>t, <1>f, <1>1, <2>2, <3>2, OneMoreIs
    <3> QED
      BY <1>t, <1>f, <1>0, <3>1, <3>2, <3>3, DisplayAssumption DEF Palettes
  <2>3. CASE tableAt # 0 /\ ~Continues(tableAt)
    <3>1. palette' = [palette EXCEPT !.regions = <<>>, !.total = 0] /\ next = <<>>
      BY <1>1, <2>3 DEF TablePacket
    <3> QED
      <4>1. <<>> \in Seq(Signatures) /\ Len(<<>>) <= Chunks /\ AllAre(<<>>, table)
        BY NoneAre, DisplayAssumption
      <4>2. palette' = [signature |-> palette.signature, regions |-> next, total |-> 0]
        BY <1>t, <3>1 DEF Palettes
      <4>3. next \in Seq(Signatures) /\ Len(next) <= Chunks /\ AllAre(next, table)
        BY <3>1, <4>1
      <4>4. palette' \in Palettes /\ palette'.regions = next
        BY <1>f, <4>2, <4>3 DEF Palettes
      <4> QED
        BY <3>1, <4>3, <4>4
  <2> QED
    BY <2>1, <2>2, <2>3
<1>3. DisplayTypes'
  BY <1>0, <1>2, DisplayAssumption DEF DisplayStands, DisplayTypes
<1>4. AllAre(palette'.regions, palette'.signature)
  <2>1. CASE next = <<>>
    BY <1>2, <2>1, NoneAre
  <2>2. CASE next # <<>>
    BY <1>2, <2>2
  <2> QED
    BY <2>1, <2>2
<1> QED
  BY <1>0, <1>2, <1>3, <1>4 DEF DisplayStands

LEMMA DisplayStandsNext == DisplayStands /\ [DisplayNext]_displayVars => DisplayStands'
<1> SUFFICES ASSUME DisplayStands, [DisplayNext]_displayVars PROVE DisplayStands'
  OBVIOUS
<1>1. CASE FrameBegins
  <2>1. /\ frames' = frames + 1 /\ frames < MaxFrames /\ frameAt' = 0
        /\ \E k \in Kinds, s \in Signatures \cup {NoSignature} :
             frame' = [id |-> frames + 1, kind |-> k, sig |-> s]
        /\ UNCHANGED <<armed, table, tableAt, tables, capture, buf, bufFrame, mono, monoSig, rects, palette>>
    BY <1>1 DEF FrameBegins, tableVars, canvasVars
  <2>2. frames' \in FrameIds
    BY <2>1, DisplayAssumption DEF DisplayStands, DisplayTypes, FrameIds
  <2>3. frame' \in FrameHeads
    BY <2>1, <2>2 DEF FrameHeads
  <2>4. DisplayTypes'
    BY <2>1, <2>2, <2>3, DisplayAssumption DEF DisplayStands, DisplayTypes
  <2> QED
    BY <2>1, <2>4 DEF DisplayStands
<1>2. CASE FramePacketLost \/ TablePacketLost \/ \E s \in Signatures : TableBegins(s)
  <2>1. UNCHANGED <<armed, frame, frames, capture, buf, bufFrame, mono, monoSig, rects, palette>>
    BY <1>2 DEF FramePacketLost, TablePacketLost, TableBegins, tableVars, deviceVars, canvasVars
  <2>2. DisplayTypes'
    BY <1>2, <2>1, DisplayAssumption
    DEF FramePacketLost, TablePacketLost, TableBegins, tableVars, deviceVars, DisplayStands, DisplayTypes
  <2> QED
    BY <2>1, <2>2 DEF DisplayStands
<1>3. CASE Requests \/ CaptureOver
  <2>1. UNCHANGED <<frame, frameAt, frames, table, tableAt, tables, buf, bufFrame, mono, monoSig, rects, palette>>
    BY <1>3 DEF Requests, CaptureOver, tableVars, deviceVars, canvasVars
  <2>2. armed' \in BOOLEAN /\ capture' \in {"collects", "over"}
    BY <1>3 DEF Requests, CaptureOver, DisplayStands, DisplayTypes
  <2>3. DisplayTypes'
    BY <2>1, <2>2 DEF DisplayStands, DisplayTypes
  <2> QED
    BY <2>1, <2>3 DEF DisplayStands
<1>4. CASE UNCHANGED displayVars
  BY <1>4 DEF displayVars, DisplayStands, DisplayTypes
<1> QED
  BY <1>1, <1>2, <1>3, <1>4, FramePacketStands, TablePacketStands DEF DisplayNext

LEMMA DisplayInvFollows == DisplayStands => DisplayInv
<1> SUFFICES ASSUME DisplayStands PROVE DisplayInv
  OBVIOUS
<1>1. palette.regions \in Seq(Signatures) /\ palette.total \in {0, Chunks} /\ Len(palette.regions) \in Nat
  BY DEF DisplayStands, DisplayTypes, Palettes
<1>2. DisplayTypeOK
  BY <1>1 DEF DisplayStands, DisplayTypes, DisplayTypeOK, FrameHeads
<1>3. ASSUME NEW s \in Seq(FrameIds), Whole(s), s # <<>>
      PROVE  Len(s) = Chunks /\ \A i, j \in DOMAIN s : s[i] = s[j]
  BY <1>3 DEF Whole, AllAre
<1>4. FrameIsWhole
  <2> SUFFICES ASSUME NEW pixels \in {mono} \cup {rects[k] : k \in DOMAIN rects}, pixels # <<>>
               PROVE  Len(pixels) = Chunks /\ \A i, j \in DOMAIN pixels : pixels[i] = pixels[j]
    BY DEF FrameIsWhole
  <2>1. pixels \in Seq(FrameIds) /\ Whole(pixels)
    BY DEF DisplayStands, DisplayTypes
  <2> QED
    BY <1>3, <2>1
<1>5. ColoursAreWhole
  BY <1>1, DisplayAssumption DEF ColoursAreWhole, Colorized, PaletteComplete, DisplayStands, AllAre
<1> QED
  BY <1>2, <1>4, <1>5 DEF DisplayInv

\* A canvas shows whole frames in whole colours only, whatever packets are lost and
\* wherever a stream begins again (display_mirror.py).
THEOREM DisplayInvAlways == DisplaySpec => []DisplayInv
<1> QED
  BY DisplayStandsInit, DisplayStandsNext, DisplayInvFollows, PTL DEF DisplaySpec

-----------------------------------------------------------------------------
(* The capture relay.                                                      *)

Rows == Nat \X Clients \X (Nat \ {0})

CotTypes ==
  /\ relay \in {"off", "on", "shut", "joining", "joined"}
  /\ manifestOpen \in BOOLEAN /\ (relay # "off" => manifestOpen)
  /\ seq \in Nat
  /\ peers \subseteq Clients
  /\ handler \in [Clients -> {"none", "accepted", "recv", "save", "write", "aim", "send"}]
  /\ link \in [Clients -> {"none", "open", "hung", "closed"}]
  /\ sent \in [Clients -> Nat] /\ taken \in [Clients -> Nat]
  /\ number \in [Clients -> Nat] /\ targets \in [Clients -> SUBSET Clients]
  /\ inbox \in [Clients -> Seq(Events)]
  /\ manifest \in Seq(Rows)

HasLine(m, row) == \E i \in 1 .. Len(m) : m[i] = row

\* What is on disk has its line, and no more than m is a number on disk.
DiskStands ==
  /\ \A n \in DOMAIN files : /\ n \in Nat \ {0} /\ files[n] \in Events
                             /\ HasLine(manifest, <<n, files[n][1], files[n][2]>>)
  /\ \E m \in Nat : \A n \in DOMAIN files : n <= m

\* A thread that has an event in hand; the number of one that is about to write it.
InHand == {"save", "write", "aim", "send"}

ThreadStands(c) ==
  /\ relay = "off" => handler[c] = "none"
  /\ handler[c] \in InHand => taken[c] # 0
  /\ handler[c] = "write" => /\ number[c] \in 1 .. seq /\ number[c] \notin DOMAIN files
                             /\ HasLine(manifest, <<number[c], c, taken[c]>>)

NumbersStand ==
  /\ relay # "off" => \A n \in DOMAIN files : n <= seq
  /\ \A c, d \in Clients :
       c # d /\ handler[c] = "write" /\ handler[d] = "write" => number[c] # number[d]

\* Peer d still is to be sent the event client c has in hand.
Due(c, d) == handler[c] \in {"save", "write", "aim"} \/ (handler[c] = "send" /\ d \in targets[c])

\* An event in the inbox of d, by its sender.
Relays(d, c, n) == c # d /\ n <= taken[c] /\ (Due(c, d) => n < taken[c])

InboxStands(d) ==
  /\ d \notin targets[d]
  /\ \A i \in 1 .. Len(inbox[d]) : Relays(d, inbox[d][i][1], inbox[d][i][2])
  /\ \A i, j \in 1 .. Len(inbox[d]) :
       i < j /\ inbox[d][i][1] = inbox[d][j][1] => inbox[d][i][2] < inbox[d][j][2]

CotStands ==
  /\ CotTypes /\ DiskStands /\ NumbersStand
  /\ \A c \in Clients : ThreadStands(c)
  /\ \A d \in Clients : InboxStands(d)

\* The highest number on disk.

LEMMA LeastOf ==
  ASSUME NEW T \in SUBSET Nat, T # {}
  PROVE  \E m \in T : \A k \in T : m <= k
<1>1. IsWellFoundedOn({pair \in Nat \X Nat : pair[1] < pair[2]}, Nat)
  BY NatLessThanWellFounded DEF OpToRel
<1>2. PICK m \in T : \A k \in T : ~(<<k, m>> \in {pair \in Nat \X Nat : pair[1] < pair[2]})
  BY <1>1, WFMin
<1>3. ASSUME NEW k \in T PROVE m <= k
  <2>1. ~(k < m)
    BY <1>2
  <2> QED
    BY <2>1
<1> QED
  BY <1>3

LEMMA HighestIsHighest ==
  ASSUME DiskStands
  PROVE  HighestSeq(files) \in Nat /\ \A n \in DOMAIN files : n <= HighestSeq(files)
<1>1. CASE DOMAIN files = {}
  BY <1>1 DEF HighestSeq
<1>2. CASE DOMAIN files # {}
  <2> DEFINE T == {m \in Nat : \A n \in DOMAIN files : n <= m}
  <2>1. PICK m \in T : \A k \in T : m <= k
    BY LeastOf DEF DiskStands
  <2>2. \A n \in DOMAIN files : n \in Nat \ {0} /\ n <= m
    BY <2>1 DEF DiskStands
  <2>3. m \in DOMAIN files
    <3> SUFFICES ASSUME m \notin DOMAIN files PROVE FALSE
      OBVIOUS
    <3>1. \A n \in DOMAIN files : n <= m - 1
      BY <2>2
    <3>2. m - 1 \in Nat
      BY <1>2, <2>2
    <3>3. m - 1 \in T
      BY <3>1, <3>2
    <3> QED
      BY <2>1, <3>3
  <2>4. HighestSeq(files) \in DOMAIN files /\ \A n \in DOMAIN files : n <= HighestSeq(files)
    BY <1>2, <2>2, <2>3 DEF HighestSeq
  <2> QED
    BY <2>2, <2>4
<1> QED
  BY <1>1, <1>2

-----------------------------------------------------------------------------
\* The lines of the manifest.

LEMMA LineAdded ==
  ASSUME NEW m \in Seq(Rows), NEW new \in Rows
  PROVE  /\ Append(m, new) \in Seq(Rows) /\ HasLine(Append(m, new), new)
         /\ \A row : HasLine(m, row) => HasLine(Append(m, new), row)
<1>1. PICK k \in Nat : k = Len(m)
  OBVIOUS
<1>2. Append(m, new) \in Seq(Rows) /\ Len(Append(m, new)) = k + 1 /\ Append(m, new)[k + 1] = new
  BY <1>1, AppendAt
<1>3. HasLine(Append(m, new), new)
  BY <1>2 DEF HasLine
<1>4. ASSUME NEW row, HasLine(m, row) PROVE HasLine(Append(m, new), row)
  <2>1. PICK i \in 1 .. k : m[i] = row
    BY <1>1, <1>4 DEF HasLine
  <2>2. Append(m, new)[i] = row
    BY <1>1, <2>1, AppendBefore
  <2>3. i \in 1 .. k + 1
    OBVIOUS
  <2> QED
    BY <1>2, <2>2, <2>3 DEF HasLine
<1> QED
  BY <1>2, <1>3, <1>4

-----------------------------------------------------------------------------
LEMMA CotStandsInit == CotInit => CotStands
<1> SUFFICES ASSUME CotInit PROVE CotStands
  OBVIOUS
<1>1. DOMAIN files = {}
  BY DEF CotInit
<1>2. manifest \in Seq(Rows) /\ <<>> \in Seq(Events) /\ Len(<<>>) = 0
  BY DEF CotInit
<1>3. CotTypes
  BY <1>2 DEF CotInit, Unconnected, CotTypes
<1>4. DiskStands /\ NumbersStand
  BY <1>1 DEF CotInit, Unconnected, DiskStands, NumbersStand
<1>5. ASSUME NEW c \in Clients PROVE ThreadStands(c) /\ InboxStands(c)
  <2>1. handler[c] = "none" /\ targets[c] = {} /\ inbox[c] = <<>>
    BY DEF CotInit, Unconnected
  <2>2. ThreadStands(c)
    BY <2>1 DEF ThreadStands, InHand
  <2>3. InboxStands(c)
    BY <1>2, <2>1 DEF InboxStands
  <2> QED
    BY <2>2, <2>3
<1> QED
  BY <1>3, <1>4, <1>5 DEF CotStands

\* What is gone with the connections.
LEMMA ForgottenStands ==
  ASSUME CotStands, Forget, relay' = "off", manifestOpen' = FALSE, seq' \in Nat,
         UNCHANGED <<files, manifest>>
  PROVE  CotStands'
<1>1. <<>> \in Seq(Events) /\ Len(<<>>) = 0
  OBVIOUS
<1>2. CotTypes'
  BY <1>1 DEF CotStands, CotTypes, Forget
<1>3. DiskStands' /\ NumbersStand'
  BY DEF CotStands, DiskStands, NumbersStand, Forget
<1>4. ASSUME NEW c \in Clients PROVE ThreadStands(c)' /\ InboxStands(c)'
  <2>1. handler'[c] = "none" /\ targets'[c] = {} /\ inbox'[c] = <<>>
    BY DEF Forget
  <2>2. ThreadStands(c)'
    BY <2>1 DEF ThreadStands, InHand
  <2>3. InboxStands(c)'
    BY <1>1, <2>1 DEF InboxStands
  <2> QED
    BY <2>2, <2>3
<1> QED
  BY <1>2, <1>3, <1>4 DEF CotStands

\* A step after which no thread has an event in hand that had none before.
LEMMA QuietStands ==
  ASSUME CotStands, CotTypes', relay' # "off" <=> relay # "off",
         UNCHANGED <<seq, taken, number, targets, inbox, files, manifest>>,
         \A c \in Clients : handler'[c] = handler[c]
                            \/ (relay # "off" /\ handler'[c] \notin InHand)
  PROVE  CotStands'
<1>1. DiskStands'
  BY DEF CotStands, DiskStands
<1>2. NumbersStand'
  BY DEF CotStands, NumbersStand, InHand
<1>3. ASSUME NEW c \in Clients PROVE ThreadStands(c)'
  BY <1>3 DEF CotStands, ThreadStands, InHand
<1>4. ASSUME NEW d \in Clients PROVE InboxStands(d)'
  <2>1. InboxStands(d)
    BY DEF CotStands
  <2>2. \A c \in Clients : Due(c, d)' => Due(c, d)
    BY DEF Due, InHand
  <2>3. inbox[d] \in Seq(Events)
    BY DEF CotStands, CotTypes
  <2>4. ASSUME NEW i \in 1 .. Len(inbox[d]) PROVE Relays(d, inbox[d][i][1], inbox[d][i][2])'
    <3>1. inbox[d][i][1] \in Clients /\ Relays(d, inbox[d][i][1], inbox[d][i][2])
      <4>1. inbox[d][i] \in Events
        BY <2>3
      <4> QED
        BY <2>1, <4>1 DEF InboxStands, Events
    <3> QED
      BY <2>2, <3>1 DEF Relays
  <2> QED
    BY <2>1, <2>4 DEF InboxStands
<1> QED
  BY <1>1, <1>2, <1>3, <1>4 DEF CotStands

\* Relaying keeps within what was taken: the events of the others stay in place.
LEMMA SameInboxStands ==
  ASSUME CotStands, UNCHANGED inbox, NEW d \in Clients, d \notin targets'[d],
         \A c \in Clients : /\ taken'[c] \in Nat
                            /\ \A n \in Nat : Relays(d, c, n) => Relays(d, c, n)'
  PROVE  InboxStands(d)'
<1>1. InboxStands(d) /\ inbox[d] \in Seq(Events)
  BY DEF CotStands, CotTypes
<1>2. ASSUME NEW i \in 1 .. Len(inbox[d]) PROVE Relays(d, inbox[d][i][1], inbox[d][i][2])'
  <2>1. inbox[d][i] \in Events
    BY <1>1
  <2>2. inbox[d][i][1] \in Clients /\ inbox[d][i][2] \in Nat
    BY <2>1 DEF Events
  <2> QED
    BY <1>1, <2>2 DEF InboxStands
<1> QED
  BY <1>1, <1>2 DEF InboxStands

LEMMA TakeEventStands ==
  ASSUME CotStands, NEW c \in Clients, TakeEvent(c)
  PROVE  CotStands'
<1>0. /\ handler' = [handler EXCEPT ![c] = "save"] /\ taken' = [taken EXCEPT ![c] = taken[c] + 1]
      /\ handler[c] = "recv"
      /\ UNCHANGED <<relay, manifestOpen, seq, peers, link, sent, number, targets, inbox, files, manifest>>
  BY DEF TakeEvent, relayVars, relayDisk
<1>t. handler \in [Clients -> {"none", "accepted", "recv", "save", "write", "aim", "send"}]
      /\ taken \in [Clients -> Nat]
  BY DEF CotStands, CotTypes
<1>1. CotTypes'
  BY <1>0 DEF CotStands, CotTypes
<1>2. DiskStands'
  BY <1>0 DEF CotStands, DiskStands
<1>3. NumbersStand'
  BY <1>0, <1>t DEF CotStands, NumbersStand
<1>4. ASSUME NEW d \in Clients PROVE ThreadStands(d)'
  BY <1>0, <1>t DEF CotStands, ThreadStands, InHand
<1>5. ASSUME NEW d \in Clients PROVE InboxStands(d)'
  <2>1. d \notin targets'[d]
    BY <1>0 DEF CotStands, InboxStands
  <2>2. ASSUME NEW e \in Clients, NEW n \in Nat, Relays(d, e, n)
        PROVE  taken'[e] \in Nat /\ Relays(d, e, n)'
    <3>1. CASE e = c
      <4>1. taken'[e] = taken[e] + 1 /\ taken[e] \in Nat
        BY <1>0, <1>t, <3>1
      <4> QED
        BY <2>2, <4>1 DEF Relays
    <3>2. CASE e # c
      BY <1>0, <1>t, <2>2, <3>2 DEF Relays, Due
    <3> QED
      BY <3>1, <3>2
  <2>3. taken' \in [Clients -> Nat]
    BY <1>1 DEF CotTypes
  <2> QED
    BY <1>0, <2>1, <2>2, <2>3, SameInboxStands
<1> QED
  BY <1>1, <1>2, <1>3, <1>4, <1>5 DEF CotStands

\* A thread's next step with the event it has in hand.
LEMMA HandlingKeepsInboxes ==
  ASSUME CotStands, CotTypes', NEW c \in Clients, NEW step, handler' = [handler EXCEPT ![c] = step],
         step \notin {"save", "write", "aim", "send"} \/ handler[c] \in {"save", "write", "aim"},
         UNCHANGED <<taken, inbox>>,
         \A e \in Clients \ {c} : targets'[e] = targets[e], c \notin targets'[c]
  PROVE  \A d \in Clients : InboxStands(d)'
<1> SUFFICES ASSUME NEW d \in Clients PROVE InboxStands(d)'
  OBVIOUS
<1>t. handler \in [Clients -> {"none", "accepted", "recv", "save", "write", "aim", "send"}]
      /\ taken' \in [Clients -> Nat]
  BY DEF CotStands, CotTypes
<1>1. d \notin targets'[d]
  BY DEF CotStands, InboxStands
<1>2. ASSUME NEW e \in Clients PROVE Due(e, d)' => Due(e, d)
  BY <1>t DEF Due
<1>3. ASSUME NEW e \in Clients, NEW n \in Nat, Relays(d, e, n) PROVE Relays(d, e, n)'
  BY <1>2, <1>3 DEF Relays
<1> QED
  BY <1>t, <1>1, <1>3, SameInboxStands

LEMMA SaveRowStands ==
  ASSUME CotStands, NEW c \in Clients, SaveRow(c)
  PROVE  CotStands'
<1>t. /\ handler \in [Clients -> {"none", "accepted", "recv", "save", "write", "aim", "send"}]
      /\ taken \in [Clients -> Nat] /\ number \in [Clients -> Nat] /\ seq \in Nat
      /\ manifest \in Seq(Rows) /\ (relay # "off" => manifestOpen)
  BY DEF CotStands, CotTypes
<1>s. ThreadStands(c)
  BY DEF CotStands
<1> DEFINE new == <<seq + 1, c, taken[c]>>
<1>0. /\ handler' = [handler EXCEPT ![c] = "write"] /\ handler[c] = "save"
      /\ number' = [number EXCEPT ![c] = seq + 1] /\ seq' = seq + 1
      /\ manifest' = Append(manifest, new)
      /\ UNCHANGED <<relay, manifestOpen, peers, link, sent, taken, targets, inbox, files>>
  BY <1>t, <1>s DEF SaveRow, ThreadStands
<1>1. new \in Rows /\ taken[c] # 0
  BY <1>t, <1>s, <1>0 DEF Rows, ThreadStands, InHand
<1>2. /\ manifest' \in Seq(Rows) /\ HasLine(manifest', new)
      /\ \A row : HasLine(manifest, row) => HasLine(manifest', row)
  <2> HIDE DEF new
  <2> QED
    BY <1>t, <1>0, <1>1, LineAdded
<1>3. CotTypes'
  BY <1>0, <1>2 DEF CotStands, CotTypes
<1>4. DiskStands'
  BY <1>0, <1>2 DEF CotStands, DiskStands
<1>5. relay # "off" /\ \A n \in DOMAIN files : n \in Nat /\ n <= seq
  BY <1>s, <1>0 DEF CotStands, DiskStands, NumbersStand, ThreadStands
<1>6. ASSUME NEW d \in Clients PROVE ThreadStands(d)'
  <2>1. CASE d = c
    <3>1. seq + 1 \notin DOMAIN files
      BY <1>t, <1>5
    <3> QED
      BY <1>t, <1>s, <1>0, <1>1, <1>2, <1>5, <2>1, <3>1 DEF ThreadStands
  <2>2. CASE d # c
    <3>1. ThreadStands(d) /\ handler'[d] = handler[d] /\ number'[d] = number[d]
      BY <1>t, <1>0, <2>2 DEF CotStands
    <3>2. handler[d] = "write" => number[d] \in 1 .. seq'
      BY <1>t, <1>0, <3>1 DEF ThreadStands
    <3> QED
      BY <1>0, <1>2, <3>1, <3>2 DEF ThreadStands
  <2> QED
    BY <2>1, <2>2
<1>7. NumbersStand'
  <2>1. \A n \in DOMAIN files : n <= seq + 1
    BY <1>t, <1>5
  <2>2. ASSUME NEW d \in Clients, d # c, handler[d] = "write" PROVE number[d] # seq + 1
    <3>1. number[d] \in 1 .. seq
      BY <2>2 DEF CotStands, ThreadStands
    <3> QED
      BY <1>t, <3>1
  <2> QED
    BY <1>t, <1>0, <2>1, <2>2 DEF CotStands, NumbersStand
<1>8. c \notin targets'[c]
  BY <1>0 DEF CotStands, InboxStands
<1>9. \A d \in Clients : InboxStands(d)'
  BY <1>0, <1>3, <1>8, HandlingKeepsInboxes
<1> QED
  BY <1>3, <1>4, <1>6, <1>7, <1>9 DEF CotStands

LEMMA WriteXmlStands ==
  ASSUME CotStands, NEW c \in Clients, WriteXml(c)
  PROVE  CotStands' /\ \A n \in DOMAIN files : n \in DOMAIN files' /\ files'[n] = files[n]
<1>t. /\ handler \in [Clients -> {"none", "accepted", "recv", "save", "write", "aim", "send"}]
      /\ taken \in [Clients -> Nat] /\ number \in [Clients -> Nat] /\ seq \in Nat
  BY DEF CotStands, CotTypes
<1>s. ThreadStands(c)
  BY DEF CotStands
<1>0. /\ handler' = [handler EXCEPT ![c] = "aim"] /\ handler[c] = "write"
      /\ files' = [n \in DOMAIN files \cup {number[c]} |->
                     IF n = number[c] THEN <<c, taken[c]>> ELSE files[n]]
      /\ UNCHANGED <<relay, manifestOpen, seq, peers, link, sent, taken, number, targets, inbox, manifest>>
  BY DEF WriteXml, relayVars, threadVars
<1>1. /\ number[c] \in 1 .. seq /\ number[c] \notin DOMAIN files
      /\ HasLine(manifest, <<number[c], c, taken[c]>>) /\ taken[c] \in Nat \ {0} /\ relay # "off"
  BY <1>t, <1>s, <1>0 DEF ThreadStands, InHand
<1>2. /\ DOMAIN files' = DOMAIN files \cup {number[c]} /\ files'[number[c]] = <<c, taken[c]>>
      /\ \A n \in DOMAIN files : files'[n] = files[n]
  BY <1>0, <1>1
<1>3. CotTypes'
  BY <1>0 DEF CotStands, CotTypes
<1>4. DiskStands'
  <2>1. \A n \in DOMAIN files : n <= seq
    BY <1>1 DEF CotStands, NumbersStand
  <2>2. \A n \in DOMAIN files' : n <= seq'
    BY <1>t, <1>0, <1>1, <1>2, <2>1
  <2>3. ASSUME NEW n \in DOMAIN files'
        PROVE  /\ n \in Nat \ {0} /\ files'[n] \in Events
               /\ HasLine(manifest', <<n, files'[n][1], files'[n][2]>>)
    <3>1. CASE n \in DOMAIN files
      BY <1>0, <1>2, <3>1 DEF CotStands, DiskStands
    <3>2. CASE n = number[c]
      <4>1. files'[n] = <<c, taken[c]>> /\ number[c] \in Nat \ {0}
        BY <1>t, <1>1, <1>2, <3>2
      <4>2. files'[n] \in Events /\ files'[n][1] = c /\ files'[n][2] = taken[c]
        BY <1>1, <4>1 DEF Events
      <4> QED
        BY <1>0, <1>1, <3>2, <4>1, <4>2
    <3> QED
      BY <1>2, <3>1, <3>2
  <2> QED
    BY <1>t, <1>0, <2>2, <2>3 DEF DiskStands
<1>5. NumbersStand'
  <2>1. \A n \in DOMAIN files' : n <= seq'
    BY <1>t, <1>0, <1>1, <1>2 DEF CotStands, NumbersStand
  <2> QED
    BY <1>t, <1>0, <2>1 DEF CotStands, NumbersStand
<1>6. ASSUME NEW d \in Clients PROVE ThreadStands(d)'
  <2>1. CASE d = c
    BY <1>t, <1>s, <1>0, <1>1, <2>1 DEF ThreadStands, InHand
  <2>2. CASE d # c
    <3>1. ThreadStands(d) /\ handler'[d] = handler[d]
      BY <1>t, <1>0, <2>2 DEF CotStands
    <3>2. handler[d] = "write" => number[d] # number[c]
      BY <1>0, <2>2 DEF CotStands, NumbersStand
    <3> QED
      BY <1>0, <1>2, <3>1, <3>2 DEF ThreadStands
  <2> QED
    BY <2>1, <2>2
<1>7. c \notin targets'[c]
  BY <1>0 DEF CotStands, InboxStands
<1>8. \A d \in Clients : InboxStands(d)'
  BY <1>0, <1>3, <1>7, HandlingKeepsInboxes
<1> QED
  BY <1>2, <1>3, <1>4, <1>5, <1>6, <1>8 DEF CotStands

LEMMA AimStands ==
  ASSUME CotStands, NEW c \in Clients, Aim(c)
  PROVE  CotStands'
<1>t. /\ handler \in [Clients -> {"none", "accepted", "recv", "save", "write", "aim", "send"}]
      /\ targets \in [Clients -> SUBSET Clients]
  BY DEF CotStands, CotTypes
<1>0. /\ handler' = [handler EXCEPT ![c] = "send"] /\ handler[c] = "aim"
      /\ targets' = [targets EXCEPT ![c] = peers \ {c}]
      /\ UNCHANGED <<relay, manifestOpen, seq, peers, link, sent, taken, number, inbox, files, manifest>>
  BY DEF Aim, relayVars, relayDisk
<1>1. CotTypes'
  BY <1>0 DEF CotStands, CotTypes
<1>2. DiskStands'
  BY <1>0 DEF CotStands, DiskStands
<1>3. NumbersStand'
  BY <1>0, <1>t DEF CotStands, NumbersStand
<1>4. ASSUME NEW d \in Clients PROVE ThreadStands(d)'
  BY <1>0, <1>t DEF CotStands, ThreadStands, InHand
<1>5. c \notin targets'[c] /\ \A e \in Clients \ {c} : targets'[e] = targets[e]
  BY <1>0, <1>t
<1>6. \A d \in Clients : InboxStands(d)'
  BY <1>0, <1>1, <1>5, HandlingKeepsInboxes
<1> QED
  BY <1>1, <1>2, <1>3, <1>4, <1>6 DEF CotStands

LEMMA RelayedStands ==
  ASSUME CotStands, NEW c \in Clients, Relayed(c)
  PROVE  CotStands'
<1>t. handler \in [Clients -> {"none", "accepted", "recv", "save", "write", "aim", "send"}]
  BY DEF CotStands, CotTypes
<1>0. /\ handler' = [handler EXCEPT ![c] = "recv"] /\ handler[c] = "send"
      /\ UNCHANGED <<relay, manifestOpen, seq, peers, link, sent, taken, number, targets, inbox, files,
                     manifest>>
  BY DEF Relayed, relayVars, relayDisk, threadVars
<1>1. CotTypes'
  BY <1>0 DEF CotStands, CotTypes
<1>2. relay # "off"
  BY <1>0 DEF CotStands, ThreadStands
<1>3. \A d \in Clients : handler'[d] = handler[d] \/ handler'[d] = "recv"
  BY <1>0, <1>t
<1> QED
  BY <1>0, <1>1, <1>2, <1>3, QuietStands DEF InHand

LEMMA PairsAre ==
  ASSUME NEW c, NEW n
  PROVE  <<c, n>>[1] = c /\ <<c, n>>[2] = n
OBVIOUS

\* One more event in the inbox of d.
LEMMA InboxGrows ==
  ASSUME NEW d \in Clients, NEW c \in Clients, c # d, NEW s \in Seq(Events), taken[c] \in Nat \ {0},
         \A i \in 1 .. Len(s) : s[i][1] = c => s[i][2] < taken[c],
         \A i, j \in 1 .. Len(s) : i < j /\ s[i][1] = s[j][1] => s[i][2] < s[j][2]
  PROVE  LET t == Append(s, <<c, taken[c]>>)
         IN  /\ t \in Seq(Events)
             /\ \A i \in 1 .. Len(t) : (i \in 1 .. Len(s) /\ t[i] = s[i]) \/ t[i] = <<c, taken[c]>>
             /\ \A i, j \in 1 .. Len(t) : i < j /\ t[i][1] = t[j][1] => t[i][2] < t[j][2]
<1> DEFINE event == <<c, taken[c]>>
           t == Append(s, event)
<1>0. event \in Events /\ event[1] = c /\ event[2] = taken[c]
  BY DEF Events
<1> HIDE DEF event
<1>1. PICK k \in Nat : k = Len(s)
  OBVIOUS
<1>2. t \in Seq(Events) /\ Len(t) = k + 1 /\ t[k + 1] = event
  BY <1>0, <1>1, AppendAt
<1>3. ASSUME NEW i \in 1 .. k PROVE t[i] = s[i]
  BY <1>0, <1>1, <1>3, AppendBefore
<1> HIDE DEF t
<1>4. \A i \in 1 .. k + 1 : i \in 1 .. k \/ i = k + 1
  OBVIOUS
<1>5. \A i \in 1 .. Len(t) : (i \in 1 .. Len(s) /\ t[i] = s[i]) \/ t[i] = event
  BY <1>1, <1>2, <1>3, <1>4
<1>6. ASSUME NEW i \in 1 .. k + 1, NEW j \in 1 .. k + 1, i < j, t[i][1] = t[j][1]
      PROVE  t[i][2] < t[j][2]
  <2>1. i \in 1 .. k
    BY <1>6
  <2>2. CASE j \in 1 .. k
    <3>1. t[i] = s[i] /\ t[j] = s[j]
      BY <1>3, <2>1, <2>2
    <3> QED
      BY <1>1, <1>6, <2>1, <2>2, <3>1
  <2>3. CASE j = k + 1
    <3>1. t[i] = s[i] /\ t[j] = event
      BY <1>2, <1>3, <2>1, <2>3
    <3>2. s[i][1] = c
      BY <1>0, <1>6, <3>1
    <3> QED
      BY <1>0, <1>1, <2>1, <3>1, <3>2
  <2> QED
    BY <1>4, <2>2, <2>3
<1> QED
  BY <1>2, <1>5, <1>6 DEF event, t

LEMMA SendToStands ==
  ASSUME CotStands, NEW c \in Clients, NEW d \in Clients, SendTo(c, d)
  PROVE  CotStands'
<1>t. /\ handler \in [Clients -> {"none", "accepted", "recv", "save", "write", "aim", "send"}]
      /\ targets \in [Clients -> SUBSET Clients] /\ taken \in [Clients -> Nat]
      /\ inbox \in [Clients -> Seq(Events)]
  BY DEF CotStands, CotTypes
<1>0. /\ handler[c] = "send" /\ d \in targets[c] /\ targets' = [targets EXCEPT ![c] = targets[c] \ {d}]
      /\ UNCHANGED <<relay, manifestOpen, seq, handler, link, sent, taken, number, files, manifest>>
      /\ peers' \subseteq peers
      /\ inbox' = inbox \/ inbox' = [inbox EXCEPT ![d] = Append(inbox[d], <<c, taken[c]>>)]
  BY DEF SendTo, relayVars, relayDisk
<1>1. c # d /\ taken[c] \in Nat \ {0} /\ ThreadStands(c)
  BY <1>t, <1>0 DEF CotStands, InboxStands, ThreadStands, InHand
<1>p. PICK t, n : t = Append(inbox[d], <<c, n>>) /\ n = taken[c]
  OBVIOUS
<1>2. ASSUME NEW e \in Clients PROVE InboxStands(e) /\ inbox[e] \in Seq(Events)
  BY <1>t DEF CotStands
<1>3. /\ t \in Seq(Events)
      /\ \A i \in 1 .. Len(t) : (i \in 1 .. Len(inbox[d]) /\ t[i] = inbox[d][i]) \/ t[i] = <<c, n>>
      /\ \A i, j \in 1 .. Len(t) : i < j /\ t[i][1] = t[j][1] => t[i][2] < t[j][2]
  <2>1. Due(c, d)
    BY <1>0 DEF Due
  <2>2. \A i \in 1 .. Len(inbox[d]) : inbox[d][i][1] = c => inbox[d][i][2] < taken[c]
    BY <1>2, <2>1 DEF InboxStands, Relays
  <2>3. \A i, j \in 1 .. Len(inbox[d]) :
          i < j /\ inbox[d][i][1] = inbox[d][j][1] => inbox[d][i][2] < inbox[d][j][2]
    BY <1>2 DEF InboxStands
  <2> QED
    BY <1>p, <1>1, <1>2, <2>2, <2>3, InboxGrows, ZenonT(60)
<1>4. inbox' \in [Clients -> Seq(Events)]
  BY <1>p, <1>t, <1>0, <1>3
<1>5. targets' \in [Clients -> SUBSET Clients] /\ \A e \in Clients : targets'[e] \subseteq targets[e]
  BY <1>t, <1>0
<1>6. CotTypes'
  BY <1>0, <1>4, <1>5 DEF CotStands, CotTypes
<1>7. DiskStands' /\ NumbersStand'
  BY <1>0 DEF CotStands, DiskStands, NumbersStand
<1>8. ASSUME NEW e \in Clients PROVE ThreadStands(e)'
  BY <1>0 DEF CotStands, ThreadStands
<1>9. ASSUME NEW e \in Clients, NEW f \in Clients, NEW k \in Nat, Relays(e, f, k) PROVE Relays(e, f, k)'
  BY <1>0, <1>5, <1>9 DEF Relays, Due
<1>10. ASSUME NEW e \in Clients PROVE InboxStands(e)'
  <2>1. e \notin targets'[e]
    BY <1>2, <1>5 DEF InboxStands
  <2>2. CASE inbox'[e] = inbox[e]
    <3>1. ASSUME NEW i \in 1 .. Len(inbox[e]) PROVE Relays(e, inbox[e][i][1], inbox[e][i][2])'
      <4>1. inbox[e][i] \in Events
        BY <1>2
      <4>2. PICK f \in Clients, k \in Nat : f = inbox[e][i][1] /\ k = inbox[e][i][2]
        BY <4>1 DEF Events
      <4>3. Relays(e, f, k)
        BY <1>2, <4>2 DEF InboxStands
      <4>4. Relays(e, f, k)'
        BY <1>9, <4>3
      <4> QED
        BY <2>2, <4>2, <4>4
    <3> QED
      BY <1>2, <2>1, <2>2, <3>1 DEF InboxStands
  <2>3. CASE e = d /\ inbox'[d] = t
    <3>1. Relays(d, c, n)'
      BY <1>p, <1>t, <1>0, <1>1 DEF Relays, Due
    <3>2. ASSUME NEW i \in 1 .. Len(t) PROVE Relays(d, t[i][1], t[i][2])'
      <4>1. CASE i \in 1 .. Len(inbox[d]) /\ t[i] = inbox[d][i]
        <5>1. inbox[d][i] \in Events
          BY <1>2, <4>1
        <5>2. PICK f \in Clients, k \in Nat : f = t[i][1] /\ k = t[i][2]
          BY <4>1, <5>1 DEF Events
        <5>3. Relays(d, f, k)
          BY <1>2, <4>1, <5>2 DEF InboxStands
        <5> QED
          BY <1>9, <5>2, <5>3
      <4>2. CASE t[i] = <<c, n>>
        <5>1. t[i][1] = c /\ t[i][2] = n
          BY <4>2, PairsAre
        <5> QED
          BY <3>1, <5>1
      <4> QED
        BY <1>3, <4>1, <4>2
    <3> QED
      BY <1>3, <2>1, <2>3, <3>2 DEF InboxStands
  <2>4. inbox'[e] = inbox[e] \/ (e = d /\ inbox'[d] = t)
    BY <1>p, <1>t, <1>0
  <2> QED
    BY <2>2, <2>3, <2>4
<1> QED
  BY <1>6, <1>7, <1>8, <1>10 DEF CotStands

LEMMA DeleteFileStands ==
  ASSUME CotStands, NEW n \in DOMAIN files, DeleteFile(n)
  PROVE  CotStands' /\ \A k \in DOMAIN files' : k \in DOMAIN files /\ files'[k] = files[k]
<1>0. /\ DOMAIN files' = DOMAIN files \ {n} /\ \A k \in DOMAIN files \ {n} : files'[k] = files[k]
      /\ UNCHANGED <<relay, manifestOpen, seq, peers, handler, link, sent, taken, number, targets, inbox,
                     manifest>>
  BY DEF DeleteFile, relayVars, clientVars
<1>1. CotTypes'
  BY <1>0 DEF CotStands, CotTypes
<1>2. DiskStands'
  BY <1>0 DEF CotStands, DiskStands
<1>3. NumbersStand'
  BY <1>0 DEF CotStands, NumbersStand
<1>4. ASSUME NEW d \in Clients PROVE ThreadStands(d)' /\ InboxStands(d)'
  BY <1>0 DEF CotStands, ThreadStands, InboxStands, Relays, Due
<1> QED
  BY <1>0, <1>1, <1>2, <1>3, <1>4 DEF CotStands

\* start() takes the highest number on disk.
LEMMA SeqRestartStands ==
  ASSUME CotStands, relay = "off", seq' = HighestSeq(files), relay' = "off" \/ manifestOpen',
         relay' \in {"off", "on"}, manifestOpen' \in BOOLEAN,
         UNCHANGED <<peers, handler, link, sent, taken, number, targets, inbox, files, manifest>>
  PROVE  CotStands'
<1>0. DiskStands /\ \A c \in Clients : handler[c] = "none"
  BY DEF CotStands, ThreadStands
<1>1. HighestSeq(files) \in Nat /\ \A n \in DOMAIN files : n <= HighestSeq(files)
  BY <1>0, HighestIsHighest
<1>2. CotTypes'
  BY <1>1 DEF CotStands, CotTypes
<1>3. DiskStands' /\ NumbersStand'
  BY <1>0, <1>1 DEF DiskStands, NumbersStand
<1>4. ASSUME NEW d \in Clients PROVE ThreadStands(d)'
  BY <1>0 DEF ThreadStands, InHand
<1>5. ASSUME NEW d \in Clients PROVE InboxStands(d)'
  BY DEF CotStands, InboxStands, Relays, Due
<1> QED
  BY <1>2, <1>3, <1>4, <1>5 DEF CotStands

-----------------------------------------------------------------------------
\* A step of the relay, and what it does to the captures on disk.
LEMMA CotStandsNext ==
  ASSUME CotStands, [CotNext]_cotVars
  PROVE  /\ CotStands'
         /\ \A n \in DOMAIN files \cap DOMAIN files' : files'[n] = files[n]
<1>t. CotTypes
  BY DEF CotStands
<1>1. CASE RelayStarts \/ StartFails
  <2>1. /\ relay = "off" /\ seq' = HighestSeq(files) /\ (relay' = "off" \/ manifestOpen')
        /\ relay' \in {"off", "on"} /\ manifestOpen' \in BOOLEAN
        /\ UNCHANGED <<peers, handler, link, sent, taken, number, targets, inbox, files, manifest>>
    BY <1>t, <1>1 DEF RelayStarts, StartFails, CotTypes, clientVars, relayDisk
  <2> QED
    BY <2>1, SeqRestartStands
<1>2. CASE Stopped \/ Dies
  <2>1. Forget /\ relay' = "off" /\ manifestOpen' = FALSE /\ seq' \in Nat /\ UNCHANGED <<files, manifest>>
    BY <1>t, <1>2 DEF Stopped, Dies, CotTypes, relayDisk
  <2> QED
    BY <2>1, ForgottenStands
<1>3. CASE Shutdown \/ ClosesPeers \/ Joined
  <2>1. /\ relay # "off" /\ relay' # "off"
        /\ UNCHANGED <<handler, seq, taken, number, targets, inbox, files, manifest>>
    BY <1>3 DEF Shutdown, ClosesPeers, Joined, clientVars, threadVars, relayDisk
  <2>2. CotTypes'
    BY <1>t, <1>3 DEF Shutdown, ClosesPeers, Joined, CotTypes, clientVars, threadVars, relayDisk
  <2> QED
    BY <2>1, <2>2, QuietStands
<1>4. ASSUME NEW c \in Clients, ClientConnects(c) \/ ClientSends(c) \/ ClientHangsUp(c) \/ Register(c) \/ Leave(c)
      PROVE  CotStands' /\ files' = files
  <2>0. ThreadStands(c)
    BY DEF CotStands
  <2>1. /\ UNCHANGED <<relay, manifestOpen, seq, taken, number, targets, inbox, files, manifest>>
        /\ link' \in [Clients -> {"none", "open", "hung", "closed"}] /\ peers' \subseteq Clients
        /\ sent' \in [Clients -> Nat]
    <3>1. CASE ClientSends(c)
      <4>1. /\ sent' = [sent EXCEPT ![c] = @ + 1] /\ link' = link /\ peers' = peers
            /\ UNCHANGED <<relay, manifestOpen, seq, taken, number, targets, inbox, files, manifest>>
        BY <3>1 DEF ClientSends, relayVars, threadVars, relayDisk
      <4> QED
        BY <1>t, <4>1 DEF CotTypes
    <3> QED
      BY <1>t, <1>4, <3>1 DEF ClientConnects, ClientHangsUp, Register, Leave, CotTypes, relayVars,
                              threadVars, relayDisk
  <2>2. handler' = handler \/ (relay # "off" /\ \E step \in {"accepted", "recv", "none"} :
                                                  handler' = [handler EXCEPT ![c] = step])
    <3>1. ClientSends(c) => handler' = handler
      BY DEF ClientSends
    <3> QED
      BY <1>4, <2>0, <3>1 DEF ClientConnects, ClientHangsUp, Register, Leave, ThreadStands
  <2>3. CotTypes' /\ \A d \in Clients : handler'[d] = handler[d] \/ (relay # "off" /\ handler'[d] \notin InHand)
    BY <1>t, <2>1, <2>2, ZenonT(60) DEF CotTypes, InHand
  <2> QED
    BY <2>1, <2>3, QuietStands
<1>5. ASSUME NEW c \in Clients, TakeEvent(c) \/ SaveRow(c) \/ Aim(c) \/ Relayed(c) \/ (\E d \in Clients : SendTo(c, d))
      PROVE  CotStands' /\ files' = files
  <2>1. files' = files
    BY <1>5 DEF TakeEvent, SaveRow, Aim, Relayed, SendTo, relayDisk
  <2> QED
    BY <1>5, <2>1, TakeEventStands, SaveRowStands, AimStands, RelayedStands, SendToStands
<1>6. ASSUME NEW c \in Clients, WriteXml(c)
      PROVE  CotStands' /\ \A n \in DOMAIN files : files'[n] = files[n]
  BY <1>6, WriteXmlStands
<1>7. ASSUME NEW n \in DOMAIN files, DeleteFile(n)
      PROVE  CotStands' /\ \A k \in DOMAIN files' : files'[k] = files[k]
  BY <1>7, DeleteFileStands
<1>8. CASE UNCHANGED cotVars
  BY <1>8 DEF cotVars, CotStands, CotTypes, DiskStands, NumbersStand, ThreadStands, InboxStands, Relays, Due
<1>9. (RelayStarts \/ StartFails \/ Stopped \/ Dies \/ Shutdown \/ ClosesPeers \/ Joined) => files' = files
  BY DEF RelayStarts, StartFails, Stopped, Dies, Shutdown, ClosesPeers, Joined, relayDisk
<1>10. UNCHANGED cotVars => files' = files
  BY DEF cotVars
<1>11. \/ RelayStarts \/ StartFails \/ Stopped \/ Dies \/ Shutdown \/ ClosesPeers \/ Joined
       \/ UNCHANGED cotVars
       \/ \E c \in Clients : ClientConnects(c) \/ ClientSends(c) \/ ClientHangsUp(c) \/ Thread(c)
       \/ \E n \in DOMAIN files : DeleteFile(n)
  BY DEF CotNext, Stopping
<1> QED
  BY <1>1, <1>2, <1>3, <1>4, <1>5, <1>6, <1>7, <1>8, <1>9, <1>10, <1>11 DEF Thread

LEMMA OneAndTwo ==
  ASSUME NEW n, NEW c, NEW k
  PROVE  <<n>> \o <<c, k>> = <<n, c, k>>
<1>1. PICK S : S = {n, c, k}
  OBVIOUS
<1>2. PICK one, two, three : one = <<n>> /\ two = <<c, k>> /\ three = <<n, c, k>>
  OBVIOUS
<1>3. one \in Seq(S) /\ Len(one) = 1 /\ one[1] = n
  BY <1>1, <1>2
<1>4. two \in Seq(S) /\ Len(two) = 2 /\ two[1] = c /\ two[2] = k
  BY <1>1, <1>2
<1>5. three \in Seq(S) /\ Len(three) = 3 /\ three[1] = n /\ three[2] = c /\ three[3] = k
  BY <1>1, <1>2
<1>6. PICK both : both = one \o two
  OBVIOUS
<1>7. both \in Seq(S) /\ Len(both) = 3
  <2>1. one \o two \in Seq(S) /\ Len(one \o two) = Len(one) + Len(two)
    BY <1>3, <1>4, JoinTyped, Zenon
  <2> QED
    BY <1>3, <1>4, <1>6, <2>1
<1>a. 1 \in 1 .. 1 /\ 1 \in 1 .. 2 /\ 2 \in 1 .. 2
  OBVIOUS
<1>b. both[1] = one[1] /\ both[1 + 1] = two[1] /\ both[1 + 2] = two[2]
  <2>1. \A i \in 1 .. Len(one) : both[i] = one[i]
    BY <1>3, <1>4, <1>6, JoinAt
  <2>2. \A i \in 1 .. Len(two) : both[Len(one) + i] = two[i]
    BY <1>3, <1>4, <1>6, JoinAt
  <2> QED
    BY <1>3, <1>4, <1>a, <2>1, <2>2
<1>8. both[1] = n /\ both[2] = c /\ both[3] = k
  BY <1>3, <1>4, <1>a, <1>b
<1>10. ASSUME NEW i \in 1 .. 3 PROVE both[i] = three[i]
  <2>1. i = 1 \/ i = 2 \/ i = 3
    OBVIOUS
  <2> QED
    BY <1>5, <1>8, <2>1
<1> QED
  BY <1>2, <1>5, <1>6, <1>7, <1>10, SeqEqual

LEMMA CotInvFollows == CotStands => CotInv
<1> SUFFICES ASSUME CotStands PROVE CotInv
  OBVIOUS
<1>1. CotTypeOK
  BY DEF CotStands, CotTypes, CotTypeOK, DiskStands, Rows
<1>2. CaptureIsListed
  <2> SUFFICES ASSUME NEW n \in DOMAIN files
               PROVE  \E i \in DOMAIN manifest : manifest[i] = <<n>> \o files[n]
    BY DEF CaptureIsListed
  <2>1. files[n] \in Events /\ HasLine(manifest, <<n, files[n][1], files[n][2]>>)
    BY DEF CotStands, DiskStands
  <2>2. PICK c \in Clients, k \in Nat \ {0} : files[n] = <<c, k>>
    BY <2>1 DEF Events
  <2>3. <<n>> \o <<c, k>> = <<n, c, k>>
    BY OneAndTwo
  <2>a. files[n][1] = c /\ files[n][2] = k
    BY <2>2, PairsAre
  <2>b. <<n>> \o files[n] = <<n, files[n][1], files[n][2]>>
    BY <2>2, <2>3, <2>a
  <2>4. HasLine(manifest, <<n>> \o files[n])
    BY <2>1, <2>b
  <2>5. DOMAIN manifest = 1 .. Len(manifest)
    BY DEF CotStands, CotTypes
  <2> QED
    BY <2>4, <2>5 DEF HasLine
<1>3. RelayedInOrder
  <2> SUFFICES ASSUME NEW d \in Clients, NEW i \in DOMAIN inbox[d], NEW j \in DOMAIN inbox[d]
               PROVE  /\ inbox[d][i][1] # d
                      /\ i < j /\ inbox[d][i][1] = inbox[d][j][1] => inbox[d][i][2] < inbox[d][j][2]
    BY DEF RelayedInOrder
  <2>1. InboxStands(d) /\ DOMAIN inbox[d] = 1 .. Len(inbox[d])
    BY DEF CotStands, CotTypes
  <2> QED
    BY <2>1 DEF InboxStands, Relays
<1> QED
  BY <1>1, <1>2, <1>3 DEF CotInv

\* Every capture on disk has its line in the manifest, and every client is relayed
\* the events of each other one in their order, for any number of clients, events,
\* restarts and deaths (cot_relay.py).
THEOREM CotInvAlways == CotSpec => []CotInv
<1> QED
  BY CotStandsInit, CotStandsNext, CotInvFollows, PTL DEF CotSpec

\* No capture is ever written over: a number in use is higher than all on disk and
\* held by one thread only (cot_relay.py:122-124).
THEOREM NeverOverwrittenAlways == CotSpec => NeverOverwritten
<1>1. CotStands /\ [CotNext]_cotVars
        => [\A n \in DOMAIN files \cap DOMAIN files' : files'[n] = files[n]]_cotVars
  BY CotStandsNext
<1> QED
  BY <1>1, CotStandsInit, CotStandsNext, PTL DEF CotSpec, NeverOverwritten

-----------------------------------------------------------------------------
(* What is over stays so.                                                  *)

\* A publish that ends takes the peers it found dead out of the hub.
LEMMA DeadGo ==
  ASSUME HubStands, HubNext, NEW w \in Publishers, pub[w].busy, ~pub'[w].busy,
         ~(cut' /\ w = "heartbeat")
  PROVE  pub[w].dead \cap conns' = {}
<1>0. HubTypes /\ pub \in [Publishers -> Walk] /\ Quiet.busy = FALSE
  BY DEF HubStands, HubTypes, Quiet
<1>1. ASSUME NEW v \in Publishers, PublishReturns(v) PROVE pub[w].dead \cap conns' = {}
  <2>1. conns' = conns \ pub[v].dead /\ pub' = [pub EXCEPT ![v] = Quiet]
    BY <1>1 DEF PublishReturns
  <2>2. w = v
    BY <1>0, <2>1
  <2> QED
    BY <2>1, <2>2
<1>2. ASSUME NEW v \in Publishers, Publishes(v) PROVE FALSE
  <2>1. PICK next : next = [Quiet EXCEPT !.busy = TRUE, !.todo = conns] /\ pub' = [pub EXCEPT ![v] = next]
    BY <1>2 DEF Publishes
  <2>2. next.busy
    BY <2>1 DEF Quiet
  <2> QED
    BY <1>0, <2>1, <2>2
<1>3. ASSUME NEW v \in Publishers, SendEnds(v) \/ \E p \in Peers : Sends(v, p) PROVE FALSE
  <2>1. PICK next : pub' = [pub EXCEPT ![v] = next] /\ next.busy = pub[v].busy
    <3>1. pub[v] \in Walk
      BY <1>0
    <3>2. CASE SendEnds(v)
      <4>1. PICK next : /\ \/ next = [pub[v] EXCEPT !.to = NoPeer, !.dead = @ \cup {pub[v].to}]
                           \/ next = [pub[v] EXCEPT !.to = NoPeer]
                        /\ pub' = [pub EXCEPT ![v] = next]
        BY <3>2 DEF SendEnds
      <4>2. next.busy = pub[v].busy
        BY <3>1, <4>1 DEF Walk
      <4> QED
        BY <4>1, <4>2
    <3>3. ASSUME NEW p \in Peers, Sends(v, p)
          PROVE  \E next : pub' = [pub EXCEPT ![v] = next] /\ next.busy = pub[v].busy
      <4>1. PICK next : /\ \/ next = [pub[v] EXCEPT !.todo = @ \ {p}, !.to = p]
                           \/ next = [pub[v] EXCEPT !.todo = @ \ {p}]
                        /\ pub' = [pub EXCEPT ![v] = next]
        BY <3>3 DEF Sends
      <4>2. next.busy = pub[v].busy
        BY <3>1, <4>1 DEF Walk
      <4> QED
        BY <4>1, <4>2
    <3> QED
      BY <1>3, <3>2, <3>3
  <2> QED
    BY <1>0, <2>1
<1>4. ASSUME pub' = pub PROVE FALSE
  BY <1>4
<1>5. CASE Exit
  <2>1. pub' = [pub EXCEPT !["heartbeat"] = Quiet] /\ cut' = (cut \/ pub["heartbeat"].busy)
    BY <1>5 DEF Exit
  <2>2. w = "heartbeat"
    BY <1>0, <2>1
  <2> QED
    BY <2>1, <2>2
<1>6. "action" \in Publishers /\ "heartbeat" \in Publishers /\ \A n \in Lines : n \in Publishers
  BY DEF Publishers
<1>7. ASSUME NEW p \in Peers,
             Connect(p) \/ Subscribe(p) \/ Unsubscribe(p) \/ Breaks(p) \/ HandlerRemoves(p)
      PROVE  FALSE
  BY <1>4, <1>7 DEF Connect, Subscribe, Unsubscribe, Breaks, HandlerRemoves
<1>8. CASE \/ \E n \in Lines : WorkerLine(n) \/ LineReturns(n)
           \/ Enter \/ BodyBegins \/ HeartbeatPublishes \/ HeartbeatReturns \/ DonePublishes \/ DoneReturns
  BY <1>1, <1>2, <1>6, <1>8 DEF WorkerLine, LineReturns, Enter, BodyBegins, HeartbeatPublishes,
     HeartbeatReturns, DonePublishes, DoneReturns
<1> QED
  BY <1>3, <1>5, <1>7, <1>8 DEF HubNext

LEMMA EachSteps ==
  ASSUME [Next]_allVars
  PROVE  /\ [HubNext]_hubVars /\ [RecNext]_recVars /\ [SessionNext]_sessionVars
         /\ [DisplayNext]_displayVars /\ [CotNext]_cotVars /\ [TuiNext]_tuiVars
<1>1. CASE UNCHANGED allVars
  BY <1>1 DEF allVars
<1>2. CASE Next
  BY <1>2 DEF Next
<1> QED
  BY <1>1, <1>2

\* In whatever service: the hub keeps no peer that a publish found dead, the recorder
\* writes nothing once it is stopped, and no capture is written over (hub.py: publish,
\* recorder.py: stop, cot_relay.py:122-124).
THEOREM ServicesKeepAlways == Spec => ServicesKeep
<1>1. Init => HubStands /\ RecStands /\ CotStands
  BY HubStandsInit, RecStandsInit, CotStandsInit DEF Init
<1>2. [Next]_allVars => [HubNext]_hubVars /\ [RecNext]_recVars /\ [CotNext]_cotVars
  BY EachSteps
<1>3. HubStands /\ [HubNext]_hubVars
        => /\ HubStands'
           /\ [\A w \in Publishers :
                 pub[w].busy /\ ~pub'[w].busy /\ ~(cut' /\ w = "heartbeat")
                   => pub[w].dead \cap conns' = {}]_hubVars
  BY HubStandsNext, DeadGo
<1>4. RecStands /\ [RecNext]_recVars => RecStands' /\ [~started => written' = written]_recVars
  BY RecStandsNext, WritesWhileStarted
<1>5. CotStands /\ [CotNext]_cotVars
        => /\ CotStands'
           /\ [\A n \in DOMAIN files \cap DOMAIN files' : files'[n] = files[n]]_cotVars
  BY CotStandsNext
<1> QED
  BY <1>1, <1>2, <1>3, <1>4, <1>5, PTL
     DEF Spec, ServicesKeep, DeadAreRemoved, SilentAfterStop, NeverOverwritten

-----------------------------------------------------------------------------
(* The terminal runner.                                                    *)

\* What pytest reports, and what is posted to the app.
Told == {e \in [when : {"collect", "setup", "call"}, test : Nodeids,
                outcome : Outcomes \cup {"rerun"}] :
           /\ e.when = "setup" => e.outcome \in Outcomes
           /\ e.when = "collect" => e.outcome = "passed"}
ExitNote == [when |-> "exit", test |-> NoTest, outcome |-> "passed"]
Mail == Told \cup {ExitNote}

PytestStands ==
  /\ run \in Runs /\ child \in {"runs", "exited"} /\ signal \in {"none", "int", "term", "kill"}
  /\ todo \in Seq(Nodeids) /\ now \in Nodeids \cup {NoTest}
  /\ now # NoTest => todo # <<>>
  /\ collected \in BOOLEAN /\ flakes \in 0 .. MaxFlakes
  /\ file \in [Runs -> Seq(Told)] /\ path \in 0 .. run

\* The tail is never past the end of the log it has open.
TailStands ==
  /\ fd \in -1 .. run /\ pos \in Nat /\ torn \subseteq Nodeids
  /\ fd > 0 => pos <= Len(file[fd])

MailStands == mailbox \in Seq(Mail)

ShowStands ==
  /\ leaves \in [Nodeids -> Outcomes \cup {"absent", "pending"}]
  /\ counters \in [DOMAIN NoCounts -> Nat]
  /\ running \in Nodeids \cup {NoTest}
  /\ CountersMatchLeaves

FlagsStand ==
  /\ ui \in {"idle", "finishing", "exited", "crashed"}
  /\ runActive \in BOOLEAN /\ exitCode \in BOOLEAN /\ ~(runActive /\ exitCode)
  /\ poll \in {"polls", "waits", "decided"} /\ trigger \in BOOLEAN /\ stale \in BOOLEAN

\* Who escalates a quit calls for the clean-up when pytest is gone or killed, but for
\* one that was spawned since.
QuitStands ==
  /\ sigints \in 0 .. 2 /\ escalator \in {"none", "grace", "term", "calls"}
  /\ respawned \in BOOLEAN
  /\ escalator # "none" => sigints > 0
  /\ escalator = "calls" /\ child = "runs" => signal = "kill" \/ respawned
  /\ NoOrphan

\* A message that changes what is shown of a test, and to what.
Says(e, t) == e.test = t /\ (e.when = "call" \/ e.outcome # "passed")
Shown(e) == IF e.outcome = "rerun" THEN "pending" ELSE e.outcome

\* Of a test that was told of in what the tail has read of the first log, the last
\* such message is shown, or is the last one about the test in the mailbox.
LastTold(t, i) ==
  /\ Says(file[1][i], t)
  /\ \A j \in 1 .. pos : Says(file[1][j], t) => j <= i

Settled(t, i) ==
  /\ \A k \in 1 .. Len(mailbox) : ~Says(mailbox[k], t)
  /\ leaves[t] = Shown(file[1][i])

Posted(t, i) ==
  \E k \in 1 .. Len(mailbox) :
    /\ mailbox[k] = file[1][i]
    /\ \A m \in 1 .. Len(mailbox) : Says(mailbox[m], t) => m <= k

Lags(t) ==
  \/ \A i \in 1 .. pos : ~Says(file[1][i], t)
  \/ \E i \in 1 .. pos : LastTold(t, i) /\ (Settled(t, i) \/ Posted(t, i))

LagStands == run = 1 /\ fd = 1 => \A t \in Nodeids \ torn : Lags(t)

TuiStands ==
  /\ PytestStands /\ TailStands /\ MailStands /\ ShowStands /\ FlagsStand /\ QuitStands
  /\ LagStands

LEMMA ToldIs ==
  ASSUME NEW e \in Told
  PROVE  /\ e.when \in {"collect", "setup", "call"} /\ e.test \in Nodeids
         /\ e.outcome \in Outcomes \cup {"rerun"}
         /\ e.when = "setup" => e.outcome \in Outcomes
         /\ e.when = "collect" => e.outcome = "passed"
         /\ e \in Message /\ e \in Mail
BY DEF Told, Message, Mail

LEMMA NoteIs ==
  /\ ExitNote \in Mail /\ ExitNote \in Message /\ ExitNote.when = "exit"
  /\ \A t \in Nodeids : ~Says(ExitNote, t)
<1>1. ExitNote.when = "exit" /\ ExitNote.test = NoTest /\ ExitNote.outcome = "passed"
  BY DEF ExitNote
<1>2. ExitNote \in Message
  BY DEF ExitNote, Message, Outcomes
<1>3. NoTest \notin Nodeids
  BY TuiAssumption DEF Nodeids
<1> QED
  BY <1>1, <1>2, <1>3 DEF Mail, Says

LEMMA MailIs ==
  ASSUME NEW e \in Mail
  PROVE  e \in Told \/ e = ExitNote
BY DEF Mail

LEMMA TestsFinite == IsFiniteSet(Nodeids) /\ Tests \in Seq(Nodeids) /\ NoTest \notin Nodeids
<1>1. Tests \in Seq(Nodeids) /\ NoTest \notin Nodeids
  BY TuiAssumption DEF Nodeids
<1>2. Len(Tests) \in Nat /\ DOMAIN Tests = 1 .. Len(Tests) /\ Tests \in [1 .. Len(Tests) -> Nodeids]
  BY <1>1, LenProperties
<1>3. \A t \in Nodeids : \E i \in 1 .. Len(Tests) : Tests[i] = t
  BY <1>2 DEF Nodeids, Range
<1>4. IsFiniteSet(1 .. Len(Tests))
  BY <1>2, FS_Interval
<1>5. Tests \in Surjection(1 .. Len(Tests), Nodeids)
  BY <1>2, <1>3 DEF Surjection
<1> QED
  BY <1>1, <1>4, <1>5, FS_Surjection

LEMMA RunIs == PytestStands => run \in Nat /\ run >= 1 /\ run \in Runs /\ Runs \subseteq Nat
BY TuiAssumption DEF PytestStands, Runs

\* One event more in the log of the present spawn.
LEMMA WritesOne ==
  ASSUME PytestStands, NEW when \in {"setup", "call"}, NEW t \in Nodeids, NEW outcome \in Outcomes \cup {"rerun"},
         when = "setup" => outcome \in Outcomes, Writes(when, t, outcome)
  PROVE  /\ file' \in [Runs -> Seq(Told)]
         /\ \A r \in Runs : /\ Len(file[r]) <= Len(file'[r])
                            /\ \A i \in 1 .. Len(file[r]) : file'[r][i] = file[r][i]
<1> DEFINE e == [when |-> when, test |-> t, outcome |-> outcome]
<1>1. e \in Told
  BY DEF Told
<1>2. file' = [file EXCEPT ![run] = Append(@, e)]
  BY DEF Writes
<1> HIDE DEF e
<1>3. \A r \in Runs : file[r] \in Seq(Told) /\ Len(file[r]) \in Nat
  BY LenProperties DEF PytestStands
<1>4. Append(file[run], e) \in Seq(Told) /\ Len(Append(file[run], e)) = Len(file[run]) + 1
      /\ \A i \in 1 .. Len(file[run]) : Append(file[run], e)[i] = file[run][i]
  BY <1>1, <1>3, RunIs, AppendProperties
<1>5. \A r \in Runs : file'[r] = IF r = run THEN Append(file[run], e) ELSE file[r]
  BY <1>2 DEF PytestStands
<1>6. file' \in [Runs -> Seq(Told)]
  BY <1>2, <1>3, <1>4 DEF PytestStands
<1> QED
  BY <1>3, <1>4, <1>5, <1>6

LEMMA CollectsAll ==
  ASSUME PytestStands, PytestCollects
  PROVE  /\ file' \in [Runs -> Seq(Told)]
         /\ \A r \in Runs : /\ Len(file[r]) <= Len(file'[r])
                            /\ \A i \in 1 .. Len(file[r]) : file'[r][i] = file[r][i]
<1> DEFINE s == [i \in DOMAIN todo |-> [when |-> "collect", test |-> todo[i], outcome |-> "passed"]]
<1>1. s \in Seq(Told) /\ Len(s) \in Nat
  <2>1. Len(todo) \in Nat /\ DOMAIN todo = 1 .. Len(todo) /\ \A i \in 1 .. Len(todo) : todo[i] \in Nodeids
    BY LenProperties, ElementOfSeq DEF PytestStands
  <2>2. \A i \in DOMAIN todo : [when |-> "collect", test |-> todo[i], outcome |-> "passed"] \in Told
    BY <2>1 DEF Told, Outcomes
  <2>3. s \in [1 .. Len(todo) -> Told]
    BY <2>1, <2>2
  <2> HIDE DEF s
  <2>4. s \in Seq(Told)
    BY <2>1, <2>3, SeqDef
  <2> QED
    BY <2>4, LenProperties
<1>2. file' = [file EXCEPT ![run] = @ \o s]
  BY DEF PytestCollects
<1> HIDE DEF s
<1>3. \A r \in Runs : file[r] \in Seq(Told) /\ Len(file[r]) \in Nat
  BY LenProperties DEF PytestStands
<1>4. file[run] \o s \in Seq(Told) /\ Len(file[run]) <= Len(file[run] \o s)
      /\ \A i \in 1 .. Len(file[run]) : (file[run] \o s)[i] = file[run][i]
  BY <1>1, <1>3, RunIs, ConcatProperties
<1>5. \A r \in Runs : file'[r] = IF r = run THEN file[run] \o s ELSE file[r]
  BY <1>2 DEF PytestStands
<1>6. file' \in [Runs -> Seq(Told)]
  BY <1>2, <1>3, <1>4 DEF PytestStands
<1>7. ASSUME NEW r \in Runs
      PROVE  /\ Len(file[r]) <= Len(file'[r])
             /\ \A i \in 1 .. Len(file[r]) : file'[r][i] = file[r][i]
  <2>1. CASE r = run
    <3>1. file'[r] = file[run] \o s
      BY <1>5, <2>1
    <3> QED
      BY <1>4, <2>1, <3>1
  <2>2. CASE r # run
    <3>1. file'[r] = file[r] /\ Len(file[r]) \in Nat
      BY <1>3, <1>5, <2>2
    <3> QED
      BY <3>1
  <2> QED
    BY <2>1, <2>2
<1> QED
  BY <1>6, <1>7

LEMMA TodoIs ==
  ASSUME PytestStands, todo # <<>>
  PROVE  Head(todo) \in Nodeids /\ Tail(todo) \in Seq(Nodeids)
BY HeadTailProperties DEF PytestStands

\* What a log has it keeps.
LogGrows ==
  \A r \in Runs : /\ Len(file[r]) <= Len(file'[r])
                  /\ \A i \in 1 .. Len(file[r]) : file'[r][i] = file[r][i]

LEMMA SetsUpWrites ==
  ASSUME PytestStands, PytestSetsUp
  PROVE  file' \in [Runs -> Seq(Told)] /\ LogGrows
<1>1. PICK outcome \in SetupOutcomes : Writes("setup", Head(todo), outcome)
  BY DEF PytestSetsUp
<1>2. outcome \in Outcomes
  BY <1>1, TuiAssumption DEF Outcomes
<1>3. Head(todo) \in Nodeids
  BY TodoIs DEF PytestSetsUp
<1> QED
  BY <1>1, <1>2, <1>3, WritesOne DEF LogGrows

LEMMA CallWrites ==
  ASSUME PytestStands, PytestCalls
  PROVE  file' \in [Runs -> Seq(Told)] /\ LogGrows
<1>1. PICK outcome \in CallOutcomes \cup {"rerun"} : Writes("call", now, outcome)
  BY DEF PytestCalls
<1>2. outcome \in Outcomes \cup {"rerun"}
  BY <1>1, TuiAssumption DEF Outcomes
<1>3. now \in Nodeids
  BY DEF PytestStands, PytestCalls
<1> QED
  BY <1>1, <1>2, <1>3, WritesOne DEF LogGrows

\* A message taken from the mailbox.
LEMMA TakenIs ==
  ASSUME MailStands, Takes
  PROVE  /\ Head(mailbox) \in Mail /\ Head(mailbox) = mailbox[1] /\ Len(mailbox) \in Nat
         /\ mailbox' \in Seq(Mail) /\ Len(mailbox') = Len(mailbox) - 1 /\ Len(mailbox) > 0
         /\ \A k \in 1 .. Len(mailbox') : mailbox'[k] = mailbox[k + 1]
<1>1. mailbox \in Seq(Mail) /\ mailbox # <<>> /\ mailbox' = Tail(mailbox)
  BY DEF MailStands, Takes
<1>2. Head(mailbox) = mailbox[1]
  BY <1>1
<1>3. Len(mailbox) \in Nat /\ Len(mailbox) > 0
  BY <1>1, EmptySeq
<1> QED
  BY <1>1, <1>2, <1>3, HeadTailProperties

\* A message put into the mailbox.
LEMMA PutIs ==
  ASSUME MailStands, NEW e \in Mail, mailbox' = Append(mailbox, e)
  PROVE  /\ mailbox' \in Seq(Mail) /\ Len(mailbox) \in Nat
         /\ Len(mailbox') = Len(mailbox) + 1 /\ mailbox'[Len(mailbox) + 1] = e
         /\ \A k \in 1 .. Len(mailbox) : mailbox'[k] = mailbox[k]
BY AppendProperties, LenProperties DEF MailStands

\* The event that the tail reads.
LEMMA ReadIs ==
  ASSUME PytestStands, TailStands, fd > 0, pos < Len(file[fd])
  PROVE  /\ fd \in Runs /\ file[fd] \in Seq(Told) /\ Len(file[fd]) \in Nat
         /\ pos + 1 \in 1 .. Len(file[fd]) /\ file[fd][pos + 1] \in Told
<1>1. fd \in Runs
  BY RunIs, TuiAssumption DEF TailStands, PytestStands, Runs
<1>2. file[fd] \in Seq(Told) /\ Len(file[fd]) \in Nat
  BY <1>1, LenProperties DEF PytestStands
<1>3. pos + 1 \in 1 .. Len(file[fd])
  BY <1>2 DEF TailStands
<1> QED
  BY <1>1, <1>2, <1>3, ElementOfSeq

Buckets == {"passed", "failed", "skipped", "pending"}

LEMMA CountsAre ==
  DOMAIN NoCounts = Buckets /\ NoCounts \in [Buckets -> Nat] /\ \A o \in Buckets : NoCounts[o] = 0
BY DEF NoCounts, Buckets

LEMMA AddedIs ==
  ASSUME NEW c \in [Buckets -> Nat], NEW o, NEW by \in {-1, 1},
         o \in Buckets /\ by = -1 => c[o] >= 1
  PROVE  /\ Added(c, o, by) \in [Buckets -> Nat]
         /\ \A x \in Buckets : Added(c, o, by)[x] = IF x = o THEN c[x] + by ELSE c[x]
<1>1. CASE o \in Buckets
  <2>1. c[o] + by \in Nat /\ ~(c[o] + by < 0)
    <3>1. c[o] \in Nat
      BY <1>1
    <3> QED
      BY <1>1, <3>1
  <2>2. Added(c, o, by) = [c EXCEPT ![o] = c[o] + by]
    BY <1>1, <2>1 DEF Added
  <2> QED
    BY <1>1, <2>1, <2>2
<1>2. CASE o \notin Buckets
  BY <1>2 DEF Added
<1> QED
  BY <1>1, <1>2

\* A leaf leaves a bucket and enters another one, and the counters follow.
LEMMA LeafMoves ==
  ASSUME ShowStands, NEW t \in Nodeids, NEW b \in Buckets,
         leaves' = [leaves EXCEPT ![t] = b],
         counters' = Added(Added(counters, leaves[t], -1), b, 1)
  PROVE  /\ leaves' \in [Nodeids -> Outcomes \cup {"absent", "pending"}]
         /\ counters' \in [DOMAIN NoCounts -> Nat]
         /\ CountersMatchLeaves'
<1> DEFINE In(o) == {u \in Nodeids : leaves[u] = o}
           After(o) == {u \in Nodeids : leaves'[u] = o}
           a == leaves[t]
           c1 == Added(counters, a, -1)
<1>0. counters \in [Buckets -> Nat] /\ \A o \in Buckets : counters[o] = Cardinality(In(o))
  BY CountsAre DEF ShowStands, CountersMatchLeaves
<1>1. \A o : IsFiniteSet(In(o))
  <2>1. \A o : In(o) \subseteq Nodeids
    OBVIOUS
  <2> QED
    BY <2>1, TestsFinite, FS_Subset
<1>2. a \in Buckets => counters[a] >= 1
  <2>1. SUFFICES ASSUME a \in Buckets PROVE counters[a] >= 1
    OBVIOUS
  <2>2. In(a) # {}
    OBVIOUS
  <2>3. Cardinality(In(a)) # 0 /\ Cardinality(In(a)) \in Nat
    BY <2>2, <1>1, FS_EmptySet, FS_CardinalityType
  <2> QED
    BY <1>0, <2>1, <2>3
<1>3. c1 \in [Buckets -> Nat] /\ \A x \in Buckets : c1[x] = IF x = a THEN counters[x] - 1 ELSE counters[x]
  <2> HIDE DEF a
  <2>1. /\ c1 \in [Buckets -> Nat]
        /\ \A x \in Buckets : c1[x] = IF x = a THEN counters[x] + -1 ELSE counters[x]
    BY <1>0, <1>2, AddedIs
  <2> HIDE DEF c1
  <2> QED
    BY <2>1, <1>0
<1> HIDE DEF c1
<1>4. counters' \in [Buckets -> Nat] /\ \A x \in Buckets : counters'[x] = IF x = b THEN c1[x] + 1 ELSE c1[x]
  <2>1. counters' = Added(c1, b, 1)
    BY DEF c1
  <2> QED
    BY <1>3, <2>1, AddedIs
<1>5. \A u \in Nodeids : leaves'[u] = IF u = t THEN b ELSE leaves[u]
  BY DEF ShowStands
<1>6. ASSUME NEW x \in Buckets PROVE counters'[x] = Cardinality(After(x))
  <2>1. CASE x = a /\ x = b
    <3>1. After(x) = In(x)
      BY <1>5, <2>1
    <3>2. counters[x] \in Nat
      BY <1>0
    <3>3. counters'[x] = counters[x]
      BY <1>3, <1>4, <2>1, <3>2
    <3> QED
      BY <1>0, <3>1, <3>3
  <2>2. CASE x # a /\ x = b
    <3>1. After(x) = In(x) \cup {t} /\ t \notin In(x)
      BY <1>5, <2>2
    <3>2. Cardinality(In(x) \cup {t}) = Cardinality(In(x)) + 1
      BY <1>1, <3>1, FS_AddElement
    <3>3. counters'[x] = counters[x] + 1
      BY <1>3, <1>4, <2>2
    <3> QED
      BY <1>0, <3>1, <3>2, <3>3
  <2>3. CASE x = a /\ x # b
    <3>1. After(x) = In(x) \ {t} /\ t \in In(x)
      BY <1>5, <2>3
    <3>2. Cardinality(In(x) \ {t}) = Cardinality(In(x)) - 1
      <4> HIDE DEF In, After
      <4>1. IsFiniteSet(In(x)) /\ t \in In(x)
        BY <1>1, <3>1
      <4> QED
        BY <4>1, FS_RemoveElement
    <3>3. counters'[x] = counters[x] - 1
      BY <1>3, <1>4, <2>3
    <3> QED
      BY <1>0, <3>1, <3>2, <3>3
  <2>4. CASE x # a /\ x # b
    <3>1. After(x) = In(x)
      BY <1>5, <2>4
    <3> QED
      BY <1>0, <1>3, <1>4, <2>4, <3>1
  <2> QED
    BY <2>1, <2>2, <2>3, <2>4
<1>7. CountersMatchLeaves'
  BY <1>6, CountsAre DEF CountersMatchLeaves
<1>8. leaves' \in [Nodeids -> Outcomes \cup {"absent", "pending"}]
  BY DEF ShowStands, Buckets, Outcomes
<1> QED
  BY <1>4, <1>7, <1>8, CountsAre

\* What a message of pytest does to the leaf of a test and to the counters.
LEMMA CollectShows ==
  ASSUME ShowStands, MailStands, HandleCollect
  PROVE  /\ ShowStands'
         /\ \A t \in Nodeids : leaves'[t] = leaves[t] \/ leaves[t] = "absent"
<1> DEFINE t == Head(mailbox).test
<1>1. t \in Nodeids
  BY TakenIs, MailIs, ToldIs, NoteIs DEF HandleCollect
<1>2. UNCHANGED running
  BY DEF HandleCollect
<1>3. CASE leaves[t] = "absent"
  <2>1. /\ leaves' = [leaves EXCEPT ![t] = "pending"]
        /\ counters' = Added(counters, "pending", 1)
    BY <1>3 DEF HandleCollect
  <2>2. Added(counters, leaves[t], -1) = counters
    BY <1>3, CountsAre DEF ShowStands, Added, Buckets
  <2>3. "pending" \in Buckets
    BY DEF Buckets
  <2> HIDE DEF t
  <2>4. /\ leaves' \in [Nodeids -> Outcomes \cup {"absent", "pending"}]
        /\ counters' \in [DOMAIN NoCounts -> Nat] /\ CountersMatchLeaves'
    BY <1>1, <2>1, <2>2, <2>3, LeafMoves
  <2> QED
    BY <1>1, <1>2, <1>3, <2>1, <2>4 DEF ShowStands
<1>4. CASE leaves[t] # "absent"
  <2>1. UNCHANGED <<leaves, counters>>
    BY <1>4 DEF HandleCollect
  <2> QED
    BY <1>2, <2>1 DEF ShowStands, CountersMatchLeaves
<1> QED
  BY <1>3, <1>4

LEMMA ReportShows ==
  ASSUME ShowStands, MailStands, HandleReport
  PROVE  /\ ShowStands'
         /\ \A t \in Nodeids : leaves'[t] = IF Says(Head(mailbox), t) THEN Shown(Head(mailbox)) ELSE leaves[t]
<1> DEFINE e == Head(mailbox)
<1>1. e \in Told /\ e.when \in {"setup", "call"}
  BY TakenIs, MailIs, NoteIs DEF HandleReport
<1>2. /\ e.test \in Nodeids /\ e.outcome \in Outcomes \cup {"rerun"}
      /\ e.when = "setup" => e.outcome \in Outcomes
  BY <1>1, ToldIs
<1>3. /\ Marks(e)
      /\ IF Terminal(e) THEN Shows(e.test, e.outcome)
         ELSE IF e.outcome = "rerun" THEN Shows(e.test, "pending") ELSE UNCHANGED <<leaves, counters>>
  BY DEF HandleReport
<1> HIDE DEF e
<1>4. running' \in Nodeids \cup {NoTest}
  BY <1>2, <1>3 DEF Marks, ShowStands
<1>5. CASE Terminal(e) \/ e.outcome = "rerun"
  <2>1. Shows(e.test, Shown(e)) /\ Shown(e) \in Buckets /\ Says(e, e.test)
    BY <1>1, <1>2, <1>3, <1>5 DEF Shown, Buckets, Outcomes, Terminal, Says
  <2>2. /\ leaves' = [leaves EXCEPT ![e.test] = Shown(e)]
        /\ counters' = Added(Added(counters, leaves[e.test], -1), Shown(e), 1)
    BY <2>1 DEF Shows
  <2>3. /\ leaves' \in [Nodeids -> Outcomes \cup {"absent", "pending"}]
        /\ counters' \in [DOMAIN NoCounts -> Nat] /\ CountersMatchLeaves'
    BY <1>2, <2>1, <2>2, LeafMoves
  <2>4. \A t \in Nodeids : leaves'[t] = IF t = e.test THEN Shown(e) ELSE leaves[t]
    BY <2>2 DEF ShowStands
  <2>5. \A t \in Nodeids : Says(e, t) <=> t = e.test
    BY <2>1 DEF Says
  <2>6. \A t \in Nodeids : leaves'[t] = IF Says(e, t) THEN Shown(e) ELSE leaves[t]
    BY <2>4, <2>5
  <2> QED
    BY <1>4, <2>3, <2>6 DEF ShowStands, e
<1>6. CASE ~Terminal(e) /\ e.outcome # "rerun"
  <2>1. UNCHANGED <<leaves, counters>>
    BY <1>3, <1>6
  <2>2. \A t \in Nodeids : ~Says(e, t)
    BY <1>1, <1>2, <1>6 DEF Terminal, Says, Outcomes
  <2>3. ShowStands'
    BY <1>4, <2>1 DEF ShowStands, CountersMatchLeaves
  <2> QED
    BY <2>1, <2>2, <2>3 DEF e
<1> QED
  BY <1>5, <1>6

LEMMA ResetShows ==
  ASSUME Resets
  PROVE  ShowStands'
<1>1. \A t \in Nodeids : leaves'[t] = "absent"
  BY DEF Resets
<1>2. \A o \in Buckets : {t \in Nodeids : leaves'[t] = o} = {}
  BY <1>1 DEF Buckets
<1>3. CountersMatchLeaves'
  BY <1>2, CountsAre, FS_EmptySet DEF Resets, CountersMatchLeaves
<1>4. leaves' \in [Nodeids -> Outcomes \cup {"absent", "pending"}]
  BY DEF Resets
<1>5. counters' \in [DOMAIN NoCounts -> Nat] /\ running' \in Nodeids \cup {NoTest}
  BY CountsAre DEF Resets
<1> QED
  BY <1>3, <1>4, <1>5 DEF ShowStands

\* A step after which less is in the mailbox about a test: what was said is shown.
LEMMA LagsTaken ==
  ASSUME PytestStands, TailStands, MailStands, Takes, run = 1, fd = 1, UNCHANGED <<file, pos>>,
         NEW t \in Nodeids, Lags(t),
         Says(Head(mailbox), t) => leaves'[t] = Shown(Head(mailbox)),
         ~Says(Head(mailbox), t) => leaves'[t] = leaves[t] \/ leaves[t] = "absent"
  PROVE  Lags(t)'
<1>1. CASE \A i \in 1 .. pos : ~Says(file[1][i], t)
  BY <1>1 DEF Lags
<1>2. CASE \E i \in 1 .. pos : LastTold(t, i) /\ (Settled(t, i) \/ Posted(t, i))
  <2>1. PICK i \in 1 .. pos : LastTold(t, i) /\ (Settled(t, i) \/ Posted(t, i))
    BY <1>2
  <2>2. LastTold(t, i)'
    BY <2>1 DEF LastTold
  <2>3. /\ Head(mailbox) = mailbox[1] /\ Len(mailbox) \in Nat /\ Len(mailbox) > 0
        /\ Len(mailbox') = Len(mailbox) - 1
        /\ \A k \in 1 .. Len(mailbox') : mailbox'[k] = mailbox[k + 1]
    BY TakenIs
  <2>4. CASE Settled(t, i)
    <3>1. ~Says(Head(mailbox), t) /\ leaves[t] = Shown(file[1][i])
      BY <2>3, <2>4 DEF Settled
    <3>2. Shown(file[1][i]) # "absent"
      <4>1. file[1] \in Seq(Told) /\ i \in 1 .. Len(file[1])
        BY RunIs, LenProperties DEF PytestStands, TailStands
      <4>2. file[1][i] \in Told
        BY <4>1, ElementOfSeq
      <4> QED
        BY <4>2, ToldIs DEF Shown, Outcomes
    <3>3. leaves'[t] = Shown(file'[1][i])
      BY <3>1, <3>2
    <3>4. \A k \in 1 .. Len(mailbox') : ~Says(mailbox'[k], t)
      BY <2>3, <2>4 DEF Settled
    <3> QED
      BY <2>1, <2>2, <3>3, <3>4 DEF Lags, Settled
  <2>5. CASE Posted(t, i)
    <3>1. PICK k \in 1 .. Len(mailbox) :
            /\ mailbox[k] = file[1][i]
            /\ \A m \in 1 .. Len(mailbox) : Says(mailbox[m], t) => m <= k
      BY <2>5 DEF Posted
    <3>2. CASE k = 1
      <4>1. leaves'[t] = Shown(file'[1][i])
        BY <2>1, <2>3, <3>1, <3>2 DEF LastTold
      <4>2. \A m \in 1 .. Len(mailbox') : ~Says(mailbox'[m], t)
        BY <2>3, <3>1, <3>2
      <4> QED
        BY <2>1, <2>2, <4>1, <4>2 DEF Lags, Settled
    <3>3. CASE k # 1
      <4>1. k - 1 \in 1 .. Len(mailbox') /\ mailbox'[k - 1] = file'[1][i]
        BY <2>3, <3>1, <3>3
      <4>2. \A m \in 1 .. Len(mailbox') : Says(mailbox'[m], t) => m <= k - 1
        BY <2>3, <3>1
      <4>3. Posted(t, i)'
        BY <4>1, <4>2 DEF Posted
      <4> QED
        BY <2>1, <2>2, <4>3 DEF Lags
    <3> QED
      BY <3>2, <3>3
  <2> QED
    BY <2>1, <2>4, <2>5
<1> QED
  BY <1>1, <1>2 DEF Lags

\* A step that tells nothing more of a test.
LEMMA LagsOn ==
  ASSUME TailStands, MailStands, MailStands', NEW t \in Nodeids, Lags(t),
         \A i \in 1 .. pos : file'[1][i] = file[1][i],
         pos' = pos \/ (pos' = pos + 1 /\ ~Says(file'[1][pos + 1], t)),
         Len(mailbox') = Len(mailbox)
           \/ (Len(mailbox') = Len(mailbox) + 1 /\ ~Says(mailbox'[Len(mailbox) + 1], t)),
         \A k \in 1 .. Len(mailbox) : mailbox'[k] = mailbox[k],
         leaves'[t] = leaves[t]
  PROVE  Lags(t)'
<1>0. pos \in Nat /\ Len(mailbox) \in Nat
  BY LenProperties DEF TailStands, MailStands
<1>1. CASE \A i \in 1 .. pos : ~Says(file[1][i], t)
  <2>1. \A i \in 1 .. pos' : ~Says(file'[1][i], t)
    BY <1>0, <1>1
  <2> QED
    BY <2>1 DEF Lags
<1>2. CASE \E i \in 1 .. pos : LastTold(t, i) /\ (Settled(t, i) \/ Posted(t, i))
  <2>1. PICK i \in 1 .. pos : LastTold(t, i) /\ (Settled(t, i) \/ Posted(t, i))
    BY <1>2
  <2>2. i \in 1 .. pos' /\ LastTold(t, i)'
    BY <1>0, <2>1 DEF LastTold
  <2>3. Settled(t, i) => Settled(t, i)'
    BY <1>0, <2>1 DEF Settled
  <2>4. Posted(t, i) => Posted(t, i)'
    BY <1>0, <2>1 DEF Posted
  <2> QED
    BY <2>1, <2>2, <2>3, <2>4 DEF Lags
<1> QED
  BY <1>1, <1>2 DEF Lags

\* A step that tells of a test.
LEMMA LagsTold ==
  ASSUME TailStands, MailStands, NEW t \in Nodeids, UNCHANGED file, pos' = pos + 1,
         Says(file[1][pos + 1], t), Len(mailbox') = Len(mailbox) + 1,
         mailbox'[Len(mailbox) + 1] = file[1][pos + 1]
  PROVE  Lags(t)'
<1>0. pos \in Nat /\ Len(mailbox) \in Nat
  BY LenProperties DEF TailStands, MailStands
<1>1. PICK i \in Nat : i = pos + 1
  BY <1>0
<1>2. i \in 1 .. pos' /\ LastTold(t, i)'
  BY <1>0, <1>1 DEF LastTold, Says
<1>3. Posted(t, i)'
  <2>1. PICK k \in Nat : k = Len(mailbox) + 1
    BY <1>0
  <2>2. k \in 1 .. Len(mailbox') /\ mailbox'[k] = file'[1][i]
    BY <1>0, <1>1, <2>1
  <2>3. \A m \in 1 .. Len(mailbox') : m <= k
    BY <1>0, <2>1
  <2> QED
    BY <2>2, <2>3 DEF Posted
<1> QED
  BY <1>2, <1>3 DEF Lags

LEMMA PytestGoesOn ==
  ASSUME PytestStands, TuiNext
  PROVE  PytestStands'
<1>1. CASE PytestOpensLog
  BY <1>1, RunIs DEF PytestOpensLog, PytestStands, procVars, pytestVars
<1>2. CASE PytestCollects
  BY <1>2, CollectsAll DEF PytestCollects, PytestStands, procVars
<1>3. CASE PytestSetsUp
  <2>1. todo # <<>> /\ Head(todo) \in Nodeids /\ Tail(todo) \in Seq(Nodeids)
    BY <1>3, TodoIs DEF PytestSetsUp
  <2>2. \/ now' = Head(todo) /\ UNCHANGED todo
        \/ todo' = Tail(todo) /\ UNCHANGED now /\ now = NoTest
    BY <1>3 DEF PytestSetsUp
  <2>3. file' \in [Runs -> Seq(Told)]
    BY <1>3, SetsUpWrites
  <2> QED
    BY <1>3, <2>1, <2>2, <2>3 DEF PytestSetsUp, PytestStands, procVars
<1>4. CASE PytestCalls
  <2>1. Tail(todo) \in Seq(Nodeids)
    BY <1>4, TodoIs DEF PytestCalls, PytestStands
  <2>2. todo' \in Seq(Nodeids) /\ now' = NoTest
    BY <1>4, <2>1 DEF PytestCalls, PytestStands
  <2>3. flakes' \in 0 .. MaxFlakes
    BY <1>4, TuiAssumption DEF PytestCalls, PytestStands
  <2>4. file' \in [Runs -> Seq(Told)]
    BY <1>4, CallWrites
  <2> QED
    BY <1>4, <2>2, <2>3, <2>4 DEF PytestCalls, PytestStands, procVars
<1>5. CASE PytestExits
  BY <1>5 DEF PytestExits, PytestStands, pytestVars
<1>6. ASSUME NEW t \in Nodeids, RerunFocused(t) PROVE PytestStands'
  <2>1. <<t>> \in Seq(Nodeids) /\ <<t>> # <<>>
    OBVIOUS
  <2>2. run' \in Runs /\ 0 \in 0 .. run'
    BY <1>6, RunIs, TuiAssumption DEF RerunFocused, Runs
  <2> QED
    BY <1>6, <2>1, <2>2 DEF RerunFocused, PytestStands
<1>7. CASE Quit
  BY <1>7 DEF Quit, PytestStands, pytestVars
<1>8. CASE EscalatorTerms
  BY <1>8 DEF EscalatorTerms, escalates, PytestStands, pytestVars
<1>9. CASE EscalatorKills
  BY <1>9 DEF EscalatorKills, escalates, PytestStands, pytestVars
<1>10. CASE UNCHANGED <<procVars, pytestVars, file, path>>
  BY <1>10 DEF PytestStands, procVars, pytestVars
<1>11. CASE TailOpens \/ TailReads \/ TailGivesUp \/ TailReadsTorn \/ HandleCollect \/
             HandleReport \/ HandleExit \/ ExitHandled \/ PollEnds \/ PollWakes \/ PollBegins
             \/ EscalatorSees \/ CleansUp
  <2>1. UNCHANGED <<procVars, pytestVars, file, path>>
    BY <1>11 DEF TailOpens, TailReads, TailGivesUp, TailReadsTorn, HandleCollect, HandleReport,
    HandleExit, ExitHandled, PollEnds, PollWakes, PollBegins, EscalatorSees, CleansUp, procVars,
    pytestVars, tailVars, appVars, shownVars, pollVars, quitVars, escalates, Takes, Finish
  <2> QED
    BY <2>1, <1>10
<1> QED
  BY <1>1, <1>2, <1>3, <1>4, <1>5, <1>6, <1>7, <1>8, <1>9, <1>11 DEF TuiNext, PytestRuns,
  TailRuns, UiHandles, PollRuns, EscalatorRuns

LEMMA LogGrowsOn ==
  ASSUME PytestStands, TuiNext
  PROVE  LogGrows /\ run' >= run
<1>1. CASE PytestCollects
  BY <1>1, CollectsAll, RunIs DEF LogGrows, PytestCollects, procVars
<1>2. CASE PytestSetsUp
  BY <1>2, SetsUpWrites, RunIs DEF PytestSetsUp, procVars
<1>3. CASE PytestCalls
  BY <1>3, CallWrites, RunIs DEF PytestCalls, procVars
<1>4. ASSUME NEW t \in Nodeids, RerunFocused(t) PROVE LogGrows /\ run' >= run
  <2>1. \A r \in Runs : Len(file[r]) \in Nat
    BY LenProperties DEF PytestStands
  <2> QED
    BY <1>4, <2>1, RunIs DEF RerunFocused, LogGrows
<1>5. CASE UNCHANGED <<file, run>>
  <2>1. \A r \in Runs : Len(file[r]) \in Nat
    BY LenProperties DEF PytestStands
  <2> QED
    BY <1>5, <2>1, RunIs DEF LogGrows
<1>6. CASE PytestOpensLog \/ PytestExits \/ TailOpens \/ TailReads \/ TailGivesUp \/
             TailReadsTorn \/ HandleCollect \/ HandleReport \/ HandleExit \/ ExitHandled \/
             PollEnds \/ PollWakes \/ PollBegins \/ EscalatorSees \/ EscalatorTerms \/
             EscalatorKills \/ CleansUp \/ Quit
  <2>1. UNCHANGED <<file, run>>
    BY <1>6 DEF PytestOpensLog, PytestExits, TailOpens, TailReads, TailGivesUp, TailReadsTorn,
    HandleCollect, HandleReport, HandleExit, ExitHandled, PollEnds, PollWakes, PollBegins,
    EscalatorSees, EscalatorTerms, EscalatorKills, CleansUp, Quit, procVars, pytestVars,
    tailVars, appVars, shownVars, pollVars, quitVars, escalates, Takes, Finish
  <2> QED
    BY <2>1, <1>5
<1> QED
  BY <1>1, <1>2, <1>3, <1>4, <1>6 DEF TuiNext, PytestRuns, TailRuns, UiHandles, PollRuns,
  EscalatorRuns

LEMMA TailGoesOn ==
  ASSUME PytestStands, TailStands, PytestStands', TuiNext
  PROVE  TailStands'
<1>1. CASE TailOpens
  <2>1. fd' = path /\ pos' = 0 /\ path \in 0 .. run' /\ torn' = torn /\ file' = file /\ path > 0
    BY <1>1, RunIs DEF TailOpens, PytestStands, procVars
  <2>2. path \in Runs
    BY <1>1, <2>1, TuiAssumption DEF PytestStands, TailOpens, Runs
  <2>3. Len(file[path]) \in Nat
    BY <2>2, LenProperties DEF PytestStands
  <2> QED
    BY <2>1, <2>3, RunIs DEF TailStands, PytestStands
<1>2. CASE TailReads
  <2>1. fd' = fd /\ pos' = pos + 1 /\ torn' = torn /\ file' = file /\ run' = run
    BY <1>2 DEF TailReads, procVars
  <2>2. pos + 1 \in 1 .. Len(file[fd])
    BY <1>2, ReadIs DEF TailReads
  <2> QED
    BY <2>1, <2>2 DEF TailStands
<1>3. CASE TailGivesUp
  <2>1. fd' = -1 /\ pos' = pos /\ torn' = torn /\ run' = run
    BY <1>3 DEF TailGivesUp, procVars
  <2> QED
    BY <2>1, RunIs DEF TailStands
<1>4. CASE TailReadsTorn
  <2>1. fd' = fd /\ pos' = pos + 1 /\ torn' = torn \cup {file[fd][pos + 1].test} /\ file' = file /\ run' = run
    BY <1>4 DEF TailReadsTorn, procVars
  <2>2. pos + 1 \in 1 .. Len(file[fd]) /\ file[fd][pos + 1].test \in Nodeids
    BY <1>4, ReadIs, ToldIs DEF TailReadsTorn
  <2> QED
    BY <2>1, <2>2 DEF TailStands
<1>5. ASSUME NEW t \in Nodeids, RerunFocused(t) PROVE TailStands'
  <2>1. fd' = fd /\ pos' = pos /\ torn' = torn /\ file' = file /\ run' = run + 1
    BY <1>5 DEF RerunFocused, tailVars
  <2> QED
    BY <2>1, RunIs DEF TailStands
<1>6. CASE UNCHANGED <<tailVars, run>>
  <2>1. fd' = fd /\ pos' = pos /\ torn' = torn /\ run' = run
    BY <1>6 DEF tailVars
  <2>2. fd > 0 => pos <= Len(file'[fd])
    <3>1. SUFFICES ASSUME fd > 0 PROVE pos <= Len(file'[fd])
      OBVIOUS
    <3>2. fd \in Runs
      BY <3>1, RunIs, TuiAssumption DEF TailStands, PytestStands, Runs
    <3>3. Len(file[fd]) \in Nat /\ Len(file'[fd]) \in Nat
      BY <3>2, LenProperties DEF PytestStands
    <3> QED
      BY <3>1, <3>2, <3>3, LogGrowsOn DEF TailStands, LogGrows
  <2> QED
    BY <2>1, <2>2 DEF TailStands
<1>7. CASE PytestOpensLog \/ PytestCollects \/ PytestSetsUp \/ PytestCalls \/ PytestExits
             \/ HandleCollect \/ HandleReport \/ HandleExit \/ ExitHandled \/ PollEnds \/
             PollWakes \/ PollBegins \/ EscalatorSees \/ EscalatorTerms \/ EscalatorKills \/
             CleansUp \/ Quit
  <2>1. UNCHANGED <<tailVars, run>>
    BY <1>7 DEF PytestOpensLog, PytestCollects, PytestSetsUp, PytestCalls, PytestExits,
    HandleCollect, HandleReport, HandleExit, ExitHandled, PollEnds, PollWakes, PollBegins,
    EscalatorSees, EscalatorTerms, EscalatorKills, CleansUp, Quit, procVars, pytestVars,
    tailVars, appVars, shownVars, pollVars, quitVars, escalates, Takes, Finish
  <2> QED
    BY <2>1, <1>6
<1> QED
  BY <1>1, <1>2, <1>3, <1>4, <1>5, <1>7 DEF TuiNext, PytestRuns, TailRuns, UiHandles, PollRuns,
  EscalatorRuns

LEMMA MailGoesOn ==
  ASSUME PytestStands, TailStands, MailStands, TuiNext
  PROVE  MailStands'
<1>1. CASE PytestExits
  BY <1>1, PutIs, NoteIs DEF PytestExits, ExitNote, MailStands
<1>2. CASE TailReads
  <2>1. file[fd][pos + 1] \in Mail
    BY <1>2, ReadIs, ToldIs DEF TailReads
  <2> QED
    BY <1>2, <2>1, PutIs DEF TailReads, MailStands
<1>3. CASE HandleCollect
  BY <1>3, TakenIs DEF HandleCollect, MailStands
<1>4. CASE HandleReport
  BY <1>4, TakenIs DEF HandleReport, MailStands
<1>5. CASE HandleExit
  BY <1>5, TakenIs DEF HandleExit, MailStands
<1>6. ASSUME NEW t \in Nodeids, RerunFocused(t) PROVE MailStands'
  BY <1>6 DEF RerunFocused, MailStands
<1>7. CASE UNCHANGED mailbox
  BY <1>7 DEF MailStands
<1>8. CASE PytestOpensLog \/ PytestCollects \/ PytestSetsUp \/ PytestCalls \/ TailOpens \/
             TailGivesUp \/ TailReadsTorn \/ ExitHandled \/ PollEnds \/ PollWakes \/
             PollBegins \/ EscalatorSees \/ EscalatorTerms \/ EscalatorKills \/ CleansUp \/
             Quit
  <2>1. UNCHANGED mailbox
    BY <1>8 DEF PytestOpensLog, PytestCollects, PytestSetsUp, PytestCalls, TailOpens,
    TailGivesUp, TailReadsTorn, ExitHandled, PollEnds, PollWakes, PollBegins, EscalatorSees,
    EscalatorTerms, EscalatorKills, CleansUp, Quit, procVars, pytestVars, tailVars, appVars,
    shownVars, pollVars, quitVars, escalates, Takes, Finish
  <2> QED
    BY <2>1, <1>7
<1> QED
  BY <1>1, <1>2, <1>3, <1>4, <1>5, <1>6, <1>8 DEF TuiNext, PytestRuns, TailRuns, UiHandles,
  PollRuns, EscalatorRuns

LEMMA ShowGoesOn ==
  ASSUME MailStands, ShowStands, TuiNext
  PROVE  ShowStands'
<1>1. CASE HandleCollect
  BY <1>1, CollectShows
<1>2. CASE HandleReport
  BY <1>2, ReportShows
<1>3. ASSUME NEW t \in Nodeids, RerunFocused(t) PROVE ShowStands'
  BY <1>3, ResetShows DEF RerunFocused
<1>4. CASE UNCHANGED shownVars
  BY <1>4 DEF ShowStands, CountersMatchLeaves, shownVars
<1>5. CASE PytestOpensLog \/ PytestCollects \/ PytestSetsUp \/ PytestCalls \/ PytestExits
             \/ TailOpens \/ TailReads \/ TailGivesUp \/ TailReadsTorn \/ HandleExit \/
             ExitHandled \/ PollEnds \/ PollWakes \/ PollBegins \/ EscalatorSees \/
             EscalatorTerms \/ EscalatorKills \/ CleansUp \/ Quit
  <2>1. UNCHANGED shownVars
    BY <1>5 DEF PytestOpensLog, PytestCollects, PytestSetsUp, PytestCalls, PytestExits,
    TailOpens, TailReads, TailGivesUp, TailReadsTorn, HandleExit, ExitHandled, PollEnds,
    PollWakes, PollBegins, EscalatorSees, EscalatorTerms, EscalatorKills, CleansUp, Quit,
    procVars, pytestVars, tailVars, appVars, shownVars, pollVars, quitVars, escalates, Takes,
    Finish
  <2> QED
    BY <2>1, <1>4
<1> QED
  BY <1>1, <1>2, <1>3, <1>5 DEF TuiNext, PytestRuns, TailRuns, UiHandles, PollRuns,
  EscalatorRuns

LEMMA FlagsGoOn ==
  ASSUME FlagsStand, TuiNext
  PROVE  FlagsStand'
<1>1. CASE HandleExit
  BY <1>1 DEF HandleExit, Finish, FlagsStand
<1>2. CASE ExitHandled
  BY <1>2 DEF ExitHandled, Finish, FlagsStand
<1>3. CASE PollEnds
  BY <1>3 DEF PollEnds, FlagsStand
<1>4. CASE PollWakes
  BY <1>4 DEF PollWakes, FlagsStand
<1>5. CASE PollBegins
  BY <1>5 DEF PollBegins, FlagsStand
<1>6. CASE Quit
  BY <1>6 DEF Quit, FlagsStand, pollVars
<1>7. CASE CleansUp
  BY <1>7 DEF CleansUp, FlagsStand, escalates, pollVars
<1>8. ASSUME NEW t \in Nodeids, RerunFocused(t) PROVE FlagsStand'
  BY <1>8 DEF RerunFocused, Spawned, FlagsStand
<1>9. CASE UNCHANGED <<ui, runActive, exitCode, pollVars>>
  BY <1>9 DEF FlagsStand, pollVars
<1>10. CASE PytestOpensLog \/ PytestCollects \/ PytestSetsUp \/ PytestCalls \/ PytestExits
             \/ TailOpens \/ TailReads \/ TailGivesUp \/ TailReadsTorn \/ HandleCollect \/
             HandleReport \/ EscalatorSees \/ EscalatorTerms \/ EscalatorKills
  <2>1. UNCHANGED <<ui, runActive, exitCode, pollVars>>
    BY <1>10 DEF PytestOpensLog, PytestCollects, PytestSetsUp, PytestCalls, PytestExits,
    TailOpens, TailReads, TailGivesUp, TailReadsTorn, HandleCollect, HandleReport,
    EscalatorSees, EscalatorTerms, EscalatorKills, procVars, pytestVars, tailVars, appVars,
    shownVars, pollVars, quitVars, escalates, Takes, Finish
  <2> QED
    BY <2>1, <1>9
<1> QED
  BY <1>1, <1>2, <1>3, <1>4, <1>5, <1>6, <1>7, <1>8, <1>10 DEF TuiNext, PytestRuns, TailRuns,
  UiHandles, PollRuns, EscalatorRuns

LEMMA QuitGoesOn ==
  ASSUME FlagsStand, PytestStands, QuitStands, TuiNext
  PROVE  QuitStands'
<1>1. CASE PytestExits
  BY <1>1 DEF PytestExits, quitVars, QuitStands, NoOrphan, Up
<1>2. CASE HandleExit
  BY <1>2 DEF HandleExit, procVars, quitVars, QuitStands, NoOrphan, Up
<1>3. CASE ExitHandled
  BY <1>3 DEF ExitHandled, procVars, quitVars, QuitStands, NoOrphan, Up
<1>4. CASE Quit
  BY <1>4 DEF Quit, QuitStands, NoOrphan, Up
<1>5. CASE EscalatorSees
  BY <1>5 DEF EscalatorSees, escalates, QuitStands, NoOrphan, Up
<1>6. CASE EscalatorTerms
  BY <1>6 DEF EscalatorTerms, escalates, QuitStands, NoOrphan, Up
<1>7. CASE EscalatorKills
  BY <1>7 DEF EscalatorKills, escalates, QuitStands, NoOrphan, Up
<1>8. CASE CleansUp
  BY <1>8 DEF CleansUp, escalates, FlagsStand, PytestStands, QuitStands, NoOrphan, Up
<1>9. ASSUME NEW t \in Nodeids, RerunFocused(t) PROVE QuitStands'
  BY <1>9 DEF RerunFocused, QuitStands, NoOrphan, Up
<1>10. CASE UNCHANGED <<child, signal, ui, quitVars>>
  BY <1>10 DEF quitVars, QuitStands, NoOrphan, Up
<1>11. CASE PytestOpensLog \/ PytestCollects \/ PytestSetsUp \/ PytestCalls \/ TailOpens \/
             TailReads \/ TailGivesUp \/ TailReadsTorn \/ HandleCollect \/ HandleReport \/
             PollEnds \/ PollWakes \/ PollBegins
  <2>1. UNCHANGED <<child, signal, ui, quitVars>>
    BY <1>11 DEF PytestOpensLog, PytestCollects, PytestSetsUp, PytestCalls, TailOpens,
    TailReads, TailGivesUp, TailReadsTorn, HandleCollect, HandleReport, PollEnds, PollWakes,
    PollBegins, procVars, pytestVars, tailVars, appVars, shownVars, pollVars, quitVars,
    escalates, Takes, Finish
  <2> QED
    BY <2>1, <1>10
<1> QED
  BY <1>1, <1>2, <1>3, <1>4, <1>5, <1>6, <1>7, <1>8, <1>9, <1>11 DEF TuiNext, PytestRuns,
  TailRuns, UiHandles, PollRuns, EscalatorRuns

LEMMA LagsGoOn ==
  ASSUME PytestStands, TailStands, MailStands, ShowStands, MailStands', LagStands, TuiNext
  PROVE  LagStands'
<1>1. CASE PytestCollects
  <2> SUFFICES ASSUME run' = 1, fd' = 1, NEW u \in Nodeids \ torn' PROVE Lags(u)'
    BY DEF LagStands
  <2>1. run = 1 /\ fd = 1 /\ pos' = pos /\ mailbox' = mailbox /\ leaves' = leaves /\ torn' = torn
    BY <1>1 DEF PytestCollects, procVars, tailVars, appVars, shownVars
  <2>2. 1 \in Runs /\ pos <= Len(file[1]) /\ Len(file[1]) \in Nat /\ pos \in Nat
    BY <2>1, RunIs, LenProperties DEF PytestStands, TailStands
  <2>3. \A i \in 1 .. pos : file'[1][i] = file[1][i]
    BY <2>2, LogGrowsOn DEF LogGrows
  <2>4. Lags(u)
    BY <2>1 DEF LagStands
  <2> QED
    BY <2>1, <2>3, <2>4, LagsOn
<1>2. CASE PytestSetsUp
  <2> SUFFICES ASSUME run' = 1, fd' = 1, NEW u \in Nodeids \ torn' PROVE Lags(u)'
    BY DEF LagStands
  <2>1. run = 1 /\ fd = 1 /\ pos' = pos /\ mailbox' = mailbox /\ leaves' = leaves /\ torn' = torn
    BY <1>2 DEF PytestSetsUp, procVars, tailVars, appVars, shownVars
  <2>2. 1 \in Runs /\ pos <= Len(file[1]) /\ Len(file[1]) \in Nat /\ pos \in Nat
    BY <2>1, RunIs, LenProperties DEF PytestStands, TailStands
  <2>3. \A i \in 1 .. pos : file'[1][i] = file[1][i]
    BY <2>2, LogGrowsOn DEF LogGrows
  <2>4. Lags(u)
    BY <2>1 DEF LagStands
  <2> QED
    BY <2>1, <2>3, <2>4, LagsOn
<1>3. CASE PytestCalls
  <2> SUFFICES ASSUME run' = 1, fd' = 1, NEW u \in Nodeids \ torn' PROVE Lags(u)'
    BY DEF LagStands
  <2>1. run = 1 /\ fd = 1 /\ pos' = pos /\ mailbox' = mailbox /\ leaves' = leaves /\ torn' = torn
    BY <1>3 DEF PytestCalls, procVars, tailVars, appVars, shownVars
  <2>2. 1 \in Runs /\ pos <= Len(file[1]) /\ Len(file[1]) \in Nat /\ pos \in Nat
    BY <2>1, RunIs, LenProperties DEF PytestStands, TailStands
  <2>3. \A i \in 1 .. pos : file'[1][i] = file[1][i]
    BY <2>2, LogGrowsOn DEF LogGrows
  <2>4. Lags(u)
    BY <2>1 DEF LagStands
  <2> QED
    BY <2>1, <2>3, <2>4, LagsOn
<1>4. CASE PytestExits
  <2> SUFFICES ASSUME run' = 1, fd' = 1, NEW u \in Nodeids \ torn' PROVE Lags(u)'
    BY DEF LagStands
  <2>1. run = 1 /\ fd = 1 /\ UNCHANGED <<pos, file, leaves, torn>> /\ mailbox' = Append(mailbox, ExitNote)
    BY <1>4 DEF PytestExits, ExitNote, tailVars, shownVars
  <2>2. /\ Len(mailbox') = Len(mailbox) + 1 /\ ~Says(mailbox'[Len(mailbox) + 1], u)
        /\ \A k \in 1 .. Len(mailbox) : mailbox'[k] = mailbox[k]
    BY <2>1, PutIs, NoteIs
  <2>3. Lags(u)
    BY <2>1 DEF LagStands
  <2> QED
    BY <2>1, <2>2, <2>3, LagsOn
<1>5. CASE TailOpens
  <2> SUFFICES ASSUME run' = 1, fd' = 1, NEW u \in Nodeids \ torn' PROVE Lags(u)'
    BY DEF LagStands
  <2>1. pos' = 0
    BY <1>5 DEF TailOpens
  <2>2. \A i \in 1 .. pos' : FALSE
    BY <2>1
  <2> QED
    BY <2>2 DEF Lags
<1>6. CASE TailGivesUp
  BY <1>6 DEF TailGivesUp, LagStands
<1>7. CASE TailReads
  <2> SUFFICES ASSUME run' = 1, fd' = 1, NEW u \in Nodeids \ torn' PROVE Lags(u)'
    BY DEF LagStands
  <2> DEFINE e == file[1][pos + 1]
  <2>1. run = 1 /\ fd = 1 /\ UNCHANGED <<file, leaves, torn>> /\ pos' = pos + 1 /\ mailbox' = Append(mailbox, e)
    BY <1>7 DEF TailReads, procVars, shownVars
  <2>2. e \in Mail
    BY <1>7, <2>1, ReadIs, ToldIs DEF TailReads
  <2>3. /\ Len(mailbox') = Len(mailbox) + 1 /\ mailbox'[Len(mailbox) + 1] = e
        /\ \A k \in 1 .. Len(mailbox) : mailbox'[k] = mailbox[k]
    BY <2>1, <2>2, PutIs
  <2>4. Lags(u)
    BY <2>1 DEF LagStands
  <2>5. CASE Says(e, u)
    BY <2>1, <2>3, <2>5, LagsTold
  <2>6. CASE ~Says(e, u)
    BY <2>1, <2>3, <2>4, <2>6, LagsOn
  <2> QED
    BY <2>5, <2>6
<1>8. CASE TailReadsTorn
  <2> SUFFICES ASSUME run' = 1, fd' = 1, NEW u \in Nodeids \ torn' PROVE Lags(u)'
    BY DEF LagStands
  <2>1. /\ run = 1 /\ fd = 1 /\ UNCHANGED <<file, leaves, mailbox>> /\ pos' = pos + 1
        /\ torn' = torn \cup {file[1][pos + 1].test}
    BY <1>8 DEF TailReadsTorn, procVars, appVars, shownVars
  <2>2. ~Says(file'[1][pos + 1], u)
    BY <2>1 DEF Says
  <2>3. Lags(u)
    BY <2>1 DEF LagStands
  <2> QED
    BY <2>1, <2>2, <2>3, LagsOn
<1>9. CASE HandleCollect
  <2> SUFFICES ASSUME run' = 1, fd' = 1, NEW u \in Nodeids \ torn' PROVE Lags(u)'
    BY DEF LagStands
  <2>1. run = 1 /\ fd = 1 /\ torn' = torn /\ UNCHANGED <<file, pos>> /\ Takes
    BY <1>9 DEF HandleCollect, procVars, tailVars
  <2>2. Lags(u)
    BY <2>1 DEF LagStands
  <2>3. leaves'[u] = leaves[u] \/ leaves[u] = "absent"
    BY <1>9, CollectShows
  <2>4. ~Says(Head(mailbox), u)
    BY <1>9, <2>1, TakenIs, MailIs, ToldIs, NoteIs DEF HandleCollect, Says
  <2> QED
    BY <2>1, <2>2, <2>3, <2>4, LagsTaken
<1>10. CASE HandleReport
  <2> SUFFICES ASSUME run' = 1, fd' = 1, NEW u \in Nodeids \ torn' PROVE Lags(u)'
    BY DEF LagStands
  <2>1. run = 1 /\ fd = 1 /\ torn' = torn /\ UNCHANGED <<file, pos>> /\ Takes
    BY <1>10 DEF HandleReport, procVars, tailVars
  <2>2. Lags(u)
    BY <2>1 DEF LagStands
  <2>3. leaves'[u] = IF Says(Head(mailbox), u) THEN Shown(Head(mailbox)) ELSE leaves[u]
    BY <1>10, ReportShows
  <2> QED
    BY <2>1, <2>2, <2>3, LagsTaken
<1>11. CASE HandleExit
  <2> SUFFICES ASSUME run' = 1, fd' = 1, NEW u \in Nodeids \ torn' PROVE Lags(u)'
    BY DEF LagStands
  <2>1. run = 1 /\ fd = 1 /\ torn' = torn /\ UNCHANGED <<file, pos>> /\ Takes
    BY <1>11 DEF HandleExit, procVars, tailVars
  <2>2. Lags(u)
    BY <2>1 DEF LagStands
  <2>3. ~Says(Head(mailbox), u) /\ leaves'[u] = leaves[u]
    BY <1>11, <2>1, TakenIs, MailIs, ToldIs, NoteIs DEF HandleExit, shownVars
  <2> QED
    BY <2>1, <2>2, <2>3, LagsTaken
<1>12. ASSUME NEW t \in Nodeids, RerunFocused(t) PROVE LagStands'
  <2>1. run' # 1
    BY <1>12, RunIs DEF RerunFocused
  <2> QED
    BY <2>1 DEF LagStands
<1>13. CASE UNCHANGED <<run, fd, pos, torn, file, mailbox, leaves>>
  BY <1>13 DEF LagStands, Lags, LastTold, Settled, Posted
<1>14. CASE PytestOpensLog \/ ExitHandled \/ PollEnds \/ PollWakes \/ PollBegins \/
             EscalatorSees \/ EscalatorTerms \/ EscalatorKills \/ CleansUp \/ Quit
  <2>1. UNCHANGED <<run, fd, pos, torn, file, mailbox, leaves>>
    BY <1>14 DEF PytestOpensLog, ExitHandled, PollEnds, PollWakes, PollBegins, EscalatorSees,
    EscalatorTerms, EscalatorKills, CleansUp, Quit, procVars, pytestVars, tailVars, appVars,
    shownVars, pollVars, quitVars, escalates, Takes, Finish
  <2> QED
    BY <2>1, <1>13
<1> QED
  BY <1>1, <1>2, <1>3, <1>4, <1>5, <1>6, <1>7, <1>8, <1>9, <1>10, <1>11, <1>12, <1>14 DEF
  TuiNext, PytestRuns, TailRuns, UiHandles, PollRuns, EscalatorRuns

LEMMA TuiStandsInit == TuiInit => TuiStands
<1> SUFFICES ASSUME TuiInit PROVE TuiStands
  OBVIOUS
<1>1. PytestStands
  <2>1. file \in [Runs -> Seq(Told)]
    <3>1. <<>> \in Seq(Told)
      OBVIOUS
    <3> QED
      BY <3>1 DEF TuiInit, TuiFresh
  <2>2. 1 \in Runs /\ 0 \in 0 .. MaxFlakes
    BY TuiAssumption DEF Runs
  <2>3. path \in 0 .. run
    BY DEF TuiInit, TuiFresh
  <2> QED
    BY <2>1, <2>2, <2>3, TestsFinite DEF TuiInit, TuiFresh, PytestStands
<1>2. TailStands
  BY DEF TuiInit, TuiFresh, TailStands
<1>3. MailStands
  BY DEF TuiInit, TuiFresh, MailStands
<1>4. ShowStands
  <2>1. \A t \in Nodeids : leaves[t] = "absent"
    BY DEF TuiInit, TuiFresh
  <2>2. \A o \in Buckets : {t \in Nodeids : leaves[t] = o} = {}
    BY <2>1 DEF Buckets
  <2>3. CountersMatchLeaves
    BY <2>2, CountsAre, FS_EmptySet DEF TuiInit, TuiFresh, CountersMatchLeaves
  <2> QED
    BY <2>3, CountsAre DEF TuiInit, TuiFresh, ShowStands
<1>5. FlagsStand
  BY DEF TuiInit, TuiFresh, FlagsStand
<1>6. QuitStands
  <2>1. Up
    BY DEF TuiInit, Up
  <2>2. escalator = "none" /\ sigints = 0 /\ respawned \in BOOLEAN
    BY DEF TuiInit, TuiFresh
  <2> QED
    BY <2>1, <2>2 DEF QuitStands, NoOrphan
<1>7. LagStands
  BY DEF TuiInit, TuiFresh, LagStands
<1> QED
  BY <1>1, <1>2, <1>3, <1>4, <1>5, <1>6, <1>7 DEF TuiStands

LEMMA TuiStandsNext == TuiStands /\ [TuiNext]_tuiVars => TuiStands'
<1> SUFFICES ASSUME TuiStands, [TuiNext]_tuiVars PROVE TuiStands'
  OBVIOUS
<1>1. CASE TuiNext
  BY <1>1, PytestGoesOn, TailGoesOn, MailGoesOn, ShowGoesOn, FlagsGoOn, QuitGoesOn, LagsGoOn
     DEF TuiStands
<1>2. CASE UNCHANGED tuiVars
  <2>1. PytestStands' /\ TailStands' /\ MailStands' /\ ShowStands'
    BY <1>2 DEF tuiVars, TuiStands, PytestStands, TailStands, MailStands, ShowStands,
       CountersMatchLeaves
  <2>2. FlagsStand' /\ QuitStands'
    BY <1>2 DEF tuiVars, TuiStands, FlagsStand, QuitStands, NoOrphan, Up
  <2>3. LagStands'
    BY <1>2 DEF tuiVars, TuiStands, LagStands, Lags, LastTold, Settled, Posted
  <2> QED
    BY <2>1, <2>2, <2>3 DEF TuiStands
<1> QED
  BY <1>1, <1>2

LEMMA TuiInvFollows == TuiStands => TuiInv
<1> SUFFICES ASSUME TuiStands PROVE TuiInv
  OBVIOUS
<1>1. TuiTypeOK
  <2>1. Told \subseteq Message /\ Mail \subseteq Message
    BY ToldIs, MailIs, NoteIs
  <2>2. \A r \in Runs : file[r] \in Seq(Message)
    BY <2>1, SeqMonotonic DEF TuiStands, PytestStands
  <2>3. mailbox \in Seq(Message)
    BY <2>1, SeqMonotonic DEF TuiStands, MailStands
  <2> QED
    BY <2>2, <2>3 DEF TuiStands, PytestStands, TailStands, ShowStands, FlagsStand, QuitStands,
       TuiTypeOK
<1>2. ShownAsReported
  <2> SUFFICES ASSUME run = 1, fd = 1, pos = Len(file[1]), mailbox = <<>>, NEW t \in Nodeids \ torn
               PROVE  Reported(t) = "none" \/ leaves[t] = Reported(t)
    BY DEF ShownAsReported
  <2> DEFINE says == {i \in DOMAIN file[fd] :
                        /\ file[fd][i].test = t
                        /\ file[fd][i].when = "call" \/ file[fd][i].outcome # "passed"}
             last == CHOOSE i \in says : \A j \in says : j <= i
  <2>0. 1 \in Runs
    BY RunIs DEF TuiStands, PytestStands
  <2>1. DOMAIN file[fd] = 1 .. pos /\ pos \in Nat
    BY <2>0, LenProperties DEF TuiStands, PytestStands
  <2>2. \A i : i \in says <=> i \in 1 .. pos /\ Says(file[1][i], t)
    BY <2>1 DEF Says
  <2>3. Lags(t)
    BY DEF TuiStands, LagStands
  <2>4. Reported(t) = IF says = {} THEN "none" ELSE Shown(file[1][last])
    BY DEF Reported, Shown
  <2> HIDE DEF says, last
  <2>5. CASE \A i \in 1 .. pos : ~Says(file[1][i], t)
    <3>1. says = {}
      BY <2>2, <2>5
    <3> QED
      BY <2>4, <3>1
  <2>6. CASE \E i \in 1 .. pos : LastTold(t, i) /\ (Settled(t, i) \/ Posted(t, i))
    <3>1. PICK i \in 1 .. pos : LastTold(t, i) /\ (Settled(t, i) \/ Posted(t, i))
      BY <2>6
    <3>2. i \in says /\ \A j \in says : j <= i
      BY <2>2, <3>1 DEF LastTold
    <3>3. last \in says /\ \A j \in says : j <= last
      BY <3>2 DEF last
    <3>4. last = i
      <4>1. last <= i /\ i <= last
        BY <3>2, <3>3
      <4>2. last \in Nat /\ i \in Nat
        BY <2>1, <2>2, <3>1, <3>3
      <4> QED
        BY <4>1, <4>2
    <3>5. says # {}
      BY <3>2
    <3>6. ~Posted(t, i)
      <4>1. Len(mailbox) = 0
        OBVIOUS
      <4>2. \A k \in 1 .. Len(mailbox) : FALSE
        BY <4>1
      <4> QED
        BY <4>2 DEF Posted
    <3>7. leaves[t] = Shown(file[1][i])
      BY <3>1, <3>6 DEF Settled
    <3>8. Reported(t) = Shown(file[1][i])
      BY <2>4, <3>4, <3>5
    <3> QED
      BY <3>7, <3>8
  <2> QED
    BY <2>3, <2>5, <2>6 DEF Lags
<1> QED
  BY <1>1, <1>2 DEF TuiStands, ShowStands, QuitStands, TuiInv

\* The counters of a tier are those of its leaves; when the log of the first run is
\* read and its events are handled every test shows what pytest last reported of it,
\* but for a report that was torn; and the app leaves no pytest behind that it did not
\* kill, but for one that was spawned while a quit was under way: for any tests,
\* flakes and re-runs, however events, polls, keys and signals interleave
\* (cli/test_tui.py).
THEOREM TuiInvAlways == TuiSpec => []TuiInv
<1> QED
  BY TuiStandsInit, TuiStandsNext, TuiInvFollows, PTL DEF TuiSpec

-----------------------------------------------------------------------------
(* The services side by side.                                              *)

Stands ==
  /\ HubStands /\ RecStands /\ SessionStands /\ DisplayStands /\ CotStands /\ TuiStands

\* Whichever service a behaviour is one of, all of them keep what is said of them, and
\* those it does not touch stay as they began (MCServices).
THEOREM ServicesInvAlways ==
  Spec => [](HubInv /\ RecInv /\ SessionInv /\ DisplayInv /\ CotInv /\ TuiInv)
<1>1. Init => Stands
  BY HubStandsInit, RecStandsInit, SessionStandsInit, DisplayStandsInit, CotStandsInit,
     TuiStandsInit DEF Init, Stands
<1>2. ASSUME Stands, [Next]_allVars PROVE Stands'
  BY <1>2, EachSteps, HubStandsNext, RecStandsNext, SessionStandsNext, DisplayStandsNext,
     CotStandsNext, TuiStandsNext DEF Stands
<1>3. Stands => HubInv /\ RecInv /\ SessionInv /\ DisplayInv /\ CotInv /\ TuiInv
  BY HubInvFollows, RecInvFollows, SessionInvFollows, DisplayInvFollows, CotInvFollows,
     TuiInvFollows DEF Stands
<1> QED
  BY <1>1, <1>2, <1>3, PTL DEF Spec

=============================================================================
