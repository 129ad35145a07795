---------------------------- MODULE StreamProofs ----------------------------
(***************************************************************************)
(* What the framer promises for any streams, pieces, holes and lengths,    *)
(* and the framer behind the decoder for any segments: what is reported is *)
(* true to the stream, no frame is missed after the first, the search for  *)
(* the first misses nothing it could know, and the offline tools, given    *)
(* the same bytes, begin where the framer began.                           *)
(***************************************************************************)
EXTENDS Stream, FlowDecoderProofs

(***************************************************************************)
(* The state of the framer while it reads the bytes up to a place `to`,    *)
(* when `t` was reported so far, since the bytes began at `from`.          *)
(***************************************************************************)
Framers ==
  [buf : Seq(Nat), at : Nat \ {0}, locked : BOOLEAN, skip : Nat,
   scanFrom : Nat \ {0}, anchorFrom : Nat \ {0}, gap : Int, since : Int, last : Int,
   prev : BOOLEAN \cup {Unknown}, waiting : BOOLEAN, unknown : {0, 1}, overflows : {0, 1}]

\* A framer that has passed over n bytes of its buffer, and over nothing else.
Passed(s, t, n) ==
  /\ t \in Framers /\ n \in 0..Len(s.buf)
  /\ t.at = s.at + n /\ Len(t.buf) = Len(s.buf) - n
  /\ \A i \in 1..Len(t.buf) : t.buf[i] = s.buf[n + i]
  /\ t.skip = s.skip /\ t.unknown = s.unknown

Reports == [at : Nat \ {0}, op : Nat, body : Seq(Nat)]

\* What the buffer holds are the stream's bytes up to the place `to`.
Reads(s, to) ==
  /\ s \in Framers /\ s.at + Len(s.buf) = to + 1
  /\ \A i \in 1..Len(s.buf) : s.buf[i] = stream.bytes[s.at + i - 1]
  /\ s.skip > 0 => Len(s.buf) = 0

BodyAt(p) == SubSeq(stream.bytes, p + 1, p + stream.bytes[p] - 1)

IsTrue(e) ==
  /\ e.op = stream.bytes[e.at + 2] /\ e.body \in {BodyAt(e.at), <<>>}
  /\ e.op = PageOp /\ Len(BodyAt(e.at)) <= PageMax /\ IsPage(BodyAt(e.at))
       => e.body = BodyAt(e.at)

\* The reports t are in order, true, and of bytes the framer s is past.
Tells(t, s) ==
  /\ t \in Seq(Reports)
  /\ \A i \in 1..(Len(t) - 1) : t[i].at < t[i + 1].at
  /\ \A i \in 1..Len(t) : t[i].at < s.at /\ IsTrue(t[i])

\* What the framer remembers of the frames before is what was reported last.
Remembers(t, s) ==
  /\ s.prev = FALSE => Len(t) >= 1 /\ t[Len(t)].op # JochulOp
  /\ s.waiting => Len(t) >= 2 /\ t[Len(t)].op = MarkerOp /\ t[Len(t) - 1].op # JochulOp
  /\ s.unknown > 0 =>
       \E i \in 2..(Len(t) - 1) :
         t[i].op = MarkerOp /\ t[i - 1].op # JochulOp /\ t[i + 1].op # JochulOp

Places(t) == {t[i].at : i \in 1..Len(t)}

Due(q, to) ==
  /\ q + HeaderLen <= to
  /\ Waits(stream.bytes[q + 2], stream.bytes[q] - 1) => q + stream.bytes[q] - 1 <= to

\* From the first frame of the stream that was reported since `from`, all are.
OnTrack(t, s, to, from) ==
  \A x \in stream.starts : x >= from /\ x \in Places(t) =>
    /\ s.locked
    /\ s.at + s.skip <= Len(stream.bytes) => s.at + s.skip \in stream.starts
    /\ \A q \in stream.starts : x <= q /\ q < s.at + s.skip => q \in Places(t)
    /\ \A y \in Places(t) : y >= x => y \in stream.starts /\ Due(y, to)

\* Nothing that is there could be reported yet.
Halted(t, s, to, from) ==
  \A x \in stream.starts : x >= from /\ x \in Places(t) /\ s.skip = 0 =>
    ~Due(s.at, to) /\ Len(s.buf) <= MaxBuffer

Runs == [s : Framers, out : Seq(Reports), done : BOOLEAN]

\* In the middle of the loop of feed(), which was fed up to `to` and had
\* reported `before`.
Running(r, before, to, from) ==
  /\ r \in Runs
  /\ Reads(r.s, to)
  /\ Tells(before \o r.out, r.s) /\ Remembers(before \o r.out, r.s)
  /\ OnTrack(before \o r.out, r.s, to, from)
  /\ ~r.done => r.s.skip = 0
  /\ r.done => Halted(before \o r.out, r.s, to, from)

-----------------------------------------------------------------------------
LEMMA FramerConstants ==
  /\ LockK \in Nat \ {0} /\ MinBody \in Nat /\ MaxBody \in Nat /\ HeaderLen \in Nat
  /\ EnterMin \in Nat /\ 2 <= HeaderLen /\ HeaderLen <= MinBody /\ MinBody <= MaxBody
  /\ GapDivisor \in Nat \ {0} /\ GapMin \in Nat /\ MaxWait \in Nat /\ Unknown \notin BOOLEAN
  /\ \A t \in Streams : IsStream(t)
  BY FramerAssumption

LEMMA Windows ==
  LockWindow \in Nat /\ MaxBody + 1 <= LockWindow /\ MaxBuffer = 2 * LockWindow
<1>1. \A k \in Nat \ {0}, b \in Nat : k * b \in Nat /\ b <= k * b
  <2> TAKE k \in Nat \ {0}, b \in Nat
  <2>1. k * b = (k - 1) * b + b /\ (k - 1) * b \in Nat
    <3>1. k - 1 \in Nat
      OBVIOUS
    <3> QED BY <3>1
  <2> QED BY <2>1
<1>2. MaxBody + 1 \in Nat
  BY FramerConstants
<1> QED
  BY <1>1, <1>2, FramerConstants DEF LockWindow, MaxBuffer

LEMMA FieldsAre ==
  ASSUME NEW s \in Framers
  PROVE  /\ s.buf \in Seq(Nat) /\ s.at \in Nat \ {0} /\ s.locked \in BOOLEAN /\ s.skip \in Nat
         /\ s.scanFrom \in Nat \ {0} /\ s.anchorFrom \in Nat \ {0}
         /\ s.gap \in Int /\ s.since \in Int /\ s.last \in Int
         /\ s.prev \in BOOLEAN \cup {Unknown} /\ s.waiting \in BOOLEAN
         /\ s.unknown \in {0, 1} /\ s.overflows \in {0, 1} /\ Len(s.buf) \in Nat
  BY DEF Framers

\* Consuming passes over the bytes in front.
LEMMA ConsumeIs ==
  ASSUME NEW s \in Framers, NEW n \in 0..Len(s.buf)
  PROVE  LET t == Consume(s, n)
         IN  /\ Passed(s, t, n)
             /\ t.locked = s.locked /\ t.prev = s.prev /\ t.waiting = s.waiting
<1> DEFINE t == Consume(s, n)
           b == SubSeq(s.buf, n + 1, Len(s.buf))
           l == Len(s.buf)
<1>1. s.buf \in Seq(Nat) /\ l \in Nat /\ n \in Nat /\ n <= l
  BY FieldsAre
<1>2. b \in Seq(Nat) /\ Len(b) = l - n /\ \A i \in 1..(l - n) : b[i] = s.buf[n + i]
  BY <1>1, Cut
<1> DEFINE back(x) == IF x - n > 1 THEN x - n ELSE 1
<1>3. t = [s EXCEPT !.buf = b, !.at = s.at + n,
                    !.scanFrom = back(s.scanFrom), !.anchorFrom = back(s.anchorFrom)]
  BY DEF Consume, Framers
<1>4. back(s.scanFrom) \in Nat \ {0} /\ back(s.anchorFrom) \in Nat \ {0} /\ s.at + n \in Nat \ {0}
  BY <1>1, FieldsAre
<1> HIDE DEF b, back, t
<1>5. t \in Framers
  BY <1>2, <1>3, <1>4 DEF Framers
<1>6. /\ t.buf = b /\ t.at = s.at + n /\ t.skip = s.skip /\ t.unknown = s.unknown
      /\ t.locked = s.locked /\ t.prev = s.prev /\ t.waiting = s.waiting
  BY <1>3 DEF Framers
<1> QED
  BY <1>1, <1>2, <1>5, <1>6 DEF Passed, t

LEMMA EarliestIs ==
  ASSUME NEW S, S \subseteq Nat, NEW other
  PROVE  (S = {} /\ Earliest(S, other) = other) \/ Earliest(S, other) \in S
<1>1. S # {} => \E x \in S : \A y \in S : x <= y
  BY Least
<1> QED
  BY <1>1 DEF Earliest

\* Where the frames end is a function of their number.
IsEnds(f, buf, p, n) == f = [i \in 0..n |-> IF i = 0 THEN p ELSE After(buf, f[i - 1])]

LEMMA EndsExist ==
  ASSUME NEW buf, NEW p, NEW n \in Nat
  PROVE  \E f : IsEnds(f, buf, p, n)
<1> USE DEF IsEnds
<1> DEFINE E(m) == \E f : f = [i \in 0..m |-> IF i = 0 THEN p ELSE After(buf, f[i - 1])]
           T == {m \in Nat : ~E(m)}
<1>1. SUFFICES ASSUME T # {} PROVE FALSE
  OBVIOUS
<1>2. PICK m \in T : \A k \in T : m <= k
  BY <1>1, Least
<1>3. CASE m = 0
  <2> DEFINE f == [i \in 0..0 |-> p]
  <2>1. f = [i \in 0..0 |-> IF i = 0 THEN p ELSE After(buf, f[i - 1])]
    OBVIOUS
  <2> HIDE DEF f
  <2> QED
    BY <1>2, <1>3, <2>1
<1>4. CASE m > 0
  <2>1. m \in Nat /\ m - 1 \in Nat
    BY <1>2, <1>4
  <2>2. m - 1 \notin T
    <3> HIDE DEF T
    <3> QED BY <1>2, <2>1
  <2>3. PICK g : g = [i \in 0..(m - 1) |-> IF i = 0 THEN p ELSE After(buf, g[i - 1])]
    BY <2>1, <2>2
  <2> DEFINE f == [i \in 0..m |-> IF i = m THEN After(buf, g[i - 1]) ELSE g[i]]
  <2>4. \A i \in 0..m : f[i] = IF i = 0 THEN p ELSE After(buf, f[i - 1])
    <3> SUFFICES ASSUME NEW i \in 0..m PROVE f[i] = IF i = 0 THEN p ELSE After(buf, f[i - 1])
      OBVIOUS
    <3>1. i # 0 => i - 1 \in 0..m /\ i - 1 # m
      BY <2>1
    <3>2. i # 0 => f[i - 1] = g[i - 1]
      BY <3>1
    <3>3. i # m => i \in 0..(m - 1)
      BY <2>1
    <3>4. i # m => g[i] = IF i = 0 THEN p ELSE After(buf, g[i - 1])
      BY <2>3, <3>3
    <3>5. f[i] = IF i = m THEN After(buf, g[i - 1]) ELSE g[i]
      OBVIOUS
    <3> HIDE DEF f
    <3> QED
      BY <1>4, <3>2, <3>4, <3>5
  <2>5. f = [i \in 0..m |-> f[i]]
    OBVIOUS
  <2> HIDE DEF f
  <2>6. f = [i \in 0..m |-> IF i = 0 THEN p ELSE After(buf, f[i - 1])]
    BY <2>4, <2>5
  <2> QED
    BY <1>2, <2>6
<1> QED
  BY <1>2, <1>3, <1>4

\* Frames of which the first is refused are refused.
LEMMA ChainRefused ==
  ASSUME NEW buf, NEW p \in Nat \ {0}, NEW k \in Nat \ {0}, Probe(buf, p) = Reject
  PROVE  Chain(buf, p, k) = Reject
<1> DEFINE f == CHOOSE g : g = [i \in 0..k |-> IF i = 0 THEN p ELSE After(buf, g[i - 1])]
           T == {i \in 1..k : f[i] # Reject}
<1>1. f = [i \in 0..k |-> IF i = 0 THEN p ELSE After(buf, f[i - 1])]
  BY EndsExist DEF IsEnds
<1>2. Chain(buf, p, k) = f[k]
  BY DEF Chain
<1> HIDE DEF f
<1>3. f[0] = p /\ \A i \in 1..k : f[i] = After(buf, f[i - 1])
  BY <1>1
<1>4. T = {}
  <2> SUFFICES ASSUME T # {} PROVE FALSE
    OBVIOUS
  <2>1. PICK i \in T : \A j \in T : i <= j
    <3>1. T \subseteq Nat
      OBVIOUS
    <3> HIDE DEF T
    <3> QED BY <3>1, Least
  <2>2. i = 1 \/ f[i - 1] = Reject
    <3>1. i - 1 \notin T
      <4> HIDE DEF T
      <4> QED BY <2>1 DEF T
    <3> QED BY <3>1
  <2>3. f[i] = Reject
    <3>1. CASE i = 1
      BY <1>3, <3>1 DEF After, Reject
    <3>2. CASE f[i - 1] = Reject
      BY <1>3, <3>2 DEF After, Reject
    <3> QED BY <2>2, <3>1, <3>2
  <2> QED
    BY <2>3
<1> QED
  BY <1>2, <1>4

-----------------------------------------------------------------------------
(***************************************************************************)
(* The search.                                                             *)
(***************************************************************************)
\* The search for a lock finds nothing or a place of the buffer.
LEMMA FindLockIs ==
  ASSUME NEW buf \in Seq(Nat), NEW from \in Nat \ {0}
  PROVE  LET lock == FindLock(buf, from)
         IN  /\ lock.off = 0 \/ lock.off \in from..Len(buf)
             /\ lock.rest \in from..Len(buf) \/ lock.rest = Len(buf) + 1
<1> DEFINE open == {p \in from..Len(buf) : Chain(buf, p, LockK) # Reject}
           whole == {p \in open : Chain(buf, p, LockK) > 0}
<1>1. /\ FindLock(buf, from).off = Earliest(whole, 0)
      /\ FindLock(buf, from).rest = Earliest(open, Len(buf) + 1)
  BY DEF FindLock
<1>2. open \subseteq from..Len(buf) /\ whole \subseteq from..Len(buf) /\ from..Len(buf) \subseteq Nat
  OBVIOUS
<1> HIDE DEF open, whole
<1> QED
  BY <1>1, <1>2, EarliestIs

\* So does the search for an ENTER.
LEMMA EnterAnchorIs ==
  ASSUME NEW buf \in Seq(Nat), NEW from \in Nat \ {0}
  PROVE  LET anchor == EnterAnchor(buf, from)
         IN  /\ anchor.off = 0 \/ (anchor.off \in from..Len(buf) /\ EnterAt(buf, anchor.off) # Reject)
             /\ anchor.rest \in Nat /\ anchor.rest >= from
<1> DEFINE open == {p \in from..Len(buf) : EnterAt(buf, p) # Reject}
           whole == {p \in open : EnterAt(buf, p) > 0}
           tail == IF Len(buf) - 1 > from THEN Len(buf) - 1 ELSE from
<1>1. /\ EnterAnchor(buf, from).off = Earliest(whole, 0)
      /\ EnterAnchor(buf, from).rest = Earliest(open, tail)
  BY DEF EnterAnchor
<1>2. open \subseteq from..Len(buf) /\ whole \subseteq open /\ from..Len(buf) \subseteq Nat
      /\ tail \in Nat /\ tail >= from /\ \A p \in open : EnterAt(buf, p) # Reject
  OBVIOUS
<1> DEFINE anchorIs(o) == o = 0 \/ (o \in from..Len(buf) /\ EnterAt(buf, o) # Reject)
<1> HIDE DEF open, whole, tail
<1>3. Earliest(whole, 0) = 0 \/ Earliest(whole, 0) \in open
  BY <1>2, EarliestIs
<1>4. Earliest(open, tail) = tail \/ Earliest(open, tail) \in open
  BY <1>2, EarliestIs
<1>5. anchorIs(EnterAnchor(buf, from).off)
  BY <1>1, <1>2, <1>3
<1>6. EnterAnchor(buf, from).rest \in Nat /\ EnterAnchor(buf, from).rest >= from
  <2>1. \A p \in open : p \in Nat /\ p >= from
    BY <1>2
  <2> QED
    BY <1>1, <1>2, <1>4, <2>1
<1> QED
  BY <1>5, <1>6

LEMMA NoAnchorRefused ==
  ASSUME NEW buf, NEW p, Probe(buf, p) = Reject
  PROVE  EnterAt(buf, p) = Reject
  BY FramerConstants DEF EnterAt, Reject, Pending

\* The frames that lead to a place begin no later.
LEMMA ChainStartIs ==
  ASSUME NEW buf, NEW from \in Nat, NEW target \in Nat, from <= target
  PROVE  ChainStart(buf, from, target) \in from..target
<1> DEFINE S == {p \in from..target : Leads(buf, p, target)}
<1>1. S \subseteq from..target /\ from..target \subseteq Nat /\ target \in from..target
  OBVIOUS
<1> HIDE DEF S
<1>2. Earliest(S, target) \in from..target
  BY <1>1, EarliestIs
<1> QED
  BY <1>2 DEF ChainStart, S

\* Trimming passes over bytes in front, and neither takes nor loses a lock.
LEMMA TrimIs ==
  ASSUME NEW s \in Framers
  PROVE  \E n \in 0..Len(s.buf) :
           /\ Passed(s, Trim(s), n)
           /\ Trim(s).locked = s.locked /\ Trim(s).prev = s.prev /\ Trim(s).waiting = s.waiting
<1> DEFINE over == Len(s.buf) - LockWindow \div 2
           drop == IF s.scanFrom - 1 < over THEN s.scanFrom - 1 ELSE over
<1>1. Len(s.buf) \in Nat /\ s.scanFrom \in Nat \ {0} /\ LockWindow \div 2 \in Nat
  BY FieldsAre, Windows
<1>2. drop <= Len(s.buf) /\ drop \in Int
  BY <1>1
<1>3. CASE Len(s.buf) <= LockWindow \/ drop <= 0
  <2>1. Trim(s) = s
    BY <1>3 DEF Trim
  <2>2. Passed(s, s, 0)
    BY <1>1, FieldsAre DEF Passed
  <2> QED
    BY <1>1, <2>1, <2>2
<1>4. CASE ~(Len(s.buf) <= LockWindow \/ drop <= 0)
  <2>1. Trim(s) = Consume(s, drop)
    BY <1>4 DEF Trim
  <2>2. drop \in 0..Len(s.buf)
    BY <1>1, <1>2, <1>4
  <2> HIDE DEF drop
  <2> QED
    BY <2>1, <2>2, ConsumeIs
<1> QED
  BY <1>3, <1>4

\* What cannot be a frame: the head of the buffer, once the search has passed it.
HeadRefused(s) == Probe(s.buf, 1) = Reject /\ s.scanFrom >= 2

\* The first place a search may find.
Lowest(s) == IF HeadRefused(s) THEN 2 ELSE 1

LEMMA LockedIs ==
  ASSUME NEW s \in Framers, NEW t,
         t = [s EXCEPT !.locked = TRUE, !.scanFrom = 1, !.anchorFrom = 1, !.gap = 0]
  PROVE  /\ t \in Framers /\ t.at = s.at /\ t.buf = s.buf /\ t.skip = s.skip
         /\ t.unknown = s.unknown /\ t.prev = s.prev /\ t.waiting = s.waiting
<1>1. t \in Framers
  <2> DEFINE k == 1
             g == 0
  <2>1. t = [s EXCEPT !.locked = TRUE, !.scanFrom = k, !.anchorFrom = k, !.gap = g]
    OBVIOUS
  <2>2. k \in Nat \ {0} /\ g \in Int
    OBVIOUS
  <2> HIDE DEF k, g
  <2> QED
    BY <2>1, <2>2 DEF Framers
<1> QED
  BY <1>1 DEF Framers

\* After a search the framer is where it was or further on.
LEMMA SettleIs ==
  ASSUME NEW s \in Framers, ~s.locked, NEW ts \in Int, NEW due \in BOOLEAN, NEW timed \in BOOLEAN,
         NEW scan, scan.off \in 0..(Len(s.buf) + 1), scan.rest \in Nat \ {0},
         NEW anchor, anchor.off \in 0..Len(s.buf), anchor.rest \in Nat \ {0},
         scan.off = 0 \/ scan.off >= Lowest(s), scan.rest >= Lowest(s),
         anchor.off = 0 \/ anchor.off >= Lowest(s),
         NEW t, t = Settle(s, ts, due, timed, scan, anchor)
  PROVE  \E n \in 0..Len(s.buf) :
           /\ Passed(s, t, n) /\ t.prev = s.prev /\ t.waiting = s.waiting
           /\ t.locked => n >= Lowest(s) - 1
<1> DEFINE m == Lowest(s)
           from == IF scan.rest < anchor.off THEN scan.rest ELSE anchor.off
           first == ChainStart(s.buf, from, anchor.off)
           chosen == IF anchor.off > 0 /\ (scan.off = 0 \/ first < scan.off) THEN first ELSE scan.off
           since == IF due THEN 0 ELSE s.since
           last == IF timed THEN ts ELSE s.last
           s1 == [s EXCEPT !.since = since, !.last = last,
                           !.scanFrom = scan.rest, !.anchorFrom = anchor.rest]
           s2 == Trim(s1)
           size == Len(s2.buf) \div GapDivisor
           gap == IF due THEN IF size > GapMin THEN size ELSE GapMin ELSE s2.gap
<1>0. Len(s.buf) \in Nat /\ m \in {1, 2}
  BY FieldsAre DEF Lowest
<1> HIDE DEF m
<1>00. (scan.off = 0 \/ scan.off >= m) /\ scan.rest >= m /\ (anchor.off = 0 \/ anchor.off >= m)
  BY DEF m
<1>1. from \in Nat /\ from <= anchor.off /\ anchor.off \in Nat
  BY <1>0
<1>2. first \in from..anchor.off
  BY <1>1, ChainStartIs
<1>3. chosen \in 0..(Len(s.buf) + 1) /\ (chosen = 0 \/ chosen >= m)
  BY <1>0, <1>00, <1>1, <1>2
<1>4. since \in Int /\ last \in Int
  BY FieldsAre
<1>5. t = IF chosen = 0 THEN [s2 EXCEPT !.gap = gap]
          ELSE [Consume(s1, chosen - 1) EXCEPT
                 !.locked = TRUE, !.scanFrom = 1, !.anchorFrom = 1, !.gap = 0]
  <2>1. s1 = [s EXCEPT !.since = IF due THEN 0 ELSE @, !.last = IF timed THEN ts ELSE @,
                       !.scanFrom = scan.rest, !.anchorFrom = anchor.rest]
    BY DEF Framers
  <2>2. [s2 EXCEPT !.gap = gap] = [s2 EXCEPT !.gap = IF due THEN IF size > GapMin THEN size ELSE GapMin ELSE @]
    OBVIOUS
  <2> QED
    BY <2>1, <2>2 DEF Settle
<1> HIDE DEF from, first, chosen, since, last
<1>6. s1 \in Framers /\ s1.buf = s.buf /\ s1.at = s.at /\ s1.skip = s.skip
      /\ s1.unknown = s.unknown /\ ~s1.locked /\ s1.prev = s.prev /\ s1.waiting = s.waiting
  BY <1>4 DEF Framers
<1> HIDE DEF s1
<1>7. CASE chosen = 0
  <2>1. PICK n \in 0..Len(s1.buf) :
          /\ Passed(s1, s2, n)
          /\ s2.locked = s1.locked /\ s2.prev = s1.prev /\ s2.waiting = s1.waiting
    BY <1>6, TrimIs
  <2> HIDE DEF s2
  <2>2. s2 \in Framers /\ Len(s2.buf) \in Nat
    BY <2>1, FieldsAre DEF Passed
  <2>3. gap \in Int
    <3>1. size \in Int
      BY <2>2, FramerConstants
    <3>2. s2.gap \in Int
      BY <2>2, FieldsAre
    <3> HIDE DEF size
    <3> QED
      BY <3>1, <3>2, FramerConstants
  <2> HIDE DEF gap
  <2>4. t \in Framers /\ t.at = s2.at /\ t.buf = s2.buf /\ t.skip = s2.skip /\ t.unknown = s2.unknown
        /\ t.locked = s2.locked /\ t.prev = s2.prev /\ t.waiting = s2.waiting
    BY <1>5, <1>7, <2>2, <2>3 DEF Framers
  <2>5. Passed(s, t, n)
    BY <1>6, <2>1, <2>4 DEF Passed
  <2> QED
    BY <1>6, <2>1, <2>4, <2>5
<1>8. CASE chosen # 0
  <2> DEFINE n == chosen - 1
             c == Consume(s1, n)
  <2>1. n \in 0..Len(s.buf) /\ n >= m - 1
    BY <1>0, <1>3, <1>8
  <2>2. Passed(s1, c, n) /\ c.prev = s1.prev /\ c.waiting = s1.waiting
    <3> HIDE DEF n
    <3> QED BY <1>6, <2>1, ConsumeIs
  <2>3. c \in Framers /\ 1 \in Nat \ {0} /\ 0 \in Int /\ t = [c EXCEPT !.locked = TRUE, !.scanFrom = 1, !.anchorFrom = 1, !.gap = 0]
    BY <1>5, <1>8, <2>2 DEF Passed
  <2> HIDE DEF c, n
  <2>4. t \in Framers /\ t.at = c.at /\ t.buf = c.buf /\ t.skip = c.skip /\ t.unknown = c.unknown
        /\ t.prev = c.prev /\ t.waiting = c.waiting
    BY <2>3, LockedIs
  <2>5. Passed(s, t, n)
    BY <1>6, <2>2, <2>4 DEF Passed
  <2> QED
    BY <1>6, <2>1, <2>2, <2>4, <2>5 DEF m
<1> QED
  BY <1>7, <1>8

\* A search passes over bytes in front; behind a refused head, it locks further on.
LEMMA SearchIs ==
  ASSUME NEW s \in Framers, ~s.locked, NEW ts \in Int
  PROVE  LET t == Search(s, ts)
         IN  \E n \in 0..Len(s.buf) :
               /\ Passed(s, t, n) /\ t.prev = s.prev /\ t.waiting = s.waiting
               /\ t.locked /\ HeadRefused(s) => n >= 1
<1> DEFINE due == ScanDue(s)
           timed == due \/ ts - s.last >= MaxWait
           lock == FindLock(s.buf, s.scanFrom)
           scan == IF timed THEN Scanned(s, lock) ELSE [off |-> 0, rest |-> s.scanFrom]
           anchor == EnterAnchor(s.buf, s.anchorFrom)
           m == Lowest(s)
<1>1. Search(s, ts) = Settle(s, ts, due, timed, scan, anchor)
  BY DEF Search
<1>2. /\ s.buf \in Seq(Nat) /\ Len(s.buf) \in Nat
      /\ s.scanFrom \in Nat \ {0} /\ s.anchorFrom \in Nat \ {0}
  BY FieldsAre
<1>3. /\ lock.off = 0 \/ lock.off \in s.scanFrom..Len(s.buf)
      /\ lock.rest \in s.scanFrom..Len(s.buf) \/ lock.rest = Len(s.buf) + 1
  BY <1>2, FindLockIs
<1>4. /\ anchor.off = 0 \/ (anchor.off \in s.anchorFrom..Len(s.buf) /\ EnterAt(s.buf, anchor.off) # Reject)
      /\ anchor.rest \in Nat /\ anchor.rest >= s.anchorFrom
  BY <1>2, EnterAnchorIs
<1>5. HeadRefused(s) => Len(s.buf) >= 1 /\ ~PopupAnchor(s.buf) /\ EnterAt(s.buf, 1) = Reject
  <2> SUFFICES ASSUME HeadRefused(s)
               PROVE  Len(s.buf) >= 1 /\ ~PopupAnchor(s.buf) /\ EnterAt(s.buf, 1) = Reject
    OBVIOUS
  <2>1. Probe(s.buf, 1) = Reject
    BY DEF HeadRefused
  <2>2. Len(s.buf) >= 1
    BY <1>2, <2>1 DEF Probe, Reject, Pending
  <2>3. Chain(s.buf, 1, LockK) = Reject
    BY <2>1, FramerConstants, ChainRefused
  <2> QED
    BY <2>1, <2>2, <2>3, NoAnchorRefused DEF PopupAnchor
<1>6. HeadRefused(s) => s.scanFrom >= 2
  BY DEF HeadRefused
<1>7. scan.off \in 0..(Len(s.buf) + 1) /\ scan.rest \in Nat \ {0}
      /\ (scan.off = 0 \/ scan.off >= m) /\ scan.rest >= m
  <2>0. (HeadRefused(s) /\ m = 2) \/ (~HeadRefused(s) /\ m = 1)
    BY DEF Lowest
  <2>1. scan.off \in {0, 1, lock.off} /\ scan.rest \in {s.scanFrom, lock.rest}
    BY DEF Scanned
  <2>2. scan.off = 0 \/ scan.off = lock.off \/ (scan.off = 1 /\ PopupAnchor(s.buf))
    BY DEF Scanned
  <2> HIDE DEF scan, lock, m
  <2>3. scan.off \in 0..(Len(s.buf) + 1) /\ scan.rest \in Nat \ {0}
    BY <1>2, <1>3, <2>1
  <2> QED
    BY <1>2, <1>3, <1>5, <1>6, <2>0, <2>1, <2>2, <2>3
<1>8. anchor.off \in 0..Len(s.buf) /\ anchor.rest \in Nat \ {0}
      /\ (anchor.off = 0 \/ anchor.off >= m)
  <2>1. (HeadRefused(s) /\ m = 2) \/ (~HeadRefused(s) /\ m = 1)
    BY DEF Lowest
  <2> HIDE DEF anchor, m
  <2> QED
    BY <1>2, <1>4, <1>5, <2>1
<1>9. due \in BOOLEAN /\ timed \in BOOLEAN
  BY DEF ScanDue
<1> HIDE DEF due, timed, scan, anchor
<1> DEFINE t == Search(s, ts)
<1>10. t = Settle(s, ts, due, timed, scan, anchor)
  BY <1>1
<1> HIDE DEF t
<1>11. \E n \in 0..Len(s.buf) :
         /\ Passed(s, t, n) /\ t.prev = s.prev /\ t.waiting = s.waiting
         /\ t.locked => n >= Lowest(s) - 1
  BY <1>7, <1>8, <1>9, <1>10, SettleIs
<1> QED
  BY <1>11 DEF Lowest, t

-----------------------------------------------------------------------------
(***************************************************************************)
(* A frame is reported.                                                    *)
(***************************************************************************)
LEMMA Appended ==
  ASSUME NEW S, NEW t \in Seq(S), NEW e \in S
  PROVE  /\ Append(t, e) \in Seq(S) /\ Len(Append(t, e)) = Len(t) + 1 /\ Len(t) \in Nat
         /\ \A i \in 1..Len(t) : Append(t, e)[i] = t[i]
         /\ Append(t, e)[Len(t) + 1] = e
  OBVIOUS

\* One more report keeps the order and the truth.
LEMMA TellsOn ==
  ASSUME NEW t, NEW s \in Framers, Tells(t, s), NEW e \in Reports, IsTrue(e), e.at = s.at,
         NEW u \in Framers, s.at < u.at
  PROVE  Tells(Append(t, e), u)
<1> DEFINE n == Len(t)
           v == Append(t, e)
<1>1. t \in Seq(Reports)
  BY DEF Tells
<1>2. /\ v \in Seq(Reports) /\ Len(v) = n + 1 /\ n \in Nat
      /\ \A i \in 1..n : v[i] = t[i]
      /\ v[n + 1] = e
  BY <1>1, Appended
<1>3. s.at \in Nat /\ u.at \in Nat
  BY FieldsAre
<1> HIDE DEF v
<1>4. ASSUME NEW i \in 1..(Len(v) - 1) PROVE v[i].at < v[i + 1].at
  <2>1. CASE i = n
    <3>1. v[i] = t[n] /\ v[i + 1] = e /\ n \in 1..Len(t)
      BY <1>2, <2>1
    <3> QED
      BY <2>1, <3>1 DEF Tells
  <2>2. CASE i # n
    <3>1. i \in 1..n /\ i + 1 \in 1..n /\ i \in 1..(Len(t) - 1)
      BY <1>2, <2>2
    <3>2. v[i] = t[i] /\ v[i + 1] = t[i + 1]
      BY <1>2, <3>1
    <3> QED
      BY <3>1, <3>2 DEF Tells
  <2> QED
    BY <2>1, <2>2
<1>5. ASSUME NEW i \in 1..Len(v) PROVE v[i].at < u.at /\ IsTrue(v[i])
  <2>1. CASE i = n + 1
    BY <1>2, <2>1
  <2>2. CASE i # n + 1
    <3>1. i \in 1..Len(t) /\ v[i] = t[i]
      BY <1>2, <2>2
    <3>2. t[i] \in Reports
      BY <1>1, <3>1
    <3>3. t[i].at \in Nat
      BY <3>2 DEF Reports
    <3>4. t[i].at < s.at /\ IsTrue(t[i])
      BY <3>1 DEF Tells
    <3> QED
      BY <1>3, <3>1, <3>3, <3>4
  <2> QED
    BY <2>1, <2>2
<1>6. Tells(v, u)
  BY <1>2, <1>4, <1>5 DEF Tells
<1> QED
  BY <1>6 DEF v

LEMMA NotedIs ==
  ASSUME NEW s \in Framers, NEW op, NEW l, NEW t, t = NoteNeighbour(s, op, l)
  PROVE  /\ t \in Framers /\ t.buf = s.buf /\ t.at = s.at /\ t.skip = s.skip /\ t.locked = s.locked
         /\ t.unknown = (IF s.waiting /\ op # JochulOp THEN 1 ELSE s.unknown)
<1> DEFINE a == IF s.waiting /\ op # JochulOp THEN 1 ELSE s.unknown
           b == op = MarkerOp /\ l = Len(Marker) - 1 /\ s.prev = FALSE
           c == op = JochulOp
<1>1. t = [s EXCEPT !.unknown = a, !.waiting = b, !.prev = c]
  BY DEF NoteNeighbour, Framers
<1>2. a \in {0, 1} /\ b \in BOOLEAN /\ c \in BOOLEAN
  BY FieldsAre
<1> HIDE DEF a, b, c
<1>3. t \in Framers
  BY <1>1, <1>2 DEF Framers
<1>4. t.buf = s.buf /\ t.at = s.at /\ t.skip = s.skip /\ t.locked = s.locked /\ t.unknown = a
  BY <1>1 DEF Framers
<1> QED
  BY <1>3, <1>4 DEF a

LEMMA NotedMarker ==
  ASSUME NEW s \in Framers, NEW op, NEW l, NEW t, t = NoteNeighbour(s, op, l)
  PROVE  t.waiting => op = MarkerOp /\ s.prev = FALSE
  BY DEF NoteNeighbour, Framers

LEMMA NotedOther ==
  ASSUME NEW s \in Framers, NEW op, NEW l, NEW t, t = NoteNeighbour(s, op, l)
  PROVE  t.prev = FALSE => op # JochulOp
  BY DEF NoteNeighbour, Framers

\* What is remembered after one more report.
LEMMA RemembersOn ==
  ASSUME NEW t \in Seq(Reports), NEW s \in Framers, Remembers(t, s), NEW e \in Reports, NEW l,
         NEW w, w = NoteNeighbour(s, e.op, l),
         NEW u, u.unknown = w.unknown, u.waiting = w.waiting, u.prev = w.prev
  PROVE  Remembers(Append(t, e), u)
<1> DEFINE n == Len(t)
           v == Append(t, e)
<1>1. /\ v \in Seq(Reports) /\ Len(v) = n + 1 /\ n \in Nat
      /\ \A i \in 1..n : v[i] = t[i]
      /\ v[n + 1] = e
  BY Appended
<1> DEFINE op == e.op
<1>2. w = NoteNeighbour(s, op, l)
  OBVIOUS
<1> HIDE DEF op
<1>7. w.unknown = (IF s.waiting /\ op # JochulOp THEN 1 ELSE s.unknown)
  BY <1>2, NotedIs
<1>8. w.waiting => op = MarkerOp /\ s.prev = FALSE
  BY <1>2, NotedMarker
<1>9. w.prev = FALSE => op # JochulOp
  BY <1>2, NotedOther
<1> HIDE DEF v
<1>3. u.prev = FALSE => Len(v) >= 1 /\ v[Len(v)].op # JochulOp
  BY <1>1, <1>9 DEF op
<1>4. u.waiting => Len(v) >= 2 /\ v[Len(v)].op = MarkerOp /\ v[Len(v) - 1].op # JochulOp
  <2> SUFFICES ASSUME u.waiting
               PROVE  Len(v) >= 2 /\ v[Len(v)].op = MarkerOp /\ v[Len(v) - 1].op # JochulOp
    OBVIOUS
  <2>1. e.op = MarkerOp /\ s.prev = FALSE
    BY <1>8 DEF op
  <2>2. n >= 1 /\ t[n].op # JochulOp
    BY <2>1 DEF Remembers
  <2>3. Len(v) - 1 = n /\ v[n] = t[n]
    BY <1>1, <2>2
  <2> QED
    BY <1>1, <2>1, <2>2, <2>3
<1>5. ASSUME u.unknown > 0
      PROVE  \E i \in 2..(Len(v) - 1) :
               v[i].op = MarkerOp /\ v[i - 1].op # JochulOp /\ v[i + 1].op # JochulOp
  <2>1. CASE s.waiting /\ e.op # JochulOp
    <3>1. n >= 2 /\ t[n].op = MarkerOp /\ t[n - 1].op # JochulOp
      BY <2>1 DEF Remembers
    <3>2. v[n] = t[n] /\ v[n - 1] = t[n - 1] /\ n \in 2..(Len(v) - 1)
      BY <1>1, <3>1
    <3> QED
      BY <1>1, <2>1, <3>1, <3>2
  <2>2. CASE ~(s.waiting /\ e.op # JochulOp)
    <3>1. s.unknown > 0
      BY <1>5, <1>7, <2>2 DEF op
    <3>2. PICK i \in 2..(n - 1) : t[i].op = MarkerOp /\ t[i - 1].op # JochulOp /\ t[i + 1].op # JochulOp
      BY <3>1 DEF Remembers
    <3>3. v[i] = t[i] /\ v[i - 1] = t[i - 1] /\ v[i + 1] = t[i + 1] /\ i \in 2..(Len(v) - 1)
      BY <1>1
    <3> QED
      BY <3>2, <3>3
  <2> QED
    BY <2>1, <2>2
<1>6. Remembers(v, u)
  BY <1>3, <1>4, <1>5 DEF Remembers
<1> QED
  BY <1>6 DEF v

LEMMA PlacesOn ==
  ASSUME NEW t \in Seq(Reports), NEW e \in Reports
  PROVE  Places(Append(t, e)) = Places(t) \cup {e.at}
<1> DEFINE n == Len(t)
           v == Append(t, e)
<1>1. /\ Len(v) = n + 1 /\ n \in Nat
      /\ \A i \in 1..n : v[i] = t[i]
      /\ v[n + 1] = e
  BY Appended
<1> HIDE DEF v
<1>2. ASSUME NEW y \in Places(v) PROVE y \in Places(t) \cup {e.at}
  <2>1. PICK i \in 1..(n + 1) : y = v[i].at
    BY <1>1, <1>2 DEF Places
  <2> QED
    BY <1>1, <2>1 DEF Places
<1>3. ASSUME NEW y \in Places(t) PROVE y \in Places(v)
  <2>1. PICK i \in 1..n : y = t[i].at
    BY <1>3 DEF Places
  <2>2. i \in 1..Len(v) /\ y = v[i].at
    BY <1>1, <2>1
  <2> QED
    BY <2>2 DEF Places
<1>4. e.at \in Places(v)
  <2>1. n + 1 \in 1..Len(v) /\ v[n + 1].at = e.at
    BY <1>1
  <2> QED
    BY <2>1 DEF Places
<1> QED
  BY <1>2, <1>3, <1>4 DEF v

\* Every place that was reported lies behind the framer.
LEMMA PlacesAre ==
  ASSUME NEW t, NEW s, Tells(t, s), NEW y \in Places(t)
  PROVE  y \in Nat \ {0} /\ y < s.at
<1>1. PICK i \in 1..Len(t) : y = t[i].at
  BY DEF Places
<1>2. t[i] \in Reports /\ t[i].at < s.at
  BY DEF Tells
<1> QED
  BY <1>1, <1>2 DEF Reports

LEMMA ElementIs ==
  ASSUME NEW S, NEW t \in Seq(S), NEW i \in 1..Len(t)
  PROVE  t[i] \in S
  OBVIOUS

LEMMA ByteIs ==
  ASSUME IsStream(stream), NEW p \in 1..Len(stream.bytes)
  PROVE  stream.bytes[p] \in Nat
<1>1. stream.bytes \in Seq(Nat)
  BY DEF IsStream
<1> QED
  BY <1>1, ElementIs

\* One more frame of the stream, and the framer stands before the next.
LEMMA TrackOn ==
  ASSUME IsStream(stream), NEW to \in Nat, to <= Len(stream.bytes), NEW from \in Nat,
         NEW s \in Framers, NEW t, Tells(t, s), OnTrack(t, s, to, from),
         s.skip = 0, s.at <= to, Due(s.at, to),
         NEW e \in Reports, e.at = s.at,
         NEW u \in Framers, u.locked, u.at + u.skip = s.at + stream.bytes[s.at]
  PROVE  OnTrack(Append(t, e), u, to, from)
<1> DEFINE v == Append(t, e)
           p == s.at
           next == u.at + u.skip
<1>1. Places(v) = Places(t) \cup {p}
  BY PlacesOn DEF Tells
<1>2. \A y \in Places(t) : y \in Nat /\ y < p
  BY PlacesAre
<1>3. p \in Nat /\ p <= Len(stream.bytes) /\ Len(stream.bytes) \in Nat /\ next \in Nat
  BY FieldsAre DEF IsStream
<1> HIDE DEF v
<1> SUFFICES ASSUME NEW x \in stream.starts, x >= from, x \in Places(v)
             PROVE  /\ u.locked
                    /\ next <= Len(stream.bytes) => next \in stream.starts
                    /\ \A q \in stream.starts : x <= q /\ q < next => q \in Places(v)
                    /\ \A y \in Places(v) : y >= x => y \in stream.starts /\ Due(y, to)
  BY DEF OnTrack, v
<1>4. x = p \/ x \in Places(t)
  BY <1>1
<1>5. p \in stream.starts
  <2>1. CASE x = p
    BY <2>1
  <2>2. CASE x \in Places(t)
    <3>1. s.at + s.skip <= Len(stream.bytes) => s.at + s.skip \in stream.starts
      BY <2>2 DEF OnTrack
    <3> QED
      BY <1>3, <3>1
  <2> QED
    BY <1>4, <2>1, <2>2
<1>6. \A q \in stream.starts : q \in Nat
  BY DEF IsStream
<1>7. next <= Len(stream.bytes) => next \in stream.starts
  BY <1>5 DEF IsStream
<1>8. \A q \in stream.starts : p < q => q >= next
  <2> SUFFICES ASSUME NEW q \in stream.starts, p < q, q < next PROVE FALSE
    BY <1>3, <1>6
  <2>1. q \in (s.at + 1)..(s.at + stream.bytes[s.at] - 1)
    <3>1. stream.bytes[s.at] \in Nat
      <4>1. s.at \in 1..Len(stream.bytes)
        BY <1>3, FieldsAre
      <4> QED
        BY <4>1, ByteIs
    <3>2. q \in Nat /\ p < q /\ q < s.at + stream.bytes[s.at]
      BY <1>6
    <3> QED
      BY <1>3, <3>1, <3>2
  <2> QED
    BY <1>5, <2>1 DEF IsStream
<1>9. ASSUME NEW q \in stream.starts, x <= q, q < next PROVE q \in Places(v)
  <2>1. q <= p
    BY <1>3, <1>6, <1>8, <1>9
  <2>2. CASE q = p
    BY <1>1, <2>2
  <2>3. CASE q < p
    <3>1. x \in Places(t)
      BY <1>3, <1>4, <1>6, <1>9, <2>3
    <3>2. q < s.at + s.skip
      BY <1>3, <2>3
    <3> QED
      BY <1>1, <1>9, <3>1, <3>2 DEF OnTrack
  <2> QED
    BY <1>3, <1>6, <2>1, <2>2, <2>3
<1>10. ASSUME NEW y \in Places(v), y >= x PROVE y \in stream.starts /\ Due(y, to)
  <2>1. CASE y = p
    BY <1>5, <2>1
  <2>2. CASE y # p
    <3>1. y \in Places(t) /\ y \in Nat /\ y < p
      BY <1>1, <1>2, <2>2
    <3>2. x \in Places(t)
      BY <1>3, <1>4, <1>6, <1>10, <3>1
    <3> QED
      BY <1>10, <3>1, <3>2 DEF OnTrack
  <2> QED
    BY <2>1, <2>2
<1> QED
  BY <1>7, <1>9, <1>10

-----------------------------------------------------------------------------
(***************************************************************************)
(* The loop of feed().                                                     *)
(***************************************************************************)
LEMMA HeadIs ==
  ASSUME IsStream(stream), NEW to \in Nat, to <= Len(stream.bytes), NEW s, Reads(s, to),
         Len(s.buf) >= 1
  PROVE  /\ s.at \in 1..Len(stream.bytes) /\ s.at <= to
         /\ s.buf[1] = stream.bytes[s.at] /\ s.buf[1] \in Nat
         /\ Len(s.buf) >= 2 => s.at < Len(stream.bytes) /\ s.buf[2] = stream.bytes[s.at + 1]
         /\ Len(s.buf) >= 3 => s.buf[3] = stream.bytes[s.at + 2] /\ s.buf[3] \in Nat
<1>1. s \in Framers /\ s.at + Len(s.buf) = to + 1
  BY DEF Reads
<1>2. s.buf \in Seq(Nat) /\ Len(s.buf) \in Nat /\ s.at \in Nat \ {0} /\ Len(stream.bytes) \in Nat
  BY <1>1, FieldsAre DEF IsStream
<1>3. \A i \in 1..Len(s.buf) : s.buf[i] = stream.bytes[s.at + i - 1] /\ s.buf[i] \in Nat
  BY <1>2 DEF Reads
<1>4. s.buf[1] = stream.bytes[s.at] /\ s.buf[1] \in Nat
  <2>1. 1 \in 1..Len(s.buf) /\ s.at + 1 - 1 = s.at
    BY <1>2
  <2> QED
    BY <1>3, <2>1
<1>5. Len(s.buf) >= 2 => s.at < Len(stream.bytes) /\ s.buf[2] = stream.bytes[s.at + 1]
  <2>1. Len(s.buf) >= 2 => 2 \in 1..Len(s.buf) /\ s.at + 2 - 1 = s.at + 1
    BY <1>2
  <2> QED
    BY <1>1, <1>2, <1>3, <2>1
<1>6. Len(s.buf) >= 3 => s.buf[3] = stream.bytes[s.at + 2] /\ s.buf[3] \in Nat
  <2>1. Len(s.buf) >= 3 => 3 \in 1..Len(s.buf) /\ s.at + 3 - 1 = s.at + 2
    BY <1>2
  <2> QED
    BY <1>1, <1>2, <1>3, <2>1
<1> QED
  BY <1>1, <1>2, <1>4, <1>5, <1>6

\* A frame of the stream is never refused.
LEMMA HeadSound ==
  ASSUME IsStream(stream), NEW to \in Nat, to <= Len(stream.bytes), NEW s, Reads(s, to),
         s.at <= Len(stream.bytes) => s.at \in stream.starts
  PROVE  Probe(s.buf, 1) # Reject
<1>1. Len(s.buf) \in Nat
  BY FieldsAre DEF Reads
<1>2. CASE Len(s.buf) = 0
  BY <1>2 DEF Probe, Pending, Reject
<1>3. CASE Len(s.buf) >= 1
  <2>1. /\ s.at \in stream.starts
        /\ s.buf[1] = stream.bytes[s.at] /\ s.buf[1] \in Nat
        /\ Len(s.buf) >= 2 => s.at < Len(stream.bytes) /\ s.buf[2] = stream.bytes[s.at + 1]
    BY <1>3, HeadIs
  <2>2. /\ stream.bytes[s.at] - 1 \in MinBody..MaxBody
        /\ s.at < Len(stream.bytes) => stream.bytes[s.at + 1] = Magic
    BY <2>1 DEF IsStream
  <2>3. s.buf[1] # Reject
    BY <2>1 DEF Reject
  <2> QED
    BY <1>1, <1>3, <2>1, <2>2, <2>3, FramerConstants DEF Probe, Pending, Reject
<1> QED
  BY <1>1, <1>2, <1>3

LEMMA PassedReads ==
  ASSUME NEW to, NEW s, Reads(s, to), s.skip = 0, NEW u, NEW n, Passed(s, u, n)
  PROVE  Reads(u, to)
<1>1. s \in Framers /\ u \in Framers /\ n \in 0..Len(s.buf)
  BY DEF Reads, Passed
<1>2. s.at \in Nat /\ Len(s.buf) \in Nat /\ Len(u.buf) \in Nat
  BY <1>1, FieldsAre
<1>3. u.at = s.at + n /\ Len(u.buf) = Len(s.buf) - n /\ u.skip = 0 /\ s.at + Len(s.buf) = to + 1
  BY DEF Reads, Passed
<1>4. ASSUME NEW i \in 1..Len(u.buf) PROVE u.buf[i] = stream.bytes[u.at + i - 1]
  <2>1. u.buf[i] = s.buf[n + i]
    BY DEF Passed
  <2>2. n + i \in 1..Len(s.buf) /\ s.at + (n + i) - 1 = u.at + i - 1
    BY <1>1, <1>2, <1>3
  <2>3. s.buf[n + i] = stream.bytes[s.at + (n + i) - 1]
    BY <2>2 DEF Reads
  <2> QED
    BY <2>1, <2>2, <2>3
<1>5. u.at + Len(u.buf) = to + 1
  BY <1>1, <1>2, <1>3
<1> QED
  BY <1>1, <1>3, <1>4, <1>5 DEF Reads

LEMMA TellsStill ==
  ASSUME NEW t, NEW s \in Framers, Tells(t, s), NEW u \in Framers, s.at <= u.at
  PROVE  Tells(t, u)
<1>1. s.at \in Nat /\ u.at \in Nat
  BY FieldsAre
<1>2. \A i \in 1..Len(t) : t[i].at \in Nat
  <2> TAKE i \in 1..Len(t)
  <2>1. t[i] \in Reports
    BY DEF Tells
  <2> QED
    BY <2>1 DEF Reports
<1> QED
  BY <1>1, <1>2 DEF Tells

\* No frame of the stream was reported yet.
Lost(t, from) == \A x \in stream.starts : ~(x >= from /\ x \in Places(t))

\* Where no frame of the stream was reported yet nothing is promised.
LEMMA LostIsOnTrack ==
  ASSUME NEW t, NEW s, NEW to, NEW from, Lost(t, from)
  PROVE  OnTrack(t, s, to, from) /\ Halted(t, s, to, from)
  BY DEF Lost, OnTrack, Halted

LEMMA UnlockedIsLost ==
  ASSUME NEW t, NEW s, NEW to, NEW from, OnTrack(t, s, to, from), ~s.locked
  PROVE  Lost(t, from)
  BY DEF Lost, OnTrack

LEMMA RunFields ==
  ASSUME NEW r \in Runs
  PROVE  r.s \in Framers /\ r.out \in Seq(Reports) /\ r.done \in BOOLEAN
  BY DEF Runs

\* How much is left to do for the loop.
Work(s) ==
  IF s.locked THEN 2 * Len(s.buf) + 1
  ELSE IF HeadRefused(s) THEN 2 * Len(s.buf) ELSE 2 * Len(s.buf) + 2

Gets(q, r) == q.done \/ Work(q.s) < Work(r.s)

LEMMA WorkIs ==
  ASSUME NEW s \in Framers
  PROVE  /\ Work(s) \in 0..(2 * Len(s.buf) + 2)
         /\ s.locked => Work(s) = 2 * Len(s.buf) + 1
         /\ ~s.locked /\ HeadRefused(s) => Work(s) = 2 * Len(s.buf)
         /\ ~s.locked /\ ~HeadRefused(s) => Work(s) = 2 * Len(s.buf) + 2
  BY FieldsAre DEF Work

LEMMA RoundSearches ==
  ASSUME NEW ts \in Int, NEW to \in Nat, NEW from \in Nat, NEW before, NEW r,
         Running(r, before, to, from), ~r.done, ~r.s.locked
  PROVE  Running(Round(r, ts), before, to, from) /\ Gets(Round(r, ts), r)
<1> DEFINE s == r.s
           u == Search(s, ts)
           q == Round(r, ts)
           t == before \o r.out
<1>1. r \in Runs /\ s \in Framers /\ Reads(s, to) /\ s.skip = 0
  BY RunFields DEF Running
<1>2. PICK n \in 0..Len(s.buf) :
        /\ Passed(s, u, n) /\ u.prev = s.prev /\ u.waiting = s.waiting
        /\ u.locked /\ HeadRefused(s) => n >= 1
  BY <1>1, SearchIs
<1>3. u \in Framers /\ u.at = s.at + n /\ Len(u.buf) = Len(s.buf) - n
      /\ u.skip = s.skip /\ u.unknown = s.unknown
  BY <1>2 DEF Passed
<1>4. q = [r EXCEPT !.s = u, !.done = ~u.locked]
  BY DEF Round
<1>5. s.at \in Nat /\ Len(s.buf) \in Nat /\ n \in Nat /\ u.locked \in BOOLEAN
  BY <1>1, <1>3, FieldsAre
<1> HIDE DEF u, q
<1> DEFINE d == ~u.locked
<1>13. d \in BOOLEAN
  OBVIOUS
<1>15. d <=> ~u.locked
  OBVIOUS
<1>14. q = [r EXCEPT !.s = u, !.done = d]
  BY <1>4
<1> HIDE DEF d
<1>6. q \in Runs /\ q.s = u /\ q.out = r.out /\ q.done = d
  BY <1>1, <1>3, <1>13, <1>14 DEF Runs
<1>7. Reads(u, to)
  BY <1>1, <1>2, PassedReads
<1>8. Tells(t, u)
  <2>1. Tells(t, s) /\ s.at <= u.at
    BY <1>3, <1>5 DEF Running
  <2> QED
    BY <1>1, <1>3, <2>1, TellsStill
<1>9. Remembers(t, u)
  <2>1. Remembers(t, s)
    BY DEF Running
  <2> QED
    BY <1>2, <1>3, <2>1 DEF Remembers
<1>10. OnTrack(t, u, to, from) /\ Halted(t, u, to, from)
  <2>1. OnTrack(t, s, to, from)
    BY DEF Running
  <2> QED
    BY <2>1, UnlockedIsLost, LostIsOnTrack
<1>11. Running(q, before, to, from)
  <2>1. u.skip = 0
    BY <1>1, <1>3
  <2> QED
    BY <1>6, <1>7, <1>8, <1>9, <1>10, <1>15, <2>1 DEF Running
<1>12. Gets(q, r)
  <2> SUFFICES ASSUME u.locked PROVE Work(u) < Work(s)
    BY <1>6, <1>15 DEF Gets
  <2>1. Work(u) = 2 * Len(u.buf) + 1
    BY <1>3, WorkIs
  <2>2. CASE HeadRefused(s)
    <3>1. Work(s) = 2 * Len(s.buf) /\ n >= 1
      BY <1>1, <1>2, <2>2, WorkIs
    <3> QED
      BY <1>3, <1>5, <2>1, <3>1
  <2>3. CASE ~HeadRefused(s)
    <3> DEFINE a == Len(u.buf)
               b == Len(s.buf)
    <3>1. Work(s) = 2 * b + 2 /\ Work(u) = 2 * a + 1
      BY <1>1, <2>1, <2>3, WorkIs
    <3>2. a = b - n /\ b \in Nat
      BY <1>3, <1>5
    <3> HIDE DEF a, b
    <3> QED
      BY <1>5, <3>1, <3>2
  <2> QED
    BY <2>2, <2>3
<1> QED
  BY <1>11, <1>12 DEF q

LEMMA DesyncIs ==
  ASSUME NEW s \in Framers, NEW u, u = Desync(s)
  PROVE  /\ u \in Framers /\ u.buf = s.buf /\ u.at = s.at /\ u.skip = s.skip /\ u.unknown = s.unknown
         /\ u.scanFrom = 2 /\ u.prev = Unknown /\ ~u.locked /\ ~u.waiting
<1> DEFINE j == 2
           k == 1
<1>1. u = [s EXCEPT !.locked = FALSE, !.scanFrom = j, !.anchorFrom = k,
                    !.prev = Unknown, !.waiting = FALSE]
  BY DEF Desync
<1>2. j \in Nat \ {0} /\ k \in Nat \ {0}
  OBVIOUS
<1> HIDE DEF j, k
<1>3. u \in Framers
  BY <1>1, <1>2 DEF Framers
<1>4. /\ u.buf = s.buf /\ u.at = s.at /\ u.skip = s.skip /\ u.unknown = s.unknown
      /\ u.scanFrom = j /\ u.prev = Unknown
  BY <1>1 DEF Framers
<1>5. ~u.locked /\ ~u.waiting
  BY <1>1 DEF Framers
<1> QED
  BY <1>3, <1>4, <1>5 DEF j

LEMMA RoundResynchronises ==
  ASSUME IsStream(stream), NEW ts \in Int, NEW to \in Nat, to <= Len(stream.bytes), NEW from \in Nat,
         NEW before, NEW r, Running(r, before, to, from), ~r.done, r.s.locked,
         Probe(r.s.buf, 1) = Reject
  PROVE  Running(Round(r, ts), before, to, from) /\ Gets(Round(r, ts), r)
<1> DEFINE s == r.s
           u == Desync(s)
           q == Round(r, ts)
           t == before \o r.out
<1>1. r \in Runs /\ s \in Framers /\ Reads(s, to) /\ s.skip = 0
  BY RunFields DEF Running
<1>2. q = [r EXCEPT !.s = u]
  BY DEF Round
<1>3. /\ u \in Framers /\ u.buf = s.buf /\ u.at = s.at /\ u.skip = s.skip /\ u.unknown = s.unknown
      /\ u.scanFrom = 2 /\ u.prev = Unknown /\ ~u.locked /\ ~u.waiting
  BY <1>1, DesyncIs
<1>4. s.at \in Nat /\ Len(s.buf) \in Nat
  BY <1>1, FieldsAre
<1> HIDE DEF u, q
<1>5. q \in Runs /\ q.s = u /\ q.out = r.out /\ q.done = r.done
  BY <1>1, <1>2, <1>3 DEF Runs
<1>6. Reads(u, to)
  BY <1>1, <1>3 DEF Reads
<1>7. Tells(t, u)
  <2>1. Tells(t, s) /\ s.at <= u.at
    BY <1>3, <1>4 DEF Running
  <2> QED
    BY <1>1, <1>3, <2>1, TellsStill
<1>8. Remembers(t, u)
  <2>1. Remembers(t, s) /\ u.prev # FALSE
    BY <1>3, FramerConstants DEF Running
  <2> QED
    BY <1>3, <2>1 DEF Remembers
<1>9. OnTrack(t, u, to, from)
  <2>1. Lost(t, from)
    <3> SUFFICES ASSUME ~Lost(t, from) PROVE FALSE
      OBVIOUS
    <3>1. PICK x \in stream.starts : x >= from /\ x \in Places(t)
      BY DEF Lost
    <3>2. OnTrack(t, s, to, from)
      BY DEF Running
    <3>3. s.at + s.skip <= Len(stream.bytes) => s.at + s.skip \in stream.starts
      BY <3>1, <3>2 DEF OnTrack
    <3>4. s.at <= Len(stream.bytes) => s.at \in stream.starts
      BY <1>1, <1>4, <3>3
    <3> QED
      BY <1>1, <3>4, HeadSound
  <2> QED
    BY <2>1, LostIsOnTrack
<1>10. Running(q, before, to, from)
  BY <1>1, <1>3, <1>5, <1>6, <1>7, <1>8, <1>9 DEF Running
<1>11. Gets(q, r)
  <2>1. HeadRefused(u)
    BY <1>3 DEF HeadRefused
  <2> DEFINE b == Len(s.buf)
  <2>2. Work(u) = 2 * b /\ Work(s) = 2 * b + 1 /\ b \in Nat
    <3>1. Len(u.buf) = b /\ b \in Nat
      BY <1>3, <1>4
    <3>2. Work(u) = 2 * Len(u.buf) /\ Work(s) = 2 * Len(s.buf) + 1
      BY <1>1, <1>3, <2>1, WorkIs
    <3> QED
      BY <3>1, <3>2
  <2> HIDE DEF b
  <2>3. Work(u) < Work(s)
    BY <2>2
  <2> QED
    BY <1>5, <2>3 DEF Gets
<1> QED
  BY <1>10, <1>11 DEF q

\* The frame at the head of the buffer cannot be reported yet.
Early(s) ==
  \/ Len(s.buf) < 1 + HeaderLen
  \/ Waits(s.buf[3], s.buf[1] - 1) /\ Len(s.buf) < s.buf[1]

LEMMA RoundWaits ==
  ASSUME IsStream(stream), NEW ts \in Int, NEW to \in Nat, to <= Len(stream.bytes), NEW from \in Nat,
         NEW before, NEW r, Running(r, before, to, from), ~r.done, r.s.locked,
         Probe(r.s.buf, 1) # Reject, Early(r.s)
  PROVE  Running(Round(r, ts), before, to, from) /\ Gets(Round(r, ts), r)
<1> DEFINE s == r.s
           q == Round(r, ts)
           t == before \o r.out
           n == Len(s.buf)
<1>1. r \in Runs /\ s \in Framers /\ Reads(s, to) /\ s.skip = 0
  BY RunFields DEF Running
<1>2. q = [r EXCEPT !.done = TRUE]
  BY DEF Round, Early
<1>3. s.at \in Nat /\ n \in Nat /\ s.at + n = to + 1
  BY <1>1, FieldsAre DEF Reads
<1> HIDE DEF q
<1>4. q \in Runs /\ q.s = s /\ q.out = r.out /\ q.done = TRUE
  BY <1>1, <1>2 DEF Runs
<1>5. Halted(t, s, to, from)
  <2> SUFFICES ASSUME NEW x \in stream.starts, x >= from, x \in Places(t)
               PROVE  ~Due(s.at, to) /\ Len(s.buf) <= MaxBuffer
    BY DEF Halted
  <2>1. CASE n < 1 + HeaderLen
    <3>1. ~(s.at + HeaderLen <= to)
      BY <1>3, <2>1, FramerConstants
    <3>2. n <= MaxBuffer
      BY <1>3, <2>1, FramerConstants, Windows
    <3> QED
      BY <3>1, <3>2 DEF Due
  <2>2. CASE ~(n < 1 + HeaderLen)
    <3>1. Waits(s.buf[3], s.buf[1] - 1) /\ n < s.buf[1]
      BY <2>2 DEF Early
    <3>2. n >= 3
      BY <1>3, <2>2, FramerConstants
    <3>3. /\ s.buf[1] = stream.bytes[s.at] /\ s.buf[1] \in Nat
          /\ s.buf[3] = stream.bytes[s.at + 2]
      <4>1. Len(s.buf) >= 1 /\ Len(s.buf) >= 3
        BY <1>3, <3>2
      <4>2. s.buf[1] = stream.bytes[s.at] /\ s.buf[1] \in Nat
        BY <1>1, <4>1, HeadIs
      <4>3. s.buf[3] = stream.bytes[s.at + 2]
        BY <1>1, <4>1, HeadIs
      <4> QED
        BY <4>2, <4>3
    <3>4. s.buf[1] - 1 <= MaxBody
      BY <1>3, <3>2 DEF Probe, Reject
    <3> DEFINE total == s.buf[1]
               p == s.at
    <3>7. n \in Nat /\ p \in Nat /\ p + n = to + 1 /\ n < total /\ total \in Nat /\ total - 1 <= MaxBody
      BY <1>3, <3>1, <3>3, <3>4
    <3>5. n <= MaxBuffer
      <4> HIDE DEF n, total, p
      <4> QED
        BY <3>7, FramerConstants, Windows
    <3>6. ~(s.at + stream.bytes[s.at] - 1 <= to)
      <4>1. ~(p + total - 1 <= to)
        <5> HIDE DEF n, total, p
        <5> QED
          BY <3>7
      <4> QED
        BY <3>3, <4>1
    <3> QED
      BY <3>1, <3>3, <3>5, <3>6 DEF Due
  <2> QED
    BY <2>1, <2>2
<1>6. Running(q, before, to, from)
  BY <1>1, <1>4, <1>5 DEF Running
<1> QED
  BY <1>4, <1>6 DEF Gets, q

LEMMA PieceIs ==
  ASSUME NEW S, NEW t \in Seq(S), NEW m \in Nat \ {0}, NEW n \in Nat, m <= n
  PROVE  Len(SubSeq(t, m, n)) = n - m + 1
  OBVIOUS

LEMMA SameSequence ==
  ASSUME NEW S, NEW t \in Seq(S), NEW v \in Seq(S), Len(t) = Len(v),
         \A i \in 1..Len(t) : t[i] = v[i]
  PROVE  t = v
  OBVIOUS

LEMMA SamePieces ==
  ASSUME NEW buf \in Seq(Nat), NEW bytes \in Seq(Nat), NEW p \in Nat, NEW total \in Nat,
         2 <= total, total <= Len(buf), p + total - 1 <= Len(bytes),
         \A i \in 1..Len(buf) : buf[i] = bytes[p + i - 1]
  PROVE  /\ SubSeq(bytes, p + 1, p + total - 1) \in Seq(Nat)
         /\ SubSeq(buf, 2, total) = SubSeq(bytes, p + 1, p + total - 1)
<1> DEFINE one == 1
           n == p + total - 1
           a == SubSeq(buf, one + 1, total)
           b == SubSeq(bytes, p + 1, n)
<1>1. Len(buf) \in Nat /\ Len(bytes) \in Nat /\ one \in Nat /\ one <= total
  OBVIOUS
<1>2. n \in Nat /\ n <= Len(bytes) /\ p <= n /\ n - p = total - 1
  OBVIOUS
<1> HIDE DEF one, n
<1>3. a \in Seq(Nat) /\ Len(a) = total - one /\ \A i \in 1..(total - one) : a[i] = buf[one + i]
  BY <1>1, Cut
<1>4. b \in Seq(Nat) /\ Len(b) = n - p /\ \A i \in 1..(n - p) : b[i] = bytes[p + i]
  BY <1>1, <1>2, Cut
<1>5. a \in Seq(Nat) /\ Len(a) = total - 1 /\ \A i \in 1..(total - 1) : a[i] = buf[1 + i]
  BY <1>3 DEF one
<1>6. \A i \in 1..(total - 1) : a[i] = b[i]
  <2> TAKE i \in 1..(total - 1)
  <2>1. 1 + i \in 1..Len(buf) /\ p + (1 + i) - 1 = p + i
    OBVIOUS
  <2>2. buf[1 + i] = bytes[p + (1 + i) - 1]
    BY <2>1
  <2> HIDE DEF a, b
  <2> QED
    BY <1>2, <1>4, <1>5, <2>1, <2>2
<1>7. a = b
  <2> HIDE DEF a, b
  <2> QED
    BY <1>2, <1>4, <1>5, <1>6, SameSequence
<1>8. a = SubSeq(buf, 2, total)
  BY DEF one
<1>9. b = SubSeq(bytes, p + 1, p + total - 1)
  BY DEF n
<1> HIDE DEF a, b
<1> QED
  BY <1>4, <1>7, <1>8, <1>9

\* A body that is in the buffer is the stream's.
LEMMA BodyIs ==
  ASSUME IsStream(stream), NEW to \in Nat, to <= Len(stream.bytes), NEW s, Reads(s, to),
         NEW total \in Nat, 2 <= total, total <= Len(s.buf), total = stream.bytes[s.at]
  PROVE  SubSeq(s.buf, 2, total) = BodyAt(s.at) /\ BodyAt(s.at) \in Seq(Nat)
<1> DEFINE p == s.at
           buf == s.buf
           bytes == stream.bytes
           k == total
<1>1. /\ buf \in Seq(Nat) /\ bytes \in Seq(Nat) /\ p \in Nat /\ Len(buf) \in Nat
      /\ p + Len(buf) = to + 1 /\ Len(bytes) \in Nat
  BY FieldsAre DEF Reads, IsStream
<1>2. \A i \in 1..Len(buf) : buf[i] = bytes[p + i - 1]
  BY DEF Reads
<1>3. k \in Nat /\ 2 <= k /\ k <= Len(buf) /\ to <= Len(bytes)
  OBVIOUS
<1>4. k = bytes[p]
  OBVIOUS
<1>5. BodyAt(s.at) = SubSeq(bytes, p + 1, p + k - 1)
  BY DEF BodyAt
<1> HIDE DEF p, buf, bytes, k
<1>6. p + k - 1 <= Len(bytes)
  BY <1>1, <1>3
<1>7. SubSeq(bytes, p + 1, p + k - 1) \in Seq(Nat)
  BY <1>1, <1>2, <1>3, <1>6, SamePieces
<1>8. SubSeq(buf, 2, k) = SubSeq(bytes, p + 1, p + k - 1)
  BY <1>1, <1>2, <1>3, <1>6, SamePieces
<1> QED
  BY <1>5, <1>7, <1>8 DEF buf, k

\* What is reported of the frame at the head of the buffer.
Report(s) ==
  [at |-> s.at, op |-> s.buf[3],
   body |-> IF /\ Waits(s.buf[3], s.buf[1] - 1)
               /\ s.buf[3] = PageOp => IsPage(SubSeq(s.buf, 2, s.buf[1]))
              THEN SubSeq(s.buf, 2, s.buf[1]) ELSE <<>>]

LEMMA ReportIs ==
  ASSUME IsStream(stream), NEW to \in Nat, to <= Len(stream.bytes), NEW s, Reads(s, to),
         Probe(s.buf, 1) # Reject, ~Early(s)
  PROVE  /\ Report(s) \in Reports /\ Report(s).at = s.at /\ Report(s).op = s.buf[3] /\ IsTrue(Report(s))
         /\ s.at \in 1..Len(stream.bytes) /\ s.at <= to /\ Due(s.at, to)
         /\ s.buf[1] = stream.bytes[s.at] /\ s.buf[1] \in Nat /\ s.buf[1] >= 3 /\ Len(s.buf) >= 3
<1> DEFINE n == Len(s.buf)
           total == s.buf[1]
           op == s.buf[3]
           body == SubSeq(s.buf, 2, total)
           e == Report(s)
<1>1. s \in Framers /\ s.at \in Nat \ {0} /\ n \in Nat /\ s.at + n = to + 1
  BY FieldsAre DEF Reads
<1>2. n >= 1 + HeaderLen /\ (Waits(op, total - 1) => ~(n < total))
  <2>1. n >= 1 + HeaderLen
    BY <1>1, FramerConstants DEF Early
  <2>2. Waits(op, total - 1) => ~(n < total)
    BY DEF Early
  <2> QED
    BY <2>1, <2>2
<1>3. n >= 3 /\ n >= 2 /\ n >= 1
  BY <1>1, <1>2, FramerConstants
<1>4. s.at \in 1..Len(stream.bytes) /\ s.at <= to /\ total = stream.bytes[s.at] /\ total \in Nat
  BY <1>3, HeadIs
<1>5. op = stream.bytes[s.at + 2] /\ op \in Nat
  BY <1>3, HeadIs
<1>6. total - 1 \in MinBody..MaxBody
  BY <1>1, <1>3 DEF Probe, Reject
<1>7. total >= 3
  <2> HIDE DEF total
  <2> QED
    BY <1>4, <1>6, FramerConstants
<1>8. Waits(op, total - 1) => body = BodyAt(s.at) /\ BodyAt(s.at) \in Seq(Nat)
  <2>1. Waits(op, total - 1) => total <= n
    <3> HIDE DEF total, n
    <3> QED
      BY <1>1, <1>2, <1>4
  <2>2. 2 <= total
    BY <1>4, <1>7
  <2> HIDE DEF total, op
  <2>3. ASSUME total <= n PROVE body = BodyAt(s.at) /\ BodyAt(s.at) \in Seq(Nat)
    BY <1>4, <2>2, <2>3, BodyIs
  <2> QED
    BY <2>1, <2>3
<1>9. e.at = s.at /\ e.op = op
      /\ e.body = IF Waits(op, total - 1) /\ (op = PageOp => IsPage(body)) THEN body ELSE <<>>
  BY DEF Report
<1>10. e.body \in {BodyAt(s.at), <<>>} /\ e.body \in Seq(Nat)
  <2> HIDE DEF e, op, total, body
  <2> QED
    BY <1>8, <1>9
<1>11. e \in Reports
  <2>1. e = [at |-> e.at, op |-> e.op, body |-> e.body]
    BY DEF Report
  <2> HIDE DEF e, op
  <2> QED
    BY <1>1, <1>5, <1>9, <1>10, <2>1 DEF Reports
<1>12. IsTrue(e)
  <2>1. ASSUME op = PageOp, Len(BodyAt(s.at)) <= PageMax, IsPage(BodyAt(s.at))
        PROVE  e.body = BodyAt(s.at)
    <3>1. Len(BodyAt(s.at)) = total - 1
      <4> DEFINE p == s.at
                 bytes == stream.bytes
                 m == p + 1
                 k == p + total - 1
      <4>1. bytes \in Seq(Nat) /\ m \in Nat \ {0} /\ k \in Nat /\ m <= k /\ k - m + 1 = total - 1
        <5>1. p \in Nat /\ total \in Nat /\ total >= 3
          BY <1>1, <1>4, <1>7
        <5>2. bytes \in Seq(Nat)
          BY DEF IsStream
        <5> HIDE DEF p, total, bytes
        <5> QED
          BY <5>1, <5>2
      <4>2. BodyAt(s.at) = SubSeq(bytes, m, k)
        BY <1>4 DEF BodyAt
      <4> HIDE DEF bytes, m, k
      <4> QED
        BY <4>1, <4>2, PieceIs
    <3>2. Waits(op, total - 1)
      BY <2>1, <3>1 DEF Waits
    <3> HIDE DEF e, op, total, body
    <3> QED
      BY <1>8, <1>9, <2>1, <3>2
  <2> HIDE DEF e, op
  <2> QED
    BY <1>5, <1>9, <1>10, <2>1 DEF IsTrue
<1>13. Due(s.at, to)
  <2>1. s.at + HeaderLen <= to
    <3> DEFINE p == s.at
    <3>1. p \in Nat /\ n \in Nat /\ p + n = to + 1 /\ n >= 1 + HeaderLen
      BY <1>1, <1>2
    <3>2. p + HeaderLen <= to
      <4> HIDE DEF p, n
      <4> QED
        BY <3>1, FramerConstants
    <3> QED
      BY <3>2
  <2>2. ASSUME Waits(op, total - 1) PROVE s.at + total - 1 <= to
    <3> DEFINE p == s.at
    <3>1. p \in Nat /\ n \in Nat /\ p + n = to + 1 /\ ~(n < total) /\ total \in Nat
      BY <1>1, <1>2, <1>4, <2>2
    <3>2. p + total - 1 <= to
      <4> HIDE DEF p, n, total
      <4> QED
        BY <3>1
    <3> QED
      BY <3>2
  <2> HIDE DEF op, total
  <2> QED
    BY <1>4, <1>5, <2>1, <2>2 DEF Due
<1> HIDE DEF e
<1> QED
  BY <1>3, <1>4, <1>7, <1>9, <1>11, <1>12, <1>13 DEF e

LEMMA Joined ==
  ASSUME NEW S, NEW a \in Seq(S), NEW b \in Seq(S), NEW e \in S
  PROVE  /\ a \o Append(b, e) = Append(a \o b, e)
         /\ a \o b \in Seq(S) /\ a \o Append(b, e) \in Seq(S)
<1> DEFINE c == a \o b
           d == Append(b, e)
           v == a \o d
           w == Append(c, e)
<1>1. /\ c \in Seq(S) /\ Len(c) = Len(a) + Len(b)
      /\ \A k \in 1..Len(a) : c[k] = a[k]
      /\ \A k \in 1..Len(b) : c[Len(a) + k] = b[k]
  BY Concat
<1>2. /\ d \in Seq(S) /\ Len(d) = Len(b) + 1 /\ Len(b) \in Nat
      /\ \A i \in 1..Len(b) : d[i] = b[i]
      /\ d[Len(b) + 1] = e
  BY Appended
<1> HIDE DEF c, d
<1>3. /\ v \in Seq(S) /\ Len(v) = Len(a) + Len(d)
      /\ \A k \in 1..Len(a) : v[k] = a[k]
      /\ \A k \in 1..Len(d) : v[Len(a) + k] = d[k]
  <2>1. d \in Seq(S)
    BY <1>2
  <2>2. v \in Seq(S) /\ Len(v) = Len(a) + Len(d)
    BY <2>1, Concat
  <2>3. \A k \in 1..Len(a) : v[k] = a[k]
    BY <2>1, Concat
  <2>4. \A k \in 1..Len(d) : v[Len(a) + k] = d[k]
    BY <2>1, Concat
  <2> QED
    BY <2>2, <2>3, <2>4
<1>4. /\ w \in Seq(S) /\ Len(w) = Len(c) + 1 /\ Len(c) \in Nat
      /\ \A i \in 1..Len(c) : w[i] = c[i]
      /\ w[Len(c) + 1] = e
  BY <1>1, Appended
<1> HIDE DEF v, w
<1>5. Len(v) = Len(w) /\ Len(a) \in Nat
  BY <1>1, <1>2, <1>3, <1>4
<1>6. ASSUME NEW i \in 1..Len(v) PROVE v[i] = w[i]
  <2>1. CASE i <= Len(a)
    BY <1>1, <1>2, <1>3, <1>4, <1>5, <2>1
  <2>2. CASE i > Len(a)
    <3> DEFINE k == i - Len(a)
    <3>1. k \in 1..(Len(b) + 1) /\ i = Len(a) + k
      BY <1>2, <1>3, <1>5, <2>2
    <3> HIDE DEF k
    <3>2. v[i] = d[k]
      BY <1>2, <1>3, <3>1
    <3>3. CASE k = Len(b) + 1
      <4>1. i = Len(c) + 1
        BY <1>1, <1>2, <1>5, <3>1, <3>3
      <4> QED
        BY <1>2, <1>4, <3>2, <3>3, <4>1
    <3>4. CASE k # Len(b) + 1
      <4>1. k \in 1..Len(b) /\ i \in 1..Len(c)
        BY <1>1, <1>2, <1>5, <3>1, <3>4
      <4> QED
        BY <1>1, <1>2, <1>4, <3>1, <3>2, <4>1
    <3> QED
      BY <3>3, <3>4
  <2> QED
    BY <1>3, <1>5, <2>1, <2>2
<1>7. v = w
  BY <1>3, <1>4, <1>5, <1>6, SameSequence
<1> QED
  BY <1>1, <1>3, <1>7 DEF c, d, v, w

\* After a report the framer u is past the frame, or will skip what is missing.
LEMMA Reported ==
  ASSUME IsStream(stream), NEW to \in Nat, to <= Len(stream.bytes), NEW from \in Nat,
         NEW s, Reads(s, to), s.locked, s.skip = 0, Probe(s.buf, 1) # Reject, ~Early(s),
         NEW t, Tells(t, s), Remembers(t, s), OnTrack(t, s, to, from),
         NEW w, w = NoteNeighbour(s, s.buf[3], s.buf[1] - 1),
         NEW u \in Framers, u.locked, s.at < u.at, u.at + u.skip = s.at + s.buf[1],
         u.unknown = w.unknown, u.waiting = w.waiting, u.prev = w.prev
  PROVE  LET v == Append(t, Report(s))
         IN  Tells(v, u) /\ Remembers(v, u) /\ OnTrack(v, u, to, from)
<1> DEFINE e == Report(s)
<1>1. /\ e \in Reports /\ e.at = s.at /\ e.op = s.buf[3] /\ IsTrue(e)
      /\ s.at <= to /\ Due(s.at, to) /\ s.buf[1] = stream.bytes[s.at]
  BY ReportIs
<1>2. s \in Framers /\ t \in Seq(Reports)
  BY DEF Reads, Tells
<1> HIDE DEF e
<1>3. Tells(Append(t, e), u)
  BY <1>1, <1>2, TellsOn
<1>4. Remembers(Append(t, e), u)
  <2>1. w = NoteNeighbour(s, e.op, s.buf[1] - 1)
    BY <1>1
  <2> QED
    BY <1>1, <1>2, <2>1, RemembersOn
<1>5. OnTrack(Append(t, e), u, to, from)
  BY <1>1, <1>2, TrackOn
<1> QED
  BY <1>3, <1>4, <1>5 DEF e

LEMMA NotedReads ==
  ASSUME NEW to, NEW s, Reads(s, to), NEW op, NEW l, NEW w, w = NoteNeighbour(s, op, l)
  PROVE  Reads(w, to)
<1>1. s \in Framers
  BY DEF Reads
<1>2. w \in Framers /\ w.buf = s.buf /\ w.at = s.at /\ w.skip = s.skip
  BY <1>1, NotedIs
<1> QED
  BY <1>2 DEF Reads

LEMMA RoundConsumes ==
  ASSUME IsStream(stream), NEW ts \in Int, NEW to \in Nat, to <= Len(stream.bytes), NEW from \in Nat,
         NEW before \in Seq(Reports), NEW r, Running(r, before, to, from), ~r.done, r.s.locked,
         Probe(r.s.buf, 1) # Reject, ~Early(r.s), Len(r.s.buf) >= r.s.buf[1]
  PROVE  Running(Round(r, ts), before, to, from) /\ Gets(Round(r, ts), r)
<1> DEFINE s == r.s
           q == Round(r, ts)
           t == before \o r.out
           n == Len(s.buf)
           total == s.buf[1]
           w == NoteNeighbour(s, s.buf[3], s.buf[1] - 1)
           u == Consume(w, total)
           e == Report(s)
<1>1. r \in Runs /\ s \in Framers /\ Reads(s, to) /\ s.skip = 0 /\ r.out \in Seq(Reports) /\ r.done = FALSE
  BY RunFields DEF Running
<1>2. /\ e \in Reports /\ e.at = s.at /\ total \in Nat /\ total >= 3
  BY <1>1, ReportIs
<1>3. q = [r EXCEPT !.s = u, !.out = Append(r.out, e)]
  BY <1>1 DEF Round, Early, Report, Runs
<1>4. w \in Framers /\ w.buf = s.buf /\ w.at = s.at /\ w.skip = s.skip /\ w.locked = s.locked
  <2> DEFINE op == s.buf[3]
             l == s.buf[1] - 1
  <2>1. w = NoteNeighbour(s, op, l)
    OBVIOUS
  <2> HIDE DEF s, w, op, l
  <2> QED
    BY <1>1, <2>1, NotedIs
<1>5. Reads(w, to)
  BY <1>1, NotedReads
<1>6. n \in Nat /\ s.at \in Nat
  BY <1>1, FieldsAre
<1>7. Passed(w, u, total) /\ u.locked = w.locked /\ u.prev = w.prev /\ u.waiting = w.waiting
  <2>1. total \in 0..Len(w.buf)
    BY <1>2, <1>4, <1>6
  <2> HIDE DEF total, w
  <2> QED
    BY <1>4, <2>1, ConsumeIs
<1>8. Reads(u, to)
  BY <1>1, <1>4, <1>5, <1>7, PassedReads
<1>9. /\ u \in Framers /\ u.at = s.at + total /\ u.skip = 0 /\ Len(u.buf) = n - total
      /\ u.unknown = w.unknown /\ u.locked
  BY <1>1, <1>4, <1>7 DEF Passed
<1> DEFINE v == Append(t, e)
<1>10. before \o Append(r.out, e) = v
  <2> DEFINE x == r.out
  <2>1. x \in Seq(Reports)
    BY <1>1
  <2> HIDE DEF x, e
  <2>2. before \o Append(x, e) = Append(before \o x, e)
    BY <1>2, <2>1, Joined
  <2> QED
    BY <2>2 DEF x
<1>11. Append(r.out, e) \in Seq(Reports)
  <2> HIDE DEF e
  <2> QED
    BY <1>1, <1>2, Appended
<1>12. Tells(v, u) /\ Remembers(v, u) /\ OnTrack(v, u, to, from)
  <2>1. Tells(t, s) /\ Remembers(t, s) /\ OnTrack(t, s, to, from)
    BY DEF Running
  <2>2. s.at < u.at /\ u.at + u.skip = s.at + s.buf[1]
    BY <1>2, <1>6, <1>9
  <2> HIDE DEF t, e, u
  <2> QED
    BY <1>1, <1>7, <1>9, <2>1, <2>2, Reported DEF e
<1> HIDE DEF q, u, e, t, w
<1>13. q \in Runs /\ q.s = u /\ q.out = Append(r.out, e) /\ q.done = FALSE
  BY <1>1, <1>3, <1>9, <1>11 DEF Runs
<1>14. Running(q, before, to, from)
  BY <1>8, <1>9, <1>10, <1>12, <1>13 DEF Running
<1>15. Gets(q, r)
  <2> DEFINE a == Len(u.buf)
             b == total
  <2>1. Work(u) = 2 * a + 1 /\ Work(s) = 2 * n + 1
    BY <1>1, <1>9, WorkIs
  <2>2. a = n - b /\ n \in Nat /\ b \in Nat /\ b >= 3
    BY <1>2, <1>6, <1>9
  <2>3. 2 * a + 1 < 2 * n + 1
    <3> HIDE DEF a, n, b
    <3> QED
      BY <2>2
  <2> QED
    BY <1>13, <2>1, <2>3 DEF Gets
<1> QED
  BY <1>14, <1>15 DEF q

LEMMA RoundLeaves ==
  ASSUME IsStream(stream), NEW ts \in Int, NEW to \in Nat, to <= Len(stream.bytes), NEW from \in Nat,
         NEW before \in Seq(Reports), NEW r, Running(r, before, to, from), ~r.done, r.s.locked,
         Probe(r.s.buf, 1) # Reject, ~Early(r.s), Len(r.s.buf) < r.s.buf[1]
  PROVE  Running(Round(r, ts), before, to, from) /\ Gets(Round(r, ts), r)
<1> DEFINE s == r.s
           q == Round(r, ts)
           t == before \o r.out
           n == Len(s.buf)
           total == s.buf[1]
           w == NoteNeighbour(s, s.buf[3], s.buf[1] - 1)
           c == Consume(w, n)
           left == total - n
           u == [c EXCEPT !.skip = left]
           e == Report(s)
<1>1. r \in Runs /\ s \in Framers /\ Reads(s, to) /\ s.skip = 0 /\ r.out \in Seq(Reports)
  BY RunFields DEF Running
<1>2. /\ e \in Reports /\ e.at = s.at /\ total \in Nat /\ n >= 3
  BY <1>1, ReportIs
<1>6. n \in Nat /\ s.at \in Nat /\ s.at + n = to + 1
  BY <1>1, FieldsAre DEF Reads
<1>16. left \in Nat /\ left > 0 /\ n + left = total
  <2>1. n < total
    OBVIOUS
  <2> HIDE DEF n, total
  <2> QED
    BY <1>2, <1>6, <2>1
<1>3. q = [s |-> u, out |-> Append(r.out, e), done |-> TRUE]
  <2>1. ~(n >= total)
    <3>1. n < total
      OBVIOUS
    <3> HIDE DEF n, total
    <3> QED
      BY <1>2, <1>6, <3>1
  <2> QED
    BY <1>1, <2>1 DEF Round, Early, Report, Runs
<1>4. w \in Framers /\ w.buf = s.buf /\ w.at = s.at /\ w.skip = s.skip /\ w.locked = s.locked
  <2> DEFINE op == s.buf[3]
             l == s.buf[1] - 1
  <2>1. w = NoteNeighbour(s, op, l)
    OBVIOUS
  <2> HIDE DEF s, w, op, l
  <2> QED
    BY <1>1, <2>1, NotedIs
<1>7. Passed(w, c, n) /\ c.locked = w.locked /\ c.prev = w.prev /\ c.waiting = w.waiting
  <2>1. n \in 0..Len(w.buf)
    BY <1>4, <1>6
  <2> HIDE DEF n, w
  <2> QED
    BY <1>4, <2>1, ConsumeIs
<1>5. c \in Framers /\ c.at = s.at + n /\ Len(c.buf) = 0 /\ c.unknown = w.unknown
  <2>1. c \in Framers /\ c.at = w.at + n /\ Len(c.buf) = Len(w.buf) - n /\ c.unknown = w.unknown
    BY <1>7 DEF Passed
  <2>2. Len(w.buf) = n
    BY <1>4
  <2> HIDE DEF c, w, n
  <2> QED
    BY <1>4, <1>6, <2>1, <2>2
<1>9. /\ u \in Framers /\ u.buf = c.buf /\ u.at = s.at + n /\ u.skip = left /\ Len(u.buf) = 0
      /\ u.unknown = w.unknown /\ u.locked /\ u.prev = w.prev /\ u.waiting = w.waiting
  <2> HIDE DEF c, left
  <2>1. /\ u \in Framers /\ u.buf = c.buf /\ u.at = c.at /\ u.skip = left /\ u.unknown = c.unknown
        /\ u.locked = c.locked /\ u.prev = c.prev /\ u.waiting = c.waiting
    BY <1>5, <1>16 DEF Framers
  <2> QED
    BY <1>4, <1>5, <1>7, <2>1
<1>8. Reads(u, to)
  <2>1. u.at + Len(u.buf) = to + 1
    BY <1>6, <1>9
  <2>2. 1..Len(u.buf) = {}
    BY <1>9
  <2> HIDE DEF u
  <2> QED
    BY <1>9, <2>1, <2>2 DEF Reads
<1> DEFINE v == Append(t, e)
<1>10. before \o Append(r.out, e) = v
  <2> DEFINE x == r.out
  <2>1. x \in Seq(Reports)
    BY <1>1
  <2> HIDE DEF x, e
  <2>2. before \o Append(x, e) = Append(before \o x, e)
    BY <1>2, <2>1, Joined
  <2> QED
    BY <2>2 DEF x
<1>11. Append(r.out, e) \in Seq(Reports)
  <2> HIDE DEF e
  <2> QED
    BY <1>1, <1>2, Appended
<1>12. Tells(v, u) /\ Remembers(v, u) /\ OnTrack(v, u, to, from)
  <2>1. Tells(t, s) /\ Remembers(t, s) /\ OnTrack(t, s, to, from)
    BY DEF Running
  <2>2. s.at < u.at /\ u.at + u.skip = s.at + s.buf[1]
    <3> DEFINE p == s.at
    <3>1. u.at = p + n /\ u.skip = left /\ n + left = total /\ n \in Nat /\ n >= 3 /\ p \in Nat /\ left \in Nat
      BY <1>2, <1>6, <1>9, <1>16
    <3>2. p < p + n /\ (p + n) + left = p + total
      <4> HIDE DEF p, n, total, left
      <4> QED
        BY <3>1
    <3> HIDE DEF u, left, n
    <3> QED
      BY <3>1, <3>2
  <2> HIDE DEF t, u
  <2> QED
    BY <1>1, <1>9, <2>1, <2>2, Reported
<1> HIDE DEF q, u, e, t, w
<1>13. q \in Runs /\ q.s = u /\ q.out = Append(r.out, e) /\ q.done = TRUE
  BY <1>3, <1>9, <1>11 DEF Runs
<1>17. Halted(v, u, to, from)
  BY <1>9, <1>16 DEF Halted
<1>14. Running(q, before, to, from)
  BY <1>8, <1>9, <1>10, <1>12, <1>13, <1>17 DEF Running
<1> QED
  BY <1>13, <1>14 DEF q, Gets

\* Every round of the loop keeps the state, and gets on.
LEMMA RoundIs ==
  ASSUME IsStream(stream), NEW ts \in Int, NEW to \in Nat, to <= Len(stream.bytes), NEW from \in Nat,
         NEW before \in Seq(Reports), NEW r, Running(r, before, to, from)
  PROVE  /\ Running(Round(r, ts), before, to, from)
         /\ r.done => Round(r, ts) = r
         /\ ~r.done => Gets(Round(r, ts), r)
<1>1. CASE r.done
  <2>1. Round(r, ts) = r
    BY <1>1 DEF Round
  <2> QED
    BY <1>1, <2>1
<1>2. CASE ~r.done
  <2>1. CASE ~r.s.locked
    BY <1>2, <2>1, RoundSearches
  <2>2. CASE r.s.locked /\ Probe(r.s.buf, 1) = Reject
    BY <1>2, <2>2, RoundResynchronises
  <2>3. CASE r.s.locked /\ Probe(r.s.buf, 1) # Reject /\ Early(r.s)
    BY <1>2, <2>3, RoundWaits
  <2>4. CASE r.s.locked /\ Probe(r.s.buf, 1) # Reject /\ ~Early(r.s)
    <3>1. Reads(r.s, to)
      BY DEF Running
    <3>2. Len(r.s.buf) \in Nat /\ r.s.buf[1] \in Nat
      BY <2>4, <3>1, ReportIs, FieldsAre DEF Reads
    <3>3. Len(r.s.buf) >= r.s.buf[1] \/ Len(r.s.buf) < r.s.buf[1]
      BY <3>2
    <3> QED
      BY <1>2, <2>4, <3>3, RoundConsumes, RoundLeaves
  <2> QED
    BY <1>2, <2>1, <2>2, <2>3, <2>4
<1> QED
  BY <1>1, <1>2

IsRounds(f, start, ts, n) ==
  f = [k \in 0..n |-> IF k = 0 THEN start ELSE Round(f[k - 1], ts)]

LEMMA RoundsOfFeedExist ==
  ASSUME NEW start, NEW ts, NEW n \in Nat
  PROVE  \E f : IsRounds(f, start, ts, n)
<1> USE DEF IsRounds
<1> DEFINE E(m) == \E f : f = [k \in 0..m |-> IF k = 0 THEN start ELSE Round(f[k - 1], ts)]
           T == {m \in Nat : ~E(m)}
<1>1. SUFFICES ASSUME T # {} PROVE FALSE
  OBVIOUS
<1>2. PICK m \in T : \A k \in T : m <= k
  BY <1>1, Least
<1>3. CASE m = 0
  <2> DEFINE f == [k \in 0..0 |-> start]
  <2>1. f = [k \in 0..0 |-> IF k = 0 THEN start ELSE Round(f[k - 1], ts)]
    OBVIOUS
  <2> HIDE DEF f
  <2> QED
    BY <1>2, <1>3, <2>1
<1>4. CASE m > 0
  <2>1. m \in Nat /\ m - 1 \in Nat
    BY <1>2, <1>4
  <2>2. m - 1 \notin T
    <3> HIDE DEF T
    <3> QED BY <1>2, <2>1
  <2>3. PICK g : g = [k \in 0..(m - 1) |-> IF k = 0 THEN start ELSE Round(g[k - 1], ts)]
    BY <2>1, <2>2
  <2> DEFINE f == [k \in 0..m |-> IF k = m THEN Round(g[k - 1], ts) ELSE g[k]]
  <2>4. \A k \in 0..m : f[k] = IF k = 0 THEN start ELSE Round(f[k - 1], ts)
    <3> SUFFICES ASSUME NEW k \in 0..m PROVE f[k] = IF k = 0 THEN start ELSE Round(f[k - 1], ts)
      OBVIOUS
    <3>1. k # 0 => k - 1 \in 0..m /\ k - 1 # m
      BY <2>1
    <3>2. k # 0 => f[k - 1] = g[k - 1]
      BY <3>1
    <3>3. k # m => k \in 0..(m - 1)
      BY <2>1
    <3>4. k # m => g[k] = IF k = 0 THEN start ELSE Round(g[k - 1], ts)
      BY <2>3, <3>3
    <3>5. f[k] = IF k = m THEN Round(g[k - 1], ts) ELSE g[k]
      OBVIOUS
    <3> HIDE DEF f
    <3> QED
      BY <1>4, <3>2, <3>4, <3>5
  <2>5. f = [k \in 0..m |-> f[k]]
    OBVIOUS
  <2> HIDE DEF f
  <2>6. f = [k \in 0..m |-> IF k = 0 THEN start ELSE Round(f[k - 1], ts)]
    BY <2>4, <2>5
  <2> QED
    BY <1>2, <2>6
<1> QED
  BY <1>2, <1>3, <1>4

\* The loop is left because there is nothing more to do.
LEMMA LoopIs ==
  ASSUME IsStream(stream), NEW ts \in Int, NEW to \in Nat, to <= Len(stream.bytes), NEW from \in Nat,
         NEW before \in Seq(Reports), NEW s \in Framers,
         NEW start, start = [s |-> s, out |-> <<>>, done |-> FALSE],
         Running(start, before, to, from)
  PROVE  Running(Loop(s, ts), before, to, from) /\ Loop(s, ts).done
<1> DEFINE n == 2 * Len(s.buf) + 3
           f == CHOOSE g : g = [k \in 0..n |-> IF k = 0 THEN start ELSE Round(g[k - 1], ts)]
           Good(k) == /\ Running(f[k], before, to, from)
                      /\ f[k].done \/ Work(f[k].s) + k <= Work(s)
           T == {k \in 0..n : ~Good(k)}
<1>1. n \in Nat /\ Len(s.buf) \in Nat
  BY FieldsAre
<1>2. f = [k \in 0..n |-> IF k = 0 THEN start ELSE Round(f[k - 1], ts)]
  <2>1. \E g : IsRounds(g, start, ts, n)
    <3> HIDE DEF n
    <3> QED
      BY <1>1, RoundsOfFeedExist
  <2> QED
    BY <2>1 DEF IsRounds
<1>3. Loop(s, ts) = f[n]
  BY DEF Loop
<1> HIDE DEF f
<1>4. f[0] = start /\ \A k \in 1..n : f[k] = Round(f[k - 1], ts)
  <2>1. \A k \in 0..n : f[k] = IF k = 0 THEN start ELSE Round(f[k - 1], ts)
    <3> HIDE DEF n
    <3> QED
      BY <1>2
  <2>2. 0 \in 0..n /\ \A k \in 1..n : k \in 0..n /\ k # 0
    <3> HIDE DEF n
    <3> QED
      BY <1>1
  <2> HIDE DEF n
  <2> QED
    BY <2>1, <2>2
<1>5. Work(s) \in 0..(2 * Len(s.buf) + 2)
  BY WorkIs
<1>6. T = {}
  <2> SUFFICES ASSUME T # {} PROVE FALSE
    OBVIOUS
  <2>1. PICK k \in T : \A j \in T : k <= j
    <3>1. T \subseteq Nat
      BY <1>1
    <3> HIDE DEF T
    <3> QED BY <3>1, Least
  <2>2. k \in 0..n /\ ~Good(k)
    BY <2>1
  <2>3. CASE k = 0
    <3>1. f[k] = start /\ start.s = s
      BY <1>4, <2>3
    <3>2. Work(start.s) + k <= Work(s)
      BY <1>5, <2>3, <3>1
    <3> QED
      BY <2>2, <3>1, <3>2
  <2>4. CASE k # 0
    <3> DEFINE j == k - 1
    <3>1. j \in 0..n /\ k \in 1..n /\ j \in Nat /\ k = j + 1
      <4> HIDE DEF n
      <4> QED
        BY <1>1, <2>2, <2>4
    <3>2. Good(j)
      <4>1. j \notin T
        <5> HIDE DEF T
        <5> QED BY <2>1, <3>1
      <4> QED BY <3>1, <4>1
    <3>3. f[k] = Round(f[j], ts)
      BY <1>4, <3>1
    <3> HIDE DEF j
    <3>4. Running(f[j], before, to, from)
      BY <3>2
    <3>5. Running(f[k], before, to, from)
      BY <3>3, <3>4, RoundIs
    <3>6. f[k].s \in Framers /\ f[j].s \in Framers
      BY <3>4, <3>5, RunFields DEF Running
    <3>7. Work(f[k].s) \in Nat /\ Work(f[j].s) \in Nat /\ Work(s) \in Nat
      BY <1>5, <3>6, WorkIs
    <3>8. CASE f[j].done
      <4>1. f[k] = f[j]
        BY <3>3, <3>4, <3>8, RoundIs
      <4> QED
        BY <2>2, <3>5, <3>8, <4>1
    <3>9. CASE ~f[j].done
      <4>1. f[k].done \/ Work(f[k].s) < Work(f[j].s)
        BY <3>3, <3>4, <3>9, RoundIs DEF Gets
      <4>2. Work(f[j].s) + j <= Work(s)
        BY <3>2, <3>9
      <4>3. f[k].done \/ Work(f[k].s) + k <= Work(s)
        BY <3>1, <3>7, <4>1, <4>2
      <4> QED
        BY <2>2, <3>5, <4>3
    <3> QED
      BY <3>8, <3>9
  <2> QED
    BY <2>3, <2>4
<1>7. Good(n)
  <2>1. n \in 0..n
    BY <1>1
  <2> QED
    BY <1>6, <2>1
<1>8. Running(f[n], before, to, from) /\ (f[n].done \/ Work(f[n].s) + n <= Work(s))
  BY <1>7
<1>9. Work(f[n].s) \in Nat
  <2>1. f[n].s \in Framers
    BY <1>8, RunFields DEF Running
  <2> QED
    BY <2>1, WorkIs, FieldsAre
<1>10. f[n].done
  <2>1. ~(Work(f[n].s) + n <= Work(s))
    <3> DEFINE a == Work(f[n].s)
               b == Work(s)
               l == Len(s.buf)
    <3>1. a \in Nat /\ b <= 2 * l + 2 /\ n = 2 * l + 3 /\ b \in Nat /\ l \in Nat
      BY <1>1, <1>5, <1>9
    <3>2. ~(a + n <= b)
      <4> HIDE DEF a, b, l, n
      <4> QED
        BY <3>1
    <3> QED
      BY <3>2
  <2> QED
    BY <1>8, <2>1
<1> QED
  BY <1>3, <1>8, <1>10

-----------------------------------------------------------------------------
(***************************************************************************)
(* A piece is fed.                                                         *)
(***************************************************************************)
LEMMA ContentIs ==
  ASSUME IsStream(stream), NEW p \in Nat \ {0}, NEW k \in Nat \ {0},
         p + k - 1 <= Len(stream.bytes), NEW data, data = Content(p, p + k - 1)
  PROVE  /\ data \in Seq(Nat) /\ Len(data) = k
         /\ \A i \in 1..k : data[i] = stream.bytes[p + i - 1]
<1> DEFINE o == p - 1
           m == p + k - 1
           b == stream.bytes
<1>1. o \in Nat /\ m \in Nat /\ m <= Len(b) /\ o <= m /\ m - o = k /\ o + 1 = p
  OBVIOUS
<1>2. b \in Seq(Nat)
  BY DEF IsStream
<1>3. data = SubSeq(b, o + 1, m)
  BY <1>1 DEF Content
<1> HIDE DEF m, b, o
<1>4. /\ SubSeq(b, o + 1, m) \in Seq(Nat) /\ Len(SubSeq(b, o + 1, m)) = m - o
      /\ \A i \in 1..(m - o) : SubSeq(b, o + 1, m)[i] = b[o + i]
  BY <1>1, <1>2, Cut
<1>5. \A i \in 1..k : o + i = p + i - 1
  BY <1>1
<1>6. data \in Seq(Nat) /\ Len(data) = k
  BY <1>1, <1>3, <1>4
<1>7. \A i \in 1..k : data[i] = b[p + i - 1]
  BY <1>1, <1>3, <1>4, <1>5
<1> QED
  BY <1>6, <1>7 DEF b

\* Of a piece n bytes are skipped and the rest is put behind the buffer.
Skipping(s, t, data, n) ==
  /\ n \in 0..Len(data) /\ n <= s.skip /\ n \in {s.skip, Len(data)}
  /\ t \in Framers /\ t.skip = s.skip - n /\ t.at = s.at + n
  /\ t.buf = s.buf \o SubSeq(data, n + 1, Len(data))

LEMMA TakeFields ==
  ASSUME NEW s \in Framers, NEW data \in Seq(Nat), NEW t, t = Take(s, data)
  PROVE  \E n : Skipping(s, t, data, n)
<1> DEFINE l == Len(data)
           n == IF s.skip < l THEN s.skip ELSE l
           rest == SubSeq(data, n + 1, l)
           b == s.buf \o rest
           c == s.since + Len(rest)
           k == s.skip - n
           a == s.at + n
<1>1. l \in Nat /\ n \in 0..l /\ n <= s.skip /\ n \in {s.skip, l} /\ s.skip \in Nat
  BY FieldsAre
<1>2. rest \in Seq(Nat)
  <2> HIDE DEF l, n
  <2> QED BY <1>1, Cut DEF l
<1>3. b \in Seq(Nat)
  <2> HIDE DEF rest
  <2> QED BY <1>2, FieldsAre, Concat
<1>4. c \in Int
  <2> HIDE DEF rest
  <2> QED BY <1>2, FieldsAre
<1>5. k \in Nat /\ a \in Nat \ {0}
  <2> HIDE DEF n, l
  <2> QED BY <1>1, FieldsAre
<1>6. (IF s.skip > 0 THEN s.at + n ELSE s.at) = a
  <2> HIDE DEF n, l
  <2> QED BY <1>1, FieldsAre
<1>7. t = [s EXCEPT !.skip = k, !.at = a, !.buf = b, !.since = c]
  BY <1>6 DEF Take, Framers
<1> HIDE DEF a, b, c, k
<1>8. t \in Framers
  BY <1>3, <1>4, <1>5, <1>7 DEF Framers
<1>9. t.skip = k /\ t.at = a /\ t.buf = b
  BY <1>7 DEF Framers
<1>10. t.skip = s.skip - n /\ t.at = s.at + n /\ t.buf = s.buf \o SubSeq(data, n + 1, Len(data))
  BY <1>9 DEF a, b, k
<1>11. Skipping(s, t, data, n)
  BY <1>1, <1>8, <1>10 DEF Skipping
<1> QED
  BY <1>11

LEMMA TakeKeeps ==
  ASSUME NEW s \in Framers, NEW data, NEW t, t = Take(s, data)
  PROVE  /\ t.locked = s.locked /\ t.prev = s.prev /\ t.waiting = s.waiting
         /\ t.unknown = s.unknown
  BY DEF Take, Framers

LEMMA TakeSkips ==
  ASSUME NEW s \in Framers, NEW data \in Seq(Nat), s.skip < Len(data)
  PROVE  Take(s, data).skip = 0
<1> DEFINE l == Len(data)
           k == s.skip
<1>1. k \in Nat /\ l \in Nat /\ k < l
  BY FieldsAre
<1>2. Take(s, data).skip = k - (IF k < l THEN k ELSE l)
  BY DEF Take, Framers
<1> HIDE DEF k, l
<1> QED
  BY <1>1, <1>2

\* What comes is appended, or skipped.
LEMMA TakeIs ==
  ASSUME IsStream(stream), NEW s, NEW p \in Nat \ {0}, NEW k \in Nat \ {0}, Reads(s, p - 1),
         NEW data \in Seq(Nat), Len(data) = k,
         \A i \in 1..k : data[i] = stream.bytes[p + i - 1], NEW t, t = Take(s, data)
  PROVE  /\ Reads(t, p + k - 1) /\ t.at + t.skip = s.at + s.skip /\ s.at <= t.at
         /\ s.skip >= k => t.at = p + k
<1> DEFINE l == Len(data)
           h == Len(s.buf)
<1>1. s \in Framers /\ s.at + h = p /\ (s.skip > 0 => h = 0)
  BY DEF Reads
<1>2. s.at \in Nat \ {0} /\ s.skip \in Nat /\ h \in Nat /\ s.buf \in Seq(Nat)
  BY <1>1, FieldsAre
<1>3. data \in Seq(Nat) /\ l = k /\ \A i \in 1..k : data[i] = stream.bytes[p + i - 1]
  OBVIOUS
<1>18. PICK n : Skipping(s, t, data, n)
  BY <1>1, <1>3, TakeFields
<1>5. /\ n \in 0..l /\ n <= s.skip /\ n \in {s.skip, l}
      /\ t \in Framers /\ t.skip = s.skip - n /\ t.at = s.at + n
      /\ t.buf = s.buf \o SubSeq(data, n + 1, l)
  BY <1>18 DEF Skipping
<1> DEFINE rest == SubSeq(data, n + 1, l)
<1>4. n \in Nat /\ l \in Nat /\ n <= l
  BY <1>3, <1>5
<1>6. rest \in Seq(Nat) /\ Len(rest) = l - n /\ \A i \in 1..(l - n) : rest[i] = data[n + i]
  <2> HIDE DEF l
  <2> QED BY <1>3, <1>4, Cut DEF l
<1>17. t.buf = s.buf \o rest
  BY <1>5
<1> HIDE DEF rest
<1>7. /\ Len(t.buf) = h + (l - n) /\ \A i \in 1..h : t.buf[i] = s.buf[i]
      /\ \A i \in 1..(l - n) : t.buf[h + i] = rest[i]
  <2>1. /\ Len(s.buf \o rest) = h + Len(rest) /\ \A i \in 1..h : (s.buf \o rest)[i] = s.buf[i]
        /\ \A i \in 1..Len(rest) : (s.buf \o rest)[h + i] = rest[i]
    <3> DEFINE b == s.buf
    <3>1. b \in Seq(Nat) /\ rest \in Seq(Nat)
      BY <1>2, <1>6
    <3> HIDE DEF b
    <3>2. /\ Len(b \o rest) = Len(b) + Len(rest) /\ \A i \in 1..Len(b) : (b \o rest)[i] = b[i]
          /\ \A i \in 1..Len(rest) : (b \o rest)[Len(b) + i] = rest[i]
      BY <3>1, Concat
    <3> QED
      BY <3>2 DEF b
  <2> HIDE DEF l, h
  <2>2. Len(t.buf) = h + (l - n)
    BY <1>6, <1>17, <2>1
  <2>3. \A i \in 1..h : t.buf[i] = s.buf[i]
    BY <1>17, <2>1
  <2>4. \A i \in 1..(l - n) : t.buf[h + i] = rest[i]
    BY <1>6, <1>17, <2>1
  <2> QED
    BY <2>2, <2>3, <2>4
<1>8. n > 0 => h = 0
  BY <1>1, <1>2, <1>4, <1>5
<1> DEFINE a == s.at
           c == t.at
           m == Len(t.buf)
           x == s.skip
           y == t.skip
<1>16. /\ a \in Nat /\ c \in Nat /\ m \in Nat /\ x \in Nat /\ y \in Nat /\ h \in Nat /\ n \in Nat
       /\ l = k /\ n <= l /\ n <= x /\ n \in {x, l}
       /\ a + h = p /\ y = x - n /\ c = a + n /\ m = h + (l - n)
  <2>1. m \in Nat /\ y \in Nat /\ c \in Nat
    BY <1>5, FieldsAre
  <2>2. m = h + (l - n)
    BY <1>7
  <2> QED
    BY <1>1, <1>2, <1>3, <1>4, <1>5, <2>1, <2>2
<1>9. ASSUME NEW i \in 1..Len(t.buf) PROVE t.buf[i] = stream.bytes[t.at + i - 1]
  <2>1. CASE i <= h
    <3>1. i \in 1..h /\ n = 0
      BY <1>2, <1>4, <1>8, <2>1
    <3>2. s.buf[i] = stream.bytes[s.at + i - 1]
      BY <3>1 DEF Reads
    <3>3. t.at = s.at
      BY <1>2, <1>5, <3>1
    <3> HIDE DEF h
    <3> QED
      BY <1>7, <3>1, <3>2, <3>3
  <2>2. CASE ~(i <= h)
    <3> DEFINE j == i - h
    <3>1. j \in 1..(l - n) /\ i = h + j /\ n + j \in 1..k
      <4> HIDE DEF h, l
      <4> QED BY <1>2, <1>3, <1>4, <1>7, <2>2
    <3>2. t.buf[i] = data[n + j]
      <4> HIDE DEF h, l, j
      <4> QED BY <1>6, <1>7, <3>1
    <3>3. data[n + j] = stream.bytes[p + (n + j) - 1]
      <4> HIDE DEF h, l, j
      <4> QED BY <1>3, <3>1
    <3>4. p + (n + j) - 1 = t.at + i - 1
      <4>1. p + (n + j) - 1 = c + i - 1
        <5> HIDE DEF h, l, j, a, c, m, x, y
        <5> QED BY <1>16, <3>1
      <4> QED BY <4>1
    <3> HIDE DEF h, l, j
    <3> QED
      BY <3>2, <3>3, <3>4
  <2> QED
    BY <2>1, <2>2
<1>10. t.at + Len(t.buf) = (p + k - 1) + 1
  <2>1. c + m = (p + k - 1) + 1
    <3> HIDE DEF h, l, a, c, m, x, y
    <3> QED BY <1>16
  <2> QED
    BY <2>1
<1>11. t.skip > 0 => Len(t.buf) = 0
  <2>1. y > 0 => m = 0
    <3> HIDE DEF h, l, a, c, m, x, y
    <3> QED BY <1>8, <1>16
  <2> QED
    BY <2>1
<1>12. Reads(t, p + k - 1)
  BY <1>5, <1>9, <1>10, <1>11 DEF Reads
<1>13. t.at + t.skip = s.at + s.skip /\ s.at <= t.at
  <2>1. c + y = a + x /\ a <= c
    <3> HIDE DEF h, l, a, c, m, x, y
    <3> QED BY <1>16
  <2> QED
    BY <2>1
<1>15. s.skip >= k => t.at = p + k
  <2>1. x >= k => c = p + k
    <3> HIDE DEF h, l, a, c, m, x, y
    <3> QED BY <1>8, <1>16
  <2> QED
    BY <2>1
<1> QED
  BY <1>12, <1>13, <1>15

LEMMA InitIsFramer ==
  ASSUME NEW p \in Nat \ {0}
  PROVE  FramerInit(p) \in Framers
<1>1. -(MaxWait + 1) \in Int
  BY FramerConstants
<1> QED
  BY <1>1 DEF FramerInit, Framers

Anew(s, p, o) == [Reset(s, p) EXCEPT !.overflows = o]

LEMMA ResetIs ==
  ASSUME NEW s \in Framers, NEW p \in Nat \ {0}, NEW o \in {0, 1}, NEW t, t = Anew(s, p, o)
  PROVE  /\ t \in Framers /\ t.buf = <<>> /\ t.at = p /\ t.skip = 0 /\ t.unknown = s.unknown
<1> DEFINE i == FramerInit(p)
           v == s.unknown
<1>1. i \in Framers
  BY InitIsFramer
<1>2. v \in {0, 1}
  BY FieldsAre
<1>3. t = [i EXCEPT !.unknown = v, !.overflows = o]
  BY DEF Anew, Reset, FramerInit
<1>4. i.buf = <<>> /\ i.at = p /\ i.skip = 0
  BY DEF FramerInit
<1> HIDE DEF i, v
<1>5. t \in Framers
  BY <1>1, <1>2, <1>3 DEF Framers
<1>6. t.buf = i.buf /\ t.at = i.at /\ t.skip = i.skip /\ t.unknown = v
  BY <1>1, <1>3 DEF Framers
<1> QED
  BY <1>4, <1>5, <1>6 DEF v

LEMMA ResetForgets ==
  ASSUME NEW s, NEW p, NEW o, NEW t, t = Anew(s, p, o)
  PROVE  t.prev = Unknown
  BY DEF Anew, Reset, FramerInit

LEMMA ResetWaitsForNothing ==
  ASSUME NEW s, NEW p, NEW o, NEW t, t = Anew(s, p, o)
  PROVE  ~t.waiting
  BY DEF Anew, Reset, FramerInit

\* The state of a framer that has been fed up to `to`, at rest.
Resting(s, t, to, from) ==
  /\ Reads(s, to) /\ Tells(t, s) /\ Remembers(t, s)
  /\ OnTrack(t, s, to, from) /\ Halted(t, s, to, from)

LEMMA TellsAt ==
  ASSUME NEW t, NEW s \in Framers, Tells(t, s)
  PROVE  /\ t \in Seq(Reports) /\ Len(t) \in Nat
         /\ \A i \in 1..Len(t) : t[i].at \in Nat \ {0} /\ t[i].at < s.at
<1>1. t \in Seq(Reports) /\ \A i \in 1..Len(t) : t[i].at < s.at
  BY DEF Tells
<1>2. Len(t) \in Nat /\ \A i \in 1..Len(t) : t[i] \in Reports
  BY <1>1
<1>3. \A e \in Reports : e.at \in Nat \ {0}
  BY DEF Reports
<1> QED
  BY <1>1, <1>2, <1>3

\* A framer that starts anew with later bytes.
LEMMA ResetRests ==
  ASSUME NEW s, NEW t, NEW to \in Nat, NEW from \in Nat, Reads(s, to), Tells(t, s), Remembers(t, s),
         Lost(t, from), NEW p \in Nat \ {0}, to + 1 <= p, NEW o \in {0, 1},
         NEW u, u = Anew(s, p, o)
  PROVE  Resting(u, t, p - 1, from)
<1>1. s \in Framers /\ s.at + Len(s.buf) = to + 1
  BY DEF Reads
<1>2. u \in Framers /\ u.buf = <<>> /\ u.at = p /\ u.skip = 0 /\ u.unknown = s.unknown
  <2>1. s \in Framers /\ p \in Nat \ {0} /\ o \in {0, 1} /\ u = Anew(s, p, o)
    BY <1>1
  <2> QED BY ONLY <2>1, ResetIs
<1>3. s.at \in Nat /\ Len(s.buf) \in Nat /\ s.at <= u.at
  BY <1>1, <1>2, FieldsAre
<1>4. Reads(u, p - 1)
  BY <1>2 DEF Reads
<1>5. Tells(t, u)
  BY <1>1, <1>2, <1>3, TellsStill
<1>6. u.prev # FALSE
  BY FramerConstants, ResetForgets
<1>8. ~u.waiting
  BY ResetWaitsForNothing
<1>7. Remembers(t, u)
  BY <1>2, <1>6, <1>8 DEF Remembers
<1> QED
  BY <1>4, <1>5, <1>7, LostIsOnTrack DEF Resting

LEMMA DueLater ==
  ASSUME NEW q, NEW a \in Nat, NEW b \in Nat, a <= b, Due(q, a), q \in Nat,
         stream.bytes[q] \in Nat
  PROVE  Due(q, b)
  BY FramerConstants DEF Due

LEMMA TakeRests ==
  ASSUME IsStream(stream), NEW s, NEW v, NEW from \in Nat, NEW p \in Nat \ {0}, NEW k \in Nat \ {0},
         Resting(s, v, p - 1, from), p + k - 1 <= Len(stream.bytes),
         NEW data \in Seq(Nat), Len(data) = k,
         \A i \in 1..k : data[i] = stream.bytes[p + i - 1], NEW t, t = Take(s, data)
  PROVE  /\ Reads(t, p + k - 1) /\ Tells(v, t) /\ Remembers(v, t)
         /\ OnTrack(v, t, p + k - 1, from)
         /\ s.skip >= k => Halted(v, t, p + k - 1, from)
<1>1. Reads(s, p - 1) /\ Tells(v, s) /\ Remembers(v, s) /\ OnTrack(v, s, p - 1, from)
  BY DEF Resting
<1>2. /\ Reads(t, p + k - 1) /\ t.at + t.skip = s.at + s.skip /\ s.at <= t.at
      /\ s.skip >= k => t.at = p + k
  BY <1>1, TakeIs
<1>3. s \in Framers /\ t \in Framers
  BY <1>1, <1>2 DEF Reads
<1>4. t.locked = s.locked /\ t.prev = s.prev /\ t.waiting = s.waiting /\ t.unknown = s.unknown
  BY <1>3, TakeKeeps
<1>5. Tells(v, t)
  BY <1>1, <1>2, <1>3, TellsStill
<1>6. Remembers(v, t)
  BY <1>1, <1>4 DEF Remembers
<1>7. OnTrack(v, t, p + k - 1, from)
  <2> SUFFICES ASSUME NEW x \in stream.starts, x >= from, x \in Places(v)
               PROVE  /\ t.locked
                      /\ t.at + t.skip <= Len(stream.bytes) => t.at + t.skip \in stream.starts
                      /\ \A q \in stream.starts : x <= q /\ q < t.at + t.skip => q \in Places(v)
                      /\ \A y \in Places(v) : y >= x => y \in stream.starts /\ Due(y, p + k - 1)
    BY DEF OnTrack
  <2>1. /\ s.locked
        /\ s.at + s.skip <= Len(stream.bytes) => s.at + s.skip \in stream.starts
        /\ \A q \in stream.starts : x <= q /\ q < s.at + s.skip => q \in Places(v)
        /\ \A y \in Places(v) : y >= x => y \in stream.starts /\ Due(y, p - 1)
    BY <1>1 DEF OnTrack
  <2>2. ASSUME NEW y \in Places(v), y >= x PROVE y \in stream.starts /\ Due(y, p + k - 1)
    <3>1. y \in stream.starts /\ Due(y, p - 1)
      BY <2>1, <2>2
    <3>2. y \in Nat /\ stream.bytes[y] \in Nat
      <4>1. stream.bytes \in Seq(Nat) /\ y \in DOMAIN stream.bytes
        BY <3>1 DEF IsStream
      <4> DEFINE b == stream.bytes
      <4>2. b \in Seq(Nat) /\ y \in 1..Len(b)
        BY <4>1
      <4> HIDE DEF b
      <4>3. y \in Nat /\ b[y] \in Nat
        BY <4>2
      <4> QED
        BY <4>3 DEF b
    <3>3. p - 1 \in Nat /\ p + k - 1 \in Nat /\ p - 1 <= p + k - 1
      OBVIOUS
    <3> QED
      BY <3>1, <3>2, <3>3, DueLater
  <2>3. \A q \in stream.starts : x <= q /\ q < t.at + t.skip => q \in Places(v)
    BY <1>2, <2>1
  <2>4. t.at + t.skip <= Len(stream.bytes) => t.at + t.skip \in stream.starts
    BY <1>2, <2>1
  <2> QED
    BY <1>4, <2>1, <2>2, <2>3, <2>4
<1>8. ASSUME s.skip >= k PROVE Halted(v, t, p + k - 1, from)
  <2>1. t.at = p + k
    BY <1>2, <1>8
  <2>2. Len(t.buf) = 0
    <3> DEFINE a == t.at
               m == Len(t.buf)
    <3>1. a + m = (p + k - 1) + 1 /\ m \in Nat /\ a = p + k
      BY <1>2, <1>3, <2>1, FieldsAre DEF Reads
    <3>2. m = 0
      <4> HIDE DEF a, m
      <4> QED BY <3>1
    <3> QED
      BY <3>2
  <2>3. ~Due(t.at, p + k - 1)
    BY <2>1, FramerConstants DEF Due
  <2>4. Len(t.buf) <= MaxBuffer
    BY <2>2, Windows
  <2> QED
    BY <2>3, <2>4 DEF Halted
<1> QED
  BY <1>2, <1>5, <1>6, <1>7, <1>8

LEMMA NothingAdded ==
  ASSUME NEW S, NEW t \in Seq(S)
  PROVE  t \o <<>> = t
  OBVIOUS

LEMMA OverflowIsLost ==
  ASSUME NEW s, NEW t, NEW to, NEW from, Reads(s, to), OnTrack(t, s, to, from),
         Halted(t, s, to, from), ~(Len(s.buf) <= MaxBuffer)
  PROVE  Lost(t, from)
<1>1. s \in Framers /\ (s.skip > 0 => Len(s.buf) = 0)
  BY DEF Reads
<1>2. s.skip = 0
  <2>1. s.skip \in Nat /\ Len(s.buf) # 0
    BY <1>1, FieldsAre, Windows
  <2> QED
    BY <1>1, <2>1
<1> QED
  BY <1>2 DEF Halted, Lost

\* A call of feed() leads from rest to rest.
LEMMA FeedRests ==
  ASSUME IsStream(stream), NEW ts \in Int, NEW s, NEW v, NEW from \in Nat, NEW p \in Nat \ {0},
         NEW k \in Nat \ {0}, Resting(s, v, p - 1, from), p + k - 1 <= Len(stream.bytes),
         NEW data \in Seq(Nat), Len(data) = k,
         \A i \in 1..k : data[i] = stream.bytes[p + i - 1], NEW r, r = FeedPiece(s, data, ts)
  PROVE  r.out \in Seq(Reports) /\ Resting(r.s, v \o r.out, p + k - 1, from)
<1> DEFINE t == Take(s, data)
           to == p + k - 1
<1>1. /\ Reads(t, to) /\ Tells(v, t) /\ Remembers(v, t) /\ OnTrack(v, t, to, from)
      /\ s.skip >= k => Halted(v, t, to, from)
  BY TakeRests
<1>2. to \in Nat /\ v \in Seq(Reports) /\ v \o <<>> = v /\ t \in Framers /\ to <= Len(stream.bytes)
  <2>1. v \in Seq(Reports) /\ t \in Framers
    BY <1>1 DEF Tells, Reads
  <2>2. v \o <<>> = v
    BY <2>1, NothingAdded
  <2> HIDE DEF t
  <2> QED
    BY <2>1, <2>2
<1>3. CASE s.skip >= k
  <2>1. r = [s |-> t, out |-> <<>>]
    BY <1>3 DEF FeedPiece
  <2> HIDE DEF t, to
  <2>2. r.s = t /\ r.out = <<>> /\ <<>> \in Seq(Reports)
    BY <2>1
  <2>3. Resting(t, v, to, from)
    BY <1>1, <1>3 DEF Resting
  <2> QED
    BY <1>2, <2>2, <2>3 DEF to
<1>4. CASE ~(s.skip >= k)
  <2> DEFINE start == [s |-> t, out |-> <<>>, done |-> FALSE]
             q == Loop(t, ts)
  <2>1. r = Bounded(q)
    BY <1>4 DEF FeedPiece
  <2>2. t.skip = 0
    <3>1. Reads(s, p - 1)
      BY DEF Resting
    <3>2. s.skip < k => t.skip = 0
      BY <3>1, TakeSkips DEF Reads
    <3>3. s.skip \in Nat
      BY <3>1, FieldsAre DEF Reads
    <3> QED
      BY <1>4, <3>2, <3>3
  <2>3. start \in Runs /\ start.s = t /\ start.out = <<>> /\ ~start.done
    <3> HIDE DEF t
    <3> QED BY <1>2 DEF Runs
  <2>4. Running(start, v, to, from)
    <3> HIDE DEF start, t, to
    <3> QED BY <1>1, <1>2, <2>2, <2>3 DEF Running
  <2>5. Running(q, v, to, from) /\ q.done
    <3>1. start = [s |-> t, out |-> <<>>, done |-> FALSE]
      OBVIOUS
    <3> HIDE DEF start, t, to
    <3> QED BY <1>2, <2>4, <3>1, LoopIs
  <2> HIDE DEF q, t, to, start
  <2> DEFINE w == v \o q.out
  <2>6. /\ q \in Runs /\ Reads(q.s, to) /\ Tells(w, q.s) /\ Remembers(w, q.s)
        /\ OnTrack(w, q.s, to, from) /\ Halted(w, q.s, to, from)
    BY <2>5 DEF Running
  <2>7. q.s \in Framers /\ q.out \in Seq(Reports)
    BY <2>6, RunFields
  <2>8. CASE Len(q.s.buf) <= MaxBuffer
    <3>1. r = q
      BY <2>1, <2>8 DEF Bounded
    <3> HIDE DEF w
    <3>2. Resting(q.s, w, to, from)
      BY <2>6 DEF Resting
    <3> QED
      BY <2>7, <3>1, <3>2 DEF to, w
  <2>9. CASE ~(Len(q.s.buf) <= MaxBuffer)
    <3> DEFINE e == q.s.at + Len(q.s.buf)
               u == Anew(q.s, e, 1)
    <3>1. r.s = u /\ r.out = q.out
      BY <2>1, <2>9 DEF Bounded, Anew
    <3>2. e = to + 1
      BY <2>6 DEF Reads
    <3>3. Lost(w, from)
      <4> HIDE DEF w
      <4> QED BY <2>6, <2>9, OverflowIsLost
    <3> HIDE DEF e
    <3>4. e \in Nat \ {0} /\ to + 1 <= e /\ e - 1 = to /\ 1 \in {0, 1}
      <4>1. to \in Nat
        BY <1>2
      <4> QED BY <3>2, <4>1
    <3>5. Resting(u, w, e - 1, from)
      <4>1. u = Anew(q.s, e, 1)
        OBVIOUS
      <4> HIDE DEF u, w
      <4> QED BY <1>2, <2>6, <3>3, <3>4, <4>1, ResetRests
    <3> HIDE DEF u, w
    <3> QED
      BY <2>7, <3>1, <3>4, <3>5 DEF to, w
  <2> QED
    BY <2>8, <2>9
<1> QED
  BY <1>3, <1>4

-----------------------------------------------------------------------------
(***************************************************************************)
(* The steps.                                                              *)
(***************************************************************************)
FramerInv ==
  /\ IsStream(stream) /\ fed \in Nat /\ fed <= Len(stream.bytes) /\ clock \in Int /\ origin \in Nat
  /\ Resting(framer, told, fed, origin)

LEMMA InitRests ==
  ASSUME NEW o
  PROVE  Resting(FramerInit(1), <<>>, 0, o)
<1> DEFINE i == FramerInit(1)
<1>1. i \in Framers
  <2>1. 1 \in Nat \ {0}
    OBVIOUS
  <2> QED BY <2>1, InitIsFramer
<1>2. i.buf = <<>> /\ i.at = 1 /\ i.skip = 0 /\ i.prev = Unknown /\ i.unknown = 0
  BY DEF FramerInit
<1>3. ~i.waiting
  BY DEF FramerInit
<1> HIDE DEF i
<1>4. Reads(i, 0)
  BY <1>1, <1>2 DEF Reads
<1>5. <<>> \in Seq(Reports) /\ Len(<<>>) = 0
  OBVIOUS
<1>6. Tells(<<>>, i)
  BY <1>5 DEF Tells
<1>7. i.prev # FALSE
  BY <1>2, FramerConstants
<1>8. Remembers(<<>>, i)
  <2>1. ~(i.unknown > 0)
    BY <1>2
  <2> QED BY <1>3, <1>7, <2>1 DEF Remembers
<1>9. Lost(<<>>, o)
  BY <1>5 DEF Lost, Places
<1> QED
  BY <1>4, <1>6, <1>8, <1>9, LostIsOnTrack DEF Resting, i

\* The bytes behind a place where nothing was reported yet are new to the framer.
LEMMA NewPlace ==
  ASSUME NEW s, NEW t, NEW to \in Nat, Reads(s, to), Tells(t, s), NEW p \in Nat, to + 1 <= p
  PROVE  Lost(t, p)
<1>1. s \in Framers /\ s.at + Len(s.buf) = to + 1
  BY DEF Reads
<1>2. s.at \in Nat /\ Len(s.buf) \in Nat
  BY <1>1, FieldsAre
<1>3. s.at <= to + 1
  BY <1>1, <1>2
<1>4. ASSUME NEW x \in Places(t) PROVE x \in Nat /\ x < p
  <2>1. PICK i \in 1..Len(t) : x = t[i].at
    BY DEF Places
  <2>2. t[i].at \in Nat \ {0} /\ t[i].at < s.at
    BY <1>1, TellsAt
  <2> QED BY <1>2, <1>3, <2>1, <2>2
<1> QED
  BY <1>4 DEF Lost

\* Whatever is handed to the framer, if it is new, is well taken.
LEMMA DeliverIs ==
  ASSUME FramerInv, NEW p \in Nat \ {0}, NEW k \in Nat \ {0}, NEW anew \in BOOLEAN,
         p + k - 1 <= Len(stream.bytes), fed + 1 <= p, ~anew => p = fed + 1, Deliver(p, k, anew)
  PROVE  FramerInv'
<1> DEFINE s == IF anew THEN Reset(framer, p) ELSE framer
           data == Content(p, p + k - 1)
           r == FeedPiece(s, data, clock)
           o == IF anew THEN p ELSE origin
<1>1. /\ IsStream(stream) /\ fed \in Nat /\ clock \in Int /\ origin \in Nat
      /\ Resting(framer, told, fed, origin)
  BY DEF FramerInv
<1>2. /\ framer' = r.s /\ told' = told \o r.out /\ fed' = p + k - 1 /\ origin' = o
      /\ stream' = stream /\ clock' = clock
  BY DEF Deliver
<1>3. data \in Seq(Nat) /\ Len(data) = k /\ \A i \in 1..k : data[i] = stream.bytes[p + i - 1]
  BY <1>1, ContentIs
<1>4. o \in Nat
  BY <1>1
<1>5. Resting(s, told, p - 1, o)
  <2>1. CASE anew
    <3>1. Reads(framer, fed) /\ Tells(told, framer) /\ Remembers(told, framer)
      BY <1>1 DEF Resting
    <3>2. Lost(told, p)
      BY <1>1, <3>1, NewPlace
    <3>3. framer \in Framers
      BY <3>1 DEF Reads
    <3> DEFINE v == framer.overflows
    <3>4. v \in {0, 1}
      BY <3>3, FieldsAre
    <3>5. s = Anew(framer, p, v) /\ o = p
      BY <2>1 DEF Anew, Reset, FramerInit
    <3> HIDE DEF s, v, o
    <3> QED
      BY <1>1, <1>4, <3>1, <3>2, <3>4, <3>5, ResetRests
  <2>2. CASE ~anew
    <3>1. s = framer /\ p - 1 = fed /\ o = origin
      BY <1>1, <2>2
    <3> HIDE DEF s, o
    <3> QED BY <1>1, <3>1
  <2> QED
    BY <2>1, <2>2
<1> HIDE DEF s, data, o
<1>6. Resting(r.s, told \o r.out, p + k - 1, o)
  <2>1. r = FeedPiece(s, data, clock)
    OBVIOUS
  <2> HIDE DEF r
  <2>2. IsStream(stream) /\ clock \in Int
    BY <1>1
  <2> QED BY <1>3, <1>4, <1>5, <2>1, <2>2, FeedRests
<1> DEFINE to == p + k - 1
<1>7. to \in Nat /\ to <= Len(stream.bytes) /\ fed' = to
  BY <1>2
<1> HIDE DEF r
<1>8. /\ Reads(framer', to) /\ Tells(told', framer') /\ Remembers(told', framer')
      /\ OnTrack(told', framer', to, origin') /\ Halted(told', framer', to, origin')
  BY <1>2, <1>6 DEF Resting
<1> HIDE DEF to
<1>9. Resting(framer, told, fed, origin)'
  <2>1. Reads(framer, fed)'
    BY <1>2, <1>7, <1>8 DEF Reads
  <2>2. Tells(told, framer)'
    BY <1>2, <1>8 DEF Tells, IsTrue, BodyAt
  <2>3. Remembers(told, framer)'
    BY <1>8 DEF Remembers
  <2>4. OnTrack(told, framer, fed, origin)'
    BY <1>2, <1>7, <1>8 DEF OnTrack, Due
  <2>5. Halted(told, framer, fed, origin)'
    BY <1>2, <1>7, <1>8 DEF Halted, Due
  <2> QED
    BY <2>1, <2>2, <2>3, <2>4, <2>5 DEF Resting
<1> QED
  BY <1>1, <1>2, <1>4, <1>7, <1>9 DEF FramerInv, IsStream

LEMMA FramerInvInit ==
  ASSUME IsStream(stream), fed = 0, framer = FramerInit(1), told = <<>>, clock = 0, origin = 1
  PROVE  FramerInv
<1>1. Resting(framer, told, fed, origin)
  BY InitRests
<1>2. Len(stream.bytes) \in Nat
  BY DEF IsStream
<1> QED
  BY <1>1, <1>2 DEF FramerInv

\* What the framer knows does not depend on the clock.
LEMMA SameFramer ==
  ASSUME FramerInv, stream' = stream, fed' = fed, framer' = framer, told' = told, origin' = origin,
         clock' \in Int
  PROVE  FramerInv'
<1>1. /\ Reads(framer, fed) /\ Tells(told, framer) /\ Remembers(told, framer)
      /\ OnTrack(told, framer, fed, origin) /\ Halted(told, framer, fed, origin)
  BY DEF FramerInv, Resting
<1>2. Reads(framer, fed)'
  BY <1>1 DEF Reads
<1>3. Tells(told, framer)'
  BY <1>1 DEF Tells, IsTrue, BodyAt
<1>4. Remembers(told, framer)'
  BY <1>1 DEF Remembers
<1>5. OnTrack(told, framer, fed, origin)'
  BY <1>1 DEF OnTrack, Due
<1>6. Halted(told, framer, fed, origin)'
  BY <1>1 DEF Halted, Due
<1> QED
  BY <1>2, <1>3, <1>4, <1>5, <1>6 DEF FramerInv, Resting, IsStream

LEMMA FramerInvStep == FramerInv /\ [SNext]_svars => FramerInv'
<1> SUFFICES ASSUME FramerInv, [SNext]_svars PROVE FramerInv'
  OBVIOUS
<1> DEFINE l == Len(stream.bytes)
<1>1. fed \in Nat /\ l \in Nat /\ Left = l - fed /\ clock \in Int
  BY DEF FramerInv, IsStream, Left
<1>2. MaxPiece \in Nat /\ MaxHole \in Nat
  BY FramerAssumption
<1>3. ASSUME NEW n \in 1..MaxPiece, Piece(n) PROVE FramerInv'
  <2> DEFINE p == fed + 1
  <2>1. n <= Left /\ Deliver(p, n, FALSE)
    BY <1>3 DEF Piece
  <2>2. p \in Nat \ {0} /\ n \in Nat \ {0} /\ p + n - 1 <= l /\ fed + 1 <= p /\ p = fed + 1
    <3> HIDE DEF l
    <3> QED BY <1>1, <1>2, <2>1
  <2> HIDE DEF p
  <2> QED BY <2>1, <2>2, DeliverIs
<1>4. ASSUME NEW gap \in 1..MaxHole, NEW n \in 1..MaxPiece, Hole(gap, n) PROVE FramerInv'
  <2> DEFINE p == fed + gap + 1
  <2>1. gap + n <= Left /\ Deliver(p, n, TRUE)
    BY <1>4 DEF Hole
  <2>2. p \in Nat \ {0} /\ n \in Nat \ {0} /\ p + n - 1 <= l /\ fed + 1 <= p
    <3> HIDE DEF l
    <3> QED BY <1>1, <1>2, <2>1
  <2> HIDE DEF p
  <2> QED BY <2>1, <2>2, DeliverIs
<1>5. CASE Wait
  BY <1>1, <1>5, SameFramer DEF Wait
<1>6. CASE UNCHANGED svars
  BY <1>1, <1>6, SameFramer DEF svars
<1> QED
  BY <1>3, <1>4, <1>5, <1>6 DEF SNext

\* Whatever is fed, the framer holds bytes of the stream, has reported in order and
\* truly what it is past, and stands before a frame once it has reported one (feed).
THEOREM FramerInvariant == SSpec => []FramerInv
<1>1. SInit => FramerInv
  <2> SUFFICES ASSUME SInit PROVE FramerInv
    OBVIOUS
  <2>1. IsStream(stream)
    BY FramerConstants DEF SInit
  <2> QED BY <2>1, FramerInvInit DEF SInit
<1> QED
  BY <1>1, FramerInvStep, PTL DEF SSpec

LEMMA FramerInvTrue == FramerInv => TrueToStream
<1> SUFFICES ASSUME FramerInv PROVE TrueToStream
  OBVIOUS
<1>1. Reads(framer, fed) /\ Tells(told, framer) /\ Remembers(told, framer)
  BY DEF FramerInv, Resting
<1>2. told \in Seq(Reports) /\ DOMAIN told = 1..Len(told)
  BY <1>1 DEF Tells
<1>3. \A i \in 1..(Len(told) - 1) : told[i].at < told[i + 1].at
  BY <1>1 DEF Tells
<1>4. ASSUME NEW i \in DOMAIN told
      PROVE  LET p == told[i].at
                 body == SubSeq(stream.bytes, p + 1, p + stream.bytes[p] - 1)
             IN  /\ told[i].body \in {body, <<>>}
                 /\ p \in stream.starts /\ told[i].op = PageOp /\ Len(body) <= PageMax /\ IsPage(body)
                      => told[i].body = body
  <2>1. IsTrue(told[i])
    BY <1>1, <1>2 DEF Tells
  <2> QED
    BY <2>1 DEF IsTrue, BodyAt
<1>5. framer.unknown > 0 =>
        \E i \in 2..(Len(told) - 1) :
          /\ told[i].op = MarkerOp
          /\ told[i - 1].op # JochulOp /\ told[i + 1].op # JochulOp
  BY <1>1 DEF Remembers
<1> QED
  BY <1>3, <1>4, <1>5 DEF TrueToStream

\* So no byte is judged twice, every body handed on is the stream's and every
\* well-formed page within the bound is handed on; unknown popups are seen from
\* both sides (feed and _note_popup_neighbour).
THEOREM StreamIsTrue == SSpec => []TrueToStream
<1> QED
  BY FramerInvariant, FramerInvTrue, PTL

\* From a frame of the stream on, a frame that is due is behind what the framer
\* is past: the one it stands before is not due.
LEMMA DueIsPassed ==
  ASSUME FramerInv, NEW x \in stream.starts, x >= origin, x \in Places(told),
         NEW q \in stream.starts, x <= q, Due(q, fed)
  PROVE  q \in Places(told)
<1> DEFINE e == framer.at + framer.skip
<1>1. /\ Reads(framer, fed) /\ OnTrack(told, framer, fed, origin)
      /\ Halted(told, framer, fed, origin) /\ IsStream(stream) /\ fed \in Nat
  BY DEF FramerInv, Resting
<1>2. /\ framer \in Framers /\ framer.at + Len(framer.buf) = fed + 1
      /\ framer.skip > 0 => Len(framer.buf) = 0
  BY <1>1 DEF Reads
<1>3. framer.at \in Nat /\ framer.skip \in Nat /\ Len(framer.buf) \in Nat
  BY <1>2, FieldsAre
<1>4. /\ e <= Len(stream.bytes) => e \in stream.starts
      /\ \A z \in stream.starts : x <= z /\ z < e => z \in Places(told)
  BY <1>1 DEF OnTrack
<1>5. q \in Nat /\ q + HeaderLen <= fed /\ q \in 1..Len(stream.bytes)
  BY <1>1 DEF IsStream, Due
<1>6. q < e
  <2> SUFFICES ASSUME ~(q < e) PROVE FALSE
    OBVIOUS
  <2>1. framer.skip = 0
    <3>1. framer.skip > 0 => e > fed
      <4> DEFINE a == framer.at
                 h == framer.skip
                 m == Len(framer.buf)
      <4>1. a \in Nat /\ h \in Nat /\ m \in Nat /\ a + m = fed + 1 /\ (h > 0 => m = 0)
        BY <1>2, <1>3
      <4>2. h > 0 => a + h > fed
        <5> HIDE DEF a, h, m
        <5> QED BY <1>1, <4>1
      <4> QED BY <4>2
    <3>2. q <= fed
      BY <1>1, <1>5, FramerConstants
    <3> HIDE DEF e
    <3>3. e \in Nat
      BY <1>3 DEF e
    <3> QED BY <1>1, <1>3, <1>5, <3>1, <3>2, <3>3
  <2>2. e = framer.at
    BY <1>3, <2>1
  <2>3. ~Due(e, fed)
    BY <1>1, <2>1, <2>2 DEF Halted
  <2>4. e < q /\ e \in Nat
    BY <1>3, <1>5, <2>2, <2>3
  <2>5. e \in stream.starts
    BY <1>4, <1>5, <2>4
  <2>6. ~Due(e, fed) /\ q \in stream.starts /\ e + HeaderLen <= fed
    BY <1>1, <1>5, <2>3, <2>4, FramerConstants
  <2>7. ~(e + stream.bytes[e] - 1 <= fed)
    BY <2>6 DEF Due
  <2> DEFINE b == stream.bytes[e]
  <2>8. b \in Nat /\ \A z \in (e + 1)..(e + b - 1) : z \notin stream.starts
    <3>1. e \in 1..Len(stream.bytes)
      BY <1>1, <2>5 DEF IsStream
    <3>2. b \in Nat
      BY <1>1, <3>1, ByteIs
    <3> QED BY <1>1, <2>5, <3>2 DEF IsStream
  <2>9. q \in (e + 1)..(e + b - 1)
    <3> HIDE DEF b, e
    <3> QED BY <1>1, <1>5, <2>4, <2>7, <2>8, FramerConstants DEF b
  <2> QED
    BY <2>8, <2>9
<1> QED
  BY <1>4, <1>6

LEMMA FramerInvMisses == FramerInv => NothingMissed
<1> SUFFICES ASSUME FramerInv, NEW i \in DOMAIN told,
                    told[i].at \in stream.starts, told[i].at >= origin
             PROVE  Told(told[i].at) = DueFrom(told[i].at)
  BY DEF NothingMissed
<1> DEFINE x == told[i].at
<1>1. /\ Tells(told, framer) /\ OnTrack(told, framer, fed, origin) /\ IsStream(stream)
  BY DEF FramerInv, Resting
<1>2. told \in Seq(Reports) /\ DOMAIN told = 1..Len(told)
  BY <1>1 DEF Tells
<1>3. x \in Places(told) /\ x \in stream.starts /\ x >= origin
  BY <1>2 DEF Places
<1>4. Told(x) = {y \in Places(told) : y >= x}
  BY <1>2 DEF Told, Places
<1>5. DueFrom(x) = {q \in stream.starts : q >= x /\ Due(q, fed)}
  BY DEF DueFrom, Due
<1>6. x \in Nat /\ stream.starts \subseteq Nat
  BY <1>1, <1>3 DEF IsStream
<1> HIDE DEF x
<1>7. ASSUME NEW y \in Told(x) PROVE y \in DueFrom(x)
  <2>1. y \in Places(told) /\ y >= x
    BY <1>4, <1>7
  <2>2. y \in stream.starts /\ Due(y, fed)
    BY <1>1, <1>3, <2>1 DEF OnTrack
  <2> QED BY <1>5, <2>1, <2>2
<1>8. ASSUME NEW q \in DueFrom(x) PROVE q \in Told(x)
  <2>1. q \in stream.starts /\ q >= x /\ Due(q, fed)
    BY <1>5, <1>8
  <2>2. x <= q
    BY <1>6, <2>1
  <2>3. q \in Places(told)
    BY <1>3, <2>1, <2>2, DueIsPassed
  <2> QED BY <1>4, <2>1, <2>3
<1>9. Told(x) = DueFrom(x)
  BY <1>7, <1>8
<1> QED
  BY <1>9 DEF x

\* And once a frame of the stream was reported, what is reported is exactly what
\* is due, however the bytes were cut into pieces (feed).
THEOREM NoFrameIsMissed == SSpec => []NothingMissed
<1> QED
  BY FramerInvariant, FramerInvMisses, PTL

-----------------------------------------------------------------------------
(***************************************************************************)
(* The framer behind the decoder.                                          *)
(***************************************************************************)
\* The decoder's output is a row of successive bytes.
LEMMA InARow ==
  ASSUME NEW s, Flows(s)
  PROVE  /\ \A i \in 1..Len(s.out) : s.out[i] = s.out[1] + i - 1
         /\ End(s.out) = s.out[1] + Len(s.out) /\ s.out[1] \in Int
         /\ Len(s.out) \in Nat \ {0} /\ s.out \in Seq(Int)
<1> DEFINE o == s.out
           m == Len(o)
           T == {i \in 1..m : o[i] # o[1] + i - 1}
<1>1. o \in Seq(Int) /\ m \in Nat \ {0}
  BY EndIs
<1>2. \A i \in 1..(m - 1) : o[i + 1] = o[i] + 1
  BY DEF Flows
<1> HIDE DEF o
<1>3. \A i \in 1..m : o[i] \in Int
  BY <1>1
<1>4. 1 \in 1..m /\ m \in 1..m
  BY <1>1
<1> HIDE DEF m
<1>5. T = {}
  <2> SUFFICES ASSUME T # {} PROVE FALSE
    OBVIOUS
  <2>1. PICK i \in T : \A j \in T : i <= j
    <3>1. T \subseteq Nat
      BY <1>1
    <3> HIDE DEF T
    <3> QED BY <3>1, Least
  <2>2. i \in 1..m /\ o[i] # o[1] + i - 1
    BY <2>1
  <2>3. i # 1
    BY <1>3, <1>4, <2>2
  <2> DEFINE j == i - 1
  <2>4. j \in 1..m /\ j \in 1..(m - 1) /\ i = j + 1 /\ ~(i <= j)
    BY <1>1, <2>2, <2>3
  <2>5. j \notin T
    <3> HIDE DEF T, j
    <3> QED BY <2>1, <2>4
  <2>6. o[j] = o[1] + j - 1
    <3> HIDE DEF j
    <3> QED BY <2>4, <2>5
  <2> HIDE DEF j
  <2>7. o[i] = o[j] + 1
    BY <1>2, <2>4
  <2> QED
    BY <1>3, <1>4, <2>2, <2>4, <2>6, <2>7
<1>6. \A i \in 1..m : o[i] = o[1] + i - 1
  BY <1>5
<1>7. End(o) = o[m] + 1
  BY DEF End, Last, m
<1>8. End(o) = o[1] + m
  BY <1>1, <1>3, <1>4, <1>6, <1>7
<1> QED
  BY <1>1, <1>3, <1>4, <1>6, <1>8 DEF o, m

\* What the decoder has, fed or held back, is of the stream.
WithinLength == dec.next # Unset => Within(State)

LEMMA WithinNow ==
  ASSUME NEW o, NEW q, out' = o, dec'.pending = q, End(o) <= Length,
         \A i \in 1..Len(q) : At(q[i]) + Len(q[i].data) <= Length
  PROVE  WithinLength'
  BY DEF WithinLength, Within, State, End, At, Last

\* How far the decoder has fed the framer.
FedTo == IF out = <<>> THEN 0 ELSE Position

\* The n bytes from p on are new to the framer, which starts anew with them or
\* goes on.
Hands(p, n, anew) ==
  /\ anew = (out = <<>> \/ out'[1] # out[1])
  /\ n = Len(out') - (IF anew THEN 0 ELSE Len(out))
  /\ p = Last(out') + 2 - n
  /\ p \in Int /\ n \in Nat \ {0} /\ p + n - 1 = Last(out') + 1 /\ p + n - 1 <= Length
  /\ FedTo + 1 <= p /\ (~anew => p = FedTo + 1)

LEMMA OutIs ==
  ASSUME FInv
  PROVE  /\ (out = <<>>) <=> (dec.next = Unset)
         /\ out # <<>> => FedTo = End(out) /\ Flows(State) /\ State.out = out
<1>1. CASE dec.next = Unset
  BY <1>1 DEF FInv
<1>2. CASE dec.next # Unset
  BY <1>2, StateIs DEF Follows, Flows, FedTo
<1> QED
  BY <1>1, <1>2

LEMMA BytesEnd ==
  ASSUME NEW at \in Int, NEW n \in 1..MaxSegment
  PROVE  /\ Len(Bytes(at, n)) = n /\ n \in Nat \ {0} /\ Bytes(at, n)[1] = at
         /\ Last(Bytes(at, n)) = at + n - 1 /\ End(Bytes(at, n)) = at + n /\ Bytes(at, n) # <<>>
<1> DEFINE d == Bytes(at, n)
<1>1. n \in Nat \ {0} /\ 1 \in 1..n /\ n \in 1..n
  BY Constants
<1>2. d \in Seq(Int) /\ Len(d) = n /\ \A i \in 1..n : d[i] = at + i - 1
  BY <1>1, BytesAre
<1> HIDE DEF d
<1>3. d[1] = at /\ d[n] = at + n - 1 /\ d # <<>>
  BY <1>1, <1>2
<1>4. Last(d) = at + n - 1 /\ End(d) = at + n
  BY <1>2, <1>3 DEF Last, End
<1> QED
  BY <1>1, <1>2, <1>3, <1>4 DEF d

LEMMA BecomesIs ==
  ASSUME NEW s, Becomes(s)
  PROVE  out' = s.out /\ dec'.pending = s.pending
  BY DEF Becomes

\* The first segment is what the framer begins with.
LEMMA FirstHands ==
  ASSUME FInv, NEW at \in 0..(Length - 1), NEW n \in 1..MaxSegment, at + n <= Length, First(at, n)
  PROVE  WithinLength' /\ \E p, k, anew : Hands(p, k, anew)
<1> DEFINE o == Bytes(at, n)
           s == [State EXCEPT !.next = SeqNo(at + n), !.out = o]
<1>1. dec.next = Unset /\ Becomes(s)
  BY DEF First
<1>2. out = <<>> /\ dec.pending = <<>>
  BY <1>1 DEF FInv
<1>3. s.out = o /\ s.pending = <<>>
  BY <1>2 DEF State
<1> HIDE DEF s
<1>4. out' = o /\ dec'.pending = <<>>
  BY <1>1, <1>3, BecomesIs
<1>5. at \in Nat /\ at \in Int
  BY Constants
<1>6. /\ Len(o) = n /\ n \in Nat \ {0} /\ Last(o) = at + n - 1 /\ End(o) = at + n
  BY <1>5, BytesEnd
<1> HIDE DEF o
<1>7. WithinLength'
  <2>1. 1..Len(<<>>) = {}
    OBVIOUS
  <2> QED BY <1>4, <1>6, <2>1, WithinNow
<1>8. Hands(at + 1, n, TRUE)
  BY <1>2, <1>4, <1>5, <1>6 DEF Hands, FedTo
<1> QED
  BY <1>7, <1>8

\* After a hole it begins with the segment that just came.
LEMMA GiveUpHands ==
  ASSUME FInv, NEW at \in 0..(Length - 1), NEW n \in 1..MaxSegment, at + n <= Length,
         at - Position \in (1 - Window)..(Window - 1), GiveUp(at, n)
  PROVE  WithinLength' /\ \E p, k, anew : Hands(p, k, anew)
<1> DEFINE o == Bytes(at, n)
           s == [next |-> SeqNo(at + n), pending |-> <<>>, bytes |-> 0, gap |-> Unset, out |-> o]
           e == Position
<1>1. dec.next # Unset /\ Delta(SeqNo(at), dec.next) > 0 /\ Becomes(s)
  BY DEF GiveUp, Ahead
<1>2. s.out = o /\ s.pending = <<>>
  OBVIOUS
<1> HIDE DEF s
<1>3. out' = o /\ dec'.pending = <<>>
  BY <1>1, <1>2, BecomesIs
<1>4. at \in Nat /\ at \in Int
  BY Constants
<1>5. /\ Len(o) = n /\ n \in Nat \ {0} /\ o[1] = at /\ Last(o) = at + n - 1 /\ End(o) = at + n
  BY <1>4, BytesEnd
<1> HIDE DEF o
<1>6. e \in Int /\ e = End(out) /\ out # <<>> /\ FedTo = e /\ Flows(State) /\ State.out = out
  BY <1>1, StateIs, OutIs
<1>7. e < at
  <2>1. Delta(SeqNo(at), dec.next) = at - e
    BY <1>1, <1>4, Near
  <2> HIDE DEF e
  <2> QED BY <1>1, <1>4, <1>6, <2>1
<1>8. out[1] # at
  <2>1. End(out) = out[1] + Len(out) /\ out[1] \in Int /\ Len(out) \in Nat \ {0}
    BY <1>6, InARow
  <2> HIDE DEF e
  <2> QED BY <1>4, <1>6, <1>7, <2>1
<1>9. WithinLength'
  <2>1. 1..Len(<<>>) = {}
    OBVIOUS
  <2> QED BY <1>3, <1>5, <2>1, WithinNow
<1>10. Hands(at + 1, n, TRUE)
  <2> HIDE DEF e
  <2> QED BY <1>3, <1>4, <1>5, <1>6, <1>7, <1>8 DEF Hands
<1> QED
  BY <1>9, <1>10

\* A segment in order, and what the drain adds, go on where the framer stands.
LEMMA InOrderHands ==
  ASSUME FInv, WithinLength, NEW at \in 0..(Length - 1), NEW n \in 1..MaxSegment, at + n <= Length,
         at - Position \in (1 - Window)..(Window - 1), InOrder(at, n), ~UNCHANGED <<dec, out>>
  PROVE  WithinLength' /\ \E p, k, anew : Hands(p, k, anew)
<1> DEFINE e == Position
<1>1. dec.next # Unset /\ Delta(SeqNo(at), dec.next) <= 0
  BY DEF InOrder
<1>2. at \in Int /\ n \in Nat /\ n >= 1
  BY Constants
<1>3. e \in Int /\ e = End(out) /\ out # <<>> /\ FedTo = e /\ Flows(State) /\ State.out = out
  BY <1>1, StateIs, OutIs
<1>4. e - at < n
  <2>1. Delta(SeqNo(at), dec.next) = at - e
    BY <1>1, <1>2, Near
  <2>2. ~(-Delta(SeqNo(at), dec.next) >= n)
    BY DEF InOrder
  <2> HIDE DEF e
  <2> QED BY <1>2, <1>3, <2>1, <2>2
<1>5. PICK s : Continues(s, at, n)
  BY <1>2, <1>4, InOrderDrains
<1> DEFINE t == DrainAll(s)
<1>6. /\ Becomes(t) /\ Draining(s, e) /\ End(s.out) = at + n /\ s.pending = State.pending
      /\ s.out[1] = State.out[1]
  BY <1>5 DEF Continues
<1> HIDE DEF e
<1>7. Within(s)
  BY <1>1, <1>6 DEF Within, WithinLength
<1>8. /\ Flows(t) /\ t.out[1] = s.out[1] /\ End(s.out) <= End(t.out) /\ Within(t)
  BY <1>3, <1>6, <1>7, DrainAllIs
<1> HIDE DEF t
<1>9. out' = t.out /\ dec'.pending = t.pending
  BY <1>6, BecomesIs
<1>10. WithinLength'
  BY <1>8, <1>9, WithinNow DEF Within
<1> DEFINE a == out[1]
           l == Len(out)
           m == Len(t.out)
           z == Last(t.out)
           k == m - l
<1>11. /\ a \in Int /\ l \in Nat \ {0} /\ m \in Nat \ {0} /\ e = a + l /\ z + 1 = a + m
       /\ at + n <= z + 1 /\ z + 1 <= Length /\ z \in Int
  <2>1. a \in Int /\ l \in Nat \ {0} /\ e = a + l
    BY <1>3, InARow
  <2>2. t.out[1] = a
    BY <1>3, <1>6, <1>8
  <2>3. /\ End(t.out) = a + m /\ m \in Nat \ {0} /\ t.out \in Seq(Int)
        /\ \A i \in 1..m : t.out[i] = a + i - 1
    BY <1>8, <2>2, InARow
  <2>4. z + 1 = End(t.out)
    BY DEF End
  <2>5. z = t.out[m] /\ t.out[m] \in Int
    BY <2>3 DEF Last
  <2> QED
    BY <1>6, <1>8, <2>1, <2>3, <2>4, <2>5 DEF Within
<1>12. t.out[1] = a
  BY <1>3, <1>6, <1>8
<1>13. k \in Nat \ {0} /\ z + 2 - k = e + 1 /\ (e + 1) + k - 1 = z + 1
  <2> HIDE DEF a, l, m, z
  <2> QED BY <1>2, <1>3, <1>4, <1>11
<1>14. Hands(e + 1, k, FALSE)
  <2>1. (out = <<>> \/ out'[1] # out[1]) = FALSE
    BY <1>3, <1>9, <1>12
  <2>2. k = Len(out') - Len(out) /\ z = Last(out')
    BY <1>9
  <2>3. FedTo = e /\ e \in Int
    BY <1>3
  <2> HIDE DEF k, z, a, l, m
  <2>4. /\ e + 1 = z + 2 - k /\ e + 1 \in Int /\ k \in Nat \ {0}
        /\ (e + 1) + k - 1 = z + 1 /\ (e + 1) + k - 1 <= Length /\ e + 1 <= e + 1
    BY <1>11, <1>13, <2>3
  <2> DEFINE p == e + 1
  <2>5. /\ p = z + 2 - k /\ p \in Int /\ p + k - 1 = z + 1 /\ p + k - 1 <= Length
        /\ FedTo + 1 = p /\ p <= p
    BY <2>3, <2>4
  <2> HIDE DEF p
  <2>6. Hands(p, k, FALSE)
    BY <2>1, <2>2, <2>4, <2>5 DEF Hands
  <2> QED BY <2>6 DEF p
<1> QED
  BY <1>10, <1>14

\* A segment that is held back feeds nothing.
LEMMA ParkWithin ==
  ASSUME FInv, WithinLength, NEW at \in 0..(Length - 1), NEW n \in 1..MaxSegment, at + n <= Length,
         at - Position \in (1 - Window)..(Window - 1), Park(at, n)
  PROVE  WithinLength' /\ out' = out
<1> DEFINE p == Position
           k == Keep(State, SeqNo(at), Bytes(at, n))
           t == [k EXCEPT !.gap = IF @ = Unset THEN now ELSE @]
<1>1. /\ dec.next # Unset /\ Delta(SeqNo(at), dec.next) > 0 /\ ~Known(at, n) /\ Becomes(t)
      /\ at \in Int /\ n \in Nat
  BY Constants DEF Park, Ahead, Parked
<1>2. /\ Follows(State, arrived) /\ p \in Int /\ p = End(State.out)
      /\ State.pending = dec.pending /\ DOMAIN dec.pending = 1..Len(dec.pending)
      /\ dec.pending \in Seq(Segments) /\ State.out = out
  BY <1>1, StateIs DEF FInv
<1>3. at \in (p + 1)..(p + Window - 1)
  <2>1. Delta(SeqNo(at), dec.next) = at - p
    BY <1>1, Near
  <2>2. at - p \in (1 - Window)..(Window - 1) /\ at - p > 0
    BY <1>1, <2>1
  <2>3. Window \in Int
    BY Constants
  <2> HIDE DEF p
  <2> QED BY <1>1, <1>2, <2>2, <2>3
<1>4. \A i \in 1..Len(State.pending) :
        State.pending[i].seq = SeqNo(at) => Len(State.pending[i].data) < n
  <2> SUFFICES ASSUME NEW i \in 1..Len(dec.pending), dec.pending[i].seq = SeqNo(at)
               PROVE  Len(dec.pending[i].data) < n
    BY <1>2
  <2>1. ~(n <= Len(dec.pending[i].data))
    BY <1>1, <1>2 DEF Known
  <2>2. Len(dec.pending[i].data) \in Nat
    BY <1>2, Lengths
  <2> QED BY <1>1, <2>1, <2>2
<1>5. Within(State)
  BY <1>1 DEF WithinLength
<1>6. k \in DecoderStates /\ k.out = State.out /\ Within(k)
  <2> HIDE DEF p
  <2>1. Flows(State) /\ Holds(State, p)
    BY <1>2 DEF Follows
  <2> QED BY <1>1, <1>2, <1>3, <1>4, <1>5, <2>1, KeepIs
<1> HIDE DEF k
<1>7. t.out = k.out /\ t.pending = k.pending
  BY <1>6 DEF DecoderStates
<1> HIDE DEF t
<1>8. out' = k.out /\ dec'.pending = k.pending
  BY <1>1, <1>7, BecomesIs
<1>9. WithinLength'
  BY <1>6, <1>8, WithinNow DEF Within
<1> QED
  BY <1>2, <1>6, <1>8, <1>9

LEMMA WithinStill ==
  ASSUME WithinLength, dec' = dec, out' = out
  PROVE  WithinLength'
  BY DEF WithinLength, Within, State, End, At, Last

\* What a segment hands on is new to the framer and of the stream.
LEMMA SegmentHands ==
  ASSUME FInv, WithinLength, FeedSegment
  PROVE  WithinLength' /\ (out' = out \/ \E p, k, anew : Hands(p, k, anew))
<1>1. PICK at \in 0..(Length - 1), n \in 1..MaxSegment :
        /\ at + n <= Length
        /\ dec.next # Unset => at - Position \in (1 - Window)..(Window - 1)
        /\ First(at, n) \/ InOrder(at, n) \/ Repeated(at, n) \/ Park(at, n) \/ GiveUp(at, n)
  BY DEF FeedSegment
<1>2. CASE First(at, n)
  BY <1>1, <1>2, FirstHands
<1>3. CASE InOrder(at, n)
  <2>1. dec.next # Unset
    BY <1>3 DEF InOrder
  <2>2. CASE UNCHANGED <<dec, out>>
    BY <2>2, WithinStill
  <2>3. CASE ~UNCHANGED <<dec, out>>
    BY <1>1, <1>3, <2>1, <2>3, InOrderHands
  <2> QED BY <2>2, <2>3
<1>4. CASE Repeated(at, n)
  BY <1>4, WithinStill DEF Repeated
<1>5. CASE Park(at, n)
  <2>1. dec.next # Unset
    BY <1>5 DEF Park, Ahead
  <2> QED BY <1>1, <1>5, <2>1, ParkWithin
<1>6. CASE GiveUp(at, n)
  <2>1. dec.next # Unset
    BY <1>6 DEF GiveUp, Ahead
  <2> QED BY <1>1, <1>6, <2>1, GiveUpHands
<1> QED
  BY <1>1, <1>2, <1>3, <1>4, <1>5, <1>6

-----------------------------------------------------------------------------
\* The decoder and the framer go hand in hand: what the framer was fed ends where
\* the decoder's output ends, and all of it is of the stream.
InStep == source = "segments" => Len(stream.bytes) = Length /\ fed = FedTo

StreamInv == FInv /\ WithinLength /\ FramerInv /\ InStep

LEMMA StreamInvInit == StreamInit => StreamInv
<1> SUFFICES ASSUME StreamInit PROVE StreamInv
  OBVIOUS
<1>1. FInit /\ dec.next = Unset /\ out = <<>>
  BY DEF StreamInit, FInit
<1>2. /\ IsStream(stream) /\ fed = 0 /\ framer = FramerInit(1) /\ told = <<>> /\ clock = 0 /\ origin = 1
      /\ source = "segments" => Len(stream.bytes) = Length
  <2>1. stream \in Streams \cup FlowStreams
        /\ fed = 0 /\ framer = FramerInit(1) /\ told = <<>> /\ clock = 0 /\ origin = 1
    BY DEF StreamInit, SInit
  <2>2. source = IF stream \in FlowStreams THEN "segments" ELSE "pieces"
    BY DEF StreamInit
  <2> QED BY <2>1, <2>2, FramerAssumption, FlowAssumption
<1> QED
  BY <1>1, <1>2, FInvInit, FramerInvInit DEF StreamInv, WithinLength, InStep, FedTo

LEMMA SegmentsStep ==
  ASSUME StreamInv, source = "segments", FeedSegment, Handed, source' = source
  PROVE  StreamInv'
<1>1. FInv' /\ FInv /\ FramerInv /\ WithinLength /\ Len(stream.bytes) = Length /\ fed = FedTo
  BY FInvStep DEF StreamInv, FNext, InStep
<1>2. WithinLength' /\ (out' = out \/ \E p, k, anew : Hands(p, k, anew))
  BY <1>1, SegmentHands
<1>3. CASE out' = out
  <2>1. /\ stream' = stream /\ fed' = fed /\ framer' = framer /\ told' = told /\ origin' = origin
        /\ clock' = clock
    BY <1>3 DEF Handed, svars
  <2>2. clock' \in Int
    BY <1>1, <2>1 DEF FramerInv
  <2>3. FramerInv'
    BY <1>1, <2>1, <2>2, SameFramer
  <2>4. InStep'
    BY <1>1, <1>3, <2>1 DEF InStep, FedTo, Position, Last
  <2> QED
    BY <1>1, <1>2, <2>3, <2>4 DEF StreamInv
<1>4. CASE out' # out
  <2>1. PICK p, k, anew : Hands(p, k, anew)
    BY <1>2, <1>4
  <2>2. anew = (out = <<>> \/ out'[1] # out[1]) /\ anew \in BOOLEAN
    BY <2>1 DEF Hands
  <2>3. Deliver(p, k, anew)
    BY <1>4, <2>1, <2>2 DEF Handed, Hands
  <2>4. fed \in Nat
    BY <1>1 DEF FramerInv
  <2>5. p \in Nat \ {0} /\ k \in Nat \ {0} /\ fed + 1 <= p /\ (~anew => p = fed + 1)
        /\ p + k - 1 <= Len(stream.bytes)
    BY <1>1, <2>1, <2>4 DEF Hands
  <2>6. FramerInv'
    BY <1>1, <2>2, <2>3, <2>5, DeliverIs
  <2>7. out' # <<>>
    <3>1. Len(out) \in Nat /\ k = Len(out') - (IF anew THEN 0 ELSE Len(out))
      BY <1>1, <2>1 DEF Hands, FInv
    <3>2. SUFFICES ASSUME out' = <<>> PROVE FALSE
      OBVIOUS
    <3>3. Len(out') = 0
      BY <3>2
    <3> DEFINE l == Len(out)
               m == Len(out')
    <3>4. l \in Nat /\ m = 0 /\ k \in Nat \ {0} /\ (k = m - 0 \/ k = m - l)
      BY <2>2, <2>5, <3>1, <3>3
    <3> HIDE DEF l, m
    <3> QED BY <3>4
  <2>8. stream' = stream /\ fed' = p + k - 1
    BY <2>3 DEF Deliver
  <2>9. fed' = FedTo'
    BY <2>1, <2>7, <2>8 DEF Hands, FedTo, Position
  <2> QED
    BY <1>1, <1>2, <2>6, <2>8, <2>9 DEF StreamInv, InStep
<1> QED
  BY <1>3, <1>4

\* The decoder stands still.
LEMMA SameDecoderStep ==
  ASSUME StreamInv, dec' = dec, out' = out, arrived' = arrived, now' \in Int
  PROVE  FInv' /\ WithinLength' /\ FedTo' = FedTo
<1>1. FedTo' = FedTo
  BY DEF FedTo, Position, Last
<1> QED
  BY <1>1, SameDecoder, WithinStill DEF StreamInv

LEMMA StreamInvStep == StreamInv /\ [StreamNext]_allvars => StreamInv'
<1> SUFFICES ASSUME StreamInv, [StreamNext]_allvars PROVE StreamInv'
  OBVIOUS
<1>1. now \in Int /\ FramerInv /\ InStep /\ clock \in Int
  BY DEF StreamInv, FInv, FramerInv
<1>2. CASE source = "pieces" /\ SNext /\ UNCHANGED <<dvars, source>>
  <2>1. dec' = dec /\ out' = out /\ arrived' = arrived /\ now' \in Int /\ source' # "segments"
    BY <1>1, <1>2 DEF dvars
  <2>2. FramerInv'
    BY <1>1, <1>2, FramerInvStep
  <2> QED
    BY <2>1, <2>2, SameDecoderStep DEF StreamInv, InStep
<1>3. CASE source = "segments" /\ FeedSegment /\ Handed /\ UNCHANGED source
  BY <1>3, SegmentsStep
<1>4. CASE source = "segments" /\ Tick /\ clock' = now' /\ UNCHANGED <<stream, fed, framer, told, origin, source>>
  <2>1. dec' = dec /\ out' = out /\ arrived' = arrived /\ now' \in Int
    BY <1>1, <1>4 DEF Tick
  <2>2. FramerInv'
    BY <1>1, <1>4, <2>1, SameFramer
  <2> QED
    BY <1>1, <1>4, <2>1, <2>2, SameDecoderStep DEF StreamInv, InStep
<1>5. CASE UNCHANGED allvars
  <2>1. dec' = dec /\ out' = out /\ arrived' = arrived /\ now' \in Int
    BY <1>1, <1>5 DEF allvars, dvars
  <2>2. stream' = stream /\ fed' = fed /\ framer' = framer /\ told' = told /\ origin' = origin
        /\ source' = source /\ clock' \in Int
    BY <1>1, <1>5 DEF allvars, svars
  <2>3. FramerInv'
    BY <1>1, <2>2, SameFramer
  <2> QED
    BY <1>1, <2>1, <2>2, <2>3, SameDecoderStep DEF StreamInv, InStep
<1> QED
  BY <1>2, <1>3, <1>4, <1>5 DEF StreamNext

\* Behind the decoder the framer is fed exactly what the decoder has put together,
\* each byte of the stream at most once and in order, whatever segments come
\* (_feed and _give_up of FlowDecoder).
THEOREM DecoderFeedsFramer == StreamSpec => []StreamInv
<1> QED
  BY StreamInvInit, StreamInvStep, PTL DEF StreamSpec

\* So what is reported of a captured flow is true to its stream, however its
\* segments were lost, repeated, cut anew and put in order.
THEOREM CapturedIsTrue == StreamSpec => []TrueToStream
<1>1. StreamInv => TrueToStream
  BY FramerInvTrue DEF StreamInv
<1> QED
  BY <1>1, DecoderFeedsFramer, PTL

\* And from the first frame of the stream that was reported no frame is missed,
\* until a hole is given up.
THEOREM CapturedMissesNothing == StreamSpec => []NothingMissed
<1>1. StreamInv => NothingMissed
  BY FramerInvMisses DEF StreamInv
<1> QED
  BY <1>1, DecoderFeedsFramer, PTL

-----------------------------------------------------------------------------
(***************************************************************************)
(* The search: what is said of the bytes at a place.  A buffer is the end of *)
(* what was fed, and what is fed grows: what is there or refused stays so. *)
(***************************************************************************)
\* a is what follows the first d bytes of b; a is what b begins with.
EndOf(a, b, d) ==
  /\ a \in Seq(Nat) /\ b \in Seq(Nat) /\ d \in Nat /\ Len(b) = Len(a) + d
  /\ \A i \in 1..Len(a) : a[i] = b[d + i]

StartOf(a, b) ==
  /\ a \in Seq(Nat) /\ b \in Seq(Nat) /\ Len(a) <= Len(b)
  /\ \A i \in 1..Len(a) : a[i] = b[i]

LEMMA ProbeIs ==
  ASSUME NEW buf \in Seq(Nat), NEW p \in Nat \ {0}, NEW r, r = Probe(buf, p)
  PROVE  \/ r = Pending /\ Len(buf) < p + MaxBody
         \/ r = Reject /\ p <= Len(buf)
         \/ /\ r \in Nat /\ r > MinBody /\ r <= MaxBody + 1 /\ p + r - 1 <= Len(buf)
            /\ r = buf[p] /\ buf[p + 1] = Magic
<1> DEFINE l == Len(buf)
<1>1. l \in Nat /\ MinBody \in Nat /\ MaxBody \in Nat /\ 2 <= MinBody /\ MinBody <= MaxBody
  BY FramerConstants
<1>2. CASE p > l
  <2>1. r = Pending
    BY <1>2 DEF Probe
  <2>2. l < p + MaxBody
    <3> HIDE DEF l
    <3> QED BY <1>1, <1>2
  <2> QED BY <2>1, <2>2
<1>3. CASE p <= l
  <2> DEFINE x == buf[p]
  <2>1. x \in Nat
    BY <1>1, <1>3
  <2>2. CASE x - 1 \notin MinBody..MaxBody
    <3>1. r = Reject
      BY <1>1, <1>3, <2>2 DEF Probe
    <3> QED BY <1>3, <3>1
  <2>3. CASE x - 1 \in MinBody..MaxBody
    <3>1. x > MinBody /\ x <= MaxBody + 1 /\ x >= 3
      <4> HIDE DEF x
      <4> QED BY <1>1, <2>1, <2>3
    <3>2. CASE p + 1 > l
      <4>1. r = Pending
        BY <1>1, <1>3, <2>3, <3>2 DEF Probe
      <4>2. l < p + MaxBody
        <5> HIDE DEF l
        <5> QED BY <1>1, <3>2
      <4> QED BY <4>1, <4>2
    <3>3. CASE p + 1 <= l /\ buf[p + 1] # Magic
      <4>1. r = Reject
        BY <1>1, <1>3, <2>3, <3>3 DEF Probe
      <4> QED BY <1>3, <4>1
    <3>4. CASE p + 1 <= l /\ buf[p + 1] = Magic
      <4>1. r = IF p + x - 1 > l THEN Pending ELSE x
        BY <1>1, <1>3, <2>3, <3>4 DEF Probe
      <4>4. r = Pending \/ ~(p + x - 1 > l)
        BY <4>1
      <4> HIDE DEF x, l
      <4>2. CASE p + x - 1 > l
        <5>1. l < p + MaxBody
          BY <1>1, <2>1, <3>1, <4>2
        <5>2. r = Pending
          BY <4>4, <4>2
        <5> QED BY <5>1, <5>2 DEF l
      <4>3. CASE ~(p + x - 1 > l)
        <5>1. p + x - 1 <= l
          BY <1>1, <2>1, <4>3
        <5>2. r = x
          BY <4>1, <4>3
        <5>3. r \in Nat /\ r > MinBody /\ r <= MaxBody + 1 /\ p + r - 1 <= l
          BY <2>1, <3>1, <5>1, <5>2
        <5>4. r = buf[p] /\ buf[p + 1] = Magic
          BY <3>4, <5>2 DEF x
        <5> QED BY <5>3, <5>4 DEF l
      <4> QED BY <4>2, <4>3
    <3> QED BY <1>1, <3>2, <3>3, <3>4
  <2> QED BY <2>2, <2>3
<1> QED BY <1>1, <1>2, <1>3

\* Behind dropped bytes a frame is what it was.
LEMMA ProbeEnd ==
  ASSUME NEW a, NEW b, NEW d, EndOf(a, b, d), NEW p \in Nat \ {0}
  PROVE  Probe(b, p + d) = Probe(a, p)
<1> DEFINE l == Len(a)
           q == p + d
<1>1. l \in Nat /\ d \in Nat /\ q \in Nat /\ Len(b) = l + d
  BY DEF EndOf
<1>2. p <= l => a[p] = b[q]
  <2>1. p <= l => p \in 1..l /\ d + p = q
    BY <1>1
  <2> QED BY <2>1 DEF EndOf
<1>3. p + 1 <= l => a[p + 1] = b[q + 1]
  <2>1. p + 1 <= l => p + 1 \in 1..l /\ d + (p + 1) = q + 1
    BY <1>1
  <2> QED BY <2>1 DEF EndOf
<1>4. (q > l + d <=> p > l) /\ (q + 1 > l + d <=> p + 1 > l) /\ (p > l \/ p <= l) /\ (p + 1 > l \/ p + 1 <= l)
  BY <1>1
<1>5. p <= l => a[p] \in Nat
  <2>1. p <= l => p \in 1..l
    BY <1>1
  <2> QED BY <2>1 DEF EndOf
<1>6. \A x \in Nat : q + x - 1 > l + d <=> p + x - 1 > l
  <2> HIDE DEF l
  <2> QED BY <1>1
<1>7. p <= l => (q + a[p] - 1 > l + d <=> p + a[p] - 1 > l)
  BY <1>5, <1>6
<1>8. Probe(a, p) = IF p > l THEN Pending
                    ELSE IF a[p] - 1 \notin MinBody..MaxBody THEN Reject
                    ELSE IF p + 1 > l THEN Pending
                    ELSE IF a[p + 1] # Magic THEN Reject
                    ELSE IF p + a[p] - 1 > l THEN Pending ELSE a[p]
  BY DEF Probe
<1>9. Probe(b, q) = IF q > l + d THEN Pending
                    ELSE IF b[q] - 1 \notin MinBody..MaxBody THEN Reject
                    ELSE IF q + 1 > l + d THEN Pending
                    ELSE IF b[q + 1] # Magic THEN Reject
                    ELSE IF q + b[q] - 1 > l + d THEN Pending ELSE b[q]
  BY <1>1 DEF Probe
<1> HIDE DEF q, l
<1>10. Probe(b, q) = Probe(a, p)
  BY <1>2, <1>3, <1>4, <1>7, <1>8, <1>9
<1> QED BY <1>10 DEF q

\* What is said of a frame is not taken back when more bytes come.
LEMMA ProbeStart ==
  ASSUME NEW a, NEW b, StartOf(a, b), NEW p \in Nat \ {0}, Probe(a, p) # Pending
  PROVE  Probe(b, p) = Probe(a, p)
<1> DEFINE l == Len(a)
           m == Len(b)
<1>1. l \in Nat /\ m \in Nat /\ l <= m
  BY DEF StartOf
<1>2. p <= l
  BY <1>1 DEF Probe
<1>3. a[p] = b[p] /\ a[p] \in Nat
  <2>1. p \in 1..l
    BY <1>1, <1>2
  <2> QED BY <2>1 DEF StartOf
<1>4. p + 1 <= l => a[p + 1] = b[p + 1]
  <2>1. p + 1 <= l => p + 1 \in 1..l
    BY <1>1
  <2> QED BY <2>1 DEF StartOf
<1>5. \A x \in Nat : p + x - 1 <= l => p + x - 1 <= m
  <2> HIDE DEF l, m
  <2> QED BY <1>1
<1>6. (p + 1 > l \/ p + 1 <= l) /\ (p + 1 <= l => ~(p + 1 > m)) /\ ~(p > l) /\ ~(p > m)
  BY <1>1, <1>2
<1>7. ~(p + a[p] - 1 > l) => ~(p + a[p] - 1 > m)
  <2> DEFINE x == a[p]
  <2>1. x \in Nat
    BY <1>3
  <2> HIDE DEF x, l, m
  <2>2. ~(p + x - 1 > l) => ~(p + x - 1 > m)
    BY <1>1, <2>1
  <2> QED BY <2>2 DEF x
<1>8. Probe(a, p) = IF p > l THEN Pending
                    ELSE IF a[p] - 1 \notin MinBody..MaxBody THEN Reject
                    ELSE IF p + 1 > l THEN Pending
                    ELSE IF a[p + 1] # Magic THEN Reject
                    ELSE IF p + a[p] - 1 > l THEN Pending ELSE a[p]
  BY DEF Probe
<1>9. Probe(b, p) = IF p > m THEN Pending
                    ELSE IF b[p] - 1 \notin MinBody..MaxBody THEN Reject
                    ELSE IF p + 1 > m THEN Pending
                    ELSE IF b[p + 1] # Magic THEN Reject
                    ELSE IF p + b[p] - 1 > m THEN Pending ELSE b[p]
  BY DEF Probe
<1> HIDE DEF l, m
<1> QED BY <1>3, <1>4, <1>6, <1>7, <1>8, <1>9

\* How a chain of frames may turn out.
Outcomes == {Reject} \cup Nat

\* A chain is one frame longer than the one before.
LEMMA ChainSteps ==
  ASSUME NEW buf, NEW p
  PROVE  /\ Chain(buf, p, 0) = p
         /\ \A k \in Nat : Chain(buf, p, k + 1) = After(buf, Chain(buf, p, k))
<1> DEFINE E(n) == CHOOSE f : IsEnds(f, buf, p, n)
<1>1. ASSUME NEW n \in Nat
      PROVE  /\ Chain(buf, p, n) = E(n)[n] /\ E(n)[0] = p
             /\ \A i \in 1..n : E(n)[i] = After(buf, E(n)[i - 1])
  <2>1. IsEnds(E(n), buf, p, n)
    <3>1. \E f : IsEnds(f, buf, p, n)
      BY EndsExist
    <3> QED BY <3>1
  <2>2. Chain(buf, p, n) = E(n)[n]
    BY DEF Chain, IsEnds
  <2> HIDE DEF E
  <2>3. \A i \in 0..n : E(n)[i] = IF i = 0 THEN p ELSE After(buf, E(n)[i - 1])
    BY <2>1 DEF IsEnds
  <2>4. 0 \in 0..n /\ \A i \in 1..n : i \in 0..n /\ i # 0
    OBVIOUS
  <2> QED BY <2>2, <2>3, <2>4
<1> HIDE DEF E
<1>2. Chain(buf, p, 0) = p
  BY <1>1
<1>3. ASSUME NEW k \in Nat PROVE Chain(buf, p, k + 1) = After(buf, Chain(buf, p, k))
  <2> DEFINE m == k + 1
             f == E(m)
             g == E(k)
             T == {i \in 0..k : f[i] # g[i]}
  <2>0. m \in Nat /\ m - 1 = k /\ m \in 1..m
    OBVIOUS
  <2>1. /\ Chain(buf, p, m) = f[m] /\ f[0] = p /\ Chain(buf, p, k) = g[k] /\ g[0] = p
        /\ \A i \in 1..m : f[i] = After(buf, f[i - 1])
        /\ \A i \in 1..k : g[i] = After(buf, g[i - 1])
    <3> HIDE DEF m
    <3> QED BY <1>1, <2>0
  <2> HIDE DEF f, g
  <2>2. T = {}
    <3> SUFFICES ASSUME T # {} PROVE FALSE
      OBVIOUS
    <3>1. PICK i \in T : \A j \in T : i <= j
      <4>1. T \subseteq Nat
        OBVIOUS
      <4> HIDE DEF T
      <4> QED BY <4>1, Least
    <3>2. i \in 0..k /\ f[i] # g[i] /\ i # 0
      BY <2>1, <3>1
    <3>3. i - 1 \in 0..k /\ i - 1 < i /\ i \in 1..k /\ i \in 1..m
      BY <3>2
    <3>4. i - 1 \notin T
      <4> HIDE DEF T
      <4> QED BY <3>1, <3>3
    <3>5. f[i - 1] = g[i - 1]
      BY <3>3, <3>4
    <3> QED BY <2>1, <3>2, <3>3, <3>5
  <2>3. f[k] = g[k]
    BY <2>2
  <2>4. f[m] = After(buf, f[k])
    <3> HIDE DEF m
    <3> QED BY <2>0, <2>1
  <2> QED BY <2>1, <2>3, <2>4
<1> QED BY <1>2, <1>3

LEMMA ChainStep ==
  ASSUME NEW buf, NEW p, NEW k \in Nat, NEW m, m = k + 1
  PROVE  Chain(buf, p, m) = After(buf, Chain(buf, p, k))
  BY ChainSteps

LEMMA AfterIs ==
  ASSUME NEW buf \in Seq(Nat), NEW p \in Outcomes
  PROVE  /\ After(buf, p) \in Outcomes
         /\ p <= 0 => After(buf, p) = p
         /\ p > 0 => \/ Probe(buf, p) <= 0 /\ After(buf, p) = Probe(buf, p)
                     \/ Probe(buf, p) > 0 /\ After(buf, p) = p + Probe(buf, p)
<1> DEFINE r == Probe(buf, p)
<1>1. CASE p <= 0
  BY <1>1 DEF After, Outcomes, Reject
<1>2. CASE p > 0
  <2>1. p \in Nat \ {0}
    BY <1>2 DEF Outcomes, Reject
  <2>2. r \in Outcomes
    BY <2>1, ProbeIs DEF Outcomes, Reject, Pending
  <2>3. After(buf, p) = IF r <= 0 THEN r ELSE p + r
    BY <1>2, <2>1 DEF After
  <2> HIDE DEF r
  <2>4. r <= 0 \/ r > 0
    BY <2>2 DEF Outcomes, Reject
  <2>5. r > 0 => p + r \in Nat
    BY <2>1, <2>2 DEF Outcomes, Reject
  <2>6. After(buf, p) \in Outcomes
    BY <2>2, <2>3, <2>4, <2>5 DEF Outcomes
  <2>7. \/ r <= 0 /\ After(buf, p) = r
        \/ r > 0 /\ After(buf, p) = p + r
    <3>1. r > 0 => ~(r <= 0)
      BY <2>2 DEF Outcomes, Reject
    <3> QED BY <2>3, <2>4, <3>1
  <2>8. ~(p <= 0)
    BY <2>1
  <2> QED BY <2>6, <2>7, <2>8 DEF r
<1>3. p <= 0 \/ p > 0
  BY DEF Outcomes, Reject
<1> QED BY <1>1, <1>2, <1>3

LEMMA ChainIs ==
  ASSUME NEW buf \in Seq(Nat), NEW p \in Outcomes, NEW k \in Nat
  PROVE  Chain(buf, p, k) \in Outcomes
<1> DEFINE T == {i \in Nat : Chain(buf, p, i) \notin Outcomes}
<1>1. SUFFICES ASSUME T # {} PROVE FALSE
  OBVIOUS
<1>2. PICK i \in T : \A j \in T : i <= j
  BY <1>1, Least
<1>3. CASE i = 0
  BY <1>2, <1>3, ChainSteps
<1>4. CASE i # 0
  <2> DEFINE j == i - 1
  <2>1. j \in Nat /\ i = j + 1 /\ ~(i <= j)
    BY <1>2, <1>4
  <2> HIDE DEF j
  <2>2. Chain(buf, p, j) \in Outcomes
    <3>1. j \notin T
      <4> HIDE DEF T
      <4> QED BY <1>2, <2>1
    <3> QED BY <2>1, <3>1
  <2>3. Chain(buf, p, i) = After(buf, Chain(buf, p, j))
    BY <2>1, ChainStep
  <2> QED BY <1>2, <2>2, <2>3, AfterIs
<1> QED BY <1>3, <1>4

\* What is refused or not there yet stays so however many frames are asked for.
LEMMA ChainStuck ==
  ASSUME NEW buf \in Seq(Nat), NEW p \in Outcomes, NEW j \in Nat, NEW k \in Nat, j <= k,
         Chain(buf, p, j) <= 0
  PROVE  Chain(buf, p, k) = Chain(buf, p, j)
<1> DEFINE T == {i \in Nat : j <= i /\ Chain(buf, p, i) # Chain(buf, p, j)}
<1>1. SUFFICES ASSUME T # {} PROVE FALSE
  OBVIOUS
<1>2. PICK i \in T : \A h \in T : i <= h
  <2>1. T \subseteq Nat
    OBVIOUS
  <2> HIDE DEF T
  <2> QED BY <1>1, <2>1, Least
<1> DEFINE h == i - 1
<1>3. i \in Nat /\ j <= i /\ i # j /\ Chain(buf, p, i) # Chain(buf, p, j)
  BY <1>2
<1>4. h \in Nat /\ j <= h /\ i = h + 1 /\ ~(i <= h)
  BY <1>3
<1> HIDE DEF h
<1>5. Chain(buf, p, h) = Chain(buf, p, j)
  <2>1. h \notin T
    <3> HIDE DEF T
    <3> QED BY <1>2, <1>4
  <2> QED BY <1>4, <2>1
<1>6. Chain(buf, p, i) = After(buf, Chain(buf, p, h))
  BY <1>4, ChainStep
<1>7. Chain(buf, p, h) \in Outcomes
  BY <1>4, ChainIs
<1> QED BY <1>3, <1>5, <1>6, <1>7, AfterIs

\* The same, read from its end.
LEMMA ChainPrefix ==
  ASSUME NEW buf \in Seq(Nat), NEW p \in Outcomes, NEW j \in Nat, NEW k \in Nat, j <= k
  PROVE  /\ Chain(buf, p, k) > 0 => Chain(buf, p, j) > 0
         /\ Chain(buf, p, k) # Reject => Chain(buf, p, j) # Reject
<1>1. Chain(buf, p, j) \in Outcomes /\ Chain(buf, p, k) \in Outcomes
  BY ChainIs
<1>2. Chain(buf, p, j) <= 0 => Chain(buf, p, k) = Chain(buf, p, j)
  BY ChainStuck
<1> QED BY <1>1, <1>2 DEF Outcomes, Reject

\* A chain from where a chain ends.
LEMMA ChainAdds ==
  ASSUME NEW buf \in Seq(Nat), NEW p \in Outcomes, NEW i \in Nat, NEW j \in Nat
  PROVE  Chain(buf, p, i + j) = Chain(buf, Chain(buf, p, i), j)
<1> DEFINE q == Chain(buf, p, i)
           T == {k \in Nat : Chain(buf, p, i + k) # Chain(buf, q, k)}
<1>1. SUFFICES ASSUME T # {} PROVE FALSE
  OBVIOUS
<1>2. PICK k \in T : \A h \in T : k <= h
  BY <1>1, Least
<1>3. k \in Nat /\ Chain(buf, p, i + k) # Chain(buf, q, k)
  BY <1>2
<1>4. CASE k = 0
  <2>1. i + k = i
    BY <1>4
  <2>2. Chain(buf, q, k) = q
    BY <1>4, ChainSteps
  <2> QED BY <1>3, <2>1, <2>2
<1>5. CASE k # 0
  <2> DEFINE h == k - 1
  <2>1. h \in Nat /\ k = h + 1 /\ ~(k <= h) /\ i + k = (i + h) + 1 /\ i + h \in Nat
    BY <1>3, <1>5
  <2> HIDE DEF h
  <2>2. Chain(buf, p, i + h) = Chain(buf, q, h)
    <3>1. h \notin T
      <4> HIDE DEF T
      <4> QED BY <1>2, <2>1
    <3> QED BY <2>1, <3>1
  <2> HIDE DEF q
  <2>3. Chain(buf, q, k) = After(buf, Chain(buf, q, h))
    BY <2>1, ChainStep
  <2>4. Chain(buf, p, i + k) = After(buf, Chain(buf, p, i + h))
    BY <2>1, ChainStep
  <2> QED BY <1>3, <2>2, <2>3, <2>4
<1> QED BY <1>4, <1>5

LEMMA ChainHead ==
  ASSUME NEW buf \in Seq(Nat), NEW p \in Nat \ {0}, NEW k \in Nat \ {0}, Chain(buf, p, k) > 0
  PROVE  Probe(buf, p) > 0
<1>1. p \in Outcomes /\ 0 + 1 = 1 /\ 0 \in Nat /\ 1 \in Nat /\ 1 <= k
  BY DEF Outcomes
<1>2. Chain(buf, p, 1) > 0
  BY <1>1, ChainPrefix
<1>3. Chain(buf, p, 1) = After(buf, p)
  <2>1. Chain(buf, p, 0) = p
    BY ChainSteps
  <2>2. Chain(buf, p, 1) = After(buf, Chain(buf, p, 0))
    BY <1>1, ChainStep
  <2> QED BY <2>1, <2>2
<1>4. ~(Probe(buf, p) <= 0 /\ After(buf, p) = Probe(buf, p))
  <2>1. Probe(buf, p) \in Int
    BY ProbeIs DEF Reject, Pending
  <2> QED BY <1>2, <1>3, <2>1
<1> QED BY <1>1, <1>4, AfterIs

\* A place further on by d, if it is one.
Later(d, x) == IF x > 0 THEN x + d ELSE x

LEMMA EndSequences ==
  ASSUME NEW a, NEW b, NEW d, EndOf(a, b, d)
  PROVE  a \in Seq(Nat) /\ b \in Seq(Nat) /\ d \in Nat /\ Len(a) \in Nat /\ Len(b) = Len(a) + d
  BY DEF EndOf

LEMMA StartSequences ==
  ASSUME NEW a, NEW b, StartOf(a, b)
  PROVE  a \in Seq(Nat) /\ b \in Seq(Nat) /\ Len(a) \in Nat /\ Len(b) \in Nat /\ Len(a) <= Len(b)
  BY DEF StartOf

LEMMA AfterEnd ==
  ASSUME NEW a, NEW b, NEW d, EndOf(a, b, d), NEW p \in Outcomes
  PROVE  After(b, Later(d, p)) = Later(d, After(a, p))
<1> DEFINE q == Later(d, p)
<1>1. d \in Nat /\ a \in Seq(Nat) /\ b \in Seq(Nat)
  BY EndSequences
<1>2. CASE p <= 0
  <2>1. q = p /\ ~(p > 0)
    BY <1>2 DEF Later, Outcomes, Reject
  <2>2. After(a, p) = p
    BY <1>1, <1>2, AfterIs
  <2>3. After(b, p) = p
    BY <1>1, <1>2, AfterIs
  <2> HIDE DEF q
  <2> QED BY <2>1, <2>2, <2>3 DEF Later
<1>3. CASE p > 0
  <2>1. p \in Nat \ {0} /\ q = p + d /\ q \in Outcomes /\ q > 0
    BY <1>1, <1>3 DEF Later, Outcomes, Reject
  <2>2. Probe(b, q) = Probe(a, p)
    BY <2>1, ProbeEnd
  <2> DEFINE r == Probe(a, p)
  <2>3. r \in Int
    BY <1>1, <2>1, ProbeIs DEF Reject, Pending
  <2>4. \/ r <= 0 /\ After(a, p) = r
        \/ r > 0 /\ After(a, p) = p + r
    BY <1>1, <1>3, AfterIs
  <2>5. \/ r <= 0 /\ After(b, q) = r
        \/ r > 0 /\ After(b, q) = q + r
    BY <1>1, <2>1, <2>2, AfterIs
  <2> HIDE DEF r, q
  <2>6. CASE r <= 0
    <3>1. After(a, p) = r /\ After(b, q) = r
      BY <2>3, <2>4, <2>5, <2>6
    <3>2. Later(d, r) = r
      BY <2>3, <2>6 DEF Later
    <3> QED BY <3>1, <3>2 DEF q
  <2>7. CASE r > 0
    <3>1. After(a, p) = p + r /\ After(b, q) = q + r
      BY <2>3, <2>4, <2>5, <2>7
    <3>2. Later(d, p + r) = p + r + d
      BY <1>1, <2>1, <2>3, <2>7 DEF Later
    <3>3. q + r = p + r + d
      BY <1>1, <2>1, <2>3
    <3> QED BY <3>1, <3>2, <3>3 DEF q
  <2> QED BY <2>3, <2>6, <2>7
<1> QED BY <1>2, <1>3 DEF Outcomes, Reject

\* Behind dropped bytes the frames are what they were.
LEMMA ChainEnd ==
  ASSUME NEW a, NEW b, NEW d, EndOf(a, b, d), NEW p \in Outcomes, NEW k \in Nat
  PROVE  Chain(b, Later(d, p), k) = Later(d, Chain(a, p, k))
<1> DEFINE q == Later(d, p)
           T == {i \in Nat : Chain(b, q, i) # Later(d, Chain(a, p, i))}
<1>1. SUFFICES ASSUME T # {} PROVE FALSE
  OBVIOUS
<1>2. PICK i \in T : \A j \in T : i <= j
  BY <1>1, Least
<1>3. i \in Nat /\ Chain(b, q, i) # Later(d, Chain(a, p, i))
  BY <1>2
<1>4. CASE i = 0
  <2>1. Chain(b, q, 0) = q /\ Chain(a, p, 0) = p
    BY ChainSteps
  <2> QED BY <1>3, <1>4, <2>1
<1>5. CASE i # 0
  <2> DEFINE j == i - 1
  <2>1. j \in Nat /\ i = j + 1 /\ ~(i <= j)
    BY <1>3, <1>5
  <2> HIDE DEF j
  <2>2. Chain(b, q, j) = Later(d, Chain(a, p, j))
    <3>1. j \notin T
      <4> HIDE DEF T
      <4> QED BY <1>2, <2>1
    <3> QED BY <2>1, <3>1
  <2> HIDE DEF q
  <2>3. Chain(b, q, i) = After(b, Chain(b, q, j)) /\ Chain(a, p, i) = After(a, Chain(a, p, j))
    BY <2>1, ChainStep
  <2> DEFINE x == Chain(a, p, j)
  <2>4. x \in Outcomes
    BY <2>1, ChainIs, EndSequences
  <2> HIDE DEF x
  <2>5. After(b, Later(d, x)) = Later(d, After(a, x))
    BY <2>4, AfterEnd
  <2> QED BY <1>3, <2>2, <2>3, <2>5 DEF x
<1> QED BY <1>4, <1>5

\* What is said of a chain is not taken back when more bytes come.
LEMMA ChainGrows ==
  ASSUME NEW a, NEW b, StartOf(a, b), NEW p \in Outcomes, NEW k \in Nat, Chain(a, p, k) # Pending
  PROVE  Chain(b, p, k) = Chain(a, p, k)
<1> DEFINE T == {i \in Nat : Chain(a, p, i) # Pending /\ Chain(b, p, i) # Chain(a, p, i)}
<1>1. SUFFICES ASSUME T # {} PROVE FALSE
  OBVIOUS
<1>2. PICK i \in T : \A j \in T : i <= j
  <2>1. T \subseteq Nat
    OBVIOUS
  <2> HIDE DEF T
  <2> QED BY <1>1, <2>1, Least
<1>3. i \in Nat /\ Chain(a, p, i) # Pending /\ Chain(b, p, i) # Chain(a, p, i)
  BY <1>2
<1>6. a \in Seq(Nat) /\ b \in Seq(Nat)
  BY StartSequences
<1>4. CASE i = 0
  <2>1. Chain(b, p, 0) = p /\ Chain(a, p, 0) = p
    BY ChainSteps
  <2> QED BY <1>3, <1>4, <2>1
<1>5. CASE i # 0
  <2> DEFINE j == i - 1
             x == Chain(a, p, j)
  <2>1. j \in Nat /\ i = j + 1 /\ ~(i <= j)
    BY <1>3, <1>5
  <2> HIDE DEF j
  <2>2. Chain(b, p, i) = After(b, Chain(b, p, j)) /\ Chain(a, p, i) = After(a, x)
    BY <2>1, ChainStep
  <2>3. x \in Outcomes
    BY <1>6, <2>1, ChainIs
  <2>4. x # Pending
    BY <1>3, <1>6, <2>2, <2>3, AfterIs DEF Pending
  <2>5. Chain(b, p, j) = x
    <3>1. j \notin T
      <4> HIDE DEF T
      <4> QED BY <1>2, <2>1
    <3> QED BY <2>1, <2>4, <3>1
  <2> HIDE DEF x
  <2>6. After(b, x) = After(a, x)
    <3>1. CASE x <= 0
      BY <1>6, <2>3, <3>1, AfterIs
    <3>2. CASE x > 0
      <4>1. x \in Nat \ {0}
        BY <2>3, <3>2 DEF Outcomes, Reject
      <4>2. Probe(a, x) # Pending
        <5>1. Probe(a, x) = Pending => After(a, x) = Pending
          BY <1>6, <2>3, <3>2, AfterIs DEF Pending
        <5> QED BY <1>3, <2>2, <5>1
      <4>3. Probe(b, x) = Probe(a, x)
        BY <4>1, <4>2, ProbeStart
      <4> QED BY <4>3 DEF After
    <3> QED BY <2>3, <3>1, <3>2 DEF Outcomes, Reject
  <2> QED BY <1>3, <2>2, <2>5, <2>6
<1> QED BY <1>4, <1>5

\* k frames and what is not there of them are no longer than k of the longest.
LEMMA ChainBounded ==
  ASSUME NEW buf \in Seq(Nat), NEW p \in Nat \ {0}, NEW k \in Nat
  PROVE  /\ Chain(buf, p, k) = Pending => Len(buf) < p + k * (MaxBody + 1)
         /\ Chain(buf, p, k) > 0 => Chain(buf, p, k) <= p + k * (MaxBody + 1)
<1> DEFINE m == MaxBody + 1
           l == Len(buf)
           c(i) == Chain(buf, p, i)
           Good(i) == /\ c(i) = Pending => l < p + i * m
                      /\ c(i) > 0 => c(i) <= p + i * m
           T == {i \in Nat : ~Good(i)}
<1>0. m \in Nat /\ l \in Nat /\ MaxBody < m /\ p \in Outcomes
  BY FramerConstants DEF Outcomes
<1>1. SUFFICES ASSUME T # {} PROVE FALSE
  <2>1. k \in Nat /\ T = {} => Good(k)
    OBVIOUS
  <2> QED BY <2>1
<1>2. PICK i \in T : \A j \in T : i <= j
  <2>1. T \subseteq Nat
    OBVIOUS
  <2> HIDE DEF T
  <2> QED BY <1>1, <2>1, Least
<1>3. i \in Nat /\ ~Good(i)
  BY <1>2
<1>4. CASE i = 0
  <2>1. c(0) = p
    BY ChainSteps
  <2>2. p # Pending /\ p <= p + 0 * m
    BY <1>0 DEF Pending
  <2> QED BY <1>3, <1>4, <2>1, <2>2
<1>5. CASE i # 0
  <2> DEFINE j == i - 1
             x == c(j)
             y == c(i)
             u == j * m
             v == i * m
  <2>1. j \in Nat /\ i = j + 1 /\ ~(i <= j)
    BY <1>3, <1>5
  <2>2. u \in Nat /\ v = u + m
    <3> HIDE DEF m
    <3> QED BY <1>0, <1>3, <2>1
  <2> HIDE DEF j
  <2>3. Good(j)
    <3>1. j \notin T
      <4> HIDE DEF T
      <4> QED BY <1>2, <2>1
    <3> QED BY <2>1, <3>1
  <2>4. y = After(buf, x)
    BY <2>1, ChainStep
  <2>5. x \in Outcomes
    BY <1>0, <2>1, ChainIs
  <2>6. (x = Pending => l < p + u) /\ (x > 0 => x <= p + u)
    BY <2>3
  <2>7. ~((y = Pending => l < p + v) /\ (y > 0 => y <= p + v))
    BY <1>3
  <2> HIDE DEF x, y, u, v, m, l
  <2>8. CASE x <= 0
    <3>1. y = x
      BY <2>4, <2>5, <2>8, AfterIs
    <3> QED BY <1>0, <2>2, <2>5, <2>6, <2>7, <2>8, <3>1 DEF Outcomes, Reject, Pending
  <2>9. CASE x > 0
    <3>1. x \in Nat \ {0}
      BY <2>5, <2>9 DEF Outcomes, Reject
    <3> DEFINE r == Probe(buf, x)
    <3>2. \/ r = Pending /\ l < x + MaxBody
          \/ r = Reject
          \/ r \in Nat /\ r > MinBody /\ r <= MaxBody + 1
      BY <3>1, ProbeIs DEF l
    <3>3. \/ r <= 0 /\ y = r
          \/ r > 0 /\ y = x + r
      BY <2>4, <2>5, <2>9, AfterIs
    <3> HIDE DEF r
    <3>4. x <= p + u /\ MaxBody \in Nat /\ m = MaxBody + 1
      BY <2>6, <2>9, FramerConstants DEF m
    <3>7. y = Pending => r = Pending
      BY <3>1, <3>2, <3>3 DEF Reject, Pending
    <3>8. r = Pending => l < x + MaxBody
      BY <3>2, FramerConstants DEF Reject, Pending
    <3>5. y = Pending => l < p + v
      BY <1>0, <2>2, <3>1, <3>4, <3>7, <3>8
    <3>6. y > 0 => y <= p + v
      BY <1>0, <2>2, <3>1, <3>2, <3>3, <3>4 DEF Reject, Pending
    <3> QED BY <2>7, <3>5, <3>6
  <2> QED BY <2>5, <2>8, <2>9 DEF Outcomes, Reject
<1> QED BY <1>4, <1>5

Rounds == IF LockK > 2 THEN LockK - 1 ELSE 1

\* How an ENTER turns out: whether its header is there, its length and that of the
\* frame behind it, whether the upper half of that one's opcode is not zero, and
\* whether the frames behind it are refused.
EnterThere(buf, p) == p + 2 <= Len(buf) /\ buf[p + 1] = Magic /\ buf[p + 2] = EnterOp

EnterCase(there, r, first, high, refused) ==
  IF ~there THEN Reject
  ELSE IF r = Pending THEN Pending
  ELSE IF r < EnterMin \/ (first > 0 /\ high) \/ refused THEN Reject
  ELSE first

LEMMA EnterIs ==
  ASSUME NEW buf \in Seq(Nat), NEW p \in Nat \ {0}, NEW r, r = Probe(buf, p),
         NEW first, first = Probe(buf, p + r)
  PROVE  EnterAt(buf, p) = EnterCase(EnterThere(buf, p), r, first,
                             buf[p + r + 2] >= HighOp, Chain(buf, p + r, Rounds) = Reject)
<1>1. p + 2 > Len(buf) <=> ~(p + 2 <= Len(buf))
  OBVIOUS
<1> QED BY <1>1 DEF EnterAt, Rounds, EnterThere, EnterCase

\* What an anchor is.
LEMMA EnterFound ==
  ASSUME NEW buf \in Seq(Nat), NEW p \in Nat \ {0}, EnterAt(buf, p) > 0
  PROVE  /\ p + 2 <= Len(buf) /\ Probe(buf, p) \in Nat /\ Probe(buf, p) > 0
         /\ Chain(buf, p + Probe(buf, p), Rounds) # Reject
<1> DEFINE r == Probe(buf, p)
           e == EnterAt(buf, p)
<1>1. e > 0 => ~(e = Reject) /\ ~(e = Pending)
  BY DEF Reject, Pending
<1>2. /\ p + 2 <= Len(buf) /\ r # Pending /\ ~(r < EnterMin)
      /\ Chain(buf, p + r, Rounds) # Reject
  BY <1>1, EnterIs DEF EnterThere, EnterCase
<1>3. r \in Outcomes
  BY ProbeIs DEF Outcomes, Reject, Pending
<1>4. p + 2 <= Len(buf)
  BY <1>2
<1> HIDE DEF r
<1>5. r \in Nat /\ r > 0
  BY <1>2, <1>3, FramerConstants DEF Outcomes, Reject, Pending
<1> QED BY <1>2, <1>4, <1>5 DEF r

LEMMA EnterOutcome ==
  ASSUME NEW buf \in Seq(Nat), NEW p \in Nat \ {0}
  PROVE  EnterAt(buf, p) \in Outcomes
<1> DEFINE r == Probe(buf, p)
           first == Probe(buf, p + r)
<1>1. r \in Outcomes
  BY ProbeIs DEF Outcomes, Reject, Pending
<1>2. EnterAt(buf, p) = Reject \/ EnterAt(buf, p) = Pending
      \/ (EnterAt(buf, p) = first /\ ~(r < EnterMin) /\ r # Pending)
  BY EnterIs DEF EnterThere, EnterCase
<1>3. CASE ~(r < EnterMin) /\ r # Pending
  <2>1. p + r \in Nat \ {0}
    <3> HIDE DEF r
    <3> QED BY <1>1, <1>3, FramerConstants DEF Outcomes, Reject, Pending
  <2>2. first \in Outcomes
    <3> HIDE DEF r
    <3> QED BY <2>1, ProbeIs DEF Outcomes, Reject, Pending
  <2> QED BY <1>2, <2>2 DEF Outcomes, Reject, Pending
<1> QED BY <1>2, <1>3 DEF Outcomes, Reject, Pending

\* An anchor is never where frames are refused.
LEMMA EnterNotRefused ==
  ASSUME NEW buf \in Seq(Nat), NEW p \in Nat \ {0}, EnterAt(buf, p) > 0
  PROVE  Chain(buf, p, LockK) # Reject
<1> DEFINE r == Probe(buf, p)
<1>1. r \in Nat /\ r > 0 /\ Chain(buf, p + r, Rounds) # Reject
  BY EnterFound
<1>2. Rounds \in Nat /\ LockK \in Nat /\ LockK <= 1 + Rounds /\ 1 + Rounds \in Nat /\ p \in Outcomes /\ 1 \in Nat /\ p > 0
  BY FramerConstants DEF Rounds, Outcomes
<1>3. Chain(buf, p, 1) = p + r
  <2>1. Chain(buf, p, 1) = After(buf, Chain(buf, p, 0)) /\ Chain(buf, p, 0) = p
    BY ChainStep, ChainSteps
  <2>2. ~(r <= 0)
    BY <1>1
  <2>3. After(buf, p) = p + r
    BY <1>2, <2>2, AfterIs
  <2> QED BY <2>1, <2>3
<1>4. Chain(buf, p, 1 + Rounds) = Chain(buf, p + r, Rounds)
  BY <1>2, <1>3, ChainAdds
<1> HIDE DEF r
<1> QED BY <1>1, <1>2, <1>4, ChainPrefix

\* Nor do frames that are refused lead to where frames are not.
LEMMA LeadsNotRefused ==
  ASSUME NEW buf \in Seq(Nat), NEW p \in Nat \ {0}, NEW target \in Nat \ {0},
         Leads(buf, p, target), Chain(buf, target, LockK) # Reject
  PROVE  Chain(buf, p, LockK) # Reject
<1>1. PICK k \in 0..((target - p) \div (MinBody + 1)) : Chain(buf, p, k) = target
  BY DEF Leads
<1>2. k \in Nat /\ LockK \in Nat /\ p \in Outcomes /\ LockK <= k + LockK /\ k + LockK \in Nat
  BY FramerConstants DEF Outcomes
<1>3. Chain(buf, p, k + LockK) = Chain(buf, target, LockK)
  BY <1>1, <1>2, ChainAdds
<1> QED BY <1>2, <1>3, ChainPrefix

\* Where frames lead to a frame there is one.
LEMMA LeadsFromFrame ==
  ASSUME NEW buf \in Seq(Nat), NEW p \in Nat \ {0}, NEW target \in Nat \ {0},
         Leads(buf, p, target), Probe(buf, target) > 0
  PROVE  Probe(buf, p) > 0
<1>1. PICK k \in 0..((target - p) \div (MinBody + 1)) : Chain(buf, p, k) = target
  BY DEF Leads
<1>2. CASE k = 0
  BY <1>1, <1>2, ChainSteps
<1>3. CASE k # 0
  <2>1. k \in Nat \ {0} /\ Chain(buf, p, k) > 0
    BY <1>1, <1>3
  <2> QED BY <2>1, ChainHead
<1> QED BY <1>2, <1>3

LEMMA LeadsToItself ==
  ASSUME NEW buf, NEW target \in Nat \ {0}
  PROVE  Leads(buf, target, target)
<1> DEFINE m == MinBody + 1
           n == (target - target) \div m
<1>1. m \in Nat \ {0}
  BY FramerConstants
<1>2. target - target = 0
  OBVIOUS
<1>3. n = 0
  <2>1. n = 0 \div m
    BY <1>2
  <2> HIDE DEF m
  <2> QED BY <1>1, <2>1
<1> HIDE DEF n
<1>4. 0 \in 0..n
  BY <1>3
<1>5. Chain(buf, target, 0) = target
  BY ChainSteps
<1> QED BY <1>4, <1>5 DEF Leads, n, m

\* Behind dropped bytes frames lead where they led.
LEMMA LeadsEnd ==
  ASSUME NEW a, NEW b, NEW d, EndOf(a, b, d), NEW p \in Nat \ {0}, NEW target \in Nat \ {0}
  PROVE  Leads(b, p + d, target + d) <=> Leads(a, p, target)
<1>1. d \in Nat /\ p + d = Later(d, p) /\ p \in Outcomes /\ a \in Seq(Nat)
  BY EndSequences DEF Later, Outcomes
<1>2. (target + d) - (p + d) = target - p
  BY <1>1
<1> DEFINE n == (target - p) \div (MinBody + 1)
<1>3. ASSUME NEW k \in 0..n
      PROVE  Chain(b, p + d, k) = target + d <=> Chain(a, p, k) = target
  <2> DEFINE x == Chain(a, p, k)
  <2>1. k \in Nat
    OBVIOUS
  <2>2. Chain(b, p + d, k) = Later(d, x) /\ x \in Outcomes
    BY <1>1, <2>1, ChainEnd, ChainIs
  <2> HIDE DEF x
  <2>3. Later(d, x) = target + d <=> x = target
    BY <1>1, <2>2 DEF Later, Outcomes, Reject
  <2> QED BY <2>2, <2>3 DEF x
<1>4. Leads(b, p + d, target + d) <=> \E k \in 0..n : Chain(b, p + d, k) = target + d
  BY <1>2 DEF Leads
<1>5. Leads(a, p, target) <=> \E k \in 0..n : Chain(a, p, k) = target
  BY DEF Leads
<1> HIDE DEF n
<1> QED BY <1>3, <1>4, <1>5

\* The length of a frame behind one that is there.
LEMMA FrameBehind ==
  ASSUME NEW buf \in Seq(Nat), NEW p \in Nat \ {0}, NEW r \in Nat, NEW first,
         first = Probe(buf, p + r), first > 0
  PROVE  p + r + 2 <= Len(buf)
<1> DEFINE q == p + r
           l == Len(buf)
<1>1. q \in Nat \ {0} /\ l \in Nat
  BY DEF q
<1>2. first = Probe(buf, q)
  BY DEF q
<1> HIDE DEF q, l
<1>3. first \in Nat /\ first > MinBody /\ q + first - 1 <= l
  BY <1>1, <1>2, ProbeIs DEF Reject, Pending, l
<1>4. q + 2 <= l
  BY <1>1, <1>3, FramerConstants
<1> QED BY <1>4 DEF q, l

\* The ENTER of a battle is one behind dropped bytes too.
LEMMA EnterEnd ==
  ASSUME NEW a, NEW b, NEW d, EndOf(a, b, d), NEW p \in Nat \ {0}
  PROVE  EnterAt(b, p + d) = EnterAt(a, p)
<1> DEFINE l == Len(a)
           q == p + d
           r == Probe(a, p)
           first == Probe(a, p + r)
           next == Probe(b, q + r)
           high == a[p + r + 2] >= HighOp
           high2 == b[q + r + 2] >= HighOp
           refused == Chain(a, p + r, Rounds) = Reject
           refused2 == Chain(b, q + r, Rounds) = Reject
<1>1. a \in Seq(Nat) /\ b \in Seq(Nat) /\ d \in Nat /\ l \in Nat /\ Len(b) = l + d /\ q \in Nat \ {0}
  BY EndSequences
<1>2. Probe(b, q) = r
  BY ProbeEnd
<1>3. ASSUME NEW i \in Nat, p + i <= l PROVE b[q + i] = a[p + i]
  <2>1. p + i \in 1..l /\ d + (p + i) = q + i
    BY <1>1, <1>3
  <2> QED BY <2>1 DEF EndOf
<1>4. EnterAt(a, p) = EnterCase(EnterThere(a, p), r, first, high, refused)
  BY <1>1, EnterIs
<1>5. EnterAt(b, q) = EnterCase(EnterThere(b, q), r, next, high2, refused2)
  BY <1>1, <1>2, EnterIs
<1>6. EnterThere(b, q) <=> EnterThere(a, p)
  <2>1. q + 2 <= l + d <=> p + 2 <= l
    BY <1>1
  <2>2. p + 2 <= l => p + 1 <= l
    BY <1>1
  <2>3. p + 2 <= l => b[q + 1] = a[p + 1] /\ b[q + 2] = a[p + 2]
    BY <1>3, <2>2
  <2> HIDE DEF q
  <2> QED BY <1>1, <2>1, <2>3 DEF EnterThere
<1>7. r \in Outcomes
  BY <1>1, ProbeIs DEF Outcomes, Reject, Pending
<1>8. CASE r <= 0 \/ r = Pending
  <2>1. r = Pending \/ r < EnterMin
    <3> HIDE DEF r
    <3> QED BY <1>7, <1>8, FramerConstants DEF Outcomes, Reject, Pending
  <2> DEFINE x == EnterThere(a, p)
             y == EnterThere(b, q)
  <2>2. x <=> y
    BY <1>6
  <2>3. EnterAt(a, p) = EnterCase(x, r, first, high, refused) /\ EnterAt(b, q) = EnterCase(y, r, next, high2, refused2)
    BY <1>4, <1>5
  <2> HIDE DEF x, y, q, r, first, next, high, high2, refused, refused2
  <2>4. EnterAt(b, q) = EnterAt(a, p)
    BY <2>1, <2>2, <2>3 DEF EnterCase
  <2> QED BY <2>4 DEF q
<1>9. CASE r > 0
  <2>1. r \in Nat /\ r > 0
    <3> HIDE DEF r
    <3> QED BY <1>7, <1>9 DEF Outcomes, Reject
  <2> HIDE DEF r
  <2>2. p + r \in Nat \ {0} /\ q + r = (p + r) + d /\ p + r \in Outcomes /\ Rounds \in Nat
    BY <1>1, <2>1, FramerConstants DEF Outcomes, Rounds
  <2>3. next = first
    <3>1. Probe(b, (p + r) + d) = Probe(a, p + r)
      BY <2>2, ProbeEnd
    <3> QED BY <2>2, <3>1
  <2>4. refused2 <=> refused
    <3> DEFINE x == Chain(a, p + r, Rounds)
               z == p + r
    <3>1. z \in Outcomes /\ z + d = q + r /\ z > 0
      BY <2>2
    <3> HIDE DEF z
    <3>2. Chain(b, Later(d, z), Rounds) = Later(d, Chain(a, z, Rounds)) /\ Chain(a, z, Rounds) \in Outcomes
      <4> DEFINE k == Rounds
      <4>1. k \in Nat /\ EndOf(a, b, d) /\ a \in Seq(Nat)
        BY <1>1, <2>2
      <4> HIDE DEF k, q
      <4>2. Chain(b, Later(d, z), k) = Later(d, Chain(a, z, k))
        BY ONLY <3>1, <4>1, ChainEnd
      <4>3. Chain(a, z, k) \in Outcomes
        BY ONLY <3>1, <4>1, ChainIs
      <4> QED BY <4>2, <4>3 DEF k
    <3>3. Later(d, z) = q + r
      BY <3>1 DEF Later
    <3>4. Chain(b, q + r, Rounds) = Later(d, x) /\ x \in Outcomes
      BY <3>2, <3>3 DEF z
    <3> HIDE DEF x
    <3>5. Later(d, x) = Reject <=> x = Reject
      BY <1>1, <3>4 DEF Later, Outcomes, Reject
    <3> QED BY <3>4, <3>5 DEF x
  <2>5. first > 0 => (high2 <=> high)
    <3> SUFFICES ASSUME first > 0 PROVE high2 <=> high
      OBVIOUS
    <3>1. p + r + 2 <= l
      BY <1>1, <2>1, FrameBehind
    <3>2. p + (r + 2) <= l /\ r + 2 \in Nat /\ q + (r + 2) = q + r + 2 /\ p + (r + 2) = p + r + 2
      BY <1>1, <2>1, <3>1
    <3>3. b[q + (r + 2)] = a[p + (r + 2)]
      BY <1>3, <3>2
    <3> QED BY <3>2, <3>3
  <2> DEFINE x == EnterThere(a, p)
             y == EnterThere(b, q)
  <2>6. EnterAt(a, p) = EnterCase(x, r, first, high, refused) /\ EnterAt(b, q) = EnterCase(y, r, next, high2, refused2)
        /\ (x <=> y)
    BY <1>4, <1>5, <1>6
  <2> HIDE DEF x, y, q, first, next, high, high2, refused, refused2
  <2>7. EnterAt(b, q) = EnterAt(a, p)
    BY <2>3, <2>4, <2>5, <2>6 DEF EnterCase
  <2> QED BY <2>7 DEF q
<1>10. r <= 0 \/ r > 0
  <2> HIDE DEF r
  <2> QED BY <1>7 DEF Outcomes, Reject
<1> QED BY <1>8, <1>9, <1>10

\* What is no anchor will be none, once its opcode is there.
LEMMA EnterGrows ==
  ASSUME NEW a, NEW b, StartOf(a, b), NEW p \in Nat \ {0}, p + 2 <= Len(a), EnterAt(a, p) = Reject
  PROVE  EnterAt(b, p) = Reject
<1> DEFINE l == Len(a)
           m == Len(b)
           r == Probe(a, p)
           s == Probe(b, p)
           first == Probe(a, p + r)
           next == Probe(b, p + s)
           high == a[p + r + 2] >= HighOp
           high2 == b[p + s + 2] >= HighOp
           refused == Chain(a, p + r, Rounds) = Reject
           refused2 == Chain(b, p + s, Rounds) = Reject
           x == EnterThere(a, p)
           y == EnterThere(b, p)
<1>1. a \in Seq(Nat) /\ b \in Seq(Nat) /\ l \in Nat /\ m \in Nat /\ l <= m
  BY StartSequences
<1>2. ASSUME NEW i \in 1..l PROVE b[i] = a[i]
  BY <1>2 DEF StartOf
<1>3. EnterAt(a, p) = EnterCase(x, r, first, high, refused)
  BY <1>1, EnterIs
<1>4. EnterAt(b, p) = EnterCase(y, s, next, high2, refused2)
  BY <1>1, EnterIs
<1>5. x <=> y
  <2>1. p + 1 \in 1..l /\ p + 2 \in 1..l /\ p + 2 <= l /\ p + 2 <= m
    BY <1>1
  <2>2. b[p + 1] = a[p + 1] /\ b[p + 2] = a[p + 2]
    BY <1>2, <2>1
  <2> QED BY <2>1, <2>2 DEF EnterThere
<1> HIDE DEF x, y
<1>6. CASE ~x
  <2> HIDE DEF s, next, high2, refused2
  <2> QED BY <1>4, <1>5, <1>6 DEF EnterCase
<1>7. CASE x
  <2>1. r # Pending
    <3> HIDE DEF r, first, high, refused
    <3> QED BY <1>3, <1>7 DEF EnterCase, Reject, Pending
  <2>2. s = r
    BY <2>1, ProbeStart
  <2>3. CASE r < EnterMin
    <3> HIDE DEF r, s, next, high2, refused2
    <3> QED BY <1>4, <1>5, <1>7, <2>1, <2>2, <2>3 DEF EnterCase
  <2>4. CASE ~(r < EnterMin)
    <3>1. r \in Nat /\ r > 0
      <4>1. r \in Outcomes
        BY <1>1, ProbeIs DEF Outcomes, Reject, Pending
      <4> HIDE DEF r
      <4> QED BY <2>1, <2>4, <4>1, FramerConstants DEF Outcomes, Reject, Pending
    <3> HIDE DEF r, s
    <3>2. p + r \in Nat \ {0} /\ p + r \in Outcomes /\ Rounds \in Nat \ {0}
      BY <3>1, FramerConstants DEF Outcomes, Rounds
    <3>3. first # Pending => next = first
      BY <2>2, <3>2, ProbeStart
    <3>4. refused => refused2
      <4>1. Chain(a, p + r, Rounds) = Reject => Chain(b, p + r, Rounds) = Chain(a, p + r, Rounds)
        BY <3>2, ChainGrows DEF Reject, Pending
      <4> QED BY <2>2, <4>1
    <3>5. first > 0 => (high2 <=> high)
      <4> SUFFICES ASSUME first > 0 PROVE high2 <=> high
        OBVIOUS
      <4>1. p + r + 2 <= l
        BY <1>1, <3>1, FrameBehind
      <4>2. p + r + 2 \in 1..l
        BY <1>1, <3>1, <4>1
      <4> QED BY <1>2, <2>2, <4>2
    <3>6. first = Reject => refused
      BY <3>2, ChainRefused
    <3>8. first > 0 => first # Pending
      BY DEF Pending
    <3> HIDE DEF first, next, high, high2, refused, refused2
    <3>7. (first > 0 /\ high) \/ refused
      BY <1>3, <1>7, <2>1, <2>4, <3>6 DEF EnterCase
    <3>9. (next > 0 /\ high2) \/ refused2
      BY <3>3, <3>4, <3>5, <3>7, <3>8
    <3> QED BY <1>4, <1>5, <1>7, <2>1, <2>2, <3>9 DEF EnterCase
  <2> QED BY <2>3, <2>4
<1> QED BY <1>6, <1>7

-----------------------------------------------------------------------------
(***************************************************************************)
(* What the search remembers: all places before scanFrom are refused, and no *)
(* place before anchorFrom is or will be an anchor.                        *)
(***************************************************************************)
LEMMA EarliestLeast ==
  ASSUME NEW S, S \subseteq Nat, NEW other
  PROVE  \/ S = {} /\ Earliest(S, other) = other
         \/ /\ S # {} /\ Earliest(S, other) \in S
            /\ \A y \in S : Earliest(S, other) <= y
<1>1. S # {} => \E x \in S : \A y \in S : x <= y
  BY Least
<1> QED
  BY <1>1 DEF Earliest

\* Nothing is refused where there is nothing.
LEMMA RefusedIsThere ==
  ASSUME NEW buf \in Seq(Nat), NEW p \in Nat \ {0}, Chain(buf, p, LockK) = Reject
  PROVE  p <= Len(buf)
<1>1. SUFFICES ASSUME ~(p <= Len(buf)) PROVE FALSE
  OBVIOUS
<1>2. Probe(buf, p) = Pending
  <2>1. p > Len(buf)
    BY <1>1
  <2> QED BY <2>1 DEF Probe
<1>3. p \in Outcomes /\ 1 \in Nat /\ 0 \in Nat /\ 1 = 0 + 1 /\ LockK \in Nat /\ 1 <= LockK /\ p > 0
  BY FramerConstants DEF Outcomes
<1>4. Chain(buf, p, 1) = After(buf, p)
  <2>1. Chain(buf, p, 0) = p
    BY ChainSteps
  <2>2. Chain(buf, p, 1) = After(buf, Chain(buf, p, 0))
    BY <1>3, ChainStep
  <2> QED BY <2>1, <2>2
<1>5. Chain(buf, p, 1) = Pending
  <2>1. After(buf, p) = Pending
    BY <1>2, <1>3, AfterIs DEF Pending
  <2> QED BY <1>4, <2>1
<1>6. Chain(buf, p, LockK) = Pending
  BY <1>3, <1>5, ChainStuck DEF Pending
<1> QED BY <1>6 DEF Reject, Pending

\* All places before p are refused.
Refused(buf, p) == \A q \in 1..(p - 1) : Chain(buf, q, LockK) = Reject

\* There is no anchor before p, nor will there be.
NoAnchor(buf, p) == \A q \in 1..(p - 1) : q + 2 <= Len(buf) /\ EnterAt(buf, q) = Reject

LEMMA FindLockFinds ==
  ASSUME NEW buf \in Seq(Nat), NEW from \in Nat \ {0}, Refused(buf, from), NEW lock, lock = FindLock(buf, from)
  PROVE  /\ \/ lock.off = 0 /\ \A p \in 1..Len(buf) : Chain(buf, p, LockK) <= 0
            \/ /\ lock.off \in 1..Len(buf) /\ Chain(buf, lock.off, LockK) > 0
               /\ \A p \in 1..Len(buf) : Chain(buf, p, LockK) > 0 => lock.off <= p
         /\ lock.rest \in Nat \ {0} /\ lock.rest <= Len(buf) + 1 /\ Refused(buf, lock.rest)
         /\ lock.off = 0 /\ lock.rest <= Len(buf) => Chain(buf, lock.rest, LockK) = Pending
<1> DEFINE l == Len(buf)
           c(p) == Chain(buf, p, LockK)
           open == {p \in from..l : c(p) # Reject}
           whole == {p \in open : c(p) > 0}
           off == Earliest(whole, 0)
           rest == Earliest(open, l + 1)
<1>1. lock.off = off /\ lock.rest = rest
  BY DEF FindLock
<1>2. l \in Nat /\ LockK \in Nat /\ LockK # 0
  BY FramerConstants
<1>3. ASSUME NEW p \in Nat \ {0} PROVE c(p) \in Outcomes
  BY <1>2, ChainIs DEF Outcomes
<1>4. \A p \in 1..(from - 1) : c(p) = Reject
  BY DEF Refused
<1>5. from <= l + 1
  <2> SUFFICES ASSUME ~(from <= l + 1) PROVE FALSE
    OBVIOUS
  <2>1. l + 1 \in 1..(from - 1) /\ l + 1 \in Nat \ {0}
    BY <1>2
  <2>2. c(l + 1) = Reject
    BY <1>4, <2>1
  <2>3. l + 1 <= l
    BY <2>1, <2>2, RefusedIsThere
  <2> QED BY <1>2, <2>3
<1> HIDE DEF c
<1>6. open \subseteq Nat /\ whole \subseteq Nat /\ open \subseteq from..l
  BY <1>2
<1>7. \A p \in 1..l : p \in from..l \/ p \in 1..(from - 1)
  BY <1>2
<1>8. \A p \in 1..l : c(p) > 0 => p \in whole
  <2> SUFFICES ASSUME NEW p \in 1..l, c(p) > 0 PROVE p \in whole
    OBVIOUS
  <2>1. c(p) # Reject
    BY DEF Reject
  <2> QED BY <1>4, <1>7, <2>1
<1>9. \/ whole = {} /\ off = 0
      \/ off \in whole /\ \A p \in whole : off <= p
  <2> HIDE DEF whole
  <2> QED BY <1>6, EarliestLeast
<1>10. \/ open = {} /\ rest = l + 1
       \/ rest \in open /\ \A p \in open : rest <= p
  <2> HIDE DEF open
  <2> QED BY <1>6, EarliestLeast
<1> HIDE DEF off, rest
<1>11. \/ off = 0 /\ \A p \in 1..l : c(p) <= 0
       \/ off \in 1..l /\ c(off) > 0 /\ \A p \in 1..l : c(p) > 0 => off <= p
  <2>1. CASE whole = {} /\ off = 0
    <3>1. \A p \in 1..l : ~(c(p) > 0) /\ c(p) \in Outcomes
      BY <1>3, <1>8, <2>1
    <3>2. \A p \in 1..l : c(p) <= 0
      BY <3>1 DEF Outcomes, Reject
    <3> QED BY <2>1, <3>2
  <2>2. CASE off \in whole /\ \A p \in whole : off <= p
    <3>1. off \in from..l /\ c(off) > 0
      BY <2>2
    <3>2. off \in 1..l
      BY <1>2, <3>1
    <3> QED BY <1>8, <2>2, <3>1, <3>2
  <2> QED BY <1>9, <2>1, <2>2
<1>12. rest \in Nat \ {0} /\ rest <= l + 1 /\ Refused(buf, rest)
  <2>1. CASE open = {} /\ rest = l + 1
    <3>1. \A p \in 1..l : c(p) = Reject
      BY <1>4, <1>7, <2>1
    <3>2. rest - 1 = l
      BY <1>2, <2>1
    <3> QED BY <1>2, <2>1, <3>1, <3>2 DEF Refused, c
  <2>2. CASE rest \in open /\ \A p \in open : rest <= p
    <3>1. rest \in Nat \ {0} /\ rest <= l
      BY <1>2, <1>6, <2>2
    <3>2. ASSUME NEW p \in 1..(rest - 1) PROVE c(p) = Reject
      <4>1. p \in 1..l /\ ~(rest <= p)
        BY <1>2, <3>1
      <4>2. p \notin open
        BY <2>2, <4>1
      <4> QED BY <1>4, <1>7, <4>1, <4>2
    <3> QED BY <1>2, <3>1, <3>2 DEF Refused, c
  <2> QED BY <1>10, <2>1, <2>2
<1>13. off = 0 /\ rest <= l => c(rest) = Pending
  <2> SUFFICES ASSUME off = 0, rest <= l PROVE c(rest) = Pending
    OBVIOUS
  <2>1. rest \in open
    BY <1>2, <1>10
  <2>2. c(rest) # Reject /\ rest \in 1..l
    BY <1>2, <1>12, <2>1
  <2>3. c(rest) <= 0
    BY <1>2, <1>11, <2>2
  <2>4. c(rest) \in Outcomes
    BY <1>3, <1>12
  <2> QED BY <2>2, <2>3, <2>4 DEF Outcomes, Reject, Pending
<1> QED BY <1>1, <1>11, <1>12, <1>13 DEF c

LEMMA EnterAnchorFinds ==
  ASSUME NEW buf \in Seq(Nat), NEW from \in Nat \ {0}, NoAnchor(buf, from), NEW anchor, anchor = EnterAnchor(buf, from)
  PROVE  /\ \/ anchor.off = 0 /\ \A p \in 1..Len(buf) : EnterAt(buf, p) <= 0
            \/ /\ anchor.off \in 1..Len(buf) /\ EnterAt(buf, anchor.off) > 0
               /\ \A p \in 1..Len(buf) : EnterAt(buf, p) > 0 => anchor.off <= p
         /\ anchor.rest \in Nat \ {0} /\ NoAnchor(buf, anchor.rest)
<1> DEFINE l == Len(buf)
           c(p) == EnterAt(buf, p)
           open == {p \in from..l : c(p) # Reject}
           whole == {p \in open : c(p) > 0}
           tail == IF l - 1 > from THEN l - 1 ELSE from
           off == Earliest(whole, 0)
           rest == Earliest(open, tail)
<1>1. anchor.off = off /\ anchor.rest = rest
  BY DEF EnterAnchor
<1>2. l \in Nat
  OBVIOUS
<1>3. ASSUME NEW p \in Nat \ {0} PROVE c(p) \in Outcomes
  BY EnterOutcome
<1>5. ASSUME NEW p \in Nat \ {0}, c(p) # Reject PROVE p + 2 <= l
  <2>1. ~EnterThere(buf, p) => c(p) = Reject
    BY EnterIs DEF EnterCase
  <2> QED BY <1>5, <2>1 DEF EnterThere
<1> HIDE DEF c
<1>4. \A p \in 1..(from - 1) : p + 2 <= l /\ c(p) = Reject
  BY DEF NoAnchor, c
<1>6. open \subseteq Nat /\ whole \subseteq Nat /\ open \subseteq from..l
  BY <1>2
<1>7. \A p \in 1..l : p \in from..l \/ p \in 1..(from - 1)
  BY <1>2
<1>8. \A p \in 1..l : c(p) > 0 => p \in whole
  <2> SUFFICES ASSUME NEW p \in 1..l, c(p) > 0 PROVE p \in whole
    OBVIOUS
  <2>1. c(p) # Reject
    BY DEF Reject
  <2> QED BY <1>4, <1>7, <2>1
<1>9. \/ whole = {} /\ off = 0
      \/ off \in whole /\ \A p \in whole : off <= p
  <2> HIDE DEF whole
  <2> QED BY <1>6, EarliestLeast
<1>10. \/ open = {} /\ rest = tail
       \/ rest \in open /\ \A p \in open : rest <= p
  <2> HIDE DEF open, tail
  <2> QED BY <1>6, EarliestLeast
<1> HIDE DEF off, rest
<1>11. \/ off = 0 /\ \A p \in 1..l : c(p) <= 0
       \/ off \in 1..l /\ c(off) > 0 /\ \A p \in 1..l : c(p) > 0 => off <= p
  <2>1. CASE whole = {} /\ off = 0
    <3>1. \A p \in 1..l : ~(c(p) > 0) /\ c(p) \in Outcomes
      BY <1>3, <1>8, <2>1
    <3>2. \A p \in 1..l : c(p) <= 0
      BY <3>1 DEF Outcomes, Reject
    <3> QED BY <2>1, <3>2
  <2>2. CASE off \in whole /\ \A p \in whole : off <= p
    <3>1. off \in from..l /\ c(off) > 0
      BY <2>2
    <3>2. off \in 1..l
      BY <1>2, <3>1
    <3> QED BY <1>8, <2>2, <3>1, <3>2
  <2> QED BY <1>9, <2>1, <2>2
<1>12. rest \in Nat \ {0} /\ NoAnchor(buf, rest)
  <2>1. CASE open = {} /\ rest = tail
    <3>0. tail \in Nat \ {0} /\ \A p \in 1..(tail - 1) : p \in 1..(from - 1) \/ (p + 2 <= l /\ p \in from..l)
      <4>1. (l - 1 > from /\ tail = l - 1) \/ tail = from
        OBVIOUS
      <4> HIDE DEF tail, l
      <4>2. CASE l - 1 > from /\ tail = l - 1
        BY <1>2, <4>2
      <4>3. CASE tail = from
        BY <4>3
      <4> QED BY <4>1, <4>2, <4>3
    <3> HIDE DEF tail
    <3>1. \A p \in 1..(tail - 1) : p + 2 <= l /\ c(p) = Reject
      BY <1>4, <2>1, <3>0
    <3> QED BY <2>1, <3>0, <3>1 DEF NoAnchor, c
  <2>2. CASE rest \in open /\ \A p \in open : rest <= p
    <3>1. rest \in Nat \ {0} /\ c(rest) # Reject
      BY <1>2, <1>6, <2>2
    <3>3. rest + 2 <= l
      BY <1>5, <3>1
    <3>2. ASSUME NEW p \in 1..(rest - 1) PROVE p + 2 <= l /\ c(p) = Reject
      <4>1. p \in 1..l /\ ~(rest <= p) /\ p + 2 <= l
        BY <1>2, <3>1, <3>3
      <4>2. p \notin open
        BY <2>2, <4>1
      <4> QED BY <1>4, <1>7, <4>1, <4>2
    <3> QED BY <1>2, <3>1, <3>2 DEF NoAnchor, c
  <2> QED BY <1>10, <2>1, <2>2
<1> QED BY <1>1, <1>11, <1>12 DEF c

\* What the search has passed before is refused, of the buffer of an unlocked framer.
Searched(s) == Refused(s.buf, s.scanFrom) /\ NoAnchor(s.buf, s.anchorFrom)

LEMMA RefusedGrows ==
  ASSUME NEW a, NEW b, StartOf(a, b), NEW p \in Nat, Refused(a, p)
  PROVE  Refused(b, p)
<1> SUFFICES ASSUME NEW q \in 1..(p - 1) PROVE Chain(b, q, LockK) = Reject
  BY DEF Refused
<1>1. Chain(a, q, LockK) = Reject /\ q \in Outcomes /\ LockK \in Nat
  BY FramerConstants DEF Refused, Outcomes
<1>2. Chain(a, q, LockK) # Pending
  BY <1>1 DEF Reject, Pending
<1> QED BY <1>1, <1>2, ChainGrows

LEMMA NoAnchorGrows ==
  ASSUME NEW a, NEW b, StartOf(a, b), NEW p \in Nat, NoAnchor(a, p)
  PROVE  NoAnchor(b, p)
<1> SUFFICES ASSUME NEW q \in 1..(p - 1) PROVE q + 2 <= Len(b) /\ EnterAt(b, q) = Reject
  BY DEF NoAnchor
<1>1. q + 2 <= Len(a) /\ EnterAt(a, q) = Reject
  BY DEF NoAnchor
<1>2. Len(a) \in Nat /\ Len(b) \in Nat /\ Len(a) <= Len(b)
  BY StartSequences
<1>3. q \in Nat \ {0}
  OBVIOUS
<1>4. EnterAt(b, q) = Reject
  BY <1>1, <1>3, EnterGrows
<1>5. q + 2 <= Len(b)
  BY <1>1, <1>2, <1>3
<1> QED BY <1>4, <1>5

LEMMA ChainEndRefused ==
  ASSUME NEW a, NEW b, NEW d, EndOf(a, b, d), NEW p \in Nat \ {0}, NEW k \in Nat
  PROVE  /\ Chain(b, p + d, k) = Reject <=> Chain(a, p, k) = Reject
         /\ Chain(b, p + d, k) > 0 <=> Chain(a, p, k) > 0
<1>1. d \in Nat /\ p \in Outcomes /\ a \in Seq(Nat) /\ Later(d, p) = p + d
  BY EndSequences DEF Later, Outcomes
<1> DEFINE x == Chain(a, p, k)
<1>2. Chain(b, p + d, k) = Later(d, x) /\ x \in Outcomes
  <2>1. Chain(b, Later(d, p), k) = Later(d, x)
    BY <1>1, ChainEnd
  <2>2. x \in Outcomes
    BY <1>1, ChainIs
  <2> QED BY <1>1, <2>1, <2>2
<1> HIDE DEF x
<1>3. (Later(d, x) = Reject <=> x = Reject) /\ (Later(d, x) > 0 <=> x > 0)
  BY <1>1, <1>2 DEF Later, Outcomes, Reject
<1> QED BY <1>2, <1>3 DEF x

LEMMA RefusedEnd ==
  ASSUME NEW a, NEW b, NEW d, EndOf(a, b, d), NEW p \in Nat \ {0}, Refused(b, p + d)
  PROVE  Refused(a, p)
<1> SUFFICES ASSUME NEW q \in 1..(p - 1) PROVE Chain(a, q, LockK) = Reject
  BY DEF Refused
<1>1. q \in Nat \ {0} /\ d \in Nat /\ LockK \in Nat /\ q + d \in 1..((p + d) - 1)
  BY FramerConstants, EndSequences
<1>2. Chain(b, q + d, LockK) = Reject
  BY <1>1 DEF Refused
<1> QED BY <1>1, <1>2, ChainEndRefused

LEMMA NoAnchorEnd ==
  ASSUME NEW a, NEW b, NEW d, EndOf(a, b, d), NEW p \in Nat \ {0}, NoAnchor(b, p + d)
  PROVE  NoAnchor(a, p)
<1> SUFFICES ASSUME NEW q \in 1..(p - 1) PROVE q + 2 <= Len(a) /\ EnterAt(a, q) = Reject
  BY DEF NoAnchor
<1>1. q \in Nat \ {0} /\ d \in Nat /\ q + d \in 1..((p + d) - 1) /\ Len(b) = Len(a) + d /\ Len(a) \in Nat
  BY EndSequences
<1>2. (q + d) + 2 <= Len(b) /\ EnterAt(b, q + d) = Reject
  BY <1>1 DEF NoAnchor
<1>3. EnterAt(a, q) = Reject
  BY <1>1, <1>2, EnterEnd
<1>4. q + 2 <= Len(a)
  BY <1>1, <1>2
<1> QED BY <1>3, <1>4

LEMMA FirstPlaces ==
  ASSUME NEW buf
  PROVE  Refused(buf, 1) /\ NoAnchor(buf, 1)
  BY DEF Refused, NoAnchor

\* What consuming keeps.
LEMMA ConsumeEnd ==
  ASSUME NEW s \in Framers, NEW n \in 0..Len(s.buf), NEW t, t = Consume(s, n)
  PROVE  /\ Passed(s, t, n) /\ EndOf(t.buf, s.buf, n)
         /\ t.gap = s.gap /\ t.since = s.since /\ t.last = s.last /\ t.overflows = s.overflows
         /\ t.locked = s.locked
         /\ Searched(s) => Searched(t)
<1> DEFINE back(x) == IF x - n > 1 THEN x - n ELSE 1
<1>1. Passed(s, t, n) /\ t.locked = s.locked
  BY ConsumeIs
<1>2. t \in Framers /\ Len(t.buf) = Len(s.buf) - n /\ \A i \in 1..Len(t.buf) : t.buf[i] = s.buf[n + i]
  BY <1>1 DEF Passed
<1>3. t.buf \in Seq(Nat) /\ s.buf \in Seq(Nat) /\ n \in Nat /\ Len(s.buf) \in Nat
      /\ s.scanFrom \in Nat \ {0} /\ s.anchorFrom \in Nat \ {0}
  BY <1>2, FieldsAre
<1>4. EndOf(t.buf, s.buf, n)
  <2>1. Len(s.buf) = Len(t.buf) + n
    BY <1>2, <1>3
  <2> QED BY <1>2, <1>3, <2>1 DEF EndOf
<1>5. /\ t.gap = s.gap /\ t.since = s.since /\ t.last = s.last /\ t.overflows = s.overflows
      /\ t.scanFrom = back(s.scanFrom) /\ t.anchorFrom = back(s.anchorFrom)
  BY DEF Consume, Framers
<1>6. ASSUME NEW x \in Nat \ {0}
      PROVE  /\ back(x) \in Nat \ {0} /\ (back(x) = 1 \/ x = back(x) + n)
  BY <1>3
<1>7. ASSUME NEW x \in Nat \ {0}, Refused(s.buf, x) PROVE Refused(t.buf, back(x))
  <2>1. back(x) \in Nat \ {0} /\ (back(x) = 1 \/ x = back(x) + n)
    BY <1>6
  <2> HIDE DEF back
  <2> QED BY <1>4, <1>7, <2>1, RefusedEnd, FirstPlaces
<1>8. ASSUME NEW x \in Nat \ {0}, NoAnchor(s.buf, x) PROVE NoAnchor(t.buf, back(x))
  <2>1. back(x) \in Nat \ {0} /\ (back(x) = 1 \/ x = back(x) + n)
    BY <1>6
  <2> HIDE DEF back
  <2> QED BY <1>4, <1>8, <2>1, NoAnchorEnd, FirstPlaces
<1> HIDE DEF back
<1>9. Searched(s) => Searched(t)
  BY <1>3, <1>5, <1>7, <1>8 DEF Searched
<1> QED BY <1>1, <1>4, <1>5, <1>9

LEMMA SameEnd ==
  ASSUME NEW s \in Framers
  PROVE  Passed(s, s, 0) /\ EndOf(s.buf, s.buf, 0)
<1>1. s.buf \in Seq(Nat) /\ Len(s.buf) \in Nat
  BY FieldsAre
<1>2. Passed(s, s, 0)
  BY <1>1, FieldsAre DEF Passed
<1> DEFINE b == s.buf
<1>3. b \in Seq(Nat) /\ Len(b) \in Nat
  BY <1>1
<1> HIDE DEF b
<1>4. EndOf(b, b, 0)
  BY <1>3 DEF EndOf
<1> QED BY <1>2, <1>4 DEF b

\* Only refused bytes are dropped, and no more remain than the window unless the
\* first that remains is not refused.
LEMMA TrimEnd ==
  ASSUME NEW s \in Framers, Searched(s), NEW t, t = Trim(s)
  PROVE  \E n \in 0..Len(s.buf) :
           /\ Passed(s, t, n) /\ EndOf(t.buf, s.buf, n) /\ Searched(t)
           /\ t.gap = s.gap /\ t.since = s.since /\ t.last = s.last /\ t.overflows = s.overflows
           /\ t.locked = s.locked
           /\ n <= s.scanFrom - 1
           /\ Len(s.buf) <= LockWindow => n = 0 /\ t = s
           /\ Len(t.buf) <= LockWindow \/ n = s.scanFrom - 1
<1> DEFINE l == Len(s.buf)
           f == s.scanFrom
           half == LockWindow \div 2
           over == l - half
           drop == IF f - 1 < over THEN f - 1 ELSE over
<1>1. l \in Nat /\ f \in Nat \ {0} /\ half \in Nat /\ LockWindow \in Nat /\ half <= LockWindow
  BY FieldsAre, Windows
<1>2. drop \in Int /\ drop <= f - 1 /\ drop <= l
  <2> HIDE DEF l, f, half
  <2> QED BY <1>1
<1>3. CASE l <= LockWindow \/ drop <= 0
  <2>1. t = s
    BY <1>3 DEF Trim
  <2>2. Passed(s, s, 0) /\ EndOf(s.buf, s.buf, 0)
    BY SameEnd
  <2>3. l <= LockWindow \/ 0 = f - 1
    <3> HIDE DEF l, f, half
    <3> QED BY <1>1, <1>3
  <2>4. 0 \in 0..l /\ 0 <= f - 1
    <3> HIDE DEF l, f, half
    <3> QED BY <1>1
  <2> HIDE DEF drop, over, half
  <2> QED BY <2>1, <2>2, <2>3, <2>4
<1>4. CASE ~(l <= LockWindow \/ drop <= 0)
  <2>1. t = Consume(s, drop)
    BY <1>4 DEF Trim
  <2>2. drop \in 0..l
    <3> HIDE DEF l, f, half
    <3> QED BY <1>1, <1>2, <1>4
  <2>3. l - drop <= LockWindow \/ drop = f - 1
    <3> HIDE DEF l, f, half
    <3> QED BY <1>1, <1>4
  <2> HIDE DEF drop
  <2>4. /\ Passed(s, t, drop) /\ EndOf(t.buf, s.buf, drop)
        /\ t.gap = s.gap /\ t.since = s.since /\ t.last = s.last /\ t.overflows = s.overflows
        /\ t.locked = s.locked /\ Searched(t)
    BY <2>1, <2>2, ConsumeEnd
  <2>5. Len(t.buf) = l - drop
    BY <2>4 DEF Passed
  <2> QED BY <1>2, <1>4, <2>2, <2>3, <2>4, <2>5
<1> QED BY <1>3, <1>4

-----------------------------------------------------------------------------
\* The parts of a search.
Timed(s, ts) == ScanDue(s) \/ ts - s.last >= MaxWait

ScanOf(s, ts) ==
  IF Timed(s, ts) THEN Scanned(s, FindLock(s.buf, s.scanFrom))
  ELSE [off |-> 0, rest |-> s.scanFrom]

AnchorOf(s) == EnterAnchor(s.buf, s.anchorFrom)

FirstOf(s, ts) ==
  LET rest == ScanOf(s, ts).rest
      off == AnchorOf(s).off
  IN  ChainStart(s.buf, IF rest < off THEN rest ELSE off, off)

Chosen(s, ts) ==
  IF AnchorOf(s).off > 0 /\ (ScanOf(s, ts).off = 0 \/ FirstOf(s, ts) < ScanOf(s, ts).off)
    THEN FirstOf(s, ts) ELSE ScanOf(s, ts).off

\* What the search remembers.
Noted(s, ts) ==
  [s EXCEPT !.since = IF ScanDue(s) THEN 0 ELSE @, !.last = IF Timed(s, ts) THEN ts ELSE @,
            !.scanFrom = ScanOf(s, ts).rest, !.anchorFrom = AnchorOf(s).rest]

GapAfter(s, ts) ==
  LET trimmed == Trim(Noted(s, ts))
      size == Len(trimmed.buf) \div GapDivisor
  IN  IF ScanDue(s) THEN IF size > GapMin THEN size ELSE GapMin ELSE trimmed.gap

LEMMA SearchAs ==
  ASSUME NEW s, NEW ts
  PROVE  \/ /\ Chosen(s, ts) = 0
            /\ Search(s, ts) = [Trim(Noted(s, ts)) EXCEPT !.gap = GapAfter(s, ts)]
         \/ /\ Chosen(s, ts) # 0
            /\ Search(s, ts) = [Consume(Noted(s, ts), Chosen(s, ts) - 1) EXCEPT
                                 !.locked = TRUE, !.scanFrom = 1, !.anchorFrom = 1, !.gap = 0]
<1> DEFINE s2 == Trim(Noted(s, ts))
           size == Len(s2.buf) \div GapDivisor
           due == ScanDue(s)
<1>1. Search(s, ts) = Settle(s, ts, due, Timed(s, ts), ScanOf(s, ts), AnchorOf(s))
  BY DEF Search, Timed, ScanOf, AnchorOf
<1>2. Search(s, ts) =
        IF Chosen(s, ts) = 0
          THEN [s2 EXCEPT !.gap = IF due THEN IF size > GapMin THEN size ELSE GapMin ELSE @]
          ELSE [Consume(Noted(s, ts), Chosen(s, ts) - 1) EXCEPT
                 !.locked = TRUE, !.scanFrom = 1, !.anchorFrom = 1, !.gap = 0]
  BY <1>1 DEF Settle, Noted, Chosen, FirstOf
<1> DEFINE gap == IF due THEN IF size > GapMin THEN size ELSE GapMin ELSE s2.gap
<1>3. [s2 EXCEPT !.gap = IF due THEN IF size > GapMin THEN size ELSE GapMin ELSE @] = [s2 EXCEPT !.gap = gap]
  OBVIOUS
<1>4. gap = GapAfter(s, ts)
  BY DEF GapAfter
<1> HIDE DEF gap, s2
<1> QED BY <1>2, <1>3, <1>4 DEF s2

NoLockIn(buf) == \A p \in 1..Len(buf) : Chain(buf, p, LockK) <= 0

\* From p on frames may still come.
Pends(buf, p) == p <= Len(buf) + 1 /\ (p <= Len(buf) => Chain(buf, p, LockK) = Pending)

NoEnterIn(buf) == \A p \in 1..Len(buf) : EnterAt(buf, p) <= 0

LEMMA PopupIsFrame ==
  ASSUME NEW buf \in Seq(Nat), PopupAnchor(buf)
  PROVE  Probe(buf, 1) > 0
<1>1. PICK i \in 2..LockK : Chain(buf, 1, i) > 0
  BY DEF PopupAnchor
<1>2. i \in Nat \ {0} /\ 1 \in Nat \ {0}
  BY FramerConstants
<1> QED BY <1>1, <1>2, ChainHead

\* What the scan finds, and what it goes on with.
LEMMA ScanIs ==
  ASSUME NEW s \in Framers, Searched(s), NEW ts \in Int, NEW scan, scan = ScanOf(s, ts)
  PROVE  /\ scan.rest \in Nat \ {0} /\ Refused(s.buf, scan.rest)
         /\ \/ ~Timed(s, ts) /\ scan.off = 0
            \/ /\ Timed(s, ts) /\ scan.off \in 1..Len(s.buf) /\ Chain(s.buf, scan.off, LockK) > 0
               /\ \A p \in 1..Len(s.buf) : Chain(s.buf, p, LockK) > 0 => scan.off <= p
            \/ Timed(s, ts) /\ NoLockIn(s.buf) /\ PopupAnchor(s.buf) /\ scan.off = 1
            \/ /\ Timed(s, ts) /\ NoLockIn(s.buf) /\ ~PopupAnchor(s.buf) /\ scan.off = 0
               /\ Pends(s.buf, scan.rest)
<1> DEFINE lock == FindLock(s.buf, s.scanFrom)
           l == Len(s.buf)
<1>1. s.buf \in Seq(Nat) /\ s.scanFrom \in Nat \ {0} /\ l \in Nat /\ Refused(s.buf, s.scanFrom)
  BY FieldsAre DEF Searched
<1>2. /\ \/ lock.off = 0 /\ NoLockIn(s.buf)
         \/ /\ lock.off \in 1..l /\ Chain(s.buf, lock.off, LockK) > 0
            /\ \A p \in 1..l : Chain(s.buf, p, LockK) > 0 => lock.off <= p
      /\ lock.rest \in Nat \ {0} /\ lock.rest <= l + 1 /\ Refused(s.buf, lock.rest)
      /\ lock.off = 0 => Pends(s.buf, lock.rest)
  BY <1>1, FindLockFinds DEF NoLockIn, Pends
<1>3. CASE ~Timed(s, ts)
  <2>1. scan = [off |-> 0, rest |-> s.scanFrom]
    BY <1>3 DEF ScanOf
  <2> QED BY <1>1, <1>3, <2>1
<1>4. CASE Timed(s, ts)
  <2>1. scan = Scanned(s, lock)
    BY <1>4 DEF ScanOf
  <2> HIDE DEF lock, l
  <2>2. CASE lock.off > 0
    <3>1. scan = [off |-> lock.off, rest |-> s.scanFrom]
      BY <2>1, <2>2 DEF Scanned
    <3>2. lock.off # 0
      BY <2>2
    <3> QED BY <1>1, <1>2, <1>4, <3>1, <3>2 DEF l
  <2>3. CASE ~(lock.off > 0)
    <3>1. lock.off = 0 /\ NoLockIn(s.buf)
      BY <1>1, <1>2, <2>3
    <3>2. CASE PopupAnchor(s.buf)
      <4>1. scan = [off |-> 1, rest |-> s.scanFrom]
        BY <2>1, <2>3, <3>2 DEF Scanned
      <4> QED BY <1>1, <1>4, <3>1, <3>2, <4>1
    <3>3. CASE ~PopupAnchor(s.buf)
      <4>1. scan = [off |-> 0, rest |-> lock.rest]
        BY <2>1, <2>3, <3>3 DEF Scanned
      <4> QED BY <1>2, <1>4, <3>1, <3>3, <4>1 DEF l
    <3> QED BY <3>2, <3>3
  <2> QED BY <2>2, <2>3
<1> QED BY <1>3, <1>4

LEMMA AnchorIs ==
  ASSUME NEW s \in Framers, Searched(s), NEW anchor, anchor = AnchorOf(s)
  PROVE  /\ anchor.rest \in Nat \ {0} /\ NoAnchor(s.buf, anchor.rest)
         /\ \/ anchor.off = 0 /\ NoEnterIn(s.buf)
            \/ /\ anchor.off \in 1..Len(s.buf) /\ EnterAt(s.buf, anchor.off) > 0
               /\ \A p \in 1..Len(s.buf) : EnterAt(s.buf, p) > 0 => anchor.off <= p
<1>1. s.buf \in Seq(Nat) /\ s.anchorFrom \in Nat \ {0} /\ NoAnchor(s.buf, s.anchorFrom)
  BY FieldsAre DEF Searched
<1> QED BY <1>1, EnterAnchorFinds DEF AnchorOf, NoEnterIn

\* The first place from which frames lead to an anchor, wherever one looks from,
\* as long as it is behind refused places only.
LEMMA ChainStartFirst ==
  ASSUME NEW buf \in Seq(Nat), NEW target \in Nat \ {0}, EnterAt(buf, target) > 0,
         NEW from \in Nat \ {0}, from <= target, Refused(buf, from),
         NEW first, first = ChainStart(buf, from, target)
  PROVE  /\ first \in 1..target /\ Leads(buf, first, target)
         /\ \A p \in 1..target : Leads(buf, p, target) => first <= p
<1> DEFINE S == {p \in from..target : Leads(buf, p, target)}
<1>1. target \in S
  BY LeadsToItself
<1>2. S \subseteq Nat /\ first = Earliest(S, target)
  BY DEF ChainStart
<1>3. first \in S /\ \A p \in S : first <= p
  <2> HIDE DEF S
  <2>1. S # {} /\ S \subseteq Nat
    BY <1>1, <1>2
  <2>2. Earliest(S, target) \in S /\ \A p \in S : Earliest(S, target) <= p
    BY ONLY <2>1, EarliestLeast
  <2> QED BY <1>2, <2>2
<1>4. ASSUME NEW p \in 1..target, Leads(buf, p, target) PROVE p \in S
  <2>1. Chain(buf, target, LockK) # Reject
    BY EnterNotRefused
  <2>2. p \in Nat \ {0}
    OBVIOUS
  <2>3. Chain(buf, p, LockK) # Reject
    BY <1>4, <2>1, <2>2, LeadsNotRefused
  <2>4. p \notin 1..(from - 1)
    BY <2>3 DEF Refused
  <2> QED BY <1>4, <2>4
<1> QED BY <1>3, <1>4

LEMMA FirstIs ==
  ASSUME NEW s \in Framers, Searched(s), NEW ts \in Int, NEW off, off = AnchorOf(s).off, off # 0,
         NEW first, first = FirstOf(s, ts)
  PROVE  /\ off \in 1..Len(s.buf) /\ first \in 1..off /\ Leads(s.buf, first, off)
         /\ \A p \in 1..off : Leads(s.buf, p, off) => first <= p
         /\ Probe(s.buf, first) > 0
<1> DEFINE rest == ScanOf(s, ts).rest
           from == IF rest < off THEN rest ELSE off
<1>1. off \in 1..Len(s.buf) /\ EnterAt(s.buf, off) > 0
  BY AnchorIs
<1>2. rest \in Nat \ {0} /\ Refused(s.buf, rest)
  BY ScanIs
<1>3. first = ChainStart(s.buf, from, off)
  BY DEF FirstOf
<1>4. s.buf \in Seq(Nat) /\ off \in Nat \ {0}
  BY <1>1, FieldsAre
<1> HIDE DEF rest
<1>5. from \in Nat \ {0} /\ from <= off /\ from <= rest
  BY <1>2, <1>4
<1> HIDE DEF from
<1>6. Refused(s.buf, from)
  <2>1. \A p \in 1..(from - 1) : p \in 1..(rest - 1)
    BY <1>2, <1>5
  <2> QED BY <1>2, <2>1 DEF Refused
<1>7. /\ first \in 1..off /\ Leads(s.buf, first, off)
      /\ \A p \in 1..off : Leads(s.buf, p, off) => first <= p
  BY <1>1, <1>3, <1>4, <1>5, <1>6, ChainStartFirst
<1>8. Probe(s.buf, first) > 0
  <2>1. first \in Nat \ {0}
    BY <1>7
  <2>2. Probe(s.buf, off) > 0
    BY <1>1, <1>4, EnterFound
  <2> QED BY <1>4, <1>7, <2>1, <2>2, LeadsFromFrame
<1> QED BY <1>1, <1>7, <1>8

\* What is chosen is a frame; if nothing is, there is nothing to be chosen.
LEMMA ChosenIs ==
  ASSUME NEW s \in Framers, Searched(s), NEW ts \in Int, NEW c, c = Chosen(s, ts)
  PROVE  \/ /\ c = 0 /\ NoEnterIn(s.buf)
            /\ Timed(s, ts) => NoLockIn(s.buf) /\ Pends(s.buf, ScanOf(s, ts).rest)
         \/ c \in 1..Len(s.buf) /\ Probe(s.buf, c) > 0
<1> DEFINE off == ScanOf(s, ts).off
           anchor == AnchorOf(s).off
           first == FirstOf(s, ts)
<1>1. s.buf \in Seq(Nat) /\ Len(s.buf) \in Nat
  BY FieldsAre
<1>2. c = IF anchor > 0 /\ (off = 0 \/ first < off) THEN first ELSE off
  BY DEF Chosen
<1>3. (anchor = 0 /\ NoEnterIn(s.buf)) \/ anchor \in 1..Len(s.buf)
  BY AnchorIs
<1>4. anchor # 0 => first \in 1..Len(s.buf) /\ Probe(s.buf, first) > 0
  <2> SUFFICES ASSUME anchor # 0 PROVE first \in 1..Len(s.buf) /\ Probe(s.buf, first) > 0
    OBVIOUS
  <2>1. first \in 1..anchor /\ anchor \in 1..Len(s.buf) /\ Probe(s.buf, first) > 0
    BY FirstIs
  <2> HIDE DEF first, anchor
  <2> QED BY <1>1, <2>1
<1>5. \/ off = 0 /\ (Timed(s, ts) => NoLockIn(s.buf) /\ Pends(s.buf, ScanOf(s, ts).rest))
      \/ off \in 1..Len(s.buf) /\ Probe(s.buf, off) > 0
  <2>1. Timed(s, ts) /\ off \in 1..Len(s.buf) /\ Chain(s.buf, off, LockK) > 0
        => off \in 1..Len(s.buf) /\ Probe(s.buf, off) > 0
    BY <1>1, FramerConstants, ChainHead
  <2>2. PopupAnchor(s.buf) => 1 \in 1..Len(s.buf) /\ Probe(s.buf, 1) > 0
    <3> SUFFICES ASSUME PopupAnchor(s.buf) PROVE 1 \in 1..Len(s.buf) /\ Probe(s.buf, 1) > 0
      OBVIOUS
    <3>1. Probe(s.buf, 1) > 0
      BY <1>1, PopupIsFrame
    <3>2. ~(1 > Len(s.buf))
      BY <3>1 DEF Probe, Pending
    <3> QED BY <1>1, <3>1, <3>2
  <2> QED BY <2>1, <2>2, ScanIs
<1> HIDE DEF off, anchor, first
<1>6. CASE anchor > 0 /\ (off = 0 \/ first < off)
  BY <1>2, <1>4, <1>6
<1>7. CASE ~(anchor > 0 /\ (off = 0 \/ first < off))
  <2>1. c = off
    BY <1>2, <1>7
  <2>2. off = 0 => ~(anchor > 0)
    BY <1>7
  <2>3. off = 0 => anchor = 0
    BY <1>1, <1>3, <2>2
  <2>4. off = 0 => NoEnterIn(s.buf)
    BY <1>3, <2>3
  <2> QED BY <1>5, <2>1, <2>4
<1> QED BY <1>6, <1>7

LEMMA NotedFields ==
  ASSUME NEW s \in Framers, ~s.locked, Searched(s), NEW ts \in Int, s.since >= 0,
         NEW u, u = Noted(s, ts)
  PROVE  /\ u \in Framers /\ u.buf = s.buf /\ u.at = s.at /\ u.skip = s.skip /\ u.overflows = s.overflows
         /\ ~u.locked /\ u.since >= 0 /\ u.unknown = s.unknown
         /\ u.scanFrom = ScanOf(s, ts).rest /\ u.anchorFrom = AnchorOf(s).rest /\ Searched(u)
<1> DEFINE since == IF ScanDue(s) THEN 0 ELSE s.since
           last == IF Timed(s, ts) THEN ts ELSE s.last
           f == ScanOf(s, ts).rest
           g == AnchorOf(s).rest
<1>1. since \in Int /\ since >= 0 /\ last \in Int
  BY FieldsAre
<1>2. f \in Nat \ {0} /\ Refused(s.buf, f)
  BY ScanIs
<1>3. g \in Nat \ {0} /\ NoAnchor(s.buf, g)
  BY AnchorIs
<1>4. u = [s EXCEPT !.since = since, !.last = last, !.scanFrom = f, !.anchorFrom = g]
  BY DEF Noted, Framers
<1> HIDE DEF since, last, f, g
<1>5. u \in Framers
  BY <1>1, <1>2, <1>3, <1>4 DEF Framers
<1>6. /\ u.buf = s.buf /\ u.at = s.at /\ u.skip = s.skip /\ u.overflows = s.overflows
      /\ u.locked = s.locked /\ u.since = since /\ u.unknown = s.unknown /\ u.scanFrom = f /\ u.anchorFrom = g
  BY <1>4 DEF Framers
<1>7. Searched(u)
  BY <1>2, <1>3, <1>6 DEF Searched
<1> QED BY <1>1, <1>5, <1>6, <1>7 DEF f, g

\* A place that is not refused stays in the window.
LEMMA WindowHolds ==
  ASSUME NEW buf \in Seq(Nat), NEW p \in Nat \ {0}, Pends(buf, p)
  PROVE  Len(buf) - (p - 1) <= LockWindow
<1> DEFINE l == Len(buf)
<1>1. l \in Nat /\ LockWindow \in Nat /\ LockK \in Nat
  BY Windows, FramerConstants
<1>2. CASE p <= l
  <2>1. l < p + LockK * (MaxBody + 1)
    BY <1>1, <1>2, ChainBounded DEF Pends
  <2>2. l < p + LockWindow
    BY <2>1 DEF LockWindow
  <2> HIDE DEF l
  <2>3. l - (p - 1) <= LockWindow
    BY <1>1, <2>2
  <2> QED BY <2>3 DEF l
<1>3. CASE ~(p <= l)
  <2> HIDE DEF l
  <2>1. l - (p - 1) <= LockWindow
    BY <1>1, <1>3
  <2> QED BY <2>1 DEF l
<1> QED BY <1>2, <1>3

\* What is in no place of the bytes is in none of what remains.
LEMMA NothingLeft ==
  ASSUME NEW a, NEW b, NEW d, EndOf(a, b, d)
  PROVE  /\ NoLockIn(b) => NoLockIn(a)
         /\ NoEnterIn(b) => NoEnterIn(a)
<1>1. d \in Nat /\ Len(b) = Len(a) + d /\ Len(a) \in Nat /\ a \in Seq(Nat) /\ b \in Seq(Nat)
  BY EndSequences
<1>2. ASSUME NEW p \in 1..Len(a) PROVE p \in Nat \ {0} /\ p + d \in 1..Len(b)
  BY <1>1
<1>3. ASSUME NoLockIn(b), NEW p \in 1..Len(a) PROVE Chain(a, p, LockK) <= 0
  <2> DEFINE x == Chain(a, p, LockK)
             y == Chain(b, p + d, LockK)
  <2>1. p \in Nat \ {0} /\ p + d \in 1..Len(b) /\ p \in Outcomes /\ p + d \in Outcomes /\ LockK \in Nat
    BY <1>1, <1>2, FramerConstants DEF Outcomes
  <2>2. y <= 0
    BY <1>3, <2>1 DEF NoLockIn
  <2>3. y > 0 <=> x > 0
    BY <2>1, ChainEndRefused
  <2>4. x \in Outcomes /\ y \in Outcomes
    BY <1>1, <2>1, ChainIs
  <2> HIDE DEF x, y
  <2>5. x <= 0
    BY <2>2, <2>3, <2>4 DEF Outcomes, Reject
  <2> QED BY <2>5 DEF x
<1>4. ASSUME NoEnterIn(b), NEW p \in 1..Len(a) PROVE EnterAt(a, p) <= 0
  <2>1. p \in Nat \ {0} /\ p + d \in 1..Len(b)
    BY <1>2
  <2>2. EnterAt(b, p + d) = EnterAt(a, p)
    BY <2>1, EnterEnd
  <2> QED BY <1>4, <2>1, <2>2 DEF NoEnterIn
<1> QED BY <1>3, <1>4 DEF NoLockIn, NoEnterIn

\* A search that finds nothing forgets only what is refused, and leaves no anchor
\* and, unless it was put off, no lock behind.
LEMMA SearchFails ==
  ASSUME NEW s \in Framers, ~s.locked, Searched(s), NEW ts \in Int, s.since >= 0,
         NEW t, t = Search(s, ts), ~t.locked
  PROVE  /\ \E n \in 0..Len(s.buf) :
              /\ Passed(s, t, n) /\ EndOf(t.buf, s.buf, n)
              /\ \A p \in 1..n : Chain(s.buf, p, LockK) = Reject
         /\ Searched(t) /\ NoEnterIn(t.buf) /\ Len(t.buf) <= LockWindow
         /\ Timed(s, ts) => NoLockIn(t.buf)
         /\ ~Timed(s, ts) => t.buf = s.buf
         /\ t.overflows = s.overflows /\ t.since >= 0
<1> DEFINE u == Noted(s, ts)
           v == Trim(u)
           gap == GapAfter(s, ts)
           w == [v EXCEPT !.gap = gap]
           c == Chosen(s, ts)
<1>1. /\ u \in Framers /\ u.buf = s.buf /\ u.at = s.at /\ u.skip = s.skip /\ u.overflows = s.overflows
      /\ ~u.locked /\ u.since >= 0 /\ u.unknown = s.unknown
      /\ u.scanFrom = ScanOf(s, ts).rest /\ Searched(u)
  BY NotedFields
<1>0. t \in Framers
  BY SearchIs DEF Passed
<1>2. c = 0 /\ t = w
  <2>1. c # 0 => t = [Consume(u, c - 1) EXCEPT !.locked = TRUE, !.scanFrom = 1, !.anchorFrom = 1, !.gap = 0]
    BY SearchAs
  <2>2. c # 0 => t.locked
    <3> SUFFICES ASSUME c # 0 PROVE t.locked
      OBVIOUS
    <3> DEFINE x == Consume(u, c - 1)
    <3>1. x = [u EXCEPT !.buf = x.buf, !.at = x.at, !.scanFrom = x.scanFrom, !.anchorFrom = x.anchorFrom]
      BY <1>1 DEF Consume, Framers
    <3> HIDE DEF x, u
    <3>2. DOMAIN x = DOMAIN u /\ "locked" \in DOMAIN u
      BY <1>1, <3>1 DEF Framers
    <3> QED BY <2>1, <3>2 DEF x
  <2> QED BY <2>2, SearchAs
<1> HIDE DEF u
<1>3. PICK n \in 0..Len(u.buf) :
        /\ Passed(u, v, n) /\ EndOf(v.buf, u.buf, n) /\ Searched(v)
        /\ v.gap = u.gap /\ v.since = u.since /\ v.last = u.last /\ v.overflows = u.overflows
        /\ v.locked = u.locked
        /\ n <= u.scanFrom - 1
        /\ Len(u.buf) <= LockWindow => n = 0 /\ v = u
        /\ Len(v.buf) <= LockWindow \/ n = u.scanFrom - 1
  BY <1>1, TrimEnd
<1> HIDE DEF v, gap, c
<1>4. v \in Framers
  BY <1>3 DEF Passed
<1>5. /\ t.buf = v.buf /\ t.at = v.at /\ t.skip = v.skip /\ t.overflows = v.overflows /\ t.since = v.since
      /\ t.scanFrom = v.scanFrom /\ t.anchorFrom = v.anchorFrom /\ t.unknown = v.unknown
  BY <1>2, <1>4 DEF Framers
<1>6. Passed(s, t, n) /\ EndOf(t.buf, s.buf, n) /\ n \in 0..Len(s.buf)
  BY <1>0, <1>1, <1>3, <1>5 DEF Passed
<1>7. \A p \in 1..n : Chain(s.buf, p, LockK) = Reject
  <2>1. Refused(s.buf, u.scanFrom) /\ u.scanFrom \in Nat
    BY <1>1, FieldsAre DEF Searched
  <2>2. \A p \in 1..n : p \in 1..(u.scanFrom - 1)
    BY <1>3, <2>1
  <2> QED BY <2>1, <2>2 DEF Refused
<1>8. Searched(t)
  BY <1>3, <1>5 DEF Searched
<1>9. NoEnterIn(s.buf) /\ (Timed(s, ts) => NoLockIn(s.buf) /\ Pends(s.buf, u.scanFrom))
  BY <1>1, <1>2, ChosenIs DEF c
<1>10. NoEnterIn(t.buf) /\ (Timed(s, ts) => NoLockIn(t.buf))
  BY <1>6, <1>9, NothingLeft
<1> DEFINE l == Len(s.buf)
           m == Len(t.buf)
<1>11. l \in Nat /\ m \in Nat /\ m = l - n /\ LockWindow \in Nat /\ s.buf \in Seq(Nat)
  BY <1>0, <1>6, FieldsAre, Windows DEF Passed
<1>12. ~Timed(s, ts) => l <= LockWindow
  <2> SUFFICES ASSUME ~Timed(s, ts) PROVE l <= LockWindow
    OBVIOUS
  <2>1. ~(l >= LockWindow)
    BY DEF Timed, ScanDue
  <2> HIDE DEF l
  <2> QED BY <1>11, <2>1
<1>13. ~Timed(s, ts) => t.buf = s.buf
  BY <1>1, <1>3, <1>5, <1>12
<1>14. m <= LockWindow
  <2>1. CASE ~Timed(s, ts)
    BY <1>12, <1>13, <2>1
  <2>2. CASE Timed(s, ts) /\ n = u.scanFrom - 1
    <3>1. u.scanFrom \in Nat \ {0}
      BY <1>1, FieldsAre
    <3>2. l - (u.scanFrom - 1) <= LockWindow
      BY <1>9, <1>11, <2>2, <3>1, WindowHolds
    <3> HIDE DEF l, m
    <3> QED BY <1>11, <2>2, <3>2
  <2>3. CASE Len(v.buf) <= LockWindow
    BY <1>5, <2>3
  <2> QED BY <1>3, <2>1, <2>2, <2>3
<1>15. t.overflows = s.overflows /\ t.since >= 0
  BY <1>1, <1>3, <1>5
<1> QED BY <1>6, <1>7, <1>8, <1>10, <1>13, <1>14, <1>15

\* A search that finds a lock stands before a frame that is there.
LEMMA SearchLocks ==
  ASSUME NEW s \in Framers, ~s.locked, Searched(s), NEW ts \in Int, s.since >= 0,
         NEW t, t = Search(s, ts), t.locked
  PROVE  /\ Chosen(s, ts) \in 1..Len(s.buf) /\ Probe(s.buf, Chosen(s, ts)) > 0
         /\ t.at = s.at + Chosen(s, ts) - 1
         /\ t.overflows = s.overflows /\ t.since >= 0 /\ t.gap = 0 /\ Probe(t.buf, 1) > 0
<1> DEFINE u == Noted(s, ts)
           c == Chosen(s, ts)
           d == c - 1
           x == Consume(u, d)
<1>1. /\ u \in Framers /\ u.buf = s.buf /\ u.at = s.at /\ u.overflows = s.overflows
      /\ ~u.locked /\ u.since >= 0 /\ Searched(u)
  BY NotedFields
<1>2. c # 0 /\ t = [x EXCEPT !.locked = TRUE, !.scanFrom = 1, !.anchorFrom = 1, !.gap = 0]
  <2>1. c = 0 => t = [Trim(u) EXCEPT !.gap = GapAfter(s, ts)]
    BY SearchAs
  <2>2. c = 0 => ~t.locked
    <3> SUFFICES ASSUME c = 0 PROVE ~t.locked
      OBVIOUS
    <3>1. PICK n : Passed(u, Trim(u), n) /\ Trim(u).locked = u.locked
      BY <1>1, TrimEnd
    <3>2. Trim(u) \in Framers /\ ~Trim(u).locked
      BY <1>1, <3>1 DEF Passed
    <3> QED BY <2>1, <3>2 DEF Framers
  <2> QED BY <2>2, SearchAs
<1>3. c \in 1..Len(s.buf) /\ Probe(s.buf, c) > 0
  BY <1>2, ChosenIs
<1> HIDE DEF u, c
<1>4. Len(s.buf) \in Nat /\ d \in 0..Len(u.buf) /\ c = 1 + d /\ d \in Nat /\ s.at \in Nat
  BY <1>1, <1>3, FieldsAre
<1>5. /\ Passed(u, x, d) /\ EndOf(x.buf, u.buf, d)
      /\ x.since = u.since /\ x.overflows = u.overflows
  <2> HIDE DEF d
  <2> QED BY <1>1, <1>4, ConsumeEnd
<1>6. x \in Framers /\ x.at = u.at + d
  BY <1>5 DEF Passed
<1> HIDE DEF x, d
<1>7. t.buf = x.buf /\ t.at = x.at /\ t.since = x.since /\ t.overflows = x.overflows /\ t.gap = 0
  BY <1>2, <1>6 DEF Framers
<1>8. Probe(t.buf, 1) > 0
  <2>1. Probe(u.buf, 1 + d) = Probe(x.buf, 1)
    BY <1>5, ProbeEnd
  <2> QED BY <1>1, <1>3, <1>4, <1>7, <2>1
<1>9. t.at = s.at + c - 1
  BY <1>1, <1>4, <1>6, <1>7
<1> QED BY <1>1, <1>3, <1>5, <1>7, <1>8, <1>9 DEF c

-----------------------------------------------------------------------------
(***************************************************************************)
(* The loop of feed() keeps this, gives up nothing but what is refused, and *)
(* ends without a lock only if there was none to be found.                 *)
(***************************************************************************)
\* A framer whose search has kept what it knows.
Sound(s) ==
  /\ s.overflows = 0 /\ s.since >= 0
  /\ s.locked => s.gap = 0
  /\ ~s.locked => Searched(s) /\ s.skip = 0

\* The bytes were searched at `ts`, when a scan had last been timed at `last`, in vain.
Quiet(buf, last, ts) ==
  /\ NoEnterIn(buf) /\ Len(buf) <= LockWindow
  /\ Len(buf) < ScanAlways \/ Len(buf) >= LockWindow \/ ts - last >= MaxWait => NoLockIn(buf)

\* What s had and t has no more was refused.
GaveUp(s, t) ==
  \E n \in 0..Len(s.buf) :
    /\ EndOf(t.buf, s.buf, n) /\ t.at = s.at + n
    /\ \A p \in 1..n : Chain(s.buf, p, LockK) = Reject

\* In the middle of the loop of feed(), which began with s at `ts`.
Hunting(r, s, ts) ==
  /\ Sound(r.s)
  /\ ~r.done /\ ~r.s.locked => r.s = s \/ r.s.gap = 0
  /\ r.done /\ ~r.s.locked => Quiet(r.s.buf, s.last, ts)
  /\ r.done /\ r.s.locked => Len(r.s.buf) <= MaxBuffer
  /\ ~s.locked /\ r.out = <<>> =>
       \/ ~r.s.locked /\ GaveUp(s, r.s) /\ (~r.done => r.s = s)
       \/ r.s.locked /\ ~r.done /\ r.s = Search(s, ts) /\ Probe(r.s.buf, 1) > 0
  /\ ~s.locked /\ r.out # <<>> => Search(s, ts).locked /\ r.out[1].at = Search(s, ts).at

LEMMA HuntingBegins ==
  ASSUME NEW s \in Framers, Sound(s), NEW ts \in Int,
         NEW r, r = [s |-> s, out |-> <<>>, done |-> FALSE]
  PROVE  Hunting(r, s, ts)
<1>1. GaveUp(s, s)
  <2>1. EndOf(s.buf, s.buf, 0) /\ s.at = s.at + 0 /\ 0 \in 0..Len(s.buf) /\ 1..0 = {}
    BY SameEnd, FieldsAre
  <2> QED BY <2>1 DEF GaveUp
<1> QED BY <1>1 DEF Hunting

LEMMA SearchHunts ==
  ASSUME NEW s \in Framers, NEW ts \in Int, NEW r \in Runs, r.done = FALSE, ~r.s.locked,
         Hunting(r, s, ts), NEW q, q = Round(r, ts)
  PROVE  Hunting(q, s, ts)
<1> DEFINE u == r.s
           t == Search(u, ts)
           d == ~t.locked
<1>1. u \in Framers /\ Sound(u) /\ Searched(u) /\ u.skip = 0 /\ u.overflows = 0 /\ u.since >= 0
      /\ (u = s \/ u.gap = 0)
  BY RunFields DEF Hunting, Sound
<1>2. q = [r EXCEPT !.s = t, !.done = d]
  BY DEF Round
<1>3. q.s = t /\ q.out = r.out /\ q.done = d
  BY <1>2 DEF Runs
<1>4. t \in Framers /\ t.skip = 0
  <2>1. PICK n \in 0..Len(u.buf) : Passed(u, t, n)
    BY <1>1, SearchIs
  <2> QED BY <1>1, <2>1 DEF Passed
<1>5. ~s.locked /\ r.out = <<>> => u = s
  BY DEF Hunting
<1>6. ~s.locked /\ r.out # <<>> => Search(s, ts).locked /\ r.out[1].at = Search(s, ts).at
  BY DEF Hunting
<1>7. CASE t.locked
  <2>1. t.overflows = 0 /\ t.since >= 0 /\ t.gap = 0 /\ Probe(t.buf, 1) > 0
    BY <1>1, <1>7, SearchLocks
  <2>2. Sound(t) /\ ~q.done
    BY <1>3, <1>7, <2>1 DEF Sound
  <2>3. ~s.locked /\ r.out = <<>> => t = Search(s, ts)
    BY <1>5
  <2> HIDE DEF t
  <2> QED BY <1>3, <1>6, <1>7, <2>1, <2>2, <2>3 DEF Hunting
<1>8. CASE ~t.locked
  <2>1. PICK n \in 0..Len(u.buf) :
          /\ Passed(u, t, n) /\ EndOf(t.buf, u.buf, n)
          /\ \A p \in 1..n : Chain(u.buf, p, LockK) = Reject
    BY <1>1, <1>8, SearchFails
  <2>2. /\ Searched(t) /\ NoEnterIn(t.buf) /\ Len(t.buf) <= LockWindow
        /\ Timed(u, ts) => NoLockIn(t.buf)
        /\ ~Timed(u, ts) => t.buf = u.buf
        /\ t.overflows = 0 /\ t.since >= 0
    BY <1>1, <1>8, SearchFails
  <2>3. GaveUp(u, t)
    <3>1. t.at = u.at + n
      BY <2>1 DEF Passed
    <3> QED BY <2>1, <3>1 DEF GaveUp
  <2>4. Sound(t) /\ q.done
    BY <1>3, <1>4, <1>8, <2>2 DEF Sound
  <2>5. Quiet(t.buf, s.last, ts)
    <3>1. u.gap = 0 => Timed(u, ts)
      BY <1>1 DEF Timed, ScanDue
    <3>2. /\ t.buf = s.buf /\ u = s
          /\ Len(t.buf) < ScanAlways \/ Len(t.buf) >= LockWindow \/ ts - s.last >= MaxWait
          => Timed(u, ts)
      BY DEF Timed, ScanDue
    <3> HIDE DEF t
    <3> QED BY <1>1, <2>2, <3>1, <3>2 DEF Quiet
  <2>6. ~s.locked /\ r.out = <<>> => GaveUp(s, t)
    BY <1>5, <2>3
  <2> HIDE DEF t
  <2> QED BY <1>3, <1>6, <1>8, <2>4, <2>5, <2>6 DEF Hunting
<1> QED BY <1>7, <1>8

LEMMA DesyncHunts ==
  ASSUME NEW s \in Framers, NEW ts \in Int, NEW r \in Runs, r.done = FALSE, r.s.locked, r.s.skip = 0,
         Probe(r.s.buf, 1) = Reject, Hunting(r, s, ts), NEW q, q = Round(r, ts)
  PROVE  Hunting(q, s, ts)
<1> DEFINE u == r.s
           t == Desync(u)
           j == 2
           k == 1
<1>1. u \in Framers /\ u.skip = 0 /\ u.overflows = 0 /\ u.since >= 0 /\ u.gap = 0
  BY RunFields DEF Hunting, Sound
<1>2. q = [r EXCEPT !.s = t]
  BY DEF Round
<1>3. q.s = t /\ q.out = r.out /\ q.done = FALSE
  BY <1>2 DEF Runs
<1>4. /\ t.buf = u.buf /\ t.skip = 0 /\ ~t.locked /\ t.scanFrom = 2
  BY <1>1, DesyncIs
<1>5. t.overflows = 0 /\ t.since >= 0 /\ t.gap = 0 /\ t.anchorFrom = 1
  BY <1>1 DEF Desync, Framers
<1>6. Searched(t)
  <2>1. Chain(u.buf, 1, LockK) = Reject
    BY FramerConstants, ChainRefused
  <2>2. \A p \in 1..(t.scanFrom - 1) : p = 1
    BY <1>4
  <2>3. Refused(t.buf, t.scanFrom)
    BY <1>4, <2>1, <2>2 DEF Refused
  <2>4. NoAnchor(t.buf, t.anchorFrom)
    BY <1>5, FirstPlaces
  <2> QED BY <2>3, <2>4 DEF Searched
<1>7. ~(~s.locked /\ r.out = <<>>)
  <2>1. ~(Probe(u.buf, 1) > 0)
    BY DEF Reject
  <2> QED BY <2>1 DEF Hunting
<1>8. ~s.locked /\ r.out # <<>> => Search(s, ts).locked /\ r.out[1].at = Search(s, ts).at
  BY DEF Hunting
<1>9. Sound(t)
  BY <1>4, <1>5, <1>6 DEF Sound
<1> HIDE DEF t
<1> QED BY <1>3, <1>4, <1>5, <1>7, <1>8, <1>9 DEF Hunting

\* A frame that is there is never too early.
LEMMA EarlyIsShort ==
  ASSUME NEW buf \in Seq(Nat), Probe(buf, 1) # Reject, NEW s, s.buf = buf, Early(s)
  PROVE  ~(Probe(buf, 1) > 0) /\ Len(buf) <= MaxBuffer
<1> DEFINE n == Len(buf)
           total == buf[1]
           r == Probe(buf, 1)
<1>1. n \in Nat
  OBVIOUS
<1>2. \/ r = Pending /\ n < 1 + MaxBody
      \/ r \in Nat /\ r > MinBody /\ r <= MaxBody + 1 /\ 1 + r - 1 <= n /\ r = total
  BY ProbeIs
<1>3. n < 1 + HeaderLen \/ n < total
  BY DEF Early
<1> HIDE DEF n, total, r
<1>4. ~(r > 0)
  <2> SUFFICES ASSUME r > 0 PROVE FALSE
    OBVIOUS
  <2>1. r \in Nat /\ r > MinBody /\ 1 + r - 1 <= n /\ r = total
    BY <1>2 DEF Pending
  <2> QED BY <1>1, <1>3, <2>1, FramerConstants
<1>5. n <= MaxBuffer
  <2>1. n < 1 + MaxBody
    <3>1. r = Pending /\ n < 1 + MaxBody
      BY <1>2, <1>4, FramerConstants
    <3> QED BY <3>1
  <2> QED BY <1>1, <2>1, FramerConstants, Windows
<1> QED BY <1>4, <1>5 DEF r, n

LEMMA EarlyHunts ==
  ASSUME NEW s \in Framers, NEW ts \in Int, NEW r \in Runs, r.done = FALSE, r.s.locked,
         Probe(r.s.buf, 1) # Reject, Early(r.s), Hunting(r, s, ts), NEW q, q = Round(r, ts)
  PROVE  Hunting(q, s, ts)
<1> DEFINE u == r.s
<1>1. u \in Framers /\ u.buf \in Seq(Nat)
  BY RunFields, FieldsAre
<1>2. q = [r EXCEPT !.done = TRUE]
  BY DEF Round, Early
<1>3. q.s = u /\ q.out = r.out /\ q.done
  BY <1>2 DEF Runs
<1>4. ~(Probe(u.buf, 1) > 0) /\ Len(u.buf) <= MaxBuffer
  BY <1>1, EarlyIsShort
<1>5. ~(~s.locked /\ r.out = <<>>)
  BY <1>4 DEF Hunting
<1>6. Sound(u) /\ (~s.locked /\ r.out # <<>> => Search(s, ts).locked /\ r.out[1].at = Search(s, ts).at)
  BY DEF Hunting
<1> QED BY <1>3, <1>4, <1>5, <1>6 DEF Hunting

LEMMA NotedKeeps ==
  ASSUME NEW s \in Framers, NEW op, NEW l, NEW w, w = NoteNeighbour(s, op, l)
  PROVE  w.gap = s.gap /\ w.since = s.since /\ w.last = s.last /\ w.overflows = s.overflows
  BY DEF NoteNeighbour, Framers

\* A frame that is reported, behind others or as the first.
LEMMA ReportHunts ==
  ASSUME NEW s \in Framers, NEW ts \in Int, NEW r \in Runs, r.done = FALSE, r.s.locked,
         Hunting(r, s, ts), NEW q, NEW e \in Reports, e.at = r.s.at,
         q.out = Append(r.out, e), q.s.locked, q.s.gap = 0, q.s.since >= 0, q.s.overflows = 0,
         q.done => Len(q.s.buf) <= MaxBuffer
  PROVE  Hunting(q, s, ts)
<1> DEFINE o == r.out
<1>1. o \in Seq(Reports)
  BY RunFields
<1>2. q.out # <<>> /\ q.out[1] = IF o = <<>> THEN e ELSE o[1]
  <2>1. q.out = Append(o, e)
    OBVIOUS
  <2> HIDE DEF o
  <2> QED BY <1>1, <2>1
<1> HIDE DEF o
<1>3. CASE o = <<>>
  <2>1. ~s.locked => r.s = Search(s, ts)
    BY <1>3 DEF Hunting, o
  <2> QED BY <1>2, <1>3, <2>1 DEF Hunting, Sound
<1>4. CASE o # <<>>
  <2>1. ~s.locked => Search(s, ts).locked /\ o[1].at = Search(s, ts).at
    BY <1>4 DEF Hunting, o
  <2> QED BY <1>2, <1>4, <2>1 DEF Hunting, Sound
<1> QED BY <1>3, <1>4

LEMMA ConsumeHunts ==
  ASSUME NEW s \in Framers, NEW ts \in Int, NEW r \in Runs, r.done = FALSE, r.s.locked,
         Hunting(r, s, ts), Probe(r.s.buf, 1) # Reject, ~Early(r.s),
         Report(r.s) \in Reports, Report(r.s).at = r.s.at, r.s.buf[1] \in Nat,
         Len(r.s.buf) >= r.s.buf[1], NEW q, q = Round(r, ts)
  PROVE  Hunting(q, s, ts)
<1> DEFINE u == r.s
           total == u.buf[1]
           w == NoteNeighbour(u, u.buf[3], u.buf[1] - 1)
           c == Consume(w, total)
           e == Report(u)
<1>1. u \in Framers /\ u.gap = 0 /\ u.since >= 0 /\ u.overflows = 0 /\ Len(u.buf) \in Nat
  BY RunFields, FieldsAre DEF Hunting, Sound
<1>2. q = [r EXCEPT !.s = c, !.out = Append(r.out, e)]
  BY DEF Round, Early, Report, Runs
<1>3. q.s = c /\ q.out = Append(r.out, e) /\ q.done = FALSE
  <2> HIDE DEF c, e
  <2> QED BY <1>2 DEF Runs
<1>4. w \in Framers /\ w.buf = u.buf /\ w.locked = u.locked
      /\ w.gap = u.gap /\ w.since = u.since /\ w.overflows = u.overflows
  <2> DEFINE op == u.buf[3]
             l == u.buf[1] - 1
  <2>1. w = NoteNeighbour(u, op, l)
    OBVIOUS
  <2> HIDE DEF u, w, op, l
  <2> QED BY <1>1, <2>1, NotedIs, NotedKeeps
<1>5. c.gap = w.gap /\ c.since = w.since /\ c.overflows = w.overflows /\ c.locked = w.locked
  <2>1. total \in 0..Len(w.buf)
    BY <1>1, <1>4
  <2> HIDE DEF total, w
  <2> QED BY <1>4, <2>1, ConsumeEnd
<1>6. e \in Reports /\ e.at = u.at
  OBVIOUS
<1> HIDE DEF c, w, e
<1>7. q.s.locked /\ q.s.gap = 0 /\ q.s.since >= 0 /\ q.s.overflows = 0
  BY <1>1, <1>3, <1>4, <1>5
<1> QED BY <1>3, <1>6, <1>7, ReportHunts

LEMMA LeavesHunts ==
  ASSUME NEW s \in Framers, NEW ts \in Int, NEW r \in Runs, r.done = FALSE, r.s.locked,
         Hunting(r, s, ts), Probe(r.s.buf, 1) # Reject, ~Early(r.s),
         Report(r.s) \in Reports, Report(r.s).at = r.s.at, r.s.buf[1] \in Nat,
         Len(r.s.buf) < r.s.buf[1], NEW q, q = Round(r, ts)
  PROVE  Hunting(q, s, ts)
<1> DEFINE u == r.s
           n == Len(u.buf)
           total == u.buf[1]
           w == NoteNeighbour(u, u.buf[3], u.buf[1] - 1)
           c == Consume(w, n)
           left == total - n
           d == [c EXCEPT !.skip = left]
           e == Report(u)
<1>1. u \in Framers /\ u.gap = 0 /\ u.since >= 0 /\ u.overflows = 0 /\ n \in Nat
  BY RunFields, FieldsAre DEF Hunting, Sound
<1>2. q = [s |-> d, out |-> Append(r.out, e), done |-> TRUE]
  <2>1. ~(n >= total)
    <3>1. n < total /\ total \in Nat
      OBVIOUS
    <3> HIDE DEF n, total
    <3> QED BY <1>1, <3>1
  <2> QED BY <2>1 DEF Round, Early, Report, Runs
<1>3. q.s = d /\ q.out = Append(r.out, e) /\ q.done = TRUE
  BY <1>2
<1>4. w \in Framers /\ w.buf = u.buf /\ w.locked = u.locked
      /\ w.gap = u.gap /\ w.since = u.since /\ w.overflows = u.overflows
  <2> DEFINE op == u.buf[3]
             l == u.buf[1] - 1
  <2>1. w = NoteNeighbour(u, op, l)
    OBVIOUS
  <2> HIDE DEF u, w, op, l
  <2> QED BY <1>1, <2>1, NotedIs, NotedKeeps
<1>5. c \in Framers /\ Len(c.buf) = 0
      /\ c.gap = w.gap /\ c.since = w.since /\ c.overflows = w.overflows /\ c.locked = w.locked
  <2>1. n \in 0..Len(w.buf) /\ Len(w.buf) = n
    BY <1>1, <1>4
  <2> HIDE DEF n, w
  <2>2. Passed(w, c, n)
    BY <1>4, <2>1, ConsumeEnd
  <2>3. c \in Framers /\ Len(c.buf) = Len(w.buf) - n
    BY <2>2 DEF Passed
  <2> HIDE DEF c
  <2>4. Len(c.buf) = 0
    BY <1>1, <2>1, <2>3
  <2> QED BY <1>4, <2>1, <2>3, <2>4, ConsumeEnd DEF c
<1>6. e \in Reports /\ e.at = u.at
  OBVIOUS
<1> HIDE DEF c, w, e, left
<1>7. d.buf = c.buf /\ d.gap = c.gap /\ d.since = c.since /\ d.overflows = c.overflows /\ d.locked = c.locked
  BY <1>5 DEF Framers
<1> HIDE DEF d
<1>8. q.s.locked /\ q.s.gap = 0 /\ q.s.since >= 0 /\ q.s.overflows = 0 /\ Len(q.s.buf) <= MaxBuffer
  BY <1>1, <1>3, <1>4, <1>5, <1>7, Windows
<1> QED BY <1>3, <1>6, <1>8, ReportHunts

\* A round of the loop keeps what the search knows.
LEMMA RoundHunts ==
  ASSUME IsStream(stream), NEW ts \in Int, NEW to \in Nat, to <= Len(stream.bytes), NEW from \in Nat,
         NEW before \in Seq(Reports), NEW r, Running(r, before, to, from),
         NEW s \in Framers, Hunting(r, s, ts)
  PROVE  Hunting(Round(r, ts), s, ts)
<1>1. r \in Runs /\ r.done \in BOOLEAN /\ Reads(r.s, to) /\ r.s \in Framers
  BY RunFields DEF Running
<1>2. CASE r.done
  <2>1. Round(r, ts) = r
    BY <1>2 DEF Round
  <2> QED BY <2>1
<1>3. CASE ~r.done
  <2>0. r.done = FALSE /\ r.s.skip = 0
    BY <1>1, <1>3 DEF Running
  <2>1. CASE ~r.s.locked
    BY <1>1, <2>0, <2>1, SearchHunts
  <2>2. CASE r.s.locked /\ Probe(r.s.buf, 1) = Reject
    BY <1>1, <2>0, <2>2, DesyncHunts
  <2>3. CASE r.s.locked /\ Probe(r.s.buf, 1) # Reject /\ Early(r.s)
    BY <1>1, <2>0, <2>3, EarlyHunts
  <2>4. CASE r.s.locked /\ Probe(r.s.buf, 1) # Reject /\ ~Early(r.s)
    <3>1. /\ Report(r.s) \in Reports /\ Report(r.s).at = r.s.at
          /\ Len(r.s.buf) \in Nat /\ r.s.buf[1] \in Nat
      BY <1>1, <2>4, ReportIs, FieldsAre
    <3>2. Len(r.s.buf) >= r.s.buf[1] \/ Len(r.s.buf) < r.s.buf[1]
      BY <3>1
    <3>3. CASE Len(r.s.buf) >= r.s.buf[1]
      BY <1>1, <2>0, <2>4, <3>1, <3>3, ConsumeHunts
    <3>4. CASE Len(r.s.buf) < r.s.buf[1]
      BY <1>1, <2>0, <2>4, <3>1, <3>4, LeavesHunts
    <3> QED BY <3>2, <3>3, <3>4
  <2> QED BY <2>1, <2>2, <2>3, <2>4
<1> QED BY <1>2, <1>3

\* And so does the whole loop.
LEMMA LoopHunts ==
  ASSUME IsStream(stream), NEW ts \in Int, NEW to \in Nat, to <= Len(stream.bytes), NEW from \in Nat,
         NEW before \in Seq(Reports), NEW s \in Framers, Sound(s),
         NEW start, start = [s |-> s, out |-> <<>>, done |-> FALSE],
         Running(start, before, to, from)
  PROVE  Hunting(Loop(s, ts), s, ts) /\ Loop(s, ts).done /\ Loop(s, ts) \in Runs
<1> DEFINE n == 2 * Len(s.buf) + 3
           f == CHOOSE g : g = [k \in 0..n |-> IF k = 0 THEN start ELSE Round(g[k - 1], ts)]
           Good(k) == Running(f[k], before, to, from) /\ Hunting(f[k], s, ts)
           T == {k \in 0..n : ~Good(k)}
<1>1. n \in Nat /\ Len(s.buf) \in Nat
  BY FieldsAre
<1>2. f = [k \in 0..n |-> IF k = 0 THEN start ELSE Round(f[k - 1], ts)]
  <2>1. \E g : IsRounds(g, start, ts, n)
    <3> HIDE DEF n
    <3> QED
      BY <1>1, RoundsOfFeedExist
  <2> QED
    BY <2>1 DEF IsRounds
<1>3. Loop(s, ts) = f[n]
  BY DEF Loop
<1> HIDE DEF f
<1>4. f[0] = start /\ \A k \in 1..n : f[k] = Round(f[k - 1], ts)
  <2>1. \A k \in 0..n : f[k] = IF k = 0 THEN start ELSE Round(f[k - 1], ts)
    <3> HIDE DEF n
    <3> QED
      BY <1>2
  <2>2. 0 \in 0..n /\ \A k \in 1..n : k \in 0..n /\ k # 0
    <3> HIDE DEF n
    <3> QED
      BY <1>1
  <2> HIDE DEF n
  <2> QED
    BY <2>1, <2>2
<1>5. T = {}
  <2> SUFFICES ASSUME T # {} PROVE FALSE
    OBVIOUS
  <2>1. PICK k \in T : \A j \in T : k <= j
    <3>1. T \subseteq Nat
      BY <1>1
    <3> HIDE DEF T
    <3> QED BY <3>1, Least
  <2>2. k \in 0..n /\ ~Good(k)
    BY <2>1
  <2>3. CASE k = 0
    BY <1>4, <2>2, <2>3, HuntingBegins
  <2>4. CASE k # 0
    <3> DEFINE j == k - 1
    <3>1. j \in 0..n /\ k \in 1..n /\ j \in Nat /\ k = j + 1
      <4> HIDE DEF n
      <4> QED
        BY <1>1, <2>2, <2>4
    <3>2. Good(j)
      <4>1. j \notin T
        <5> HIDE DEF T
        <5> QED BY <2>1, <3>1
      <4> QED BY <3>1, <4>1
    <3>3. f[k] = Round(f[j], ts)
      BY <1>4, <3>1
    <3> HIDE DEF j
    <3> QED
      BY <2>2, <3>2, <3>3, RoundIs, RoundHunts
  <2> QED
    BY <2>3, <2>4
<1>6. Good(n)
  <2>1. n \in 0..n
    BY <1>1
  <2> QED
    BY <1>5, <2>1
<1>7. Loop(s, ts).done
  BY LoopIs
<1> QED BY <1>3, <1>6, <1>7 DEF Running

LEMMA Extended ==
  ASSUME NEW a \in Seq(Nat), NEW b \in Seq(Nat)
  PROVE  StartOf(a, a \o b)
<1>1. /\ Len(a \o b) = Len(a) + Len(b) /\ \A i \in 1..Len(a) : (a \o b)[i] = a[i]
      /\ a \o b \in Seq(Nat)
  BY Concat
<1>2. Len(a) \in Nat /\ Len(b) \in Nat
  OBVIOUS
<1> QED BY <1>1, <1>2 DEF StartOf

\* What is appended refutes nothing of what the search knows.
LEMMA TakeSound ==
  ASSUME NEW s \in Framers, Sound(s), NEW data \in Seq(Nat), NEW t, t = Take(s, data)
  PROVE  /\ t \in Framers /\ Sound(t) /\ t.last = s.last /\ t.locked = s.locked
         /\ ~s.locked => t.at = s.at /\ t.skip = 0 /\ StartOf(s.buf, t.buf)
<1>1. PICK n : Skipping(s, t, data, n)
  BY TakeFields
<1>2. /\ n \in 0..Len(data) /\ n <= s.skip /\ t \in Framers /\ t.skip = s.skip - n /\ t.at = s.at + n
      /\ t.buf = s.buf \o SubSeq(data, n + 1, Len(data))
  BY <1>1 DEF Skipping
<1> DEFINE l == Len(data)
           m == IF s.skip < l THEN s.skip ELSE l
           rest == SubSeq(data, m + 1, l)
           other == SubSeq(data, n + 1, l)
           c == s.since + Len(rest)
<1>3. /\ t.last = s.last /\ t.locked = s.locked /\ t.gap = s.gap /\ t.overflows = s.overflows
      /\ t.scanFrom = s.scanFrom /\ t.anchorFrom = s.anchorFrom /\ t.since = c
  BY DEF Take, Framers
<1>4. l \in Nat /\ m \in Nat /\ m <= l /\ s.skip \in Nat /\ n \in Nat /\ n <= l
  BY <1>2, FieldsAre
<1>5. rest \in Seq(Nat) /\ other \in Seq(Nat)
  <2> HIDE DEF l, m
  <2> QED BY <1>4, Cut DEF l
<1>6. t.since >= 0
  <2> HIDE DEF rest
  <2>1. s.since \in Int /\ s.since >= 0 /\ Len(rest) \in Nat
    BY <1>5, FieldsAre DEF Sound
  <2> QED BY <1>3, <2>1
<1>7. t.buf = s.buf \o other
  BY <1>2
<1> HIDE DEF other, rest, m, c
<1>8. StartOf(s.buf, t.buf)
  BY <1>5, <1>7, FieldsAre, Extended
<1>9. ~s.locked => Searched(t)
  <2>1. s.scanFrom \in Nat /\ s.anchorFrom \in Nat
    BY FieldsAre
  <2>2. ~s.locked => Refused(s.buf, s.scanFrom) /\ NoAnchor(s.buf, s.anchorFrom)
    BY DEF Sound, Searched
  <2> QED BY <1>3, <1>8, <2>1, <2>2, RefusedGrows, NoAnchorGrows DEF Searched
<1>10. ~s.locked => t.at = s.at /\ t.skip = 0
  <2>1. ~s.locked => s.skip = 0
    BY DEF Sound
  <2>2. ~s.locked => n = 0
    BY <1>2, <1>4, <2>1
  <2> QED BY <1>2, <2>1, <2>2, FieldsAre
<1> QED BY <1>2, <1>3, <1>6, <1>8, <1>9, <1>10 DEF Sound

\* What feed() does to the search.
FedSearch(r, t, locked, last, ts) ==
  /\ r.s \in Framers /\ Sound(r.s) /\ r.out \in Seq(Reports)
  /\ ~r.s.locked => Quiet(r.s.buf, last, ts)
  /\ ~locked /\ r.out = <<>> => ~r.s.locked /\ GaveUp(t, r.s)
  /\ ~locked /\ r.out # <<>> => Search(t, ts).locked /\ r.out[1].at = Search(t, ts).at

\* The k bytes from p on, for a framer that was fed up to them.
Offered(s, v, from, p, k, data) ==
  /\ Resting(s, v, p - 1, from) /\ Sound(s)
  /\ data \in Seq(Nat) /\ Len(data) = k /\ \A i \in 1..k : data[i] = stream.bytes[p + i - 1]

LEMMA FeedSearches ==
  ASSUME IsStream(stream), NEW ts \in Int, NEW p \in Nat \ {0}, NEW k \in Nat \ {0},
         p + k - 1 <= Len(stream.bytes), NEW from \in Nat, NEW s, NEW v, NEW data,
         Offered(s, v, from, p, k, data), NEW r, r = FeedPiece(s, data, ts)
  PROVE  FedSearch(r, Take(s, data), s.locked, s.last, ts)
<1>0. /\ Resting(s, v, p - 1, from) /\ Sound(s)
      /\ data \in Seq(Nat) /\ Len(data) = k /\ \A i \in 1..k : data[i] = stream.bytes[p + i - 1]
  BY DEF Offered
<1> DEFINE t == Take(s, data)
           to == p + k - 1
<1>1. /\ Reads(t, to) /\ Tells(v, t) /\ Remembers(v, t) /\ OnTrack(v, t, to, from)
  BY <1>0, TakeRests
<1>2. to \in Nat /\ v \in Seq(Reports) /\ v \o <<>> = v /\ t \in Framers /\ to <= Len(stream.bytes)
  <2>1. v \in Seq(Reports) /\ t \in Framers
    BY <1>1 DEF Tells, Reads
  <2>2. v \o <<>> = v
    BY <2>1, NothingAdded
  <2> HIDE DEF t
  <2> QED
    BY <2>1, <2>2
<1>3. s \in Framers /\ Reads(s, p - 1)
  BY <1>0 DEF Resting, Reads
<1>4. /\ Sound(t) /\ t.last = s.last /\ t.locked = s.locked
  BY <1>0, <1>3, TakeSound
<1>5. CASE s.skip >= k
  <2>1. r = [s |-> t, out |-> <<>>]
    BY <1>0, <1>5 DEF FeedPiece
  <2> HIDE DEF t, to
  <2>2. s.locked
    <3>1. s.skip \in Nat /\ s.skip > 0
      BY <1>3, <1>5, FieldsAre
    <3> QED BY <1>0, <3>1 DEF Sound
  <2>3. r.s = t /\ r.out = <<>> /\ t.locked /\ r.out \in Seq(Reports)
    BY <1>4, <2>1, <2>2
  <2>4. FedSearch(r, t, s.locked, s.last, ts)
    BY <1>2, <1>4, <2>2, <2>3 DEF FedSearch
  <2> QED BY <2>4 DEF t
<1>6. CASE ~(s.skip >= k)
  <2> DEFINE start == [s |-> t, out |-> <<>>, done |-> FALSE]
             q == Loop(t, ts)
  <2>1. r = Bounded(q)
    BY <1>0, <1>6 DEF FeedPiece
  <2>2. t.skip = 0
    <3>1. s.skip < k => t.skip = 0
      BY <1>0, <1>3, TakeSkips
    <3>2. s.skip \in Nat
      BY <1>3, FieldsAre
    <3> QED
      BY <1>6, <3>1, <3>2
  <2>3. start \in Runs /\ start.s = t /\ start.out = <<>> /\ ~start.done
    <3> HIDE DEF t
    <3> QED BY <1>2 DEF Runs
  <2>4. Running(start, v, to, from)
    <3> HIDE DEF start, t, to
    <3> QED BY <1>1, <1>2, <2>2, <2>3 DEF Running
  <2>5. Hunting(q, t, ts) /\ q.done /\ q \in Runs
    <3>1. start = [s |-> t, out |-> <<>>, done |-> FALSE]
      OBVIOUS
    <3> HIDE DEF start, t, to
    <3> QED BY <1>2, <1>4, <2>4, <3>1, LoopHunts
  <2> HIDE DEF q, to, start, t
  <2>6. q.s \in Framers /\ Len(q.s.buf) \in Nat /\ q.out \in Seq(Reports)
    BY <2>5, RunFields, FieldsAre
  <2>7. Len(q.s.buf) <= MaxBuffer
    <3>1. ~q.s.locked => Len(q.s.buf) <= LockWindow
      BY <2>5 DEF Hunting, Quiet
    <3>2. q.s.locked => Len(q.s.buf) <= MaxBuffer
      BY <2>5 DEF Hunting
    <3> DEFINE n == Len(q.s.buf)
               w == LockWindow
               m == MaxBuffer
    <3>3. n \in Nat /\ w \in Nat /\ m = 2 * w /\ (n <= w \/ n <= m)
      BY <2>6, <3>1, <3>2, Windows
    <3>4. n <= m
      <4> HIDE DEF n, w, m
      <4> QED BY <3>3
    <3> QED BY <3>4
  <2>8. r = q
    BY <2>1, <2>7 DEF Bounded
  <2>9. Sound(q.s) /\ (~q.s.locked => Quiet(q.s.buf, s.last, ts))
    BY <1>4, <2>5 DEF Hunting
  <2>10. ~s.locked /\ q.out = <<>> => ~q.s.locked /\ GaveUp(t, q.s)
    BY <1>4, <2>5 DEF Hunting
  <2>11. ~s.locked /\ q.out # <<>> => Search(t, ts).locked /\ q.out[1].at = Search(t, ts).at
    BY <1>4, <2>5 DEF Hunting
  <2>12. FedSearch(q, t, s.locked, s.last, ts)
    BY <2>6, <2>9, <2>10, <2>11 DEF FedSearch
  <2> QED BY <2>8, <2>12 DEF t
<1> QED BY <1>5, <1>6

\* A framer that starts anew knows nothing, which is sound.
LEMMA ResetSound ==
  ASSUME NEW s \in Framers, s.overflows = 0, NEW p \in Nat \ {0}, NEW t, t = Reset(s, p)
  PROVE  t \in Framers /\ Sound(t) /\ t.buf = <<>> /\ t.at = p /\ ~t.locked
<1>1. t = Anew(s, p, 0)
  BY DEF Anew, Reset, FramerInit
<1>2. t \in Framers /\ t.buf = <<>> /\ t.at = p /\ t.skip = 0
  <2> DEFINE o == 0
  <2>1. o \in {0, 1} /\ t = Anew(s, p, o)
    BY <1>1
  <2> HIDE DEF o
  <2> QED BY <2>1, ResetIs
<1>3. ~t.locked /\ t.overflows = 0 /\ t.since = 0 /\ t.scanFrom = 1 /\ t.anchorFrom = 1
  BY DEF Reset, FramerInit
<1>4. Searched(t)
  BY <1>3, FirstPlaces DEF Searched
<1> QED BY <1>2, <1>3, <1>4 DEF Sound

LEMMA InitSound ==
  ASSUME NEW p \in Nat \ {0}, NEW t, t = FramerInit(p)
  PROVE  t \in Framers /\ Sound(t) /\ t.buf = <<>> /\ t.at = p /\ ~t.locked
<1>1. t \in Framers
  BY InitIsFramer
<1>2. /\ ~t.locked /\ t.overflows = 0 /\ t.since = 0 /\ t.scanFrom = 1 /\ t.anchorFrom = 1
      /\ t.buf = <<>> /\ t.at = p /\ t.skip = 0
  BY DEF FramerInit
<1>3. Searched(t)
  BY <1>2, FirstPlaces DEF Searched
<1> QED BY <1>1, <1>2, <1>3 DEF Sound

\* The bytes fed so far, of which the buffer is the end.
LEMMA ContentStart ==
  ASSUME IsStream(stream), NEW n \in Nat, n <= Len(stream.bytes), NEW w, w = Content(1, n)
  PROVE  w \in Seq(Nat) /\ Len(w) = n /\ \A i \in 1..n : w[i] = stream.bytes[i]
<1> DEFINE b == stream.bytes
<1>1. b \in Seq(Nat) /\ n <= Len(b) /\ w = SubSeq(b, 0 + 1, n)
  BY DEF IsStream, Content
<1> HIDE DEF b
<1>2. /\ SubSeq(b, 0 + 1, n) \in Seq(Nat) /\ Len(SubSeq(b, 0 + 1, n)) = n - 0
      /\ \A i \in 1..(n - 0) : SubSeq(b, 0 + 1, n)[i] = b[0 + i]
  BY <1>1, Cut
<1>3. w \in Seq(Nat) /\ Len(w) = n
  BY <1>1, <1>2
<1>4. \A i \in 1..n : w[i] = b[i]
  BY <1>1, <1>2
<1> QED BY <1>3, <1>4 DEF b

LEMMA ContentGrows ==
  ASSUME IsStream(stream), NEW m \in Nat, NEW n \in Nat, m <= n, n <= Len(stream.bytes)
  PROVE  StartOf(Content(1, m), Content(1, n))
<1> DEFINE l == Len(stream.bytes)
           v == Content(1, m)
           w == Content(1, n)
<1>1. l \in Nat /\ m <= l
  <2>1. l \in Nat /\ n <= l
    BY DEF IsStream
  <2> HIDE DEF l
  <2> QED BY <2>1
<1>2. v \in Seq(Nat) /\ Len(v) = m /\ \A i \in 1..m : v[i] = stream.bytes[i]
  BY <1>1, ContentStart
<1>3. w \in Seq(Nat) /\ Len(w) = n /\ \A i \in 1..n : w[i] = stream.bytes[i]
  BY ContentStart
<1>4. 1..m \subseteq 1..n
  OBVIOUS
<1> HIDE DEF v, w, l
<1>5. StartOf(v, w)
  BY <1>2, <1>3, <1>4 DEF StartOf
<1> QED BY <1>5 DEF v, w

LEMMA ReadsEnd ==
  ASSUME IsStream(stream), NEW to \in Nat, to <= Len(stream.bytes), NEW s, Reads(s, to)
  PROVE  EndOf(s.buf, Content(1, to), s.at - 1)
<1> DEFINE a == s.buf
           n == Len(a)
           d == s.at - 1
           w == Content(1, to)
<1>1. /\ a \in Seq(Nat) /\ n \in Nat /\ d \in Nat /\ s.at = d + 1 /\ d + n = to
      /\ \A i \in 1..n : a[i] = stream.bytes[s.at + i - 1]
  <2>1. /\ s \in Framers /\ s.at + n = to + 1
        /\ \A i \in 1..n : a[i] = stream.bytes[s.at + i - 1]
    BY DEF Reads
  <2>2. a \in Seq(Nat) /\ n \in Nat /\ s.at \in Nat \ {0}
    BY <2>1, FieldsAre
  <2> DEFINE x == s.at
  <2>3. x \in Nat \ {0} /\ n \in Nat /\ x + n = to + 1 /\ d = x - 1
    BY <2>1, <2>2
  <2> HIDE DEF a, n, d, x
  <2>4. d \in Nat /\ x = d + 1 /\ d + n = to
    BY <2>3
  <2> QED BY <2>1, <2>2, <2>4 DEF x
<1>2. w \in Seq(Nat) /\ Len(w) = to /\ \A i \in 1..to : w[i] = stream.bytes[i]
  BY ContentStart
<1> HIDE DEF a, d, w, n
<1>3. ASSUME NEW i \in 1..n PROVE a[i] = w[d + i]
  <2>1. d + i \in 1..to /\ s.at + i - 1 = d + i
    BY <1>1
  <2> QED BY <1>1, <1>2, <2>1
<1>4. EndOf(a, w, d)
  <2>1. Len(w) = n + d
    BY <1>1, <1>2
  <2> QED BY <1>1, <1>2, <1>3, <2>1 DEF EndOf, n
<1> QED BY <1>4 DEF a, d, w

\* What was given up is refused in all that was fed.
LEMMA GivenUp ==
  ASSUME NEW t \in Framers, NEW u, NEW w, EndOf(t.buf, w, t.at - 1), GaveUp(t, u),
         NEW q \in t.at..(u.at - 1)
  PROVE  Chain(w, q, LockK) = Reject
<1> DEFINE d == t.at - 1
           i == q - d
<1>1. PICK n \in 0..Len(t.buf) :
        u.at = t.at + n /\ \A p \in 1..n : Chain(t.buf, p, LockK) = Reject
  BY DEF GaveUp
<1>2. d \in Nat /\ n \in Nat /\ t.at = d + 1 /\ LockK \in Nat
  <2>1. t.at \in Nat \ {0} /\ Len(t.buf) \in Nat
    BY FieldsAre
  <2>2. LockK \in Nat
    BY FramerConstants
  <2> QED BY <1>1, <2>1, <2>2
<1>3. i \in 1..n /\ i \in Nat \ {0} /\ q = i + d
  <2> HIDE DEF d
  <2> QED BY <1>1, <1>2
<1>4. Chain(t.buf, i, LockK) = Reject
  <2> HIDE DEF i
  <2> QED BY <1>1, <1>3
<1>5. EndOf(t.buf, w, d)
  OBVIOUS
<1> HIDE DEF d, i
<1>6. Chain(w, i + d, LockK) = Reject
  BY <1>2, <1>3, <1>4, <1>5, ChainEndRefused
<1> QED BY <1>3, <1>6

-----------------------------------------------------------------------------
(***************************************************************************)
(* The steps of the search.                                                *)
(***************************************************************************)
SearchInv ==
  /\ Sound(framer)
  /\ origin \in Nat \ {0} /\ (origin <= fed \/ (fed = 0 /\ origin = 1 /\ framer = FramerInit(1)))
  /\ told = <<>> =>
       ~framer.locked /\ \A q \in origin..(framer.at - 1) : Chain(Content(1, fed), q, LockK) = Reject

\* What becomes of the n bytes from p on, fed to s; t is s with those bytes.
Given(s, t, r, p, k, anew) ==
  /\ s = IF anew THEN Reset(framer, p) ELSE framer
  /\ s \in Framers /\ Sound(s) /\ (~s.locked => s.at = IF anew THEN p ELSE framer.at)
  /\ (anew => ~s.locked)
  /\ t = Take(s, Content(p, p + k - 1))
  /\ t \in Framers /\ Reads(t, p + k - 1) /\ Sound(t) /\ t.last = s.last
  /\ t.locked = s.locked /\ (~s.locked => t.at = s.at /\ t.skip = 0)
  /\ r.out \in Seq(Reports) /\ FedSearch(r, t, s.locked, s.last, clock)
  /\ framer' = r.s /\ told' = told \o r.out /\ fed' = p + k - 1
  /\ origin' = (IF anew THEN p ELSE origin) /\ stream' = stream /\ clock' = clock

\* There is room for it, behind what was fed.
Fits(p, k, anew) ==
  /\ p \in Nat \ {0} /\ k \in Nat \ {0} /\ anew \in BOOLEAN
  /\ p + k - 1 <= Len(stream.bytes) /\ fed + 1 <= p /\ (~anew => p = fed + 1)

LEMMA DeliverGives ==
  ASSUME FramerInv, SearchInv, NEW p \in Nat \ {0}, NEW k \in Nat \ {0}, NEW anew \in BOOLEAN,
         p + k - 1 <= Len(stream.bytes), fed + 1 <= p, ~anew => p = fed + 1, Deliver(p, k, anew)
  PROVE  \E s, t, r : Given(s, t, r, p, k, anew)
<1> DEFINE s == IF anew THEN Reset(framer, p) ELSE framer
           data == Content(p, p + k - 1)
           t == Take(s, data)
           r == FeedPiece(s, data, clock)
           o == IF anew THEN p ELSE origin
<1>1. /\ IsStream(stream) /\ fed \in Nat /\ clock \in Int /\ origin \in Nat
      /\ Resting(framer, told, fed, origin) /\ Sound(framer)
  BY DEF FramerInv, SearchInv
<1>2. /\ framer' = r.s /\ told' = told \o r.out /\ fed' = p + k - 1 /\ origin' = o
      /\ stream' = stream /\ clock' = clock
  BY DEF Deliver
<1>3. data \in Seq(Nat) /\ Len(data) = k /\ \A i \in 1..k : data[i] = stream.bytes[p + i - 1]
  BY <1>1, ContentIs
<1>4. o \in Nat
  BY <1>1
<1>5. Resting(s, told, p - 1, o) /\ Sound(s) /\ (anew => ~s.locked /\ s.at = p)
  <2>1. CASE anew
    <3>1. Reads(framer, fed) /\ Tells(told, framer) /\ Remembers(told, framer)
      BY <1>1 DEF Resting
    <3>2. Lost(told, p)
      BY <1>1, <3>1, NewPlace
    <3>3. framer \in Framers /\ framer.overflows = 0
      BY <1>1, <3>1 DEF Reads, Sound
    <3> DEFINE v == framer.overflows
    <3>4. v \in {0, 1}
      BY <3>3, FieldsAre
    <3>5. s = Anew(framer, p, v) /\ o = p
      BY <2>1 DEF Anew, Reset, FramerInit
    <3>6. Sound(s) /\ ~s.locked /\ s.at = p
      <4>1. s = Reset(framer, p)
        BY <2>1
      <4> HIDE DEF s
      <4> QED BY <3>3, <4>1, ResetSound
    <3> HIDE DEF s, v, o
    <3> QED
      BY <1>1, <1>4, <3>1, <3>2, <3>4, <3>5, <3>6, ResetRests
  <2>2. CASE ~anew
    <3>1. s = framer /\ p - 1 = fed /\ o = origin
      BY <1>1, <2>2
    <3> HIDE DEF s, o
    <3> QED BY <1>1, <2>2, <3>1
  <2> QED
    BY <2>1, <2>2
<1>6. s = IF anew THEN Reset(framer, p) ELSE framer
  OBVIOUS
<1>7. t = Take(s, data) /\ r = FeedPiece(s, data, clock) /\ data = Content(p, p + k - 1)
  OBVIOUS
<1>8. o = IF anew THEN p ELSE origin
  OBVIOUS
<1> HIDE DEF s, data, o, t, r
<1>9. Offered(s, told, o, p, k, data)
  BY <1>3, <1>5 DEF Offered
<1>10. FedSearch(r, t, s.locked, s.last, clock) /\ r.out \in Seq(Reports)
  <2>1. IsStream(stream) /\ clock \in Int
    BY <1>1
  <2>2. FedSearch(r, Take(s, data), s.locked, s.last, clock)
    BY <1>4, <1>7, <1>9, <2>1, FeedSearches
  <2> QED BY <1>7, <2>2 DEF FedSearch
<1>11. Reads(s, p - 1) /\ s \in Framers
  BY <1>5 DEF Resting, Reads
<1>12. Reads(t, p + k - 1)
  BY <1>1, <1>3, <1>7, <1>11, TakeIs
<1>13. /\ t \in Framers /\ Sound(t) /\ t.last = s.last /\ t.locked = s.locked
       /\ (~s.locked => t.at = s.at /\ t.skip = 0)
  BY <1>3, <1>5, <1>7, <1>11, TakeSound
<1>14. ~s.locked => s.at = IF anew THEN p ELSE framer.at
  BY <1>5, <1>6
<1>15. Given(s, t, r, p, k, anew)
  BY <1>2, <1>5, <1>6, <1>7, <1>8, <1>10, <1>11, <1>12, <1>13, <1>14 DEF Given
<1> QED BY <1>15

LEMMA NothingTold ==
  ASSUME NEW S, NEW a \in Seq(S), NEW b \in Seq(S)
  PROVE  /\ a \o b = <<>> => a = <<>> /\ b = <<>>
         /\ a \o b = a => b = <<>>
         /\ a = <<>> => a \o b = b
<1>1. Len(a \o b) = Len(a) + Len(b) /\ Len(a) \in Nat /\ Len(b) \in Nat
  BY Concat
<1>2. a \o b = <<>> => Len(a \o b) = 0
  OBVIOUS
<1>3. a = <<>> => a \o b = b
  OBVIOUS
<1>4. a \o b = <<>> => Len(a) = 0 /\ Len(b) = 0
  BY <1>1, <1>2
<1>5. a \o b = a => Len(b) = 0
  BY <1>1
<1>6. (Len(a) = 0 => a = <<>>) /\ (Len(b) = 0 => b = <<>>)
  OBVIOUS
<1> QED BY <1>3, <1>4, <1>5, <1>6

LEMMA DeliverKeepsSearch ==
  ASSUME FramerInv, SearchInv, NEW p, NEW k, NEW anew, Fits(p, k, anew), Deliver(p, k, anew)
  PROVE  SearchInv'
<1> DEFINE to == p + k - 1
           o == IF anew THEN p ELSE origin
<1>1. PICK s, t, r : Given(s, t, r, p, k, anew)
  BY DeliverGives DEF Fits
<1>2. /\ p \in Nat \ {0} /\ k \in Nat \ {0} /\ anew \in BOOLEAN
      /\ p + k - 1 <= Len(stream.bytes) /\ fed + 1 <= p /\ (~anew => p = fed + 1)
  BY DEF Fits
<1>3. IsStream(stream) /\ fed \in Nat /\ fed <= Len(stream.bytes) /\ origin \in Nat \ {0}
      /\ told \in Seq(Reports)
      /\ (origin <= fed \/ (fed = 0 /\ origin = 1))
  BY DEF FramerInv, SearchInv, Resting, Tells
<1>4. Sound(framer)'
  <2>1. Sound(r.s) /\ framer' = r.s
    BY <1>1 DEF Given, FedSearch
  <2> QED BY <2>1 DEF Sound, Searched
<1>5. origin' \in Nat \ {0} /\ origin' <= fed'
  <2>1. origin' = o /\ fed' = to
    BY <1>1 DEF Given
  <2>2. o \in Nat \ {0} /\ o <= to
    BY <1>2, <1>3
  <2> QED BY <2>1, <2>2
<1>6. ASSUME told' = <<>>
      PROVE  ~framer'.locked /\ \A q \in o..(framer'.at - 1) : Chain(Content(1, to), q, LockK) = Reject
  <2>1. told = <<>> /\ r.out = <<>>
    <3>1. told' = told \o r.out /\ r.out \in Seq(Reports)
      BY <1>1 DEF Given
    <3> DEFINE b == r.out
    <3>2. told \in Seq(Reports) /\ b \in Seq(Reports) /\ told \o b = <<>>
      BY <1>3, <1>6, <3>1
    <3> HIDE DEF b
    <3>3. told = <<>> /\ b = <<>>
      BY <3>2, NothingTold
    <3> QED BY <3>3 DEF b
  <2>2. ~s.locked
    <3>1. anew => ~s.locked
      BY <1>1 DEF Given
    <3>2. ~anew => s = framer
      BY <1>1 DEF Given
    <3> QED BY <2>1, <3>1, <3>2 DEF SearchInv
  <2>3. ~r.s.locked /\ GaveUp(t, r.s) /\ framer' = r.s
    BY <1>1, <2>1, <2>2 DEF Given, FedSearch
  <2>4. t \in Framers /\ Reads(t, to) /\ t.at = s.at /\ s.at = (IF anew THEN p ELSE framer.at)
    BY <1>1, <2>2 DEF Given
  <2>5. to \in Nat /\ to <= Len(stream.bytes) /\ fed <= to
    BY <1>2, <1>3
  <2> HIDE DEF to
  <2>6. EndOf(t.buf, Content(1, to), t.at - 1)
    BY <1>3, <2>4, <2>5, ReadsEnd
  <2>7. ASSUME NEW q \in o..(framer'.at - 1) PROVE Chain(Content(1, to), q, LockK) = Reject
    <3>0. t.at \in Nat /\ r.s.at \in Nat /\ o \in Nat
      <4>1. r.s \in Framers
        BY <1>1 DEF Given, FedSearch
      <4> QED BY <1>2, <1>3, <2>4, <4>1, FieldsAre
    <3>1. CASE q >= t.at
      <4>1. q \in t.at..(r.s.at - 1)
        <5> HIDE DEF o
        <5> QED BY <2>3, <2>7, <3>0, <3>1
      <4> HIDE DEF o
      <4> QED BY <2>3, <2>4, <2>6, <4>1, GivenUp
    <3>2. CASE ~(q >= t.at)
      <4>1. ~anew
        <5>1. anew => o = t.at
          BY <2>4
        <5> HIDE DEF o
        <5> QED BY <3>0, <3>2, <5>1
      <4>2. q \in origin..(framer.at - 1) /\ q \in Nat
        <5>1. t.at = framer.at /\ o = origin
          BY <2>4, <4>1
        <5> HIDE DEF o
        <5> QED BY <3>0, <3>2, <5>1
      <4>3. Chain(Content(1, fed), q, LockK) = Reject
        BY <2>1, <4>2 DEF SearchInv
      <4>4. StartOf(Content(1, fed), Content(1, to))
        BY <1>3, <2>5, ContentGrows
      <4>5. q \in Outcomes /\ LockK \in Nat /\ Reject # Pending
        BY <4>2, FramerConstants DEF Outcomes, Reject, Pending
      <4> QED BY <4>3, <4>4, <4>5, ChainGrows
    <3> QED BY <3>1, <3>2
  <2> QED BY <2>3, <2>7
<1>7. origin' = o /\ fed' = to /\ stream' = stream
  BY <1>1 DEF Given
<1>8. ASSUME told' = <<>>
      PROVE  /\ ~framer'.locked
             /\ \A q \in origin'..(framer'.at - 1) : Chain(Content(1, fed)', q, LockK) = Reject
  <2>1. Content(1, fed)' = Content(1, to)
    BY <1>7 DEF Content
  <2> HIDE DEF to, o
  <2> QED BY <1>6, <1>7, <1>8, <2>1
<1> QED BY <1>4, <1>5, <1>8 DEF SearchInv

LEMMA SearchInvInit ==
  ASSUME framer = FramerInit(1), told = <<>>, fed = 0, origin = 1
  PROVE  SearchInv
<1>1. Sound(framer) /\ framer.at = 1 /\ ~framer.locked
  <2> DEFINE p == 1
  <2>1. p \in Nat \ {0} /\ framer = FramerInit(p)
    OBVIOUS
  <2> HIDE DEF p
  <2>2. Sound(framer) /\ framer.at = p /\ ~framer.locked
    BY <2>1, InitSound
  <2> QED BY <2>2 DEF p
<1>2. origin..(framer.at - 1) = {}
  BY <1>1
<1> QED BY <1>1, <1>2 DEF SearchInv

LEMMA SearchStill ==
  ASSUME SearchInv, stream' = stream, fed' = fed, framer' = framer, told' = told, origin' = origin
  PROVE  SearchInv'
<1>1. Sound(framer)' /\ Content(1, fed)' = Content(1, fed)
  BY DEF SearchInv, Sound, Searched, Content
<1>2. (framer = FramerInit(1)) => (framer = FramerInit(1))'
  BY DEF FramerInit
<1> QED BY <1>1, <1>2 DEF SearchInv

\* A framer that starts anew with the first byte goes on.
LEMMA GoesOn ==
  ASSUME FramerInv, SearchInv, NEW p, NEW k, NEW anew, Fits(p, k, anew),
         NEW s, NEW t, NEW r, Given(s, t, r, p, k, anew), origin' = origin \/ origin' = 1
  PROVE  s = framer /\ p = fed + 1 /\ origin' = origin
<1>1. s = (IF anew THEN Reset(framer, p) ELSE framer) /\ origin' = (IF anew THEN p ELSE origin)
  BY DEF Given
<1>2. p \in Nat \ {0} /\ fed \in Nat /\ anew \in BOOLEAN /\ fed + 1 <= p /\ (~anew => p = fed + 1)
  BY DEF Fits, FramerInv
<1>3. origin \in Nat \ {0} /\ (origin <= fed \/ (fed = 0 /\ origin = 1 /\ framer = FramerInit(1)))
  BY DEF SearchInv
<1>4. CASE anew
  <2>1. fed = 0 /\ origin = 1 /\ framer = FramerInit(1) /\ p = 1
    <3>1. origin' = p
      BY <1>1, <1>4
    <3>2. ~(origin <= fed)
      BY <1>2, <1>3, <3>1
    <3> QED BY <1>3, <3>1, <3>2
  <2>2. s = Reset(FramerInit(1), 1)
    BY <1>1, <1>4, <2>1
  <2>3. Reset(FramerInit(1), 1) = FramerInit(1)
    BY DEF Reset, FramerInit
  <2> QED BY <1>1, <1>4, <2>1, <2>2, <2>3
<1>5. CASE ~anew
  BY <1>1, <1>2, <1>5
<1> QED BY <1>2, <1>4, <1>5

\* What SearchIsComplete says of a step.
Completes ==
  fed' # fed /\ ~framer'.locked /\ origin' = origin =>
    /\ \A p \in DOMAIN framer'.buf : EnterAt(framer'.buf, p) <= 0
    /\ \/ Len(framer'.buf) < ScanAlways \/ Len(framer'.buf) >= LockWindow
       \/ clock - framer.last >= MaxWait
       => \A p \in DOMAIN framer'.buf : Chain(framer'.buf, p, LockK) <= 0
    /\ ~framer.locked /\ told' = told =>
         \A p \in framer.at..(framer'.at - 1) :
           Chain(SubSeq(stream.bytes, 1, fed'), p, LockK) = Reject
    /\ framer'.overflows = 0 /\ Len(framer'.buf) <= LockWindow

LEMMA DeliverCompletes ==
  ASSUME FramerInv, SearchInv, NEW p, NEW k, NEW anew, Fits(p, k, anew), Deliver(p, k, anew)
  PROVE  Completes
<1> SUFFICES ASSUME fed' # fed, ~framer'.locked, origin' = origin
             PROVE  /\ \A q \in DOMAIN framer'.buf : EnterAt(framer'.buf, q) <= 0
                    /\ \/ Len(framer'.buf) < ScanAlways \/ Len(framer'.buf) >= LockWindow
                       \/ clock - framer.last >= MaxWait
                       => \A q \in DOMAIN framer'.buf : Chain(framer'.buf, q, LockK) <= 0
                    /\ ~framer.locked /\ told' = told =>
                         \A q \in framer.at..(framer'.at - 1) :
                           Chain(SubSeq(stream.bytes, 1, fed'), q, LockK) = Reject
                    /\ framer'.overflows = 0 /\ Len(framer'.buf) <= LockWindow
  BY DEF Completes
<1>1. PICK s, t, r : Given(s, t, r, p, k, anew)
  BY DeliverGives DEF Fits
<1>2. s = framer
  BY <1>1, GoesOn
<1>3. FedSearch(r, t, framer.locked, framer.last, clock) /\ framer' = r.s /\ fed' = p + k - 1
      /\ told' = told \o r.out /\ r.out \in Seq(Reports)
      /\ t \in Framers /\ Reads(t, p + k - 1) /\ (~framer.locked => t.at = framer.at)
  BY <1>1, <1>2 DEF Given
<1>4. Quiet(framer'.buf, framer.last, clock) /\ framer' \in Framers /\ framer'.overflows = 0
  BY <1>3 DEF FedSearch, Sound
<1>5. DOMAIN framer'.buf = 1..Len(framer'.buf)
  BY <1>4, FieldsAre
<1>6. /\ \A q \in DOMAIN framer'.buf : EnterAt(framer'.buf, q) <= 0
      /\ \/ Len(framer'.buf) < ScanAlways \/ Len(framer'.buf) >= LockWindow
         \/ clock - framer.last >= MaxWait
         => \A q \in DOMAIN framer'.buf : Chain(framer'.buf, q, LockK) <= 0
      /\ framer'.overflows = 0 /\ Len(framer'.buf) <= LockWindow
  BY <1>4, <1>5 DEF Quiet, NoEnterIn, NoLockIn
<1>7. ASSUME ~framer.locked, told' = told, NEW q \in framer.at..(framer'.at - 1)
      PROVE  Chain(SubSeq(stream.bytes, 1, fed'), q, LockK) = Reject
  <2> DEFINE to == p + k - 1
  <2>1. r.out = <<>>
    <3> DEFINE b == r.out
    <3>1. told \in Seq(Reports) /\ b \in Seq(Reports) /\ told \o b = told
      BY <1>3, <1>7 DEF FramerInv, Resting, Tells
    <3> HIDE DEF b
    <3>2. b = <<>>
      BY <3>1, NothingTold
    <3> QED BY <3>2 DEF b
  <2>2. GaveUp(t, r.s)
    BY <1>3, <1>7, <2>1 DEF FedSearch
  <2>3. to \in Nat /\ to <= Len(stream.bytes) /\ IsStream(stream)
    BY DEF Fits, FramerInv
  <2>4. Reads(t, to) /\ fed' = to
    BY <1>3
  <2> HIDE DEF to
  <2>5. EndOf(t.buf, Content(1, to), t.at - 1)
    BY <2>3, <2>4, ReadsEnd
  <2>6. q \in t.at..(r.s.at - 1)
    BY <1>3, <1>7
  <2>7. Chain(Content(1, to), q, LockK) = Reject
    BY <1>3, <2>2, <2>5, <2>6, GivenUp
  <2> QED BY <2>4, <2>7 DEF Content
<1> QED BY <1>6, <1>7

-----------------------------------------------------------------------------
(***************************************************************************)
(* All the bytes, searched at once, begin where a framer locks on their end. *)
(***************************************************************************)
\* The bytes w of which b is the end, in front of which nothing could be a lock.
Behind(b, w, d) == EndOf(b, w, d) /\ \A q \in 1..d : Chain(w, q, LockK) = Reject

LEMMA NotInFront ==
  ASSUME NEW b, NEW w, NEW d, Behind(b, w, d), NEW q \in 1..Len(w), Chain(w, q, LockK) # Reject
  PROVE  q - d \in 1..Len(b) /\ q - d \in Nat \ {0} /\ q = (q - d) + d
<1> DEFINE m == Len(b)
           n == Len(w)
<1>1. EndOf(b, w, d) /\ \A i \in 1..d : Chain(w, i, LockK) = Reject
  BY DEF Behind
<1>2. m \in Nat /\ n \in Nat /\ d \in Nat /\ n = m + d
  BY <1>1, EndSequences
<1>3. ~(q \in 1..d) /\ q \in 1..n
  BY <1>1
<1> HIDE DEF m, n
<1>4. q - d \in 1..m /\ q - d \in Nat \ {0} /\ q = (q - d) + d
  BY <1>2, <1>3
<1> QED BY <1>4 DEF m

LEMMA FoundBehind ==
  ASSUME NEW b, NEW w, NEW d, Behind(b, w, d), NEW p \in 1..Len(b)
  PROVE  p + d \in 1..Len(w)
<1> DEFINE m == Len(b)
           n == Len(w)
<1>1. m \in Nat /\ n \in Nat /\ d \in Nat /\ n = m + d /\ p \in 1..m
  BY EndSequences DEF Behind
<1> HIDE DEF m, n
<1>2. p + d \in 1..n
  BY <1>1
<1> QED BY <1>2 DEF n

\* A lock, and an ENTER, that is first in the end is first in all.
FirstLock(buf, o) ==
  o \in 1..Len(buf) /\ Chain(buf, o, LockK) > 0 /\ \A p \in 1..Len(buf) : Chain(buf, p, LockK) > 0 => o <= p

FirstEnter(buf, o) ==
  o \in 1..Len(buf) /\ EnterAt(buf, o) > 0 /\ \A p \in 1..Len(buf) : EnterAt(buf, p) > 0 => o <= p

LEMMA OutcomesAreNumbers ==
  ASSUME NEW buf \in Seq(Nat), NEW p \in 1..Len(buf)
  PROVE  Chain(buf, p, LockK) \in Int /\ EnterAt(buf, p) \in Int
<1>1. p \in Nat \ {0} /\ p \in Outcomes /\ LockK \in Nat /\ Outcomes \subseteq Int
  BY FramerConstants DEF Outcomes, Reject
<1> QED BY <1>1, ChainIs, EnterOutcome

LEMMA LockBehind ==
  ASSUME NEW b, NEW w, NEW d, Behind(b, w, d)
  PROVE  /\ NoLockIn(b) => NoLockIn(w)
         /\ \A x \in 1..Len(b), y \in 1..Len(w) : FirstLock(b, x) /\ FirstLock(w, y) => y = x + d
         /\ NoLockIn(w) => NoLockIn(b)
<1>0. EndOf(b, w, d)
  BY DEF Behind
<1>1. LockK \in Nat /\ d \in Nat /\ w \in Seq(Nat) /\ b \in Seq(Nat) /\ Len(w) \in Nat /\ Len(b) \in Nat
  BY <1>0, FramerConstants, EndSequences
<1>2. ASSUME NEW q \in 1..Len(w), Chain(w, q, LockK) > 0
      PROVE  q - d \in 1..Len(b) /\ Chain(b, q - d, LockK) > 0
  <2>1. Chain(w, q, LockK) # Reject
    BY <1>2 DEF Reject
  <2>2. q - d \in 1..Len(b) /\ q - d \in Nat \ {0} /\ q = (q - d) + d
    BY <2>1, NotInFront
  <2> DEFINE i == q - d
  <2>3. i \in Nat \ {0} /\ Chain(w, i + d, LockK) > 0
    BY <1>2, <2>2
  <2> HIDE DEF i
  <2>4. Chain(b, i, LockK) > 0
    BY <1>0, <1>1, <2>3, ChainEndRefused
  <2> QED BY <2>2, <2>4 DEF i
<1>3. ASSUME NEW p \in 1..Len(b), Chain(b, p, LockK) > 0
      PROVE  p + d \in 1..Len(w) /\ Chain(w, p + d, LockK) > 0
  <2>1. p \in Nat \ {0}
    BY <1>1
  <2> QED BY <1>0, <1>1, <1>3, <2>1, FoundBehind, ChainEndRefused
<1>4. NoLockIn(b) => NoLockIn(w)
  <2> SUFFICES ASSUME NoLockIn(b), NEW q \in 1..Len(w), Chain(w, q, LockK) > 0 PROVE FALSE
    BY <1>1, OutcomesAreNumbers DEF NoLockIn
  <2>1. q - d \in 1..Len(b) /\ Chain(b, q - d, LockK) > 0
    BY <1>2
  <2>2. Chain(b, q - d, LockK) \in Int
    BY <1>1, <2>1, OutcomesAreNumbers
  <2> QED BY <2>1, <2>2 DEF NoLockIn
<1>5. ASSUME NEW x \in 1..Len(b), NEW y \in 1..Len(w), FirstLock(b, x), FirstLock(w, y) PROVE y = x + d
  <2>1. y - d \in 1..Len(b) /\ Chain(b, y - d, LockK) > 0
    BY <1>2, <1>5 DEF FirstLock
  <2>2. x <= y - d
    BY <1>5, <2>1 DEF FirstLock
  <2>3. x + d \in 1..Len(w) /\ Chain(w, x + d, LockK) > 0
    BY <1>3, <1>5 DEF FirstLock
  <2>4. y <= x + d
    BY <1>5, <2>3 DEF FirstLock
  <2> QED BY <1>1, <2>2, <2>4
<1>6. NoLockIn(w) => NoLockIn(b)
  BY <1>0, NothingLeft
<1> QED BY <1>4, <1>5, <1>6

LEMMA EnterBehind ==
  ASSUME NEW b, NEW w, NEW d, Behind(b, w, d)
  PROVE  /\ NoEnterIn(b) => NoEnterIn(w)
         /\ \A x \in 1..Len(b), y \in 1..Len(w) : FirstEnter(b, x) /\ FirstEnter(w, y) => y = x + d
         /\ NoEnterIn(w) => NoEnterIn(b)
<1>0. EndOf(b, w, d)
  BY DEF Behind
<1>1. LockK \in Nat /\ d \in Nat /\ w \in Seq(Nat) /\ b \in Seq(Nat) /\ Len(w) \in Nat /\ Len(b) \in Nat
  BY <1>0, FramerConstants, EndSequences
<1>2. ASSUME NEW q \in 1..Len(w), EnterAt(w, q) > 0
      PROVE  q - d \in 1..Len(b) /\ EnterAt(b, q - d) > 0
  <2>1. Chain(w, q, LockK) # Reject
    <3>1. q \in Nat \ {0}
      BY <1>1
    <3> QED BY <1>1, <1>2, <3>1, EnterNotRefused
  <2>2. q - d \in 1..Len(b) /\ q - d \in Nat \ {0} /\ q = (q - d) + d
    BY <2>1, NotInFront
  <2> DEFINE i == q - d
  <2>3. i \in Nat \ {0} /\ EnterAt(w, i + d) > 0
    BY <1>2, <2>2
  <2> HIDE DEF i
  <2>4. EnterAt(b, i) > 0
    BY <1>0, <1>1, <2>3, EnterEnd
  <2> QED BY <2>2, <2>4 DEF i
<1>3. ASSUME NEW p \in 1..Len(b), EnterAt(b, p) > 0
      PROVE  p + d \in 1..Len(w) /\ EnterAt(w, p + d) > 0
  <2>1. p \in Nat \ {0}
    BY <1>1
  <2> QED BY <1>0, <1>1, <1>3, <2>1, FoundBehind, EnterEnd
<1>4. NoEnterIn(b) => NoEnterIn(w)
  <2> SUFFICES ASSUME NoEnterIn(b), NEW q \in 1..Len(w), EnterAt(w, q) > 0 PROVE FALSE
    BY <1>1, OutcomesAreNumbers DEF NoEnterIn
  <2>1. q - d \in 1..Len(b) /\ EnterAt(b, q - d) > 0
    BY <1>2
  <2>2. EnterAt(b, q - d) \in Int
    BY <1>1, <2>1, OutcomesAreNumbers
  <2> QED BY <2>1, <2>2 DEF NoEnterIn
<1>5. ASSUME NEW x \in 1..Len(b), NEW y \in 1..Len(w), FirstEnter(b, x), FirstEnter(w, y) PROVE y = x + d
  <2>1. y - d \in 1..Len(b) /\ EnterAt(b, y - d) > 0
    BY <1>2, <1>5 DEF FirstEnter
  <2>2. x <= y - d
    BY <1>5, <2>1 DEF FirstEnter
  <2>3. x + d \in 1..Len(w) /\ EnterAt(w, x + d) > 0
    BY <1>3, <1>5 DEF FirstEnter
  <2>4. y <= x + d
    BY <1>5, <2>3 DEF FirstEnter
  <2> QED BY <1>1, <2>2, <2>4
<1>6. NoEnterIn(w) => NoEnterIn(b)
  BY <1>0, NothingLeft
<1> QED BY <1>4, <1>5, <1>6

\* The first place that leads to an ENTER is the same, too.
LEMMA LeadBehind ==
  ASSUME NEW b, NEW w, NEW d, Behind(b, w, d), NEW a \in 1..Len(b), EnterAt(w, a + d) > 0,
         NEW f \in 1..a, Leads(b, f, a), \A p \in 1..a : Leads(b, p, a) => f <= p,
         NEW g, g = ChainStart(w, 1, a + d)
  PROVE  g = f + d
<1> DEFINE e == a + d
<1>0. EndOf(b, w, d)
  BY DEF Behind
<1>1. /\ d \in Nat /\ w \in Seq(Nat) /\ b \in Seq(Nat) /\ Len(w) \in Nat /\ Len(b) \in Nat
      /\ a \in Nat \ {0} /\ f \in Nat \ {0}
  BY <1>0, EndSequences
<1>2. e \in 1..Len(w)
  BY FoundBehind
<1>3. e \in Nat \ {0} /\ 1 <= e /\ EnterAt(w, e) > 0 /\ g = ChainStart(w, 1, e)
  BY <1>1
<1>4. /\ g \in 1..e /\ Leads(w, g, e)
      /\ \A p \in 1..e : Leads(w, p, e) => g <= p
  <2> DEFINE from == 1
  <2>1. from \in Nat \ {0} /\ from <= e /\ Refused(w, from) /\ g = ChainStart(w, from, e)
    BY <1>3, FirstPlaces
  <2> HIDE DEF e, from
  <2> QED BY <1>1, <1>3, <2>1, ChainStartFirst
<1>5. Chain(w, g, LockK) # Reject
  <2>1. Chain(w, e, LockK) # Reject
    BY <1>1, <1>3, EnterNotRefused
  <2>2. g \in Nat \ {0}
    BY <1>3, <1>4
  <2> HIDE DEF e
  <2> QED BY <1>1, <1>3, <1>4, <2>1, <2>2, LeadsNotRefused
<1>6. g \in 1..Len(w)
  <2> HIDE DEF e
  <2> QED BY <1>1, <1>2, <1>4
<1> DEFINE i == g - d
<1>7. i \in Nat \ {0} /\ g = i + d
  BY <1>5, <1>6, NotInFront
<1>8. Leads(b, i, a)
  <2>1. Leads(w, i + d, a + d)
    BY <1>4, <1>7
  <2> HIDE DEF i
  <2> QED BY <1>0, <1>1, <1>7, <2>1, LeadsEnd
<1>9. f <= i
  <2>1. i \in 1..a
    <3> HIDE DEF i
    <3> QED BY <1>1, <1>4, <1>7
  <2> HIDE DEF i
  <2> QED BY <1>8, <2>1
<1>10. g <= f + d
  <2>1. Leads(w, f + d, a + d)
    BY <1>0, <1>1, LeadsEnd
  <2>2. f + d \in 1..e
    BY <1>1
  <2> QED BY <1>4, <2>1, <2>2
<1> HIDE DEF i, e
<1>11. i \in Nat /\ d \in Nat /\ f \in Nat /\ g = i + d /\ f <= i /\ g <= f + d
  BY <1>1, <1>7, <1>9, <1>10
<1> QED BY ONLY <1>11

LEMMA SameBytes ==
  ASSUME NEW b, NEW w, EndOf(b, w, 0)
  PROVE  b = w
<1>1. b \in Seq(Nat) /\ w \in Seq(Nat) /\ Len(w) = Len(b) + 0 /\ \A i \in 1..Len(b) : b[i] = w[0 + i]
  BY DEF EndOf
<1>2. Len(w) = Len(b) /\ Len(b) \in Nat
  BY <1>1
<1>3. \A i \in 1..Len(b) : b[i] = w[i]
  BY <1>1, <1>2
<1> QED BY <1>1, <1>2, <1>3, SameSequence

\* Where a lock, a popup and an ENTER let the frames begin.
Begin(lock, popup, anchor, first) ==
  LET off == IF lock = 0 /\ popup THEN 1 ELSE lock
  IN  IF anchor > 0 /\ (off = 0 \/ first < off) THEN first ELSE off

LEMMA BoundaryIs ==
  ASSUME NEW w
  PROVE  FindBoundary(w) = Begin(FindLock(w, 1).off, PopupAnchor(w), EnterAnchor(w, 1).off,
                                 ChainStart(w, 1, EnterAnchor(w, 1).off))
  BY DEF FindBoundary, Begin

\* The ENTER of a framer and that of all bytes.
SameEnter(a, e, f, g, d) ==
  \/ a = 0 /\ e = 0
  \/ a \in Nat \ {0} /\ e = a + d /\ f \in Nat \ {0} /\ g = f + d

LEMMA AnchorsAgree ==
  ASSUME NEW s \in Framers, Searched(s), NEW ts \in Int, NEW w, NEW d, Behind(s.buf, w, d),
         NEW e, e = EnterAnchor(w, 1).off
  PROVE  SameEnter(AnchorOf(s).off, e, FirstOf(s, ts), ChainStart(w, 1, e), d)
<1> DEFINE b == s.buf
           a == AnchorOf(s).off
           f == FirstOf(s, ts)
           g == ChainStart(w, 1, e)
<1>1. w \in Seq(Nat) /\ b \in Seq(Nat) /\ d \in Nat /\ Len(w) \in Nat /\ Len(b) \in Nat /\ EndOf(b, w, d)
  BY EndSequences DEF Behind
<1>2. \/ e = 0 /\ NoEnterIn(w)
      \/ FirstEnter(w, e)
  <2> DEFINE from == 1
  <2>1. from \in Nat \ {0} /\ NoAnchor(w, from) /\ e = EnterAnchor(w, from).off
    BY FirstPlaces
  <2> HIDE DEF from
  <2> QED BY <1>1, <2>1, EnterAnchorFinds DEF NoEnterIn, FirstEnter
<1>3. \/ a = 0 /\ NoEnterIn(b)
      \/ FirstEnter(b, a)
  BY AnchorIs DEF FirstEnter
<1>4. CASE a = 0 /\ NoEnterIn(b)
  <2>1. NoEnterIn(w)
    BY <1>4, EnterBehind
  <2>2. ~FirstEnter(w, e)
    <3> SUFFICES ASSUME FirstEnter(w, e) PROVE FALSE
      OBVIOUS
    <3>1. e \in 1..Len(w) /\ EnterAt(w, e) > 0 /\ EnterAt(w, e) <= 0
      BY <2>1 DEF FirstEnter, NoEnterIn
    <3>2. EnterAt(w, e) \in Int
      BY <1>1, <3>1, OutcomesAreNumbers
    <3> QED BY <3>1, <3>2
  <2> QED BY <1>2, <1>4, <2>2 DEF SameEnter
<1>5. CASE FirstEnter(b, a)
  <2>1. a \in 1..Len(b) /\ EnterAt(b, a) > 0 /\ a \in Nat \ {0} /\ a # 0
    BY <1>1, <1>5 DEF FirstEnter
  <2>2. ~NoEnterIn(w)
    <3> SUFFICES ASSUME NoEnterIn(w) PROVE FALSE
      OBVIOUS
    <3>1. EnterAt(b, a) <= 0
      BY <2>1, EnterBehind DEF NoEnterIn
    <3>2. EnterAt(b, a) \in Int
      BY <1>1, <2>1, OutcomesAreNumbers
    <3> QED BY <2>1, <3>1, <3>2
  <2>3. FirstEnter(w, e) /\ e \in 1..Len(w)
    BY <1>2, <2>2 DEF FirstEnter
  <2>4. e = a + d
    BY <1>5, <2>1, <2>3, EnterBehind
  <2>5. /\ f \in 1..a /\ Leads(b, f, a)
        /\ \A p \in 1..a : Leads(b, p, a) => f <= p
    <3>1. a = AnchorOf(s).off /\ f = FirstOf(s, ts)
      OBVIOUS
    <3> HIDE DEF a, f
    <3> QED BY <2>1, <3>1, FirstIs
  <2>6. EnterAt(w, a + d) > 0
    BY <2>3, <2>4 DEF FirstEnter
  <2>7. g = f + d
    <3>1. g = ChainStart(w, 1, a + d) /\ Behind(b, w, d)
      BY <2>4
    <3> HIDE DEF a, f, b, g
    <3> QED BY <2>1, <2>5, <2>6, <3>1, LeadBehind
  <2>8. f \in Nat \ {0}
    <3> HIDE DEF a, f
    <3> QED BY <2>1, <2>5
  <2> HIDE DEF a, f, b, g
  <2>9. SameEnter(a, e, f, g, d)
    BY <2>1, <2>4, <2>7, <2>8 DEF SameEnter
  <2> QED BY <2>9 DEF a, f, g
<1> QED BY <1>3, <1>4, <1>5

\* The lock or popup of a framer, when it was time to look, and that of all bytes.
SameLock(o, l, here, there, d) ==
  \/ o \in Nat \ {0} /\ l = o + d
  \/ o = 1 /\ l = 0 /\ here /\ (d = 0 => there) /\ (d > 0 => ~there)
  \/ o = 0 /\ l = 0 /\ ~there

LEMMA LocksAgree ==
  ASSUME NEW s \in Framers, Searched(s), NEW ts \in Int, Timed(s, ts), NEW w, NEW d, Behind(s.buf, w, d),
         NEW l, l = FindLock(w, 1).off
  PROVE  SameLock(ScanOf(s, ts).off, l, PopupAnchor(s.buf), PopupAnchor(w), d)
<1> DEFINE b == s.buf
           o == ScanOf(s, ts).off
<1>1. w \in Seq(Nat) /\ b \in Seq(Nat) /\ d \in Nat /\ Len(w) \in Nat /\ Len(b) \in Nat /\ EndOf(b, w, d)
  BY EndSequences DEF Behind
<1>2. \/ l = 0 /\ NoLockIn(w)
      \/ FirstLock(w, l)
  <2> DEFINE from == 1
  <2>1. from \in Nat \ {0} /\ Refused(w, from) /\ l = FindLock(w, from).off
    BY FirstPlaces
  <2> HIDE DEF from
  <2> QED BY <1>1, <2>1, FindLockFinds DEF NoLockIn, FirstLock
<1>3. \/ FirstLock(b, o)
      \/ NoLockIn(b) /\ PopupAnchor(b) /\ o = 1
      \/ NoLockIn(b) /\ ~PopupAnchor(b) /\ o = 0
  BY ScanIs DEF FirstLock
<1>4. d > 0 => ~PopupAnchor(w)
  <2>1. d > 0 => Chain(w, 1, LockK) = Reject
    BY <1>1 DEF Behind
  <2> QED BY <2>1 DEF PopupAnchor
<1>5. d = 0 => b = w
  BY <1>1, SameBytes
<1>6. CASE FirstLock(b, o)
  <2>1. o \in 1..Len(b) /\ Chain(b, o, LockK) > 0 /\ o \in Nat \ {0}
    BY <1>1, <1>6 DEF FirstLock
  <2>2. ~NoLockIn(w)
    <3> SUFFICES ASSUME NoLockIn(w) PROVE FALSE
      OBVIOUS
    <3>1. Chain(b, o, LockK) <= 0
      BY <2>1, LockBehind DEF NoLockIn
    <3>2. Chain(b, o, LockK) \in Int
      BY <1>1, <2>1, OutcomesAreNumbers
    <3> QED BY <2>1, <3>1, <3>2
  <2>3. FirstLock(w, l) /\ l \in 1..Len(w)
    BY <1>2, <2>2 DEF FirstLock
  <2>4. l = o + d
    BY <1>6, <2>1, <2>3, LockBehind
  <2> QED BY <2>1, <2>4 DEF SameLock
<1>7. NoLockIn(b) => l = 0
  <2> SUFFICES ASSUME NoLockIn(b), FirstLock(w, l) PROVE FALSE
    BY <1>2
  <2>1. NoLockIn(w) /\ l \in 1..Len(w) /\ Chain(w, l, LockK) > 0
    BY LockBehind DEF FirstLock
  <2>2. Chain(w, l, LockK) <= 0
    BY <2>1 DEF NoLockIn
  <2>3. Chain(w, l, LockK) \in Int
    BY <1>1, <2>1, OutcomesAreNumbers
  <2> QED BY <2>1, <2>2, <2>3
<1>8. CASE NoLockIn(b) /\ PopupAnchor(b) /\ o = 1
  BY <1>4, <1>5, <1>7, <1>8 DEF SameLock
<1>9. CASE NoLockIn(b) /\ ~PopupAnchor(b) /\ o = 0
  <2>1. ~PopupAnchor(w)
    <3>1. d = 0 \/ d > 0
      BY <1>1
    <3> QED BY <1>4, <1>5, <1>9, <3>1
  <2> QED BY <1>7, <1>9, <2>1 DEF SameLock
<1> QED BY <1>3, <1>6, <1>8, <1>9

\* What the two searches find, in the end and in all bytes.
Alike(a, e, f, g, o, l, here, there, timed, d) ==
  /\ d \in Nat /\ SameEnter(a, e, f, g, d)
  /\ timed => SameLock(o, l, here, there, d)
  /\ ~timed => o = 0 /\ l \in Nat

LEMMA SameChoice ==
  ASSUME NEW a, NEW e, NEW f, NEW g, NEW o, NEW l, NEW here, NEW there, NEW timed, NEW d,
         Alike(a, e, f, g, o, l, here, there, timed, d),
         NEW c, c = (IF a > 0 /\ (o = 0 \/ f < o) THEN f ELSE o), c # 0,
         NEW x, x = Begin(l, there, e, g)
  PROVE  \/ x \in 1..(c + d) /\ (timed => x = c + d)
         \/ d > 0 /\ c = 1 /\ here
<1>0. /\ d \in Nat /\ SameEnter(a, e, f, g, d)
      /\ timed => SameLock(o, l, here, there, d)
      /\ ~timed => o = 0 /\ l \in Nat
  BY DEF Alike
<1>1. CASE ~timed
  <2>1. a \in Nat \ {0} /\ e = a + d /\ f \in Nat \ {0} /\ g = f + d /\ c = f
    BY <1>0, <1>1 DEF SameEnter
  <2>2. x = g \/ (x \in Nat \ {0} /\ x <= g)
    <3> DEFINE off == IF l = 0 /\ there THEN 1 ELSE l
    <3>1. x = IF e > 0 /\ (off = 0 \/ g < off) THEN g ELSE off
      BY DEF Begin
    <3>2. off \in Nat /\ e > 0 /\ g \in Nat
      BY <1>0, <1>1, <2>1
    <3> HIDE DEF off
    <3> QED BY <3>1, <3>2
  <2> QED BY <1>0, <1>1, <2>1, <2>2
<1>2. CASE timed
  <2>1. SameLock(o, l, here, there, d)
    BY <1>0, <1>2
  <2>2. CASE o \in Nat \ {0} /\ l = o + d
    <3>1. x = IF e > 0 /\ g < l THEN g ELSE l
      BY <1>0, <2>2 DEF Begin
    <3> QED BY <1>0, <2>2, <3>1 DEF SameEnter
  <2>3. CASE o = 1 /\ l = 0 /\ here /\ (d = 0 => there) /\ (d > 0 => ~there)
    <3>1. c = 1
      BY <1>0, <2>3 DEF SameEnter
    <3>2. CASE d = 0
      <4>1. x = IF e > 0 /\ g < 1 THEN g ELSE 1
        BY <2>3, <3>2 DEF Begin
      <4> QED BY <1>0, <3>1, <3>2, <4>1 DEF SameEnter
    <3> QED BY <1>0, <2>3, <3>1, <3>2
  <2>4. CASE o = 0 /\ l = 0 /\ ~there
    <3>1. x = IF e > 0 THEN g ELSE 0
      BY <2>4 DEF Begin
    <3> QED BY <1>0, <2>4, <3>1 DEF SameEnter
  <2> QED BY <2>1, <2>2, <2>3, <2>4 DEF SameLock
<1> QED BY <1>1, <1>2

\* Where a framer locks is where all the bytes lead to.
LEMMA ReplayAgrees ==
  ASSUME NEW s \in Framers, Searched(s), NEW ts \in Int, NEW w, NEW d, Behind(s.buf, w, d),
         NEW c, c = Chosen(s, ts), c # 0, NEW x, x = FindBoundary(w)
  PROVE  \/ x \in 1..(c + d) /\ (Timed(s, ts) => x = c + d)
         \/ d > 0 /\ c = 1 /\ PopupAnchor(s.buf)
<1> DEFINE a == AnchorOf(s).off
           e == EnterAnchor(w, 1).off
           f == FirstOf(s, ts)
           g == ChainStart(w, 1, e)
           o == ScanOf(s, ts).off
           l == FindLock(w, 1).off
           here == PopupAnchor(s.buf)
           there == PopupAnchor(w)
           timed == Timed(s, ts)
<1>1. d \in Nat /\ w \in Seq(Nat)
  BY EndSequences DEF Behind
<1>2. SameEnter(a, e, f, g, d)
  BY AnchorsAgree
<1>3. timed => SameLock(o, l, here, there, d)
  BY LocksAgree
<1>4. ~timed => o = 0 /\ l \in Nat
  <2>1. l \in Nat
    <3> DEFINE from == 1
    <3>1. from \in Nat \ {0} /\ l = FindLock(w, from).off
      OBVIOUS
    <3> HIDE DEF from, l
    <3>2. l = 0 \/ l \in from..Len(w)
      BY <1>1, <3>1, FindLockIs
    <3>3. Len(w) \in Nat
      BY <1>1
    <3> QED BY <3>1, <3>2, <3>3
  <2>2. ~timed => o = 0
    BY DEF ScanOf
  <2> QED BY <2>1, <2>2
<1>5. c = IF a > 0 /\ (o = 0 \/ f < o) THEN f ELSE o
  BY DEF Chosen
<1>6. x = Begin(l, there, e, g)
  BY BoundaryIs
<1> HIDE DEF a, e, f, g, o, l, here, there, timed
<1>8. Alike(a, e, f, g, o, l, here, there, timed, d)
  BY <1>1, <1>2, <1>3, <1>4 DEF Alike
<1>7. \/ x \in 1..(c + d) /\ (timed => x = c + d)
      \/ d > 0 /\ c = 1 /\ here
  BY <1>5, <1>6, <1>8, SameChoice
<1> QED BY <1>7 DEF timed, here

\* What OfflineAgrees says of a step.
Replays ==
  told = <<>> /\ told' # <<>> /\ origin' = 1 =>
    LET p == told'[1].at
        replayed == FindBoundary(SubSeq(stream.bytes, 1, fed'))
        taken == Take(framer, SubSeq(stream.bytes, fed + 1, fed'))
    IN  \/ /\ replayed \in 1..p
           /\ ScanDue(taken) \/ clock - taken.last >= MaxWait => replayed = p
        \/ p > 1 /\ p = framer.at /\ PopupAnchor(taken.buf)

LEMMA DeliverReplays ==
  ASSUME FramerInv, SearchInv, NEW p, NEW k, NEW anew, Fits(p, k, anew), Deliver(p, k, anew)
  PROVE  Replays
<1> SUFFICES ASSUME told = <<>>, told' # <<>>, origin' = 1 PROVE Replays
  BY DEF Replays
<1> DEFINE to == p + k - 1
           w == Content(1, to)
<1>1. PICK s, t, r : Given(s, t, r, p, k, anew)
  BY DeliverGives DEF Fits
<1>2. s = framer /\ p = fed + 1 /\ origin = 1
  BY <1>1, GoesOn
<1>3. ~framer.locked /\ \A q \in 1..(framer.at - 1) : Chain(Content(1, fed), q, LockK) = Reject
  BY <1>2 DEF SearchInv
<1>4. /\ FedSearch(r, t, framer.locked, framer.last, clock) /\ fed' = to
      /\ told' = told \o r.out /\ r.out \in Seq(Reports)
      /\ t = Take(framer, Content(p, to)) /\ t \in Framers /\ Reads(t, to) /\ Sound(t)
      /\ ~t.locked /\ t.at = framer.at
  BY <1>1, <1>2, <1>3 DEF Given
<1>5. to \in Nat /\ to <= Len(stream.bytes) /\ IsStream(stream) /\ fed \in Nat /\ fed <= to
  BY <1>2 DEF Fits, FramerInv
<1> HIDE DEF to
<1>6. told' = r.out /\ r.out # <<>>
  <2> DEFINE b == r.out
  <2>1. b \in Seq(Reports) /\ told' = <<>> \o b
    BY <1>4
  <2> HIDE DEF b
  <2>2. <<>> \o b = b
    BY <2>1
  <2> QED BY <2>1, <2>2 DEF b
<1>7. Search(t, clock).locked /\ told'[1].at = Search(t, clock).at
  BY <1>3, <1>4, <1>6 DEF FedSearch
<1> DEFINE c == Chosen(t, clock)
           d == t.at - 1
           x == FindBoundary(w)
<1>8. Searched(t) /\ t.since >= 0
  BY <1>4 DEF Sound
<1>9. clock \in Int
  BY DEF FramerInv
<1>10. c \in 1..Len(t.buf) /\ Search(t, clock).at = t.at + c - 1
  BY <1>4, <1>7, <1>8, <1>9, SearchLocks
<1>11. Behind(t.buf, w, d)
  <2>1. EndOf(t.buf, w, d)
    BY <1>4, <1>5, ReadsEnd
  <2>2. ASSUME NEW q \in 1..d PROVE Chain(w, q, LockK) = Reject
    <3>1. q \in 1..(framer.at - 1) /\ q \in Nat \ {0}
      <4>1. t.at \in Nat
        BY <1>4, FieldsAre
      <4> QED BY <1>4, <4>1
    <3>2. Chain(Content(1, fed), q, LockK) = Reject
      BY <1>3, <3>1
    <3>3. StartOf(Content(1, fed), w)
      BY <1>5, ContentGrows
    <3>4. q \in Outcomes /\ LockK \in Nat /\ Reject # Pending
      BY <3>1, FramerConstants DEF Outcomes, Reject, Pending
    <3> HIDE DEF w
    <3> QED BY <3>2, <3>3, <3>4, ChainGrows
  <2> QED BY <2>1, <2>2 DEF Behind
<1>12. c \in Nat \ {0} /\ d \in Nat /\ told'[1].at = c + d /\ framer.at = d + 1
  <2>1. t.at \in Nat \ {0} /\ Len(t.buf) \in Nat
    BY <1>4, FieldsAre
  <2> HIDE DEF c
  <2> QED BY <1>4, <1>7, <1>10, <2>1
<1>13. \/ x \in 1..(c + d) /\ (Timed(t, clock) => x = c + d)
       \/ d > 0 /\ c = 1 /\ PopupAnchor(t.buf)
  <2>1. c = Chosen(t, clock) /\ c # 0 /\ x = FindBoundary(w)
    BY <1>12
  <2> HIDE DEF c, x, d, w
  <2> QED BY <1>4, <1>8, <1>9, <1>11, <2>1, ReplayAgrees
<1>14. /\ x = FindBoundary(SubSeq(stream.bytes, 1, fed'))
       /\ t = Take(framer, SubSeq(stream.bytes, fed + 1, fed'))
  BY <1>2, <1>4 DEF Content
<1> HIDE DEF c, x, d, w
<1> QED BY <1>12, <1>13, <1>14 DEF Replays, Timed

-----------------------------------------------------------------------------
(***************************************************************************)
(* The steps of a stream in pieces.                                        *)
(***************************************************************************)
LEMMA StreamDelivers ==
  ASSUME FramerInv, SearchInv, NEW p, NEW k, NEW anew, Fits(p, k, anew), Deliver(p, k, anew)
  PROVE  SearchInv' /\ Completes /\ Replays
  BY DeliverKeepsSearch, DeliverCompletes, DeliverReplays

LEMMA StillDelivers ==
  ASSUME SearchInv, stream' = stream, fed' = fed, framer' = framer, told' = told, origin' = origin
  PROVE  SearchInv' /\ Completes /\ Replays
  BY SearchStill DEF Completes, Replays

LEMMA SearchInvStep ==
  ASSUME FramerInv, SearchInv, [SNext]_svars
  PROVE  SearchInv' /\ Completes /\ Replays
<1> DEFINE l == Len(stream.bytes)
<1>1. fed \in Nat /\ l \in Nat /\ Left = l - fed
  BY DEF FramerInv, IsStream, Left
<1>2. MaxPiece \in Nat /\ MaxHole \in Nat
  BY FramerAssumption
<1>3. ASSUME NEW n \in 1..MaxPiece, Piece(n) PROVE SearchInv' /\ Completes /\ Replays
  <2> DEFINE p == fed + 1
  <2>1. n <= Left /\ Deliver(p, n, FALSE)
    BY <1>3 DEF Piece
  <2>2. p \in Nat \ {0} /\ n \in Nat \ {0} /\ p + n - 1 <= l /\ fed + 1 <= p /\ p = fed + 1
    <3> HIDE DEF l
    <3> QED BY <1>1, <1>2, <2>1
  <2> HIDE DEF p
  <2>3. Fits(p, n, FALSE)
    BY <2>2 DEF Fits
  <2> QED BY <2>1, <2>3, StreamDelivers
<1>4. ASSUME NEW gap \in 1..MaxHole, NEW n \in 1..MaxPiece, Hole(gap, n)
      PROVE  SearchInv' /\ Completes /\ Replays
  <2> DEFINE p == fed + gap + 1
  <2>1. gap + n <= Left /\ Deliver(p, n, TRUE)
    BY <1>4 DEF Hole
  <2>2. p \in Nat \ {0} /\ n \in Nat \ {0} /\ p + n - 1 <= l /\ fed + 1 <= p
    <3> HIDE DEF l
    <3> QED BY <1>1, <1>2, <2>1
  <2> HIDE DEF p
  <2>3. Fits(p, n, TRUE)
    BY <2>2 DEF Fits
  <2> QED BY <2>1, <2>3, StreamDelivers
<1>5. CASE Wait
  BY <1>5, StillDelivers DEF Wait
<1>6. CASE UNCHANGED svars
  BY <1>6, StillDelivers DEF svars
<1> QED BY <1>3, <1>4, <1>5, <1>6 DEF SNext

\* The search remembers nothing but what it may rely on (_scan_from, _anchor_from and
\* _trim_lock_window of StreamFramer), and every byte it gave up was no beginning.
THEOREM SearchInvariant == SSpec => []SearchInv
<1>1. SInit => SearchInv
  BY SearchInvInit DEF SInit
<1>2. FramerInv /\ SearchInv /\ [SNext]_svars => SearchInv'
  BY SearchInvStep
<1> QED BY <1>1, <1>2, FramerInvariant, PTL DEF SSpec

\* So a search that ends without a lock has missed none, whatever the pieces, and the
\* bound behind it never bites (feed of StreamFramer).
THEOREM SearchMissesNothing == SSpec => SearchIsComplete
<1>1. FramerInv /\ SearchInv /\ [SNext]_svars => [Completes]_svars
  BY SearchInvStep
<1> QED BY <1>1, FramerInvariant, SearchInvariant, PTL DEF SSpec, SearchIsComplete, Completes

\* And the offline tools, which search all the bytes at once (find_boundary), begin
\* where the framer began, but for a popup behind bytes it has dropped.
THEOREM ReplayBeginsThere == SSpec => OfflineAgrees
<1>1. FramerInv /\ SearchInv /\ [SNext]_svars => [Replays]_svars
  BY SearchInvStep
<1> QED BY <1>1, FramerInvariant, SearchInvariant, PTL DEF SSpec, OfflineAgrees, Replays

-----------------------------------------------------------------------------
(***************************************************************************)
(* The same behind the decoder, where the segments are put together.       *)
(***************************************************************************)
\* The search behind the decoder.
LEMMA SegmentSearches ==
  ASSUME StreamInv, SearchInv, source = "segments", FeedSegment, Handed
  PROVE  SearchInv' /\ Completes /\ Replays
<1>1. FInv /\ FramerInv /\ WithinLength /\ Len(stream.bytes) = Length /\ fed = FedTo /\ fed \in Nat
  BY DEF StreamInv, InStep, FramerInv
<1>2. WithinLength' /\ (out' = out \/ \E p, k, anew : Hands(p, k, anew))
  BY <1>1, SegmentHands
<1>3. CASE out' = out
  BY <1>3, StillDelivers DEF Handed, svars
<1>4. CASE out' # out
  <2>1. PICK p, k, anew : Hands(p, k, anew)
    BY <1>2, <1>4
  <2>2. anew = (out = <<>> \/ out'[1] # out[1]) /\ anew \in BOOLEAN
    BY <2>1 DEF Hands
  <2>3. Deliver(p, k, anew)
    BY <1>4, <2>1, <2>2 DEF Handed, Hands
  <2>4. p \in Nat \ {0} /\ k \in Nat \ {0} /\ fed + 1 <= p /\ (~anew => p = fed + 1)
        /\ p + k - 1 <= Len(stream.bytes)
    BY <1>1, <2>1 DEF Hands
  <2>5. Fits(p, k, anew)
    BY <2>2, <2>4 DEF Fits
  <2> QED BY <1>1, <2>3, <2>5, StreamDelivers
<1> QED BY <1>3, <1>4

LEMMA CapturedSearchStep ==
  ASSUME StreamInv, SearchInv, [StreamNext]_allvars
  PROVE  SearchInv' /\ Completes /\ Replays
<1>1. FramerInv
  BY DEF StreamInv
<1>2. CASE source = "pieces" /\ SNext /\ UNCHANGED <<dvars, source>>
  BY <1>1, <1>2, SearchInvStep
<1>3. CASE source = "segments" /\ FeedSegment /\ Handed /\ UNCHANGED source
  BY <1>3, SegmentSearches
<1>4. CASE source = "segments" /\ Tick /\ clock' = now' /\ UNCHANGED <<stream, fed, framer, told, origin, source>>
  BY <1>4, StillDelivers
<1>5. CASE UNCHANGED allvars
  BY <1>5, StillDelivers DEF allvars, svars
<1> QED
  BY <1>2, <1>3, <1>4, <1>5 DEF StreamNext

\* Behind the decoder, too, what the search remembers is sound.
THEOREM CapturedSearchInvariant == StreamSpec => []SearchInv
<1>1. StreamInit => SearchInv
  BY SearchInvInit DEF StreamInit, SInit
<1>2. StreamInv /\ SearchInv /\ [StreamNext]_allvars => SearchInv'
  BY CapturedSearchStep
<1> QED BY <1>1, <1>2, DecoderFeedsFramer, PTL DEF StreamSpec

\* So of a captured flow, whatever becomes of its segments, no beginning is missed.
THEOREM CapturedSearchMissesNothing == StreamSpec => SearchIsComplete
<1>1. StreamInv /\ SearchInv /\ [StreamNext]_allvars => [Completes]_svars
  BY CapturedSearchStep
<1> QED
  BY <1>1, DecoderFeedsFramer, CapturedSearchInvariant, PTL DEF StreamSpec, SearchIsComplete, Completes

\* And a captured flow is replayed from where it was followed live.
THEOREM CapturedReplayBeginsThere == StreamSpec => OfflineAgrees
<1>1. StreamInv /\ SearchInv /\ [StreamNext]_allvars => [Replays]_svars
  BY CapturedSearchStep
<1> QED
  BY <1>1, DecoderFeedsFramer, CapturedSearchInvariant, PTL DEF StreamSpec, OfflineAgrees, Replays

=============================================================================
