------------------------- MODULE FlowDecoderProofs --------------------------
(***************************************************************************)
(* What the decoder of a flow promises for a stream of any length, wherever *)
(* its numbers begin and wrap around, however it is cut into segments, and *)
(* for any budgets.                                                        *)
(***************************************************************************)
EXTENDS FlowDecoder, WellFoundedInduction, TLAPS

Segments == [seq : Int, data : Seq(Int)]

DecoderStates ==
  [next : Int, pending : Seq(Segments), bytes : Int, gap : Int \cup {Unset}, out : Seq(Int)]

\* The position behind a piece of the stream.
End(piece) == Last(piece) + 1

\* A piece of the stream, and the number of the byte behind it.
Flows(s) ==
  /\ s \in DecoderStates
  /\ s.out # <<>> /\ \A i \in 1..(Len(s.out) - 1) : s.out[i + 1] = s.out[i] + 1
  /\ s.next = SeqNo(End(s.out))

At(seg) == seg.data[1]

IsSegment(seg) ==
  /\ seg \in Segments /\ Len(seg.data) \in 1..MaxSegment
  /\ seg.data = Bytes(At(seg), Len(seg.data)) /\ seg.seq = SeqNo(At(seg))

\* What is held back lies ahead of the position p, within the window, and is
\* counted right and within the budget.
Holds(s, p) ==
  /\ \A i \in 1..Len(s.pending) :
       IsSegment(s.pending[i]) /\ At(s.pending[i]) \in (p + 1)..(p + Window - 1)
  /\ s.bytes = Held(s.pending) /\ s.bytes <= BudgetBytes

\* In the middle of a drain, which began where everything pending lay ahead of
\* p: the stream has got on, and cannot have got far.
Draining(s, p) ==
  /\ Flows(s) /\ Holds(s, p)
  /\ End(s.out) \in p..(p + Window + MaxSegment)

\* A byte was fed, or is held back.
Has(seg, b) == At(seg) <= b /\ b < At(seg) + Len(seg.data)

Covers(s, b) ==
  b < End(s.out) \/ \E i \in 1..Len(s.pending) : Has(s.pending[i], b)

FInv ==
  /\ dec \in [next : Int \cup {Unset}, pending : Seq(Segments), bytes : Int,
              gap : Int \cup {Unset}]
  /\ out \in Seq(Int) /\ now \in Int /\ arrived \subseteq Int
  /\ dec.gap = Unset <=> dec.pending = <<>>
  /\ dec.next = Unset =>
       dec.pending = <<>> /\ dec.bytes = 0 /\ out = <<>> /\ arrived = {}
  /\ dec.next # Unset =>
       /\ Flows(State) /\ Holds(State, End(out))
       /\ \A b \in arrived : Covers(State, b)
-----------------------------------------------------------------------------
(***************************************************************************)
(* Numbers that wrap around.                                               *)
(***************************************************************************)
\* Division with remainder, for a divisor that is no numeral.
LEMMA Division ==
  ASSUME NEW m \in Nat \ {0}, NEW x \in Int
  PROVE  \E k \in Int : x = k * m + (x % m) /\ x % m \in 0..(m - 1)
<1>1. x \div m \in Int /\ x = (x \div m) * m + (x % m) /\ x % m \in 0..(m - 1)
  OBVIOUS
<1> QED
  BY <1>1

\* The remainder is the only one.
LEMMA OneRemainder ==
  ASSUME NEW m \in Nat \ {0}, NEW k \in Int, NEW j \in Int,
         NEW r \in 0..(m - 1), NEW q \in 0..(m - 1), k * m + r = j * m + q
  PROVE  r = q
<1>1. CASE k < j
  <2>1. k * m + m <= j * m
    BY <1>1
  <2>2. k * m \in Int /\ j * m \in Int
    OBVIOUS
  <2> QED
    BY <2>1, <2>2
<1>2. CASE j < k
  <2>1. j * m + m <= k * m
    BY <1>2
  <2>2. k * m \in Int /\ j * m \in Int
    OBVIOUS
  <2> QED
    BY <2>1, <2>2
<1>3. CASE j = k
  BY <1>3
<1> QED
  BY <1>1, <1>2, <1>3

LEMMA Remainder ==
  ASSUME NEW m \in Nat \ {0}, NEW k \in Int, NEW r \in 0..(m - 1), NEW x \in Int, x = k * m + r
  PROVE  x % m = r
<1>1. PICK j \in Int : x = j * m + (x % m) /\ x % m \in 0..(m - 1)
  BY Division
<1> QED
  BY <1>1, OneRemainder

LEMMA ModIs == Mod \in Nat \ {0} /\ Start \in 0..(Mod - 1)
  BY DecoderAssumption

LEMMA SeqNoIs ==
  ASSUME NEW p \in Int
  PROVE  SeqNo(p) \in 0..(Mod - 1) /\ \E k \in Int : Start + p = k * Mod + SeqNo(p)
<1>1. Start + p \in Int
  BY ModIs
<1> QED
  BY <1>1, ModIs, Division DEF SeqNo

\* The number behind a piece is the number of the byte that follows.
LEMMA SeqNoMoves ==
  ASSUME NEW p \in Int, NEW n \in Int
  PROVE  (SeqNo(p) + n) % Mod = SeqNo(p + n)
<1>1. PICK k \in Int : Start + p = k * Mod + SeqNo(p)
  BY SeqNoIs
<1>2. PICK j \in Int : Start + (p + n) = j * Mod + SeqNo(p + n)
  BY SeqNoIs
<1>3. SeqNo(p) \in 0..(Mod - 1) /\ SeqNo(p + n) \in 0..(Mod - 1)
  BY SeqNoIs
<1>4. SeqNo(p) + n = (j - k) * Mod + SeqNo(p + n)
  <2>1. (j - k) * Mod = j * Mod - k * Mod /\ j * Mod \in Int /\ k * Mod \in Int
    BY ModIs
  <2> QED
    BY <1>1, <1>2, <1>3, <2>1, ModIs
<1> DEFINE c == j - k
           x == SeqNo(p) + n
           r == SeqNo(p + n)
<1>5. c \in Int /\ x \in Int /\ x = c * Mod + r /\ r \in 0..(Mod - 1)
  BY <1>3, <1>4
<1> HIDE DEF c, x, r
<1>6. x % Mod = r
  BY <1>5, ModIs, Remainder
<1> QED
  BY <1>6 DEF x, r

\* _seq_delta is the distance of two positions that are not half a turn apart.
LEMMA DeltaIsDistance ==
  ASSUME NEW p \in Int, NEW q \in Int, 2 * (p - q) < Mod, 2 * (q - p) < Mod
  PROVE  Delta(SeqNo(p), SeqNo(q)) = p - q
<1>1. PICK k \in Int : Start + p = k * Mod + SeqNo(p)
  BY SeqNoIs
<1>2. PICK j \in Int : Start + q = j * Mod + SeqNo(q)
  BY SeqNoIs
<1>3. SeqNo(p) \in 0..(Mod - 1) /\ SeqNo(q) \in 0..(Mod - 1)
  BY SeqNoIs
<1> DEFINE x == SeqNo(p) - SeqNo(q)
           c == j - k
           r == p - q
<1>4. x \in Int /\ c \in Int /\ x = c * Mod + (p - q)
  <2>1. (j - k) * Mod = j * Mod - k * Mod /\ j * Mod \in Int /\ k * Mod \in Int
    BY ModIs
  <2> QED
    BY <1>1, <1>2, <1>3, <2>1, ModIs
<1>5. Mod \div 2 \in Int /\ 2 * (Mod \div 2) <= Mod /\ Mod <= 2 * (Mod \div 2) + 1
  BY ModIs
<1>6. CASE p >= q
  <2>1. p - q \in 0..(Mod - 1)
    BY <1>6, ModIs
  <2>2. x % Mod = r
    <3> HIDE DEF x, c
    <3>1. r \in 0..(Mod - 1) /\ x = c * Mod + r
      BY <1>4, <2>1
    <3> HIDE DEF r
    <3> QED
      BY <1>4, <3>1, ModIs, Remainder
  <2>3. ~(p - q > Mod \div 2)
    BY <1>5, ModIs
  <2> QED
    BY <2>2, <2>3 DEF Delta
<1>7. CASE p < q
  <2>1. p - q + Mod \in 0..(Mod - 1)
    BY <1>7, ModIs
  <2> DEFINE e == c - 1
             u == r + Mod
  <2>2. x = e * Mod + u /\ e \in Int /\ u \in 0..(Mod - 1)
    <3>1. e * Mod = c * Mod - Mod /\ c * Mod \in Int
      BY <1>4, ModIs
    <3> HIDE DEF x, c
    <3> QED
      BY <1>4, <2>1, <3>1, ModIs
  <2>3. x % Mod = u
    <3> HIDE DEF x, e, u
    <3> QED
      BY <1>4, <2>2, ModIs, Remainder
  <2>4. p - q + Mod > Mod \div 2
    BY <1>5, <1>7, ModIs
  <2> QED
    BY <2>3, <2>4, ModIs DEF Delta
<1> QED
  BY <1>6, <1>7
-----------------------------------------------------------------------------
(***************************************************************************)
(* Pieces of the stream.                                                   *)
(***************************************************************************)
LEMMA BytesAre ==
  ASSUME NEW at \in Int, NEW n \in Nat
  PROVE  /\ Bytes(at, n) \in Seq(Int) /\ Len(Bytes(at, n)) = n
         /\ \A i \in 1..n : Bytes(at, n)[i] = at + i - 1
<1>1. DOMAIN Bytes(at, n) = 1..n /\ \A i \in 1..n : Bytes(at, n)[i] = at + i - 1
  BY DEF Bytes
<1>2. Bytes(at, n) \in Seq(Int)
  BY DEF Bytes
<1> QED
  BY <1>1, <1>2

LEMMA SetOfBytes ==
  ASSUME NEW at \in Int, NEW n \in Nat
  PROVE  ToSet(Bytes(at, n)) = {b \in Int : at <= b /\ b < at + n}
<1>1. DOMAIN Bytes(at, n) = 1..n /\ \A i \in 1..n : Bytes(at, n)[i] = at + i - 1
  BY DEF Bytes
<1>2. ASSUME NEW b \in Int, at <= b, b < at + n PROVE b \in ToSet(Bytes(at, n))
  <2>1. b - at + 1 \in 1..n /\ Bytes(at, n)[b - at + 1] = b
    BY <1>1, <1>2
  <2> QED
    BY <1>1, <2>1 DEF ToSet
<1>3. \A b \in ToSet(Bytes(at, n)) : b \in Int /\ at <= b /\ b < at + n
  BY <1>1 DEF ToSet
<1> QED
  BY <1>2, <1>3

LEMMA Concat ==
  ASSUME NEW S, NEW a \in Seq(S), NEW b \in Seq(S)
  PROVE  /\ a \o b \in Seq(S) /\ Len(a \o b) = Len(a) + Len(b)
         /\ \A k \in 1..Len(a) : (a \o b)[k] = a[k]
         /\ \A k \in 1..Len(b) : (a \o b)[Len(a) + k] = b[k]
  OBVIOUS

LEMMA Cut ==
  ASSUME NEW S, NEW s \in Seq(S), NEW m \in Nat, NEW n \in Nat, n <= Len(s), m <= n
  PROVE  /\ SubSeq(s, m + 1, n) \in Seq(S) /\ Len(SubSeq(s, m + 1, n)) = n - m
         /\ \A i \in 1..(n - m) : SubSeq(s, m + 1, n)[i] = s[m + i]
<1>1. Len(s) \in Nat
  OBVIOUS
<1>2. \A i \in (m + 1)..n : i \in 1..Len(s)
  BY <1>1
<1>3. SubSeq(s, m + 1, n) \in Seq(S) /\ Len(SubSeq(s, m + 1, n)) = n - m
  BY <1>1, <1>2
<1> QED
  BY <1>1, <1>3

\* What was not fed of a segment that begins behind the stream or at its end.
LEMMA UnfedIs ==
  ASSUME NEW at \in Int, NEW n \in Nat, NEW p \in Int, at <= p
  PROVE  Unfed(Bytes(at, n), at - p) = Bytes(p, IF p - at >= n THEN 0 ELSE at + n - p)
<1>0. Len(Bytes(at, n)) = n /\ Bytes(at, n) \in Seq(Int)
  BY BytesAre
<1>1. CASE p = at
  <2>1. Unfed(Bytes(at, n), at - p) = Bytes(at, n)
    BY <1>1 DEF Unfed
  <2>2. (IF p - at >= n THEN 0 ELSE at + n - p) = n
    BY <1>1
  <2> QED
    BY <1>1, <2>1, <2>2
<1>2. CASE p > at /\ p - at >= n
  <2>1. Unfed(Bytes(at, n), at - p) = <<>>
    BY <1>0, <1>2 DEF Unfed
  <2>2. Bytes(p, 0) = <<>>
    <3>1. Bytes(p, 0) \in Seq(Int) /\ Len(Bytes(p, 0)) = 0
      BY BytesAre
    <3> QED
      BY <3>1
  <2> QED
    BY <1>2, <2>1, <2>2
<1>3. CASE p > at /\ p - at < n
  <2> DEFINE k == p - at
             s == SubSeq(Bytes(at, n), k + 1, n)
             t == Bytes(p, n - k)
  <2>1. Unfed(Bytes(at, n), at - p) = s
    <3>1. 1 - (at - p) = k + 1 /\ ~(at - p >= 0) /\ ~(-(at - p) >= n)
      BY <1>3
    <3> QED
      BY <1>0, <3>1 DEF Unfed
  <2>2. k \in Nat /\ k <= n /\ n - k \in Nat /\ at + n - p = n - k
    BY <1>3
  <2>3. s \in Seq(Int) /\ Len(s) = n - k /\ \A i \in 1..(n - k) : s[i] = Bytes(at, n)[k + i]
    <3> HIDE DEF k
    <3> QED
      BY <1>0, <2>2, Cut
  <2>4. t \in Seq(Int) /\ Len(t) = n - k /\ \A i \in 1..(n - k) : t[i] = p + i - 1
    <3> HIDE DEF k
    <3> QED
      BY <2>2, BytesAre
  <2>5. \A i \in 1..(n - k) : s[i] = t[i]
    <3>1. \A i \in 1..(n - k) : k + i \in 1..n /\ at + (k + i) - 1 = p + i - 1
      BY <2>2
    <3>2. \A i \in 1..(n - k) : Bytes(at, n)[k + i] = at + (k + i) - 1
      BY <3>1, BytesAre
    <3> HIDE DEF s, t, k
    <3> QED
      BY <2>3, <2>4, <3>1, <3>2
  <2>6. s = t
    <3> HIDE DEF s, t, k
    <3> QED
      BY <2>2, <2>3, <2>4, <2>5
  <2>7. (IF p - at >= n THEN 0 ELSE at + n - p) = n - k
    BY <1>3
  <2> QED
    BY <2>1, <2>6, <2>7
<1> QED
  BY <1>1, <1>2, <1>3

\* Feeding what follows lengthens the piece.
LEMMA FeedIs ==
  ASSUME NEW s, Flows(s), NEW n \in Nat
  PROVE  LET t == Feed(s, Bytes(End(s.out), n))
         IN  /\ Flows(t) /\ End(t.out) = End(s.out) + n /\ t.out[1] = s.out[1]
             /\ t.pending = s.pending /\ t.bytes = s.bytes /\ t.gap = s.gap
<1> DEFINE e == End(s.out)
           d == Bytes(e, n)
           o == s.out \o d
           t == Feed(s, d)
           m == Len(s.out)
<1>1. /\ s \in DecoderStates /\ s.out \in Seq(Int) /\ m \in Nat \ {0}
      /\ e \in Int /\ e = s.out[m] + 1
  BY DEF Flows, DecoderStates, End, Last
<1>2. d \in Seq(Int) /\ Len(d) = n /\ \A i \in 1..n : d[i] = e + i - 1
  <2> HIDE DEF e
  <2> QED
    BY <1>1, BytesAre
<1> HIDE DEF d
<1>3. /\ o \in Seq(Int) /\ Len(o) = m + n
      /\ \A k \in 1..m : o[k] = s.out[k]
      /\ \A k \in 1..n : o[m + k] = d[k]
  <2> DEFINE a == s.out
  <2>1. a \in Seq(Int)
    BY <1>1
  <2> HIDE DEF a
  <2>2. d \in Seq(Int) /\ Len(d) = n
    BY <1>2
  <2>3. /\ a \o d \in Seq(Int) /\ Len(a \o d) = Len(a) + Len(d)
        /\ \A k \in 1..Len(a) : (a \o d)[k] = a[k]
        /\ \A k \in 1..Len(d) : (a \o d)[Len(a) + k] = d[k]
    <3>1. d \in Seq(Int)
      BY <2>2
    <3>2. a \o d \in Seq(Int)
      BY <2>1, <3>1, Concat
    <3>3. Len(a \o d) = Len(a) + Len(d)
      BY <2>1, <3>1, Concat
    <3>4. \A k \in 1..Len(a) : (a \o d)[k] = a[k]
      BY <2>1, <3>1, Concat
    <3>5. \A k \in 1..Len(d) : (a \o d)[Len(a) + k] = d[k]
      BY <2>1, <3>1, Concat
    <3> QED BY <3>2, <3>3, <3>4, <3>5
  <2> QED
    BY <2>2, <2>3 DEF a
<1>4. t = [s EXCEPT !.out = o, !.next = (s.next + n) % Mod]
  BY <1>1, <1>2 DEF Feed, DecoderStates
<1> HIDE DEF o, t
<1>5. /\ t.out = o /\ t.next = (s.next + n) % Mod
      /\ t.pending = s.pending /\ t.bytes = s.bytes /\ t.gap = s.gap
  BY <1>1, <1>4 DEF DecoderStates
<1>6. t.next = SeqNo(e + n) /\ t.next \in Int
  <2>1. s.next = SeqNo(e)
    BY DEF Flows
  <2> HIDE DEF e
  <2>2. e \in Int /\ n \in Int /\ e + n \in Int
    BY <1>1
  <2>3. (SeqNo(e) + n) % Mod = SeqNo(e + n)
    BY <2>2, SeqNoMoves
  <2>4. SeqNo(e + n) \in 0..(Mod - 1)
    BY <2>2, SeqNoIs
  <2> QED
    BY <1>5, <2>1, <2>3, <2>4
<1>7. o # <<>> /\ o[m + n] = e + n - 1
  <2>1. CASE n = 0
    BY <1>1, <1>3, <2>1
  <2>2. CASE n > 0
    <3>1. n \in 1..n /\ m + n # 0
      BY <1>1, <2>2
    <3> QED
      BY <1>1, <1>2, <1>3, <3>1
  <2> QED
    BY <2>1, <2>2
<1>8. End(o) = e + n
  <2>1. Last(o) = o[m + n]
    BY <1>3 DEF Last
  <2>2. End(o) = (e + n - 1) + 1
    <3> HIDE DEF e, m
    <3> QED BY <1>7, <2>1 DEF End
  <2>3. e \in Int
    BY <1>1
  <2> HIDE DEF e
  <2> QED
    BY <2>2, <2>3
<1>9. ASSUME NEW i \in 1..(Len(o) - 1) PROVE o[i + 1] = o[i] + 1
  <2>1. CASE i < m
    <3>1. i \in 1..m /\ i + 1 \in 1..m /\ i \in 1..(m - 1)
      BY <1>1, <1>3, <2>1
    <3>2. s.out[i + 1] = s.out[i] + 1
      BY <3>1 DEF Flows
    <3> QED
      BY <1>3, <3>1, <3>2
  <2>2. CASE i = m
    <3>1. 1 \in 1..n /\ m \in 1..m
      BY <1>1, <1>3, <1>9, <2>2
    <3>2. o[m + 1] = d[1] /\ o[m] = s.out[m] /\ d[1] = e + 1 - 1
      <4> HIDE DEF m, e
      <4> QED
        BY <1>2, <1>3, <3>1
    <3> HIDE DEF m, e
    <3> QED
      BY <1>1, <2>2, <3>2
  <2>3. CASE i > m
    <3> DEFINE k == i - m
    <3>1. k \in 1..n /\ k + 1 \in 1..n /\ i = m + k /\ i + 1 = m + (k + 1)
      <4>1. m \in Nat /\ i \in 1..(m + n - 1)
        BY <1>1, <1>3, <1>9
      <4> HIDE DEF m
      <4> QED BY <2>3, <4>1
    <3> HIDE DEF k, e, m
    <3>2. o[i] = d[k] /\ o[i + 1] = d[k + 1] /\ d[k] = e + k - 1 /\ d[k + 1] = e + (k + 1) - 1
      BY <1>2, <1>3, <3>1
    <3> QED
      BY <1>1, <3>1, <3>2
  <2> QED
    BY <1>1, <1>3, <1>9, <2>1, <2>2, <2>3
<1>10. t \in DecoderStates
  BY <1>1, <1>3, <1>4, <1>5, <1>6 DEF DecoderStates
<1>11. o[1] = s.out[1]
  <2>1. 1 \in 1..m
    BY <1>1
  <2> QED BY <1>3, <2>1
<1> HIDE DEF e
<1>12. Flows(t) /\ t.out[1] = s.out[1]
  BY <1>5, <1>6, <1>7, <1>8, <1>9, <1>10, <1>11 DEF Flows
<1> QED
  BY <1>5, <1>8, <1>12 DEF t, d, e
-----------------------------------------------------------------------------
(***************************************************************************)
(* What is held back.                                                      *)
(***************************************************************************)
LEMMA NatIsWellFounded == IsWellFoundedOn({p \in Nat \X Nat : p[1] < p[2]}, Nat)
  BY NatLessThanWellFounded, Zenon DEF OpToRel

LEMMA Least ==
  ASSUME NEW T, T \subseteq Nat, T # {}
  PROVE  \E n \in T : \A m \in T : n <= m
<1> DEFINE R == {p \in Nat \X Nat : p[1] < p[2]}
<1>1. IsWellFoundedOn(R, Nat)
  BY NatIsWellFounded
<1> HIDE DEF R
<1>2. PICK n \in T : \A m \in T : ~(<<m, n>> \in R)
  BY <1>1, WFMin, Zenon
<1>3. \A m \in T : ~(m < n)
  BY <1>2 DEF R
<1> QED
  BY <1>3

LEMMA Lengths ==
  ASSUME NEW p \in Seq(Segments), NEW k \in 1..Len(p)
  PROVE  p[k] \in Segments /\ Len(p[k].data) \in Nat
<1>1. p[k] \in Segments
  OBVIOUS
<1> QED
  BY <1>1 DEF Segments

\* The sums are a function: the first length for which there were none would
\* have one.
LEMMA SumsExist ==
  ASSUME NEW p, NEW n \in Nat
  PROVE  \E f : f = [k \in 0..n |-> IF k = 0 THEN 0 ELSE f[k - 1] + Len(p[k].data)]
<1> DEFINE E(m) == \E f : f = [k \in 0..m |-> IF k = 0 THEN 0 ELSE f[k - 1] + Len(p[k].data)]
           T == {m \in Nat : ~E(m)}
<1>1. SUFFICES ASSUME T # {} PROVE FALSE
  OBVIOUS
<1>2. PICK m \in T : \A k \in T : m <= k
  BY <1>1, Least
<1>3. CASE m = 0
  <2> DEFINE f == [k \in 0..0 |-> 0]
  <2>1. f = [k \in 0..0 |-> IF k = 0 THEN 0 ELSE f[k - 1] + Len(p[k].data)]
    OBVIOUS
  <2> HIDE DEF f
  <2> QED
    BY <1>2, <1>3, <2>1
<1>4. CASE m > 0
  <2>1. m \in Nat /\ m - 1 \in Nat
    BY <1>2, <1>4
  <2>2. m - 1 \notin T
    <3> HIDE DEF T
    <3> QED BY <1>2, <2>1
  <2>3. PICK g : g = [k \in 0..(m - 1) |-> IF k = 0 THEN 0 ELSE g[k - 1] + Len(p[k].data)]
    BY <2>1, <2>2
  <2> DEFINE f == [k \in 0..m |-> IF k = m THEN g[k - 1] + Len(p[k].data) ELSE g[k]]
  <2>4. \A k \in 0..m : f[k] = IF k = 0 THEN 0 ELSE f[k - 1] + Len(p[k].data)
    <3> SUFFICES ASSUME NEW k \in 0..m
                 PROVE  f[k] = IF k = 0 THEN 0 ELSE f[k - 1] + Len(p[k].data)
      OBVIOUS
    <3>1. k # 0 => k - 1 \in 0..m /\ k - 1 # m
      BY <2>1
    <3>2. k # 0 => f[k - 1] = g[k - 1]
      BY <3>1
    <3>3. k # m => k \in 0..(m - 1)
      BY <2>1
    <3>4. k # m => g[k] = IF k = 0 THEN 0 ELSE g[k - 1] + Len(p[k].data)
      BY <2>3, <3>3
    <3>5. f[k] = IF k = m THEN g[k - 1] + Len(p[k].data) ELSE g[k]
      OBVIOUS
    <3> HIDE DEF f
    <3> QED
      BY <1>4, <3>2, <3>4, <3>5
  <2>5. f = [k \in 0..m |-> f[k]]
    OBVIOUS
  <2> HIDE DEF f
  <2>6. f = [k \in 0..m |-> IF k = 0 THEN 0 ELSE f[k - 1] + Len(p[k].data)]
    BY <2>4, <2>5
  <2> QED
    BY <1>2, <2>6
<1> QED
  BY <1>2, <1>3, <1>4

\* Held is the last of the sums, and they are numbers.
LEMMA HeldSums ==
  ASSUME NEW p \in Seq(Segments)
  PROVE  \E f \in [0..Len(p) -> Int] :
           /\ f[0] = 0 /\ \A k \in 1..Len(p) : f[k] = f[k - 1] + Len(p[k].data)
           /\ Held(p) = f[Len(p)]
<1> DEFINE n == Len(p)
           f == CHOOSE g : g = [k \in 0..n |-> IF k = 0 THEN 0 ELSE g[k - 1] + Len(p[k].data)]
           T == {k \in 0..n : f[k] \notin Int}
<1>0. n \in Nat /\ \A k \in 1..n : Len(p[k].data) \in Nat
  BY DEF Segments
<1>1. f = [k \in 0..n |-> IF k = 0 THEN 0 ELSE f[k - 1] + Len(p[k].data)]
  BY <1>0, SumsExist
<1>2. Held(p) = f[n]
  BY DEF Held
<1> HIDE DEF f
<1>3. \A k \in 0..n : f[k] = IF k = 0 THEN 0 ELSE f[k - 1] + Len(p[k].data)
  BY <1>1
<1>4. T = {}
  <2> SUFFICES ASSUME T # {} PROVE FALSE
    OBVIOUS
  <2>1. PICK k \in T : \A j \in T : k <= j
    <3>1. T \subseteq Nat
      BY <1>0
    <3> HIDE DEF T
    <3> QED BY <3>1, Least
  <2>2. k \in 0..n /\ k # 0
    BY <1>0, <1>3, <2>1
  <2>3. k - 1 \in 0..n /\ k \in 1..n
    BY <1>0, <2>2
  <2>4. f[k - 1] \in Int
    <3>1. k - 1 \notin T
      <4> HIDE DEF T
      <4> QED BY <2>1, <2>2, <1>0
    <3> QED BY <2>3, <3>1
  <2>5. f[k] = f[k - 1] + Len(p[k].data)
    BY <1>3, <2>2
  <2>6. f[k] \in Int
    BY <1>0, <2>3, <2>4, <2>5
  <2> QED
    BY <2>1, <2>6
<1>5. \A k \in 0..n : f[k] \in Int
  BY <1>4
<1>6. f \in [0..n -> Int]
  BY <1>1, <1>5
<1>7. f[0] = 0 /\ \A k \in 1..n : f[k] = f[k - 1] + Len(p[k].data)
  BY <1>0, <1>3
<1> QED
  BY <1>2, <1>6, <1>7

\* Any function that sums up the lengths ends with Held.
LEMMA HeldIs ==
  ASSUME NEW p \in Seq(Segments), NEW g,
         g[0] = 0, \A k \in 1..Len(p) : g[k] = g[k - 1] + Len(p[k].data)
  PROVE  Held(p) = g[Len(p)]
<1> DEFINE n == Len(p)
<1>0. n \in Nat
  OBVIOUS
<1>1. PICK f \in [0..n -> Int] :
        /\ f[0] = 0 /\ \A k \in 1..n : f[k] = f[k - 1] + Len(p[k].data)
        /\ Held(p) = f[n]
  BY HeldSums
<1> DEFINE T == {k \in 0..n : f[k] # g[k]}
<1>2. T = {}
  <2> SUFFICES ASSUME T # {} PROVE FALSE
    OBVIOUS
  <2>1. PICK k \in T : \A j \in T : k <= j
    <3>1. T \subseteq Nat
      BY <1>0
    <3> HIDE DEF T
    <3> QED BY <3>1, Least
  <2>2. k \in 0..n /\ k # 0
    BY <1>0, <1>1, <2>1
  <2>3. k - 1 \in 0..n /\ k \in 1..n
    BY <1>0, <2>2
  <2>4. f[k - 1] = g[k - 1]
    <3>1. k - 1 \notin T
      <4> HIDE DEF T
      <4> QED BY <2>1, <2>2, <1>0
    <3> QED BY <2>3, <3>1
  <2>5. f[k] = g[k]
    BY <1>1, <2>3, <2>4
  <2> QED
    BY <2>1, <2>5
<1> QED
  BY <1>0, <1>1, <1>2
\* A sequence without its i-th element.
LEMMA Removed ==
  ASSUME NEW S, NEW s \in Seq(S), NEW i \in 1..Len(s)
  PROVE  /\ RemoveAt(s, i) \in Seq(S) /\ Len(RemoveAt(s, i)) = Len(s) - 1
         /\ \A j \in 1..(Len(s) - 1) : RemoveAt(s, i)[j] = IF j < i THEN s[j] ELSE s[j + 1]
<1>1. /\ SubSeq(s, 1, i - 1) \in Seq(S) /\ Len(SubSeq(s, 1, i - 1)) = i - 1
      /\ \A j \in 1..(i - 1) : SubSeq(s, 1, i - 1)[j] = s[j]
  OBVIOUS
<1>2. /\ SubSeq(s, i + 1, Len(s)) \in Seq(S) /\ Len(SubSeq(s, i + 1, Len(s))) = Len(s) - i
      /\ \A j \in 1..(Len(s) - i) : SubSeq(s, i + 1, Len(s))[j] = s[j + i]
  OBVIOUS
<1>3. Len(s) \in Nat
  OBVIOUS
<1> DEFINE a == SubSeq(s, 1, i - 1)
           b == SubSeq(s, i + 1, Len(s))
<1>4. RemoveAt(s, i) = a \o b
  BY DEF RemoveAt
<1> HIDE DEF a, b
<1>5. /\ a \o b \in Seq(S) /\ Len(a \o b) = Len(a) + Len(b)
      /\ \A j \in 1..Len(a) : (a \o b)[j] = a[j]
      /\ \A j \in 1..Len(b) : (a \o b)[Len(a) + j] = b[j]
  <2>1. a \in Seq(S) /\ b \in Seq(S)
    BY <1>1, <1>2 DEF a, b
  <2> QED
    BY <2>1
<1>6. Len(a) = i - 1 /\ Len(b) = Len(s) - i
  BY <1>1, <1>2 DEF a, b
<1>7. ASSUME NEW j \in 1..(Len(s) - 1)
      PROVE  (a \o b)[j] = IF j < i THEN s[j] ELSE s[j + 1]
  <2>1. CASE j < i
    BY <1>1, <1>3, <1>5, <1>6, <2>1 DEF a
  <2>2. CASE ~(j < i)
    <3>1. j - (i - 1) \in 1..(Len(s) - i) /\ j = (i - 1) + (j - (i - 1)) /\ (j - (i - 1)) + i = j + 1
      BY <1>3, <2>2
    <3>2. (a \o b)[j] = b[j - (i - 1)]
      BY <1>5, <1>6, <3>1
    <3>3. b[j - (i - 1)] = s[j + 1]
      BY <1>2, <3>1 DEF b
    <3> QED
      BY <2>2, <3>2, <3>3
  <2> QED
    BY <2>1, <2>2
<1> QED
  BY <1>3, <1>4, <1>5, <1>6, <1>7

LEMMA HeldRemoved ==
  ASSUME NEW p \in Seq(Segments), NEW i \in 1..Len(p)
  PROVE  Held(RemoveAt(p, i)) = Held(p) - Len(p[i].data)
<1> DEFINE n == Len(p)
           q == RemoveAt(p, i)
           c == Len(p[i].data)
<1>0. n \in Nat /\ c \in Nat
  BY DEF Segments
<1>1. PICK f \in [0..n -> Int] :
        /\ f[0] = 0 /\ \A k \in 1..n : f[k] = f[k - 1] + Len(p[k].data)
        /\ Held(p) = f[n]
  BY HeldSums
<1>2. /\ q \in Seq(Segments) /\ Len(q) = n - 1
      /\ \A j \in 1..(n - 1) : q[j] = IF j < i THEN p[j] ELSE p[j + 1]
  BY Removed
<1> DEFINE g == [k \in 0..(n - 1) |-> IF k < i THEN f[k] ELSE f[k + 1] - c]
<1>3. g[0] = 0
  BY <1>0, <1>1
<1>4. ASSUME NEW k \in 1..(n - 1) PROVE g[k] = g[k - 1] + Len(q[k].data)
  <2>0. k \in 1..n /\ k + 1 \in 1..n /\ k - 1 \in 0..(n - 1) /\ k \in 0..(n - 1)
    BY <1>0
  <2>1. f[k] = f[k - 1] + Len(p[k].data) /\ f[k + 1] = f[k] + Len(p[k + 1].data)
    <3>1. f[k + 1] = f[(k + 1) - 1] + Len(p[k + 1].data) /\ (k + 1) - 1 = k
      BY <1>1, <2>0
    <3> QED BY <1>1, <2>0, <3>1
  <2>2. f[i] = f[i - 1] + c
    BY <1>1
  <2>3. f[k] \in Int /\ f[k + 1] \in Int /\ f[k - 1] \in Int
    <3>1. k \in 0..n /\ k + 1 \in 0..n /\ k - 1 \in 0..n
      BY <1>0, <2>0
    <3> HIDE DEF n
    <3> QED BY <1>1, <3>1
  <2>8. Len(p[k].data) \in Nat /\ Len(p[k + 1].data) \in Nat
    BY <2>0, Lengths
  <2>4. g[k] = (IF k < i THEN f[k] ELSE f[k + 1] - c) /\ g[k - 1] = IF k - 1 < i THEN f[k - 1] ELSE f[k] - c
    BY <2>0
  <2> HIDE DEF g, c, q
  <2>5. CASE k < i
    <3>1. q[k] = p[k] /\ k - 1 < i
      BY <1>2, <2>0, <2>5
    <3> QED BY <2>1, <2>4, <2>5, <3>1
  <2>6. CASE k = i
    <3>1. q[k] = p[k + 1] /\ k - 1 < i /\ ~(k < i)
      BY <1>2, <2>0, <2>6
    <3>2. g[k] = f[k + 1] - c /\ g[k - 1] = f[k - 1] /\ f[k] = f[k - 1] + c
      BY <2>2, <2>4, <2>6, <3>1
    <3>3. Len(q[k].data) = Len(p[k + 1].data)
      BY <3>1
    <3> DEFINE u == f[k - 1]  v == f[k]  w == f[k + 1]  l == Len(p[k + 1].data)
    <3>4. u \in Int /\ v \in Int /\ w \in Int /\ l \in Nat /\ c \in Nat /\ v = u + c /\ w = v + l
      BY <1>0, <2>1, <2>3, <2>8, <3>2
    <3>5. g[k] = w - c /\ g[k - 1] = u /\ Len(q[k].data) = l
      BY <3>2, <3>3
    <3> HIDE DEF u, v, w, l
    <3>6. w - c = u + l
      BY <3>4
    <3> QED BY <3>5, <3>6
  <2>7. CASE k > i
    <3>1. q[k] = p[k + 1] /\ ~(k - 1 < i) /\ ~(k < i)
      BY <1>2, <2>0, <2>7
    <3>2. g[k] = f[k + 1] - c /\ g[k - 1] = f[k] - c
      BY <2>4, <3>1
    <3>3. Len(q[k].data) = Len(p[k + 1].data)
      BY <3>1
    <3> DEFINE v == f[k]  w == f[k + 1]  l == Len(p[k + 1].data)
    <3>4. v \in Int /\ w \in Int /\ l \in Nat /\ c \in Nat /\ w = v + l
      BY <1>0, <2>1, <2>3, <2>8
    <3>5. g[k] = w - c /\ g[k - 1] = v - c /\ Len(q[k].data) = l
      BY <3>2, <3>3
    <3> HIDE DEF v, w, l
    <3>6. w - c = (v - c) + l
      BY <3>4
    <3> QED BY <3>5, <3>6
  <2> QED
    BY <2>0, <2>5, <2>6, <2>7
<1>5. g[n - 1] = f[n] - c
  <2>1. n - 1 \in 0..(n - 1) /\ (n - 1) + 1 = n
    BY <1>0
  <2>2. f[i] = f[i - 1] + c /\ f[n - 1] \in Int
    <3>1. n - 1 \in 0..n /\ i \in 1..n
      BY <1>0
    <3> QED BY <1>1, <3>1
  <2>5. g[n - 1] = IF n - 1 < i THEN f[n - 1] ELSE f[(n - 1) + 1] - c
    BY <2>1
  <2> HIDE DEF g, c
  <2>3. CASE i = n
    <3>1. n - 1 < i /\ f[n] = f[n - 1] + c
      BY <1>0, <2>2, <2>3
    <3> HIDE DEF n
    <3> QED BY <1>0, <2>2, <2>5, <3>1
  <2>4. CASE i # n
    <3>1. ~(n - 1 < i)
      BY <1>0, <2>4
    <3> QED BY <2>1, <2>5, <3>1
  <2> QED
    BY <2>3, <2>4
<1> HIDE DEF g, q, c
<1>6. Held(q) = g[Len(q)]
  BY <1>2, <1>3, <1>4, HeldIs
<1> QED
  BY <1>1, <1>2, <1>5, <1>6 DEF q, c

LEMMA HeldAppended ==
  ASSUME NEW p \in Seq(Segments), NEW seg \in Segments
  PROVE  Held(Append(p, seg)) = Held(p) + Len(seg.data)
<1> DEFINE n == Len(p)
           q == Append(p, seg)
           c == Len(seg.data)
<1>0. n \in Nat /\ c \in Nat
  BY DEF Segments
<1>1. PICK f \in [0..n -> Int] :
        /\ f[0] = 0 /\ \A k \in 1..n : f[k] = f[k - 1] + Len(p[k].data)
        /\ Held(p) = f[n]
  BY HeldSums
<1>2. /\ q \in Seq(Segments) /\ Len(q) = n + 1 /\ q[n + 1] = seg
      /\ \A j \in 1..n : q[j] = p[j]
  OBVIOUS
<1> DEFINE g == [k \in 0..(n + 1) |-> IF k <= n THEN f[k] ELSE f[n] + c]
<1>3. g[0] = 0 /\ g[n + 1] = f[n] + c
  BY <1>0, <1>1
<1>4. ASSUME NEW k \in 1..(n + 1) PROVE g[k] = g[k - 1] + Len(q[k].data)
  <2>0. k \in 0..(n + 1) /\ k - 1 \in 0..(n + 1) /\ k - 1 <= n
    BY <1>0
  <2>1. CASE k <= n
    <3>1. k \in 1..n
      BY <1>0, <2>1
    <3> QED BY <1>1, <1>2, <2>0, <2>1, <3>1
  <2>2. CASE k = n + 1
    <3>1. k - 1 = n /\ ~(k <= n)
      BY <1>0, <2>2
    <3> QED BY <1>2, <2>0, <2>2, <3>1
  <2> QED
    BY <1>0, <2>1, <2>2
<1> HIDE DEF g, q, c
<1>5. Held(q) = g[Len(q)]
  BY <1>2, <1>3, <1>4, HeldIs
<1> QED
  BY <1>1, <1>2, <1>3, <1>5 DEF q, c

LEMMA HeldReplaced ==
  ASSUME NEW p \in Seq(Segments), NEW q \in Seq(Segments), NEW i \in 1..Len(p),
         Len(q) = Len(p), \A j \in 1..Len(p) : j # i => q[j] = p[j]
  PROVE  Held(q) = Held(p) + Len(q[i].data) - Len(p[i].data)
<1> DEFINE n == Len(p)
           c == Len(q[i].data) - Len(p[i].data)
<1>0. n \in Nat /\ \A k \in 1..n : Len(p[k].data) \in Nat /\ Len(q[k].data) \in Nat
  BY Lengths
<1>1. PICK f \in [0..n -> Int] :
        /\ f[0] = 0 /\ \A k \in 1..n : f[k] = f[k - 1] + Len(p[k].data)
        /\ Held(p) = f[n]
  BY HeldSums
<1> DEFINE g == [k \in 0..n |-> IF k < i THEN f[k] ELSE f[k] + c]
<1>2. g[0] = 0 /\ g[n] = f[n] + c
  <2>1. 0 \in 0..n /\ n \in 0..n /\ 0 < i /\ ~(n < i)
    BY <1>0
  <2> HIDE DEF c, n
  <2> QED BY <1>1, <2>1
<1>3. ASSUME NEW k \in 1..n PROVE g[k] = g[k - 1] + Len(q[k].data)
  <2>8. k \in 0..n /\ k - 1 \in 0..n
    BY <1>0
  <2>0. k \in 0..n /\ k - 1 \in 0..n /\ f[k] \in Int /\ f[k - 1] \in Int
    BY <1>1, <2>8
  <2>1. f[k] = f[k - 1] + Len(p[k].data) /\ Len(p[k].data) \in Nat /\ Len(q[k].data) \in Nat
    BY <1>0, <1>1
  <2>2. g[k] = (IF k < i THEN f[k] ELSE f[k] + c) /\ g[k - 1] = IF k - 1 < i THEN f[k - 1] ELSE f[k - 1] + c
    BY <2>0
  <2>3. c \in Int
    BY <1>0
  <2> HIDE DEF g
  <2>4. CASE k < i
    <3>1. q[k] = p[k] /\ k - 1 < i
      BY <2>0, <2>4
    <3> QED BY <2>1, <2>2, <2>4, <3>1
  <2>5. CASE k = i
    <3>1. k - 1 < i /\ ~(k < i)
      BY <2>5
    <3>2. g[k] = f[k] + c /\ g[k - 1] = f[k - 1]
      BY <2>2, <3>1
    <3>3. c = Len(q[k].data) - Len(p[k].data)
      BY <2>5
    <3> DEFINE u == f[k - 1]  v == f[k]  l == Len(p[k].data)  m == Len(q[k].data)
    <3>4. u \in Int /\ v \in Int /\ l \in Nat /\ m \in Nat /\ c = m - l /\ v = u + l
      BY <2>0, <2>1, <3>3
    <3>5. g[k] = v + c /\ g[k - 1] = u
      BY <3>2
    <3> HIDE DEF u, v, l, m, c
    <3>6. v + c = u + m
      BY <3>4
    <3> QED BY <3>5, <3>6 DEF m
  <2>6. CASE k > i
    <3>1. q[k] = p[k] /\ ~(k - 1 < i) /\ ~(k < i)
      BY <2>0, <2>6
    <3>2. g[k] = f[k] + c /\ g[k - 1] = f[k - 1] + c
      BY <2>2, <3>1
    <3>3. Len(q[k].data) = Len(p[k].data)
      BY <3>1
    <3> HIDE DEF c
    <3> QED BY <2>0, <2>1, <2>3, <3>2, <3>3
  <2> QED
    BY <2>0, <2>4, <2>5, <2>6
<1> HIDE DEF g
<1>4. Held(q) = g[Len(q)]
  BY <1>2, <1>3, HeldIs
<1> QED
  BY <1>0, <1>1, <1>2, <1>4
-----------------------------------------------------------------------------
(***************************************************************************)
(* The drain.                                                              *)
(***************************************************************************)
LEMMA Constants ==
  /\ Window \in Nat /\ MaxSegment \in Nat \ {0} /\ 2 * (Window + MaxSegment) <= Mod
  /\ Mod \in Nat /\ BudgetBytes \in Nat /\ BudgetSec \in Nat /\ Length \in Nat /\ Unset \notin Int
  BY DecoderAssumption

LEMMA EndIs ==
  ASSUME NEW s, Flows(s)
  PROVE  s \in DecoderStates /\ s.out \in Seq(Int) /\ Len(s.out) \in Nat \ {0} /\ End(s.out) \in Int
<1>1. s \in DecoderStates /\ s.out \in Seq(Int) /\ s.out # <<>>
  BY DEF Flows, DecoderStates
<1>2. Len(s.out) \in 1..Len(s.out) /\ Len(s.out) \in Nat \ {0}
  BY <1>1
<1> QED
  BY <1>1, <1>2 DEF End, Last

LEMMA SegmentIs ==
  ASSUME NEW seg, IsSegment(seg)
  PROVE  /\ seg \in Segments /\ At(seg) \in Int /\ Len(seg.data) \in 1..MaxSegment
         /\ seg.data = Bytes(At(seg), Len(seg.data)) /\ seg.seq = SeqNo(At(seg))
<1>1. seg \in Segments /\ Len(seg.data) \in 1..MaxSegment
  BY DEF IsSegment
<1>2. seg.data \in Seq(Int) /\ 1 \in 1..Len(seg.data)
  BY <1>1, Constants DEF Segments
<1> QED
  BY <1>1, <1>2 DEF IsSegment, At

\* While it drains, no pending segment is so far away that its distance would
\* be misread.
LEMMA Distances ==
  ASSUME NEW p \in Int, NEW s, Draining(s, p), NEW i \in 1..Len(s.pending)
  PROVE  Delta(s.pending[i].seq, s.next) = At(s.pending[i]) - End(s.out)
<1> DEFINE a == At(s.pending[i])
           e == End(s.out)
<1>1. /\ IsSegment(s.pending[i]) /\ a \in (p + 1)..(p + Window - 1)
      /\ e \in p..(p + Window + MaxSegment) /\ s.next = SeqNo(e)
  BY DEF Draining, Holds, Flows
<1>2. a \in Int /\ s.pending[i].seq = SeqNo(a)
  BY <1>1, SegmentIs
<1>3. e \in Int
  BY EndIs DEF Draining
<1> HIDE DEF a, e
<1>4. 2 * (a - e) < Mod /\ 2 * (e - a) < Mod
  <2>1. p + 1 <= a /\ a <= p + Window - 1 /\ p <= e /\ e <= p + Window + MaxSegment
    BY <1>1, <1>2, <1>3, Constants
  <2>2. Window \in Int /\ MaxSegment \in Int /\ Mod \in Int /\ 2 * (Window + MaxSegment) <= Mod
    BY Constants
  <2>3. a - e <= Window - 1 /\ e - a <= Window + MaxSegment - 1
    BY <1>2, <1>3, <2>1, <2>2
  <2> QED
    BY <1>2, <1>3, <2>2, <2>3, Constants
<1>5. Delta(SeqNo(a), SeqNo(e)) = a - e
  BY <1>2, <1>3, <1>4, DeltaIsDistance
<1> QED
  BY <1>1, <1>2, <1>5 DEF a, e

Ready(s) == {i \in 1..Len(s.pending) : At(s.pending[i]) <= End(s.out)}

\* The state after one segment was taken out and its rest fed.
Fed(s, i, t) ==
  /\ t.pending = RemoveAt(s.pending, i) /\ t.bytes = s.bytes - Len(s.pending[i].data)
  /\ t.gap = s.gap /\ Flows(t) /\ End(s.out) <= End(t.out) /\ t.out[1] = s.out[1]
  /\ End(t.out) = End(s.out) \/ End(t.out) = At(s.pending[i]) + Len(s.pending[i].data)
  /\ At(s.pending[i]) + Len(s.pending[i].data) <= End(t.out)

LEMMA RoundFeeds ==
  ASSUME NEW p \in Int, NEW s, Draining(s, p)
  PROVE  IF Ready(s) = {} THEN DrainOne(s) = s
         ELSE \E i \in Ready(s) : Fed(s, i, DrainOne(s))
<1> DEFINE ready == {i \in DOMAIN s.pending : Delta(s.pending[i].seq, s.next) <= 0}
           first == CHOOSE j \in ready : \A k \in ready : j <= k
           e == End(s.out)
<1>0. /\ Flows(s) /\ Holds(s, p) /\ s \in DecoderStates /\ s.out \in Seq(Int) /\ e \in Int
      /\ s.pending \in Seq(Segments) /\ DOMAIN s.pending = 1..Len(s.pending)
      /\ Len(s.pending) \in Nat /\ s.bytes \in Int
  BY EndIs DEF Draining, DecoderStates
<1>1. \A i \in 1..Len(s.pending) :
        IsSegment(s.pending[i]) /\ At(s.pending[i]) \in Int
  BY <1>0, SegmentIs DEF Holds
<1>2. ready = Ready(s)
  <2>1. \A i \in 1..Len(s.pending) :
          Delta(s.pending[i].seq, s.next) <= 0 <=> At(s.pending[i]) <= End(s.out)
    BY <1>0, <1>1, Distances
  <2> QED
    BY <1>0, <2>1 DEF Ready
<1>3. CASE ready = {}
  BY <1>2, <1>3 DEF DrainOne
<1>4. CASE ready # {}
  <2>1. first \in ready
    <3>1. \E j \in ready : \A k \in ready : j <= k
      <4>1. ready \subseteq Nat
        BY <1>0
      <4> HIDE DEF ready
      <4> QED BY <1>4, <4>1, Least
    <3> HIDE DEF ready
    <3> QED BY <3>1
  <2> DEFINE seg == s.pending[first]
             rest == RemoveAt(s.pending, first)
             left == s.bytes - Len(seg.data)
             u == [s EXCEPT !.pending = rest, !.bytes = left]
             n == Len(seg.data)
             k == IF e - At(seg) >= n THEN 0 ELSE At(seg) + n - e
  <2>2. DrainOne(s) = Feed(u, Unfed(seg.data, Delta(seg.seq, s.next)))
    <3> HIDE DEF ready
    <3>1. DrainOne(s) =
            IF ready = {} THEN s
            ELSE Feed([s EXCEPT !.pending = RemoveAt(s.pending, first), !.bytes = s.bytes - Len(seg.data)],
                      Unfed(seg.data, Delta(seg.seq, s.next)))
      BY DEF DrainOne, ready
    <3> QED BY <1>4, <3>1
  <2>3. first \in 1..Len(s.pending) /\ IsSegment(seg) /\ At(seg) <= e
    <3> HIDE DEF first, ready, e
    <3> QED BY <1>1, <1>2, <2>1 DEF Ready, e
  <2> HIDE DEF first, ready
  <2>4. /\ seg \in Segments /\ At(seg) \in Int /\ n \in Nat /\ n >= 1
        /\ seg.data = Bytes(At(seg), n)
    BY <2>3, SegmentIs, Constants
  <2>5. Delta(seg.seq, s.next) = At(seg) - e
    BY <2>3, Distances
  <2>6. Unfed(seg.data, Delta(seg.seq, s.next)) = Bytes(e, k)
    <3> DEFINE a == At(seg)
    <3>1. Unfed(Bytes(a, n), a - e) = Bytes(e, k)
      <4> HIDE DEF e, n
      <4>1. a \in Int /\ n \in Nat /\ e \in Int /\ a <= e
        BY <1>0, <2>3, <2>4
      <4> HIDE DEF a
      <4>2. Unfed(Bytes(a, n), a - e) = Bytes(e, IF e - a >= n THEN 0 ELSE a + n - e)
        BY <4>1, UnfedIs
      <4> QED BY <4>2 DEF a
    <3>2. seg.data = Bytes(a, n)
      BY <2>4
    <3> HIDE DEF a, e, n, k, seg
    <3> QED BY <2>5, <3>1, <3>2 DEF a
  <2>7. rest \in Seq(Segments)
    BY <1>0, <2>3, Removed
  <2>8. /\ u \in DecoderStates /\ u.out = s.out /\ u.next = s.next /\ u.gap = s.gap
        /\ u.pending = rest /\ u.bytes = left
    <3>1. left \in Int
      BY <1>0, <2>4
    <3> HIDE DEF left, rest
    <3> QED BY <1>0, <2>7, <3>1 DEF DecoderStates
  <2>9. Flows(u)
    BY <1>0, <2>8 DEF Flows
  <2>10. k \in Nat
    BY <1>0, <2>3, <2>4
  <2> DEFINE t == Feed(u, Bytes(End(u.out), k))
  <2>11. /\ Flows(t) /\ End(t.out) = End(u.out) + k /\ t.out[1] = u.out[1]
         /\ t.pending = u.pending /\ t.bytes = u.bytes /\ t.gap = u.gap
    <3> HIDE DEF u, k
    <3> QED BY <2>9, <2>10, FeedIs
  <2>12. DrainOne(s) = t
    <3> HIDE DEF k, seg
    <3> QED BY <2>2, <2>6, <2>8
  <2>13. End(t.out) = e + k
    BY <2>8, <2>11
  <2>14. /\ e <= e + k
         /\ e + k = e \/ e + k = At(seg) + n
         /\ At(seg) + n <= e + k
    <3> HIDE DEF e, n
    <3> QED BY <1>0, <2>3, <2>4
  <2> HIDE DEF t, u, k
  <2>15. Fed(s, first, t)
    BY <2>8, <2>11, <2>13, <2>14 DEF Fed
  <2>16. first \in Ready(s)
    BY <1>2, <2>1
  <2> QED
    BY <2>12, <2>15, <2>16
<1> QED
  BY <1>3, <1>4

LEMMA Found ==
  ASSUME NEW s, NEW b, NEW i \in 1..Len(s.pending), Has(s.pending[i], b)
  PROVE  Covers(s, b)
  BY DEF Covers

\* Nothing is from beyond the end of the stream.
Within(s) ==
  /\ End(s.out) <= Length
  /\ \A i \in 1..Len(s.pending) : At(s.pending[i]) + Len(s.pending[i].data) <= Length

\* A round keeps what is known, and one segment less is pending.
LEMMA FedDrains ==
  ASSUME NEW p \in Int, NEW s, Draining(s, p), NEW i \in Ready(s), NEW t, Fed(s, i, t)
  PROVE  /\ Draining(t, p) /\ t.gap = s.gap /\ Len(t.pending) = Len(s.pending) - 1
         /\ \A b \in Int : Covers(s, b) => Covers(t, b)
         /\ Within(s) => Within(t)
<1> DEFINE n == Len(s.pending)
           seg == s.pending[i]
<1>0. /\ Flows(s) /\ Holds(s, p) /\ Flows(t) /\ s.pending \in Seq(Segments) /\ n \in Nat
      /\ i \in 1..n /\ End(s.out) \in Int /\ End(t.out) \in Int
      /\ End(s.out) \in p..(p + Window + MaxSegment)
  BY EndIs DEF Draining, DecoderStates, Ready, Fed
<1>1. /\ t.pending \in Seq(Segments) /\ Len(t.pending) = n - 1
      /\ \A j \in 1..(n - 1) : t.pending[j] = IF j < i THEN s.pending[j] ELSE s.pending[j + 1]
  <2>1. t.pending = RemoveAt(s.pending, i)
    BY DEF Fed
  <2> QED
    BY <1>0, <2>1, Removed
<1>2. /\ IsSegment(seg) /\ At(seg) \in (p + 1)..(p + Window - 1) /\ At(seg) \in Int
      /\ Len(seg.data) \in 1..MaxSegment
  BY <1>0, SegmentIs DEF Holds
<1>3. End(t.out) \in p..(p + Window + MaxSegment)
  <2>1. End(s.out) <= End(t.out)
    BY DEF Fed
  <2>2. End(t.out) = End(s.out) \/ End(t.out) = At(seg) + Len(seg.data)
    BY DEF Fed
  <2> HIDE DEF seg
  <2> QED
    BY <1>0, <1>2, <2>1, <2>2, Constants
<1>4. ASSUME NEW j \in 1..Len(t.pending)
      PROVE  IsSegment(t.pending[j]) /\ At(t.pending[j]) \in (p + 1)..(p + Window - 1)
  <2>1. j \in 1..n /\ j + 1 \in 1..n /\ j \in 1..(n - 1)
    BY <1>0, <1>1, <1>4
  <2>2. t.pending[j] = s.pending[j] \/ t.pending[j] = s.pending[j + 1]
    BY <1>1, <2>1
  <2> QED
    BY <1>0, <2>1, <2>2 DEF Holds
<1>5. t.bytes = Held(t.pending) /\ t.bytes <= BudgetBytes
  <2>1. /\ t.pending = RemoveAt(s.pending, i) /\ t.bytes = s.bytes - Len(seg.data)
        /\ s.bytes = Held(s.pending) /\ s.bytes <= BudgetBytes
    BY <1>0 DEF Fed, Holds
  <2>2. Held(t.pending) = Held(s.pending) - Len(seg.data)
    BY <1>0, <2>1, HeldRemoved
  <2>3. s.bytes \in Int
    BY <1>0 DEF Flows, DecoderStates
  <2> HIDE DEF seg
  <2> QED
    BY <1>2, <2>1, <2>2, <2>3, Constants
<1>6. Draining(t, p)
  BY <1>0, <1>3, <1>4, <1>5 DEF Draining, Holds
<1>7. ASSUME NEW b \in Int, Covers(s, b) PROVE Covers(t, b)
  <2>1. CASE b < End(s.out)
    <3>1. b < End(t.out)
      BY <1>0, <2>1 DEF Fed
    <3> QED BY <3>1 DEF Covers
  <2>2. CASE \E j \in 1..n : Has(s.pending[j], b)
    <3>1. PICK j \in 1..n : Has(s.pending[j], b)
      BY <2>2
    <3>2. CASE j = i
      <4>1. b < At(seg) + Len(seg.data) /\ At(seg) + Len(seg.data) <= End(t.out)
        BY <3>1, <3>2 DEF Has, Fed
      <4>2. b < End(t.out)
        BY <1>0, <1>2, <4>1
      <4> QED BY <4>2 DEF Covers
    <3>3. CASE j < i
      <4>1. j \in 1..(n - 1)
        BY <1>0, <3>3
      <4>2. t.pending[j] = s.pending[j] /\ j \in 1..Len(t.pending)
        BY <1>1, <3>3, <4>1
      <4> QED BY <3>1, <4>2, Found
    <3>4. CASE j > i
      <4>1. j - 1 \in 1..(n - 1) /\ ~(j - 1 < i) /\ (j - 1) + 1 = j
        BY <1>0, <3>4
      <4> DEFINE h == j - 1
      <4>2. t.pending[h] = s.pending[j] /\ h \in 1..Len(t.pending)
        BY <1>1, <4>1
      <4> HIDE DEF h
      <4> QED BY <3>1, <4>2, Found
    <3> QED BY <1>0, <3>2, <3>3, <3>4
  <2> QED
    BY <1>7, <2>1, <2>2 DEF Covers
<1>8. ASSUME Within(s) PROVE Within(t)
  <2>1. End(t.out) <= Length
    BY <1>0, <1>8 DEF Within, Fed
  <2>2. ASSUME NEW j \in 1..Len(t.pending)
        PROVE  At(t.pending[j]) + Len(t.pending[j].data) <= Length
    <3>1. j \in 1..n /\ j + 1 \in 1..n /\ j \in 1..(n - 1)
      BY <1>0, <1>1, <2>2
    <3>2. t.pending[j] = s.pending[j] \/ t.pending[j] = s.pending[j + 1]
      BY <1>1, <3>1
    <3> QED
      BY <1>8, <3>1, <3>2 DEF Within
  <2> QED
    BY <2>1, <2>2 DEF Within
<1> QED
  BY <1>1, <1>6, <1>7, <1>8 DEF Fed

\* The states after each round.
LEMMA RoundsExist ==
  ASSUME NEW s, NEW n \in Nat
  PROVE  \E f : f = [k \in 0..n |-> IF k = 0 THEN s ELSE DrainOne(f[k - 1])]
<1> DEFINE E(m) == \E f : f = [k \in 0..m |-> IF k = 0 THEN s ELSE DrainOne(f[k - 1])]
           T == {m \in Nat : ~E(m)}
<1>1. SUFFICES ASSUME T # {} PROVE FALSE
  OBVIOUS
<1>2. PICK m \in T : \A k \in T : m <= k
  BY <1>1, Least
<1>3. CASE m = 0
  <2> DEFINE f == [k \in 0..0 |-> s]
  <2>1. f = [k \in 0..0 |-> IF k = 0 THEN s ELSE DrainOne(f[k - 1])]
    OBVIOUS
  <2> HIDE DEF f
  <2> QED
    BY <1>2, <1>3, <2>1
<1>4. CASE m > 0
  <2>1. m \in Nat /\ m - 1 \in Nat
    BY <1>2, <1>4
  <2>2. m - 1 \notin T
    <3> HIDE DEF T
    <3> QED BY <1>2, <2>1
  <2>3. PICK g : g = [k \in 0..(m - 1) |-> IF k = 0 THEN s ELSE DrainOne(g[k - 1])]
    BY <2>1, <2>2
  <2> DEFINE f == [k \in 0..m |-> IF k = m THEN DrainOne(g[k - 1]) ELSE g[k]]
  <2>4. \A k \in 0..m : f[k] = IF k = 0 THEN s ELSE DrainOne(f[k - 1])
    <3> SUFFICES ASSUME NEW k \in 0..m
                 PROVE  f[k] = IF k = 0 THEN s ELSE DrainOne(f[k - 1])
      OBVIOUS
    <3>1. k # 0 => k - 1 \in 0..m /\ k - 1 # m
      BY <2>1
    <3>2. k # 0 => f[k - 1] = g[k - 1]
      BY <3>1
    <3>3. k # m => k \in 0..(m - 1)
      BY <2>1
    <3>4. k # m => g[k] = IF k = 0 THEN s ELSE DrainOne(g[k - 1])
      BY <2>3, <3>3
    <3>5. f[k] = IF k = m THEN DrainOne(g[k - 1]) ELSE g[k]
      OBVIOUS
    <3> HIDE DEF f
    <3> QED
      BY <1>4, <3>2, <3>4, <3>5
  <2>5. f = [k \in 0..m |-> f[k]]
    OBVIOUS
  <2> HIDE DEF f
  <2>6. f = [k \in 0..m |-> IF k = 0 THEN s ELSE DrainOne(f[k - 1])]
    BY <2>4, <2>5
  <2> QED
    BY <1>2, <2>6
<1> QED
  BY <1>2, <1>3, <1>4

\* When the drain is over nothing pending can be fed: in each round one segment
\* goes, or none is ready and none will be.
LEMMA DrainAllIs ==
  ASSUME NEW p \in Int, NEW s, Draining(s, p)
  PROVE  LET t == DrainAll(s)
         IN  /\ Flows(t) /\ Holds(t, End(t.out))
             /\ \A b \in Int : Covers(s, b) => Covers(t, b)
             /\ t.gap = IF t.pending = <<>> THEN Unset ELSE s.gap
             /\ s.pending = <<>> => t.pending = <<>>
             /\ t.out[1] = s.out[1] /\ End(s.out) <= End(t.out)
             /\ Within(s) => Within(t)
<1> DEFINE n == Len(s.pending)
           f == CHOOSE g : g = [k \in 0..n |-> IF k = 0 THEN s ELSE DrainOne(g[k - 1])]
           end == f[n]
           Good(k) == /\ Draining(f[k], p) /\ f[k].gap = s.gap
                      /\ \A b \in Int : Covers(s, b) => Covers(f[k], b)
                      /\ Len(f[k].pending) <= n
                      /\ Ready(f[k]) = {} \/ Len(f[k].pending) = n - k
                      /\ f[k].out[1] = s.out[1] /\ End(s.out) <= End(f[k].out)
                      /\ Within(s) => Within(f[k])
           T == {k \in 0..n : ~Good(k)}
<1>0. s \in DecoderStates /\ n \in Nat
  BY EndIs DEF Draining, DecoderStates
<1>1. f = [k \in 0..n |-> IF k = 0 THEN s ELSE DrainOne(f[k - 1])]
  BY <1>0, RoundsExist
<1>2. DrainAll(s) = [end EXCEPT !.gap = IF end.pending = <<>> THEN Unset ELSE @]
  BY DEF DrainAll
<1> HIDE DEF f
<1>3. \A k \in 0..n : f[k] = IF k = 0 THEN s ELSE DrainOne(f[k - 1])
  BY <1>1
<1>4. T = {}
  <2> SUFFICES ASSUME T # {} PROVE FALSE
    OBVIOUS
  <2>1. PICK k \in T : \A j \in T : k <= j
    <3>1. T \subseteq Nat
      BY <1>0
    <3> HIDE DEF T
    <3> QED BY <3>1, Least
  <2>2. k \in 0..n /\ ~Good(k)
    BY <2>1
  <2>3. CASE k = 0
    <3>1. f[0] = s
      BY <1>0, <1>3
    <3>2. Len(f[0].pending) = n - 0 /\ Len(f[0].pending) <= n
      BY <1>0, <3>1
    <3>3. /\ Draining(f[0], p) /\ f[0].gap = s.gap
          /\ \A b \in Int : Covers(s, b) => Covers(f[0], b)
          /\ f[0].out[1] = s.out[1] /\ End(s.out) <= End(f[0].out)
          /\ Within(s) => Within(f[0])
      <4>1. End(s.out) <= End(s.out)
        <5>1. End(s.out) \in Int
          BY EndIs DEF Draining
        <5> QED BY <5>1
      <4> QED BY <3>1, <4>1
    <3>4. Good(0)
      BY <3>2, <3>3
    <3> QED BY <2>2, <2>3, <3>4
  <2>4. CASE k # 0
    <3> DEFINE h == k - 1
    <3>1. h \in 0..n /\ ~(k <= h) /\ k = h + 1
      BY <1>0, <2>2, <2>4
    <3>2. Good(h)
      <4>1. h \notin T
        <5> HIDE DEF T, h
        <5> QED BY <2>1, <3>1
      <4> HIDE DEF Good, h
      <4> QED BY <3>1, <4>1
    <3>3. f[k] = DrainOne(f[h])
      BY <1>3, <2>2, <2>4
    <3> DEFINE u == f[h]
               t == f[k]
    <3>4. /\ Draining(u, p) /\ u.gap = s.gap /\ \A b \in Int : Covers(s, b) => Covers(u, b)
          /\ Len(u.pending) <= n
          /\ Ready(u) = {} \/ Len(u.pending) = n - h
          /\ u.out[1] = s.out[1] /\ End(s.out) <= End(u.out)
          /\ Within(s) => Within(u)
          /\ t = DrainOne(u)
      BY <3>2, <3>3
    <3>5. Len(u.pending) \in Nat
      BY <3>4, EndIs DEF Draining, DecoderStates
    <3> HIDE DEF u, t, h
    <3>6. CASE Ready(u) = {}
      <4>1. t = u
        BY <3>4, <3>6, RoundFeeds
      <4>2. Good(k)
        BY <3>4, <3>6, <4>1 DEF t
      <4> QED BY <2>2, <4>2
    <3>7. CASE Ready(u) # {}
      <4>1. PICK i \in Ready(u) : Fed(u, i, t)
        BY <3>4, <3>7, RoundFeeds
      <4>2. /\ Draining(t, p) /\ t.gap = u.gap /\ Len(t.pending) = Len(u.pending) - 1
            /\ \A b \in Int : Covers(u, b) => Covers(t, b)
            /\ Within(u) => Within(t)
        BY <3>4, <4>1, FedDrains
      <4>5. t.out[1] = s.out[1] /\ End(s.out) <= End(t.out)
        <5>1. t.out[1] = u.out[1] /\ End(u.out) <= End(t.out)
          BY <4>1 DEF Fed
        <5>2. End(s.out) \in Int /\ End(u.out) \in Int /\ End(t.out) \in Int
          BY <3>4, <4>2, EndIs DEF Draining
        <5> QED BY <3>4, <5>1, <5>2
      <4>3. Len(t.pending) = n - k /\ Len(t.pending) <= n
        BY <1>0, <3>1, <3>4, <3>5, <3>7, <4>2
      <4>4. Good(k)
        BY <3>4, <4>2, <4>3, <4>5 DEF t
      <4> QED BY <2>2, <4>4
    <3> QED BY <3>6, <3>7
  <2> QED
    BY <2>3, <2>4
<1>5. Good(n)
  <2>1. n \in 0..n
    BY <1>0
  <2> HIDE DEF Good, n
  <2> QED BY <1>4, <2>1
<1> HIDE DEF Good
<1>6. /\ Draining(end, p) /\ end.gap = s.gap /\ \A b \in Int : Covers(s, b) => Covers(end, b)
      /\ Len(end.pending) <= n
      /\ Ready(end) = {} \/ Len(end.pending) = n - n
      /\ end.out[1] = s.out[1] /\ End(s.out) <= End(end.out)
      /\ Within(s) => Within(end)
  BY <1>5 DEF Good
<1> HIDE DEF end
<1>7. Flows(end) /\ end \in DecoderStates /\ end.pending \in Seq(Segments) /\ End(end.out) \in Int
  BY <1>6, EndIs DEF Draining, DecoderStates
<1>8. Ready(end) = {}
  <2>1. CASE Len(end.pending) = n - n
    <3>1. 1..Len(end.pending) = {}
      BY <1>0, <2>1
    <3> QED BY <3>1 DEF Ready
  <2> QED BY <1>6, <2>1
<1> DEFINE t == DrainAll(s)
<1>9. /\ t \in DecoderStates /\ t.out = end.out /\ t.next = end.next
      /\ t.pending = end.pending /\ t.bytes = end.bytes
      /\ t.gap = IF t.pending = <<>> THEN Unset ELSE end.gap
  BY <1>2, <1>7 DEF DecoderStates
<1> HIDE DEF t
<1>10. Flows(t)
  BY <1>7, <1>9 DEF Flows
<1>11. Holds(t, End(t.out))
  <2>1. ASSUME NEW i \in 1..Len(end.pending)
        PROVE  IsSegment(end.pending[i]) /\ At(end.pending[i]) \in (End(end.out) + 1)..(End(end.out) + Window - 1)
    <3>1. /\ IsSegment(end.pending[i]) /\ At(end.pending[i]) \in (p + 1)..(p + Window - 1)
          /\ End(end.out) \in p..(p + Window + MaxSegment)
      BY <1>6 DEF Draining, Holds
    <3>2. ~(At(end.pending[i]) <= End(end.out))
      BY <1>8 DEF Ready
    <3>3. At(end.pending[i]) \in Int
      BY <3>1, SegmentIs
    <3> QED BY <1>7, <3>1, <3>2, <3>3, Constants
  <2>2. end.bytes = Held(end.pending) /\ end.bytes <= BudgetBytes
    BY <1>6 DEF Draining, Holds
  <2> QED
    BY <1>9, <2>1, <2>2 DEF Holds
<1>12. \A b \in Int : Covers(s, b) => Covers(t, b)
  BY <1>6, <1>9 DEF Covers
<1>14. /\ t.out[1] = s.out[1] /\ End(s.out) <= End(t.out)
       /\ Within(s) => Within(t)
  BY <1>6, <1>9 DEF Within
<1>13. s.pending = <<>> => t.pending = <<>>
  <2>1. s.pending = <<>> => Len(end.pending) = 0
    BY <1>0, <1>6, <1>7
  <2> QED BY <1>7, <1>9, <2>1
<1> QED
  BY <1>6, <1>9, <1>10, <1>11, <1>12, <1>13, <1>14 DEF t
-----------------------------------------------------------------------------
(***************************************************************************)
(* Parking a segment.                                                      *)
(***************************************************************************)
LEMMA NothingHeld == Held(<<>>) = 0
<1> DEFINE g == [k \in 0..0 |-> 0]
           p == <<>>
<1>1. p \in Seq(Segments) /\ Len(p) = 0
  OBVIOUS
<1>2. g[0] = 0 /\ \A k \in 1..Len(p) : g[k] = g[k - 1] + Len(p[k].data)
  OBVIOUS
<1> HIDE DEF g, p
<1>3. Held(p) = g[Len(p)]
  BY <1>1, <1>2, HeldIs
<1> QED
  BY <1>1, <1>2, <1>3 DEF p

LEMMA BytesSegment ==
  ASSUME NEW at \in Int, NEW n \in 1..MaxSegment
  PROVE  LET seg == [seq |-> SeqNo(at), data |-> Bytes(at, n)]
         IN  IsSegment(seg) /\ At(seg) = at /\ Len(seg.data) = n
<1> DEFINE d == Bytes(at, n)
           seg == [seq |-> SeqNo(at), data |-> d]
<1>1. d \in Seq(Int) /\ Len(d) = n /\ d[1] = at
  <2>1. n \in Nat /\ 1 \in 1..n
    BY Constants
  <2>2. d \in Seq(Int) /\ Len(d) = n /\ \A i \in 1..n : d[i] = at + i - 1
    BY <2>1, BytesAre
  <2> QED BY <2>1, <2>2
<1>2. SeqNo(at) \in Int
  BY SeqNoIs, ModIs
<1> HIDE DEF d
<1>3. At(seg) = at /\ seg \in Segments
  BY <1>1, <1>2 DEF At, Segments
<1> QED
  BY <1>1, <1>3 DEF IsSegment, d

\* What _park does to the segments, before it looks at the budget.
LEMMA KeepIs ==
  ASSUME NEW s, NEW p \in Int, Flows(s), Holds(s, p), End(s.out) = p,
         NEW at \in Int, at \in (p + 1)..(p + Window - 1), NEW n \in 1..MaxSegment,
         \A i \in 1..Len(s.pending) : s.pending[i].seq = SeqNo(at) => Len(s.pending[i].data) < n
  PROVE  LET t == Keep(s, SeqNo(at), Bytes(at, n))
         IN  /\ t \in DecoderStates /\ t.next = s.next /\ t.out = s.out /\ t.gap = s.gap
             /\ t.pending # <<>> /\ t.bytes = Held(t.pending)
             /\ \A i \in 1..Len(t.pending) :
                  IsSegment(t.pending[i]) /\ At(t.pending[i]) \in (p + 1)..(p + Window - 1)
             /\ \A b \in Int : Covers(s, b) => Covers(t, b)
             /\ \A b \in Int : at <= b /\ b < at + n => Covers(t, b)
             /\ Within(s) /\ at + n <= Length => Within(t)
<1> DEFINE q == SeqNo(at)
           d == Bytes(at, n)
           seg == [seq |-> q, data |-> d]
           t == Keep(s, q, d)
           m == Len(s.pending)
<1>0. /\ s \in DecoderStates /\ s.pending \in Seq(Segments) /\ m \in Nat
      /\ DOMAIN s.pending = 1..m /\ s.bytes \in Int /\ s.out \in Seq(Int)
  BY EndIs DEF DecoderStates
<1>1. IsSegment(seg) /\ At(seg) = at /\ Len(d) = n /\ seg \in Segments /\ d \in Seq(Int) /\ q \in Int
  <2>1. IsSegment(seg) /\ At(seg) = at /\ Len(d) = n
    BY BytesSegment
  <2>2. n \in Nat
    BY Constants
  <2> QED
    BY <2>1, <2>2, BytesAre, SeqNoIs, ModIs DEF IsSegment
<1>2. s.bytes = Held(s.pending)
  BY DEF Holds
<1>3. \A b \in Int : at <= b /\ b < at + n => Has(seg, b)
  BY <1>1 DEF Has
<1>6. at + n <= Length => At(seg) + Len(seg.data) <= Length
  BY <1>1
<1> HIDE DEF q, d
<1>4. CASE ~ \E i \in 1..m : s.pending[i].seq = q
  <2> DEFINE w == Append(s.pending, seg)
  <2>1. t = [s EXCEPT !.pending = w, !.bytes = s.bytes + n]
    BY <1>0, <1>1, <1>4 DEF Keep
  <2>2. /\ w \in Seq(Segments) /\ Len(w) = m + 1 /\ w[m + 1] = seg /\ w # <<>>
        /\ \A j \in 1..m : w[j] = s.pending[j]
    <3> DEFINE o == s.pending
    <3>1. seg \in Segments /\ o \in Seq(Segments)
      BY <1>0, <1>1
    <3> HIDE DEF seg, o
    <3>2. /\ Append(o, seg) \in Seq(Segments) /\ Len(Append(o, seg)) = Len(o) + 1
          /\ Append(o, seg)[Len(o) + 1] = seg
          /\ \A j \in 1..Len(o) : Append(o, seg)[j] = o[j]
      BY <3>1
    <3>3. Append(o, seg) # <<>>
      BY <3>1
    <3> QED BY <3>2, <3>3 DEF o
  <2>3. Held(w) = s.bytes + n
    <3>1. Held(w) = Held(s.pending) + Len(seg.data)
      BY <1>0, <1>1, HeldAppended
    <3> QED BY <1>1, <1>2, <3>1
  <2> HIDE DEF t, w
  <2>4. /\ t \in DecoderStates /\ t.next = s.next /\ t.out = s.out /\ t.gap = s.gap
        /\ t.pending = w /\ t.bytes = s.bytes + n
    <3>1. s.bytes + n \in Int
      BY <1>0
    <3> QED BY <1>0, <2>1, <2>2, <3>1 DEF DecoderStates
  <2>5. ASSUME NEW i \in 1..Len(w)
        PROVE  IsSegment(w[i]) /\ At(w[i]) \in (p + 1)..(p + Window - 1)
    <3>1. CASE i = m + 1
      BY <1>1, <2>2, <3>1
    <3>2. CASE i # m + 1
      <4>1. i \in 1..m
        BY <1>0, <2>2, <3>2
      <4> QED BY <2>2, <4>1 DEF Holds
    <3> QED BY <3>1, <3>2
  <2>6. ASSUME NEW b \in Int, Covers(s, b) PROVE Covers(t, b)
    <3>1. CASE b < End(s.out)
      BY <2>4, <3>1 DEF Covers
    <3>2. CASE \E j \in 1..m : Has(s.pending[j], b)
      <4>1. PICK j \in 1..m : Has(s.pending[j], b)
        BY <3>2
      <4>2. j \in 1..Len(t.pending) /\ t.pending[j] = s.pending[j]
        BY <1>0, <2>2, <2>4
      <4> QED BY <4>1, <4>2, Found
    <3> QED BY <2>6, <3>1, <3>2 DEF Covers
  <2>7. ASSUME NEW b \in Int, at <= b, b < at + n PROVE Covers(t, b)
    <3>1. m + 1 \in 1..Len(t.pending) /\ t.pending[m + 1] = seg
      BY <1>0, <2>2, <2>4
    <3>2. Has(seg, b)
      BY <1>3, <2>7
    <3> HIDE DEF m, seg
    <3> QED BY <3>1, <3>2, Found
  <2>8. ASSUME Within(s), at + n <= Length PROVE Within(t)
    <3>1. ASSUME NEW i \in 1..Len(w) PROVE At(w[i]) + Len(w[i].data) <= Length
      <4> HIDE DEF seg
      <4>1. CASE i = m + 1
        BY <1>6, <2>2, <2>8, <4>1
      <4>2. CASE i # m + 1
        <5>1. i \in 1..m
          BY <1>0, <2>2, <4>2
        <5> QED BY <2>2, <2>8, <5>1 DEF Within
      <4> QED BY <4>1, <4>2
    <3> QED BY <2>4, <2>8, <3>1 DEF Within
  <2> QED
    BY <2>2, <2>3, <2>4, <2>5, <2>6, <2>7, <2>8 DEF t, q, d
<1>5. CASE \E i \in 1..m : s.pending[i].seq = q
  <2> DEFINE i == CHOOSE j \in DOMAIN s.pending : s.pending[j].seq = q
             old == s.pending[i]
             w == [s.pending EXCEPT ![i] = [s.pending[i] EXCEPT !.data = d]]
             c == s.bytes + n - Len(old.data)
  <2>0. i \in 1..m /\ old.seq = q
    BY <1>0, <1>5
  <2>1. t = [s EXCEPT !.pending = w, !.bytes = c]
    BY <1>0, <1>1, <1>5 DEF Keep
  <2> HIDE DEF i
  <2>2. /\ IsSegment(old) /\ At(old) \in (p + 1)..(p + Window - 1) /\ At(old) \in Int
        /\ old \in Segments /\ Len(old.data) \in Nat /\ q = SeqNo(At(old))
    <3>1. IsSegment(old) /\ At(old) \in (p + 1)..(p + Window - 1)
      BY <2>0 DEF Holds
    <3>2. At(old) \in Int /\ old \in Segments /\ Len(old.data) \in 1..MaxSegment /\ old.seq = SeqNo(At(old))
      BY <3>1, SegmentIs
    <3> QED BY <2>0, <3>1, <3>2, Constants
  <2>3. [old EXCEPT !.data = d] = seg
    BY <2>0, <2>2 DEF Segments
  <2>4. At(old) = at
    <3> DEFINE a == At(old)
    <3>1. a \in Int /\ a \in (p + 1)..(p + Window - 1) /\ SeqNo(a) = SeqNo(at)
      BY <2>2 DEF q
    <3> HIDE DEF a, old
    <3>2. 2 * (a - at) < Mod /\ 2 * (at - a) < Mod /\ 2 * (at - at) < Mod
      BY <3>1, Constants
    <3>3. Delta(SeqNo(a), SeqNo(at)) = a - at
      BY <3>1, <3>2, DeltaIsDistance
    <3>4. Delta(SeqNo(at), SeqNo(at)) = at - at
      BY <3>2, DeltaIsDistance
    <3>5. a = at
      BY <3>1, <3>3, <3>4
    <3> QED BY <3>5 DEF a
  <2>5. Len(old.data) < n
    BY <2>0 DEF q
  <2>6. /\ w \in Seq(Segments) /\ Len(w) = m /\ w[i] = seg /\ w # <<>>
        /\ \A j \in 1..m : j # i => w[j] = s.pending[j]
    <3> DEFINE v == [s.pending EXCEPT ![i] = seg]
    <3>1. w = v
      BY <2>3
    <3>2. /\ v \in Seq(Segments) /\ Len(v) = m /\ v[i] = seg /\ v # <<>>
          /\ \A j \in 1..m : j # i => v[j] = s.pending[j]
      <4> HIDE DEF seg
      <4> QED BY <1>0, <1>1, <2>0
    <3> HIDE DEF v, w
    <3> QED BY <3>1, <3>2
  <2>7. Held(w) = c /\ c \in Int
    <3>1. Held(w) = Held(s.pending) + Len(w[i].data) - Len(s.pending[i].data)
      <4> HIDE DEF w
      <4> QED BY <1>0, <2>0, <2>6, HeldReplaced
    <3>2. Len(w[i].data) = n
      <4> HIDE DEF w
      <4> QED BY <1>1, <2>6
    <3>3. Held(w) = s.bytes + n - Len(old.data)
      BY <1>2, <3>1, <3>2
    <3>4. n \in Int /\ s.bytes \in Int /\ Len(old.data) \in Int
      BY <1>0, <2>2
    <3> HIDE DEF w, old
    <3> QED BY <3>3, <3>4
  <2> HIDE DEF t, w, c, old
  <2>8. /\ t \in DecoderStates /\ t.next = s.next /\ t.out = s.out /\ t.gap = s.gap
        /\ t.pending = w /\ t.bytes = c
    BY <1>0, <2>1, <2>6, <2>7 DEF DecoderStates
  <2>9. ASSUME NEW j \in 1..Len(w)
        PROVE  IsSegment(w[j]) /\ At(w[j]) \in (p + 1)..(p + Window - 1)
    <3>1. CASE j = i
      BY <1>1, <2>6, <3>1
    <3>2. CASE j # i
      <4>1. w[j] = s.pending[j] /\ j \in 1..m
        BY <2>6, <3>2
      <4> QED BY <4>1 DEF Holds
    <3> QED BY <3>1, <3>2
  <2>10. ASSUME NEW b \in Int, at <= b, b < at + n PROVE Covers(t, b)
    <3>1. i \in 1..Len(t.pending) /\ t.pending[i] = seg
      BY <2>0, <2>6, <2>8
    <3>2. Has(seg, b)
      BY <1>3, <2>10
    <3> HIDE DEF seg
    <3> QED BY <3>1, <3>2, Found
  <2>11. ASSUME NEW b \in Int, Covers(s, b) PROVE Covers(t, b)
    <3>1. CASE b < End(s.out)
      BY <2>8, <3>1 DEF Covers
    <3>2. CASE \E j \in 1..m : Has(s.pending[j], b)
      <4>1. PICK j \in 1..m : Has(s.pending[j], b)
        BY <3>2
      <4>2. CASE j = i
        <5>1. at <= b /\ b < at + Len(old.data)
          BY <2>4, <4>1, <4>2 DEF Has, old
        <5>2. b < at + n
          BY <2>2, <2>5, <5>1
        <5> QED BY <2>10, <5>1, <5>2
      <4>3. CASE j # i
        <5>1. j \in 1..Len(t.pending) /\ t.pending[j] = s.pending[j]
          BY <2>6, <2>8, <4>3
        <5> QED BY <4>1, <5>1, Found
      <4> QED BY <4>2, <4>3
    <3> QED BY <2>11, <3>1, <3>2 DEF Covers
  <2>12. ASSUME Within(s), at + n <= Length PROVE Within(t)
    <3>1. ASSUME NEW j \in 1..Len(w) PROVE At(w[j]) + Len(w[j].data) <= Length
      <4> HIDE DEF seg
      <4>1. CASE j = i
        BY <1>6, <2>6, <2>12, <4>1
      <4>2. CASE j # i
        BY <2>6, <2>12, <4>2 DEF Within
      <4> QED BY <4>1, <4>2
    <3> QED BY <2>8, <2>12, <3>1 DEF Within
  <2> QED
    BY <2>6, <2>7, <2>8, <2>9, <2>10, <2>11, <2>12 DEF t, q, d
<1> QED
  BY <1>4, <1>5
-----------------------------------------------------------------------------
(***************************************************************************)
(* The steps.                                                              *)
(***************************************************************************)
\* What the invariant says of a decoder that has found the stream, after the
\* bytes of seen have arrived.
Follows(s, seen) ==
  /\ Flows(s) /\ Holds(s, End(s.out))
  /\ s.gap = Unset <=> s.pending = <<>>
  /\ seen \subseteq Int /\ \A b \in seen : Covers(s, b)

LEMMA StateIs ==
  ASSUME FInv, dec.next # Unset
  PROVE  /\ Follows(State, arrived) /\ Position = End(out) /\ Position \in Int
         /\ State.out = out /\ State.next = dec.next /\ State.pending = dec.pending
         /\ State.bytes = dec.bytes /\ State.gap = dec.gap
<1>1. /\ State.out = out /\ State.next = dec.next /\ State.pending = dec.pending
      /\ State.bytes = dec.bytes /\ State.gap = dec.gap
  BY DEF State
<1>2. Follows(State, arrived)
  BY <1>1 DEF FInv, Follows
<1>3. Position = End(out)
  BY DEF Position, End
<1>4. End(State.out) \in Int
  BY <1>2, EndIs DEF Follows
<1> QED
  BY <1>1, <1>2, <1>3, <1>4

LEMMA BecomesFollowing ==
  ASSUME FInv, NEW s, Becomes(s), Follows(s, arrived'), now' \in Int
  PROVE  FInv'
<1>1. /\ s \in DecoderStates /\ s.next \in Int /\ s.next # Unset /\ s.pending \in Seq(Segments)
      /\ s.bytes \in Int /\ s.gap \in Int \cup {Unset} /\ s.out \in Seq(Int)
  BY EndIs, Constants DEF Follows, DecoderStates
<1>2. /\ dec' = [next |-> s.next, pending |-> s.pending, bytes |-> s.bytes, gap |-> s.gap]
      /\ out' = s.out
  BY DEF Becomes
<1>3. s = [next |-> s.next, pending |-> s.pending, bytes |-> s.bytes, gap |-> s.gap,
           out |-> s.out]
  BY <1>1 DEF DecoderStates
<1>4. /\ dec'.next = s.next /\ dec'.pending = s.pending /\ dec'.bytes = s.bytes
      /\ dec'.gap = s.gap
  BY <1>2
<1>5. State' = s
  BY <1>2, <1>3, <1>4 DEF State
<1>6. dec' \in [next : Int \cup {Unset}, pending : Seq(Segments), bytes : Int,
                gap : Int \cup {Unset}]
  BY <1>1, <1>2
<1>7. arrived' \subseteq Int /\ (dec'.gap = Unset <=> dec'.pending = <<>>)
  BY <1>4 DEF Follows
<1>8. Flows(State)' /\ Holds(State, End(out))' /\ \A b \in arrived' : Covers(State, b)'
  <2>1. Flows(s) /\ Holds(s, End(s.out)) /\ \A b \in arrived' : Covers(s, b)
    BY DEF Follows
  <2>2. Flows(State') /\ Holds(State', End(out')) /\ \A b \in arrived' : Covers(State', b)
    BY <1>2, <1>5, <2>1
  <2> QED
    BY <2>2 DEF Flows, Holds, Covers, End, SeqNo, Held, IsSegment, At, Has, Bytes, DecoderStates, Segments
<1> QED
  BY <1>1, <1>2, <1>4, <1>6, <1>7, <1>8 DEF FInv

\* The framer starts anew with a segment.
LEMMA Afresh ==
  ASSUME NEW at \in Int, NEW n \in 1..MaxSegment, NEW s,
         s = [next |-> SeqNo(at + n), pending |-> <<>>, bytes |-> 0, gap |-> Unset,
              out |-> Bytes(at, n)]
  PROVE  Follows(s, ToSet(Bytes(at, n)))
<1>0. n \in Nat /\ n >= 1 /\ at + n \in Int
  BY Constants
<1> DEFINE d == Bytes(at, n)
<1>1. d \in Seq(Int) /\ Len(d) = n /\ \A i \in 1..n : d[i] = at + i - 1
  BY <1>0, BytesAre
<1>2. ToSet(d) = {b \in Int : at <= b /\ b < at + n}
  BY <1>0, SetOfBytes
<1>3. SeqNo(at + n) \in Int
  BY <1>0, SeqNoIs, ModIs
<1> HIDE DEF d
<1>4. /\ s.out = d /\ s.next = SeqNo(at + n) /\ s.pending = <<>> /\ s.bytes = 0
      /\ s.gap = Unset
  BY DEF d
<1>5. s \in DecoderStates
  <2>1. <<>> \in Seq(Segments)
    OBVIOUS
  <2> QED BY <1>1, <1>3, <2>1 DEF DecoderStates, d
<1>6. End(d) = at + n /\ d # <<>>
  <2>1. n \in 1..n /\ d[n] = at + n - 1
    BY <1>0, <1>1
  <2> QED BY <1>0, <1>1, <2>1 DEF End, Last
<1>7. \A i \in 1..(Len(d) - 1) : d[i + 1] = d[i] + 1
  <2> SUFFICES ASSUME NEW i \in 1..(n - 1) PROVE d[i + 1] = d[i] + 1
    BY <1>1
  <2>1. i \in 1..n /\ i + 1 \in 1..n
    BY <1>0
  <2>2. d[i] = at + i - 1 /\ d[i + 1] = at + (i + 1) - 1
    BY <1>1, <2>1
  <2> QED BY <2>2
<1>8. Flows(s)
  BY <1>4, <1>5, <1>6, <1>7 DEF Flows
<1>9. Holds(s, End(s.out))
  <2>1. Len(s.pending) = 0 /\ 1..Len(s.pending) = {}
    BY <1>4
  <2> QED BY <1>4, <2>1, NothingHeld, Constants DEF Holds
<1>10. \A b \in ToSet(d) : b \in Int /\ Covers(s, b)
  BY <1>2, <1>4, <1>6 DEF Covers
<1> QED
  BY <1>4, <1>8, <1>9, <1>10 DEF Follows, d

\* A segment within the window of a decoder that has found the stream.
LEMMA Near ==
  ASSUME FInv, dec.next # Unset, NEW at \in Int, at - Position \in (1 - Window)..(Window - 1)
  PROVE  Delta(SeqNo(at), dec.next) = at - Position
<1>1. Position \in Int /\ dec.next = SeqNo(Position)
  BY StateIs DEF Follows, Flows
<1> DEFINE p == Position
<1>2. 2 * (at - p) < Mod /\ 2 * (p - at) < Mod
  <2> HIDE DEF p
  <2> QED BY <1>1, Constants DEF p
<1> HIDE DEF p
<1> QED
  BY <1>1, <1>2, DeltaIsDistance DEF p

LEMMA FirstStep ==
  ASSUME FInv, NEW at \in Int, NEW n \in 1..MaxSegment, First(at, n), now' = now
  PROVE  FInv'
<1> DEFINE s == [State EXCEPT !.next = SeqNo(at + n), !.out = Bytes(at, n)]
<1>1. /\ dec.next = Unset /\ Becomes(s) /\ arrived' = ToSet(Bytes(at, n))
  BY DEF First
<1>2. dec.pending = <<>> /\ dec.bytes = 0 /\ dec.gap = Unset
  BY <1>1 DEF FInv
<1>3. s = [next |-> SeqNo(at + n), pending |-> <<>>, bytes |-> 0, gap |-> Unset,
           out |-> Bytes(at, n)]
  <2> DEFINE q == SeqNo(at + n)
             d == Bytes(at, n)
  <2>1. q \in Int /\ d \in Seq(Int)
    BY SeqNoIs, BytesAre, ModIs, Constants
  <2>2. State \in [next : Int \cup {Unset}, pending : Seq(Segments), bytes : Int,
                   gap : Int \cup {Unset}, out : Seq(Int)]
    BY DEF State, FInv
  <2>3. State.pending = <<>> /\ State.bytes = 0 /\ State.gap = Unset
    BY <1>2 DEF State
  <2> HIDE DEF q, d
  <2>4. s \in DecoderStates
    BY <2>1, <2>2 DEF DecoderStates, q, d
  <2>5. s.next = q /\ s.out = d /\ s.pending = <<>> /\ s.bytes = 0 /\ s.gap = Unset
    BY <2>2, <2>3 DEF q, d
  <2> HIDE DEF s
  <2>6. s = [next |-> s.next, pending |-> s.pending, bytes |-> s.bytes, gap |-> s.gap,
             out |-> s.out]
    BY <2>4 DEF DecoderStates
  <2> QED
    BY <2>5, <2>6 DEF q, d
<1> HIDE DEF s
<1>4. Follows(s, arrived')
  BY <1>1, <1>3, Afresh
<1>5. now' \in Int
  BY DEF FInv
<1> QED
  BY <1>1, <1>4, <1>5, BecomesFollowing

LEMMA GiveUpStep ==
  ASSUME FInv, NEW at \in Int, NEW n \in 1..MaxSegment, GiveUp(at, n), now' = now
  PROVE  FInv'
<1> DEFINE s == [next |-> SeqNo(at + n), pending |-> <<>>, bytes |-> 0, gap |-> Unset,
                 out |-> Bytes(at, n)]
<1>1. Becomes(s) /\ arrived' = ToSet(Bytes(at, n))
  BY DEF GiveUp
<1>2. Follows(s, ToSet(Bytes(at, n)))
  BY Afresh
<1> HIDE DEF s
<1>3. now' \in Int
  BY DEF FInv
<1> QED
  BY <1>1, <1>2, <1>3, BecomesFollowing

LEMMA RepeatedStep ==
  ASSUME FInv, NEW at \in Int, NEW n \in 1..MaxSegment, Repeated(at, n), now' = now,
         at - Position \in (1 - Window)..(Window - 1)
  PROVE  FInv'
<1>1. dec.next # Unset /\ dec' = dec /\ out' = out /\ arrived' = arrived \cup ToSet(Bytes(at, n))
  BY DEF Repeated, Ahead
<1>2. PICK i \in DOMAIN dec.pending :
        dec.pending[i].seq = SeqNo(at) /\ n <= Len(dec.pending[i].data)
  BY DEF Repeated, Known
<1> DEFINE seg == dec.pending[i]
           p == Position
<1>3. /\ Follows(State, arrived) /\ p \in Int /\ p = End(State.out) /\ State.pending = dec.pending
      /\ dec.pending \in Seq(Segments) /\ i \in 1..Len(dec.pending)
  BY <1>1, StateIs DEF FInv
<1>4. /\ IsSegment(seg) /\ At(seg) \in (p + 1)..(p + Window - 1) /\ seg \in Segments
      /\ At(seg) \in Int /\ seg.seq = SeqNo(At(seg)) /\ Len(seg.data) \in Nat
  <2>1. IsSegment(seg) /\ At(seg) \in (p + 1)..(p + Window - 1)
    BY <1>3 DEF Follows, Holds
  <2>2. seg \in Segments /\ At(seg) \in Int /\ seg.seq = SeqNo(At(seg)) /\ Len(seg.data) \in 1..MaxSegment
    BY <2>1, SegmentIs
  <2> QED BY <2>1, <2>2, Constants
<1>5. At(seg) = at
  <2> DEFINE a == At(seg)
  <2>1. SeqNo(a) = SeqNo(at) /\ a \in Int /\ a \in (p + 1)..(p + Window - 1)
    BY <1>2, <1>4
  <2>0. a - p \in (1 - Window)..(Window - 1)
    <3> HIDE DEF a, p
    <3> QED BY <1>3, <2>1, Constants
  <2> HIDE DEF a
  <2>2. Delta(SeqNo(a), dec.next) = a - p
    BY <1>1, <2>0, <2>1, Near
  <2>3. Delta(SeqNo(at), dec.next) = at - p
    BY <1>1, Near
  <2>4. a = at
    <3> HIDE DEF p
    <3> QED BY <1>3, <2>1, <2>2, <2>3
  <2> QED BY <2>4 DEF a
<1>6. ASSUME NEW b \in ToSet(Bytes(at, n)) PROVE b \in Int /\ Covers(State, b)
  <2>1. b \in Int /\ at <= b /\ b < at + n
    BY SetOfBytes, Constants
  <2>2. Has(seg, b)
    <3> HIDE DEF seg
    <3>1. n <= Len(seg.data)
      BY <1>2 DEF seg
    <3> QED BY <1>4, <1>5, <2>1, <3>1, Constants DEF Has
  <2>3. Covers(State, b)
    <3>1. i \in 1..Len(State.pending) /\ Has(State.pending[i], b)
      BY <1>3, <2>2
    <3> QED BY <3>1, Found
  <2> QED BY <2>1, <2>3
<1>7. Follows(State, arrived')
  BY <1>1, <1>3, <1>6 DEF Follows
<1>8. Becomes(State)
  <2>1. dec = [next |-> dec.next, pending |-> dec.pending, bytes |-> dec.bytes, gap |-> dec.gap]
    BY DEF FInv
  <2> QED BY <1>1, <2>1, StateIs DEF Becomes
<1>9. now' \in Int
  BY DEF FInv
<1> HIDE DEF p, seg
<1> QED
  BY <1>7, <1>8, <1>9, BecomesFollowing

\* A segment with new bytes: they are fed, and the drain begins.
Continues(s, at, n) ==
  /\ Becomes(DrainAll(s)) /\ Draining(s, Position) /\ End(s.out) = at + n
  /\ s.pending = State.pending /\ s.gap = State.gap /\ s.out[1] = State.out[1]

LEMMA InOrderDrains ==
  ASSUME FInv, NEW at \in Int, NEW n \in 1..MaxSegment, InOrder(at, n),
         at - Position \in (1 - Window)..(Window - 1), Position - at < n
  PROVE  \E s : Continues(s, at, n)
<1> DEFINE p == Position
           d == Delta(SeqNo(at), dec.next)
<1>0. dec.next # Unset /\ d <= 0 /\ n \in Nat /\ n >= 1
  BY Constants DEF InOrder
<1>1. Follows(State, arrived) /\ p \in Int /\ p = End(State.out)
  BY <1>0, StateIs
<1>2. d = at - p
  BY <1>0, Near
<1>4. at <= p /\ p - at <= Window
  <2> HIDE DEF d, p
  <2>1. at - p <= 0
    BY <1>0, <1>2
  <2>2. p - at <= Window
    BY <1>1, Constants DEF p
  <2> QED BY <1>1, <2>1, <2>2
<1>6. p - at < n
  OBVIOUS
<1> DEFINE k == at + n - p
           s == Feed(State, Unfed(Bytes(at, n), d))
           t == DrainAll(s)
<1>11. Becomes(t)
  <2>1. ~(-d >= n)
    <3> HIDE DEF d, p
    <3> QED BY <1>1, <1>2, <1>6
  <2> QED BY <2>1 DEF InOrder
<1>12. k \in Nat /\ k <= n
  <2> HIDE DEF p
  <2> QED BY <1>0, <1>1, <1>4, <1>6
<1>13. Unfed(Bytes(at, n), d) = Bytes(p, k)
  <2>1. Unfed(Bytes(at, n), at - p) = Bytes(p, IF p - at >= n THEN 0 ELSE at + n - p)
    <3> HIDE DEF p
    <3> QED BY <1>0, <1>1, <1>4, UnfedIs
  <2>2. ~(p - at >= n)
    <3> HIDE DEF p
    <3> QED BY <1>0, <1>1, <1>6
  <2> HIDE DEF p, d
  <2> QED BY <1>2, <2>1, <2>2
<1> DEFINE u == Feed(State, Bytes(End(State.out), k))
<1>14. s = u
  <2> HIDE DEF p, k, d
  <2> QED BY <1>1, <1>13
<1>15. Flows(u) /\ End(u.out) = End(State.out) + k /\ u.pending = State.pending
       /\ u.out[1] = State.out[1]
       /\ u.bytes = State.bytes /\ u.gap = State.gap
  <2> HIDE DEF k
  <2> QED BY <1>1, <1>12, FeedIs DEF Follows
<1> HIDE DEF u, t, s
<1>16. Flows(s) /\ End(s.out) = p + k /\ s.pending = State.pending /\ s.bytes = State.bytes
       /\ s.gap = State.gap /\ s.out[1] = State.out[1]
  <2> HIDE DEF k, p
  <2> QED BY <1>1, <1>14, <1>15
<1>17. Holds(State, p)
  BY <1>1 DEF Follows
<1> HIDE DEF p
<1>18. Draining(s, p)
  <2>1. End(s.out) \in p..(p + Window + MaxSegment)
    <3> HIDE DEF k
    <3> QED BY <1>0, <1>1, <1>12, <1>16, Constants
  <2>2. Holds(s, p)
    BY <1>16, <1>17 DEF Holds
  <2> QED BY <1>16, <2>1, <2>2 DEF Draining
<1>19. End(s.out) = at + n
  <2> HIDE DEF k
  <2>1. p + k = at + n
    BY <1>1 DEF k
  <2> QED BY <1>16, <2>1
<1> QED
  BY <1>11, <1>16, <1>18, <1>19 DEF Continues, p, t

LEMMA InOrderStep ==
  ASSUME FInv, NEW at \in Int, NEW n \in 1..MaxSegment, InOrder(at, n), now' = now,
         at - Position \in (1 - Window)..(Window - 1)
  PROVE  FInv'
<1> DEFINE p == Position
           d == Delta(SeqNo(at), dec.next)
           new == ToSet(Bytes(at, n))
<1>0. dec.next # Unset /\ d <= 0 /\ arrived' = arrived \cup new /\ n \in Nat /\ n >= 1
  BY Constants DEF InOrder
<1>1. /\ Follows(State, arrived) /\ p \in Int /\ p = End(State.out)
      /\ now' \in Int
  BY <1>0, StateIs DEF FInv
<1>2. d = at - p
  BY <1>0, Near
<1>3. new = {b \in Int : at <= b /\ b < at + n}
  BY <1>0, SetOfBytes
<1>4. at <= p /\ p - at <= Window
  <2> HIDE DEF d, p
  <2>1. at - p <= 0
    BY <1>0, <1>2
  <2>2. p - at <= Window
    BY <1>1, Constants DEF p
  <2> QED BY <1>1, <2>1, <2>2
<1>5. CASE p - at >= n
  <2>1. UNCHANGED <<dec, out>>
    <3>1. -d >= n
      <4> HIDE DEF d, p
      <4> QED BY <1>1, <1>2, <1>5
    <3> QED BY <3>1 DEF InOrder
  <2>2. \A b \in new : b \in Int /\ Covers(State, b)
    <3> HIDE DEF p, new
    <3>1. \A b \in new : b \in Int /\ b < p
      BY <1>0, <1>1, <1>3, <1>5
    <3> QED BY <1>1, <3>1 DEF Covers
  <2> HIDE DEF new
  <2>3. Follows(State, arrived')
    BY <1>0, <1>1, <2>2 DEF Follows
  <2>4. Becomes(State)
    <3>1. dec = [next |-> dec.next, pending |-> dec.pending, bytes |-> dec.bytes, gap |-> dec.gap]
      BY DEF FInv
    <3> QED BY <1>0, <2>1, <3>1, StateIs DEF Becomes
  <2> QED
    BY <1>1, <2>3, <2>4, BecomesFollowing
<1>6. CASE p - at < n
  <2>6. PICK s : Continues(s, at, n)
    BY <1>6, InOrderDrains
  <2> DEFINE t == DrainAll(s)
  <2>7. /\ Becomes(t) /\ Draining(s, p) /\ End(s.out) = at + n
        /\ s.pending = State.pending /\ s.gap = State.gap
    BY <2>6 DEF Continues
  <2> HIDE DEF t, p, new
  <2>9. \A b \in Int : Covers(State, b) => Covers(s, b)
    <3>1. End(State.out) <= End(s.out) /\ End(State.out) \in Int /\ End(s.out) \in Int
      BY <1>0, <1>1, <1>6, <2>7
    <3>2. \A b \in Int : b < End(State.out) => b < End(s.out)
      BY <3>1
    <3> QED BY <2>7, <3>2 DEF Covers
  <2>10. \A b \in new : b \in Int /\ Covers(s, b)
    BY <1>3, <2>7 DEF Covers
  <2>11. /\ Flows(t) /\ Holds(t, End(t.out))
         /\ \A b \in Int : Covers(s, b) => Covers(t, b)
         /\ t.gap = IF t.pending = <<>> THEN Unset ELSE s.gap
         /\ s.pending = <<>> => t.pending = <<>>
    BY <1>1, <2>7, DrainAllIs DEF t
  <2>12. t.gap = Unset <=> t.pending = <<>>
    <3>1. State.gap = Unset <=> State.pending = <<>>
      BY <1>1 DEF Follows
    <3> QED BY <2>7, <2>11, <3>1
  <2>13. arrived' \subseteq Int /\ \A b \in arrived' : Covers(t, b)
    BY <1>0, <1>1, <2>9, <2>10, <2>11 DEF Follows
  <2>14. Follows(t, arrived')
    BY <2>11, <2>12, <2>13 DEF Follows
  <2> QED
    BY <1>1, <2>7, <2>14, BecomesFollowing
<1> QED
  <2> HIDE DEF p
  <2> QED BY <1>0, <1>1, <1>5, <1>6

LEMMA ParkStep ==
  ASSUME FInv, NEW at \in Int, NEW n \in 1..MaxSegment, Park(at, n), now' = now,
         at - Position \in (1 - Window)..(Window - 1)
  PROVE  FInv'
<1> DEFINE p == Position
           k == Keep(State, SeqNo(at), Bytes(at, n))
           t == [k EXCEPT !.gap = IF @ = Unset THEN now ELSE @]
           new == ToSet(Bytes(at, n))
<1>0. /\ dec.next # Unset /\ Delta(SeqNo(at), dec.next) > 0 /\ ~Known(at, n)
      /\ ~OverBudget(t) /\ Becomes(t) /\ arrived' = arrived \cup new /\ n \in Nat
  BY Constants DEF Park, Ahead, Parked
<1>1. /\ Follows(State, arrived) /\ p \in Int /\ p = End(State.out) /\ now \in Int /\ now' \in Int
      /\ State.pending = dec.pending /\ DOMAIN dec.pending = 1..Len(dec.pending)
      /\ dec.pending \in Seq(Segments)
  BY <1>0, StateIs DEF FInv
<1>2. at - p > 0
  BY <1>0, Near
<1>3. at \in (p + 1)..(p + Window - 1)
  <2> HIDE DEF p
  <2>1. at - p \in (1 - Window)..(Window - 1)
    BY DEF p
  <2> QED BY <1>1, <1>2, <2>1, Constants
<1>4. \A i \in 1..Len(State.pending) :
        State.pending[i].seq = SeqNo(at) => Len(State.pending[i].data) < n
  <2> SUFFICES ASSUME NEW i \in 1..Len(dec.pending), dec.pending[i].seq = SeqNo(at)
               PROVE  Len(dec.pending[i].data) < n
    BY <1>1
  <2>1. ~(n <= Len(dec.pending[i].data))
    BY <1>0, <1>1 DEF Known
  <2>2. Len(dec.pending[i].data) \in Nat
    BY <1>1, Lengths
  <2> QED BY <1>0, <2>1, <2>2
<1>5. /\ k \in DecoderStates /\ k.next = State.next /\ k.out = State.out /\ k.gap = State.gap
      /\ k.pending # <<>> /\ k.bytes = Held(k.pending)
      /\ \A i \in 1..Len(k.pending) :
           IsSegment(k.pending[i]) /\ At(k.pending[i]) \in (p + 1)..(p + Window - 1)
      /\ \A b \in Int : Covers(State, b) => Covers(k, b)
      /\ \A b \in Int : at <= b /\ b < at + n => Covers(k, b)
  <2> HIDE DEF p
  <2>1. Flows(State) /\ Holds(State, p)
    BY <1>1 DEF Follows
  <2> QED BY <1>1, <1>3, <1>4, <2>1, KeepIs
<1> HIDE DEF k
<1>6. /\ t \in DecoderStates /\ t.next = k.next /\ t.out = k.out /\ t.pending = k.pending
      /\ t.bytes = k.bytes /\ t.gap = IF k.gap = Unset THEN now ELSE k.gap
  BY <1>1, <1>5 DEF DecoderStates
<1> HIDE DEF t, p, new
<1>7. t.gap # Unset
  BY <1>1, <1>6, Constants
<1>8. t.bytes <= BudgetBytes
  <2>1. ~(t.bytes > BudgetBytes) /\ t.bytes \in Int
    BY <1>0, <1>6 DEF OverBudget, DecoderStates
  <2> QED BY <2>1, Constants
<1>9. Flows(t) /\ End(t.out) = p
  <2>1. Flows(State)
    BY <1>1 DEF Follows
  <2> QED BY <1>1, <1>5, <1>6, <2>1 DEF Flows
<1>10. Holds(t, End(t.out))
  BY <1>5, <1>6, <1>8, <1>9 DEF Holds
<1>11. \A b \in Int : Covers(k, b) => Covers(t, b)
  BY <1>6 DEF Covers
<1>12. new = {b \in Int : at <= b /\ b < at + n}
  BY <1>0, SetOfBytes DEF new
<1>13. arrived' \subseteq Int /\ \A b \in arrived' : Covers(t, b)
  BY <1>0, <1>1, <1>5, <1>11, <1>12 DEF Follows
<1>14. Follows(t, arrived')
  BY <1>5, <1>6, <1>7, <1>9, <1>10, <1>13 DEF Follows
<1> QED
  BY <1>0, <1>1, <1>14, BecomesFollowing

LEMMA FInvInit == FInit => FInv
<1> SUFFICES ASSUME FInit PROVE FInv
  OBVIOUS
<1>1. dec = [next |-> Unset, pending |-> <<>>, bytes |-> 0, gap |-> Unset]
      /\ out = <<>> /\ now = 0 /\ arrived = {}
  BY DEF FInit
<1>2. <<>> \in Seq(Segments) /\ <<>> \in Seq(Int)
  OBVIOUS
<1> QED
  BY <1>1, <1>2 DEF FInv

\* The invariant does not look at the clock, nor does a stutter matter.
LEMMA SameDecoder ==
  ASSUME FInv, dec' = dec, out' = out, arrived' = arrived, now' \in Int
  PROVE  FInv'
<1>1. CASE dec.next = Unset
  BY <1>1 DEF FInv
<1>2. CASE dec.next # Unset
  <2>1. dec = [next |-> dec.next, pending |-> dec.pending, bytes |-> dec.bytes, gap |-> dec.gap]
    BY DEF FInv
  <2>2. Becomes(State)
    BY <1>2, <2>1, StateIs DEF Becomes
  <2>3. Follows(State, arrived')
    BY <1>2, StateIs
  <2> QED
    BY <2>2, <2>3, BecomesFollowing
<1> QED
  BY <1>1, <1>2

LEMMA FInvStep == FInv /\ [FNext]_dvars => FInv'
<1> SUFFICES ASSUME FInv, [FNext]_dvars PROVE FInv'
  OBVIOUS
<1>1. CASE FeedSegment
  <2>1. PICK at \in 0..(Length - 1), n \in 1..MaxSegment :
          /\ dec.next # Unset => at - Position \in (1 - Window)..(Window - 1)
          /\ First(at, n) \/ InOrder(at, n) \/ Repeated(at, n) \/ Park(at, n) \/ GiveUp(at, n)
          /\ now' = now
    BY <1>1 DEF FeedSegment
  <2>2. at \in Int
    BY Constants
  <2>3. CASE First(at, n)
    BY <2>1, <2>2, <2>3, FirstStep
  <2>4. CASE InOrder(at, n)
    <3>1. dec.next # Unset
      BY <2>4 DEF InOrder
    <3> QED BY <2>1, <2>2, <2>4, <3>1, InOrderStep
  <2>5. CASE Repeated(at, n)
    <3>1. dec.next # Unset
      BY <2>5 DEF Repeated, Ahead
    <3> QED BY <2>1, <2>2, <2>5, <3>1, RepeatedStep
  <2>6. CASE Park(at, n)
    <3>1. dec.next # Unset
      BY <2>6 DEF Park, Ahead
    <3> QED BY <2>1, <2>2, <2>6, <3>1, ParkStep
  <2>7. CASE GiveUp(at, n)
    BY <2>1, <2>2, <2>7, GiveUpStep
  <2> QED
    BY <2>1, <2>3, <2>4, <2>5, <2>6, <2>7
<1>2. CASE Tick
  <2>1. dec' = dec /\ out' = out /\ arrived' = arrived /\ now' = now + 1 /\ now \in Int
    BY <1>2 DEF Tick, FInv
  <2> QED BY <2>1, SameDecoder
<1>3. CASE UNCHANGED dvars
  <2>1. dec' = dec /\ out' = out /\ arrived' = arrived /\ now' \in Int
    BY <1>3 DEF dvars, FInv
  <2> QED BY <2>1, SameDecoder
<1> QED
  BY <1>1, <1>2, <1>3 DEF FNext

-----------------------------------------------------------------------------
\* Everything pending lies ahead, within the window, is counted right, and
\* every byte that arrived was fed or is pending (feed_segment, _drain, _park).
THEOREM DecoderInvariant == FSpec => []FInv
<1> QED
  BY FInvInit, FInvStep, PTL DEF FSpec

LEMMA FInvUnbroken == FInv => Unbroken
<1> SUFFICES ASSUME FInv PROVE Unbroken
  OBVIOUS
<1>1. CASE dec.next = Unset
  <2>1. out = <<>> /\ Len(out) = 0
    BY <1>1 DEF FInv
  <2>2. 1..(Len(out) - 1) = {}
    BY <2>1
  <2> QED BY <1>1, <2>2 DEF Unbroken
<1>2. CASE dec.next # Unset
  <2>1. Flows(State) /\ State.out = out /\ State.next = dec.next /\ Position = End(out)
    BY <1>2, StateIs DEF Follows
  <2> QED BY <2>1 DEF Flows, Unbroken
<1> QED
  BY <1>1, <1>2

\* The framer is fed an unbroken piece of the stream, each byte once, however
\* the segments overlap, repeat and wrap around.
THEOREM StreamIsUnbroken == FSpec => []Unbroken
<1> QED
  BY DecoderInvariant, FInvUnbroken, PTL

LEMMA FInvNothingStuck == FInv => NothingStuck
<1> SUFFICES ASSUME FInv PROVE NothingStuck
  OBVIOUS
<1>0. dec.gap = Unset <=> dec.pending = <<>>
  BY DEF FInv
<1>1. CASE dec.next = Unset
  <2>1. dec.pending = <<>> /\ dec.bytes = 0
    BY <1>1 DEF FInv
  <2> QED BY <1>0, <1>1, <2>1, NothingHeld, Constants DEF NothingStuck
<1>2. CASE dec.next # Unset
  <2> DEFINE p == Position
  <2>1. /\ Follows(State, arrived) /\ p \in Int /\ p = End(State.out)
        /\ State.pending = dec.pending /\ State.bytes = dec.bytes
    BY <1>2, StateIs
  <2> HIDE DEF p
  <2>2. ASSUME p \in arrived PROVE FALSE
    <3>1. Covers(State, p)
      BY <2>1, <2>2 DEF Follows
    <3>2. PICK i \in 1..Len(State.pending) : Has(State.pending[i], p)
      BY <2>1, <3>1 DEF Covers
    <3>3. IsSegment(State.pending[i]) /\ At(State.pending[i]) \in (p + 1)..(p + Window - 1)
      BY <2>1 DEF Follows, Holds
    <3>4. At(State.pending[i]) \in Int
      BY <3>3, SegmentIs
    <3>5. At(State.pending[i]) <= p
      BY <3>2 DEF Has
    <3> QED BY <2>1, <3>3, <3>4, <3>5, Constants
  <2>3. dec.bytes = Held(dec.pending) /\ dec.bytes <= BudgetBytes
    BY <2>1 DEF Follows, Holds
  <2> QED
    BY <1>0, <2>2, <2>3 DEF NothingStuck, p
<1> QED
  BY <1>1, <1>2

\* No byte that could be fed is held back, and what is held back is counted
\* right, within the budget, and has its clock running.
THEOREM NothingIsStuck == FSpec => []NothingStuck
<1> QED
  BY DecoderInvariant, FInvNothingStuck, PTL
=============================================================================
