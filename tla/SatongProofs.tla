---------------------------- MODULE SatongProofs ----------------------------
(***************************************************************************)
(* What becomes of shouts, proved for any PCs, clients, clocks, windows    *)
(* and limits, whatever goes wrong on the way.                             *)
(***************************************************************************)
EXTENDS Satong, FiniteSetTheorems, WellFoundedInduction, TLAPS

Observation == [pc : Pcs, copy : Nat, text : Texts, at : Nat]

\* The observations of what was shouted.
Known == {o \in Observation : ShoutOf(o) \in ToSet(shouts)}

Jobs == {"idle", "flush", "single", "delete", "waiting"}

PcState ==
  [up : BOOLEAN, recent : [Texts -> Nat \cup {Nil}], queue : Seq(Known), files : Seq(Seq(Known)),
   job : Jobs, todo : Nat, tried : Nat, retryAt : Nat, halted : BOOLEAN, lastSent : Nat \cup {Nil}]

Row == [text : Texts, anchor : Int, first : Int, last : Int, count : Nat, obs : SUBSET Known]

HubTypeOK(h) ==
  /\ DOMAIN h = {"rows", "ids", "next", "beats"}
  /\ h.next \in Nat \ {0}
  /\ DOMAIN h.rows \subseteq 1..(h.next - 1) /\ \A r \in DOMAIN h.rows : h.rows[r] \in Row
  /\ DOMAIN h.ids \subseteq Known /\ \A o \in DOMAIN h.ids : h.ids[o] \in Nat
  /\ h.beats \in [Pcs -> Nat \cup {Nil}]

STypeOK ==
  /\ clock \in 0..LastTime /\ skew \in Skews
  /\ shouts \in Seq([text : Texts, at : Nat])
  /\ pc \in [Pcs -> PcState]
  /\ HubTypeOK(hub)
  /\ reader \in [cursor : Nat \cup {Nil}, base : Nat, given : SUBSET Nat]
  /\ excused \in [Pcs -> Nat]
  /\ IsFiniteSet(heard)

\* The server keeps its interval, and nothing is heard before it is shouted.
ShoutsApart ==
  /\ \A i \in DOMAIN shouts : shouts[i].at <= clock
  /\ \A i, j \in DOMAIN shouts : i < j => shouts[i].at + Interval <= shouts[j].at

\* Where in its spool a flush is, and that it is one that may go on.
FlushOK(s) ==
  /\ s.tried + s.todo <= Len(s.files)
  /\ s.job \in {"idle", "waiting"} => s.tried = 0 /\ s.todo = 0
  /\ s.job = "flush" => s.todo = 0
  /\ s.job \in {"flush", "single", "delete"} => ~s.halted /\ s.retryAt <= clock
  /\ ~s.up => s.job = "idle"

\* What is about to be deleted is in the hub.
DeletedIsStored(s) ==
  s.job = "delete" => \A i \in (s.tried + 1)..(s.tried + s.todo) : ToSet(s.files[i]) \subseteq stored

\* Time is at most a heartbeat ahead of the last news of a PC, or of its reason
\* to send none.
NewsOf(p) ==
  /\ pc[p].halted \/ ~pc[p].up => excused[p] = LastTime
  /\ excused[p] >= pc[p].retryAt
  /\ pc[p].lastSent # Nil =>
       \/ excused[p] >= pc[p].lastSent
       \/ hub.beats[p] # Nil /\ hub.beats[p] >= pc[p].lastSent
  /\ \/ clock <= excused[p] + Heartbeat
     \/ hub.beats[p] # Nil /\ clock <= hub.beats[p] + Heartbeat

\* The cursor is behind no id yet to come, and all rows up to it were given.
CursorInv ==
  reader.cursor # Nil =>
    /\ reader.base <= reader.cursor /\ reader.cursor < hub.next
    /\ \A r \in DOMAIN hub.rows : reader.base < r /\ r <= reader.cursor => r \in reader.given

\* A time the clock of some PC, or of the hub, may show for one of the hub's.
Shows(t, at) == \E x, y \in Clocks(skew) : at + x <= t /\ t <= at + y

\* A row is of a shout, whose time its anchor shows.
RowsAnchored(h) ==
  \A r \in DOMAIN h.rows :
    /\ h.rows[r].obs # {} /\ IsFiniteSet(h.rows[r].obs)
    /\ \A o \in h.rows[r].obs : o.text = h.rows[r].text /\ Shows(h.rows[r].anchor, o.at)

RowsApart(h) ==
  \A r, q \in DOMAIN h.rows : \A o \in h.rows[r].obs : \A x \in h.rows[q].obs :
    r = q <=> ShoutOf(o) = ShoutOf(x)

\* An observation whose clock is not ahead finds its obs_id if it comes again,
\* or is out of range.
IdIsKept(h) ==
  \A r \in DOMAIN h.rows : \A o \in h.rows[r].obs : skew[o.pc] <= 0 =>
    \/ o \in DOMAIN h.ids /\ h.ids[o] >= AgentTs(o)
    \/ AgentTs(o) < clock - SatongDays

RowsCounted(h) ==
  \A r \in DOMAIN h.rows :
    (\A o \in h.rows[r].obs : skew[o.pc] <= 0) => h.rows[r].count = Cardinality(h.rows[r].obs)

\* What a request keeps of the hub.
HubInv(h) == HubTypeOK(h) /\ RowsAnchored(h) /\ RowsApart(h) /\ IdIsKept(h) /\ RowsCounted(h)

SInv ==
  /\ STypeOK /\ ShoutsApart
  /\ \A p \in Pcs : FlushOK(pc[p]) /\ DeletedIsStored(pc[p]) /\ NewsOf(p)
  /\ CursorInv
-----------------------------------------------------------------------------
(***************************************************************************)
(* Sequences and folds, by the least number for which a fact would fail.   *)
(***************************************************************************)
LEMMA NatIsWellFounded == IsWellFoundedOn({p \in Nat \X Nat : p[1] < p[2]}, Nat)
  BY NatLessThanWellFounded, Zenon DEF OpToRel

LEMMA Least ==
  ASSUME NEW T, T \subseteq Nat, T # {}
  PROVE  \E n \in T : \A m \in T : n <= m
<1> DEFINE R == {p \in Nat \X Nat : p[1] < p[2]}
<1>1. IsWellFoundedOn(R, Nat)
  BY NatIsWellFounded
<1> HIDE DEF R
<1>2. PICK n \in T : \A m \in T : ~(<<m, n>> \in R)
  BY <1>1, WFMin, Zenon
<1>3. \A m \in T : ~(m < n)
  BY <1>2 DEF R
<1> QED
  BY <1>3

LEMMA Concat ==
  ASSUME NEW S, NEW a \in Seq(S), NEW b \in Seq(S)
  PROVE  /\ a \o b \in Seq(S) /\ Len(a \o b) = Len(a) + Len(b)
         /\ \A k \in 1..Len(a) : (a \o b)[k] = a[k]
         /\ \A k \in 1..Len(b) : (a \o b)[Len(a) + k] = b[k]
  OBVIOUS

LEMMA Part ==
  ASSUME NEW S, NEW s \in Seq(S), NEW k \in Nat, NEW n \in Nat, k + n <= Len(s)
  PROVE  /\ SubSeq(s, k + 1, k + n) \in Seq(S) /\ Len(SubSeq(s, k + 1, k + n)) = n
         /\ \A i \in 1..n : SubSeq(s, k + 1, k + n)[i] = s[k + i]
<1>1. Len(s) \in Nat
  OBVIOUS
<1>2. \A i \in (k + 1)..(k + n) : i \in 1..Len(s)
  BY <1>1
<1>3. SubSeq(s, k + 1, k + n) \in Seq(S) /\ Len(SubSeq(s, k + 1, k + n)) = n
  BY <1>1, <1>2
<1> QED
  BY <1>1, <1>3

LEMMA ConcatSet ==
  ASSUME NEW S, NEW a \in Seq(S), NEW b \in Seq(S)
  PROVE  a \o b \in Seq(S) /\ ToSet(a \o b) = ToSet(a) \cup ToSet(b)
<1>1. /\ a \o b \in Seq(S) /\ Len(a \o b) = Len(a) + Len(b)
      /\ \A k \in 1..Len(a) : (a \o b)[k] = a[k]
  BY Concat
<1>2. \A k \in 1..Len(b) : (a \o b)[Len(a) + k] = b[k]
  BY Concat
<1>3. /\ DOMAIN a = 1..Len(a) /\ DOMAIN b = 1..Len(b) /\ DOMAIN (a \o b) = 1..(Len(a) + Len(b))
      /\ Len(a) \in Nat /\ Len(b) \in Nat
  BY <1>1
<1>4. ToSet(a \o b) \subseteq ToSet(a) \cup ToSet(b)
  <2> SUFFICES ASSUME NEW k \in 1..(Len(a) + Len(b)) PROVE (a \o b)[k] \in ToSet(a) \cup ToSet(b)
    BY <1>3 DEF ToSet
  <2>1. CASE k \in 1..Len(a)
    BY <1>1, <1>3, <2>1 DEF ToSet
  <2>2. CASE k - Len(a) \in 1..Len(b)
    <3>1. k = Len(a) + (k - Len(a))
      BY <1>3
    <3> QED
      BY <1>2, <1>3, <2>2, <3>1 DEF ToSet
  <2> QED
    BY <1>3, <2>1, <2>2
<1>5. ToSet(a) \subseteq ToSet(a \o b)
  BY <1>1, <1>3 DEF ToSet
<1>6. ToSet(b) \subseteq ToSet(a \o b)
  <2> SUFFICES ASSUME NEW k \in 1..Len(b) PROVE b[k] \in ToSet(a \o b)
    BY <1>3 DEF ToSet
  <2>1. Len(a) + k \in 1..(Len(a) + Len(b))
    BY <1>3
  <2> QED
    BY <1>2, <1>3, <2>1 DEF ToSet
<1> QED
  BY <1>1, <1>4, <1>5, <1>6

LEMMA FlattenExists ==
  ASSUME NEW seqs, NEW n \in Nat
  PROVE  \E f : f = [i \in 1..n |-> IF i = 1 THEN seqs[i] ELSE f[i - 1] \o seqs[i]]
<1> DEFINE E(m) == \E f : f = [i \in 1..m |-> IF i = 1 THEN seqs[i] ELSE f[i - 1] \o seqs[i]]
           T == {m \in Nat : ~E(m)}
<1>1. SUFFICES T = {}
  OBVIOUS
<1>2. SUFFICES ASSUME T # {} PROVE FALSE
  OBVIOUS
<1>3. PICK m \in T : \A k \in T : m <= k
  BY <1>2, Least
<1>4. CASE m = 0
  <2> DEFINE f == [i \in 1..0 |-> 0]
  <2>1. f = [i \in 1..0 |-> IF i = 1 THEN seqs[i] ELSE f[i - 1] \o seqs[i]]
    OBVIOUS
  <2> HIDE DEF f
  <2> QED
    BY <1>3, <1>4, <2>1
<1>5. CASE m > 0
  <2>0. m \in Nat /\ m - 1 \in Nat
    BY <1>3, <1>5
  <2>1. m - 1 \notin T
    <3> HIDE DEF T
    <3> QED BY <1>3, <2>0
  <2>2. PICK g : g = [i \in 1..(m - 1) |-> IF i = 1 THEN seqs[i] ELSE g[i - 1] \o seqs[i]]
    BY <2>0, <2>1
  <2> DEFINE f == [i \in 1..m |-> IF i = m THEN (IF i = 1 THEN seqs[i] ELSE g[i - 1] \o seqs[i]) ELSE g[i]]
  <2>3. \A i \in 1..m : f[i] = IF i = 1 THEN seqs[i] ELSE f[i - 1] \o seqs[i]
    <3> SUFFICES ASSUME NEW i \in 1..m PROVE f[i] = IF i = 1 THEN seqs[i] ELSE f[i - 1] \o seqs[i]
      OBVIOUS
    <3>1. i # 1 => f[i - 1] = g[i - 1]
      BY <1>3, <1>5
    <3>2. i # m => g[i] = IF i = 1 THEN seqs[i] ELSE g[i - 1] \o seqs[i]
      <4>1. i # m => i \in 1..(m - 1)
        BY <2>0
      <4> QED BY <4>1, <2>2
    <3>3. m \in 1..m /\ (i = m \/ f[i] = g[i])
      BY <2>0
    <3> QED
      BY <3>1, <3>2, <3>3
  <2>4. f = [i \in 1..m |-> f[i]]
    OBVIOUS
  <2> HIDE DEF f
  <2>5. f = [i \in 1..m |-> IF i = 1 THEN seqs[i] ELSE f[i - 1] \o seqs[i]]
    BY <2>3, <2>4
  <2> QED
    BY <1>3, <2>5
<1> QED
  BY <1>3, <1>4, <1>5

LEMMA Flattened ==
  ASSUME NEW S, NEW seqs \in Seq(Seq(S)), Len(seqs) > 0
  PROVE  /\ FlattenSeq(seqs) \in Seq(S)
         /\ ToSet(FlattenSeq(seqs)) = UNION {ToSet(seqs[i]) : i \in DOMAIN seqs}
<1> DEFINE n == Len(seqs)
           f == CHOOSE f : f = [i \in 1..n |-> IF i = 1 THEN seqs[i] ELSE f[i - 1] \o seqs[i]]
           U(i) == UNION {ToSet(seqs[j]) : j \in 1..i}
           P(i) == f[i] \in Seq(S) /\ ToSet(f[i]) = U(i)
           T == {i \in 1..n : ~P(i)}
<1>0. n \in Nat /\ DOMAIN seqs = 1..n /\ \A i \in 1..n : seqs[i] \in Seq(S)
  OBVIOUS
<1>1. f = [i \in 1..n |-> IF i = 1 THEN seqs[i] ELSE f[i - 1] \o seqs[i]]
  BY <1>0, FlattenExists
<1>2. FlattenSeq(seqs) = f[n]
  BY DEF FlattenSeq
<1> HIDE DEF f
<1>3. \A i \in 1..n : f[i] = IF i = 1 THEN seqs[i] ELSE f[i - 1] \o seqs[i]
  BY <1>1
<1>4. T = {}
  <2> SUFFICES ASSUME T # {} PROVE FALSE
    OBVIOUS
  <2>1. PICK i \in T : \A k \in T : i <= k
    <3>1. T \subseteq Nat
      OBVIOUS
    <3> HIDE DEF T
    <3> QED BY <3>1, Least
  <2>2. CASE i = 1
    <3>1. U(1) = ToSet(seqs[1])
      OBVIOUS
    <3> QED BY <1>0, <1>3, <2>1, <2>2, <3>1
  <2>3. CASE i > 1
    <3>1. i - 1 \in 1..n /\ P(i - 1)
      <4>1. i \in 1..n /\ i - 1 \in 1..n
        BY <1>0, <2>1, <2>3
      <4>2. i - 1 \notin T
        <5> HIDE DEF T
        <5> QED BY <2>1, <4>1
      <4> QED
        BY <4>1, <4>2
    <3>2. f[i] = f[i - 1] \o seqs[i] /\ seqs[i] \in Seq(S)
      <4>1. i \in 1..n /\ i # 1
        BY <2>1, <2>3
      <4> HIDE DEF n
      <4> QED
        BY <1>0, <1>3, <4>1
    <3>3. f[i] \in Seq(S) /\ ToSet(f[i]) = ToSet(f[i - 1]) \cup ToSet(seqs[i])
      <4> QED
        BY <3>1, <3>2, ConcatSet
    <3>4. U(i) = U(i - 1) \cup ToSet(seqs[i])
      <4>1. i \in 1..n /\ 1..i = 1..(i - 1) \cup {i}
        BY <1>0, <2>1, <2>3
      <4> QED
        BY <4>1
    <3> QED
      BY <2>1, <3>1, <3>3, <3>4
  <2> QED
    BY <2>1, <2>2, <2>3
<1>5. n \in 1..n /\ P(n)
  <2>1. n \in 1..n
    OBVIOUS
  <2> QED BY <1>4, <2>1
<1> QED
  BY <1>0, <1>2, <1>5

LEMMA AfterExists ==
  ASSUME NEW h, NEW obs, NEW n \in Nat
  PROVE  \E f : f = [i \in 0..n |-> IF i = 0 THEN h ELSE InsertMessage(f[i - 1], obs[i])]
<1> DEFINE E(m) == \E f : f = [i \in 0..m |-> IF i = 0 THEN h ELSE InsertMessage(f[i - 1], obs[i])]
           T == {m \in Nat : ~E(m)}
<1>1. SUFFICES ASSUME T # {} PROVE FALSE
  OBVIOUS
<1>2. PICK m \in T : \A k \in T : m <= k
  BY <1>1, Least
<1>3. CASE m = 0
  <2> DEFINE f == [i \in 0..0 |-> h]
  <2>1. f = [i \in 0..0 |-> IF i = 0 THEN h ELSE InsertMessage(f[i - 1], obs[i])]
    OBVIOUS
  <2> HIDE DEF f
  <2> QED
    BY <1>2, <1>3, <2>1
<1>4. CASE m > 0
  <2>1. m \in Nat /\ m - 1 \in Nat
    BY <1>2, <1>4
  <2>2. m - 1 \notin T
    <3> HIDE DEF T
    <3> QED BY <1>2, <2>1
  <2>3. PICK g : g = [i \in 0..(m - 1) |-> IF i = 0 THEN h ELSE InsertMessage(g[i - 1], obs[i])]
    BY <2>1, <2>2
  <2> DEFINE f == [i \in 0..m |-> IF i = m THEN InsertMessage(g[i - 1], obs[i]) ELSE g[i]]
  <2>4. \A i \in 0..m : f[i] = IF i = 0 THEN h ELSE InsertMessage(f[i - 1], obs[i])
    <3> SUFFICES ASSUME NEW i \in 0..m
                 PROVE  f[i] = IF i = 0 THEN h ELSE InsertMessage(f[i - 1], obs[i])
      OBVIOUS
    <3>1. i # 0 => i - 1 \in 0..m /\ i - 1 # m
      BY <2>1
    <3>2. i # 0 => f[i - 1] = g[i - 1]
      BY <3>1
    <3>3. i # m => i \in 0..(m - 1)
      BY <2>1
    <3>4. i # m => g[i] = IF i = 0 THEN h ELSE InsertMessage(g[i - 1], obs[i])
      BY <2>3, <3>3
    <3>5. f[i] = IF i = m THEN InsertMessage(g[i - 1], obs[i]) ELSE g[i]
      OBVIOUS
    <3> HIDE DEF f
    <3> QED
      BY <1>4, <3>2, <3>4, <3>5
  <2>5. f = [i \in 0..m |-> f[i]]
    OBVIOUS
  <2> HIDE DEF f
  <2>6. f = [i \in 0..m |-> IF i = 0 THEN h ELSE InsertMessage(f[i - 1], obs[i])]
    BY <2>4, <2>5
  <2> QED
    BY <1>2, <2>6
<1> QED
  BY <1>2, <1>3, <1>4

\* The hub after each message of a request.
LEMMA InsertedOneByOne ==
  ASSUME NEW h, NEW obs, Len(obs) \in Nat
  PROVE  \E f : /\ f[0] = h /\ Inserted(h, obs) = f[Len(obs)]
                /\ \A i \in 1..Len(obs) : f[i] = InsertMessage(f[i - 1], obs[i])
<1> DEFINE n == Len(obs)
           f == CHOOSE f : f = [i \in 0..n |-> IF i = 0 THEN h ELSE InsertMessage(f[i - 1], obs[i])]
<1>1. f = [i \in 0..n |-> IF i = 0 THEN h ELSE InsertMessage(f[i - 1], obs[i])]
  BY AfterExists
<1>2. Inserted(h, obs) = f[n]
  BY DEF Inserted
<1> HIDE DEF f
<1>3. f[0] = h /\ \A i \in 1..n : f[i] = InsertMessage(f[i - 1], obs[i])
  BY <1>1
<1> QED
  BY <1>2, <1>3

-----------------------------------------------------------------------------
(***************************************************************************)
(* One message.                                                            *)
(***************************************************************************)
\* What a request may make of the rows: new ones get new ids.
Later(h, g) ==
  /\ DOMAIN h.rows \subseteq DOMAIN g.rows /\ h.next <= g.next /\ g.beats = h.beats
  /\ \A r \in DOMAIN g.rows \ DOMAIN h.rows : h.next <= r

\* What a message makes of the hub, if it is not a repetition: the row it is in
\* and the next id.
Put(h, o, g, id, row, next) ==
  /\ g = [h EXCEPT !.ids = [x \in DOMAIN @ \cup {o} |-> IF x = o THEN clock ELSE @[x]],
                   !.rows = [r \in DOMAIN @ \cup {id} |-> IF r = id THEN row ELSE @[r]],
                   !.next = next]
  /\ \/ Near(h, o) = {} /\ id = h.next /\ row = NewRow(o) /\ next = h.next + 1
     \/ id \in Near(h, o) /\ row = Merged(h.rows[id], o) /\ next = h.next

LEMMA SeenType ==
  ASSUME STypeOK, NEW o \in Known
  PROVE  AgentTs(o) \in Int /\ SeenAt(o) \in Int
  BY SatongAssumption DEF STypeOK, Known, Observation, AgentTs, SeenAt

LEMMA NearestExists ==
  ASSUME STypeOK, NEW h, HubTypeOK(h), NEW o \in Known, Near(h, o) # {}
  PROVE  \E r \in Near(h, o) : \A q \in Near(h, o) :
           LET far(k) == Distance(h.rows[k].anchor, SeenAt(o))
           IN  far(r) < far(q) \/ (far(r) = far(q) /\ r <= q)
<1> DEFINE far(k) == Distance(h.rows[k].anchor, SeenAt(o))
           N == Near(h, o)
           D == {far(k) : k \in N}
<1>1. N \subseteq Nat /\ \A k \in N : far(k) \in Nat
  BY SeenType DEF Near, HubTypeOK, Row, Distance
<1> HIDE DEF N, far
<1>2. D \subseteq Nat /\ D # {}
  BY <1>1 DEF N
<1>3. PICK d \in D : \A e \in D : d <= e
  <2> HIDE DEF D
  <2> QED BY <1>2, Least
<1> DEFINE M == {k \in N : far(k) = d}
<1>4. M \subseteq Nat /\ M # {}
  BY <1>1, <1>3
<1>5. PICK r \in M : \A q \in M : r <= q
  <2> HIDE DEF M
  <2> QED BY <1>4, Least
<1>6. ASSUME NEW q \in N PROVE far(r) < far(q) \/ (far(r) = far(q) /\ r <= q)
  <2>1. far(r) = d /\ d <= far(q) /\ d \in Nat /\ far(q) \in Nat
    BY <1>1, <1>2, <1>3, <1>5
  <2>2. far(q) = d => r <= q
    BY <1>5
  <2> QED
    BY <2>1, <2>2
<1>7. r \in N
  BY <1>5
<1> QED
  BY <1>6, <1>7 DEF N, far

LEMMA InsertCases ==
  ASSUME STypeOK, NEW h, HubTypeOK(h), NEW o \in Known
  PROVE  \/ o \in DOMAIN h.ids /\ InsertMessage(h, o) = h
         \/ /\ o \notin DOMAIN h.ids
            /\ \E id, row, next : Put(h, o, InsertMessage(h, o), id, row, next)
<1>1. CASE o \in DOMAIN h.ids
  BY <1>1 DEF InsertMessage
<1>2. CASE o \notin DOMAIN h.ids /\ Near(h, o) = {}
  <2>1. Put(h, o, InsertMessage(h, o), h.next, NewRow(o), h.next + 1)
    BY <1>2 DEF InsertMessage, Put
  <2> QED
    BY <1>2, <2>1
<1>3. CASE o \notin DOMAIN h.ids /\ Near(h, o) # {}
  <2> DEFINE id == Nearest(h, o)
  <2>1. id \in Near(h, o)
    BY <1>3, NearestExists DEF Nearest
  <2>2. InsertMessage(h, o) =
          [h EXCEPT !.ids = [x \in DOMAIN @ \cup {o} |-> IF x = o THEN clock ELSE @[x]],
                    !.rows = [r \in DOMAIN @ \cup {id} |-> IF r = id THEN Merged(h.rows[id], o) ELSE @[r]],
                    !.next = @]
    BY <1>3 DEF InsertMessage
  <2> HIDE DEF id
  <2>3. Put(h, o, InsertMessage(h, o), id, Merged(h.rows[id], o), h.next)
    BY <2>1, <2>2 DEF Put
  <2> QED
    BY <1>3, <2>3
<1> QED
  BY <1>1, <1>2, <1>3

\* The same, field by field.
Fields(h, o, g, id, row, next) ==
  /\ DOMAIN g = DOMAIN h /\ g.beats = h.beats
  /\ g.ids = [x \in DOMAIN h.ids \cup {o} |-> IF x = o THEN clock ELSE h.ids[x]]
  /\ g.rows = [r \in DOMAIN h.rows \cup {id} |-> IF r = id THEN row ELSE h.rows[r]]
  /\ g.next = next /\ next \in Nat /\ h.next <= next
  /\ id \in 1..(next - 1) /\ (id \in DOMAIN h.rows \/ id = h.next)

LEMMA PutFields ==
  ASSUME STypeOK, NEW h, HubTypeOK(h), NEW o \in Known, NEW g, NEW id, NEW row, NEW next,
         Put(h, o, g, id, row, next)
  PROVE  Fields(h, o, g, id, row, next)
<1> USE DEF HubTypeOK
<1>1. /\ DOMAIN g = DOMAIN h /\ g.beats = h.beats
      /\ g.ids = [x \in DOMAIN h.ids \cup {o} |-> IF x = o THEN clock ELSE h.ids[x]]
      /\ g.rows = [r \in DOMAIN h.rows \cup {id} |-> IF r = id THEN row ELSE h.rows[r]]
      /\ g.next = next
  BY DEF Put
<1>2. /\ next \in Nat /\ h.next <= next
      /\ id \in 1..(next - 1) /\ (id \in DOMAIN h.rows \/ id = h.next)
  <2>1. CASE id = h.next /\ next = h.next + 1
    BY <2>1
  <2>2. CASE id \in Near(h, o) /\ next = h.next
    BY <2>2 DEF Near
  <2> QED
    BY <2>1, <2>2 DEF Put
<1> QED
  BY <1>1, <1>2 DEF Fields

LEMMA PutTyped ==
  ASSUME STypeOK, NEW h, HubTypeOK(h), NEW o \in Known, NEW g, NEW id, NEW row, NEW next,
         Put(h, o, g, id, row, next)
  PROVE  HubTypeOK(g) /\ Later(h, g) /\ row \in Row
<1>0. Fields(h, o, g, id, row, next)
  BY PutFields
<1>1. /\ DOMAIN g = DOMAIN h /\ g.beats = h.beats
      /\ g.ids = [x \in DOMAIN h.ids \cup {o} |-> IF x = o THEN clock ELSE h.ids[x]]
      /\ g.rows = [r \in DOMAIN h.rows \cup {id} |-> IF r = id THEN row ELSE h.rows[r]]
      /\ g.next = next /\ next \in Nat /\ h.next <= next
      /\ id \in 1..(next - 1) /\ (id \in DOMAIN h.rows \/ id = h.next)
  BY <1>0 DEF Fields
<1>2. clock \in Nat /\ o.text \in Texts
  BY SatongAssumption DEF STypeOK, Known, Observation
<1>3. row \in Row
  <2>1. NewRow(o) \in Row
    BY SeenType, <1>2 DEF NewRow, Row
  <2>2. ASSUME NEW r \in DOMAIN h.rows PROVE Merged(h.rows[r], o) \in Row
    <3>1. h.rows[r] \in Row
      BY DEF HubTypeOK
    <3> DEFINE last == IF SeenAt(o) > h.rows[r].last THEN SeenAt(o) ELSE h.rows[r].last
               first == IF SeenAt(o) < h.rows[r].first THEN SeenAt(o) ELSE h.rows[r].first
    <3>2. last \in Int /\ first \in Int /\ h.rows[r].count + 1 \in Nat /\ h.rows[r].obs \cup {o} \subseteq Known
      BY <3>1, SeenType DEF Row
    <3>3. Merged(h.rows[r], o) =
            [h.rows[r] EXCEPT !.last = last, !.first = first, !.count = @ + 1, !.obs = @ \cup {o}]
      BY DEF Merged
    <3> HIDE DEF last, first
    <3> QED
      BY <3>1, <3>2, <3>3 DEF Row
  <2> QED
    BY <2>1, <2>2 DEF Put, Near
<1>4. HubTypeOK(g)
  <2>1. DOMAIN g.rows \subseteq 1..(g.next - 1)
    BY <1>1 DEF HubTypeOK
  <2>2. \A r \in DOMAIN g.rows : g.rows[r] \in Row
    BY <1>1, <1>3 DEF HubTypeOK
  <2>3. DOMAIN g.ids \subseteq Known /\ \A x \in DOMAIN g.ids : g.ids[x] \in Nat
    BY <1>1, <1>2 DEF HubTypeOK
  <2>4. g.next \in Nat \ {0}
    BY <1>1 DEF HubTypeOK
  <2> QED
    BY <1>1, <2>1, <2>2, <2>3, <2>4 DEF HubTypeOK
<1>5. Later(h, g)
  BY <1>1 DEF Later, HubTypeOK
<1> QED
  BY <1>3, <1>4, <1>5

LEMMA LaterTransitive ==
  ASSUME NEW h, NEW g, NEW k, HubTypeOK(h), HubTypeOK(g), HubTypeOK(k), Later(h, g), Later(g, k)
  PROVE  Later(h, k)
  BY DEF Later, HubTypeOK

LEMMA InsertTyped ==
  ASSUME STypeOK, NEW h, HubTypeOK(h), NEW o \in Known
  PROVE  HubTypeOK(InsertMessage(h, o)) /\ Later(h, InsertMessage(h, o))
<1>1. CASE InsertMessage(h, o) = h
  BY <1>1 DEF Later, HubTypeOK
<1>2. CASE \E id, row, next : Put(h, o, InsertMessage(h, o), id, row, next)
  BY <1>2, PutTyped
<1> QED
  BY <1>1, <1>2, InsertCases

\* A request keeps the hub typed, its beats, and the rows there are.
LEMMA InsertedTyped ==
  ASSUME STypeOK, NEW h, HubTypeOK(h), NEW obs \in Seq(Known)
  PROVE  HubTypeOK(Inserted(h, obs)) /\ Later(h, Inserted(h, obs))
<1> DEFINE n == Len(obs)
<1>1. n \in Nat /\ \A i \in 1..n : obs[i] \in Known
  OBVIOUS
<1>2. PICK f : /\ f[0] = h /\ Inserted(h, obs) = f[n]
               /\ \A i \in 1..n : f[i] = InsertMessage(f[i - 1], obs[i])
  BY InsertedOneByOne
<1> DEFINE P(i) == HubTypeOK(f[i]) /\ Later(h, f[i])
           T == {i \in 0..n : ~P(i)}
<1> HIDE DEF n
<1>3. T = {}
  <2> SUFFICES ASSUME T # {} PROVE FALSE
    OBVIOUS
  <2>1. PICK i \in T : \A k \in T : i <= k
    <3>1. T \subseteq Nat
      BY <1>1
    <3> HIDE DEF T
    <3> QED BY <3>1, Least
  <2>2. CASE i = 0
    BY <1>2, <2>1, <2>2 DEF Later, HubTypeOK
  <2>3. CASE i > 0
    <3>1. i \in 1..n /\ i - 1 \in 0..n
      BY <1>1, <2>1, <2>3
    <3>2. i - 1 \notin T
      <4> HIDE DEF T
      <4> QED BY <2>1, <3>1, <1>1
    <3>3. P(i - 1)
      BY <3>1, <3>2
    <3>4. HubTypeOK(f[i]) /\ Later(f[i - 1], f[i])
      BY <1>1, <1>2, <3>1, <3>3, InsertTyped
    <3>5. P(i)
      BY <3>3, <3>4, LaterTransitive
    <3> QED
      BY <2>1, <3>5
  <2> QED
    BY <1>1, <2>1, <2>2, <2>3
<1>4. P(n)
  BY <1>1, <1>3
<1> QED
  BY <1>2, <1>4

-----------------------------------------------------------------------------
(***************************************************************************)
(* Shouts and the times they are seen at.                                  *)
(***************************************************************************)
LEMMA ClockFacts ==
  ASSUME STypeOK, ClocksAgree
  PROVE  \A x, y \in Clocks(skew) : x \in Int /\ x - y < MergeSec /\ x - y <= Interval - MergeSec
<1>1. skew \in Skews /\ Skews \subseteq [Pcs -> Int]
  BY SatongAssumption DEF STypeOK
<1>2. \A x \in Clocks(skew) : x \in Int
  BY <1>1 DEF Clocks
<1> QED
  BY <1>1, <1>2 DEF ClocksAgree

LEMMA KnownApart ==
  ASSUME STypeOK, ShoutsApart, NEW o \in Known, NEW x \in Known
  PROVE  /\ o.at \in Nat /\ o.at <= clock
         /\ \/ ShoutOf(o) = ShoutOf(x)
            \/ o.at + Interval <= x.at
            \/ x.at + Interval <= o.at
<1>1. PICK i \in DOMAIN shouts : shouts[i] = ShoutOf(o)
  BY DEF Known, ToSet
<1>2. PICK j \in DOMAIN shouts : shouts[j] = ShoutOf(x)
  BY DEF Known, ToSet
<1>3. shouts[i].at = o.at /\ shouts[j].at = x.at /\ o.at \in Nat
  BY <1>1, <1>2 DEF ShoutOf, Known, Observation
<1>4. i \in Nat /\ j \in Nat
  BY DEF STypeOK
<1>5. i = j \/ i < j \/ j < i
  BY <1>4
<1> QED
  BY <1>1, <1>2, <1>3, <1>5 DEF ShoutsApart

LEMMA SeenShows ==
  ASSUME STypeOK, NEW o \in Known, o.at <= clock
  PROVE  Shows(SeenAt(o), o.at)
<1>1. skew[o.pc] \in Clocks(skew) /\ 0 \in Clocks(skew) /\ skew[o.pc] \in Int
  BY SatongAssumption DEF STypeOK, Known, Observation, Clocks
<1>2. o.at \in Nat /\ clock \in Nat
  BY SatongAssumption DEF Known, Observation, STypeOK
<1>3. CASE AgentTs(o) < clock
  BY <1>1, <1>2, <1>3 DEF Shows, SeenAt, AgentTs
<1>4. CASE ~(AgentTs(o) < clock)
  <2>1. o.at + 0 <= clock /\ clock <= o.at + skew[o.pc]
    BY <1>1, <1>2, <1>4 DEF AgentTs
  <2>2. SeenAt(o) = clock
    BY <1>4 DEF SeenAt
  <2> QED
    BY <1>1, <2>1, <2>2 DEF Shows
<1> QED
  BY <1>3, <1>4

\* Times of one shout are near each other, of different shouts of a text not.
LEMMA SameShoutIsNear ==
  ASSUME STypeOK, ClocksAgree, NEW s \in Int, NEW t \in Int, NEW at \in Nat, Shows(s, at), Shows(t, at)
  PROVE  Distance(s, t) < MergeSec
<1>1. PICK x, y \in Clocks(skew) : at + x <= s /\ s <= at + y
  BY DEF Shows
<1>2. PICK z, w \in Clocks(skew) : at + z <= t /\ t <= at + w
  BY DEF Shows
<1>3. {x, y, z, w} \subseteq Int /\ w - x < MergeSec /\ y - z < MergeSec
  BY ClockFacts
<1>4. MergeSec \in Nat
  BY SatongAssumption
<1> QED
  BY <1>1, <1>2, <1>3, <1>4 DEF Distance

LEMMA OtherShoutIsFar ==
  ASSUME STypeOK, ClocksAgree, NEW s \in Int, NEW t \in Int, NEW a \in Nat, NEW b \in Nat,
         Shows(s, a), Shows(t, b), a + Interval <= b
  PROVE  Distance(s, t) >= MergeSec /\ Distance(t, s) >= MergeSec
<1>1. PICK y \in Clocks(skew) : s <= a + y
  BY DEF Shows
<1>2. PICK z \in Clocks(skew) : b + z <= t
  BY DEF Shows
<1>3. y \in Int /\ z \in Int /\ y - z <= Interval - MergeSec
  BY ClockFacts
<1>4. MergeSec \in Nat /\ Interval \in Nat
  BY SatongAssumption
<1>5. t - s >= MergeSec
  BY <1>1, <1>2, <1>3, <1>4
<1> QED
  BY <1>4, <1>5 DEF Distance

\* The rows an observation may belong to are those of its shout.
LEMMA NearIsSame ==
  ASSUME STypeOK, ShoutsApart, ClocksAgree, NEW h, HubTypeOK(h), RowsAnchored(h), NEW o \in Known,
         NEW r \in DOMAIN h.rows, NEW x \in h.rows[r].obs
  PROVE  r \in Near(h, o) <=> ShoutOf(x) = ShoutOf(o)
<1>1. /\ h.rows[r] \in Row /\ x \in Known
      /\ x.text = h.rows[r].text /\ Shows(h.rows[r].anchor, x.at)
  BY DEF HubTypeOK, Row, RowsAnchored
<1>2. h.rows[r].anchor \in Int /\ SeenAt(o) \in Int
  BY <1>1, SeenType DEF Row
<1>3. /\ o.at \in Nat /\ x.at \in Nat /\ Shows(SeenAt(o), o.at)
      /\ ShoutOf(o) = ShoutOf(x) \/ o.at + Interval <= x.at \/ x.at + Interval <= o.at
  BY <1>1, KnownApart, SeenShows
<1>4. CASE ShoutOf(x) = ShoutOf(o)
  <2>1. x.at = o.at /\ x.text = o.text
    BY <1>4 DEF ShoutOf
  <2>2. Distance(h.rows[r].anchor, SeenAt(o)) < MergeSec
    BY <1>1, <1>2, <1>3, <2>1, SameShoutIsNear
  <2> QED
    BY <1>1, <1>4, <2>1, <2>2 DEF Near
<1>5. CASE ShoutOf(x) # ShoutOf(o)
  <2>1. Distance(h.rows[r].anchor, SeenAt(o)) >= MergeSec
    BY <1>1, <1>2, <1>3, <1>5, OtherShoutIsFar
  <2>2. Distance(h.rows[r].anchor, SeenAt(o)) \in Int /\ MergeSec \in Int
    BY <1>2, SatongAssumption DEF Distance
  <2>3. ~(Distance(h.rows[r].anchor, SeenAt(o)) < MergeSec)
    BY <2>1, <2>2
  <2> QED
    BY <1>5, <2>3 DEF Near
<1> QED
  BY <1>4, <1>5

-----------------------------------------------------------------------------
(***************************************************************************)
(* A message keeps rows and shouts one to one.                             *)
(***************************************************************************)
LEMMA PutRows ==
  ASSUME STypeOK, ShoutsApart, ClocksAgree, NEW h, HubInv(h), NEW o \in Known, NEW g, NEW id, NEW row, NEW next,
         Put(h, o, g, id, row, next)
  PROVE  /\ Fields(h, o, g, id, row, next) /\ HubTypeOK(g)
         /\ row.obs = (IF id \in DOMAIN h.rows THEN h.rows[id].obs ELSE {}) \cup {o}
         /\ id \in DOMAIN h.rows <=> Near(h, o) # {}
         /\ \A r \in DOMAIN h.rows : \A x \in h.rows[r].obs : ShoutOf(x) = ShoutOf(o) <=> r = id
<1>1. Fields(h, o, g, id, row, next) /\ HubTypeOK(g) /\ HubTypeOK(h)
  BY PutFields, PutTyped DEF HubInv
<1>2. \/ Near(h, o) = {} /\ id = h.next /\ row = NewRow(o)
      \/ id \in Near(h, o) /\ row = Merged(h.rows[id], o)
  BY DEF Put
<1>3. h.next \notin DOMAIN h.rows /\ Near(h, o) \subseteq DOMAIN h.rows
  BY <1>1 DEF HubTypeOK, Near
<1>4. row.obs = (IF id \in DOMAIN h.rows THEN h.rows[id].obs ELSE {}) \cup {o}
  <2>1. NewRow(o).obs = {o}
    BY DEF NewRow
  <2>2. ASSUME NEW r \in DOMAIN h.rows PROVE Merged(h.rows[r], o).obs = h.rows[r].obs \cup {o}
    <3>1. h.rows[r] \in Row
      BY <1>1 DEF HubTypeOK
    <3> QED
      BY <3>1 DEF Row, Merged
  <2> QED
    BY <1>2, <1>3, <2>1, <2>2
<1>5. ASSUME NEW r \in DOMAIN h.rows, NEW x \in h.rows[r].obs
      PROVE  ShoutOf(x) = ShoutOf(o) <=> r = id
  <2>1. ShoutOf(x) = ShoutOf(o) <=> r \in Near(h, o)
    BY <1>1, NearIsSame DEF HubInv
  <2>2. CASE Near(h, o) = {}
    BY <1>2, <1>3, <2>1, <2>2
  <2>3. CASE id \in Near(h, o)
    <3>1. PICK y : y \in h.rows[id].obs
      BY <1>3, <2>3 DEF HubInv, RowsAnchored
    <3>2. ShoutOf(y) = ShoutOf(o)
      BY <1>1, <1>3, <2>3, <3>1, NearIsSame DEF HubInv
    <3>3. r = id <=> ShoutOf(x) = ShoutOf(y)
      BY <1>3, <2>3, <3>1 DEF HubInv, RowsApart
    <3> QED
      BY <3>2, <3>3
  <2> QED
    BY <1>2, <2>2, <2>3
<1> QED
  BY <1>1, <1>2, <1>3, <1>4, <1>5

LEMMA PutAnchored ==
  ASSUME STypeOK, ShoutsApart, ClocksAgree, NEW h, HubInv(h), NEW o \in Known, NEW g, NEW id, NEW row, NEW next,
         Put(h, o, g, id, row, next)
  PROVE  RowsAnchored(g)
<1>1. /\ Fields(h, o, g, id, row, next)
      /\ row.obs = (IF id \in DOMAIN h.rows THEN h.rows[id].obs ELSE {}) \cup {o}
      /\ id \in DOMAIN h.rows <=> Near(h, o) # {}
      /\ \A r \in DOMAIN h.rows : \A x \in h.rows[r].obs : ShoutOf(x) = ShoutOf(o) <=> r = id
  BY PutRows
<1>2. g.rows = [r \in DOMAIN h.rows \cup {id} |-> IF r = id THEN row ELSE h.rows[r]]
  BY <1>1 DEF Fields
<1>3. RowsAnchored(h) /\ HubTypeOK(h)
  BY DEF HubInv
<1>4. Shows(SeenAt(o), o.at)
  BY KnownApart, SeenShows
<1> SUFFICES ASSUME NEW r \in DOMAIN g.rows
             PROVE  /\ g.rows[r].obs # {} /\ IsFiniteSet(g.rows[r].obs)
                    /\ \A x \in g.rows[r].obs : x.text = g.rows[r].text /\ Shows(g.rows[r].anchor, x.at)
  BY DEF RowsAnchored
<1>5. CASE r # id
  BY <1>2, <1>3, <1>5 DEF RowsAnchored
<1>6. CASE r = id /\ id \notin DOMAIN h.rows
  <2>1. g.rows[r] = NewRow(o)
    BY <1>1, <1>2, <1>6 DEF Put
  <2>2. g.rows[r].obs = {o} /\ g.rows[r].text = o.text /\ g.rows[r].anchor = SeenAt(o)
    BY <2>1 DEF NewRow
  <2>3. IsFiniteSet({o})
    BY FS_Singleton
  <2> QED
    BY <1>4, <2>2, <2>3
<1>7. CASE r = id /\ id \in DOMAIN h.rows
  <2>1. g.rows[r] = row /\ row = Merged(h.rows[id], o) /\ h.rows[id] \in Row
    BY <1>1, <1>2, <1>3, <1>7 DEF Put, HubTypeOK
  <2>2. row.text = h.rows[id].text /\ row.anchor = h.rows[id].anchor /\ row.obs = h.rows[id].obs \cup {o}
    BY <2>1 DEF Merged, Row
  <2>3. IsFiniteSet(row.obs)
    BY <1>3, <1>7, <2>2, FS_AddElement DEF RowsAnchored
  <2>4. PICK x : x \in h.rows[id].obs
    BY <1>3, <1>7 DEF RowsAnchored
  <2>5. o.text = x.text /\ o.at = x.at
    BY <1>1, <1>7, <2>4 DEF ShoutOf
  <2>6. \A y \in row.obs : y.text = row.text /\ Shows(row.anchor, y.at)
    BY <1>3, <1>7, <2>2, <2>4, <2>5 DEF RowsAnchored
  <2> QED
    BY <2>1, <2>2, <2>3, <2>6
<1> QED
  BY <1>5, <1>6, <1>7

LEMMA PutApart ==
  ASSUME STypeOK, ShoutsApart, ClocksAgree, NEW h, HubInv(h), NEW o \in Known, NEW g, NEW id, NEW row, NEW next,
         Put(h, o, g, id, row, next)
  PROVE  RowsApart(g)
<1>1. /\ Fields(h, o, g, id, row, next)
      /\ row.obs = (IF id \in DOMAIN h.rows THEN h.rows[id].obs ELSE {}) \cup {o}
      /\ \A r \in DOMAIN h.rows : \A x \in h.rows[r].obs : ShoutOf(x) = ShoutOf(o) <=> r = id
  BY PutRows
<1>2. g.rows = [r \in DOMAIN h.rows \cup {id} |-> IF r = id THEN row ELSE h.rows[r]]
  BY <1>1 DEF Fields
<1>3. ASSUME NEW r \in DOMAIN g.rows, NEW x \in g.rows[r].obs
      PROVE  /\ ShoutOf(x) = ShoutOf(o) <=> r = id
             /\ r # id => r \in DOMAIN h.rows /\ x \in h.rows[r].obs
  <2>1. CASE r = id
    BY <1>1, <1>2, <2>1
  <2>2. CASE r # id
    BY <1>1, <1>2, <2>2
  <2> QED
    BY <2>1, <2>2
<1> SUFFICES ASSUME NEW r \in DOMAIN g.rows, NEW q \in DOMAIN g.rows,
                    NEW x \in g.rows[r].obs, NEW y \in g.rows[q].obs
             PROVE  r = q <=> ShoutOf(x) = ShoutOf(y)
  BY DEF RowsApart
<1>4. CASE r = id \/ q = id
  BY <1>3, <1>4
<1>5. CASE r # id /\ q # id
  BY <1>3, <1>5 DEF HubInv, RowsApart
<1> QED
  BY <1>4, <1>5

LEMMA PutIds ==
  ASSUME STypeOK, ShoutsApart, ClocksAgree, NEW h, HubInv(h), NEW o \in Known, NEW g, NEW id, NEW row, NEW next,
         Put(h, o, g, id, row, next)
  PROVE  IdIsKept(g)
<1>1. /\ Fields(h, o, g, id, row, next)
      /\ row.obs = (IF id \in DOMAIN h.rows THEN h.rows[id].obs ELSE {}) \cup {o}
  BY PutRows
<1>2. /\ g.rows = [r \in DOMAIN h.rows \cup {id} |-> IF r = id THEN row ELSE h.rows[r]]
      /\ g.ids = [x \in DOMAIN h.ids \cup {o} |-> IF x = o THEN clock ELSE h.ids[x]]
  BY <1>1 DEF Fields
<1> SUFFICES ASSUME NEW r \in DOMAIN g.rows, NEW x \in g.rows[r].obs, skew[x.pc] <= 0
             PROVE  \/ x \in DOMAIN g.ids /\ g.ids[x] >= AgentTs(x)
                    \/ AgentTs(x) < clock - SatongDays
  BY DEF IdIsKept
<1>3. CASE x = o
  <2>1. skew[o.pc] \in Int /\ o.at \in Nat /\ o.at <= clock /\ clock \in Nat
    BY SatongAssumption, KnownApart DEF STypeOK, Known, Observation
  <2> QED
    BY <1>2, <1>3, <2>1 DEF AgentTs
<1>4. CASE x # o
  <2>1. \E q \in DOMAIN h.rows : x \in h.rows[q].obs
    BY <1>1, <1>2, <1>4
  <2> QED
    BY <1>2, <1>4, <2>1 DEF HubInv, IdIsKept
<1> QED
  BY <1>3, <1>4

LEMMA PutCounted ==
  ASSUME STypeOK, ShoutsApart, ClocksAgree, NEW h, HubInv(h), NEW o \in Known, NEW g, NEW id, NEW row, NEW next,
         Put(h, o, g, id, row, next), o \notin DOMAIN h.ids, TimeInRange(o)
  PROVE  RowsCounted(g)
<1>1. /\ Fields(h, o, g, id, row, next)
      /\ row.obs = (IF id \in DOMAIN h.rows THEN h.rows[id].obs ELSE {}) \cup {o}
      /\ id \in DOMAIN h.rows <=> Near(h, o) # {}
  BY PutRows
<1>2. g.rows = [r \in DOMAIN h.rows \cup {id} |-> IF r = id THEN row ELSE h.rows[r]]
  BY <1>1 DEF Fields
<1> SUFFICES ASSUME NEW r \in DOMAIN g.rows, \A x \in g.rows[r].obs : skew[x.pc] <= 0
             PROVE  g.rows[r].count = Cardinality(g.rows[r].obs)
  BY DEF RowsCounted
<1>3. CASE r # id
  BY <1>2, <1>3 DEF HubInv, RowsCounted
<1>4. CASE r = id /\ id \notin DOMAIN h.rows
  <2>1. g.rows[r] = NewRow(o)
    BY <1>1, <1>2, <1>4 DEF Put
  <2>2. g.rows[r].obs = {o} /\ g.rows[r].count = 1
    BY <2>1 DEF NewRow
  <2>3. Cardinality({o}) = 1
    BY FS_Singleton
  <2> QED
    BY <2>2, <2>3
<1>5. CASE r = id /\ id \in DOMAIN h.rows
  <2>1. g.rows[r] = row /\ row = Merged(h.rows[id], o) /\ h.rows[id] \in Row
    BY <1>1, <1>2, <1>5 DEF Put, HubInv, HubTypeOK
  <2>2. row.count = h.rows[id].count + 1 /\ row.obs = h.rows[id].obs \cup {o}
    BY <2>1 DEF Merged, Row
  <2>3. o \notin h.rows[id].obs
    <3>1. AgentTs(o) \in Int /\ clock \in Int /\ SatongDays \in Int /\ clock - SatongDays <= AgentTs(o)
      BY SeenType, SatongAssumption DEF STypeOK, TimeInRange
    <3>2. ~(AgentTs(o) < clock - SatongDays)
      BY <3>1
    <3>3. skew[o.pc] <= 0
      BY <2>1, <2>2
    <3> QED
      BY <1>5, <3>2, <3>3 DEF HubInv, IdIsKept
  <2>4. h.rows[id].count = Cardinality(h.rows[id].obs) /\ IsFiniteSet(h.rows[id].obs)
    BY <1>5, <2>1, <2>2 DEF HubInv, RowsCounted, RowsAnchored
  <2>5. Cardinality(h.rows[id].obs \cup {o}) = Cardinality(h.rows[id].obs) + 1
    BY <2>3, <2>4, FS_AddElement
  <2> QED
    BY <1>5, <2>1, <2>2, <2>4, <2>5
<1> QED
  BY <1>3, <1>4, <1>5

LEMMA InsertInv ==
  ASSUME STypeOK, ShoutsApart, ClocksAgree, NEW h, HubInv(h), NEW o \in Known, TimeInRange(o)
  PROVE  HubInv(InsertMessage(h, o))
<1>1. CASE o \in DOMAIN h.ids /\ InsertMessage(h, o) = h
  BY <1>1
<1>2. ASSUME o \notin DOMAIN h.ids,
             NEW id, NEW row, NEW next, Put(h, o, InsertMessage(h, o), id, row, next)
      PROVE  HubInv(InsertMessage(h, o))
  BY <1>2, PutRows, PutAnchored, PutApart, PutIds, PutCounted DEF HubInv
<1>3. HubTypeOK(h)
  BY DEF HubInv
<1> QED
  BY <1>1, <1>2, <1>3, InsertCases

LEMMA InsertedInv ==
  ASSUME STypeOK, ShoutsApart, ClocksAgree, NEW h, HubInv(h), NEW obs \in Seq(Known),
         \A i \in DOMAIN obs : TimeInRange(obs[i])
  PROVE  HubInv(Inserted(h, obs))
<1> DEFINE n == Len(obs)
<1>1. n \in Nat /\ \A i \in 1..n : obs[i] \in Known /\ TimeInRange(obs[i])
  OBVIOUS
<1>2. PICK f : /\ f[0] = h /\ Inserted(h, obs) = f[n]
               /\ \A i \in 1..n : f[i] = InsertMessage(f[i - 1], obs[i])
  BY InsertedOneByOne
<1> DEFINE T == {i \in 0..n : ~HubInv(f[i])}
<1> HIDE DEF n
<1>3. T = {}
  <2> SUFFICES ASSUME T # {} PROVE FALSE
    OBVIOUS
  <2>1. PICK i \in T : \A k \in T : i <= k
    <3>1. T \subseteq Nat
      BY <1>1
    <3> HIDE DEF T
    <3> QED BY <3>1, Least
  <2>2. CASE i = 0
    BY <1>2, <2>1, <2>2
  <2>3. CASE i > 0
    <3>1. i \in 1..n /\ i - 1 \in 0..n
      BY <1>1, <2>1, <2>3
    <3>2. i - 1 \notin T
      <4> HIDE DEF T
      <4> QED BY <2>1, <3>1, <1>1
    <3>3. HubInv(f[i - 1])
      BY <3>1, <3>2
    <3>4. HubInv(f[i])
      BY <1>1, <1>2, <3>1, <3>3, InsertInv
    <3> QED
      BY <2>1, <3>4
  <2> QED
    BY <1>1, <2>1, <2>2, <2>3
<1>4. HubInv(f[n])
  BY <1>1, <1>3
<1> QED
  BY <1>2, <1>4

-----------------------------------------------------------------------------
(***************************************************************************)
(* The uploader.                                                           *)
(***************************************************************************)
LEMMA Removed ==
  ASSUME NEW S, NEW s \in Seq(S), NEW i \in 1..Len(s)
  PROVE  /\ RemoveAt(s, i) \in Seq(S) /\ Len(RemoveAt(s, i)) = Len(s) - 1
         /\ \A j \in 1..(Len(s) - 1) : RemoveAt(s, i)[j] = IF j < i THEN s[j] ELSE s[j + 1]
<1>1. /\ SubSeq(s, 1, i - 1) \in Seq(S) /\ Len(SubSeq(s, 1, i - 1)) = i - 1
      /\ \A j \in 1..(i - 1) : SubSeq(s, 1, i - 1)[j] = s[j]
  OBVIOUS
<1>2. /\ SubSeq(s, i + 1, Len(s)) \in Seq(S) /\ Len(SubSeq(s, i + 1, Len(s))) = Len(s) - i
      /\ \A j \in 1..(Len(s) - i) : SubSeq(s, i + 1, Len(s))[j] = s[j + i]
  OBVIOUS
<1>3. Len(s) \in Nat
  OBVIOUS
<1> DEFINE a == SubSeq(s, 1, i - 1)
           b == SubSeq(s, i + 1, Len(s))
<1>4. RemoveAt(s, i) = a \o b
  BY DEF RemoveAt
<1> HIDE DEF a, b
<1>5. /\ a \o b \in Seq(S) /\ Len(a \o b) = Len(a) + Len(b)
      /\ \A j \in 1..Len(a) : (a \o b)[j] = a[j]
      /\ \A j \in 1..Len(b) : (a \o b)[Len(a) + j] = b[j]
  <2>1. a \in Seq(S) /\ b \in Seq(S)
    BY <1>1, <1>2 DEF a, b
  <2> QED
    BY <2>1
<1>6. Len(a) = i - 1 /\ Len(b) = Len(s) - i
  BY <1>1, <1>2 DEF a, b
<1>7. ASSUME NEW j \in 1..(Len(s) - 1)
      PROVE  (a \o b)[j] = IF j < i THEN s[j] ELSE s[j + 1]
  <2>1. CASE j < i
    BY <1>1, <1>3, <1>5, <1>6, <2>1 DEF a
  <2>2. CASE ~(j < i)
    <3>1. j - (i - 1) \in 1..(Len(s) - i) /\ j = (i - 1) + (j - (i - 1)) /\ (j - (i - 1)) + i = j + 1
      BY <1>3, <2>2
    <3>2. (a \o b)[j] = b[j - (i - 1)]
      BY <1>5, <1>6, <3>1
    <3>3. b[j - (i - 1)] = s[j + 1]
      BY <1>2, <3>1 DEF b
    <3> QED
      BY <2>2, <3>2, <3>3
  <2> QED
    BY <2>1, <2>2
<1> QED
  BY <1>3, <1>4, <1>5, <1>6, <1>7

\* What a step of the flush leaves alone.
Alike(s, r) ==
  /\ r.up = s.up /\ r.halted = s.halted /\ r.retryAt = s.retryAt /\ r.lastSent = s.lastSent

LEMMA OnwardFacts ==
  ASSUME NEW s \in PcState, FlushOK(s), s.job # "waiting"
  PROVE  /\ Onward(s) \in PcState /\ FlushOK(Onward(s)) /\ Alike(s, Onward(s))
         /\ Onward(s).files = s.files
         /\ Onward(s).job = "delete" => Onward(s) = s
<1>1. CASE s.job = "idle" \/ s.todo > 0
  BY <1>1 DEF Onward, Alike
<1>2. CASE s.job # "idle" /\ ~(s.todo > 0) /\ s.tried = Len(s.files)
  <2>1. Onward(s) = [s EXCEPT !.job = "idle", !.tried = 0]
    BY <1>2 DEF Onward
  <2>2. s.todo = 0 /\ Len(s.files) \in Nat
    BY <1>2 DEF PcState
  <2>3. Onward(s) \in PcState
    <3>1. "idle" \in Jobs /\ 0 \in Nat
      BY DEF Jobs
    <3> QED
      BY <2>1, <3>1 DEF PcState
  <2>4. /\ Alike(s, Onward(s)) /\ Onward(s).files = s.files /\ Onward(s).todo = 0
        /\ Onward(s).job = "idle" /\ Onward(s).tried = 0
    BY <2>1, <2>2 DEF PcState, Alike
  <2> QED
    BY <2>2, <2>3, <2>4 DEF FlushOK, Alike
<1>3. CASE s.job # "idle" /\ ~(s.todo > 0) /\ s.tried # Len(s.files)
  <2>1. Onward(s) = [s EXCEPT !.job = "flush"]
    BY <1>3 DEF Onward
  <2>2. s.todo = 0 /\ Len(s.files) \in Nat
    BY <1>3 DEF PcState
  <2>3. Onward(s) \in PcState
    BY <2>1 DEF PcState, Jobs
  <2>4. /\ Alike(s, Onward(s)) /\ Onward(s).files = s.files /\ Onward(s).todo = 0
        /\ Onward(s).job = "flush" /\ Onward(s).tried = s.tried
    BY <2>1, <2>2 DEF PcState, Alike
  <2>5. s.job \in {"flush", "single", "delete"}
    BY <1>3 DEF PcState, Jobs
  <2> QED
    BY <2>2, <2>3, <2>4, <2>5 DEF FlushOK, Alike
<1> QED
  BY <1>1, <1>2, <1>3

\* There is a file at hand behind those tried, and those yet to do.
Room(s) == s.job # "waiting" /\ s.job # "idle" /\ s.tried + s.todo < Len(s.files)

LEMMA SpoolTypes ==
  ASSUME NEW s \in PcState
  PROVE  /\ s.files \in Seq(Seq(Known)) /\ Len(s.files) \in Nat /\ DOMAIN s.files = 1..Len(s.files)
         /\ s.tried \in Nat /\ s.todo \in Nat
         /\ \A i \in 1..Len(s.files) : s.files[i] \in Seq(Known)
  BY DEF PcState

LEMMA GoneFacts ==
  ASSUME NEW s \in PcState, FlushOK(s), Room(s)
  PROVE  /\ Gone(s) \in PcState /\ FlushOK(Gone(s)) /\ Alike(s, Gone(s))
         /\ Gone(s).job = s.job /\ Gone(s).tried = s.tried /\ Gone(s).todo = s.todo
         /\ Len(Gone(s).files) = Len(s.files) - 1
         /\ \A j \in 1..(Len(s.files) - 1) :
              Gone(s).files[j] = IF j < s.tried + 1 THEN s.files[j] ELSE s.files[j + 1]
<1>1. s.files \in Seq(Seq(Known)) /\ s.tried + 1 \in 1..Len(s.files) /\ Len(s.files) \in Nat
  BY SpoolTypes DEF Room
<1> DEFINE files == RemoveAt(s.files, s.tried + 1)
<1>2. /\ files \in Seq(Seq(Known)) /\ Len(files) = Len(s.files) - 1
      /\ \A j \in 1..(Len(s.files) - 1) :
           files[j] = IF j < s.tried + 1 THEN s.files[j] ELSE s.files[j + 1]
  BY <1>1, Removed
<1>3. Gone(s) = [s EXCEPT !.files = files]
  BY DEF Gone
<1> HIDE DEF files
<1>4. Gone(s) \in PcState
  BY <1>2, <1>3 DEF PcState
<1>5. /\ Alike(s, Gone(s)) /\ Gone(s).files = files
      /\ Gone(s).job = s.job /\ Gone(s).tried = s.tried /\ Gone(s).todo = s.todo
  BY <1>3 DEF PcState, Alike
<1>6. FlushOK(Gone(s))
  BY <1>1, <1>2, <1>5, SpoolTypes DEF FlushOK, Alike, Room
<1> QED
  BY <1>2, <1>4, <1>5, <1>6

LEMMA StaysFacts ==
  ASSUME NEW s \in PcState, FlushOK(s), Room(s)
  PROVE  /\ Stays(s) \in PcState /\ FlushOK(Stays(s)) /\ Alike(s, Stays(s))
         /\ Stays(s).job = s.job /\ Stays(s).tried = s.tried + 1 /\ Stays(s).todo = s.todo
         /\ Stays(s).files = s.files
<1>1. s.tried + 1 \in Nat /\ Len(s.files) \in Nat /\ s.todo \in Nat /\ s.tried \in Nat
  BY SpoolTypes
<1>2. Stays(s) \in PcState
  BY <1>1 DEF PcState, Stays
<1>3. /\ Alike(s, Stays(s)) /\ Stays(s).files = s.files
      /\ Stays(s).job = s.job /\ Stays(s).tried = s.tried + 1 /\ Stays(s).todo = s.todo
  BY DEF PcState, Stays, Alike
<1> QED
  BY <1>1, <1>2, <1>3 DEF FlushOK, Alike, Room

LEMMA HalvedFacts ==
  ASSUME NEW s \in PcState, FlushOK(s), Room(s)
  PROVE  /\ Halved(s) \in PcState /\ FlushOK(Halved(s)) /\ Room(Halved(s)) /\ Alike(s, Halved(s))
         /\ Halved(s).job = s.job /\ Halved(s).tried = s.tried /\ Halved(s).todo = s.todo
         /\ Len(Halved(s).files) = Len(s.files) + 2
         /\ \A j \in 1..Len(s.files) : Halved(s).files[j] = s.files[j]
         /\ ToSet(s.files[s.tried + 1]) =
              ToSet(Halved(s).files[Len(s.files) + 1]) \cup ToSet(Halved(s).files[Len(s.files) + 2])
<1> DEFINE f == s.files[s.tried + 1]
           half == Len(f) \div 2
           a == SubSeq(f, 1, half)
           b == SubSeq(f, half + 1, Len(f))
           two == <<a, b>>
           files == s.files \o two
<1>1. /\ s.files \in Seq(Seq(Known)) /\ s.tried + 1 \in 1..Len(s.files) /\ Len(s.files) \in Nat
      /\ f \in Seq(Known)
  BY SpoolTypes DEF Room
<1> HIDE DEF f
<1>2. Len(f) \in Nat /\ half \in 0..Len(f)
  BY <1>1
<1> HIDE DEF half
<1>3. a \in Seq(Known) /\ b \in Seq(Known) /\ ToSet(f) = ToSet(a) \cup ToSet(b)
  <2>1. /\ a \in Seq(Known) /\ Len(a) = half /\ \A j \in 1..half : a[j] = f[j]
    BY <1>1, <1>2
  <2>2. /\ b \in Seq(Known) /\ Len(b) = Len(f) - half /\ \A j \in 1..(Len(f) - half) : b[j] = f[half + j]
    BY <1>1, <1>2
  <2> HIDE DEF a, b
  <2>3. DOMAIN a = 1..half /\ DOMAIN b = 1..(Len(f) - half) /\ DOMAIN f = 1..Len(f)
    BY <1>1, <2>1, <2>2
  <2>4. ToSet(a) \cup ToSet(b) \subseteq ToSet(f)
    <3>1. \A j \in 1..half : j \in 1..Len(f)
      BY <1>2
    <3>2. \A j \in 1..(Len(f) - half) : half + j \in 1..Len(f)
      BY <1>2
    <3> QED
      BY <2>1, <2>2, <2>3, <3>1, <3>2 DEF ToSet
  <2>5. ASSUME NEW j \in 1..Len(f) PROVE f[j] \in ToSet(a) \cup ToSet(b)
    <3>1. CASE j \in 1..half
      BY <2>1, <2>3, <3>1 DEF ToSet
    <3>2. CASE j - half \in 1..(Len(f) - half)
      <4>1. half + (j - half) = j
        BY <1>2
      <4> QED
        BY <2>2, <2>3, <3>2, <4>1 DEF ToSet
    <3> QED
      BY <1>2, <3>1, <3>2
  <2> QED
    BY <2>1, <2>2, <2>3, <2>4, <2>5 DEF ToSet
<1>4. Halved(s) = [s EXCEPT !.files = files]
  BY DEF Halved, f, half
<1> HIDE DEF a, b
<1>5. two \in Seq(Seq(Known)) /\ Len(two) = 2 /\ two[1] = a /\ two[2] = b
  BY <1>3
<1> HIDE DEF two
<1>6. /\ files \in Seq(Seq(Known)) /\ Len(files) = Len(s.files) + 2
      /\ \A j \in 1..Len(s.files) : files[j] = s.files[j]
      /\ \A j \in 1..2 : files[Len(s.files) + j] = two[j]
  <2> DEFINE old == s.files
             Files == Seq(Known)
  <2>1. old \in Seq(Files) /\ Len(old) \in Nat /\ two \in Seq(Files)
    BY <1>1, <1>5
  <2>3. files = old \o two
    BY DEF old
  <2> HIDE DEF old, files, Files
  <2>2. /\ old \o two \in Seq(Files) /\ Len(old \o two) = Len(old) + Len(two)
        /\ \A j \in 1..Len(old) : (old \o two)[j] = old[j]
        /\ \A j \in 1..Len(two) : (old \o two)[Len(old) + j] = two[j]
    BY <2>1, Concat
  <2> USE DEF Files
  <2>4. /\ files \in Seq(Seq(Known)) /\ Len(files) = Len(old) + 2
        /\ \A j \in 1..Len(old) : files[j] = old[j]
        /\ \A j \in 1..2 : files[Len(old) + j] = two[j]
    BY <2>2, <2>3, <1>5
  <2> QED
    BY <2>4 DEF old
<1> HIDE DEF files
<1>7. Halved(s) \in PcState
  BY <1>4, <1>6 DEF PcState
<1>8. /\ Alike(s, Halved(s)) /\ Halved(s).files = files
      /\ Halved(s).job = s.job /\ Halved(s).tried = s.tried /\ Halved(s).todo = s.todo
  BY <1>4 DEF PcState, Alike
<1>9. files[Len(s.files) + 1] = a /\ files[Len(s.files) + 2] = b
  BY <1>5, <1>6
<1>10. FlushOK(Halved(s)) /\ Room(Halved(s))
  <2>1. s.tried \in Nat /\ s.todo \in Nat
    BY SpoolTypes
  <2>2. s.tried + s.todo < Len(files)
    BY <1>1, <1>6, <2>1 DEF Room
  <2>3. Len(files) \in Nat
    BY <1>1, <1>6
  <2> QED
    BY <1>8, <2>1, <2>2, <2>3 DEF FlushOK, Alike, Room
<1> QED
  BY <1>3, <1>6, <1>7, <1>8, <1>9, <1>10 DEF f

\* What a request for n files carries is what they hold.
\* A request for one file carries what is in it.
LEMMA FlattenOne ==
  ASSUME NEW seqs, Len(seqs) = 1
  PROVE  FlattenSeq(seqs) = seqs[1]
<1> DEFINE f == CHOOSE f : f = [i \in 1..1 |-> IF i = 1 THEN seqs[i] ELSE f[i - 1] \o seqs[i]]
<1>1. f = [i \in 1..1 |-> IF i = 1 THEN seqs[i] ELSE f[i - 1] \o seqs[i]]
  BY FlattenExists
<1>2. FlattenSeq(seqs) = f[1]
  BY DEF FlattenSeq
<1> HIDE DEF f
<1> QED
  BY <1>1, <1>2

LEMMA ContentsAlone ==
  ASSUME STypeOK, NEW p \in Pcs, pc[p].tried + 1 <= Len(pc[p].files)
  PROVE  Contents(p, 1) = pc[p].files[pc[p].tried + 1]
<1> DEFINE files == pc[p].files
           k == pc[p].tried
           Files == Seq(Known)
           part == SubSeq(files, k + 1, k + 1)
<1>1. files \in Seq(Files) /\ k \in Nat /\ k + 1 <= Len(files)
  BY SpoolTypes DEF STypeOK
<1>2. Contents(p, 1) = FlattenSeq(part)
  BY DEF Contents
<1> HIDE DEF files, k, Files
<1>3. Len(part) = 1 /\ part[1] = files[k + 1]
  BY <1>1, Part
<1> HIDE DEF part
<1>4. FlattenSeq(part) = part[1]
  BY <1>3, FlattenOne
<1> QED
  BY <1>2, <1>3, <1>4 DEF files, k

LEMMA ContentsFacts ==
  ASSUME STypeOK, NEW p \in Pcs, NEW n \in Nat \ {0}, pc[p].tried + n <= Len(pc[p].files)
  PROVE  /\ Contents(p, n) \in Seq(Known)
         /\ ToSet(Contents(p, n)) =
              UNION {ToSet(pc[p].files[i]) : i \in (pc[p].tried + 1)..(pc[p].tried + n)}
<1> DEFINE k == pc[p].tried
           part == SubSeq(pc[p].files, k + 1, k + n)
<1>1. pc[p] \in PcState
  BY DEF STypeOK
<1>2. pc[p].files \in Seq(Seq(Known)) /\ Len(pc[p].files) \in Nat /\ k \in Nat
  BY <1>1, SpoolTypes
<1>3. /\ part \in Seq(Seq(Known)) /\ Len(part) = n
      /\ \A i \in 1..n : part[i] = pc[p].files[k + i]
  <2> DEFINE files == pc[p].files
             Files == Seq(Known)
  <2>1. files \in Seq(Files) /\ k \in Nat /\ n \in Nat /\ k + n <= Len(files)
    BY <1>2
  <2> HIDE DEF files, k, Files
  <2>2. /\ SubSeq(files, k + 1, k + n) \in Seq(Files) /\ Len(SubSeq(files, k + 1, k + n)) = n
        /\ \A i \in 1..n : SubSeq(files, k + 1, k + n)[i] = files[k + i]
    BY <2>1, Part
  <2> QED
    BY <2>2 DEF files, Files
<1>4. Contents(p, n) = FlattenSeq(part)
  BY DEF Contents
<1> HIDE DEF part
<1>5. /\ FlattenSeq(part) \in Seq(Known)
      /\ ToSet(FlattenSeq(part)) = UNION {ToSet(part[i]) : i \in DOMAIN part}
  <2>1. Len(part) > 0
    BY <1>3
  <2> QED
    BY <1>3, <2>1, Flattened
<1>6. DOMAIN part = 1..n
  BY <1>3
<1>7. {ToSet(part[i]) : i \in 1..n} = {ToSet(pc[p].files[i]) : i \in (k + 1)..(k + n)}
  <2> HIDE DEF k
  <2>1. ASSUME NEW i \in 1..n PROVE k + i \in (k + 1)..(k + n) /\ part[i] = pc[p].files[k + i]
    BY <1>2, <1>3
  <2>2. ASSUME NEW i \in (k + 1)..(k + n) PROVE i - k \in 1..n /\ part[i - k] = pc[p].files[i]
    <3>1. i - k \in 1..n /\ k + (i - k) = i
      BY <1>2
    <3> QED
      BY <1>3, <3>1
  <2> QED
    BY <2>1, <2>2
<1> QED
  BY <1>4, <1>5, <1>6, <1>7

-----------------------------------------------------------------------------
(***************************************************************************)
(* What a step of an uploader leaves of the invariant.                     *)
(***************************************************************************)
LEMMA SameKnown ==
  ASSUME shouts' = shouts
  PROVE  Known' = Known /\ PcState' = PcState /\ Row' = Row
<1>1. Known' = Known
  BY DEF Known
<1> QED
  BY <1>1 DEF PcState, Row

LEMMA SameHubType ==
  ASSUME shouts' = shouts
  PROVE  HubTypeOK(hub)' <=> HubTypeOK(hub')
  BY SameKnown DEF HubTypeOK

\* A step keeps the ids of rows, and gives new rows new ones.
HubGrows ==
  /\ HubTypeOK(hub') /\ hub.next <= hub'.next
  /\ \A r \in DOMAIN hub'.rows \ DOMAIN hub.rows : hub.next <= r

LEMMA CursorKept ==
  ASSUME STypeOK, CursorInv, HubGrows, reader' = reader
  PROVE  CursorInv'
<1> SUFFICES ASSUME reader.cursor # Nil
             PROVE  /\ reader.base <= reader.cursor /\ reader.cursor < hub'.next
                    /\ \A r \in DOMAIN hub'.rows :
                         reader.base < r /\ r <= reader.cursor => r \in reader.given
  BY DEF CursorInv
<1>1. /\ reader.base <= reader.cursor /\ reader.cursor < hub.next
      /\ \A r \in DOMAIN hub.rows : reader.base < r /\ r <= reader.cursor => r \in reader.given
  BY DEF CursorInv
<1>2. reader.cursor \in Nat /\ hub.next \in Nat /\ hub'.next \in Nat /\ DOMAIN hub'.rows \subseteq Nat
  BY DEF STypeOK, HubTypeOK, HubGrows
<1> QED
  BY <1>1, <1>2 DEF HubGrows

\* What of these files is not among those left is in the hub, or of a file the
\* hub would refuse.
Safe(files, left) ==
  \A f \in ToSet(files) : \A i \in DOMAIN f :
    \/ \E g \in ToSet(left) : f[i] \in ToSet(g)
    \/ f[i] \in stored'
    \/ Unfit(f)

\* What KeptUntilStored says of a step.
Kept == \A p \in Pcs : Safe(pc[p].files, pc'[p].files)

\* The hub is as it was, or has stored a batch it found nothing amiss with.
HubMoves ==
  /\ UNCHANGED <<clock, skew, shouts, reader>>
  /\ \/ hub' = hub
     \/ \E p \in Pcs, obs \in Seq(Known) : Outcome(p, obs) = "ok" /\ Store(p, obs)

StepKeeps == SInv' /\ HubMoves /\ Kept

LEMMA SafeSame ==
  ASSUME NEW files, NEW left, ToSet(files) \subseteq ToSet(left)
  PROVE  Safe(files, left)
  BY DEF Safe, ToSet

\* The state of one PC changes, and the hub perhaps.
LEMMA PcStep ==
  ASSUME SInv, NEW p \in Pcs, NEW new \in PcState, FlushOK(new),
         pc' = [pc EXCEPT ![p] = new], UNCHANGED <<clock, skew, shouts, reader>>,
         HubGrows, stored \subseteq stored', excused' \in [Pcs -> Nat], IsFiniteSet(heard'),
         \A q \in Pcs \ {p} : excused'[q] = excused[q] /\ hub'.beats[q] = hub.beats[q],
         new.job = "delete" =>
           \A i \in (new.tried + 1)..(new.tried + new.todo) : ToSet(new.files[i]) \subseteq stored',
         Safe(pc[p].files, new.files), NewsOf(p)'
  PROVE  SInv' /\ Kept
<1> USE DEF SInv
<1>1. pc' \in [Pcs -> PcState] /\ pc'[p] = new /\ \A q \in Pcs \ {p} : pc'[q] = pc[q]
  BY DEF STypeOK
<1>2. STypeOK'
  BY <1>1, SameKnown, SameHubType DEF STypeOK, HubGrows
<1>3. ShoutsApart'
  BY DEF ShoutsApart
<1>4. ASSUME NEW q \in Pcs PROVE (FlushOK(pc[q]) /\ DeletedIsStored(pc[q]) /\ NewsOf(q))'
  <2>1. CASE q = p
    BY <1>1, <2>1 DEF FlushOK, DeletedIsStored
  <2>2. CASE q # p
    <3>1. pc'[q] = pc[q] /\ excused'[q] = excused[q] /\ hub'.beats[q] = hub.beats[q]
      BY <1>1, <2>2
    <3>2. FlushOK(pc[q])'
      BY <3>1 DEF FlushOK
    <3>3. DeletedIsStored(pc[q])'
      BY <3>1 DEF DeletedIsStored
    <3>4. NewsOf(q)'
      BY <3>1 DEF NewsOf
    <3> QED
      BY <3>2, <3>3, <3>4
  <2> QED
    BY <2>1, <2>2
<1>5. CursorInv'
  BY CursorKept
<1>6. Kept
  BY <1>1, SafeSame DEF Kept
<1> QED
  BY <1>2, <1>3, <1>4, <1>5, <1>6

LEMMA SameHubGrows ==
  ASSUME STypeOK, hub' = hub
  PROVE  HubGrows
  BY DEF STypeOK, HubGrows, HubTypeOK

\* A hub that stores a batch grows, and has heard of the PC.
LEMMA StoreGrows ==
  ASSUME STypeOK, NEW p \in Pcs, NEW obs \in Seq(Known), Store(p, obs)
  PROVE  /\ HubGrows /\ hub'.beats = [hub.beats EXCEPT ![p] = clock]
         /\ stored' = stored \cup ToSet(obs)
<1> DEFINE h == Inserted(hub, obs)
<1>1. HubTypeOK(h) /\ Later(hub, h)
  BY InsertedTyped DEF STypeOK
<1>2. hub' = [h EXCEPT !.beats[p] = clock] /\ stored' = stored \cup ToSet(obs)
  BY DEF Store
<1> HIDE DEF h
<1>3. /\ DOMAIN hub' = DOMAIN h /\ hub'.next = h.next /\ hub'.rows = h.rows /\ hub'.ids = h.ids
      /\ hub'.beats = [h.beats EXCEPT ![p] = clock]
  BY <1>1, <1>2 DEF HubTypeOK
<1>4. clock \in Nat
  BY SatongAssumption DEF STypeOK
<1>5. HubTypeOK(hub')
  BY <1>1, <1>3, <1>4 DEF HubTypeOK
<1> QED
  BY <1>1, <1>2, <1>3, <1>5 DEF HubGrows, Later

\* An uploader that may send: nothing holds its PC back.
Free(p) == pc[p].up /\ ~pc[p].halted /\ pc[p].retryAt <= clock

LEMMA AnsweredStep ==
  ASSUME SInv, NEW p \in Pcs, NEW obs \in Seq(Known), NEW after \in PcState,
         FlushOK(after), Free(p), Alike(pc[p], after), after.job # "waiting",
         after.job = "delete" =>
           /\ Outcome(p, obs) = "ok"
           /\ \A i \in (after.tried + 1)..(after.tried + after.todo) :
                ToSet(after.files[i]) \subseteq ToSet(obs),
         Safe(pc[p].files, after.files), Answered(p, obs, after)
  PROVE  StepKeeps
<1> DEFINE s == [after EXCEPT !.lastSent = clock]
           new == Onward(s)
<1>1. STypeOK /\ clock \in 0..LastTime /\ clock \in Nat /\ LastTime \in Nat /\ Heartbeat \in Nat
  BY SatongAssumption DEF SInv, STypeOK
<1>2. /\ s \in PcState /\ Alike([pc[p] EXCEPT !.lastSent = clock], s) /\ s.files = after.files /\ s.job = after.job
      /\ s.tried = after.tried /\ s.todo = after.todo /\ s.lastSent = clock
      /\ s.up = pc[p].up /\ s.halted = pc[p].halted /\ s.retryAt = pc[p].retryAt
  <2>1. pc[p] \in PcState
    BY <1>1 DEF STypeOK
  <2> QED
    BY <1>1, <2>1 DEF PcState, Alike
<1>3. FlushOK(s)
  BY <1>2, <1>1 DEF FlushOK, Alike
<1>4. pc' = [pc EXCEPT ![p] = new] /\ UNCHANGED <<clock, skew, shouts, reader>> /\ IsFiniteSet(heard')
  BY <1>1 DEF Answered, STypeOK
<1> HIDE DEF s
<1>5. /\ new \in PcState /\ FlushOK(new) /\ Alike(s, new) /\ new.files = s.files
      /\ new.job = "delete" => new = s
  BY <1>2, <1>3, OnwardFacts
<1> HIDE DEF new
<1>6. pc'[p] = new
  BY <1>1, <1>4 DEF STypeOK
<1>7. pc[p].retryAt \in Nat /\ pc[p].retryAt <= clock /\ ~pc[p].halted /\ pc[p].up
  BY <1>1 DEF STypeOK, PcState, Free
<1>8. CASE Outcome(p, obs) = "ok" /\ Store(p, obs) /\ excused' = excused
  <2>1. HubGrows /\ hub'.beats = [hub.beats EXCEPT ![p] = clock] /\ stored' = stored \cup ToSet(obs)
    BY <1>1, <1>8, StoreGrows
  <2>2. hub.beats \in [Pcs -> Nat \cup {Nil}] /\ excused \in [Pcs -> Nat]
    BY <1>1 DEF STypeOK, HubTypeOK
  <2>3. hub'.beats[p] = clock /\ \A q \in Pcs \ {p} : hub'.beats[q] = hub.beats[q]
    BY <2>1, <2>2
  <2>4. clock # Nil
    BY <1>1, SatongAssumption
  <2>5. excused[p] >= pc[p].retryAt
    BY DEF SInv, NewsOf
  <2>6. NewsOf(p)'
    BY <1>1, <1>2, <1>4, <1>5, <1>6, <1>7, <1>8, <2>2, <2>3, <2>4, <2>5 DEF NewsOf, Alike
  <2>7. new.job = "delete" =>
          \A i \in (new.tried + 1)..(new.tried + new.todo) : ToSet(new.files[i]) \subseteq stored'
    BY <1>2, <1>5, <2>1
  <2>8. SInv' /\ Kept
    BY <1>2, <1>4, <1>5, <1>8, <2>1, <2>2, <2>3, <2>6, <2>7, PcStep
  <2> QED
    BY <1>4, <1>8, <2>8 DEF StepKeeps, HubMoves
<1>9. CASE Outcome(p, obs) # "ok" /\ UNCHANGED <<hub, stored>> /\ excused' = [excused EXCEPT ![p] = clock]
  <2>1. HubGrows
    BY <1>1, <1>9, SameHubGrows
  <2>2. /\ excused' \in [Pcs -> Nat] /\ excused'[p] = clock
        /\ \A q \in Pcs \ {p} : excused'[q] = excused[q]
    BY <1>1, <1>9 DEF STypeOK
  <2>3. new.job # "delete"
    BY <1>2, <1>5, <1>9
  <2>4. NewsOf(p)'
    BY <1>1, <1>2, <1>4, <1>5, <1>6, <1>7, <2>2 DEF NewsOf, Alike
  <2>5. SInv' /\ Kept
    BY <1>2, <1>4, <1>5, <1>9, <2>1, <2>2, <2>3, <2>4, PcStep
  <2> QED
    BY <1>4, <1>9, <2>5 DEF StepKeeps, HubMoves
<1> QED
  BY <1>8, <1>9 DEF Answered

LEMMA TroubledStep ==
  ASSUME SInv, NEW p \in Pcs, NEW obs \in Seq(Known), Free(p), Troubled(p, obs)
  PROVE  StepKeeps
<1> DEFINE ended == [pc[p] EXCEPT !.job = "idle", !.todo = 0, !.tried = 0, !.lastSent = clock]
<1>1. STypeOK /\ clock \in 0..LastTime /\ clock \in Nat /\ LastTime \in Nat /\ Heartbeat \in Nat /\ Delays \subseteq Nat
  BY SatongAssumption DEF SInv, STypeOK
<1>2. pc[p] \in PcState /\ excused \in [Pcs -> Nat] /\ hub.beats \in [Pcs -> Nat \cup {Nil}]
  BY <1>1 DEF STypeOK, HubTypeOK
<1>3. UNCHANGED <<clock, skew, shouts, reader>> /\ IsFiniteSet(heard')
  BY <1>1 DEF Troubled, STypeOK
<1>4. /\ HubGrows /\ stored \subseteq stored'
      /\ \A q \in Pcs \ {p} : hub'.beats[q] = hub.beats[q]
  <2>1. CASE Store(p, obs)
    BY <1>1, <1>2, <2>1, StoreGrows
  <2>2. CASE UNCHANGED <<hub, stored>>
    BY <1>1, <2>2, SameHubGrows
  <2> QED
    BY <2>1, <2>2 DEF Troubled
<1>5. /\ ended \in PcState /\ ended.job = "idle" /\ ended.todo = 0 /\ ended.tried = 0 /\ ended.lastSent = clock
      /\ ended.files = pc[p].files /\ ended.up /\ ~ended.halted /\ ended.retryAt = pc[p].retryAt
      /\ pc[p].retryAt \in Nat /\ pc[p].retryAt <= clock /\ Len(ended.files) \in Nat
  <2>1. "idle" \in Jobs /\ 0 \in Nat
    BY DEF Jobs
  <2>2. ended \in PcState
    BY <1>1, <1>2, <2>1 DEF PcState
  <2>3. /\ ended.job = "idle" /\ ended.todo = 0 /\ ended.tried = 0 /\ ended.lastSent = clock
        /\ ended.files = pc[p].files /\ ended.up = pc[p].up
        /\ ended.halted = pc[p].halted /\ ended.retryAt = pc[p].retryAt
    BY <1>2 DEF PcState
  <2> HIDE DEF ended
  <2>4. Len(ended.files) \in Nat
    BY <2>2, SpoolTypes
  <2>5. pc[p].retryAt \in Nat
    BY <1>2 DEF PcState
  <2> QED
    BY <2>2, <2>3, <2>4, <2>5 DEF Free
<1>6. \/ \E wait \in Delays, job \in {"idle", "waiting"} :
           /\ pc' = [pc EXCEPT ![p] = [ended EXCEPT !.retryAt = clock + wait, !.job = job]]
           /\ excused' = [excused EXCEPT ![p] = clock + wait]
      \/ /\ pc' = [pc EXCEPT ![p] = [ended EXCEPT !.halted = TRUE]]
         /\ excused' = [excused EXCEPT ![p] = LastTime]
  BY DEF Troubled
<1> HIDE DEF ended
<1>7. ASSUME NEW wait \in Delays, NEW job \in {"idle", "waiting"},
             pc' = [pc EXCEPT ![p] = [ended EXCEPT !.retryAt = clock + wait, !.job = job]],
             excused' = [excused EXCEPT ![p] = clock + wait]
      PROVE  SInv' /\ Kept
  <2> DEFINE new == [ended EXCEPT !.retryAt = clock + wait, !.job = job]
  <2>1. /\ new \in PcState /\ new.job = job /\ new.todo = 0 /\ new.tried = 0 /\ new.lastSent = clock
        /\ new.files = pc[p].files /\ new.up /\ ~new.halted /\ new.retryAt = clock + wait
    <3>1. job \in Jobs /\ clock + wait \in Nat
      BY <1>1 DEF Jobs
    <3> QED
      BY <1>5, <3>1 DEF PcState
  <2>2. pc' = [pc EXCEPT ![p] = new]
    BY <1>7
  <2> HIDE DEF new
  <2>3. pc'[p] = new /\ excused'[p] = clock + wait /\ clock + wait \in Nat /\ clock + wait >= clock
    BY <1>1, <1>2, <1>7, <2>2 DEF STypeOK
  <2>4. FlushOK(new)
    BY <1>5, <2>1 DEF FlushOK
  <2>5. NewsOf(p)'
    BY <1>1, <1>3, <2>1, <2>3 DEF NewsOf
  <2>6. excused' \in [Pcs -> Nat] /\ \A q \in Pcs \ {p} : excused'[q] = excused[q]
    BY <1>2, <1>7, <2>3
  <2> QED
    BY <1>3, <1>4, <2>1, <2>2, <2>4, <2>5, <2>6, PcStep, SafeSame
<1>8. ASSUME pc' = [pc EXCEPT ![p] = [ended EXCEPT !.halted = TRUE]],
             excused' = [excused EXCEPT ![p] = LastTime]
      PROVE  SInv' /\ Kept
  <2> DEFINE new == [ended EXCEPT !.halted = TRUE]
  <2>1. /\ new \in PcState /\ new.job = "idle" /\ new.todo = 0 /\ new.tried = 0 /\ new.lastSent = clock
        /\ new.files = pc[p].files /\ new.up /\ new.halted /\ new.retryAt = pc[p].retryAt
    BY <1>5 DEF PcState
  <2>2. pc' = [pc EXCEPT ![p] = new]
    BY <1>8
  <2> HIDE DEF new
  <2>3. pc'[p] = new /\ excused'[p] = LastTime
    BY <1>1, <1>2, <1>8, <2>2 DEF STypeOK
  <2>4. FlushOK(new)
    BY <1>5, <2>1 DEF FlushOK
  <2>5. NewsOf(p)'
    BY <1>1, <1>3, <1>5, <2>1, <2>3 DEF NewsOf
  <2>6. excused' \in [Pcs -> Nat] /\ \A q \in Pcs \ {p} : excused'[q] = excused[q]
    BY <1>1, <1>2, <1>8
  <2> QED
    BY <1>3, <1>4, <2>1, <2>2, <2>4, <2>5, <2>6, PcStep, SafeSame
<1>9. HubMoves
  BY <1>3 DEF HubMoves, Troubled
<1> QED
  BY <1>6, <1>7, <1>8, <1>9 DEF StepKeeps

LEMMA GoneKeeps ==
  ASSUME NEW s \in PcState, FlushOK(s), Room(s), NEW i \in 1..Len(s.files), i # s.tried + 1
  PROVE  s.files[i] \in ToSet(Gone(s).files)
<1>1. /\ Gone(s).files \in Seq(Seq(Known)) /\ Len(Gone(s).files) = Len(s.files) - 1
      /\ \A j \in 1..(Len(s.files) - 1) :
           Gone(s).files[j] = IF j < s.tried + 1 THEN s.files[j] ELSE s.files[j + 1]
  BY GoneFacts DEF PcState
<1>2. Len(s.files) \in Nat /\ s.tried + 1 \in 1..Len(s.files)
  BY SpoolTypes DEF Room
<1>3. DOMAIN Gone(s).files = 1..(Len(s.files) - 1)
  BY <1>1
<1>4. CASE i < s.tried + 1
  <2>1. i \in 1..(Len(s.files) - 1)
    BY <1>2, <1>4
  <2>2. Gone(s).files[i] = s.files[i]
    BY <1>1, <1>4, <2>1
  <2> QED
    BY <1>3, <2>1, <2>2 DEF ToSet
<1>5. CASE i > s.tried + 1
  <2>1. i - 1 \in 1..(Len(s.files) - 1) /\ ~(i - 1 < s.tried + 1) /\ (i - 1) + 1 = i
    BY <1>2, <1>5
  <2>2. Gone(s).files[i - 1] = s.files[i]
    BY <1>1, <2>1
  <2> QED
    BY <1>3, <2>1, <2>2 DEF ToSet
<1> QED
  BY <1>2, <1>4, <1>5

\* What becomes of the file at hand, which was sent alone.
LEMMA OneStep ==
  ASSUME SInv, NEW p \in Pcs, NEW f \in Seq(Known), NEW s \in PcState,
         FlushOK(s), Room(s), s.job # "delete", Free(p), Alike(pc[p], s), One(p, f, s),
         s.files = pc[p].files, f = s.files[s.tried + 1]
  PROVE  StepKeeps
<1> DEFINE splits == Outcome(p, f) = "split" /\ Len(f) > 1
           then == IF splits THEN Halved(s) ELSE s
           n == Len(s.files)
<1>0. n \in Nat /\ s.tried + 1 \in 1..n /\ DOMAIN s.files = 1..n
  BY SpoolTypes DEF Room
<1>1. then \in PcState /\ FlushOK(then) /\ Room(then) /\ Alike(s, then) /\ then.job = s.job
  BY HalvedFacts DEF Alike
<1>2. /\ then.tried = s.tried /\ n <= Len(then.files) /\ Len(then.files) \in Nat
      /\ \A i \in 1..n : then.files[i] = s.files[i]
      /\ splits =>
           /\ Len(then.files) = n + 2
           /\ ToSet(f) = ToSet(then.files[n + 1]) \cup ToSet(then.files[n + 2])
  <2>1. CASE splits
    <3> DEFINE r == Halved(s)
    <3>1. /\ r.tried = s.tried /\ Len(r.files) = n + 2
          /\ \A i \in 1..n : r.files[i] = s.files[i]
          /\ ToSet(s.files[s.tried + 1]) = ToSet(r.files[n + 1]) \cup ToSet(r.files[n + 2])
      BY HalvedFacts
    <3>2. then = r
      BY <2>1
    <3> HIDE DEF r, splits, then
    <3> QED
      BY <1>0, <3>1, <3>2
  <2>2. CASE ~splits
    <3>1. then = s
      BY <2>2
    <3> HIDE DEF then, splits
    <3> QED
      BY <1>0, <2>2, <3>1
  <2> QED
    BY <2>1, <2>2
<1>3. Answered(p, f, Gone(then)) \/ Answered(p, f, Stays(then))
  BY DEF One
<1> HIDE DEF then, n, splits
<1>4. Alike(pc[p], then) /\ DOMAIN then.files = 1..Len(then.files)
  BY <1>1, SpoolTypes DEF Alike
<1>5. CASE Answered(p, f, Gone(then))
  <2>1. /\ Gone(then) \in PcState /\ FlushOK(Gone(then)) /\ Alike(then, Gone(then))
        /\ Gone(then).job = then.job
    BY <1>1, GoneFacts
  <2>2. Alike(pc[p], Gone(then)) /\ Gone(then).job # "waiting" /\ Gone(then).job # "delete"
    BY <1>1, <1>4, <2>1 DEF Alike, Room
  <2>3. \A i \in 1..Len(then.files) : i # then.tried + 1 => then.files[i] \in ToSet(Gone(then).files)
    BY <1>1, GoneKeeps
  <2>4. ASSUME NEW o \in ToSet(f), \A g \in ToSet(Gone(then).files) : o \notin ToSet(g), o \notin stored'
        PROVE  Unfit(f)
    <3>1. CASE Outcome(p, f) = "ok"
      BY <1>5, <2>4, <3>1 DEF Answered, Store
    <3>2. CASE Outcome(p, f) = "split"
      <4>0. HubLimits[skew].body \in Nat \ {0}
        BY SatongAssumption DEF SInv, STypeOK
      <4>1. Len(f) > HubLimits[skew].body /\ HubLimits[skew].body > 0 /\ Len(f) \in Nat
        BY <3>2, <4>0 DEF Outcome
      <4>2. splits
        BY <3>2, <4>0, <4>1 DEF splits
      <4>3. /\ then.files[n + 1] \in ToSet(Gone(then).files)
            /\ then.files[n + 2] \in ToSet(Gone(then).files)
        BY <1>0, <1>2, <2>3, <4>2
      <4> QED
        BY <1>2, <2>4, <4>2, <4>3
    <3>3. CASE Outcome(p, f) = "quarantine"
      BY <3>3 DEF Outcome
    <3> QED
      BY <3>1, <3>2, <3>3 DEF Outcome
  <2>5. Safe(pc[p].files, Gone(then).files)
    <3> SUFFICES ASSUME NEW k \in 1..n, NEW i \in DOMAIN s.files[k]
                 PROVE  \/ \E g \in ToSet(Gone(then).files) : s.files[k][i] \in ToSet(g)
                        \/ s.files[k][i] \in stored'
                        \/ Unfit(s.files[k])
      BY <1>0 DEF Safe, ToSet
    <3>1. s.files[k][i] \in ToSet(s.files[k])
      BY DEF ToSet
    <3>2. CASE k # s.tried + 1
      <4>1. k \in 1..Len(then.files) /\ k # then.tried + 1 /\ then.files[k] = s.files[k]
        BY <1>0, <1>2, <3>2
      <4> QED
        BY <2>3, <3>1, <4>1
    <3>3. CASE k = s.tried + 1
      <4>1. s.files[k] = f
        BY <3>3
      <4> QED
        BY <2>4, <3>1, <4>1
    <3> QED
      BY <3>2, <3>3
  <2> QED
    BY <1>5, <2>1, <2>2, <2>5, AnsweredStep
<1>6. CASE Answered(p, f, Stays(then))
  <2>1. /\ Stays(then) \in PcState /\ FlushOK(Stays(then)) /\ Alike(then, Stays(then))
        /\ Stays(then).job = then.job /\ Stays(then).files = then.files
    BY <1>1, StaysFacts
  <2>2. Alike(pc[p], Stays(then)) /\ Stays(then).job # "waiting" /\ Stays(then).job # "delete"
    BY <1>1, <1>4, <2>1 DEF Alike, Room
  <2>3. ToSet(s.files) \subseteq ToSet(then.files)
    <3>1. \A i \in 1..n : i \in 1..Len(then.files) /\ then.files[i] = s.files[i]
      BY <1>0, <1>2
    <3> QED
      BY <1>0, <1>4, <3>1 DEF ToSet
  <2>4. Safe(pc[p].files, Stays(then).files)
    BY <2>1, <2>3, SafeSame
  <2> QED
    BY <1>6, <2>1, <2>2, <2>4, AnsweredStep
<1> QED
  BY <1>3, <1>5, <1>6

-----------------------------------------------------------------------------
(***************************************************************************)
(* The steps of an uploader.                                               *)
(***************************************************************************)
\* What every step has of the invariant, of one PC.
LEMMA PcFacts ==
  ASSUME SInv, NEW p \in Pcs
  PROVE  /\ STypeOK /\ pc[p] \in PcState /\ FlushOK(pc[p]) /\ DeletedIsStored(pc[p]) /\ NewsOf(p)
         /\ clock \in Nat /\ clock <= LastTime /\ LastTime \in Nat /\ Heartbeat \in Nat
         /\ excused \in [Pcs -> Nat] /\ hub.beats \in [Pcs -> Nat \cup {Nil}]
         /\ pc[p].retryAt \in Nat /\ HubTypeOK(hub)
<1>1. STypeOK /\ FlushOK(pc[p]) /\ DeletedIsStored(pc[p]) /\ NewsOf(p)
  BY DEF SInv
<1>2. LastTime \in Nat /\ Heartbeat \in Nat
  BY SatongAssumption
<1>3. pc[p] \in PcState /\ clock \in 0..LastTime /\ excused \in [Pcs -> Nat] /\ HubTypeOK(hub)
  BY <1>1 DEF STypeOK
<1>4. pc[p].retryAt \in Nat
  BY <1>3 DEF PcState
<1>5. hub.beats \in [Pcs -> Nat \cup {Nil}]
  BY <1>3 DEF HubTypeOK
<1> QED
  BY <1>1, <1>2, <1>3, <1>4, <1>5

\* A step that concerns nothing but a PC, of which there is no news.
LEMMA PcAlone ==
  ASSUME SInv, NEW p \in Pcs, NEW new \in PcState, FlushOK(new),
         pc' = [pc EXCEPT ![p] = new], UNCHANGED <<clock, skew, shouts, hub, reader, stored, excused>>,
         Alike(pc[p], new), IsFiniteSet(heard'), Safe(pc[p].files, new.files),
         new.job = "delete" =>
           \A i \in (new.tried + 1)..(new.tried + new.todo) : ToSet(new.files[i]) \subseteq stored
  PROVE  StepKeeps
<1>1. STypeOK /\ excused \in [Pcs -> Nat] /\ NewsOf(p)
  BY PcFacts
<1>2. HubGrows
  BY <1>1, SameHubGrows
<1>3. pc'[p] = new
  BY <1>1 DEF STypeOK
<1>4. NewsOf(p)'
  BY <1>1, <1>3 DEF NewsOf, Alike
<1>5. HubMoves
  BY DEF HubMoves
<1> QED
  BY <1>1, <1>2, <1>4, <1>5, PcStep DEF StepKeeps

LEMMA FreeWhile ==
  ASSUME SInv, NEW p \in Pcs, pc[p].up,
         (pc[p].job = "idle" /\ ~Held(p)) \/ pc[p].job \in {"flush", "single", "delete"}
  PROVE  Free(p)
  BY PcFacts DEF Free, FlushOK, Held

LEMMA FlushStep ==
  ASSUME SInv, NEW p \in Pcs, Flush(p)
  PROVE  StepKeeps
<1>0. /\ STypeOK /\ pc[p] \in PcState /\ FlushOK(pc[p]) /\ Free(p) /\ pc[p].todo = 0
      /\ pc[p].tried \in Nat /\ Len(pc[p].files) \in Nat
  BY PcFacts, SpoolTypes, FreeWhile DEF Flush, Flushing, FlushOK
<1>1. PICK n \in DOMAIN pc[p].files :
        /\ Group(p, n)
        /\ \/ Troubled(p, Contents(p, n))
           \/ /\ Outcome(p, Contents(p, n)) = "ok"
              /\ Answered(p, Contents(p, n), [[pc[p] EXCEPT !.job = "flush"] EXCEPT !.job = "delete", !.todo = n])
           \/ /\ Outcome(p, Contents(p, n)) # "ok"
              /\ Answered(p, Contents(p, n), OneByOne([pc[p] EXCEPT !.job = "flush"], n))
           \/ n = 1 /\ One(p, Contents(p, n), [pc[p] EXCEPT !.job = "flush"])
  BY DEF Flush
<1> DEFINE obs == Contents(p, n)
           s == [pc[p] EXCEPT !.job = "flush"]
<1>2. n \in Nat \ {0} /\ pc[p].tried + n <= Len(pc[p].files)
  BY <1>0, <1>1 DEF Group
<1>3. /\ obs \in Seq(Known)
      /\ ToSet(obs) = UNION {ToSet(pc[p].files[i]) : i \in (pc[p].tried + 1)..(pc[p].tried + n)}
  BY <1>0, <1>2, ContentsFacts
<1>4. /\ s \in PcState /\ Alike(pc[p], s) /\ s.job = "flush"
      /\ s.files = pc[p].files /\ s.tried = pc[p].tried /\ s.todo = 0
  BY <1>0 DEF PcState, Jobs, Alike
<1> HIDE DEF obs, s
<1>5. FlushOK(s)
  BY <1>0, <1>2, <1>4 DEF FlushOK, Free, Alike
<1>6. ASSUME NEW job \in {"delete", "single"}, NEW after, after = [s EXCEPT !.job = job, !.todo = n]
      PROVE  /\ after \in PcState /\ FlushOK(after) /\ Alike(pc[p], after) /\ after.job = job
             /\ after.files = pc[p].files /\ after.tried = pc[p].tried /\ after.todo = n
  <2>1. after \in PcState
    BY <1>2, <1>4, <1>6 DEF PcState, Jobs
  <2>2. /\ after.up = s.up /\ after.halted = s.halted /\ after.retryAt = s.retryAt
        /\ after.lastSent = s.lastSent /\ after.job = job /\ after.todo = n
        /\ after.files = s.files /\ after.tried = s.tried
    BY <1>4, <1>6 DEF PcState
  <2> QED
    BY <1>0, <1>2, <1>4, <2>1, <2>2 DEF FlushOK, Free, Alike
<1>7. CASE Troubled(p, obs)
  BY <1>0, <1>3, <1>7, TroubledStep
<1>8. CASE Outcome(p, obs) = "ok" /\ Answered(p, obs, [s EXCEPT !.job = "delete", !.todo = n])
  <2> DEFINE after == [s EXCEPT !.job = "delete", !.todo = n]
  <2>1. /\ after \in PcState /\ FlushOK(after) /\ Alike(pc[p], after) /\ after.job = "delete"
        /\ after.files = pc[p].files /\ after.tried = pc[p].tried /\ after.todo = n
    BY <1>6
  <2> HIDE DEF after
  <2>2. \A i \in (after.tried + 1)..(after.tried + after.todo) : ToSet(after.files[i]) \subseteq ToSet(obs)
    BY <1>3, <2>1
  <2>3. Answered(p, obs, after)
    BY <1>8 DEF after
  <2> QED
    BY <1>0, <1>3, <1>8, <2>1, <2>2, <2>3, SafeSame, AnsweredStep
<1>9. CASE Answered(p, obs, OneByOne(s, n))
  <2> DEFINE after == OneByOne(s, n)
  <2>1. /\ after \in PcState /\ FlushOK(after) /\ Alike(pc[p], after) /\ after.job = "single"
        /\ after.files = pc[p].files
    BY <1>6 DEF OneByOne
  <2> HIDE DEF after
  <2>2. Answered(p, obs, after)
    BY <1>9 DEF after
  <2> QED
    BY <1>0, <1>3, <2>1, <2>2, SafeSame, AnsweredStep
<1>10. CASE n = 1 /\ One(p, obs, s)
  <2>1. Room(s)
    BY <1>0, <1>2, <1>4, <1>10 DEF Room
  <2>2. obs = s.files[s.tried + 1]
    <3>1. Contents(p, 1) = pc[p].files[pc[p].tried + 1]
      BY <1>0, <1>2, <1>10, ContentsAlone
    <3> QED
      BY <1>4, <1>10, <3>1 DEF obs
  <2> QED
    BY <1>0, <1>3, <1>4, <1>5, <1>10, <2>1, <2>2, OneStep
<1> QED
  BY <1>1, <1>7, <1>8, <1>9, <1>10 DEF obs, s

LEMMA SendOneStep ==
  ASSUME SInv, NEW p \in Pcs, SendOne(p)
  PROVE  StepKeeps
<1> DEFINE s == [pc[p] EXCEPT !.todo = @ - 1]
           f == pc[p].files[pc[p].tried + 1]
<1>1. /\ pc[p].up /\ pc[p].job = "single" /\ pc[p].todo > 0
      /\ Troubled(p, f) \/ One(p, f, s)
  BY DEF SendOne
<1>2. STypeOK /\ pc[p] \in PcState /\ FlushOK(pc[p]) /\ Free(p)
  BY <1>1, PcFacts, FreeWhile
<1>3. /\ pc[p].files \in Seq(Seq(Known)) /\ Len(pc[p].files) \in Nat /\ pc[p].tried \in Nat /\ pc[p].todo \in Nat
      /\ \A i \in 1..Len(pc[p].files) : pc[p].files[i] \in Seq(Known)
  BY <1>2, SpoolTypes
<1>4. pc[p].tried + 1 \in 1..Len(pc[p].files)
  <2>1. pc[p].tried + pc[p].todo <= Len(pc[p].files)
    BY <1>2 DEF FlushOK
  <2>2. Len(pc[p].files) \in Nat /\ pc[p].tried \in Nat /\ pc[p].todo \in Nat /\ pc[p].todo > 0
    BY <1>1, <1>3
  <2> QED
    BY <2>1, <2>2
<1>5. /\ s \in PcState /\ Alike(pc[p], s) /\ s.job = "single" /\ s.files = pc[p].files
      /\ s.tried = pc[p].tried /\ s.todo = pc[p].todo - 1
  <2>1. pc[p].todo - 1 \in Nat
    BY <1>1, <1>3
  <2>2. s = [pc[p] EXCEPT !.todo = pc[p].todo - 1]
    OBVIOUS
  <2> HIDE DEF s
  <2>3. s \in PcState
    BY <1>2, <2>1, <2>2 DEF PcState
  <2>4. /\ s.up = pc[p].up /\ s.halted = pc[p].halted /\ s.retryAt = pc[p].retryAt
        /\ s.lastSent = pc[p].lastSent /\ s.job = pc[p].job /\ s.files = pc[p].files
        /\ s.tried = pc[p].tried /\ s.todo = pc[p].todo - 1
    BY <1>2, <2>2 DEF PcState
  <2> QED
    BY <1>1, <2>3, <2>4 DEF Alike
<1>6. f \in Seq(Known) /\ f = s.files[s.tried + 1]
  BY <1>3, <1>4, <1>5
<1> HIDE DEF s, f
<1>7. FlushOK(s) /\ Room(s)
  BY <1>1, <1>2, <1>3, <1>5 DEF FlushOK, Room, Free, Alike
<1> QED
  BY <1>1, <1>2, <1>5, <1>6, <1>7, TroubledStep, OneStep

LEMMA HearStep ==
  ASSUME SInv, NEW p \in Pcs, Hear(p)
  PROVE  StepKeeps
<1> DEFINE shout == Last(shouts)
           before == {x \in heard : x.pc = p /\ x.at = shout.at}
           o == [pc |-> p, copy |-> Cardinality(before), text |-> shout.text, at |-> shout.at]
           new == [pc[p] EXCEPT !.recent = [@ EXCEPT ![shout.text] = clock], !.queue = Append(@, o)]
<1>1. /\ shouts # <<>> /\ heard' = heard \cup {o}
      /\ pc' = pc \/ pc' = [pc EXCEPT ![p].recent[shout.text] = clock, ![p].queue = Append(@, o)]
      /\ UNCHANGED <<clock, skew, shouts, hub, reader, stored, excused>>
  BY DEF Hear
<1>2. STypeOK /\ pc[p] \in PcState /\ FlushOK(pc[p]) /\ DeletedIsStored(pc[p]) /\ clock \in Nat
  BY PcFacts
<1>3. /\ shout \in [text : Texts, at : Nat] /\ shout \in ToSet(shouts)
  <2>1. shouts \in Seq([text : Texts, at : Nat])
    BY <1>2 DEF STypeOK
  <2>2. Len(shouts) \in DOMAIN shouts
    BY <1>1, <2>1
  <2>3. shout = shouts[Len(shouts)]
    BY DEF Last
  <2> HIDE DEF shout
  <2>4. shout \in [text : Texts, at : Nat]
    <3> DEFINE Heard == [text : Texts, at : Nat]
    <3> HIDE DEF Heard
    <3>1. shouts \in Seq(Heard)
      BY <2>1 DEF Heard
    <3>2. shouts[Len(shouts)] \in Heard
      BY <2>2, <3>1
    <3> QED
      BY <2>3, <3>2 DEF Heard
  <2>5. shout \in ToSet(shouts)
    BY <2>2, <2>3 DEF ToSet
  <2> QED
    BY <2>4, <2>5
<1> HIDE DEF shout
<1>4. IsFiniteSet(heard) /\ IsFiniteSet(before)
  <2>1. before \subseteq heard
    OBVIOUS
  <2>2. IsFiniteSet(heard)
    BY <1>2 DEF STypeOK
  <2> QED
    BY <2>1, <2>2, FS_Subset
<1>5. Cardinality(before) \in Nat
  BY <1>4, FS_CardinalityType
<1> HIDE DEF before
<1>6. o \in Known
  BY <1>3, <1>5 DEF Known, Observation, ShoutOf
<1> HIDE DEF o
<1>7. IsFiniteSet(heard')
  BY <1>1, <1>4, FS_AddElement
<1>8. CASE pc' = pc
  <2>1. pc' = [pc EXCEPT ![p] = pc[p]]
    BY <1>2, <1>8 DEF STypeOK
  <2>2. Alike(pc[p], pc[p])
    BY DEF Alike
  <2> QED
    BY <1>1, <1>2, <1>7, <2>1, <2>2, SafeSame, PcAlone DEF DeletedIsStored
<1>9. CASE pc' = [pc EXCEPT ![p].recent[shout.text] = clock, ![p].queue = Append(@, o)]
  <2>1. pc' = [pc EXCEPT ![p] = new]
    BY <1>2, <1>9 DEF STypeOK, PcState
  <2>2. pc[p].queue \in Seq(Known) /\ pc[p].recent \in [Texts -> Nat \cup {Nil}]
    BY <1>2 DEF PcState
  <2>3. Append(pc[p].queue, o) \in Seq(Known)
    BY <1>6, <2>2
  <2>4. [pc[p].recent EXCEPT ![shout.text] = clock] \in [Texts -> Nat \cup {Nil}]
    BY <1>2, <2>2
  <2>5. new \in PcState
    BY <1>2, <2>3, <2>4 DEF PcState
  <2>6. /\ Alike(pc[p], new) /\ new.job = pc[p].job /\ new.files = pc[p].files
        /\ new.tried = pc[p].tried /\ new.todo = pc[p].todo
    BY <1>2 DEF PcState, Alike
  <2> HIDE DEF new
  <2>7. FlushOK(new)
    BY <1>2, <2>6 DEF FlushOK, Alike
  <2> QED
    BY <1>1, <1>2, <1>7, <2>1, <2>5, <2>6, <2>7, SafeSame, PcAlone DEF DeletedIsStored
<1> QED
  BY <1>1, <1>8, <1>9

LEMMA DrainStep ==
  ASSUME SInv, NEW p \in Pcs, Drain(p)
  PROVE  StepKeeps
<1> DEFINE n == IF Len(pc[p].queue) < MaxRequest THEN Len(pc[p].queue) ELSE MaxRequest
           rest == SubSeq(pc[p].queue, n + 1, Len(pc[p].queue))
           part == SubSeq(pc[p].queue, 1, n)
           files == Append(pc[p].files, part)
           new == [pc[p] EXCEPT !.queue = rest, !.files = files]
<1>1. /\ pc[p].up /\ pc[p].job = "idle" /\ n > 0
      /\ pc' = [pc EXCEPT ![p].queue = rest, ![p].files = files]
      /\ UNCHANGED <<clock, skew, shouts, hub, reader, troubles, heard, stored, excused>>
  BY PcFacts DEF Drain, histories, STypeOK
<1>2. STypeOK /\ pc[p] \in PcState /\ FlushOK(pc[p])
  BY PcFacts
<1>3. pc[p].queue \in Seq(Known) /\ pc[p].files \in Seq(Seq(Known)) /\ MaxRequest \in Nat
  BY <1>2, SatongAssumption DEF PcState
<1>4. n \in 0..Len(pc[p].queue) /\ Len(pc[p].queue) \in Nat
  BY <1>3
<1> HIDE DEF n
<1>5. rest \in Seq(Known) /\ part \in Seq(Known)
  BY <1>3, <1>4
<1>6. pc' = [pc EXCEPT ![p] = new]
  BY <1>1, <1>2 DEF STypeOK, PcState
<1> HIDE DEF rest, part
<1>7. files \in Seq(Seq(Known)) /\ Len(files) = Len(pc[p].files) + 1 /\ Len(pc[p].files) \in Nat
  BY <1>3, <1>5
<1>12. ToSet(pc[p].files) \subseteq ToSet(files)
  <2> DEFINE old == pc[p].files
             Files == Seq(Known)
  <2>1. old \in Seq(Files) /\ part \in Files /\ files = Append(old, part)
    BY <1>3, <1>5
  <2> HIDE DEF old, Files, files
  <2>2. \A i \in DOMAIN old : i \in DOMAIN files /\ files[i] = old[i]
    BY <2>1
  <2>3. ToSet(old) \subseteq ToSet(files)
    BY <2>2 DEF ToSet
  <2> QED
    BY <2>3 DEF old
<1> HIDE DEF files
<1>8. new \in PcState
  BY <1>2, <1>5, <1>7 DEF PcState
<1>9. /\ Alike(pc[p], new) /\ new.job = pc[p].job /\ new.files = files
      /\ new.tried = pc[p].tried /\ new.todo = pc[p].todo
  BY <1>2 DEF PcState, Alike
<1> HIDE DEF new
<1>10. FlushOK(new)
  BY <1>1, <1>2, <1>7, <1>9 DEF FlushOK, Alike
<1>11. IsFiniteSet(heard')
  BY <1>1, <1>2 DEF STypeOK
<1> QED
  BY <1>1, <1>6, <1>8, <1>9, <1>10, <1>11, <1>12, SafeSame, PcAlone

LEMMA DeleteStep ==
  ASSUME SInv, NEW p \in Pcs, Delete(p)
  PROVE  StepKeeps
<1> DEFINE s == [pc[p] EXCEPT !.todo = @ - 1]
<1>1. /\ pc[p].up /\ pc[p].job = "delete" /\ pc[p].todo > 0
      /\ \/ pc' = [pc EXCEPT ![p] = Onward(Gone(s))]
         \/ pc' = [pc EXCEPT ![p] = Onward(Stays(s))]
      /\ UNCHANGED <<clock, skew, shouts, hub, reader, heard, stored, excused>>
  BY DEF Delete, histories
<1>2. STypeOK /\ pc[p] \in PcState /\ FlushOK(pc[p]) /\ DeletedIsStored(pc[p]) /\ IsFiniteSet(heard')
  BY <1>1, PcFacts DEF STypeOK
<1>3. Len(pc[p].files) \in Nat /\ pc[p].tried \in Nat /\ pc[p].todo \in Nat
  BY <1>2, SpoolTypes
<1>4. /\ s \in PcState /\ Alike(pc[p], s) /\ s.job = "delete" /\ s.files = pc[p].files
      /\ s.tried = pc[p].tried /\ s.todo = pc[p].todo - 1
  <2>1. pc[p].todo - 1 \in Nat
    BY <1>1, <1>3
  <2>2. s = [pc[p] EXCEPT !.todo = pc[p].todo - 1]
    OBVIOUS
  <2> HIDE DEF s
  <2>3. s \in PcState
    BY <1>2, <2>1, <2>2 DEF PcState
  <2>4. /\ s.up = pc[p].up /\ s.halted = pc[p].halted /\ s.retryAt = pc[p].retryAt
        /\ s.lastSent = pc[p].lastSent /\ s.job = pc[p].job /\ s.files = pc[p].files
        /\ s.tried = pc[p].tried /\ s.todo = pc[p].todo - 1
    BY <1>2, <2>2 DEF PcState
  <2> QED
    BY <1>1, <2>3, <2>4 DEF Alike
<1> HIDE DEF s
<1>5. pc[p].tried + pc[p].todo <= Len(pc[p].files)
  BY <1>2 DEF FlushOK
<1>6. FlushOK(s) /\ Room(s)
  BY <1>1, <1>2, <1>3, <1>4, <1>5 DEF FlushOK, Room, Alike
<1>7. \A i \in (s.tried + 1)..(s.tried + s.todo + 1) : ToSet(s.files[i]) \subseteq stored
  <2>1. \A i \in (pc[p].tried + 1)..(pc[p].tried + pc[p].todo) : ToSet(pc[p].files[i]) \subseteq stored
    BY <1>1, <1>2 DEF DeletedIsStored
  <2>2. s.tried + s.todo + 1 = pc[p].tried + pc[p].todo
    BY <1>3, <1>4
  <2> QED
    BY <1>4, <2>1, <2>2
<1>8. ASSUME NEW after \in PcState, FlushOK(after), Alike(s, after), after.job = "delete",
             \A i \in (after.tried + 1)..(after.tried + after.todo) : ToSet(after.files[i]) \subseteq stored,
             Safe(pc[p].files, after.files), pc' = [pc EXCEPT ![p] = Onward(after)]
      PROVE  StepKeeps
  <2>1. /\ Onward(after) \in PcState /\ FlushOK(Onward(after)) /\ Alike(after, Onward(after))
        /\ Onward(after).files = after.files
        /\ Onward(after).job = "delete" => Onward(after) = after
    BY <1>8, OnwardFacts
  <2>2. Alike(pc[p], Onward(after))
    BY <1>4, <1>8, <2>1 DEF Alike
  <2> QED
    BY <1>1, <1>2, <1>8, <2>1, <2>2, PcAlone
<1>9. CASE pc' = [pc EXCEPT ![p] = Onward(Gone(s))]
  <2>1. /\ Gone(s) \in PcState /\ FlushOK(Gone(s)) /\ Alike(s, Gone(s)) /\ Gone(s).job = "delete"
        /\ Gone(s).tried = s.tried /\ Gone(s).todo = s.todo
        /\ \A j \in 1..(Len(s.files) - 1) :
             Gone(s).files[j] = IF j < s.tried + 1 THEN s.files[j] ELSE s.files[j + 1]
    BY <1>4, <1>6, GoneFacts
  <2>2. ASSUME NEW i \in (Gone(s).tried + 1)..(Gone(s).tried + Gone(s).todo)
        PROVE  ToSet(Gone(s).files[i]) \subseteq stored
    <3>1. /\ i \in 1..(Len(s.files) - 1) /\ ~(i < s.tried + 1)
          /\ i + 1 \in (s.tried + 1)..(s.tried + s.todo + 1)
      BY <1>1, <1>3, <1>4, <1>5, <2>1
    <3> QED
      BY <1>7, <2>1, <3>1
  <2>3. Safe(s.files, Gone(s).files)
    <3> SUFFICES ASSUME NEW k \in 1..Len(s.files), NEW i \in DOMAIN s.files[k]
                 PROVE  \/ \E g \in ToSet(Gone(s).files) : s.files[k][i] \in ToSet(g)
                        \/ s.files[k][i] \in stored'
      BY <1>4, SpoolTypes DEF Safe, ToSet
    <3>1. s.files[k][i] \in ToSet(s.files[k])
      BY DEF ToSet
    <3>2. CASE k # s.tried + 1
      BY <1>4, <1>6, <3>1, <3>2, GoneKeeps
    <3>3. CASE k = s.tried + 1
      <4>1. s.tried \in Nat /\ s.todo \in Nat
        BY <1>1, <1>3, <1>4
      <4>2. k \in (s.tried + 1)..(s.tried + s.todo + 1)
        BY <3>3, <4>1
      <4> QED
        BY <1>1, <1>7, <3>1, <4>2
    <3> QED
      BY <3>2, <3>3
  <2> QED
    BY <1>4, <1>8, <1>9, <2>1, <2>2, <2>3
<1>10. CASE pc' = [pc EXCEPT ![p] = Onward(Stays(s))]
  <2>1. /\ Stays(s) \in PcState /\ FlushOK(Stays(s)) /\ Alike(s, Stays(s)) /\ Stays(s).job = "delete"
        /\ Stays(s).tried = s.tried + 1 /\ Stays(s).todo = s.todo /\ Stays(s).files = s.files
    BY <1>4, <1>6, StaysFacts
  <2>2. ASSUME NEW i \in (Stays(s).tried + 1)..(Stays(s).tried + Stays(s).todo)
        PROVE  ToSet(Stays(s).files[i]) \subseteq stored
    <3>0. s.tried \in Nat /\ s.todo \in Nat
      BY <1>1, <1>3, <1>4
    <3>1. i \in (s.tried + 1)..(s.tried + s.todo + 1)
      BY <2>1, <3>0
    <3> QED
      BY <1>7, <2>1, <3>1
  <2> QED
    BY <1>4, <1>8, <1>10, <2>1, <2>2, SafeSame
<1> QED
  BY <1>1, <1>9, <1>10

LEMMA SendHeartbeatStep ==
  ASSUME SInv, NEW p \in Pcs, SendHeartbeat(p)
  PROVE  StepKeeps
<1>1. /\ pc[p].up /\ pc[p].job = "idle" /\ ~Held(p)
      /\ Answered(p, <<>>, pc[p]) \/ Troubled(p, <<>>)
  BY DEF SendHeartbeat, HeartbeatDue
<1>2. pc[p] \in PcState /\ FlushOK(pc[p]) /\ Free(p)
  BY <1>1, PcFacts, FreeWhile
<1>3. <<>> \in Seq(Known) /\ Alike(pc[p], pc[p])
  BY DEF Alike
<1>4. CASE Answered(p, <<>>, pc[p])
  <2>1. Safe(pc[p].files, pc[p].files)
    BY SafeSame
  <2> QED
    BY <1>1, <1>2, <1>3, <1>4, <2>1, AnsweredStep
<1>5. CASE Troubled(p, <<>>)
  BY <1>2, <1>3, <1>5, TroubledStep
<1> QED
  BY <1>1, <1>4, <1>5

LEMMA ReturnStep ==
  ASSUME SInv, NEW p \in Pcs, Return(p)
  PROVE  StepKeeps
<1> DEFINE new == [pc[p] EXCEPT !.job = "idle"]
<1>1. /\ pc[p].job = "waiting"
      /\ pc' = [pc EXCEPT ![p].job = "idle"]
      /\ UNCHANGED <<clock, skew, shouts, hub, reader, heard, stored, excused>>
  BY DEF Return, histories
<1>2. STypeOK /\ pc[p] \in PcState /\ FlushOK(pc[p]) /\ IsFiniteSet(heard')
  BY <1>1, PcFacts DEF STypeOK
<1>3. pc' = [pc EXCEPT ![p] = new]
  BY <1>1, <1>2 DEF STypeOK, PcState
<1>4. new \in PcState
  BY <1>2 DEF PcState, Jobs
<1>5. /\ Alike(pc[p], new) /\ new.job = "idle" /\ new.files = pc[p].files
      /\ new.tried = pc[p].tried /\ new.todo = pc[p].todo
  BY <1>2 DEF PcState, Alike
<1> HIDE DEF new
<1>6. FlushOK(new)
  BY <1>1, <1>2, <1>5 DEF FlushOK, Alike
<1> QED
  BY <1>1, <1>2, <1>3, <1>4, <1>5, <1>6, SafeSame, PcAlone

LEMMA StartedFacts ==
  ASSUME NEW files \in Seq(Seq(Known))
  PROVE  /\ Started(files) \in PcState /\ FlushOK(Started(files)) /\ Started(files).job = "idle"
         /\ Started(files).retryAt = 0 /\ ~Started(files).halted /\ Started(files).up
         /\ Started(files).lastSent = Nil /\ Started(files).files = files
         /\ Started(files).tried = 0 /\ Started(files).todo = 0
<1>1. Started(files) \in PcState
  <2>1. <<>> \in Seq(Known) /\ [t \in Texts |-> Nil] \in [Texts -> Nat \cup {Nil}]
    OBVIOUS
  <2> QED
    BY <2>1 DEF Started, PcState, Jobs
<1>2. /\ Started(files).job = "idle"
      /\ Started(files).retryAt = 0 /\ ~Started(files).halted /\ Started(files).up
      /\ Started(files).lastSent = Nil /\ Started(files).files = files
      /\ Started(files).tried = 0 /\ Started(files).todo = 0
  BY DEF Started
<1>3. Len(files) \in Nat
  OBVIOUS
<1> QED
  BY <1>1, <1>2, <1>3 DEF FlushOK

LEMMA CrashStep ==
  ASSUME SInv, NEW p \in Pcs, Crash(p)
  PROVE  StepKeeps
<1> DEFINE s == Started(pc[p].files)
           new == [s EXCEPT !.up = FALSE]
<1>1. /\ pc' = [pc EXCEPT ![p] = new] /\ excused' = [excused EXCEPT ![p] = LastTime]
      /\ UNCHANGED <<clock, skew, shouts, hub, reader, heard, stored>>
  BY PcFacts DEF Crash, STypeOK
<1>2. STypeOK /\ pc[p] \in PcState /\ clock \in Nat /\ clock <= LastTime /\ LastTime \in Nat
      /\ Heartbeat \in Nat /\ excused \in [Pcs -> Nat]
  BY PcFacts
<1>3. /\ s \in PcState /\ s.job = "idle" /\ s.retryAt = 0 /\ ~s.halted
      /\ s.lastSent = Nil /\ s.tried = 0 /\ s.todo = 0 /\ Len(s.files) \in Nat /\ s.files = pc[p].files
  BY <1>2, SpoolTypes, StartedFacts
<1> HIDE DEF s
<1>4. /\ new \in PcState /\ new.job = "idle" /\ new.retryAt = 0 /\ ~new.halted /\ ~new.up
      /\ new.lastSent = Nil /\ new.tried = 0 /\ new.todo = 0 /\ new.files = s.files
  BY <1>3 DEF PcState
<1> HIDE DEF new
<1>5. FlushOK(new)
  BY <1>3, <1>4 DEF FlushOK
<1>6. /\ excused' \in [Pcs -> Nat] /\ excused'[p] = LastTime
      /\ \A q \in Pcs \ {p} : excused'[q] = excused[q]
  BY <1>1, <1>2
<1>7. pc'[p] = new /\ IsFiniteSet(heard')
  BY <1>1, <1>2 DEF STypeOK
<1>8. NewsOf(p)'
  BY <1>1, <1>2, <1>4, <1>6, <1>7 DEF NewsOf
<1>9. Safe(pc[p].files, new.files) /\ HubGrows /\ HubMoves
  BY <1>1, <1>2, <1>3, <1>4, SafeSame, SameHubGrows DEF HubMoves
<1> QED
  BY <1>1, <1>4, <1>5, <1>6, <1>7, <1>8, <1>9, PcStep DEF StepKeeps

LEMMA RestartStep ==
  ASSUME SInv, NEW p \in Pcs, StartAgain(p)
  PROVE  StepKeeps
<1> DEFINE new == Started(pc[p].files)
<1>1. /\ pc' = [pc EXCEPT ![p] = new] /\ excused' = [excused EXCEPT ![p] = clock]
      /\ UNCHANGED <<clock, skew, shouts, hub, reader, heard, stored>>
  BY PcFacts DEF StartAgain, STypeOK
<1>2. STypeOK /\ pc[p] \in PcState /\ clock \in Nat
      /\ Heartbeat \in Nat /\ excused \in [Pcs -> Nat]
  BY PcFacts
<1>3. /\ new \in PcState /\ FlushOK(new) /\ new.job = "idle" /\ new.retryAt = 0 /\ ~new.halted /\ new.up
      /\ new.lastSent = Nil /\ new.tried = 0 /\ new.todo = 0 /\ new.files = pc[p].files
  BY <1>2, SpoolTypes, StartedFacts
<1> HIDE DEF new
<1>4. /\ excused' \in [Pcs -> Nat] /\ excused'[p] = clock
      /\ \A q \in Pcs \ {p} : excused'[q] = excused[q]
  BY <1>1, <1>2
<1>5. pc'[p] = new /\ IsFiniteSet(heard')
  BY <1>1, <1>2 DEF STypeOK
<1>6. NewsOf(p)'
  BY <1>1, <1>2, <1>3, <1>4, <1>5 DEF NewsOf
<1>7. Safe(pc[p].files, new.files) /\ HubGrows /\ HubMoves
  BY <1>1, <1>2, <1>3, SafeSame, SameHubGrows DEF HubMoves
<1> QED
  BY <1>1, <1>3, <1>4, <1>5, <1>6, <1>7, PcStep DEF StepKeeps

-----------------------------------------------------------------------------
(***************************************************************************)
(* The clock, the server, the reader and what the hub forgets.             *)
(***************************************************************************)
LEMMA TickStep ==
  ASSUME SInv, Elapse
  PROVE  SInv'
<1>1. /\ clock < LastTime /\ clock' = clock + 1 /\ \A p \in Pcs : Resting(p)
      /\ UNCHANGED <<skew, shouts, pc, hub, reader, heard, stored, excused>>
  BY DEF Elapse, histories
<1>2. STypeOK'
  <2>1. LastTime \in Nat /\ clock \in 0..LastTime
    BY SatongAssumption DEF SInv, STypeOK
  <2>2. clock' \in 0..LastTime
    BY <1>1, <2>1
  <2> QED
    BY <1>1, <2>2, SameKnown, SameHubType DEF SInv, STypeOK
<1>3. clock \in Nat /\ LastTime \in Nat /\ Heartbeat \in Nat /\ MergeSec \in Nat
  BY SatongAssumption DEF SInv, STypeOK
<1>4. ShoutsApart'
  <2>1. \A i \in DOMAIN shouts : shouts[i].at \in Nat
    <3> DEFINE Heard == [text : Texts, at : Nat]
    <3>1. shouts \in Seq(Heard) /\ \A x \in Heard : x.at \in Nat
      BY DEF SInv, STypeOK
    <3> HIDE DEF Heard
    <3> QED
      BY <3>1
  <2> QED
    BY <1>1, <1>3, <2>1 DEF SInv, ShoutsApart
<1>5. ASSUME NEW p \in Pcs PROVE (FlushOK(pc[p]) /\ DeletedIsStored(pc[p]) /\ NewsOf(p))'
  <2>1. /\ pc[p] \in PcState /\ FlushOK(pc[p]) /\ DeletedIsStored(pc[p]) /\ NewsOf(p)
        /\ excused[p] \in Nat /\ hub.beats[p] \in Nat \cup {Nil} /\ pc[p].retryAt \in Nat
        /\ pc[p].lastSent \in Nat \cup {Nil}
    BY PcFacts DEF PcState
  <2>2. FlushOK(pc[p])' /\ DeletedIsStored(pc[p])'
    BY <1>1, <1>3, <2>1 DEF FlushOK, DeletedIsStored
  <2>3. \/ clock + 1 <= excused[p] + Heartbeat
        \/ hub.beats[p] # Nil /\ clock + 1 <= hub.beats[p] + Heartbeat
    <3>1. CASE pc[p].halted \/ ~pc[p].up
      BY <1>1, <1>3, <2>1, <3>1 DEF NewsOf
    <3>2. CASE clock < pc[p].retryAt
      BY <1>3, <2>1, <3>2 DEF NewsOf
    <3>3. CASE ~Held(p) /\ ~HeartbeatDue(p)
      <4>1. pc[p].lastSent # Nil /\ ~(clock - pc[p].lastSent >= Heartbeat)
        BY <3>3 DEF HeartbeatDue
      <4>2. clock + 1 <= pc[p].lastSent + Heartbeat
        BY <1>3, <2>1, <4>1
      <4> QED
        BY <1>3, <2>1, <4>1, <4>2 DEF NewsOf
    <3> QED
      BY <1>1, <3>1, <3>2, <3>3 DEF Resting, Held
  <2>4. NewsOf(p)'
    BY <1>1, <2>1, <2>3 DEF NewsOf
  <2> QED
    BY <2>2, <2>4
<1>6. CursorInv'
  BY <1>1 DEF SInv, CursorInv
<1> QED
  BY <1>2, <1>4, <1>5, <1>6 DEF SInv

\* A shout more: what is known grows.
LEMMA ShoutStep ==
  ASSUME SInv, NEW t \in Texts, Shout(t)
  PROVE  SInv' /\ Known \subseteq Known'
<1> DEFINE shout == [text |-> t, at |-> clock]
           Heard == [text : Texts, at : Nat]
<1>1. /\ shouts # <<>> => clock - Last(shouts).at >= Interval
      /\ shouts' = Append(shouts, shout)
      /\ UNCHANGED <<clock, skew, pc, hub, reader, heard, stored, excused>>
  BY DEF Shout, histories
<1>2. /\ STypeOK /\ ShoutsApart /\ CursorInv /\ clock \in Nat /\ Interval \in Nat
      /\ shouts \in Seq(Heard) /\ shout \in Heard /\ shout.at = clock /\ shout.text = t
      /\ \A x \in Heard : x.at \in Nat
  BY SatongAssumption DEF SInv, STypeOK
<1> HIDE DEF shout, Heard
<1>3. /\ shouts' \in Seq(Heard) /\ Len(shouts') = Len(shouts) + 1 /\ Len(shouts) \in Nat
      /\ shouts'[Len(shouts) + 1] = shout
      /\ \A i \in 1..Len(shouts) : shouts'[i] = shouts[i] /\ shouts[i] \in Heard
  BY <1>1, <1>2
<1>4. DOMAIN shouts = 1..Len(shouts) /\ DOMAIN shouts' = 1..(Len(shouts) + 1)
  BY <1>2, <1>3
<1>5. Known \subseteq Known'
  <2>1. ToSet(shouts) \subseteq ToSet(shouts')
    BY <1>3, <1>4 DEF ToSet
  <2> QED
    BY <2>1 DEF Known
<1>6. PcState \subseteq PcState' /\ Row \subseteq Row'
  <2>1. Seq(Known) \subseteq Seq(Known')
    BY <1>5
  <2>2. Seq(Seq(Known)) \subseteq Seq(Seq(Known'))
    <3> DEFINE K == Seq(Known)
               L == Seq(Known')
    <3>1. K \subseteq L
      BY <2>1
    <3> HIDE DEF K, L
    <3>2. Seq(K) \subseteq Seq(L)
      BY <3>1
    <3> QED
      BY <3>2 DEF K, L
  <2>3. Row \subseteq Row'
    BY <1>5 DEF Row
  <2>4. PcState \subseteq PcState'
    <3> DEFINE K == Seq(Known)
               L == Seq(Known')
               KK == Seq(Seq(Known))
               LL == Seq(Seq(Known'))
    <3>1. K \subseteq L /\ KK \subseteq LL
      BY <2>1, <2>2
    <3>2. PcState = [up : BOOLEAN, recent : [Texts -> Nat \cup {Nil}], queue : K, files : KK,
                     job : Jobs, todo : Nat, tried : Nat, retryAt : Nat, halted : BOOLEAN,
                     lastSent : Nat \cup {Nil}]
      BY DEF PcState
    <3>3. PcState' = [up : BOOLEAN, recent : [Texts -> Nat \cup {Nil}], queue : L, files : LL,
                      job : Jobs, todo : Nat, tried : Nat, retryAt : Nat, halted : BOOLEAN,
                      lastSent : Nat \cup {Nil}]
      BY DEF PcState
    <3> HIDE DEF K, L, KK, LL
    <3> QED
      BY <3>1, <3>2, <3>3
  <2> QED
    BY <2>3, <2>4
<1>7. STypeOK'
  <2>1. pc \in [Pcs -> PcState'] 
    BY <1>2, <1>6 DEF STypeOK
  <2>2. HubTypeOK(hub)'
    BY <1>1, <1>2, <1>5, <1>6 DEF STypeOK, HubTypeOK
  <2> QED
    BY <1>1, <1>2, <1>3, <2>1, <2>2 DEF STypeOK, Heard
<1>8. ShoutsApart'
  <2>1. ASSUME NEW i \in DOMAIN shouts' PROVE shouts'[i].at <= clock
    BY <1>2, <1>3, <1>4 DEF ShoutsApart
  <2>2. ASSUME NEW i \in DOMAIN shouts', NEW j \in DOMAIN shouts', i < j
        PROVE  shouts'[i].at + Interval <= shouts'[j].at
    <3>1. CASE j \in 1..Len(shouts)
      BY <1>2, <1>3, <1>4, <2>2, <3>1 DEF ShoutsApart
    <3>2. CASE j = Len(shouts) + 1
      <4>1. /\ i \in 1..Len(shouts) /\ Len(shouts) \in 1..Len(shouts)
            /\ shouts'[j].at = clock /\ shouts'[i] = shouts[i]
        BY <1>2, <1>3, <1>4, <2>2, <3>2
      <4>2. /\ shouts # <<>> /\ Last(shouts) = shouts[Len(shouts)]
            /\ shouts[Len(shouts)].at \in Nat /\ shouts[i].at \in Nat
        BY <1>2, <1>3, <4>1 DEF Last
      <4>3. shouts[Len(shouts)].at + Interval <= clock
        BY <1>1, <1>2, <4>2
      <4>4. shouts[i].at <= shouts[Len(shouts)].at
        BY <1>2, <1>3, <1>4, <4>1, <4>2 DEF ShoutsApart
      <4> QED
        BY <1>2, <4>1, <4>2, <4>3, <4>4
    <3> QED
      BY <1>3, <1>4, <3>1, <3>2
  <2> QED
    BY <1>1, <2>1, <2>2 DEF ShoutsApart
<1>9. ASSUME NEW p \in Pcs PROVE (FlushOK(pc[p]) /\ DeletedIsStored(pc[p]) /\ NewsOf(p))'
  BY <1>1 DEF SInv, FlushOK, DeletedIsStored, NewsOf
<1>10. CursorInv'
  BY <1>1, <1>2 DEF CursorInv
<1> QED
  BY <1>5, <1>7, <1>8, <1>9, <1>10 DEF SInv

LEMMA LargestIs ==
  ASSUME NEW S, NEW n \in Nat, S \subseteq 1..n, S # {}, NEW other
  PROVE  Largest(S, other) \in S /\ \A y \in S : y <= Largest(S, other)
<1> DEFINE T == {n - x : x \in S}
<1>1. T \subseteq Nat /\ T # {}
  OBVIOUS
<1>2. \A x \in S : n - x \in T
  OBVIOUS
<1>3. \A m \in T : \E x \in S : m = n - x
  OBVIOUS
<1> HIDE DEF T
<1>4. PICK m \in T : \A k \in T : m <= k
  BY <1>1, Least
<1>5. PICK x \in S : m = n - x
  BY <1>3
<1>6. \A y \in S : y <= x
  BY <1>2, <1>4, <1>5
<1>7. Largest(S, other) = CHOOSE z \in S : \A y \in S : y <= z
  BY DEF Largest
<1> QED
  BY <1>6, <1>7

\* The reader moves on, by pages that leave nothing out.
LEMMA PollStep ==
  ASSUME SInv, PollRecent
  PROVE  /\ SInv' /\ reader'.cursor # Nil
         /\ reader.cursor # Nil => reader.given \subseteq reader'.given /\ reader'.base = reader.base
<1>1. /\ reader.cursor # Nil => RecentPage(reader.cursor) # {}
      /\ reader' = IF reader.cursor = Nil
                     THEN LET r == Largest(DOMAIN hub.rows, 0)
                          IN  [cursor |-> r, base |-> r, given |-> {}]
                     ELSE [reader EXCEPT !.cursor = Largest(RecentPage(@), @),
                                         !.given = @ \cup RecentPage(reader.cursor)]
      /\ UNCHANGED <<clock, skew, shouts, pc, hub, heard, stored, excused>>
  BY DEF PollRecent, histories
<1>2. /\ STypeOK /\ CursorInv /\ reader \in [cursor : Nat \cup {Nil}, base : Nat, given : SUBSET Nat]
      /\ hub.next \in Nat \ {0} /\ DOMAIN hub.rows \subseteq 1..(hub.next - 1) /\ Nil \notin Int
      /\ PageLimit \in Nat
  BY SatongAssumption DEF SInv, STypeOK, HubTypeOK
<1>3. hub.next - 1 \in Nat
  BY <1>2
<1>4. reader' \in [cursor : Nat \cup {Nil}, base : Nat, given : SUBSET Nat] /\ reader'.cursor # Nil
      /\ (reader.cursor # Nil => reader.given \subseteq reader'.given /\ reader'.base = reader.base)
      /\ CursorInv'
  <2>1. CASE reader.cursor = Nil
    <3> DEFINE r == Largest(DOMAIN hub.rows, 0)
    <3>1. reader' = [cursor |-> r, base |-> r, given |-> {}]
      BY <1>1, <2>1
    <3>2. r \in Nat /\ r < hub.next
      <4>1. CASE DOMAIN hub.rows = {}
        <5>1. r = 0
          BY <4>1 DEF Largest
        <5> QED
          BY <1>2, <5>1
      <4>2. CASE DOMAIN hub.rows # {}
        <5>1. r \in DOMAIN hub.rows
          BY <1>2, <1>3, <4>2, LargestIs
        <5> QED
          BY <1>2, <5>1
      <4> QED
        BY <4>1, <4>2
    <3> HIDE DEF r
    <3>3. reader'.cursor = r /\ reader'.base = r /\ reader'.given = {}
      BY <3>1
    <3>4. CursorInv'
      BY <1>1, <1>2, <3>2, <3>3 DEF CursorInv
    <3> QED
      BY <1>2, <2>1, <3>1, <3>2, <3>3, <3>4
  <2>2. CASE reader.cursor # Nil
    <3> DEFINE c == reader.cursor
               page == RecentPage(c)
               m == Largest(page, c)
    <3>1. reader' = [reader EXCEPT !.cursor = m, !.given = @ \cup page] /\ page # {}
      BY <1>1, <2>2
    <3>2. /\ c \in Nat /\ reader.base \in Nat /\ reader.base <= c /\ c < hub.next
          /\ \A r \in DOMAIN hub.rows : reader.base < r /\ r <= c => r \in reader.given
      BY <1>2, <2>2 DEF CursorInv
    <3>3. page \subseteq DOMAIN hub.rows /\ \A r \in page : c < r
      BY <1>2, <3>2 DEF RecentPage
    <3>4. m \in page /\ \A r \in page : r <= m
      <4> HIDE DEF page
      <4> QED
        BY <1>2, <1>3, <3>1, <3>3, LargestIs
    <3>5. ASSUME NEW r \in DOMAIN hub.rows, c < r, r <= m
          PROVE  r \in page
      <4> DEFINE B(x) == {q \in DOMAIN hub.rows : c < q /\ q < x}
      <4>1. IsFiniteSet(B(m)) /\ B(r) \subseteq B(m)
        <5>1. IsFiniteSet(1..(hub.next - 1)) /\ B(m) \subseteq 1..(hub.next - 1)
          <6>1. IsFiniteSet(1..(hub.next - 1))
            BY <1>3, FS_Interval
          <6> QED
            BY <1>2, <6>1
        <5>2. r \in Nat /\ m \in Nat /\ DOMAIN hub.rows \subseteq Nat
          BY <1>2, <3>3, <3>4
        <5>3. B(r) \subseteq B(m)
          BY <3>2, <3>5, <5>2
        <5> QED
          BY <5>1, <5>3, FS_Subset
      <4>2. Cardinality(B(m)) < PageLimit
        BY <3>4 DEF RecentPage
      <4>3. Cardinality(B(r)) <= Cardinality(B(m)) /\ Cardinality(B(r)) \in Nat /\ Cardinality(B(m)) \in Nat
        <5> HIDE DEF B
        <5> QED
          BY <4>1, FS_Subset, FS_CardinalityType
      <4>4. Cardinality(B(r)) < PageLimit
        BY <1>2, <4>2, <4>3
      <4> QED
        BY <3>5, <4>4 DEF RecentPage
    <3> HIDE DEF m, page
    <3>6. /\ reader'.cursor = m /\ reader'.base = reader.base
          /\ reader'.given = reader.given \cup page
      BY <1>2, <3>1
    <3>7. m \in Nat /\ c < m /\ m < hub.next /\ page \subseteq Nat
      BY <1>2, <3>3, <3>4
    <3>8. reader' \in [cursor : Nat \cup {Nil}, base : Nat, given : SUBSET Nat]
      BY <1>2, <3>1, <3>7
    <3>9. CursorInv'
      <4>1. reader.base <= m
        BY <3>2, <3>7
      <4>2. ASSUME NEW r \in DOMAIN hub.rows, reader.base < r, r <= m
            PROVE  r \in reader.given \cup page
        BY <1>2, <3>2, <3>5, <4>2
      <4> QED
        BY <1>1, <3>6, <3>7, <4>1, <4>2 DEF CursorInv
    <3> QED
      BY <1>2, <3>6, <3>7, <3>8, <3>9
  <2> QED
    BY <2>1, <2>2
<1>5. STypeOK'
  BY <1>1, <1>2, <1>4, SameKnown, SameHubType DEF STypeOK
<1>6. ShoutsApart' /\ \A p \in Pcs : (FlushOK(pc[p]) /\ DeletedIsStored(pc[p]) /\ NewsOf(p))'
  BY <1>1 DEF SInv, ShoutsApart, FlushOK, DeletedIsStored, NewsOf
<1> QED
  BY <1>4, <1>5, <1>6 DEF SInv

LEMMA PruneStep ==
  ASSUME SInv, PruneSatong
  PROVE  /\ SInv' /\ UNCHANGED <<clock, skew, shouts, pc, reader>>
         /\ DOMAIN hub'.rows \subseteq DOMAIN hub.rows
         /\ \A r \in DOMAIN hub'.rows : hub'.rows[r] = hub.rows[r]
         /\ \A o \in DOMAIN hub.ids :
              \/ o \in DOMAIN hub'.ids /\ hub'.ids[o] = hub.ids[o]
              \/ hub.ids[o] < clock - SatongDays
<1> DEFINE cutoff == clock - SatongDays
           rows == {r \in DOMAIN hub.rows : hub.rows[r].last >= cutoff}
           kept == [r \in rows |-> hub.rows[r]]
           ids == {o \in DOMAIN hub.ids : hub.ids[o] >= cutoff}
<1>1. /\ hub' = [hub EXCEPT !.rows = kept, !.next = hub.next, !.ids = [o \in ids |-> hub.ids[o]]]
      /\ UNCHANGED <<clock, skew, shouts, pc, reader, heard, stored, excused>>
  BY DEF PruneSatong, NextId, histories
<1>2. STypeOK /\ HubTypeOK(hub) /\ cutoff \in Int
  <2>1. clock \in Nat /\ SatongDays \in Nat
    BY SatongAssumption DEF SInv, STypeOK
  <2> QED
    BY <2>1 DEF SInv, STypeOK
<1>3. /\ DOMAIN hub' = DOMAIN hub /\ hub'.next = hub.next /\ hub'.beats = hub.beats
      /\ hub'.rows = kept /\ hub'.ids = [o \in ids |-> hub.ids[o]]
  BY <1>1, <1>2 DEF HubTypeOK
<1> HIDE DEF cutoff
<1>4. HubGrows
  BY <1>2, <1>3 DEF HubTypeOK, HubGrows
<1>5. STypeOK'
  BY <1>1, <1>2, <1>4, SameKnown, SameHubType DEF STypeOK, HubGrows
<1>6. ShoutsApart' /\ \A p \in Pcs : (FlushOK(pc[p]) /\ DeletedIsStored(pc[p]) /\ NewsOf(p))'
  BY <1>1, <1>3 DEF SInv, ShoutsApart, FlushOK, DeletedIsStored, NewsOf
<1>7. CursorInv'
  BY <1>1, <1>2, <1>4, CursorKept DEF SInv
<1>8. ASSUME NEW o \in DOMAIN hub.ids, o \notin ids PROVE hub.ids[o] < clock - SatongDays
  BY <1>2, <1>8 DEF HubTypeOK, cutoff
<1> QED
  BY <1>1, <1>3, <1>5, <1>6, <1>7, <1>8 DEF SInv

-----------------------------------------------------------------------------
(***************************************************************************)
(* The invariant, and what it is for.                                      *)
(***************************************************************************)
LEMMA InitInv == SatongInit => SInv /\ HubInv(hub)
<1> SUFFICES ASSUME SatongInit PROVE SInv /\ HubInv(hub)
  OBVIOUS
<1> USE DEF SatongInit
<1>1. /\ <<>> \in Seq(Seq(Known)) /\ LastTime \in Nat /\ Heartbeat \in Nat
  BY SatongAssumption
<1>2. HubTypeOK(hub)
  <2>1. DOMAIN hub.rows = {} /\ DOMAIN hub.ids = {}
    OBVIOUS
  <2> QED
    BY <2>1 DEF HubTypeOK
<1>3. STypeOK
  <2>1. \A p \in Pcs : Started(<<>>) \in PcState
    BY <1>1, StartedFacts
  <2>2. pc \in [Pcs -> PcState]
    BY <2>1
  <2>3. IsFiniteSet(heard)
    BY FS_EmptySet
  <2> QED
    BY <1>1, <1>2, <2>2, <2>3 DEF STypeOK
<1>4. ShoutsApart /\ CursorInv
  BY DEF ShoutsApart, CursorInv
<1>5. ASSUME NEW p \in Pcs PROVE FlushOK(pc[p]) /\ DeletedIsStored(pc[p]) /\ NewsOf(p)
  <2>1. pc[p] = Started(<<>>) /\ excused[p] = 0
    OBVIOUS
  <2>2. /\ FlushOK(pc[p]) /\ pc[p].job = "idle" /\ pc[p].retryAt = 0 /\ ~pc[p].halted /\ pc[p].up
        /\ pc[p].lastSent = Nil
    BY <1>1, <2>1, StartedFacts
  <2> QED
    BY <1>1, <2>1, <2>2 DEF DeletedIsStored, NewsOf
<1>6. HubInv(hub)
  BY <1>2 DEF HubInv, RowsAnchored, RowsApart, IdIsKept, RowsCounted
<1> QED
  BY <1>3, <1>4, <1>5, <1>6 DEF SInv

LEMMA UploaderStep ==
  ASSUME SInv, NEW p \in Pcs,
         \/ Hear(p) \/ Drain(p) \/ Flush(p) \/ SendOne(p) \/ Delete(p)
         \/ SendHeartbeat(p) \/ Return(p) \/ Crash(p) \/ StartAgain(p)
  PROVE  StepKeeps
  BY HearStep, DrainStep, FlushStep, SendOneStep, DeleteStep, SendHeartbeatStep, ReturnStep,
     CrashStep, RestartStep

LEMMA SamePc ==
  ASSUME pc' = pc
  PROVE  Kept
  BY SafeSame DEF Kept

LEMMA SatongStep ==
  ASSUME SInv, [SatongNext]_satongvars
  PROVE  SInv' /\ Kept
<1>1. CASE \E p \in Pcs : \/ Hear(p) \/ Drain(p) \/ Flush(p) \/ SendOne(p) \/ Delete(p)
                          \/ SendHeartbeat(p) \/ Return(p) \/ Crash(p) \/ StartAgain(p)
  BY <1>1, UploaderStep DEF StepKeeps
<1>2. CASE \E t \in Texts : Shout(t)
  BY <1>2, ShoutStep, SamePc DEF Shout
<1>3. CASE PollRecent
  BY <1>3, PollStep, SamePc DEF PollRecent
<1>4. CASE PruneSatong
  BY <1>4, PruneStep, SamePc
<1>5. CASE Elapse
  BY <1>5, TickStep, SamePc DEF Elapse
<1>6. CASE UNCHANGED satongvars
  <2>1. UNCHANGED <<clock, skew, shouts, pc, hub, reader, heard, stored, excused>>
    BY <1>6 DEF satongvars, histories
  <2>2. STypeOK'
    BY <2>1, SameKnown, SameHubType DEF SInv, STypeOK
  <2>3. (ShoutsApart /\ CursorInv /\ \A p \in Pcs : FlushOK(pc[p]) /\ DeletedIsStored(pc[p]) /\ NewsOf(p))'
    BY <2>1 DEF SInv, ShoutsApart, CursorInv, FlushOK, DeletedIsStored, NewsOf
  <2> QED
    BY <2>1, <2>2, <2>3, SamePc DEF SInv
<1> QED
  BY <1>1, <1>2, <1>3, <1>4, <1>5, <1>6 DEF SatongNext

\* A request the hub finds nothing amiss with leaves a row a shout.
LEMMA StoredInv ==
  ASSUME SInv, SInv', ClocksAgree, HubInv(hub), HubMoves
  PROVE  HubInv(hub)'
<1>0. HubTypeOK(hub)'
  BY DEF SInv, STypeOK
<1>1. UNCHANGED <<clock, skew, shouts>>
  BY DEF HubMoves
<1>2. ASSUME NEW h, HubInv(h), hub'.rows = h.rows, hub'.ids = h.ids
      PROVE  HubInv(hub)'
  <2>1. RowsAnchored(hub)'
    BY <1>1, <1>2 DEF HubInv, RowsAnchored, Shows, Clocks
  <2>2. RowsApart(hub)' /\ RowsCounted(hub)'
    BY <1>1, <1>2 DEF HubInv, RowsApart, RowsCounted
  <2>3. IdIsKept(hub)'
    BY <1>1, <1>2 DEF HubInv, IdIsKept, AgentTs
  <2> QED
    BY <1>0, <2>1, <2>2, <2>3 DEF HubInv
<1>3. CASE hub' = hub
  BY <1>2, <1>3
<1>4. ASSUME NEW p \in Pcs, NEW obs \in Seq(Known), Outcome(p, obs) = "ok", Store(p, obs)
      PROVE  HubInv(hub)'
  <2> DEFINE h == Inserted(hub, obs)
  <2>1. \A i \in DOMAIN obs : TimeInRange(obs[i])
    BY <1>4 DEF Outcome, Unfit
  <2>2. HubInv(h)
    BY <2>1, InsertedInv DEF SInv
  <2>3. hub' = [h EXCEPT !.beats[p] = clock]
    BY <1>4 DEF Store
  <2> HIDE DEF h
  <2>4. hub'.rows = h.rows /\ hub'.ids = h.ids
    BY <2>2, <2>3 DEF HubInv, HubTypeOK
  <2> QED
    BY <1>2, <2>2, <2>4
<1> QED
  BY <1>3, <1>4 DEF HubMoves

\* What the hub has not touched stays as it is while time passes.
LEMMA SameHubInv ==
  ASSUME SInv, SInv', HubInv(hub), UNCHANGED <<hub, skew>>, clock <= clock'
  PROVE  HubInv(hub)'
<1>1. HubTypeOK(hub)'
  BY DEF SInv, STypeOK
<1>2. RowsAnchored(hub)' /\ RowsApart(hub)' /\ RowsCounted(hub)'
  BY DEF HubInv, RowsAnchored, RowsApart, RowsCounted, Shows, Clocks
<1>3. IdIsKept(hub)'
  <2> SUFFICES ASSUME NEW r \in DOMAIN hub.rows, NEW o \in hub.rows[r].obs, skew[o.pc] <= 0
               PROVE  \/ o \in DOMAIN hub.ids /\ hub.ids[o] >= AgentTs(o)
                      \/ AgentTs(o) < clock' - SatongDays
    BY DEF IdIsKept, AgentTs
  <2>1. \/ o \in DOMAIN hub.ids /\ hub.ids[o] >= AgentTs(o)
        \/ AgentTs(o) < clock - SatongDays
    BY DEF HubInv, IdIsKept
  <2>2. o \in Known
    BY DEF HubInv, HubTypeOK, Row
  <2>3. AgentTs(o) \in Int
    BY <2>2, SeenType DEF SInv
  <2>4. clock \in Int /\ clock' \in Int /\ SatongDays \in Int
    BY SatongAssumption DEF SInv, STypeOK
  <2> QED
    BY <2>1, <2>3, <2>4
<1> QED
  BY <1>1, <1>2, <1>3 DEF HubInv

\* What is forgotten is too old to come again.
LEMMA PrunedInv ==
  ASSUME SInv, HubInv(hub), PruneSatong
  PROVE  HubInv(hub)'
<1>1. /\ SInv' /\ UNCHANGED <<clock, skew, shouts>>
      /\ DOMAIN hub'.rows \subseteq DOMAIN hub.rows
      /\ \A r \in DOMAIN hub'.rows : hub'.rows[r] = hub.rows[r]
      /\ \A o \in DOMAIN hub.ids :
           \/ o \in DOMAIN hub'.ids /\ hub'.ids[o] = hub.ids[o]
           \/ hub.ids[o] < clock - SatongDays
  BY PruneStep
<1>2. HubTypeOK(hub)'
  BY <1>1 DEF SInv, STypeOK
<1>3. RowsAnchored(hub)'
  BY <1>1 DEF HubInv, RowsAnchored, Shows, Clocks
<1>4. RowsApart(hub)' /\ RowsCounted(hub)'
  BY <1>1 DEF HubInv, RowsApart, RowsCounted
<1>5. IdIsKept(hub)'
  <2> SUFFICES ASSUME NEW r \in DOMAIN hub'.rows, NEW o \in hub'.rows[r].obs, skew[o.pc] <= 0
               PROVE  \/ o \in DOMAIN hub'.ids /\ hub'.ids[o] >= AgentTs(o)
                      \/ AgentTs(o) < clock - SatongDays
    BY <1>1 DEF IdIsKept, AgentTs
  <2>1. r \in DOMAIN hub.rows /\ o \in hub.rows[r].obs
    BY <1>1
  <2>2. \/ o \in DOMAIN hub.ids /\ hub.ids[o] >= AgentTs(o)
        \/ AgentTs(o) < clock - SatongDays
    BY <2>1 DEF HubInv, IdIsKept
  <2>3. o \in Known
    BY <2>1 DEF HubInv, HubTypeOK, Row
  <2>4. AgentTs(o) \in Int /\ clock \in Int /\ SatongDays \in Int
    BY <2>3, SeenType, SatongAssumption DEF SInv, STypeOK
  <2>5. o \in DOMAIN hub.ids => hub.ids[o] \in Nat
    BY DEF HubInv, HubTypeOK
  <2> QED
    BY <1>1, <2>2, <2>4, <2>5
<1> QED
  BY <1>2, <1>3, <1>4, <1>5 DEF HubInv

LEMMA HubInvStep ==
  ASSUME SInv, ClocksAgree, HubInv(hub), [SatongNext]_satongvars
  PROVE  HubInv(hub)'
<1>0. SInv' /\ clock \in Int
  BY SatongStep DEF SInv, STypeOK
<1>1. CASE \E p \in Pcs : \/ Hear(p) \/ Drain(p) \/ Flush(p) \/ SendOne(p) \/ Delete(p)
                          \/ SendHeartbeat(p) \/ Return(p) \/ Crash(p) \/ StartAgain(p)
  BY <1>0, <1>1, UploaderStep, StoredInv DEF StepKeeps
<1>2. CASE PruneSatong
  BY <1>2, PrunedInv
<1>3. CASE (\E t \in Texts : Shout(t)) \/ PollRecent \/ Elapse \/ UNCHANGED satongvars
  <2>1. CASE Elapse
    BY <1>0, <2>1, SameHubInv DEF Elapse
  <2>2. CASE (\E t \in Texts : Shout(t)) \/ PollRecent \/ UNCHANGED satongvars
    <3>1. UNCHANGED <<hub, skew, clock>>
      BY <2>2 DEF Shout, PollRecent, satongvars
    <3>2. clock <= clock'
      BY <1>0, <3>1
    <3> QED
      BY <1>0, <3>1, <3>2, SameHubInv
  <2> QED
    BY <1>3, <2>1, <2>2
<1> QED
  BY <1>1, <1>2, <1>3 DEF SatongNext

LEMMA ReaderStep ==
  ASSUME SInv, [SatongNext]_satongvars, reader.cursor # Nil
  PROVE  /\ reader'.cursor # Nil /\ reader.given \subseteq reader'.given /\ reader'.base = reader.base
         /\ \A r \in DOMAIN hub'.rows \ DOMAIN hub.rows : r > reader'.cursor
<1>1. CASE \E p \in Pcs : \/ Hear(p) \/ Drain(p) \/ Flush(p) \/ SendOne(p) \/ Delete(p)
                          \/ SendHeartbeat(p) \/ Return(p) \/ Crash(p) \/ StartAgain(p)
  <2>1. HubMoves
    BY <1>1, UploaderStep DEF StepKeeps
  <2>2. reader' = reader /\ HubGrows
    <3>1. STypeOK
      BY DEF SInv
    <3> QED
      BY <2>1, <3>1, SameHubGrows, StoreGrows DEF HubMoves
  <2>3. reader.cursor < hub.next /\ reader.cursor \in Nat /\ hub.next \in Nat /\ DOMAIN hub'.rows \subseteq Nat
    BY <2>2 DEF SInv, CursorInv, STypeOK, HubTypeOK, HubGrows
  <2> QED
    BY <2>2, <2>3 DEF HubGrows
<1>2. CASE PollRecent
  BY <1>2, PollStep DEF PollRecent
<1>3. CASE PruneSatong
  BY <1>3, PruneStep
<1>4. CASE (\E t \in Texts : Shout(t)) \/ Elapse \/ UNCHANGED satongvars
  BY <1>4 DEF Shout, Elapse, satongvars
<1> QED
  BY <1>1, <1>2, <1>3, <1>4 DEF SatongNext

\* The state is typed, the cursor behind all that is to come, and time at most a
\* heartbeat ahead of the news of a PC, or of its reason to send none.
THEOREM SatongInvariant == SatongSpec => []SInv
<1>1. SatongInit => SInv
  BY InitInv
<1>2. SInv /\ [SatongNext]_satongvars => SInv'
  BY SatongStep
<1> QED
  BY <1>1, <1>2, PTL DEF SatongSpec

\* Nothing that was spooled is deleted or set aside unless it is in the hub, or in
\* a file the hub would refuse by itself.
THEOREM SpoolIsKept == SatongSpec => KeptUntilStored
<1>1. SInv /\ [SatongNext]_satongvars =>
        [\A p \in Pcs : \A f \in ToSet(pc[p].files) : \A i \in DOMAIN f :
           \/ \E g \in ToSet(pc'[p].files) : f[i] \in ToSet(g)
           \/ f[i] \in stored'
           \/ Unfit(f)]_satongvars
  BY SatongStep DEF Kept, Safe
<1> QED
  BY <1>1, SatongInvariant, PTL DEF SatongSpec, KeptUntilStored

\* The reader is given every row that came after he began: what is new is behind
\* his cursor, and what is not was given to him.
THEOREM RowsAreRead == SatongSpec => ReadInOrder
<1>1. SInv /\ [SatongNext]_satongvars =>
        [reader.cursor # Nil =>
           /\ \A r \in DOMAIN hub'.rows \ DOMAIN hub.rows : r > reader'.cursor
           /\ reader'.given \cap reader.given = reader.given
           /\ \A r \in DOMAIN hub'.rows :
                reader.base < r /\ r <= reader'.cursor => r \in reader'.given]_satongvars
  <2> SUFFICES ASSUME SInv, [SatongNext]_satongvars, reader.cursor # Nil
               PROVE  /\ \A r \in DOMAIN hub'.rows \ DOMAIN hub.rows : r > reader'.cursor
                      /\ reader'.given \cap reader.given = reader.given
                      /\ \A r \in DOMAIN hub'.rows :
                           reader.base < r /\ r <= reader'.cursor => r \in reader'.given
    OBVIOUS
  <2>1. /\ reader'.cursor # Nil /\ reader.given \subseteq reader'.given
        /\ \A r \in DOMAIN hub'.rows \ DOMAIN hub.rows : r > reader'.cursor
    BY ReaderStep
  <2>2. CursorInv'
    BY SatongStep DEF SInv
  <2>3. reader'.base = reader.base
    BY ReaderStep
  <2> QED
    BY <2>1, <2>2, <2>3 DEF CursorInv
<1> QED
  BY <1>1, SatongInvariant, PTL DEF SatongSpec, ReadInOrder

\* The hub has heard of a PC within the time it gives it, or the PC had a reason.
THEOREM OfflineIsExcused == SatongSpec => []OfflineHasAReason
<1>1. SInv => OfflineHasAReason
  <2> SUFFICES ASSUME SInv, NEW p \in Pcs,
                      clock - (IF hub.beats[p] = Nil THEN 0 ELSE hub.beats[p]) > Offline
               PROVE  clock - excused[p] <= Heartbeat
    BY DEF OfflineHasAReason
  <2>1. /\ clock \in Nat /\ excused[p] \in Nat /\ hub.beats[p] \in Nat \cup {Nil}
        /\ Heartbeat \in Nat /\ Offline \in Nat /\ Heartbeat < Offline /\ NewsOf(p)
    BY PcFacts, SatongAssumption
  <2> QED
    BY <2>1 DEF NewsOf
<1> QED
  BY <1>1, SatongInvariant, PTL

\* While the clocks agree a row of the hub is one shout and a shout one row,
\* whoever heard it, and however often and in whatever order it arrives.
THEOREM OneRowPerShout ==
  ASSUME ClocksAgree
  PROVE  SatongSpec => []RowsAreShouts
<1>1. SatongInit => SInv /\ HubInv(hub)
  BY InitInv
<1>2. SInv /\ HubInv(hub) /\ [SatongNext]_satongvars => SInv' /\ HubInv(hub)'
  BY SatongStep, HubInvStep
<1>3. SInv /\ HubInv(hub) => RowsAreShouts
  BY DEF HubInv, RowsApart, RowsCounted, RowsAreShouts
<1> QED
  BY <1>1, <1>2, <1>3, PTL DEF SatongSpec

=============================================================================
