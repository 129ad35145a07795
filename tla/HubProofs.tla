------------------------------ MODULE HubProofs ------------------------------
(***************************************************************************)
(* The hub, proved: what HubDevices promises for every set of slots and    *)
(* every limit; what the market tables and the polling consumer promise    *)
(* for any number of observations and listings, whatever the retention,    *)
(* the page size and the clocks; and that the search agrees with the       *)
(* expiry of its answer for days of any length.                            *)
(***************************************************************************)
EXTENDS HubDevices, HubListings, FiniteSetTheorems, WellFoundedInduction, TLAPS

(***************************************************************************)
(* One key of a limiter: its window e, the times p at which its hits were  *)
(* let through, its limit L, and the time t.  All but the last L of them   *)
(* lie a window before the present one, which is what a hit needs.         *)
(***************************************************************************)
Windows == [start : Nat, count : Nat]

Spread(p, L) ==
  \A i \in 1..(Len(p) - (2 * L - 1)) : p[i + (2 * L - 1)] - p[i] >= Window

Timed(p, t) ==
  /\ p \in Seq(Nat)
  /\ \A i \in 1..Len(p) : p[i] <= t
  /\ \A i, j \in 1..Len(p) : i <= j => p[i] <= p[j]

Idle(p, L, t) == \A i \in 1..Len(p) : i <= Len(p) - L + 1 => p[i] + Window <= t

Busy(e, p, L, t) ==
  /\ e \in Windows
  /\ e.start <= t /\ 1 <= e.count /\ e.count <= L /\ e.count <= Len(p)
  /\ p[Len(p) - e.count + 1] = e.start
  /\ \A i \in 1..Len(p) : i <= Len(p) - e.count - L + 1 => p[i] + Window <= e.start

KeyInv(e, p, L, t) ==
  /\ Timed(p, t) /\ Spread(p, L)
  /\ (e = None /\ Idle(p, L, t)) \/ (e # None /\ Busy(e, p, L, t))

\* Time only helps.
LEMMA KeyLater ==
  ASSUME NEW e, NEW p, NEW L \in Nat \ {0}, NEW t \in Nat, KeyInv(e, p, L, t)
  PROVE  KeyInv(e, p, L, t + 1)
  BY LimiterAssumption DEF KeyInv, Timed, Spread, Idle, Busy, Windows

\* A window that is over may be forgotten: _sweep.
LEMMA KeyOver ==
  ASSUME NEW e, NEW p, NEW L \in Nat \ {0}, NEW t \in Nat, KeyInv(e, p, L, t),
         e # None, Over(e.start, t)
  PROVE  KeyInv(None, p, L, t)
<1>1. Timed(p, t) /\ Spread(p, L) /\ Busy(e, p, L, t)
  BY DEF KeyInv
<1>2. ASSUME NEW i \in 1..Len(p), i <= Len(p) - L + 1
      PROVE  p[i] + Window <= t
  <2>1. i <= Len(p) - e.count + 1 /\ Len(p) - e.count + 1 \in 1..Len(p)
    BY <1>1, <1>2 DEF Busy, Windows, Timed
  <2>2. p[i] <= p[Len(p) - e.count + 1]
    BY <1>1, <2>1 DEF Timed
  <2>3. p[i] \in Nat /\ e.start \in Nat
    BY <1>1 DEF Timed, Busy, Windows
  <2> QED
    BY <1>1, <2>2, <2>3, LimiterAssumption DEF Busy, Over
<1> QED
  BY <1>1, <1>2 DEF KeyInv, Idle

\* What Append makes of the times.
LEMMA Longer ==
  ASSUME NEW p \in Seq(Nat), NEW t \in Nat
  PROVE  /\ Append(p, t) \in Seq(Nat) /\ Len(Append(p, t)) = Len(p) + 1
         /\ Append(p, t)[Len(p) + 1] = t
         /\ \A i \in 1..Len(p) : Append(p, t)[i] = p[i]
         /\ Len(p) \in Nat /\ \A i \in 1..Len(p) : p[i] \in Nat
  OBVIOUS

\* The hit is the latest, and no span shorter than the window gets 2 * L of
\* them if all but the last L - 1 before it lie a window back.
LEMMA KeyLonger ==
  ASSUME NEW p, NEW L \in Nat \ {0}, NEW t \in Nat, Timed(p, t), Spread(p, L),
         \A i \in 1..Len(p) : i <= Len(p) + 2 - 2 * L => p[i] + Window <= t
  PROVE  Timed(Append(p, t), t) /\ Spread(Append(p, t), L)
<1>0. p \in Seq(Nat)
  BY DEF Timed
<1>1. PICK n : n = Len(p)
  OBVIOUS
<1>2. PICK q : q = Append(p, t)
  OBVIOUS
<1>3. /\ n \in Nat /\ q \in Seq(Nat) /\ Len(q) = n + 1 /\ q[n + 1] = t
      /\ \A i \in 1..n : q[i] = p[i] /\ p[i] \in Nat /\ p[i] <= t
  BY <1>0, <1>1, <1>2, Longer DEF Timed
<1>4. \A i, j \in 1..n : i <= j => p[i] <= p[j]
  BY <1>1 DEF Timed
<1>5. Timed(q, t)
  <2>1. ASSUME NEW i \in 1..(n + 1) PROVE q[i] <= t
    <3>1. CASE i = n + 1
      BY <3>1, <1>3
    <3>2. CASE i \in 1..n
      BY <3>2, <1>3
    <3> QED BY <3>1, <3>2, <1>3
  <2>2. ASSUME NEW i \in 1..(n + 1), NEW j \in 1..(n + 1), i <= j
        PROVE  q[i] <= q[j]
    <3>1. CASE j = n + 1
      BY <3>1, <2>1, <1>3
    <3>2. CASE j \in 1..n
      <4>1. i \in 1..n
        BY <3>2, <2>2, <1>3
      <4>2. p[i] <= p[j] /\ q[i] = p[i] /\ q[j] = p[j]
        BY <3>2, <4>1, <2>2, <1>3, <1>4
      <4> QED BY <4>2
    <3> QED BY <3>1, <3>2, <1>3
  <2> QED
    BY <2>1, <2>2, <1>3 DEF Timed
<1>6. Spread(q, L)
  <2>1. ASSUME NEW i \in 1..(n + 1 - (2 * L - 1))
        PROVE  q[i + (2 * L - 1)] - q[i] >= Window
    <3>1. PICK j \in 1..(n + 1) : j = i + (2 * L - 1)
      BY <1>3
    <3>2. i \in 1..n /\ q[i] = p[i] /\ p[i] \in Nat
      BY <3>1, <1>3
    <3>3. CASE j = n + 1
      <4>1. p[i] + Window <= t
        BY <3>1, <3>2, <3>3, <1>1, <1>3
      <4>2. q[j] = t
        BY <3>3, <1>3
      <4> QED BY <4>1, <4>2, <3>1, <3>2, LimiterAssumption
    <3>4. CASE j \in 1..n
      <4>1. p[i + (2 * L - 1)] - p[i] >= Window
        BY <3>1, <3>4, <1>1, <1>3 DEF Spread
      <4>2. q[j] = p[j]
        BY <3>4, <1>3
      <4> QED BY <4>1, <4>2, <3>1, <3>2
    <3> QED BY <3>3, <3>4, <1>3
  <2> QED
    BY <2>1, <1>3 DEF Spread
<1> QED
  BY <1>2, <1>5, <1>6

\* A hit that begins a window.
LEMMA KeyBegins ==
  ASSUME NEW p, NEW L \in Nat \ {0}, NEW t \in Nat, KeyInv(None, p, L, t)
  PROVE  KeyInv([start |-> t, count |-> 1], Append(p, t), L, t)
<1>0. None \notin Windows
  BY LimiterAssumption DEF Windows
<1>1. Timed(p, t) /\ Spread(p, L) /\ Idle(p, L, t)
  BY <1>0 DEF KeyInv, Busy
<1>2. /\ Len(p) \in Nat /\ Len(Append(p, t)) = Len(p) + 1 /\ Append(p, t)[Len(p) + 1] = t
      /\ \A i \in 1..Len(p) : Append(p, t)[i] = p[i]
  BY <1>1, Longer DEF Timed
<1>3. Timed(Append(p, t), t) /\ Spread(Append(p, t), L)
  <2>1. \A i \in 1..Len(p) : i <= Len(p) + 2 - 2 * L => p[i] + Window <= t
    BY <1>1, <1>2 DEF Idle
  <2> QED BY <1>1, <2>1, KeyLonger
<1>4. PICK q : q = Append(p, t)
  OBVIOUS
<1>5. Busy([start |-> t, count |-> 1], q, L, t)
  <2>1. ASSUME NEW i \in 1..(Len(p) + 1), i <= (Len(p) + 1) - 1 - L + 1
        PROVE  q[i] + Window <= t
    <3>1. i \in 1..Len(p)
      BY <2>1, <1>2
    <3> QED BY <2>1, <3>1, <1>1, <1>2, <1>4 DEF Idle
  <2> QED BY <2>1, <1>2, <1>4 DEF Busy, Windows
<1>6. [start |-> t, count |-> 1] # None
  BY <1>0 DEF Windows
<1> QED
  BY <1>3, <1>4, <1>5, <1>6 DEF KeyInv

\* A hit within a window that has room.
LEMMA KeyGoesOn ==
  ASSUME NEW e, NEW p, NEW L \in Nat \ {0}, NEW t \in Nat, KeyInv(e, p, L, t),
         e # None, e.count < L
  PROVE  KeyInv([e EXCEPT !.count = @ + 1], Append(p, t), L, t)
<1>1. Timed(p, t) /\ Spread(p, L) /\ Busy(e, p, L, t)
  BY DEF KeyInv
<1>2. PICK f : f = [e EXCEPT !.count = @ + 1]
  OBVIOUS
<1>3. /\ f \in Windows /\ f.start = e.start /\ f.count = e.count + 1
      /\ e.count \in Nat /\ e.start \in Nat
  BY <1>1, <1>2 DEF Busy, Windows
<1>4. /\ Len(p) \in Nat /\ Len(Append(p, t)) = Len(p) + 1
      /\ \A i \in 1..Len(p) : Append(p, t)[i] = p[i] /\ p[i] \in Nat
  BY <1>1, Longer DEF Timed
<1>5. Timed(Append(p, t), t) /\ Spread(Append(p, t), L)
  <2>1. ASSUME NEW i \in 1..Len(p), i <= Len(p) + 2 - 2 * L
        PROVE  p[i] + Window <= t
    <3>1. i <= Len(p) - e.count - L + 1
      BY <2>1, <1>3, <1>4
    <3>2. p[i] + Window <= e.start /\ e.start <= t
      BY <3>1, <1>1 DEF Busy
    <3> QED BY <3>2, <1>3, <1>4, LimiterAssumption
  <2> QED BY <1>1, <2>1, KeyLonger
<1>6. PICK q : q = Append(p, t)
  OBVIOUS
<1>7. Busy(f, q, L, t)
  <2>1. (Len(p) + 1) - f.count + 1 = Len(p) - e.count + 1 /\ Len(p) - e.count + 1 \in 1..Len(p)
    BY <1>1, <1>3, <1>4 DEF Busy
  <2>2. q[(Len(p) + 1) - f.count + 1] = e.start
    BY <2>1, <1>1, <1>4, <1>6 DEF Busy
  <2>3. ASSUME NEW i \in 1..(Len(p) + 1), i <= (Len(p) + 1) - f.count - L + 1
        PROVE  q[i] + Window <= e.start
    <3>1. i \in 1..Len(p) /\ i <= Len(p) - e.count - L + 1
      BY <2>3, <1>1, <1>3, <1>4 DEF Busy
    <3> QED BY <3>1, <1>1, <1>4, <1>6 DEF Busy
  <2>4. 1 <= f.count /\ f.count <= L /\ f.count <= Len(p) + 1 /\ f.start <= t
    BY <1>1, <1>3, <1>4 DEF Busy
  <2> QED BY <2>2, <2>3, <2>4, <1>3, <1>4, <1>6 DEF Busy
<1>8. f # None
  BY <1>3, LimiterAssumption DEF Windows
<1> QED
  BY <1>2, <1>5, <1>6, <1>7, <1>8 DEF KeyInv

(***************************************************************************)
(* One limiter: its state l, the keys K, the times p of each key.          *)
(***************************************************************************)
LimiterInv(l, K, p, L, t) ==
  /\ l \in [hits : [K -> Windows \cup {None}], swept : 0..t]
  /\ DOMAIN p = K
  /\ \A k \in K : KeyInv(l.hits[k], p[k], L, t)

LEMMA LimiterLater ==
  ASSUME NEW l, NEW K, NEW p, NEW L \in Nat \ {0}, NEW t \in Nat, LimiterInv(l, K, p, L, t)
  PROVE  LimiterInv(l, K, p, L, t + 1)
<1>1. \A k \in K : KeyInv(l.hits[k], p[k], L, t + 1)
  BY KeyLater DEF LimiterInv
<1> QED
  BY <1>1 DEF LimiterInv

\* _sweep forgets only what may be forgotten.
LEMMA SweepKeeps ==
  ASSUME NEW l, NEW K, NEW p, NEW L \in Nat \ {0}, NEW t \in Nat, LimiterInv(l, K, p, L, t)
  PROVE  LimiterInv(Sweep(l, t), K, p, L, t)
<1>1. CASE t - l.swept < Window
  BY <1>1 DEF Sweep
<1>2. CASE ~(t - l.swept < Window)
  <2>1. PICK m : m = Sweep(l, t)
    OBVIOUS
  <2>2. DOMAIN l.hits = K
    BY DEF LimiterInv
  <2>3. m = [hits |-> [k \in K |-> IF l.hits[k] # None /\ Over(l.hits[k].start, t)
                                     THEN None ELSE l.hits[k]], swept |-> t]
    BY <1>2, <2>1, <2>2 DEF Sweep
  <2>4. m \in [hits : [K -> Windows \cup {None}], swept : 0..t]
    BY <2>3 DEF LimiterInv
  <2>5. ASSUME NEW k \in K PROVE KeyInv(m.hits[k], p[k], L, t)
    <3>1. KeyInv(l.hits[k], p[k], L, t)
      BY DEF LimiterInv
    <3>2. CASE l.hits[k] # None /\ Over(l.hits[k].start, t)
      BY <3>1, <3>2, <2>3, KeyOver
    <3>3. CASE ~(l.hits[k] # None /\ Over(l.hits[k].start, t))
      BY <3>1, <3>3, <2>3
    <3> QED BY <3>2, <3>3
  <2> QED
    BY <2>1, <2>4, <2>5 DEF LimiterInv
<1> QED
  BY <1>1, <1>2

\* hit keeps the invariant of every key, with the time it let through added.
LEMMA HitKeeps ==
  ASSUME NEW l, NEW K, NEW p, NEW L \in Nat \ {0}, NEW t \in Nat, NEW key \in K,
         LimiterInv(l, K, p, L, t)
  PROVE  LimiterInv(Hit(l, key, t, L), K,
                    IF Refused(l, key, t, L) THEN p ELSE [p EXCEPT ![key] = Append(@, t)], L, t)
<1>1. PICK m : m = Sweep(l, t)
  OBVIOUS
<1>2. LimiterInv(m, K, p, L, t)
  BY <1>1, SweepKeeps
<1>3. PICK e : e = Entry(l, key, t)
  OBVIOUS
<1>4. KeyInv(m.hits[key], p[key], L, t)
  BY <1>2 DEF LimiterInv
<1>5. Refused(l, key, t, L) <=> e.count >= L
  BY <1>3 DEF Refused
<1>6. /\ m \in [hits : [K -> Windows \cup {None}], swept : 0..t] /\ DOMAIN p = K
      /\ \A k \in K : KeyInv(m.hits[k], p[k], L, t)
  BY <1>2 DEF LimiterInv
<1>7. ASSUME NEW f, f \in Windows, NEW q, DOMAIN q = K, \A k \in K \ {key} : q[k] = p[k],
             KeyInv(f, q[key], L, t)
      PROVE  LimiterInv([m EXCEPT !.hits[key] = f], K, q, L, t)
  <2>1. PICK h : h = [m EXCEPT !.hits[key] = f]
    OBVIOUS
  <2>2. /\ h \in [hits : [K -> Windows \cup {None}], swept : 0..t]
        /\ h.hits[key] = f /\ \A k \in K \ {key} : h.hits[k] = m.hits[k]
    BY <2>1, <1>6, <1>7
  <2>3. ASSUME NEW k \in K PROVE KeyInv(h.hits[k], q[k], L, t)
    <3>1. CASE k = key
      BY <3>1, <2>2, <1>7
    <3>2. CASE k # key
      BY <3>2, <2>2, <1>6, <1>7
    <3> QED BY <3>1, <3>2
  <2> QED
    BY <2>1, <2>2, <2>3, <1>7 DEF LimiterInv
<1>8. CASE m.hits[key] = None \/ Over(m.hits[key].start, t)
  <2>1. e = [start |-> t, count |-> 0]
    BY <1>1, <1>3, <1>8 DEF Entry
  <2>2. ~(e.count >= L)
    BY <2>1
  <2>3. KeyInv(None, p[key], L, t)
    BY <1>4, <1>8, KeyOver
  <2>4. KeyInv([start |-> t, count |-> 1], Append(p[key], t), L, t)
    BY <2>3, KeyBegins
  <2>5. Hit(l, key, t, L) = [m EXCEPT !.hits[key] = [start |-> t, count |-> 1]]
    <3>1. [e EXCEPT !.count = @ + 1] = [start |-> t, count |-> 1]
      BY <2>1
    <3> QED BY <3>1, <1>1, <1>3, <2>2 DEF Hit
  <2>6. PICK q : q = [p EXCEPT ![key] = Append(@, t)]
    OBVIOUS
  <2>7. DOMAIN q = K /\ q[key] = Append(p[key], t) /\ \A k \in K \ {key} : q[k] = p[k]
    BY <2>6, <1>6
  <2>8. [start |-> t, count |-> 1] \in Windows
    BY DEF Windows
  <2>9. KeyInv([start |-> t, count |-> 1], q[key], L, t)
    BY <2>4, <2>7
  <2>10. LimiterInv([m EXCEPT !.hits[key] = [start |-> t, count |-> 1]], K, q, L, t)
    BY <2>7, <2>8, <2>9, <1>7
  <2> QED
    BY <2>2, <2>5, <2>6, <2>10, <1>5
<1>9. CASE ~(m.hits[key] = None \/ Over(m.hits[key].start, t))
  <2>1. e = m.hits[key] /\ e # None /\ e \in Windows
    BY <1>1, <1>3, <1>6, <1>9 DEF Entry
  <2>2. CASE e.count >= L
    <3>1. Hit(l, key, t, L) = [m EXCEPT !.hits[key] = e]
      BY <2>2, <1>1, <1>3 DEF Hit
    <3>2. LimiterInv([m EXCEPT !.hits[key] = e], K, p, L, t)
      BY <2>1, <1>4, <1>6, <1>7
    <3> QED BY <3>1, <3>2, <2>2, <1>5
  <2>3. CASE ~(e.count >= L)
    <3>1. PICK f : f = [e EXCEPT !.count = @ + 1]
      OBVIOUS
    <3>2. Hit(l, key, t, L) = [m EXCEPT !.hits[key] = f]
      BY <2>3, <3>1, <1>1, <1>3 DEF Hit
    <3>3. f \in Windows /\ e.count < L
      BY <3>1, <2>1, <2>3 DEF Windows
    <3>4. KeyInv(f, Append(p[key], t), L, t)
      BY <3>1, <3>3, <2>1, <1>4, KeyGoesOn
    <3>5. PICK q : q = [p EXCEPT ![key] = Append(@, t)]
      OBVIOUS
    <3>6. DOMAIN q = K /\ q[key] = Append(p[key], t) /\ \A k \in K \ {key} : q[k] = p[k]
      BY <3>5, <1>6
    <3>7. KeyInv(f, q[key], L, t)
      BY <3>4, <3>6
    <3>8. LimiterInv([m EXCEPT !.hits[key] = f], K, q, L, t)
      BY <3>3, <3>6, <3>7, <1>7
    <3> QED BY <3>2, <3>5, <3>8, <2>3, <1>5
  <2> QED BY <2>2, <2>3
<1> QED
  BY <1>8, <1>9

(***************************************************************************)
(* The inductive invariant.                                                *)
(***************************************************************************)
Names == Slots \cup Given \cup {Blank}

Device(t) == [slot : Slots, alias : Names, created : 0..t, revoked : BOOLEAN]

Registrations(t) == [kind : {"register"}, at : 0..t]

Uploads(D) == [kind : {"upload"}, device : D]

HType ==
  /\ now \in Nat
  /\ devices \in Seq(Device(now)) /\ Len(devices) <= MaxDevices
  /\ requests \subseteq Registrations(now) \cup Uploads(DOMAIN devices)
  /\ cli \in {None} \cup [op : {"revoke", "unrevoke"}, device : DOMAIN devices]
  /\ under \subseteq requests \cap Uploads(DOMAIN devices)
  /\ restored \subseteq DOMAIN devices
  /\ named \in [Slots -> Given \cup {None}]

HLimits ==
  /\ DOMAIN limits = Buckets /\ DOMAIN passed = Buckets
  /\ \A b \in Buckets : LimiterInv(limits[b], Key[b], passed[b], Limit[b], now)

HInv == HType /\ HLimits /\ OneHolder /\ NameSurvives /\ NoneAfterRevoke

\* The limits after a request.
LEMMA CountedKeeps ==
  ASSUME HType, HLimits, NEW b \in DOMAIN Key, NEW key \in Key[b], Counted(b, key), now' = now
  PROVE  HLimits'
<1>1. CASE b \notin Buckets
  BY <1>1 DEF Counted, HLimits
<1>2. CASE b \in Buckets
  <2>1. limits' = [limits EXCEPT ![b] = Hit(limits[b], key, now, Limit[b])]
    BY <1>2 DEF Counted
  <2>2. PICK q : q = IF Refused(limits[b], key, now, Limit[b]) THEN passed[b]
                      ELSE [passed[b] EXCEPT ![key] = Append(@, now)]
    OBVIOUS
  <2>3. DOMAIN passed' = Buckets /\ passed'[b] = q /\ \A c \in Buckets \ {b} : passed'[c] = passed[c]
    BY <1>2, <2>2 DEF Counted, HLimits
  <2>4. /\ DOMAIN limits' = Buckets /\ limits'[b] = Hit(limits[b], key, now, Limit[b])
        /\ \A c \in Buckets \ {b} : limits'[c] = limits[c]
    BY <1>2, <2>1 DEF HLimits
  <2>5. LimiterInv(limits'[b], Key[b], q, Limit[b], now)
    <3>1. Limit[b] \in Nat \ {0} /\ now \in Nat
      BY <1>2, DevicesAssumption DEF HType
    <3>2. LimiterInv(limits[b], Key[b], passed[b], Limit[b], now)
      BY <1>2 DEF HLimits
    <3>3. LimiterInv(Hit(limits[b], key, now, Limit[b]), Key[b],
                     IF Refused(limits[b], key, now, Limit[b]) THEN passed[b]
                     ELSE [passed[b] EXCEPT ![key] = Append(@, now)], Limit[b], now)
      BY <3>1, <3>2, HitKeeps, Zenon
    <3> QED BY <2>2, <2>4, <3>3, Zenon
  <2>6. ASSUME NEW c \in Buckets PROVE LimiterInv(limits'[c], Key[c], passed'[c], Limit[c], now')
    <3>1. CASE c = b
      BY <3>1, <2>3, <2>5
    <3>2. CASE c # b
      BY <3>2, <2>3, <2>4 DEF HLimits
    <3> QED BY <3>1, <3>2
  <2> QED
    BY <2>3, <2>4, <2>6 DEF HLimits
<1> QED
  BY <1>1, <1>2

(***************************************************************************)
(* The name a new device takes over.                                       *)
(***************************************************************************)
LEMMA Least ==
  ASSUME NEW T \in SUBSET Nat, T # {}
  PROVE  \E x \in T : \A y \in T : x <= y
<1>1. IsWellFoundedOn(OpToRel(<, Nat), Nat)
  BY NatLessThanWellFounded
<1>2. PICK R : R = OpToRel(<, Nat)
  OBVIOUS
<1>3. \E x \in T : \A y \in T : ~ (<<y, x>> \in R)
  BY <1>1, <1>2, WFMin
<1>4. \A x, y \in Nat : y < x => <<y, x>> \in R
  BY <1>2 DEF OpToRel
<1>5. PICK x \in T : \A y \in T : ~ (<<y, x>> \in R)
  BY <1>3
<1>6. ASSUME NEW y \in T PROVE x <= y
  <2>1. x \in Nat /\ y \in Nat
    OBVIOUS
  <2>2. ~ (y < x)
    BY <1>4, <1>5, <2>1, Zenon
  <2> QED BY <2>1, <2>2
<1> QED
  BY <1>6

\* A set of natural numbers with a bound has a greatest element.
LEMMA Greatest ==
  ASSUME NEW n \in Nat, NEW T \in SUBSET (0..n), T # {}
  PROVE  \E x \in T : \A y \in T : y <= x
<1>1. PICK M : M = {n - x : x \in T}
  OBVIOUS
<1>2. M \in SUBSET Nat /\ M # {}
  <2>1. \A x \in T : n - x \in Nat
    OBVIOUS
  <2> QED BY <2>1, <1>1, Zenon
<1>3. PICK m \in M : \A k \in M : m <= k
  BY <1>2, Least
<1>4. PICK x \in T : m = n - x
  BY <1>1
<1>5. ASSUME NEW y \in T PROVE y <= x
  <2>1. n - y \in M
    BY <1>1
  <2> QED BY <2>1, <1>3, <1>4
<1> QED
  BY <1>5

\* The latest of some devices, by the time they were given and then by row.
Dated(H, n, c, t) ==
  /\ n \in Nat /\ t \in Nat /\ H \in SUBSET (1..n) /\ H # {}
  /\ \A d \in H : c[d] \in 0..t

IsLatest(d, H, c) ==
  d \in H /\ \A e \in H : c[d] > c[e] \/ (c[d] = c[e] /\ d >= e)

LEMMA Latest ==
  ASSUME NEW H, NEW n, NEW c, NEW t, Dated(H, n, c, t)
  PROVE  \E d : IsLatest(d, H, c)
<1>0. /\ n \in Nat /\ t \in Nat /\ H \in SUBSET (1..n) /\ H # {}
      /\ \A d \in H : c[d] \in 0..t
  BY DEF Dated
<1>1. PICK T : T = {c[d] : d \in H}
  OBVIOUS
<1>2. T \in SUBSET (0..t) /\ T # {}
  BY <1>0, <1>1
<1>3. PICK m \in T : \A k \in T : k <= m
  BY <1>0, <1>2, Greatest
<1>4. PICK G : G = {d \in H : c[d] = m}
  OBVIOUS
<1>5. G \in SUBSET (0..n) /\ G # {}
  <2>1. PICK d \in H : m = c[d]
    BY <1>1, Zenon
  <2>2. d \in G
    BY <2>1, <1>4
  <2>3. \A x \in G : x \in 1..n
    BY <1>0, <1>4
  <2>4. 1..n \subseteq 0..n
    OBVIOUS
  <2> QED BY <2>2, <2>3, <2>4
<1>6. PICK d \in G : \A e \in G : e <= d
  BY <1>0, <1>5, Greatest
<1>7. d \in H /\ c[d] = m
  BY <1>4
<1>8. ASSUME NEW e \in H PROVE c[d] > c[e] \/ (c[d] = c[e] /\ d >= e)
  <2>1. c[e] <= m /\ c[e] \in 0..t /\ m \in 0..t
    BY <1>1, <1>2, <1>3
  <2>2. CASE c[e] = m
    BY <2>2, <1>4, <1>6, <1>7
  <2>3. CASE c[e] # m
    BY <2>1, <2>3, <1>7
  <2> QED BY <2>2, <2>3
<1> QED
  BY <1>7, <1>8 DEF IsLatest

LEMMA NewNameIsName ==
  ASSUME HType, NEW slot \in Slots
  PROVE  /\ NewName(slot) \in Names
         /\ \A d \in DOMAIN devices :
              Holders(slot) = {d} /\ devices[d].alias # Blank => NewName(slot) = devices[d].alias
<1>1. PICK had : had = {d \in Holders(slot) : devices[d].alias # Blank}
  OBVIOUS
<1>2. PICK c : c = [d \in DOMAIN devices |-> devices[d].created]
  OBVIOUS
<1>3. /\ Len(devices) \in Nat /\ DOMAIN devices = 1..Len(devices)
      /\ \A d \in DOMAIN devices : devices[d] \in Device(now)
  BY DEF HType
<1>4. had \in SUBSET (1..Len(devices)) /\ \A d \in had : c[d] = devices[d].created /\ c[d] \in 0..now
  BY <1>1, <1>2, <1>3 DEF Holders, Device
<1>5. CASE had = {}
  <2>1. NewName(slot) = slot
    BY <1>1, <1>5 DEF NewName
  <2> QED BY <2>1, <1>1, <1>5 DEF Names
<1>6. CASE had # {}
  <2>0. Dated(had, Len(devices), c, now)
    BY <1>3, <1>4, <1>6 DEF Dated, HType
  <2>1. PICK d : IsLatest(d, had, c)
    BY <2>0, Latest
  <2>2. PICK x : x = CHOOSE f \in had : \A e \in had :
                        \/ devices[f].created > devices[e].created
                        \/ devices[f].created = devices[e].created /\ f >= e
    OBVIOUS
  <2>3. x \in had
    BY <2>1, <2>2, <1>4 DEF IsLatest
  <2>4. NewName(slot) = devices[x].alias
    BY <2>2, <1>1, <1>6 DEF NewName
  <2>5. devices[x] \in Device(now)
    BY <2>3, <1>3, <1>4
  <2>6. \A f \in DOMAIN devices : Holders(slot) = {f} => x = f
    BY <2>3, <1>1
  <2> QED BY <2>4, <2>5, <2>6 DEF Device
<1> QED
  BY <1>5, <1>6

(***************************************************************************)
(* The steps.                                                              *)
(***************************************************************************)
THEOREM Starts == DInit => HInv
<1> SUFFICES ASSUME DInit PROVE HInv
  OBVIOUS
<1>1. devices = <<>> /\ requests = {} /\ cli = None /\ now = 0 /\ under = {} /\ restored = {}
  BY DEF DInit
<1>2. HType
  <2>1. <<>> \in Seq(Device(now)) /\ Len(<<>>) = 0 /\ DOMAIN devices = {}
    BY <1>1
  <2> QED BY <1>1, <2>1, DevicesAssumption DEF HType, DInit
<1>3. HLimits
  <2>1. ASSUME NEW b \in Buckets PROVE LimiterInv(limits[b], Key[b], passed[b], Limit[b], now)
    <3>1. limits[b] = NewLimiter(Key[b], 0) /\ passed[b] = [k \in Key[b] |-> <<>>]
      BY DEF DInit
    <3>2. Limit[b] \in Nat \ {0}
      BY DevicesAssumption
    <3>3. KeyInv(None, <<>>, Limit[b], 0)
      BY <3>2, LimiterAssumption DEF KeyInv, Timed, Spread, Idle
    <3> QED BY <1>1, <3>1, <3>3 DEF NewLimiter, LimiterInv
  <2> QED BY <2>1 DEF HLimits, DInit
<1>4. OneHolder /\ NoneAfterRevoke /\ NameSurvives
  BY <1>1 DEF OneHolder, NoneAfterRevoke, NameSurvives, DInit
<1> QED
  BY <1>2, <1>3, <1>4 DEF HInv

\* Steps that leave the table alone keep what is said of it.
LEMMA SameTable ==
  ASSUME HInv, UNCHANGED <<devices, restored, named>>
  PROVE  OneHolder' /\ NameSurvives'
  BY DEF HInv, OneHolder, NameSurvives, Holders, Active

LEMMA RegisterArrivesKeeps ==
  ASSUME HInv, NEW ip \in Ips, RegisterArrives(ip)
  PROVE  HInv'
<1>1. /\ Counted("register", ip) /\ UNCHANGED <<devices, under, cli, now, restored, named>>
      /\ requests' = requests \/ requests' = requests \cup {[kind |-> "register", at |-> now]}
  BY DEF RegisterArrives, Quiet, Await
<1>2. HType'
  BY <1>1 DEF HInv, HType, Registrations
<1>3. HLimits'
  BY <1>1, CountedKeeps DEF HInv, Key
<1>4. NoneAfterRevoke'
  BY <1>1 DEF HInv, NoneAfterRevoke, Active
<1> QED
  BY <1>1, <1>2, <1>3, <1>4, SameTable DEF HInv

LEMMA UploadArrivesKeeps ==
  ASSUME HInv, NEW d \in DOMAIN devices, UploadArrives(d)
  PROVE  HInv'
<1>1. /\ Counted("upload", d) /\ UNCHANGED <<devices, under, cli, now, restored, named>>
      /\ \/ requests' = requests
         \/ requests' = requests \cup {[kind |-> "upload", device |-> d]} /\ Active(d)
  BY DEF UploadArrives, Quiet, Await
<1>2. HType'
  BY <1>1 DEF HInv, HType, Uploads
<1>3. d \in Key["upload"]
  <2>1. d \in 1..MaxDevices
    BY DevicesAssumption DEF HInv, HType
  <2> QED BY <2>1 DEF Key
<1>4. HLimits'
  BY <1>1, <1>3, CountedKeeps DEF HInv, Key
<1>5. NoneAfterRevoke'
  BY <1>1 DEF HInv, NoneAfterRevoke, Active
<1> QED
  BY <1>1, <1>2, <1>4, <1>5, SameTable DEF HInv

LEMMA EndsKeep ==
  ASSUME HInv, NEW r \in requests, RegisterBad(r) \/ UploadEnds(r)
  PROVE  HInv'
<1>1. /\ requests' = requests \ {r} /\ under' \in {under, under \ {r}}
      /\ UNCHANGED <<devices, limits, passed, cli, now, restored, named>>
      /\ r.kind = "upload" \/ (r.kind = "register" /\ under' = under)
  BY DEF RegisterBad, UploadEnds, Quiet
<1>2. HType'
  <2>1. r.kind = "register" => r \notin under
    BY DEF HInv, HType, Uploads
  <2> QED BY <1>1, <2>1 DEF HInv, HType
<1>3. HLimits'
  BY <1>1 DEF HInv, HLimits
<1>4. NoneAfterRevoke'
  BY <1>1 DEF HInv, NoneAfterRevoke, Active
<1> QED
  BY <1>1, <1>2, <1>3, <1>4, SameTable DEF HInv

LEMMA RegisterFailsKeeps ==
  ASSUME HInv, NEW r \in requests, NEW slot \in Slots, RegisterFails(r, slot)
  PROVE  HInv'
<1>1. /\ Counted("register_slot", slot) /\ r.kind = "register" /\ requests' = requests \ {r}
      /\ UNCHANGED <<devices, under, cli, now, restored, named>>
  BY DEF RegisterFails, Quiet
<1>2. HType'
  <2>1. r \notin under
    BY <1>1 DEF HInv, HType, Uploads
  <2> QED BY <1>1, <2>1 DEF HInv, HType
<1>3. HLimits'
  BY <1>1, CountedKeeps DEF HInv, Key
<1>4. NoneAfterRevoke'
  BY <1>1 DEF HInv, NoneAfterRevoke, Active
<1> QED
  BY <1>1, <1>2, <1>3, <1>4, SameTable DEF HInv

\* The table after a registration, row by row.
LEMMA Registered ==
  ASSUME HType, NEW r \in requests, NEW slot \in Slots, Register(r, slot)
  PROVE  /\ devices' \in Seq(Device(now)) /\ Len(devices') = Len(devices) + 1
         /\ Len(devices') <= MaxDevices
         /\ DOMAIN devices' = DOMAIN devices \cup {Len(devices) + 1}
         /\ \A d \in DOMAIN devices :
              /\ d <= Len(devices)
              /\ devices'[d].slot = devices[d].slot /\ devices'[d].alias = devices[d].alias
              /\ devices'[d].revoked <=> (devices[d].revoked \/ devices[d].slot = slot)
         /\ devices'[Len(devices) + 1] = NewDevice(slot, r.at)
         /\ NewDevice(slot, r.at) \in Device(now)
<1>1. PICK n : n = Len(devices)
  OBVIOUS
<1>2. /\ n \in Nat /\ DOMAIN devices = 1..n /\ \A d \in 1..n : devices[d] \in Device(now)
      /\ n < MaxDevices /\ MaxDevices \in Nat /\ now \in Nat
  BY <1>1, DevicesAssumption DEF HType, Register
<1>3. r.at \in 0..now
  BY DEF HType, Registrations, Uploads, Register
<1>4. NewDevice(slot, r.at) \in Device(now)
  BY <1>3, NewNameIsName DEF NewDevice, Device
<1>5. PICK m : m = Replaced(slot)
  OBVIOUS
<1>6. /\ m \in Seq(Device(now)) /\ Len(m) = n
      /\ \A d \in 1..n : m[d] = IF d \in Holders(slot) THEN [devices[d] EXCEPT !.revoked = TRUE]
                                 ELSE devices[d]
  <2>1. m = [d \in 1..n |-> IF d \in Holders(slot) THEN [devices[d] EXCEPT !.revoked = TRUE]
                             ELSE devices[d]]
    BY <1>2, <1>5 DEF Replaced
  <2>2. \A d \in 1..n : [devices[d] EXCEPT !.revoked = TRUE] \in Device(now)
    BY <1>2 DEF Device
  <2>3. m \in [1..n -> Device(now)]
    BY <2>1, <2>2, <1>2
  <2> QED BY <2>1, <2>3, <1>2
<1>7. devices' = Append(m, NewDevice(slot, r.at))
  BY <1>5 DEF Register
<1>8. /\ devices' \in Seq(Device(now)) /\ Len(devices') = n + 1
      /\ devices'[n + 1] = NewDevice(slot, r.at) /\ \A d \in 1..n : devices'[d] = m[d]
  BY <1>2, <1>4, <1>6, <1>7
<1>9. ASSUME NEW d \in 1..n
      PROVE  /\ devices'[d].slot = devices[d].slot /\ devices'[d].alias = devices[d].alias
             /\ devices'[d].revoked <=> (devices[d].revoked \/ devices[d].slot = slot)
  <2>1. devices[d] \in Device(now) /\ devices'[d] = m[d]
    BY <1>2, <1>8
  <2>2. CASE d \in Holders(slot)
    <3>1. devices'[d] = [devices[d] EXCEPT !.revoked = TRUE] /\ devices[d].slot = slot
      BY <2>1, <2>2, <1>6 DEF Holders
    <3> QED BY <3>1, <2>1 DEF Device
  <2>3. CASE d \notin Holders(slot)
    <3>1. devices'[d] = devices[d] /\ (devices[d].revoked \/ devices[d].slot # slot)
      BY <2>1, <2>3, <1>2, <1>6 DEF Holders, Active
    <3> QED BY <3>1, <2>1 DEF Device
  <2> QED BY <2>2, <2>3
<1> QED
  BY <1>1, <1>2, <1>4, <1>8, <1>9

LEMMA RegisterKeeps ==
  ASSUME HInv, NEW r \in requests, NEW slot \in Slots, Register(r, slot)
  PROVE  HInv'
<1>1. /\ r.kind = "register" /\ requests' = requests \ {r}
      /\ Counted("register_slot", slot) /\ UNCHANGED <<cli, now, named>>
      /\ under' = under \cup UploadsOf(Holders(slot))
      /\ restored' = restored \ Holders(slot)
  BY DEF Register
<1>2. PICK n : n = Len(devices)
  OBVIOUS
<1>3. /\ n \in Nat /\ DOMAIN devices = 1..n /\ DOMAIN devices' = DOMAIN devices \cup {n + 1}
      /\ devices' \in Seq(Device(now)) /\ Len(devices') <= MaxDevices
      /\ \A d \in DOMAIN devices :
           /\ devices'[d].slot = devices[d].slot /\ devices'[d].alias = devices[d].alias
           /\ devices'[d].revoked <=> (devices[d].revoked \/ devices[d].slot = slot)
      /\ devices'[n + 1].slot = slot /\ ~devices'[n + 1].revoked
      /\ devices'[n + 1].alias = NewName(slot)
  <2>1. HType
    BY DEF HInv
  <2>2. n \in Nat /\ DOMAIN devices = 1..n
    BY <2>1, <1>2 DEF HType
  <2>3. /\ devices'[n + 1].slot = slot /\ ~devices'[n + 1].revoked
        /\ devices'[n + 1].alias = NewName(slot)
    <3>1. devices'[n + 1] = NewDevice(slot, r.at)
      BY <2>1, <1>2, Registered
    <3> QED BY <3>1 DEF NewDevice
  <2> QED BY <2>1, <2>2, <2>3, <1>2, Registered
<1>4. HType'
  <2>1. requests' \subseteq Registrations(now) \cup Uploads(DOMAIN devices')
    BY <1>1, <1>3 DEF HInv, HType, Uploads
  <2>2. cli' \in {None} \cup [op : {"revoke", "unrevoke"}, device : DOMAIN devices']
    BY <1>1, <1>3 DEF HInv, HType
  <2>3. under' \subseteq requests' \cap Uploads(DOMAIN devices')
    <3>1. UploadsOf(Holders(slot)) \subseteq requests \cap Uploads(DOMAIN devices)
      BY DEF UploadsOf, Holders, Uploads, Registrations, HInv, HType
    <3>2. under' \subseteq requests \cap Uploads(DOMAIN devices)
      BY <3>1, <1>1 DEF HInv, HType
    <3>3. r \notin Uploads(DOMAIN devices)
      BY <1>1 DEF Uploads
    <3>4. Uploads(DOMAIN devices) \subseteq Uploads(DOMAIN devices')
      BY <1>3 DEF Uploads
    <3> QED BY <3>2, <3>3, <3>4, <1>1
  <2>4. restored' \subseteq DOMAIN devices'
    BY <1>1, <1>3 DEF HInv, HType
  <2> QED BY <1>1, <1>3, <2>1, <2>2, <2>3, <2>4 DEF HInv, HType
<1>5. HLimits'
  BY <1>1, CountedKeeps DEF HInv, Key
<1>6. OneHolder'
  <2> SUFFICES ASSUME NEW d \in DOMAIN devices', NEW e \in DOMAIN devices',
                      d < e, devices'[d].slot = devices'[e].slot, ~devices'[d].revoked
               PROVE  d \in restored'
    BY DEF OneHolder, Active
  <2>1. d \in DOMAIN devices
    BY <1>3
  <2>2. devices'[d].slot # slot /\ devices[d].slot # slot /\ ~devices[d].revoked
    BY <2>1, <1>3
  <2>3. e \in DOMAIN devices /\ devices[e].slot = devices[d].slot
    BY <2>1, <2>2, <1>3
  <2>4. d \in restored
    BY <2>1, <2>2, <2>3 DEF HInv, OneHolder, Active
  <2> QED BY <2>2, <2>4, <1>1 DEF Holders
<1>7. NameSurvives'
  <2> SUFFICES ASSUME NEW s \in Slots, named[s] # None
               PROVE  \E d \in DOMAIN devices' :
                        /\ {x \in DOMAIN devices' : ~devices'[x].revoked /\ devices'[x].slot = s} = {d}
                        /\ devices'[d].alias = named[s]
    BY <1>1 DEF NameSurvives, Holders, Active
  <2>1. PICK d \in DOMAIN devices : Holders(s) = {d} /\ devices[d].alias = named[s]
    BY DEF HInv, NameSurvives
  <2>2. CASE s = slot
    <3>1. devices[d].alias # Blank
      BY <2>1, DevicesAssumption DEF HInv, HType
    <3>2. NewName(slot) = named[s]
      BY <3>1, <2>1, <2>2, NewNameIsName DEF HInv
    <3>3. \A x \in DOMAIN devices' :
            ~devices'[x].revoked /\ devices'[x].slot = s <=> x = n + 1
      BY <2>2, <1>3
    <3> QED BY <3>2, <3>3, <1>3
  <2>3. CASE s # slot
    <3>1. \A x \in DOMAIN devices' :
            ~devices'[x].revoked /\ devices'[x].slot = s <=> x = d
      BY <2>1, <2>3, <1>3 DEF Holders, Active
    <3> QED BY <3>1, <2>1, <1>3
  <2> QED BY <2>2, <2>3
<1>8. NoneAfterRevoke'
  <2> SUFFICES ASSUME NEW u \in requests', u.kind = "upload", devices'[u.device].revoked
               PROVE  u \in under'
    BY DEF NoneAfterRevoke, Active
  <2>1. u \in requests /\ u.device \in DOMAIN devices
    BY <1>1 DEF HInv, HType, Registrations, Uploads
  <2>2. CASE devices[u.device].revoked
    BY <2>1, <2>2, <1>1 DEF HInv, NoneAfterRevoke, Active
  <2>3. CASE ~devices[u.device].revoked
    <3>1. u.device \in Holders(slot)
      BY <2>1, <2>3, <1>3 DEF Holders, Active
    <3> QED BY <3>1, <2>1, <1>1 DEF UploadsOf
  <2> QED BY <2>2, <2>3
<1> QED
  BY <1>4, <1>5, <1>6, <1>7, <1>8 DEF HInv


LEMMA LookKeeps ==
  ASSUME HInv, NEW d \in DOMAIN devices, NEW op \in {"revoke", "unrevoke"}, Look(op, d)
  PROVE  HInv'
<1>1. /\ cli' = [op |-> op, device |-> d]
      /\ UNCHANGED <<devices, limits, requests, now, passed, under, restored, named>>
  BY DEF Look
<1>2. HType'
  BY <1>1 DEF HInv, HType
<1>3. HLimits' /\ NoneAfterRevoke'
  BY <1>1 DEF HInv, HLimits, NoneAfterRevoke, Active
<1> QED
  BY <1>1, <1>2, <1>3, SameTable DEF HInv

\* A write to one row of the table.
LEMMA RowWritten ==
  ASSUME HType, NEW d \in DOMAIN devices, NEW row \in Device(now),
         devices' = [devices EXCEPT ![d] = row]
  PROVE  /\ devices' \in Seq(Device(now)) /\ Len(devices') = Len(devices)
         /\ DOMAIN devices' = DOMAIN devices
         /\ devices'[d] = row /\ \A e \in DOMAIN devices : e # d => devices'[e] = devices[e]
  BY DEF HType

LEMMA AliasKeeps ==
  ASSUME HInv, NEW d \in DOMAIN devices, NEW name \in Given \cup {Blank}, Alias(d, name)
  PROVE  HInv'
<1>1. PICK row : row = [devices[d] EXCEPT !.alias = name]
  OBVIOUS
<1>2. /\ devices[d] \in Device(now) /\ row \in Device(now) /\ row.slot = devices[d].slot
      /\ row.revoked = devices[d].revoked /\ row.alias = name
  <2>1. devices[d] \in Device(now)
    BY DEF HInv, HType
  <2>2. name \in Names
    BY DEF Names
  <2> QED BY <2>1, <2>2, <1>1 DEF Device
<1>3. devices' = [devices EXCEPT ![d] = row]
  BY <1>1 DEF Alias
<1>4. /\ devices' \in Seq(Device(now)) /\ Len(devices') = Len(devices)
      /\ DOMAIN devices' = DOMAIN devices
      /\ devices'[d] = row /\ \A e \in DOMAIN devices : e # d => devices'[e] = devices[e]
  BY <1>2, <1>3, RowWritten DEF HInv
<1>5. /\ UNCHANGED <<limits, requests, cli, now, passed, under, restored>>
      /\ named' = [named EXCEPT ![devices[d].slot] =
                     IF ~Active(d) THEN @
                     ELSE IF Holders(devices[d].slot) = {d} /\ name # Blank THEN name ELSE None]
  BY DEF Alias
<1>6. \A e \in DOMAIN devices :
        devices'[e].slot = devices[e].slot /\ devices'[e].revoked = devices[e].revoked
  BY <1>2, <1>4
<1>7. HType'
  BY <1>4, <1>5, <1>2 DEF HInv, HType, Device
<1>8. HLimits'
  BY <1>5 DEF HInv, HLimits
<1>9. OneHolder'
  BY <1>4, <1>5, <1>6 DEF HInv, OneHolder, Active
<1>10. NoneAfterRevoke'
  <2>1. \A u \in requests : u.kind = "upload" => u.device \in DOMAIN devices
    BY DEF HInv, HType, Registrations, Uploads
  <2> QED BY <2>1, <1>5, <1>6 DEF HInv, NoneAfterRevoke, Active
<1>11. NameSurvives'
  <2> SUFFICES ASSUME NEW s \in Slots, named'[s] # None
               PROVE  \E x \in DOMAIN devices : Holders(s) = {x} /\ devices'[x].alias = named'[s]
    BY <1>4, <1>6 DEF NameSurvives, Holders, Active
  <2>1. CASE named'[s] = named[s] /\ (s # devices[d].slot \/ ~Active(d))
    <3>1. PICK x \in DOMAIN devices : Holders(s) = {x} /\ devices[x].alias = named[s]
      BY <2>1 DEF HInv, NameSurvives
    <3>2. x # d
      BY <3>1, <2>1 DEF Holders
    <3> QED BY <3>1, <3>2, <2>1, <1>4
  <2>2. CASE s = devices[d].slot /\ Active(d)
    <3>1. Holders(s) = {d} /\ name # Blank /\ named'[s] = name
      BY <2>2, <1>5 DEF HInv, HType
    <3> QED BY <3>1, <1>2, <1>4
  <2> QED BY <2>1, <2>2, <1>5 DEF HInv, HType
<1> QED
  BY <1>7, <1>8, <1>9, <1>10, <1>11 DEF HInv

LEMMA WriteRevokeKeeps ==
  ASSUME HInv, WriteRevoke
  PROVE  HInv'
<1>1. PICK d : d = cli.device
  OBVIOUS
<1>2. d \in DOMAIN devices
  BY <1>1 DEF HInv, HType, WriteRevoke
<1>3. PICK row : row = [devices[d] EXCEPT !.revoked = TRUE]
  OBVIOUS
<1>4. /\ devices[d] \in Device(now) /\ row \in Device(now) /\ row.slot = devices[d].slot
      /\ row.revoked /\ row.alias = devices[d].alias
  <2>1. devices[d] \in Device(now)
    BY <1>2 DEF HInv, HType
  <2> QED BY <2>1, <1>3 DEF Device
<1>5. devices' = [devices EXCEPT ![d] = row]
  BY <1>1, <1>3 DEF WriteRevoke
<1>6. /\ devices' \in Seq(Device(now)) /\ Len(devices') = Len(devices)
      /\ DOMAIN devices' = DOMAIN devices
      /\ devices'[d] = row /\ \A e \in DOMAIN devices : e # d => devices'[e] = devices[e]
  BY <1>2, <1>4, <1>5, RowWritten DEF HInv
<1>7. /\ UNCHANGED <<limits, requests, now, passed>> /\ cli' = None
      /\ under' = under \cup UploadsOf({d}) /\ restored' = restored \ {d}
      /\ named' = [named EXCEPT ![devices[d].slot] = None]
  BY <1>1 DEF WriteRevoke
<1>8. HType'
  <2>1. UploadsOf({d}) \subseteq requests \cap Uploads(DOMAIN devices)
    BY <1>2 DEF UploadsOf, Uploads, Registrations, HInv, HType
  <2> QED BY <2>1, <1>4, <1>6, <1>7 DEF HInv, HType
<1>9. HLimits'
  BY <1>7 DEF HInv, HLimits
<1>10. OneHolder'
  BY <1>4, <1>6, <1>7 DEF HInv, OneHolder, Active
<1>11. NoneAfterRevoke'
  <2> SUFFICES ASSUME NEW u \in requests, u.kind = "upload", devices'[u.device].revoked
               PROVE  u \in under'
    BY <1>7 DEF NoneAfterRevoke, Active
  <2>1. CASE u.device = d
    BY <2>1, <1>7 DEF UploadsOf
  <2>2. CASE u.device # d
    <3>1. devices[u.device].revoked
      BY <2>2, <1>6 DEF HInv, HType, Registrations, Uploads
    <3> QED BY <3>1, <1>7 DEF HInv, NoneAfterRevoke, Active
  <2> QED BY <2>1, <2>2
<1>12. NameSurvives'
  <2> SUFFICES ASSUME NEW s \in Slots, named'[s] # None
               PROVE  \E x \in DOMAIN devices' :
                        /\ {y \in DOMAIN devices' : ~devices'[y].revoked /\ devices'[y].slot = s} = {x}
                        /\ devices'[x].alias = named'[s]
    BY DEF NameSurvives, Holders, Active
  <2>1. s # devices[d].slot /\ named'[s] = named[s]
    BY <1>7 DEF HInv, HType
  <2>2. PICK x \in DOMAIN devices : Holders(s) = {x} /\ devices[x].alias = named[s]
    BY <2>1 DEF HInv, NameSurvives
  <2>3. x # d
    BY <2>1, <2>2 DEF Holders
  <2>4. \A y \in DOMAIN devices : ~devices'[y].revoked /\ devices'[y].slot = s <=> y \in Holders(s)
    BY <2>1, <1>4, <1>6 DEF Holders, Active
  <2> QED BY <2>1, <2>2, <2>3, <2>4, <1>6
<1> QED
  BY <1>8, <1>9, <1>10, <1>11, <1>12 DEF HInv

LEMMA WriteUnrevokeKeeps ==
  ASSUME HInv, WriteUnrevoke
  PROVE  HInv'
<1>1. PICK d : d = cli.device
  OBVIOUS
<1>2. d \in DOMAIN devices
  BY <1>1 DEF HInv, HType, WriteUnrevoke
<1>3. PICK row : row = [devices[d] EXCEPT !.revoked = FALSE]
  OBVIOUS
<1>4. /\ devices[d] \in Device(now) /\ row \in Device(now) /\ row.slot = devices[d].slot
      /\ ~row.revoked /\ row.alias = devices[d].alias
  <2>1. devices[d] \in Device(now)
    BY <1>2 DEF HInv, HType
  <2> QED BY <2>1, <1>3 DEF Device
<1>5. devices' = [devices EXCEPT ![d] = row]
  BY <1>1, <1>3 DEF WriteUnrevoke
<1>6. /\ devices' \in Seq(Device(now)) /\ Len(devices') = Len(devices)
      /\ DOMAIN devices' = DOMAIN devices
      /\ devices'[d] = row /\ \A e \in DOMAIN devices : e # d => devices'[e] = devices[e]
  BY <1>2, <1>4, <1>5, RowWritten DEF HInv
<1>7. /\ UNCHANGED <<limits, requests, now, passed, under>> /\ cli' = None
      /\ restored' = restored \cup {d}
      /\ named' = [named EXCEPT ![devices[d].slot] = None]
  BY <1>1 DEF WriteUnrevoke
<1>8. HType'
  BY <1>2, <1>4, <1>6, <1>7 DEF HInv, HType
<1>9. HLimits'
  BY <1>7 DEF HInv, HLimits
<1>10. OneHolder'
  BY <1>4, <1>6, <1>7 DEF HInv, OneHolder, Active
<1>11. NoneAfterRevoke'
  <2> SUFFICES ASSUME NEW u \in requests, u.kind = "upload", devices'[u.device].revoked
               PROVE  u \in under
    BY <1>7 DEF NoneAfterRevoke, Active
  <2>1. u.device # d
    BY <1>4, <1>6
  <2>2. devices[u.device].revoked
    BY <2>1, <1>6 DEF HInv, HType, Registrations, Uploads
  <2> QED BY <2>2 DEF HInv, NoneAfterRevoke, Active
<1>12. NameSurvives'
  <2> SUFFICES ASSUME NEW s \in Slots, named'[s] # None
               PROVE  \E x \in DOMAIN devices' :
                        /\ {y \in DOMAIN devices' : ~devices'[y].revoked /\ devices'[y].slot = s} = {x}
                        /\ devices'[x].alias = named'[s]
    BY DEF NameSurvives, Holders, Active
  <2>1. s # devices[d].slot /\ named'[s] = named[s]
    BY <1>7 DEF HInv, HType
  <2>2. PICK x \in DOMAIN devices : Holders(s) = {x} /\ devices[x].alias = named[s]
    BY <2>1 DEF HInv, NameSurvives
  <2>3. x # d
    BY <2>1, <2>2 DEF Holders
  <2>4. \A y \in DOMAIN devices : ~devices'[y].revoked /\ devices'[y].slot = s <=> y \in Holders(s)
    BY <2>1, <1>4, <1>6 DEF Holders, Active
  <2> QED BY <2>1, <2>2, <2>3, <2>4, <1>6
<1> QED
  BY <1>8, <1>9, <1>10, <1>11, <1>12 DEF HInv

LEMMA RestartKeeps ==
  ASSUME HInv, Restart
  PROVE  HInv'
<1>1. /\ requests' = {} /\ under' = {}
      /\ UNCHANGED <<devices, cli, now, restored, named>>
  BY DEF Restart, Quiet
<1>2. HType'
  BY <1>1 DEF HInv, HType
<1>3. HLimits'
  <2>1. ASSUME NEW b \in Buckets PROVE LimiterInv(limits'[b], Key[b], passed'[b], Limit[b], now)
    <3>1. limits'[b] = NewLimiter(Key[b], now) /\ passed'[b] = [k \in Key[b] |-> <<>>]
      BY DEF Restart
    <3>2. Limit[b] \in Nat \ {0} /\ now \in Nat
      BY DevicesAssumption DEF HInv, HType
    <3>3. KeyInv(None, <<>>, Limit[b], now)
      BY <3>2, LimiterAssumption DEF KeyInv, Timed, Spread, Idle
    <3> QED BY <3>1, <3>2, <3>3 DEF NewLimiter, LimiterInv
  <2> QED BY <2>1, <1>1 DEF HLimits, Restart
<1>4. NoneAfterRevoke'
  BY <1>1 DEF NoneAfterRevoke
<1> QED
  BY <1>1, <1>2, <1>3, <1>4, SameTable DEF HInv

LEMMA TickKeeps ==
  ASSUME HInv, Tick
  PROVE  HInv'
<1>1. now' = now + 1 /\ UNCHANGED <<devices, limits, requests, cli, passed, under, restored, named>>
  BY DEF Tick
<1>2. HType'
  <2>1. now \in Nat
    BY DEF HInv, HType
  <2>2. Device(now) \subseteq Device(now + 1) /\ Registrations(now) \subseteq Registrations(now + 1)
    BY <2>1 DEF Device, Registrations
  <2>3. devices' \in Seq(Device(now + 1))
    BY <1>1, <2>2 DEF HInv, HType
  <2> QED BY <2>1, <2>2, <2>3, <1>1 DEF HInv, HType
<1>3. HLimits'
  <2>1. ASSUME NEW b \in Buckets PROVE LimiterInv(limits[b], Key[b], passed[b], Limit[b], now + 1)
    <3>1. Limit[b] \in Nat \ {0} /\ now \in Nat
      BY DevicesAssumption DEF HInv, HType
    <3>2. LimiterInv(limits[b], Key[b], passed[b], Limit[b], now)
      BY DEF HInv, HLimits
    <3> QED BY <3>1, <3>2, LimiterLater
  <2> QED BY <2>1, <1>1 DEF HInv, HLimits
<1>4. NoneAfterRevoke'
  BY <1>1 DEF HInv, NoneAfterRevoke, Active
<1> QED
  BY <1>1, <1>2, <1>3, <1>4, SameTable DEF HInv

LEMMA StutterKeeps ==
  ASSUME HInv, UNCHANGED hvars
  PROVE  HInv'
<1>1. HType' /\ HLimits' /\ NoneAfterRevoke'
  BY DEF HInv, HType, HLimits, NoneAfterRevoke, Active, hvars
<1> QED
  BY <1>1, SameTable DEF HInv, hvars

(***************************************************************************)
(* The theorems.                                                           *)
(***************************************************************************)
\* The inductive invariant holds in every reachable state.
THEOREM DeviceInvariant == DSpec => []HInv
<1>1. DInit => HInv
  BY Starts
<1>2. HInv /\ [DNext]_hvars => HInv'
  <2> SUFFICES ASSUME HInv, [DNext]_hvars PROVE HInv'
    OBVIOUS
  <2>1. CASE Administer
    BY <2>1, LookKeeps, AliasKeeps, WriteRevokeKeeps, WriteUnrevokeKeeps DEF Administer
  <2>2. CASE Serve
    BY <2>2, RegisterArrivesKeeps, UploadArrivesKeeps, EndsKeep, RegisterKeeps,
       RegisterFailsKeeps DEF Serve
  <2>3. CASE Restart
    BY <2>3, RestartKeeps
  <2>4. CASE Tick
    BY <2>4, TickKeeps
  <2>5. CASE UNCHANGED hvars
    BY <2>5, StutterKeeps
  <2> QED BY <2>1, <2>2, <2>3, <2>4, <2>5 DEF DNext
<1> QED
  BY <1>1, <1>2, PTL DEF DSpec

\* OneHolder of HubDevices: without an administrator who restores one, a slot
\* has one device in good standing, whatever registrations overlap.
THEOREM SlotIsHeldOnce == DSpec => []OneHolder
<1>1. HInv => OneHolder
  BY DEF HInv
<1> QED
  BY <1>1, DeviceInvariant, PTL

\* NameSurvives: registrations hand the name of a slot on.
THEOREM NameIsHandedOn == DSpec => []NameSurvives
<1>1. HInv => NameSurvives
  BY DEF HInv
<1> QED
  BY <1>1, DeviceInvariant, PTL

\* NoneAfterRevoke: of a device without standing only those uploads are under
\* way that were when it lost it.
THEOREM StandingIsChecked == DSpec => []NoneAfterRevoke
<1>1. HInv => NoneAfterRevoke
  BY DEF HInv
<1> QED
  BY <1>1, DeviceInvariant, PTL

\* RateBounded: fixed windows let through less than twice the limit in any
\* span shorter than the window, for every limit and every length of it.
THEOREM RateIsBounded == DSpec => []RateBounded
<1>1. HInv => RateBounded
  <2> SUFFICES ASSUME HInv, NEW b \in Buckets, NEW k \in Key[b]
               PROVE  LET p == passed[b][k]
                          n == 2 * Limit[b] - 1
                      IN  \A i \in 1..(Len(p) - n) : p[i + n] - p[i] >= Window
    BY DEF RateBounded
  <2>1. KeyInv(limits[b].hits[k], passed[b][k], Limit[b], now)
    BY DEF HInv, HLimits, LimiterInv
  <2>2. Spread(passed[b][k], Limit[b])
    BY <2>1 DEF KeyInv
  <2> QED BY <2>2 DEF Spread
<1> QED
  BY <1>1, DeviceInvariant, PTL


\* Rounding up to seconds does not end before the window does.
LEMMA LongEnough ==
  ASSUME NEW x \in Nat, NEW t \in Nat
  PROVE  Over(x, t + RetryAfter(x, t) * Second)
<1>1. Second \in Nat \ {0} /\ Window \in Nat \ {0}
  BY LimiterAssumption
<1>2. PICK y : y = x + Window - t + Second - 1
  OBVIOUS
<1>3. y \in Int
  BY <1>1, <1>2
<1>4. PICK q : q = y \div Second
  OBVIOUS
<1>5. q \in Int /\ y < q * Second + Second
  BY <1>1, <1>3, <1>4
<1>6. PICK w : w = RetryAfter(x, t)
  OBVIOUS
<1>7. w = IF q < 1 THEN 1 ELSE q
  BY <1>2, <1>4, <1>6 DEF RetryAfter
<1>8. w \in Int /\ w * Second \in Int /\ q * Second <= w * Second
  <2>1. CASE q < 1
    <3>1. q * Second <= Second
      BY <2>1, <1>1, <1>5
    <3> QED BY <3>1, <2>1, <1>1, <1>7
  <2>2. CASE ~(q < 1)
    BY <2>2, <1>1, <1>5, <1>7
  <2> QED BY <2>1, <2>2
<1>9. PICK z : z = w * Second
  OBVIOUS
<1>10. PICK v : v = q * Second
  OBVIOUS
<1>11. z \in Int /\ v \in Int /\ v <= z /\ y < v + Second
  BY <1>1, <1>5, <1>8, <1>9, <1>10
<1>12. t + z - x >= Window
  BY <1>1, <1>2, <1>11
<1> QED
  BY <1>6, <1>9, <1>12 DEF Over

\* RetryIsEnough: the seconds a refused client is told to wait are enough.
THEOREM WaitIsTold == DSpec => []RetryIsEnough
<1>1. HInv => RetryIsEnough
  <2> SUFFICES ASSUME HInv, NEW b \in Buckets, NEW k \in Key[b], Waits(b, k) > 0,
                      Refused(limits[b], k, now + Waits(b, k) * Second, Limit[b])
               PROVE  FALSE
    BY DEF RetryIsEnough
  <2>1. PICK w : w = Waits(b, k)
    OBVIOUS
  <2>2. PICK e : e = Entry(limits[b], k, now)
    OBVIOUS
  <2>3. Limit[b] \in Nat \ {0} /\ now \in Nat /\ LimiterInv(limits[b], Key[b], passed[b], Limit[b], now)
    BY DevicesAssumption DEF HInv, HType, HLimits
  <2>4. e.count >= Limit[b] /\ w = RetryAfter(e.start, now)
    BY <2>1, <2>2 DEF Waits, Wait
  <2>5. PICK h : h = limits[b].hits[k]
    OBVIOUS
  <2>6. h \in Windows \cup {None} /\ DOMAIN limits[b].hits = Key[b]
    BY <2>3, <2>5 DEF LimiterInv
  <2>7. Sweep(limits[b], now).hits[k] \in {h, None}
    BY <2>5, <2>6 DEF Sweep
  <2>8. e = h /\ h # None /\ e.start \in Nat
    <3>1. e # [start |-> now, count |-> 0]
      BY <2>3, <2>4
    <3>2. e = Sweep(limits[b], now).hits[k] /\ e # None
      BY <3>1, <2>2 DEF Entry
    <3> QED BY <3>2, <2>6, <2>7 DEF Windows
  <2>9. PICK u : u = now + w * Second
    OBVIOUS
  <2>10. Over(h.start, u)
    BY <2>3, <2>4, <2>8, <2>9, LongEnough
  <2>11. Sweep(limits[b], u).hits[k] \in {h, None}
    BY <2>5, <2>6 DEF Sweep
  <2>12. Entry(limits[b], k, u) = [start |-> u, count |-> 0]
    BY <2>10, <2>11 DEF Entry
  <2>13. Refused(limits[b], k, u, Limit[b])
    BY <2>1, <2>9
  <2> QED BY <2>3, <2>12, <2>13 DEF Refused
<1> QED
  BY <1>1, DeviceInvariant, PTL

-----------------------------------------------------------------------------
(***************************************************************************)
(* When a listing expires.                                                 *)
(***************************************************************************)
\* Division with remainder, for a divisor that is no numeral.
LEMMA Division ==
  ASSUME NEW d \in Nat \ {0}, NEW x \in Int
  PROVE  /\ x \div d \in Int
         /\ (x \div d) * d <= x
         /\ x < (x \div d) * d + d
  OBVIOUS

\* Multiples of a day are ordered like their factors.
LEMMA Multiples ==
  ASSUME NEW d \in Nat \ {0}, NEW i \in Int, NEW j \in Int, i < j
  PROVE  i * d + d <= j * d
  OBVIOUS

\* A midnight lies after an instant exactly if its day is a later one.
LEMMA LaterDay ==
  ASSUME NEW d \in Nat \ {0}, NEW x \in Int, NEW m \in Int
  PROVE  m * d > x <=> m > x \div d
<1> DEFINE p == x \div d
<1>1. p \in Int /\ p * d <= x /\ x < p * d + d
  BY Division
<1> HIDE DEF p
<1>2. CASE m > p
  <2>1. p * d + d <= m * d
    BY <1>1, <1>2, Multiples
  <2>2. p * d \in Int /\ m * d \in Int
    BY <1>1
  <2> QED
    BY <1>1, <1>2, <2>1, <2>2 DEF p
<1>3. CASE m = p
  BY <1>1, <1>3 DEF p
<1>4. CASE m < p
  <2>1. m * d + d <= p * d
    BY <1>1, <1>4, Multiples
  <2>2. p * d \in Int /\ m * d \in Int
    BY <1>1
  <2> QED
    BY <1>1, <1>4, <2>1, <2>2 DEF p
<1> QED
  BY <1>1, <1>2, <1>3, <1>4

\* What the comment above _LIVE_WHERE states: an expiry lies ahead of now
\* exactly if the column it is computed from reaches a threshold.
LEMMA Threshold ==
  ASSUME NEW at \in Int, NEW t \in Int, NEW days \in Int
  PROVE  kst_midnight(at, days) > t <=> at >= kst_midnight(t, 1 - days)
<1> DEFINE q == (at + Offset) \div Day
           p == (t + Offset) \div Day
<1>0. Day \in Nat \ {0} /\ Offset \in Int
  BY ExpiryAssumption
<1>1. q \in Int /\ p \in Int
  BY <1>0, Division
<1>2. (q + days) * Day > t + Offset <=> q + days > p
  BY <1>0, <1>1, LaterDay
<1>3. (p + (1 - days)) * Day > at + Offset <=> p + (1 - days) > q
  BY <1>0, <1>1, LaterDay
<1>4. (q + days) * Day \in Int /\ (p + (1 - days)) * Day \in Int
  BY <1>0, <1>1
<1>5. kst_midnight(at, days) = (q + days) * Day - Offset
  BY DEF kst_midnight
<1>6. kst_midnight(t, 1 - days) = (p + (1 - days)) * Day - Offset
  BY DEF kst_midnight
<1> HIDE DEF q, p
<1> QED
  BY <1>0, <1>1, <1>2, <1>3, <1>4, <1>5, <1>6

\* The search shows a listing exactly while the expires_by_ts of its answer
\* lies ahead (db.py:182-189).
THEOREM LiveIsNotExpired ==
  ASSUME NEW first \in Int, NEW last \in Int, NEW t \in Int
  PROVE  Live(first, last, t) <=> ExpiresBy(first, last) > t
<1>1. ExpiryDays \in Int /\ Day \in Int /\ Offset \in Int
  BY ExpiryAssumption
<1>2. kst_midnight(first, ExpiryDays) > t <=> first >= kst_midnight(t, 1 - ExpiryDays)
  BY <1>1, Threshold
<1>3. kst_midnight(last, 1) > t <=> last >= kst_midnight(t, 0)
  BY Threshold, 1 - 1 = 0
<1>4. kst_midnight(first, ExpiryDays) \in Int /\ kst_midnight(last, 1) \in Int
  BY <1>1, ExpiryAssumption, Division DEF kst_midnight
<1> QED
  BY <1>2, <1>3, <1>4 DEF Live, ExpiresBy, ExpiresFrom

\* The bounds of the answer are in order, and the later one lies after the
\* listing was last seen: a listing seen just now is never hidden.
THEOREM SeenIsShown ==
  ASSUME NEW first \in Int, NEW last \in Int
  PROVE  /\ ExpiresFrom(last) <= ExpiresBy(first, last)
         /\ last < ExpiresFrom(last)
         /\ Live(first, last, last)
<1>1. ExpiryDays \in Int /\ Day \in Nat \ {0} /\ Offset \in Int
  BY ExpiryAssumption
<1> DEFINE q == (last + Offset) \div Day
<1>2. q \in Int /\ last + Offset < q * Day + Day
  BY <1>1, Division
<1>3. kst_midnight(first, ExpiryDays) \in Int /\ kst_midnight(last, 1) \in Int
  BY <1>1, Division DEF kst_midnight
<1>4. kst_midnight(last, 1) = (q + 1) * Day - Offset
  BY DEF kst_midnight
<1>5. (q + 1) * Day = q * Day + Day /\ q * Day \in Int
  BY <1>1, <1>2
<1> HIDE DEF q
<1>6. last < kst_midnight(last, 1)
  BY <1>1, <1>2, <1>4, <1>5
<1>7. ExpiresFrom(last) <= ExpiresBy(first, last) /\ ExpiresBy(first, last) > last
  BY <1>3, <1>6 DEF ExpiresBy, ExpiresFrom
<1> QED
  BY <1>6, <1>7, LiveIsNotExpired DEF ExpiresFrom
(***************************************************************************)
(* The inductive invariant of the tables.                                  *)
(***************************************************************************)
ListingRow == [first : Nat, last : Nat, by : Obs, name : Obs \cup {Null}, count : Nat]

Fact == [obs : Obs, ts : Nat, named : BOOLEAN, ahead : BOOLEAN]

LTypeOK ==
  /\ wall \in Nat
  /\ DOMAIN sent \subseteq Obs /\ \A o \in DOMAIN sent : sent[o] \in Envelope
  /\ \A o \in DOMAIN ids : ids[o] \in Nat
  /\ DOMAIN rows \subseteq Keys /\ \A k \in DOMAIN rows : rows[k] \in ListingRow
  /\ learned \in [name : Obs \cup {Null}, last : Nat]
  /\ cursor \in [ts : Int, key : Nat]
  /\ got \in [Keys -> Obs \cup {Null}]
  /\ applied \in [Keys -> SUBSET Fact]
  /\ behind \subseteq Keys

\* What was folded into a row is forgotten with the row.
OnlyOfRows == \A k \in Keys : k \notin DOMAIN rows => applied[k] = {}

\* The name learned is that of an observation that was sent, seen no later
\* than its observer said.
LearnedWasSent ==
  learned.name # Null =>
    learned.name \in DOMAIN sent /\ learned.last <= sent[learned.name].ts

\* Who was folded into a row.
Folded(k) == {a.obs : a \in applied[k]}

\* An observation whose clock was not ahead cannot be folded in again: its
\* obs_id is in the table, and was put there no earlier than it was seen, or
\* its time is out of range.
NotTwice ==
  \A k \in Keys : \A a \in applied[k] : ~a.ahead =>
    /\ a.obs \in DOMAIN sent /\ sent[a.obs].ts = a.ts
    /\ \/ a.obs \in DOMAIN ids /\ ids[a.obs] >= a.ts
       \/ a.ts < wall - Retention

FoldedFinite == \A k \in Keys : IsFiniteSet(Folded(k))

\* A row that is not ahead of the cursor was given to the consumer as it is,
\* or changed behind the cursor.
GivenOrAhead ==
  \A k \in DOMAIN rows :
    After(rows[k].last, k, cursor) \/ k \in behind \/ got[k] = rows[k].by

LInv ==
  /\ LTypeOK
  /\ OnlyOfRows /\ RowIsNewest
  /\ LearnedWasSent /\ LearnedIsNewest
  /\ NotTwice /\ FoldedFinite /\ CountedOnce
  /\ GivenOrAhead

-----------------------------------------------------------------------------
\* What is kept of a row of an observation.
FactOf(o, e) == [obs |-> o, ts |-> Seen(e), named |-> e.named, ahead |-> e.ts > wall]

\* A clock counts as seen no later than it says and no later than now.
LEMMA SeenFacts ==
  ASSUME LTypeOK, NEW o \in Obs, NEW e \in Envelope
  PROVE  /\ e.ts \in Nat /\ e.rows \subseteq Keys /\ e.named \in BOOLEAN
         /\ Seen(e) \in Nat /\ Seen(e) <= e.ts /\ Seen(e) <= wall
         /\ ~(e.ts > wall) => Seen(e) = e.ts
         /\ FactOf(o, e) \in Fact
<1>1. e.ts \in Nat /\ e.rows \subseteq Keys /\ e.named \in BOOLEAN
  BY ListingsAssumption DEF Envelope, Times
<1>2. wall \in Nat
  BY DEF LTypeOK
<1>3. Seen(e) \in Nat /\ Seen(e) <= e.ts /\ Seen(e) <= wall /\ (~(e.ts > wall) => Seen(e) = e.ts)
  BY <1>1, <1>2 DEF Seen
<1>4. (e.ts > wall) \in BOOLEAN
  BY <1>1, <1>2
<1>5. FactOf(o, e) \in Fact
  BY <1>1, <1>3, <1>4 DEF FactOf, Fact
<1> QED
  BY <1>1, <1>3, <1>5

\* What the upsert of an observation does to one listing.
LEMMA InsertRow ==
  ASSUME LTypeOK, NEW o \in Obs, NEW e \in Envelope, Insert(o, e), NEW k \in Keys
  PROVE  /\ k \in DOMAIN rows' <=> k \in DOMAIN rows \/ k \in e.rows
         /\ k \in e.rows /\ k \in DOMAIN rows => rows'[k] = Fold(rows[k], o, Seen(e), e.named)
         /\ k \in e.rows /\ k \notin DOMAIN rows => rows'[k] = Fresh(o, Seen(e), e.named)
         /\ k \in DOMAIN rows /\ k \notin e.rows => rows'[k] = rows[k]
         /\ k \in e.rows => applied'[k] = applied[k] \cup {FactOf(o, e)}
         /\ k \notin e.rows => applied'[k] = applied[k]
  BY DEF Insert, FactOf

\* A row is typed, whatever was folded into it.
LEMMA RowTyped ==
  ASSUME NEW o \in Obs, NEW seen \in Nat, NEW taught \in BOOLEAN
  PROVE  /\ Fresh(o, seen, taught) \in ListingRow
         /\ \A row \in ListingRow : Fold(row, o, seen, taught) \in ListingRow
<1>1. Fresh(o, seen, taught) \in ListingRow
  BY DEF Fresh, ListingRow
<1>2. ASSUME NEW row \in ListingRow
      PROVE  Fold(row, o, seen, taught) \in ListingRow
  <2>1. /\ row.first \in Nat /\ row.last \in Nat /\ row.by \in Obs
        /\ row.name \in Obs \cup {Null} /\ row.count \in Nat
    BY DEF ListingRow
  <2>2. /\ (IF seen < row.first THEN seen ELSE row.first) \in Nat
        /\ (IF seen > row.last THEN seen ELSE row.last) \in Nat
        /\ row.count + 1 \in Nat
    BY <2>1
  <2> QED
    BY <2>1, <2>2 DEF Fold, ListingRow
<1> QED
  BY <1>1, <1>2

\* An observation is known with the envelope it was first sent with.
Known(o, e) ==
  /\ DOMAIN sent' = DOMAIN sent \cup {o}
  /\ sent'[o] = e
  /\ \A p \in DOMAIN sent : sent'[p] = sent[p]

LEMMA InsertTypes ==
  ASSUME LTypeOK, NEW o \in Obs, NEW e \in Envelope, Insert(o, e), Known(o, e),
         UNCHANGED <<wall, feed>>
  PROVE  LTypeOK'
<1> USE SeenFacts
<1>1. wall' \in Nat /\ cursor' \in [ts : Int, key : Nat] /\ got' \in [Keys -> Obs \cup {Null}]
  BY DEF LTypeOK, feed
<1>2. DOMAIN sent' \subseteq Obs /\ \A p \in DOMAIN sent' : sent'[p] \in Envelope'
  BY DEF LTypeOK, Known, Envelope, Times
<1>3. \A p \in DOMAIN ids' : ids'[p] \in Nat
  BY DEF LTypeOK, Insert
<1>4. DOMAIN rows' \subseteq Keys
  BY DEF LTypeOK, Insert
<1>5. ASSUME NEW k \in DOMAIN rows'
      PROVE  rows'[k] \in ListingRow
  <2>1. k \in Keys /\ (k \in DOMAIN rows => rows[k] \in ListingRow)
    BY <1>4, <1>5 DEF LTypeOK
  <2> QED
    BY <1>5, <2>1, InsertRow, RowTyped
<1>6. learned' \in [name : Obs \cup {Null}, last : Nat]
  BY DEF LTypeOK, Insert, Learn
<1>7. applied' \in [Keys -> SUBSET Fact]
  <2>1. \A k \in Keys : applied'[k] \in SUBSET Fact
    BY InsertRow DEF LTypeOK
  <2> QED
    BY <2>1 DEF Insert
<1>8. behind' \subseteq Keys
  BY DEF LTypeOK, Insert
<1> QED
  BY <1>1, <1>2, <1>3, <1>4, <1>5, <1>6, <1>7, <1>8 DEF LTypeOK, ListingRow, Fact

\* The row spans what was folded into it and shows the last of it.
LEMMA InsertNewest ==
  ASSUME LInv, NEW o \in Obs, NEW e \in Envelope, Insert(o, e)
  PROVE  OnlyOfRows' /\ RowIsNewest'
<1>0. LTypeOK /\ OnlyOfRows /\ RowIsNewest
  BY DEF LInv
<1>1. OnlyOfRows'
  BY <1>0, InsertRow DEF OnlyOfRows
<1>2. ASSUME NEW k \in DOMAIN rows'
      PROVE  /\ \A a \in applied'[k] : rows'[k].first <= a.ts /\ a.ts <= rows'[k].last
             /\ \E a \in applied'[k] : a.obs = rows'[k].by /\ a.ts = rows'[k].last
             /\ \E a \in applied'[k] : a.ts = rows'[k].first
  <2> DEFINE a == FactOf(o, e)
  <2>1. k \in Keys
    BY <1>0, <1>2, SeenFacts DEF Insert, LTypeOK
  <2>2. a.obs = o /\ a.ts = Seen(e) /\ Seen(e) \in Nat
    BY <1>0, SeenFacts DEF FactOf
  <2>3. CASE k \in e.rows /\ k \in DOMAIN rows
    <3>1. rows'[k] = Fold(rows[k], o, Seen(e), e.named) /\ applied'[k] = applied[k] \cup {a}
      BY <1>0, <2>1, <2>3, InsertRow
    <3>2. rows[k].first \in Nat /\ rows[k].last \in Nat
      BY <1>0, <2>3 DEF LTypeOK, ListingRow
    <3>3. \A b \in applied[k] : b.ts \in Nat
      BY <1>0, <2>1 DEF LTypeOK, Fact
    <3> QED
      BY <1>0, <2>2, <2>3, <3>1, <3>2, <3>3 DEF RowIsNewest, Fold
  <2>4. CASE k \in e.rows /\ k \notin DOMAIN rows
    <3>1. rows'[k] = Fresh(o, Seen(e), e.named) /\ applied'[k] = {a}
      BY <1>0, <2>1, <2>4, InsertRow DEF OnlyOfRows
    <3> QED
      BY <2>2, <3>1 DEF Fresh
  <2>5. CASE k \notin e.rows
    BY <1>0, <1>2, <2>1, <2>5, InsertRow DEF RowIsNewest
  <2> QED
    BY <2>3, <2>4, <2>5
<1> QED
  BY <1>1, <1>2 DEF RowIsNewest

\* The name learned is the one of the observation seen last.
LEMMA InsertLearned ==
  ASSUME LInv, NEW o \in Obs, NEW e \in Envelope, Insert(o, e), Known(o, e),
         o \in DOMAIN sent => sent[o] = e
  PROVE  LearnedWasSent' /\ LearnedIsNewest'
<1>0. LTypeOK /\ LearnedWasSent /\ LearnedIsNewest
  BY DEF LInv
<1> DEFINE seen == Seen(e)
<1>1. /\ seen \in Nat /\ seen <= e.ts /\ e.ts \in Nat /\ e.named \in BOOLEAN /\ e.rows \subseteq Keys
      /\ o # Null
  BY <1>0, SeenFacts, ListingsAssumption
<1>2. learned.last \in Nat /\ learned.name \in Obs \cup {Null}
  BY <1>0 DEF LTypeOK
<1>3. learned' = IF e.named /\ e.rows # {} THEN Learn(learned, o, seen) ELSE learned
  BY DEF Insert
<1> HIDE DEF seen
<1>4. learned' = learned \/ (learned' = [name |-> o, last |-> seen] /\
                              (learned.name = Null \/ seen >= learned.last))
  BY <1>3 DEF Learn
<1>5. \A p \in DOMAIN sent : p \in DOMAIN sent' /\ sent'[p] = sent[p]
  BY DEF Known
<1>6. LearnedWasSent'
  BY <1>0, <1>1, <1>2, <1>4, <1>5 DEF LearnedWasSent, Known
<1>7. ASSUME NEW k \in Keys, NEW a \in applied'[k], a.named
      PROVE  /\ learned'.name # Null
             /\ a.ts <= learned'.last /\ learned'.last <= sent'[learned'.name].ts
  <2>1. learned'.name # Null => learned'.last <= sent'[learned'.name].ts
    BY <1>6 DEF LearnedWasSent
  <2>2. CASE a \in applied[k]
    <3>1. learned.name # Null /\ a.ts <= learned.last
      BY <1>0, <1>7, <2>2 DEF LearnedIsNewest
    <3>2. a.ts \in Nat
      BY <1>0, <2>2 DEF LTypeOK, Fact
    <3> QED
      BY <1>1, <1>2, <1>4, <2>1, <3>1, <3>2
  <2>3. CASE a \notin applied[k]
    <3>1. k \in e.rows /\ a = FactOf(o, e)
      BY <1>0, <1>7, <2>3, InsertRow
    <3>2. e.named /\ e.rows # {} /\ a.ts = seen
      BY <1>7, <3>1 DEF FactOf, seen
    <3>3. learned' = Learn(learned, o, seen)
      BY <1>3, <3>2
    <3>4. learned'.name # Null /\ seen <= learned'.last
      BY <1>1, <1>2, <3>3 DEF Learn
    <3> QED
      BY <2>1, <3>2, <3>4
  <2> QED
    BY <2>2, <2>3
<1> QED
  BY <1>6, <1>7 DEF LearnedIsNewest

\* An observation whose clock is not ahead and that is folded in now was not
\* folded into any row that is still there.
LEMMA InsertIsNew ==
  ASSUME LInv, NEW o \in Obs, NEW e \in Envelope, InRange(e), o \notin DOMAIN ids,
         o \in DOMAIN sent => sent[o] = e,
         NEW k \in Keys, \A a \in applied[k] : ~a.ahead
  PROVE  o \notin Folded(k)
<1> SUFFICES ASSUME NEW a \in applied[k], a.obs = o
             PROVE  FALSE
  BY DEF Folded
<1>1. a.obs \in DOMAIN sent /\ sent[a.obs].ts = a.ts /\ a.ts < wall - Retention
  BY DEF LInv, NotTwice
<1>2. wall - Retention <= a.ts
  BY <1>1 DEF InRange
<1>3. a.ts \in Nat /\ wall \in Nat /\ Retention \in Nat
  BY ListingsAssumption DEF LInv, LTypeOK, Fact
<1> QED
  BY <1>1, <1>2, <1>3

LEMMA InsertNotTwice ==
  ASSUME LInv, NEW o \in Obs, NEW e \in Envelope, Insert(o, e), Known(o, e), o \notin DOMAIN ids,
         o \in DOMAIN sent => sent[o] = e, UNCHANGED wall
  PROVE  NotTwice'
<1> SUFFICES ASSUME NEW k \in Keys, NEW a \in applied'[k], ~a.ahead
             PROVE  /\ a.obs \in DOMAIN sent' /\ sent'[a.obs].ts = a.ts
                    /\ \/ a.obs \in DOMAIN ids' /\ ids'[a.obs] >= a.ts
                       \/ a.ts < wall' - Retention'
  BY DEF NotTwice
<1>0. LTypeOK /\ NotTwice
  BY DEF LInv
<1>1. /\ DOMAIN ids' = DOMAIN ids \cup {o} /\ ids'[o] = wall
      /\ \A p \in DOMAIN ids : ids'[p] = ids[p]
  BY DEF Insert
<1>2. CASE a \in applied[k]
  <2>1. /\ a.obs \in DOMAIN sent /\ sent[a.obs].ts = a.ts
        /\ \/ a.obs \in DOMAIN ids /\ ids[a.obs] >= a.ts
           \/ a.ts < wall - Retention
    BY <1>0, <1>2 DEF NotTwice
  <2>2. a.obs \in DOMAIN sent' /\ sent'[a.obs] = sent[a.obs]
    BY <2>1 DEF Known
  <2> QED
    BY <1>1, <2>1, <2>2
<1>3. CASE a \notin applied[k]
  <2>1. a = FactOf(o, e)
    BY <1>0, <1>3, InsertRow
  <2>2. a.obs = o /\ a.ts = Seen(e) /\ ~(e.ts > wall)
    BY <2>1 DEF FactOf
  <2>3. a.ts = e.ts /\ wall >= a.ts
    BY <1>0, <2>2, SeenFacts DEF LTypeOK
  <2> QED
    BY <1>1, <2>2, <2>3 DEF Known
<1> QED
  BY <1>2, <1>3

LEMMA InsertCounted ==
  ASSUME LInv, NEW o \in Obs, NEW e \in Envelope, Insert(o, e), InRange(e), o \notin DOMAIN ids,
         o \in DOMAIN sent => sent[o] = e
  PROVE  FoldedFinite' /\ CountedOnce'
<1>0. LTypeOK /\ OnlyOfRows /\ FoldedFinite /\ CountedOnce
  BY DEF LInv
<1>1. ASSUME NEW k \in Keys, k \in e.rows
      PROVE  Folded(k)' = Folded(k) \cup {o}
  <2>1. applied'[k] = applied[k] \cup {FactOf(o, e)} /\ FactOf(o, e).obs = o
    BY <1>0, <1>1, InsertRow DEF FactOf
  <2> QED
    BY <2>1 DEF Folded
<1>2. ASSUME NEW k \in Keys, k \notin e.rows
      PROVE  Folded(k)' = Folded(k)
  BY <1>0, <1>2, InsertRow DEF Folded
<1>3. FoldedFinite'
  BY <1>0, <1>1, <1>2, FS_AddElement DEF FoldedFinite
<1>4. ASSUME NEW k \in DOMAIN rows', \A a \in applied'[k] : ~a.ahead
      PROVE  rows'[k].count = Cardinality(Folded(k)')
  <2>1. k \in Keys
    BY <1>0, <1>4, SeenFacts DEF Insert, LTypeOK
  <2>2. \A a \in applied[k] : ~a.ahead
    BY <1>0, <1>4, <2>1, InsertRow
  <2>3. CASE k \in e.rows /\ k \in DOMAIN rows
    <3>0. rows'[k] = Fold(rows[k], o, Seen(e), e.named)
      BY <1>0, <2>1, <2>3, InsertRow
    <3>1. rows'[k].count = rows[k].count + 1
      BY <3>0 DEF Fold
    <3>2. rows[k].count = Cardinality(Folded(k))
      BY <1>0, <2>2, <2>3 DEF CountedOnce, Folded
    <3>3. o \notin Folded(k) /\ IsFiniteSet(Folded(k))
      BY <1>0, <2>1, <2>2, InsertIsNew DEF FoldedFinite
    <3>4. Cardinality(Folded(k) \cup {o}) = Cardinality(Folded(k)) + 1
      BY <3>3, FS_AddElement
    <3> QED
      BY <1>1, <2>1, <2>3, <3>1, <3>2, <3>4
  <2>4. CASE k \in e.rows /\ k \notin DOMAIN rows
    <3>0. rows'[k] = Fresh(o, Seen(e), e.named)
      BY <1>0, <2>1, <2>4, InsertRow
    <3>1. rows'[k].count = 1
      BY <3>0 DEF Fresh
    <3>2. Folded(k)' = {o}
      BY <1>0, <1>1, <2>1, <2>4 DEF OnlyOfRows, Folded
    <3> QED
      BY <3>1, <3>2, FS_Singleton
  <2>5. CASE k \notin e.rows
    <3>1. k \in DOMAIN rows /\ rows'[k] = rows[k]
      BY <1>0, <1>4, <2>1, <2>5, InsertRow
    <3> QED
      BY <1>0, <1>2, <2>1, <2>2, <2>5, <3>1 DEF CountedOnce, Folded
  <2> QED
    BY <2>3, <2>4, <2>5
<1> QED
  BY <1>3, <1>4 DEF CountedOnce, Folded

\* A row that changes at or before the cursor is behind it.
LEMMA InsertGiven ==
  ASSUME LInv, NEW o \in Obs, NEW e \in Envelope, Insert(o, e), UNCHANGED feed
  PROVE  GivenOrAhead'
<1> SUFFICES ASSUME NEW k \in DOMAIN rows', ~After(rows'[k].last, k, cursor)
             PROVE  k \in behind' \/ got[k] = rows'[k].by
  BY DEF GivenOrAhead, feed, After
<1>0. LTypeOK /\ GivenOrAhead
  BY DEF LInv
<1>1. k \in Keys
  BY <1>0, SeenFacts DEF Insert, LTypeOK
<1>2. behind' = (behind \ {j \in e.rows : After(rows'[j].last, j, cursor)})
                  \cup {j \in e.rows : Seen(e) >= rows'[j].last /\ ~After(rows'[j].last, j, cursor)}
  BY DEF Insert
<1>3. CASE k \in e.rows /\ k \in DOMAIN rows
  <2>1. rows'[k] = Fold(rows[k], o, Seen(e), e.named)
    BY <1>0, <1>1, <1>3, InsertRow
  <2>2. rows[k].last \in Nat /\ Seen(e) \in Nat
    BY <1>0, <1>3, SeenFacts DEF LTypeOK, ListingRow
  <2>3. CASE Seen(e) >= rows[k].last
    <3>1. Seen(e) >= rows'[k].last
      BY <2>1, <2>2, <2>3 DEF Fold
    <3> QED
      BY <1>2, <1>3, <3>1
  <2>4. CASE ~(Seen(e) >= rows[k].last)
    <3>1. rows'[k].last = rows[k].last /\ rows'[k].by = rows[k].by
      BY <2>1, <2>2, <2>4 DEF Fold
    <3>2. k \in behind \/ got[k] = rows[k].by
      BY <1>0, <1>3, <3>1 DEF GivenOrAhead
    <3> QED
      BY <1>2, <3>1, <3>2
  <2> QED
    BY <2>3, <2>4
<1>4. CASE k \in e.rows /\ k \notin DOMAIN rows
  <2>1. rows'[k] = Fresh(o, Seen(e), e.named)
    BY <1>0, <1>1, <1>4, InsertRow
  <2>2. rows'[k].last = Seen(e) /\ Seen(e) \in Nat
    BY <1>0, <2>1, SeenFacts DEF Fresh
  <2> QED
    BY <1>2, <1>4, <2>2
<1>5. CASE k \notin e.rows
  <2>1. k \in DOMAIN rows /\ rows'[k] = rows[k]
    BY <1>0, <1>1, <1>5, InsertRow
  <2> QED
    BY <1>0, <1>2, <1>5, <2>1 DEF GivenOrAhead
<1> QED
  BY <1>3, <1>4, <1>5

-----------------------------------------------------------------------------
LEMMA LInvInit == LInit => LInv
<1> SUFFICES ASSUME LInit PROVE LInv
  OBVIOUS
<1>1. LTypeOK
  BY ListingsAssumption DEF LInit, LTypeOK
<1>2. \A k \in Keys : applied[k] = {}
  BY DEF LInit
<1>3. FoldedFinite
  <2>1. \A k \in Keys : Folded(k) = {}
    BY <1>2 DEF Folded
  <2> QED
    BY <2>1, FS_EmptySet DEF FoldedFinite
<1> QED
  BY <1>1, <1>2, <1>3 DEF LInv, LInit, OnlyOfRows, RowIsNewest, LearnedWasSent, LearnedIsNewest,
     NotTwice, CountedOnce, GivenOrAhead

\* What is not inserted leaves the tables alone.
LEMMA IgnoredStep ==
  ASSUME LInv, NEW o \in Obs, NEW e \in Envelope, Known(o, e), o \in DOMAIN sent => sent[o] = e,
         UNCHANGED <<wall, feed, tables, applied, behind>>
  PROVE  LInv'
<1>1. \A p \in DOMAIN sent : p \in DOMAIN sent' /\ sent'[p] = sent[p]
  BY DEF Known
<1>2. LTypeOK'
  BY DEF LInv, LTypeOK, Known, feed, tables, Envelope, Times, ListingRow, Fact
<1>3. LearnedWasSent'
  BY <1>1 DEF LInv, LearnedWasSent, tables
<1>4. LearnedIsNewest'
  <2>1. learned.name # Null => sent'[learned.name] = sent[learned.name]
    BY <1>1 DEF LInv, LearnedWasSent
  <2> QED
    BY <2>1 DEF LInv, LearnedIsNewest, tables
<1>5. NotTwice'
  BY <1>1 DEF LInv, NotTwice, tables
<1>6. OnlyOfRows' /\ RowIsNewest' /\ FoldedFinite' /\ CountedOnce' /\ GivenOrAhead'
  BY DEF LInv, OnlyOfRows, RowIsNewest, FoldedFinite, Folded, CountedOnce, GivenOrAhead, After,
         tables, feed
<1> QED
  BY <1>2, <1>3, <1>4, <1>5, <1>6 DEF LInv

LEMMA UploadStep ==
  ASSUME LInv, NEW o \in Obs, Upload(o)
  PROVE  LInv'
<1>1. PICK e \in Envelope : Receive(o, e) /\ Known(o, e) /\ (o \in DOMAIN sent => sent[o] = e)
  <2>1. CASE o \in DOMAIN sent
    <3>1. sent[o] \in Envelope /\ Receive(o, sent[o]) /\ sent' = sent
      BY <2>1 DEF Upload, LInv, LTypeOK
    <3>2. Known(o, sent[o])
      BY <2>1, <3>1 DEF Known
    <3> QED
      BY <3>1, <3>2
  <2>2. CASE o \notin DOMAIN sent
    <3>1. PICK e \in Envelope :
            /\ Receive(o, e)
            /\ sent' = [p \in DOMAIN sent \cup {o} |-> IF p = o THEN e ELSE sent[p]]
      BY <2>2 DEF Upload
    <3>2. Known(o, e)
      BY <2>2, <3>1 DEF Known
    <3> QED
      BY <2>2, <3>1, <3>2
  <2> QED
    BY <2>1, <2>2
<1>2. UNCHANGED <<wall, feed>>
  BY DEF Upload
<1>3. CASE InRange(e) /\ o \notin DOMAIN ids
  <2>1. Insert(o, e)
    BY <1>1, <1>3 DEF Receive
  <2>2. LTypeOK'
    BY <1>1, <1>2, <2>1, InsertTypes DEF LInv
  <2>3. OnlyOfRows' /\ RowIsNewest'
    BY <2>1, InsertNewest
  <2>4. LearnedWasSent' /\ LearnedIsNewest'
    BY <1>1, <2>1, InsertLearned
  <2>5. NotTwice'
    BY <1>1, <1>2, <1>3, <2>1, InsertNotTwice
  <2>6. FoldedFinite' /\ CountedOnce'
    BY <1>1, <1>3, <2>1, InsertCounted
  <2>7. GivenOrAhead'
    BY <1>2, <2>1, InsertGiven
  <2> QED
    BY <2>2, <2>3, <2>4, <2>5, <2>6, <2>7 DEF LInv
<1>4. CASE ~(InRange(e) /\ o \notin DOMAIN ids)
  <2>1. UNCHANGED <<tables, applied, behind>>
    BY <1>1, <1>4 DEF Receive
  <2> QED
    BY <1>1, <1>2, <2>1, IgnoredStep
<1> QED
  BY <1>3, <1>4

\* What is deleted is deleted with all that was counted, and an obs_id only
\* once its observation is out of range.
LEMMA PruneStep ==
  ASSUME LInv, Prune
  PROVE  LInv'
<1> DEFINE gone == {k \in DOMAIN rows : rows[k].last < wall - Retention}
<1>1. /\ DOMAIN rows' = DOMAIN rows \ gone
      /\ \A k \in DOMAIN rows' : rows'[k] = rows[k]
      /\ applied' = [k \in Keys |-> IF k \in gone THEN {} ELSE applied[k]]
      /\ behind' = behind \ gone
      /\ UNCHANGED <<wall, sent, learned, feed>>
  BY DEF Prune
<1>2. /\ DOMAIN ids' = {p \in DOMAIN ids : ids[p] >= wall - Retention}
      /\ \A p \in DOMAIN ids' : ids'[p] = ids[p]
  BY DEF Prune
<1> HIDE DEF gone
<1>3. \A k \in Keys : k \notin gone => applied'[k] = applied[k]
  BY <1>1
<1>4. \A k \in Keys : k \in gone => applied'[k] = {}
  BY <1>1
<1>5. LTypeOK'
  BY <1>1, <1>2 DEF LInv, LTypeOK, feed, Envelope, Times, ListingRow, Fact
<1>6. OnlyOfRows'
  BY <1>1 DEF LInv, OnlyOfRows
<1>7. RowIsNewest' /\ CountedOnce'
  <2>1. \A k \in DOMAIN rows' : k \in Keys /\ applied'[k] = applied[k]
    BY <1>1, <1>3, <1>5 DEF LTypeOK
  <2> QED
    BY <1>1, <2>1 DEF LInv, RowIsNewest, CountedOnce
<1>8. LearnedWasSent' /\ LearnedIsNewest'
  BY <1>1 DEF LInv, LearnedWasSent, LearnedIsNewest
<1>9. NotTwice'
  <2> SUFFICES ASSUME NEW k \in Keys, NEW a \in applied'[k], ~a.ahead
               PROVE  /\ a.obs \in DOMAIN sent /\ sent[a.obs].ts = a.ts
                      /\ \/ a.obs \in DOMAIN ids' /\ ids'[a.obs] >= a.ts
                         \/ a.ts < wall - Retention
    BY <1>1 DEF NotTwice
  <2>1. a \in applied[k]
    BY <1>1
  <2>2. /\ a.obs \in DOMAIN sent /\ sent[a.obs].ts = a.ts
        /\ \/ a.obs \in DOMAIN ids /\ ids[a.obs] >= a.ts
           \/ a.ts < wall - Retention
    BY <2>1 DEF LInv, NotTwice
  <2>3. CASE a.obs \in DOMAIN ids /\ ids[a.obs] >= a.ts
    <3>1. a.ts \in Nat /\ ids[a.obs] \in Nat /\ wall \in Nat /\ Retention \in Nat
      BY <2>1, <2>3, ListingsAssumption DEF LInv, LTypeOK, Fact
    <3> QED
      BY <1>2, <2>2, <2>3, <3>1
  <2> QED
    BY <2>2, <2>3
<1>10. FoldedFinite'
  <2>1. \A k \in Keys : k \notin gone => Folded(k)' = Folded(k)
    BY <1>3 DEF Folded
  <2>2. \A k \in Keys : k \in gone => Folded(k)' = {}
    BY <1>4 DEF Folded
  <2> QED
    BY <2>1, <2>2, FS_EmptySet DEF LInv, FoldedFinite
<1>11. GivenOrAhead'
  BY <1>1 DEF LInv, GivenOrAhead, feed, After
<1> QED
  BY <1>5, <1>6, <1>7, <1>8, <1>9, <1>10, <1>11 DEF LInv

LEMMA TickStep ==
  ASSUME LInv, WallTicks
  PROVE  LInv'
<1>1. wall' = wall + 1 /\ UNCHANGED <<sent, ids, rows, learned, cursor, got, applied, behind>>
  BY DEF WallTicks, tables, feed
<1>2. LTypeOK'
  BY <1>1 DEF LInv, LTypeOK, Envelope, Times, ListingRow, Fact
<1>3. NotTwice'
  <2> SUFFICES ASSUME NEW k \in Keys, NEW a \in applied'[k], ~a.ahead
               PROVE  /\ a.obs \in DOMAIN sent' /\ sent'[a.obs].ts = a.ts
                      /\ \/ a.obs \in DOMAIN ids' /\ ids'[a.obs] >= a.ts
                         \/ a.ts < wall' - Retention
    BY DEF NotTwice
  <2>1. a \in applied[k]
    BY <1>1
  <2>2. a.ts \in Nat /\ wall \in Nat /\ Retention \in Nat
    BY <2>1, ListingsAssumption DEF LInv, LTypeOK, Fact
  <2>3. a.ts < wall - Retention => a.ts < wall' - Retention
    BY <1>1, <2>2
  <2> QED
    BY <1>1, <2>1, <2>3 DEF LInv, NotTwice
<1> QED
  BY <1>1, <1>2, <1>3 DEF LInv, OnlyOfRows, RowIsNewest, LearnedWasSent, LearnedIsNewest,
     FoldedFinite, Folded, CountedOnce, GivenOrAhead, After

\* What lies at or before the new cursor was on the page: as few rows are
\* before it as before the last of the page.
LEMMA PollStep ==
  ASSUME LInv, Poll
  PROVE  LInv'
<1>0. LTypeOK /\ GivenOrAhead
  BY DEF LInv
<1>1. /\ UNCHANGED <<wall, sent, ids, rows, learned, applied, behind>>
      /\ got' = [k \in Keys |-> IF k \in Page THEN rows[k].by ELSE got[k]]
  BY DEF Poll, tables
<1>2. PICK k0 \in Page : cursor' = [ts |-> rows[k0].last, key |-> k0]
  BY DEF Poll
<1>3. /\ Page \subseteq Changed /\ Changed \subseteq DOMAIN rows /\ Changed \subseteq Keys
      /\ Cardinality({j \in Changed : Before(j, k0)}) < PageSize
  BY <1>0, <1>2 DEF Page, Changed, LTypeOK
<1>4. \A k \in DOMAIN rows : k \in Nat /\ rows[k].last \in Nat /\ rows[k].by \in Obs
  BY <1>0, ListingsAssumption DEF LTypeOK, ListingRow
<1>5. LTypeOK'
  <2>1. cursor' \in [ts : Int, key : Nat]
    BY <1>2, <1>3, <1>4
  <2>2. got' \in [Keys -> Obs \cup {Null}]
    BY <1>0, <1>1, <1>3, <1>4 DEF LTypeOK
  <2> QED
    BY <1>0, <1>1, <2>1, <2>2 DEF LTypeOK, Envelope, Times, ListingRow, Fact
<1>6. GivenOrAhead'
  <2> SUFFICES ASSUME NEW k \in DOMAIN rows, ~After(rows[k].last, k, cursor'), k \notin behind
               PROVE  got'[k] = rows[k].by
    BY <1>1 DEF GivenOrAhead, After
  <2>1. k \in Keys
    BY <1>0 DEF LTypeOK
  <2>2. CASE k \in Changed
    <3> DEFINE S(i) == {j \in Changed : Before(j, i)}
    <3>1. S(k) \subseteq S(k0)
      <4> SUFFICES ASSUME NEW j \in Changed, Before(j, k)
                   PROVE  Before(j, k0)
        OBVIOUS
      <4>1. j \in Nat /\ rows[j].last \in Nat
        BY <1>3, <1>4
      <4>2. k0 \in Nat /\ rows[k0].last \in Nat
        BY <1>2, <1>3, <1>4
      <4> QED
        BY <1>2, <1>4, <4>1, <4>2 DEF Before, After
    <3>2. IsFiniteSet(S(k0))
      <4>1. S(k0) \in SUBSET Keys
        BY <1>3
      <4> QED
        BY <4>1, FS_Subset, ListingsAssumption
    <3>3. /\ Cardinality(S(k)) <= Cardinality(S(k0))
          /\ Cardinality(S(k)) \in Nat /\ Cardinality(S(k0)) \in Nat
      <4>1. S(k) \in SUBSET S(k0)
        BY <3>1
      <4> HIDE DEF S
      <4> QED
        BY <3>2, <4>1, FS_Subset, FS_CardinalityType
    <3>4. Cardinality(S(k)) < PageSize
      BY <1>3, <3>3, ListingsAssumption
    <3>5. k \in Page
      BY <2>2, <3>4 DEF Page
    <3> QED
      BY <1>1, <2>1, <3>5
  <2>3. CASE k \notin Changed
    <3>1. got[k] = rows[k].by
      BY <1>0, <2>3 DEF GivenOrAhead, Changed
    <3> QED
      BY <1>1, <1>3, <2>1, <2>3, <3>1
  <2> QED
    BY <2>2, <2>3
<1> QED
  BY <1>1, <1>5, <1>6 DEF LInv, OnlyOfRows, RowIsNewest, LearnedWasSent, LearnedIsNewest,
     NotTwice, FoldedFinite, Folded, CountedOnce

\* Every step keeps the invariant.
LEMMA LInvStep == LInv /\ [LNext]_lvars => LInv'
<1> SUFFICES ASSUME LInv, [LNext]_lvars PROVE LInv'
  OBVIOUS
<1>1. CASE \E o \in Obs : Upload(o)
  BY <1>1, UploadStep
<1>2. CASE Prune
  BY <1>2, PruneStep
<1>3. CASE Poll
  BY <1>3, PollStep
<1>4. CASE WallTicks
  BY <1>4, TickStep
<1>5. CASE UNCHANGED lvars
  BY <1>5 DEF lvars, tables, feed, LInv, LTypeOK, OnlyOfRows, RowIsNewest, LearnedWasSent,
     LearnedIsNewest, NotTwice, FoldedFinite, Folded, CountedOnce, GivenOrAhead, After,
     Envelope, Times, ListingRow, Fact
<1> QED
  BY <1>1, <1>2, <1>3, <1>4, <1>5 DEF LNext

THEOREM TablesInvariant == LSpec => []LInv
  BY LInvInit, LInvStep, PTL DEF LSpec

\* seen_count counts every observation once, however often it was sent and
\* whatever the retention deleted (db.py, INSERT OR IGNORE before the upsert).
THEOREM EachIsCountedOnce == LSpec => []CountedOnce
<1>1. LInv => CountedOnce
  BY DEF LInv
<1> QED
  BY <1>1, TablesInvariant, PTL

\* In whatever order observations arrive, rows and names are those of the one
\* seen last (_LISTING_UPSERT, _NAME_UPSERT).
THEOREM LastSeenIsShown == LSpec => []NewestIsShown
<1>1. LInv => NewestIsShown
  BY DEF LInv, NewestIsShown
<1> QED
  BY <1>1, TablesInvariant, PTL

\* A consumer that has read everything was given every row as it is, for pages
\* of any size, unless the row changed behind its cursor (the keyset cursor).
THEOREM PollMissesNothing == LSpec => []DeliveredUnlessBehind
<1>1. LInv => DeliveredUnlessBehind
  BY DEF LInv, GivenOrAhead, DeliveredUnlessBehind, Changed
<1> QED
  BY <1>1, TablesInvariant, PTL

\* The search shows a row exactly while the expiry it would answer lies ahead,
\* whatever was folded into the row (search_market).
THEOREM FoundIsNotExpired == LSpec => []SearchAgrees
<1>1. LInv => SearchAgrees
  <2> SUFFICES ASSUME LInv, NEW k \in DOMAIN rows
               PROVE  k \in Found <=> ExpiresBy(rows[k].first, rows[k].last) > wall
    BY DEF SearchAgrees
  <2>1. rows[k].first \in Int /\ rows[k].last \in Int /\ wall \in Int
    BY DEF LInv, LTypeOK, ListingRow
  <2> QED
    BY <2>1, LiveIsNotExpired DEF Found
<1> QED
  BY <1>1, TablesInvariant, PTL

==============================================================================
