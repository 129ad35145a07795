---------------------------- MODULE StreamFramer ----------------------------
(***************************************************************************)
(* Cutting the bytes of a flow into frames (StreamFramer of                *)
(* seassist/gersang_protocol.py).  The capture starts anywhere in the      *)
(* stream, so the framer first looks for a place where frames begin: LockK *)
(* complete frames in a row, a popup and its marker at the head, or a      *)
(* battle ENTER followed by a frame.  From then on it reports a frame once *)
(* its header is there, or once all of it is there for the kinds whose     *)
(* body is wanted, and skips what is left of the others.                   *)
(*                                                                         *)
(* A symbol stands for a field of the header: a frame is its length, the   *)
(* magic 0, its opcode, and a body of symbols that may look like a header. *)
(* Bytes come as FlowDecoder hands them on: in order, or from further on   *)
(* after a hole was given up.  retain_exit_body and observe_wordinput are  *)
(* off, as in the agent.                                                   *)
(***************************************************************************)
EXTENDS Integers, Sequences, FiniteSets

CONSTANTS
  Streams,      \* the streams TLC looks at: [bytes, starts], starts the true
                \* positions of frames, counted from 1
  LockK,        \* lock_k
  MinBody, MaxBody,   \* MIN_BODY, MAX_BODY
  HeaderLen,    \* HEADER_DECIDE_LEN: the magic and the opcode
  EnterMin,     \* _ENTER_ANCHOR_MIN_TOTAL
  PageMax,      \* _MARKET_FULL_WAIT_MAX_BODY
  ScanAlways,   \* _SCAN_ALWAYS_BELOW
  GapMin, GapDivisor, \* _SCAN_GAP_MIN, _SCAN_GAP_DIVISOR
  MaxWait,      \* _SCAN_MAX_WAIT_SEC
  MaxPiece,     \* the longest piece fed at once (a bound)
  MaxHole,      \* the longest hole, 0 for a stream without one (a bound)
  MaxClock,     \* how long TLC watches (a bound)
  Unknown       \* Python's None for _prev_companion

-----------------------------------------------------------------------------
Magic == 0
EnterOp == 1
PageOp == 2
JochulOp == 4
MarkerOp == 5
HighOp == 8            \* from here on an opcode whose upper half is not zero
JochulBody == 3
Marker == <<3, Magic, MarkerOp>>

\* What a stream is: a frame has a valid header, as far as it is there, and
\* behind it begins the next.
IsStream(t) ==
  /\ t.bytes \in Seq(Nat) /\ t.starts \subseteq DOMAIN t.bytes
  /\ \A q \in t.starts :
       /\ t.bytes[q] - 1 \in MinBody..MaxBody
       /\ q < Len(t.bytes) => t.bytes[q + 1] = Magic
       /\ q + t.bytes[q] <= Len(t.bytes) => q + t.bytes[q] \in t.starts
       /\ \A p \in (q + 1)..(q + t.bytes[q] - 1) : p \notin t.starts

\* The opcode is in the header.
ASSUME FramerAssumption ==
  /\ LockK \in Nat \ {0} /\ {MinBody, MaxBody, HeaderLen, EnterMin} \subseteq Nat
  /\ 2 <= HeaderLen /\ HeaderLen <= MinBody /\ MinBody <= MaxBody
  /\ {PageMax, ScanAlways, GapMin, MaxPiece, MaxHole, MaxClock, MaxWait} \subseteq Nat
  /\ GapDivisor \in Nat \ {0} /\ Unknown \notin BOOLEAN
  /\ \A t \in Streams : IsStream(t)

VARIABLES
  stream,  \* the stream
  fed,     \* how far it was fed
  framer,  \* the parser: see FramerInit
  told,    \* the frames reported, [at, op, body], in order
  clock,   \* ts
  origin   \* history: where the bytes begin that were fed since the last reset

svars == <<stream, fed, framer, told, clock, origin>>

-----------------------------------------------------------------------------
LockWindow == LockK * (MaxBody + 1)
MaxBuffer == 2 * LockWindow

Pending == 0
Reject == -1

\* _probe: the length of the frame that begins at p, Pending, or Reject.
Probe(buf, p) ==
  IF p > Len(buf) THEN Pending
  ELSE IF buf[p] - 1 \notin MinBody..MaxBody THEN Reject
  ELSE IF p + 1 > Len(buf) THEN Pending
  ELSE IF buf[p + 1] # Magic THEN Reject
  ELSE IF p + buf[p] - 1 > Len(buf) THEN Pending ELSE buf[p]

\* Behind the frame at p; what was refused or is not there yet stays so.
After(buf, p) ==
  LET r == Probe(buf, p) IN IF p <= 0 THEN p ELSE IF r <= 0 THEN r ELSE p + r

\* How the k frames from p on turn out: Reject, Pending, or where they end.
Chain(buf, p, k) ==
  LET end[i \in 0..k] == IF i = 0 THEN p ELSE After(buf, end[i - 1])
  IN  end[k]

Earliest(S, other) == IF S = {} THEN other ELSE CHOOSE x \in S : \A y \in S : x <= y

\* _find_lock: the first place from which LockK frames are there, and the first
\* one that is not yet refused.  A pending candidate does not end the search.
\* StopAtPending, a mutant: it does.
StopAtPending(buf, from) ==
  LET open == Earliest({p \in from..Len(buf) : Chain(buf, p, LockK) # Reject}, Len(buf) + 1)
  IN  [off |-> IF open <= Len(buf) /\ Chain(buf, open, LockK) > 0 THEN open ELSE 0,
       rest |-> open]

FindLock(buf, from) ==
  LET open == {p \in from..Len(buf) : Chain(buf, p, LockK) # Reject}
      whole == {p \in open : Chain(buf, p, LockK) > 0}
  IN  [off |-> Earliest(whole, 0), rest |-> Earliest(open, Len(buf) + 1)]

\* _enter_anchor at p: a complete ENTER and the frames after it, the first of
\* which is there and has an opcode with a zero upper half; none may be refused.
EnterAt(buf, p) ==
  LET r == Probe(buf, p)
      first == Probe(buf, p + r)
      refused == \/ first > 0 /\ buf[p + r + 2] >= HighOp
                 \/ Chain(buf, p + r, IF LockK > 2 THEN LockK - 1 ELSE 1) = Reject
  IN  IF p + 2 > Len(buf) \/ buf[p + 1] # Magic \/ buf[p + 2] # EnterOp THEN Reject
      ELSE IF r = Pending THEN Pending
      ELSE IF r < EnterMin \/ refused THEN Reject
      ELSE first

\* _enter_anchor: the first anchor, and where to look next time.
EnterAnchor(buf, from) ==
  LET open == {p \in from..Len(buf) : EnterAt(buf, p) # Reject}
      tail == IF Len(buf) - 1 > from THEN Len(buf) - 1 ELSE from
  IN  [off |-> Earliest({p \in open : EnterAt(buf, p) > 0}, 0), rest |-> Earliest(open, tail)]

\* _chain_start: the first place from which frames lead exactly to target.
Leads(buf, p, target) ==
  \E k \in 0..((target - p) \div (MinBody + 1)) : Chain(buf, p, k) = target

ChainStart(buf, from, target) == Earliest({p \in from..target : Leads(buf, p, target)}, target)

\* _popup_prefix_anchor: among the frames at the head, as many as the lock needs
\* and none of them refused, a popup stands next to its marker.
Kind(buf, p) ==
  IF SubSeq(buf, p, p + Probe(buf, p) - 1) = Marker THEN "marker"
  ELSE IF Probe(buf, p) = JochulBody + 1 /\ buf[p + 2] = JochulOp THEN "jochul" ELSE "other"

PopupAnchor(buf) ==
  /\ Chain(buf, 1, LockK) # Reject
  /\ \E i \in 2..LockK :
       /\ Chain(buf, 1, i) > 0
       /\ {Kind(buf, Chain(buf, 1, i - 2)), Kind(buf, Chain(buf, 1, i - 1))} = {"marker", "jochul"}

-----------------------------------------------------------------------------
\* The parser: buf, the bytes not consumed, the first of which is byte `at` of
\* the stream; skip, the bytes to pass over; scanFrom and anchorFrom, where the
\* two searches go on (_scan_from + 1 and _anchor_from + 1); gap, since and last
\* of the search's back-off; what is known of the frame before, for the popups.
FramerInit(from) ==
  [buf |-> <<>>, at |-> from, locked |-> FALSE, skip |-> 0, scanFrom |-> 1,
   anchorFrom |-> 1, gap |-> 0, since |-> 0, last |-> -(MaxWait + 1),
   prev |-> Unknown, waiting |-> FALSE, unknown |-> 0, overflows |-> 0]

\* _consume, which also moves the two searches.
Consume(s, n) ==
  LET back(x) == IF x - n > 1 THEN x - n ELSE 1
  IN  [s EXCEPT !.buf = SubSeq(@, n + 1, Len(@)), !.at = @ + n,
                !.scanFrom = back(@), !.anchorFrom = back(@)]

\* _trim_lock_window: of a long buffer what is refused is dropped.
Trim(s) ==
  LET over == Len(s.buf) - LockWindow \div 2
      drop == IF s.scanFrom - 1 < over THEN s.scanFrom - 1 ELSE over
  IN  IF Len(s.buf) <= LockWindow \/ drop <= 0 THEN s ELSE Consume(s, drop)

\* _desync: what was taken for the beginning of a frame is not.
Desync(s) == [s EXCEPT !.locked = FALSE, !.scanFrom = 2, !.anchorFrom = 1,
                       !.prev = Unknown, !.waiting = FALSE]

\* _note_popup_neighbour: a popup's marker without a known companion beside it.
NoteNeighbour(s, op, bodyLen) ==
  LET known == op = JochulOp
      marker == op = MarkerOp /\ bodyLen = Len(Marker) - 1
  IN  [s EXCEPT !.unknown = IF s.waiting /\ ~known THEN 1 ELSE @,
                !.waiting = marker /\ s.prev = FALSE,
                !.prev = known]

\* Kinds whose body is waited for: a page up to a bound, a popup of its length.
\* NeverWait, a mutant.
NeverWait(op, bodyLen) == FALSE

Waits(op, bodyLen) ==
  \/ op = PageOp /\ bodyLen <= PageMax
  \/ op = JochulOp /\ bodyLen = JochulBody

\* is_market: the number of rows agrees with the length.
IsPage(body) == Len(body) > HeaderLen /\ body[HeaderLen + 1] = Len(body) - HeaderLen - 1

\* The unlocked part of the loop of feed(): the scan, when it is due, the popup,
\* and on every call the anchor; the earlier of the two places wins.
ScanDue(s) ==
  \/ Len(s.buf) < ScanAlways \/ Len(s.buf) >= LockWindow \/ s.since >= s.gap

\* The first lock, or a popup; if there is none the scan goes on behind what it
\* has refused.
Scanned(s, lock) ==
  IF lock.off > 0 THEN [off |-> lock.off, rest |-> s.scanFrom]
  ELSE IF PopupAnchor(s.buf) THEN [off |-> 1, rest |-> s.scanFrom]
  ELSE [off |-> 0, rest |-> lock.rest]

Settle(s, ts, due, timed, scan, anchor) ==
  LET first == ChainStart(s.buf, IF scan.rest < anchor.off THEN scan.rest ELSE anchor.off, anchor.off)
      chosen == IF anchor.off > 0 /\ (scan.off = 0 \/ first < scan.off) THEN first ELSE scan.off
      s1 == [s EXCEPT !.since = IF due THEN 0 ELSE @, !.last = IF timed THEN ts ELSE @,
                      !.scanFrom = scan.rest, !.anchorFrom = anchor.rest]
      s2 == Trim(s1)
      size == Len(s2.buf) \div GapDivisor
  IN  IF chosen = 0
        THEN [s2 EXCEPT !.gap = IF due THEN IF size > GapMin THEN size ELSE GapMin ELSE @]
        ELSE [Consume(s1, chosen - 1) EXCEPT
                !.locked = TRUE, !.scanFrom = 1, !.anchorFrom = 1, !.gap = 0]

Search(s, ts) ==
  LET due == ScanDue(s)
      timed == due \/ ts - s.last >= MaxWait
  IN  Settle(s, ts, due, timed,
             IF timed THEN Scanned(s, FindLock(s.buf, s.scanFrom))
                      ELSE [off |-> 0, rest |-> s.scanFrom],
             EnterAnchor(s.buf, s.anchorFrom))

\* A round of the loop of feed(), with what was reported so far.  Without a lock
\* it searches.  With one the header at the head of the buffer is judged, the
\* frame is reported, and consumed or, if bytes are missing, left to be skipped.
Round(r, ts) ==
  LET s == r.s
      n == Len(s.buf)
      found == Search(s, ts)
      total == s.buf[1]
      bodyLen == total - 1
      op == s.buf[3]
      body == SubSeq(s.buf, 2, total)
      report == [at |-> s.at, op |-> op,
                 body |-> IF Waits(op, bodyLen) /\ (op = PageOp => IsPage(body))
                            THEN body ELSE <<>>]
      noted == NoteNeighbour(s, op, bodyLen)
  IN  IF r.done THEN r
      ELSE IF ~s.locked THEN [r EXCEPT !.s = found, !.done = ~found.locked]
      ELSE IF Probe(s.buf, 1) = Reject THEN [r EXCEPT !.s = Desync(s)]
      ELSE IF n < 1 + HeaderLen \/ (Waits(op, bodyLen) /\ n < total)
        THEN [r EXCEPT !.done = TRUE]
      ELSE IF n >= total
        THEN [r EXCEPT !.s = Consume(noted, total), !.out = Append(@, report)]
      ELSE [s |-> [Consume(noted, n) EXCEPT !.skip = total - n],
            out |-> Append(r.out, report), done |-> TRUE]

\* So many rounds are enough: but for the first, one that consumes nothing is
\* followed by one that does.
Loop(s, ts) ==
  LET start == [s |-> s, out |-> <<>>, done |-> FALSE]
      after[k \in 0..(2 * Len(s.buf) + 3)] == IF k = 0 THEN start ELSE Round(after[k - 1], ts)
  IN  after[2 * Len(s.buf) + 3]

\* feed(): what is to be skipped is skipped, the rest is parsed; a buffer beyond
\* all bounds is thrown away.
\* SkipNothing, a mutant: the bytes to skip are parsed.
SkipNothing(s, data) == [s EXCEPT !.buf = @ \o data, !.since = @ + Len(data), !.skip = 0]

Take(s, data) ==
  LET n == IF s.skip < Len(data) THEN s.skip ELSE Len(data)
      rest == SubSeq(data, n + 1, Len(data))
  IN  [s EXCEPT !.skip = @ - n, !.at = IF s.skip > 0 THEN @ + n ELSE @,
                !.buf = @ \o rest, !.since = @ + Len(rest)]

\* reset(): all is forgotten but the counts.
Reset(s, from) ==
  [FramerInit(from) EXCEPT !.unknown = s.unknown, !.overflows = s.overflows]

Bounded(r) ==
  IF Len(r.s.buf) <= MaxBuffer THEN r
  ELSE [s |-> [Reset(r.s, r.s.at + Len(r.s.buf)) EXCEPT !.overflows = 1], out |-> r.out]

FeedPiece(s, data, ts) ==
  IF s.skip >= Len(data) THEN [s |-> Take(s, data), out |-> <<>>]
  ELSE Bounded(Loop(Take(s, data), ts))

-----------------------------------------------------------------------------
Content(from, to) == SubSeq(stream.bytes, from, to)

Left == Len(stream.bytes) - fed

\* The n bytes from p on are fed, to a framer that starts anew or goes on.
Deliver(p, n, anew) ==
  \E r \in {FeedPiece(IF anew THEN Reset(framer, p) ELSE framer, Content(p, p + n - 1), clock)} :
    /\ framer' = r.s /\ told' = told \o r.out
    /\ fed' = p + n - 1
    /\ origin' = IF anew THEN p ELSE origin
    /\ UNCHANGED <<stream, clock>>

\* The next piece of the stream, and a piece behind a hole that was given up.
Piece(n) == n <= Left /\ Deliver(fed + 1, n, FALSE)

Hole(gap, n) == origin = 1 /\ gap + n <= Left /\ Deliver(fed + gap + 1, n, TRUE)

Wait ==
  /\ clock < MaxClock
  /\ clock' = clock + 1
  /\ UNCHANGED <<stream, fed, framer, told, origin>>

SInit ==
  /\ stream \in Streams
  /\ fed = 0 /\ framer = FramerInit(1) /\ told = <<>> /\ clock = 0 /\ origin = 1

SNext ==
  \/ \E n \in 1..MaxPiece : Piece(n)
  \/ \E gap \in 1..MaxHole, n \in 1..MaxPiece : Hole(gap, n)
  \/ Wait

SSpec == SInit /\ [][SNext]_svars

-----------------------------------------------------------------------------
Told(from) == {told[i].at : i \in {j \in DOMAIN told : told[j].at >= from}}

\* The frames of the stream from p on whose turn it is: the header is there, or
\* the whole of it if its body is waited for.
DueFrom(p) ==
  {q \in stream.starts :
     /\ q >= p /\ q + HeaderLen <= fed
     /\ Waits(stream.bytes[q + 2], stream.bytes[q] - 1) => q + stream.bytes[q] - 1 <= fed}

\* Once a frame of the stream was reported, every frame after it is reported,
\* as soon as its header is there and however the bytes were cut into pieces,
\* and nothing else is; only a hole ends this.
NothingMissed ==
  \A i \in DOMAIN told :
    told[i].at \in stream.starts /\ told[i].at >= origin =>
      Told(told[i].at) = DueFrom(told[i].at)

\* No byte is judged twice, not even over a hole, and a body that is handed on
\* is the stream's, never joined from the two sides of a hole or cut off where a
\* piece ended, and every well-formed page within the bound is handed on; a popup
\* is counted as unknown only when the frames beside its marker were both seen.
TrueToStream ==
  /\ \A i \in 1..(Len(told) - 1) : told[i].at < told[i + 1].at
  /\ \A i \in DOMAIN told :
       LET p == told[i].at
           body == SubSeq(stream.bytes, p + 1, p + stream.bytes[p] - 1)
       IN  /\ told[i].body \in {body, <<>>}
           /\ p \in stream.starts /\ told[i].op = PageOp /\ Len(body) <= PageMax /\ IsPage(body)
                => told[i].body = body
  /\ framer.unknown > 0 =>
       \E i \in 2..(Len(told) - 1) :
         /\ told[i].op = MarkerOp
         /\ told[i - 1].op # JochulOp /\ told[i + 1].op # JochulOp

\* What the search remembers costs it nothing: after every piece that leaves the
\* framer without a lock there is no anchor in the whole buffer, and no lock
\* either if the scan's back-off was over; and every byte given up while it
\* searched was no beginning of LockK frames.  Nor does the bound behind it ever
\* bite: the buffer holds no more than the window and is not thrown away (gersang_protocol.py:223, "정상 동작에서는 도달하지 않는다").
SearchIsComplete ==
  [][fed' # fed /\ ~framer'.locked /\ origin' = origin =>
       /\ \A p \in DOMAIN framer'.buf : EnterAt(framer'.buf, p) <= 0
       /\ \/ Len(framer'.buf) < ScanAlways \/ Len(framer'.buf) >= LockWindow
          \/ clock - framer.last >= MaxWait
          => \A p \in DOMAIN framer'.buf : Chain(framer'.buf, p, LockK) <= 0
       /\ ~framer.locked /\ told' = told =>
            \A p \in framer.at..(framer'.at - 1) :
              Chain(SubSeq(stream.bytes, 1, fed'), p, LockK) = Reject
       /\ framer'.overflows = 0 /\ Len(framer'.buf) <= LockWindow]_svars

\* find_boundary: where the offline tools begin with the same bytes.
\* LockOnly, a mutant: the anchors are not looked for.
LockOnly(buf) == FindLock(buf, 1).off

FindBoundary(buf) ==
  LET scan == FindLock(buf, 1).off
      off == IF scan = 0 /\ PopupAnchor(buf) THEN 1 ELSE scan
      anchor == EnterAnchor(buf, 1).off
      first == ChainStart(buf, 1, anchor)
  IN  IF anchor > 0 /\ (off = 0 \/ first < off) THEN first ELSE off

\* The offline tools, given all bytes up to the piece in which a framer reports
\* its first frame, begin where it began, however often its search was put off,
\* went on behind what it had refused and dropped that; no later, if it found an
\* anchor while its scan was put off (gersang_protocol.py:752, :760).  But they look for a
\* popup at the head of the bytes only: one behind bytes that were dropped is lost.
OfflineAgrees ==
  [][told = <<>> /\ told' # <<>> /\ origin' = 1 =>
       LET p == told'[1].at
           replayed == FindBoundary(SubSeq(stream.bytes, 1, fed'))
           taken == Take(framer, SubSeq(stream.bytes, fed + 1, fed'))
       IN  \/ /\ replayed \in 1..p
              /\ ScanDue(taken) \/ clock - taken.last >= MaxWait => replayed = p
           \/ p > 1 /\ p = framer.at /\ PopupAnchor(taken.buf)]_svars

=============================================================================
