---------------------------- MODULE FlowDecoder ----------------------------
(***************************************************************************)
(* Reassembly of one direction of a TCP flow (FlowDecoder of               *)
(* seassist/gersang_protocol.py).  The capture sees the segments in any    *)
(* order, some twice, some cut differently when they are sent again, some  *)
(* never; the framer must be fed the bytes of the stream in order.         *)
(*                                                                         *)
(* A byte is its position in the stream of the sender, 0..Length-1; the    *)
(* sequence number of a segment is a position shifted and taken modulo     *)
(* Mod.  Stream puts the framer behind it.                                 *)
(***************************************************************************)
EXTENDS Integers, SequencesExt

CONSTANTS
  Mod,          \* 2^32
  Start,        \* the sequence number of the first byte
  Length,       \* how many bytes the sender sends (a bound)
  MaxSegment,   \* the longest segment
  Window,       \* how far a segment may be from the byte expected next
  BudgetBytes,  \* reorder_budget_bytes
  BudgetSec,    \* reorder_budget_sec
  MaxTime,      \* how long TLC watches (a bound)
  Unset         \* Python's None, of next and gap

ASSUME DecoderAssumption ==
  /\ Mod \in Nat /\ Start \in 0..(Mod - 1)
  /\ Length \in Nat /\ MaxSegment \in Nat \ {0}
  /\ Window \in Nat /\ 2 * (Window + MaxSegment) <= Mod
  /\ BudgetBytes \in Nat /\ BudgetSec \in Nat /\ MaxTime \in Nat
  /\ Unset \notin Int

VARIABLES
  dec,      \* the decoder: next, pending in the order of the dict, bytes, gap
  out,      \* what the framer was fed since it was reset
  now,      \* the clock
  arrived   \* history: the bytes that arrived since then

dvars == <<dec, out, now, arrived>>

-----------------------------------------------------------------------------
SeqNo(p) == (Start + p) % Mod

Bytes(at, n) == [i \in 1..n |-> at + i - 1]

\* _seq_delta: the signed distance from b to a.
Delta(a, b) ==
  LET d == (a - b) % Mod IN IF d > Mod \div 2 THEN d - Mod ELSE d

\* How many bytes are held back.
Held(pending) ==
  LET sum[k \in 0..Len(pending)] == IF k = 0 THEN 0 ELSE sum[k - 1] + Len(pending[k].data)
  IN  sum[Len(pending)]

\* The part of a segment that is not a repetition of what was fed.
\* Uncut, a mutant: the overlap is fed again.
Uncut(data, d) == IF -d >= Len(data) THEN <<>> ELSE data

Unfed(data, d) ==
  IF d >= 0 THEN data
  ELSE IF -d >= Len(data) THEN <<>> ELSE SubSeq(data, 1 - d, Len(data))

\* The decoder and its output, after `data` was fed to the framer.
Feed(s, data) ==
  [s EXCEPT !.out = @ \o data, !.next = (@ + Len(data)) % Mod]

\* _drain: the first pending segment that does not lie ahead is fed, again and
\* again until there is none; one segment goes in each round.
DrainOne(s) ==
  LET ready == {i \in DOMAIN s.pending : Delta(s.pending[i].seq, s.next) <= 0}
      i == CHOOSE j \in ready : \A k \in ready : j <= k
      seg == s.pending[i]
  IN  IF ready = {} THEN s
      ELSE Feed([s EXCEPT !.pending = RemoveAt(@, i), !.bytes = @ - Len(seg.data)],
                Unfed(seg.data, Delta(seg.seq, s.next)))

DrainAll(s) ==
  LET after[k \in 0..Len(s.pending)] == IF k = 0 THEN s ELSE DrainOne(after[k - 1])
      end == after[Len(s.pending)]
  IN  [end EXCEPT !.gap = IF end.pending = <<>> THEN Unset ELSE @]

-----------------------------------------------------------------------------
State == [next |-> dec.next, pending |-> dec.pending, bytes |-> dec.bytes,
          gap |-> dec.gap, out |-> out]

Becomes(s) ==
  /\ dec' = [next |-> s.next, pending |-> s.pending, bytes |-> s.bytes, gap |-> s.gap]
  /\ out' = s.out

\* The first segment of a capture tells where the stream is.
First(at, n) ==
  /\ dec.next = Unset
  /\ Becomes([State EXCEPT !.next = SeqNo(at + n), !.out = Bytes(at, n)])
  /\ arrived' = ToSet(Bytes(at, n))

\* A segment that continues the stream, or repeats it, or does both.
InOrder(at, n) ==
  LET d == Delta(SeqNo(at), dec.next)
  IN  /\ dec.next # Unset /\ d <= 0
      /\ IF -d >= n
           THEN UNCHANGED <<dec, out>>
           ELSE Becomes(DrainAll(Feed(State, Unfed(Bytes(at, n), d))))
      /\ arrived' = arrived \cup ToSet(Bytes(at, n))

\* _park: one segment per sequence number is kept, the longer of two.
\* KeepFirst, a mutant: the one that came first.
KeepFirst(s, seq, data) ==
  IF \E i \in DOMAIN s.pending : s.pending[i].seq = seq THEN s
  ELSE [s EXCEPT !.pending = Append(@, [seq |-> seq, data |-> data]),
                 !.bytes = @ + Len(data)]

Keep(s, seq, data) ==
  IF \E i \in DOMAIN s.pending : s.pending[i].seq = seq
    THEN LET i == CHOOSE j \in DOMAIN s.pending : s.pending[j].seq = seq
         IN  [s EXCEPT !.pending[i].data = data,
                       !.bytes = @ + Len(data) - Len(s.pending[i].data)]
    ELSE [s EXCEPT !.pending = Append(@, [seq |-> seq, data |-> data]),
                   !.bytes = @ + Len(data)]

Ahead(at) == dec.next # Unset /\ Delta(SeqNo(at), dec.next) > 0

Known(at, n) ==
  \E i \in DOMAIN dec.pending :
    dec.pending[i].seq = SeqNo(at) /\ n <= Len(dec.pending[i].data)

Parked(at, n) ==
  [Keep(State, SeqNo(at), Bytes(at, n)) EXCEPT !.gap = IF @ = Unset THEN now ELSE @]

OverBudget(s) == s.bytes > BudgetBytes \/ now - s.gap > BudgetSec

Repeated(at, n) ==
  /\ Ahead(at) /\ Known(at, n)
  /\ UNCHANGED <<dec, out>>
  /\ arrived' = arrived \cup ToSet(Bytes(at, n))

Park(at, n) ==
  /\ Ahead(at) /\ ~Known(at, n) /\ ~OverBudget(Parked(at, n))
  /\ Becomes(Parked(at, n))
  /\ arrived' = arrived \cup ToSet(Bytes(at, n))

\* The hole is given up: what is pending is thrown away, the framer starts
\* anew with the segment that just came.
GiveUp(at, n) ==
  /\ Ahead(at) /\ ~Known(at, n) /\ OverBudget(Parked(at, n))
  /\ Becomes([next |-> SeqNo(at + n), pending |-> <<>>, bytes |-> 0, gap |-> Unset,
              out |-> Bytes(at, n)])
  /\ arrived' = ToSet(Bytes(at, n))

\* Where the sender is, as far as the capture has followed.
Position == Last(out) + 1

\* A captured segment: new, or sent again, perhaps cut differently.
FeedSegment ==
  \E at \in 0..(Length - 1), n \in 1..MaxSegment :
    /\ at + n <= Length
    /\ dec.next # Unset => at - Position \in (1 - Window)..(Window - 1)
    /\ First(at, n) \/ InOrder(at, n) \/ Repeated(at, n) \/ Park(at, n) \/ GiveUp(at, n)
    /\ UNCHANGED now

Tick ==
  /\ now < MaxTime
  /\ now' = now + 1
  /\ UNCHANGED <<dec, out, arrived>>

FInit ==
  /\ dec = [next |-> Unset, pending |-> <<>>, bytes |-> 0, gap |-> Unset]
  /\ out = <<>> /\ now = 0 /\ arrived = {}

FNext == FeedSegment \/ Tick

FSpec == FInit /\ [][FNext]_dvars

-----------------------------------------------------------------------------
\* Between two resets the framer is fed an unbroken piece of the stream, each
\* byte once, however the segments overlap, repeat and wrap around; and the
\* number expected next is the one after it.
Unbroken ==
  /\ \A i \in 1..(Len(out) - 1) : out[i + 1] = out[i] + 1
  /\ dec.next # Unset => dec.next = SeqNo(Position)

\* A byte is not held back once it can be fed: the byte expected next has not
\* arrived since the stream was last picked up, in any segment, not even in a
\* longer one sent again from the same number (gersang_protocol.py:1544).  What
\* is held back is counted right and within the budget, and the clock of a hole
\* runs exactly while there is one.
NothingStuck ==
  /\ dec.next # Unset => Position \notin arrived
  /\ dec.bytes = Held(dec.pending) /\ dec.bytes <= BudgetBytes
  /\ dec.gap = Unset <=> dec.pending = <<>>

=============================================================================
