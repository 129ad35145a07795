---------------------------- MODULE RateLimiter ----------------------------
(***************************************************************************)
(* The fixed-window counter of the hub (RateLimiter of hub/server.py) as   *)
(* operators on its state                                                  *)
(*   [hits |-> for each key its window [start, count], or None,            *)
(*    swept |-> the time of the last sweep].                               *)
(* Time is counted in ticks, Second of them to a second.                   *)
(***************************************************************************)
EXTENDS Integers

CONSTANTS
  Second,   \* ticks in a second
  Window,   \* window_sec, in ticks
  None

ASSUME LimiterAssumption ==
  Second \in Nat \ {0} /\ Window \in Nat \ {0} /\ None \notin [start : Int, count : Int]

-----------------------------------------------------------------------------
NewLimiter(Key, now) == [hits |-> [k \in Key |-> None], swept |-> now]

Over(start, now) == now - start >= Window

\* The whole seconds from now to the end of the window, at least one.
\* RetryAfterDown, a mutant: rounded down.
RetryAfterDown(start, now) ==
  LET s == (start + Window - now) \div Second IN IF s < 1 THEN 1 ELSE s

RetryAfter(start, now) ==
  LET s == (start + Window - now + Second - 1) \div Second
  IN  IF s < 1 THEN 1 ELSE s

\* SweepAll, a mutant: live windows are swept away too.
SweepAll(l, now) ==
  IF now - l.swept < Window THEN l
  ELSE [hits |-> [k \in DOMAIN l.hits |-> None], swept |-> now]

Sweep(l, now) ==
  IF now - l.swept < Window THEN l
  ELSE [hits |-> [k \in DOMAIN l.hits |->
                    IF l.hits[k] # None /\ Over(l.hits[k].start, now) THEN None
                    ELSE l.hits[k]],
        swept |-> now]

\* The window of a key a hit now falls in.
Entry(l, key, now) ==
  LET e == Sweep(l, now).hits[key]
  IN  IF e = None \/ Over(e.start, now) THEN [start |-> now, count |-> 0] ELSE e

Refused(l, key, now, limit) == Entry(l, key, now).count >= limit

\* hit: the limiter afterwards ...
Hit(l, key, now, limit) ==
  LET e == Entry(l, key, now)
  IN  [Sweep(l, now) EXCEPT
         !.hits[key] = IF e.count >= limit THEN e ELSE [e EXCEPT !.count = @ + 1]]

\* ... and the answer: 0, or the seconds to wait.
Wait(l, key, now, limit) ==
  LET e == Entry(l, key, now)
  IN  IF e.count >= limit THEN RetryAfter(e.start, now) ELSE 0

=============================================================================
