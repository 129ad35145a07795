------------------------------- MODULE Expiry -------------------------------
(***************************************************************************)
(* When a market listing expires (hub/db.py).  The game removes a listing  *)
(* at a midnight of Korea, so the hub shows it until the midnight after it *)
(* was last seen or, if that is later, the one listing_expiry_days after   *)
(* the day it was first seen.  The answer computes these bounds, the       *)
(* search compares the stored columns with two thresholds instead.         *)
(* Instants are whole ticks.                                               *)
(***************************************************************************)
EXTENDS Integers

CONSTANTS
  Day,        \* 86400 seconds
  Offset,     \* KST_OFFSET_SEC: how far Korea is ahead of UTC
  ExpiryDays  \* listing_expiry_days

ASSUME ExpiryAssumption ==
  Day \in Nat \ {0} /\ Offset \in Nat /\ ExpiryDays \in Nat \ {0}

\* The midnight at which the day of `at` began, and `days` later.
kst_midnight(at, days) == ((at + Offset) \div Day + days) * Day - Offset

ExpiresFrom(last) == kst_midnight(last, 1)

ExpiresBy(first, last) ==
  LET late == kst_midnight(first, ExpiryDays)
  IN  IF late > ExpiresFrom(last) THEN late ELSE ExpiresFrom(last)

\* _LIVE_WHERE with _live_params: the filter of the search.
\* LiveTooLong, a mutant: the first threshold is a day off.
LiveTooLong(first, last, now) ==
  first >= kst_midnight(now, 0 - ExpiryDays) \/ last >= kst_midnight(now, 0)

Live(first, last, now) ==
  first >= kst_midnight(now, 1 - ExpiryDays) \/ last >= kst_midnight(now, 0)

=============================================================================
