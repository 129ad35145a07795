---------------------------- MODULE HubListings ----------------------------
(***************************************************************************)
(* The hub's market tables and the consumer that polls them (hub/db.py,    *)
(* hub/server.py).  Observers upload observations, late, twice and out of  *)
(* order; the hub folds their rows into one row per listing; a retention   *)
(* loop deletes what is old; a consumer pages through the changes with a   *)
(* keyset cursor.                                                          *)
(*                                                                         *)
(* An observation is a member of Obs; what it carries (its clock, the      *)
(* listings on its page, whether the observer could name the item) is      *)
(* chosen when it is first sent and does not change in a resend.  Listing  *)
(* keys are numbers, ordered like the text keys.  All rows are of one      *)
(* item.  A row's quantity, price, flags and device are the ones of the    *)
(* observation `by`.                                                       *)
(***************************************************************************)
EXTENDS Expiry, FiniteSets

CONSTANTS
  Obs,        \* observations
  Keys,       \* listing keys
  Retention,  \* retention_market_days, in ticks of the clock
  Ahead,      \* max_agent_ts_ahead_sec: how far an accepted clock may be ahead
  PageSize,      \* the page size of the consumer
  MaxWall,    \* how long TLC watches (a bound)
  Null        \* NULL: no name, no observation

ASSUME ListingsAssumption ==
  /\ Keys \subseteq Nat /\ IsFiniteSet(Keys)
  /\ Null \notin Obs
  /\ Retention \in Nat /\ Ahead \in Nat
  /\ PageSize \in Nat \ {0} /\ MaxWall \in Nat

Times == 0..(MaxWall + Ahead)

\* What an upload says of one observation.
Envelope == [ts : Times, rows : SUBSET Keys, named : BOOLEAN]

VARIABLES
  wall,      \* the hub's wall clock
  sent,     \* the envelope of every observation sent so far
  ids,      \* market_observations: obs_id and recv_ts
  rows,     \* market_listings, by key
  learned,  \* market_item_names: the item's name and when it was last seen
  cursor,   \* the consumer's since_ts and since_key
  got,      \* the last version of a row the consumer was given: who wrote it
  applied,  \* history: what was folded into a row since it was inserted
  behind    \* history: rows that changed at or before the cursor

tables  == <<ids, rows, learned>>
feed    == <<cursor, got>>
lvars   == <<wall, sent, tables, feed, applied, behind>>

-----------------------------------------------------------------------------
\* _LISTING_UPSERT for one row: the observation seen last writes the state, an
\* older one only moves first_seen_ts; a name is not overwritten by none.
\* FoldOverwrites, a mutant: the observation that arrives last writes it.
FoldOverwrites(row, o, seen, named) ==
  [first |-> IF seen < row.first THEN seen ELSE row.first,
   last  |-> IF seen > row.last THEN seen ELSE row.last,
   by    |-> o,
   name  |-> IF named THEN o ELSE row.name,
   count |-> row.count + 1]

Fold(row, o, seen, named) ==
  [first |-> IF seen < row.first THEN seen ELSE row.first,
   last  |-> IF seen > row.last THEN seen ELSE row.last,
   by    |-> IF seen >= row.last THEN o ELSE row.by,
   name  |-> IF named /\ (row.name = Null \/ seen >= row.last) THEN o ELSE row.name,
   count |-> row.count + 1]

Fresh(o, seen, named) ==
  [first |-> seen, last |-> seen, by |-> o, name |-> IF named THEN o ELSE Null, count |-> 1]

\* _NAME_UPSERT.
Learn(entry, o, seen) ==
  IF entry.name = Null \/ seen >= entry.last
    THEN [name |-> o, last |-> seen]
    ELSE entry

\* (last_seen_ts, listing_key) > (since_ts, since_key)
After(ts, k, c) == ts > c.ts \/ (ts = c.ts /\ k > c.key)

\* validate_upload: the observer's clock is in range.
InRange(e) == wall - Retention <= e.ts /\ e.ts <= wall + Ahead

\* seen_ts: a clock that is ahead counts as wall.
Seen(e) == IF e.ts < wall THEN e.ts ELSE wall

\* insert_market_observations with INSERT OR IGNORE on the obs_id: the rows of
\* an observation that is already there are skipped.
Insert(o, e) ==
  LET seen == Seen(e)
      how == [obs |-> o, ts |-> seen, named |-> e.named, ahead |-> e.ts > wall]
      put(k) == IF k \in DOMAIN rows THEN Fold(rows[k], o, seen, e.named)
                                     ELSE Fresh(o, seen, e.named)
  IN /\ ids' = [p \in DOMAIN ids \cup {o} |-> IF p = o THEN wall ELSE ids[p]]
     /\ rows' = [k \in DOMAIN rows \cup e.rows |-> IF k \in e.rows THEN put(k) ELSE rows[k]]
     /\ learned' = IF e.named /\ e.rows # {} THEN Learn(learned, o, seen) ELSE learned
     /\ applied' = [k \in Keys |-> IF k \in e.rows THEN applied[k] \cup {how} ELSE applied[k]]
     /\ behind' = (behind \ {k \in e.rows : After(rows'[k].last, k, cursor)})
                    \cup {k \in e.rows : seen >= rows'[k].last /\ ~After(rows'[k].last, k, cursor)}

Receive(o, e) ==
  IF InRange(e) /\ o \notin DOMAIN ids
    THEN Insert(o, e)
    ELSE UNCHANGED <<tables, applied, behind>>

\* POST /api/market/observations: a first upload, or a resend from the spool.
Upload(o) ==
  /\ IF o \in DOMAIN sent
       THEN Receive(o, sent[o]) /\ UNCHANGED sent
       ELSE \E e \in Envelope :
              /\ Receive(o, e)
              /\ sent' = [p \in DOMAIN sent \cup {o} |-> IF p = o THEN e ELSE sent[p]]
  /\ UNCHANGED <<wall, feed>>

\* prune, run by _retention_loop.
\* PruneAtCutoff, a mutant: an obs_id as old as the cutoff is deleted.
PruneAtCutoff ==
  LET cutoff == wall - Retention
      gone == {k \in DOMAIN rows : rows[k].last < cutoff}
  IN /\ ids' = [o \in {p \in DOMAIN ids : ids[p] > cutoff} |-> ids[o]]
     /\ rows' = [k \in DOMAIN rows \ gone |-> rows[k]]
     /\ applied' = [k \in Keys |-> IF k \in gone THEN {} ELSE applied[k]]
     /\ behind' = behind \ gone
     /\ UNCHANGED <<wall, sent, learned, feed>>

Prune ==
  LET cutoff == wall - Retention
      gone == {k \in DOMAIN rows : rows[k].last < cutoff}
  IN /\ ids' = [o \in {p \in DOMAIN ids : ids[p] >= cutoff} |-> ids[o]]
     /\ rows' = [k \in DOMAIN rows \ gone |-> rows[k]]
     /\ applied' = [k \in Keys |-> IF k \in gone THEN {} ELSE applied[k]]
     /\ behind' = behind \ gone
     /\ UNCHANGED <<wall, sent, learned, feed>>

\* GET /api/market/listings: the first PageSize rows after the cursor.
\* ChangedByTimeOnly, a mutant: since_key is ignored.
ChangedByTimeOnly == {k \in DOMAIN rows : rows[k].last > cursor.ts}

Changed == {k \in DOMAIN rows : After(rows[k].last, k, cursor)}

Before(j, k) == After(rows[k].last, k, [ts |-> rows[j].last, key |-> j])

Page == {k \in Changed : Cardinality({j \in Changed : Before(j, k)}) < PageSize}

\* The consumer keeps the last row of the page as its next cursor.
Poll ==
  /\ Changed # {}
  /\ \E k \in Page :
       /\ \A j \in Page : ~Before(k, j)
       /\ cursor' = [ts |-> rows[k].last, key |-> k]
  /\ got' = [k \in Keys |-> IF k \in Page THEN rows[k].by ELSE got[k]]
  /\ UNCHANGED <<wall, sent, tables, applied, behind>>

\* search_market, without the age limit: what the search shows.
Found == {k \in DOMAIN rows : Live(rows[k].first, rows[k].last, wall)}

WallTicks ==
  /\ wall < MaxWall
  /\ wall' = wall + 1
  /\ UNCHANGED <<sent, tables, feed, applied, behind>>

LInit ==
  /\ wall = 0
  /\ sent = [o \in {} |-> 0] /\ ids = [o \in {} |-> 0] /\ rows = [k \in {} |-> 0]
  /\ learned = [name |-> Null, last |-> 0]
  /\ cursor = [ts |-> -1, key |-> 0] /\ got = [k \in Keys |-> Null]
  /\ applied = [k \in Keys |-> {}] /\ behind = {}

LNext == (\E o \in Obs : Upload(o)) \/ Prune \/ Poll \/ WallTicks

LSpec == LInit /\ [][LNext]_lvars

-----------------------------------------------------------------------------
\* seen_count counts every observation once, whatever was sent again and
\* whatever the retention deleted (HUB-PROTOCOL 1: a repeated obs_id adds
\* nothing), unless an observer's clock was ahead: then a resend may pass the
\* range check after its obs_id was pruned, and is counted again.
CountedOnce ==
  \A k \in DOMAIN rows :
    (\A a \in applied[k] : ~a.ahead) =>
      rows[k].count = Cardinality({a.obs : a \in applied[k]})

\* A row spans the time in which it was seen and shows what was seen last.
RowIsNewest ==
  \A k \in DOMAIN rows :
    /\ \A a \in applied[k] : rows[k].first <= a.ts /\ a.ts <= rows[k].last
    /\ \E a \in applied[k] : a.obs = rows[k].by /\ a.ts = rows[k].last
    /\ \E a \in applied[k] : a.ts = rows[k].first

\* No row was named after the observation that the name learned comes from.
LearnedIsNewest ==
  \A k \in Keys : \A a \in applied[k] :
    a.named => /\ learned.name # Null
               /\ a.ts <= learned.last /\ learned.last <= sent[learned.name].ts

\* In whatever order observations arrive, rows and names are those of the
\* observation seen last (db.py:199-236, HUB-PROTOCOL 1).
NewestIsShown == RowIsNewest /\ LearnedIsNewest

\* A consumer that has read everything was given the state each row is in,
\* unless the row changed behind its cursor.
DeliveredUnlessBehind ==
  Changed = {} => \A k \in DOMAIN rows : k \in behind \/ got[k] = rows[k].by

\* However early and late observations moved the first and the last time of a
\* row, the search shows it exactly while the expires_by_ts it would answer
\* lies ahead.
SearchAgrees ==
  \A k \in DOMAIN rows : k \in Found <=> ExpiresBy(rows[k].first, rows[k].last) > wall

=============================================================================
