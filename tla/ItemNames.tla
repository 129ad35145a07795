----------------------------- MODULE ItemNames -----------------------------
(***************************************************************************)
(* The names of the items (item_names.py, ItemNames of market_observer.py):*)
(* a table found in the archive of a game client, a cache beside the       *)
(* configuration, and the look every ten minutes whether the client has    *)
(* been patched.  Other programs write the archives meanwhile.             *)
(*                                                                         *)
(* A build is the contents of an archive: which of its cells begin a zlib  *)
(* stream, how many cells that takes and what is in it.  A table is known  *)
(* by the build it was found in (gcs_sha256) and by its stamp: the path,   *)
(* the size and the time of the archive when it was read.                  *)
(***************************************************************************)
EXTENDS Naturals, FiniteSets, FiniteSetsExt

CONSTANTS
  Paths,        \* the client folders of this PC
  Builds,       \* the contents an archive may have, a half-written one among them
  Cells,        \* how many cells an archive has
  Streams,      \* of a build: where a signature stands, and the stream there
  SizeOf,       \* of a build: bytes
  MaxWrites,    \* how often an archive is written (a bound)
  MaxLaunches,  \* how often the observer is started (a bound)
  Missing

Kinds == {"fake",    \* a signature, but no stream that inflates to its end
          "other",   \* a stream without the marker
          "few",     \* the marker, but fewer rows than MIN_ROWS
          "table"}

ASSUME NamesAssumption ==
  /\ Cells \in Nat \ {0} /\ MaxWrites \in Nat /\ MaxLaunches \in Nat
  /\ \A b \in Builds : /\ SizeOf[b] \in Nat
                       /\ DOMAIN Streams[b] \subseteq 1..Cells
                       /\ \A i \in DOMAIN Streams[b] :
                            Streams[b][i].kind \in Kinds /\ Streams[b][i].cells \in Nat \ {0}
  /\ Missing \notin Paths \cup Builds

VARIABLES
  archive,    \* at each path: the build and the time of the archive, or Missing
  written,    \* how often archives have been written: the next time of one
  cache,      \* the table in the cache file, or Missing
  table, gcs, \* ItemNames.table and gcs_path
  reader,     \* load_item_table_result: where it stands and what it has seen
  up, launches

nvars == <<archive, written, cache, table, gcs, reader, up, launches>>

Idle == [at |-> "idle"]

-----------------------------------------------------------------------------
(***************************************************************************)
(* Where in a build the table is.                                          *)
(***************************************************************************)
Signatures(b) == DOMAIN Streams[b]

\* The streams the first pass comes by: it goes on behind a stream that
\* inflates, whatever begins inside of it.
iter_zlib_streams(b) ==
  LET from[c \in 1..(2 * Cells)] ==
        LET ahead == {i \in Signatures(b) : i >= c} IN
        IF ahead = {} THEN {}
        ELSE LET off == Min(ahead) s == Streams[b][off] IN
             IF s.kind = "fake" THEN from[off + 1] ELSE {off} \cup from[off + s.cells]
  IN  from[1]

HasTable(b) == \E i \in Signatures(b) : Streams[b][i].kind = "table"

Accepted(b, offsets) == {i \in offsets : Streams[b][i].kind = "table"}

\* Mutant: the first pass only.
FirstPass(b) ==
  LET hits == Accepted(b, iter_zlib_streams(b)) IN IF hits = {} THEN Missing ELSE Min(hits)

\* The place of the table: of the streams in turn or else, when a stream that
\* is none has swallowed it, of any signature.
extract_item_table_bytes(b) ==
  LET first == Accepted(b, iter_zlib_streams(b))
      second == Accepted(b, Signatures(b))
  IN  IF first # {} THEN Min(first) ELSE IF second # {} THEN Min(second) ELSE Missing

-----------------------------------------------------------------------------
(***************************************************************************)
(* load_item_table_result.                                                 *)
(***************************************************************************)
Stamp(p) == <<SizeOf[archive[p].build], archive[p].mtime>>

\* _cache_matches: the same stamp at the same path, the same bytes elsewhere.
_cache_matches(t, p) ==
  /\ t.stamp[1] = SizeOf[archive[p].build]
  /\ IF t.path = p THEN t.stamp = Stamp(p) ELSE t.build = archive[p].build

\* The load is over: at the start its result is what there is, later it
\* replaces the table unless there is none.
Loaded(t, p) ==
  /\ reader' = Idle
  /\ table' = IF t = Missing /\ up THEN table ELSE t
  /\ gcs' = IF up THEN gcs ELSE p
  /\ up' = TRUE

\* The cache is all there is, if there is one.
FallBack(p) == Loaded(reader.cached, p) /\ UNCHANGED cache

\* The cache has been read and the archive found, or not.
Look ==
  /\ reader.at = "look"
  /\ IF reader.path = Missing \/ (reader.path # Missing => archive[reader.path] = Missing) THEN FallBack(Missing)
     ELSE IF reader.cached # Missing /\ (reader.cached # Missing => _cache_matches(reader.cached, reader.path))
     THEN Loaded(reader.cached, reader.path) /\ UNCHANGED cache
     ELSE reader' = [reader EXCEPT !.at = "stat"] /\ UNCHANGED <<cache, table, gcs, up>>
  /\ UNCHANGED <<archive, written, launches>>

\* extract_item_table: stat, read, and stat again.
Stat ==
  /\ reader.at = "stat"
  /\ IF archive[reader.path] = Missing THEN FallBack(reader.path)
     ELSE /\ reader' = [at |-> "read", path |-> reader.path, cached |-> reader.cached,
                        stamp |-> Stamp(reader.path)]
          /\ UNCHANGED <<cache, table, gcs, up>>
  /\ UNCHANGED <<archive, written, launches>>

Read ==
  /\ reader.at = "read"
  /\ IF archive[reader.path] = Missing THEN FallBack(reader.path)
     ELSE /\ reader' = [at |-> "again", path |-> reader.path, cached |-> reader.cached,
                        stamp |-> reader.stamp, build |-> archive[reader.path].build]
          /\ UNCHANGED <<cache, table, gcs, up>>
  /\ UNCHANGED <<archive, written, launches>>

\* Mutant: no second look at the archive.
UnchangedMeanwhile == TRUE

Unmoved ==
  /\ archive[reader.path] # Missing
  /\ SizeOf[reader.build] = reader.stamp[1] /\ Stamp(reader.path) = reader.stamp

StatAgain ==
  /\ reader.at = "again"
  /\ IF Unmoved /\ extract_item_table_bytes(reader.build) # Missing
     THEN /\ reader' = [reader EXCEPT !.at = "write"]
          /\ UNCHANGED <<cache, table, gcs, up>>
     ELSE FallBack(reader.path)
  /\ UNCHANGED <<archive, written, launches>>

\* The new table, with or without the cache.
Extracted == [path |-> reader.path, stamp |-> reader.stamp, build |-> reader.build]

WriteCache ==
  /\ reader.at = "write"
  /\ cache' \in {Extracted, cache}
  /\ Loaded(Extracted, reader.path)
  /\ UNCHANGED <<archive, written, launches>>

-----------------------------------------------------------------------------
(***************************************************************************)
(* The observer.                                                           *)
(***************************************************************************)
BeginLoad(p) == reader' = [at |-> "look", path |-> p, cached |-> cache]

\* ItemNames.load, with one of the archives discover_client_dirs finds: the
\* folder that is pinned, that of a game that runs, or one of the usual ones.
Begins ==
  /\ ~up /\ reader = Idle /\ launches < MaxLaunches
  /\ launches' = launches + 1
  /\ LET found == {p \in Paths : archive[p] # Missing} IN
     \E p \in IF found = {} THEN {Missing} ELSE found : BeginLoad(p)
  /\ UNCHANGED <<archive, written, cache, table, gcs, up>>

\* recheck, on the uploader thread.
Recheck ==
  /\ up /\ reader = Idle
  /\ table # Missing /\ gcs # Missing
  /\ archive[gcs] # Missing /\ table.stamp # Stamp(gcs)
  /\ BeginLoad(gcs)
  /\ UNCHANGED <<archive, written, cache, table, gcs, up, launches>>

\* The program ends, wherever the uploader thread stands.
Quit ==
  /\ up /\ up' = FALSE
  /\ reader' = Idle /\ table' = Missing /\ gcs' = Missing
  /\ UNCHANGED <<archive, written, cache, launches>>

-----------------------------------------------------------------------------
(***************************************************************************)
(* The client folders, written by others.                                  *)
(***************************************************************************)
Put(p, a) ==
  /\ written < MaxWrites /\ written' = written + 1
  /\ archive' = [archive EXCEPT ![p] = a]
  /\ UNCHANGED <<cache, table, gcs, reader, up, launches>>

\* A patch, or part of one: its time is new.
Patch(p, b) == Put(p, [build |-> b, mtime |-> written + 1])

\* The archive of another folder or of a backup is put in place with its old
\* time.  Not twice within the moment an archive is read.
Restore(p, a) == reader = Idle /\ archive[p] # a /\ Put(p, a)

Uninstall(p) == archive[p] # Missing /\ Put(p, Missing)

-----------------------------------------------------------------------------
NamesInit ==
  /\ \E b \in Builds, elsewhere \in BOOLEAN, kept \in BOOLEAN : \E p \in Paths :
       LET first == [build |-> b, mtime |-> 0] IN
       /\ archive = [q \in Paths |-> IF q = p \/ elsewhere THEN first ELSE Missing]
       /\ cache = IF kept /\ HasTable(b)
                  THEN [path |-> p, stamp |-> <<SizeOf[b], 0>>, build |-> b] ELSE Missing
  /\ written = 0 /\ table = Missing /\ gcs = Missing /\ reader = Idle /\ up = FALSE /\ launches = 0

Load == Look \/ Stat \/ Read \/ StatAgain \/ WriteCache

Others ==
  \/ \E p \in Paths, b \in Builds : Patch(p, b)
  \/ \E p \in Paths, q \in Paths : archive[q] # Missing /\ Restore(p, archive[q])
  \/ \E p \in Paths : Uninstall(p)

NamesNext == Load \/ Begins \/ Recheck \/ Quit \/ Others

\* Both threads go on while the program is up.
NamesAreFair == WF_nvars(Load) /\ WF_nvars(Recheck)

NamesSpec == NamesInit /\ [][NamesNext]_nvars /\ NamesAreFair

-----------------------------------------------------------------------------
\* What the stamp of a table says is so: an archive that still has the path,
\* size and time of the stamp has the contents the table was found in, for
\* the cache, which outlives the process, as for the table in use, although
\* the archive is patched while it is read (item_names.py:418).
StampIsTrue ==
  \A t \in {cache, table} \ {Missing} :
    archive[t.path] # Missing /\ t.stamp = Stamp(t.path) => archive[t.path].build = t.build

\* When the client is no longer patched, the names come in the end from the
\* archive as it is, if a table is in it and there were names to begin with
\* (market_observer.py:32).
Legible ==
  gcs # Missing /\ archive[gcs] # Missing /\ HasTable(archive[gcs].build)

FollowsPatch ==
  <>[](up /\ table # Missing /\ Legible)
    => <>[](table # Missing /\ Legible /\ table.build = archive[gcs].build)

=============================================================================
