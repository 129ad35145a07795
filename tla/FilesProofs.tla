----------------------------- MODULE FilesProofs -----------------------------
(***************************************************************************)
(* The files of a PC that several may write and read at once, proved: the  *)
(* stamp of a table of item names tells the truth about the archive,       *)
(* whatever is in the builds and however often archives are written and    *)
(* tables loaded; and what SetUp promises of the configuration for any     *)
(* number of observers, starts, tokens and edits.                          *)
(***************************************************************************)
EXTENDS ItemNames, SetUp, TLAPS

(***************************************************************************)
(* The archive of item names and the table made from it.                   *)
(***************************************************************************)
Archives == [build : Builds, mtime : Nat]
Stamps == Nat \X Nat
Tables == [path : Paths, stamp : Stamps, build : Builds]
Loading == [at : {"look"}, path : Paths \cup {Missing}, cached : Tables \cup {Missing}]
             \cup [at : {"stat"}, path : Paths, cached : Tables \cup {Missing}]
Reading == [at : {"read"}, path : Paths, cached : Tables \cup {Missing}, stamp : Stamps]
Reads == [at : {"again", "write"}, path : Paths, cached : Tables \cup {Missing},
          stamp : Stamps, build : Builds]

ITypeOK ==
  /\ archive \in [Paths -> Archives \cup {Missing}]
  /\ written \in Nat
  /\ cache \in Tables \cup {Missing} /\ table \in Tables \cup {Missing}
  /\ gcs \in Paths \cup {Missing}
  /\ reader = Idle \/ reader \in Loading \cup Reading \cup Reads

Pair(t) == <<t.stamp[2], t.build>>

Installed == {p \in Paths : archive[p] # Missing}

\* The tables there are, that of a load that is about to keep one among them.
Known ==
  ({cache, table} \cup (IF reader.at = "idle" THEN {} ELSE {reader.cached})) \ {Missing}

\* What is known of the times of archives: with each, the contents.
Pairs ==
  {<<archive[p].mtime, archive[p].build>> : p \in Installed}
  \cup {Pair(t) : t \in Known}
  \cup (IF reader.at = "write" THEN {Pair(reader)} ELSE {})

\* No two contents have one time, and no time is yet to come.
OneBuild ==
  /\ \A x \in Pairs : x[1] <= written
  /\ \A x \in Pairs, y \in Pairs : x[1] = y[1] => x[2] = y[2]

\* While an archive is read nothing takes its place with the time it had.
Meanwhile ==
  /\ reader.at \in {"read", "again"} => reader.stamp[2] <= written
  /\ reader.at = "again" /\ archive[reader.path] # Missing
       /\ archive[reader.path].mtime = reader.stamp[2] =>
     archive[reader.path].build = reader.build

NInv == ITypeOK /\ OneBuild /\ Meanwhile

-----------------------------------------------------------------------------
\* A step that makes up nothing keeps the times apart.
LEMMA NothingNew ==
  ASSUME ITypeOK, OneBuild, written' \in Nat, written <= written', Pairs' \subseteq Pairs
  PROVE  OneBuild'
<1>1. \A x \in Pairs : x[1] \in Nat
  BY DEF Pairs, Pair, Installed, Known, ITypeOK, Archives, Tables, Stamps, Loading, Reading, Reads, Idle
<1> QED
  BY <1>1 DEF OneBuild, ITypeOK

LEMMA NInit == NamesInit => NInv
<1> SUFFICES ASSUME NamesInit PROVE NInv
  OBVIOUS
<1>1. PICK b \in Builds, elsewhere \in BOOLEAN, kept \in BOOLEAN, p \in Paths :
        LET first == [build |-> b, mtime |-> 0] IN
        /\ archive = [q \in Paths |-> IF q = p \/ elsewhere THEN first ELSE Missing]
        /\ cache = IF kept /\ HasTable(b)
                   THEN [path |-> p, stamp |-> <<SizeOf[b], 0>>, build |-> b] ELSE Missing
  BY DEF NamesInit
<1>2. written = 0 /\ table = Missing /\ gcs = Missing /\ reader = Idle
  BY DEF NamesInit
<1>3. SizeOf[b] \in Nat
  BY NamesAssumption
<1>4. ITypeOK
  BY <1>1, <1>2, <1>3 DEF ITypeOK, Archives, Tables, Stamps
<1>5. \A x \in Pairs : x = <<0, b>>
  BY <1>1, <1>2 DEF Pairs, Pair, Installed, Known, Idle
<1>6. OneBuild /\ Meanwhile
  BY <1>2, <1>5 DEF OneBuild, Meanwhile, Idle
<1> QED
  BY <1>4, <1>6 DEF NInv

LEMMA NStutter == NInv /\ UNCHANGED nvars => NInv'
BY DEF NInv, ITypeOK, OneBuild, Meanwhile, Pairs, Pair, Installed, Known, nvars

\* A load that ends with a table that is known, or none.
LEMMA NLoaded ==
  ASSUME NInv, NEW t \in Known \cup {Missing}, NEW p \in Paths \cup {Missing},
         Loaded(t, p), UNCHANGED <<archive, written, cache>>
  PROVE  NInv'
<1> USE DEF NInv, ITypeOK, Loaded
<1>1. t \in Tables \cup {Missing}
  <2>1. reader.at # "idle" => reader.cached \in Tables \cup {Missing}
    BY DEF Idle, Loading, Reading, Reads
  <2> QED
    BY <2>1 DEF Known
<1>2. ITypeOK'
  BY <1>1
<1>3. Known' \subseteq Known /\ Installed' = Installed
  BY DEF Known, Idle, Installed
<1>4. OneBuild'
  <2>1. Pairs' \subseteq Pairs
    BY <1>3 DEF Pairs, Pair, Idle
  <2> QED
    BY <2>1, NothingNew
<1>5. Meanwhile'
  BY DEF Meanwhile, Idle
<1> QED
  BY <1>2, <1>4, <1>5

\* The reader goes on and knows no more than what is in an archive.
LEMMA NLook ==
  ASSUME NInv, Look \/ Stat \/ Read
  PROVE  NInv'
<1> USE DEF NInv, ITypeOK
<1>1. UNCHANGED <<archive, written, cache>> /\ reader.at \in {"look", "stat", "read"}
  BY DEF Look, Stat, Read, FallBack
<1>2. /\ reader.cached \in Known \cup {Missing}
      /\ reader.path \in Paths \cup {Missing} /\ reader.cached \in Tables \cup {Missing}
      /\ reader.at # "look" => reader.path \in Paths
      /\ reader.at = "look" => reader = [at |-> "look", path |-> reader.path, cached |-> reader.cached]
      /\ reader.at = "read" => reader.stamp \in Stamps
  BY <1>1 DEF Known, Loading, Reading, Reads, Idle
<1>3. CASE \E p \in Paths \cup {Missing} : Loaded(reader.cached, p)
  BY <1>1, <1>2, <1>3, NLoaded
<1>4. CASE /\ UNCHANGED <<table, gcs, up>>
           /\ reader' = [reader EXCEPT !.at = "stat"] /\ reader.at = "look" /\ reader.path # Missing
  <2>1. reader' = [at |-> "stat", path |-> reader.path, cached |-> reader.cached]
    BY <1>2, <1>4
  <2>2. ITypeOK'
    BY <1>1, <1>2, <1>4, <2>1 DEF Loading
  <2>3. Pairs' = Pairs
    BY <1>1, <1>4, <2>1 DEF Pairs, Pair, Installed, Known
  <2>4. OneBuild' /\ Meanwhile'
    BY <1>1, <2>1, <2>3, NothingNew DEF Meanwhile
  <2> QED
    BY <2>2, <2>4
<1>5. CASE /\ UNCHANGED <<table, gcs, up>> /\ reader.at = "stat" /\ archive[reader.path] # Missing
           /\ reader' = [at |-> "read", path |-> reader.path, cached |-> reader.cached,
                         stamp |-> Stamp(reader.path)]
  <2>1. /\ archive[reader.path] \in Archives /\ Stamp(reader.path) \in Stamps
        /\ Stamp(reader.path)[2] = archive[reader.path].mtime
    BY <1>2, <1>5, NamesAssumption DEF Stamp, Archives, Stamps
  <2>2. ITypeOK'
    BY <1>1, <1>2, <1>5, <2>1 DEF Reading
  <2>3. Pairs' = Pairs
    BY <1>1, <1>5 DEF Pairs, Pair, Installed, Known
  <2>4. archive[reader.path].mtime <= written
    <3>1. <<archive[reader.path].mtime, archive[reader.path].build>> \in Pairs
      BY <1>2, <1>5 DEF Pairs, Installed
    <3> QED
      BY <3>1 DEF OneBuild
  <2>5. OneBuild' /\ Meanwhile'
    BY <1>1, <1>5, <2>1, <2>3, <2>4, NothingNew DEF Meanwhile
  <2> QED
    BY <2>2, <2>5
<1>6. CASE /\ UNCHANGED <<table, gcs, up>> /\ reader.at = "read" /\ archive[reader.path] # Missing
           /\ reader' = [at |-> "again", path |-> reader.path, cached |-> reader.cached,
                         stamp |-> reader.stamp, build |-> archive[reader.path].build]
  <2>1. archive[reader.path].build \in Builds
    BY <1>2, <1>6 DEF Archives
  <2>2. ITypeOK'
    BY <1>1, <1>2, <1>6, <2>1 DEF Reads
  <2>3. Pairs' = Pairs
    BY <1>1, <1>6 DEF Pairs, Pair, Installed, Known
  <2>4. OneBuild' /\ Meanwhile'
    BY <1>1, <1>6, <2>3, NothingNew DEF Meanwhile
  <2> QED
    BY <2>2, <2>4
<1> QED
  BY <1>1, <1>2, <1>3, <1>4, <1>5, <1>6 DEF Look, Stat, Read, FallBack

\* What was read is kept if the archive still has the time it had, and then it
\* is what that archive holds.
LEMMA NStatAgain ==
  ASSUME NInv, StatAgain
  PROVE  NInv'
<1> USE DEF NInv, ITypeOK
<1>1. UNCHANGED <<archive, written, cache>> /\ reader.at = "again" /\ reader \in Reads
  BY DEF StatAgain, FallBack, Loading, Reading, Reads, Idle
<1>2. reader.cached \in Known \cup {Missing} /\ reader.path \in Paths
  BY <1>1 DEF Known, Reads
<1>3. CASE Loaded(reader.cached, reader.path)
  BY <1>1, <1>2, <1>3, NLoaded
<1>4. CASE reader' = [reader EXCEPT !.at = "write"] /\ UNCHANGED <<table, gcs, up>> /\ Unmoved
  <2>1. /\ reader' \in Reads /\ reader'.at = "write" /\ reader'.cached = reader.cached
        /\ Pair(reader') = Pair(reader)
    BY <1>1, <1>4 DEF Reads, Pair
  <2>2. Pair(reader) = <<archive[reader.path].mtime, archive[reader.path].build>>
    BY <1>1, <1>2, <1>4 DEF Unmoved, Stamp, Meanwhile, Pair
  <2>3. Pair(reader) \in Pairs
    BY <1>2, <1>4, <2>2 DEF Pairs, Installed, Unmoved
  <2>4. Known' = Known /\ Installed' = Installed
    BY <1>1, <1>4, <2>1 DEF Known, Installed
  <2>5. Pairs' \subseteq Pairs
    BY <1>1, <2>1, <2>3, <2>4 DEF Pairs, Pair
  <2>6. OneBuild' /\ Meanwhile'
    BY <1>1, <2>1, <2>5, NothingNew DEF Meanwhile
  <2> QED
    BY <1>1, <1>4, <2>1, <2>6
<1> QED
  BY <1>1, <1>3, <1>4 DEF StatAgain, FallBack

LEMMA NWrite ==
  ASSUME NInv, WriteCache
  PROVE  NInv'
<1> USE DEF NInv, ITypeOK
<1>1. /\ reader \in Reads /\ reader.at = "write" /\ UNCHANGED <<archive, written>>
      /\ Extracted \in Tables /\ Pair(Extracted) = Pair(reader)
  BY DEF WriteCache, Loading, Reading, Reads, Idle, Extracted, Tables, Pair
<1>2. /\ cache' \in {Extracted, cache} /\ table' \in {Extracted, table}
      /\ reader' = Idle /\ gcs' \in {gcs, reader.path}
  BY DEF WriteCache, Loaded
<1>3. ITypeOK'
  BY <1>1, <1>2 DEF Reads
<1>4. Known' \subseteq Known \cup {Extracted} /\ Installed' = Installed
  BY <1>1, <1>2 DEF Known, Installed, Idle
<1>5. Pairs' \subseteq Pairs
  BY <1>1, <1>2, <1>4 DEF Pairs, Pair, Idle
<1>6. OneBuild' /\ Meanwhile'
  BY <1>1, <1>2, <1>5, NothingNew DEF Meanwhile, Idle
<1> QED
  BY <1>3, <1>6

LEMMA NObserver ==
  ASSUME NInv, Begins \/ Recheck \/ Quit
  PROVE  NInv'
<1> USE DEF NInv, ITypeOK
<1>1. UNCHANGED <<archive, written, cache>>
  BY DEF Begins, Recheck, Quit
<1>2. CASE Quit
  <2>1. Known' \subseteq Known /\ Installed' = Installed
    BY <1>1, <1>2 DEF Quit, Known, Idle, Installed
  <2>2. Pairs' \subseteq Pairs
    BY <1>1, <1>2, <2>1 DEF Quit, Pairs, Pair, Idle
  <2>3. OneBuild' /\ Meanwhile'
    BY <1>1, <1>2, <2>2, NothingNew DEF Quit, Meanwhile, Idle
  <2> QED
    BY <1>1, <1>2, <2>3 DEF Quit
<1>3. ASSUME NEW p \in Paths \cup {Missing}, BeginLoad(p), UNCHANGED <<table, gcs>>
      PROVE  NInv'
  <2>1. Known' \subseteq Known /\ Installed' = Installed
    BY <1>1, <1>3 DEF BeginLoad, Known, Installed
  <2>2. Pairs' \subseteq Pairs
    BY <1>1, <1>3, <2>1 DEF BeginLoad, Pairs, Pair
  <2>3. OneBuild' /\ Meanwhile'
    BY <1>1, <1>3, <2>2, NothingNew DEF BeginLoad, Meanwhile
  <2> QED
    BY <1>1, <1>3, <2>3 DEF BeginLoad, Loading
<1> QED
  BY <1>2, <1>3 DEF Begins, Recheck

\* Others put something new in place, or something that is known.
LEMMA NOthers ==
  ASSUME NInv, Others
  PROVE  NInv'
<1> USE DEF NInv, ITypeOK
<1>1. PICK p \in Paths, a \in Archives \cup {Missing} :
        /\ Put(p, a)
        /\ \/ a.mtime = written + 1
           \/ a = Missing
           \/ reader = Idle /\ \E q \in Installed : a = archive[q]
  <2>1. CASE \E p \in Paths, b \in Builds : Patch(p, b)
    <3>1. PICK p \in Paths, b \in Builds : Patch(p, b)
      BY <2>1
    <3>2. [build |-> b, mtime |-> written + 1] \in Archives
      BY DEF Archives
    <3> QED
      BY <3>1, <3>2 DEF Patch
  <2>2. CASE \E p \in Paths, q \in Paths : archive[q] # Missing /\ Restore(p, archive[q])
    BY <2>2 DEF Restore, Installed
  <2>3. CASE \E p \in Paths : Uninstall(p)
    BY <2>3 DEF Uninstall
  <2> QED
    BY <2>1, <2>2, <2>3 DEF Others
<1>2. written' = written + 1 /\ archive' = [archive EXCEPT ![p] = a]
      /\ UNCHANGED <<cache, table, gcs, reader>>
  BY <1>1 DEF Put
<1>3. ITypeOK'
  BY <1>2
<1>4. Pairs' \subseteq Pairs \cup (IF a = Missing THEN {} ELSE {<<a.mtime, a.build>>})
  BY <1>2 DEF Pairs, Pair, Known, Installed
<1>5. OneBuild'
  <2>1. CASE Pairs' \subseteq Pairs
    BY <1>2, <2>1, NothingNew
  <2>2. CASE a # Missing /\ a.mtime = written + 1
    <3>1. \A x \in Pairs : x[1] \in Nat
      BY DEF Pairs, Pair, Installed, Known, Archives, Tables, Stamps, Loading, Reading, Reads, Idle
    <3> QED
      BY <1>2, <1>4, <2>2, <3>1 DEF OneBuild
  <2> QED
    BY <1>1, <1>4, <2>1, <2>2 DEF Pairs, Installed
<1>6. Meanwhile'
  <2>1. reader.at \in {"read", "again"} => reader.stamp[2] \in Nat /\ reader.path \in Paths
    BY DEF Loading, Reading, Reads, Idle, Stamps
  <2> QED
    BY <1>1, <1>2, <2>1 DEF Meanwhile, Idle
<1> QED
  BY <1>3, <1>5, <1>6

\* A table that has the stamp of an archive was found in what the archive
\* holds (_cache_matches and the second stat of extract_item_table).
THEOREM StampsAreTrue == NamesSpec => []StampIsTrue
<1>1. NInv /\ [NamesNext]_nvars => NInv'
  BY NStutter, NLook, NStatAgain, NWrite, NObserver, NOthers DEF NamesNext, Load
<1>2. NInv => StampIsTrue
  <2> SUFFICES ASSUME NInv, NEW t \in {cache, table} \ {Missing},
                      archive[t.path] # Missing, t.stamp = Stamp(t.path)
               PROVE  archive[t.path].build = t.build
    BY DEF StampIsTrue
  <2>1. t \in Known /\ t.path \in Installed
    BY DEF NInv, ITypeOK, Tables, Known, Installed
  <2>2. Pair(t) \in Pairs /\ <<archive[t.path].mtime, archive[t.path].build>> \in Pairs
    BY <2>1 DEF Pairs
  <2>3. t.stamp[2] = archive[t.path].mtime
    BY DEF Stamp
  <2> QED
    BY <2>2, <2>3 DEF NInv, OneBuild, Pair
<1> QED
  BY NInit, <1>1, <1>2, PTL DEF NamesSpec

-----------------------------------------------------------------------------
(***************************************************************************)
(* SetUp: the token of the device that holds the slot is accounted for,    *)
(* and a save takes nothing away.                                          *)
(***************************************************************************)
Stages == {"off", "id", "register", "asking", "save", "uploads", "observes"}

UTypeOK ==
  /\ config \in Configs \cup {Absent}
  /\ cfg \in [Agents -> Configs]
  /\ stage \in [Agents -> Stages]
  /\ answers \in [Agents -> Nat \cup {Absent}]
  /\ starts \in [Agents -> Nat]
  /\ asked \subseteq Agents \X Nat
  /\ last \in Nat /\ ids \in Nat /\ edits \in Nat

\* Until it asks the hub, an observer that sees the file has read what is there;
\* after that, but for the token, which the file does not have yet.
Agree ==
  \A a \in Agents \ blind :
    /\ stage[a] \in {"id", "register"} =>
         IF config = Absent THEN cfg[a].token = Absent ELSE cfg[a] = config
    /\ stage[a] \in {"asking", "save"} /\ config # Absent =>
         config.token = Absent /\ config.id = cfg[a].id /\ config.own = cfg[a].own

\* Nothing is saved before there is an id.
HasId ==
  /\ config # Absent => config.id # Absent
  /\ \A a \in Agents : stage[a] \notin {"off", "id"} => cfg[a].id # Absent

\* The newest token is in the file, or with an observer that is about to save it.
Kept ==
  last # 0 /\ last \notin gone =>
    \/ InFile = last
    \/ \E a \in Agents : \/ stage[a] = "asking" /\ answers[a] = last
                         \/ stage[a] = "save" /\ cfg[a].token = last

UInv == UTypeOK /\ Agree /\ HasId /\ Kept

-----------------------------------------------------------------------------
LEMMA UInit == SetUpInit => UInv
BY SetUpAssumption
DEF SetUpInit, UInv, UTypeOK, Agree, HasId, Kept, Configs, EmptyConfig, Stages, InFile

LEMMA UStutter == UInv /\ UNCHANGED svars => UInv'
BY DEF UInv, UTypeOK, Agree, HasId, Kept, InFile, svars

\* What a save leaves behind, if the one who saves has what the file had.
LEMMA SaveKeeps ==
  ASSUME UInv, NEW a \in Agents, NEW c \in Configs, Saved(a, c),
         a \in blind \/ InFile \in {Absent, c.token}
  PROVE  /\ config' = c /\ config' # Absent /\ InFile' = c.token
         /\ \A b \in Agents \ {a} : On(b) => b \in blind'
         /\ InFile = last /\ last # 0 /\ last \notin gone' => c.token = last
         /\ gone \subseteq gone'
<1> USE DEF UInv, UTypeOK, Saved, Loses
<1>1. config' = c /\ config' # Absent
  BY SetUpAssumption
<1>2. InFile' = c.token
  BY <1>1 DEF InFile
<1>3. last # Absent
  BY SetUpAssumption
<1> QED
  BY <1>1, <1>2, <1>3

LEMMA UStart ==
  ASSUME UInv, NEW a \in Agents, NEW i \in BOOLEAN, Start(a, i)
  PROVE  UInv'
<1> USE DEF UInv, UTypeOK, Start, Goes
<1>1. EmptyConfig \in Configs /\ EmptyConfig.token = Absent
  BY DEF EmptyConfig, Configs
<1>2. UTypeOK'
  BY <1>1 DEF Stages
<1>3. Agree'
  BY <1>1 DEF Agree
<1>4. HasId'
  BY DEF HasId
<1>5. Kept'
  BY DEF Kept, InFile
<1> QED
  BY <1>2, <1>3, <1>4, <1>5

LEMMA UId ==
  ASSUME UInv, NEW a \in Agents, ensure_local_id(a)
  PROVE  UInv'
<1> USE DEF UInv, UTypeOK, ensure_local_id, Goes
<1>1. CASE cfg[a].id # Absent
  <2>1. UTypeOK'
    BY <1>1 DEF Stages
  <2>2. Agree' /\ HasId'
    BY <1>1 DEF Agree, HasId
  <2>3. Kept'
    BY <1>1 DEF Kept, InFile
  <2> QED
    BY <2>1, <2>2, <2>3
<1>2. CASE cfg[a].id = Absent
  <2> DEFINE c == [cfg[a] EXCEPT !.id = ids + 1]
  <2>1. /\ c \in Configs /\ c.token = cfg[a].token /\ c.id # Absent
        /\ ids' = ids + 1 /\ cfg' = [cfg EXCEPT ![a] = c]
    BY <1>2, SetUpAssumption DEF Configs
  <2>2. UNCHANGED <<invited, asked, answers, last, starts, edits>>
        /\ stage[a] = "id" /\ stage' = [stage EXCEPT ![a] = "register"]
    OBVIOUS
  <2>3. a \in blind \/ (InFile \in {Absent, c.token} /\ config = Absent)
    BY <1>2, <2>1 DEF Agree, HasId, InFile
  <2> HIDE DEF c
  <2>4. CASE Saved(a, c)
    <3>1. /\ config' = c /\ config' # Absent /\ InFile' = c.token
          /\ \A b \in Agents \ {a} : On(b) => b \in blind'
          /\ InFile = last /\ last # 0 /\ last \notin gone' => c.token = last
          /\ gone \subseteq gone'
      BY <2>1, <2>3, <2>4, SaveKeeps
    <3>2. UTypeOK'
      BY <2>1, <2>2, <3>1 DEF Stages
    <3>3. Agree'
      BY <2>1, <2>2, <3>1 DEF Agree, On
    <3>4. HasId'
      BY <2>1, <2>2, <3>1 DEF HasId
    <3>5. Kept'
      BY <2>1, <2>2, <3>1 DEF Kept
    <3> QED
      BY <3>2, <3>3, <3>4, <3>5
  <2>5. CASE NotSaved /\ UNCHANGED gone
    <3>1. UTypeOK'
      BY <2>1, <2>2, <2>5 DEF NotSaved, Stages
    <3>2. Agree'
      BY <2>1, <2>2, <2>3, <2>5 DEF Agree, NotSaved
    <3>3. HasId'
      BY <2>1, <2>2, <2>5 DEF HasId, NotSaved
    <3>4. Kept'
      BY <2>1, <2>2, <2>5 DEF Kept, NotSaved, InFile
    <3> QED
      BY <3>1, <3>2, <3>3, <3>4
  <2> QED
    BY <1>2, <2>4, <2>5 DEF c
<1> QED
  BY <1>1, <1>2

\* The steps of ensure_registered that touch neither file nor token.
LEMMA UAsks ==
  ASSUME UInv, NEW a \in Agents, HasToken(a) \/ Declines(a) \/ Asks(a)
  PROVE  UInv'
<1> USE DEF UInv, UTypeOK, HasToken, Declines, Asks, Goes
<1>1. UTypeOK'
  BY DEF Stages
<1>2. Agree' /\ HasId'
  BY DEF Agree, HasId
<1>3. Kept'
  BY DEF Kept, InFile
<1> QED
  BY <1>1, <1>2, <1>3

LEMMA UGivesUp ==
  ASSUME UInv, NEW a \in Agents, GivesUp(a)
  PROVE  UInv'
<1> USE DEF UInv, UTypeOK, GivesUp, Goes
<1>1. UTypeOK'
  BY DEF Stages
<1>2. Agree' /\ HasId'
  BY DEF Agree, HasId
<1>3. Kept'
  BY DEF Kept, InFile, Loses
<1> QED
  BY <1>1, <1>2, <1>3

LEMMA UTold ==
  ASSUME UInv, NEW a \in Agents, Told(a)
  PROVE  UInv'
<1> USE DEF UInv, UTypeOK, Told, Goes
<1>1. /\ cfg' = [cfg EXCEPT ![a] = [cfg[a] EXCEPT !.token = answers[a]]]
      /\ cfg'[a].token = answers[a] /\ cfg'[a].id = cfg[a].id /\ cfg'[a].own = cfg[a].own
      /\ cfg'[a] \in Configs
  BY DEF Configs
<1>2. UTypeOK'
  BY <1>1 DEF Stages
<1>3. Agree' /\ HasId'
  BY <1>1 DEF Agree, HasId
<1>4. Kept'
  BY <1>1 DEF Kept, InFile
<1> QED
  BY <1>2, <1>3, <1>4

LEMMA USaves ==
  ASSUME UInv, NEW a \in Agents, SavesToken(a)
  PROVE  UInv'
<1> USE DEF UInv, UTypeOK, SavesToken, Goes
<1>1. cfg[a] \in Configs /\ cfg[a].id # Absent /\ stage[a] = "save" /\ stage' = [stage EXCEPT ![a] = "uploads"]
  BY DEF HasId
<1>2. a \in blind \/ InFile = Absent
  BY DEF Agree, InFile
<1>3. CASE Saved(a, cfg[a])
  <2>1. /\ config' = cfg[a] /\ config' # Absent /\ InFile' = cfg[a].token
        /\ \A b \in Agents \ {a} : On(b) => b \in blind'
        /\ InFile = last /\ last # 0 /\ last \notin gone' => cfg[a].token = last
        /\ gone \subseteq gone'
    BY <1>1, <1>2, <1>3, SaveKeeps
  <2>2. UTypeOK'
    BY <1>1, <2>1 DEF Stages
  <2>3. Agree'
    BY <1>1, <2>1 DEF Agree, On
  <2>4. HasId'
    BY <1>1, <2>1 DEF HasId
  <2>5. Kept'
    BY <1>1, <2>1 DEF Kept
  <2> QED
    BY <2>2, <2>3, <2>4, <2>5
<1>4. CASE NotSaved /\ Loses({cfg[a].token})
  <2>1. UTypeOK'
    BY <1>1, <1>4 DEF Stages, NotSaved
  <2>2. Agree' /\ HasId'
    BY <1>1, <1>4 DEF Agree, HasId, NotSaved
  <2>3. Kept'
    BY <1>1, <1>4 DEF Kept, NotSaved, InFile, Loses
  <2> QED
    BY <2>1, <2>2, <2>3
<1> QED
  BY <1>3, <1>4

LEMMA UEnds ==
  ASSUME UInv, NEW a \in Agents, Ends(a)
  PROVE  UInv'
<1> USE DEF UInv, UTypeOK, Ends, Goes
<1>1. UTypeOK'
  BY DEF Stages, Configs, EmptyConfig
<1>2. Agree' /\ HasId'
  BY DEF Agree, HasId
<1>3. Kept'
  BY DEF Kept, InFile, Loses
<1> QED
  BY <1>1, <1>2, <1>3

LEMMA URegisters ==
  ASSUME UInv, NEW r \in asked, Registers(r)
  PROVE  UInv'
<1> USE DEF UInv, UTypeOK, Registers
<1>1. r[1] \in Agents /\ last' = last + 1 /\ last' \in Nat
  OBVIOUS
<1>2. UTypeOK'
  BY <1>1
<1>3. Agree' /\ HasId'
  BY DEF Agree, HasId
<1>4. Kept'
  BY <1>1 DEF Kept
<1> QED
  BY <1>2, <1>3, <1>4

LEMMA UOthers ==
  ASSUME UInv, Edit \/ \E r \in asked : Dropped(r)
  PROVE  UInv'
<1> USE DEF UInv, UTypeOK
<1>1. CASE Edit
  <2>1. /\ config # Absent /\ config' = [config EXCEPT !.own = edits + 1]
        /\ config' \in Configs /\ config'.token = config.token /\ config'.id = config.id
    BY <1>1 DEF Edit, Configs
  <2>2. config' # Absent /\ InFile' = InFile
    BY <2>1, SetUpAssumption DEF InFile
  <2>3. UTypeOK'
    BY <1>1, <2>1 DEF Edit
  <2>4. Agree' /\ HasId'
    BY <1>1, <2>1 DEF Edit, Agree, HasId, On
  <2>5. Kept'
    BY <1>1, <2>2 DEF Edit, Kept
  <2> QED
    BY <2>3, <2>4, <2>5
<1>2. ASSUME NEW r \in asked, Dropped(r)
      PROVE  UInv'
  BY <1>2 DEF Dropped, Agree, HasId, Kept, InFile
<1> QED
  BY <1>1, <1>2

LEMMA UInvariant == SetUpSpec => []UInv
<1>1. UInv /\ [SetUpNext]_svars => UInv'
  BY UStutter, UStart, UId, UAsks, UGivesUp, UTold, USaves, UEnds, URegisters, UOthers
  DEF SetUpNext, Step
<1> QED
  BY UInit, <1>1, PTL DEF SetUpSpec

\* The token of the device that holds the slot is in the file, in an observer
\* or on its way to one, unless it is known why not (SavesToken, Registers).
THEOREM TokensAreAccounted == SetUpSpec => []TokenIsAccounted
<1>1. UInv => TokenIsAccounted
  <2> SUFFICES ASSUME UInv, last # 0, last \notin gone
               PROVE  \/ config # Absent /\ config.token = last
                      \/ \E a \in Agents : last \in {cfg[a].token, answers[a]}
    BY DEF TokenIsAccounted
  <2>1. last # Absent
    BY SetUpAssumption DEF UInv, UTypeOK
  <2> QED
    BY <2>1 DEF UInv, Kept, InFile
<1> QED
  BY UInvariant, <1>1, PTL

\* A save takes neither the id nor foreign keys nor the token out of the file,
\* unless the observer did not see them (app_config.py:10).
THEOREM SavesTakeNothing == SetUpSpec => SavesKeep
<1>1. ASSUME UInv, SetUpNext, config # Absent, config' # config, edits' = edits
      PROVE  \/ config'.id = config.id /\ config'.own = config.own
                /\ (config.token # Absent => config'.token # Absent)
             \/ \E a \in blind : stage'[a] # stage[a]
  <2>1. ~Edit /\ \A r \in asked : ~Registers(r) /\ ~Dropped(r)
    BY <1>1 DEF Edit, Registers, Dropped, UInv, UTypeOK
  <2>2. \A a \in Agents : ~Ends(a) /\ \A i \in BOOLEAN : ~Start(a, i)
    BY <1>1 DEF Ends, Start
  <2>3. \A a \in Agents :
          ~HasToken(a) /\ ~Declines(a) /\ ~Asks(a) /\ ~GivesUp(a) /\ ~Told(a)
    BY <1>1 DEF HasToken, Declines, Asks, GivesUp, Told
  <2>4. PICK a \in Agents : ensure_local_id(a) \/ SavesToken(a)
    BY <1>1, <2>1, <2>2, <2>3 DEF SetUpNext, Step
  <2>5. stage'[a] # stage[a]
    BY <1>1, <2>4 DEF ensure_local_id, SavesToken, Goes, UInv, UTypeOK
  <2>6. CASE a \notin blind /\ ensure_local_id(a)
    BY <1>1, <2>6 DEF ensure_local_id, UInv, Agree, HasId
  <2>7. CASE a \notin blind /\ SavesToken(a)
    BY <1>1, <2>7 DEF SavesToken, Saved, NotSaved, UInv, Agree
  <2> QED
    BY <2>4, <2>5, <2>6, <2>7
<1>2. UInv /\ [SetUpNext]_svars =>
        [config # Absent /\ config' # config /\ edits' = edits =>
           \/ config'.id = config.id /\ config'.own = config.own
              /\ (config.token # Absent => config'.token # Absent)
           \/ \E a \in blind : stage'[a] # stage[a]]_svars
  BY <1>1
<1> QED
  BY UInvariant, <1>2, PTL DEF SetUpSpec, SavesKeep

==============================================================================
