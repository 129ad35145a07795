---------------------- MODULE DiscoveryRecorderProofs ----------------------
(***************************************************************************)
(* What the recorder of raw segments promises for every length of its      *)
(* queue, every budget and every batch of the writer, whatever fails and   *)
(* whoever closes the window, proved.                                      *)
(***************************************************************************)
EXTENDS DiscoveryRecorder, FiniteSetTheorems, TLAPS

RowKinds == {"start", "main", "aux", "label"}

RTypeOK ==
  /\ active \in BOOLEAN /\ ready \in BOOLEAN /\ stop \in BOOLEAN /\ exists \in BOOLEAN
  /\ window_open \in BOOLEAN /\ window \in BOOLEAN
  /\ segs \in Nat /\ aux_segs \in Nat /\ dropped \in Nat /\ aux_dropped \in Nat
  /\ q \in Seq(RowKinds \cup {"sentinel"})
  /\ file \in Seq(RowKinds \cup {"end"})
  /\ admitted \in Seq(RowKinds)
  /\ pending \in Nat
  /\ wpc \in {"none", "opening", "opened", "get", "empty", "broken", "failed", "terminal",
              "finally", "ended"}
  /\ mpc \in {"flow", "opening", "opened", "begun", "run", "expire", "take", "failed", "closing"}
  /\ cpc \in [Closers -> {"idle", "check", "claim", "snapshot", "signal", "join", "shut", "done"}]

\* Where the window of the main thread is not open yet.
Early == {"flow", "opening", "opened", "begun"}

\* Only a window that was begun is owned, and only an owned one is closed.
OwnedWasBegun ==
  /\ mpc = "flow" => wpc = "none"
  /\ mpc = "begun" => admitted # <<>>
  /\ window => mpc \notin Early /\ admitted # <<>>
  /\ \A c \in Closers : cpc[c] \in {"claim", "snapshot", "signal", "join", "shut"} =>
       mpc \notin Early /\ admitted # <<>>

\* Once its owner has read the counters or set the stop event, the gate is
\* shut for good and the counters stand.
ShutForGood ==
  /\ stop => mpc \notin Early /\ ~active
  /\ terminal # None => mpc \notin Early /\ admitted # <<>> /\ ~active /\ terminal = Counts
  /\ \A c \in Closers : cpc[c] \in {"signal", "join", "shut"} => ~active

\* A writer that takes no more rows was stopped, or has failed and shut the
\* gate itself; the gate opens only while nothing has failed.
NoRowsForTheEnd ==
  /\ wpc \in {"broken", "failed"} => errors # {}
  /\ wpc \in {"terminal", "finally", "ended"} => ~active /\ (stop \/ errors # {})

\* A file without rows is there only until the writer of a window that was
\* stopped before it began has ended.
EmptyFileGoes ==
  /\ wpc \in {"none", "opening", "failed"} => ~exists
  /\ wpc = "broken" => admitted # <<>>
  /\ wpc \in {"terminal", "finally"} /\ exists => stop \/ admitted # <<>>
  /\ wpc = "ended" /\ exists => "cleanup" \in errors \/ admitted # <<>>

ControlInv == OwnedWasBegun /\ ShutForGood /\ NoRowsForTheEnd /\ EmptyFileGoes

\* While the writer reads, the file and the queue hold what was admitted, in
\* its order; behind it are sentinels only, and none before the stop event.
Reading == wpc \in {"none", "opening", "opened", "get", "empty"}

QueueIsTheRest ==
  Reading =>
    /\ end = None
    /\ Len(file) <= Len(admitted) /\ Len(admitted) <= Len(file) + Len(q)
    /\ \A i \in 1..Len(q) :
         q[i] = IF Len(file) + i <= Len(admitted) THEN admitted[Len(file) + i] ELSE "sentinel"
    /\ ~stop => Len(admitted) = Len(file) + Len(q)
    /\ pending > 0 => file # <<>>

\* How many rows the file has.
RowCount == IF end = None THEN Len(file) ELSE Len(file) - 1

FileIsPrefix ==
  /\ RowCount <= Len(admitted)
  /\ \A i \in 1..RowCount : file[i] = admitted[i]
  /\ end # None =>
       /\ wpc \in {"finally", "ended"}
       /\ Len(file) > 0 /\ file[Len(file)] = "end"
       /\ mpc \notin Early /\ ~active /\ end.counts = Counts /\ end.written = RowCount

CountsAreTrue ==
  segs = CountOf("main", admitted) /\ aux_segs = CountOf("aux", admitted)

RInv == RTypeOK /\ ControlInv /\ QueueIsTheRest /\ FileIsPrefix /\ CountsAreTrue
-----------------------------------------------------------------------------

\* A row that is put keeps the queue and the history typed.
LEMMA AppendTyped ==
  ASSUME RTypeOK, NEW row \in RowKinds
  PROVE  /\ Append(q, row) \in Seq(RowKinds \cup {"sentinel"})
         /\ Append(admitted, row) \in Seq(RowKinds)
  BY DEF RTypeOK

\* Every step keeps the types.
LEMMA ProducersTypes ==
  ASSUME RTypeOK, Producers
  PROVE  RTypeOK'
<1> USE DEF flags, counters, signals, writer, agent, WriterGoes, MainGoes, MainCloses,
           CloserGoes, AutoStop, Fail, Put, Closers, RTypeOK, RowKinds
<1>1. CASE Segment
  <2>1. /\ q' = q /\ admitted' = admitted
        \/ \E row \in RowKinds : q' = Append(q, row) /\ admitted' = Append(admitted, row)
    BY <1>1 DEF Segment
  <2>2. segs' \in Nat /\ aux_segs' \in Nat /\ dropped' \in Nat /\ aux_dropped' \in Nat
    BY <1>1 DEF Segment
  <2>3. UNCHANGED <<flags, signals, writer, agent>>
    BY <1>1 DEF Segment
  <2>4. q' \in Seq(RowKinds \cup {"sentinel"}) /\ admitted' \in Seq(RowKinds)
    BY <2>1, AppendTyped
  <2> QED
    BY <2>2, <2>3, <2>4
<1>2. CASE AuxSegment
  <2>1. /\ q' = q /\ admitted' = admitted
        \/ \E row \in RowKinds : q' = Append(q, row) /\ admitted' = Append(admitted, row)
    BY <1>2 DEF AuxSegment
  <2>2. segs' \in Nat /\ aux_segs' \in Nat /\ dropped' \in Nat /\ aux_dropped' \in Nat
    BY <1>2 DEF AuxSegment
  <2>3. UNCHANGED <<flags, signals, writer, agent>>
    BY <1>2 DEF AuxSegment
  <2>4. q' \in Seq(RowKinds \cup {"sentinel"}) /\ admitted' \in Seq(RowKinds)
    BY <2>1, AppendTyped
  <2> QED
    BY <2>2, <2>3, <2>4
<1>3. CASE Label
  <2>1. /\ q' = q /\ admitted' = admitted
        \/ \E row \in RowKinds : q' = Append(q, row) /\ admitted' = Append(admitted, row)
    BY <1>3 DEF Label
  <2>2. segs' \in Nat /\ aux_segs' \in Nat /\ dropped' \in Nat /\ aux_dropped' \in Nat
    BY <1>3 DEF Label
  <2>3. UNCHANGED <<flags, signals, writer, agent>>
    BY <1>3 DEF Label
  <2>4. q' \in Seq(RowKinds \cup {"sentinel"}) /\ admitted' \in Seq(RowKinds)
    BY <2>1, AppendTyped
  <2> QED
    BY <2>2, <2>3, <2>4
<1>4. CASE \E late \in BOOLEAN : Beyond(late)
  <2>1. active' = FALSE /\ UNCHANGED <<window_open, q, counters, signals, writer, agent, admitted>>
    BY <1>4 DEF Beyond
  <2> QED
    BY <2>1
<1> QED
  BY <1>1, <1>2, <1>3, <1>4 DEF Producers

LEMMA WriterTypes ==
  ASSUME RTypeOK, Writer
  PROVE  RTypeOK'
<1> USE DEF flags, counters, signals, writer, agent, WriterGoes, MainGoes, MainCloses,
           CloserGoes, AutoStop, Fail, Put, Closers, RTypeOK, RowKinds
<1>1. CASE Open
  BY <1>1 DEF Open
<1>2. CASE OpenFails
  BY <1>2 DEF OpenFails
<1>3. CASE Opened
  BY <1>3 DEF Opened
<1>4. CASE WriteRow
  BY <1>4 DEF WriteRow
<1>5. CASE BatchFails
  BY <1>5 DEF BatchFails
<1>6. CASE WriteFails
  BY <1>6 DEF WriteFails
<1>7. CASE TakeSentinel
  BY <1>7 DEF TakeSentinel
<1>8. CASE TimesOut
  BY <1>8 DEF TimesOut
<1>9. CASE AfterTimeout
  BY <1>9 DEF AfterTimeout
<1>10. CASE FlushFails
  BY <1>10 DEF FlushFails
<1>11. CASE Report
  BY <1>11 DEF Report
<1>12. CASE WriteEnd
  BY <1>12 DEF WriteEnd
<1>13. CASE NoEnd
  BY <1>13 DEF NoEnd
<1>14. CASE WriterEnds
  BY <1>14 DEF WriterEnds
<1> QED
  BY <1>1, <1>2, <1>3, <1>4, <1>5, <1>6, <1>7, <1>8, <1>9, <1>10, <1>11, <1>12, <1>13, <1>14 DEF Writer

LEMMA OwnerTypes ==
  ASSUME RTypeOK, Owner
  PROVE  RTypeOK'
<1> USE DEF flags, counters, signals, writer, agent, WriterGoes, MainGoes, MainCloses,
           CloserGoes, AutoStop, Fail, Put, Closers, RTypeOK, RowKinds
<1>1. CASE BeginWindow
  BY <1>1 DEF BeginWindow
<1>2. CASE AwaitReady
  BY <1>2 DEF AwaitReady
<1>3. CASE Begun
  BY <1>3 DEF Begun
<1>4. CASE Teardown
  BY <1>4 DEF Teardown
<1>5. CASE OwnWindow
  BY <1>5 DEF OwnWindow
<1>6. CASE LookAtClock
  BY <1>6 DEF LookAtClock
<1>7. CASE ExpireWindow
  BY <1>7 DEF ExpireWindow
<1>8. CASE TakeReason
  BY <1>8 DEF TakeReason
<1> QED
  BY <1>1, <1>2, <1>3, <1>4, <1>5, <1>6, <1>7, <1>8 DEF Owner

LEMMA ClosingTypes ==
  ASSUME RTypeOK, NEW c \in Closers, Closing(c)
  PROVE  RTypeOK'
<1> USE DEF flags, counters, signals, writer, agent, WriterGoes, MainGoes, MainCloses,
           CloserGoes, AutoStop, Fail, Put, Closers, RTypeOK, RowKinds
<1>1. CASE CheckWindow(c)
  BY <1>1 DEF CheckWindow
<1>2. CASE ClaimWindow(c)
  BY <1>2 DEF ClaimWindow
<1>3. CASE Snapshot(c)
  <2>1. cpc' = [cpc EXCEPT ![c] = "signal"] \/ cpc' = [cpc EXCEPT ![c] = "done"]
    BY <1>3 DEF Snapshot
  <2>2. /\ active' \in BOOLEAN
        /\ UNCHANGED <<window_open, ready, stop, q, counters, writer, window, mpc, admitted>>
    BY <1>3 DEF Snapshot
  <2> QED
    BY <2>1, <2>2
<1>4. CASE SignalStop(c)
  BY <1>4 DEF SignalStop
<1>5. CASE JoinWriter(c)
  BY <1>5 DEF JoinWriter
<1>6. CASE ShutWindow(c)
  BY <1>6 DEF ShutWindow
<1>7. CASE Exit(c)
  BY <1>7 DEF Exit
<1> QED
  BY <1>1, <1>2, <1>3, <1>4, <1>5, <1>6, <1>7 DEF Closing

LEMMA TypesStep ==
  ASSUME RTypeOK, [RNext]_rvars
  PROVE  RTypeOK'
<1>1. CASE Producers
  BY <1>1, ProducersTypes
<1>2. CASE Writer
  BY <1>2, WriterTypes
<1>3. CASE Owner
  BY <1>3, OwnerTypes
<1>4. CASE \E c \in Closers : Closing(c)
  BY <1>4, ClosingTypes
<1> USE DEF flags, counters, signals, writer, agent, WriterGoes, MainGoes, MainCloses,
           CloserGoes, AutoStop, Fail, Put, Closers, RTypeOK, RowKinds
<1>5. CASE Leave
  BY <1>5 DEF Leave
<1>6. CASE ConsoleCloses
  BY <1>6 DEF ConsoleCloses
<1>7. CASE Expire
  BY <1>7 DEF Expire
<1>8. CASE UNCHANGED rvars
  BY <1>8 DEF rvars
<1> QED
  BY <1>1, <1>2, <1>3, <1>4, <1>5, <1>6, <1>7, <1>8 DEF RNext
-----------------------------------------------------------------------------
\* What the writer takes off the queue is the next row that was admitted, or
\* the sentinel of a window that was stopped.
LEMMA HeadOfQueue ==
  ASSUME RTypeOK, QueueIsTheRest, Reading, q # <<>>
  PROVE  /\ Head(q) # "sentinel" =>
              Len(file) < Len(admitted) /\ admitted # <<>> /\ Head(q) = admitted[Len(file) + 1]
         /\ Head(q) = "sentinel" => stop
<1>1. /\ q \in Seq(RowKinds \cup {"sentinel"}) /\ admitted \in Seq(RowKinds)
      /\ file \in Seq(RowKinds \cup {"end"})
  BY DEF RTypeOK
<1>2. Len(q) \in Nat /\ Len(q) > 0 /\ Head(q) = q[1] /\ Len(file) \in Nat /\ Len(admitted) \in Nat
  BY <1>1
<1>3. q[1] = IF Len(file) + 1 <= Len(admitted) THEN admitted[Len(file) + 1] ELSE "sentinel"
  BY <1>2 DEF QueueIsTheRest
<1>4. CASE Len(file) + 1 <= Len(admitted)
  <2>1. admitted[Len(file) + 1] \in RowKinds
    BY <1>1, <1>2, <1>4
  <2>2. Head(q) # "sentinel"
    BY <1>2, <1>3, <1>4, <2>1 DEF RowKinds
  <2> QED
    BY <1>1, <1>2, <1>3, <1>4, <2>2
<1>5. CASE ~(Len(file) + 1 <= Len(admitted))
  <2>1. Head(q) = "sentinel"
    BY <1>2, <1>3, <1>5
  <2>2. Len(admitted) # Len(file) + Len(q)
    BY <1>2, <1>5
  <2> QED
    BY <2>1, <2>2 DEF QueueIsTheRest
<1> QED
  BY <1>4, <1>5

\* A row that has not been flushed was admitted.
LEMMA PendingWasAdmitted ==
  ASSUME RTypeOK, QueueIsTheRest, Reading, pending > 0
  PROVE  admitted # <<>>
<1>1. file # <<>> /\ Len(file) <= Len(admitted)
  BY DEF QueueIsTheRest
<1>2. file \in Seq(RowKinds \cup {"end"}) /\ admitted \in Seq(RowKinds)
  BY DEF RTypeOK
<1> QED
  BY <1>1, <1>2



\* Only a window that was begun is owned.
LEMMA ProducersOwned ==
  ASSUME DOMAIN cpc = Closers, OwnedWasBegun, Producers
  PROVE  OwnedWasBegun'
<1> USE DEF flags, counters, signals, writer, agent, WriterGoes, MainGoes, MainCloses,
           CloserGoes, AutoStop, Fail, Put, Closers,
           OwnedWasBegun, Early
<1>1. CASE Segment
  BY <1>1 DEF Segment
<1>2. CASE AuxSegment
  BY <1>2 DEF AuxSegment
<1>3. CASE Label
  BY <1>3 DEF Label
<1>4. CASE \E late \in BOOLEAN : Beyond(late)
  BY <1>4 DEF Beyond
<1> QED
  BY <1>1, <1>2, <1>3, <1>4 DEF Producers

LEMMA WriterOwned ==
  ASSUME DOMAIN cpc = Closers, OwnedWasBegun, Writer
  PROVE  OwnedWasBegun'
<1> USE DEF flags, counters, signals, writer, agent, WriterGoes, MainGoes, MainCloses,
           CloserGoes, AutoStop, Fail, Put, Closers,
           OwnedWasBegun, Early
<1>1. CASE Open
  BY <1>1 DEF Open
<1>2. CASE OpenFails
  BY <1>2 DEF OpenFails
<1>3. CASE Opened
  BY <1>3 DEF Opened
<1>4. CASE WriteRow
  BY <1>4 DEF WriteRow
<1>5. CASE BatchFails
  BY <1>5 DEF BatchFails
<1>6. CASE WriteFails
  BY <1>6 DEF WriteFails
<1>7. CASE TakeSentinel
  BY <1>7 DEF TakeSentinel
<1>8. CASE TimesOut
  BY <1>8 DEF TimesOut
<1>9. CASE AfterTimeout
  BY <1>9 DEF AfterTimeout
<1>10. CASE FlushFails
  BY <1>10 DEF FlushFails
<1>11. CASE Report
  BY <1>11 DEF Report
<1>12. CASE WriteEnd
  BY <1>12 DEF WriteEnd
<1>13. CASE NoEnd
  BY <1>13 DEF NoEnd
<1>14. CASE WriterEnds
  BY <1>14 DEF WriterEnds
<1> QED
  BY <1>1, <1>2, <1>3, <1>4, <1>5, <1>6, <1>7, <1>8, <1>9, <1>10, <1>11, <1>12, <1>13, <1>14 DEF Writer

LEMMA OwnerOwned ==
  ASSUME DOMAIN cpc = Closers, OwnedWasBegun, Owner
  PROVE  OwnedWasBegun'
<1> USE DEF flags, counters, signals, writer, agent, WriterGoes, MainGoes, MainCloses,
           CloserGoes, AutoStop, Fail, Put, Closers,
           OwnedWasBegun, Early
<1>1. CASE BeginWindow
  BY <1>1 DEF BeginWindow
<1>2. CASE AwaitReady
  BY <1>2 DEF AwaitReady
<1>3. CASE Begun
  BY <1>3 DEF Begun
<1>4. CASE Teardown
  BY <1>4 DEF Teardown
<1>5. CASE OwnWindow
  BY <1>5 DEF OwnWindow
<1>6. CASE LookAtClock
  BY <1>6 DEF LookAtClock
<1>7. CASE ExpireWindow
  BY <1>7 DEF ExpireWindow
<1>8. CASE TakeReason
  BY <1>8 DEF TakeReason
<1> QED
  BY <1>1, <1>2, <1>3, <1>4, <1>5, <1>6, <1>7, <1>8 DEF Owner

LEMMA ClosingOwned ==
  ASSUME DOMAIN cpc = Closers, OwnedWasBegun, NEW c \in Closers, Closing(c)
  PROVE  OwnedWasBegun'
<1> USE DEF flags, counters, signals, writer, agent, WriterGoes, MainGoes, MainCloses,
           CloserGoes, AutoStop, Fail, Put, Closers,
           OwnedWasBegun, Early
<1>1. CASE CheckWindow(c)
  BY <1>1 DEF CheckWindow
<1>2. CASE ClaimWindow(c)
  BY <1>2 DEF ClaimWindow
<1>3. CASE Snapshot(c)
  BY <1>3 DEF Snapshot
<1>4. CASE SignalStop(c)
  BY <1>4 DEF SignalStop
<1>5. CASE JoinWriter(c)
  BY <1>5 DEF JoinWriter
<1>6. CASE ShutWindow(c)
  BY <1>6 DEF ShutWindow
<1>7. CASE Exit(c)
  BY <1>7 DEF Exit
<1> QED
  BY <1>1, <1>2, <1>3, <1>4, <1>5, <1>6, <1>7 DEF Closing

LEMMA OwnedStep ==
  ASSUME DOMAIN cpc = Closers, OwnedWasBegun, [RNext]_rvars
  PROVE  OwnedWasBegun'
<1>1. CASE Producers
  BY <1>1, ProducersOwned
<1>2. CASE Writer
  BY <1>2, WriterOwned
<1>3. CASE Owner
  BY <1>3, OwnerOwned
<1>4. CASE \E c \in Closers : Closing(c)
  BY <1>4, ClosingOwned
<1> USE DEF flags, counters, signals, writer, agent, WriterGoes, MainGoes, MainCloses,
           CloserGoes, AutoStop, Fail, Put, Closers,
           OwnedWasBegun, Early
<1>5. CASE Leave
  BY <1>5 DEF Leave
<1>6. CASE ConsoleCloses
  BY <1>6 DEF ConsoleCloses
<1>7. CASE Expire
  BY <1>7 DEF Expire
<1>8. CASE UNCHANGED rvars
  BY <1>8 DEF rvars
<1> QED
  BY <1>1, <1>2, <1>3, <1>4, <1>5, <1>6, <1>7, <1>8 DEF RNext


\* The gate stays shut and the counters stand.
LEMMA ProducersShut ==
  ASSUME DOMAIN cpc = Closers, ShutForGood, OwnedWasBegun, Producers
  PROVE  ShutForGood'
<1> USE DEF flags, counters, signals, writer, agent, WriterGoes, MainGoes, MainCloses,
           CloserGoes, AutoStop, Fail, Put, Closers,
           ShutForGood, OwnedWasBegun, Early, Counts
<1>1. CASE Segment
  BY <1>1 DEF Segment
<1>2. CASE AuxSegment
  BY <1>2 DEF AuxSegment
<1>3. CASE Label
  BY <1>3 DEF Label
<1>4. CASE \E late \in BOOLEAN : Beyond(late)
  BY <1>4 DEF Beyond
<1> QED
  BY <1>1, <1>2, <1>3, <1>4 DEF Producers

LEMMA WriterShut ==
  ASSUME DOMAIN cpc = Closers, ShutForGood, OwnedWasBegun, Writer
  PROVE  ShutForGood'
<1> USE DEF flags, counters, signals, writer, agent, WriterGoes, MainGoes, MainCloses,
           CloserGoes, AutoStop, Fail, Put, Closers,
           ShutForGood, OwnedWasBegun, Early, Counts
<1>1. CASE Open
  BY <1>1 DEF Open
<1>2. CASE OpenFails
  BY <1>2 DEF OpenFails
<1>3. CASE Opened
  BY <1>3 DEF Opened
<1>4. CASE WriteRow
  BY <1>4 DEF WriteRow
<1>5. CASE BatchFails
  BY <1>5 DEF BatchFails
<1>6. CASE WriteFails
  BY <1>6 DEF WriteFails
<1>7. CASE TakeSentinel
  BY <1>7 DEF TakeSentinel
<1>8. CASE TimesOut
  BY <1>8 DEF TimesOut
<1>9. CASE AfterTimeout
  BY <1>9 DEF AfterTimeout
<1>10. CASE FlushFails
  BY <1>10 DEF FlushFails
<1>11. CASE Report
  BY <1>11 DEF Report
<1>12. CASE WriteEnd
  BY <1>12 DEF WriteEnd
<1>13. CASE NoEnd
  BY <1>13 DEF NoEnd
<1>14. CASE WriterEnds
  BY <1>14 DEF WriterEnds
<1> QED
  BY <1>1, <1>2, <1>3, <1>4, <1>5, <1>6, <1>7, <1>8, <1>9, <1>10, <1>11, <1>12, <1>13, <1>14 DEF Writer

LEMMA OwnerShut ==
  ASSUME DOMAIN cpc = Closers, ShutForGood, OwnedWasBegun, Owner
  PROVE  ShutForGood'
<1> USE DEF flags, counters, signals, writer, agent, WriterGoes, MainGoes, MainCloses,
           CloserGoes, AutoStop, Fail, Put, Closers,
           ShutForGood, OwnedWasBegun, Early, Counts
<1>1. CASE BeginWindow
  BY <1>1 DEF BeginWindow
<1>2. CASE AwaitReady
  BY <1>2 DEF AwaitReady
<1>3. CASE Begun
  BY <1>3 DEF Begun
<1>4. CASE Teardown
  BY <1>4 DEF Teardown
<1>5. CASE OwnWindow
  BY <1>5 DEF OwnWindow
<1>6. CASE LookAtClock
  BY <1>6 DEF LookAtClock
<1>7. CASE ExpireWindow
  BY <1>7 DEF ExpireWindow
<1>8. CASE TakeReason
  BY <1>8 DEF TakeReason
<1> QED
  BY <1>1, <1>2, <1>3, <1>4, <1>5, <1>6, <1>7, <1>8 DEF Owner

LEMMA ClosingShut ==
  ASSUME DOMAIN cpc = Closers, ShutForGood, OwnedWasBegun, NEW c \in Closers, Closing(c)
  PROVE  ShutForGood'
<1> USE DEF flags, counters, signals, writer, agent, WriterGoes, MainGoes, MainCloses,
           CloserGoes, AutoStop, Fail, Put, Closers,
           ShutForGood, OwnedWasBegun, Early, Counts
<1>1. CASE CheckWindow(c)
  BY <1>1 DEF CheckWindow
<1>2. CASE ClaimWindow(c)
  BY <1>2 DEF ClaimWindow
<1>3. CASE Snapshot(c)
  BY <1>3 DEF Snapshot
<1>4. CASE SignalStop(c)
  BY <1>4 DEF SignalStop
<1>5. CASE JoinWriter(c)
  BY <1>5 DEF JoinWriter
<1>6. CASE ShutWindow(c)
  BY <1>6 DEF ShutWindow
<1>7. CASE Exit(c)
  BY <1>7 DEF Exit
<1> QED
  BY <1>1, <1>2, <1>3, <1>4, <1>5, <1>6, <1>7 DEF Closing

LEMMA ShutStep ==
  ASSUME DOMAIN cpc = Closers, ShutForGood, OwnedWasBegun, [RNext]_rvars
  PROVE  ShutForGood'
<1>1. CASE Producers
  BY <1>1, ProducersShut
<1>2. CASE Writer
  BY <1>2, WriterShut
<1>3. CASE Owner
  BY <1>3, OwnerShut
<1>4. CASE \E c \in Closers : Closing(c)
  BY <1>4, ClosingShut
<1> USE DEF flags, counters, signals, writer, agent, WriterGoes, MainGoes, MainCloses,
           CloserGoes, AutoStop, Fail, Put, Closers,
           ShutForGood, OwnedWasBegun, Early, Counts
<1>5. CASE Leave
  BY <1>5 DEF Leave
<1>6. CASE ConsoleCloses
  BY <1>6 DEF ConsoleCloses
<1>7. CASE Expire
  BY <1>7 DEF Expire
<1>8. CASE UNCHANGED rvars
  BY <1>8 DEF rvars
<1> QED
  BY <1>1, <1>2, <1>3, <1>4, <1>5, <1>6, <1>7, <1>8 DEF RNext


\* The writer reaches its end with the gate shut.
LEMMA ProducersOutlived ==
  ASSUME DOMAIN cpc = Closers, NoRowsForTheEnd, ShutForGood, RTypeOK, QueueIsTheRest, Producers
  PROVE  NoRowsForTheEnd'
<1> USE DEF flags, counters, signals, writer, agent, WriterGoes, MainGoes, MainCloses,
           CloserGoes, AutoStop, Fail, Put, Closers,
           NoRowsForTheEnd, ShutForGood, Early
<1>1. CASE Segment
  BY <1>1 DEF Segment
<1>2. CASE AuxSegment
  BY <1>2 DEF AuxSegment
<1>3. CASE Label
  BY <1>3 DEF Label
<1>4. CASE \E late \in BOOLEAN : Beyond(late)
  BY <1>4 DEF Beyond
<1> QED
  BY <1>1, <1>2, <1>3, <1>4 DEF Producers

LEMMA WriterOutlived ==
  ASSUME DOMAIN cpc = Closers, NoRowsForTheEnd, ShutForGood, RTypeOK, QueueIsTheRest, Writer
  PROVE  NoRowsForTheEnd'
<1> USE DEF flags, counters, signals, writer, agent, WriterGoes, MainGoes, MainCloses,
           CloserGoes, AutoStop, Fail, Put, Closers,
           NoRowsForTheEnd, ShutForGood, Early
<1>1. CASE Open
  BY <1>1 DEF Open
<1>2. CASE OpenFails
  BY <1>2 DEF OpenFails
<1>3. CASE Opened
  BY <1>3 DEF Opened
<1>4. CASE WriteRow
  BY <1>4 DEF WriteRow
<1>5. CASE BatchFails
  BY <1>5 DEF BatchFails
<1>6. CASE WriteFails
  BY <1>6 DEF WriteFails
<1>7. CASE TakeSentinel
  BY <1>7, HeadOfQueue DEF TakeSentinel, Reading
<1>8. CASE TimesOut
  BY <1>8 DEF TimesOut
<1>9. CASE AfterTimeout
  BY <1>9 DEF AfterTimeout
<1>10. CASE FlushFails
  BY <1>10 DEF FlushFails
<1>11. CASE Report
  BY <1>11 DEF Report
<1>12. CASE WriteEnd
  BY <1>12 DEF WriteEnd
<1>13. CASE NoEnd
  BY <1>13 DEF NoEnd
<1>14. CASE WriterEnds
  BY <1>14 DEF WriterEnds
<1> QED
  BY <1>1, <1>2, <1>3, <1>4, <1>5, <1>6, <1>7, <1>8, <1>9, <1>10, <1>11, <1>12, <1>13, <1>14 DEF Writer

LEMMA OwnerOutlived ==
  ASSUME DOMAIN cpc = Closers, NoRowsForTheEnd, ShutForGood, RTypeOK, QueueIsTheRest, Owner
  PROVE  NoRowsForTheEnd'
<1> USE DEF flags, counters, signals, writer, agent, WriterGoes, MainGoes, MainCloses,
           CloserGoes, AutoStop, Fail, Put, Closers,
           NoRowsForTheEnd, ShutForGood, Early
<1>1. CASE BeginWindow
  BY <1>1 DEF BeginWindow
<1>2. CASE AwaitReady
  BY <1>2 DEF AwaitReady
<1>3. CASE Begun
  BY <1>3 DEF Begun
<1>4. CASE Teardown
  BY <1>4 DEF Teardown
<1>5. CASE OwnWindow
  BY <1>5 DEF OwnWindow
<1>6. CASE LookAtClock
  BY <1>6 DEF LookAtClock
<1>7. CASE ExpireWindow
  BY <1>7 DEF ExpireWindow
<1>8. CASE TakeReason
  BY <1>8 DEF TakeReason
<1> QED
  BY <1>1, <1>2, <1>3, <1>4, <1>5, <1>6, <1>7, <1>8 DEF Owner

LEMMA ClosingOutlived ==
  ASSUME DOMAIN cpc = Closers, NoRowsForTheEnd, ShutForGood, RTypeOK, QueueIsTheRest, NEW c \in Closers, Closing(c)
  PROVE  NoRowsForTheEnd'
<1> USE DEF flags, counters, signals, writer, agent, WriterGoes, MainGoes, MainCloses,
           CloserGoes, AutoStop, Fail, Put, Closers,
           NoRowsForTheEnd, ShutForGood, Early
<1>1. CASE CheckWindow(c)
  BY <1>1 DEF CheckWindow
<1>2. CASE ClaimWindow(c)
  BY <1>2 DEF ClaimWindow
<1>3. CASE Snapshot(c)
  BY <1>3 DEF Snapshot
<1>4. CASE SignalStop(c)
  BY <1>4 DEF SignalStop
<1>5. CASE JoinWriter(c)
  BY <1>5 DEF JoinWriter
<1>6. CASE ShutWindow(c)
  BY <1>6 DEF ShutWindow
<1>7. CASE Exit(c)
  BY <1>7 DEF Exit
<1> QED
  BY <1>1, <1>2, <1>3, <1>4, <1>5, <1>6, <1>7 DEF Closing

LEMMA OutlivedStep ==
  ASSUME DOMAIN cpc = Closers, NoRowsForTheEnd, ShutForGood, RTypeOK, QueueIsTheRest, [RNext]_rvars
  PROVE  NoRowsForTheEnd'
<1>1. CASE Producers
  BY <1>1, ProducersOutlived
<1>2. CASE Writer
  BY <1>2, WriterOutlived
<1>3. CASE Owner
  BY <1>3, OwnerOutlived
<1>4. CASE \E c \in Closers : Closing(c)
  BY <1>4, ClosingOutlived
<1> USE DEF flags, counters, signals, writer, agent, WriterGoes, MainGoes, MainCloses,
           CloserGoes, AutoStop, Fail, Put, Closers,
           NoRowsForTheEnd, ShutForGood, Early
<1>5. CASE Leave
  BY <1>5 DEF Leave
<1>6. CASE ConsoleCloses
  BY <1>6 DEF ConsoleCloses
<1>7. CASE Expire
  BY <1>7 DEF Expire
<1>8. CASE UNCHANGED rvars
  BY <1>8 DEF rvars
<1> QED
  BY <1>1, <1>2, <1>3, <1>4, <1>5, <1>6, <1>7, <1>8 DEF RNext


\* A file without rows is accounted for.
LEMMA ProducersEmpty ==
  ASSUME DOMAIN cpc = Closers, EmptyFileGoes, ShutForGood, OwnedWasBegun, RTypeOK, QueueIsTheRest, Producers
  PROVE  EmptyFileGoes'
<1> USE DEF flags, counters, signals, writer, agent, WriterGoes, MainGoes, MainCloses,
           CloserGoes, AutoStop, Fail, Put, Closers,
           EmptyFileGoes, ShutForGood, OwnedWasBegun, Early
<1>1. CASE Segment
  BY <1>1 DEF Segment
<1>2. CASE AuxSegment
  BY <1>2 DEF AuxSegment
<1>3. CASE Label
  BY <1>3 DEF Label
<1>4. CASE \E late \in BOOLEAN : Beyond(late)
  BY <1>4 DEF Beyond
<1> QED
  BY <1>1, <1>2, <1>3, <1>4 DEF Producers

LEMMA WriterEmpty ==
  ASSUME DOMAIN cpc = Closers, EmptyFileGoes, ShutForGood, OwnedWasBegun, RTypeOK, QueueIsTheRest, Writer
  PROVE  EmptyFileGoes'
<1> USE DEF flags, counters, signals, writer, agent, WriterGoes, MainGoes, MainCloses,
           CloserGoes, AutoStop, Fail, Put, Closers,
           EmptyFileGoes, ShutForGood, OwnedWasBegun, Early
<1>1. CASE Open
  BY <1>1 DEF Open
<1>2. CASE OpenFails
  BY <1>2 DEF OpenFails
<1>3. CASE Opened
  BY <1>3 DEF Opened
<1>4. CASE WriteRow
  BY <1>4 DEF WriteRow
<1>5. CASE BatchFails
  BY <1>5, HeadOfQueue DEF BatchFails, Reading
<1>6. CASE WriteFails
  BY <1>6, HeadOfQueue DEF WriteFails, Reading
<1>7. CASE TakeSentinel
  BY <1>7, HeadOfQueue DEF TakeSentinel, Reading
<1>8. CASE TimesOut
  BY <1>8 DEF TimesOut
<1>9. CASE AfterTimeout
  BY <1>9 DEF AfterTimeout
<1>10. CASE FlushFails
  BY <1>10, PendingWasAdmitted DEF FlushFails, Reading
<1>11. CASE Report
  BY <1>11 DEF Report
<1>12. CASE WriteEnd
  BY <1>12 DEF WriteEnd
<1>13. CASE NoEnd
  BY <1>13 DEF NoEnd
<1>14. CASE WriterEnds
  BY <1>14 DEF WriterEnds, Cancelled
<1> QED
  BY <1>1, <1>2, <1>3, <1>4, <1>5, <1>6, <1>7, <1>8, <1>9, <1>10, <1>11, <1>12, <1>13, <1>14 DEF Writer

LEMMA OwnerEmpty ==
  ASSUME DOMAIN cpc = Closers, EmptyFileGoes, ShutForGood, OwnedWasBegun, RTypeOK, QueueIsTheRest, Owner
  PROVE  EmptyFileGoes'
<1> USE DEF flags, counters, signals, writer, agent, WriterGoes, MainGoes, MainCloses,
           CloserGoes, AutoStop, Fail, Put, Closers,
           EmptyFileGoes, ShutForGood, OwnedWasBegun, Early
<1>1. CASE BeginWindow
  BY <1>1 DEF BeginWindow
<1>2. CASE AwaitReady
  BY <1>2 DEF AwaitReady
<1>3. CASE Begun
  BY <1>3 DEF Begun
<1>4. CASE Teardown
  BY <1>4 DEF Teardown
<1>5. CASE OwnWindow
  BY <1>5 DEF OwnWindow
<1>6. CASE LookAtClock
  BY <1>6 DEF LookAtClock
<1>7. CASE ExpireWindow
  BY <1>7 DEF ExpireWindow
<1>8. CASE TakeReason
  BY <1>8 DEF TakeReason
<1> QED
  BY <1>1, <1>2, <1>3, <1>4, <1>5, <1>6, <1>7, <1>8 DEF Owner

LEMMA ClosingEmpty ==
  ASSUME DOMAIN cpc = Closers, EmptyFileGoes, ShutForGood, OwnedWasBegun, RTypeOK, QueueIsTheRest, NEW c \in Closers, Closing(c)
  PROVE  EmptyFileGoes'
<1> USE DEF flags, counters, signals, writer, agent, WriterGoes, MainGoes, MainCloses,
           CloserGoes, AutoStop, Fail, Put, Closers,
           EmptyFileGoes, ShutForGood, OwnedWasBegun, Early
<1>1. CASE CheckWindow(c)
  BY <1>1 DEF CheckWindow
<1>2. CASE ClaimWindow(c)
  BY <1>2 DEF ClaimWindow
<1>3. CASE Snapshot(c)
  BY <1>3 DEF Snapshot
<1>4. CASE SignalStop(c)
  BY <1>4 DEF SignalStop
<1>5. CASE JoinWriter(c)
  BY <1>5 DEF JoinWriter
<1>6. CASE ShutWindow(c)
  BY <1>6 DEF ShutWindow
<1>7. CASE Exit(c)
  BY <1>7 DEF Exit
<1> QED
  BY <1>1, <1>2, <1>3, <1>4, <1>5, <1>6, <1>7 DEF Closing

LEMMA EmptyStep ==
  ASSUME DOMAIN cpc = Closers, EmptyFileGoes, ShutForGood, OwnedWasBegun, RTypeOK, QueueIsTheRest, [RNext]_rvars
  PROVE  EmptyFileGoes'
<1>1. CASE Producers
  BY <1>1, ProducersEmpty
<1>2. CASE Writer
  BY <1>2, WriterEmpty
<1>3. CASE Owner
  BY <1>3, OwnerEmpty
<1>4. CASE \E c \in Closers : Closing(c)
  BY <1>4, ClosingEmpty
<1> USE DEF flags, counters, signals, writer, agent, WriterGoes, MainGoes, MainCloses,
           CloserGoes, AutoStop, Fail, Put, Closers,
           EmptyFileGoes, ShutForGood, OwnedWasBegun, Early
<1>5. CASE Leave
  BY <1>5 DEF Leave
<1>6. CASE ConsoleCloses
  BY <1>6 DEF ConsoleCloses
<1>7. CASE Expire
  BY <1>7 DEF Expire
<1>8. CASE UNCHANGED rvars
  BY <1>8 DEF rvars
<1> QED
  BY <1>1, <1>2, <1>3, <1>4, <1>5, <1>6, <1>7, <1>8 DEF RNext

-----------------------------------------------------------------------------
(* The queue and the file.                                                 *)

\* A step that leaves the rows alone.
LEMMA RestStays ==
  ASSUME QueueIsTheRest, Reading' => Reading, UNCHANGED <<q, file, end, admitted>>,
         stop => stop', pending' \in {0, pending}
  PROVE  QueueIsTheRest'
  BY DEF QueueIsTheRest

\* A row is put into the queue while nobody has set the stop event.
LEMMA RestPut ==
  ASSUME RTypeOK, QueueIsTheRest, ~stop, NEW row \in RowKinds, Put(row),
         UNCHANGED <<wpc, file, end, pending, stop>>
  PROVE  QueueIsTheRest'
<1> SUFFICES ASSUME Reading PROVE QueueIsTheRest'
  BY DEF QueueIsTheRest, Reading
<1>1. /\ q \in Seq(RowKinds \cup {"sentinel"}) /\ admitted \in Seq(RowKinds)
      /\ file \in Seq(RowKinds \cup {"end"})
  BY DEF RTypeOK
<1>2. /\ Len(q) \in Nat /\ Len(file) \in Nat /\ Len(admitted) \in Nat
      /\ Len(q') = Len(q) + 1 /\ Len(admitted') = Len(admitted) + 1
      /\ \A i \in 1..Len(q) : q'[i] = q[i]
      /\ \A i \in 1..Len(admitted) : admitted'[i] = admitted[i]
      /\ q'[Len(q) + 1] = row /\ admitted'[Len(admitted) + 1] = row
  BY <1>1 DEF Put
<1>3. Len(admitted) = Len(file) + Len(q) /\ end = None /\ (pending > 0 => file # <<>>)
  BY DEF QueueIsTheRest
<1>4. ASSUME NEW i \in 1..Len(q')
      PROVE  Len(file) + i <= Len(admitted') /\ q'[i] = admitted'[Len(file) + i]
  <2>1. CASE i \in 1..Len(q)
    <3>1. q[i] = admitted[Len(file) + i] /\ Len(file) + i \in 1..Len(admitted)
      BY <1>2, <1>3, <2>1 DEF QueueIsTheRest
    <3> QED
      BY <1>2, <2>1, <3>1
  <2>2. CASE i = Len(q) + 1
    <3>1. Len(file) + i = Len(admitted) + 1
      BY <1>2, <1>3, <2>2
    <3> QED
      BY <1>2, <2>2, <3>1
  <2> QED
    BY <1>2, <2>1, <2>2
<1>5. Len(file) <= Len(admitted') /\ Len(admitted') = Len(file) + Len(q')
  BY <1>2, <1>3
<1> QED
  BY <1>2, <1>3, <1>4, <1>5 DEF QueueIsTheRest

\* The sentinel is put behind the rows.
LEMMA RestSignalled ==
  ASSUME RTypeOK, QueueIsTheRest, stop', q' = Append(q, "sentinel"),
         UNCHANGED <<wpc, file, end, pending, admitted>>
  PROVE  QueueIsTheRest'
<1> SUFFICES ASSUME Reading PROVE QueueIsTheRest'
  BY DEF QueueIsTheRest, Reading
<1>1. /\ q \in Seq(RowKinds \cup {"sentinel"}) /\ admitted \in Seq(RowKinds)
      /\ file \in Seq(RowKinds \cup {"end"})
  BY DEF RTypeOK
<1>2. /\ Len(q) \in Nat /\ Len(file) \in Nat /\ Len(admitted) \in Nat
      /\ Len(q') = Len(q) + 1
      /\ \A i \in 1..Len(q) : q'[i] = q[i]
      /\ q'[Len(q) + 1] = "sentinel"
  BY <1>1
<1>3. Len(file) <= Len(admitted) /\ Len(admitted) <= Len(file) + Len(q')
  BY <1>2 DEF QueueIsTheRest
<1>4. ASSUME NEW i \in 1..Len(q')
      PROVE  q'[i] = IF Len(file) + i <= Len(admitted) THEN admitted[Len(file) + i] ELSE "sentinel"
  <2>1. CASE i \in 1..Len(q)
    BY <1>2, <2>1 DEF QueueIsTheRest
  <2>2. CASE i = Len(q) + 1
    <3>1. ~(Len(file) + i <= Len(admitted))
      BY <1>2, <2>2 DEF QueueIsTheRest
    <3> QED
      BY <1>2, <2>2, <3>1
  <2> QED
    BY <1>2, <2>1, <2>2
<1> QED
  BY <1>3, <1>4 DEF QueueIsTheRest

\* The writer moves the first row from the queue to the file.
LEMMA RestWritten ==
  ASSUME RTypeOK, QueueIsTheRest, Reading, q # <<>>, Head(q) # "sentinel",
         q' = Tail(q), file' = Append(file, Head(q)), UNCHANGED <<end, stop, admitted>>
  PROVE  QueueIsTheRest'
<1>1. /\ q \in Seq(RowKinds \cup {"sentinel"}) /\ admitted \in Seq(RowKinds)
      /\ file \in Seq(RowKinds \cup {"end"})
  BY DEF RTypeOK
<1>2. /\ Len(q) \in Nat /\ Len(q) > 0 /\ Len(file) \in Nat /\ Len(admitted) \in Nat
      /\ Len(q') = Len(q) - 1 /\ Len(file') = Len(file) + 1
      /\ \A i \in 1..Len(q') : q'[i] = q[i + 1]
  BY <1>1
<1>3. file' # <<>>
  BY <1>1, <1>2
<1>4. Len(file') <= Len(admitted) /\ Len(admitted) <= Len(file') + Len(q')
  BY <1>2, HeadOfQueue DEF QueueIsTheRest
<1>5. ASSUME NEW i \in 1..Len(q')
      PROVE  q'[i] = IF Len(file') + i <= Len(admitted) THEN admitted[Len(file') + i]
                                                        ELSE "sentinel"
  <2>1. i + 1 \in 1..Len(q) /\ Len(file) + (i + 1) = Len(file') + i
    BY <1>2
  <2> QED
    BY <1>2, <2>1 DEF QueueIsTheRest
<1>6. ~stop => Len(admitted) = Len(file') + Len(q')
  <2>1. ~stop => Len(admitted) = Len(file) + Len(q)
    BY DEF QueueIsTheRest
  <2> QED
    BY <1>2, <2>1
<1> QED
  BY <1>3, <1>4, <1>5, <1>6 DEF QueueIsTheRest


\* What was admitted is in the file and in the queue.
LEMMA ProducersRest ==
  ASSUME RTypeOK, OwnedWasBegun, ShutForGood, QueueIsTheRest, Producers
  PROVE  QueueIsTheRest'
<1> USE DEF flags, counters, signals, writer, agent, WriterGoes, MainGoes, MainCloses,
           CloserGoes, AutoStop, Fail, Put, Closers, Reading
<1>1. CASE Segment
  BY <1>1, RestStays, RestPut DEF Segment, RowKinds, ShutForGood, Early
<1>2. CASE AuxSegment
  BY <1>2, RestStays, RestPut DEF AuxSegment, RowKinds, ShutForGood, Early
<1>3. CASE Label
  BY <1>3, RestStays, RestPut DEF Label, RowKinds, ShutForGood, Early
<1>4. CASE \E late \in BOOLEAN : Beyond(late)
  BY <1>4, RestStays DEF Beyond
<1> QED
  BY <1>1, <1>2, <1>3, <1>4 DEF Producers

LEMMA WriterRest ==
  ASSUME RTypeOK, OwnedWasBegun, ShutForGood, QueueIsTheRest, Writer
  PROVE  QueueIsTheRest'
<1> USE DEF flags, counters, signals, writer, agent, WriterGoes, MainGoes, MainCloses,
           CloserGoes, AutoStop, Fail, Put, Closers, Reading
<1>1. CASE Open
  BY <1>1, RestStays DEF Open
<1>2. CASE OpenFails
  BY <1>2, RestStays DEF OpenFails
<1>3. CASE Opened
  BY <1>3, RestStays DEF Opened
<1>4. CASE WriteRow
  BY <1>4, RestWritten DEF WriteRow
<1>5. CASE BatchFails
  BY <1>5 DEF BatchFails, QueueIsTheRest
<1>6. CASE WriteFails
  BY <1>6 DEF WriteFails, QueueIsTheRest
<1>7. CASE TakeSentinel
  BY <1>7 DEF TakeSentinel, QueueIsTheRest
<1>8. CASE TimesOut
  BY <1>8, RestStays DEF TimesOut
<1>9. CASE AfterTimeout
  BY <1>9, RestStays DEF AfterTimeout
<1>10. CASE FlushFails
  BY <1>10, RestStays DEF FlushFails
<1>11. CASE Report
  BY <1>11 DEF Report, QueueIsTheRest
<1>12. CASE WriteEnd
  BY <1>12 DEF WriteEnd, QueueIsTheRest
<1>13. CASE NoEnd
  BY <1>13, RestStays DEF NoEnd
<1>14. CASE WriterEnds
  BY <1>14, RestStays DEF WriterEnds
<1> QED
  BY <1>1, <1>2, <1>3, <1>4, <1>5, <1>6, <1>7, <1>8, <1>9, <1>10, <1>11, <1>12, <1>13, <1>14 DEF Writer

LEMMA OwnerRest ==
  ASSUME RTypeOK, OwnedWasBegun, ShutForGood, QueueIsTheRest, Owner
  PROVE  QueueIsTheRest'
<1> USE DEF flags, counters, signals, writer, agent, WriterGoes, MainGoes, MainCloses,
           CloserGoes, AutoStop, Fail, Put, Closers, Reading
<1>1. CASE BeginWindow
  BY <1>1, RestStays DEF BeginWindow, OwnedWasBegun
<1>2. CASE AwaitReady
  BY <1>2, RestStays DEF AwaitReady
<1>3. CASE Begun
  BY <1>3, RestStays, RestPut DEF Begun, RowKinds, ShutForGood, Early
<1>4. CASE Teardown
  BY <1>4, RestStays DEF Teardown
<1>5. CASE OwnWindow
  BY <1>5, RestStays DEF OwnWindow
<1>6. CASE LookAtClock
  BY <1>6, RestStays DEF LookAtClock
<1>7. CASE ExpireWindow
  BY <1>7, RestStays DEF ExpireWindow
<1>8. CASE TakeReason
  BY <1>8, RestStays DEF TakeReason
<1> QED
  BY <1>1, <1>2, <1>3, <1>4, <1>5, <1>6, <1>7, <1>8 DEF Owner

LEMMA ClosingRest ==
  ASSUME RTypeOK, OwnedWasBegun, ShutForGood, QueueIsTheRest, NEW c \in Closers, Closing(c)
  PROVE  QueueIsTheRest'
<1> USE DEF flags, counters, signals, writer, agent, WriterGoes, MainGoes, MainCloses,
           CloserGoes, AutoStop, Fail, Put, Closers, Reading
<1>1. CASE CheckWindow(c)
  BY <1>1, RestStays DEF CheckWindow
<1>2. CASE ClaimWindow(c)
  BY <1>2, RestStays DEF ClaimWindow
<1>3. CASE Snapshot(c)
  BY <1>3, RestStays DEF Snapshot
<1>4. CASE SignalStop(c)
  BY <1>4, RestStays, RestSignalled DEF SignalStop
<1>5. CASE JoinWriter(c)
  BY <1>5, RestStays DEF JoinWriter
<1>6. CASE ShutWindow(c)
  BY <1>6, RestStays DEF ShutWindow
<1>7. CASE Exit(c)
  BY <1>7, RestStays DEF Exit
<1> QED
  BY <1>1, <1>2, <1>3, <1>4, <1>5, <1>6, <1>7 DEF Closing

LEMMA RestStep ==
  ASSUME RTypeOK, OwnedWasBegun, ShutForGood, QueueIsTheRest, [RNext]_rvars
  PROVE  QueueIsTheRest'
<1>1. CASE Producers
  BY <1>1, ProducersRest
<1>2. CASE Writer
  BY <1>2, WriterRest
<1>3. CASE Owner
  BY <1>3, OwnerRest
<1>4. CASE \E c \in Closers : Closing(c)
  BY <1>4, ClosingRest
<1> USE DEF flags, counters, signals, writer, agent, WriterGoes, MainGoes, MainCloses,
           CloserGoes, AutoStop, Fail, Put, Closers, Reading
<1>5. CASE Leave
  BY <1>5, RestStays DEF Leave
<1>6. CASE ConsoleCloses
  BY <1>6, RestStays DEF ConsoleCloses
<1>7. CASE Expire
  BY <1>7, RestStays DEF Expire
<1>8. CASE UNCHANGED rvars
  BY <1>8, RestStays DEF rvars
<1> QED
  BY <1>1, <1>2, <1>3, <1>4, <1>5, <1>6, <1>7, <1>8 DEF RNext

\* A step that writes nothing and counts nothing once the end is written.
LEMMA FileStays ==
  ASSUME RTypeOK, FileIsPrefix, UNCHANGED <<file, end>>,
         admitted' = admitted \/ \E row \in RowKinds : admitted' = Append(admitted, row),
         end # None => UNCHANGED counters /\ wpc' \in {"finally", "ended"}
                         /\ mpc' \notin Early /\ ~active'
  PROVE  FileIsPrefix'
<1>1. admitted \in Seq(RowKinds) /\ file \in Seq(RowKinds \cup {"end"})
  BY DEF RTypeOK
<1>2. RowCount' = RowCount /\ RowCount <= Len(admitted) /\ Len(admitted) \in Nat /\ RowCount \in Int
  BY <1>1 DEF RowCount, FileIsPrefix
<1>3. Len(admitted') \in Nat /\ Len(admitted) <= Len(admitted')
  BY <1>1, <1>2
<1>4. \A i \in 1..Len(admitted) : admitted'[i] = admitted[i]
  BY <1>1, <1>2
<1>5. RowCount' <= Len(admitted') /\ \A i \in 1..RowCount' : file'[i] = admitted'[i]
  <2>1. RowCount <= Len(admitted')
    BY <1>2, <1>3
  <2>2. ASSUME NEW i \in 1..RowCount
        PROVE  file[i] = admitted'[i]
    <3>1. i \in 1..Len(admitted)
      BY <1>2
    <3> QED
      BY <1>4, <3>1 DEF FileIsPrefix
  <2> QED
    BY <1>2, <2>1, <2>2
<1>6. end # None => Counts' = Counts
  BY DEF Counts, counters
<1> QED
  BY <1>2, <1>5, <1>6 DEF FileIsPrefix, counters, Early

\* The row written is the next of those admitted.
LEMMA FileGrows ==
  ASSUME RTypeOK, QueueIsTheRest, FileIsPrefix, Reading, q # <<>>, Head(q) # "sentinel",
         file' = Append(file, Head(q)), UNCHANGED <<end, admitted>>
  PROVE  FileIsPrefix'
<1>1. admitted \in Seq(RowKinds) /\ file \in Seq(RowKinds \cup {"end"})
  BY DEF RTypeOK
<1>2. end = None /\ RowCount = Len(file) /\ RowCount' = Len(file')
  BY DEF QueueIsTheRest, RowCount
<1>3. Len(file) < Len(admitted) /\ Head(q) = admitted[Len(file) + 1]
  BY HeadOfQueue
<1>4. /\ Len(file) \in Nat /\ Len(admitted) \in Nat /\ Len(file') = Len(file) + 1
      /\ file'[Len(file) + 1] = Head(q)
      /\ \A i \in 1..Len(file) : file'[i] = file[i]
  BY <1>1
<1>5. \A i \in 1..Len(file) : file[i] = admitted[i]
  BY <1>2 DEF FileIsPrefix
<1>6. ASSUME NEW i \in 1..Len(file')
      PROVE  file'[i] = admitted'[i]
  <2>1. i \in 1..Len(file) \/ i = Len(file) + 1
    BY <1>4
  <2> QED
    BY <1>3, <1>4, <1>5, <2>1
<1>7. Len(file') <= Len(admitted')
  BY <1>3, <1>4
<1> QED
  BY <1>2, <1>6, <1>7 DEF FileIsPrefix

\* The terminal row stands behind the rows, with the counters of the snapshot.
LEMMA FileEnds ==
  ASSUME RTypeOK, ShutForGood, FileIsPrefix, WriteEnd
  PROVE  FileIsPrefix'
<1>1. admitted \in Seq(RowKinds) /\ file \in Seq(RowKinds \cup {"end"})
  BY DEF RTypeOK
<1>2. end = None /\ RowCount = Len(file)
  BY DEF WriteEnd, FileIsPrefix, RowCount
<1>3. /\ file' = Append(file, "end") /\ wpc' = "finally"
      /\ end' = [counts |-> terminal, written |-> Len(file), failed |-> errors # {}]
      /\ terminal # None /\ UNCHANGED <<active, segs, aux_segs, dropped, aux_dropped, mpc, admitted>>
  BY DEF WriteEnd, flags, counters, agent
<1>4. terminal = Counts /\ mpc \notin Early /\ ~active
  BY <1>3 DEF ShutForGood
<1>5. /\ Len(file) \in Nat /\ Len(file') = Len(file) + 1 /\ file'[Len(file')] = "end"
      /\ \A i \in 1..Len(file) : file'[i] = file[i]
  BY <1>1, <1>3
<1>6. end' # None
  <2>1. Counts \in [segs : Nat, aux : Nat, dropped : Nat, aux_dropped : Nat]
    BY DEF RTypeOK, Counts
  <2>2. (errors # {}) \in BOOLEAN
    OBVIOUS
  <2>3. end' \in [counts : [segs : Nat, aux : Nat, dropped : Nat, aux_dropped : Nat],
                  written : Nat, failed : BOOLEAN]
    BY <1>3, <1>4, <1>5, <2>1, <2>2
  <2> QED
    BY <2>3, RecorderAssumption
<1>7. RowCount' = Len(file)
  BY <1>5, <1>6 DEF RowCount
<1>8. RowCount' <= Len(admitted') /\ \A i \in 1..RowCount' : file'[i] = admitted'[i]
  BY <1>2, <1>3, <1>5, <1>7 DEF FileIsPrefix
<1>9. Counts' = Counts
  BY <1>3 DEF Counts
<1>10. end'.counts = Counts' /\ end'.written = RowCount' /\ Len(file') > 0
  BY <1>3, <1>4, <1>5, <1>7, <1>9
<1>11. mpc' \notin Early /\ ~active' /\ wpc' \in {"finally", "ended"} /\ file'[Len(file')] = "end"
  BY <1>3, <1>4, <1>5
<1> QED
  BY <1>8, <1>10, <1>11 DEF FileIsPrefix, Early


\* The rows of the file are the first of those admitted.
LEMMA ProducersFile ==
  ASSUME RTypeOK, OwnedWasBegun, ShutForGood, QueueIsTheRest, FileIsPrefix, Producers
  PROVE  FileIsPrefix'
<1> USE DEF flags, counters, signals, writer, agent, WriterGoes, MainGoes, MainCloses,
           CloserGoes, AutoStop, Fail, Put, Closers, Early
<1>1. CASE Segment
  BY <1>1, FileStays DEF Segment, FileIsPrefix, RowKinds
<1>2. CASE AuxSegment
  BY <1>2, FileStays DEF AuxSegment, FileIsPrefix, RowKinds
<1>3. CASE Label
  BY <1>3, FileStays DEF Label, FileIsPrefix, RowKinds
<1>4. CASE \E late \in BOOLEAN : Beyond(late)
  BY <1>4, FileStays DEF Beyond, FileIsPrefix
<1> QED
  BY <1>1, <1>2, <1>3, <1>4 DEF Producers

LEMMA WriterFile ==
  ASSUME RTypeOK, OwnedWasBegun, ShutForGood, QueueIsTheRest, FileIsPrefix, Writer
  PROVE  FileIsPrefix'
<1> USE DEF flags, counters, signals, writer, agent, WriterGoes, MainGoes, MainCloses,
           CloserGoes, AutoStop, Fail, Put, Closers, Early
<1>1. CASE Open
  BY <1>1, FileStays DEF Open, FileIsPrefix
<1>2. CASE OpenFails
  BY <1>2, FileStays DEF OpenFails, FileIsPrefix
<1>3. CASE Opened
  BY <1>3, FileStays DEF Opened, FileIsPrefix
<1>4. CASE WriteRow
  BY <1>4, FileGrows DEF WriteRow, Reading
<1>5. CASE BatchFails
  BY <1>5, FileGrows DEF BatchFails, Reading
<1>6. CASE WriteFails
  BY <1>6, FileStays DEF WriteFails, FileIsPrefix
<1>7. CASE TakeSentinel
  BY <1>7, FileStays DEF TakeSentinel, FileIsPrefix
<1>8. CASE TimesOut
  BY <1>8, FileStays DEF TimesOut, FileIsPrefix
<1>9. CASE AfterTimeout
  BY <1>9, FileStays DEF AfterTimeout, FileIsPrefix
<1>10. CASE FlushFails
  BY <1>10, FileStays DEF FlushFails, FileIsPrefix
<1>11. CASE Report
  BY <1>11, FileStays DEF Report, FileIsPrefix
<1>12. CASE WriteEnd
  BY <1>12, FileEnds
<1>13. CASE NoEnd
  BY <1>13, FileStays DEF NoEnd, FileIsPrefix
<1>14. CASE WriterEnds
  BY <1>14, FileStays DEF WriterEnds, FileIsPrefix
<1> QED
  BY <1>1, <1>2, <1>3, <1>4, <1>5, <1>6, <1>7, <1>8, <1>9, <1>10, <1>11, <1>12, <1>13, <1>14 DEF Writer

LEMMA OwnerFile ==
  ASSUME RTypeOK, OwnedWasBegun, ShutForGood, QueueIsTheRest, FileIsPrefix, Owner
  PROVE  FileIsPrefix'
<1> USE DEF flags, counters, signals, writer, agent, WriterGoes, MainGoes, MainCloses,
           CloserGoes, AutoStop, Fail, Put, Closers, Early
<1>1. CASE BeginWindow
  BY <1>1, FileStays DEF BeginWindow, FileIsPrefix
<1>2. CASE AwaitReady
  BY <1>2, FileStays DEF AwaitReady, FileIsPrefix
<1>3. CASE Begun
  BY <1>3, FileStays DEF Begun, FileIsPrefix, RowKinds
<1>4. CASE Teardown
  BY <1>4, FileStays DEF Teardown, FileIsPrefix
<1>5. CASE OwnWindow
  BY <1>5, FileStays DEF OwnWindow, FileIsPrefix
<1>6. CASE LookAtClock
  BY <1>6, FileStays DEF LookAtClock, FileIsPrefix
<1>7. CASE ExpireWindow
  BY <1>7, FileStays DEF ExpireWindow, FileIsPrefix
<1>8. CASE TakeReason
  BY <1>8, FileStays DEF TakeReason, FileIsPrefix
<1> QED
  BY <1>1, <1>2, <1>3, <1>4, <1>5, <1>6, <1>7, <1>8 DEF Owner

LEMMA ClosingFile ==
  ASSUME RTypeOK, OwnedWasBegun, ShutForGood, QueueIsTheRest, FileIsPrefix, NEW c \in Closers, Closing(c)
  PROVE  FileIsPrefix'
<1> USE DEF flags, counters, signals, writer, agent, WriterGoes, MainGoes, MainCloses,
           CloserGoes, AutoStop, Fail, Put, Closers, Early
<1>1. CASE CheckWindow(c)
  BY <1>1, FileStays DEF CheckWindow, FileIsPrefix
<1>2. CASE ClaimWindow(c)
  BY <1>2, FileStays DEF ClaimWindow, FileIsPrefix
<1>3. CASE Snapshot(c)
  BY <1>3, FileStays DEF Snapshot, FileIsPrefix
<1>4. CASE SignalStop(c)
  BY <1>4, FileStays DEF SignalStop, FileIsPrefix
<1>5. CASE JoinWriter(c)
  BY <1>5, FileStays DEF JoinWriter, FileIsPrefix
<1>6. CASE ShutWindow(c)
  BY <1>6, FileStays DEF ShutWindow, FileIsPrefix
<1>7. CASE Exit(c)
  BY <1>7, FileStays DEF Exit, FileIsPrefix
<1> QED
  BY <1>1, <1>2, <1>3, <1>4, <1>5, <1>6, <1>7 DEF Closing

LEMMA FileStep ==
  ASSUME RTypeOK, OwnedWasBegun, ShutForGood, QueueIsTheRest, FileIsPrefix, [RNext]_rvars
  PROVE  FileIsPrefix'
<1>1. CASE Producers
  BY <1>1, ProducersFile
<1>2. CASE Writer
  BY <1>2, WriterFile
<1>3. CASE Owner
  BY <1>3, OwnerFile
<1>4. CASE \E c \in Closers : Closing(c)
  BY <1>4, ClosingFile
<1> USE DEF flags, counters, signals, writer, agent, WriterGoes, MainGoes, MainCloses,
           CloserGoes, AutoStop, Fail, Put, Closers, Early
<1>5. CASE Leave
  BY <1>5, FileStays DEF Leave, FileIsPrefix
<1>6. CASE ConsoleCloses
  BY <1>6, FileStays DEF ConsoleCloses, FileIsPrefix
<1>7. CASE Expire
  BY <1>7, FileStays DEF Expire, FileIsPrefix
<1>8. CASE UNCHANGED rvars
  BY <1>8, FileStays DEF rvars, FileIsPrefix
<1> QED
  BY <1>1, <1>2, <1>3, <1>4, <1>5, <1>6, <1>7, <1>8 DEF RNext

-----------------------------------------------------------------------------
(* The counters.                                                           *)

\* The occurrences of a row in a sequence that it, or another, is put behind.
LEMMA CountAppend ==
  ASSUME NEW S, NEW s \in Seq(S), NEW e \in S, NEW row
  PROVE  /\ CountOf(row, s) \in Nat
         /\ CountOf(row, Append(s, e)) = IF e = row THEN CountOf(row, s) + 1 ELSE CountOf(row, s)
<1> DEFINE C == {i \in DOMAIN s : s[i] = row}
           D == {i \in DOMAIN Append(s, e) : Append(s, e)[i] = row}
           n == Len(s) + 1
<1>1. /\ n \in Nat /\ DOMAIN s = 1..Len(s) /\ DOMAIN Append(s, e) = 1..n /\ Len(s) \in Nat
      /\ Append(s, e)[n] = e /\ \A i \in 1..Len(s) : Append(s, e)[i] = s[i]
  OBVIOUS
<1>2. D = IF e = row THEN C \cup {n} ELSE C
  BY <1>1
<1>3. n \notin C
  BY <1>1
<1>4. IsFiniteSet(C)
  <2>1. IsFiniteSet(1..Len(s)) /\ C \in SUBSET (1..Len(s))
    BY <1>1, FS_Interval
  <2> QED
    BY <2>1, FS_Subset
<1>5. Cardinality(C) \in Nat /\ Cardinality(C \cup {n}) = Cardinality(C) + 1
  BY <1>3, <1>4, FS_CardinalityType, FS_AddElement
<1> QED
  BY <1>2, <1>5 DEF CountOf


LEMMA CountPut ==
  ASSUME RTypeOK, NEW row \in RowKinds, admitted' = Append(admitted, row), CountsAreTrue,
         segs' = (IF row = "main" THEN segs + 1 ELSE segs),
         aux_segs' = (IF row = "aux" THEN aux_segs + 1 ELSE aux_segs)
  PROVE  CountsAreTrue'
<1>1. admitted \in Seq(RowKinds)
  BY DEF RTypeOK
<1>2. /\ CountOf("main", admitted') = IF row = "main" THEN CountOf("main", admitted) + 1
                                                      ELSE CountOf("main", admitted)
      /\ CountOf("aux", admitted') = IF row = "aux" THEN CountOf("aux", admitted) + 1
                                                    ELSE CountOf("aux", admitted)
  BY <1>1, CountAppend
<1> QED
  BY <1>2 DEF CountsAreTrue

\* The counters are those of the rows admitted.
LEMMA ProducersCounts ==
  ASSUME RTypeOK, CountsAreTrue, Producers
  PROVE  CountsAreTrue'
<1> USE DEF flags, counters, signals, writer, agent, WriterGoes, MainGoes, MainCloses,
           CloserGoes, AutoStop, Fail, Put, Closers
<1>1. CASE Segment
  BY <1>1, CountPut DEF Segment, CountsAreTrue, RowKinds
<1>2. CASE AuxSegment
  BY <1>2, CountPut DEF AuxSegment, CountsAreTrue, RowKinds
<1>3. CASE Label
  BY <1>3, CountPut DEF Label, CountsAreTrue, RowKinds
<1>4. CASE \E late \in BOOLEAN : Beyond(late)
  BY <1>4 DEF Beyond, CountsAreTrue
<1> QED
  BY <1>1, <1>2, <1>3, <1>4 DEF Producers

LEMMA WriterCounts ==
  ASSUME RTypeOK, CountsAreTrue, Writer
  PROVE  CountsAreTrue'
<1> USE DEF flags, counters, signals, writer, agent, WriterGoes, MainGoes, MainCloses,
           CloserGoes, AutoStop, Fail, Put, Closers
<1>1. CASE Open
  BY <1>1 DEF Open, CountsAreTrue
<1>2. CASE OpenFails
  BY <1>2 DEF OpenFails, CountsAreTrue
<1>3. CASE Opened
  BY <1>3 DEF Opened, CountsAreTrue
<1>4. CASE WriteRow
  BY <1>4 DEF WriteRow, CountsAreTrue
<1>5. CASE BatchFails
  BY <1>5 DEF BatchFails, CountsAreTrue
<1>6. CASE WriteFails
  BY <1>6 DEF WriteFails, CountsAreTrue
<1>7. CASE TakeSentinel
  BY <1>7 DEF TakeSentinel, CountsAreTrue
<1>8. CASE TimesOut
  BY <1>8 DEF TimesOut, CountsAreTrue
<1>9. CASE AfterTimeout
  BY <1>9 DEF AfterTimeout, CountsAreTrue
<1>10. CASE FlushFails
  BY <1>10 DEF FlushFails, CountsAreTrue
<1>11. CASE Report
  BY <1>11 DEF Report, CountsAreTrue
<1>12. CASE WriteEnd
  BY <1>12 DEF WriteEnd, CountsAreTrue
<1>13. CASE NoEnd
  BY <1>13 DEF NoEnd, CountsAreTrue
<1>14. CASE WriterEnds
  BY <1>14 DEF WriterEnds, CountsAreTrue
<1> QED
  BY <1>1, <1>2, <1>3, <1>4, <1>5, <1>6, <1>7, <1>8, <1>9, <1>10, <1>11, <1>12, <1>13, <1>14 DEF Writer

LEMMA OwnerCounts ==
  ASSUME RTypeOK, CountsAreTrue, Owner
  PROVE  CountsAreTrue'
<1> USE DEF flags, counters, signals, writer, agent, WriterGoes, MainGoes, MainCloses,
           CloserGoes, AutoStop, Fail, Put, Closers
<1>1. CASE BeginWindow
  BY <1>1 DEF BeginWindow, CountsAreTrue
<1>2. CASE AwaitReady
  BY <1>2 DEF AwaitReady, CountsAreTrue
<1>3. CASE Begun
  BY <1>3, CountPut DEF Begun, CountsAreTrue, RowKinds
<1>4. CASE Teardown
  BY <1>4 DEF Teardown, CountsAreTrue
<1>5. CASE OwnWindow
  BY <1>5 DEF OwnWindow, CountsAreTrue
<1>6. CASE LookAtClock
  BY <1>6 DEF LookAtClock, CountsAreTrue
<1>7. CASE ExpireWindow
  BY <1>7 DEF ExpireWindow, CountsAreTrue
<1>8. CASE TakeReason
  BY <1>8 DEF TakeReason, CountsAreTrue
<1> QED
  BY <1>1, <1>2, <1>3, <1>4, <1>5, <1>6, <1>7, <1>8 DEF Owner

LEMMA ClosingCounts ==
  ASSUME RTypeOK, CountsAreTrue, NEW c \in Closers, Closing(c)
  PROVE  CountsAreTrue'
<1> USE DEF flags, counters, signals, writer, agent, WriterGoes, MainGoes, MainCloses,
           CloserGoes, AutoStop, Fail, Put, Closers
<1>1. CASE CheckWindow(c)
  BY <1>1 DEF CheckWindow, CountsAreTrue
<1>2. CASE ClaimWindow(c)
  BY <1>2 DEF ClaimWindow, CountsAreTrue
<1>3. CASE Snapshot(c)
  BY <1>3 DEF Snapshot, CountsAreTrue
<1>4. CASE SignalStop(c)
  BY <1>4 DEF SignalStop, CountsAreTrue
<1>5. CASE JoinWriter(c)
  BY <1>5 DEF JoinWriter, CountsAreTrue
<1>6. CASE ShutWindow(c)
  BY <1>6 DEF ShutWindow, CountsAreTrue
<1>7. CASE Exit(c)
  BY <1>7 DEF Exit, CountsAreTrue
<1> QED
  BY <1>1, <1>2, <1>3, <1>4, <1>5, <1>6, <1>7 DEF Closing

LEMMA CountsStep ==
  ASSUME RTypeOK, CountsAreTrue, [RNext]_rvars
  PROVE  CountsAreTrue'
<1>1. CASE Producers
  BY <1>1, ProducersCounts
<1>2. CASE Writer
  BY <1>2, WriterCounts
<1>3. CASE Owner
  BY <1>3, OwnerCounts
<1>4. CASE \E c \in Closers : Closing(c)
  BY <1>4, ClosingCounts
<1> USE DEF flags, counters, signals, writer, agent, WriterGoes, MainGoes, MainCloses,
           CloserGoes, AutoStop, Fail, Put, Closers
<1>5. CASE Leave
  BY <1>5 DEF Leave, CountsAreTrue
<1>6. CASE ConsoleCloses
  BY <1>6 DEF ConsoleCloses, CountsAreTrue
<1>7. CASE Expire
  BY <1>7 DEF Expire, CountsAreTrue
<1>8. CASE UNCHANGED rvars
  BY <1>8 DEF rvars, CountsAreTrue
<1> QED
  BY <1>1, <1>2, <1>3, <1>4, <1>5, <1>6, <1>7, <1>8 DEF RNext

-----------------------------------------------------------------------------
LEMMA RInvInit == RInit => RInv
<1> SUFFICES ASSUME RInit PROVE RInv
  OBVIOUS
<1>a. \A S : <<>> \in Seq(S)
  OBVIOUS
<1>b. Len(<<>>) = 0 /\ DOMAIN <<>> = {}
  OBVIOUS
<1>0. /\ q = <<>> /\ file = <<>> /\ admitted = <<>>
      /\ <<>> \in Seq(RowKinds \cup {"sentinel"}) /\ <<>> \in Seq(RowKinds \cup {"end"})
      /\ <<>> \in Seq(RowKinds) /\ Len(<<>>) = 0 /\ DOMAIN admitted = {}
  BY <1>a, <1>b DEF RInit
<1>1. RTypeOK
  <2>1. 0 \in Nat
    OBVIOUS
  <2> QED
    BY <1>0, <2>1 DEF RInit, RTypeOK
<1>2. ControlInv
  BY DEF RInit, ControlInv, OwnedWasBegun, ShutForGood, NoRowsForTheEnd, EmptyFileGoes, Early
<1>3. QueueIsTheRest /\ FileIsPrefix
  <2>1. /\ Len(q) = 0 /\ Len(file) = 0 /\ Len(admitted) = 0 /\ end = None /\ pending = 0
        /\ RowCount = 0
    BY <1>0 DEF RInit, RowCount
  <2> QED
    BY <2>1 DEF QueueIsTheRest, FileIsPrefix
<1>4. CountsAreTrue
  <2>1. \A row : {i \in DOMAIN admitted : admitted[i] = row} = {}
    BY <1>0
  <2> QED
    BY <2>1, FS_EmptySet DEF RInit, CountsAreTrue, CountOf
<1> QED
  BY <1>1, <1>2, <1>3, <1>4 DEF RInv

LEMMA RInvStep == RInv /\ [RNext]_rvars => RInv'
<1> SUFFICES ASSUME RInv, [RNext]_rvars PROVE RInv'
  OBVIOUS
<1>1. /\ RTypeOK /\ OwnedWasBegun /\ ShutForGood /\ NoRowsForTheEnd /\ EmptyFileGoes
      /\ QueueIsTheRest /\ FileIsPrefix /\ CountsAreTrue
  BY DEF RInv, ControlInv
<1>2. DOMAIN cpc = Closers
  BY <1>1 DEF RTypeOK
<1>3. RTypeOK'
  BY <1>1, TypesStep
<1>4. OwnedWasBegun'
  BY <1>1, <1>2, OwnedStep
<1>5. ShutForGood'
  BY <1>1, <1>2, ShutStep
<1>6. NoRowsForTheEnd'
  BY <1>1, <1>2, OutlivedStep
<1>7. EmptyFileGoes'
  BY <1>1, <1>2, EmptyStep
<1>8. QueueIsTheRest'
  BY <1>1, RestStep
<1>9. FileIsPrefix'
  BY <1>1, FileStep
<1>10. CountsAreTrue'
  BY <1>1, CountsStep
<1> QED
  BY <1>3, <1>4, <1>5, <1>6, <1>7, <1>8, <1>9, <1>10 DEF RInv, ControlInv

THEOREM RecorderInvariant == RSpec => []RInv
  BY RInvInit, RInvStep, PTL DEF RSpec

\* No row is collected for a writer that has ended, whichever of its steps
\* failed and whoever stopped it (_record_writer_error, _snapshot_and_close).
THEOREM GateIsShutFirst == RSpec => []WriterOutlivesGate
<1>1. RInv => WriterOutlivesGate
  BY DEF RInv, ControlInv, NoRowsForTheEnd, WriterOutlivesGate
<1> QED
  BY <1>1, RecorderInvariant, PTL

\* The file holds the first of the rows admitted, in order, then at most one
\* terminal row with the counters of all of them; an empty file goes.
THEOREM FileTellsTheTruth == RSpec => []FileIsTrue
<1>1. RInv => FileIsTrue
  <2> SUFFICES ASSUME RInv PROVE FileIsTrue
    OBVIOUS
  <2>1. RTypeOK /\ EmptyFileGoes /\ FileIsPrefix /\ CountsAreTrue
    BY DEF RInv, ControlInv
  <2>2. file \in Seq(RowKinds \cup {"end"}) /\ admitted \in Seq(RowKinds)
    BY <2>1 DEF RTypeOK
  <2>3. end # None => Len(file) > 0 /\ file[Len(file)] = "end"
    BY <2>1 DEF FileIsPrefix
  <2>4. /\ RowsOf \in Seq(RowKinds \cup {"end"}) /\ Len(RowsOf) = RowCount
        /\ \A i \in 1..RowCount : RowsOf[i] = file[i]
    BY <2>2, <2>3 DEF RowsOf, RowCount
  <2>5. RowCount \in Nat /\ RowCount <= Len(admitted) /\ \A i \in 1..RowCount : file[i] = admitted[i]
    BY <2>1, <2>2, <2>3 DEF FileIsPrefix, RowCount
  <2>6. IsPrefix(RowsOf, admitted)
    <3>1. SubSeq(RowsOf, 1, RowCount) = SubSeq(admitted, 1, RowCount)
      BY <2>2, <2>4, <2>5
    <3> QED
      BY <2>4, <2>5, <3>1 DEF IsPrefix
  <2>7. end # None => file = Append(RowsOf, "end")
    <3> SUFFICES ASSUME end # None PROVE file = Append(RowsOf, "end")
      OBVIOUS
    <3>1. Len(file) = RowCount + 1 /\ DOMAIN file = 1..Len(file)
      BY <2>2 DEF RowCount
    <3>2. /\ Append(RowsOf, "end") \in Seq(RowKinds \cup {"end"})
          /\ Len(Append(RowsOf, "end")) = RowCount + 1
          /\ Append(RowsOf, "end")[RowCount + 1] = "end"
          /\ \A i \in 1..RowCount : Append(RowsOf, "end")[i] = file[i]
      BY <2>4, <2>5
    <3>3. \A i \in 1..Len(file) : file[i] = Append(RowsOf, "end")[i]
      BY <2>3, <2>5, <3>1, <3>2
    <3> QED
      BY <2>2, <3>1, <3>2, <3>3
  <2>8. end # None =>
          /\ end.written = Len(RowsOf) /\ end.counts = Counts
          /\ end.counts.segs = CountOf("main", admitted) /\ end.counts.aux = CountOf("aux", admitted)
    BY <2>1, <2>4 DEF FileIsPrefix, CountsAreTrue, Counts
  <2>9. wpc = "ended" /\ admitted = <<>> /\ exists => "cleanup" \in errors
    BY <2>1 DEF EmptyFileGoes
  <2> QED
    BY <2>6, <2>7, <2>8, <2>9 DEF FileIsTrue
<1> QED
  BY <1>1, RecorderInvariant, PTL

=============================================================================
