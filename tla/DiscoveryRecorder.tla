------------------------- MODULE DiscoveryRecorder -------------------------
(***************************************************************************)
(* The recorder of raw segments (packet_discovery_ledger.py) and the one   *)
(* collection window the agent opens with it (agent.py).  The sniffer and  *)
(* the console put rows into a bounded queue, a writer thread moves them   *)
(* to the file of the window.  The main thread opens the window, stops it  *)
(* when its time is over and closes it; when the console is closed, a      *)
(* handler thread closes it too.                                           *)
(*                                                                         *)
(* A row is its kind; a segment has one byte; the file holds what was      *)
(* written to it, flushed or not.  What happens under _lock is one step.   *)
(* The gate that note_segment and note_label read before they take the     *)
(* lock is read again under it, and is left out.                           *)
(***************************************************************************)
EXTENDS Naturals, SequencesExt

CONSTANTS
  QueueMax,       \* _QUEUE_MAX
  MaxBytes,       \* max_bytes: the budget of the main port
  AuxMaxBytes,    \* aux_max_bytes: that of the second port
  FlushAt,        \* rows after which the writer flushes
  MaxRows,        \* how many rows are admitted, and how many dropped (bounds)
  MaxDrops,
  Faults,         \* which of the faults below the environment produces
  None

FaultKinds == {"open",     \* the file or its directory cannot be created
               "write",    \* an OSError when a row is written or flushed
               "unlink"}   \* an OSError when the empty file is deleted

ASSUME RecorderAssumption ==
  /\ QueueMax \in Nat \ {0} /\ MaxBytes \in Nat \ {0} /\ AuxMaxBytes \in Nat
  /\ FlushAt \in Nat \ {0} /\ MaxRows \in Nat /\ MaxDrops \in Nat
  /\ Faults \subseteq FaultKinds
  /\ None \notin [counts : [segs : Nat, aux : Nat, dropped : Nat, aux_dropped : Nat],
                   written : Nat, failed : BOOLEAN]

VARIABLES
  active, window_open, reason,              \* of the recorder
  q,
  segs, aux_segs, dropped, aux_dropped,     \* its counters
  ready, stop, terminal, errors,            \* _WriterState
  wpc, exists, file, end, pending,          \* the writer and its file
  window,         \* state["window"] of the agent
  mpc, cpc,       \* where the main thread is, and those that close the window
  expired,        \* the deadline has passed
  over,           \* the process has ended
  admitted        \* history: the rows that were put into the queue

flags == <<active, window_open, reason>>
counters == <<segs, aux_segs, dropped, aux_dropped>>
signals == <<ready, stop, terminal, errors>>
writer == <<wpc, exists, file, end, pending>>
agent == <<window, mpc, cpc, expired, over>>
rvars == <<flags, q, counters, signals, writer, agent, admitted>>

Closers == {"main", "handler"}

-----------------------------------------------------------------------------
(* Those that put rows: the sniffer, and the console.                      *)

\* _auto_stop: collecting stops; the window stays open for its owner.
AutoStop(why) ==
  /\ active' = FALSE /\ reason' = why
  /\ UNCHANGED window_open

HasRoom == Len(q) < QueueMax

Put(row) == q' = Append(q, row) /\ admitted' = Append(admitted, row)

Bounded(fits) == IF fits THEN Len(admitted) < MaxRows ELSE dropped + aux_dropped < MaxDrops

\* A segment taken off the wire after the deadline, or beyond the budget.
Beyond(late) ==
  /\ active /\ ~over
  /\ \/ late /\ expired /\ AutoStop("time")
     \/ ~late /\ segs >= MaxBytes /\ AutoStop("bytes")
  /\ UNCHANGED <<q, counters, signals, writer, agent, admitted>>

\* note_segment for the main port.
Segment ==
  /\ active /\ ~over /\ segs < MaxBytes /\ Bounded(HasRoom)
  /\ IF HasRoom
       THEN Put("main") /\ segs' = segs + 1 /\ UNCHANGED dropped
       ELSE dropped' = dropped + 1 /\ UNCHANGED <<q, admitted, segs>>
  /\ UNCHANGED <<flags, aux_segs, aux_dropped, signals, writer, agent>>

\* _AUX_QUEUE_YIELD_FRAC = 0.5.
AuxYields == 2 * Len(q) >= QueueMax

AuxFits == aux_segs < AuxMaxBytes /\ ~AuxYields /\ HasRoom

\* note_segment for the second port: a budget of its own, and only while the
\* queue is not half full.  It never stops the window but by its time.
AuxSegment ==
  /\ active /\ ~over /\ Bounded(AuxFits)
  /\ IF AuxFits
       THEN Put("aux") /\ aux_segs' = aux_segs + 1 /\ UNCHANGED aux_dropped
       ELSE aux_dropped' = aux_dropped + 1 /\ UNCHANGED <<q, admitted, aux_segs>>
  /\ UNCHANGED <<flags, segs, dropped, signals, writer, agent>>

\* The agent has seen that the window is open: a label may be on its way.
Owned == window \/ \E c \in Closers : cpc[c] = "snapshot"

\* A line on the console, which is read once the window is open: note_label.
Label ==
  /\ Owned /\ active /\ ~over /\ Bounded(HasRoom)
  /\ IF HasRoom
       THEN Put("label") /\ UNCHANGED dropped
       ELSE dropped' = dropped + 1 /\ UNCHANGED <<q, admitted>>
  /\ UNCHANGED <<flags, segs, aux_segs, aux_dropped, signals, writer, agent>>

-----------------------------------------------------------------------------
(* The writer thread: _writer_loop.                                        *)

WriterGoes(to) == wpc' = to /\ UNCHANGED <<exists, file, end, pending>>

\* What failed is not told apart, except the deletion of an empty file.
Fail == errors' = errors \cup {"failed"} /\ UNCHANGED <<ready, stop, terminal>>

Open ==
  /\ wpc = "opening" /\ ~over
  /\ exists' = TRUE /\ ready' = TRUE /\ wpc' = "opened"
  /\ UNCHANGED <<flags, q, counters, stop, terminal, errors, file, end, pending, agent, admitted>>

OpenFails ==
  /\ wpc = "opening" /\ ~over /\ "open" \in Faults
  /\ Fail
  /\ WriterGoes("failed")
  /\ UNCHANGED <<flags, q, counters, agent, admitted>>

\* Opened too late, with nothing to write?
Opened ==
  /\ wpc = "opened" /\ ~over
  /\ WriterGoes(IF stop /\ terminal = None /\ q = <<>> THEN "finally" ELSE "get")
  /\ UNCHANGED <<flags, q, counters, signals, agent, admitted>>

WriteRow ==
  /\ wpc = "get" /\ ~over /\ q # <<>> /\ Head(q) # "sentinel"
  /\ q' = Tail(q)
  /\ file' = Append(file, Head(q))
  /\ pending' = IF pending + 1 >= FlushAt THEN 0 ELSE pending + 1
  /\ UNCHANGED <<flags, counters, signals, wpc, exists, end, agent, admitted>>

\* The row that fills the batch is written, and the flush after it fails.
BatchFails ==
  /\ wpc = "get" /\ ~over /\ q # <<>> /\ Head(q) # "sentinel"
  /\ pending + 1 >= FlushAt /\ "write" \in Faults
  /\ q' = Tail(q)
  /\ file' = Append(file, Head(q))
  /\ Fail
  /\ pending' = 0 /\ wpc' = "broken"
  /\ UNCHANGED <<flags, counters, exists, end, agent, admitted>>

WriteFails ==
  /\ wpc = "get" /\ ~over /\ q # <<>> /\ Head(q) # "sentinel" /\ "write" \in Faults
  /\ q' = Tail(q)
  /\ Fail
  /\ WriterGoes("broken")
  /\ UNCHANGED <<flags, counters, agent, admitted>>

TakeSentinel ==
  /\ wpc = "get" /\ ~over /\ q # <<>> /\ Head(q) = "sentinel"
  /\ q' = Tail(q)
  /\ WriterGoes("terminal")
  /\ UNCHANGED <<flags, counters, signals, agent, admitted>>

\* q.get has timed out; the writer has not looked at the stop event yet.
TimesOut ==
  /\ wpc = "get" /\ ~over /\ q = <<>>
  /\ WriterGoes("empty")
  /\ UNCHANGED <<flags, q, counters, signals, agent, admitted>>

AfterTimeout ==
  /\ wpc = "empty" /\ ~over
  /\ IF stop THEN wpc' = "terminal" /\ UNCHANGED pending
             ELSE wpc' = "get" /\ pending' = 0
  /\ UNCHANGED <<flags, q, counters, signals, exists, file, end, agent, admitted>>

FlushFails ==
  /\ wpc = "empty" /\ ~over /\ ~stop /\ pending > 0 /\ "write" \in Faults
  /\ Fail
  /\ pending' = 0 /\ wpc' = "broken"
  /\ UNCHANGED <<flags, q, counters, exists, file, end, agent, admitted>>

\* Mutant: an error of the writer does not stop the window.
ReportOnly ==
  /\ wpc \in {"broken", "failed"} /\ ~over
  /\ UNCHANGED flags
  /\ WriterGoes(IF wpc = "broken" THEN "terminal" ELSE "finally")
  /\ UNCHANGED <<q, counters, signals, agent, admitted>>

\* The second half of _record_writer_error.
Report ==
  /\ wpc \in {"broken", "failed"} /\ ~over
  /\ IF active THEN AutoStop("error") ELSE UNCHANGED flags
  /\ WriterGoes(IF wpc = "broken" THEN "terminal" ELSE "finally")
  /\ UNCHANGED <<q, counters, signals, agent, admitted>>

\* The terminal row, with the number of rows written and the errors so far; the
\* flush or the close after it may fail.
WriteEnd ==
  /\ wpc = "terminal" /\ ~over /\ terminal # None
  /\ file' = Append(file, "end")
  /\ end' = [counts |-> terminal, written |-> Len(file), failed |-> errors # {}]
  /\ pending' = 0 /\ wpc' = "finally"
  /\ \/ UNCHANGED signals
     \/ "write" \in Faults /\ Fail
  /\ UNCHANGED <<flags, q, counters, exists, agent, admitted>>

NoEnd ==
  /\ wpc = "terminal" /\ ~over
  /\ \/ terminal = None /\ UNCHANGED signals
     \/ "write" \in Faults /\ Fail
  /\ WriterGoes("finally")
  /\ UNCHANGED <<flags, q, counters, agent, admitted>>

Cancelled == exists /\ stop /\ terminal = None

\* The finally clause: the empty file of a window that never began is deleted.
WriterEnds ==
  /\ wpc = "finally" /\ ~over
  /\ ready' = TRUE /\ wpc' = "ended"
  /\ IF Cancelled
       THEN \/ file = <<>> /\ exists' = FALSE /\ UNCHANGED errors
            \/ /\ file # <<>> \/ "unlink" \in Faults
               /\ errors' = errors \cup {"cleanup"} /\ UNCHANGED exists
       ELSE UNCHANGED <<exists, errors>>
  /\ UNCHANGED <<flags, q, counters, stop, terminal, file, end, pending, agent, admitted>>

-----------------------------------------------------------------------------
(* The main thread: _open_window and begin_window, then the loop of run.   *)

MainGoes(to) == mpc' = to /\ UNCHANGED <<window, cpc, expired, over>>

\* The game is captured: a window is made and its writer started.
BeginWindow ==
  /\ mpc = "flow" /\ ~over
  /\ \/ /\ window_open' = TRUE /\ wpc' = "opening"
        /\ MainGoes("opening")
     \/ "open" \in Faults /\ MainGoes("failed") /\ UNCHANGED <<window_open, wpc>>
  /\ UNCHANGED <<active, reason, q, counters, signals, exists, file, end, pending, admitted>>

\* ready.wait: the writer is ready, or the second is over.
AwaitReady ==
  /\ mpc = "opening" /\ ~over
  /\ \/ ready /\ UNCHANGED signals
     \/ ~ready /\ Fail
  /\ MainGoes("opened")
  /\ UNCHANGED <<flags, q, counters, writer, admitted>>

Begun ==
  /\ mpc = "opened" /\ ~over /\ errors = {}
  /\ Put("start")
  /\ active' = TRUE /\ UNCHANGED <<window_open, reason>>
  /\ MainGoes("begun")
  /\ UNCHANGED <<counters, signals, writer>>

\* _teardown; the join that follows changes nothing.
Teardown ==
  /\ mpc = "opened" /\ ~over /\ errors # {}
  /\ active' = FALSE /\ window_open' = FALSE /\ UNCHANGED reason
  /\ stop' = TRUE /\ UNCHANGED <<ready, terminal, errors>>
  /\ MainGoes("failed")
  /\ UNCHANGED <<q, counters, writer, admitted>>

\* The owner learns that the window is open, a while after it is.
OwnWindow ==
  /\ mpc = "begun" /\ ~over
  /\ window' = TRUE /\ mpc' = "run"
  /\ UNCHANGED <<flags, q, counters, signals, writer, cpc, expired, over, admitted>>

\* Mutant: the clock is only looked at when a segment comes.
LookBlindly ==
  /\ mpc = "run" /\ ~over /\ window
  /\ MainGoes("take")
  /\ UNCHANGED <<flags, q, counters, signals, writer, admitted>>

\* take_auto_stop_reason looks at the gate and the clock without the lock.
LookAtClock ==
  /\ mpc = "run" /\ ~over /\ window
  /\ MainGoes(IF active /\ expired THEN "expire" ELSE "take")
  /\ UNCHANGED <<flags, q, counters, signals, writer, admitted>>

\* _auto_stop looks at the gate again.
ExpireWindow ==
  /\ mpc = "expire" /\ ~over
  /\ IF active THEN AutoStop("time") ELSE UNCHANGED flags
  /\ MainGoes("take")
  /\ UNCHANGED <<q, counters, signals, writer, admitted>>

MainCloses(to) ==
  /\ mpc' = to /\ cpc' = [cpc EXCEPT !["main"] = "check"]
  /\ UNCHANGED <<window, expired, over>>

\* With a reason the window is closed at once, and the loop is over: what the
\* finally clause closes then is closed.
TakeReason ==
  /\ mpc = "take" /\ ~over
  /\ reason' = "" /\ UNCHANGED <<active, window_open>>
  /\ IF reason # "" THEN MainCloses("closing") ELSE MainGoes("run")
  /\ UNCHANGED <<q, counters, signals, writer, admitted>>

\* A quit word, Ctrl+C, or a window that did not open: the finally clause.
Leave ==
  /\ mpc \notin {"closing", "done"} /\ ~over
  /\ MainCloses("closing")
  /\ UNCHANGED <<flags, q, counters, signals, writer, admitted>>

-----------------------------------------------------------------------------
(* close_window of the agent and end_window, on either thread.             *)

CloserGoes(c, to) == cpc' = [cpc EXCEPT ![c] = to] /\ UNCHANGED <<window, mpc, expired, over>>

\* The console is closed; the hook is in place until the main thread closes.
ConsoleCloses ==
  /\ cpc["handler"] = "idle" /\ mpc # "closing" /\ ~over
  /\ CloserGoes("handler", "check")
  /\ UNCHANGED <<flags, q, counters, signals, writer, admitted>>

CheckWindow(c) ==
  /\ cpc[c] = "check" /\ ~over
  /\ CloserGoes(c, IF window THEN "claim" ELSE "done")
  /\ UNCHANGED <<flags, q, counters, signals, writer, admitted>>

ClaimWindow(c) ==
  /\ cpc[c] = "claim" /\ ~over
  /\ window' = FALSE /\ cpc' = [cpc EXCEPT ![c] = "snapshot"]
  /\ UNCHANGED <<flags, q, counters, signals, writer, mpc, expired, over, admitted>>

Counts == [segs |-> segs, aux |-> aux_segs, dropped |-> dropped, aux_dropped |-> aux_dropped]

\* Mutant: rows are taken on after the counters were read.
SnapshotOpen(c) ==
  /\ cpc[c] = "snapshot" /\ ~over
  /\ terminal' = Counts
  /\ CloserGoes(c, "signal")
  /\ UNCHANGED <<flags, q, counters, ready, stop, errors, writer, admitted>>

\* Under the lock: no more rows, and the counters for the terminal row.
Snapshot(c) ==
  /\ cpc[c] = "snapshot" /\ ~over
  /\ IF window_open
       THEN /\ active' = FALSE /\ UNCHANGED <<window_open, reason>>
            /\ terminal' = Counts /\ UNCHANGED <<ready, stop, errors>>
            /\ CloserGoes(c, "signal")
       ELSE CloserGoes(c, "done") /\ UNCHANGED <<flags, signals>>
  /\ UNCHANGED <<q, counters, writer, admitted>>

\* The stop event, and the sentinel if there is room for it.
SignalStop(c) ==
  /\ cpc[c] = "signal" /\ ~over
  /\ stop' = TRUE /\ UNCHANGED <<ready, terminal, errors>>
  /\ q' = IF HasRoom THEN Append(q, "sentinel") ELSE q
  /\ CloserGoes(c, "join")
  /\ UNCHANGED <<flags, counters, writer, admitted>>

\* Mutant: the owner waits for as long as it takes.
JoinForever(c) ==
  /\ cpc[c] = "join" /\ ~over /\ wpc = "ended"
  /\ CloserGoes(c, "shut")
  /\ UNCHANGED <<flags, q, counters, signals, writer, admitted>>

\* The writer has ended, or the second is over.
JoinWriter(c) ==
  /\ cpc[c] = "join" /\ ~over
  /\ \/ wpc = "ended" /\ UNCHANGED signals
     \/ wpc # "ended" /\ Fail
  /\ CloserGoes(c, "shut")
  /\ UNCHANGED <<flags, q, counters, writer, admitted>>

ShutWindow(c) ==
  /\ cpc[c] = "shut" /\ ~over
  /\ window_open' = FALSE /\ UNCHANGED <<active, reason>>
  /\ CloserGoes(c, "done")
  /\ UNCHANGED <<q, counters, signals, writer, admitted>>

\* The process ends with whichever thread is done first, and so does the writer.
Exit(c) ==
  /\ cpc[c] = "done" /\ ~over
  /\ over' = TRUE
  /\ UNCHANGED <<flags, q, counters, signals, writer, window, mpc, cpc, expired, admitted>>

\* The monotonic clock reaches the deadline.
Expire ==
  /\ window_open /\ ~expired /\ ~over
  /\ expired' = TRUE
  /\ UNCHANGED <<flags, q, counters, signals, writer, window, mpc, cpc, over, admitted>>

-----------------------------------------------------------------------------
RInit ==
  /\ active = FALSE /\ window_open = FALSE /\ reason = "" /\ q = <<>>
  /\ segs = 0 /\ aux_segs = 0 /\ dropped = 0 /\ aux_dropped = 0
  /\ ready = FALSE /\ stop = FALSE /\ terminal = None /\ errors = {}
  /\ wpc = "none" /\ exists = FALSE /\ file = <<>> /\ end = None /\ pending = 0
  /\ window = FALSE /\ mpc = "flow" /\ cpc = [c \in Closers |-> "idle"]
  /\ expired = FALSE /\ over = FALSE /\ admitted = <<>>

Producers == Segment \/ AuxSegment \/ Label \/ \E late \in BOOLEAN : Beyond(late)

Writer ==
  \/ Open \/ OpenFails \/ Opened
  \/ WriteRow \/ BatchFails \/ WriteFails \/ TakeSentinel \/ TimesOut \/ AfterTimeout \/ FlushFails
  \/ Report \/ WriteEnd \/ NoEnd \/ WriterEnds

Owner == BeginWindow \/ AwaitReady \/ Begun \/ Teardown \/ OwnWindow
         \/ LookAtClock \/ ExpireWindow \/ TakeReason

Closing(c) ==
  \/ CheckWindow(c) \/ ClaimWindow(c) \/ Snapshot(c) \/ SignalStop(c)
  \/ JoinWriter(c) \/ ShutWindow(c) \/ Exit(c)

RNext == Producers \/ Writer \/ Owner \/ Leave \/ ConsoleCloses \/ Expire \/ \E c \in Closers : Closing(c)

\* The main thread and the handler are scheduled; nothing is asked of the writer.
RSpec ==
  /\ RInit /\ [][RNext]_rvars
  /\ WF_rvars(Owner) /\ \A c \in Closers : WF_rvars(Closing(c))

-----------------------------------------------------------------------------
(* Properties.                                                             *)

\* Nothing is collected for a writer that has ended: whatever failed, and
\* whenever, the gate was shut before.
WriterOutlivesGate == wpc = "ended" => ~active

CountOf(row, s) == Cardinality({i \in DOMAIN s : s[i] = row})

\* The rows of the file: what stands before the terminal row, if there is one.
RowsOf == IF end = None THEN file ELSE SubSeq(file, 1, Len(file) - 1)

\* The rows of the file are the first that were admitted, in their order.  At
\* most one terminal row follows, also when two threads close the window, and
\* its counters are those of all that was admitted or dropped.  A window that
\* never began leaves no file but one that cannot be deleted.
FileIsTrue ==
  /\ IsPrefix(RowsOf, admitted)
  /\ end # None =>
       /\ file = Append(RowsOf, "end")
       /\ end.written = Len(RowsOf)
       /\ end.counts = Counts
       /\ end.counts.segs = CountOf("main", admitted)
       /\ end.counts.aux = CountOf("aux", admitted)
  /\ wpc = "ended" /\ admitted = <<>> /\ exists => "cleanup" \in errors

\* A window whose time is over, with or without traffic, or that has stopped
\* collecting is closed, whatever the writer does.
WindowCloses == window /\ (expired \/ ~active) ~> ~window_open \/ over

\* Once the terminal row is written, and nothing failed, every row that was
\* admitted is in the file ("the writer empties the queue, then writes the
\* terminal row", packet_discovery_ledger.py:353).
EndRowIsComplete ==
  end # None /\ ~end.failed => CountOf("main", file) = end.counts.segs
=============================================================================
