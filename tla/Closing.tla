------------------------------ MODULE Closing ------------------------------
(***************************************************************************)
(* How the observer ends (run, Market.close and _close_uploads of agent.py,*)
(* stop of packet_state_source.py), with a clock: the main thread in its   *)
(* `finally`, and the thread on which Windows tells of a closed console    *)
(* and after whose return, or a grace of some seconds, the process is      *)
(* gone.  Either closes the collection window, stops the sniffer and then, *)
(* within one budget of time, moves the queues of both uploaders to disk.  *)
(*                                                                         *)
(* Only waiting takes time: a Tick is a second, and comes when every thread*)
(* waits.  A queue is the number of observations in it, a batch all of it. *)
(***************************************************************************)
EXTENDS Integers

CONSTANTS
  WindowJoin,    \* _WRITER_JOIN_SEC of packet_discovery_ledger.py
  EngineJoin,    \* _JOIN_TIMEOUT_SEC of packet_state_source.py
  Budget,        \* CLOSE_JOIN_SEC
  BatchWait,     \* BATCH_WAIT_SEC of spool.py
  PostTimes,     \* seconds a request may take, up to TIMEOUT_SEC of hub_client.py
  RecheckMax,    \* seconds it takes to read the item names again
  Grace,         \* what Windows leaves to the handler
  MaxQueued,      \* observations in a queue (a bound)
  MaxNow,        \* seconds (a bound)
  Disk           \* whether a spool file cannot be written at times

ASSUME ClosingAssumption ==
  /\ WindowJoin \in Nat /\ EngineJoin \in Nat /\ Budget \in Nat /\ BatchWait \in Nat
  /\ PostTimes \subseteq Nat \ {0} /\ RecheckMax \in Nat \ {0} /\ Grace \in Nat /\ MaxQueued \in Nat /\ MaxNow \in Nat
  /\ Disk \in BOOLEAN

\* The Market and the Satong, in the order they are closed.
Bundles == 1..2

VARIABLES
  now,
  sniffing,     \* the sniffer thread is alive
  engine,       \* the _stop_event of the engine
  window,       \* state["window"]
  queued,       \* of each bundle: what its queue holds
  up, until,    \* its uploader thread, and when that stops waiting
  told,     \* its _stop event
  cpc, due,     \* of each closer: where it is, and until when it waits there
  which,        \* of each closer: the bundle it closes
  hooked,       \* the console's signal has a handler
  signal,       \* when it came, or -1
  over,         \* how the process ended
  failed,       \* history: bundles whose files could not be written
  slow          \* history: window and engine have eaten into the budget

zvars == <<now, sniffing, engine, window, queued, up, until, told, cpc, due, which,
           hooked, signal, over, failed, slow>>

Closers == {"main", "handler"}

Running == over = "no"

At(c, p) == Running /\ cpc[c] = p

Moves(c, p, b, t) ==
  /\ cpc' = [cpc EXCEPT ![c] = p] /\ which' = [which EXCEPT ![c] = b]
  /\ due' = [due EXCEPT ![c] = t]

-----------------------------------------------------------------------------
(***************************************************************************)
(* The sniffer and the uploaders.                                          *)
(***************************************************************************)
Arrives(b) ==
  /\ Running /\ sniffing /\ queued[b] < MaxQueued
  /\ queued' = [queued EXCEPT ![b] = @ + 1]
  /\ UNCHANGED <<now, sniffing, engine, window, up, until, told, cpc, due, which,
                 hooked, signal, over, failed, slow>>

SnifferEnds ==
  /\ Running /\ sniffing /\ engine /\ sniffing' = FALSE
  /\ UNCHANGED <<now, engine, window, queued, up, until, told, cpc, due, which,
                 hooked, signal, over, failed, slow>>

Turn(b, p, t) ==
  /\ up' = [up EXCEPT ![b] = p] /\ until' = [until EXCEPT ![b] = t]
  /\ UNCHANGED <<now, sniffing, engine, window, told, cpc, due, which,
                 hooked, signal, over, slow>>

\* A file of what is in the queue, or none.
Drained(b) ==
  /\ queued' = [queued EXCEPT ![b] = 0]
  /\ \/ UNCHANGED failed
     \/ Disk /\ failed' = failed \cup {b}

\* drain_queue at the head of the loop: something came, or BATCH_WAIT_SEC are over.
Drain(b) ==
  /\ Running /\ up[b] = "drain"
  /\ IF queued[b] > 0 THEN Drained(b) ELSE now >= until[b] /\ UNCHANGED <<queued, failed>>
  /\ Turn(b, "flush", 0)

\* flush_pending: a request that is out takes its time.
Send(b) ==
  /\ Running /\ up[b] = "flush" /\ ~told[b]
  /\ \E t \in PostTimes : Turn(b, "post", now + t)
  /\ UNCHANGED <<queued, failed>>

Answered(b) ==
  /\ Running /\ up[b] = "post" /\ now >= until[b]
  /\ Turn(b, "flush", 0)
  /\ UNCHANGED <<queued, failed>>

\* names.recheck, of the Market: a stop does not shorten it.
Recheck(b) ==
  /\ Running /\ up[b] = "flush" /\ b = 1
  /\ \E t \in 1..RecheckMax : Turn(b, "recheck", now + t)
  /\ UNCHANGED <<queued, failed>>

Loops(b) ==
  /\ Running
  /\ up[b] = "flush" \/ (up[b] = "recheck" /\ now >= until[b])
  /\ IF told[b] THEN Turn(b, "last", 0) ELSE Turn(b, "drain", now + BatchWait)
  /\ UNCHANGED <<queued, failed>>

\* What is left in the queue, and the thread ends.
LastDrain(b) ==
  /\ Running /\ up[b] = "last"
  /\ IF queued[b] > 0
       THEN /\ Drained(b)
            /\ IF failed' # failed THEN Turn(b, "gone", 0) ELSE Turn(b, "last", 0)
       ELSE Turn(b, "gone", 0) /\ UNCHANGED <<queued, failed>>

-----------------------------------------------------------------------------
(***************************************************************************)
(* The two that close.                                                     *)
(***************************************************************************)
\* q, Ctrl+C or the end of the window: the handler is removed before anything else.
Finally ==
  /\ At("main", "run")
  /\ hooked' = FALSE
  /\ Moves("main", "window", 0, 0)
  /\ UNCHANGED <<now, sniffing, engine, window, queued, up, until, told,
                 signal, over, failed, slow>>

\* The console is closed.
Signal ==
  /\ Running /\ signal < 0 /\ signal' = now
  /\ IF hooked THEN Moves("handler", "window", 0, 0) /\ UNCHANGED over
     ELSE over' = "unhooked" /\ UNCHANGED <<cpc, due, which>>
  /\ UNCHANGED <<now, sniffing, engine, window, queued, up, until, told,
                 hooked, failed, slow>>

\* close_window: whoever comes first waits for the writer.
CloseWindow(c) ==
  /\ At(c, "window")
  /\ window' = FALSE
  /\ Moves(c, "writer", 0, IF window THEN now + WindowJoin ELSE now)
  /\ UNCHANGED <<now, sniffing, engine, queued, up, until, told,
                 hooked, signal, over, failed, slow>>

\* The writer is gone by now, or not: on to engine.stop.
StopEngine(c) ==
  /\ At(c, "writer")
  /\ engine' = TRUE
  /\ Moves(c, "engine", 0, now + EngineJoin)
  /\ UNCHANGED <<now, sniffing, window, queued, up, until, told,
                 hooked, signal, over, failed, slow>>

\* The sniffer goes on; or, of the handler, the budget ends with the grace.
Slow(c) == sniffing \/ (c = "handler" /\ now + Budget > signal + Grace)

\* _close_uploads: all are told to stop, and the budget begins.
StopUploaders(c) ==
  /\ At(c, "engine") /\ (~sniffing \/ now >= due[c])
  /\ told' = [b \in Bundles |-> TRUE]
  /\ slow' = (slow \/ Slow(c))
  /\ Moves(c, "close", 1, now + Budget)
  /\ UNCHANGED <<now, sniffing, engine, window, queued, up, until,
                 hooked, signal, over, failed>>

\* Mutant: each bundle has a budget of its own.
OwnBudget(c) == now + Budget

\* What is left of the budget is for the next bundle.
Remaining(c) == due[c]

\* Market.close: wait for the thread; if it is still there, or has left
\* something, empty the queue here.
Close(c) ==
  LET b == which[c] IN
  /\ At(c, "close") /\ (up[b] = "gone" \/ now >= due[c])
  /\ IF queued[b] > 0 THEN Drained(b) ELSE UNCHANGED <<queued, failed>>
  /\ IF b + 1 \in Bundles THEN Moves(c, "close", b + 1, Remaining(c)) ELSE Moves(c, "closed", 0, 0)
  /\ UNCHANGED <<now, sniffing, engine, window, up, until, told,
                 hooked, signal, over, slow>>

\* The handler returns, or _finish does.
Ends(c) ==
  /\ At(c, "closed")
  /\ over' = c
  /\ UNCHANGED <<now, sniffing, engine, window, queued, up, until, told, cpc, due, which,
                 hooked, signal, failed, slow>>

-----------------------------------------------------------------------------
\* A closer waits for a writer, for the sniffer, for an uploader, or for Enter.
Waits(c) ==
  \/ cpc[c] \in {"off", "run"} \/ (c = "main" /\ cpc[c] = "closed")
  \/ /\ now < due[c]
     /\ \/ cpc[c] = "writer" \/ (cpc[c] = "engine" /\ sniffing)
        \/ cpc[c] = "close" /\ up[which[c]] # "gone"

\* The grace is over, and the handler has something left to wait for.
Killed ==
  /\ Running /\ signal >= 0 /\ now >= signal + Grace /\ Waits("handler")
  /\ over' = "killed"
  /\ UNCHANGED <<now, sniffing, engine, window, queued, up, until, told, cpc, due, which,
                 hooked, signal, failed, slow>>

Tick ==
  /\ Running /\ now < MaxNow /\ now' = now + 1
  /\ \A c \in Closers : Waits(c)
  /\ \A b \in Bundles : up[b] = "gone" \/ (up[b] \in {"drain", "post", "recheck"} /\ now < until[b])
  /\ signal >= 0 => now < signal + Grace
  /\ UNCHANGED <<sniffing, engine, window, queued, up, until, told, cpc, due, which,
                 hooked, signal, over, failed, slow>>

ClosingInit ==
  /\ now = 0 /\ sniffing = TRUE /\ engine = FALSE /\ window \in BOOLEAN
  /\ queued = [b \in Bundles |-> 0]
  /\ up = [b \in Bundles |-> "flush"] /\ until = [b \in Bundles |-> 0]
  /\ told = [b \in Bundles |-> FALSE]
  /\ cpc = [c \in Closers |-> IF c = "main" THEN "run" ELSE "off"]
  /\ due = [c \in Closers |-> 0] /\ which = [c \in Closers |-> 0] /\ hooked = TRUE /\ signal = -1 /\ over = "no"
  /\ failed = {} /\ slow = FALSE

ClosingNext ==
  \/ \E b \in Bundles : Arrives(b) \/ Drain(b) \/ Send(b) \/ Answered(b) \/ Recheck(b) \/ Loops(b) \/ LastDrain(b)
  \/ SnifferEnds \/ Finally \/ Signal \/ Killed \/ Tick
  \/ \E c \in Closers :
       CloseWindow(c) \/ StopEngine(c) \/ StopUploaders(c) \/ Close(c) \/ Ends(c)

ClosingSpec == ClosingInit /\ [][ClosingNext]_zvars

-----------------------------------------------------------------------------
\* When the program ends, what the queues hold is on disk before the process is
\* gone, although an uploader may be in a request of 15 seconds (agent.py:641),
\* and the handler of a closed console has returned by then; unless the disk
\* failed, or the sniffer or the window have taken more than what the grace has
\* beyond the budget.
SavedInGrace ==
  over \in {"main", "handler", "killed"} /\ ~slow =>
    over # "killed" /\ \A b \in Bundles : queued[b] = 0 \/ b \in failed

=============================================================================
