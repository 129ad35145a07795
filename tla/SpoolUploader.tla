--------------------------- MODULE SpoolUploader ---------------------------
(***************************************************************************)
(* The upload path of the observer: the bounded queue the sniffer thread   *)
(* fills, the uploader thread that turns the queue into spool files and    *)
(* posts them oldest first, the main thread that closes it, and the hub as *)
(* far as the uploader can see it (spool.py, hub_client.py, the Market     *)
(* bundle of agent.py, the upload handler of hub/server.py).               *)
(*                                                                         *)
(* An observation is a member of Obs; a batch, and so a spool file, is a   *)
(* set of observations.  A file is named by a number, and numbers sort the *)
(* way the names `obs_<ms>_<seq>` do.  Spool.write takes no lock: the      *)
(* counter moves, the name is read from clock and counter, and os.replace  *)
(* puts the file there, each a step of its own, so two threads that write  *)
(* at once may take one name, and one file the place of the other.  What   *)
(* else the names may do, and with more threads, is the matter of          *)
(* SpoolNames.                                                             *)
(***************************************************************************)
EXTENDS Naturals, SequencesExt

CONSTANTS
  Obs,        \* the observations the sniffer may make
  Bad,        \* those the hub's validation refuses (a 400 for the whole batch)
  Names,      \* spool file names, ordered as numbers (a bound in TLC's runs)
  QueueMax,   \* QUEUE_MAX of spool.py
  BatchMax,   \* MAX_OBSERVATIONS of hub_client.py
  MaxBody,    \* the largest batch that is not answered with 413
  MaxRuns,    \* how many times the observer is launched (a bound)
  Faults      \* which of the faults below the environment produces

FaultKinds == {"crash",      \* the process dies at any point
               "refused",    \* 401, 403 or a certificate failure
               "other",      \* a status the table does not name, such as 404
               "disk",       \* an OSError when a file is written or moved
               "unlink",     \* an OSError when a file is deleted
               "read",       \* an OSError when a file is read
               "foreign",    \* a 200 that is not the hub's
               "errorbody"}  \* the connection breaks inside an error body

ASSUME ConstantsAssumption ==
  /\ Bad \subseteq Obs
  /\ Names \subseteq Nat
  /\ QueueMax \in Nat \ {0}
  /\ BatchMax \in Nat \ {0}
  /\ MaxBody \in Nat
  /\ MaxRuns \in Nat
  /\ Faults \subseteq FaultKinds

VARIABLES
  queue,      \* Uploader._q
  pc,         \* where the uploader thread stands
  batch,      \* what it took off the queue and has not written yet
  todo,       \* the rest of the pending() snapshot of this flush
  file,       \* the file being sent or split
  rest,       \* the second half while a file is split
  reply,      \* status of the last response
  halted,     \* stopped_reason is set
  deferred,   \* the clock is before retry_at
  mpc,        \* where the main thread stands
  mbatch,     \* what the main thread took off the queue while closing
  stopping,   \* the _stop event
  unsaved,    \* Market.unsaved: what the closing summary reports as not saved
  spool,      \* the spool directory; {} where there is no file of that name
  quar,       \* the observations in the quarantine directory
  late,       \* batches the uploader gave up on that may still reach the hub
  stored,     \* obs_id column of the hub's market_observations
  naming,     \* of each writer: where it stands in Spool.write
  name,       \* of each writer: the name it is about to give its file
  again,      \* the names a writer would read once more: nobody counted since
  observed,   \* history: what the sniffer has handed over
  dropped,    \* history: what queue_dropped counts
  vanished,   \* history: what was in memory when a process ended
  replaced,   \* history: what was in files that another of the name replaced
  runs        \* launches so far

uploader == <<pc, batch, todo, file, rest, reply, halted, deferred>>
closing  == <<mpc, mbatch, stopping, unsaved>>
disk     == <<spool, quar>>
hub      == <<late, stored>>
writing  == <<naming, name, again>>
history  == <<observed, dropped, vanished, replaced, runs>>
vars     == <<queue, uploader, closing, disk, hub, writing, history>>

-----------------------------------------------------------------------------
(***************************************************************************)
(* Helpers.                                                                *)
(***************************************************************************)
Pending == {n \in Names : spool[n] # {}}

OnDisk == UNION {spool[n] : n \in Names}

InMemory == ToSet(queue) \cup batch \cup mbatch

\* What the uploader can see of a response: the HTTP status, "network" for no
\* response at all, "tls" for a certificate failure.
Statuses == {"200", "network", "tls", "400", "401", "403", "404", "413", "429", "500"}

Classify(status) ==
  CASE status = "200"                   -> "ok"
    [] status \in {"tls", "401", "403"} -> "stop"
    [] status \in {"network", "500"}    -> "retry"
    [] status = "429"                   -> "wait"
    [] status = "413"                   -> "split"
    [] OTHER                            -> "quarantine"

\* The hub can store a batch: the body is not too large and every observation
\* passes the validation.
Accepts(b) == b \cap Bad = {} /\ Cardinality(b) <= MaxBody

UploaderAlive == pc \notin {"gone", "dead", "none"}

-----------------------------------------------------------------------------
(***************************************************************************)
(* Spool.write, which the uploader and the thread that closes share        *)
(* without a lock.                                                         *)
(***************************************************************************)
Writers == {"uploader", "closer"}

\* A thread is in Spool.write, or about to call it.
Writing(t) ==
  \/ t = "uploader" /\ pc \in {"write", "finalwrite", "split"}
  \/ /\ t = "uploader" /\ pc = "react"
     /\ Classify(reply) = "split" /\ Cardinality(spool[file]) >= 2
  \/ t = "closer" /\ mpc = "write"

\* The counter moves: a name read before is not read again.
Count(t) ==
  /\ Writing(t) /\ naming[t] = "no"
  /\ naming' = [naming EXCEPT ![t] = "counted"]
  /\ again' = {}
  /\ UNCHANGED <<queue, uploader, closing, disk, hub, name, history>>

\* The names of files, and those about to be given to one.
InUse == Pending \cup {name[t] : t \in {w \in Writers : naming[w] = "named"}}

\* A name nobody has sorts behind every other: it starts with the clock.
FreshName(n) ==
  /\ n \in Names
  /\ \A m \in InUse : m < n
  /\ \A k \in Names : k < n => \E m \in InUse : k <= m

\* The clock and the counter are read.  A writer that counted before the other
\* one read finds the counter where the other found it, and within the
\* millisecond the clock too.
TakeName(t) ==
  /\ naming[t] = "counted"
  /\ \E n \in Names :
       /\ n \in again \/ FreshName(n)
       /\ name' = [name EXCEPT ![t] = n]
       /\ again' = IF \E w \in Writers \ {t} : naming[w] = "counted" THEN {n} ELSE {}
  /\ naming' = [naming EXCEPT ![t] = "named"]
  /\ UNCHANGED <<queue, uploader, closing, disk, hub, history>>

\* Spool.write is over, with a file or with an OSError.
Leave(t) ==
  /\ naming' = [naming EXCEPT ![t] = "no"] /\ name' = [name EXCEPT ![t] = 0]
  /\ UNCHANGED again

\* os.replace: a file that has the name is gone.
PutFile(t, b) ==
  /\ naming[t] = "named"
  /\ spool' = [spool EXCEPT ![name[t]] = b]
  /\ replaced' = replaced \cup spool[name[t]]
  /\ Leave(t)

-----------------------------------------------------------------------------
(***************************************************************************)
(* The sniffer thread: MarketObserver.__call__ and Uploader.enqueue.       *)
(***************************************************************************)
Observe(o) ==
  /\ mpc = "run"
  /\ o \notin observed
  /\ observed' = observed \cup {o}
  /\ IF Len(queue) < QueueMax
       THEN queue' = Append(queue, o) /\ UNCHANGED dropped
       ELSE dropped' = dropped \cup {o} /\ UNCHANGED queue
  /\ UNCHANGED <<uploader, closing, disk, hub, vanished, runs, replaced, writing>>

-----------------------------------------------------------------------------
(***************************************************************************)
(* The uploader thread: Uploader.run, drain_queue, flush_pending, send_one *)
(* and react.  Every write to the disk and every request is a step of its  *)
(* own, so the other threads, the hub and a crash come in between.         *)
(***************************************************************************)
\* drain_queue: one item after another, while the other threads also use the
\* queue, up to BatchMax or until the queue is found empty.
Get ==
  /\ pc \in {"drain", "final"}
  /\ queue # <<>>
  /\ Cardinality(batch) < BatchMax
  /\ batch' = batch \cup {Head(queue)}
  /\ queue' = Tail(queue)
  /\ UNCHANGED <<pc, todo, file, rest, reply, halted, deferred, closing, disk, hub,
                 history, writing>>

Gathered ==
  /\ pc \in {"drain", "final"}
  /\ batch # {}
  /\ queue = <<>> \/ Cardinality(batch) >= BatchMax
  /\ pc' = IF pc = "drain" THEN "write" ELSE "finalwrite"
  /\ UNCHANGED <<queue, batch, todo, file, rest, reply, halted, deferred, closing,
                 disk, hub, history, writing>>

\* The queue stayed empty: for BATCH_WAIT_SEC in the loop, at once at the end.
Nothing ==
  /\ pc \in {"drain", "final"}
  /\ queue = <<>> /\ batch = {}
  /\ pc' = IF pc = "drain" THEN "flush" ELSE "gone"
  /\ UNCHANGED <<queue, batch, todo, file, rest, reply, halted, deferred, closing,
                 disk, hub, history, writing>>

Write ==
  /\ pc \in {"write", "finalwrite"}
  /\ PutFile("uploader", batch)
  /\ batch' = {}
  /\ pc' = IF pc = "write" THEN "flush" ELSE "final"
  /\ UNCHANGED <<queue, todo, file, rest, reply, halted, deferred, closing,
                 quar, hub, observed, dropped, vanished, runs>>

\* Mutant: the dropped batch is not counted.
WriteFailsUncounted ==
  /\ pc \in {"write", "finalwrite"} /\ "disk" \in Faults
  /\ batch' = {} /\ Leave("uploader")
  /\ pc' = IF pc = "write" THEN "flush" ELSE "gone"
  /\ UNCHANGED <<queue, todo, file, rest, reply, halted, deferred, closing,
                 disk, hub, history>>

\* An OSError: the batch is dropped and counted, and the last drain ends.
WriteFails ==
  /\ pc \in {"write", "finalwrite"}
  /\ "disk" \in Faults
  /\ dropped' = dropped \cup batch
  /\ batch' = {} /\ Leave("uploader")
  /\ pc' = IF pc = "write" THEN "flush" ELSE "gone"
  /\ UNCHANGED <<queue, todo, file, rest, reply, halted, deferred, closing,
                 disk, hub, observed, vanished, replaced, runs>>

\* The loop head of run(), where a flush returns to.
LoopHead == IF stopping THEN "final" ELSE "drain"

\* Mutant: the uploader waits in the flush until it may send again.
BeginFlushBlocking ==
  /\ pc = "flush"
  /\ IF halted \/ deferred
       THEN UNCHANGED <<pc, todo>>
       ELSE pc' = "next" /\ todo' = Pending
  /\ UNCHANGED <<queue, batch, file, rest, reply, halted, deferred, closing,
                 disk, hub, history, writing>>

\* flush_pending: nothing while halted or before retry_at, else a snapshot.
BeginFlush ==
  /\ pc = "flush"
  /\ IF halted \/ deferred
       THEN pc' = LoopHead /\ UNCHANGED todo
       ELSE pc' = "next" /\ todo' = Pending
  /\ UNCHANGED <<queue, batch, file, rest, reply, halted, deferred, closing,
                 disk, hub, history, writing>>

EndFlush ==
  /\ pc = "next"
  /\ todo = {} \/ stopping \/ halted
  /\ pc' = LoopHead
  /\ todo' = {}
  /\ UNCHANGED <<queue, batch, file, rest, reply, halted, deferred, closing,
                 disk, hub, history, writing>>

Oldest(n) == n \in todo /\ \A m \in todo : n <= m

\* The oldest file of the snapshot; the request leaves.
Post ==
  /\ pc = "next"
  /\ ~stopping /\ ~halted
  /\ \E n \in Names : Oldest(n) /\ file' = n /\ todo' = todo \ {n}
  /\ pc' = "posting"
  /\ UNCHANGED <<queue, batch, rest, reply, halted, deferred, closing, disk,
                 hub, history, writing>>

\* Spool.done: the file goes, or unlink fails and it stays.
Done(n) ==
  \/ spool' = [spool EXCEPT ![n] = {}]
  \/ "unlink" \in Faults /\ UNCHANGED spool

\* Spool.read swallows an OSError and returns no observation; send_one takes
\* that for an empty file and deletes it.
ReadFails ==
  /\ pc = "next"
  /\ "read" \in Faults
  /\ ~stopping /\ ~halted
  /\ \E n \in Names : Oldest(n) /\ Done(n) /\ todo' = todo \ {n}
  /\ UNCHANGED <<queue, pc, batch, file, rest, reply, halted, deferred, closing,
                 quar, hub, history, writing>>

\* classify_upload said "ok".
SendOk ==
  /\ pc = "react"
  /\ Classify(reply) = "ok"
  /\ Done(file)
  /\ pc' = "next"
  /\ UNCHANGED <<queue, batch, todo, file, rest, reply, halted, deferred, closing,
                 quar, hub, history, writing>>

\* Mutants: the file is deleted instead of moved; the file is left where it is.
QuarantineDeletes ==
  /\ pc = "react"
  /\ Classify(reply) = "quarantine"
  /\ spool' = [spool EXCEPT ![file] = {}]
  /\ pc' = "next"
  /\ UNCHANGED <<queue, batch, todo, file, rest, reply, halted, deferred, closing,
                 quar, hub, history, writing>>

QuarantineLeaves ==
  /\ pc = "react"
  /\ Classify(reply) = "quarantine"
  /\ pc' = "next"
  /\ UNCHANGED <<queue, batch, todo, file, rest, reply, halted, deferred, closing,
                 disk, hub, history, writing>>

\* Spool.quarantine: the file is moved, or the move fails and it stays.  A file
\* that split cannot halve, or cannot read, goes the same way.
Quarantine ==
  /\ pc = "react"
  /\ \/ Classify(reply) = "quarantine"
     \/ Classify(reply) = "split" /\ (Cardinality(spool[file]) < 2 \/ "read" \in Faults)
  /\ naming["uploader"] = "no"
  /\ \/ /\ quar' = quar \cup spool[file]
        /\ spool' = [spool EXCEPT ![file] = {}]
     \/ "disk" \in Faults /\ UNCHANGED disk
  /\ pc' = "next"
  /\ UNCHANGED <<queue, batch, todo, file, rest, reply, halted, deferred, closing,
                 hub, history, writing>>

\* Mutant: the original is deleted before the second half is written.
SplitFirstDeletes ==
  /\ pc = "react"
  /\ Classify(reply) = "split"
  /\ naming["uploader"] = "named"
  /\ \E half \in SUBSET spool[file] :
       /\ Cardinality(half) = Cardinality(spool[file]) \div 2
       /\ half # {}
       /\ spool' = [spool EXCEPT ![name["uploader"]] = half, ![file] = {}]
       /\ rest' = spool[file] \ half
  /\ replaced' = replaced \cup spool[name["uploader"]] /\ Leave("uploader")
  /\ pc' = "split"
  /\ UNCHANGED <<queue, batch, todo, file, reply, halted, deferred, closing,
                 quar, hub, observed, dropped, vanished, runs>>

\* Spool.split: the first half is written, then the second, then the original
\* is deleted.  A crash in between leaves observations in two files.
SplitFirst ==
  /\ pc = "react"
  /\ Classify(reply) = "split"
  /\ \E half \in SUBSET spool[file] :
       /\ Cardinality(half) = Cardinality(spool[file]) \div 2
       /\ half # {}
       /\ PutFile("uploader", half)
       /\ rest' = spool[file] \ half
  /\ pc' = "split"
  /\ UNCHANGED <<queue, batch, todo, file, reply, halted, deferred, closing,
                 quar, hub, observed, dropped, vanished, runs>>

SplitSecond ==
  /\ pc = "split"
  /\ PutFile("uploader", rest)
  /\ rest' = {}
  /\ pc' = "splitdone"
  /\ UNCHANGED <<queue, batch, todo, file, reply, halted, deferred, closing,
                 quar, hub, observed, dropped, vanished, runs>>

SplitDone ==
  /\ pc = "splitdone"
  /\ Done(file)
  /\ pc' = "next"
  /\ UNCHANGED <<queue, batch, todo, file, rest, reply, halted, deferred, closing,
                 quar, hub, history, writing>>

\* Nothing catches an OSError of a write inside split: the thread ends.
SplitFails ==
  /\ "disk" \in Faults
  /\ \/ pc = "react" /\ Classify(reply) = "split" /\ Cardinality(spool[file]) >= 2
     \/ pc = "split"
  /\ pc' = "dead" /\ Leave("uploader")
  /\ UNCHANGED <<queue, batch, todo, file, rest, reply, halted, deferred, closing,
                 disk, hub, history>>

\* react("stop"): the loop of flush_pending sees halted next.
Halt ==
  /\ pc = "react"
  /\ Classify(reply) = "stop"
  /\ halted' = TRUE
  /\ pc' = "next"
  /\ UNCHANGED <<queue, batch, todo, file, rest, reply, deferred, closing, disk,
                 hub, history, writing>>

\* react("wait") and react("retry"): retry_at moves ahead, the flush is over.
Defer ==
  /\ pc = "react"
  /\ Classify(reply) \in {"wait", "retry"}
  /\ deferred' = TRUE
  /\ todo' = {}
  /\ pc' = LoopHead
  /\ UNCHANGED <<queue, batch, file, rest, reply, halted, closing, disk, hub, history, writing>>

\* The monotonic clock reaches retry_at.
WaitOver ==
  /\ deferred /\ UploaderAlive
  /\ deferred' = FALSE
  /\ UNCHANGED <<queue, pc, batch, todo, file, rest, reply, halted, closing, disk,
                 hub, history, writing>>

-----------------------------------------------------------------------------
(***************************************************************************)
(* The hub and the network, while a request is under way.                  *)
(***************************************************************************)
Answer(status) ==
  /\ pc = "posting"
  /\ reply' = status
  /\ pc' = "react"
  /\ UNCHANGED <<queue, batch, todo, file, rest, halted, deferred, closing, disk, history, writing>>

\* observations(): one transaction, INSERT OR IGNORE on obs_id.
HubStores ==
  /\ Answer("200")
  /\ Accepts(spool[file])
  /\ stored' = stored \cup spool[file]
  /\ UNCHANGED late

\* The body limit comes before the validation of the observations.
HubRejects ==
  /\ pc = "posting"
  /\ ~Accepts(spool[file])
  /\ Answer(IF Cardinality(spool[file]) > MaxBody THEN "413" ELSE "400")
  /\ UNCHANGED hub

\* The rate limit, a failed transaction, the device's standing, a proxy.
HubRefuses ==
  /\ \E status \in {"429", "500"}
            \cup (IF "refused" \in Faults THEN {"401", "403", "tls"} ELSE {})
            \cup (IF "other" \in Faults THEN {"404"} ELSE {}) : Answer(status)
  /\ UNCHANGED hub

\* No response within TIMEOUT_SEC; the request may be lost or still on its way.
NetworkFails ==
  /\ Answer("network")
  /\ late' \in {late, late \cup {spool[file]}}
  /\ UNCHANGED stored

\* Response.ok takes any 200 without "ok": false for the hub's.
ForeignOk ==
  /\ "foreign" \in Faults
  /\ Answer("200")
  /\ UNCHANGED hub

\* e.read() of an HTTPError raises inside the handler: the thread ends.
ErrorBodyBreaks ==
  /\ "errorbody" \in Faults
  /\ pc = "posting"
  /\ pc' = "dead"
  /\ UNCHANGED <<queue, batch, todo, file, rest, reply, halted, deferred, closing,
                 disk, hub, history, writing>>

\* A request nobody waits for any more reaches the hub, or never does.
LateArrives(b) ==
  /\ b \in late
  /\ late' = late \ {b}
  /\ stored' \in IF Accepts(b) THEN {stored, stored \cup b} ELSE {stored}
  /\ UNCHANGED <<queue, uploader, closing, disk, history, writing>>

-----------------------------------------------------------------------------
(***************************************************************************)
(* The main thread: Market.start, _close_uploads with Market.request_stop  *)
(* and Market.close, and the end of the process.                           *)
(***************************************************************************)
\* A new process: nothing in memory, the spool directory as it was left.
Launch ==
  /\ mpc = "off"
  /\ runs < MaxRuns
  /\ runs' = runs + 1
  /\ mpc' = "run"
  /\ pc' = "drain"
  /\ UNCHANGED <<queue, batch, todo, file, rest, reply, halted, deferred, mbatch,
                 stopping, unsaved, disk, hub, observed, dropped, vanished, replaced, writing>>

RequestStop ==
  /\ mpc = "run"
  /\ stopping' = TRUE
  /\ mpc' = "join"
  /\ UNCHANGED <<queue, uploader, mbatch, unsaved, disk, hub, history, writing>>

\* Mutants: only a living thread makes the main thread drain the queue; the
\* join has no timeout.
JoinForAliveOnly ==
  /\ mpc = "join"
  /\ IF UploaderAlive
       THEN mpc' = "drain" /\ UNCHANGED unsaved
       ELSE mpc' = "closed" /\ unsaved' = {}
  /\ UNCHANGED <<queue, uploader, mbatch, stopping, disk, hub, history, writing>>

JoinForever ==
  /\ mpc = "join"
  /\ ~UploaderAlive
  /\ IF queue # <<>>
       THEN mpc' = "drain" /\ UNCHANGED unsaved
       ELSE mpc' = "closed" /\ unsaved' = {}
  /\ UNCHANGED <<queue, uploader, mbatch, stopping, disk, hub, history, writing>>

\* join returns because the thread has ended or because the budget is used up;
\* the queue is drained here if the thread lives or has left something.
Join ==
  /\ mpc = "join"
  /\ IF UploaderAlive \/ queue # <<>>
       THEN mpc' = "drain" /\ UNCHANGED unsaved
       ELSE mpc' = "closed" /\ unsaved' = {}
  /\ UNCHANGED <<queue, uploader, mbatch, stopping, disk, hub, history, writing>>

MainGet ==
  /\ mpc = "drain"
  /\ queue # <<>>
  /\ Cardinality(mbatch) < BatchMax
  /\ mbatch' = mbatch \cup {Head(queue)}
  /\ queue' = Tail(queue)
  /\ UNCHANGED <<uploader, mpc, stopping, unsaved, disk, hub, history, writing>>

MainGathered ==
  /\ mpc = "drain"
  /\ mbatch # {}
  /\ queue = <<>> \/ Cardinality(mbatch) >= BatchMax
  /\ mpc' = "write"
  /\ UNCHANGED <<queue, uploader, mbatch, stopping, unsaved, disk, hub, history, writing>>

MainWrite ==
  /\ mpc = "write"
  /\ PutFile("closer", mbatch)
  /\ mbatch' = {}
  /\ mpc' = "drain"
  /\ UNCHANGED <<queue, uploader, stopping, unsaved, quar, hub, observed, dropped, vanished, runs>>

\* drain_queue returned None: the loop of close() ends and counts the queue.
MainWriteFails ==
  /\ mpc = "write"
  /\ "disk" \in Faults
  /\ dropped' = dropped \cup mbatch
  /\ mbatch' = {} /\ Leave("closer")
  /\ unsaved' = ToSet(queue)
  /\ mpc' = "closed"
  /\ UNCHANGED <<queue, uploader, stopping, disk, hub, observed, vanished, replaced, runs>>

MainNothing ==
  /\ mpc = "drain"
  /\ queue = <<>> /\ mbatch = {}
  /\ unsaved' = {}
  /\ mpc' = "closed"
  /\ UNCHANGED <<queue, uploader, mbatch, stopping, disk, hub, history, writing>>

\* What the death of the process takes with it; a request the uploader was
\* waiting for may still be on its way.
Die ==
  /\ vanished' = vanished \cup InMemory
  /\ queue' = <<>>
  /\ pc' = "none"
  /\ batch' = {} /\ todo' = {} /\ rest' = {} /\ mbatch' = {} /\ unsaved' = {}
  /\ halted' = FALSE /\ deferred' = FALSE /\ stopping' = FALSE
  /\ mpc' = "off"
  /\ naming' = [t \in Writers |-> "no"] /\ name' = [t \in Writers |-> 0] /\ again' = {}
  /\ \/ UNCHANGED late
     \/ pc = "posting" /\ late' = late \cup {spool[file]}
  /\ UNCHANGED <<file, reply, disk, stored, observed, dropped, replaced, runs>>

\* The program returns; the uploader is a daemon thread and ends with it.
End ==
  /\ mpc = "closed"
  /\ Die

Crash ==
  /\ "crash" \in Faults
  /\ mpc # "off"
  /\ Die

-----------------------------------------------------------------------------
Init ==
  /\ queue = <<>>
  /\ pc = "none" /\ batch = {} /\ todo = {} /\ file = 0 /\ rest = {}
  /\ reply = "network" /\ halted = FALSE /\ deferred = FALSE
  /\ mpc = "off" /\ mbatch = {} /\ stopping = FALSE /\ unsaved = {}
  /\ spool = [n \in Names |-> {}] /\ quar = {}
  /\ late = {} /\ stored = {}
  /\ naming = [t \in Writers |-> "no"] /\ name = [t \in Writers |-> 0] /\ again = {}
  /\ observed = {} /\ dropped = {} /\ vanished = {} /\ replaced = {} /\ runs = 0

Sniffer == \E o \in Obs : Observe(o)

Deliver == SendOk \/ Quarantine \/ SplitFirst \/ SplitSecond \/ SplitDone \/ Halt \/ Defer

UploaderStep ==
  \/ Get \/ Gathered \/ Nothing
  \/ Count("uploader") \/ TakeName("uploader") \/ Write \/ WriteFails
  \/ BeginFlush \/ EndFlush \/ Post \/ ReadFails
  \/ Deliver \/ SplitFails

HubAnswers == HubStores \/ HubRejects

Environment ==
  \/ HubAnswers \/ HubRefuses \/ NetworkFails \/ ForeignOk \/ ErrorBodyBreaks
  \/ \E b \in late : LateArrives(b)

MainDrain ==
  \/ MainGet \/ MainGathered \/ MainNothing
  \/ Count("closer") \/ TakeName("closer") \/ MainWrite \/ MainWriteFails

MainCloses == RequestStop \/ Join \/ MainDrain

Next ==
  \/ Sniffer \/ UploaderStep \/ WaitOver \/ Environment
  \/ Launch \/ MainCloses \/ End \/ Crash

Spec == Init /\ [][Next]_vars

\* The thread that closes runs.  Nothing is assumed of the uploader, which may
\* hang in a request or a write for as long as it likes.
CloserIsFair == WF_vars(Join \/ MainDrain)

\* The uploader thread is scheduled, a request ends (TIMEOUT_SEC), the clock
\* goes on, and the hub does decide about a batch it is asked about for ever.
UploaderIsFair ==
  /\ WF_vars(UploaderStep)
  /\ WF_vars(WaitOver)
  /\ WF_vars(HubAnswers \/ HubRefuses \/ NetworkFails)
  /\ SF_vars(HubAnswers)

-----------------------------------------------------------------------------
(***************************************************************************)
(* Type invariant and properties.                                          *)
(***************************************************************************)
\* What a file name in `file` stands for while it is sent or split.
Sending == pc \in {"posting", "react", "split", "splitdone"}

\* Every variable has its type, the queue keeps to QUEUE_MAX, and there is a
\* current file while one is sent or split.
TypeOK ==
  /\ queue \in Seq(Obs) /\ Len(queue) <= QueueMax
  /\ pc \in {"none", "drain", "write", "flush", "next", "posting", "react",
             "split", "splitdone", "final", "finalwrite", "gone", "dead"}
  /\ batch \subseteq Obs /\ todo \subseteq Names /\ file \in Names \cup {0}
  /\ Sending => file \in Names
  /\ rest \subseteq Obs /\ reply \in Statuses
  /\ halted \in BOOLEAN /\ deferred \in BOOLEAN
  /\ mpc \in {"off", "run", "join", "drain", "write", "closed"}
  /\ mbatch \subseteq Obs /\ stopping \in BOOLEAN /\ unsaved \subseteq Obs
  /\ spool \in [Names -> SUBSET Obs] /\ quar \subseteq Obs
  /\ late \subseteq SUBSET Obs /\ stored \subseteq Obs
  /\ naming \in [Writers -> {"no", "counted", "named"}]
  /\ name \in [Writers -> Names \cup {0}] /\ again \subseteq Names
  /\ \A t \in Writers : naming[t] = "named" => name[t] \in Names
  /\ observed \subseteq Obs /\ dropped \subseteq Obs /\ vanished \subseteq Obs
  /\ replaced \subseteq Obs /\ runs \in 0..MaxRuns

\* The parts of the inductive invariant behind the theorems: the snapshot of a
\* flush names files that exist until the stop, and the current one no more;
SnapshotIsPending ==
  /\ ~stopping => todo \subseteq Pending
  /\ Sending => file \notin todo

\* while a file is sent or split it exists, and after a 200 the hub has it;
AnswerIsTrue ==
  /\ Sending => spool[file] # {}
  /\ pc = "react" /\ reply = "200" => spool[file] \subseteq stored

\* while it is split, its observations are in the halves;
Elsewhere == UNION {spool[n] : n \in Names \ {file}}

HalvesAreWritten ==
  /\ pc = "split" =>
       rest \subseteq spool[file] /\ spool[file] \subseteq rest \cup Elsewhere \cup replaced
  /\ pc = "splitdone" => spool[file] \subseteq Elsewhere \cup replaced

\* nobody is between counting and replacing who does not write; the thread that
\* closes writes after the stop only, so before it every name taken is free; and
\* nobody has or reads again the name of a file that is sent or split;
NamesAreApart ==
  /\ \A t \in Writers : naming[t] # "no" => Writing(t)
  /\ mpc = "off" => pc = "none"
  /\ mpc \in {"join", "drain", "write"} => stopping
  /\ ~stopping =>
       again = {} /\ \A t \in Writers : naming[t] = "named" => spool[name[t]] = {}
  /\ Sending => file \notin again /\ \A t \in Writers : naming[t] = "named" => name[t] # file

\* nothing is kept or sent that was not observed;
NothingInvented ==
  /\ InMemory \cup OnDisk \cup rest \cup replaced \subseteq observed
  /\ late \subseteq SUBSET observed

\* and a flush runs only while nothing holds it back.
FlushIsAllowed ==
  /\ pc = "next" \/ Sending => ~deferred
  /\ Sending => ~halted

\* No observation disappears but in one of three ways: it is in memory, on the
\* disk, in the quarantine or in the hub, or it was counted as dropped, or a
\* process died while it was in memory, or its file was replaced by another of
\* the same name (spool.py, "at least once"); the last is on no record of the
\* program, and DeletedOnlyWhenSafe is about it.
LossIsAccounted ==
  observed \subseteq
    InMemory \cup OnDisk \cup quar \cup stored \cup dropped \cup vanished \cup replaced

\* An observation leaves the disk only when the hub has it or the quarantine
\* has: through a crash, a split, a lost answer or a failing unlink, no step
\* may delete the last copy of one that is in neither.  What the uploader and
\* the thread that closes write at once is the exception, and no file but one of
\* theirs is: a file is replaced only after the stop, and never the one that is
\* being sent or split.
DiskReleasedOnlyWhenSafe ==
  [][/\ OnDisk \ OnDisk' \subseteq stored' \cup quar' \cup replaced'
     /\ replaced' # replaced => stopping /\ (Sending => spool'[file] = spool[file])]_vars

\* No request is under way while the uploader is halted or before retry_at: a
\* flush that hears "wait" or "retry" ends at once (spool.py:251-259).
NoRequestWhileHeldBack == pc = "posting" => ~halted /\ ~deferred

\* Once closed, and the uploader thread over, every observation still in
\* memory is in the number the closing summary reports (agent.py:311).
ExitIsAccounted == mpc = "closed" /\ ~UploaderAlive => InMemory \subseteq unsaved

\* The upload path is an at-least-once delivery; what is given up is all on
\* record but for a file another of the same name replaced.
D == INSTANCE Delivery WITH
       accepted <- observed,
       kept     <- InMemory \cup OnDisk,
       lost     <- dropped \cup vanished \cup quar \cup replaced

ImplementsDelivery == D!DSpec

\* While the uploader runs, what is on the disk of an observer that stays up
\* and is not halted is eventually stored or quarantined, whatever the earlier
\* runs left behind and however often the answer is lost, 429 or 500.
SpooledIsSettled ==
  UploaderIsFair /\ <>[](mpc = "run" /\ ~halted) =>
    \A o \in Obs : o \in OnDisk ~> o \notin OnDisk

\* While the uploader runs, what an observer that stays up holds in memory
\* reaches the disk or is counted, even when the uploads are halted for good.
MemoryReachesDisk ==
  UploaderIsFair /\ <>[](mpc = "run") =>
    \A o \in Obs : o \in InMemory ~> o \notin InMemory

\* Closing never waits for the uploader: it ends although the uploader may hang
\* in a request or a write for ever (agent.py:326-351).
StopIsPrompt == stopping ~> mpc \in {"closed", "off"}

\* What doc comments say and the code does not do; see the README.
\* hub_client.py:72: a request never raises, so the thread survives the run.
UploaderSurvives == mpc = "run" => UploaderAlive

\* spool.py:5: a file is deleted after a 200 only (and moved after a 400).
DeletedOnlyWhenSafe == [][OnDisk \ OnDisk' \subseteq stored' \cup quar']_vars

=============================================================================
