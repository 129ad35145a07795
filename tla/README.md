# Verification of YukTracker and its hub

YukTracker watches the network traffic of a game, recognises the pages of its
market, and uploads what it saw to a hub, which keeps one row per listing and
serves it to consumers. This directory holds TLA+ models of the program,
configurations for TLC, and theorems checked by TLAPS. `PROJECT.json` maps every
definition to the lines it models and lists the runs, mutants, findings,
hazards and theorems.

## Inventory

| component | state | operations | interacts with |
|---|---|---|---|
| packet engine (`seassist/packet_state_source.py`) | thread, handle, followed connections, published states, epochs | discover, capture, re-open, housekeeping, dispatch, stop | flow map, decoder, market and satong callbacks |
| flow decoder and framer (`seassist/gersang_protocol.py`) | next sequence number, parked segments, age of a hole; framing buffer | feed, park, drain, skip, resynchronise | engine |
| flow map (`seassist/tcp_flow_map.py`) | none | which connections belong to which process, which processes are ambiguous, the servers | engine |
| discovery recorder (`seassist/packet_discovery_ledger.py`) | recording window, limits, files | open, note, label, close, automatic stop | engine, agent |
| market observer (`market_observer.py`) | counters, item names | a callback per page, recheck of the name table | engine, uploader |
| spool and uploader (`spool.py`) | queue, spool directory, quarantine, back-off, halted, stop | enqueue, drain, flush, send, split, quarantine, react | hub through `hub_client.py` |
| satong observer and uploader (`satong_observer.py`) | its own queue and spool; groups files into a request | the same, several files per request | hub |
| hub client (`hub_client.py`) | none | one request; classification of its response | uploader, set-up |
| agent (`agent.py`) | threads, collection window, closing budget | start, tick, console line, close, console close | all of the above |
| set-up and configuration (`hub_setup.py`, `app_config.py`) | saved token and addresses | register, pair, save | hub client |
| item names (`item_names.py`) | table and its cache file | load, look up | observer |
| hub database (`hub/db.py`) | observations, listings, learned names, devices, satong | insert, list, search, prune, register, revoke | server, `devices.py` |
| hub server (`hub/server.py`) | rate limiters, configuration | authorise, validate, upload, register, poll, retention loop | database |
| device administration (`hub/devices.py`) | none: a second process on the database | revoke, unrevoke, alias, note | database |

Hard behaviour: four threads share the observer (capture, uploader, console,
main) and the queue has two consumers while the program closes; requests are
lost, answered late and repeated; files survive crashes in every intermediate
state; observations reach the hub late and out of order; two processes write one
database; holes and overlaps of a TCP stream are resolved against a clock.

What makes each component correct: the uploader loses nothing silently, deletes
only what the hub or the quarantine has, keeps quiet while it is held back,
makes progress and closes promptly; the tables show what was seen last, count
each observation once, and the cursor misses nothing; a slot has one active
device; the decoder delivers bytes in order and once and the
framer misses no frame; the recorder keeps its limits and its file tells the truth; the
engine recovers and publishes what was said; a shout heard by many is one row, read
once; names follow the archives of the game; a token is not lost; and what is in
memory is saved before a closed console is killed.

## Modules

| module | models | role |
|---|---|---|
| `Delivery` | what the upload path promises | abstract specification |
| `SpoolUploader` | `spool.py`, upload of `hub_client.py`, `Market` of `agent.py`, the hub as a client sees it | detailed specification |
| `SpoolUploaderProofs` | | invariant, refinement of `Delivery`, the summary at the end; names of `SpoolNames`, queues of `Closing` |
| `SpoolNames` | `Spool.write` with several threads: counter, clock, file | specification |
| `Closing` | the end of the program: `finally` and console handler of `agent.py`, `stop` of the engine, two uploaders, in seconds | specification |
| `ItemNames` | `item_names.py`, `ItemNames` of `market_observer.py`, archives others write | specification |
| `Satong` | `satong_observer.py`, the satong part of `hub/db.py` and `hub/server.py`, a reader | specification |
| `SatongProofs` | | invariant, the spool, the reader, offline, rows and shouts |
| `SetUp` | `app_config.py`, `hub_setup.py`, registration of `hub_client.py` | specification |
| `FilesProofs` | | stamps of `ItemNames` are true; tokens and saves of `SetUp` |
| `Expiry` | the expiry bounds and filter of `hub/db.py` | operators |
| `HubListings` | the market tables of `hub/db.py`, upload and listing handlers and retention loop of `hub/server.py`, a polling consumer | specification, extends `Expiry` |
| `RateLimiter` | `RateLimiter` of `hub/server.py` | operators on its state |
| `HubDevices` | registration, authorisation, rate limits of `hub/server.py`, the devices of `hub/db.py`, the commands of `hub/devices.py` | specification, extends `RateLimiter` |
| `HubProofs` | | `HubDevices`: invariant, limits, registry; `HubListings`: invariant of the tables, counting, polling, expiry |
| `FlowDecoder` | `FlowDecoder` of `gersang_protocol.py` | specification |
| `FlowDecoderProofs` | | invariant, an unbroken stream, nothing held back |
| `StreamFramer` | `StreamFramer` of `gersang_protocol.py`, `find_boundary` of the offline tools | specification |
| `Stream` | the decoder that feeds the framer | composition of the two |
| `StreamProofs` | | framer: invariant, true to the stream, nothing missed, the search complete, the offline tools begin there; the same behind the decoder |
| `PacketEngine` | the thread of `packet_state_source.py`, `tcp_flow_map.py`, what `agent.py` tells the user of it | specification |
| `PacketEngineProofs` | | invariant, what is published |
| `DiscoveryRecorder` | `packet_discovery_ledger.py`, the collection window of `agent.py` and its two closers | specification |
| `DiscoveryRecorderProofs` | | invariant, the gate, the file |
| `MC...` | | instances for TLC; some put two or three parts side by side |

### SpoolUploader

`queue` is `Uploader._q`; `pc`, `batch`, `todo`, `file`, `rest`, `reply` are the
program counter and locals of the uploader thread (`batch` of `drain_queue`, the
snapshot of `flush_pending`, the path of `send_one`, the second half of
`split`); `halted` is `stopped_reason`, `deferred` says that the clock is before
`retry_at`; `mpc`, `mbatch`, `stopping`, `unsaved` belong to the main thread
(`Market.close`); `spool` and `quar` are the directories; `late` and `stored`
are requests still under way and the hub's observations. `observed`, `dropped`
and `vanished` are history.

A batch is a set of observations and a file name a number. `Spool.write` takes no lock:
the counter moves (`Count`), the name is read (`TakeName`), and `os.replace` puts the file
in its place (`Write`, `MainWrite`, `SplitFirst`, `SplitSecond`), whatever stands there. `naming` and `name` are where each of
the two writers is, `again` is the name the other reads too if it counted before
the first had read and does so within the millisecond, and `replaced` (history) is what was in files that
another of the name replaced. A name is else larger than every pending one and every
one about to be given to a file. Each queue operation, file operation and request is a
step, so the sniffer, the main thread, the hub and a crash come in between.
`Faults` names what the environment may do wrong: crash, refusal (401, 403,
certificate), other statuses, a failing write, unlink or read, a 200 that is not
the hub's, an error body that breaks. `_retry_after`, the lengths of back-offs
and waits are abstracted to "before `retry_at` or not". Tests of the repository
drive `drain_queue`, `send_one` and `flush_pending` one after another in one
thread; the interleavings here have none.

Assumed: the capture thread has ended when closing starts (`engine.stop()` joins
it; with a capture thread that outlives its join, what it hands over while the
program closes is on the queue of a program about to end), and the wall clock
is not set back. The closer of the model stands for whichever thread closes the program, the
main thread or the handler of the console; they do not close at once here (`Closing` has
both).

### HubListings

`rows`, `ids`, `learned` are the three market tables; `cursor` and `got` are the
consumer's. An upload with one observation is one transaction. What an
observation says (clock, listings, whether the item could be named) is chosen
when it is sent first and never changes; it may be sent again at any later time.
The clock of the hub ticks in units that stand for days; `Ahead` is how far an
accepted clock may be ahead. A row's state columns are those of the observation
`by`. All rows are of one item, so that they share an entry of `learned`.

### RateLimiter and HubDevices

A limiter is a record of the window of each key and the time of the last sweep;
`Hit` is what `RateLimiter.hit` leaves, `Wait` what it answers. `Second` ticks
make a second, so that rounding up matters.

`devices` is the table in the order of its rows, `requests` the requests whose
body the hub awaits: `RegisterArrives` reads the clock, `Register` and
`RegisterFails` come after the await; `UploadArrives` checks the standing,
`UploadEnds` comes after the await. `cli` is what `devices.py`, a process of its
own, has looked at and not yet written. A restart of the hub empties requests
and limiters. `passed`, `under`, `restored` and `named` are history. Two identical
requests that arrive at one instant count as one.

Left out: labels, notes, counts of uploads, the secret of the management routes
and the limit on failed authorisation.

### FlowDecoder

`dec` is the decoder: the number expected next, the pending segments in the
order of the dict, their bytes, and `_gap_since`. `out` is what the framer was fed
since it was reset; a byte is its position in the sender's stream, and its
sequence number is that position shifted and reduced modulo `Mod`. A segment may
be any piece of the stream at any time, within `Window` of where the capture is:
TCP sends nothing further away. `Window` and `MaxSegment` together are at most half
of `Mod` (in TCP a quarter and a few kilobytes of 2^32): a drain can get ahead of what
is still pending by both, and beyond half a turn `_seq_delta` would take what lies
behind for what lies ahead. `DrainAll` is the loop of `_drain`, as many rounds
(`DrainOne`) as there are segments pending. The clock ticks between segments only,
as `feed_segment` is given it.

### StreamFramer and Stream

`framer` is the parser: the bytes not consumed, what is to be skipped, `locked`, the
two places where the searches go on, the back-off (`gap`, `since`, `last` are
`_scan_gap`, `_bytes_since_scan`, `_last_scan_ts`), and what is known of the frame
before for the popups. `told` is what was reported: events, pages and popups alike,
with the body if it was handed on. A symbol stands for a field of the header: a
frame is its length, the magic, its opcode, and a body of symbols that may look
like a header. `FeedPiece` is one call of `feed`, with `Loop` its loop; `Deliver`
feeds the next piece of the stream, `Hole` one from further on to a framer that was
reset. `FindLock`, `EnterAnchor`, `PopupAnchor`, `ChainStart` are the four searches,
each with what it remembers. `told` is compared with the true beginnings of the
frames of the stream (`starts`), which only the model knows; `IsStream` says what they are:
from one of them on the stream is frame after frame, each with a valid header.

A framer without a lock searches what it has on every piece, but goes on behind what it
has refused (`scanFrom`, `anchorFrom`), puts the scan off while it finds nothing, and
drops bytes. `SearchIsComplete` compares it with a search of everything. `OfflineAgrees` compares the
step that ends the search with `FindBoundary`, what the offline tools do with the same bytes
read from a file: they begin where the framer did, or earlier if its scan was put off.
One case differs, and the property says so: a framer that has dropped bytes takes a
popup at the head of what is left; the tools look for one at the head of the file.

`Stream` puts `FlowDecoder` in front: what the decoder adds to `out` is what the framer
is fed, after a hole with a reset. What a segment releases from the pending ones
is fed in one piece, where the code feeds segment by segment, with the time each was parked
(`gersang_protocol.py:1600`); `NothingMissed` says that the cut makes no difference.

Left out: observation queues and their bounds, counters, word input and retained
bodies (both off in the agent), statuses that are waited for like the pages.

### Satong

`pc` is a PC: `recent` its `SatongObserver`, the rest its `SatongUploader` with the queue
and the files, where `job` is the program counter: `idle`, in the loop of
`flush_pending`, after a refusal sending the files of a group alone, deleting the
files of a group, or kept by a request. `hub` holds rows, ids with their times, the
next id and the last heartbeats, `reader` the consumer. A request and its answer
are one step; an answer may be lost after the hub stored what was sent, and a
request may take long. Names of files are left out, for they sort (`SpoolNames`): a
spool is the sequence of its files, and a flush knows how many of the oldest it has
tried in vain to delete or set aside (`tried`) and how many are still to do (`todo`). The same
`Spool` writes the files: that two writers at closing may take one name is the matter of
`SpoolUploader` and `SpoolNames`; the PCs here crash, and nobody closes them. `Outcome` is what the
observer makes of the hub's answer: a body that is too large is a 413, and what was in it is sent
alone or in halves; too many messages, or one out of the range of clocks, are a 400, and the
file goes to the quarantine (`Unfit`). `HubLimits` are the two limits, the first
counted in messages like the second. `skew` is how far the clock
of a PC is ahead. Everything an uploader can do now is done before the clock ticks
(`Resting`): the loop takes two seconds, the times of the properties are a minute. What
a client hears while its PC is down is lost, as in the program.

Left out: servers (all shouts are of one), the text of shouts, the slots allowed to
send, what the collector row says but that it came; that the hub reads its clock before
it awaits the body (`server.py:749`), so that a slow upload is stored with an older
time; and a spool file that can be neither read nor deleted, which holds
heartbeats back as long as it is there (`satong_observer.py:183`, `:235`).

### ItemNames

`archive` is what stands at each path, `cache` the file beside the configuration,
`table` and `gcs` the `ItemNames` of the observer. `reader` is where
`load_item_table_result` stands: each `stat` and read is a step, and others write
archives in between, in full or in part, with a new time (`Patch`) or the old one of
another folder (`Restore`). A build is a string of cells, some of which begin zlib
streams, so that `iter_zlib_streams` and the second pass of
`extract_item_table_bytes` find what they find. `Restore` does not happen while an
archive is read: within that moment the same size and time could not be told from
no change.

### SetUp

`config` is the file, `cfg` what each observer has in memory, `stage` where its
set-up stands, `asked` and `answers` the requests and answers on the way. Tokens
are numbered as the hub gives them out; only the newest is known to it, since one
invite code is one slot. `blind` says whose memory does not agree with the file:
it could not be read, or another has written it since. `gone` holds the newest token
when a reason is known why nobody has it. Both are history.

### SpoolNames

The steps of `Spool.write`: the counter is raised, the clock is read, the counter
is read again for the name, the file is put in place or not. Several threads take
them in any order, the clock is set back, processes end. `begun` and `nth` of a name say which writes had
begun when its counter was read, and which it is. `NamedInOrder` has two parts: a name is
behind those of the files that were there when its write began (`BehindThePast`), so it replaces
none of them; and of all files and names on their way to one, two are the same only if
they were written at once (`SameOnlyAtOnce`). The second may happen, and then one file takes the place of the other:
that is what `TakeName` of `SpoolUploader` does with two writers, and what `same_name` shows.

### Closing

Seconds pass only when every thread waits. `cpc`, `due`, `which` say where the main
thread in its `finally` and the handler of the console are in closing the window,
stopping the engine and closing the bundles, and until when they wait. `up` and
`until` are the uploader threads: draining, in a request that takes `PostTimes`
seconds, rereading the item names, in their last drain. `Grace` is what Windows
leaves the handler. The window's writer and the sniffer may use up their whole
joins (`slow`).

### PacketEngine

`epc` is where the thread is: in `_discover`, opening, before and in the loop of
`_capture`, in the events of a segment, in a callback, in housekeeping, closing,
waiting to retry, over. `pids` and `table` are what the last look at processes and
connections found, `flows` and `misses` are `flow_map` and `flow_miss`, `filter` is
the hosts of the BPF filter, `states`, `generations`, `battle_ids` what is
published. `running` and `conns` are the world the engine looks at; a look may
fail to see the processes or the connections. `tracked` is the health counter
that `_capturing` of `agent.py` reads. `spent` and `over` are history: what was
withdrawn.

A slot is its process, since `PidIndexer` never gives a number again. What the
decoder reports of a segment is chosen: events, none, and that bytes were lost before,
between or behind them. `_on_packet` asks once whether the feed lost something,
withdraws what was published, and then publishes all events of the feed, those before
the loss too. So `Segment` withdraws, `event.ahead` says that the loss lies behind the next event, and
`lost` of a flow says where the last loss was to what it said last: before, within the feed that
said it, or since. `StateIsSaid` holds but for the second; `StateIsHeard`, without that
exception, does not (`torn`). Steps of the thread are as fine as what others can see: a state is
`pending` from before the battle callback to after it, and `stop` may come
between any two steps. The test of `_stop_event` is one step with the read or wait
before it. `Quiet` lets a watchdog's time pass; it happens where the loop reads the
clock. Segments of the second port only go to a tap and change nothing here.

Left out: market, satong, party, fullness and word-input observations, repeated
alarms, health counters, that a device captures one of several interfaces, and
`start` after `stop`, which `agent.py` never does. The states have no reader in
this program but its messages; they are the contract of the engine as a library.

### DiscoveryRecorder

`active`, `window_open`, `reason` are `_active`, `_window_open`,
`_auto_stop_reason`; `q` is the queue, `segs`, `aux_segs`, `dropped`, `aux_dropped` the
counters; `ready`, `stop`, `terminal`, `errors` the `_WriterState` of the window;
`wpc` is where `_writer_loop` is, `exists` and `file` what it has made, `end` the
terminal row. `window` is `state["window"]`, `mpc` is where the main thread is in
`_open_window`, `begin_window` and the loop of `run`, and `cpc` where the main
thread and the handler of the console are in `close_window` and `end_window`.
`admitted` is the history of the queue.

What happens under `_lock` is one step; everything else that another thread can
see between is a step of its own: the time-out of `q.get` and the look at the
stop event, an error noted in the `_WriterState` and the gate shut for it, the
clock read without the lock and `_auto_stop`, the look at `state["window"]` and
its clearing. Setting the stop event and putting the sentinel are one step. A
row is its kind, a segment has one byte. `Faults`: a file that cannot be opened,
written, flushed or deleted; that opening or writing takes longer than a
`wait` or `join` allows is always possible. Main thread and handler race to the
end of the process (`Exit`), and the daemon writer ends with it.

Left out: a second window in one process (the agent opens one), the choice of a
file name, what rows contain, `status()`. In the moment between the success of
`begin_window` and `state["window"] = True` nobody would close the window: then the
file has no terminal row. Nor has it one if the main thread, which finds
`state["window"]` cleared by the handler, ends the process while the handler still
waits for the writer.

## Runs

Some runs have parts side by side that share no variable: a behaviour is one of
either, and the other keeps still (`part` in the MC module), so each is explored
as if alone.

Passing runs:

| run | asks |
|---|---|
| `delivery` | Does the upload path implement `Delivery`, lose nothing silently and delete no last copy, through two launches with crashes, refusals, failing writes and deletes, and is what a closed program holds in memory in its summary? Do names written by several threads sort (`SpoolNames`)? Are the queues of two uploaders on disk within the grace of a closed console (`Closing`)? |
| `live` | Is what is on the disk settled, does memory reach the disk even when uploads are halted, and does closing end although the uploader hangs? Does the table of item names tell the truth about its archive and follow a patch (`ItemNames`)? |
| `listings` | Do rows and names show what was seen last, is each observation counted once, does the search agree with the expiry, and does the consumer get every row that did not change behind its cursor? |
| `capture` | Is the framer fed an unbroken piece of the stream and nothing held back that could be fed (`FlowDecoder`)? Does it miss no frame after the first and judge no byte twice, however the bytes are cut, and does its search find what is there (`StreamFramer`, `Stream`)? Is what is published what a connection still followed said last, under a new epoch, and is a healthy connection left alone (`PacketEngine`)? |
| `engine_live` | Does the engine recover, does the user learn of the end of a connection, does a stop end the thread? |
| `recorder` | Is nothing collected for a writer that is gone, does the file hold the first rows admitted and its last row say the truth although two threads close the window, and does the window close whatever the writer does? |
| `hub` | Is a slot held once and its name handed on, and do the limits keep their bound and their word, with registrations that overlap (`HubDevices`)? Is a token the hub gave never lost without a reason, and does a save take nothing away (`SetUp`)? Is a row a shout, does nothing leave a spool unstored that the hub would take, is the reader given every row once, and is a PC taken for offline only with a reason (`Satong`)? |

Runs that end in a violation show where the code departs from what its comments
and documents say:

| run | shows |
|---|---|
| `read_error` | a file that cannot be read is deleted as empty (`spool.py:210` against `spool.py:5`) |
| `error_body` | an error body that breaks ends the uploader thread (`hub_client.py:78` against `:72`) |
| `recorder_end` | rows counted by the last row of the file are not in it (`packet_discovery_ledger.py:608` against `:353`): the writer's `q.get` times out, rows are put and the window is closed, and the writer, seeing the stop event, does not look at the queue again |
| `same_name` | two threads that write at closing take one name, and one file replaces the other (`spool.py:58` and `:64` against `:5`): both count, both read the clock and the counter within a millisecond |
| `torn` | an "in" is published, and kept, behind which its own feed lost bytes (`packet_state_source.py:729` to `:757` against `:730`): what was published before the feed is withdrawn, the events of the feed are published after that |

Differences seen while modelling that have no run of their own:

- an offline replay may begin later than the observer, or nowhere, when that began at a
  popup behind bytes it had dropped (`gersang_protocol.py:765` against `:752`, "so that
  offline replay does not deviate from live"); `OfflineAgrees` says what holds;
- a row that changes at a time before the consumer's cursor is not delivered
  (`db.py:502` against `HUB-PROTOCOL.md:261`, "without missing a row");
  `DeliveredUnlessBehind` says what holds;
- an observer whose token the hub no longer knows (401) is told to start again with
  `--invite-code` (`hub_client.py:234`, `docs/DEPLOY.md:134`); `ensure_registered`
  returns at once when there is a token (`hub_setup.py:57`), so the code is not used;
- any 200 counts as the hub's, and the file is deleted (`hub_client.py:47` against
  `spool.py:5`);
- a batch the uploader thread has taken off the queue is not in the closing
  summary (`agent.py:349` against `:311`); `ExitIsAccounted` says what holds;
- closing may wait one second for the window's writer, two for the sniffer and
  three for the uploaders, six together, where the console has about five
  (`agent.py:79`, "its files have to be written within it"); `SavedInGrace` speaks of
  endings in which the first two leave the budget alone;
- the handler of the console is removed before the main thread begins to close
  (`agent.py:566`): a console closed after that ends the process at once, with
  what the queues hold;
- an uploader that is stopped may still begin to reread the item names, which a
  stop does not shorten (`market_observer.py:70`);
- if a file of a group cannot be read, the group is sent without it and it is
  deleted with the others (`satong_observer.py:183`), the same as `read_error`;
- a table found in one archive is kept when the observer is started while the
  client folder is missing; it is never rechecked then (`market_observer.py:77`);
- a row without a name is named by an older observation that arrives later, and
  a row keeps an older name if newer observations had none (`db.py:215`);
- with an observer's clock ahead of the hub, a resend passes the range check
  after its id was pruned and is counted again (`db.py:651` against
  `HUB-PROTOCOL.md:100`; the same for shouts, `db.py:637` against `:27`); `CountedOnce`
  and the count in `RowsAreShouts` leave out rows with such an observation;
- the age of a hole is inherited by a hole that remains behind it
  (`gersang_protocol.py:1603`), so the second is given up early;
- the limit of a slot also counts first registrations and failed storage
  (`server.py:673` against `HUB-PROTOCOL.md:36`, "only successful replacements");
- the time of a registration is read before its body is awaited, so the name a
  slot hands on may be that of the device registered first, if an administrator
  let two hold the slot (`db.py:378` against `:382`).

### Bounds

Upload path: two or three observations, one of which the hub refuses, a queue
of one or two, batches of two and bodies of one or two, so that queues overflow,
batches are split, and quarantine, split and storage meet. Two launches in `delivery` are
enough for every state of the disk a crash can leave to meet a fresh process; `live`
asks about one that stays up. `Names` bounds the files ever
written: in `live` it is never exhausted (checked by enlarging it until
the states no longer change); in `delivery` an undeletable file that is split in
every flush would use names without end, and five cut that chain.

Names: both threads that write while the program closes, four files, two
milliseconds, a counter of two, one restart, one clock set back: enough for both in
one millisecond, equal names of writes at once, and a counter that turns over. `NamesSort` covers every number.
In `same_name` there are two observations and no fault: one file each of the uploader and of the
thread that closes.

Closing: joins, budget and grace in proportion, each as short as one second can
make it; requests shorter and longer than the budget; one observation in each
queue, arriving at any time.

Item names: two folders, the builds of `MCLive` (a table in the open, one swallowed by
a stream that is none, an archive half written), three writes, two launches: enough for a patch at every step of a load, and for a cache that meets
another folder or an old time.

Listings: three observations, two listing keys, three instants, retention of one
tick, listings that stay for two days of a tick: enough for an observation to be
older, equal and newer than a row and its cutoff, and for a page of one row to
end between two rows of one time. (`HubProofs` covers days of any length.)
Observations are interchangeable, so TLC may permute them; keys are ordered and
are not.

Devices: one slot, two devices, two requests at a time, and either an administrator and three
instants, or none and four, a window of three half-seconds and a limit a slot can reach (the
limits know no administrator); `Buckets` names the limits that are
reached in a run, and the theorems are for all of them. Set-up: two observers, of which
the first is started twice, two tokens, an edit by hand, and every mishap: a failed read, a failed save, a
crash, answers lost and late.

Decoder: eight sequence numbers and eight bytes, so that numbers wrap around;
segments of up to three bytes within a window of four, five bytes and one tick of
patience: enough for two holes, overlaps of three segments, and both budgets.

Framer: `MCStreams` has streams of four frames out of nine kinds in the orders
the searches care about, those that begin with a frame and those that begin inside
an ENTER, a stream without frames, one whose frames begin late and one that begins with a
popup behind so many other bytes that some are dropped (`Popup`); bodies look like headers. The
limits keep the order they have in the code: a lock of three frames, a window of
three of the longest, a back-off that begins beyond four symbols, pages up to and
beyond the length that is waited for. Pieces of up to five symbols, one hole.

Engine: in `capture` two clients, a connection on each port, two changes of the
world, two withdrawals and two battles per client, enough for a client to lose
its connection to the other one and for an epoch to be withdrawn twice; in
`engine_live` one client with two connections, so that it can be ambiguous.
`MaxGen`, `MaxBattles` and `MaxChanges` bound what is lost, what happens in the game and
what changes in the world, never what the engine does about it. A look misses a connection
`MissLimit` = 2 times, as in the code. `torn` needs one client, one connection and one event.

Recorder: a queue of two, a budget of one segment on the main port and two on
the other, three rows admitted and one dropped: enough for the queue to be full
of either port, for both budgets to end, for rows to be left when the writer
stops, and, with a flush every two rows, for a flush to fail in the batch, when
idle and at the end. `MaxRows` and `MaxDrops` bound the traffic only.

Satong: two PCs, the first with two clients and the right clock, the second with its
clock one tick behind or ahead of the hub's, where the game's interval (three) leaves
one beyond the window (two); two shouts of one text, which is what the merging has to
tell apart; requests of up to two; a hub that takes one message in a body, so that groups
are divided, or one in a request, so that they are set aside, each with one of the
two clocks; a retention of three ticks, one tick allowed ahead, pages of one row, a
heartbeat of two and offline after three, all passed within four ticks; and one
trouble in a behaviour: a crash, a lost answer, a hub that is down or slow for three
ticks, an observer that halts, or a file that cannot be deleted.

`CHECK_DEADLOCK FALSE` stands where the program may be over (upload path, engine, recorder)
the observers are set up or the stream or the clock is at its end (capture, hub).

### Fairness

The progress of the uploader (`UploaderIsFair`): its thread is scheduled; the
monotonic clock reaches `retry_at`; a request ends, since `urlopen` has a time-out;
and if a batch is posted again and again the hub at last decides about it
(strong fairness): without that, a network that is down for ever keeps
everything spooled, as it should. `StopIsPrompt` needs none of that, only the thread
that closes (`CloserIsFair`): the uploader may hang. Liveness is asked of an observer that
stays up (`<>[](mpc = "run")`). `NamesAreFair`: a load goes on, and the recheck comes
round again; the archives are under no fairness.

Engine: the thread is scheduled (weak fairness of `Thread`), a segment has finitely
many events, and a driver that is asked again and again at last opens, takes a
filter and shows the tables (strong fairness of opening, of looks that find what
there is, and of a filter refresh that succeeds). `StopEndsThread` needs of these
only the thread and the end of a segment. The world is under no fairness.

Recorder: the main thread and the handler are scheduled, and no call they make
waits for ever (`wait` and `join` have time-outs). Nothing is asked of the writer,
the sniffer or the console.

Time that passes only when nothing else can (`Closing`, `Satong`) stands for threads
that are quick in comparison with seconds and minutes.

## Proofs

Every theorem holds for all values of the constants its module assumes.

`SpoolUploaderProofs`: `TypeCorrect` with all faults; and, under `Honest` (files can be
read and a 200 is the hub's; `read_error` shows that it is needed), `Invariant`,
`AtLeastOnce`, `NoSilentLoss`, `SafeRelease`, `HeldBack`. That a 200 allows the file to be
deleted depends on what the hub stored when it answered, and deletion at the end
of a split on where the halves went. `IInv` therefore adds: the snapshot of a flush
names files that exist and the current file is not in it (`SnapshotIsPending`);
the current file exists and after a 200 the hub has it (`AnswerIsTrue`); during
a split its observations are in the halves (`HalvesAreWritten`); nothing is kept
or sent that was not observed (`NothingInvented`); a flush runs only while
nothing holds it back (`FlushIsAllowed`); and until the stop every name taken is free, for
one thread writes, and nobody has or may read again the name of the file being sent or split
(`NamesAreApart`). After the stop a file that waits may be replaced: the three theorems
about what leaves the disk have `replaced` beside storage and quarantine, and `SafeRelease` says
when it may grow. There is a lemma for each part, by cases
on the actions that can disturb it. `Deletions` collects what a step may remove
from the disk; `RefinementStep` maps every step to `Accept`, `Store`, `Forget`,
`GiveUp` or a stutter of `Delivery`.

`SummaryIsComplete` needs no `Honest`: what a thread has taken out of the queue it is
about to write, and what cannot be written is back in memory or lost before the thread
ends (`HeldIsWritten`), so that with both threads gone only the queue is left, which the
summary has counted.

Names, in the same module: `NamesSort`. The name of a thread says nothing before its counter is
read; `PInv` adds (`Behind`, `Ahead`, `Earlier`, `Timed`, `Named`) that every name in the directory or about to be given to a file, and every clock a
thread has read, lies before the present clock or in it with a counter not beyond
the present one of the same turn, and that a thread that has counted has the
files of its beginning behind it, strictly. For equal names it adds that a counter within one
turn of one process tells how many writes had begun, so that equal counters mean the same
number (`nth`, `begun`).

`HubProofs`: `LiveIsNotExpired`, `SeenIsShown` (the SQL filter shows a row exactly
while the expiry of its answer lies ahead, for every length of a day, offset and number of
days, by the division with remainder both sides are made of), and from `TablesInvariant`:
`EachIsCountedOnce`, `LastSeenIsShown`, `PollMissesNothing`, `FoundIsNotExpired`. That a row
counts each observation once is not inductive: a resend must find its id still in the table.
`LInv` adds `NotTwice`: while the clock of an observation was not ahead, its id is in the
table, put there no earlier than it was seen, or its time has left the range the handler
accepts; so the id outlives the acceptance of the observation, because both are pruned by the same
retention. `LearnedWasSent` ties the name shown to an envelope the hub received,
`OnlyOfRows` drops the history with the row, `GivenOrAhead` says of each row what
`DeliveredUnlessBehind` says of a reader who has read everything. Keys are assumed
finite: a key is a 64-bit id with a seller of at most 128 characters.

`DiscoveryRecorderProofs`: `GateIsShutFirst`, `FileTellsTheTruth` from `RecorderInvariant`.
Neither is inductive. `RInv` adds where each thread can be (`OwnedWasBegun`: only a window that
began is owned and closed), that a gate that is shut stays shut once its owner has read the counters
(`ShutForGood`: else the terminal row would be behind what was admitted), why the
writer may be near its end (`NoRowsForTheEnd`), and that file, row at hand and queue are
consecutive pieces of what was admitted, with only sentinels behind (`QueueIsTheRest`).
The counters are tied to the rows admitted by counting positions (`CountsAreTrue`).

`TokensAreAccounted`, `SavesTakeNothing` of `SetUp`, in `FilesProofs`. `UInv` adds that an observer that
sees the file has read what is there until it asks the hub, and all but the token
after that (`Agree`), that nothing is saved without an id (`HasId`), and that the
newest token is in the file or with an observer about to save it (`Kept`): fewer
places than `TokenIsAccounted` allows, for only these are kept by every step.

`SatongProofs`: `SpoolIsKept`, `RowsAreRead` and `OfflineIsExcused` from `SatongInvariant`, and
`OneRowPerShout`. `SInv` adds where in its spool a flush is (`FlushOK`), that what it is
about to delete is stored (`DeletedIsStored`), that time is at most a heartbeat ahead of
what the hub last heard or of the reason for silence (`NewsOf`), and that the
cursor is behind no id yet to come (`CursorInv`). That a row is a shout needs the
clocks (`ClocksAgree`): the anchor of a row is a time that some clock may show for its shout
(`RowsAnchored`), so an observation of the same shout lies within the window of it
and one of another shout does not. That each is counted once needs `IdIsKept`, as in
`HubProofs`. `ClocksAgree` is assumed of `OneRowPerShout` only: clocks a window apart
make two rows of a shout, and those further apart than the interval leaves chain two
shouts into one; the constants of the program (15 s, 10 s) leave five seconds.

What a recursive function computes (the messages of a request one after the other,
the contents of files laid end to end) is reached without the induction theorems of
the library, which take an operator: `Least` says that a set of naturals has a least
element, by `NatLessThanWellFounded` and `WFMin`, and a set of numbers for which a
fact fails is empty because it has none.

`FilesProofs`: `StampsAreTrue`. An archive comes and goes while its table stays, so
`OneBuild` speaks of all pairs of a time and contents in archives, tables, cache and
reader: no time has two contents, and none is yet to come. `Meanwhile` says of an
archive that was read that, if it still has its time, it holds what was read.

`QueuesAreSaved` of `Closing`, in `SpoolUploaderProofs`, if `WindowJoin` and `EngineJoin` fit into `Grace` (one and two
seconds in about five). `InTime` says where the handler may be how long after the
signal; `Emptied` that nothing arrives once the uploaders are stopped, and that
the bundles a closer has passed are settled.

`FlowDecoderProofs`: `StreamIsUnbroken`, `NothingIsStuck` from `DecoderInvariant`, for a stream of any
length. `FInv` says what is pending, in positions instead of numbers modulo 2^32: each
pending segment is a piece of the stream that begins behind the byte expected next and
within the window (`Holds`), and every byte that arrived was fed or lies in one of
them (`Covers`). `DeltaIsDistance` is what ties the two together: `_seq_delta` is the
distance of two positions less than half a turn apart. Within a drain `Holds` is not
kept: segments fall behind the stream as it gets on, so `Draining` measures both from
the position where the drain began. `DrainAllIs` shows that the loop ends with
nothing that could be fed: each round takes a segment, or none is ready and none will be.

`StreamProofs`: `StreamIsTrue`, `NoFrameIsMissed` from `FramerInvariant`, for streams of any
content and length that `IsStream` allows, any pieces, holes, window lengths and
back-off. What is assumed of a stream is what the game sends: behind a valid frame begins
the next one. Nothing is assumed of the bytes before the first frame, nor that a lock is
taken on a true frame: a false lock may report what is no frame, and the two properties say
nothing of that but that it is in order and made of the stream's bytes. `FramerInv` adds where
the framer stands: its buffer is a piece of the stream that ends with what was fed (`Reads`);
what was reported lies before it (`Tells`); `prev` and `waiting` are what the last two reports
say (`Remembers`); once a frame of the stream was reported, a lock is held, the framer is
before the beginning of a frame, perhaps after a skip, and has reported all between
(`OnTrack`); and at rest the frame it stands before is not due (`Halted`). `RoundIs` shows that a round
of the loop keeps all but the last, `LoopIs` that the loop ends: a round that consumes
nothing is followed by one that does, or by a pause. The searches need only say that they pass over bytes
in front (`SearchIs`) and, after a desynchronisation, over one at least.

`SearchMissesNothing`, `ReplayBeginsThere` from `SearchInvariant`. `Sound` says what the memories
of the search are worth: before `scanFrom` every place is refused as the beginning of
`LockK` frames, before `anchorFrom` every place is no anchor, and a scan that is due has
found nothing. Refused is more than not found: a place where the chain is only cut off
by the end of the buffer may be a lock with the next piece. So the lemmas are about what
stays: a refusal stays when bytes are added behind (`ChainGrows`, `EnterGrows`) and when bytes in front
are dropped (`ChainEnd`, `EnterEnd`, with the places shifted). What is dropped
was refused, and a place not yet refused is never far from the end of the buffer, so the
window is kept and the bound behind it does not bite. `Hunting` is the invariant of the
loop of `feed`, in which a lock may be taken and lost. While nothing was reported,
all bytes from the origin to `framer.at` are refused in everything that was fed; `ReplayAgrees` then
compares the two searches place by place (`AnchorsAgree`, `LocksAgree`). A search is the
least of a set of places, not a loop, so the only induction is that over the length of a
chain, done with `Least`: the first length at which a claim fails.

An earlier form of `OfflineAgrees` had no exception for the popup and held in all instances
that were checked. Its proof failed where the popup's check of a trimmed buffer had to be
one of the whole; the stream `Popup` of `MCCapture` is the counterexample found so.

`CapturedIsTrue`, `CapturedMissesNothing`, `CapturedSearchMissesNothing`, `CapturedReplayBeginsThere` from `DecoderFeedsFramer`: the same of `Stream`. `StreamInv`
joins the two invariants by one conjunct, `InStep` (what the framer was fed ends where the
decoder's output ends), and `WithinLength`. `SegmentHands` is the link: what a segment adds
to the output, by a drain or after a hole, is new to the framer, and goes on where it
stands unless it is reset.

`HubProofs`: `SlotIsHeldOnce`, `NameIsHandedOn`, `StandingIsChecked`, `RateIsBounded`,
`WaitIsTold` from `DeviceInvariant`. That fewer than twice the limit pass in a span shorter than the
window is not inductive; `KeyInv` adds, for each key, that the hits of the present window
began with it, and that all but the last `limit` before them lie a whole window back.
A sweep or a new window keeps that; a restart begins a new history.

`PacketEngineProofs`: `EngineTypes`, `PublishedIsSaid`, `EpochIsNeverReused`,
`SilentWithoutCapture` and `HealthyIsKept` from `EngineInvariant`. `IInv` adds that a published
record carries the present generation and battle of its client, that what was
withdrawn lies before them (`CountersFit`), and that the connection of the event
in a callback said it, and lost nothing since but within that feed (`AtHand`). `HealthyIsKept` assumes `MissLimit >= 2`: with one
miss allowed, a single empty look withdraws everything.

Type invariants are proved where there is a proof (`TypeCorrect`, `EngineTypes`,
`DeviceInvariant`), and not run as well. Only model-checked: liveness, which TLAPS cannot prove
under fairness.

## Not modelled, and what is left

- A second window of the recorder and a second start of the engine: nothing in
  this program asks for them.
- The management secret, the public listener and the limit on failed
  authorisation of `hub/server.py`; slots allowed to send shouts.
- The status lines, the console writer and the pid index of `agent.py`.

Left out for good: the layout of packets and pages (`packet_market.py`,
`packet_satong.py`), the word-input states, which are switched off in this program,
bindings of the capture library (`pcap_ffi.py`), wording of messages, logs, the
self test, the command line tools: input and output with hardly any control.
