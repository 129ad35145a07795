------------------------------- MODULE Satong -------------------------------
(***************************************************************************)
(* Shouts, from the game clients of several PCs to the hub and to the one  *)
(* who reads them there (satong_observer.py; the satong part of hub/db.py  *)
(* and hub/server.py).                                                     *)
(*                                                                         *)
(* Every client of every PC hears a shout; the observer of a PC drops the  *)
(* copies of its own clients, the hub merges those of several PCs.  The    *)
(* uploader of a PC sends what is spooled, many files in one request, and  *)
(* an empty request now and then so that the hub knows it is there.        *)
(*                                                                         *)
(* A spool is a sequence of files in the order of their names (see         *)
(* SpoolNames), a file a sequence of observations, an observation who      *)
(* heard which shout.  A request is one step, for its answer may be lost.  *)
(* A tick of the clock is longer than a lap of the uploader: it waits for  *)
(* what an uploader that is up can do now.  All is of one game server;     *)
(* what a client heard while its PC was down is lost.                      *)
(***************************************************************************)
EXTENDS Integers, SequencesExt

CONSTANTS
  Pcs,        \* the PCs, devices to the hub
  Clients,    \* how many game clients each has
  Texts,      \* who shouts and what
  Skews,      \* the clocks TLC looks at: how far each PC's is ahead
  HubLimits,  \* with each of them, what the hub takes at once: as much in a body
              \* (client_max_size), so many messages (max_satong_messages_per_request)
  Interval,   \* the server sends shouts at least so far apart
  MergeSec,   \* DEDUP_SEC, SATONG_MERGE_SEC
  Heartbeat,  \* HEARTBEAT_SEC
  Offline,    \* satong_offline_sec
  MaxRequest, \* MAX_OBSERVATIONS
  SatongDays, \* retention_satong_days
  MaxAhead,   \* max_agent_ts_ahead_sec
  PageLimit,  \* the page of the reader
  MaxShouts, MaxTroubles, LastTime, \* how much TLC watches (bounds)
  Delays,     \* how long a request may take or a back-off be
  Nil

ASSUME SatongAssumption ==
  /\ Skews \subseteq [Pcs -> Int] /\ Clients \in [Pcs -> Nat]
  /\ HubLimits \in [Skews -> [body : Nat \ {0}, messages : Nat \ {0}]]
  /\ {Interval, MergeSec, Heartbeat, Offline, MaxRequest, PageLimit} \subseteq Nat \ {0}
  /\ {SatongDays, MaxAhead, MaxShouts, MaxTroubles, LastTime} \cup Delays \subseteq Nat
  /\ Nil \notin Int /\ MergeSec < Interval /\ Heartbeat < Offline

VARIABLES
  clock,
  skew,      \* how far the clock of each PC is ahead
  shouts,    \* what was shouted, oldest first: [text, at]
  pc,        \* each PC: see Started
  hub,       \* rows by id, obs_id -> recv_ts, the next id, the last heartbeats
  reader,    \* its cursor, where it began, and the ids it was given
  troubles,  \* how many times something went wrong (for the bound)
  heard,     \* history: who heard which shout
  stored,    \* history: observations the hub ever stored
  excused    \* history: until when a PC had a reason not to be heard

histories == <<heard, stored, excused>>
satongvars == <<clock, skew, shouts, pc, hub, reader, troubles, histories>>

-----------------------------------------------------------------------------
\* SatongObserver and SatongUploader after a start; files survive.  A flush has
\* tried the oldest `tried` files, which could not be deleted, and has yet to
\* do with the next `todo` of them.
Started(files) ==
  [up |-> TRUE, recent |-> [t \in Texts |-> Nil], queue |-> <<>>, files |-> files,
   job |-> "idle", todo |-> 0, tried |-> 0, retryAt |-> 0, halted |-> FALSE, lastSent |-> Nil]

AgentTs(o) == o.at + skew[o.pc]

\* _is_duplicate: a copy of what was kept less than MergeSec ago; what is dropped
\* does not prolong it.
IsDuplicate(p, text) ==
  pc[p].recent[text] # Nil /\ clock - pc[p].recent[text] < MergeSec

\* __call__: one of the clients hears what is shouted now.
Hear(p) ==
  LET shout == Last(shouts)
      before == {o \in heard : o.pc = p /\ o.at = shout.at}
      o == [pc |-> p, copy |-> Cardinality(before), text |-> shout.text, at |-> shout.at]
  IN  /\ shouts # <<>> /\ shout.at = clock /\ pc[p].up /\ o.copy < Clients[p]
      /\ heard' = heard \cup {o}
      /\ pc' = IF IsDuplicate(p, shout.text) THEN pc
               ELSE [pc EXCEPT ![p].recent[shout.text] = clock, ![p].queue = Append(@, o)]
      /\ UNCHANGED <<clock, skew, shouts, hub, reader, troubles, stored, excused>>

\* Uploader.drain_queue: what is queued becomes a file.
Drain(p) ==
  LET n == IF Len(pc[p].queue) < MaxRequest THEN Len(pc[p].queue) ELSE MaxRequest
  IN  /\ pc[p].up /\ pc[p].job = "idle" /\ n > 0
      /\ pc' = [pc EXCEPT ![p].queue = SubSeq(@, n + 1, Len(@)),
                          ![p].files = Append(@, SubSeq(pc[p].queue, 1, n))]
      /\ UNCHANGED <<clock, skew, shouts, hub, reader, troubles, histories>>

-----------------------------------------------------------------------------
SeenAt(o) == IF AgentTs(o) < clock THEN AgentTs(o) ELSE clock

Distance(x, y) == IF x < y THEN y - x ELSE x - y

\* insert_satong: the rows an observation may belong to.
\* NearOrAt, a mutant: the bounds belong to the window.
NearOrAt(h, o) ==
  {r \in DOMAIN h.rows : h.rows[r].text = o.text /\ Distance(h.rows[r].anchor, SeenAt(o)) <= MergeSec}

Near(h, o) ==
  {r \in DOMAIN h.rows : h.rows[r].text = o.text /\ Distance(h.rows[r].anchor, SeenAt(o)) < MergeSec}

NewRow(o) == [text |-> o.text, anchor |-> SeenAt(o), first |-> SeenAt(o), last |-> SeenAt(o),
              count |-> 1, obs |-> {o}]

Merged(row, o) ==
  [row EXCEPT !.last = IF SeenAt(o) > @ THEN SeenAt(o) ELSE @,
              !.first = IF SeenAt(o) < @ THEN SeenAt(o) ELSE @,
              !.count = @ + 1, !.obs = @ \cup {o}]

Nearest(h, o) ==
  LET far(r) == Distance(h.rows[r].anchor, SeenAt(o))
  IN  CHOOSE r \in Near(h, o) :
        \A q \in Near(h, o) : far(r) < far(q) \/ (far(r) = far(q) /\ r <= q)

\* One message: a repetition, a copy for the nearest of these rows, or a new row.
InsertMessage(h, o) ==
  LET new == Near(h, o) = {}
      id == IF new THEN h.next ELSE Nearest(h, o)
      row == IF new THEN NewRow(o) ELSE Merged(h.rows[id], o)
  IN  IF o \in DOMAIN h.ids THEN h
      ELSE [h EXCEPT !.ids = [x \in DOMAIN @ \cup {o} |-> IF x = o THEN clock ELSE @[x]],
                     !.rows = [r \in DOMAIN @ \cup {id} |-> IF r = id THEN row ELSE @[r]],
                     !.next = IF new THEN @ + 1 ELSE @]

\* The messages of a request, one after the other.
Inserted(h, obs) ==
  LET after[i \in 0..Len(obs)] == IF i = 0 THEN h ELSE InsertMessage(after[i - 1], obs[i])
  IN  after[Len(obs)]

\* insert_satong: the messages and the state of the collector, at once.
Store(p, obs) ==
  /\ hub' = [Inserted(hub, obs) EXCEPT !.beats[p] = clock]
  /\ stored' = stored \cup ToSet(obs)

\* validate_satong_upload.
TimeInRange(o) == clock - SatongDays <= AgentTs(o) /\ AgentTs(o) <= clock + MaxAhead

\* When a flush is done with one request it looks for more, or ends.
Onward(s) ==
  IF s.job = "idle" \/ s.todo > 0 THEN s
  ELSE IF s.tried = Len(s.files) THEN [s EXCEPT !.job = "idle", !.tried = 0]
  ELSE [s EXCEPT !.job = "flush"]

\* Answered with a 400, which ends in quarantine: too many messages, or one out of
\* range.
Unfit(obs) ==
  Len(obs) > HubLimits[skew].messages \/ \E i \in DOMAIN obs : ~TimeInRange(obs[i])

\* What comes of a request, by the hub's answer: a body that is too large is
\* answered with a 413 before anybody looks into it.
Outcome(p, obs) ==
  IF Len(obs) > HubLimits[skew].body THEN "split"
  ELSE IF Unfit(obs) THEN "quarantine" ELSE "ok"

\* The hub's answer to a request, of which the uploader makes `after`.
Answered(p, obs, after) ==
  /\ \/ Outcome(p, obs) = "ok" /\ Store(p, obs) /\ excused' = excused
     \/ /\ Outcome(p, obs) # "ok" /\ UNCHANGED <<hub, stored>>
        /\ excused' = [excused EXCEPT ![p] = clock]
  /\ pc' = [pc EXCEPT ![p] = Onward([after EXCEPT !.lastSent = clock])]
  /\ UNCHANGED <<clock, skew, shouts, reader, heard>>

\* react: no answer, perhaps after the hub stored the batch, a 5xx or a 429, at
\* once or after the request has kept the uploader for a while; or an answer
\* after which it stops.  The flush ends.
Troubled(p, obs) ==
  /\ troubles < MaxTroubles /\ troubles' = troubles + 1
  /\ \/ Outcome(p, obs) = "ok" /\ Store(p, obs)
     \/ UNCHANGED <<hub, stored>>
  /\ LET ended == [pc[p] EXCEPT !.job = "idle", !.todo = 0, !.tried = 0, !.lastSent = clock]
     IN  \/ \E wait \in Delays, job \in {"idle", "waiting"} :
              /\ pc' = [pc EXCEPT ![p] = [ended EXCEPT !.retryAt = clock + wait, !.job = job]]
              /\ excused' = [excused EXCEPT ![p] = clock + wait]
         \/ /\ pc' = [pc EXCEPT ![p] = [ended EXCEPT !.halted = TRUE]]
            /\ excused' = [excused EXCEPT ![p] = LastTime]
  /\ UNCHANGED <<clock, skew, shouts, reader, heard>>

\* The request that kept the uploader is over.
Return(p) ==
  /\ pc[p].up /\ pc[p].job = "waiting" /\ clock >= pc[p].retryAt
  /\ pc' = [pc EXCEPT ![p].job = "idle"]
  /\ UNCHANGED <<clock, skew, shouts, hub, reader, troubles, histories>>

-----------------------------------------------------------------------------
Held(p) == pc[p].halted \/ clock < pc[p].retryAt

\* What a request for n files carries.
Contents(p, n) == FlattenSeq(SubSeq(pc[p].files, pc[p].tried + 1, pc[p].tried + n))

\* As many files as fit in a request, oldest first; one in any case.
Fits(p, n) == n = 1 \/ Len(Contents(p, n)) <= MaxRequest

Group(p, n) ==
  /\ n \in 1..(Len(pc[p].files) - pc[p].tried)
  /\ Fits(p, n)
  /\ pc[p].tried + n < Len(pc[p].files) => ~Fits(p, n + 1)

Flushing(p) ==
  /\ pc[p].up /\ pc[p].job \in {"idle", "flush"}
  /\ pc[p].job = "idle" => ~Held(p)

\* The file at hand leaves the spool.  One that cannot be deleted or set aside
\* waits for the next flush.
Gone(s) == [s EXCEPT !.files = RemoveAt(@, s.tried + 1)]

Stays(s) == [s EXCEPT !.tried = @ + 1]

\* split: the file gives way to two, at the end of the spool.
Halved(s) ==
  LET f == s.files[s.tried + 1]
      half == Len(f) \div 2
  IN  [s EXCEPT !.files = @ \o <<SubSeq(f, 1, half), SubSeq(f, half + 1, Len(f))>>]

\* send_one: whatever the hub says of one file, the file leaves the spool.
One(p, f, s) ==
  LET then == IF Outcome(p, f) = "split" /\ Len(f) > 1 THEN Halved(s) ELSE s
  IN  \/ Answered(p, f, Gone(then)) /\ UNCHANGED troubles
      \/ /\ troubles < MaxTroubles /\ troubles' = troubles + 1
         /\ Answered(p, f, Stays(then))

\* What is answered with a 200 is deleted, file by file; when several files are
\* refused, each is sent alone.
\* GroupRefused, a mutant: they are set aside together.
GroupRefused(s, n) ==
  [s EXCEPT !.files = SubSeq(@, 1, s.tried) \o SubSeq(@, s.tried + n + 1, Len(@))]

OneByOne(s, n) == [s EXCEPT !.job = "single", !.todo = n]

\* flush_pending: the next request, for one file or for several of them.
Flush(p) ==
  /\ Flushing(p)
  /\ \E n \in DOMAIN pc[p].files :
       /\ Group(p, n)
       /\ LET obs == Contents(p, n)
              s == [pc[p] EXCEPT !.job = "flush"]
          IN  \/ Troubled(p, obs)
              \/ /\ Outcome(p, obs) = "ok" /\ UNCHANGED troubles
                 /\ Answered(p, obs, [s EXCEPT !.job = "delete", !.todo = n])
              \/ /\ Outcome(p, obs) # "ok" /\ n > 1 /\ UNCHANGED troubles
                 /\ Answered(p, obs, OneByOne(s, n))
              \/ Outcome(p, obs) # "ok" /\ n = 1 /\ One(p, obs, s)

\* _send_group goes on with one file after the other.
SendOne(p) ==
  /\ pc[p].up /\ pc[p].job = "single" /\ pc[p].todo > 0
  /\ LET f == pc[p].files[pc[p].tried + 1]
     IN  Troubled(p, f) \/ One(p, f, [pc[p] EXCEPT !.todo = @ - 1])

\* done: the file is deleted, or cannot be.
Delete(p) ==
  /\ pc[p].up /\ pc[p].job = "delete" /\ pc[p].todo > 0
  /\ LET s == [pc[p] EXCEPT !.todo = @ - 1]
     IN  \/ pc' = [pc EXCEPT ![p] = Onward(Gone(s))] /\ UNCHANGED troubles
         \/ /\ troubles < MaxTroubles /\ troubles' = troubles + 1
            /\ pc' = [pc EXCEPT ![p] = Onward(Stays(s))]
  /\ UNCHANGED <<clock, skew, shouts, hub, reader, histories>>

\* heartbeat_due: nothing was sent, or tried, for a while.
\* AfterTheFirst, a mutant: a PC that has sent nothing yet is not due.
AfterTheFirst(p) ==
  /\ ~Held(p) /\ pc[p].lastSent # Nil
  /\ clock - pc[p].lastSent >= Heartbeat

HeartbeatDue(p) ==
  /\ ~Held(p)
  /\ pc[p].lastSent # Nil => clock - pc[p].lastSent >= Heartbeat

\* tick and send_heartbeat.
SendHeartbeat(p) ==
  /\ pc[p].up /\ pc[p].job = "idle" /\ pc[p].files = <<>> /\ HeartbeatDue(p)
  /\ \/ Answered(p, <<>>, pc[p]) /\ UNCHANGED troubles
     \/ Troubled(p, <<>>)

-----------------------------------------------------------------------------
Crash(p) ==
  /\ pc[p].up /\ troubles < MaxTroubles /\ troubles' = troubles + 1
  /\ pc' = [pc EXCEPT ![p] = [Started(@.files) EXCEPT !.up = FALSE]]
  /\ excused' = [excused EXCEPT ![p] = LastTime]
  /\ UNCHANGED <<clock, skew, shouts, hub, reader, heard, stored>>

StartAgain(p) ==
  /\ ~pc[p].up
  /\ pc' = [pc EXCEPT ![p] = Started(@.files)]
  /\ excused' = [excused EXCEPT ![p] = clock]
  /\ UNCHANGED <<clock, skew, shouts, hub, reader, troubles, heard, stored>>

\* The server sends the next shout.
Shout(t) ==
  /\ Len(shouts) < MaxShouts
  /\ shouts # <<>> => clock - Last(shouts).at >= Interval
  /\ shouts' = Append(shouts, [text |-> t, at |-> clock])
  /\ UNCHANGED <<clock, skew, pc, hub, reader, troubles, histories>>

\* satong_recent: the first page behind the cursor; without one, the newest rows,
\* of which the reader takes only where it begins.
RecentPage(after) ==
  {r \in DOMAIN hub.rows : r > after /\ Cardinality({q \in DOMAIN hub.rows : after < q /\ q < r}) < PageLimit}

Largest(S, other) == IF S = {} THEN other ELSE CHOOSE x \in S : \A y \in S : y <= x

PollRecent ==
  /\ reader.cursor # Nil => RecentPage(reader.cursor) # {}
  /\ reader' = IF reader.cursor = Nil
                 THEN LET r == Largest(DOMAIN hub.rows, 0)
                      IN  [cursor |-> r, base |-> r, given |-> {}]
                 ELSE [reader EXCEPT !.cursor = Largest(RecentPage(@), @),
                                     !.given = @ \cup RecentPage(reader.cursor)]
  /\ UNCHANGED <<clock, skew, shouts, pc, hub, troubles, histories>>

\* prune_satong.
\* ReuseIds, a mutant: without AUTOINCREMENT the next id is the largest plus one.
ReuseIds(rows) == Largest(DOMAIN rows, 0) + 1

NextId(rows) == hub.next

PruneSatong ==
  LET cutoff == clock - SatongDays
      rows == {r \in DOMAIN hub.rows : hub.rows[r].last >= cutoff}
      gone == DOMAIN hub.rows \ rows
      kept == [r \in rows |-> hub.rows[r]]
      ids == {o \in DOMAIN hub.ids : hub.ids[o] >= cutoff}
  IN  /\ gone # {} \/ ids # DOMAIN hub.ids
      /\ hub' = [hub EXCEPT !.rows = kept, !.next = NextId(kept),
                            !.ids = [o \in ids |-> hub.ids[o]]]
      /\ UNCHANGED <<clock, skew, shouts, pc, reader, troubles, histories>>

\* Nothing an uploader could do now is left.
Resting(p) ==
  \/ ~pc[p].up
  \/ pc[p].job = "waiting" /\ clock < pc[p].retryAt
  \/ /\ pc[p].up /\ pc[p].job = "idle" /\ pc[p].queue = <<>>
     /\ Held(p) \/ (pc[p].files = <<>> /\ ~HeartbeatDue(p))

Elapse ==
  /\ clock < LastTime /\ \A p \in Pcs : Resting(p)
  /\ clock' = clock + 1
  /\ UNCHANGED <<skew, shouts, pc, hub, reader, troubles, histories>>

SatongInit ==
  /\ clock = 0 /\ skew \in Skews /\ shouts = <<>>
  /\ pc = [p \in Pcs |-> Started(<<>>)]
  /\ hub = [rows |-> [r \in {} |-> 0], ids |-> [o \in {} |-> 0], next |-> 1,
            beats |-> [p \in Pcs |-> Nil]]
  /\ reader = [cursor |-> Nil, base |-> 0, given |-> {}]
  /\ troubles = 0 /\ heard = {} /\ stored = {}
  /\ excused = [p \in Pcs |-> 0]

SatongNext ==
  \/ \E p \in Pcs : \/ Hear(p) \/ Drain(p) \/ Flush(p) \/ SendOne(p) \/ Delete(p)
                    \/ SendHeartbeat(p) \/ Return(p) \/ Crash(p) \/ StartAgain(p)
  \/ \E t \in Texts : Shout(t)
  \/ PollRecent \/ PruneSatong \/ Elapse

SatongSpec == SatongInit /\ [][SatongNext]_satongvars

-----------------------------------------------------------------------------
ShoutOf(o) == [text |-> o.text, at |-> o.at]

\* The clocks, the hub's among them, differ by less than the window, and by no
\* more than what the server's interval leaves beyond it.
Clocks(s) == {0} \cup {s[p] : p \in Pcs}

ClocksAgree ==
  \A s \in Skews : \A x, y \in Clocks(s) : x - y < MergeSec /\ x - y <= Interval - MergeSec

\* However late, often and in whatever order the copies of several clients and
\* PCs arrive, a row is one shout and a shout one row, with every observation
\* counted once, while ClocksAgree (db.py:22-27, HUB-PROTOCOL 3-8).  One whose
\* clock was ahead may outlive its obs_id, and is then counted again.
RowsAreShouts ==
  \A r \in DOMAIN hub.rows :
    /\ \A o \in hub.rows[r].obs : \A q \in DOMAIN hub.rows : \A x \in hub.rows[q].obs :
         r = q <=> ShoutOf(o) = ShoutOf(x)
    /\ (\A o \in hub.rows[r].obs : skew[o.pc] <= 0) =>
         hub.rows[r].count = Cardinality(hub.rows[r].obs)

\* What was spooled leaves the spool only when the hub has stored it, or with a
\* file the hub, asked for that file alone, would refuse, for it holds too many
\* messages or one out of range: of a request for several files none is deleted or
\* set aside for another.
KeptUntilStored ==
  [][\A p \in Pcs : \A f \in ToSet(pc[p].files) : \A i \in DOMAIN f :
       \/ \E g \in ToSet(pc'[p].files) : f[i] \in ToSet(g)
       \/ f[i] \in stored'
       \/ Unfit(f)]_satongvars

\* The reader, who keeps nothing but the last id, is given every row that came
\* after he began, once: new rows come behind his cursor, whatever was pruned.
ReadInOrder ==
  [][reader.cursor # Nil =>
       /\ \A r \in DOMAIN hub'.rows \ DOMAIN hub.rows : r > reader'.cursor
       /\ reader'.given \cap reader.given = reader.given
       /\ \A r \in DOMAIN hub'.rows : reader.base < r /\ r <= reader'.cursor => r \in reader'.given
    ]_satongvars

\* The hub takes a PC for offline only with a reason: within the last Heartbeat it
\* was down, halted or held back, or the hub refused what it sent.
OfflineHasAReason ==
  \A p \in Pcs :
    clock - (IF hub.beats[p] = Nil THEN 0 ELSE hub.beats[p]) > Offline =>
      clock - excused[p] <= Heartbeat

=============================================================================
