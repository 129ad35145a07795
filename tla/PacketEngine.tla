---------------------------- MODULE PacketEngine ----------------------------
(***************************************************************************)
(* The packet engine (packet_state_source.py): one thread that looks for   *)
(* the connections of the game clients (tcp_flow_map.py), opens a capture, *)
(* feeds the segments to a decoder per connection and publishes, for each  *)
(* client, whether it is in battle.  Every few seconds it looks again and  *)
(* reconciles what it follows with what there is.                          *)
(*                                                                         *)
(* The slots of the engine are the numbers PidIndexer gives to processes,  *)
(* one for ever to each: a slot is its process here.                       *)
(***************************************************************************)
EXTENDS Naturals, FiniteSets, Functions

CONSTANTS
  Clients,            \* the processes of the game
  Main, Aux,          \* connections: local ports with remote port 8000, 4011
  Host,               \* the server at the other end of a connection
  MissLimit,          \* FLOW_MISS_LIMIT
  None,
  MaxGen, MaxBattles, MaxChanges   \* bounds

Keys == Main \cup Aux

\* A connection that is followed: its client, what it said last, whether something
\* was lost behind that (no; within the feed that brought it; since), and whether
\* it has been silent for too long.  The event at hand: its connection and kind,
\* and whether what the feed lost still lies ahead of the next event.
Flow == [pid : Clients, said : {"nothing", "in", "out"}, lost : {"no", "within", "since"},
         quiet : BOOLEAN]
Hand == [key : Main, kind : {"in", "out", None}, ahead : BOOLEAN]

\* _SlotState: what is published of a client.
Record == [state : {"in", "out"}, generation : 0..MaxGen, battle_id : 0..MaxBattles,
           pending : BOOLEAN]

ASSUME EngineAssumption ==
  /\ Main \cap Aux = {} /\ DOMAIN Host = Keys
  /\ MissLimit \in Nat \ {0}
  /\ MaxGen \in Nat /\ MaxBattles \in Nat /\ MaxChanges \in Nat
  /\ None \notin Clients \cup Flow \cup Hand \cup Record \cup {"in", "out"}

VARIABLES
  running, conns,     \* the processes, and the process of each connection
  changes,            \* how often these have changed
  epc,                \* where the thread is
  stopping,           \* _stop_event
  pids, table,        \* what the last look found
  flows, misses,      \* flow_map, flow_miss
  filter,             \* the hosts of the capture filter
  event,              \* the event at hand
  states,             \* _states
  generations, battle_ids,
  tracked,            \* health: whether tracked_flows > 0
  spent, over         \* history: generations and battles that are past

world == <<running, conns, changes>>
looked == <<pids, table>>
followed == <<flows, misses, tracked>>
published == <<states, generations, battle_ids, spent, over>>
evars == <<world, epc, stopping, looked, followed, filter, event, published>>

Nowhere == [k \in Keys |-> None]

-----------------------------------------------------------------------------
(* Looking for connections.                                                *)

\* The process table cannot be read: no process.  The connection table cannot
\* be read: no connection.
Looks ==
  {<<P, [k \in Keys |-> IF conns[k] \in P THEN conns[k] ELSE None]>> : P \in {running, {}}}
  \cup {<<running, Nowhere>>}

\* Connections of p to one remote port.
Of(t, p, ports) == {k \in ports : t[k] = p}

PortsLike(k) == IF k \in Main THEN Main ELSE Aux

ambiguous_pids(t, ports) == {p \in Clients : Cardinality(Of(t, p, ports)) > 1}

Connected(t) == {k \in Keys : t[k] # None}

derive_server_ips(t) == {Host[k] : k \in Connected(t)}

Live(t) == {k \in Connected(t) : t[k] \notin ambiguous_pids(t, PortsLike(k))}

-----------------------------------------------------------------------------
(* What is published.                                                      *)

\* History: what the clients of P published is past.
Past(P) ==
  LET gone == {p \in P : states[p] # None}
  IN /\ spent' = [p \in Clients |-> IF p \in gone THEN states[p].generation + 1 ELSE spent[p]]
     /\ over' = [p \in Clients |-> IF p \in gone THEN battle_ids[p] ELSE over[p]]

\* ClearQuietly, a mutant: the generation stays.
ClearQuietly(P) ==
  /\ states' = [p \in Clients |-> IF p \in P THEN None ELSE states[p]]
  /\ UNCHANGED <<generations, battle_ids>>
  /\ Past(P)

\* _clear_state for each client of P.
Clear(P) ==
  /\ states' = [p \in Clients |-> IF p \in P THEN None ELSE states[p]]
  /\ generations' = [p \in Clients |->
       IF p \in P /\ states[p] # None THEN generations[p] + 1 ELSE generations[p]]
  /\ UNCHANGED battle_ids
  /\ Past(P)

-----------------------------------------------------------------------------
(* Reconciling.                                                            *)

NewFlow(p) == [pid |-> p, said |-> "nothing", lost |-> "no", quiet |-> FALSE]

IsNew(t, k) == k \in Live(t) /\ (flows[k] = None \/ flows[k].pid # t[k])

Missed(t, k) == k \notin Live(t) /\ flows[k] # None

IsGone(t, k) == Missed(t, k) /\ misses[k] + 1 >= MissLimit

\* UpsetByAny, a mutant: the second port upsets too.
UpsetByAny(P, t) ==
  {flows[k].pid : k \in {j \in Keys : flows[j] # None /\ (IsNew(t, j) \/ IsGone(t, j))}}
  \cup {t[k] : k \in {j \in Keys : IsNew(t, j)}}
  \cup {p \in Clients : states[p] # None /\ p \notin P}

\* UpsetByPid, a mutant: only a client that is gone loses its state.
UpsetByPid(P, t) == {p \in Clients : states[p] # None /\ p \notin P}

\* Clients that lose their state.
Upset(P, t) ==
  {flows[k].pid : k \in {j \in Main : flows[j] # None /\ (IsNew(t, j) \/ IsGone(t, j))}}
  \cup {t[k] : k \in {j \in Main : IsNew(t, j)}}
  \cup {p \in Clients : states[p] # None /\ p \notin P}

\* Flows on which nothing was heard for too long, after the reconciliation.
Silent(t) ==
  {flows[k].pid : k \in {j \in Main : flows[j] # None /\ flows[j].quiet
                                      /\ ~IsNew(t, j) /\ ~IsGone(t, j)}}

\* FollowPatiently, a mutant: every look counts as the first that misses a flow.
FollowPatiently(t) ==
  /\ flows' = [k \in Keys |-> IF IsNew(t, k) THEN NewFlow(t[k])
                              ELSE IF IsGone(t, k) THEN None ELSE flows[k]]
  /\ misses' = [k \in Keys |-> 0]
  /\ tracked' = \E k \in Main : flows'[k] # None

Follow(t) ==
  /\ flows' = [k \in Keys |-> IF IsNew(t, k) THEN NewFlow(t[k])
                              ELSE IF IsGone(t, k) THEN None ELSE flows[k]]
  /\ misses' = [k \in Keys |-> IF Missed(t, k) /\ ~IsGone(t, k) THEN misses[k] + 1 ELSE 0]
  /\ tracked' = \E k \in Main : flows'[k] # None

-----------------------------------------------------------------------------
(* The thread.                                                             *)

Goto(place) == epc' = place

\* A look is a local of the thread: it is forgotten once it is used.
Forget == pids' = {} /\ table' = Nowhere

Same(v) == UNCHANGED <<world, stopping, v>>

\* _discover up to the device.
Discover(look) ==
  /\ epc = "discover" /\ ~stopping
  /\ IF \E k \in Main : look[2][k] # None
     THEN Goto("open") /\ pids' = look[1] /\ table' = look[2]
     ELSE Goto("wait") /\ UNCHANGED looked
  /\ Same(<<followed, filter, event, published>>)

\* No device, the handle cannot be opened or gets no filter, or a stop.
OpenFails ==
  /\ epc = "open" /\ Goto("wait") /\ Forget
  /\ Same(<<followed, filter, event, published>>)

Opens ==
  /\ epc = "open" /\ ~stopping /\ Goto("begin")
  /\ filter' = derive_server_ips(table) /\ Forget
  /\ Same(<<followed, event, published>>)

\* _capture up to its loop.
Begin(look) ==
  /\ epc = "begin" /\ Goto("capture")
  /\ Clear(Clients) /\ Follow(look[2])
  /\ Same(<<looked, filter, event>>)

\* A segment of k is fed; `lost` says that the decoder gave up a hole or looks
\* for the next frame.  That withdraws what was published, once, before the events
\* of the feed are looked at, wherever among them the loss lies.
Segment(k, lost) ==
  /\ epc = "capture" /\ ~stopping /\ k \in Main /\ flows[k] # None /\ Host[k] \in filter
  /\ Goto("events") /\ event' = [key |-> k, kind |-> None, ahead |-> lost]
  /\ \E q \in {FALSE, flows[k].quiet} :
       flows' = [flows EXCEPT ![k].quiet = q, ![k].lost = IF lost THEN "since" ELSE @]
  /\ LET p == flows[k].pid IN
       IF lost
       THEN /\ generations[p] < MaxGen
            /\ states' = [states EXCEPT ![p] = None]
            /\ generations' = [generations EXCEPT ![p] = @ + 1]
            /\ Past({p}) /\ UNCHANGED battle_ids
       ELSE UNCHANGED published
  /\ Same(<<looked, misses, tracked, filter>>)

\* The client enters or leaves a battle: what is published is pending from here
\* until the callback is through.  `ahead`: what the feed lost lies behind this event.
Event(kind, ahead) ==
  /\ epc = "events" /\ Goto("callback")
  /\ ahead => event.ahead
  /\ LET k == event.key  p == flows[k].pid IN
       /\ generations[p] < MaxGen
       /\ kind = "in" => battle_ids[p] < MaxBattles
       /\ event' = [event EXCEPT !.kind = kind, !.ahead = ahead]
       /\ flows' = [flows EXCEPT ![k].said = kind, ![k].quiet = FALSE,
                                 ![k].lost = IF ahead THEN "within" ELSE "no"]
       /\ states' = [states EXCEPT ![p] =
            IF states[p] # None /\ states[p].state # kind THEN [@ EXCEPT !.pending = TRUE] ELSE @]
  /\ Same(<<looked, misses, tracked, filter, generations, battle_ids, spent, over>>)

Publish ==
  /\ epc = "callback" /\ Goto("events")
  /\ LET p == flows[event.key].pid
         enters == event.kind = "in" /\ (states[p] = None \/ states[p].state # "in")
         id == battle_ids[p] + (IF enters THEN 1 ELSE 0)
     IN /\ battle_ids' = [battle_ids EXCEPT ![p] = id]
        /\ states' = [states EXCEPT ![p] = [state |-> event.kind, generation |-> generations[p],
                                            battle_id |-> id, pending |-> FALSE]]
        /\ over' = [over EXCEPT ![p] = IF event.kind = "out" THEN battle_ids[p] ELSE @]
  /\ event' = [event EXCEPT !.kind = None]
  /\ Same(<<looked, followed, filter, generations, spent>>)

LastEvent ==
  /\ epc = "events" /\ Goto("capture") /\ event' = None
  /\ Same(<<looked, followed, filter, published>>)

\* Housekeeping looks ...
Housekeep(look) ==
  /\ epc = "capture" /\ ~stopping /\ Goto("refresh")
  /\ pids' = look[1] /\ table' = look[2]
  /\ Same(<<followed, filter, event, published>>)

\* FilterKept, a mutant: the filter stays as it was when the capture began.
FilterKept(ok) == UNCHANGED filter

\* ... widens the filter, or fails to; ...
_maybe_refresh_filter(ok) ==
  LET main == \E k \in Main : table[k] # None
  IN filter' = IF ok /\ main THEN filter \cup derive_server_ips(table) ELSE filter

\* ... reconciles and looks for silent flows.
Refresh(ok) ==
  /\ epc = "refresh" /\ Goto("capture")
  /\ _maybe_refresh_filter(ok)
  /\ Clear(Upset(pids, table) \cup Silent(table)) /\ Follow(table) /\ Forget
  /\ Same(event)

ReadFails ==
  /\ epc = "capture" /\ ~stopping /\ Goto("close")
  /\ Same(<<looked, followed, filter, event, published>>)

\* LeaveUntracked, a mutant: the loop is not left while there is something to do.
LeaveUntracked ==
  /\ epc = "capture" /\ stopping /\ ~tracked /\ Goto("close")
  /\ Same(<<looked, followed, filter, event, published>>)

LeaveLoop ==
  /\ epc = "capture" /\ stopping /\ Goto("close")
  /\ Same(<<looked, followed, filter, event, published>>)

\* A callback raises: the capture is closed and the thread ends.
Raise ==
  /\ epc \in {"events", "callback"} /\ Goto("raised")
  /\ Same(<<looked, followed, filter, event, published>>)

\* The end of _capture: its local flows are gone, tracked_flows is kept.
Close ==
  /\ epc \in {"close", "raised"} /\ Goto(IF epc = "close" THEN "wait" ELSE "dead")
  /\ Clear(Clients)
  /\ flows' = Nowhere /\ misses' = [k \in Keys |-> 0] /\ filter' = {} /\ event' = None
  /\ Same(<<looked, tracked>>)

RetryWait ==
  /\ epc = "wait" /\ ~stopping /\ Goto("discover")
  /\ Same(<<looked, followed, filter, event, published>>)

ThreadEnds ==
  /\ epc \in {"discover", "wait"} /\ stopping /\ Goto("dead")
  /\ Clear(Clients)
  /\ Same(<<looked, followed, filter, event>>)

-----------------------------------------------------------------------------
(* The owner, the clients and the clock.                                   *)

Stop ==
  /\ ~stopping /\ stopping' = TRUE
  /\ UNCHANGED <<world, epc, looked, followed, filter, event, published>>

Changed ==
  /\ changes < MaxChanges /\ changes' = changes + 1
  /\ UNCHANGED <<epc, stopping, looked, followed, filter, event, published>>

Launch(p) == p \notin running /\ running' = running \cup {p} /\ UNCHANGED conns /\ Changed

Exit(p) ==
  /\ p \in running /\ running' = running \ {p}
  /\ conns' = [k \in Keys |-> IF conns[k] = p THEN None ELSE conns[k]]
  /\ Changed

Connect(k, p) ==
  /\ conns[k] = None /\ p \in running /\ conns' = [conns EXCEPT ![k] = p]
  /\ UNCHANGED running /\ Changed

Disconnect(k) ==
  /\ conns[k] # None /\ conns' = [conns EXCEPT ![k] = None]
  /\ UNCHANGED running /\ Changed

\* No frame for FRAME_SILENCE_SEC, or no event for EVENT_EXTINCT_SEC: the loop reads
\* the clock once in each turn.
Quiet(k) ==
  /\ epc = "capture" /\ k \in Main /\ flows[k] # None /\ ~flows[k].quiet
  /\ flows' = [flows EXCEPT ![k].quiet = TRUE]
  /\ UNCHANGED <<world, epc, stopping, looked, misses, tracked, filter, event, published>>

EInit ==
  /\ running \in SUBSET Clients
  /\ conns \in [Keys -> running \cup {None}]
  /\ changes = 0 /\ epc = "discover" /\ stopping = FALSE
  /\ pids = {} /\ table = Nowhere /\ flows = Nowhere /\ misses = [k \in Keys |-> 0]
  /\ filter = {} /\ event = None /\ tracked = FALSE
  /\ states = [p \in Clients |-> None]
  /\ generations = [p \in Clients |-> 0] /\ battle_ids = [p \in Clients |-> 0]
  /\ spent = [p \in Clients |-> 0] /\ over = [p \in Clients |-> 0]

Thread ==
  \/ \E look \in Looks : Discover(look) \/ Begin(look) \/ Housekeep(look)
  \/ OpenFails \/ Opens
  \/ \E k \in Main, lost \in BOOLEAN : Segment(k, lost)
  \/ \E kind \in {"in", "out"}, ahead \in BOOLEAN : Event(kind, ahead)
  \/ Publish \/ LastEvent \/ \E ok \in BOOLEAN : Refresh(ok)
  \/ ReadFails \/ LeaveLoop \/ Raise \/ Close \/ RetryWait \/ ThreadEnds

World ==
  \/ Stop \/ \E p \in Clients : Launch(p) \/ Exit(p)
  \/ \E k \in Keys : Disconnect(k) \/ Quiet(k) \/ \E p \in Clients : Connect(k, p)

ENext == Thread \/ World

\* The look that finds what there is.
Look == <<running, conns>>

\* The thread is scheduled and a segment ends.  A driver that can be asked again
\* and again opens, takes a filter and reads the tables now and then.
EFairness ==
  /\ WF_evars(Thread) /\ SF_evars(LastEvent) /\ SF_evars(Opens)
  /\ SF_evars(Discover(Look)) /\ SF_evars(Housekeep(Look)) /\ SF_evars(table = conns /\ Refresh(TRUE))

ESpec == EInit /\ [][ENext]_evars /\ EFairness
-----------------------------------------------------------------------------
(* Properties.                                                             *)

Places == {"discover", "open", "begin", "capture", "events", "callback", "refresh",
           "close", "raised", "wait", "dead"}

\* Types; in a callback the engine has a flow at hand.
ETypeOK ==
  /\ running \in SUBSET Clients /\ conns \in [Keys -> Clients \cup {None}] /\ changes \in 0..MaxChanges
  /\ epc \in Places /\ stopping \in BOOLEAN /\ tracked \in BOOLEAN
  /\ pids \in SUBSET Clients /\ table \in [Keys -> Clients \cup {None}]
  /\ flows \in [Keys -> Flow \cup {None}] /\ misses \in [Keys -> 0..(MissLimit - 1)]
  /\ filter \in SUBSET {Host[k] : k \in Keys}
  /\ event \in Hand \cup {None}
  /\ states \in [Clients -> Record \cup {None}]
  /\ generations \in [Clients -> 0..MaxGen] /\ battle_ids \in [Clients -> 0..MaxBattles]
  /\ spent \in [Clients -> 0..(MaxGen + 1)] /\ over \in [Clients -> 0..MaxBattles]
  /\ epc \in {"events", "callback"} => event # None /\ flows[event.key] # None
  /\ epc = "callback" => event.kind # None

\* What is published and not pending is what a connection of that client that is
\* being followed said last, and nothing of that connection was lost since.  What the
\* feed that said it lost behind it does not count: what a loss withdraws is what was
\* published before the feed, and the events of the feed follow (_on_packet).
StateIsSaid ==
  \A p \in Clients : states[p] # None /\ ~states[p].pending =>
    \E k \in Main : /\ flows[k] # None /\ flows[k].pid = p
                   /\ flows[k].said = states[p].state /\ flows[k].lost # "since"

\* The same with no exception, for a battle: an "in" behind which the stream lost
\* something is withdrawn at once, since an EXIT may lie in what was lost
\* (packet_state_source.py:730-732).  The code does not keep it: the events of the
\* feed are published after the withdrawal, those before the loss as well.
StateIsHeard ==
  \A p \in Clients : epc = "capture" /\ states[p] # None /\ states[p].state = "in" =>
    \E k \in Main : /\ flows[k] # None /\ flows[k].pid = p
                   /\ flows[k].said = "in" /\ flows[k].lost = "no"

\* The epoch a runner is given is not that of a state withdrawn before, and a
\* battle does not have the number of one that ended or whose state was withdrawn.
EpochIsNew ==
  \A p \in Clients : states[p] # None =>
    /\ states[p].generation >= spent[p]
    /\ states[p].state = "in" => states[p].battle_id > over[p]

\* Nothing is published while nothing is captured.
NothingUncaptured ==
  epc \in {"discover", "open", "begin", "wait", "dead"} => \A p \in Clients : states[p] = None

\* p is there, has one connection, which is followed and was not missed before.
Fine(p) ==
  /\ p \in pids
  /\ \E k \in Main :
       /\ flows[k] # None /\ flows[k].pid = p /\ ~flows[k].quiet
       /\ table[k] = p \/ (table[k] = None /\ misses[k] = 0)
       /\ \A j \in Main \ {k} : table[j] # p /\ (flows[j] # None => flows[j].pid # p)

\* Housekeeping does not withdraw what a healthy connection said: neither another
\* client, nor the second port, nor one look that finds no connection, does.
KeptWhileFine ==
  [][\A p \in Clients : epc = "refresh" /\ Fine(p) => states'[p] = states[p]]_evars

\* is_capturing() and tracked_flows > 0 (agent.py): what the user is told.
Capturing ==
  tracked /\ ~stopping /\ epc \in {"begin", "capture", "events", "callback", "refresh"}

Sole(p, k) == \A j \in Main : conns[j] = p <=> j = k

\* A client that stays connected is followed and heard, again and again whatever
\* fails, unless the engine is stopped or a callback raises.
Recovers ==
  \A p \in Clients, k \in Main :
    <>[](Sole(p, k) /\ ~stopping /\ epc \notin {"raised", "dead"})
      => []<>(Capturing /\ flows[k] # None /\ flows[k].pid = p /\ Host[k] \in filter)

\* When no client has a connection that can be told, the user is told so.
GoneIsNoticed ==
  <>[](\A p \in Clients, k \in Main : ~Sole(p, k)) => <>[]~Capturing

\* Stopping ends the thread.
StopEndsThread == stopping ~> epc = "dead"
=============================================================================
