------------------------ MODULE PacketEngineProofs ------------------------
(***************************************************************************)
(* What the packet engine publishes is right, for any number of clients    *)
(* and connections, whatever they do and whatever fails.                   *)
(***************************************************************************)
EXTENDS PacketEngine, FiniteSetTheorems, TLAPS

(***************************************************************************)
(* A record carries the present generation and battle of its client, and   *)
(* what is past lies before them.                                          *)
(***************************************************************************)
Counters(p) ==
  /\ spent[p] <= generations[p] /\ over[p] <= battle_ids[p]
  /\ states[p] # None =>
       /\ states[p].generation = generations[p] /\ states[p].battle_id = battle_ids[p]
       /\ generations[p] < MaxGen
       /\ states[p].state = "in" => over[p] < battle_ids[p]

CountersFit == \A p \in Clients : Counters(p)

\* The connection of the event being called back said it.
AtHand ==
  epc = "callback" =>
    LET k == event.key IN
      /\ flows[k].said = event.kind /\ flows[k].lost # "since"
      /\ generations[flows[k].pid] < MaxGen
      /\ event.kind = "in" => battle_ids[flows[k].pid] < MaxBattles

\* The parts of the type invariant that change together.
FlowTypes ==
  /\ tracked \in BOOLEAN
  /\ flows \in [Keys -> Flow \cup {None}] /\ misses \in [Keys -> 0..(MissLimit - 1)]

StateTypes ==
  /\ states \in [Clients -> Record \cup {None}]
  /\ generations \in [Clients -> 0..MaxGen] /\ battle_ids \in [Clients -> 0..MaxBattles]
  /\ spent \in [Clients -> 0..(MaxGen + 1)] /\ over \in [Clients -> 0..MaxBattles]

OtherTypes ==
  /\ running \in SUBSET Clients /\ conns \in [Keys -> Clients \cup {None}] /\ changes \in 0..MaxChanges
  /\ epc \in Places /\ stopping \in BOOLEAN
  /\ pids \in SUBSET Clients /\ table \in [Keys -> Clients \cup {None}]
  /\ filter \in SUBSET {Host[k] : k \in Keys}

EventTypes ==
  /\ event \in Hand \cup {None}
  /\ epc \in {"events", "callback"} => event # None /\ flows[event.key] # None
  /\ epc = "callback" => event.kind # None

LEMMA TypeParts == ETypeOK <=> FlowTypes /\ StateTypes /\ OtherTypes /\ EventTypes
  BY DEF ETypeOK, FlowTypes, StateTypes, OtherTypes, EventTypes

IInv == ETypeOK /\ StateIsSaid /\ CountersFit /\ NothingUncaptured /\ AtHand

-----------------------------------------------------------------------------
(* What a look finds, and what clearing and reconciling do.                *)

LEMMA LooksType ==
  ASSUME OtherTypes, NEW look \in Looks
  PROVE  look[1] \in SUBSET Clients /\ look[2] \in [Keys -> Clients \cup {None}]
<1>1. CASE look = <<running, Nowhere>>
  BY <1>1 DEF OtherTypes, Nowhere
<1>2. ASSUME NEW P \in {running, {}},
             look = <<P, [k \in Keys |-> IF conns[k] \in P THEN conns[k] ELSE None]>>
      PROVE  look[1] \in SUBSET Clients /\ look[2] \in [Keys -> Clients \cup {None}]
  BY <1>2 DEF OtherTypes
<1> QED
  BY <1>1, <1>2 DEF Looks

\* Clearing keeps the counters in order.
LEMMA ClearFits ==
  ASSUME StateTypes, CountersFit, NEW P, Clear(P)
  PROVE  StateTypes' /\ CountersFit'
<1>1. ASSUME NEW p \in Clients
      PROVE  /\ states'[p] \in Record \cup {None} /\ generations'[p] \in 0..MaxGen
             /\ battle_ids'[p] \in 0..MaxBattles
             /\ spent'[p] \in 0..(MaxGen + 1) /\ over'[p] \in 0..MaxBattles
             /\ Counters(p)'
  <2>1. CASE p \in P /\ states[p] # None
    <3>1. /\ states'[p] = None /\ generations'[p] = generations[p] + 1
          /\ spent'[p] = states[p].generation + 1 /\ over'[p] = battle_ids[p]
          /\ battle_ids'[p] = battle_ids[p]
      BY <2>1 DEF Clear, Past
    <3>2. /\ states[p].generation = generations[p] /\ generations[p] < MaxGen
          /\ generations[p] \in Nat /\ battle_ids[p] \in 0..MaxBattles
      BY <2>1, EngineAssumption DEF CountersFit, Counters, StateTypes
    <3> QED
      BY <3>1, <3>2, EngineAssumption DEF Counters
  <2>2. CASE ~(p \in P /\ states[p] # None)
    <3>1. /\ states'[p] = states[p] /\ generations'[p] = generations[p]
          /\ spent'[p] = spent[p] /\ over'[p] = over[p] /\ battle_ids'[p] = battle_ids[p]
      BY <2>2 DEF Clear, Past
    <3> QED
      BY <3>1 DEF Counters, CountersFit, StateTypes
  <2> QED BY <2>1, <2>2
<1>2. /\ states' = [p \in Clients |-> states'[p]]
      /\ generations' = [p \in Clients |-> generations'[p]]
      /\ battle_ids' = [p \in Clients |-> battle_ids'[p]]
      /\ spent' = [p \in Clients |-> spent'[p]] /\ over' = [p \in Clients |-> over'[p]]
  BY DEF Clear, Past, StateTypes
<1> QED
  BY <1>1, <1>2 DEF StateTypes, CountersFit

LEMMA FollowTypes ==
  ASSUME FlowTypes, NEW t \in [Keys -> Clients \cup {None}], Follow(t)
  PROVE  FlowTypes'
<1>1. ASSUME NEW k \in Keys
      PROVE  (IF IsNew(t, k) THEN NewFlow(t[k]) ELSE IF IsGone(t, k) THEN None ELSE flows[k])
               \in Flow \cup {None}
  <2>1. CASE IsNew(t, k)
    <3>1. t[k] \in Clients
      BY <2>1 DEF IsNew, Live, Connected
    <3> QED BY <2>1, <3>1 DEF NewFlow, Flow
  <2> QED BY <2>1 DEF FlowTypes
<1>2. ASSUME NEW k \in Keys
      PROVE  (IF Missed(t, k) /\ ~IsGone(t, k) THEN misses[k] + 1 ELSE 0) \in 0..(MissLimit - 1)
  BY EngineAssumption DEF FlowTypes, IsGone
<1>3. flows' \in [Keys -> Flow \cup {None}]
  BY <1>1 DEF Follow
<1>4. misses' \in [Keys -> 0..(MissLimit - 1)]
  BY <1>2 DEF Follow
<1>5. tracked' \in BOOLEAN
  BY DEF Follow
<1> QED
  BY <1>3, <1>4, <1>5 DEF FlowTypes

-----------------------------------------------------------------------------
(* Steps that leave the flows and what is published alone.                 *)

Aside ==
  \/ \E look \in Looks : Discover(look) \/ Housekeep(look)
  \/ OpenFails \/ Opens \/ ReadFails \/ LeaveLoop \/ Raise \/ RetryWait
  \/ Stop \/ \E q \in Clients : Launch(q) \/ Exit(q)
  \/ \E k \in Keys : Disconnect(k) \/ \E q \in Clients : Connect(k, q)

LEMMA AsideKeeps ==
  ASSUME Aside
  PROVE  UNCHANGED <<followed, event, published>>
  BY DEF Aside, Discover, Housekeep, OpenFails, Opens, ReadFails, LeaveLoop, Raise, RetryWait,
         Stop, Launch, Exit, Disconnect, Connect, Changed, Same

LEMMA AsideTypes ==
  ASSUME OtherTypes, Aside
  PROVE  OtherTypes'
<1>1. ASSUME NEW look \in Looks, Discover(look) \/ Housekeep(look)
      PROVE  OtherTypes'
  <2>1. look[1] \in SUBSET Clients /\ look[2] \in [Keys -> Clients \cup {None}]
    BY LooksType
  <2> QED
    BY <1>1, <2>1 DEF Discover, Housekeep, OtherTypes, Goto, Same, world, looked, Places
<1>2. CASE OpenFails \/ Opens
  BY <1>2 DEF OpenFails, Opens, OtherTypes, Goto, Same, world, looked, Places, Forget, Nowhere,
              derive_server_ips, Connected
<1>3. CASE ReadFails \/ LeaveLoop \/ Raise \/ RetryWait
  BY <1>3 DEF ReadFails, LeaveLoop, Raise, RetryWait, OtherTypes, Goto, Same, world, looked, Places
<1>4. CASE Stop
  BY <1>4 DEF Stop, OtherTypes, world, looked
<1>5. ASSUME NEW q \in Clients, Launch(q) \/ Exit(q)
      PROVE  OtherTypes'
  BY <1>5, EngineAssumption DEF Launch, Exit, Changed, OtherTypes, looked
<1>6. ASSUME NEW k \in Keys, Disconnect(k) \/ \E q \in Clients : Connect(k, q)
      PROVE  OtherTypes'
  BY <1>6, EngineAssumption DEF Disconnect, Connect, Changed, OtherTypes, looked
<1> QED
  BY <1>1, <1>2, <1>3, <1>4, <1>5, <1>6 DEF Aside

\* A callback is entered, and a quiet place left, by other steps only.
LEMMA AsidePlaces ==
  ASSUME OtherTypes, Aside
  PROVE  /\ epc' \in {"events", "callback"} => epc' = epc
         /\ epc' \in {"discover", "open", "begin", "wait", "dead"}
              => epc \in {"discover", "open", "begin", "wait", "dead"}
<1>1. CASE \E look \in Looks : Discover(look) \/ Housekeep(look)
  BY <1>1 DEF Discover, Housekeep, Goto
<1>2. CASE OpenFails \/ Opens \/ ReadFails \/ LeaveLoop \/ Raise \/ RetryWait
  BY <1>2 DEF OpenFails, Opens, ReadFails, LeaveLoop, Raise, RetryWait, Goto
<1>3. CASE \/ Stop \/ \E q \in Clients : Launch(q) \/ Exit(q)
           \/ \E k \in Keys : Disconnect(k) \/ \E q \in Clients : Connect(k, q)
  BY <1>3 DEF Stop, Launch, Exit, Disconnect, Connect, Changed
<1> QED
  BY <1>1, <1>2, <1>3 DEF Aside

LEMMA AsideStep ==
  ASSUME IInv, Aside
  PROVE  IInv'
<1>1. UNCHANGED <<followed, event, published>>
  BY AsideKeeps
<1>2. OtherTypes'
  BY AsideTypes, TypeParts DEF IInv
<1>3. /\ epc' \in {"events", "callback"} => epc' = epc
      /\ epc' \in {"discover", "open", "begin", "wait", "dead"}
           => epc \in {"discover", "open", "begin", "wait", "dead"}
  BY AsidePlaces, TypeParts DEF IInv
<1>4. FlowTypes' /\ StateTypes' /\ EventTypes'
  BY <1>1, <1>3, TypeParts
     DEF IInv, FlowTypes, StateTypes, EventTypes, followed, published
<1>5. StateIsSaid' /\ CountersFit' /\ NothingUncaptured' /\ AtHand'
  BY <1>1, <1>3
     DEF IInv, StateIsSaid, CountersFit, Counters, NothingUncaptured, AtHand, followed, published
<1>6. ETypeOK'
  <2>1. (FlowTypes /\ StateTypes /\ OtherTypes /\ EventTypes)' => ETypeOK'
    BY DEF ETypeOK, FlowTypes, StateTypes, OtherTypes, EventTypes
  <2> QED BY <1>2, <1>4, <2>1
<1> QED
  BY <1>5, <1>6 DEF IInv

-----------------------------------------------------------------------------
(* A segment and its events.                                               *)

\* A flow is a flow of a client, and only main connections are at hand.
LEMMA FlowFields ==
  ASSUME FlowTypes, NEW k \in Keys, flows[k] # None
  PROVE  flows[k] \in Flow /\ flows[k].pid \in Clients /\ flows[k].quiet \in BOOLEAN
  BY DEF FlowTypes, Flow

LEMMA NoneIsApart ==
  /\ None \notin Flow /\ None \notin Hand /\ None \notin {"in", "out"} /\ None \notin Clients
  /\ \A p \in Clients : NewFlow(p) \in Flow
  /\ \A k \in Main, lost \in BOOLEAN : [key |-> k, kind |-> None, ahead |-> lost] \in Hand
<1>1. \A p \in Clients : NewFlow(p) \in Flow
  BY DEF NewFlow, Flow
<1>2. \A k \in Main, lost \in BOOLEAN : [key |-> k, kind |-> None, ahead |-> lost] \in Hand
  BY DEF Hand
<1> QED
  BY <1>1, <1>2, EngineAssumption

LEMMA LostStep ==
  ASSUME IInv, NEW k \in Main, Segment(k, TRUE)
  PROVE  IInv'
<1> DEFINE p == flows[k].pid
<1>1. /\ flows[k] # None /\ k \in Keys /\ generations[p] < MaxGen /\ epc = "capture"
      /\ FlowTypes /\ StateTypes /\ OtherTypes /\ EventTypes
  BY TypeParts DEF IInv, Segment, Keys
<1>2. p \in Clients
  BY <1>1, FlowFields
<1>0. PICK b \in {FALSE, flows[k].quiet} :
        flows' = [flows EXCEPT ![k].quiet = b, ![k].lost = "since"]
  BY DEF Segment
<1>3. /\ epc' = "events" /\ event' = [key |-> k, kind |-> None, ahead |-> TRUE]
      /\ states' = [states EXCEPT ![p] = None]
      /\ generations' = [generations EXCEPT ![p] = @ + 1]
      /\ Past({p}) /\ UNCHANGED <<world, stopping, looked, misses, tracked, filter, battle_ids>>
  BY DEF Segment, Goto, Same
<1>4. /\ flows'[k] \in Flow /\ flows'[k] # None
      /\ \A j \in Keys : j # k => flows'[j] = flows[j]
      /\ event' \in Hand /\ event' # None
  <2>1. flows[k] \in Flow /\ b \in BOOLEAN
    BY <1>0, <1>1, FlowFields
  <2>2. flows' = [flows EXCEPT ![k] = [flows[k] EXCEPT !.quiet = b, !.lost = "since"]]
    BY <1>0, <1>1 DEF FlowTypes
  <2>3. [flows[k] EXCEPT !.quiet = b, !.lost = "since"] \in Flow
    BY <2>1 DEF Flow
  <2>4. flows'[k] \in Flow /\ \A j \in Keys : j # k => flows'[j] = flows[j]
    BY <2>2, <2>3, <1>1 DEF FlowTypes
  <2>5. event' \in Hand /\ event' # None
    BY <1>3, NoneIsApart
  <2> QED BY <2>4, <2>5, NoneIsApart
<1>5. FlowTypes'
  <2>1. flows' = [j \in Keys |-> flows'[j]]
    BY <1>0, <1>1 DEF FlowTypes
  <2>2. flows' \in [Keys -> Flow \cup {None}]
    BY <2>1, <1>1, <1>4 DEF FlowTypes
  <2> QED BY <2>2, <1>1, <1>3 DEF FlowTypes
<1>6. EventTypes'
  BY <1>1, <1>3, <1>4 DEF EventTypes, FlowTypes
<1>7. OtherTypes'
  BY <1>1, <1>3 DEF OtherTypes, world, looked, Places
<1>8. ASSUME NEW q \in Clients
      PROVE  /\ spent'[q] \in 0..(MaxGen + 1) /\ over'[q] \in 0..MaxBattles
             /\ generations'[q] \in 0..MaxGen /\ Counters(q)'
  <2>1. CASE q = p
    <3>1. /\ states'[q] = None /\ generations'[q] = generations[q] + 1
          /\ battle_ids'[q] = battle_ids[q]
          /\ spent'[q] = IF states[q] # None THEN states[q].generation + 1 ELSE spent[q]
          /\ over'[q] = IF states[q] # None THEN battle_ids[q] ELSE over[q]
      BY <2>1, <1>1, <1>2, <1>3 DEF Past, StateTypes
    <3>2. Counters(q) /\ generations[q] \in Nat /\ battle_ids[q] \in 0..MaxBattles
          /\ over[q] \in 0..MaxBattles /\ spent[q] \in Nat
      BY <1>1, EngineAssumption DEF IInv, CountersFit, StateTypes
    <3> QED
      BY <3>1, <3>2, <2>1, <1>1, EngineAssumption DEF Counters
  <2>2. CASE q # p
    <3>1. /\ states'[q] = states[q] /\ generations'[q] = generations[q]
          /\ spent'[q] = spent[q] /\ over'[q] = over[q] /\ battle_ids'[q] = battle_ids[q]
      BY <2>2, <1>1, <1>2, <1>3 DEF Past, StateTypes
    <3> QED
      BY <3>1, <1>1 DEF IInv, CountersFit, Counters, StateTypes
  <2> QED BY <2>1, <2>2
<1>9. StateTypes' /\ CountersFit'
  <2>1. /\ states' \in [Clients -> Record \cup {None}]
        /\ battle_ids' \in [Clients -> 0..MaxBattles]
    BY <1>1, <1>3 DEF StateTypes
  <2>2. generations' \in [Clients -> 0..MaxGen]
    <3>1. generations' = [q \in Clients |-> generations'[q]]
      BY <1>1, <1>3 DEF StateTypes
    <3> QED BY <3>1, <1>8
  <2>3. spent' \in [Clients -> 0..(MaxGen + 1)] /\ over' \in [Clients -> 0..MaxBattles]
    <3>1. spent' = [q \in Clients |-> spent'[q]] /\ over' = [q \in Clients |-> over'[q]]
      BY <1>3 DEF Past
    <3> QED BY <3>1, <1>8
  <2> QED BY <2>1, <2>2, <2>3, <1>8 DEF StateTypes, CountersFit
<1>10. StateIsSaid'
  <2>1. ASSUME NEW q \in Clients, states'[q] # None, ~states'[q].pending
        PROVE  \E j \in Main : /\ flows'[j] # None /\ flows'[j].pid = q
                              /\ flows'[j].said = states'[q].state /\ flows'[j].lost # "since"
    <3>1. q # p /\ states'[q] = states[q]
      BY <2>1, <1>1, <1>2, <1>3 DEF StateTypes
    <3>2. PICK j \in Main : /\ flows[j] # None /\ flows[j].pid = q
                         /\ flows[j].said = states[q].state /\ flows[j].lost # "since"
      BY <2>1, <3>1 DEF IInv, StateIsSaid
    <3>3. j # k /\ flows'[j] = flows[j]
      BY <3>1, <3>2, <1>4 DEF Keys
    <3> QED BY <3>1, <3>2, <3>3
  <2> QED BY <2>1 DEF StateIsSaid
<1>11. NothingUncaptured' /\ AtHand'
  BY <1>3 DEF NothingUncaptured, AtHand
<1> QED
  BY <1>5, <1>6, <1>7, <1>9, <1>10, <1>11
     DEF IInv, ETypeOK, FlowTypes, StateTypes, OtherTypes, EventTypes

LEMMA FedStep ==
  ASSUME IInv, NEW k \in Main, Segment(k, FALSE)
  PROVE  IInv'
<1>1. /\ flows[k] # None /\ k \in Keys /\ epc = "capture"
      /\ FlowTypes /\ StateTypes /\ OtherTypes /\ EventTypes
  BY TypeParts DEF IInv, Segment, Keys
<1>2. PICK q \in {FALSE, flows[k].quiet} :
        flows' = [flows EXCEPT ![k].quiet = q, ![k].lost = @]
  BY DEF Segment
<1>3. /\ epc' = "events" /\ event' = [key |-> k, kind |-> None, ahead |-> FALSE]
      /\ UNCHANGED <<world, stopping, looked, misses, tracked, filter, published>>
  BY DEF Segment, Goto, Same
<1>4. flows[k] \in Flow /\ q \in BOOLEAN
  BY <1>1, <1>2, FlowFields
<1>5. /\ \A j \in Keys : j # k => flows'[j] = flows[j]
      /\ flows'[k] \in Flow /\ flows'[k] # None
      /\ flows'[k].pid = flows[k].pid /\ flows'[k].said = flows[k].said
      /\ flows'[k].lost = flows[k].lost
  BY <1>1, <1>2, <1>4, NoneIsApart DEF FlowTypes, Flow
<1>6. FlowTypes'
  BY <1>1, <1>2, <1>3, <1>5 DEF FlowTypes
<1>7. event' \in Hand /\ event' # None
  BY <1>3, NoneIsApart
<1>8. OtherTypes' /\ EventTypes'
  BY <1>1, <1>3, <1>5, <1>7 DEF OtherTypes, EventTypes, world, looked, Places
<1>9. StateTypes' /\ CountersFit' /\ NothingUncaptured' /\ AtHand'
  BY <1>1, <1>3 DEF IInv, StateTypes, CountersFit, Counters, NothingUncaptured, AtHand, published
<1>10. StateIsSaid'
  BY <1>1, <1>3, <1>5 DEF IInv, StateIsSaid, published, Keys
<1> QED
  BY <1>6, <1>8, <1>9, <1>10
     DEF IInv, ETypeOK, FlowTypes, StateTypes, OtherTypes, EventTypes

LEMMA EventStep ==
  ASSUME IInv, NEW kind \in {"in", "out"}, NEW ahead \in BOOLEAN, Event(kind, ahead)
  PROVE  IInv'
<1> DEFINE k == event.key
<1> DEFINE p == flows[k].pid
<1>1. /\ epc = "events" /\ event # None /\ flows[k] # None
      /\ FlowTypes /\ StateTypes /\ OtherTypes /\ EventTypes
  BY TypeParts DEF IInv, Event, EventTypes
<1>2. event \in Hand /\ k \in Main /\ k \in Keys
  BY <1>1 DEF EventTypes, Hand, Keys
<1>3. flows[k] \in Flow /\ p \in Clients
  BY <1>1, <1>2, FlowFields
<1> DEFINE lost == IF ahead THEN "within" ELSE "no"
<1>4. /\ epc' = "callback" /\ generations[p] < MaxGen
      /\ kind = "in" => battle_ids[p] < MaxBattles
      /\ event' = [event EXCEPT !.kind = kind, !.ahead = ahead]
      /\ flows' = [flows EXCEPT ![k].said = kind, ![k].quiet = FALSE, ![k].lost = lost]
      /\ states' = [states EXCEPT ![p] =
           IF states[p] # None /\ states[p].state # kind THEN [@ EXCEPT !.pending = TRUE] ELSE @]
      /\ UNCHANGED <<world, stopping, looked, misses, tracked, filter>>
      /\ UNCHANGED <<generations, battle_ids, spent, over>>
  BY DEF Event, Goto, Same
<1>5. event' \in Hand /\ event'.key = k /\ event'.kind = kind
  BY <1>2, <1>4 DEF Hand
<1>6. /\ \A j \in Keys : j # k => flows'[j] = flows[j]
      /\ flows'[k] \in Flow /\ flows'[k].pid = p /\ flows'[k].said = kind
      /\ flows'[k].lost # "since"
      /\ flows' \in [Keys -> Flow \cup {None}]
  <2>1. flows' = [flows EXCEPT ![k] = [flows[k] EXCEPT !.said = kind, !.quiet = FALSE, !.lost = lost]]
    BY <1>1, <1>2, <1>4 DEF FlowTypes
  <2>2. [flows[k] EXCEPT !.said = kind, !.quiet = FALSE, !.lost = lost] \in Flow
    BY <1>3 DEF Flow
  <2>3. /\ [flows[k] EXCEPT !.said = kind, !.quiet = FALSE, !.lost = lost].pid = p
        /\ [flows[k] EXCEPT !.said = kind, !.quiet = FALSE, !.lost = lost].said = kind
        /\ [flows[k] EXCEPT !.said = kind, !.quiet = FALSE, !.lost = lost].lost = lost
    BY <1>3 DEF Flow
  <2>4. flows'[k] = [flows[k] EXCEPT !.said = kind, !.quiet = FALSE, !.lost = lost]
    BY <2>1, <1>1, <1>2 DEF FlowTypes
  <2>5. \A j \in Keys : j # k => flows'[j] = flows[j]
    BY <2>1, <1>1 DEF FlowTypes
  <2>6. flows' \in [Keys -> Flow \cup {None}]
    BY <2>1, <2>2, <1>1 DEF FlowTypes
  <2> QED BY <2>2, <2>3, <2>4, <2>5, <2>6
<1>7. ASSUME NEW q \in Clients
      PROVE  /\ states'[q] \in Record \cup {None}
             /\ states'[q] = None <=> states[q] = None
             /\ states[q] # None => /\ states'[q].generation = states[q].generation
                                    /\ states'[q].battle_id = states[q].battle_id
                                    /\ states'[q].state = states[q].state
             /\ q # p => states'[q] = states[q]
             /\ states'[q] # None /\ ~states'[q].pending =>
                  ~states[q].pending /\ (q = p => states'[q].state = kind)
  <2>1. CASE q = p /\ states[p] # None /\ states[p].state # kind
    <3>1. states[p] \in Record /\ states'[q] = [states[p] EXCEPT !.pending = TRUE]
      BY <2>1, <1>1, <1>3, <1>4 DEF StateTypes
    <3>2. /\ states'[q] \in Record /\ states'[q].pending
          /\ states'[q].generation = states[q].generation
          /\ states'[q].battle_id = states[q].battle_id /\ states'[q].state = states[q].state
      BY <3>1, <2>1 DEF Record
    <3>3. None \notin Record
      BY EngineAssumption
    <3> QED BY <3>2, <3>3, <2>1
  <2>2. CASE ~(q = p /\ states[p] # None /\ states[p].state # kind)
    <3>1. states'[q] = states[q]
      BY <2>2, <1>1, <1>3, <1>4 DEF StateTypes
    <3> QED BY <3>1, <2>2, <1>1 DEF StateTypes
  <2> QED BY <2>1, <2>2
<1>8. FlowTypes' /\ OtherTypes' /\ EventTypes'
  BY <1>1, <1>4, <1>5, <1>6, NoneIsApart
     DEF FlowTypes, OtherTypes, EventTypes, world, looked, Places
<1>9. StateTypes' /\ CountersFit'
  <2>1. states' = [q \in Clients |-> states'[q]]
    BY <1>1, <1>4 DEF StateTypes
  <2>2. states' \in [Clients -> Record \cup {None}]
    BY <2>1, <1>7
  <2>3. ASSUME NEW q \in Clients PROVE Counters(q)'
    BY <1>4, <1>7 DEF IInv, CountersFit, Counters
  <2> QED BY <2>2, <2>3, <1>1, <1>4 DEF StateTypes, CountersFit
<1>10. StateIsSaid'
  <2>1. ASSUME NEW q \in Clients, states'[q] # None, ~states'[q].pending
        PROVE  \E j \in Main : /\ flows'[j] # None /\ flows'[j].pid = q
                              /\ flows'[j].said = states'[q].state /\ flows'[j].lost # "since"
    <3>1. CASE q = p
      BY <3>1, <2>1, <1>2, <1>6, <1>7, NoneIsApart
    <3>2. CASE q # p
      <4>1. PICK j \in Main : /\ flows[j] # None /\ flows[j].pid = q
                         /\ flows[j].said = states[q].state /\ flows[j].lost # "since"
        BY <3>2, <2>1, <1>7 DEF IInv, StateIsSaid
      <4>2. j # k /\ flows'[j] = flows[j] /\ states'[q] = states[q]
        BY <3>2, <4>1, <1>6, <1>7 DEF Keys
      <4> QED BY <4>1, <4>2
    <3> QED BY <3>1, <3>2
  <2> QED BY <2>1 DEF StateIsSaid
<1>11. NothingUncaptured'
  BY <1>4 DEF NothingUncaptured
<1>12. AtHand'
  BY <1>4, <1>5, <1>6 DEF AtHand
<1> QED
  BY <1>8, <1>9, <1>10, <1>11, <1>12
     DEF IInv, ETypeOK, FlowTypes, StateTypes, OtherTypes, EventTypes

LEMMA PublishStep ==
  ASSUME IInv, Publish
  PROVE  IInv'
<1> DEFINE k == event.key
<1> DEFINE p == flows[k].pid
<1>1. /\ epc = "callback" /\ event # None /\ flows[k] # None
      /\ FlowTypes /\ StateTypes /\ OtherTypes /\ EventTypes
  BY TypeParts DEF IInv, Publish, EventTypes
<1>2. event \in Hand /\ k \in Main /\ k \in Keys /\ event.kind \in {"in", "out"}
  BY <1>1 DEF EventTypes, Hand, Keys
<1>3. p \in Clients
  BY <1>1, <1>2, FlowFields
<1>4. PICK id : id = battle_ids[p] + (IF event.kind = "in" /\ (states[p] = None \/ states[p].state # "in")
                                      THEN 1 ELSE 0)
  OBVIOUS
<1>5. PICK new : new = [state |-> event.kind, generation |-> generations[p],
                        battle_id |-> id, pending |-> FALSE]
  OBVIOUS
<1>6. /\ epc' = "events"
      /\ battle_ids' = [battle_ids EXCEPT ![p] = id] /\ states' = [states EXCEPT ![p] = new]
      /\ over' = [over EXCEPT ![p] = IF event.kind = "out" THEN battle_ids[p] ELSE @]
      /\ event' = [event EXCEPT !.kind = None]
      /\ UNCHANGED <<world, stopping, looked, followed, filter, generations, spent>>
  BY <1>4, <1>5 DEF Publish, Goto, Same
<1>7. /\ generations[p] < MaxGen /\ generations[p] \in 0..MaxGen /\ battle_ids[p] \in 0..MaxBattles
      /\ event.kind = "in" => battle_ids[p] < MaxBattles
      /\ flows[k].said = event.kind /\ flows[k].lost # "since" /\ MaxGen \in Nat /\ MaxBattles \in Nat
  BY <1>1, <1>3, EngineAssumption DEF IInv, AtHand, StateTypes
<1>8. id \in 0..MaxBattles /\ battle_ids[p] <= id
  BY <1>4, <1>7
<1>9. new \in Record
  BY <1>2, <1>5, <1>7, <1>8 DEF Record
<1>10. event' \in Hand /\ event'.key = k
  BY <1>2, <1>6 DEF Hand
<1>11. FlowTypes' /\ OtherTypes' /\ EventTypes'
  BY <1>1, <1>6, <1>10, NoneIsApart
     DEF FlowTypes, OtherTypes, EventTypes, world, looked, followed, Places
<1>12. StateTypes'
  BY <1>1, <1>3, <1>6, <1>7, <1>8, <1>9 DEF StateTypes
<1>13. ASSUME NEW q \in Clients PROVE Counters(q)'
  <2>0. Counters(q)
    BY DEF IInv, CountersFit
  <2>1. CASE q = p
    <3>1. /\ states'[q] = new /\ battle_ids'[q] = id /\ generations'[q] = generations[q]
          /\ over'[q] = (IF event.kind = "out" THEN battle_ids[q] ELSE over[q])
          /\ spent'[q] = spent[q]
      BY <2>1, <1>1, <1>3, <1>6 DEF StateTypes
    <3>2. /\ new.generation = generations[q] /\ new.battle_id = id /\ new.state = event.kind
      BY <1>5, <2>1
    <3>3. over[q] <= battle_ids[q] /\ over[q] \in Nat
      BY <2>0, <1>1 DEF Counters, StateTypes
    <3>4. event.kind = "in" => over[q] < id
      BY <2>0, <2>1, <3>3, <1>4, <1>7 DEF Counters
    <3> QED
      BY <2>0, <2>1, <3>1, <3>2, <3>3, <3>4, <1>7, <1>8, <1>2 DEF Counters
  <2>2. CASE q # p
    <3>1. /\ states'[q] = states[q] /\ battle_ids'[q] = battle_ids[q] /\ over'[q] = over[q]
          /\ generations'[q] = generations[q] /\ spent'[q] = spent[q]
      BY <2>2, <1>1, <1>3, <1>6 DEF StateTypes
    <3> QED BY <2>0, <3>1 DEF Counters
  <2> QED BY <2>1, <2>2
<1>14. StateIsSaid'
  <2>1. ASSUME NEW q \in Clients, states'[q] # None, ~states'[q].pending
        PROVE  \E j \in Main : /\ flows'[j] # None /\ flows'[j].pid = q
                              /\ flows'[j].said = states'[q].state /\ flows'[j].lost # "since"
    <3>1. CASE q = p
      <4>1. states'[q].state = event.kind
        BY <3>1, <1>1, <1>3, <1>5, <1>6 DEF StateTypes
      <4> QED BY <4>1, <3>1, <1>1, <1>2, <1>6, <1>7 DEF followed
    <3>2. CASE q # p
      BY <3>2, <2>1, <1>1, <1>3, <1>6 DEF IInv, StateIsSaid, StateTypes, followed
    <3> QED BY <3>1, <3>2
  <2> QED BY <2>1 DEF StateIsSaid
<1>15. NothingUncaptured' /\ AtHand'
  BY <1>6 DEF NothingUncaptured, AtHand
<1> QED
  BY <1>11, <1>12, <1>13, <1>14, <1>15
     DEF IInv, ETypeOK, FlowTypes, StateTypes, OtherTypes, EventTypes, CountersFit

LEMMA LastEventStep ==
  ASSUME IInv, LastEvent
  PROVE  IInv'
<1>1. FlowTypes /\ StateTypes /\ OtherTypes /\ EventTypes
  BY TypeParts DEF IInv
<1>2. /\ epc' = "capture" /\ event' = None
      /\ UNCHANGED <<world, stopping, looked, followed, filter, published>>
  BY DEF LastEvent, Goto, Same
<1>3. FlowTypes' /\ StateTypes' /\ OtherTypes' /\ EventTypes'
  BY <1>1, <1>2 DEF FlowTypes, StateTypes, OtherTypes, EventTypes, world, looked, followed,
                    published, Places
<1>4. StateIsSaid' /\ CountersFit' /\ NothingUncaptured' /\ AtHand'
  BY <1>2 DEF IInv, StateIsSaid, CountersFit, Counters, NothingUncaptured, AtHand, followed, published
<1> QED
  BY <1>3, <1>4 DEF IInv, ETypeOK, FlowTypes, StateTypes, OtherTypes, EventTypes

LEMMA QuietStep ==
  ASSUME IInv, NEW k \in Keys, Quiet(k)
  PROVE  IInv'
<1>1. /\ flows[k] # None /\ epc = "capture"
      /\ FlowTypes /\ StateTypes /\ OtherTypes /\ EventTypes
  BY TypeParts DEF IInv, Quiet
<1>2. /\ flows' = [flows EXCEPT ![k].quiet = TRUE]
      /\ UNCHANGED <<world, epc, stopping, looked, misses, tracked, filter, event, published>>
  BY DEF Quiet
<1>3. flows[k] \in Flow
  BY <1>1, FlowFields
<1>4. /\ \A j \in Keys : j # k => flows'[j] = flows[j]
      /\ flows'[k] \in Flow /\ flows'[k] # None
      /\ flows'[k].pid = flows[k].pid /\ flows'[k].said = flows[k].said
      /\ flows'[k].lost = flows[k].lost
  BY <1>1, <1>2, <1>3, NoneIsApart DEF FlowTypes, Flow
<1>5. FlowTypes'
  BY <1>1, <1>2, <1>4 DEF FlowTypes
<1>6. StateTypes' /\ OtherTypes' /\ EventTypes'
  BY <1>1, <1>2 DEF StateTypes, OtherTypes, EventTypes, world, looked, published
<1>7. CountersFit' /\ NothingUncaptured' /\ AtHand'
  BY <1>1, <1>2 DEF IInv, CountersFit, Counters, NothingUncaptured, AtHand, published
<1>8. StateIsSaid'
  BY <1>1, <1>2, <1>4 DEF IInv, StateIsSaid, published, Keys
<1> QED
  BY <1>5, <1>6, <1>7, <1>8 DEF IInv, ETypeOK, FlowTypes, StateTypes, OtherTypes, EventTypes

-----------------------------------------------------------------------------
(* Steps that clear.                                                       *)

LEMMA AllCleared ==
  ASSUME Clear(Clients)
  PROVE  (\A p \in Clients : states'[p] = None) /\ StateIsSaid' /\ NothingUncaptured'
  BY DEF Clear, StateIsSaid, NothingUncaptured

LEMMA BeginStep ==
  ASSUME IInv, NEW look \in Looks, Begin(look)
  PROVE  IInv'
<1>1. FlowTypes /\ StateTypes /\ OtherTypes /\ EventTypes /\ CountersFit
  BY TypeParts DEF IInv
<1>2. /\ epc = "begin" /\ epc' = "capture" /\ Clear(Clients) /\ Follow(look[2])
      /\ UNCHANGED <<world, stopping, looked, filter, event>>
  BY DEF Begin, Goto, Same
<1>3. look[2] \in [Keys -> Clients \cup {None}]
  BY <1>1, LooksType
<1>4. FlowTypes' /\ StateTypes' /\ CountersFit' /\ StateIsSaid' /\ NothingUncaptured'
  BY <1>1, <1>2, <1>3, FollowTypes, ClearFits, AllCleared
<1>5. OtherTypes' /\ EventTypes' /\ AtHand'
  BY <1>1, <1>2 DEF OtherTypes, EventTypes, AtHand, world, looked, Places
<1> QED
  BY <1>4, <1>5 DEF IInv, ETypeOK, FlowTypes, StateTypes, OtherTypes, EventTypes

LEMMA CloseStep ==
  ASSUME IInv, Close
  PROVE  IInv'
<1>1. FlowTypes /\ StateTypes /\ OtherTypes /\ EventTypes /\ CountersFit
  BY TypeParts DEF IInv
<1>2. /\ epc' \in {"wait", "dead"} /\ Clear(Clients)
      /\ flows' = Nowhere /\ misses' = [k \in Keys |-> 0] /\ filter' = {} /\ event' = None
      /\ UNCHANGED <<world, stopping, looked, tracked>>
  BY DEF Close, Goto, Same
<1>3. StateTypes' /\ CountersFit' /\ StateIsSaid' /\ NothingUncaptured'
  BY <1>1, <1>2, ClearFits, AllCleared
<1>4. FlowTypes' /\ OtherTypes' /\ EventTypes' /\ AtHand'
  BY <1>1, <1>2, EngineAssumption
     DEF FlowTypes, OtherTypes, EventTypes, AtHand, world, looked, Places, Nowhere
<1> QED
  BY <1>3, <1>4 DEF IInv, ETypeOK, FlowTypes, StateTypes, OtherTypes, EventTypes

LEMMA ThreadEndsStep ==
  ASSUME IInv, ThreadEnds
  PROVE  IInv'
<1>1. FlowTypes /\ StateTypes /\ OtherTypes /\ EventTypes /\ CountersFit
  BY TypeParts DEF IInv
<1>2. /\ epc' = "dead" /\ Clear(Clients)
      /\ UNCHANGED <<world, stopping, looked, followed, filter, event>>
  BY DEF ThreadEnds, Goto, Same
<1>3. StateTypes' /\ CountersFit' /\ StateIsSaid' /\ NothingUncaptured'
  BY <1>1, <1>2, ClearFits, AllCleared
<1>4. FlowTypes' /\ OtherTypes' /\ EventTypes' /\ AtHand'
  BY <1>1, <1>2 DEF FlowTypes, OtherTypes, EventTypes, AtHand, world, looked, followed, Places
<1> QED
  BY <1>3, <1>4 DEF IInv, ETypeOK, FlowTypes, StateTypes, OtherTypes, EventTypes

\* A client that keeps its state keeps the connection that said it.
LEMMA RefreshSaid ==
  ASSUME FlowTypes, StateIsSaid, NEW P, NEW t \in [Keys -> Clients \cup {None}], NEW S,
         Clear(Upset(P, t) \cup S), Follow(t)
  PROVE  StateIsSaid'
<1>1. ASSUME NEW q \in Clients, states'[q] # None, ~states'[q].pending
      PROVE  \E j \in Main : /\ flows'[j] # None /\ flows'[j].pid = q
                            /\ flows'[j].said = states'[q].state /\ flows'[j].lost # "since"
  <2>1. q \notin Upset(P, t) /\ states'[q] = states[q]
    BY <1>1 DEF Clear
  <2>2. PICK j \in Main : /\ flows[j] # None /\ flows[j].pid = q
                         /\ flows[j].said = states[q].state /\ flows[j].lost # "since"
    BY <1>1, <2>1 DEF StateIsSaid
  <2>3. ~IsNew(t, j) /\ ~IsGone(t, j)
    BY <2>1, <2>2 DEF Upset
  <2>4. flows'[j] = flows[j]
    BY <2>3 DEF Follow, Keys
  <2> QED BY <2>1, <2>2, <2>4
<1> QED
  BY <1>1 DEF StateIsSaid

LEMMA RefreshStep ==
  ASSUME IInv, NEW ok \in BOOLEAN, Refresh(ok)
  PROVE  IInv'
<1>1. FlowTypes /\ StateTypes /\ OtherTypes /\ EventTypes /\ CountersFit /\ StateIsSaid
  BY TypeParts DEF IInv
<1>2. /\ epc = "refresh" /\ epc' = "capture" /\ _maybe_refresh_filter(ok)
      /\ Clear(Upset(pids, table) \cup Silent(table)) /\ Follow(table)
      /\ pids' = {} /\ table' = Nowhere /\ UNCHANGED <<world, stopping, event>>
  BY DEF Refresh, Goto, Same, Forget
<1>3. table \in [Keys -> Clients \cup {None}]
  BY <1>1 DEF OtherTypes
<1>4. FlowTypes' /\ StateTypes' /\ CountersFit' /\ StateIsSaid'
  BY <1>1, <1>2, <1>3, FollowTypes, ClearFits, RefreshSaid
<1>5. filter' \in SUBSET {Host[k] : k \in Keys}
  BY <1>1, <1>2 DEF _maybe_refresh_filter, derive_server_ips, Connected, OtherTypes
<1>6. OtherTypes' /\ EventTypes' /\ AtHand' /\ NothingUncaptured'
  BY <1>1, <1>2, <1>5
     DEF OtherTypes, EventTypes, AtHand, NothingUncaptured, world, Places, Nowhere
<1> QED
  BY <1>4, <1>6 DEF IInv, ETypeOK, FlowTypes, StateTypes, OtherTypes, EventTypes

-----------------------------------------------------------------------------
(* The theorems.                                                           *)

LEMMA InitInv == EInit => IInv
<1> SUFFICES ASSUME EInit PROVE IInv
  OBVIOUS
<1>1. ETypeOK
  <2>1. flows \in [Keys -> Flow \cup {None}] /\ table \in [Keys -> Clients \cup {None}]
    BY DEF EInit, Nowhere
  <2>2. 0 \in 0..(MissLimit - 1) /\ 0 \in 0..MaxChanges
    BY EngineAssumption
  <2>3. misses \in [Keys -> 0..(MissLimit - 1)]
    BY <2>2 DEF EInit
  <2>4. FlowTypes
    BY <2>1, <2>3 DEF EInit, FlowTypes
  <2>5. StateTypes
    BY EngineAssumption DEF EInit, StateTypes
  <2>6. running \in SUBSET Clients /\ conns \in [Keys -> Clients \cup {None}]
    <3>1. running \in SUBSET Clients /\ conns \in [Keys -> running \cup {None}]
      BY DEF EInit
    <3>2. running \cup {None} \subseteq Clients \cup {None}
      BY <3>1
    <3> QED BY <3>1, <3>2
  <2>7. OtherTypes
    BY <2>1, <2>2, <2>6 DEF EInit, OtherTypes, Places
  <2>8. EventTypes
    BY DEF EInit, EventTypes
  <2> QED BY <2>4, <2>5, <2>7, <2>8, TypeParts
<1>2. StateIsSaid /\ CountersFit /\ NothingUncaptured /\ AtHand
  BY DEF EInit, StateIsSaid, CountersFit, Counters, NothingUncaptured, AtHand
<1> QED
  BY <1>1, <1>2 DEF IInv

LEMMA StepInv == IInv /\ [ENext]_evars => IInv'
<1> SUFFICES ASSUME IInv, [ENext]_evars PROVE IInv'
  OBVIOUS
<1>1. CASE Aside
  BY <1>1, AsideStep
<1>2. ASSUME NEW k \in Main, NEW lost \in BOOLEAN, Segment(k, lost) PROVE IInv'
  <2>1. CASE lost = TRUE
    BY <1>2, <2>1, LostStep
  <2>2. CASE lost = FALSE
    BY <1>2, <2>2, FedStep
  <2> QED BY <2>1, <2>2
<1>3. ASSUME NEW kind \in {"in", "out"}, NEW ahead \in BOOLEAN, Event(kind, ahead)
      PROVE  IInv'
  BY <1>3, EventStep
<1>4. CASE Publish
  BY <1>4, PublishStep
<1>5. CASE LastEvent
  BY <1>5, LastEventStep
<1>6. ASSUME NEW look \in Looks, Begin(look) PROVE IInv'
  BY <1>6, BeginStep
<1>7. ASSUME NEW ok \in BOOLEAN, Refresh(ok) PROVE IInv'
  BY <1>7, RefreshStep
<1>8. CASE Close
  BY <1>8, CloseStep
<1>9. CASE ThreadEnds
  BY <1>9, ThreadEndsStep
<1>10. ASSUME NEW k \in Keys, Quiet(k) PROVE IInv'
  BY <1>10, QuietStep
<1>11. CASE UNCHANGED evars
  <2>1. UNCHANGED <<world, epc, stopping, looked, followed, filter, event, published>>
    BY <1>11 DEF evars
  <2>2. /\ UNCHANGED <<running, conns, changes>> /\ UNCHANGED <<pids, table>>
        /\ UNCHANGED <<flows, misses, tracked>> /\ UNCHANGED <<epc, stopping, filter, event>>
        /\ UNCHANGED <<states, generations, battle_ids, spent, over>>
    BY <2>1 DEF world, looked, followed, published
  <2>3. ETypeOK' /\ StateIsSaid'
    BY <2>2 DEF IInv, ETypeOK, StateIsSaid
  <2>4. CountersFit' /\ NothingUncaptured' /\ AtHand'
    BY <2>2 DEF IInv, CountersFit, Counters, NothingUncaptured, AtHand
  <2> QED BY <2>3, <2>4 DEF IInv
<1> QED
  BY <1>1, <1>2, <1>3, <1>4, <1>5, <1>6, <1>7, <1>8, <1>9, <1>10, <1>11
     DEF ENext, Thread, World, Aside

\* The inductive invariant: types, and how the records, the counters and the flows
\* fit together (_on_packet, _reconcile, _clear_state).
THEOREM EngineInvariant == ESpec => []IInv
<1>1. EInit => IInv
  BY InitInv
<1>2. IInv /\ [ENext]_evars => IInv'
  BY StepInv
<1> QED
  BY <1>1, <1>2, PTL DEF ESpec

\* Every reachable state is well typed, and in a callback there is a flow at hand
\* (_on_packet, _reconcile).
THEOREM EngineTypes == ESpec => []ETypeOK
<1>1. IInv => ETypeOK
  BY DEF IInv
<1> QED
  BY <1>1, EngineInvariant, PTL

\* What is published is what a connection of that client said last, and nothing of
\* that connection was lost since, but what the feed that said it lost behind it
\* (_on_packet, _reconcile).
THEOREM PublishedIsSaid == ESpec => []StateIsSaid
<1>1. IInv => StateIsSaid
  BY DEF IInv
<1> QED
  BY <1>1, EngineInvariant, PTL

\* No epoch is given a second time and no battle goes on after it may have ended
\* (_clear_state, the reset in _on_packet, battle_ids).
THEOREM EpochIsNeverReused == ESpec => []EpochIsNew
<1>1. IInv => EpochIsNew
  <2> SUFFICES ASSUME IInv, NEW p \in Clients, states[p] # None
               PROVE  /\ states[p].generation >= spent[p]
                      /\ states[p].state = "in" => states[p].battle_id > over[p]
    BY DEF EpochIsNew
  <2>1. Counters(p) /\ spent[p] \in Nat /\ over[p] \in Nat
        /\ generations[p] \in Nat /\ battle_ids[p] \in Nat
    BY DEF IInv, CountersFit, ETypeOK
  <2> QED BY <2>1 DEF Counters
<1> QED
  BY <1>1, EngineInvariant, PTL

\* Nothing is published while nothing is captured (_run, _capture).
THEOREM SilentWithoutCapture == ESpec => []NothingUncaptured
<1>1. IInv => NothingUncaptured
  BY DEF IInv
<1> QED
  BY <1>1, EngineInvariant, PTL

-----------------------------------------------------------------------------
(* A healthy connection keeps its state.                                   *)

LEMMA FineIsNotUpset ==
  ASSUME FlowTypes, NEW p \in Clients, Fine(p), MissLimit >= 2
  PROVE  p \notin Upset(pids, table) \cup Silent(table)
<1>1. PICK k \in Main :
        /\ flows[k] # None /\ flows[k].pid = p /\ ~flows[k].quiet
        /\ table[k] = p \/ (table[k] = None /\ misses[k] = 0)
        /\ \A j \in Main \ {k} : table[j] # p /\ (flows[j] # None => flows[j].pid # p)
  BY DEF Fine
<1>2. ~IsNew(table, k)
  BY <1>1 DEF IsNew, Live, Connected
<1>3. table[k] = p => k \in Live(table)
  <2>1. ASSUME table[k] = p PROVE Of(table, p, Main) = {k}
    BY <1>1, <2>1 DEF Of
  <2>2. Cardinality({k}) = 1
    BY FS_Singleton
  <2>3. table[k] = p => p \notin ambiguous_pids(table, Main)
    BY <2>1, <2>2 DEF ambiguous_pids
  <2> QED BY <2>3, NoneIsApart DEF Live, Connected, PortsLike, Keys
<1>4. ~IsGone(table, k)
  BY <1>1, <1>3, EngineAssumption DEF IsGone, Missed
<1>5. \A j \in Main : table[j] = p => ~IsNew(table, j)
  BY <1>1, <1>2
<1>6. \A j \in Main : flows[j] # None /\ flows[j].pid = p => ~IsNew(table, j) /\ ~IsGone(table, j)
  BY <1>1, <1>2, <1>4
<1>7. p \notin Upset(pids, table)
  BY <1>5, <1>6 DEF Upset, Fine
<1>8. p \notin Silent(table)
  BY <1>1 DEF Silent
<1> QED
  BY <1>7, <1>8

\* Housekeeping leaves alone what a healthy connection said, if one look may miss it
\* (_reconcile, FLOW_MISS_LIMIT).
THEOREM HealthyIsKept == MissLimit >= 2 /\ ESpec => KeptWhileFine
<1>1. ASSUME MissLimit >= 2, IInv, [ENext]_evars, NEW p \in Clients, epc = "refresh", Fine(p)
      PROVE  states'[p] = states[p]
  <2>1. FlowTypes /\ StateTypes
    BY <1>1, TypeParts DEF IInv
  <2>2. p \notin Upset(pids, table) \cup Silent(table)
    BY <1>1, <2>1, FineIsNotUpset
  <2>3. CASE \E ok \in BOOLEAN : Refresh(ok)
    BY <2>2, <2>3 DEF Refresh, Clear
  <2>4. CASE UNCHANGED states
    BY <2>4
  <2>5. CASE Aside
    BY <2>5, AsideKeeps DEF published
  <2>6. CASE UNCHANGED evars
    BY <2>6 DEF evars, published
  <2>7. ASSUME NEW k \in Keys, Quiet(k) PROVE UNCHANGED states
    BY <2>7 DEF Quiet, published
  <2>8. /\ \A look \in Looks : ~Begin(look)
        /\ \A k \in Main, lost \in BOOLEAN : ~Segment(k, lost)
        /\ \A kind \in {"in", "out"}, ahead \in BOOLEAN : ~Event(kind, ahead)
        /\ ~Publish /\ ~LastEvent /\ ~Close /\ ~ThreadEnds
    BY <1>1 DEF Begin, Segment, Event, Publish, LastEvent, Close, ThreadEnds
  <2> QED
    BY <1>1, <2>3, <2>4, <2>5, <2>6, <2>7, <2>8 DEF ENext, Thread, World, Aside
<1>2. MissLimit >= 2 /\ IInv /\ [ENext]_evars =>
        [\A p \in Clients : epc = "refresh" /\ Fine(p) => states'[p] = states[p]]_evars
  BY <1>1
<1>3. CASE MissLimit >= 2
  <2>1. IInv /\ [ENext]_evars =>
          [\A p \in Clients : epc = "refresh" /\ Fine(p) => states'[p] = states[p]]_evars
    BY <1>2, <1>3
  <2>2. ESpec => KeptWhileFine
    BY <2>1, EngineInvariant, PTL DEF ESpec, KeptWhileFine
  <2> QED BY <2>2
<1> QED
  BY <1>3
=============================================================================
