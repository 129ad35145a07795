------------------------------- MODULE MCHub -------------------------------
(***************************************************************************)
(* Where observers meet the hub, for TLC: its devices under their rate     *)
(* limits, the first starts of observers that register there, and the      *)
(* satong they hear and send.  The parts share no variable and stand side  *)
(* by side: a behaviour is one of a single part, and the others keep still.*)
(*                                                                         *)
(* The devices are looked at twice: with an administrator, for two ticks,  *)
(* which tells the times of two registrations and of his deeds apart; and  *)
(* without him, for all of the time, which is what the limits, who know no *)
(* administrator, depend on.                                               *)
(*                                                                         *)
(* p1 has two clients and the right clock; that of p2 is behind or ahead   *)
(* of the hub's by as much as the server's interval leaves beyond the      *)
(* window.                                                                 *)
(***************************************************************************)
EXTENDS HubDevices, SetUp, Satong, TLC

CONSTANTS x, y, p1, p2

VARIABLE part

MCLimit == [b \in Buckets |-> 2]

\* Two observers on one PC, the first of them started again.
MCStarts == x :> 2 @@ y :> 1

MCClients == p1 :> 2 @@ p2 :> 1
Behind == p1 :> 0 @@ p2 :> -1
InFront == p1 :> 0 @@ p2 :> 1
MCSkews == {Behind, InFront}

\* Two messages are too large a body for the one hub, and too many for the other.
MCHubLimits ==
  Behind :> [body |-> 1, messages |-> 2] @@ InFront :> [body |-> 2, messages |-> 1]

MCInit ==
  /\ part \in {"devices", "limits", "set-up", "satong"} /\ (part # "satong" => skew = Behind)
  /\ DInit /\ SetUpInit /\ SatongInit

MCNext ==
  \/ part = "devices" /\ DNext /\ now' <= 2          /\ UNCHANGED <<svars, satongvars>>
  \/ part = "limits"  /\ (Serve \/ Restart \/ Tick)  /\ UNCHANGED <<svars, satongvars>>
  \/ part = "set-up"  /\ SetUpNext                   /\ UNCHANGED <<hvars, satongvars>>
  \/ part = "satong"  /\ SatongNext                  /\ UNCHANGED <<hvars, svars>>

MCSpec == MCInit /\ [][MCNext /\ UNCHANGED part]_<<hvars, svars, satongvars, part>>

=============================================================================
