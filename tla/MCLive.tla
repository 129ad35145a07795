------------------------------- MODULE MCLive -------------------------------
(***************************************************************************)
(* What must eventually happen in the observer, for TLC, in two parts that *)
(* share no variable and stand side by side: the uploader empties queue    *)
(* and spool, and the names of the items follow the archives of the game.  *)
(* A behaviour is one of either, and the other keeps still.                *)
(***************************************************************************)
EXTENDS SpoolUploader, ItemNames, TLC

VARIABLE part

S(k, n) == [kind |-> k, cells |-> n]

\* A table in the way of nobody, one inside of a stream that is none of ours,
\* and half an archive.
MCStreams ==
  "plain" :> (1 :> S("other", 1) @@ 2 :> S("table", 1))
  @@ "hidden" :> (1 :> S("other", 3) @@ 2 :> S("few", 1) @@ 3 :> S("table", 1))
  @@ "torn" :> (1 :> S("few", 1) @@ 2 :> S("fake", 1))

\* The first two differ in nothing but what is in them.
MCSizes == "plain" :> 2 @@ "hidden" :> 2 @@ "torn" :> 1

Still ==
  /\ archive = [p \in Paths |-> Missing] /\ cache = Missing /\ written = 0 /\ table = Missing
  /\ gcs = Missing /\ reader = Idle /\ up = FALSE /\ launches = 0

MCInit ==
  /\ Init
  /\ \/ part = "upload" /\ Still
     \/ part = "names" /\ NamesInit

MCNext ==
  \/ part = "upload" /\ Next /\ UNCHANGED nvars
  \/ part = "names" /\ NamesNext /\ UNCHANGED vars

\* With the fairness of both: what is not enabled where a part keeps still asks
\* for nothing.
MCSpec ==
  /\ MCInit /\ [][MCNext /\ UNCHANGED part]_<<vars, nvars, part>>
  /\ CloserIsFair /\ NamesAreFair

=============================================================================
