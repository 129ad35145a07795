----------------------------- MODULE MCDelivery -----------------------------
(***************************************************************************)
(* The upload path for TLC in three parts that share no variable and stand *)
(* side by side: the uploader with its hub, the names of its files, and    *)
(* how the program ends.  A behaviour is one of any of them; the others    *)
(* keep still.                                                             *)
(***************************************************************************)
EXTENDS SpoolUploader, SpoolNames, Closing, TLC

VARIABLE part

MCInit ==
  /\ part \in {"uploader", "names", "closing"}
  /\ Init /\ SpoolNamesInit /\ ClosingInit
  /\ part # "closing" => window

MCNext ==
  \/ part = "uploader" /\ Next /\ UNCHANGED <<pvars, zvars>>
  \/ part = "names" /\ SpoolNamesNext /\ UNCHANGED <<vars, zvars>>
  \/ part = "closing" /\ ClosingNext /\ UNCHANGED <<vars, pvars>>

MCSpec == MCInit /\ [][MCNext /\ UNCHANGED part]_<<vars, pvars, zvars, part>>

=============================================================================
