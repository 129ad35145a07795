--------------------------- MODULE MCHubListings ---------------------------
(***************************************************************************)
(* Small instances of HubListings for TLC.                                 *)
(***************************************************************************)
EXTENDS HubListings, TLC

Interchangeable == Permutations(Obs)

=============================================================================
