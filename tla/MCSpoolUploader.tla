-------------------------- MODULE MCSpoolUploader --------------------------
(***************************************************************************)
(* Small instances of SpoolUploader for TLC.  The observations are model   *)
(* values; the configurations give the bounds and the faults.              *)
(***************************************************************************)
EXTENDS SpoolUploader, TLC

\* Where no observation is bad, one is like the other.
Interchangeable == Permutations(Obs)

=============================================================================
