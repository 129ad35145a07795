--------------------------- MODULE MCPacketEngine ---------------------------
(***************************************************************************)
(* Each connection goes to a server of its own.  Clients may be permuted,  *)
(* and so may main connections, with their servers.                        *)
(***************************************************************************)
EXTENDS PacketEngine, TLC

MCHost == [k \in Main \cup Aux |-> k]

Interchangeable == Permutations(Clients) \cup Permutations(Main)
=============================================================================
