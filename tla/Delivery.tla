------------------------------ MODULE Delivery ------------------------------
(***************************************************************************)
(* What the upload path promises, without threads, files or requests:      *)
(* an observation the sniffer handed over is kept by the observer until    *)
(* the hub has stored it, or it is given up; nothing else may lose it.     *)
(* This is the "at least once" of spool.py; the hub may store what is      *)
(* still kept (the answer was lost) and even what was given up (a request  *)
(* that arrived late).                                                     *)
(***************************************************************************)
CONSTANT Obs

VARIABLES
  accepted,  \* handed over by the sniffer
  kept,      \* held by the observer, in memory or on disk
  stored,    \* in the hub's database
  lost       \* given up: dropped, quarantined, replaced, or gone with a process

dvars == <<accepted, kept, stored, lost>>

DInit == accepted = {} /\ kept = {} /\ stored = {} /\ lost = {}

\* A new observation is kept, or refused at once and recorded as lost.
Accept(o) ==
  /\ o \notin accepted
  /\ accepted' = accepted \cup {o}
  /\ \/ kept' = kept \cup {o} /\ UNCHANGED lost
     \/ lost' = lost \cup {o} /\ UNCHANGED kept
  /\ UNCHANGED stored

Store(S) ==
  /\ S \subseteq accepted
  /\ stored' = stored \cup S
  /\ UNCHANGED <<accepted, kept, lost>>

\* Only what the hub has may be forgotten without a trace.
Forget(S) ==
  /\ S \subseteq kept \cap stored
  /\ kept' = kept \ S
  /\ UNCHANGED <<accepted, stored, lost>>

\* What is given up is in lost for good; a second copy of it may stay.
GiveUp(S, T) ==
  /\ S \subseteq kept /\ T \subseteq S
  /\ lost' = lost \cup S
  /\ kept' = kept \ T
  /\ UNCHANGED <<accepted, stored>>

DNext ==
  \/ \E o \in Obs : Accept(o)
  \/ \E S \in SUBSET Obs : Store(S) \/ Forget(S)
  \/ \E S, T \in SUBSET Obs : GiveUp(S, T)

DSpec == DInit /\ [][DNext]_dvars

=============================================================================
