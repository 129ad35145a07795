----------------------------- MODULE SpoolNames -----------------------------
(***************************************************************************)
(* The names of spool files, `obs_<ms>_<seq>` (write of spool.py).  The    *)
(* uploader thread writes them, and at the end the main thread and the     *)
(* thread of the console's close signal too; nothing orders these threads, *)
(* and the counter of the name has no lock.                                *)
(*                                                                         *)
(* SpoolUploader gives a file a name that sorts behind all others, or the  *)
(* one of a file written at the same time; this is what that rests on.     *)
(* The millisecond and the counter have a fixed number of digits, so names *)
(* sort as the pairs do.  A thread is not interrupted while it adds to the *)
(* counter (CPython 3.11 switches threads at calls), but is when it has    *)
(* read the clock for the name.                                            *)
(***************************************************************************)
EXTENDS Integers

CONSTANTS
  Threads,     \* those that write to one spool
  Seqs,      \* 10000: the counter has four digits
  MaxClock,    \* milliseconds (a bound)
  MaxFiles,    \* how many writes begin (a bound)
  MaxRestarts, MaxBack    \* how often the observer starts again, the clock is set back (bounds)

ASSUME SpoolNamesAssumption ==
  /\ Seqs \in Nat \ {0} /\ MaxClock \in Nat /\ MaxFiles \in Nat
  /\ MaxRestarts \in Nat /\ MaxBack \in Nat

VARIABLES
  clock,     \* the wall clock, in milliseconds
  seq,       \* Spool._seq
  at,        \* of each thread: where it stands in write
  my,        \* of each thread: the name of its file
  files,     \* the names of the files written so far, deleted or not
  past,      \* history, of each thread: those there were when it began to write
  turns,     \* history: how often the counter began anew
  era,       \* history: how often the clock was set back
  writes, restarts

pvars == <<clock, seq, at, my, files, past, turns, era, writes, restarts>>

\* A name, the turn and the era it is from, which of the writes its file is
\* from, and how many had begun when the counter was read for it.
FileNames == [ms : Nat, seq : Nat, turn : Nat, era : Nat, nth : Nat, begun : Nat]

NoName == [ms |-> 0, seq |-> 0, turn |-> 0, era |-> 0, nth |-> 0, begun |-> 0]

Before(f, g) == f.ms < g.ms \/ (f.ms = g.ms /\ f.seq < g.seq)

-----------------------------------------------------------------------------
\* Mutant: the counter stays as it is.
NotCounted == UNCHANGED <<seq, turns>>

Bump ==
  /\ seq' = (seq + 1) % Seqs
  /\ turns' = IF seq + 1 = Seqs THEN turns + 1 ELSE turns

Begin(t) ==
  /\ at[t] = "idle" /\ writes < MaxFiles /\ writes' = writes + 1
  /\ Bump
  /\ at' = [at EXCEPT ![t] = "counted"] /\ past' = [past EXCEPT ![t] = files]
  /\ my' = [my EXCEPT ![t].nth = writes + 1]
  /\ UNCHANGED <<clock, files, era, restarts>>

ReadClock(t) ==
  /\ at[t] = "counted" /\ at' = [at EXCEPT ![t] = "timed"]
  /\ my' = [my EXCEPT ![t].ms = clock, ![t].era = era]
  /\ UNCHANGED <<clock, seq, files, past, turns, era, writes, restarts>>

\* Read again: what another thread counted to is in the name, too.
ReadCounter(t) ==
  /\ at[t] = "timed" /\ at' = [at EXCEPT ![t] = "named"]
  /\ my' = [my EXCEPT ![t].seq = seq, ![t].turn = turns, ![t].begun = writes]
  /\ UNCHANGED <<clock, seq, files, past, turns, era, writes, restarts>>

\* os.replace, which puts the file in the place of one of the name, or an OSError.
Replace(t) ==
  /\ at[t] = "named" /\ at' = [at EXCEPT ![t] = "idle"]
  /\ files' \in {files, files \cup {my[t]}}
  /\ UNCHANGED <<clock, seq, my, past, turns, era, writes, restarts>>

-----------------------------------------------------------------------------
ClockTicks ==
  /\ clock < MaxClock /\ clock' = clock + 1
  /\ UNCHANGED <<seq, at, my, files, past, turns, era, writes, restarts>>

SetBack ==
  /\ era < MaxBack /\ era' = era + 1 /\ clock' \in 0..(clock - 1)
  /\ UNCHANGED <<seq, at, my, files, past, turns, writes, restarts>>

\* The process dies or ends; the next takes more than a millisecond to start.
Restart ==
  /\ restarts < MaxRestarts /\ restarts' = restarts + 1
  /\ clock < MaxClock /\ clock' = clock + 1
  /\ seq' = 0 /\ turns' = turns + 1 /\ at' = [t \in Threads |-> "idle"]
  /\ UNCHANGED <<my, files, past, era, writes>>

SpoolNamesInit ==
  /\ clock = 0 /\ seq = 0 /\ files = {} /\ turns = 0 /\ era = 0 /\ writes = 0 /\ restarts = 0
  /\ at = [t \in Threads |-> "idle"] /\ my = [t \in Threads |-> NoName]
  /\ past = [t \in Threads |-> {}]

SpoolNamesNext ==
  \/ \E t \in Threads : Begin(t) \/ ReadClock(t) \/ ReadCounter(t) \/ Replace(t)
  \/ ClockTicks \/ SetBack \/ Restart

SpoolNamesSpec == SpoolNamesInit /\ [][SpoolNamesNext]_pvars

-----------------------------------------------------------------------------
\* The clock was set back in between, or the counter turned over within one
\* millisecond: such names say nothing of the order of their files.
Unordered(f, g) == f.era # g.era \/ (f.ms = g.ms /\ f.turn # g.turn)

SameName(f, g) == f.ms = g.ms /\ f.seq = g.seq

\* Each of the two writes had begun when the other read the counter.
AtOnce(f, g) == f.nth <= g.begun /\ g.nth <= f.begun

Named == {my[t] : t \in {u \in Threads : at[u] = "named"}}

BehindThePast ==
  \A t \in Threads : at[t] = "named" =>
    \A f \in past[t] : Before(f, my[t]) \/ Unordered(f, my[t])

SameOnlyAtOnce ==
  \A f \in files \cup Named, g \in files \cup Named :
    f # g /\ SameName(f, g) => Unordered(f, g) \/ AtOnce(f, g)

\* The file name is the order (spool.py:43), whatever other threads write
\* meanwhile and but for the exceptions of Unordered: a file has a name behind
\* those of all the files that were there when its write began, so it replaces
\* none of them; and of all files and names about to be given to one, two have
\* the same name only when they were written at once.  Those may have, and the
\* second takes the place of the first.
NamedInOrder == BehindThePast /\ SameOnlyAtOnce

=============================================================================
