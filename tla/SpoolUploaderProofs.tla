------------------------ MODULE SpoolUploaderProofs ------------------------
(***************************************************************************)
(* What SpoolUploader promises for every set of observations and names and *)
(* every limit, proved.                                                    *)
(***************************************************************************)
EXTENDS SpoolUploader, SpoolNames, Closing, TLAPS

(***************************************************************************)
(* The queue as a set.                                                     *)
(***************************************************************************)
\* put_nowait adds the one item.
LEMMA AppendSet ==
  ASSUME NEW S, NEW q \in Seq(S), NEW e \in S
  PROVE  ToSet(Append(q, e)) = ToSet(q) \cup {e}
<1>1. Append(q, e) \in Seq(S) /\ Len(Append(q, e)) = Len(q) + 1
  OBVIOUS
<1>2. \A i \in 1..Len(q) : Append(q, e)[i] = q[i]
  OBVIOUS
<1>3. Append(q, e)[Len(q) + 1] = e
  OBVIOUS
<1>4. ToSet(Append(q, e)) \subseteq ToSet(q) \cup {e}
  BY <1>1, <1>2, <1>3 DEF ToSet
<1>5. ToSet(q) \subseteq ToSet(Append(q, e))
  BY <1>1, <1>2 DEF ToSet
<1>6. e \in ToSet(Append(q, e))
  BY <1>1, <1>3 DEF ToSet
<1> QED
  BY <1>4, <1>5, <1>6

\* get takes the first item and leaves the others.
LEMMA TailSet ==
  ASSUME NEW S, NEW q \in Seq(S), q # <<>>
  PROVE  /\ Head(q) \in S /\ Tail(q) \in Seq(S) /\ Len(Tail(q)) = Len(q) - 1
         /\ ToSet(q) = ToSet(Tail(q)) \cup {Head(q)}
<1>1. Head(q) = q[1] /\ Len(q) >= 1 /\ Head(q) \in S
  OBVIOUS
<1>2. Tail(q) \in Seq(S) /\ Len(Tail(q)) = Len(q) - 1
  OBVIOUS
<1>3. \A i \in 1..Len(Tail(q)) : Tail(q)[i] = q[i + 1]
  OBVIOUS
<1>4. ToSet(Tail(q)) \subseteq ToSet(q)
  BY <1>2, <1>3 DEF ToSet
<1>5. ToSet(q) \subseteq ToSet(Tail(q)) \cup {Head(q)}
  <2> SUFFICES ASSUME NEW i \in 1..Len(q) PROVE q[i] \in ToSet(Tail(q)) \cup {Head(q)}
    BY DEF ToSet
  <2>1. CASE i = 1
    BY <2>1, <1>1
  <2>2. CASE i > 1
    <3>1. i - 1 \in 1..Len(Tail(q)) /\ Tail(q)[i - 1] = q[i]
      BY <2>2, <1>2, <1>3
    <3>2. i - 1 \in DOMAIN Tail(q)
      BY <3>1, <1>2
    <3>3. q[i] \in ToSet(Tail(q))
      BY <3>1, <3>2, Zenon DEF ToSet
    <3> QED BY <3>3
  <2> QED BY <2>1, <2>2
<1>6. Head(q) \in ToSet(q)
  BY <1>1 DEF ToSet
<1> QED
  BY <1>1, <1>2, <1>4, <1>5, <1>6

\* The items of a queue are of the type the queue has; the empty one has none.
LEMMA QueueSet ==
  ASSUME NEW S, NEW q \in Seq(S)
  PROVE  ToSet(q) \subseteq S
BY DEF ToSet

LEMMA EmptyQueue == ToSet(<<>>) = {}
BY DEF ToSet

-----------------------------------------------------------------------------
(***************************************************************************)
(* The type invariant.                                                     *)
(***************************************************************************)
LEMMA TypeInit == Init => TypeOK
<1> SUFFICES ASSUME Init PROVE TypeOK
  OBVIOUS
<1>1. queue \in Seq(Obs) /\ Len(queue) <= QueueMax
  BY ConstantsAssumption DEF Init
<1>2. spool \in [Names -> SUBSET Obs]
  BY DEF Init
<1>3. runs \in 0..MaxRuns
  BY ConstantsAssumption DEF Init
<1>4. /\ naming \in [Writers -> {"no", "counted", "named"}]
      /\ name \in [Writers -> Names \cup {0}]
      /\ \A t \in Writers : naming[t] # "named"
  BY DEF Init
<1> QED
  BY <1>1, <1>2, <1>3, <1>4 DEF Init, Sending, TypeOK, Statuses

\* What putting a file b in its place does to the directory: it takes with it
\* what another file of the name held.
LEMMA Written ==
  ASSUME TypeOK, NEW t \in Writers, NEW b, PutFile(t, b)
  PROVE  /\ name[t] \in Names /\ spool'[name[t]] = b
         /\ \A m \in Names \ {name[t]} : spool'[m] = spool[m]
         /\ OnDisk' \subseteq OnDisk \cup b
         /\ OnDisk \cup b \subseteq OnDisk' \cup spool[name[t]]
         /\ spool[name[t]] \subseteq OnDisk
         /\ spool[name[t]] = {} => Pending \subseteq Pending'
<1>1. name[t] \in Names
  BY DEF TypeOK, PutFile
<1>2. spool'[name[t]] = b /\ \A m \in Names \ {name[t]} : spool'[m] = spool[m]
  BY <1>1 DEF TypeOK, PutFile
<1>3. OnDisk' \subseteq OnDisk \cup b /\ OnDisk \cup b \subseteq OnDisk' \cup spool[name[t]]
  BY <1>1, <1>2, Zenon DEF OnDisk
<1>4. spool[name[t]] \subseteq OnDisk
  BY <1>1 DEF OnDisk
<1>5. spool[name[t]] = {} => Pending \subseteq Pending'
  BY <1>1, <1>2 DEF Pending
<1> QED
  BY <1>1, <1>2, <1>3, <1>4, <1>5

\* Putting a file in its place and leaving write keep to the types.
LEMMA PutType ==
  ASSUME TypeOK, NEW t \in Writers, NEW b \in SUBSET Obs, PutFile(t, b)
  PROVE  /\ spool' \in [Names -> SUBSET Obs] /\ replaced' \subseteq Obs
         /\ naming' \in [Writers -> {"no", "counted", "named"}]
         /\ name' \in [Writers -> Names \cup {0}] /\ again' \subseteq Names
         /\ \A w \in Writers : naming'[w] = "named" => name'[w] \in Names
<1>1. name[t] \in Names
  BY DEF TypeOK, PutFile
<1>2. spool' \in [Names -> SUBSET Obs] /\ replaced' \subseteq Obs
  BY <1>1 DEF TypeOK, PutFile
<1> QED
  BY <1>2 DEF TypeOK, PutFile, Leave

LEMMA LeaveType ==
  ASSUME TypeOK, NEW t \in Writers, Leave(t)
  PROVE  /\ naming' \in [Writers -> {"no", "counted", "named"}]
         /\ name' \in [Writers -> Names \cup {0}] /\ again' \subseteq Names
         /\ \A w \in Writers : naming'[w] = "named" => name'[w] \in Names
BY DEF TypeOK, Leave

LEMMA IsWriter == "uploader" \in Writers /\ "closer" \in Writers
BY DEF Writers

LEMMA TypeStep == TypeOK /\ [Next]_vars => TypeOK'
<1> SUFFICES ASSUME TypeOK, [Next]_vars PROVE TypeOK'
  OBVIOUS
<1> USE ConstantsAssumption, IsWriter DEF writing
<1>1. CASE Sniffer
  BY <1>1 DEF Sniffer, Observe, Sending, TypeOK, uploader, closing, disk, hub
<1>2. CASE Get
  BY <1>2, TailSet DEF Get, Sending, TypeOK, closing, disk, hub, history
<1>3. CASE Gathered \/ Nothing
  BY <1>3 DEF Gathered, Nothing, Sending, TypeOK, closing, disk, hub, history
<1>4. CASE Write
  <2>1. batch \in SUBSET Obs
    BY DEF TypeOK
  <2> QED
    BY <1>4, <2>1, PutType DEF Write, Sending, TypeOK, closing, hub
<1>5. CASE WriteFails
  BY <1>5, LeaveType DEF WriteFails, Sending, TypeOK, closing, disk, hub
<1>6. CASE BeginFlush
  BY <1>6 DEF BeginFlush, LoopHead, Pending, Sending, TypeOK, closing, disk, hub, history
<1>7. CASE EndFlush \/ Post
  BY <1>7 DEF EndFlush, Post, LoopHead, Oldest, Sending, TypeOK, closing, disk, hub, history
<1>8. CASE ReadFails
  BY <1>8 DEF ReadFails, Done, Oldest, Sending, TypeOK, closing, hub, history
<1>9. CASE SendOk \/ SplitDone
  BY <1>9 DEF SendOk, SplitDone, Done, Sending, TypeOK, closing, hub, history
<1>10. CASE Quarantine
  BY <1>10 DEF Quarantine, Sending, TypeOK, closing, disk, hub, history
<1>11. CASE SplitFirst \/ SplitSecond
  <2>1. CASE SplitFirst
    <3>1. file \in Names /\ spool[file] \subseteq Obs
      BY <2>1 DEF SplitFirst, Sending, TypeOK
    <3>2. PICK half \in SUBSET spool[file] :
            PutFile("uploader", half) /\ rest' = spool[file] \ half
      BY <2>1 DEF SplitFirst
    <3>3. half \in SUBSET Obs /\ rest' \subseteq Obs
      BY <3>1, <3>2
    <3> QED
      BY <2>1, <3>1, <3>2, <3>3, PutType DEF SplitFirst, Sending, TypeOK, closing, hub
  <2>2. CASE SplitSecond
    <3>1. rest \in SUBSET Obs
      BY DEF TypeOK
    <3> QED
      BY <2>2, <3>1, PutType DEF SplitSecond, Sending, TypeOK, closing, hub
  <2> QED
    BY <1>11, <2>1, <2>2
<1>12. CASE Halt \/ Defer \/ SplitFails
  BY <1>12, LeaveType DEF Halt, Defer, SplitFails, LoopHead, Sending, TypeOK, closing, disk, hub, history
<1>13. CASE WaitOver
  BY <1>13 DEF WaitOver, Sending, TypeOK, closing, disk, hub, history
<1>14. CASE Environment
  <2>1. CASE HubStores
    BY <2>1 DEF HubStores, Answer, Statuses, Sending, TypeOK, closing, disk, history
  <2>2. CASE HubRejects \/ HubRefuses \/ ForeignOk
    BY <2>2 DEF HubRejects, HubRefuses, ForeignOk, Answer, Statuses, Sending, TypeOK,
                closing, disk, hub, history
  <2>3. CASE NetworkFails
    BY <2>3 DEF NetworkFails, Answer, Statuses, Sending, TypeOK, closing, disk, history
  <2>4. CASE ErrorBodyBreaks
    BY <2>4 DEF ErrorBodyBreaks, Sending, TypeOK, closing, disk, hub, history
  <2>5. ASSUME NEW b \in late, LateArrives(b) PROVE TypeOK'
    BY <2>5 DEF LateArrives, Sending, TypeOK, uploader, closing, disk, history
  <2> QED
    BY <1>14, <2>1, <2>2, <2>3, <2>4, <2>5 DEF Environment, HubAnswers
<1>15. CASE Launch
  BY <1>15 DEF Launch, Sending, TypeOK, disk, hub
<1>16. CASE RequestStop \/ Join
  BY <1>16 DEF RequestStop, Join, Sending, TypeOK, uploader, disk, hub, history
<1>17. CASE MainGet
  BY <1>17, TailSet DEF MainGet, Sending, TypeOK, uploader, disk, hub, history
<1>18. CASE MainWrite
  <2>1. mbatch \in SUBSET Obs
    BY DEF TypeOK
  <2> QED
    BY <1>18, <2>1, PutType DEF MainWrite, Sending, TypeOK, uploader, hub
<1>19. CASE MainGathered \/ MainNothing
  BY <1>19 DEF MainGathered, MainNothing, Sending, TypeOK, uploader, disk, hub, history
<1>20. CASE MainWriteFails
  BY <1>20, QueueSet, LeaveType DEF MainWriteFails, Sending, TypeOK, uploader, disk, hub
<1>21. CASE End \/ Crash
  <2>3. Die
    BY <1>21 DEF End, Crash
  <2>1. vanished' \subseteq Obs
    BY <2>3, QueueSet DEF Die, InMemory, TypeOK
  <2>2. late' \subseteq SUBSET Obs
    <3>1. \/ late' = late
          \/ pc = "posting" /\ late' = late \cup {spool[file]}
      BY <2>3 DEF Die
    <3>2. pc = "posting" => spool[file] \in SUBSET Obs
      BY DEF Sending, TypeOK
    <3>3. late \subseteq SUBSET Obs
      BY DEF TypeOK
    <3> QED BY <3>1, <3>2, <3>3
  <2>4. queue' \in Seq(Obs) /\ Len(queue') <= QueueMax
    BY <2>3 DEF Die
  <2> QED
    BY <2>1, <2>2, <2>3, <2>4 DEF Die, Sending, TypeOK, disk
<1>22. CASE UNCHANGED vars
  BY <1>22 DEF vars, uploader, closing, disk, hub, history, Sending, TypeOK
<1>23. ASSUME NEW t \in Writers, Count(t) PROVE TypeOK'
  BY <1>23 DEF Count, Sending, TypeOK, uploader, closing, disk, hub, history
<1>24. ASSUME NEW t \in Writers, TakeName(t) PROVE TypeOK'
  <2>1. PICK n \in Names : name' = [name EXCEPT ![t] = n] /\ again' \subseteq {n}
    BY <1>24 DEF TakeName
  <2>2. naming' = [naming EXCEPT ![t] = "named"]
    BY <1>24 DEF TakeName
  <2>3. /\ naming' \in [Writers -> {"no", "counted", "named"}]
        /\ name' \in [Writers -> Names \cup {0}] /\ again' \subseteq Names
        /\ \A w \in Writers : naming'[w] = "named" => name'[w] \in Names
    BY <2>1, <2>2 DEF TypeOK
  <2> QED
    BY <1>24, <2>3 DEF TakeName, Sending, TypeOK, uploader, closing, disk, hub, history
<1> QED
  BY <1>1, <1>2, <1>3, <1>4, <1>5, <1>6, <1>7, <1>8, <1>9, <1>10, <1>11, <1>12,
     <1>13, <1>14, <1>15, <1>16, <1>17, <1>18, <1>19, <1>20, <1>21, <1>22, <1>23, <1>24
  DEF Next, UploaderStep, Deliver, MainCloses, MainDrain

\* Every reachable state is of the type the module declares: the queue of the
\* observer never exceeds its bound, whatever the uploader and the hub do.
THEOREM TypeCorrect == Spec => []TypeOK
BY TypeInit, TypeStep, PTL DEF Spec

-----------------------------------------------------------------------------
(***************************************************************************)
(* The spool directory.                                                    *)
(***************************************************************************)
\* What deleting or moving the file n does to it.
LEMMA Removed ==
  ASSUME TypeOK, NEW n \in Names, spool' = [spool EXCEPT ![n] = {}]
  PROVE  /\ \A m \in Names \ {n} : spool'[m] = spool[m]
         /\ OnDisk' \subseteq OnDisk
         /\ OnDisk \subseteq OnDisk' \cup spool[n]
         /\ UNION {spool[m] : m \in Names \ {n}} \subseteq OnDisk'
         /\ Pending \ {n} \subseteq Pending'
<1>1. spool'[n] = {} /\ \A m \in Names \ {n} : spool'[m] = spool[m]
  BY DEF TypeOK
<1>2. OnDisk' \subseteq OnDisk /\ OnDisk \subseteq OnDisk' \cup spool[n]
  BY <1>1, Zenon DEF OnDisk
<1>3. UNION {spool[m] : m \in Names \ {n}} \subseteq OnDisk'
  BY <1>1, Zenon DEF OnDisk
<1>4. Pending \ {n} \subseteq Pending'
  BY <1>1 DEF Pending
<1> QED
  BY <1>1, <1>2, <1>3, <1>4

-----------------------------------------------------------------------------
(***************************************************************************)
(* The inductive invariant, where a failing read of a spool file and a     *)
(* foreign 200 do not happen (the README says what they do).               *)
(***************************************************************************)
Honest == Faults \cap {"read", "foreign"} = {}

IInv ==
  /\ TypeOK
  /\ SnapshotIsPending /\ AnswerIsTrue /\ HalvesAreWritten
  /\ NamesAreApart /\ NothingInvented /\ FlushIsAllowed

LEMMA IInit == Init => IInv
<1> SUFFICES ASSUME Init PROVE IInv
  OBVIOUS
<1>1. TypeOK
  BY TypeInit
<1>2. ~Sending /\ pc = "none" /\ todo = {}
  BY DEF Init, Sending
<1>3. OnDisk = {}
  BY DEF Init, OnDisk
<1>4. InMemory = {}
  BY EmptyQueue DEF Init, InMemory
<1>6. rest = {} /\ late = {} /\ replaced = {}
  BY DEF Init
<1>5. NothingInvented
  BY <1>3, <1>4, <1>6 DEF NothingInvented
<1>7. NamesAreApart
  BY <1>2 DEF Init, NamesAreApart
<1> QED
  BY <1>1, <1>2, <1>5, <1>7
  DEF IInv, SnapshotIsPending, AnswerIsTrue, HalvesAreWritten, FlushIsAllowed

\* A step that writes and deletes no file leaves what the directory says.
LEMMA DiskUnchanged ==
  ASSUME UNCHANGED spool
  PROVE  OnDisk' = OnDisk /\ Pending' = Pending /\ (UNCHANGED file => Elsewhere' = Elsewhere)
BY DEF OnDisk, Pending, Elsewhere

\* The parts of the invariant, step by step.
LEMMA SnapshotStep ==
  ASSUME IInv, [Next]_vars, Honest PROVE SnapshotIsPending'
<1> USE IsWriter DEF SnapshotIsPending, Sending
<1> DEFINE P == TypeOK /\ SnapshotIsPending
<1>0. P /\ TypeOK' /\ ~("read" \in Faults) /\ ~("foreign" \in Faults)
  BY TypeStep DEF IInv, Honest
<1>1. ASSUME UNCHANGED <<spool, todo>>, stopping => stopping',
             Sending' => Sending /\ UNCHANGED file
      PROVE  SnapshotIsPending'
  BY <1>0, <1>1, DiskUnchanged
<1>2. ASSUME UNCHANGED spool, todo' = {} PROVE SnapshotIsPending'
  BY <1>2
<1>3. ASSUME NEW t \in Writers, NEW b, PutFile(t, b), UNCHANGED <<todo, stopping>>,
             Sending' => Sending /\ UNCHANGED file
      PROVE  SnapshotIsPending'
  <2>1. ~stopping => Pending \subseteq Pending'
    BY <1>0, <1>3, Written DEF IInv, NamesAreApart, PutFile
  <2> QED BY <1>0, <1>3, <2>1
<1>4. ASSUME Sending, Done(file) \/ spool' = [spool EXCEPT ![file] = {}],
             UNCHANGED <<todo, stopping>>, ~Sending'
      PROVE  SnapshotIsPending'
  <2>1. file \in Names /\ file \notin todo
    BY <1>0, <1>4 DEF TypeOK
  <2>2. CASE UNCHANGED spool
    BY <1>0, <1>4, <2>2, DiskUnchanged
  <2>3. CASE spool' = [spool EXCEPT ![file] = {}]
    BY <1>0, <1>4, <2>1, <2>3, Removed
  <2> QED BY <1>4, <2>2, <2>3 DEF Done
<1>5. CASE Sniffer \/ Get \/ Gathered \/ Nothing \/ WriteFails
  BY <1>5, <1>1 DEF Sniffer, Observe, Get, Gathered, Nothing, WriteFails, disk, uploader,
     closing
<1>6. CASE Write \/ MainWrite
  BY <1>6, <1>3 DEF Write, MainWrite, uploader, closing
<1>7. CASE BeginFlush
  BY <1>7, <1>0, DiskUnchanged DEF BeginFlush, LoopHead, disk, closing
<1>8. CASE EndFlush \/ Defer
  BY <1>8, <1>2 DEF EndFlush, Defer, disk
<1>9. CASE Post
  BY <1>9, <1>0, DiskUnchanged DEF Post, Oldest, disk, closing
<1>10. CASE ReadFails \/ ForeignOk
  BY <1>10, <1>0 DEF ReadFails, ForeignOk
<1>11. CASE SendOk \/ SplitDone
  BY <1>11, <1>4 DEF SendOk, SplitDone, closing
<1>12. CASE Quarantine
  BY <1>12, <1>4, <1>1 DEF Quarantine, disk, closing
<1>13. CASE SplitFirst \/ SplitSecond
  BY <1>13, <1>3 DEF SplitFirst, SplitSecond, closing
<1>14. CASE Halt \/ SplitFails \/ WaitOver \/ \E t \in Writers : Count(t) \/ TakeName(t)
  BY <1>14, <1>1 DEF Halt, SplitFails, WaitOver, Count, TakeName, disk, uploader, closing
<1>15. CASE HubStores \/ HubRejects \/ HubRefuses \/ NetworkFails \/ ErrorBodyBreaks
  BY <1>15, <1>1 DEF HubStores, HubRejects, HubRefuses, NetworkFails, ErrorBodyBreaks, Answer,
     disk, closing
<1>16. CASE \E b \in late : LateArrives(b)
  BY <1>16, <1>1 DEF LateArrives, disk, uploader, closing
<1>17. CASE Launch \/ RequestStop \/ Join
  BY <1>17, <1>1 DEF Launch, RequestStop, Join, disk, uploader
<1>18. CASE MainGet \/ MainGathered \/ MainWriteFails \/ MainNothing
  BY <1>18, <1>1 DEF MainGet, MainGathered, MainWriteFails, MainNothing, disk, uploader
<1>19. CASE End \/ Crash
  BY <1>19, <1>2 DEF End, Crash, Die, disk
<1>20. CASE UNCHANGED vars
  BY <1>20, <1>1 DEF vars, disk, uploader, closing
<1> QED
  BY <1>5, <1>6, <1>7, <1>8, <1>9, <1>10, <1>11, <1>12, <1>13, <1>14, <1>15, <1>16,
     <1>17, <1>18, <1>19, <1>20
  DEF Next, UploaderStep, Deliver, Environment, HubAnswers, MainCloses, MainDrain

\* After a 200 the hub has the file, and nothing else writes to it.
LEMMA AnswerStep ==
  ASSUME IInv, [Next]_vars, Honest PROVE AnswerIsTrue'
<1> USE IsWriter DEF AnswerIsTrue, Sending
<1>0. /\ TypeOK /\ AnswerIsTrue /\ SnapshotIsPending
      /\ ~("read" \in Faults) /\ ~("foreign" \in Faults)
  BY DEF IInv, Honest
<1>1. ASSUME ~Sending' PROVE AnswerIsTrue'
  BY <1>1
<1>2. ASSUME UNCHANGED <<spool, pc, file, reply>>, stored \subseteq stored'
      PROVE  AnswerIsTrue'
  BY <1>0, <1>2
<1>3. CASE Get \/ Gathered \/ Nothing \/ Write \/ WriteFails \/ EndFlush \/ Halt \/ Defer
  BY <1>3, <1>1 DEF Get, Gathered, Nothing, Write, WriteFails, EndFlush, Halt, Defer, LoopHead
<1>4. CASE BeginFlush \/ SendOk \/ Quarantine \/ SplitDone \/ SplitFails
  BY <1>4, <1>1 DEF BeginFlush, SendOk, Quarantine, SplitDone, SplitFails, LoopHead
<1>5. CASE ErrorBodyBreaks \/ Launch \/ End \/ Crash
  BY <1>5, <1>1 DEF ErrorBodyBreaks, Launch, End, Crash, Die
<1>6. CASE ReadFails \/ ForeignOk
  BY <1>6, <1>0 DEF ReadFails, ForeignOk
<1>7. CASE Sniffer \/ WaitOver \/ RequestStop \/ Join
  BY <1>7, <1>2 DEF Sniffer, Observe, WaitOver, RequestStop, Join, disk, hub, uploader
<1>8. CASE MainGet \/ MainGathered \/ MainNothing \/ MainWriteFails
  BY <1>8, <1>2 DEF MainGet, MainGathered, MainNothing, MainWriteFails, disk, hub, uploader
<1>9. CASE \E b \in late : LateArrives(b)
  <2>1. PICK b \in late : LateArrives(b)
    BY <1>9
  <2>2. stored \subseteq stored'
    BY <2>1 DEF LateArrives
  <2> QED BY <2>1, <2>2, <1>2 DEF LateArrives, disk, uploader
<1>10. CASE UNCHANGED vars
  BY <1>10, <1>2 DEF vars, disk, hub, uploader
<1>11. CASE Post
  BY <1>0, <1>11 DEF Post, Oldest, SnapshotIsPending, Pending, disk
<1>12. CASE SplitFirst \/ SplitSecond \/ MainWrite
  <2>1. PICK t \in Writers : \E b : PutFile(t, b)
    BY <1>12 DEF SplitFirst, SplitSecond, MainWrite
  <2>2. Sending => file \in Names \ {name[t]}
    BY <1>0, <2>1 DEF IInv, NamesAreApart, PutFile, TypeOK
  <2>3. Sending => spool'[file] = spool[file]
    BY <1>0, <2>1, <2>2, Written
  <2> QED
    BY <1>0, <1>12, <2>3 DEF SplitFirst, SplitSecond, MainWrite, hub, uploader
<1>13. CASE HubStores \/ HubRejects \/ HubRefuses \/ NetworkFails
  BY <1>0, <1>13 DEF HubStores, HubRejects, HubRefuses, NetworkFails, Answer, disk
<1>14. CASE \E t \in Writers : Count(t) \/ TakeName(t)
  BY <1>14, <1>2 DEF Count, TakeName, disk, hub, uploader
<1> QED
  BY <1>3, <1>4, <1>5, <1>6, <1>7, <1>8, <1>9, <1>10, <1>11, <1>12, <1>13, <1>14
  DEF Next, UploaderStep, Deliver, Environment, HubAnswers, MainCloses, MainDrain

\* The halves hold the split file until it is gone.
LEMMA HalvesStep ==
  ASSUME IInv, [Next]_vars, Honest PROVE HalvesAreWritten'
<1> USE IsWriter DEF HalvesAreWritten
<1>0. TypeOK /\ HalvesAreWritten
  BY DEF IInv
<1>1. ASSUME pc' \notin {"split", "splitdone"} PROVE HalvesAreWritten'
  BY <1>1
<1>2. ASSUME UNCHANGED <<spool, pc, file, rest, replaced>> PROVE HalvesAreWritten'
  BY <1>0, <1>2, DiskUnchanged
<1>3. CASE Get \/ Gathered \/ Nothing \/ Write \/ WriteFails \/ EndFlush \/ Halt \/ Defer
  BY <1>3, <1>1 DEF Get, Gathered, Nothing, Write, WriteFails, EndFlush, Halt, Defer, LoopHead
<1>4. CASE BeginFlush \/ Post \/ ReadFails \/ SendOk \/ Quarantine \/ SplitDone \/ SplitFails
  BY <1>4, <1>1 DEF BeginFlush, Post, ReadFails, SendOk, Quarantine, SplitDone, SplitFails, LoopHead
<1>5. CASE Environment
  <2>1. CASE HubStores \/ HubRejects \/ HubRefuses \/ NetworkFails
    BY <2>1, <1>1 DEF HubStores, HubRejects, HubRefuses, NetworkFails, Answer
  <2>2. CASE ForeignOk \/ ErrorBodyBreaks
    BY <2>2, <1>1 DEF ForeignOk, ErrorBodyBreaks, Answer
  <2>3. CASE \E b \in late : LateArrives(b)
    BY <2>3, <1>2 DEF LateArrives, disk, uploader, history
  <2> QED BY <1>5, <2>1, <2>2, <2>3 DEF Environment, HubAnswers
<1>6. CASE Launch \/ End \/ Crash
  BY <1>6, <1>1 DEF Launch, End, Crash, Die
<1>7. CASE Sniffer \/ WaitOver \/ RequestStop \/ Join
  BY <1>7, <1>2 DEF Sniffer, Observe, WaitOver, RequestStop, Join, disk, uploader, history
<1>8. CASE MainGet \/ MainGathered \/ MainNothing \/ MainWriteFails
  BY <1>8, <1>2 DEF MainGet, MainGathered, MainNothing, MainWriteFails, disk, uploader, history
<1>9. CASE UNCHANGED vars
  BY <1>9, <1>2 DEF vars, disk, uploader, history
<1>10. CASE SplitFirst \/ SplitSecond \/ MainWrite
  <2>0. \E t \in Writers : \E b :
          /\ PutFile(t, b)
          /\ SplitFirst => b \in SUBSET spool[file] /\ rest' = spool[file] \ b
          /\ SplitSecond => b = rest
    <3>1. CASE SplitFirst
      BY <3>1 DEF SplitFirst, SplitSecond
    <3>2. CASE SplitSecond
      BY <3>2 DEF SplitFirst, SplitSecond
    <3>3. CASE MainWrite /\ ~SplitFirst /\ ~SplitSecond
      BY <3>3 DEF MainWrite
    <3> QED BY <1>10, <3>1, <3>2, <3>3
  <2>a. PICK t \in Writers : \E b :
          /\ PutFile(t, b)
          /\ SplitFirst => b \in SUBSET spool[file] /\ rest' = spool[file] \ b
          /\ SplitSecond => b = rest
    BY <2>0
  <2>1. PICK b : /\ PutFile(t, b)
                 /\ SplitFirst => b \in SUBSET spool[file] /\ rest' = spool[file] \ b
                 /\ SplitSecond => b = rest
    BY <2>a
  <2>2. CASE pc \in {"react", "split", "splitdone"}
    <3>1. file \in Names \ {name[t]} /\ UNCHANGED file
      BY <1>0, <1>10, <2>1, <2>2 DEF IInv, NamesAreApart, PutFile, Sending, TypeOK,
         SplitFirst, SplitSecond, MainWrite, uploader
    <3>2. spool'[file] = spool[file] /\ b \subseteq Elsewhere'
      BY <1>0, <2>1, <3>1, Written DEF Elsewhere
    <3>3. Elsewhere \subseteq Elsewhere' \cup replaced' /\ replaced \subseteq replaced'
      <4>1. ASSUME NEW m \in Names \ {file} PROVE spool[m] \subseteq spool'[m] \cup replaced'
        BY <1>0, <2>1, Written DEF PutFile
      <4> QED BY <2>1, <3>1, <4>1 DEF Elsewhere, PutFile
    <3>4. CASE SplitFirst
      BY <1>0, <2>1, <3>1, <3>2, <3>3, <3>4 DEF SplitFirst
    <3>5. CASE SplitSecond
      BY <1>0, <2>1, <3>1, <3>2, <3>3, <3>5 DEF SplitSecond
    <3>6. CASE MainWrite
      BY <1>0, <2>1, <3>1, <3>2, <3>3, <3>6 DEF MainWrite, uploader
    <3> QED
      BY <1>10, <3>4, <3>5, <3>6
  <2>3. CASE pc \notin {"react", "split", "splitdone"}
    BY <1>10, <2>3, <1>1 DEF SplitFirst, SplitSecond, MainWrite, uploader
  <2> QED BY <2>2, <2>3
<1>11. CASE \E t \in Writers : Count(t) \/ TakeName(t)
  BY <1>11, <1>2 DEF Count, TakeName, disk, uploader, history
<1> QED
  BY <1>3, <1>4, <1>5, <1>6, <1>7, <1>8, <1>9, <1>10, <1>11
  DEF Next, UploaderStep, Deliver, MainCloses, MainDrain

\* A flush runs only while nothing holds it back.
LEMMA FlushStep ==
  ASSUME IInv, [Next]_vars PROVE FlushIsAllowed'
<1> USE IsWriter DEF FlushIsAllowed, Sending
<1>0. FlushIsAllowed /\ TypeOK
  BY DEF IInv
<1>1. ASSUME ~Sending', pc' # "next" PROVE FlushIsAllowed'
  BY <1>1
<1>2. ASSUME UNCHANGED <<pc, halted, deferred>> PROVE FlushIsAllowed'
  BY <1>0, <1>2
<1>3. CASE Get \/ Gathered \/ Nothing \/ Write \/ WriteFails \/ EndFlush
  BY <1>3, <1>1 DEF Get, Gathered, Nothing, Write, WriteFails, EndFlush, LoopHead
<1>4. CASE Defer \/ SplitFails \/ ErrorBodyBreaks \/ Launch \/ End \/ Crash
  BY <1>4, <1>1 DEF Defer, SplitFails, ErrorBodyBreaks, Launch, End, Crash, Die, LoopHead
<1>5. CASE BeginFlush \/ Post \/ ReadFails
  BY <1>0, <1>5 DEF BeginFlush, Post, ReadFails, LoopHead
<1>6. CASE SendOk \/ Quarantine \/ SplitFirst \/ SplitSecond \/ SplitDone \/ Halt
  BY <1>0, <1>6 DEF SendOk, Quarantine, SplitFirst, SplitSecond, SplitDone, Halt
<1>7. CASE HubStores \/ HubRejects \/ HubRefuses \/ NetworkFails \/ ForeignOk
  BY <1>0, <1>7 DEF HubStores, HubRejects, HubRefuses, NetworkFails, ForeignOk, Answer
<1>8. CASE \E b \in late : LateArrives(b)
  BY <1>8, <1>2 DEF LateArrives, uploader
<1>9. CASE Sniffer \/ MainCloses
  BY <1>9, <1>2 DEF Sniffer, Observe, MainCloses, RequestStop, Join, MainDrain, MainGet,
     MainGathered, MainWrite, MainWriteFails, MainNothing, Count, TakeName, uploader
<1>10. CASE WaitOver
  BY <1>0, <1>10 DEF WaitOver
<1>11. CASE UNCHANGED vars
  BY <1>11, <1>2 DEF vars, uploader
<1>12. CASE \E t \in Writers : Count(t) \/ TakeName(t)
  BY <1>12, <1>2 DEF Count, TakeName, uploader
<1> QED
  BY <1>3, <1>4, <1>5, <1>6, <1>7, <1>8, <1>9, <1>10, <1>11, <1>12
  DEF Next, UploaderStep, Deliver, Environment, HubAnswers

\* Who is not writing has no name, so none is taken of a file that is sent.
LEMMA NamesStep ==
  ASSUME IInv, [Next]_vars, Honest PROVE NamesAreApart'
<1> USE IsWriter DEF NamesAreApart, Sending
<1>0. /\ TypeOK /\ NamesAreApart /\ TypeOK'
      /\ ~("read" \in Faults) /\ ~("foreign" \in Faults)
      /\ \A t \in Writers : t = "uploader" \/ t = "closer"
  BY TypeStep DEF IInv, Honest, Writers
<1>1. ASSUME UNCHANGED <<writing, spool, mpc, stopping>>, ~Sending',
             naming["uploader"] = "no", pc # "none"
      PROVE  NamesAreApart'
  BY <1>0, <1>1 DEF writing, Writing
<1>2. ASSUME UNCHANGED <<writing, spool, file, reply, pc, mpc, stopping>>
      PROVE  NamesAreApart'
  BY <1>0, <1>2 DEF writing, Writing
<1>3. ASSUME NEW t \in Writers, Leave(t), UNCHANGED <<spool, stopping>>,
             mpc' \in {"join", "drain", "write"} => mpc \in {"join", "drain", "write"},
             t # "uploader" => UNCHANGED <<file, reply, pc>> /\ mpc' # "off",
             t = "uploader" => ~Sending' /\ UNCHANGED mpc /\ pc # "none"
      PROVE  NamesAreApart'
  <2>1. /\ naming'[t] = "no"
        /\ \A w \in Writers \ {t} : naming'[w] = naming[w] /\ name'[w] = name[w]
        /\ again' = again
    BY <1>0, <1>3 DEF Leave, TypeOK
  <2> QED
    BY <1>0, <1>3, <2>1 DEF Writing
<1>4. ASSUME NEW t \in Writers, NEW b, PutFile(t, b), UNCHANGED stopping,
             mpc' \in {"join", "drain", "write"} => mpc \in {"join", "drain", "write"},
             t # "uploader" => UNCHANGED <<file, reply, pc>> /\ mpc' # "off",
             t = "uploader" => /\ Sending' => Sending /\ UNCHANGED file
                               /\ UNCHANGED mpc /\ pc # "none"
      PROVE  NamesAreApart'
  <2>1. /\ naming'[t] = "no"
        /\ \A w \in Writers \ {t} : naming'[w] = naming[w] /\ name'[w] = name[w]
        /\ again' = again
    BY <1>0, <1>4 DEF PutFile, Leave, TypeOK
  <2>2. Sending => spool'[file] = spool[file]
    <3>1. Sending => file \in Names \ {name[t]}
      BY <1>0, <1>4 DEF PutFile, TypeOK
    <3> QED BY <1>0, <1>4, <3>1, Written
  <2>3. \A w \in Writers : naming'[w] # "no" => Writing(w)'
    BY <1>0, <1>4, <2>1, <2>2 DEF Writing
  <2>4. ~stopping' => \A w \in Writers : naming'[w] # "named"
    BY <1>0, <1>4, <2>1 DEF Writing, PutFile
  <2> QED
    BY <1>0, <1>4, <2>1, <2>3, <2>4
<1>5. CASE Get \/ Gathered \/ Nothing \/ BeginFlush \/ EndFlush
  BY <1>0, <1>1, <1>5 DEF Get, Gathered, Nothing, BeginFlush, EndFlush, LoopHead, Writing,
     disk, closing
<1>6. CASE Write \/ SplitFirst \/ SplitSecond
  BY <1>4, <1>6 DEF Write, SplitFirst, SplitSecond, closing
<1>7. CASE WriteFails \/ SplitFails
  BY <1>3, <1>7 DEF WriteFails, SplitFails, disk, closing
<1>8. CASE Post
  <2>1. \A t \in Writers : naming[t] = "no"
    BY <1>0, <1>8 DEF Post, Writing
  <2> QED
    BY <1>0, <1>8, <2>1 DEF Post, closing, disk, writing
<1>9. CASE ReadFails \/ ForeignOk
  BY <1>0, <1>9 DEF ReadFails, ForeignOk
<1>10. CASE SendOk \/ Quarantine \/ SplitDone
  <2>1. naming["uploader"] = "no"
    BY <1>0, <1>10 DEF SendOk, Quarantine, SplitDone, Writing
  <2>2. \A m \in Names : spool[m] = {} => spool'[m] = {}
    <3>1. UNCHANGED spool \/ spool' = [spool EXCEPT ![file] = {}]
      BY <1>10 DEF SendOk, Quarantine, SplitDone, Done, disk
    <3> QED BY <1>0, <3>1 DEF TypeOK
  <2>3. UNCHANGED writing /\ UNCHANGED closing /\ ~Sending' /\ pc # "none"
    BY <1>10 DEF SendOk, Quarantine, SplitDone
  <2> QED
    BY <1>0, <2>1, <2>2, <2>3 DEF writing, closing, Writing, TypeOK
<1>11. CASE Halt \/ Defer \/ ErrorBodyBreaks
  <2>1. naming["uploader"] = "no"
    BY <1>0, <1>11 DEF Halt, Defer, ErrorBodyBreaks, Writing
  <2> QED
    BY <1>1, <1>11, <2>1 DEF Halt, Defer, ErrorBodyBreaks, LoopHead, disk, closing
<1>12. CASE HubStores \/ HubRejects \/ HubRefuses \/ NetworkFails
  <2>1. pc = "posting" /\ naming["uploader"] = "no"
    BY <1>0, <1>12 DEF HubStores, HubRejects, HubRefuses, NetworkFails, Answer, Writing
  <2> QED
    BY <1>0, <1>12, <2>1 DEF HubStores, HubRejects, HubRefuses, NetworkFails, Answer, Writing,
       closing, disk, writing
<1>13. CASE Sniffer \/ WaitOver \/ \E b \in late : LateArrives(b)
  BY <1>2, <1>13 DEF Sniffer, Observe, WaitOver, LateArrives, uploader, closing, disk
<1>14. CASE Launch
  BY <1>0, <1>14 DEF Launch, disk, writing, Writing
<1>15. CASE RequestStop \/ Join \/ MainGet \/ MainGathered \/ MainNothing
  <2>1. /\ UNCHANGED <<spool, file, reply, pc, naming, name, again>>
        /\ mpc # "write" /\ mpc' # "off" /\ (stopping => stopping')
        /\ mpc' \in {"join", "drain", "write"} => stopping'
    BY <1>0, <1>15 DEF RequestStop, Join, MainGet, MainGathered, MainNothing, uploader, disk,
       writing, closing
  <2>2. naming["closer"] = "no"
    BY <1>0, <2>1 DEF Writing
  <2>3. \A t \in Writers : naming'[t] # "no" => Writing(t)'
    BY <1>0, <2>1, <2>2 DEF Writing
  <2>4. ~stopping' =>
          again' = {} /\ \A t \in Writers : naming'[t] = "named" => spool'[name'[t]] = {}
    BY <1>0, <2>1
  <2>5. Sending' =>
          file' \notin again' /\ \A t \in Writers : naming'[t] = "named" => name'[t] # file'
    BY <1>0, <2>1
  <2> QED
    BY <2>1, <2>3, <2>4, <2>5
<1>16. CASE MainWrite
  BY <1>4, <1>16 DEF MainWrite, uploader
<1>17. CASE MainWriteFails
  BY <1>3, <1>17 DEF MainWriteFails, uploader, disk
<1>18. CASE End \/ Crash
  BY <1>0, <1>18 DEF End, Crash, Die
<1>19. CASE UNCHANGED vars
  BY <1>2, <1>19 DEF vars, uploader, closing, disk
<1>20. ASSUME NEW t \in Writers, Count(t) PROVE NamesAreApart'
  <2>1. /\ Writing(t) /\ naming'[t] = "counted" /\ again' = {} /\ name' = name
        /\ \A w \in Writers \ {t} : naming'[w] = naming[w]
        /\ UNCHANGED <<spool, file, reply, pc, mpc, stopping>>
    BY <1>0, <1>20 DEF Count, TypeOK, uploader, closing, disk
  <2> QED
    BY <1>0, <2>1 DEF Writing
<1>21. ASSUME NEW t \in Writers, TakeName(t) PROVE NamesAreApart'
  <2>1. PICK n \in Names : /\ n \in again \/ FreshName(n)
                           /\ name' = [name EXCEPT ![t] = n]
                           /\ again' \subseteq {n}
                           /\ again' # {} => \E w \in Writers \ {t} : naming[w] = "counted"
    BY <1>21 DEF TakeName
  <2>2. /\ naming[t] = "counted" /\ naming'[t] = "named" /\ name'[t] = n
        /\ \A w \in Writers \ {t} : naming'[w] = naming[w] /\ name'[w] = name[w]
        /\ UNCHANGED <<spool, file, reply, pc, mpc, stopping>>
    BY <1>0, <1>21, <2>1 DEF TakeName, TypeOK, uploader, closing, disk
  <2>3. FreshName(n) => spool[n] = {}
    BY ConstantsAssumption DEF FreshName, InUse, Pending
  <2>4. Sending => n # file
    BY <1>0, <2>1, <2>3 DEF IInv, AnswerIsTrue
  <2>5. \A w \in Writers : naming'[w] # "no" => Writing(w)'
    BY <1>0, <2>2 DEF Writing
  <2>6. again' # {} => stopping'
    <3>1. again' # {} => Writing("closer")
      BY <1>0, <2>1, <2>2
    <3> QED BY <1>0, <2>2, <3>1 DEF Writing
  <2>7. ~stopping' => \A w \in Writers : naming'[w] = "named" => spool'[name'[w]] = {}
    BY <1>0, <2>1, <2>2, <2>3
  <2> QED
    BY <1>0, <2>1, <2>2, <2>4, <2>5, <2>6, <2>7
<1> QED
  BY <1>5, <1>6, <1>7, <1>8, <1>9, <1>10, <1>11, <1>12, <1>13, <1>14, <1>15, <1>16,
     <1>17, <1>18, <1>19, <1>20, <1>21
  DEF Next, UploaderStep, Deliver, Environment, HubAnswers, MainCloses, MainDrain

-----------------------------------------------------------------------------
(***************************************************************************)
(* What a step does to what the observer keeps.  Kept is the union of      *)
(* memory and disk; Given is what is on record as given up.                *)
(***************************************************************************)
Kept == InMemory \cup OnDisk
Given == dropped \cup vanished \cup quar \cup replaced

\* A step that keeps everything and gives up nothing.
Quiet == Kept' = Kept /\ OnDisk \subseteq OnDisk' /\ UNCHANGED <<Given, quar, replaced>>

LEMMA QuietSteps ==
  ASSUME IInv,
         \/ Get \/ Gathered \/ Nothing \/ BeginFlush \/ EndFlush \/ Post
         \/ Halt \/ Defer \/ SplitFails \/ WaitOver
         \/ Environment \/ Launch \/ RequestStop \/ Join \/ MainGet \/ MainGathered
         \/ MainNothing \/ UNCHANGED vars \/ \E t \in Writers : Count(t) \/ TakeName(t)
  PROVE  Quiet
<1> USE DEF Quiet, Kept, Given
<1>0. TypeOK
  BY DEF IInv
<1>1. ASSUME UNCHANGED <<spool, quar, dropped, vanished, replaced>>, InMemory' = InMemory
      PROVE  Quiet
  BY <1>1, DiskUnchanged
<1>2. CASE Get
  <2>1. InMemory' = InMemory
    BY <1>0, <1>2, TailSet DEF Get, InMemory, TypeOK, closing
  <2> QED BY <1>1, <1>2, <2>1 DEF Get, disk, history
<1>3. CASE MainGet
  <2>1. InMemory' = InMemory
    BY <1>0, <1>3, TailSet DEF MainGet, InMemory, TypeOK, uploader
  <2> QED BY <1>1, <1>3, <2>1 DEF MainGet, disk, history
<1>6. CASE Gathered \/ Nothing \/ BeginFlush \/ EndFlush \/ Post \/ Halt \/ Defer
           \/ SplitFails \/ WaitOver
  BY <1>1, <1>6 DEF Gathered, Nothing, BeginFlush, EndFlush, Post, Halt, Defer, SplitFails,
     WaitOver, InMemory, closing, disk, history
<1>7. CASE Environment
  BY <1>1, <1>7 DEF Environment, HubAnswers, HubStores, HubRejects, HubRefuses, NetworkFails,
     ForeignOk, ErrorBodyBreaks, LateArrives, Answer, InMemory, uploader, closing, disk, history
<1>8. CASE Launch \/ RequestStop \/ Join \/ MainGathered \/ MainNothing \/ UNCHANGED vars
  BY <1>1, <1>8 DEF Launch, RequestStop, Join, MainGathered, MainNothing, InMemory, vars,
     uploader, closing, disk, history
<1>9. CASE \E t \in Writers : Count(t) \/ TakeName(t)
  BY <1>1, <1>9 DEF Count, TakeName, InMemory, uploader, closing, disk, history
<1> QED
  BY <1>2, <1>3, <1>6, <1>7, <1>8, <1>9

\* A write brings on the disk what was in memory, or is there already in the
\* file that is split; what it takes from there is on record as replaced, and
\* never so before the stop or of the file that is sent.
LEMMA Writes ==
  ASSUME IInv, Write \/ MainWrite \/ SplitFirst \/ SplitSecond
  PROVE  /\ Kept' \subseteq Kept
         /\ \E S \in SUBSET OnDisk :
              /\ replaced' = replaced \cup S /\ Kept \subseteq Kept' \cup S
              /\ OnDisk \subseteq OnDisk' \cup S
         /\ replaced' # replaced => stopping /\ (Sending => spool'[file] = spool[file])
         /\ UNCHANGED <<observed, stored, dropped, vanished, quar>>
<1> USE IsWriter DEF Kept
<1>0. TypeOK
  BY DEF IInv
<1>1. ASSUME NEW t \in Writers, NEW b, PutFile(t, b), OnDisk \cup b \subseteq Kept,
             InMemory' \subseteq InMemory, InMemory \subseteq InMemory' \cup b
      PROVE  /\ Kept' \subseteq Kept
             /\ \E S \in SUBSET OnDisk :
                  /\ replaced' = replaced \cup S /\ Kept \subseteq Kept' \cup S
                  /\ OnDisk \subseteq OnDisk' \cup S
             /\ replaced' # replaced => stopping /\ (Sending => spool'[file] = spool[file])
  <2>1. /\ replaced' = replaced \cup spool[name[t]] /\ spool[name[t]] \in SUBSET OnDisk
        /\ OnDisk' \subseteq OnDisk \cup b
        /\ OnDisk \cup b \subseteq OnDisk' \cup spool[name[t]]
    BY <1>0, <1>1, Written DEF PutFile
  <2>2. replaced' # replaced => stopping
    BY <1>1, <2>1 DEF IInv, NamesAreApart, PutFile
  <2>3. Sending => file \in Names \ {name[t]}
    BY <1>0, <1>1 DEF IInv, NamesAreApart, PutFile, TypeOK, Sending
  <2>4. Sending => spool'[file] = spool[file]
    BY <1>0, <1>1, <2>3, Written
  <2> QED
    BY <1>1, <2>1, <2>2, <2>4
<1>2. CASE Write
  <2>1. InMemory' = ToSet(queue) \cup mbatch
    BY <1>2 DEF Write, InMemory, closing
  <2> QED
    BY <1>1, <1>2, <2>1 DEF Write, InMemory, hub
<1>3. CASE MainWrite
  <2>1. InMemory' = ToSet(queue) \cup batch
    BY <1>3 DEF MainWrite, InMemory, uploader
  <2> QED
    BY <1>1, <1>3, <2>1 DEF MainWrite, InMemory, hub
<1>4. CASE SplitFirst
  <2>1. PICK half \in SUBSET spool[file] : PutFile("uploader", half)
    BY <1>4 DEF SplitFirst
  <2>2. spool[file] \subseteq OnDisk
    BY <1>0, <1>4 DEF SplitFirst, TypeOK, Sending, OnDisk
  <2>3. InMemory' = InMemory
    BY <1>4 DEF SplitFirst, InMemory, closing
  <2> QED
    BY <1>1, <1>4, <2>1, <2>2, <2>3 DEF SplitFirst, hub
<1>5. CASE SplitSecond
  <2>1. rest \subseteq OnDisk
    BY <1>0, <1>5 DEF SplitSecond, IInv, HalvesAreWritten, TypeOK, Sending, OnDisk
  <2>2. InMemory' = InMemory
    BY <1>5 DEF SplitSecond, InMemory, closing
  <2> QED
    BY <1>1, <1>5, <2>1, <2>2 DEF SplitSecond, hub
<1> QED
  BY <1>2, <1>3, <1>4, <1>5

\* An observation is deleted from the disk only when the hub has it, a half has
\* or had it, or the quarantine gets it.
LEMMA Deletions ==
  ASSUME IInv, Honest, SendOk \/ SplitDone \/ Quarantine
  PROVE  /\ InMemory' = InMemory
         /\ OnDisk' \subseteq OnDisk
         /\ SendOk => quar' = quar /\ OnDisk \subseteq OnDisk' \cup stored
         /\ SplitDone => quar' = quar /\ OnDisk \subseteq OnDisk' \cup replaced
         /\ Quarantine => \E S \in SUBSET OnDisk :
                            quar' = quar \cup S /\ OnDisk \subseteq OnDisk' \cup S
         /\ UNCHANGED <<stored, observed, dropped, vanished, replaced>>
<1>0. TypeOK /\ Sending /\ file \in Names /\ spool[file] \subseteq OnDisk
  BY DEF IInv, TypeOK, Sending, SendOk, SplitDone, Quarantine, OnDisk
<1>1. InMemory' = InMemory /\ UNCHANGED <<stored, observed, dropped, vanished, replaced>>
  BY DEF SendOk, SplitDone, Quarantine, InMemory, closing, hub, history
<1>2. CASE SendOk
  <2>1. reply = "200"
    BY <1>0, <1>2 DEF SendOk, Classify, TypeOK, Statuses
  <2>2. spool[file] \subseteq stored
    BY <1>2, <2>1 DEF SendOk, IInv, AnswerIsTrue
  <2>3. OnDisk' \subseteq OnDisk /\ OnDisk \subseteq OnDisk' \cup spool[file]
    BY <1>0, <1>2, Removed, DiskUnchanged DEF SendOk, Done
  <2> QED BY <1>1, <1>2, <2>1, <2>2, <2>3 DEF SendOk, SplitDone, Quarantine, Classify
<1>3. CASE SplitDone
  <2>1. spool[file] \subseteq Elsewhere \cup replaced
    BY <1>3 DEF SplitDone, IInv, HalvesAreWritten
  <2>2. OnDisk' \subseteq OnDisk /\ OnDisk \subseteq OnDisk' \cup replaced
    <3>1. CASE UNCHANGED spool
      BY <3>1, DiskUnchanged
    <3>2. CASE spool' = [spool EXCEPT ![file] = {}]
      BY <1>0, <2>1, <3>2, Removed DEF Elsewhere
    <3> QED BY <1>3, <3>1, <3>2 DEF SplitDone, Done
  <2> QED BY <1>1, <1>3, <2>2 DEF SendOk, SplitDone, Quarantine
<1>4. CASE Quarantine
  <2>0. ~SendOk /\ ~SplitDone
    BY <1>0, <1>4 DEF SendOk, SplitDone, Quarantine, Classify, TypeOK, Statuses
  <2>1. CASE quar' = quar \cup spool[file] /\ spool' = [spool EXCEPT ![file] = {}]
    BY <1>0, <1>1, <2>0, <2>1, Removed
  <2>2. CASE UNCHANGED disk
    <3>1. quar' = quar \cup {} /\ OnDisk' = OnDisk
      BY <2>2, DiskUnchanged DEF disk
    <3>2. \E S \in SUBSET OnDisk : quar' = quar \cup S /\ OnDisk \subseteq OnDisk' \cup S
      <4>1. {} \in SUBSET OnDisk
        OBVIOUS
      <4> QED BY <3>1, <4>1
    <3> QED BY <1>1, <2>0, <3>1, <3>2
  <2> QED BY <1>4, <2>1, <2>2 DEF Quarantine
<1> QED
  BY <1>2, <1>3, <1>4

-----------------------------------------------------------------------------
(***************************************************************************)
(* Every step is a step of Delivery, or changes nothing Delivery sees.     *)
(***************************************************************************)
LEMMA RefinementStep ==
  ASSUME IInv, [Next]_vars, Honest PROVE [D!DNext]_(D!dvars)
<1> USE DEF Kept, Given
<1>0. /\ TypeOK /\ NothingInvented /\ ~("read" \in Faults) /\ ~("foreign" \in Faults)
      /\ Kept \subseteq Obs /\ Kept \subseteq observed
  BY DEF IInv, Honest, NothingInvented, TypeOK
<1>1. ASSUME Quiet, UNCHANGED <<observed, stored>> PROVE UNCHANGED D!dvars
  BY <1>1 DEF Quiet, D!dvars
<1>2. ASSUME Quiet, UNCHANGED observed, NEW S \in SUBSET observed, stored' = stored \cup S
      PROVE  D!DNext
  BY <1>0, <1>2 DEF Quiet, D!DNext, D!Store, TypeOK
<1>3. CASE Sniffer
  <2>1. PICK o \in Obs : Observe(o)
    BY <1>3 DEF Sniffer
  <2>2. OnDisk' = OnDisk
    BY <2>1, DiskUnchanged DEF Observe, disk
  <2>3. CASE queue' = Append(queue, o) /\ UNCHANGED dropped
    <3>1. InMemory' = InMemory \cup {o}
      BY <1>0, <2>1, <2>3, AppendSet DEF Observe, InMemory, TypeOK, uploader, closing
    <3>2. D!Accept(o)
      BY <2>1, <2>2, <2>3, <3>1 DEF Observe, D!Accept, disk, hub
    <3> QED BY <3>2 DEF D!DNext
  <2>4. CASE dropped' = dropped \cup {o} /\ UNCHANGED queue
    <3>1. InMemory' = InMemory
      BY <2>1, <2>4 DEF Observe, InMemory, uploader, closing
    <3>2. D!Accept(o)
      BY <2>1, <2>2, <2>4, <3>1 DEF Observe, D!Accept, disk, hub
    <3> QED BY <3>2 DEF D!DNext
  <2> QED BY <2>1, <2>3, <2>4 DEF Observe
<1>4. CASE Get \/ Gathered \/ Nothing \/ BeginFlush \/ EndFlush \/ Post
           \/ Halt \/ Defer \/ SplitFails \/ WaitOver
  <2>1. Quiet
    BY <1>4, QuietSteps
  <2> QED
    BY <1>1, <1>4, <2>1 DEF Get, Gathered, Nothing, BeginFlush, EndFlush, Post,
       Halt, Defer, SplitFails, WaitOver, hub, history
<1>5. CASE Launch \/ RequestStop \/ Join \/ MainGet \/ MainGathered
           \/ MainNothing \/ UNCHANGED vars \/ \E t \in Writers : Count(t) \/ TakeName(t)
  <2>1. Quiet
    BY <1>5, QuietSteps
  <2> QED
    BY <1>1, <1>5, <2>1 DEF Launch, RequestStop, Join, MainGet, MainGathered,
       MainNothing, Count, TakeName, vars, hub, history
<1>6. CASE Environment
  <2>1. Quiet
    BY <1>6, QuietSteps
  <2>2. CASE HubStores
    <3>1. spool[file] \in SUBSET observed /\ stored' = stored \cup spool[file]
      BY <1>0, <2>2 DEF HubStores, Answer, NothingInvented, Sending, TypeOK, OnDisk
    <3> QED BY <1>2, <2>1, <2>2, <3>1 DEF HubStores, Answer, history
  <2>3. CASE HubRejects \/ HubRefuses \/ NetworkFails \/ ForeignOk \/ ErrorBodyBreaks
    BY <1>1, <2>1, <2>3 DEF HubRejects, HubRefuses, NetworkFails, ForeignOk, ErrorBodyBreaks,
       Answer, hub, history
  <2>4. ASSUME NEW b \in late, LateArrives(b) PROVE [D!DNext]_(D!dvars)
    <3>1. b \in SUBSET observed /\ UNCHANGED observed
      BY <1>0, <2>4 DEF NothingInvented, LateArrives, history
    <3>2. stored' = stored \/ stored' = stored \cup b
      BY <2>4 DEF LateArrives
    <3> QED BY <1>1, <1>2, <2>1, <3>1, <3>2
  <2> QED
    BY <1>6, <2>2, <2>3, <2>4 DEF Environment, HubAnswers
<1>7. ASSUME NEW S \in SUBSET Kept, Kept' \subseteq Kept, Kept \subseteq Kept' \cup S,
             Given' = Given \cup S, UNCHANGED <<observed, stored>>
      PROVE  D!DNext
  <2>1. S \in SUBSET Obs /\ S \ Kept' \in SUBSET Obs /\ Kept' = Kept \ (S \ Kept')
    BY <1>0, <1>7
  <2>2. D!GiveUp(S, S \ Kept')
    BY <1>7, <2>1 DEF D!GiveUp
  <2> QED BY <2>1, <2>2 DEF D!DNext
<1>8. CASE WriteFails
  <2>1. OnDisk' = OnDisk /\ InMemory' = ToSet(queue) \cup mbatch
    BY <1>8, DiskUnchanged DEF WriteFails, InMemory, disk, closing
  <2> QED BY <1>7, <1>8, <2>1 DEF WriteFails, InMemory, disk, hub
<1>9. CASE MainWriteFails
  <2>1. OnDisk' = OnDisk /\ InMemory' = ToSet(queue) \cup batch
    BY <1>9, DiskUnchanged DEF MainWriteFails, InMemory, disk, uploader
  <2> QED BY <1>7, <1>9, <2>1 DEF MainWriteFails, InMemory, disk, hub
<1>10. CASE End \/ Crash
  <2>1. Die
    BY <1>10 DEF End, Crash
  <2>2. OnDisk' = OnDisk /\ InMemory' = {}
    BY <2>1, DiskUnchanged, EmptyQueue DEF Die, InMemory, disk
  <2> QED BY <1>7, <2>1, <2>2 DEF Die, disk
<1>11. CASE SendOk
  <2>1. /\ Kept' \subseteq Kept /\ Kept \ Kept' \subseteq stored
        /\ UNCHANGED <<stored, observed, Given>>
    BY <1>11, Deletions
  <2>2. D!Forget(Kept \ Kept')
    BY <2>1 DEF D!Forget
  <2> QED BY <1>0, <2>2 DEF D!DNext
<1>14. CASE SplitDone
  <2>1. /\ Kept' \subseteq Kept /\ Kept \ Kept' \subseteq replaced
        /\ UNCHANGED <<stored, observed, Given>>
    BY <1>14, Deletions
  <2> QED BY <1>7, <2>1
<1>15. CASE Write \/ MainWrite \/ SplitFirst \/ SplitSecond
  <2>1. PICK S \in SUBSET OnDisk : replaced' = replaced \cup S /\ Kept \subseteq Kept' \cup S
    BY <1>15, Writes
  <2>2. Kept' \subseteq Kept /\ UNCHANGED <<observed, stored, dropped, vanished, quar>>
    BY <1>15, Writes
  <2> QED BY <1>7, <2>1, <2>2
<1>13. CASE Quarantine
  <2>1. PICK S \in SUBSET OnDisk : quar' = quar \cup S /\ OnDisk \subseteq OnDisk' \cup S
    BY <1>13, Deletions
  <2>2. /\ InMemory' = InMemory /\ OnDisk' \subseteq OnDisk
        /\ UNCHANGED <<stored, observed, dropped, vanished, replaced>>
    BY <1>13, Deletions
  <2> QED BY <1>7, <2>1, <2>2
<1>12. CASE ReadFails
  BY <1>0, <1>12 DEF ReadFails
<1> QED
  BY IsWriter, <1>3, <1>4, <1>5, <1>6, <1>8, <1>9, <1>10, <1>11, <1>12, <1>13, <1>14, <1>15
  DEF Next, UploaderStep, Deliver, MainCloses, MainDrain

LEMMA InventedStep ==
  ASSUME IInv, [Next]_vars, Honest PROVE NothingInvented'
<1> USE DEF NothingInvented
<1>0. TypeOK /\ NothingInvented
  BY DEF IInv
<1>1. observed \subseteq observed' /\ Kept' \subseteq observed'
  <2>1. [D!DNext]_(D!dvars) /\ Kept \subseteq observed
    BY <1>0, RefinementStep DEF Kept
  <2> QED
    BY <2>1 DEF Kept, D!DNext, D!Accept, D!Store, D!Forget, D!GiveUp, D!dvars
<1>2. late' \subseteq SUBSET observed'
  <2>1. \/ late' \subseteq late
        \/ Sending /\ late' = late \cup {spool[file]}
    BY DEF Next, Sniffer, Observe, UploaderStep, Get, Gathered, Nothing, Write, WriteFails,
       BeginFlush, EndFlush, Post, ReadFails, Deliver, SendOk, Quarantine, SplitFirst,
       SplitSecond, SplitDone, Halt, Defer, SplitFails, WaitOver, Environment, HubAnswers,
       HubStores, HubRejects, HubRefuses, NetworkFails, ForeignOk, ErrorBodyBreaks, LateArrives,
       Answer, Launch, MainCloses, RequestStop, Join, MainDrain, MainGet, MainGathered,
       MainWrite, MainWriteFails, MainNothing, Count, TakeName, End, Crash, Die, Sending, hub, vars
  <2>2. Sending => spool[file] \subseteq observed
    BY <1>0 DEF TypeOK, OnDisk
  <2> QED BY <1>0, <1>1, <2>1, <2>2
<1>3. rest' \subseteq observed'
  <2>1. \/ rest' \subseteq rest
        \/ Sending /\ rest' \subseteq spool[file]
    BY DEF Next, Sniffer, Observe, UploaderStep, Get, Gathered, Nothing, Write, WriteFails,
       BeginFlush, EndFlush, Post, ReadFails, Deliver, SendOk, Quarantine, SplitFirst,
       SplitSecond, SplitDone, Halt, Defer, SplitFails, WaitOver, Environment, HubAnswers,
       HubStores, HubRejects, HubRefuses, NetworkFails, ForeignOk, ErrorBodyBreaks, LateArrives,
       Answer, Launch, MainCloses, RequestStop, Join, MainDrain, MainGet, MainGathered,
       MainWrite, MainWriteFails, MainNothing, Count, TakeName, End, Crash, Die, Sending,
       uploader, vars
  <2>2. Sending => spool[file] \subseteq observed
    BY <1>0 DEF TypeOK, OnDisk
  <2> QED BY <1>0, <1>1, <2>1, <2>2
<1>4. replaced' \subseteq observed'
  <2>1. CASE Write \/ MainWrite \/ SplitFirst \/ SplitSecond
    BY <1>0, <2>1, Writes
  <2>2. CASE ~(Write \/ MainWrite \/ SplitFirst \/ SplitSecond)
    <3>1. replaced' = replaced
      BY <2>2 DEF Next, Sniffer, Observe, UploaderStep, Get, Gathered, Nothing, WriteFails,
         BeginFlush, EndFlush, Post, ReadFails, Deliver, SendOk, Quarantine, SplitDone, Halt,
         Defer, SplitFails, WaitOver, Environment, HubAnswers, HubStores, HubRejects, HubRefuses,
         NetworkFails, ForeignOk, ErrorBodyBreaks, LateArrives, Answer, Launch, MainCloses,
         RequestStop, Join, MainDrain, MainGet, MainGathered, MainWriteFails, MainNothing,
         Count, TakeName, End, Crash, Die, history, vars
    <3> QED BY <1>0, <1>1, <3>1
  <2> QED BY <2>1, <2>2
<1> QED
  BY <1>1, <1>2, <1>3, <1>4 DEF Kept

LEMMA IStep == IInv /\ [Next]_vars /\ Honest => IInv'
BY TypeStep, SnapshotStep, AnswerStep, HalvesStep, NamesStep, InventedStep, FlushStep DEF IInv

-----------------------------------------------------------------------------
(***************************************************************************)
(* The theorems.                                                           *)
(***************************************************************************)
\* The inductive invariant.
THEOREM Invariant ==
  ASSUME Honest PROVE Spec => []IInv
<1>1. IInv /\ [Next]_vars => IInv'
  BY IStep
<1> QED
  BY <1>1, IInit, PTL DEF Spec

\* The upload path is an at-least-once delivery: whatever the crashes, the lost
\* answers, the disk errors and the interleaving of the three threads, every
\* step is one of Delivery's; it gives up what it drops, what a process takes with it
\* and what is in a file that another of the same name replaces.
THEOREM AtLeastOnce ==
  ASSUME Honest PROVE Spec => ImplementsDelivery
<1>1. Init => D!DInit
  <2> SUFFICES ASSUME Init PROVE D!DInit
    OBVIOUS
  <2>1. OnDisk = {} /\ InMemory = {}
    BY EmptyQueue DEF Init, OnDisk, InMemory
  <2> QED BY <2>1 DEF Init, D!DInit
<1>2. IInv /\ [Next]_vars => [D!DNext]_(D!dvars)
  BY RefinementStep
<1> QED
  BY <1>1, <1>2, Invariant, PTL DEF Spec, ImplementsDelivery, D!DSpec

\* No observation disappears but by being counted as dropped, with a process that
\* dies, or in a file that another of the same name replaces.
THEOREM NoSilentLoss ==
  ASSUME Honest PROVE Spec => []LossIsAccounted
<1>1. Init => LossIsAccounted
  BY DEF Init, LossIsAccounted
<1>2. IInv /\ [Next]_vars /\ LossIsAccounted => LossIsAccounted'
  <2> SUFFICES ASSUME IInv, [Next]_vars, LossIsAccounted PROVE LossIsAccounted'
    OBVIOUS
  <2>1. [D!DNext]_(D!dvars)
    BY RefinementStep
  <2> QED
    BY <2>1 DEF LossIsAccounted, D!DNext, D!Accept, D!Store, D!Forget, D!GiveUp, D!dvars
<1> QED
  BY <1>1, <1>2, Invariant, PTL DEF Spec

\* The last copy of an observation is deleted only when the hub or the
\* quarantine has it, or in the place of its file comes another of the same
\* name; and that happens after the stop only, never to the file being sent.
THEOREM SafeRelease ==
  ASSUME Honest PROVE Spec => DiskReleasedOnlyWhenSafe
<1> DEFINE Safe == /\ OnDisk \ OnDisk' \subseteq stored' \cup quar' \cup replaced'
                   /\ replaced' # replaced => stopping /\ (Sending => spool'[file] = spool[file])
<1>1. IInv /\ [Next]_vars => Safe
  <2> SUFFICES ASSUME IInv, [Next]_vars PROVE Safe
    OBVIOUS
  <2>1. CASE SendOk \/ SplitDone \/ Quarantine
    <3>1. stored' = stored /\ replaced' = replaced
      BY <2>1, Deletions
    <3>2. CASE SendOk \/ SplitDone
      BY <3>1, <3>2, Deletions
    <3>3. CASE Quarantine
      <4>1. \E S \in SUBSET OnDisk : quar' = quar \cup S /\ OnDisk \subseteq OnDisk' \cup S
        BY <3>3, Deletions
      <4> QED BY <3>1, <4>1
    <3> QED BY <2>1, <3>2, <3>3
  <2>2. CASE Sniffer \/ WriteFails \/ MainWriteFails \/ End \/ Crash
    BY <2>2, DiskUnchanged DEF Sniffer, Observe, WriteFails, MainWriteFails, End, Crash, Die, disk
  <2>3. CASE ReadFails
    BY <2>3 DEF ReadFails, Honest
  <2>4. CASE \/ Get \/ Gathered \/ Nothing \/ BeginFlush \/ EndFlush \/ Post
             \/ Halt \/ Defer \/ SplitFails \/ WaitOver
             \/ Environment \/ Launch \/ RequestStop \/ Join \/ MainGet \/ MainGathered
             \/ MainNothing \/ UNCHANGED vars \/ \E t \in Writers : Count(t) \/ TakeName(t)
    BY <2>4, QuietSteps DEF Quiet
  <2>5. CASE Write \/ MainWrite \/ SplitFirst \/ SplitSecond
    BY <2>5, Writes
  <2> QED
    BY IsWriter, <2>1, <2>2, <2>3, <2>4, <2>5
    DEF Next, UploaderStep, Deliver, MainCloses, MainDrain
<1>2. IInv /\ [Next]_vars => [Safe]_vars
  BY <1>1
<1> QED
  BY <1>2, Invariant, PTL DEF Spec, DiskReleasedOnlyWhenSafe

\* No request leaves while the uploader is halted or waits.
THEOREM HeldBack ==
  ASSUME Honest PROVE Spec => []NoRequestWhileHeldBack
<1>1. IInv => NoRequestWhileHeldBack
  BY DEF IInv, FlushIsAllowed, Sending, NoRequestWhileHeldBack
<1> QED
  BY <1>1, Invariant, PTL

-----------------------------------------------------------------------------
(***************************************************************************)
(* The end of a run.                                                       *)
(***************************************************************************)
\* What a thread holds it is about to write, and once closed the queue is in
\* the number that is reported.
HeldIsWritten ==
  /\ batch # {} => pc \in {"drain", "write", "final", "finalwrite"}
  /\ mbatch # {} => mpc \in {"drain", "write"}
  /\ mpc = "closed" => ToSet(queue) \subseteq unsaved

LEMMA HeldStep == TypeOK /\ HeldIsWritten /\ [Next]_vars => HeldIsWritten'
<1> SUFFICES ASSUME TypeOK, HeldIsWritten, [Next]_vars PROVE HeldIsWritten'
  OBVIOUS
<1> USE IsWriter DEF HeldIsWritten
<1>0. queue \in Seq(Obs)
  BY DEF TypeOK
<1>1. ASSUME UNCHANGED <<queue, mpc, mbatch, unsaved>>,
             \/ batch' = {}
             \/ batch' = batch /\ (pc' = pc \/ pc \notin {"drain", "write", "final", "finalwrite"})
      PROVE  HeldIsWritten'
  BY <1>1
<1>2. ASSUME UNCHANGED <<pc, batch>>, mbatch' = {}, mpc' = "closed" => ToSet(queue') \subseteq unsaved'
      PROVE  HeldIsWritten'
  BY <1>2
<1>3. CASE Sniffer
  BY <1>3 DEF Sniffer, Observe, uploader, closing
<1>4. CASE Get
  <2>1. ToSet(queue') \subseteq ToSet(queue)
    BY <1>0, <1>4, TailSet DEF Get
  <2> QED
    BY <1>4, <2>1 DEF Get, closing
<1>5. CASE Gathered \/ Nothing
  BY <1>5 DEF Gathered, Nothing, closing
<1>6. CASE Write \/ WriteFails
  BY <1>1, <1>6 DEF Write, WriteFails, closing
<1>7. CASE BeginFlush \/ EndFlush \/ Post \/ ReadFails
  BY <1>1, <1>7 DEF BeginFlush, EndFlush, Post, ReadFails, closing
<1>8. CASE Deliver
  BY <1>1, <1>8 DEF Deliver, SendOk, Quarantine, SplitFirst, SplitSecond, SplitDone, Halt, Defer, closing
<1>9. CASE SplitFails \/ WaitOver
  BY <1>1, <1>9 DEF SplitFails, WaitOver, closing
<1>10. CASE Environment
  <2>1. CASE HubStores \/ HubRejects \/ HubRefuses \/ NetworkFails \/ ForeignOk \/ ErrorBodyBreaks
    BY <1>1, <2>1 DEF HubStores, HubRejects, HubRefuses, NetworkFails, ForeignOk, ErrorBodyBreaks,
                      Answer, closing
  <2>2. CASE \E b \in late : LateArrives(b)
    BY <1>1, <2>2 DEF LateArrives, closing, uploader
  <2> QED
    BY <1>10, <2>1, <2>2 DEF Environment, HubAnswers
<1>11. CASE Launch
  BY <1>11 DEF Launch
<1>12. CASE RequestStop \/ Join
  BY <1>12, EmptyQueue DEF RequestStop, Join, uploader
<1>13. CASE MainGet \/ MainGathered
  BY <1>13 DEF MainGet, MainGathered, uploader
<1>14. CASE MainWrite \/ MainWriteFails
  BY <1>2, <1>14 DEF MainWrite, MainWriteFails, uploader
<1>15. CASE MainNothing
  BY <1>15, EmptyQueue DEF MainNothing, uploader
<1>16. CASE End \/ Crash
  BY <1>16 DEF End, Crash, Die
<1>17. CASE UNCHANGED vars
  BY <1>17 DEF vars, uploader, closing
<1>18. CASE \E t \in Writers : Count(t) \/ TakeName(t)
  BY <1>18 DEF Count, TakeName, uploader, closing
<1> QED
  BY <1>3, <1>4, <1>5, <1>6, <1>7, <1>8, <1>9, <1>10, <1>11, <1>12, <1>13, <1>14, <1>15, <1>16,
     <1>17, <1>18
  DEF Next, UploaderStep, MainCloses, MainDrain

\* Once closed, and the uploader thread over, what is still in memory is in the
\* number the closing summary reports (agent.py:311), whatever failed and in
\* whatever order the two threads took from the queue.
THEOREM SummaryIsComplete == Spec => []ExitIsAccounted
<1>1. Init => HeldIsWritten
  BY EmptyQueue DEF Init, HeldIsWritten
<1>2. HeldIsWritten => ExitIsAccounted
  BY DEF HeldIsWritten, ExitIsAccounted, InMemory, UploaderAlive
<1> QED
  BY <1>1, <1>2, HeldStep, TypeCorrect, PTL DEF Spec

(***************************************************************************)
(* SpoolNames: names sort in the order of the writes, for any number of    *)
(* threads and any size of the counter.                                    *)
(***************************************************************************)
PTypeOK ==
  /\ clock \in Nat /\ seq \in 0..(Seqs - 1) /\ turns \in Nat /\ era \in Nat
  /\ at \in [Threads -> {"idle", "counted", "timed", "named"}]
  /\ my \in [Threads -> FileNames]
  /\ files \subseteq FileNames
  /\ past \in [Threads -> SUBSET FileNames]
  /\ writes \in Nat

\* No file is from a later millisecond or a later turn than this one.
Behind ==
  \A f \in files :
    /\ f.era <= era /\ (f.era = era => f.ms <= clock)
    /\ f.turn <= turns /\ (f.turn = turns => f.seq <= seq)

\* From the step that counts on, the counter is ahead of the earlier files.
Ahead ==
  \A t \in Threads : at[t] \in {"counted", "timed"} =>
    \A f \in past[t] : f.turn <= turns /\ (f.turn = turns => f.seq < seq)

\* The earlier files, for a thread that has not read the clock ...
Earlier ==
  \A t \in Threads : at[t] = "counted" =>
    \A f \in past[t] : f.era <= era /\ (f.era = era => f.ms <= clock)

\* ... and for one that has.
Timed ==
  \A t \in Threads : at[t] \in {"timed", "named"} =>
    /\ my[t].era <= era /\ (my[t].era = era => my[t].ms <= clock)
    /\ \A f \in past[t] : f.era = my[t].era => f.ms <= my[t].ms

\* And the name of a thread about to replace has this turn or an earlier one.
Turned ==
  \A t \in Threads : at[t] = "named" =>
    my[t].turn <= turns /\ (my[t].turn = turns => my[t].seq <= seq)

\* Every write counts once: within a turn, the counter and the number of writes
\* begun go up together.
Counted ==
  /\ \A t \in Threads : at[t] # "idle" => my[t].nth <= writes
  /\ \A f \in files \cup Named :
       /\ f.nth <= f.begun /\ f.turn <= turns
       /\ f.turn = turns => f.begun - f.seq = writes - seq
  /\ \A f \in files \cup Named, g \in files \cup Named :
       f.turn = g.turn => f.begun - f.seq = g.begun - g.seq

PInv ==
  /\ PTypeOK /\ Behind /\ Ahead /\ Earlier /\ Timed /\ Turned /\ BehindThePast
  /\ Counted


LEMMA PInit == SpoolNamesInit => PInv
BY SpoolNamesAssumption
DEF SpoolNamesInit, PInv, PTypeOK, Behind, Ahead, Earlier, Timed, Turned, BehindThePast,
    Counted, Named, FileNames, NoName

\* A step that gives no name and does not count.
LEMMA CountedStays ==
  ASSUME Counted, UNCHANGED <<seq, turns, writes>>, files' \cup Named' \subseteq files \cup Named,
         \A t \in Threads : at'[t] # "idle" => at[t] # "idle" /\ my'[t].nth = my[t].nth
  PROVE  Counted'
BY DEF Counted

\* The counter goes up by one, or begins a new turn.
LEMMA BumpCounts ==
  ASSUME seq \in 0..(Seqs - 1), turns \in Nat, Bump
  PROVE  /\ seq' \in 0..(Seqs - 1) /\ turns' \in Nat
         /\ (turns' = turns /\ seq' = seq + 1) \/ turns' = turns + 1
<1>1. CASE seq + 1 = Seqs
  BY <1>1, SpoolNamesAssumption DEF Bump
<1>2. CASE seq + 1 # Seqs
  <2>1. seq + 1 \in 0..(Seqs - 1)
    BY <1>2, SpoolNamesAssumption
  <2>2. (seq + 1) % Seqs = seq + 1
    BY <2>1, SpoolNamesAssumption
  <2> QED
    BY <1>2, <2>1, <2>2, SpoolNamesAssumption DEF Bump
<1> QED
  BY <1>1, <1>2

\* A step that changes nothing keeps the invariant.
LEMMA PStutter == PInv /\ UNCHANGED pvars => PInv'
BY DEF PInv, PTypeOK, Behind, Ahead, Earlier, Timed, Turned, BehindThePast, Counted, Named,
   Before, Unordered, pvars

LEMMA PBegin ==
  ASSUME PInv, NEW t \in Threads, Begin(t)
  PROVE  PInv'
<1> USE DEF PInv, PTypeOK, Begin
<1>1. /\ seq' \in 0..(Seqs - 1) /\ turns' \in Nat
      /\ (turns' = turns /\ seq' = seq + 1) \/ turns' = turns + 1
  BY BumpCounts
<1>2. PTypeOK'
  <2>1. my'[t] = [my[t] EXCEPT !.nth = writes + 1]
    OBVIOUS
  <2>2. my'[t] \in FileNames
    BY <2>1 DEF FileNames
  <2>3. my' = [my EXCEPT ![t] = my'[t]]
    OBVIOUS
  <2> QED
    BY <1>1, <2>2, <2>3
<1>0. /\ my'[t].ms = my[t].ms /\ my'[t].era = my[t].era
      /\ my'[t].seq = my[t].seq /\ my'[t].turn = my[t].turn
      /\ my'[t].nth = writes + 1 /\ writes' = writes + 1
      /\ \A s \in Threads \ {t} : my'[s] = my[s] /\ at'[s] = at[s]
      /\ at[t] = "idle" /\ at'[t] = "counted"
  BY DEF FileNames
<1>3. \A f \in files : f \in FileNames /\ f.turn \in Nat /\ f.seq \in Nat
  BY DEF FileNames
<1>4. \A f \in files : f.turn <= turns' /\ (f.turn = turns' => f.seq < seq')
  BY <1>1, <1>3 DEF Behind
<1>5. Behind'
  BY <1>1, <1>3, <1>4 DEF Behind
<1>6. Ahead'
  <2> SUFFICES ASSUME NEW s \in Threads, at'[s] \in {"counted", "timed"}, NEW f \in past'[s]
               PROVE  f.turn <= turns' /\ (f.turn = turns' => f.seq < seq')
    BY DEF Ahead
  <2>1. CASE s = t
    BY <2>1, <1>4
  <2>2. CASE s # t
    <3>1. f \in FileNames /\ f.turn <= turns /\ (f.turn = turns => f.seq < seq)
      BY <2>2 DEF Ahead
    <3> QED
      BY <3>1, <1>1 DEF FileNames
  <2> QED
    BY <2>1, <2>2
<1>7. Earlier'
  BY <1>0 DEF Earlier, Behind
<1>8. Timed'
  BY <1>0 DEF Timed
<1>9. Turned'
  <2> SUFFICES ASSUME NEW s \in Threads, at'[s] = "named"
               PROVE  my'[s].turn <= turns' /\ (my'[s].turn = turns' => my'[s].seq <= seq')
    BY DEF Turned
  <2>1. s # t /\ at[s] = "named" /\ my'[s] = my[s] /\ my[s].turn \in Nat /\ my[s].seq \in Nat
    BY <1>0 DEF FileNames
  <2> QED
    BY <2>1, <1>1 DEF Turned
<1>10. BehindThePast'
  BY <1>0 DEF BehindThePast
<1>11. Counted'
  <2>1. files' \cup Named' = files \cup Named
    BY <1>0 DEF Named
  <2>2. \A f \in files \cup Named : f \in FileNames
    BY DEF Named
  <2>3. \A f \in files \cup Named :
          f.nth \in Nat /\ f.begun \in Nat /\ f.turn \in Nat /\ f.seq \in Nat
    BY <2>2 DEF FileNames
  <2>4. \A f \in files \cup Named :
          f.turn <= turns' /\ (f.turn = turns' => f.begun - f.seq = writes' - seq')
    BY <1>0, <1>1, <2>3 DEF Counted
  <2>5. \A s \in Threads : at'[s] # "idle" => my'[s].nth <= writes'
    <3> SUFFICES ASSUME NEW s \in Threads, at'[s] # "idle" PROVE my'[s].nth <= writes'
      OBVIOUS
    <3>1. CASE s = t
      BY <1>0, <3>1
    <3>2. CASE s # t
      <4>1. my[s].nth \in Nat /\ my[s].nth <= writes
        BY <1>0, <3>2 DEF Counted, FileNames
      <4> QED BY <1>0, <3>2, <4>1
    <3> QED BY <3>1, <3>2
  <2> QED
    BY <2>1, <2>4, <2>5 DEF Counted
<1> QED
  BY <1>2, <1>5, <1>6, <1>7, <1>8, <1>9, <1>10, <1>11

LEMMA PReadClock ==
  ASSUME PInv, NEW t \in Threads, ReadClock(t)
  PROVE  PInv'
<1> USE DEF PInv, PTypeOK, ReadClock
<1>1. /\ my'[t].ms = clock /\ my'[t].era = era
      /\ my'[t].seq = my[t].seq /\ my'[t].turn = my[t].turn
      /\ \A s \in Threads \ {t} : my'[s] = my[s] /\ at'[s] = at[s]
      /\ at[t] = "counted" /\ at'[t] = "timed"
  BY DEF FileNames
<1>2. PTypeOK'
  <2>1. my'[t] = [my[t] EXCEPT !.ms = clock, !.era = era]
    OBVIOUS
  <2>2. my[t] \in FileNames /\ clock \in Nat /\ era \in Nat
    OBVIOUS
  <2>3. my'[t] \in FileNames
    BY <2>1, <2>2 DEF FileNames
  <2>4. my' = [my EXCEPT ![t] = my'[t]]
    OBVIOUS
  <2> QED
    BY <2>3, <2>4
<1>3. Behind' /\ Ahead' /\ Earlier'
  BY <1>1 DEF Behind, Ahead, Earlier
<1>4. Timed'
  BY <1>1 DEF Timed, Earlier
<1>5. Turned' /\ BehindThePast'
  BY <1>1 DEF Turned, BehindThePast
<1>6. Counted'
  <2>1. my'[t].nth = my[t].nth
    BY DEF FileNames
  <2>2. Named' \subseteq Named
    BY <1>1 DEF Named
  <2> QED
    BY <1>1, <2>1, <2>2, CountedStays
<1> QED
  BY <1>2, <1>3, <1>4, <1>5, <1>6

LEMMA PReadCounter ==
  ASSUME PInv, NEW t \in Threads, ReadCounter(t)
  PROVE  PInv'
<1> USE DEF PInv, PTypeOK, ReadCounter
<1>1. /\ my'[t].ms = my[t].ms /\ my'[t].era = my[t].era
      /\ my'[t].seq = seq /\ my'[t].turn = turns
      /\ my'[t].begun = writes /\ my'[t].nth = my[t].nth
      /\ \A s \in Threads \ {t} : my'[s] = my[s] /\ at'[s] = at[s]
      /\ at[t] = "timed" /\ at'[t] = "named"
  BY DEF FileNames
<1>2. PTypeOK'
  <2>1. my'[t] = [my[t] EXCEPT !.seq = seq, !.turn = turns, !.begun = writes]
    OBVIOUS
  <2>2. my[t] \in FileNames /\ seq \in Nat /\ turns \in Nat /\ writes \in Nat
    OBVIOUS
  <2>3. my'[t] \in FileNames
    BY <2>1, <2>2 DEF FileNames
  <2>4. my' = [my EXCEPT ![t] = my'[t]]
    OBVIOUS
  <2> QED
    BY <2>3, <2>4
<1>3. Behind' /\ Ahead' /\ Earlier'
  BY <1>1 DEF Behind, Ahead, Earlier
<1>4. Timed'
  BY <1>1 DEF Timed
<1>5. Turned'
  BY <1>1 DEF Turned
<1>6. BehindThePast'
  <2> SUFFICES ASSUME NEW s \in Threads, at'[s] = "named", NEW f \in past[s]
               PROVE  Before(f, my'[s]) \/ Unordered(f, my'[s])
    BY DEF BehindThePast, Before, Unordered
  <2>1. CASE s # t
    BY <2>1, <1>1 DEF BehindThePast, Before, Unordered
  <2>2. CASE s = t
    <3>1. f.ms \in Nat /\ my[t].ms \in Nat
      BY <2>2 DEF FileNames
    <3>2. f.era = my[t].era => f.ms <= my[t].ms
      BY <2>2, <1>1 DEF Timed
    <3>3. f.turn = turns => f.seq < seq
      BY <2>2, <1>1 DEF Ahead
    <3> QED
      BY <2>2, <3>1, <3>2, <3>3, <1>1 DEF Before, Unordered
  <2> QED
    BY <2>1, <2>2
<1>7. Counted'
  <2>1. files' \cup Named' \subseteq files \cup Named \cup {my'[t]}
    BY <1>1 DEF Named
  <2>2. my[t].nth <= writes
    BY <1>1 DEF Counted
  <2>3. my'[t].nth <= my'[t].begun /\ my'[t].begun - my'[t].seq = writes - seq
    BY <1>1, <2>2
  <2>4. \A f \in files' \cup Named' :
          /\ f.nth <= f.begun /\ f.turn <= turns'
          /\ f.turn = turns' => f.begun - f.seq = writes' - seq'
    <3> SUFFICES ASSUME NEW f \in files' \cup Named'
                 PROVE  /\ f.nth <= f.begun /\ f.turn <= turns
                        /\ f.turn = turns => f.begun - f.seq = writes - seq
      OBVIOUS
    <3>1. CASE f = my'[t]
      BY <1>1, <2>3, <3>1
    <3>2. CASE f \in files \cup Named
      BY <3>2 DEF Counted
    <3> QED BY <2>1, <3>1, <3>2
  <2>5. \A f \in files' \cup Named', g \in files' \cup Named' :
          f.turn = g.turn => f.begun - f.seq = g.begun - g.seq
    <3> SUFFICES ASSUME NEW f \in files' \cup Named', NEW g \in files' \cup Named', f.turn = g.turn
                 PROVE  f.begun - f.seq = g.begun - g.seq
      OBVIOUS
    <3>1. CASE f \in files \cup Named /\ g \in files \cup Named
      BY <3>1 DEF Counted
    <3>2. CASE f = my'[t] \/ g = my'[t]
      <4>1. f.turn = turns' /\ g.turn = turns'
        BY <1>1, <3>2
      <4>2. f.begun - f.seq = writes' - seq' /\ g.begun - g.seq = writes' - seq'
        BY <2>4, <4>1
      <4> QED BY <4>2
    <3> QED BY <2>1, <3>1, <3>2
  <2>6. \A s \in Threads : at'[s] # "idle" => my'[s].nth <= writes'
    BY <1>1 DEF Counted
  <2> QED
    BY <2>4, <2>5, <2>6 DEF Counted
<1> QED
  BY <1>2, <1>3, <1>4, <1>5, <1>6, <1>7

LEMMA PReplace ==
  ASSUME PInv, NEW t \in Threads, Replace(t)
  PROVE  PInv'
<1> USE DEF PInv, PTypeOK, Replace
<1>1. at[t] = "named" /\ at'[t] = "idle" /\ \A s \in Threads \ {t} : at'[s] = at[s]
  OBVIOUS
<1>2. PTypeOK'
  OBVIOUS
<1>3. Behind'
  BY <1>1 DEF Behind, Timed, Turned
<1>4. Ahead' /\ Earlier' /\ Timed' /\ Turned' /\ BehindThePast'
  BY <1>1 DEF Ahead, Earlier, Timed, Turned, BehindThePast, Before, Unordered
<1>5. Counted'
  <2>1. files' \cup Named' \subseteq files \cup Named
    BY <1>1 DEF Named
  <2> QED
    BY <1>1, <2>1, CountedStays
<1> QED
  BY <1>2, <1>3, <1>4, <1>5

LEMMA PTick ==
  ASSUME PInv, ClockTicks
  PROVE  PInv'
<1> USE DEF PInv, PTypeOK, ClockTicks
<1>1. PTypeOK' /\ clock \in Nat /\ clock' = clock + 1
  OBVIOUS
<1>2. \A f \in files : f.ms \in Nat
  BY DEF FileNames
<1>3. \A s \in Threads : my[s].ms \in Nat /\ \A f \in past[s] : f.ms \in Nat
  BY DEF FileNames
<1>4. Behind' /\ Earlier' /\ Timed'
  BY <1>1, <1>2, <1>3 DEF Behind, Earlier, Timed
<1>5. Ahead' /\ Turned' /\ BehindThePast'
  BY DEF Ahead, Turned, BehindThePast, Before, Unordered
<1>6. Counted'
  BY CountedStays DEF Named
<1> QED
  BY <1>1, <1>4, <1>5, <1>6

LEMMA PSetBack ==
  ASSUME PInv, SetBack
  PROVE  PInv'
<1> USE DEF PInv, PTypeOK, SetBack
<1>1. PTypeOK' /\ era \in Nat /\ era' = era + 1
  OBVIOUS
<1>2. \A f \in files : f.era \in Nat
  BY DEF FileNames
<1>3. \A s \in Threads : my[s].era \in Nat /\ \A f \in past[s] : f.era \in Nat
  BY DEF FileNames
<1>4. Behind' /\ Earlier' /\ Timed'
  BY <1>1, <1>2, <1>3 DEF Behind, Earlier, Timed
<1>5. Ahead' /\ Turned' /\ BehindThePast'
  BY DEF Ahead, Turned, BehindThePast, Before, Unordered
<1>6. Counted'
  BY CountedStays DEF Named
<1> QED
  BY <1>1, <1>4, <1>5, <1>6

LEMMA PRestart ==
  ASSUME PInv, Restart
  PROVE  PInv'
<1> USE DEF PInv, PTypeOK, Restart
<1>1. PTypeOK'
  BY SpoolNamesAssumption
<1>2. \A f \in files : f.ms \in Nat /\ f.turn \in Nat
  BY DEF FileNames
<1>3. Behind'
  BY <1>2 DEF Behind
<1>4. Ahead' /\ Earlier' /\ Timed' /\ Turned' /\ BehindThePast'
  BY DEF Ahead, Earlier, Timed, Turned, BehindThePast
<1>5. Counted'
  <2>1. files' \cup Named' \subseteq files /\ turns' = turns + 1 /\ turns \in Nat
        /\ \A s \in Threads : at'[s] = "idle"
    BY DEF Named
  <2>2. \A f \in files' \cup Named' : f.turn \in Nat /\ f.turn <= turns /\ f.nth <= f.begun
    BY <1>2, <2>1 DEF Counted
  <2>3. \A f \in files' \cup Named' : f.turn <= turns' /\ f.turn # turns'
    BY <2>1, <2>2
  <2>4. \A f \in files' \cup Named', g \in files' \cup Named' :
          f.turn = g.turn => f.begun - f.seq = g.begun - g.seq
    BY <2>1 DEF Counted
  <2> QED
    BY <2>1, <2>2, <2>3, <2>4 DEF Counted
<1> QED
  BY <1>1, <1>3, <1>4, <1>5

\* Where the counter stands at the same, nobody has counted in between.
LEMMA SameIsAtOnce == PInv => SameOnlyAtOnce
<1> SUFFICES ASSUME PInv, NEW f \in files \cup Named, NEW g \in files \cup Named,
                    SameName(f, g), f.turn = g.turn
             PROVE  AtOnce(f, g)
  BY DEF SameOnlyAtOnce, SameName, Unordered
<1>1. f \in FileNames /\ g \in FileNames
  BY DEF PInv, PTypeOK, Named
<1>2. f.begun - f.seq = g.begun - g.seq /\ f.nth <= f.begun /\ g.nth <= g.begun
  BY DEF PInv, Counted
<1> QED
  BY <1>1, <1>2 DEF AtOnce, SameName, FileNames

\* Names sort in the order of the writes: no write gets a name that is not
\* behind those of the files that were there when it began, so it replaces none
\* of them; and two files have the same name only when each of the two writes
\* had begun when the other read the counter.
THEOREM NamesSort == SpoolNamesSpec => []NamedInOrder
<1>1. PInv /\ [SpoolNamesNext]_pvars => PInv'
  BY PStutter, PBegin, PReadClock, PReadCounter, PReplace, PTick, PSetBack, PRestart
  DEF SpoolNamesNext
<1>2. PInv => NamedInOrder
  BY SameIsAtOnce DEF PInv, NamedInOrder
<1> QED
  BY PInit, <1>1, <1>2, PTL DEF SpoolNamesSpec

(***************************************************************************)
(* The end of the program: the queues are on disk before the process of a  *)
(* closed console is gone, for any lengths of the waits that leave the     *)
(* handler the time to get to the uploaders, and any number of             *)
(* observations.                                                           *)
(***************************************************************************)
Places == {"off", "run", "window", "writer", "engine", "close", "closed"}

ZTypeOK ==
  /\ now \in Nat /\ sniffing \in BOOLEAN /\ slow \in BOOLEAN
  /\ queued \in [Bundles -> Nat] /\ failed \subseteq Bundles
  /\ cpc \in [Closers -> Places] /\ due \in [Closers -> Int] /\ which \in [Closers -> 0..2]
  /\ signal \in Int
  /\ \A c \in Closers : cpc[c] = "close" => which[c] \in Bundles

Settled(b) == queued[b] = 0 \/ b \in failed

\* From the time the uploaders are stopped nothing arrives, and what a closer
\* has passed is settled.
Emptied ==
  ~slow => \A c \in Closers :
    /\ cpc[c] \in {"close", "closed"} => ~sniffing
    /\ cpc[c] = "close" => \A b \in Bundles : b < which[c] => Settled(b)
    /\ cpc[c] = "closed" => \A b \in Bundles : Settled(b)

\* Where the handler may be how long after the signal.
InTime ==
  /\ signal >= 0 => cpc["handler"] \notin {"off", "run"}
  /\ cpc["handler"] = "window" => now = signal
  /\ cpc["handler"] = "writer" => due["handler"] <= signal + WindowJoin /\ now <= due["handler"]
  /\ cpc["handler"] = "engine" => due["handler"] <= signal + WindowJoin + EngineJoin
  /\ cpc["handler"] = "close" /\ ~slow => due["handler"] <= signal + Grace

ZInv == ZTypeOK /\ Emptied /\ (Running => InTime) /\ SavedInGrace

-----------------------------------------------------------------------------
LEMMA HandlerIsCloser == "handler" \in Closers /\ "main" \in Closers
BY DEF Closers

LEMMA ZInit == ClosingInit => ZInv
<1> SUFFICES ASSUME ClosingInit PROVE ZInv
  OBVIOUS
<1>1. /\ cpc["handler"] = "off" /\ signal = -1 /\ over = "no"
      /\ \A c \in Closers : cpc[c] \in {"off", "run"}
  BY DEF ClosingInit, Closers
<1>2. ZTypeOK
  <2>1. queued \in [Bundles -> Nat] /\ due \in [Closers -> Int] /\ which \in [Closers -> 0..2]
    BY DEF ClosingInit
  <2>2. cpc \in [Closers -> Places]
    BY DEF ClosingInit, Places
  <2>3. now \in Nat /\ signal \in Int /\ sniffing \in BOOLEAN /\ slow \in BOOLEAN /\ failed \subseteq Bundles
    <3>1. signal \in Int
      BY <1>1
    <3>2. now \in Nat
      BY DEF ClosingInit
    <3> QED
      BY <3>1, <3>2, Zenon DEF ClosingInit
  <2> QED
    BY <1>1, <2>1, <2>2, <2>3 DEF ZTypeOK
<1>3. Emptied /\ InTime /\ SavedInGrace
  BY <1>1 DEF Emptied, InTime, SavedInGrace
<1> QED
  BY <1>2, <1>3 DEF ZInv

LEMMA ZStutter == ZInv /\ UNCHANGED zvars => ZInv'
BY DEF ZInv, ZTypeOK, Emptied, Settled, InTime, SavedInGrace, Running, zvars

\* Threads that fill and empty the queues leave the closers where they are.
LEMMA ZThreads ==
  ASSUME ZInv, NEW b \in Bundles,
         Arrives(b) \/ Drain(b) \/ Send(b) \/ Answered(b) \/ Recheck(b) \/ Loops(b) \/ LastDrain(b)
  PROVE  ZInv'
<1> USE DEF ZInv, ZTypeOK
<1>1. /\ Running /\ UNCHANGED <<now, sniffing, cpc, due, which, signal, over, slow>>
      /\ \/ sniffing /\ queued' = [queued EXCEPT ![b] = @ + 1] /\ failed' = failed
         \/ queued' = [queued EXCEPT ![b] = 0] /\ failed' \in {failed, failed \cup {b}}
         \/ UNCHANGED <<queued, failed>>
  BY DEF Arrives, Drain, Send, Answered, Recheck, Loops, LastDrain, Drained, Turn
<1>2. ZTypeOK'
  BY <1>1
<1>3. ~sniffing => \A d \in Bundles : Settled(d) => Settled(d)'
  BY <1>1 DEF Settled
<1>4. Emptied'
  BY <1>1, <1>3 DEF Emptied
<1>5. InTime' /\ SavedInGrace'
  BY <1>1 DEF InTime, SavedInGrace, Running
<1> QED
  BY <1>2, <1>4, <1>5

\* Time passes only while the handler waits.
LEMMA ZTick ==
  ASSUME ZInv, Tick
  PROVE  ZInv'
<1> USE DEF ZInv, ZTypeOK
<1>1. /\ Running /\ now' = now + 1 /\ Waits("handler")
      /\ UNCHANGED <<sniffing, queued, failed, cpc, due, which, signal, over, slow>>
  BY DEF Tick, Closers
<1>2. ZTypeOK' /\ Emptied' /\ SavedInGrace'
  BY <1>1 DEF Emptied, Settled, SavedInGrace, Running
<1>3. InTime'
  BY <1>1, HandlerIsCloser DEF InTime, Waits
<1> QED
  BY <1>2, <1>3

LEMMA ZBegins ==
  ASSUME ZInv, SnifferEnds \/ Finally \/ Signal
  PROVE  ZInv'
<1> USE DEF ZInv, ZTypeOK, Moves, At
<1>1. "handler" \in Closers /\ "main" \in Closers /\ "handler" # "main"
  BY DEF Closers
<1>2. Running /\ UNCHANGED <<now, queued, failed, slow>>
  BY DEF SnifferEnds, Finally, Signal
<1>3. ZTypeOK'
  <2>1. CASE SnifferEnds
    BY <2>1 DEF SnifferEnds
  <2>2. CASE Finally
    BY <2>2, <1>1 DEF Finally, Places
  <2>3. CASE Signal
    BY <2>3, <1>1 DEF Signal, Places
  <2> QED
    BY <2>1, <2>2, <2>3
<1>4. Emptied'
  BY <1>1 DEF SnifferEnds, Finally, Signal, Emptied, Settled
<1>5. SavedInGrace'
  BY DEF SnifferEnds, Finally, Signal, SavedInGrace, Running
<1>6. Running' => InTime'
  <2>1. CASE SnifferEnds \/ Finally
    BY <1>1, <2>1 DEF SnifferEnds, Finally, InTime
  <2>2. CASE Signal
    BY <1>1, <2>2 DEF Signal, InTime, Running
  <2> QED
    BY <2>1, <2>2
<1> QED
  BY <1>3, <1>4, <1>5, <1>6

\* On the way to the uploaders.
LEMMA ZCloses ==
  ASSUME ZInv, NEW c \in Closers, CloseWindow(c) \/ StopEngine(c) \/ StopUploaders(c)
  PROVE  ZInv'
<1> USE DEF ZInv, ZTypeOK, Moves, At
<1>1. Running /\ UNCHANGED <<now, sniffing, queued, failed, signal, over>>
  BY DEF CloseWindow, StopEngine, StopUploaders
<1>2. ZTypeOK'
  <2>1. WindowJoin \in Nat /\ EngineJoin \in Nat /\ Budget \in Nat
    BY ClosingAssumption
  <2>2. cpc' \in [Closers -> Places] /\ due' \in [Closers -> Int] /\ which' \in [Closers -> 0..2]
    <3>1. CASE CloseWindow(c)
      BY <2>1, <3>1 DEF CloseWindow, Places
    <3>2. CASE StopEngine(c)
      BY <2>1, <3>2 DEF StopEngine, Places
    <3>3. CASE StopUploaders(c)
      BY <2>1, <3>3 DEF StopUploaders, Places
    <3> QED
      BY <3>1, <3>2, <3>3
  <2>3. slow' \in BOOLEAN
    BY DEF CloseWindow, StopEngine, StopUploaders
  <2>4. \A d \in Closers : cpc'[d] = "close" => which'[d] \in Bundles
    BY DEF CloseWindow, StopEngine, StopUploaders, Bundles
  <2> QED
    BY <1>1, <2>2, <2>3, <2>4
<1>3. Emptied'
  <2>1. CASE CloseWindow(c) \/ StopEngine(c)
    BY <1>1, <2>1 DEF CloseWindow, StopEngine, Emptied, Settled
  <2>2. CASE StopUploaders(c)
    BY <1>1, <2>2 DEF StopUploaders, Slow, Emptied, Settled, Bundles
  <2> QED
    BY <2>1, <2>2
<1>4. InTime'
  <2>1. CASE c # "handler"
    BY <1>1, <2>1 DEF CloseWindow, StopEngine, StopUploaders, InTime, Closers
  <2>2. CASE c = "handler"
    <3>1. CASE CloseWindow(c)
      BY <1>1, <2>2, <3>1, ClosingAssumption DEF CloseWindow, InTime
    <3>2. CASE StopEngine(c)
      BY <1>1, <2>2, <3>2, ClosingAssumption DEF StopEngine, InTime
    <3>3. CASE StopUploaders(c)
      <4>1. ~slow' => ~Slow(c)
        BY <3>3, Zenon DEF StopUploaders
      <4>2. ~Slow(c) => now + Budget <= signal + Grace
        BY <2>2, ClosingAssumption DEF Slow
      <4>3. /\ cpc'["handler"] = "close" /\ due'["handler"] = now + Budget
            /\ signal >= 0 => cpc["handler"] \notin {"off", "run"}
        BY <2>2, <3>3, HandlerIsCloser DEF StopUploaders, InTime
      <4> QED
        BY <1>1, <4>1, <4>2, <4>3 DEF InTime
    <3> QED
      BY <3>1, <3>2, <3>3
  <2> QED
    BY <2>1, <2>2
<1>5. SavedInGrace'
  BY <1>1 DEF SavedInGrace, Running
<1> QED
  BY <1>2, <1>3, <1>4, <1>5

\* A bundle is closed: what its queue held is on disk, or cannot be.
LEMMA ZClose ==
  ASSUME ZInv, NEW c \in Closers, Close(c)
  PROVE  ZInv'
<1> USE DEF ZInv, ZTypeOK, Moves, At
<1> DEFINE b == which[c]
<1>1. Running /\ cpc[c] = "close" /\ UNCHANGED <<now, sniffing, signal, over, slow>>
  BY DEF Close
<1>2. /\ \/ queued[b] > 0 /\ queued' = [queued EXCEPT ![b] = 0]
            /\ (failed' = failed \/ failed' = failed \cup {b})
         \/ ~(queued[b] > 0) /\ UNCHANGED <<queued, failed>>
      /\ \/ b + 1 \in Bundles /\ cpc' = [cpc EXCEPT ![c] = "close"]
            /\ which' = [which EXCEPT ![c] = b + 1] /\ due' = [due EXCEPT ![c] = due[c]]
         \/ b + 1 \notin Bundles /\ cpc' = [cpc EXCEPT ![c] = "closed"]
            /\ which' = [which EXCEPT ![c] = 0] /\ due' = [due EXCEPT ![c] = 0]
  BY DEF Close, Drained, Remaining
<1>3. b \in Bundles /\ b \in 0..2 /\ queued \in [Bundles -> Nat] /\ 0 \in 0..2
  BY <1>1
<1> HIDE DEF b
<1>4. ZTypeOK'
  <2>1. b + 1 \in Bundles => b + 1 \in 0..2
    BY DEF Bundles
  <2>2. queued' \in [Bundles -> Nat] /\ failed' \subseteq Bundles
    <3>1. queued' \in [Bundles -> Nat]
      BY <1>2, <1>3
    <3>2. failed' \subseteq Bundles
      BY <1>2, <1>3
    <3> QED
      BY <3>1, <3>2
  <2>3. \A d \in Closers : cpc'[d] = "close" => which'[d] \in Bundles
    BY <1>1, <1>2
  <2> QED
    BY <1>1, <1>2, <1>3, <2>1, <2>2, <2>3 DEF Places
<1>5. InTime' /\ SavedInGrace'
  BY <1>1, <1>2, HandlerIsCloser DEF InTime, SavedInGrace, Running
<1>6. Emptied'
  <2> SUFFICES ASSUME ~slow, NEW d \in Closers
               PROVE  /\ cpc'[d] \in {"close", "closed"} => ~sniffing
                      /\ cpc'[d] = "close" => \A e \in Bundles : e < which'[d] => Settled(e)'
                      /\ cpc'[d] = "closed" => \A e \in Bundles : Settled(e)'
    BY <1>1 DEF Emptied
  <2>1. /\ ~sniffing /\ \A e \in Bundles : e < b => Settled(e)
    BY <1>1 DEF Emptied, b
  <2>2. \A e \in Bundles : Settled(e) => Settled(e)'
    BY <1>2 DEF Settled
  <2>3. queued'[b] = 0
    BY <1>2, <1>3
  <2>4. \A e \in Bundles : e < b + 1 => Settled(e)'
    <3> SUFFICES ASSUME NEW e \in Bundles, e < b + 1 PROVE Settled(e)'
      OBVIOUS
    <3>1. e < b \/ e = b
      BY <1>3 DEF Bundles
    <3> QED
      BY <1>3, <2>1, <2>2, <2>3, <3>1 DEF Settled
  <2>5. CASE d # c
    BY <1>2, <2>1, <2>2, <2>5 DEF Emptied
  <2>6. CASE d = c
    <3>1. CASE cpc'[d] = "close"
      BY <1>2, <2>1, <2>4, <2>6, <3>1
    <3>2. CASE cpc'[d] = "closed"
      <4>1. \A e \in Bundles : e < b + 1
        BY <1>2, <1>3, <2>6, <3>2 DEF Bundles
      <4> QED
        BY <2>1, <2>4, <3>2, <4>1
    <3> QED
      BY <2>1, <3>1, <3>2
  <2> QED
    BY <2>5, <2>6
<1> QED
  BY <1>4, <1>5, <1>6

\* The process is over: by then what had to be done is done, and the grace does
\* not end before the handler is through.
LEMMA ZOver ==
  ASSUME ZInv, WindowJoin + EngineJoin <= Grace, Killed \/ \E c \in Closers : Ends(c)
  PROVE  ZInv'
<1> USE DEF ZInv, ZTypeOK
<1>1. Running /\ ~Running' /\ UNCHANGED <<now, sniffing, queued, failed, cpc, due, which, signal, slow>>
  BY DEF Killed, Ends, At, Running, Closers
<1>2. ZTypeOK' /\ Emptied'
  BY <1>1 DEF Emptied, Settled
<1>3. CASE Killed
  <2>1. signal >= 0 /\ now >= signal + Grace /\ Waits("handler") /\ InTime
    BY <1>1, <1>3 DEF Killed
  <2>2. slow
    BY <2>1, HandlerIsCloser, ClosingAssumption DEF Waits, InTime
  <2> QED
    BY <1>1, <1>2, <2>2 DEF SavedInGrace
<1>4. CASE \E c \in Closers : Ends(c)
  <2>1. PICK c \in Closers : over' = c /\ cpc[c] = "closed"
    BY <1>4 DEF Ends, At
  <2>2. ~slow => \A b \in Bundles : queued[b] = 0 \/ b \in failed
    BY <2>1 DEF Emptied, Settled
  <2> QED
    BY <1>1, <1>2, <2>1, <2>2 DEF SavedInGrace, Closers
<1> QED
  BY <1>3, <1>4

\* If window and engine leave the handler the time it needs, the queues are on
\* disk before the process is gone (_close_uploads and Market.close of agent.py).
THEOREM QueuesAreSaved == WindowJoin + EngineJoin <= Grace /\ ClosingSpec => []SavedInGrace
<1>1. WindowJoin + EngineJoin <= Grace /\ ZInv /\ [ClosingNext]_zvars => ZInv'
  BY ZStutter, ZThreads, ZTick, ZBegins, ZCloses, ZClose, ZOver DEF ClosingNext
<1>2. ZInv => SavedInGrace
  BY DEF ZInv
<1>3. CASE WindowJoin + EngineJoin <= Grace
  <2>1. ZInv /\ [ClosingNext]_zvars => ZInv'
    BY <1>1, <1>3
  <2>2. ClosingSpec => []SavedInGrace
    BY ZInit, <2>1, <1>2, PTL DEF ClosingSpec
  <2> QED
    BY <2>2
<1> QED
  BY <1>3

=============================================================================
