----------------------------- MODULE MCCapture ------------------------------
(***************************************************************************)
(* The capture for TLC: the engine thread, which treats what a connection  *)
(* says as events, and the decoder and framer that find the events in the  *)
(* bytes.  The parts share no variable and stand side by side: a behaviour *)
(* is one of either, and the other keeps still.  The framer is fed pieces  *)
(* cut anywhere, or what the decoder makes of segments.                    *)
(***************************************************************************)
EXTENDS MCPacketEngine, Stream

VARIABLE part

Tick3 == <<3, 0, 3>>
Decoy == <<5, 0, 3, 6, 0>>          \* its body looks like a header
Enter == <<6, 0, 1, 3, 0, 3>>
Page == <<5, 0, 2, 1, 7>>
LongPage == <<6, 0, 2, 2, 3, 0>>    \* beyond PageMax
Jochul == <<4, 0, 4, 0>>
High == <<3, 0, 8>>

\* Frames behind the rest of a frame that was cut off.
Build(tail, frames) ==
  [bytes |-> FoldLeft(LAMBDA a, b : a \o b, tail, frames),
   starts |-> {Len(tail) + 1 + FoldLeft(LAMBDA a, b : a + Len(b), 0, SubSeq(frames, 1, i - 1)) :
                 i \in DOMAIN frames}]

\* A stream with nothing in it, and one whose frames begin late and are long.
Nines(n) == [i \in 1..n |-> 9]
Noise == [bytes |-> Nines(30), starts |-> {}]
Big == <<8, 0, 3>> \o Nines(5)
Late == Build(Nines(8), <<Big, Big, Big>>)
Popup == Build(Nines(13), <<Marker, Jochul, Big>>)

MCStreams ==
  {Build(end[1], <<a, b, end[2], LongPage>>) :
     end \in {<<<<>>, Jochul>>, <<<<6, 0, 1>>, High>>},
     a \in {Tick3, Decoy, Enter, Page, Jochul, Marker}, b \in {Decoy, Enter, Marker}}
  \cup {Noise, Late, Popup, Build(<<8, 0>>, <<Tick3, Marker, Tick3, LongPage>>)}

MCFlowStreams == {Build(<<>>, <<Page, Tick3>>), Build(<<3>>, <<Jochul, Tick3>>)}

MCInit ==
  \/ /\ part = "engine" /\ EInit
     /\ stream = Noise /\ StreamInit
  \/ /\ part = "stream" /\ StreamInit
     /\ running = {} /\ conns = Nowhere /\ EInit

MCNext ==
  \/ part = "engine" /\ ENext /\ UNCHANGED allvars
  \/ part = "stream" /\ StreamNext /\ UNCHANGED evars

MCSpec == MCInit /\ [][MCNext /\ UNCHANGED part]_<<evars, allvars, part>>

=============================================================================
