------------------------------- MODULE Stream -------------------------------
(***************************************************************************)
(* The decoder of a flow with its framer (feed_segment, _feed and _give_up *)
(* of FlowDecoder): what the decoder hands on is what the framer is fed.   *)
(* Bytes that _drain feeds one segment after the other are fed as one      *)
(* piece here; that the cut makes no difference is what NothingMissed says *)
(* of the framer.                                                          *)
(***************************************************************************)
EXTENDS FlowDecoder, StreamFramer

CONSTANT
  FlowStreams  \* the streams TLC looks at with the decoder in front, Length long

ASSUME FlowAssumption ==
  \A t \in FlowStreams : IsStream(t) /\ Len(t.bytes) = Length

VARIABLE
  source  \* what feeds the framer: "pieces" of a stream, or the decoder's "segments"

allvars == <<dvars, svars, source>>

\* The framer is fed what the decoder added; after a hole, and with the first
\* segment, it starts anew.
Handed ==
  LET anew == out = <<>> \/ out'[1] # out[1]
      n == Len(out') - (IF anew THEN 0 ELSE Len(out))
  IN  IF out' = out THEN UNCHANGED svars ELSE Deliver(Last(out') + 2 - n, n, anew)

StreamInit ==
  /\ FInit
  /\ SInit \/ /\ stream \in FlowStreams
              /\ fed = 0 /\ framer = FramerInit(1) /\ told = <<>> /\ clock = 0 /\ origin = 1
  /\ source \in {IF stream \in FlowStreams THEN "segments" ELSE "pieces"}

StreamNext ==
  \/ source = "pieces" /\ SNext /\ UNCHANGED <<dvars, source>>
  \/ source = "segments" /\ FeedSegment /\ Handed /\ UNCHANGED source
  \/ source = "segments" /\ Tick /\ clock' = now'
     /\ UNCHANGED <<stream, fed, framer, told, origin, source>>

StreamSpec == StreamInit /\ [][StreamNext]_allvars

=============================================================================
