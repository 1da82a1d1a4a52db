----------------------------- MODULE MCTestApp -----------------------------
(***************************************************************************)
(* Instances of TestApp for TLC.  The positions lie around the thresholds  *)
(* of checkForParking: from one to the next there are distances of 4 and   *)
(* less, between 4 and 12, exactly 12, and above.                          *)
(***************************************************************************)
EXTENDS TestApp, FiniteSets

\* A road on which a spot can be found (1 to 14) and a zero detection.
ShortRoad == {0, 1, 14}

\* Distances 4, 8, 12, 16 and 20 occur between these.
Road == {0, 2, 6, 14, 22}

\* Distances at and just beyond both thresholds: 4, 5, 12, 13 (and 8, 9, 17).
Thresholds == {0, 1, 5, 6, 14, 18}

AllPositions == ShortRoad \union Road \union Thresholds

\* How the stream is read: in pieces that end anywhere; or message by message, and then
\* with any vehicles, with every vehicle shown twice, or one pair in a message.  In the
\* last three nothing is sent while a message is worked on.
VARIABLE reads

Shown   == {sent[i] : i \in DOMAIN sent}
Guessed == {i \in DOMAIN received : received[i].gnss = 0}

\* A read that takes whole messages off the stream, and nothing of the next.
ReadMessage ==
    \E n \in 1 .. Len(wire) : wire[n] = ETX /\ Receive(n, n, 0) /\ aligned'

Stream ==
    \/ /\ reads = "anywhere" /\ Len(sent) <= 3 /\ Shown \subseteq {1, 14}
       /\ Len(wire) <= 2 * FrameSize /\ Cardinality(Guessed) <= 1
    \/ reads = "whole" /\ Len(sent) <= 3 /\ Shown \subseteq Road
    \/ /\ reads = "twice" /\ Shown \subseteq Road
       /\ \A i \in DOMAIN sent : i % 2 = 0 => sent[i] = sent[i - 1]
    \/ /\ reads = "alone" /\ Len(sent) <= 5 /\ Shown \subseteq Thresholds
       /\ Len(wire) <= FrameSize

MCInit == Init /\ reads \in {"anywhere", "whole", "twice", "alone"}
MCApp  ==
    /\ App /\ UNCHANGED reads /\ Stream'
    /\ reads # "anywhere" /\ Read => ReadMessage
MCSend == /\ reads # "anywhere" => pc = "loop"
          /\ Send /\ UNCHANGED reads /\ Stream'
mcVars == << vars, reads >>
MCSpec == MCInit /\ [][MCApp \/ MCSend]_mcVars /\ WF_mcVars(MCApp)

\* When every read holds one pair, or every vehicle is shown at least twice in a row,
\* the stale front pointers of checkForParking do no harm and nothing is lost: the
\* decision that the application takes is that of the documented algorithm on what
\* the car has sent, at the thresholds too.
WholeStreamSpotsFound == reads \in {"twice", "alone"} => StreamSpotsFound
=============================================================================
