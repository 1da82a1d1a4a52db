------------------------------ MODULE MCBridge ------------------------------
(***************************************************************************)
(* Instances of Bridge for TLC.                                            *)
(***************************************************************************)
EXTENDS Bridge

\* What happens around the threads.  "sensors": MaxTicks ticks, no parking spot, and the
\* connection may break; "calm": a run without trouble; "interrupted": Ctrl-C, or an
\* exception; "broken": the connection breaks, parking spot or not.  In these every
\* recv() returns one message.  "cut": the bytes are cut and joined, and there are no
\* sensor data, so that the sender only sleeps.
VARIABLE around

mcVars == << vars, around >>

Within ==
    /\ around \notin {"sensors", "broken"} => link' # "rst"
    /\ CASE around = "sensors" -> app' = "reading"
         [] around = "calm" -> tick' <= 2
         [] around = "cut" -> tick' = 0 /\ sender' # "radar"
         [] OTHER -> tick' <= 1

WholeMessages == Len(wire') \in {Len(wire), Len(wire) - MessageSize}

\* What is cut off the front of the bytes: less than a nonce, a nonce and a part of a
\* tuple, a message, or all there is.
Pieces ==
    \/ Len(wire') = 0
    \/ Len(wire) - Len(wire') \in {0, 1, MessageSize - 2, MessageSize}

MCStep(A) == A /\ UNCHANGED around /\ Within
MCReceiver == Receiver /\ IF around = "cut" THEN Pieces ELSE WholeMessages
MCInit == Init /\ around \in {"sensors", "calm", "interrupted", "broken", "cut"}
MCNext ==
    \/ Tick \/ (\E s \in Sensors : Callback(s)) \/ Sender \/ MCReceiver \/ Main
    \/ (Interrupt /\ around = "interrupted")
    \/ App \/ Spot \/ (Break /\ WholeMessages)
MCSpec ==
    /\ MCInit /\ [][MCStep(MCNext)]_mcVars
    /\ \A s \in Sensors : SF_mcVars(MCStep(Callback(s)))
    /\ WF_mcVars(MCStep(Sender)) /\ WF_mcVars(MCStep(MCReceiver))
    /\ WF_mcVars(MCStep(Main)) /\ WF_mcVars(MCStep(App))

\* With whole messages the procedure is followed; when nothing goes wrong, to its end.
WholeProcedureFollowed == around # "cut" => ProcedureFollowed
CalmBridgeExits == around = "calm" => BridgeExits
=============================================================================
