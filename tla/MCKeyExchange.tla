--------------------------- MODULE MCKeyExchange ---------------------------
(***************************************************************************)
(* Instances of KeyExchange for TLC.                                       *)
(***************************************************************************)
EXTENDS KeyExchange

\* What happens around the exchange: both sides are restarted, and nothing fails;
\* the server is restarted and anything fails, while the application runs; or the
\* server was started first, its EK_hash.txt is right, and nothing else happens.
VARIABLE around

Within ==
    \/ around = "restarts" /\ faults = 0
    \/ around = "failures" /\ boot <= 1
    \/ around = "calm" /\ faults = 0 /\ boot <= 1 /\ server <= 1 /\ imported

mcVars == << vars, around >>
MCStep(A) == A /\ UNCHANGED around /\ Within'
MCInit == Init /\ around \in {"restarts", "failures", "calm"}
MCNext ==
    \/ SwitchOn /\ (around = "calm" => spc = "crypto")
    \/ SwitchOff /\ around = "restarts"
    \/ App \/ Deliver \/ Break
    \/ StartServer
    \/ Kill /\ around # "calm"
    \/ Python
MCSpec ==
    /\ MCInit /\ [][MCStep(MCNext)]_mcVars
    /\ WF_mcVars(MCStep(App)) /\ WF_mcVars(MCStep(Deliver)) /\ WF_mcVars(MCStep(Python))

\* The undisturbed start leads to a channel.
CalmChannelComesUp == around = "calm" => ChannelComesUp
=============================================================================
