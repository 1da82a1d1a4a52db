----------------------------- MODULE MCWolfTPM -----------------------------
(***************************************************************************)
(* Instances of TpmOperator for TLC.                                       *)
(***************************************************************************)
EXTENDS TpmOperator

Lengths == {1, 2}

\* What each operator may meet within the bounds: the one who follows the README two
\* interruptions, at any step.
Within ==
    \/ operator = "anybody" /\ generated <= 2
    \/ operator = "follows" /\ faults <= 2 /\ stored <= 1

MCStep(A) == Operated(A) /\ Within'

\* The component's thread runs on, and the operator starts the program again when
\* it has stopped.
MCSpec ==
    /\ OperatedInit /\ [][MCStep(Next)]_operated
    /\ WF_operated(MCStep(Boot)) /\ WF_operated(MCStep(PowerOn))
    /\ WF_operated(MCStep(PowerOff))
=============================================================================
