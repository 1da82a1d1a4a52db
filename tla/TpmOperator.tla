----------------------------- MODULE TpmOperator -----------------------------
(***************************************************************************)
(* WolfTPM and who starts it: anybody, with any image; or an operator who  *)
(* follows the README ("Generating and importing a new cEK"), and builds   *)
(* the program with CLEAR_TPM until a cEK has been printed, and without it *)
(* from then on.                                                           *)
(***************************************************************************)
EXTENDS WolfTPM

VARIABLE operator

operated == << vars, operator >>

Procedure ==
    operator = "follows" /\ pc = "off" /\ pc' # "off"
    => image' = IF printed = 0 THEN "clear" ELSE "plain"

Operated(A) == A /\ UNCHANGED operator /\ Procedure

OperatedInit == Init /\ operator \in {"anybody", "follows"}

OperatedSpec == OperatedInit /\ [][Operated(Next)]_operated

\* When the README's procedure for a new cEK is followed, interrupted or not, the
\* cEK that is served is the one that was printed and imported.
FollowerGetsPrintedKey == operator = "follows" => ServedKeyWasPrinted

\* The procedure leads to a component that serves, although set-up and boot may be
\* interrupted at any step.
FollowerIsServed == operator = "follows" => ProcedureServes
=============================================================================
