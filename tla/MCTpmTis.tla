------------------------------ MODULE MCTpmTis ------------------------------
(***************************************************************************)
(* Instances of TpmTis for TLC: commands and answers of a header and of    *)
(* more than a frame, and an answer that does not fit the packet.          *)
(***************************************************************************)
EXTENDS TpmTis

MCCommandSizes == {2, 5}
MCAnswerSizes == {2, 5, 6}
=============================================================================
