----------------------------- MODULE MCTPM2Wrap -----------------------------
(***************************************************************************)
(* Instances of TPM2Wrap: room for two objects (a key and a hash, or the   *)
(* key of an HMAC and its hash) and one session, which failures can use    *)
(* up.  The assumption of TPM2Table is evaluated here.                     *)
(***************************************************************************)
EXTENDS TPM2Wrap, TPM2Table

MCSessions == {11}
MCRounds == {2}
=============================================================================
