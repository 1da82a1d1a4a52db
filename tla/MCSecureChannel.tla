-------------------------- MODULE MCSecureChannel --------------------------
(***************************************************************************)
(* Instances of SecureChannel for TLC.                                     *)
(***************************************************************************)
EXTENDS SecureChannel

WriteLengths == {3, 4}
RoomForObjects == {1, 4}
=============================================================================
