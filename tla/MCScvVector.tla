---------------------------- MODULE MCScvVector ----------------------------
(***************************************************************************)
(* The instance of ScvVector for TLC.  The sizes are those of C scaled     *)
(* down: SizeMax 7 stands for (size_t) -1, MinAlloc 2 for 64, SmallBytes 3 *)
(* for 4096; with elements of 1, 2 and 3 bytes that makes room for vectors *)
(* of up to 6, 2 and 1 elements, both growth factors, and factors that     *)
(* wrap.                                                                   *)
(***************************************************************************)
EXTENDS ScvVector

\* The record of the last call is no part of the program's memory: TLC keeps
\* one state per memory, and checks the steps with the calls they belong to.
Memory == vec

\* A vector of elements of one byte, which can have six of them, is alone in the
\* program; vectors of larger elements are copied and swapped with each other.
RoomForBoth ==
    \A x, y \in Names :
        x # y /\ vec[x] # Null /\ vec[y] # Null => vec[x].objsize > 1

MCSpec == Init /\ [][Next /\ RoomForBoth']_vars
=============================================================================
