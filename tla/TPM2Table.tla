------------------------------ MODULE TPM2Table ------------------------------
(***************************************************************************)
(* The facts about the table of TPM2Commands that the proofs about TPM2    *)
(* rest on.  They are about that table only, with no constant or variable  *)
(* in them, so TLC evaluates them once and for all: what the layouts are   *)
(* is a recursive function of the fields' names, of which the provers      *)
(* cannot compute the values.                                              *)
(***************************************************************************)
EXTENDS Integers, TPM2Commands

Kinds == {"plain", "authorized", "unguarded", "open"}
Flags == {"enc", "dec", "user1", "user2", "admin", "dup"}

\* The names are those of an answer's handles, of its size if it has one, and of the
\* first of its parameters.
NamesAnswer(names, d, sized, params) ==
    LET first == OutHandles(d) + sized + 1
    IN /\ Len(names) < first + Len(params)
       /\ \A k \in DOMAIN names :
            IF k <= OutHandles(d) THEN names[k] = "handle"
            ELSE IF k < first THEN names[k] = "paramSz"
            ELSE names[k] # "paramSz" /\ names[k] = params[k - first + 1]

\* A row of the table, for one shape of the structures.
RowIsSound(d, shape) ==
    LET written == Written(d.in, shape)
        params == Written(Results(d), shape)
    IN /\ written \in Seq(STRING) /\ params \in Seq(STRING)
       /\ "enc" \in d.flags => written # << >> /\ written[1] = "size"
       /\ "dec" \in d.flags => params # << >> /\ params[1] = "size"
       /\ Read(d.out, shape) \in Seq(STRING) /\ Read(Unsized(d), shape) \in Seq(STRING)
       /\ IF d.kind = "plain" THEN NamesAnswer(Read(d.out, shape), d, 0, params)
          ELSE NamesAnswer(Read(d.out, shape), d, 1, params)
       /\ d.kind = "open" => NamesAnswer(Read(Unsized(d), shape), d, 0, params)

ASSUME TableAssumption ==
    \A c \in DOMAIN Commands :
       LET d == Commands[c]
       IN /\ d.kind \in Kinds /\ d.flags \subseteq Flags
          /\ d.handles \in Nat /\ d.inHandleCnt \in Nat /\ d.outHandleCnt \in Nat
          /\ c \notin Miscounted /\ d.kind # "plain"
             => d.inHandleCnt = d.handles /\ d.outHandleCnt = OutHandles(d)
          /\ \A shape \in Shapes : RowIsSound(d, shape)
=============================================================================
