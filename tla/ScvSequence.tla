---------------------------- MODULE ScvSequence ----------------------------
(***************************************************************************)
(* What scv.h promises of the vector library: a vector is a sequence of    *)
(* elements, its operations are the sequence operations their comments     *)
(* name, indices out of range and lengths that cannot be allocated are     *)
(* refused with SCV_ERANGE, memory may run out, and a refused call leaves  *)
(* the sequence alone.  There is no capacity here, and no memory beyond    *)
(* the last element.                                                       *)
(***************************************************************************)
EXTENDS Integers, Sequences

CONSTANTS Names, Null, SizeMax

VARIABLES seq, out

vars == << seq, out >>

Live == {x \in Names : seq[x] # Null}

Init == /\ seq = [x \in Names |-> Null]
        /\ out = [call |-> << >>, rc |-> "SCV_OK"]

\* t is s with the elements i .. j - 1 replaced by n new ones: those of src, or
\* anything when src is << >>, the NULL pointer.
Spliced(s, t, i, j, src, n) ==
    /\ Len(t) = Len(s) - (j - i) + n
    /\ SubSeq(t, 1, i) = SubSeq(s, 1, i)
    /\ SubSeq(t, i + n + 1, Len(t)) = SubSeq(s, j + 1, Len(s))
    /\ src # << >> => SubSeq(t, i + 1, i + n) = src

\* The call refuses, or puts n elements of src in the place of i .. j - 1.  It
\* refuses indices out of range and lengths that cannot be allocated, always;
\* and a sequence that gets longer, when there is no memory.
Splices(x, i, j, src, n) ==
    LET s        == seq[x].elems
        newlen   == Len(s) - (j - i) + n
        refused  == i > j \/ j > Len(s) \/ newlen >= SizeMax \div seq[x].objsize
    IN  \/ /\ refused
           /\ out'.rc = "SCV_ERANGE"
           /\ UNCHANGED seq
        \/ /\ ~ refused /\ newlen > Len(s)
           /\ out'.rc = "SCV_ENOMEM"
           /\ UNCHANGED seq
        \/ /\ ~ refused
           /\ out'.rc = "SCV_OK"
           /\ Spliced(s, seq'[x].elems, i, j, src, n)
           /\ seq' = [seq EXCEPT ![x].elems = seq'[x].elems]

\* One action per kind of call c = << operation, vector, arguments >>.
new(c) ==
    /\ seq[c[2]] = Null
    /\ \/ out'.rc = "NULL" /\ UNCHANGED seq
       \/ /\ out'.rc = "SCV_OK" /\ c[3] > 0
          /\ seq' = [seq EXCEPT ![c[2]] = [objsize |-> c[3], elems |-> << >>]]

delete(c) == out'.rc = "SCV_OK" /\ seq' = [seq EXCEPT ![c[2]] = Null]

\* Operations on the capacity alone.
keep(c) ==
    out'.rc \in {"SCV_OK", "SCV_ERANGE", "SCV_ENOMEM"} /\ UNCHANGED seq

replace(c) == Splices(c[2], c[3], c[4], c[5], c[6])

assign(c) == Splices(c[2], 0, Len(seq[c[2]].elems), c[3], c[4])

push_back(c) ==
    LET n == Len(seq[c[2]].elems) IN Splices(c[2], n, n, c[3], 1)

pop_back(c) ==
    LET n == Len(seq[c[2]].elems)
    IN  IF n = 0 THEN out'.rc = "SCV_ERANGE" /\ UNCHANGED seq
        ELSE Splices(c[2], n - 1, n, << >>, 0)

resize(c) ==
    LET n == Len(seq[c[2]].elems)
    IN  IF c[3] < n THEN Splices(c[2], c[3], n, << >>, 0)
        ELSE Splices(c[2], n, n, << >>, c[3] - n)

copy(c) ==
    LET x == c[2]
        y == c[3]
    IN  IF x = y \/ seq[x].objsize # seq[y].objsize
        THEN out'.rc = "SCV_EINVAL" /\ UNCHANGED seq
        ELSE Splices(x, 0, Len(seq[x].elems), seq[y].elems, Len(seq[y].elems))

swap(c) ==
    /\ out'.rc = "SCV_OK"
    /\ seq' = [seq EXCEPT ![c[2]] = seq[c[3]], ![c[3]] = seq[c[2]]]

Next ==
    LET c == out'.call
    IN  \/ c[1] = "new" /\ new(c)
        \/ /\ c[2] \in Live
           /\ \/ c[1] = "delete" /\ delete(c)
              \/ c[1] = "keep" /\ keep(c)
              \/ c[1] = "replace" /\ replace(c)
              \/ c[1] = "assign" /\ assign(c)
              \/ c[1] = "push_back" /\ push_back(c)
              \/ c[1] = "pop_back" /\ pop_back(c)
              \/ c[1] = "resize" /\ resize(c)
              \/ c[1] = "copy" /\ copy(c)
              \/ c[1] = "swap" /\ swap(c)

Spec == Init /\ [][Next]_vars
=============================================================================
