-------------------------------- MODULE Scv --------------------------------
(***************************************************************************)
(* The vector library components/TestApp/src/scv/scv.c as a data type: a   *)
(* vector is its header (objsize, size, capacity) and the cells of its     *)
(* allocation, indexed from 0 like the C array.  One cell is one element   *)
(* of objsize bytes.  Every cell of the allocation is kept, those at and   *)
(* beyond size included, because a pointer returned by scv_front goes on   *)
(* seeing them.                                                            *)
(*                                                                         *)
(* realloc may fail, so an operation is the set of its possible outcomes   *)
(* [rc, vec].  Byte counts are those of C: size_t is 0 .. SizeMax, and the *)
(* arithmetic that can wrap is written modulo SizeMax + 1.                 *)
(***************************************************************************)
EXTENDS Integers, Sequences

CONSTANTS Junk,       \* the content of memory that was never written
          SizeMax,    \* (size_t) -1
          MinAlloc,   \* SCV_MIN_ALLOC, in bytes
          SmallBytes  \* up to this many bytes a growing vector doubles (4096)

ASSUME ScvAssumption ==
    /\ SizeMax \in Nat /\ MinAlloc \in Nat \ {0} /\ SmallBytes \in Nat
    /\ 3 * MinAlloc <= SizeMax
    /\ 2 * SmallBytes < SizeMax

\* (size_t) -1 / objsize: a request for this many elements or more is refused.
Limit(objsize) == SizeMax \div objsize

\* The smallest capacity ever allocated: SCV_MIN_ALLOC bytes, rounded up.
MinCapacity(objsize) == (MinAlloc + (objsize - 1)) \div objsize

\* struct scv_vector.
Vec(objsize, size, capacity, data) ==
    [objsize |-> objsize, size |-> size, capacity |-> capacity, data |-> data]

\* v with other elements in the same allocation.
Rewritten(v, size, data) == Vec(v.objsize, size, v.capacity, data)

Ok(v)        == [rc |-> "SCV_OK", vec |-> v]
Failed(e, v) == [rc |-> e, vec |-> v]

\* realloc(v->data, capacity * v->objsize): the old cells stay as far as they
\* fit, the new ones are uninitialised; or there is no memory.
Realloc(v, capacity) ==
    { Ok(Vec(v.objsize, v.size, capacity,
             [k \in 0 .. capacity - 1 |->
                 IF k < v.capacity THEN v.data[k] ELSE Junk])),
      Failed("SCV_ENOMEM", v) }

\* Slip: a vector that only grows as far as it must.
GrownByNeed(v, request) == request

\* The capacity scv_i_grow asks for: factor 2 for a small vector and 1.5 for a
\* larger one, or the request itself when the factor is too little or too much.
GrownCapacity(v, request) ==
    LET factored == IF v.capacity < SmallBytes \div v.objsize
                    THEN v.capacity + v.capacity + 1
                    ELSE (v.capacity + v.capacity \div 2 + 1) % (SizeMax + 1)
    IN  IF request > factored \/ factored >= Limit(v.objsize)
        THEN request ELSE factored

\* Slip: growing without the overflow check.
GrowUnchecked(v, request) ==
    IF request <= v.capacity THEN {Ok(v)} ELSE Realloc(v, GrownCapacity(v, request))

Grow(v, request) ==
    IF request <= v.capacity THEN {Ok(v)}
    ELSE IF request >= Limit(v.objsize) THEN {Failed("SCV_ERANGE", v)}
    ELSE Realloc(v, GrownCapacity(v, request))

\* What an operation does after a Grow that may fail.
AfterGrow(v, request, Op(_)) ==
    { IF g.rc = "SCV_OK" THEN Ok(Op(g.vec)) ELSE g : g \in Grow(v, request) }

\* scv_new: the empty vector it returns, when it has the memory.
NewVector(objsize, request) ==
    LET wanted   == IF request = 0 THEN 1 ELSE request
        capacity == IF wanted * objsize < MinAlloc THEN MinCapacity(objsize)
                    ELSE wanted
    IN  Vec(objsize, 0, capacity, [k \in 0 .. capacity - 1 |-> Junk])

\* The argument check of scv_new: objsize = 0 or a byte count that overflows.
NewRefused(objsize, request) ==
    \/ objsize = 0
    \/ (IF request = 0 THEN 1 ELSE request) >= Limit(objsize)

Reserve(v, request) ==
    IF request <= v.capacity THEN {Ok(v)}
    ELSE IF request >= Limit(v.objsize) THEN {Failed("SCV_ERANGE", v)}
    ELSE Realloc(v, request)

ShrinkToFit(v) ==
    IF v.capacity = v.size THEN {Ok(v)}
    ELSE Realloc(v, IF v.size * v.objsize < MinAlloc
                    THEN MinCapacity(v.objsize) ELSE v.size)

Clear(v) == {Ok(Rewritten(v, 0, v.data))}

\* memcpy of src over the cells from i on; src = << >> is the NULL pointer.
Overwrite(data, i, src) ==
    [k \in DOMAIN data |->
        IF k \in i .. i + Len(src) - 1 THEN src[k - i + 1] ELSE data[k]]

\* Slip: the size is set before the memory is there.
AssignSizeFirst(v, src, nobj) ==
    IF nobj >= Limit(v.objsize) THEN {Failed("SCV_ERANGE", v)}
    ELSE { IF g.rc = "SCV_OK"
           THEN Ok(Rewritten(g.vec, nobj, Overwrite(g.vec.data, 0, src)))
           ELSE Failed(g.rc, Rewritten(v, 0, v.data)) : g \in Grow(v, nobj) }

\* scv_assign: src has nobj elements, or is << >> for NULL.
Assign(v, src, nobj) ==
    LET Copied(g) == Rewritten(g, nobj, Overwrite(g.data, 0, src))
    IN  IF nobj >= Limit(v.objsize) THEN {Failed("SCV_ERANGE", v)}
        ELSE AfterGrow(v, nobj, Copied)

\* Slip: the tail is not moved.
ReplaceInPlace(v, i, j, src, nobj) ==
    LET newsize == v.size - (j - i) + nobj
        Replaced(g) == Rewritten(g, newsize, Overwrite(g.data, i, src))
    IN  IF i > j \/ j > v.size THEN {Failed("SCV_ERANGE", v)}
        ELSE IF nobj >= Limit(v.objsize) - (v.size - (j - i))
        THEN {Failed("SCV_ERANGE", v)}
        ELSE AfterGrow(v, newsize, Replaced)

\* scv_replace: elements i .. j - 1 make place for nobj new ones; memmove first
\* carries the tail over, then memcpy fills the gap.
Replace(v, i, j, src, nobj) ==
    LET newsize == v.size - (j - i) + nobj
        Moved(g) ==
            [k \in DOMAIN g.data |->
                IF k \in i + nobj .. newsize - 1
                THEN g.data[k - nobj + (j - i)] ELSE g.data[k]]
        Replaced(g) == Rewritten(g, newsize, Overwrite(Moved(g), i, src))
    IN  IF i > j \/ j > v.size THEN {Failed("SCV_ERANGE", v)}
        ELSE IF nobj >= Limit(v.objsize) - (v.size - (j - i))
        THEN {Failed("SCV_ERANGE", v)}
        ELSE AfterGrow(v, newsize, Replaced)

Insert(v, i, src, nobj) == Replace(v, i, i, src, nobj)
Erase(v, i, j)          == Replace(v, i, j, << >>, 0)
PopFront(v)             == Erase(v, 0, 1)

\* scv_push_back: src is the one element, or << >> for NULL.
PushBack(v, src) ==
    LET Pushed(g) == Rewritten(g, g.size + 1, Overwrite(g.data, g.size, src))
    IN  AfterGrow(v, v.size + 1, Pushed)

PopBack(v) ==
    IF v.size = 0 THEN {Failed("SCV_ERANGE", v)}
    ELSE {Ok(Rewritten(v, v.size - 1, v.data))}

Resize(v, size) ==
    LET Sized(g) == Rewritten(g, size, g.data)
    IN  IF size >= Limit(v.objsize) THEN {Failed("SCV_ERANGE", v)}
        ELSE AfterGrow(v, size, Sized)

\* The elements of a vector as a sequence: what scv_at(v, 0 .. size - 1) show.
Elements(v) == [k \in 1 .. v.size |-> v.data[k - 1]]

\* Slip: a copy between vectors of different element sizes.
CopyAnySize(dst, src) == Assign(dst, Elements(src), src.size)

\* scv_copy: refused between vectors of different element sizes.  The case
\* dst = src is the caller's (ScvVector).
Copy(dst, src) ==
    IF dst.objsize # src.objsize THEN {Failed("SCV_EINVAL", dst)}
    ELSE Assign(dst, Elements(src), src.size)

\* *scv_front(v), read through the pointer: cell 0, whatever is there now.
FrontCell(v) == v.data[0]
=============================================================================
