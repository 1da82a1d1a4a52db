----------------------------- MODULE ScvVector -----------------------------
(***************************************************************************)
(* A program that calls the vector library of Scv.tla in any legal order   *)
(* on the vectors Names.  vec[x] is the vector behind the pointer x, or    *)
(* Null when x was not created, or deleted.  out records the last call and *)
(* its return code.                                                        *)
(*                                                                         *)
(* Bounds: Values, ObjSizes and MaxRequest bound the arguments; SizeMax    *)
(* bounds the vectors, as it does in C.                                    *)
(***************************************************************************)
EXTENDS Scv

CONSTANTS Names, Values, Null, ObjSizes, MaxRequest

ASSUME CallerAssumption ==
    /\ ObjSizes \subseteq Nat
    /\ MaxRequest \in Nat

VARIABLES vec, out

vars == << vec, out >>

Cell == Values \cup {Junk}

\* A vector: its header, the cells of its allocation, and no element outside it.
IsVector(v) ==
    v \in [objsize : ObjSizes \ {0}, size : 0 .. v.capacity, capacity : Nat,
           data : [0 .. v.capacity - 1 -> Cell]]

\* NULL is the address of no vector, and is told from the sequence of one.
ASSUME NullAssumption ==
    /\ \A n \in 0 .. SizeMax :
          Null \notin [objsize : ObjSizes, size : 0 .. n, capacity : {n},
                      data : [0 .. n - 1 -> Cell]]
    /\ Null \notin [objsize : ObjSizes, elems : Seq(Cell)]

\* The arrays a caller passes for n elements; << >> stands for NULL.
Sources(n) == {<< >>} \cup [1 .. n -> Values]

Live == {x \in Names : vec[x] # Null}

Init == /\ vec = [x \in Names |-> Null]
        /\ out = [call |-> << >>, rc |-> "SCV_OK"]

\* The call returns one of the outcomes; its vector is x's from now on.
Return(x, call, outcomes) ==
    \E o \in outcomes :
        /\ vec' = [vec EXCEPT ![x] = o.vec]
        /\ out' = [call |-> call, rc |-> o.rc]

scv_new(x) ==
    \E objsize \in ObjSizes, request \in 0 .. MaxRequest :
        LET call == << "new", x, objsize >>
        IN  /\ vec[x] = Null
            /\ \/ /\ out' = [call |-> call, rc |-> "NULL"]   \* refused or ENOMEM
                  /\ UNCHANGED vec
               \/ /\ ~ NewRefused(objsize, request)
                  /\ out' = [call |-> call, rc |-> "SCV_OK"]
                  /\ vec' = [vec EXCEPT ![x] = NewVector(objsize, request)]

scv_delete(x) ==
    /\ vec' = [vec EXCEPT ![x] = Null]
    /\ out' = [call |-> << "delete", x >>, rc |-> "SCV_OK"]

scv_reserve(x) ==
    \E n \in 0 .. MaxRequest : Return(x, << "keep", x >>, Reserve(vec[x], n))

scv_shrink_to_fit(x) == Return(x, << "keep", x >>, ShrinkToFit(vec[x]))

scv_clear(x) == Return(x, << "assign", x, << >>, 0 >>, Clear(vec[x]))

scv_assign(x) ==
    \E n \in 0 .. MaxRequest : \E src \in Sources(n) :
        Return(x, << "assign", x, src, n >>, Assign(vec[x], src, n))

scv_insert(x) ==
    \E i, n \in 0 .. MaxRequest : \E src \in Sources(n) :
        Return(x, << "replace", x, i, i, src, n >>, Insert(vec[x], i, src, n))

scv_erase(x) ==
    \E i, j \in 0 .. MaxRequest :
        Return(x, << "replace", x, i, j, << >>, 0 >>, Erase(vec[x], i, j))

scv_replace(x) ==
    \E i, j, n \in 0 .. MaxRequest : \E src \in Sources(n) :
        Return(x, << "replace", x, i, j, src, n >>, Replace(vec[x], i, j, src, n))

scv_push_back(x) ==
    \E src \in Sources(1) :
        Return(x, << "push_back", x, src >>, PushBack(vec[x], src))

scv_pop_back(x) == Return(x, << "pop_back", x >>, PopBack(vec[x]))

scv_pop_front(x) == Return(x, << "replace", x, 0, 1, << >>, 0 >>, PopFront(vec[x]))

scv_resize(x) ==
    \E n \in 0 .. MaxRequest : Return(x, << "resize", x, n >>, Resize(vec[x], n))

scv_copy(x, y) ==
    Return(x, << "copy", x, y >>,
           IF x = y THEN {Failed("SCV_EINVAL", vec[x])} ELSE Copy(vec[x], vec[y]))

scv_swap(x, y) ==
    /\ vec' = [vec EXCEPT ![x] = vec[y], ![y] = vec[x]]
    /\ out' = [call |-> << "swap", x, y >>, rc |-> "SCV_OK"]

\* The library asserts that the vector exists: only Live ones are passed.
Next ==
    \/ \E x \in Names : scv_new(x)
    \/ \E x \in Live :
          \/ scv_delete(x) \/ scv_reserve(x) \/ scv_shrink_to_fit(x)
          \/ scv_clear(x) \/ scv_assign(x) \/ scv_insert(x) \/ scv_erase(x)
          \/ scv_replace(x) \/ scv_push_back(x) \/ scv_pop_back(x)
          \/ scv_pop_front(x) \/ scv_resize(x)
          \/ \E y \in Live : scv_copy(x, y) \/ scv_swap(x, y)

Spec == Init /\ [][Next]_vars

-----------------------------------------------------------------------------
(* What must hold.                                                         *)

\* Type: the vectors are vectors, and the elements fit into the allocation.
TypeOK ==
    /\ DOMAIN vec = Names
    /\ \A x \in Live : IsVector(vec[x])

\* No allocation size ever overflows size_t, whatever sequence of calls led
\* there, although the growth factor of scv_i_grow is computed in size_t and may
\* wrap; and an allocation never falls below SCV_MIN_ALLOC bytes.
AllocationInRange ==
    \A x \in Live :
        /\ vec[x].capacity < Limit(vec[x].objsize)
        /\ vec[x].capacity >= MinCapacity(vec[x].objsize)

\* A call that reports an error has changed no vector: scv_i_grow and the
\* argument checks come before the first write.
FailedCallChangesNothing ==
    [][out'.rc # "SCV_OK" => UNCHANGED vec]_vars

\* Whenever scv_push_back appends to a full vector, the capacity grows by more than half of
\* itself, unless so much more would reach the limit that size_t sets: appending stays
\* amortised.
GrowthIsGeometric ==
    [][\A x \in Live :
          /\ vec[x].size = vec[x].capacity
          /\ out'.call[1] = "push_back" /\ out'.call[2] = x /\ out'.rc = "SCV_OK"
          => \/ vec'[x].capacity > vec[x].capacity + vec[x].capacity \div 2
             \/ vec[x].capacity + vec[x].capacity \div 2 + 1 >= Limit(vec[x].objsize)
      ]_vars

\* The sequence a vector shows, and the specification of scv.h it implements.
Shown == [x \in Names |->
            IF vec[x] = Null THEN Null
            ELSE [objsize |-> vec[x].objsize, elems |-> Elements(vec[x])]]

Sequence == INSTANCE ScvSequence WITH seq <- Shown

\* The vector library implements the documented sequence operations.
ImplementsSequence == Sequence!Spec
=============================================================================
