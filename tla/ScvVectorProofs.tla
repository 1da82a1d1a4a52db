-------------------------- MODULE ScvVectorProofs --------------------------
(***************************************************************************)
(* Proofs about ScvVector, for every element size, every limit and every   *)
(* sequence of calls.                                                      *)
(*                                                                         *)
(* 1. The vectors stay well formed, no allocation leaves the range of      *)
(*    size_t, and a call that fails changes nothing: IInv, one lemma Good  *)
(*    per operation.                                                       *)
(* 2. The library implements the sequence library of scv.h (ScvSequence):  *)
(*    one lemma Splices per operation says which cells come of it, and     *)
(*    SplicesStep what sequence they show.                                 *)
(* 3. A full vector grows by more than half.                               *)
(***************************************************************************)
EXTENDS ScvVector, SequenceTheorems, TLAPS

-----------------------------------------------------------------------------
(* Arithmetic of the sizes.                                                *)

\* What the integer division of C gives.
LEMMA DivFacts ==
    ASSUME NEW a \in Nat, NEW b \in Nat \ {0}
    PROVE  /\ a \div b \in Nat
           /\ b * (a \div b) <= a
           /\ a < b * ((a \div b) + 1)
  BY SMT

\* A product grows with its factor.
LEMMA MulMono ==
    ASSUME NEW a \in Nat, NEW b \in Nat, NEW c \in Nat, a <= b
    PROVE  c * a <= c * b
  BY SMT

LEMMA LimitNat ==
    ASSUME NEW s \in Nat \ {0}
    PROVE  Limit(s) \in Nat /\ MinCapacity(s) \in Nat
  BY DivFacts, ScvAssumption DEF Limit, MinCapacity

LEMMA LimitInRange ==
    ASSUME NEW s \in Nat \ {0}
    PROVE  Limit(s) <= SizeMax
<1>1. PICK q \in Nat : q = SizeMax \div s
  BY DivFacts, ScvAssumption
<1>2. s * q <= SizeMax
  BY <1>1, DivFacts, ScvAssumption
<1>3. q * 1 <= q * s
  <2>1. 1 \in Nat /\ s \in Nat /\ 1 <= s
    OBVIOUS
  <2> QED
    BY <2>1, MulMono
<1> QED
  BY <1>1, <1>2, <1>3, ScvAssumption DEF Limit

\* A capacity of at least MinAlloc bytes is at least the minimum capacity.
LEMMA MinCapacityLeast ==
    ASSUME NEW s \in Nat \ {0}, NEW n \in Nat, ~ (n * s < MinAlloc)
    PROVE  MinCapacity(s) <= n
<1> DEFINE a == MinAlloc + (s - 1)
           q == a \div s
<1>1. a \in Nat /\ q \in Nat /\ s * q <= a
  BY DivFacts, ScvAssumption
<1>2. SUFFICES ASSUME n + 1 <= q PROVE FALSE
  BY <1>1 DEF MinCapacity
<1>3. s * (n + 1) <= s * q
  BY <1>1, <1>2, MulMono
<1>4. s * (n + 1) = n * s + s
  OBVIOUS
<1> QED
  BY <1>1, <1>3, <1>4, ScvAssumption

\* The minimum capacity of a small element is far from the limit.
LEMMA MinCapacityBelowLimit ==
    ASSUME NEW s \in Nat \ {0}, s <= MinAlloc
    PROVE  MinCapacity(s) < Limit(s)
<1> DEFINE a == MinAlloc + (s - 1)
           q == a \div s
           l == SizeMax \div s
<1>1. a \in Nat /\ q \in Nat /\ s * q <= a
  BY DivFacts, ScvAssumption
<1>2. l \in Nat /\ SizeMax < s * (l + 1)
  BY DivFacts, ScvAssumption
<1>3. SUFFICES ASSUME l <= q PROVE FALSE
  BY <1>1, <1>2 DEF MinCapacity, Limit
<1>4. s * (l + 1) <= s * (q + 1)
  BY <1>1, <1>2, <1>3, MulMono
<1>5. s * (q + 1) = s * q + s
  BY <1>1
<1> QED
  BY <1>1, <1>2, <1>4, <1>5, ScvAssumption

-----------------------------------------------------------------------------
(* Every operation takes a sound vector to sound vectors.                  *)

\* A vector as the library leaves it.
Sound(v) ==
    /\ IsVector(v)
    /\ v.capacity < Limit(v.objsize)
    /\ v.capacity >= MinCapacity(v.objsize)

\* The outcomes of an operation on v: sound, and v itself in case of an error.
Good(v, outcomes) ==
    \A o \in outcomes : /\ Sound(o.vec)
                        /\ o.rc # "SCV_OK" => o.vec = v

\* The fields of a sound vector.
LEMMA SoundFields ==
    ASSUME NEW v, Sound(v)
    PROVE  /\ v.objsize \in Nat \ {0} /\ v.objsize \in ObjSizes
           /\ v.capacity \in Nat /\ v.size \in Nat /\ v.size <= v.capacity
           /\ v.data \in [0 .. v.capacity - 1 -> Cell]
           /\ Limit(v.objsize) \in Nat /\ v.capacity < Limit(v.objsize)
           /\ MinCapacity(v.objsize) \in Nat
           /\ MinCapacity(v.objsize) <= v.capacity
<1>1. /\ v.objsize \in ObjSizes \ {0}
      /\ v.size \in 0 .. v.capacity
      /\ v.capacity \in Nat
      /\ v.data \in [0 .. v.capacity - 1 -> Cell]
  BY DEF Sound, IsVector
<1>2. v.objsize \in Nat \ {0}
  BY <1>1, CallerAssumption
<1>3. Limit(v.objsize) \in Nat /\ MinCapacity(v.objsize) \in Nat
  BY <1>2, LimitNat
<1> QED
  BY <1>1, <1>2, <1>3 DEF Sound

LEMMA ReallocGood ==
    ASSUME NEW v, Sound(v), NEW n \in Nat,
           v.size <= n, n < Limit(v.objsize), n >= MinCapacity(v.objsize)
    PROVE  \A o \in Realloc(v, n) :
               /\ Sound(o.vec)
               /\ o.rc # "SCV_OK" => o.vec = v
               /\ o.rc = "SCV_OK" => /\ o.vec.objsize = v.objsize
                                     /\ o.vec.size = v.size
                                     /\ o.vec.capacity = n
<1> DEFINE d == [k \in 0 .. n - 1 |-> IF k < v.capacity THEN v.data[k] ELSE Junk]
<1>1. d \in [0 .. n - 1 -> Cell]
  BY SoundFields DEF Cell
<1>2. Sound(Vec(v.objsize, v.size, n, d))
  <2> HIDE DEF d
  <2> QED
    BY <1>1, SoundFields DEF Sound, IsVector, Vec
<1> QED
  BY <1>2 DEF Realloc, Ok, Failed, Vec

\* The factor of scv_i_grow may wrap; the capacity it asks for still covers the
\* request and stays below the limit.
LEMMA GrownCapacityInRange ==
    ASSUME NEW v, Sound(v), NEW n \in Nat, n > v.capacity, n < Limit(v.objsize)
    PROVE  /\ GrownCapacity(v, n) \in Nat
           /\ n <= GrownCapacity(v, n)
           /\ GrownCapacity(v, n) < Limit(v.objsize)
<1> DEFINE c == v.capacity
<1>1. c \in Nat /\ v.objsize \in Nat \ {0}
  BY CallerAssumption DEF Sound, IsVector
<1>2. c \div 2 \in Nat
  BY <1>1, DivFacts
<1>3. (c + c \div 2 + 1) % (SizeMax + 1) \in Nat
  BY <1>1, <1>2, ScvAssumption
<1> QED
  BY <1>1, <1>2, <1>3, LimitNat DEF GrownCapacity

LEMMA GrowGood ==
    ASSUME NEW v, Sound(v), NEW n \in Nat
    PROVE  \A o \in Grow(v, n) :
               /\ Sound(o.vec)
               /\ o.rc # "SCV_OK" => o.vec = v
               /\ o.rc = "SCV_OK" => /\ o.vec.objsize = v.objsize
                                     /\ o.vec.size = v.size
                                     /\ n <= o.vec.capacity
<1>1. CASE n <= v.capacity
  BY <1>1 DEF Grow, Ok
<1>2. CASE ~ (n <= v.capacity) /\ n >= Limit(v.objsize)
  BY <1>2 DEF Grow, Failed
<1>3. CASE ~ (n <= v.capacity) /\ ~ (n >= Limit(v.objsize))
  <2> DEFINE m == GrownCapacity(v, n)
  <2>1. /\ v.objsize \in Nat \ {0} /\ v.capacity \in Nat /\ v.size \in Nat
        /\ v.size <= v.capacity /\ MinCapacity(v.objsize) <= v.capacity
    BY SoundFields
  <2>2. Limit(v.objsize) \in Nat /\ MinCapacity(v.objsize) \in Nat
    BY SoundFields
  <2>3. n > v.capacity /\ n < Limit(v.objsize)
    BY <1>3, <2>1, <2>2
  <2>4. m \in Nat /\ n <= m /\ m < Limit(v.objsize)
    BY <2>3, GrownCapacityInRange
  <2>5. v.size <= m /\ m >= MinCapacity(v.objsize)
    BY <2>1, <2>2, <2>3, <2>4
  <2>6. Grow(v, n) = Realloc(v, m)
    BY <1>3 DEF Grow
  <2> HIDE DEF m
  <2> QED
    BY <2>4, <2>5, <2>6, ReallocGood
<1> QED
  BY <1>1, <1>2, <1>3

LEMMA OverwriteType ==
    ASSUME NEW n \in Nat, NEW data \in [0 .. n - 1 -> Cell], NEW i \in Nat,
           NEW src \in Seq(Cell)
    PROVE  Overwrite(data, i, src) \in [0 .. n - 1 -> Cell]
<1> SUFFICES ASSUME NEW k \in 0 .. n - 1, k \in i .. i + Len(src) - 1
             PROVE  src[k - i + 1] \in Cell
  BY DEF Overwrite
<1>1. k - i + 1 \in 1 .. Len(src)
  OBVIOUS
<1> QED
  BY <1>1

\* Writing cells and setting a size within the capacity keeps a vector sound.
LEMMA RewriteSound ==
    ASSUME NEW v, Sound(v), NEW d \in [0 .. v.capacity - 1 -> Cell],
           NEW n \in Nat, n <= v.capacity
    PROVE  Sound(Rewritten(v, n, d))
  BY SoundFields DEF Sound, IsVector, Rewritten, Vec

-----------------------------------------------------------------------------
(* One lemma per operation.                                                *)

LEMMA NewSound ==
    ASSUME NEW s \in ObjSizes, NEW n \in Nat, ~ NewRefused(s, n)
    PROVE  Sound(NewVector(s, n))
<1> DEFINE wanted == IF n = 0 THEN 1 ELSE n
           c == IF wanted * s < MinAlloc THEN MinCapacity(s) ELSE wanted
<1>1. s \in Nat \ {0} /\ wanted \in Nat \ {0} /\ wanted < Limit(s)
  <2>1. s \in Nat \ {0} /\ wanted \in Nat \ {0} /\ ~ (wanted >= Limit(s))
    BY CallerAssumption DEF NewRefused
  <2> QED
    BY <2>1, LimitNat
<1>2. Limit(s) \in Nat /\ MinCapacity(s) \in Nat
  BY <1>1, LimitNat
<1>3. CASE wanted * s < MinAlloc
  <2>1. 1 * s <= wanted * s
    BY <1>1
  <2>2. s <= MinAlloc
    BY <2>1, <1>1, <1>3, ScvAssumption
  <2> QED
    BY <1>1, <1>2, <1>3, <2>2, MinCapacityBelowLimit
       DEF NewVector, Sound, IsVector, Vec, Cell
<1>4. CASE ~ (wanted * s < MinAlloc)
  <2>1. MinCapacity(s) <= wanted
    BY <1>1, <1>4, MinCapacityLeast
  <2> QED
    BY <1>1, <1>2, <1>4, <2>1 DEF NewVector, Sound, IsVector, Vec, Cell
<1> QED
  BY <1>3, <1>4

LEMMA ReserveGood ==
    ASSUME NEW v, Sound(v), NEW n \in Nat
    PROVE  Good(v, Reserve(v, n))
<1>1. CASE n <= v.capacity
  BY <1>1 DEF Reserve, Good, Ok
<1>2. CASE ~ (n <= v.capacity) /\ n >= Limit(v.objsize)
  BY <1>2 DEF Reserve, Good, Failed
<1>3. CASE ~ (n <= v.capacity) /\ ~ (n >= Limit(v.objsize))
  <2>1. v.size <= n /\ n < Limit(v.objsize) /\ n >= MinCapacity(v.objsize)
    BY <1>3, SoundFields
  <2> QED
    BY <1>3, <2>1, ReallocGood DEF Reserve, Good
<1> QED
  BY <1>1, <1>2, <1>3

\* Elements of fewer than MinAlloc bytes fit into the minimum capacity.
LEMMA FitsMinCapacity ==
    ASSUME NEW v, Sound(v), v.size * v.objsize < MinAlloc
    PROVE  v.size <= MinCapacity(v.objsize)
<1> DEFINE s == v.objsize
           q == (MinAlloc + (s - 1)) \div s
<1>1. s \in Nat \ {0} /\ v.size \in Nat /\ MinCapacity(s) \in Nat
  BY SoundFields
<1>2. q = MinCapacity(s) /\ q \in Nat
  BY <1>1 DEF MinCapacity
<1>3. MinAlloc + (s - 1) < s * (q + 1)
  BY <1>1, DivFacts, ScvAssumption
<1>4. SUFFICES ASSUME q + 1 <= v.size PROVE FALSE
  BY <1>1, <1>2
<1> HIDE DEF q, s
<1>5. s * (q + 1) <= s * v.size
  BY <1>1, <1>2, <1>4, MulMono
<1>6. v.size * s < MinAlloc
  BY DEF s
<1> QED
  BY <1>1, <1>2, <1>3, <1>5, <1>6, ScvAssumption

LEMMA ShrinkToFitGood ==
    ASSUME NEW v, Sound(v)
    PROVE  Good(v, ShrinkToFit(v))
<1> DEFINE s == v.objsize
<1>1. /\ s \in Nat \ {0} /\ v.size \in Nat /\ v.capacity \in Nat
      /\ v.size <= v.capacity /\ v.capacity < Limit(s) /\ Limit(s) \in Nat
      /\ MinCapacity(s) \in Nat /\ MinCapacity(s) <= v.capacity
  BY SoundFields
<1>2. CASE v.capacity = v.size
  BY <1>2 DEF ShrinkToFit, Good, Ok
<1>3. CASE v.capacity # v.size /\ v.size * s < MinAlloc
  <2>1. v.size <= MinCapacity(s)
    BY <1>3, FitsMinCapacity
  <2>2. ShrinkToFit(v) = Realloc(v, MinCapacity(s))
    BY <1>3 DEF ShrinkToFit
  <2>3. /\ v.size <= MinCapacity(s) /\ MinCapacity(s) < Limit(s)
        /\ MinCapacity(s) >= MinCapacity(s)
    BY <1>1, <2>1
  <2> QED
    BY <1>1, <2>2, <2>3, ReallocGood DEF Good
<1>4. CASE v.capacity # v.size /\ ~ (v.size * s < MinAlloc)
  <2>1. MinCapacity(s) <= v.size
    BY <1>1, <1>4, MinCapacityLeast
  <2>2. /\ v.size <= v.size /\ v.size < Limit(s)
        /\ v.size >= MinCapacity(s)
    BY <1>1, <2>1
  <2>3. ShrinkToFit(v) = Realloc(v, v.size)
    BY <1>4 DEF ShrinkToFit
  <2> QED
    BY <1>1, <2>2, <2>3, ReallocGood DEF Good
<1> QED
  BY <1>2, <1>3, <1>4

LEMMA ClearGood ==
    ASSUME NEW v, Sound(v)
    PROVE  Good(v, Clear(v))
  BY SoundFields, RewriteSound DEF Clear, Good, Ok

LEMMA AssignGood ==
    ASSUME NEW v, Sound(v), NEW n \in Nat, NEW src \in Seq(Cell)
    PROVE  Good(v, Assign(v, src, n))
<1> SUFFICES ASSUME ~ (n >= Limit(v.objsize)), NEW g \in Grow(v, n), g.rc = "SCV_OK"
             PROVE  Sound(Rewritten(g.vec, n, Overwrite(g.vec.data, 0, src)))
  BY GrowGood DEF Assign, AfterGrow, Good, Ok, Failed
<1>1. Sound(g.vec) /\ n <= g.vec.capacity
  BY GrowGood
<1>2. Overwrite(g.vec.data, 0, src) \in [0 .. g.vec.capacity - 1 -> Cell]
  BY <1>1, SoundFields, OverwriteType
<1> QED
  BY <1>1, <1>2, RewriteSound

LEMMA ReplaceGood ==
    ASSUME NEW v, Sound(v), NEW i \in Nat, NEW j \in Nat,
           NEW n \in Nat, NEW src \in Seq(Cell)
    PROVE  Good(v, Replace(v, i, j, src, n))
<1> DEFINE newsize == v.size - (j - i) + n
           Moved(g) == [k \in DOMAIN g.data |->
                           IF k \in i + n .. newsize - 1
                           THEN g.data[k - n + (j - i)] ELSE g.data[k]]
<1>1. CASE i > j \/ j > v.size
  BY <1>1 DEF Replace, Good, Failed
<1>2. CASE ~ (i > j \/ j > v.size)
           /\ n >= Limit(v.objsize) - (v.size - (j - i))
  BY <1>2 DEF Replace, Good, Failed
<1>3. CASE ~ (i > j \/ j > v.size)
           /\ ~ (n >= Limit(v.objsize) - (v.size - (j - i)))
  <2>1. newsize \in Nat /\ i <= j /\ j <= v.size
    BY <1>3, SoundFields
  <2>2. ASSUME NEW g \in Grow(v, newsize), g.rc = "SCV_OK"
        PROVE  Sound(Rewritten(g.vec, newsize, Overwrite(Moved(g.vec), i, src)))
    <3>1. Sound(g.vec) /\ newsize <= g.vec.capacity /\ g.vec.size = v.size
      BY <2>1, <2>2, GrowGood
    <3>2. /\ g.vec.data \in [0 .. g.vec.capacity - 1 -> Cell]
          /\ g.vec.capacity \in Nat /\ v.size \in Nat /\ v.size <= g.vec.capacity
      BY <3>1, SoundFields
    <3>3. ASSUME NEW k \in 0 .. g.vec.capacity - 1, k \in i + n .. newsize - 1
          PROVE  k - n + (j - i) \in 0 .. g.vec.capacity - 1
      <4> DEFINE cap == g.vec.capacity
                 m   == v.size
      <4>1. /\ cap \in Nat /\ m \in Nat /\ m <= cap
            /\ k \in Nat /\ i + n <= k /\ k <= m - (j - i) + n - 1
        BY <3>2, <3>3, <2>1, SMTT(30)
      <4> HIDE DEF cap, m
      <4>2. k - n + (j - i) \in 0 .. cap - 1
        BY <4>1, <2>1
      <4> QED
        BY <4>2 DEF cap
    <3>4. Moved(g.vec) \in [0 .. g.vec.capacity - 1 -> Cell]
      BY <3>2, <3>3
    <3> HIDE DEF Moved, newsize
    <3>5. Overwrite(Moved(g.vec), i, src) \in [0 .. g.vec.capacity - 1 -> Cell]
      BY <3>2, <3>4, OverwriteType
    <3> QED
      BY <3>1, <3>5, <2>1, RewriteSound
  <2> DEFINE Out(g) == IF g.rc = "SCV_OK"
                       THEN Ok(Rewritten(g.vec, newsize, Overwrite(Moved(g.vec), i, src)))
                       ELSE g
  <2>3. Replace(v, i, j, src, n) = {Out(g) : g \in Grow(v, newsize)}
    BY <1>3 DEF Replace, AfterGrow
  <2> HIDE DEF newsize, Moved
  <2>4. ASSUME NEW g \in Grow(v, newsize)
        PROVE  Sound(Out(g).vec) /\ (Out(g).rc # "SCV_OK" => Out(g).vec = v)
    BY <2>1, <2>2, GrowGood DEF Ok
  <2> QED
    BY <2>3, <2>4 DEF Good
<1> QED
  BY <1>1, <1>2, <1>3

LEMMA PushBackGood ==
    ASSUME NEW v, Sound(v), NEW src \in Seq(Cell)
    PROVE  Good(v, PushBack(v, src))
<1>1. v.size + 1 \in Nat
  BY SoundFields
<1> SUFFICES ASSUME NEW g \in Grow(v, v.size + 1), g.rc = "SCV_OK"
             PROVE  Sound(Rewritten(g.vec, g.vec.size + 1,
                                    Overwrite(g.vec.data, g.vec.size, src)))
  BY <1>1, GrowGood DEF PushBack, AfterGrow, Good, Ok, Failed
<1>2. Sound(g.vec) /\ g.vec.size + 1 <= g.vec.capacity
  BY <1>1, GrowGood
<1>3. Overwrite(g.vec.data, g.vec.size, src) \in [0 .. g.vec.capacity - 1 -> Cell]
  BY <1>2, SoundFields, OverwriteType
<1>4. g.vec.size + 1 \in Nat
  BY <1>2, SoundFields
<1> QED
  BY <1>2, <1>3, <1>4, RewriteSound

LEMMA PopBackGood ==
    ASSUME NEW v, Sound(v)
    PROVE  Good(v, PopBack(v))
<1>1. CASE v.size = 0
  BY <1>1 DEF PopBack, Good, Failed
<1>2. CASE v.size # 0
  <2>1. v.size - 1 \in Nat /\ v.size - 1 <= v.capacity
    BY <1>2, SoundFields
  <2> QED
    BY <1>2, <2>1, SoundFields, RewriteSound DEF PopBack, Good, Ok
<1> QED
  BY <1>1, <1>2

LEMMA ResizeGood ==
    ASSUME NEW v, Sound(v), NEW n \in Nat
    PROVE  Good(v, Resize(v, n))
<1> SUFFICES ASSUME ~ (n >= Limit(v.objsize)), NEW g \in Grow(v, n), g.rc = "SCV_OK"
             PROVE  Sound(Rewritten(g.vec, n, g.vec.data))
  BY GrowGood DEF Resize, AfterGrow, Good, Ok, Failed
<1>1. Sound(g.vec) /\ n <= g.vec.capacity
  BY GrowGood
<1> QED
  BY <1>1, SoundFields, RewriteSound

LEMMA CopyGood ==
    ASSUME NEW v, Sound(v), NEW w, Sound(w)
    PROVE  Good(v, Copy(v, w))
<1>1. CASE v.objsize # w.objsize
  BY <1>1 DEF Copy, Good, Failed
<1>2. CASE v.objsize = w.objsize
  <2>1. w.size \in Nat /\ w.data \in [0 .. w.capacity - 1 -> Cell]
        /\ w.capacity \in Nat /\ w.size <= w.capacity
    BY SoundFields
  <2>2. \A k \in 1 .. w.size : w.data[k - 1] \in Cell
    BY <2>1
  <2>3. Elements(w) \in Seq(Cell)
    BY <2>1, <2>2 DEF Elements
  <2> QED
    BY <1>2, <2>1, <2>3, AssignGood DEF Copy
<1> QED
  BY <1>1, <1>2

-----------------------------------------------------------------------------
(* The program.                                                            *)

\* The inductive invariant: every live vector is sound.
IInv ==
    /\ vec = [x \in Names |-> vec[x]]
    /\ \A x \in Live : Sound(vec[x])

LEMMA SourcesType ==
    ASSUME NEW n \in Nat
    PROVE  Sources(n) \subseteq Seq(Cell)
<1>1. << >> \in Seq(Cell)
  OBVIOUS
<1>2. ASSUME NEW src \in [1 .. n -> Values]
      PROVE  src \in Seq(Cell)
  <2>1. src \in [1 .. n -> Cell]
    BY DEF Cell
  <2> QED
    BY <2>1
<1> QED
  BY <1>1, <1>2 DEF Sources

\* A call with good outcomes keeps the invariant, and an error keeps the vectors.
LEMMA ReturnStep ==
    ASSUME IInv, NEW x \in Live, NEW call, NEW S, Good(vec[x], S),
           Return(x, call, S)
    PROVE  IInv' /\ (out'.rc # "SCV_OK" => UNCHANGED vec)
<1>1. PICK o \in S : /\ vec' = [vec EXCEPT ![x] = o.vec]
                     /\ out' = [call |-> call, rc |-> o.rc]
  BY DEF Return
<1>2. Sound(o.vec) /\ (o.rc # "SCV_OK" => o.vec = vec[x])
  BY DEF Good
<1>3. /\ vec' = [y \in Names |-> vec'[y]]
      /\ \A y \in Names : vec'[y] = IF y = x THEN o.vec ELSE vec[y]
      /\ x \in Names
  BY <1>1 DEF IInv, Live
<1>4. \A y \in Live' : Sound(vec'[y])
  BY <1>2, <1>3 DEF IInv, Live
<1>5. out'.rc # "SCV_OK" => UNCHANGED vec
  BY <1>1, <1>2, <1>3 DEF IInv
<1> QED
  BY <1>3, <1>4, <1>5 DEF IInv, Sound, IsVector

LEMMA StepPreserves ==
    ASSUME IInv, Next
    PROVE  IInv' /\ (out'.rc # "SCV_OK" => UNCHANGED vec)
<1> DEFINE Goal == IInv' /\ (out'.rc # "SCV_OK" => UNCHANGED vec)
<1>1. ASSUME NEW x \in Names, scv_new(x)
      PROVE  Goal
  <2>1. PICK s \in ObjSizes, n \in 0 .. MaxRequest :
            \/ UNCHANGED vec /\ out'.rc = "NULL"
            \/ /\ ~ NewRefused(s, n) /\ out'.rc = "SCV_OK"
               /\ vec' = [vec EXCEPT ![x] = NewVector(s, n)]
    BY <1>1 DEF scv_new
  <2>2. CASE UNCHANGED vec
    BY <2>2 DEF IInv, Live
  <2>3. CASE /\ ~ NewRefused(s, n) /\ out'.rc = "SCV_OK"
             /\ vec' = [vec EXCEPT ![x] = NewVector(s, n)]
    <3>1. Sound(NewVector(s, n))
      BY <2>3, NewSound, CallerAssumption
    <3> QED
      BY <2>3, <3>1 DEF IInv, Live
  <2> QED
    BY <2>1, <2>2, <2>3
<1>2. ASSUME NEW x \in Live, scv_delete(x)
      PROVE  Goal
  BY <1>2 DEF scv_delete, IInv, Live
<1>3. ASSUME NEW x \in Live,
             \/ scv_reserve(x) \/ scv_shrink_to_fit(x) \/ scv_clear(x)
             \/ scv_assign(x) \/ scv_insert(x) \/ scv_erase(x) \/ scv_replace(x)
             \/ scv_push_back(x) \/ scv_pop_back(x) \/ scv_pop_front(x)
             \/ scv_resize(x)
      PROVE  Goal
  <2>1. Sound(vec[x])
    BY DEF IInv
  <2>2. 0 .. MaxRequest \subseteq Nat /\ << >> \in Seq(Cell)
    BY CallerAssumption
  <2>3. CASE scv_reserve(x)
    BY <2>1, <2>2, <2>3, ReserveGood, ReturnStep DEF scv_reserve
  <2>4. CASE scv_shrink_to_fit(x)
    BY <2>1, <2>4, ShrinkToFitGood, ReturnStep DEF scv_shrink_to_fit
  <2>5. CASE scv_clear(x)
    BY <2>1, <2>5, ClearGood, ReturnStep DEF scv_clear
  <2>6. CASE scv_assign(x)
    BY <2>1, <2>2, <2>6, AssignGood, SourcesType, ReturnStep DEF scv_assign
  <2>7. CASE scv_insert(x)
    BY <2>1, <2>2, <2>7, ReplaceGood, SourcesType, ReturnStep DEF scv_insert, Insert
  <2>8. CASE scv_erase(x)
    BY <2>1, <2>2, <2>8, ReplaceGood, ReturnStep DEF scv_erase, Erase
  <2>9. CASE scv_replace(x)
    BY <2>1, <2>2, <2>9, ReplaceGood, SourcesType, ReturnStep DEF scv_replace
  <2>10. CASE scv_push_back(x)
    BY <2>1, <2>10, PushBackGood, SourcesType, ReturnStep DEF scv_push_back
  <2>11. CASE scv_pop_back(x)
    BY <2>1, <2>11, PopBackGood, ReturnStep DEF scv_pop_back
  <2>12. CASE scv_pop_front(x)
    BY <2>1, <2>2, <2>12, ReplaceGood, ReturnStep DEF scv_pop_front, PopFront, Erase
  <2>13. CASE scv_resize(x)
    BY <2>1, <2>2, <2>13, ResizeGood, ReturnStep DEF scv_resize
  <2> QED
    BY <1>3, <2>3, <2>4, <2>5, <2>6, <2>7, <2>8, <2>9, <2>10, <2>11, <2>12, <2>13
<1>4. ASSUME NEW x \in Live, NEW y \in Live, scv_copy(x, y)
      PROVE  Goal
  <2> DEFINE S == IF x = y THEN {Failed("SCV_EINVAL", vec[x])} ELSE Copy(vec[x], vec[y])
  <2>1. Sound(vec[x]) /\ Sound(vec[y])
    BY DEF IInv
  <2>2. Good(vec[x], S)
    BY <2>1, CopyGood DEF Good, Failed
  <2> QED
    BY <1>4, <2>2, ReturnStep DEF scv_copy
<1>5. ASSUME NEW x \in Live, NEW y \in Live, scv_swap(x, y)
      PROVE  Goal
  BY <1>5 DEF scv_swap, IInv, Live
<1> QED
  BY <1>1, <1>2, <1>3, <1>4, <1>5 DEF Next

\* The invariant holds in every reachable state.
THEOREM Invariance == Spec => []IInv
<1>1. Init => IInv
  BY DEF Init, IInv, Live
<1>2. IInv /\ [Next]_vars => IInv'
  <2> SUFFICES ASSUME IInv, [Next]_vars PROVE IInv'
    OBVIOUS
  <2>1. CASE Next
    BY <2>1, StepPreserves
  <2>2. CASE UNCHANGED vars
    BY <2>2 DEF vars, IInv, Live
  <2> QED
    BY <2>1, <2>2
<1> QED
  BY <1>1, <1>2, PTL DEF Spec

\* Every vector of every run of the library is a vector: its elements lie inside
\* its allocation.
THEOREM TypeCorrect == Spec => []TypeOK
<1>1. IInv => TypeOK
  BY DEF IInv, TypeOK, Sound
<1> QED
  BY <1>1, Invariance, PTL

\* No allocation of the library overflows size_t or falls below SCV_MIN_ALLOC.
THEOREM AllocationsInRange == Spec => []AllocationInRange
<1>1. IInv => AllocationInRange
  BY DEF IInv, AllocationInRange, Sound
<1> QED
  BY <1>1, Invariance, PTL

\* A library call that reports an error has changed no vector.
THEOREM ErrorsAreAtomic == Spec => FailedCallChangesNothing
<1>1. IInv /\ [Next]_vars => [out'.rc # "SCV_OK" => UNCHANGED vec]_vars
  BY StepPreserves DEF vars
<1> QED
  BY <1>1, Invariance, PTL DEF Spec, FailedCallChangesNothing

-----------------------------------------------------------------------------
(* ImplementsSequence: every operation is a splice of the sequence that the *)
(* vector shows, and the vector shows what its cells below size hold.      *)

\* The cells of w are those of v with i .. j - 1 replaced by n new ones: those of src,
\* or anything when src is the NULL pointer.
CellsSpliced(v, w, i, j, src, n) ==
    /\ w.objsize = v.objsize /\ w.size = v.size - (j - i) + n
    /\ \A k \in 0 .. i - 1 : w.data[k] = v.data[k]
    /\ \A k \in i + n .. w.size - 1 : w.data[k] = v.data[k - n + (j - i)]
    /\ src # << >> => \A k \in 1 .. n : w.data[i + k - 1] = src[k]

SpliceRefused(v, i, j, n) ==
    i > j \/ j > v.size \/ v.size - (j - i) + n >= Limit(v.objsize)

\* What scv.h allows to come of a call that splices.
SpliceOutcome(v, o, i, j, src, n) ==
    \/ SpliceRefused(v, i, j, n) /\ o.rc = "SCV_ERANGE" /\ o.vec = v
    \/ /\ ~ SpliceRefused(v, i, j, n) /\ v.size - (j - i) + n > v.size
       /\ o.rc = "SCV_ENOMEM" /\ o.vec = v
    \/ /\ ~ SpliceRefused(v, i, j, n) /\ o.rc = "SCV_OK"
       /\ CellsSpliced(v, o.vec, i, j, src, n)

\* Realloc and Grow keep the elements, and what Grow refuses is out of range or out of
\* memory.
LEMMA ReallocShows ==
    ASSUME NEW v, Sound(v), NEW n \in Nat, v.size <= n
    PROVE  \A o \in Realloc(v, n) :
              /\ o.rc \in {"SCV_OK", "SCV_ENOMEM"}
              /\ o.rc = "SCV_OK" =>
                    /\ o.vec.objsize = v.objsize /\ o.vec.size = v.size
                    /\ \A k \in 0 .. v.size - 1 : o.vec.data[k] = v.data[k]
<1>1. v.size \in Nat /\ v.capacity \in Nat /\ v.size <= v.capacity
  BY SoundFields
<1> DEFINE d == [k \in 0 .. n - 1 |-> IF k < v.capacity THEN v.data[k] ELSE Junk]
<1>2. \A k \in 0 .. v.size - 1 : d[k] = v.data[k]
  BY <1>1
<1>3. Realloc(v, n) = {Ok(Vec(v.objsize, v.size, n, d)), Failed("SCV_ENOMEM", v)}
  BY DEF Realloc
<1> HIDE DEF d
<1> QED
  BY <1>2, <1>3 DEF Ok, Failed, Vec

LEMMA GrowShows ==
    ASSUME NEW v, Sound(v), NEW n \in Nat
    PROVE  \A o \in Grow(v, n) :
              \/ o.rc = "SCV_ERANGE" /\ n >= Limit(v.objsize) /\ o.vec = v
              \/ /\ o.rc = "SCV_ENOMEM" /\ n < Limit(v.objsize) /\ n > v.size
                 /\ o.vec = v
              \/ /\ o.rc = "SCV_OK" /\ n < Limit(v.objsize)
                 /\ o.vec.objsize = v.objsize /\ o.vec.size = v.size
                 /\ \A k \in 0 .. v.size - 1 : o.vec.data[k] = v.data[k]
<1>1. /\ v.size \in Nat /\ v.capacity \in Nat /\ v.size <= v.capacity
      /\ Limit(v.objsize) \in Nat /\ v.capacity < Limit(v.objsize)
  BY SoundFields
<1>2. CASE n <= v.capacity
  BY <1>1, <1>2 DEF Grow, Ok
<1>3. CASE n > v.capacity /\ n >= Limit(v.objsize)
  BY <1>1, <1>3 DEF Grow, Failed
<1>4. CASE n > v.capacity /\ n < Limit(v.objsize)
  <2>1. PICK m \in Nat : m = GrownCapacity(v, n) /\ n <= m
    BY <1>4, GrownCapacityInRange
  <2>2. Grow(v, n) = Realloc(v, m)
    BY <1>1, <1>4, <2>1 DEF Grow
  <2>3. v.size <= m
    BY <1>1, <1>4, <2>1
  <2>4. ASSUME NEW o \in Grow(v, n) PROVE o.rc # "SCV_OK" => o.vec = v
    BY GrowGood
  <2> QED
    BY <1>1, <1>4, <2>2, <2>3, <2>4, ReallocShows
<1> QED
  BY <1>1, <1>2, <1>3, <1>4

LEMMA OverwriteShows ==
    ASSUME NEW n \in Nat, NEW data \in [0 .. n - 1 -> Cell], NEW i \in Nat,
           NEW src \in Seq(Cell), NEW k \in 0 .. n - 1
    PROVE  /\ k \notin i .. i + Len(src) - 1 => Overwrite(data, i, src)[k] = data[k]
           /\ k \in i .. i + Len(src) - 1 => Overwrite(data, i, src)[k] = src[k - i + 1]
  BY DEF Overwrite

-----------------------------------------------------------------------------
(* One lemma per operation: what comes of it is a splice.                  *)

LEMMA ClearSplices ==
    ASSUME NEW v, Sound(v), NEW o \in Clear(v)
    PROVE  SpliceOutcome(v, o, 0, v.size, << >>, 0)
<1>1. v.size \in Nat /\ Limit(v.objsize) \in Nat /\ 0 < Limit(v.objsize)
  BY SoundFields
<1>2. o = Ok(Rewritten(v, 0, v.data))
  BY DEF Clear
<1> QED
  BY <1>1, <1>2 DEF Ok, Rewritten, Vec, SpliceOutcome, SpliceRefused, CellsSpliced

LEMMA PopBackSplices ==
    ASSUME NEW v, Sound(v), v.size # 0, NEW o \in PopBack(v)
    PROVE  SpliceOutcome(v, o, v.size - 1, v.size, << >>, 0)
<1>1. v.size \in Nat /\ Limit(v.objsize) \in Nat /\ v.size - 1 < Limit(v.objsize)
  BY SoundFields
<1>2. o = Ok(Rewritten(v, v.size - 1, v.data))
  BY DEF PopBack
<1> QED
  BY <1>1, <1>2 DEF Ok, Rewritten, Vec, SpliceOutcome, SpliceRefused, CellsSpliced

LEMMA ResizeSplices ==
    ASSUME NEW v, Sound(v), NEW n \in Nat, NEW o \in Resize(v, n)
    PROVE  /\ n < v.size => SpliceOutcome(v, o, n, v.size, << >>, 0)
           /\ n >= v.size => SpliceOutcome(v, o, v.size, v.size, << >>, n - v.size)
<1>1. v.size \in Nat /\ Limit(v.objsize) \in Nat /\ v.size < Limit(v.objsize)
  BY SoundFields
<1>2. CASE n >= Limit(v.objsize)
  BY <1>1, <1>2 DEF Resize, Failed, SpliceOutcome, SpliceRefused
<1>3. CASE n < Limit(v.objsize)
  <2>1. PICK g \in Grow(v, n) :
             o = IF g.rc = "SCV_OK" THEN Ok(Rewritten(g.vec, n, g.vec.data)) ELSE g
    BY <1>1, <1>3 DEF Resize, AfterGrow
  <2> QED
    BY <1>1, <1>3, <2>1, GrowShows
       DEF Ok, Rewritten, Vec, SpliceOutcome, SpliceRefused, CellsSpliced
<1> QED
  BY <1>1, <1>2, <1>3

LEMMA AssignSplices ==
    ASSUME NEW v, Sound(v), NEW n \in Nat, NEW src \in Seq(Cell),
           src = << >> \/ Len(src) = n, NEW o \in Assign(v, src, n)
    PROVE  SpliceOutcome(v, o, 0, v.size, src, n)
<1>1. v.size \in Nat /\ Limit(v.objsize) \in Nat /\ v.size - (v.size - 0) + n = n
  BY SoundFields
<1>2. CASE n >= Limit(v.objsize)
  BY <1>1, <1>2 DEF Assign, Failed, SpliceOutcome, SpliceRefused
<1>3. CASE n < Limit(v.objsize)
  <2>1. PICK g \in Grow(v, n) :
             o = IF g.rc = "SCV_OK"
                 THEN Ok(Rewritten(g.vec, n, Overwrite(g.vec.data, 0, src))) ELSE g
    BY <1>1, <1>3 DEF Assign, AfterGrow
  <2>2. CASE g.rc # "SCV_OK"
    BY <1>1, <1>3, <2>1, <2>2, GrowShows DEF SpliceOutcome, SpliceRefused
  <2>3. CASE g.rc = "SCV_OK"
    <3>1. /\ Sound(g.vec) /\ n <= g.vec.capacity /\ g.vec.capacity \in Nat
          /\ g.vec.data \in [0 .. g.vec.capacity - 1 -> Cell]
          /\ g.vec.objsize = v.objsize
      BY <2>3, GrowGood, SoundFields
    <3>2. PICK d : d = Overwrite(g.vec.data, 0, src)
      OBVIOUS
    <3>3. o.rc = "SCV_OK" /\ o.vec = Vec(v.objsize, n, g.vec.capacity, d)
      BY <2>1, <2>3, <3>1, <3>2 DEF Ok, Rewritten
    <3>4. src # << >> => \A k \in 1 .. n : d[0 + k - 1] = src[k]
      <4> SUFFICES ASSUME src # << >>, NEW k \in 1 .. n PROVE d[0 + k - 1] = src[k]
        OBVIOUS
      <4>1. PICK j \in Nat : j = k - 1 /\ j = 0 + k - 1 /\ j - 0 + 1 = k
        OBVIOUS
      <4>2. j \in 0 .. 0 + Len(src) - 1 /\ j \in 0 .. g.vec.capacity - 1
        BY <3>1, <4>1
      <4>3. d[j] = src[j - 0 + 1]
        BY <3>1, <3>2, <4>1, <4>2 DEF Overwrite
      <4> QED
        BY <4>1, <4>3
    <3> QED
      BY <1>1, <1>3, <3>3, <3>4 DEF Vec, SpliceOutcome, SpliceRefused, CellsSpliced
  <2> QED
    BY <2>2, <2>3
<1> QED
  BY <1>1, <1>2, <1>3

LEMMA PushBackSplices ==
    ASSUME NEW v, Sound(v), NEW src \in Seq(Cell), src = << >> \/ Len(src) = 1,
           NEW o \in PushBack(v, src)
    PROVE  SpliceOutcome(v, o, v.size, v.size, src, 1)
<1>1. PICK m \in Nat : /\ m = v.size /\ Limit(v.objsize) \in Nat
                       /\ m - (m - m) + 1 = m + 1 /\ m + 1 \in Nat
  BY SoundFields
<1>2. PICK g \in Grow(v, m + 1) :
           o = IF g.rc = "SCV_OK"
               THEN Ok(Rewritten(g.vec, g.vec.size + 1,
                                 Overwrite(g.vec.data, g.vec.size, src))) ELSE g
  BY <1>1 DEF PushBack, AfterGrow
<1>3. PICK l \in Nat : l = Limit(v.objsize)
  BY <1>1
<1>4. SpliceRefused(v, m, m, 1) <=> m + 1 >= l
  <2>1. SpliceRefused(v, m, m, 1) <=> m > m \/ m > m \/ m - (m - m) + 1 >= l
    BY ONLY <1>1, <1>3 DEF SpliceRefused
  <2>2. ~ (m > m)
    BY ONLY m \in Nat
  <2>3. m - (m - m) + 1 = m + 1
    BY ONLY m \in Nat
  <2> QED
    BY <2>1, <2>2, <2>3
<1> DEFINE Shows(q) ==
              \/ q.rc = "SCV_ERANGE" /\ m + 1 >= Limit(v.objsize) /\ q.vec = v
              \/ /\ q.rc = "SCV_ENOMEM" /\ m + 1 < Limit(v.objsize) /\ m + 1 > m
                 /\ q.vec = v
              \/ /\ q.rc = "SCV_OK" /\ m + 1 < Limit(v.objsize)
                 /\ q.vec.objsize = v.objsize /\ q.vec.size = m
                 /\ \A k \in 0 .. m - 1 : q.vec.data[k] = v.data[k]
<1>5. Shows(g)
  BY <1>1, GrowShows, ZenonT(60)
<1>6. CASE g.rc # "SCV_OK"
  <2>1. o = g /\ o.vec = v /\ m + 1 > m
    BY <1>2, <1>5, <1>6
  <2>2. CASE o.rc = "SCV_ERANGE" /\ m + 1 >= Limit(v.objsize)
    BY <1>1, <1>3, <1>4, <2>1, <2>2 DEF SpliceOutcome
  <2>3. CASE o.rc = "SCV_ENOMEM" /\ m + 1 < Limit(v.objsize)
    BY <1>1, <1>3, <1>4, <2>1, <2>3 DEF SpliceOutcome
  <2> QED
    BY <1>5, <1>6, <2>1, <2>2, <2>3
<1>7. CASE g.rc = "SCV_OK"
  <2>1. /\ Sound(g.vec) /\ m + 1 <= g.vec.capacity /\ g.vec.capacity \in Nat
        /\ g.vec.data \in [0 .. g.vec.capacity - 1 -> Cell]
        /\ g.vec.objsize = v.objsize /\ g.vec.size = m
    <3>1. Sound(g.vec) /\ m + 1 <= g.vec.capacity
      BY <1>1, <1>7, GrowGood
    <3> QED
      BY <1>5, <1>7, <3>1, SoundFields
  <2>2. PICK d : d = Overwrite(g.vec.data, m, src)
    OBVIOUS
  <2>3. o.rc = "SCV_OK" /\ o.vec = Vec(v.objsize, m + 1, g.vec.capacity, d)
    BY <1>2, <1>7, <2>1, <2>2 DEF Ok, Rewritten
  <2>4. \A k \in 0 .. m - 1 : d[k] = v.data[k]
    <3> SUFFICES ASSUME NEW k \in 0 .. m - 1 PROVE d[k] = v.data[k]
      OBVIOUS
    <3>1. k \in 0 .. g.vec.capacity - 1 /\ k \notin m .. m + Len(src) - 1
      BY <2>1
    <3>2. d[k] = g.vec.data[k]
      BY <2>1, <2>2, <3>1 DEF Overwrite
    <3> QED
      BY <1>5, <1>7, <3>2
  <2>5. src # << >> => \A k \in 1 .. 1 : d[m + k - 1] = src[k]
    <3> SUFFICES ASSUME src # << >> PROVE d[m] = src[1]
      OBVIOUS
    <3>1. m \in 0 .. g.vec.capacity - 1 /\ m \in m .. m + Len(src) - 1 /\ m - m + 1 = 1
      BY <2>1
    <3>2. d[m] = src[m - m + 1]
      BY <2>1, <2>2, <3>1 DEF Overwrite
    <3> QED
      BY <3>1, <3>2
  <2>6. m + 1 < Limit(v.objsize)
    BY <1>5, <1>7
  <2>7. o.vec.objsize = v.objsize /\ o.vec.size = m + 1 /\ o.vec.data = d
    BY <2>3 DEF Vec
  <2>8. CellsSpliced(v, o.vec, m, m, src, 1)
    BY <1>1, <2>4, <2>5, <2>7 DEF CellsSpliced
  <2>9. ~ SpliceRefused(v, m, m, 1)
    BY <1>1, <1>3, <1>4, <2>6
  <2> QED
    BY <1>1, <2>3, <2>8, <2>9 DEF SpliceOutcome
<1> QED
  BY <1>6, <1>7

LEMMA ReplaceSplices ==
    ASSUME NEW v, Sound(v), NEW i \in Nat, NEW j \in Nat, NEW n \in Nat,
           NEW src \in Seq(Cell), src = << >> \/ Len(src) = n,
           NEW o \in Replace(v, i, j, src, n)
    PROVE  SpliceOutcome(v, o, i, j, src, n)
<1>1. PICK m \in Nat, l \in Nat, new \in Int :
           m = v.size /\ l = Limit(v.objsize) /\ new = m - (j - i) + n
  BY SoundFields
<1>2. n >= l - (m - (j - i)) <=> new >= l
  BY <1>1, SMTT(30)
<1>3. SpliceRefused(v, i, j, n) <=> i > j \/ j > m \/ new >= l
  BY <1>1 DEF SpliceRefused
<1>4. CASE i > j \/ j > m \/ n >= l - (m - (j - i))
  <2>1. o = Failed("SCV_ERANGE", v)
    BY <1>1, <1>4 DEF Replace
  <2> QED
    BY <1>2, <1>3, <1>4, <2>1 DEF SpliceOutcome, Failed
<1>5. CASE ~ (i > j \/ j > m \/ n >= l - (m - (j - i)))
  <2>1. i <= j /\ j <= m /\ new \in Nat /\ new < l /\ ~ SpliceRefused(v, i, j, n)
    BY <1>1, <1>2, <1>3, <1>5, SMTT(30)
  <2> DEFINE Moved(g) == [k \in DOMAIN g.data |->
                             IF k \in i + n .. new - 1
                             THEN g.data[k - n + (j - i)] ELSE g.data[k]]
  <2>2. PICK g \in Grow(v, new) :
             o = IF g.rc = "SCV_OK"
                 THEN Ok(Rewritten(g.vec, new, Overwrite(Moved(g.vec), i, src))) ELSE g
    BY <1>1, <1>5 DEF Replace, AfterGrow
  <2>3. CASE g.rc # "SCV_OK"
    <3>1. o.vec = v /\ o.rc = "SCV_ENOMEM" /\ new > m
      BY <1>1, <2>1, <2>2, <2>3, GrowShows
    <3> QED
      BY <1>1, <2>1, <3>1 DEF SpliceOutcome
  <2>4. CASE g.rc = "SCV_OK"
    <3>1. Sound(g.vec) /\ new <= g.vec.capacity /\ g.vec.objsize = v.objsize
      BY <2>1, <2>4, GrowGood
    <3>2. /\ g.vec.data \in [0 .. g.vec.capacity - 1 -> Cell] /\ g.vec.capacity \in Nat
          /\ m <= g.vec.capacity
      <4>1. g.vec.size = m
        BY <1>1, <2>1, <2>4, GrowGood
      <4> QED
        BY <3>1, <4>1, SoundFields
    <3>3. \A k \in 0 .. m - 1 : g.vec.data[k] = v.data[k]
      BY <1>1, <2>1, <2>4, GrowShows
    <3>4. PICK c \in Nat, old \in {g.vec.data} : c = g.vec.capacity /\ old = g.vec.data
      BY <3>2
    <3>5. PICK mid : mid = [k \in 0 .. c - 1 |->
                               IF k \in i + n .. new - 1 THEN old[k - n + (j - i)]
                               ELSE old[k]]
      OBVIOUS
    <3>6. PICK d : d = [k \in 0 .. c - 1 |->
                           IF k \in i .. i + Len(src) - 1 THEN src[k - i + 1] ELSE mid[k]]
      OBVIOUS
    <3>7. DOMAIN g.vec.data = 0 .. c - 1
      BY <3>2, <3>4
    <3>8. Moved(g.vec) = mid
      BY <3>4, <3>5, <3>7
    <3>9. Overwrite(mid, i, src) = d
      BY <3>5, <3>6 DEF Overwrite
    <3>10. o.rc = "SCV_OK" /\ o.vec = Vec(v.objsize, new, c, d)
      <4> HIDE DEF Moved
      <4> QED
        BY <2>2, <2>4, <3>1, <3>4, <3>8, <3>9 DEF Ok, Rewritten
    <3>11. o.vec.objsize = v.objsize /\ o.vec.size = new /\ o.vec.data = d
      BY <3>10 DEF Vec
    <3>12. Len(src) \in Nat /\ Len(src) <= n /\ (src # << >> => Len(src) = n)
      OBVIOUS
    <3>13. ASSUME NEW k \in 0 .. i - 1 PROVE d[k] = v.data[k]
      <4>1. /\ k \in 0 .. c - 1 /\ k \notin i .. i + Len(src) - 1
            /\ k \notin i + n .. new - 1 /\ k \in 0 .. m - 1
        BY <2>1, <3>2, <3>4, <3>12
      <4> QED
        BY <3>3, <3>4, <3>5, <3>6, <4>1
    <3>14. ASSUME NEW k \in i + n .. new - 1 PROVE d[k] = v.data[k - n + (j - i)]
      <4>1. PICK h \in Int : h = k - n + (j - i)
        OBVIOUS
      <4>2. new <= c /\ new = m - (j - i) + n
        BY <1>1, <3>1, <3>4
      <4>3. k \in 0 .. c - 1 /\ k \notin i .. i + Len(src) - 1 /\ h \in 0 .. m - 1
        BY <2>1, <3>12, <4>1, <4>2
      <4>4. d[k] = old[h]
        BY <3>5, <3>6, <4>1, <4>3
      <4> QED
        BY <3>3, <3>4, <4>1, <4>3, <4>4
    <3>15. ASSUME src # << >>, NEW k \in 1 .. n PROVE d[i + k - 1] = src[k]
      <4>1. PICK h \in Int : h = i + k - 1
        OBVIOUS
      <4>2. new <= c /\ new = m - (j - i) + n
        BY <1>1, <3>1, <3>4
      <4>3. h \in 0 .. c - 1 /\ h \in i .. i + Len(src) - 1 /\ h - i + 1 = k
        BY <2>1, <3>12, <3>15, <4>1, <4>2
      <4> QED
        BY <3>6, <4>1, <4>3
    <3>16. CellsSpliced(v, o.vec, i, j, src, n)
      BY <1>1, <3>11, <3>13, <3>14, <3>15 DEF CellsSpliced
    <3> QED
      BY <2>1, <3>10, <3>16 DEF SpliceOutcome
  <2> QED
    BY <2>3, <2>4
<1> QED
  BY <1>4, <1>5

-----------------------------------------------------------------------------
(* From the cells to the sequence that is shown.                           *)

LEMMA ElementsFacts ==
    ASSUME NEW v, Sound(v)
    PROVE  /\ Elements(v) \in Seq(Cell) /\ Len(Elements(v)) = v.size
           /\ \A k \in 1 .. v.size : Elements(v)[k] = v.data[k - 1]
<1>1. PICK m \in Nat, c \in Nat, d \in {v.data} :
           /\ m = v.size /\ c = v.capacity /\ d = v.data /\ m <= c
           /\ d \in [0 .. c - 1 -> Cell]
  BY SoundFields
<1>2. PICK e : e = [k \in 1 .. m |-> d[k - 1]]
  OBVIOUS
<1>3. e \in [1 .. m -> Cell] /\ \A k \in 1 .. m : e[k] = d[k - 1]
  <2>1. \A k \in 1 .. m : k - 1 \in 0 .. c - 1
    BY <1>1
  <2>2. \A k \in 1 .. m : d[k - 1] \in Cell
    BY <1>1, <2>1
  <2> QED
    BY <1>2, <2>2
<1>4. e = Elements(v)
  BY <1>1, <1>2 DEF Elements
<1>5. e \in Seq(Cell) /\ Len(e) = m
  BY ONLY <1>3
<1> QED
  BY <1>1, <1>3, <1>4, <1>5

\* What the parts of a sequence hold.
LEMMA MiddleFacts ==
    ASSUME NEW S, NEW t \in Seq(S), NEW i \in Nat, NEW n \in Nat, i + n <= Len(t)
    PROVE  /\ SubSeq(t, i + 1, i + n) \in Seq(S)
           /\ Len(SubSeq(t, i + 1, i + n)) = n
           /\ \A k \in 1 .. n : SubSeq(t, i + 1, i + n)[k] = t[i + k]
<1>1. PICK l \in Nat, a \in Nat, b \in Nat :
           /\ l = Len(t) /\ a = i + 1 /\ b = i + n /\ b - a + 1 = n
           /\ a \in 1 .. l + 1 /\ b \in a - 1 .. l
  OBVIOUS
<1>2. PICK x : x = SubSeq(t, a, b)
  OBVIOUS
<1>3. x = [k \in 1 .. n |-> t[a + k - 1]]
  BY <1>1, <1>2
<1>4. \A k \in 1 .. n : t[a + k - 1] \in S /\ a + k - 1 = i + k
  BY <1>1
<1>5. x \in [1 .. n -> S]
  BY <1>3, <1>4
<1>6. x \in Seq(S) /\ Len(x) = n
  BY ONLY <1>5, n \in Nat
<1> QED
  BY <1>1, <1>2, <1>3, <1>4, <1>6

LEMMA PrefixFacts ==
    ASSUME NEW S, NEW t \in Seq(S), NEW i \in Nat, i <= Len(t)
    PROVE  /\ SubSeq(t, 1, i) \in Seq(S) /\ Len(SubSeq(t, 1, i)) = i
           /\ \A k \in 1 .. i : SubSeq(t, 1, i)[k] = t[k]
<1>1. 0 + 1 = 1 /\ 0 + i = i /\ \A k \in 1 .. i : 0 + k = k
  OBVIOUS
<1> QED
  BY <1>1, MiddleFacts

LEMMA SuffixFacts ==
    ASSUME NEW S, NEW t \in Seq(S), NEW i \in Nat, NEW l \in Nat, l = Len(t), i <= l
    PROVE  /\ SubSeq(t, i + 1, l) \in Seq(S) /\ Len(SubSeq(t, i + 1, l)) = l - i
           /\ \A k \in 1 .. l - i : SubSeq(t, i + 1, l)[k] = t[i + k]
<1>1. PICK n \in Nat : n = l - i /\ i + n = l
  <2>1. l - i \in Nat /\ i + (l - i) = l
    BY ONLY i \in Nat, l \in Nat, i <= l
  <2> QED
    BY <2>1
<1>2. /\ SubSeq(t, i + 1, i + n) \in Seq(S) /\ Len(SubSeq(t, i + 1, i + n)) = n
      /\ \A k \in 1 .. n : SubSeq(t, i + 1, i + n)[k] = t[i + k]
  BY <1>1, MiddleFacts
<1> QED
  BY <1>1, <1>2

\* Sequences that agree at the right places are a splice of each other.
LEMMA SplicedByPlaces ==
    ASSUME NEW S, NEW s \in Seq(S), NEW t \in Seq(S), NEW src \in Seq(S),
           NEW i \in Nat, NEW j \in Nat, NEW n \in Nat, i <= j, j <= Len(s),
           src = << >> \/ Len(src) = n,
           Len(t) = Len(s) - (j - i) + n,
           \A k \in 1 .. i : t[k] = s[k],
           \A k \in i + n + 1 .. Len(t) : t[k] = s[k - n + (j - i)],
           src # << >> => \A k \in 1 .. n : t[i + k] = src[k]
    PROVE  Sequence!Spliced(s, t, i, j, src, n)
<1>1. PICK m \in Nat, l \in Nat : m = Len(s) /\ l = Len(t) /\ l = m - (j - i) + n
  OBVIOUS
<1>2. i + n <= l /\ i <= m
  BY <1>1
<1>3. SubSeq(t, 1, i) = SubSeq(s, 1, i)
  <2>1. /\ SubSeq(t, 1, i) \in Seq(S) /\ Len(SubSeq(t, 1, i)) = i
        /\ \A k \in 1 .. i : SubSeq(t, 1, i)[k] = t[k]
    BY <1>1, <1>2, PrefixFacts
  <2>2. /\ SubSeq(s, 1, i) \in Seq(S) /\ Len(SubSeq(s, 1, i)) = i
        /\ \A k \in 1 .. i : SubSeq(s, 1, i)[k] = s[k]
    BY <1>1, <1>2, PrefixFacts
  <2> QED
    BY <2>1, <2>2, SeqEqual
<1>4. SubSeq(t, i + n + 1, Len(t)) = SubSeq(s, j + 1, Len(s))
  <2>1. PICK a \in Nat, r \in Nat : /\ a = i + n /\ a <= l /\ r = l - a
                                   /\ r = m - j /\ j <= m
    <3>1. i + n \in Nat /\ j <= m /\ m - j \in Nat /\ l - (i + n) = m - j
      BY ONLY <1>1, i \in Nat, j \in Nat, n \in Nat, i <= j, j <= Len(s)
    <3> QED
      BY <1>2, <3>1
  <2>2. PICK x : x = SubSeq(t, a + 1, l)
    OBVIOUS
  <2>3. x \in Seq(S) /\ Len(x) = r /\ \A k \in 1 .. r : x[k] = t[a + k]
    <3>1. /\ SubSeq(t, a + 1, l) \in Seq(S) /\ Len(SubSeq(t, a + 1, l)) = l - a
          /\ \A k \in 1 .. l - a : SubSeq(t, a + 1, l)[k] = t[a + k]
      <4>1. a <= l /\ l = Len(t)
        BY <1>1, <2>1
      <4> QED
        BY ONLY <4>1, t \in Seq(S), a \in Nat, l \in Nat, SuffixFacts
    <3> QED
      BY ONLY <2>1, <2>2, <3>1
  <2>4. PICK y : y = SubSeq(s, j + 1, m)
    OBVIOUS
  <2>5. y \in Seq(S) /\ Len(y) = r /\ \A k \in 1 .. r : y[k] = s[j + k]
    <3>1. /\ SubSeq(s, j + 1, m) \in Seq(S) /\ Len(SubSeq(s, j + 1, m)) = m - j
          /\ \A k \in 1 .. m - j : SubSeq(s, j + 1, m)[k] = s[j + k]
      <4>1. j <= m /\ m = Len(s)
        BY <1>1, <2>1
      <4> QED
        BY ONLY <4>1, s \in Seq(S), j \in Nat, m \in Nat, SuffixFacts, SMTT(30)
    <3> QED
      BY ONLY <2>1, <2>4, <3>1
  <2>6. ASSUME NEW k \in 1 .. r PROVE t[a + k] = s[j + k]
    <3>1. PICK h \in Int : h = a + k
      OBVIOUS
    <3>2. h \in i + n + 1 .. l /\ h - n + (j - i) = j + k
      BY ONLY <2>1, <3>1, a \in Nat, r \in Nat, l \in Nat, i \in Nat, n \in Nat, j \in Nat,
              m \in Nat, k \in 1 .. r
    <3> QED
      BY <1>1, <3>1, <3>2
  <2>7. x = y
    BY <2>3, <2>5, <2>6, SeqEqual, ZenonT(60)
  <2> QED
    BY <1>1, <2>1, <2>2, <2>4, <2>7
<1>5. src # << >> => SubSeq(t, i + 1, i + n) = src
  <2> SUFFICES ASSUME src # << >> PROVE SubSeq(t, i + 1, i + n) = src
    OBVIOUS
  <2>1. PICK x : x = SubSeq(t, i + 1, i + n)
    OBVIOUS
  <2>2. x \in Seq(S) /\ Len(x) = n /\ \A k \in 1 .. n : x[k] = t[i + k]
    <3>1. i + n <= Len(t)
      BY <1>1, <1>2
    <3>2. /\ SubSeq(t, i + 1, i + n) \in Seq(S)
          /\ Len(SubSeq(t, i + 1, i + n)) = n
          /\ \A k \in 1 .. n : SubSeq(t, i + 1, i + n)[k] = t[i + k]
      BY ONLY <3>1, t \in Seq(S), i \in Nat, n \in Nat, MiddleFacts
    <3> QED
      BY ONLY <2>1, <3>2
  <2>3. x = src
    BY <2>2, SeqEqual
  <2> QED
    BY <2>1, <2>3
<1> QED
  BY <1>3, <1>4, <1>5 DEF Sequence!Spliced

-----------------------------------------------------------------------------
(* The steps.                                                              *)

\* What a vector shows of itself.
ShownOf(v) == [objsize |-> v.objsize, elems |-> Elements(v)]

LEMMA NotNull ==
    ASSUME NEW v, Sound(v)
    PROVE  v # Null /\ ShownOf(v) # Null
<1>1. PICK s \in Nat \ {0}, c \in Nat, q \in Nat :
           s = v.objsize /\ s \in ObjSizes /\ c = v.capacity /\ q = SizeMax \div s /\ c < q
  BY SoundFields DEF Limit
<1>2. q <= SizeMax
  BY <1>1, LimitInRange DEF Limit
<1>3. c \in 0 .. SizeMax
  BY <1>1, <1>2, ScvAssumption
<1>4. v \in [objsize : ObjSizes, size : 0 .. c, capacity : {c}, data : [0 .. c - 1 -> Cell]]
  BY <1>1 DEF Sound, IsVector
<1>5. ShownOf(v) \in [objsize : ObjSizes, elems : Seq(Cell)]
  BY <1>1, ElementsFacts DEF ShownOf
<1> QED
  BY <1>3, <1>4, <1>5, NullAssumption

LEMMA ShownFacts ==
    ASSUME IInv
    PROVE  /\ Shown = [y \in Names |-> Shown[y]]
           /\ \A x \in Live : x \in Sequence!Live /\ Shown[x] = ShownOf(vec[x])
           /\ \A x \in Names \ Live : Shown[x] = Null
<1>1. Shown = [y \in Names |-> Shown[y]]
  BY DEF Shown
<1>2. ASSUME NEW x \in Live PROVE x \in Sequence!Live /\ Shown[x] = ShownOf(vec[x])
  <2>1. x \in Names /\ vec[x] # Null /\ ShownOf(vec[x]) # Null
    BY NotNull DEF IInv, Live
  <2>2. Shown[x] = ShownOf(vec[x])
    BY <2>1 DEF Shown, ShownOf
  <2> QED
    BY <2>1, <2>2 DEF Sequence!Live
<1>3. ASSUME NEW x \in Names \ Live PROVE Shown[x] = Null
  BY DEF Shown, Live
<1> QED
  BY <1>1, <1>2, <1>3

\* When one vector changes, one sequence does.
LEMMA ShownStep ==
    ASSUME IInv, NEW x \in Names, NEW w, Sound(w), vec' = [vec EXCEPT ![x] = w]
    PROVE  Shown' = [Shown EXCEPT ![x] = ShownOf(w)]
<1>1. \A y \in Names : vec'[y] = IF y = x THEN w ELSE vec[y]
  BY DEF IInv
<1>2. PICK f : f = Shown
  OBVIOUS
<1>3. f = [y \in Names |-> IF vec[y] = Null THEN Null ELSE ShownOf(vec[y])]
  BY <1>2 DEF Shown, ShownOf
<1>4. Shown' = [y \in Names |-> IF vec'[y] = Null THEN Null ELSE ShownOf(vec'[y])]
  BY DEF Shown, ShownOf, Elements
<1>5. w # Null
  BY NotNull
<1> QED
  BY <1>1, <1>2, <1>3, <1>4, <1>5

\* A step to an outcome that splices is a Splices of the sequences.
LEMMA SplicesStep ==
    ASSUME IInv, NEW x \in Live, NEW o, Sound(o.vec),
           NEW i \in Nat, NEW j \in Nat, NEW n \in Nat,
           NEW src \in Seq(Cell), src = << >> \/ Len(src) = n,
           SpliceOutcome(vec[x], o, i, j, src, n),
           vec' = [vec EXCEPT ![x] = o.vec], out'.rc = o.rc
    PROVE  Sequence!Splices(x, i, j, src, n)
<1>1. PICK v : v = vec[x] /\ Sound(v) /\ x \in Names
  BY DEF IInv, Live
<1>2. PICK m \in Nat, s \in Seq(Cell), l \in Nat, newlen \in Int :
           /\ m = v.size /\ s = Elements(v) /\ Len(s) = m /\ l = Limit(v.objsize)
           /\ newlen = m - (j - i) + n
           /\ \A k \in 1 .. m : s[k] = v.data[k - 1]
  <2>1. PICK m \in Nat, l \in Nat : m = v.size /\ l = Limit(v.objsize)
    BY <1>1, SoundFields
  <2>2. PICK s \in Seq(Cell) : s = Elements(v)
    BY <1>1, ElementsFacts
  <2>3. Len(s) = m /\ \A k \in 1 .. m : s[k] = v.data[k - 1]
    BY <1>1, <2>1, <2>2, ElementsFacts
  <2>4. m - (j - i) + n \in Int
    OBVIOUS
  <2> QED
    BY <2>1, <2>2, <2>3, <2>4
<1>3. Shown[x] = ShownOf(v) /\ Shown[x].elems = s /\ SizeMax \div Shown[x].objsize = l
  <2>1. Shown[x] = ShownOf(v)
    BY <1>1, ShownFacts
  <2>2. ShownOf(v).elems = s /\ ShownOf(v).objsize = v.objsize
    BY <1>2 DEF ShownOf
  <2>3. SizeMax \div v.objsize = l
    BY <1>2 DEF Limit
  <2> QED
    BY <2>1, <2>2, <2>3
<1>4. Shown' = [Shown EXCEPT ![x] = ShownOf(o.vec)]
  BY <1>1, ShownStep
<1>5. SpliceRefused(v, i, j, n) <=> i > j \/ j > m \/ newlen >= l
  BY <1>2 DEF SpliceRefused
<1>6. o.vec = v => Shown' = Shown
  BY <1>1, <1>3, <1>4, ShownFacts
<1>7. CASE SpliceRefused(v, i, j, n) /\ o.rc = "SCV_ERANGE" /\ o.vec = v
  BY <1>2, <1>3, <1>5, <1>6, <1>7 DEF Sequence!Splices
<1>8. CASE /\ ~ SpliceRefused(v, i, j, n) /\ newlen > m
           /\ o.rc = "SCV_ENOMEM" /\ o.vec = v
  BY <1>2, <1>3, <1>5, <1>6, <1>8 DEF Sequence!Splices
<1>9. CASE /\ ~ SpliceRefused(v, i, j, n) /\ o.rc = "SCV_OK"
           /\ CellsSpliced(v, o.vec, i, j, src, n)
  <2>1. PICK t \in Seq(Cell), w \in {o.vec} :
             /\ w = o.vec /\ t = Elements(w) /\ Len(t) = w.size
             /\ \A k \in 1 .. w.size : t[k] = w.data[k - 1]
    BY ElementsFacts
  <2>2. /\ w.objsize = v.objsize /\ w.size = newlen /\ newlen \in Nat
        /\ \A k \in 0 .. i - 1 : w.data[k] = v.data[k]
        /\ \A k \in i + n .. newlen - 1 : w.data[k] = v.data[k - n + (j - i)]
        /\ src # << >> => \A k \in 1 .. n : w.data[i + k - 1] = src[k]
    <3>1. w.size = newlen
      BY <1>2, <1>9, <2>1 DEF CellsSpliced
    <3>2. w.size \in Nat
      BY <2>1, SoundFields
    <3> QED
      BY <1>9, <2>1, <3>1, <3>2 DEF CellsSpliced
  <2>3. i <= j /\ j <= m
    BY <1>2, <1>5, <1>9
  <2>4. ASSUME NEW k \in 1 .. i PROVE t[k] = s[k]
    <3>1. k \in 1 .. newlen /\ k \in 1 .. m /\ k - 1 \in 0 .. i - 1
      <4>1. newlen = m - (j - i) + n
        BY <1>2
      <4> QED
        BY ONLY <2>3, <4>1, k \in 1 .. i, i \in Nat, j \in Nat, n \in Nat, m \in Nat
    <3> QED
      BY <1>2, <2>1, <2>2, <3>1
  <2>5. ASSUME NEW k \in i + n + 1 .. Len(t) PROVE t[k] = s[k - n + (j - i)]
    <3>1. PICK h \in Int, g \in Int : h = k - 1 /\ g = k - n + (j - i)
      OBVIOUS
    <3>2. /\ h \in i + n .. newlen - 1 /\ g \in 1 .. m /\ h - n + (j - i) = g - 1
          /\ k \in 1 .. newlen
      <4>1. newlen = m - (j - i) + n /\ newlen \in Nat /\ Len(t) = newlen
        BY <1>2, <2>1, <2>2
      <4>2. k \in i + n + 1 .. newlen
        BY <4>1
      <4> QED
        BY ONLY <2>3, <3>1, <4>1, <4>2, i \in Nat, j \in Nat, n \in Nat, m \in Nat
    <3>3. t[k] = w.data[h] /\ w.data[h] = v.data[g - 1] /\ s[g] = v.data[g - 1]
      BY <1>2, <2>1, <2>2, <3>1, <3>2
    <3> QED
      BY <3>1, <3>3
  <2>6. src # << >> => \A k \in 1 .. n : t[i + k] = src[k]
    <3> SUFFICES ASSUME src # << >>, NEW k \in 1 .. n PROVE t[i + k] = src[k]
      OBVIOUS
    <3>1. PICK h \in Int : h = i + k
      OBVIOUS
    <3>2. h \in 1 .. newlen /\ h - 1 = i + k - 1
      BY <1>2, <2>2, <2>3, <3>1
    <3> QED
      BY <2>1, <2>2, <3>1, <3>2
  <2>7. Sequence!Spliced(s, t, i, j, src, n)
    <3>1. Len(t) = Len(s) - (j - i) + n /\ j <= Len(s)
      BY <1>2, <2>1, <2>2, <2>3
    <3> QED
      BY <2>3, <2>4, <2>5, <2>6, <3>1, SplicedByPlaces
  <2>8. Shown'[x].elems = t /\ Shown' = [Shown EXCEPT ![x].elems = t]
    <3>1. ShownOf(o.vec) = [objsize |-> v.objsize, elems |-> t]
      BY <2>1, <2>2 DEF ShownOf
    <3>2. Shown[x] = [objsize |-> v.objsize, elems |-> s]
      BY <1>2, <1>3 DEF ShownOf
    <3>3. PICK f, r : f = Shown /\ r = [objsize |-> v.objsize, elems |-> t]
      OBVIOUS
    <3>4. x \in Names /\ f = [y \in Names |-> f[y]] /\ Shown' = [f EXCEPT ![x] = r]
      BY <1>1, <1>4, <3>1, <3>3, ShownFacts
    <3>5. r.elems = t /\ [f[x] EXCEPT !.elems = t] = r
      <4>1. PICK a : a = v.objsize
        OBVIOUS
      <4>2. [[objsize |-> a, elems |-> s] EXCEPT !.elems = t] = [objsize |-> a, elems |-> t]
        OBVIOUS
      <4>3. r = [objsize |-> a, elems |-> t] /\ f[x] = [objsize |-> a, elems |-> s]
        BY <3>2, <3>3, <4>1
      <4> QED
        BY ONLY <4>2, <4>3
    <3>6. Shown'[x] = r
      BY ONLY <3>4
    <3>7. [f EXCEPT ![x].elems = t] = [f EXCEPT ![x] = r]
      BY <3>5
    <3> QED
      BY <3>3, <3>4, <3>5, <3>6, <3>7
  <2> QED
    BY <1>2, <1>3, <1>5, <1>9, <2>7, <2>8 DEF Sequence!Splices
<1> QED
  BY <1>1, <1>2, <1>7, <1>8, <1>9 DEF SpliceOutcome

LEMMA SpliceCall ==
    ASSUME IInv, NEW x \in Live, NEW call, NEW S, Good(vec[x], S), Return(x, call, S),
           NEW i \in Nat, NEW j \in Nat, NEW n \in Nat,
           NEW src \in Seq(Cell), src = << >> \/ Len(src) = n,
           \A o \in S : SpliceOutcome(vec[x], o, i, j, src, n)
    PROVE  /\ Sequence!Splices(x, i, j, src, n)
           /\ out'.call = call /\ x \in Sequence!Live
<1>1. PICK o \in S : vec' = [vec EXCEPT ![x] = o.vec] /\ out' = [call |-> call, rc |-> o.rc]
  BY DEF Return
<1>2. Sound(o.vec) /\ SpliceOutcome(vec[x], o, i, j, src, n)
  BY DEF Good
<1>3. out'.rc = o.rc /\ out'.call = call /\ x \in Sequence!Live
  BY <1>1, ShownFacts
<1> QED
  BY <1>1, <1>2, <1>3, SplicesStep

LEMMA LiveFacts ==
    ASSUME IInv, NEW x \in Live
    PROVE  /\ Sound(vec[x]) /\ vec[x].size \in Nat
           /\ Len(Shown[x].elems) = vec[x].size
<1>1. Sound(vec[x])
  BY DEF IInv
<1>2. vec[x].size \in Nat /\ Len(Elements(vec[x])) = vec[x].size
  BY <1>1, SoundFields, ElementsFacts
<1>3. Shown[x].elems = Elements(vec[x])
  <2>1. Shown[x] = ShownOf(vec[x])
    BY ShownFacts
  <2>2. ShownOf(vec[x]).elems = Elements(vec[x])
    BY DEF ShownOf
  <2> QED
    BY <2>1, <2>2
<1> QED
  BY <1>1, <1>2, <1>3

LEMMA SourceFacts ==
    ASSUME NEW n \in Nat, NEW src \in Sources(n)
    PROVE  src \in Seq(Cell) /\ (src = << >> \/ Len(src) = n)
  BY SourcesType DEF Sources

\* What a call shows by its name and arguments.
LEMMA ReplaceCall ==
    ASSUME IInv, NEW x \in Live, NEW S, NEW i \in Nat, NEW j \in Nat, NEW n \in Nat,
           NEW src \in Seq(Cell), src = << >> \/ Len(src) = n,
           S = Replace(vec[x], i, j, src, n), Return(x, << "replace", x, i, j, src, n >>, S)
    PROVE  Sequence!Next
<1>1. Sound(vec[x])
  BY DEF IInv
<1>2. Good(vec[x], S) /\ \A o \in S : SpliceOutcome(vec[x], o, i, j, src, n)
  BY <1>1, ReplaceGood, ReplaceSplices
<1>3. /\ Sequence!Splices(x, i, j, src, n) /\ x \in Sequence!Live
      /\ out'.call = << "replace", x, i, j, src, n >>
  BY <1>2, SpliceCall
<1> QED
  BY <1>3 DEF Sequence!Next, Sequence!replace

LEMMA AssignCall ==
    ASSUME IInv, NEW x \in Live, NEW S, NEW n \in Nat,
           NEW src \in Seq(Cell), src = << >> \/ Len(src) = n, Good(vec[x], S),
           \A o \in S : SpliceOutcome(vec[x], o, 0, vec[x].size, src, n),
           Return(x, << "assign", x, src, n >>, S)
    PROVE  Sequence!Next
<1>1. vec[x].size \in Nat
  BY LiveFacts
<1>2. vec[x].size = Len(Shown[x].elems)
  BY LiveFacts
<1>3. /\ Sequence!Splices(x, 0, vec[x].size, src, n) /\ x \in Sequence!Live
      /\ out'.call = << "assign", x, src, n >>
  BY <1>1, SpliceCall
<1> QED
  BY <1>2, <1>3 DEF Sequence!Next, Sequence!assign

LEMMA PushBackCall ==
    ASSUME IInv, NEW x \in Live, scv_push_back(x)
    PROVE  Sequence!Next
<1>1. PICK n \in Nat : n = vec[x].size /\ Sound(vec[x])
  BY LiveFacts
<1>2. n = Len(Shown[x].elems)
  BY <1>1, LiveFacts
<1>3. PICK src \in Sources(1) : Return(x, << "push_back", x, src >>, PushBack(vec[x], src))
  BY DEF scv_push_back
<1>4. src \in Seq(Cell) /\ (src = << >> \/ Len(src) = 1)
  BY SourceFacts
<1>5. Good(vec[x], PushBack(vec[x], src))
  BY <1>1, <1>4, PushBackGood
<1>6. \A o \in PushBack(vec[x], src) : SpliceOutcome(vec[x], o, n, n, src, 1)
  BY <1>1, <1>4, PushBackSplices
<1>7. /\ Sequence!Splices(x, n, n, src, 1) /\ x \in Sequence!Live
      /\ out'.call = << "push_back", x, src >>
  BY <1>3, <1>4, <1>5, <1>6, SpliceCall
<1> QED
  BY <1>2, <1>7 DEF Sequence!Next, Sequence!push_back

LEMMA PopBackCall ==
    ASSUME IInv, NEW x \in Live, scv_pop_back(x)
    PROVE  Sequence!Next
<1>1. PICK n \in Nat : n = vec[x].size /\ Sound(vec[x])
  BY LiveFacts
<1>2. n = Len(Shown[x].elems)
  BY <1>1, LiveFacts
<1>3. Return(x, << "pop_back", x >>, PopBack(vec[x]))
  BY DEF scv_pop_back
<1>4. CASE n = 0
  <2>1. out' = [call |-> << "pop_back", x >>, rc |-> "SCV_ERANGE"] /\ UNCHANGED vec
    BY <1>1, <1>3, <1>4 DEF Return, PopBack, Failed, IInv
  <2>2. x \in Sequence!Live /\ UNCHANGED Shown
    BY <2>1, ShownFacts DEF Shown, Elements
  <2> QED
    BY <1>2, <1>4, <2>1, <2>2 DEF Sequence!Next, Sequence!pop_back
<1>5. CASE n # 0
  <2>1. n - 1 \in Nat /\ << >> \in Seq(Cell)
    BY <1>5
  <2>2. Good(vec[x], PopBack(vec[x]))
    BY <1>1, PopBackGood
  <2>3. \A o \in PopBack(vec[x]) : SpliceOutcome(vec[x], o, n - 1, n, << >>, 0)
    BY <1>1, <1>5, PopBackSplices
  <2>4. /\ Sequence!Splices(x, n - 1, n, << >>, 0) /\ x \in Sequence!Live
        /\ out'.call = << "pop_back", x >>
    BY <1>3, <2>1, <2>2, <2>3, SpliceCall
  <2> QED
    BY <1>2, <1>5, <2>4 DEF Sequence!Next, Sequence!pop_back
<1> QED
  BY <1>4, <1>5

LEMMA ResizeCall ==
    ASSUME IInv, NEW x \in Live, scv_resize(x)
    PROVE  Sequence!Next
<1>1. PICK n \in Nat : n = vec[x].size /\ Sound(vec[x])
  BY LiveFacts
<1>2. n = Len(Shown[x].elems)
  BY <1>1, LiveFacts
<1>3. PICK k \in Nat : Return(x, << "resize", x, k >>, Resize(vec[x], k))
  BY CallerAssumption DEF scv_resize
<1>4. Good(vec[x], Resize(vec[x], k)) /\ << >> \in Seq(Cell)
  BY <1>1, ResizeGood
<1>5. CASE k < n
  <2>1. \A o \in Resize(vec[x], k) : SpliceOutcome(vec[x], o, k, n, << >>, 0)
    BY <1>1, <1>5, ResizeSplices
  <2>2. /\ Sequence!Splices(x, k, n, << >>, 0) /\ x \in Sequence!Live
        /\ out'.call = << "resize", x, k >>
    BY <1>3, <1>4, <2>1, SpliceCall
  <2> QED
    BY <1>2, <1>5, <2>2 DEF Sequence!Next, Sequence!resize
<1>6. CASE ~ (k < n)
  <2>1. k - n \in Nat /\ k >= n
    BY <1>6
  <2>2. \A o \in Resize(vec[x], k) : SpliceOutcome(vec[x], o, n, n, << >>, k - n)
    BY <1>1, <2>1, ResizeSplices
  <2>3. /\ Sequence!Splices(x, n, n, << >>, k - n) /\ x \in Sequence!Live
        /\ out'.call = << "resize", x, k >>
    BY <1>3, <1>4, <2>1, <2>2, SpliceCall
  <2> QED
    BY <1>2, <1>6, <2>3 DEF Sequence!Next, Sequence!resize
<1> QED
  BY <1>5, <1>6

\* Reserve and ShrinkToFit change what no sequence shows.
LEMMA KeepCall ==
    ASSUME IInv, NEW x \in Live, NEW S, Good(vec[x], S), Return(x, << "keep", x >>, S),
           \A o \in S : /\ o.rc \in {"SCV_OK", "SCV_ERANGE", "SCV_ENOMEM"}
                        /\ ShownOf(o.vec) = ShownOf(vec[x])
    PROVE  Sequence!Next
<1>1. PICK o \in S : /\ vec' = [vec EXCEPT ![x] = o.vec]
                     /\ out' = [call |-> << "keep", x >>, rc |-> o.rc]
  BY DEF Return
<1>2. Sound(o.vec) /\ x \in Names /\ ShownOf(o.vec) = Shown[x] /\ x \in Sequence!Live
  BY ShownFacts DEF Good, Live
<1>3. Shown' = [Shown EXCEPT ![x] = Shown[x]]
  BY <1>1, <1>2, ShownStep
<1>4. UNCHANGED Shown
  BY <1>2, <1>3, ShownFacts
<1> QED
  BY <1>1, <1>2, <1>4 DEF Sequence!Next, Sequence!keep

\* A reallocation that has room for the elements keeps what is shown.
LEMMA ReallocKeeps ==
    ASSUME NEW v, Sound(v), NEW n \in Nat, v.size <= n, NEW o \in Realloc(v, n)
    PROVE  /\ o.rc \in {"SCV_OK", "SCV_ERANGE", "SCV_ENOMEM"}
           /\ ShownOf(o.vec) = ShownOf(v)
<1>1. o = Failed("SCV_ENOMEM", v) \/ o.rc = "SCV_OK"
  BY DEF Realloc, Ok
<1>2. CASE o = Failed("SCV_ENOMEM", v)
  BY <1>2 DEF Failed
<1>3. CASE o.rc = "SCV_OK"
  <2>1. PICK m \in Nat : m = v.size
    BY SoundFields
  <2>2. /\ o.vec.objsize = v.objsize /\ o.vec.size = m
        /\ \A k \in 0 .. m - 1 : o.vec.data[k] = v.data[k]
    BY <1>3, <2>1, ReallocShows
  <2>3. \A k \in 1 .. m : k - 1 \in 0 .. m - 1
    OBVIOUS
  <2>4. \A k \in 1 .. m : o.vec.data[k - 1] = v.data[k - 1]
    BY <2>2, <2>3
  <2>5. Elements(o.vec) = Elements(v)
    BY <2>1, <2>2, <2>4 DEF Elements
  <2> QED
    BY <1>3, <2>2, <2>5 DEF ShownOf
<1> QED
  BY <1>1, <1>2, <1>3

LEMMA ReserveKeeps ==
    ASSUME NEW v, Sound(v), NEW n \in Nat, NEW o \in Reserve(v, n)
    PROVE  /\ o.rc \in {"SCV_OK", "SCV_ERANGE", "SCV_ENOMEM"}
           /\ ShownOf(o.vec) = ShownOf(v)
<1>1. CASE n <= v.capacity
  BY <1>1 DEF Reserve, Ok
<1>2. CASE ~ (n <= v.capacity) /\ n >= Limit(v.objsize)
  BY <1>2 DEF Reserve, Failed
<1>3. CASE ~ (n <= v.capacity) /\ ~ (n >= Limit(v.objsize))
  <2>1. v.size <= n
    BY <1>3, SoundFields
  <2>2. o \in Realloc(v, n)
    BY <1>3 DEF Reserve
  <2> QED
    BY <1>3, <2>1, <2>2, ReallocKeeps
<1> QED
  BY <1>1, <1>2, <1>3

LEMMA ShrinkToFitKeeps ==
    ASSUME NEW v, Sound(v), NEW o \in ShrinkToFit(v)
    PROVE  /\ o.rc \in {"SCV_OK", "SCV_ERANGE", "SCV_ENOMEM"}
           /\ ShownOf(o.vec) = ShownOf(v)
<1>1. CASE v.capacity = v.size
  BY <1>1 DEF ShrinkToFit, Ok
<1>2. CASE v.capacity # v.size
  <2>1. PICK n \in Nat : v.size <= n /\ o \in Realloc(v, n)
    <3>1. CASE v.size * v.objsize < MinAlloc
      <4>1. MinCapacity(v.objsize) \in Nat /\ v.size <= MinCapacity(v.objsize)
        BY <3>1, FitsMinCapacity, SoundFields
      <4> QED
        BY <1>2, <3>1, <4>1 DEF ShrinkToFit
    <3>2. CASE ~ (v.size * v.objsize < MinAlloc)
      <4>1. v.size \in Nat /\ v.size <= v.size
        BY SoundFields
      <4> QED
        BY <1>2, <3>2, <4>1 DEF ShrinkToFit
    <3> QED
      BY <3>1, <3>2
  <2> QED
    BY <2>1, ReallocKeeps
<1> QED
  BY <1>1, <1>2

\* Every call of the library is a call of the sequence library of scv.h.
LEMMA NewCall ==
    ASSUME IInv, NEW x \in Names, scv_new(x)
    PROVE  Sequence!Next
<1>1. PICK s \in ObjSizes, k \in 0 .. MaxRequest :
           /\ vec[x] = Null /\ out'.call = << "new", x, s >>
           /\ \/ out'.rc = "NULL" /\ UNCHANGED vec
              \/ /\ ~ NewRefused(s, k) /\ out'.rc = "SCV_OK"
                 /\ vec' = [vec EXCEPT ![x] = NewVector(s, k)]
  BY DEF scv_new
<1>2. Shown[x] = Null
  BY <1>1 DEF Shown
<1>3. CASE out'.rc = "NULL" /\ UNCHANGED vec
  <2>1. UNCHANGED Shown
    BY <1>3 DEF Shown, Elements
  <2> QED
    BY <1>1, <1>2, <1>3, <2>1 DEF Sequence!Next, Sequence!new
<1>4. CASE /\ ~ NewRefused(s, k) /\ out'.rc = "SCV_OK"
           /\ vec' = [vec EXCEPT ![x] = NewVector(s, k)]
  <2>1. Sound(NewVector(s, k)) /\ s > 0
    BY <1>4, NewSound, CallerAssumption DEF NewRefused
  <2>2. Shown' = [Shown EXCEPT ![x] = ShownOf(NewVector(s, k))]
    BY <1>4, <2>1, ShownStep
  <2>3. ShownOf(NewVector(s, k)) = [objsize |-> s, elems |-> << >>]
    <3>1. NewVector(s, k).objsize = s /\ NewVector(s, k).size = 0
      BY DEF NewVector, Vec
    <3>2. Elements(NewVector(s, k)) = << >>
      BY <3>1 DEF Elements
    <3> QED
      BY <3>1, <3>2 DEF ShownOf
  <2> QED
    BY <1>1, <1>2, <1>4, <2>1, <2>2, <2>3 DEF Sequence!Next, Sequence!new
<1> QED
  BY <1>1, <1>3, <1>4

LEMMA DeleteCall ==
    ASSUME IInv, NEW x \in Live, scv_delete(x)
    PROVE  Sequence!Next
<1>1. /\ out'.call = << "delete", x >> /\ out'.rc = "SCV_OK" /\ x \in Names
      /\ x \in Sequence!Live /\ \A y \in Names : vec'[y] = IF y = x THEN Null ELSE vec[y]
  BY ShownFacts DEF scv_delete, IInv, Live
<1>2. Shown' = [Shown EXCEPT ![x] = Null]
  BY <1>1 DEF Shown, Elements
<1> QED
  BY <1>1, <1>2 DEF Sequence!Next, Sequence!delete

LEMMA SwapCall ==
    ASSUME IInv, NEW x \in Live, NEW y \in Live, scv_swap(x, y)
    PROVE  Sequence!Next
<1>1. /\ out'.call = << "swap", x, y >> /\ out'.rc = "SCV_OK" /\ x \in Names /\ y \in Names
      /\ x \in Sequence!Live
      /\ \A z \in Names : vec'[z] = IF z = y THEN vec[x] ELSE IF z = x THEN vec[y] ELSE vec[z]
  BY ShownFacts DEF scv_swap, IInv, Live
<1>2. Shown' = [Shown EXCEPT ![x] = Shown[y], ![y] = Shown[x]]
  BY <1>1 DEF Shown, Elements
<1> QED
  BY <1>1, <1>2 DEF Sequence!Next, Sequence!swap

LEMMA CopyCall ==
    ASSUME IInv, NEW x \in Live, NEW y \in Live, scv_copy(x, y)
    PROVE  Sequence!Next
<1>1. /\ Sound(vec[x]) /\ Sound(vec[y]) /\ x \in Sequence!Live
      /\ Shown[x] = ShownOf(vec[x]) /\ Shown[y] = ShownOf(vec[y])
  BY ShownFacts DEF IInv
<1>2. CASE x = y \/ vec[x].objsize # vec[y].objsize
  <2>1. out' = [call |-> << "copy", x, y >>, rc |-> "SCV_EINVAL"] /\ UNCHANGED vec
    BY <1>2 DEF scv_copy, Return, Copy, Failed, IInv
  <2>2. UNCHANGED Shown
    BY <2>1 DEF Shown, Elements
  <2> QED
    BY <1>1, <1>2, <2>1, <2>2 DEF Sequence!Next, Sequence!copy, ShownOf
<1>3. CASE x # y /\ vec[x].objsize = vec[y].objsize
  <2>1. PICK n \in Nat, e \in {Elements(vec[y])} :
                           /\ e = Elements(vec[y]) /\ n = vec[y].size
                           /\ e \in Seq(Cell) /\ Len(e) = n
    BY <1>1, ElementsFacts, SoundFields
  <2>2. PICK m \in Nat : m = vec[x].size /\ m = Len(Shown[x].elems)
    BY LiveFacts
  <2>3. Return(x, << "copy", x, y >>, Assign(vec[x], e, n))
    BY <1>3, <2>1 DEF scv_copy, Copy
  <2>4. Good(vec[x], Assign(vec[x], e, n))
    BY <1>1, <2>1, AssignGood
  <2>5. \A o \in Assign(vec[x], e, n) : SpliceOutcome(vec[x], o, 0, m, e, n)
    BY <1>1, <2>1, <2>2, AssignSplices
  <2>6. Sequence!Splices(x, 0, m, e, n) /\ out'.call = << "copy", x, y >>
    BY <2>1, <2>3, <2>4, <2>5, SpliceCall
  <2>7. /\ Shown[y].elems = e /\ Len(e) = n
        /\ Shown[x].objsize = Shown[y].objsize
    BY <1>1, <1>3, <2>1 DEF ShownOf
  <2> QED
    BY <1>1, <1>3, <2>2, <2>6, <2>7 DEF Sequence!Next, Sequence!copy
<1> QED
  BY <1>2, <1>3

LEMMA EveryCall ==
    ASSUME IInv, Next
    PROVE  Sequence!Next
<1>1. 0 .. MaxRequest \subseteq Nat /\ << >> \in Seq(Cell)
  BY CallerAssumption
<1>2. ASSUME NEW x \in Names, scv_new(x)
      PROVE  Sequence!Next
  BY <1>2, NewCall
<1>3. ASSUME NEW x \in Live, NEW y \in Live, scv_copy(x, y) \/ scv_swap(x, y)
      PROVE  Sequence!Next
  BY <1>3, CopyCall, SwapCall
<1>4. ASSUME NEW x \in Live,
             \/ scv_delete(x) \/ scv_push_back(x) \/ scv_pop_back(x) \/ scv_resize(x)
      PROVE  Sequence!Next
  BY <1>4, DeleteCall, PushBackCall, PopBackCall, ResizeCall
<1>5. ASSUME NEW x \in Live, scv_reserve(x) \/ scv_shrink_to_fit(x)
      PROVE  Sequence!Next
  <2>1. Sound(vec[x])
    BY DEF IInv
  <2>2. CASE scv_reserve(x)
    <3>1. PICK n \in Nat : Return(x, << "keep", x >>, Reserve(vec[x], n))
      BY <1>1, <2>2 DEF scv_reserve
    <3> QED
      BY <2>1, <3>1, ReserveGood, ReserveKeeps, KeepCall
  <2>3. CASE scv_shrink_to_fit(x)
    BY <2>1, <2>3, ShrinkToFitGood, ShrinkToFitKeeps, KeepCall DEF scv_shrink_to_fit
  <2> QED
    BY <1>5, <2>2, <2>3
<1>6. ASSUME NEW x \in Live, scv_clear(x) \/ scv_assign(x)
      PROVE  Sequence!Next
  <2>1. Sound(vec[x])
    BY DEF IInv
  <2>2. CASE scv_clear(x)
    <3>1. Return(x, << "assign", x, << >>, 0 >>, Clear(vec[x]))
      BY <2>2 DEF scv_clear
    <3> QED
      BY <1>1, <2>1, <3>1, ClearGood, ClearSplices, AssignCall
  <2>3. CASE scv_assign(x)
    <3>1. PICK n \in Nat, src \in Seq(Cell) :
               /\ Return(x, << "assign", x, src, n >>, Assign(vec[x], src, n))
               /\ src = << >> \/ Len(src) = n
      BY <1>1, <2>3, SourceFacts DEF scv_assign
    <3> QED
      BY <2>1, <3>1, AssignGood, AssignSplices, AssignCall
  <2> QED
    BY <1>6, <2>2, <2>3
<1>7. ASSUME NEW x \in Live,
             scv_insert(x) \/ scv_erase(x) \/ scv_replace(x) \/ scv_pop_front(x)
      PROVE  Sequence!Next
  <2>1. PICK i \in Nat, j \in Nat, n \in Nat, src \in Seq(Cell) :
             /\ Return(x, << "replace", x, i, j, src, n >>, Replace(vec[x], i, j, src, n))
             /\ src = << >> \/ Len(src) = n
    <3>1. CASE scv_insert(x)
      BY <1>1, <3>1, SourceFacts DEF scv_insert, Insert
    <3>2. CASE scv_erase(x)
      BY <1>1, <3>2 DEF scv_erase, Erase
    <3>3. CASE scv_replace(x)
      BY <1>1, <3>3, SourceFacts DEF scv_replace
    <3>4. CASE scv_pop_front(x)
      <4>1. 0 \in Nat /\ 1 \in Nat
        OBVIOUS
      <4> QED
        BY <1>1, <3>4, <4>1 DEF scv_pop_front, PopFront, Erase
    <3> QED
      BY <1>7, <3>1, <3>2, <3>3, <3>4
  <2> QED
    BY <2>1, ReplaceCall
<1> QED
  BY <1>2, <1>3, <1>4, <1>5, <1>6, <1>7 DEF Next

\* ImplementsSequence of ScvVector: whatever calls a program makes, with vectors of any
\* number and size, the vector library is the sequence library that scv.h documents.
THEOREM VectorsAreSequences == Spec => ImplementsSequence
<1>1. Init => Sequence!Init
  BY DEF Init, Sequence!Init, Shown
<1>2. IInv /\ [Next]_vars => [Sequence!Next]_<< Shown, out >>
  <2> SUFFICES ASSUME IInv, [Next]_vars PROVE [Sequence!Next]_<< Shown, out >>
    OBVIOUS
  <2>1. CASE UNCHANGED vars
    BY <2>1 DEF vars, Shown, Elements
  <2>2. CASE Next
    BY <2>2, EveryCall
  <2> QED
    BY <2>1, <2>2
<1> QED
  BY <1>1, <1>2, Invariance, PTL
     DEF Spec, ImplementsSequence, Sequence!Spec, Sequence!vars

-----------------------------------------------------------------------------
(* The growth of a full vector.                                            *)

\* The factor of scv_i_grow is only given up at the limit: a small vector that doubles is
\* far from it, and a factor that wraps is beyond it.
LEMMA GrownByHalf ==
    ASSUME NEW v, Sound(v)
    PROVE  \/ GrownCapacity(v, v.capacity + 1) > v.capacity + v.capacity \div 2
           \/ v.capacity + v.capacity \div 2 + 1 >= Limit(v.objsize)
<1>1. PICK c \in Nat, s \in Nat \ {0}, l \in Nat :
           c = v.capacity /\ s = v.objsize /\ l = Limit(s) /\ l = SizeMax \div s /\ c < l
  BY SoundFields DEF Limit
<1>2. PICK h \in Nat : h = c \div 2 /\ h <= c
  BY DivFacts
<1>3. PICK b \in Nat : b = SmallBytes \div s /\ s * b <= SmallBytes
  BY DivFacts, ScvAssumption
<1>4. SUFFICES ASSUME c + h + 1 < l PROVE GrownCapacity(v, c + 1) > c + h
  BY <1>1, <1>2
<1>5. CASE c < b
  <2>1. c + c + 1 < l
    <3>1. SUFFICES ASSUME l <= c + c + 1 PROVE FALSE
      BY <1>1
    <3>2. SizeMax < s * (l + 1)
      BY <1>1, DivFacts, ScvAssumption
    <3>3. l + 1 <= b + b
      BY <1>5, <3>1
    <3>4. s * (l + 1) <= s * (b + b)
      BY <3>3, MulMono
    <3>5. s * (b + b) = s * b + s * b
      BY <1>3
    <3> QED
      BY <1>3, <3>2, <3>4, <3>5, ScvAssumption
  <2>2. GrownCapacity(v, c + 1) = c + c + 1
    BY <1>1, <1>3, <1>5, <2>1 DEF GrownCapacity
  <2> QED
    BY <1>2, <2>2
<1>6. CASE ~ (c < b)
  <2>1. l <= SizeMax
    BY <1>1, LimitInRange
  <2>2. (c + h + 1) % (SizeMax + 1) = c + h + 1
    BY <1>4, <2>1, ScvAssumption
  <2>3. GrownCapacity(v, c + 1) = c + h + 1
    BY <1>1, <1>2, <1>3, <1>4, <1>6, <2>2 DEF GrownCapacity
  <2> QED
    BY <2>3
<1> QED
  BY <1>5, <1>6

LEMMA PushBackGrows ==
    ASSUME NEW v, Sound(v), v.size = v.capacity, NEW src, NEW o \in PushBack(v, src),
           o.rc = "SCV_OK"
    PROVE  \/ o.vec.capacity > v.capacity + v.capacity \div 2
           \/ v.capacity + v.capacity \div 2 + 1 >= Limit(v.objsize)
<1>1. PICK c \in Nat : c = v.capacity /\ ~ (c + 1 <= c)
  BY SoundFields
<1>2. PICK g \in Grow(v, c + 1) : /\ g.rc = "SCV_OK" /\ o.vec.capacity = g.vec.capacity
  BY <1>1 DEF PushBack, AfterGrow, Ok, Rewritten, Vec
<1>3. g \in Realloc(v, GrownCapacity(v, c + 1))
  BY <1>1, <1>2 DEF Grow, Failed
<1>4. g.vec.capacity = GrownCapacity(v, c + 1)
  BY <1>2, <1>3 DEF Realloc, Ok, Failed, Vec
<1> QED
  BY <1>1, <1>2, <1>4, GrownByHalf

\* The record of the call tells which one it was.
LEMMA CalledPushBack ==
    ASSUME Next, NEW x \in Live, out'.call[1] = "push_back", out'.call[2] = x
    PROVE  scv_push_back(x)
<1>1. ASSUME NEW y \in Names, scv_new(y) PROVE FALSE
  BY <1>1 DEF scv_new
<1>2. ASSUME NEW y \in Live, scv_push_back(y) PROVE scv_push_back(x)
  <2>1. out'.call[2] = y
    BY <1>2 DEF scv_push_back, Return
  <2> QED
    BY <1>2, <2>1
<1>3. ASSUME NEW y \in Live,
             \/ scv_delete(y) \/ scv_reserve(y) \/ scv_shrink_to_fit(y)
             \/ scv_clear(y) \/ scv_assign(y) \/ scv_insert(y) \/ scv_erase(y)
             \/ scv_replace(y) \/ scv_pop_back(y)
             \/ scv_pop_front(y) \/ scv_resize(y)
      PROVE  FALSE
  BY <1>3 DEF scv_delete, scv_reserve, scv_shrink_to_fit, scv_clear, scv_assign, scv_insert,
     scv_erase, scv_replace, scv_pop_back, scv_pop_front, scv_resize, Return
<1>4. ASSUME NEW y \in Live, NEW z \in Live, scv_copy(y, z) \/ scv_swap(y, z)
      PROVE  FALSE
  BY <1>4 DEF scv_copy, scv_swap, Return
<1> QED
  BY <1>1, <1>2, <1>3, <1>4 DEF Next

\* GrowthIsGeometric of ScvVector: whenever an element is appended to a full vector, the
\* capacity grows by more than half, up to the limit of size_t.
THEOREM FullVectorsGrowByHalf == Spec => GrowthIsGeometric
<1>1. ASSUME IInv, Next, NEW x \in Live, vec[x].size = vec[x].capacity,
             out'.call[1] = "push_back", out'.call[2] = x, out'.rc = "SCV_OK"
      PROVE  \/ vec'[x].capacity > vec[x].capacity + vec[x].capacity \div 2
             \/ vec[x].capacity + vec[x].capacity \div 2 + 1 >= Limit(vec[x].objsize)
  <2>1. PICK src \in Sources(1) : Return(x, << "push_back", x, src >>, PushBack(vec[x], src))
    BY <1>1, CalledPushBack DEF scv_push_back
  <2>2. PICK o \in PushBack(vec[x], src) : vec'[x] = o.vec /\ o.rc = "SCV_OK"
    BY <1>1, <2>1 DEF Return, IInv, Live
  <2>3. Sound(vec[x])
    BY <1>1 DEF IInv
  <2> QED
    BY <1>1, <2>2, <2>3, PushBackGrows
<1>2. IInv /\ [Next]_vars =>
         [\A x \in Live :
             /\ vec[x].size = vec[x].capacity
             /\ out'.call[1] = "push_back" /\ out'.call[2] = x /\ out'.rc = "SCV_OK"
             => \/ vec'[x].capacity > vec[x].capacity + vec[x].capacity \div 2
                \/ vec[x].capacity + vec[x].capacity \div 2 + 1 >= Limit(vec[x].objsize)
         ]_vars
  BY <1>1
<1> QED
  BY <1>2, Invariance, PTL DEF Spec, GrowthIsGeometric
=============================================================================
