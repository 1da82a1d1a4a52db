---------------------------- MODULE TestAppProofs ----------------------------
(***************************************************************************)
(* Proofs about ParkingDetector, for every road, every batch size and      *)
(* every number of readings, and about TestApp, for every buffer size and  *)
(* every way in which the stream is cut into reads.                        *)
(*                                                                         *)
(* The detector.  The two vectors hold the last `size` readings in their   *)
(* order, so a front pointer that is read after the pop still shows the    *)
(* two halves of one reading: the next one, or the popped one when it was  *)
(* the last.  The remembered vehicle is never newer than the front, hence  *)
(* a gap is always found between an older and a newer reading.             *)
(* DetectorInv says so of any readings that are pushed, and so of those    *)
(* that process_buffer parses.                                             *)
(*                                                                         *)
(* The parser.  FlowInv says that temp is leftover bytes without any STX,  *)
(* a stretch of the stream of frames from where this read began, and       *)
(* garbage, which never stands behind a part of a frame.  So a frame that  *)
(* is found is one of the stream, and it lies behind all parsed before:    *)
(* what is left over stands for bytes that were read already, and is never *)
(* read again.                                                             *)
(*                                                                         *)
(* The commands.  ScriptInv says how much of the script has been sent at   *)
(* every place of run().                                                   *)
(*                                                                         *)
(* The detector in run().  The pairs of one buffer never fill the vectors  *)
(* that run() has created: RoomInv counts the cells that the waiting pairs *)
(* have taken in temp.                                                     *)
(*                                                                         *)
(* The decision.  When every read is a whole message, nothing is lost and  *)
(* the n-th reading received is the n-th one sent (PairsInv).  SpotsInv    *)
(* compares run() with the documented algorithm: the application knows     *)
(* what the algorithm knows after the readings that no longer wait, or     *)
(* after one more, since the pointers show the reading behind the front.   *)
(* The two come together again when that reading is a repetition, or when  *)
(* none waits behind the front, because a step of the algorithm repeated   *)
(* changes nothing.                                                        *)
(***************************************************************************)
EXTENDS MCTestApp, SequenceTheorems, WellFoundedInduction, TLAPS

-----------------------------------------------------------------------------
(* The strengthened invariant.                                             *)

Reading == [gnss : Nat, radar : Positions]

\* A vector of tuples as run() creates it and process_buffer fills it: never
\* so full that it would have to grow.
Shape(v) ==
    /\ v = Vec(TupleSize, v.size, v.capacity, v.data)
    /\ v.size \in 0 .. MaxBatch
    /\ v.capacity \in Nat /\ VectorCapacity <= v.capacity
    /\ DOMAIN v.data = 0 .. v.capacity - 1

History == received \in Seq(Reading)

\* The number of the reading in the front cell.
FrontReading == Len(received) - vector.size + 1

\* The readings that wait are the last ones received.
Waiting ==
    /\ Shape(vector) /\ Shape(vector_radar)
    /\ vector.size = vector_radar.size /\ vector.size <= Len(received)
    /\ \A k \in 0 .. vector.size - 1 :
          /\ vector.data[k] = received[FrontReading + k].gnss
          /\ vector_radar.data[k] = received[FrontReading + k].radar

\* The remembered vehicle is a reading not newer than the front.
Remembered ==
    /\ lastDetectedVehicle = [main  |-> lastDetectedVehicle.main,
                              other |-> lastDetectedVehicle.other]
    /\ \/ lastDetectedVehicle.main = 0 /\ lastDetectedVehicle.other = 0
       \/ \E m \in 1 .. Len(received) :
             /\ m <= FrontReading
             /\ lastDetectedVehicle.main = received[m].gnss
             /\ lastDetectedVehicle.other = received[m].radar
             /\ received[m].radar # 0

Gap ==
    \E i, j \in 1 .. Len(received) :
        /\ i < j /\ received[i].radar # 0 /\ received[j].radar # 0
        /\ calculateEuclideanDistance(received[i].radar, received[j].radar) > 12

Decision ==
    /\ parkingSpotDetected \in BOOLEAN /\ checking \in BOOLEAN
    /\ parkingSpotDetected => Gap /\ ~ checking

DetectorInv == History /\ Waiting /\ Remembered /\ Decision

\* Of the detector alone: nothing else sends commands.
IInv == DetectorInv /\ commands = IF parkingSpotDetected THEN << "stop" >> ELSE << >>

-----------------------------------------------------------------------------
(* The vector operations the detector uses, on vectors of this shape.      *)

LEMMA ConstantFacts ==
    /\ TupleSize \in Nat \ {0} /\ VectorCapacity \in Nat \ {0}
    /\ MaxBatch \in Nat /\ MaxBatch <= VectorCapacity
    /\ Limit(TupleSize) \in Nat /\ VectorCapacity < Limit(TupleSize)
<1>1. Limit(TupleSize) \in Nat
  BY DetectorAssumption, ScvAssumption, SMT DEF Limit
<1> QED
  BY <1>1, DetectorAssumption

\* scv_new rounds a small request up: the capacity is at least the request.
LEMMA NewVectorShape ==
    /\ Shape(NewVector(TupleSize, VectorCapacity))
    /\ NewVector(TupleSize, VectorCapacity).size = 0
<1> DEFINE n == IF VectorCapacity * TupleSize < MinAlloc
                THEN MinCapacity(TupleSize) ELSE VectorCapacity
<1>1. NewVector(TupleSize, VectorCapacity)
      = Vec(TupleSize, 0, n, [k \in 0 .. n - 1 |-> Junk])
  BY ConstantFacts DEF NewVector
<1>2. n \in Nat /\ VectorCapacity <= n
  <2>1. CASE VectorCapacity * TupleSize < MinAlloc
    <3> DEFINE a == MinAlloc + (TupleSize - 1)
               q == a \div TupleSize
    <3>1. a \in Nat /\ q \in Nat /\ a < TupleSize * (q + 1)
      BY ConstantFacts, ScvAssumption, SMT
    <3>2. SUFFICES ASSUME q + 1 <= VectorCapacity PROVE FALSE
      BY <2>1, <3>1, ConstantFacts DEF MinCapacity
    <3>3. TupleSize * (q + 1) <= TupleSize * VectorCapacity
      BY <3>1, <3>2, ConstantFacts, SMT
    <3>4. TupleSize * VectorCapacity = VectorCapacity * TupleSize
      BY ConstantFacts
    <3>5. VectorCapacity * TupleSize \in Nat
      BY ConstantFacts
    <3> QED
      BY <2>1, <3>1, <3>3, <3>4, <3>5, ConstantFacts, ScvAssumption
  <2>2. CASE ~ (VectorCapacity * TupleSize < MinAlloc)
    BY <2>2, ConstantFacts
  <2> QED
    BY <2>1, <2>2
<1> QED
  <2> HIDE DEF n
  <2> QED
    BY <1>1, <1>2, ConstantFacts DEF Shape, Vec

\* The vector that scv_push_back leaves when there is room.
Pushed(v, x) ==
    Vec(TupleSize, v.size + 1, v.capacity,
        [k \in 0 .. v.capacity - 1 |-> IF k = v.size THEN x ELSE v.data[k]])

\* While fewer than MaxBatch pairs wait, scv_push_back never has to grow and
\* never fails.
LEMMA PushBackWithRoom ==
    ASSUME NEW v, Shape(v), v.size < MaxBatch, NEW x
    PROVE  /\ PushBack(v, << x >>) = {Ok(Pushed(v, x))}
           /\ Shape(Pushed(v, x))
<1>1. v.size \in Nat /\ v.capacity \in Nat /\ v.size + 1 <= v.capacity
      /\ v.objsize = TupleSize /\ DOMAIN v.data = 0 .. v.capacity - 1
  BY ConstantFacts DEF Shape, Vec
<1>2. Grow(v, v.size + 1) = {Ok(v)}
  BY <1>1 DEF Grow
<1>3. Overwrite(v.data, v.size, << x >>)
      = [k \in 0 .. v.capacity - 1 |-> IF k = v.size THEN x ELSE v.data[k]]
  <2>1. v.size .. v.size + Len(<< x >>) - 1 = {v.size}
    BY <1>1
  <2>2. << x >>[v.size - v.size + 1] = x
    BY <1>1
  <2> QED
    BY <1>1, <2>1, <2>2 DEF Overwrite
<1>4. PushBack(v, << x >>)
      = {Ok(Rewritten(v, v.size + 1, Overwrite(v.data, v.size, << x >>)))}
  <2> DEFINE done(g) == Rewritten(g, g.size + 1, Overwrite(g.data, g.size, << x >>))
  <2>1. PushBack(v, << x >>)
        = { IF g.rc = "SCV_OK" THEN Ok(done(g.vec)) ELSE g : g \in {Ok(v)} }
    BY <1>2 DEF PushBack, AfterGrow
  <2>2. Ok(v).rc = "SCV_OK" /\ Ok(v).vec = v
    BY DEF Ok
  <2> HIDE DEF done
  <2>3. PushBack(v, << x >>) = {Ok(done(v))}
    BY <2>1, <2>2
  <2> QED
    BY <2>3 DEF done
<1>5. PushBack(v, << x >>) = {Ok(Pushed(v, x))}
  BY <1>1, <1>3, <1>4 DEF Rewritten, Pushed
<1>6. Shape(Pushed(v, x))
  BY <1>1, ConstantFacts DEF Shape, Pushed, Vec
<1> QED
  BY <1>5, <1>6

\* The vector that scv_pop_front leaves: the rest moved down one cell.
Popped(v) ==
    Vec(TupleSize, v.size - 1, v.capacity,
        [k \in 0 .. v.capacity - 1 |->
            IF k \in 0 .. v.size - 2 THEN v.data[k + 1] ELSE v.data[k]])

LEMMA PopFrontShifts ==
    ASSUME NEW v, Shape(v), v.size > 0
    PROVE  /\ PopFront(v) = {Ok(Popped(v))}
           /\ Shape(Popped(v))
<1>1. v.size \in Nat /\ v.capacity \in Nat /\ 1 <= v.size
      /\ v.size <= MaxBatch /\ v.size <= v.capacity
      /\ v.objsize = TupleSize /\ DOMAIN v.data = 0 .. v.capacity - 1
  BY ConstantFacts DEF Shape, Vec
<1> DEFINE newsize == v.size - (1 - 0) + 0
           moved == [k \in DOMAIN v.data |->
                        IF k \in 0 + 0 .. newsize - 1
                        THEN v.data[k - 0 + (1 - 0)] ELSE v.data[k]]
<1>2. Grow(v, newsize) = {Ok(v)}
  BY <1>1 DEF Grow
<1>3. ~ (0 > 1 \/ 1 > v.size) /\ ~ (0 >= Limit(v.objsize) - (v.size - (1 - 0)))
  BY <1>1, ConstantFacts
<1>4. PopFront(v) = {Ok(Rewritten(v, newsize, Overwrite(moved, 0, << >>)))}
  <2> DEFINE done(g) ==
                 Rewritten(g, newsize,
                           Overwrite([k \in DOMAIN g.data |->
                                         IF k \in 0 + 0 .. newsize - 1
                                         THEN g.data[k - 0 + (1 - 0)] ELSE g.data[k]],
                                     0, << >>))
  <2>1. PopFront(v)
        = { IF g.rc = "SCV_OK" THEN Ok(done(g.vec)) ELSE g : g \in {Ok(v)} }
    BY <1>2, <1>3 DEF PopFront, Erase, Replace, AfterGrow
  <2>2. Ok(v).rc = "SCV_OK" /\ Ok(v).vec = v
    BY DEF Ok
  <2> HIDE DEF done
  <2>3. PopFront(v) = {Ok(done(v))}
    BY <2>1, <2>2
  <2> QED
    BY <2>3 DEF done
<1>5. Overwrite(moved, 0, << >>) = moved
  <2>1. 0 .. 0 + Len(<< >>) - 1 = {}
    OBVIOUS
  <2> QED
    BY <2>1 DEF Overwrite
<1>6. newsize = v.size - 1 /\ newsize - 1 = v.size - 2 /\ 0 + 0 = 0
  BY <1>1
<1>7. moved = [k \in 0 .. v.capacity - 1 |->
                 IF k \in 0 .. v.size - 2 THEN v.data[k + 1] ELSE v.data[k]]
  BY <1>1, <1>6
<1>8. PopFront(v) = {Ok(Popped(v))}
  BY <1>1, <1>4, <1>5, <1>6, <1>7 DEF Rewritten, Popped
<1>9. Shape(Popped(v))
  BY <1>1, ConstantFacts DEF Shape, Popped, Vec
<1> QED
  BY <1>8, <1>9

\* What a front pointer shows after the pop: the next element if there is one,
\* otherwise the popped one.
LEMMA FrontAfterPop ==
    ASSUME NEW v, Shape(v), v.size > 0
    PROVE  FrontCell(Popped(v)) = IF v.size > 1 THEN v.data[1] ELSE v.data[0]
<1>1. v.size \in Nat /\ v.capacity \in Nat /\ v.size <= v.capacity
  BY ConstantFacts DEF Shape
<1> QED
  BY <1>1 DEF FrontCell, Popped, Vec

-----------------------------------------------------------------------------
(* The invariant holds initially and is kept by every action.              *)

LEMMA InitEstablishes == DetectorInit => IInv
<1> SUFFICES ASSUME DetectorInit PROVE IInv
  OBVIOUS
<1>1. Shape(vector) /\ Shape(vector_radar) /\ vector.size = 0 /\ vector_radar.size = 0
  BY NewVectorShape DEF DetectorInit
<1>2. received = << >> /\ Len(received) = 0
  BY DEF DetectorInit
<1>3. History
  BY <1>2 DEF History
<1>4. Waiting
  BY <1>1, <1>2 DEF Waiting
<1>5. Remembered /\ Decision /\ commands = << >> /\ ~ parkingSpotDetected
  BY DEF DetectorInit, Remembered, Decision
<1> QED
  BY <1>3, <1>4, <1>5 DEF IInv, DetectorInv

\* Facts about the history.
LEMMA HistoryFacts ==
    ASSUME DetectorInv
    PROVE  /\ Len(received) \in Nat
           /\ vector.size \in Nat /\ vector.size <= Len(received)
           /\ FrontReading \in 1 .. Len(received) + 1
           /\ \A i \in 1 .. Len(received) : received[i] \in Reading
  BY ConstantFacts, SMTT(30) DEF DetectorInv, History, Waiting, Shape, FrontReading

\* A gap that has been seen stays seen when more is received.
LEMMA GapStays ==
    ASSUME History, NEW r \in Reading, Gap, received' = Append(received, r)
    PROVE  Gap'
<1>1. PICK i, j \in 1 .. Len(received) :
          /\ i < j /\ received[i].radar # 0 /\ received[j].radar # 0
          /\ calculateEuclideanDistance(received[i].radar, received[j].radar) > 12
  BY DEF Gap
<1>2. /\ Len(received') = Len(received) + 1 /\ Len(received) \in Nat
      /\ received'[i] = received[i] /\ received'[j] = received[j]
  BY DEF History
<1> QED
  BY <1>1, <1>2 DEF Gap

\* A pair is pushed while there is room for it.
LEMMA PushPairKeeps ==
    ASSUME DetectorInv, vector.size < MaxBatch, NEW gnss \in Nat, NEW radar \in Positions,
           PushPair(gnss, radar),
           UNCHANGED << lastDetectedVehicle, parkingSpotDetected, checking >>
    PROVE  DetectorInv' /\ vector'.size = vector.size + 1
<1> DEFINE L == Len(received)
           n == vector.size
           r == [gnss |-> gnss, radar |-> radar]
<1>2. n < MaxBatch
  OBVIOUS
<1>3. /\ Shape(vector) /\ Shape(vector_radar) /\ vector_radar.size = n
      /\ L \in Nat /\ n \in Nat /\ n <= L
  BY HistoryFacts DEF DetectorInv, Waiting
<1>4. vector' = Pushed(vector, gnss)
  <2>1. PushBack(vector, << gnss >>) = {Ok(Pushed(vector, gnss))}
    BY <1>2, <1>3, PushBackWithRoom
  <2> QED
    BY <2>1 DEF PushPair, Ok
<1>5. vector_radar' = Pushed(vector_radar, radar)
  <2>1. PushBack(vector_radar, << radar >>) = {Ok(Pushed(vector_radar, radar))}
    BY <1>2, <1>3, PushBackWithRoom
  <2> QED
    BY <2>1 DEF PushPair, Ok
<1>6. received' = Append(received, r)
  BY DEF PushPair
<1>a. r \in Reading /\ r.gnss = gnss /\ r.radar = radar
  BY DEF Reading
<1> HIDE DEF r
<1>7. /\ Len(received') = L + 1 /\ received'[L + 1] = r
      /\ \A i \in 1 .. L : received'[i] = received[i]
  BY <1>6, <1>a DEF DetectorInv, History
<1>8. History'
  BY <1>6, <1>a DEF DetectorInv, History
<1>9. Shape(vector)' /\ Shape(vector_radar)'
  BY <1>2, <1>3, <1>4, <1>5, PushBackWithRoom
<1>10. vector'.size = n + 1 /\ vector_radar'.size = n + 1 /\ FrontReading' = FrontReading
  BY <1>3, <1>4, <1>5, <1>7 DEF Pushed, Vec, FrontReading
<1>11. Waiting'
  <2>1. SUFFICES ASSUME NEW k \in 0 .. n
                 PROVE  /\ vector'.data[k] = received'[FrontReading + k].gnss
                        /\ vector_radar'.data[k] = received'[FrontReading + k].radar
    BY <1>3, <1>7, <1>9, <1>10 DEF Waiting
  <2>2. /\ k \in 0 .. vector.capacity - 1 /\ k \in 0 .. vector_radar.capacity - 1
    BY <1>2, <1>3, ConstantFacts DEF Shape
  <2>3. CASE k = n
    <3>1. FrontReading + k = L + 1
      BY <1>3, <2>3 DEF FrontReading
    <3> QED
      BY <1>a, <1>3, <1>4, <1>5, <1>7, <2>2, <2>3, <3>1 DEF Pushed, Vec
  <2>4. CASE k # n
    <3>1. k \in 0 .. n - 1 /\ FrontReading + k \in 1 .. L
      <4>1. FrontReading = L - n + 1
        BY DEF FrontReading
      <4> HIDE DEF L, n
      <4> QED BY <1>3, <2>4, <4>1
    <3> QED
      BY <1>3, <1>4, <1>5, <1>7, <2>2, <2>4, <3>1 DEF Pushed, Vec, DetectorInv, Waiting
  <2> QED
    BY <2>3, <2>4
<1>12. Remembered'
  <2>1. \A m \in 1 .. L : m \in 1 .. Len(received')
    BY <1>3, <1>7
  <2> QED BY <1>7, <1>10, <2>1 DEF DetectorInv, Remembered
<1>13. Decision'
  <2>1. Gap => Gap'
    BY <1>a, <1>6, GapStays DEF DetectorInv
  <2> QED
    BY <2>1 DEF DetectorInv, Decision
<1> QED
  BY <1>8, <1>10, <1>11, <1>12, <1>13 DEF DetectorInv

\* The detector alone: the n-th reading is pushed with the position n.
LEMMA PushPreserves ==
    ASSUME IInv, Push
    PROVE  IInv'
<1>1. PICK radar \in Positions : PushPair(Len(received) + 1, radar)
  BY DEF Push
<1>2. DetectorInv /\ vector.size < MaxBatch /\ Len(received) + 1 \in Nat
      /\ UNCHANGED << lastDetectedVehicle, parkingSpotDetected, checking, commands >>
  BY HistoryFacts DEF Push, IInv
<1>3. DetectorInv'
  BY <1>1, <1>2, PushPairKeeps
<1> QED BY <1>2, <1>3 DEF IInv

\* checkForParking is entered or left, or something else happens.
LEMMA DetectorUntouched ==
    ASSUME DetectorInv,
           UNCHANGED << vector, vector_radar, lastDetectedVehicle, parkingSpotDetected, received >>,
           checking' = checking \/ (checking' = FALSE) \/ (checking' = TRUE /\ ~ parkingSpotDetected)
    PROVE  DetectorInv'
<1>1. History' /\ Waiting' /\ Remembered'
  BY DEF DetectorInv, History, Waiting, Shape, FrontReading, Remembered
<1>2. Decision'
  <2>1. Gap => Gap'
    BY DEF Gap
  <2>2. UNCHANGED parkingSpotDetected /\ checking \in BOOLEAN /\ checking' \in BOOLEAN
    BY DEF DetectorInv, Decision
  <2> QED BY <2>1, <2>2 DEF DetectorInv, Decision
<1> QED BY <1>1, <1>2 DEF DetectorInv

\* The pointers of checkForParking show both halves of one reading: the one behind
\* the front, or the front itself when it was the last.
LEMMA PointersShowOneReading ==
    ASSUME DetectorInv, vector.size > 0
    PROVE  \E m \in 1 .. Len(received) :
               /\ m = (IF vector.size > 1 THEN FrontReading + 1 ELSE FrontReading)
               /\ FrontCell(Popped(vector)) = received[m].gnss
               /\ FrontCell(Popped(vector_radar)) = received[m].radar
<1> DEFINE c == IF vector.size > 1 THEN 1 ELSE 0
<1>1. /\ Shape(vector) /\ Shape(vector_radar) /\ vector_radar.size = vector.size
      /\ c \in 0 .. vector.size - 1
      /\ FrontReading + c \in 1 .. Len(received)
  BY HistoryFacts DEF DetectorInv, Waiting, FrontReading
<1>2. /\ FrontCell(Popped(vector)) = vector.data[c]
      /\ FrontCell(Popped(vector_radar)) = vector_radar.data[c]
  BY <1>1, FrontAfterPop
<1>3. /\ vector.data[c] = received[FrontReading + c].gnss
      /\ vector_radar.data[c] = received[FrontReading + c].radar
  BY <1>1 DEF DetectorInv, Waiting
<1>4. FrontReading + c = IF vector.size > 1 THEN FrontReading + 1 ELSE FrontReading
  BY HistoryFacts
<1> QED
  BY <1>1, <1>2, <1>3, <1>4

\* One turn of the loop of checkForParking.
LEMMA CheckFrontKeeps ==
    ASSUME DetectorInv, CheckFront
    PROVE  /\ DetectorInv' /\ vector'.size = vector.size - 1
           /\ commands' = IF parkingSpotDetected' THEN Append(commands, "stop") ELSE commands
<1> DEFINE L == Len(received)
           n == vector.size
           last == lastDetectedVehicle
<1>1. /\ checking /\ n > 0 /\ received' = received
      /\ ~ parkingSpotDetected
  BY DEF CheckFront, DetectorInv, Decision
<1>2. /\ Shape(vector) /\ Shape(vector_radar) /\ vector_radar.size = n
      /\ L \in Nat /\ n \in Nat /\ n <= L /\ FrontReading = L - n + 1
  BY HistoryFacts DEF DetectorInv, Waiting, FrontReading
<1>3. /\ PopFront(vector) = {Ok(Popped(vector))}
      /\ PopFront(vector_radar) = {Ok(Popped(vector_radar))}
      /\ Shape(Popped(vector)) /\ Shape(Popped(vector_radar))
  BY <1>1, <1>2, PopFrontShifts
<1>4. /\ vector' = Popped(vector) /\ vector_radar' = Popped(vector_radar)
      /\ Compare(FrontCell(Popped(vector)), FrontCell(Popped(vector_radar)))
  BY <1>3 DEF CheckFront, Ok
<1>5. PICK m \in 1 .. L :
          /\ m = (IF n > 1 THEN FrontReading + 1 ELSE FrontReading)
          /\ FrontCell(Popped(vector)) = received[m].gnss
          /\ FrontCell(Popped(vector_radar)) = received[m].radar
  BY <1>1, PointersShowOneReading
<1> DEFINE gnss == received[m].gnss
           radar == received[m].radar
<1>6. Compare(gnss, radar)
  BY <1>4, <1>5
<1>7. History'
  BY <1>1 DEF DetectorInv, History
<1>8. vector'.size = n - 1 /\ vector_radar'.size = n - 1 /\ FrontReading' = FrontReading + 1
  BY <1>1, <1>2, <1>4 DEF Popped, Vec, FrontReading
<1>9. Waiting'
  <2>0. vector'.size - 1 = n - 2 /\ n - 1 <= L
    BY <1>2, <1>8
  <2>1. SUFFICES ASSUME NEW k \in 0 .. n - 2
                 PROVE  /\ vector'.data[k] = received[FrontReading + 1 + k].gnss
                        /\ vector_radar'.data[k] = received[FrontReading + 1 + k].radar
    <3>1. Shape(vector)' /\ Shape(vector_radar)'
      BY <1>3, <1>4 DEF Shape
    <3> QED
      BY <1>1, <1>8, <2>0, <3>1 DEF Waiting
  <2>5. k \in Nat /\ k <= n - 2
    BY <1>2
  <2>6. /\ vector.capacity \in Nat /\ n <= vector.capacity
        /\ vector_radar.capacity \in Nat /\ n <= vector_radar.capacity
    <3>1. /\ n \in 0 .. MaxBatch
          /\ vector.capacity \in Nat /\ VectorCapacity <= vector.capacity
          /\ vector_radar.capacity \in Nat /\ VectorCapacity <= vector_radar.capacity
      BY <1>2 DEF Shape
    <3> HIDE DEF n
    <3> QED BY <3>1, ConstantFacts
  <2>2. /\ k \in 0 .. vector.capacity - 1 /\ k \in 0 .. vector_radar.capacity - 1
        /\ k + 1 \in 0 .. n - 1
    BY <1>2, <2>5, <2>6, SMTT(30)
  <2>3. /\ vector'.data[k] = vector.data[k + 1]
        /\ vector_radar'.data[k] = vector_radar.data[k + 1]
    BY <1>2, <1>4, <2>2 DEF Popped, Vec
  <2>4. FrontReading + 1 + k = FrontReading + (k + 1)
    <3>1. FrontReading \in Int
      BY HistoryFacts
    <3> QED
      BY <2>5, <3>1
  <2> QED
    BY <2>2, <2>3, <2>4 DEF DetectorInv, Waiting
<1>10. m <= FrontReading' /\ FrontReading <= m /\ FrontReading <= FrontReading'
       /\ FrontReading \in Int
  BY <1>1, <1>2, <1>5, <1>8
<1>11. lastDetectedVehicle' = last \/ (lastDetectedVehicle' = [main |-> gnss, other |-> radar] /\ radar # 0)
  BY <1>6 DEF Compare, isZeroTuple
<1>12. Remembered'
  <2>1. CASE lastDetectedVehicle' = last
    <3>1. \A i \in 1 .. L : i <= FrontReading => i <= FrontReading'
      <4>1. FrontReading' \in Int
        BY <1>2, <1>8
      <4>2. \A a, b, i \in Int : i <= a /\ a <= b => i <= b
        OBVIOUS
      <4> QED BY <1>2, <1>10, <4>1, <4>2
    <3> QED BY <1>1, <2>1, <3>1 DEF DetectorInv, Remembered
  <2>2. CASE lastDetectedVehicle' = [main |-> gnss, other |-> radar] /\ radar # 0
    BY <1>1, <1>10, <2>2 DEF Remembered
  <2> QED
    BY <1>11, <2>1, <2>2
<1> DEFINE spot == /\ ~ isZeroTuple(radar)
                   /\ ~ (isZeroTuple(last.main) /\ isZeroTuple(last.other))
                   /\ IsParkingSpot(calculateEuclideanDistance(last.other, radar))
<1>13. /\ parkingSpotDetected' = spot
       /\ commands' = IF spot THEN Append(commands, "stop") ELSE commands
       /\ checking' = ~ spot
  BY <1>1, <1>6 DEF Compare
<1>14. spot => Gap
  <2> SUFFICES ASSUME spot PROVE Gap
    OBVIOUS
  <2>1. PICK i \in 1 .. L : i <= FrontReading /\ received[i].radar = last.other /\ last.other # 0
    BY DEF DetectorInv, Remembered, isZeroTuple
  <2>2. radar # 0 /\ calculateEuclideanDistance(last.other, radar) > 12
    BY DEF isZeroTuple, IsParkingSpot
  <2>3. radar \in Int
    BY <1>5, HistoryFacts, DetectorAssumption DEF Reading
  <2>4. i # m
    <3> SUFFICES ASSUME i = m PROVE FALSE
      OBVIOUS
    <3>1. last.other = radar
      BY <2>1
    <3> QED
      BY <2>2, <2>3, <3>1 DEF calculateEuclideanDistance
  <2>5. i < m
    BY <1>10, <2>1, <2>4
  <2> QED
    BY <2>1, <2>2, <2>5 DEF Gap
<1>15. Gap => Gap'
  BY <1>1 DEF Gap
<1>17. Decision'
  <2> HIDE DEF spot
  <2>1. spot \in BOOLEAN
    BY DEF spot
  <2> QED
    BY <1>13, <1>14, <1>15, <2>1 DEF Decision
<1> HIDE DEF spot
<1> QED
  BY <1>7, <1>8, <1>9, <1>12, <1>13, <1>17 DEF DetectorInv

\* The command to stop is the first one and the last.
LEMMA CheckPreserves ==
    ASSUME IInv, CheckFront
    PROVE  IInv'
<1>1. DetectorInv /\ ~ parkingSpotDetected /\ commands = << >>
  BY DEF CheckFront, IInv, DetectorInv, Decision
<1>2. Append(commands, "stop") = << "stop" >>
  BY <1>1
<1> QED BY <1>1, <1>2, CheckFrontKeeps DEF IInv

\* checkForParking is entered or left.
LEMMA OthersPreserve ==
    ASSUME IInv, EnterCheck \/ LeaveCheck \/ UNCHANGED detectorVars
    PROVE  IInv'
<1>1. /\ UNCHANGED << vector, vector_radar, lastDetectedVehicle, parkingSpotDetected, commands,
                      received >>
      /\ checking' = checking \/ (checking' = FALSE) \/ (checking' = TRUE /\ ~ parkingSpotDetected)
  BY DEF EnterCheck, LeaveCheck, detectorVars
<1> QED BY <1>1, DetectorUntouched DEF IInv

\* The invariant holds in every reachable state.
THEOREM Invariance == DetectorSpec => []IInv
<1>1. DetectorInit => IInv
  BY InitEstablishes
<1>2. IInv /\ [DetectorNext]_detectorVars => IInv'
  BY PushPreserves, CheckPreserves, OthersPreserve DEF DetectorNext
<1> QED
  BY <1>1, <1>2, PTL DEF DetectorSpec

-----------------------------------------------------------------------------
(* What follows from it.                                                   *)

\* What DetectorInv says of the remembered vehicle and of a spot that was found.
LEMMA DetectorFacts ==
    ASSUME DetectorInv
    PROVE  LastVehicleIsAReading /\ (parkingSpotDetected => Gap)
<1>1. vector.size = vector_radar.size
  BY DEF DetectorInv, Waiting
<1>2. LastVehicleIsAReading
  BY <1>1 DEF LastVehicleIsAReading, isZeroTuple, DetectorInv, Remembered
<1> QED BY <1>2 DEF DetectorInv, Decision

\* The vectors never grow beyond what run() has allocated for them.
THEOREM DetectorTypeCorrect == DetectorSpec => []DetectorTypeOK
<1>1. IInv => DetectorTypeOK
  <2> SUFFICES ASSUME IInv PROVE DetectorTypeOK
    OBVIOUS
  <2>1. /\ vector.size \in 0 .. VectorCapacity
        /\ vector_radar.size \in 0 .. VectorCapacity
    BY ConstantFacts DEF IInv, DetectorInv, Waiting, Shape
  <2>2. lastDetectedVehicle.main \in Nat /\ lastDetectedVehicle.other \in Positions
    BY HistoryFacts, DetectorAssumption DEF IInv, DetectorInv, Remembered, Reading
  <2> QED
    BY <2>1, <2>2 DEF DetectorTypeOK, IInv, DetectorInv, Decision
<1> QED
  BY <1>1, Invariance, PTL

\* The dangling front pointers never mix the halves of two readings.
THEOREM VehicleIsAReading == DetectorSpec => []LastVehicleIsAReading
<1>1. IInv => LastVehicleIsAReading
  BY DetectorFacts DEF IInv
<1> QED
  BY <1>1, Invariance, PTL

\* The car is stopped once at most, and only for a gap between two vehicles seen.
THEOREM StopsAreJustified == DetectorSpec => []StopIsJustified
<1>1. IInv => StopIsJustified
  <2> SUFFICES ASSUME IInv PROVE StopIsJustified
    OBVIOUS
  <2>1. parkingSpotDetected => Gap
    BY DEF IInv, DetectorInv, Decision
  <2>2. CASE parkingSpotDetected
    <3>1. Len(commands) = 1 /\ commands[1] = "stop"
      BY <2>2 DEF IInv
    <3> QED
      BY <2>1, <2>2, <3>1 DEF StopIsJustified, Gap
  <2>3. CASE ~ parkingSpotDetected
    <3>1. Len(commands) = 0
      BY <2>3 DEF IInv
    <3> QED
      BY <2>3, <3>1 DEF StopIsJustified
  <2> QED
    BY <2>2, <2>3
<1> QED
  BY <1>1, Invariance, PTL

-----------------------------------------------------------------------------
(* The stream.                                                             *)

Cell == {STX, Length(1), ETX, NUL, Garbage} \union { Text(n) : n \in Nat }

\* The cell at position p of the stream, from 1: the n-th frame ends at 4 * n.
CellAt(c, p) ==
    \E n \in Nat \ {0} : \/ p = 4 * n - 3 /\ c = STX
                         \/ p = 4 * n - 2 /\ c = Length(1)
                         \/ p = 4 * n - 1 /\ c = Text(n)
                         \/ p = 4 * n     /\ c = ETX

\* How much of the stream has been read.
Position == 4 * Len(sent) - Len(wire)

\* The place in the stream that lies before temp, when this read began at `from`, and the
\* place up to which frames may have been parsed.
Before(from) == from - leftover_size
Parsed(from) ==
    IF pc = "parse"
    THEN Before(from) + (IF start > leftover_size + 1 THEN start ELSE leftover_size + 1)
    ELSE Position + 1

FlowTypes ==
    /\ sent \in Seq(Positions) /\ wire \in Seq(Cell) /\ temp \in Seq(Cell)
    /\ start \in Nat /\ leftover_size \in Nat /\ received \in Seq(Reading)

Rest == \A i \in 1 .. Len(wire) : CellAt(wire[i], Position + i)

\* temp begins with leftover_size bytes that nobody has written; what follows them is a
\* stretch of the stream, or garbage.
Stretches(from) ==
    pc = "parse" =>
        /\ \A i \in 1 .. size :
              IF i <= leftover_size THEN temp[i] = NUL
              ELSE \/ temp[i] = Garbage
                   \/ CellAt(temp[i], Before(from) + i) /\ Before(from) + i <= Position
        /\ \A i \in 1 .. size : \A j \in 1 .. size :
              j = i + 1 /\ temp[j] = Garbage => temp[i] \in {NUL, ETX, Garbage}
        /\ leftover_size <= size /\ size < BufferSize + leftover_size
        /\ start <= size + 1

Short == pc = "check" => size - start <= 3 \/ \E i \in 1 .. size : temp[i] = Garbage

\* The reading r is made up, or one that was sent in s, and of which no part lies behind
\* `parsed` or, but for its end, behind what has been read.
TakenUpTo(r, s, parsed, read) ==
    r.gnss # 0 => /\ r.gnss \in 1 .. Len(s) /\ r.radar = s[r.gnss]
                  /\ 4 * r.gnss <= parsed /\ 4 * r.gnss <= read + 1

TakenFrom(rs, s, parsed, read) ==
    /\ \A i \in 1 .. Len(rs) : TakenUpTo(rs[i], s, parsed, read)
    /\ \A i, j \in 1 .. Len(rs) :
          i < j /\ rs[i].gnss # 0 /\ rs[j].gnss # 0 => rs[i].gnss < rs[j].gnss

Taken(from) == TakenFrom(received, sent, Parsed(from), Position)

FlowAt(from) == FlowTypes /\ Rest /\ Stretches(from) /\ Short /\ Taken(from)

FlowInv == \E from \in Int : FlowAt(from)

-----------------------------------------------------------------------------
\* The cells of a frame can be told from each other.
LEMMA CellsDiffer ==
    ASSUME NEW c, NEW p \in Int, CellAt(c, p), NEW n \in Nat
    PROVE  /\ c # NUL /\ c # Garbage
           /\ c = STX => \E k \in Nat \ {0} : p = 4 * k - 3
           /\ p = 4 * n - 2 => c = Length(1)
           /\ p = 4 * n - 1 => c = Text(n)
           /\ p = 4 * n => c = ETX
<1>1. PICK k \in Nat \ {0} : \/ p = 4 * k - 3 /\ c = STX
                             \/ p = 4 * k - 2 /\ c = Length(1)
                             \/ p = 4 * k - 1 /\ c = Text(k)
                             \/ p = 4 * k     /\ c = ETX
  BY DEF CellAt
<1>2. STX # NUL /\ STX # ETX /\ ETX # NUL /\ STX # Length(1) /\ NUL # Length(1)
      /\ STX # Text(k) /\ NUL # Text(k)
      /\ Garbage # STX /\ Garbage # ETX /\ Garbage # Length(1) /\ Garbage # Text(k)
  BY DEF STX, ETX, NUL, Garbage, Length, Text
<1>3. p = 4 * n - 1 /\ p = 4 * k - 1 => n = k
  OBVIOUS
<1> QED BY <1>1, <1>2, <1>3

\* A frame is four cells, in their places.
LEMMA FrameFacts ==
    ASSUME NEW n \in Nat \ {0}
    PROVE  /\ Frame(n) \in Seq(Cell) /\ Len(Frame(n)) = 4 /\ FrameSize = 4 /\ HeaderSize = 2
           /\ \A k \in 1 .. 4 : CellAt(Frame(n)[k], 4 * n - 4 + k)
<1> DEFINE l == Length(1)
           t == Text(n)
           f == << STX, l, t, ETX >>
<1>1. f = Frame(n) /\ l \in Cell /\ t \in Cell /\ STX \in Cell /\ ETX \in Cell
  BY DEF Frame, Cell
<1>2. FrameSize = 4 /\ HeaderSize = 2
  BY DEF FrameSize, Frame, HeaderSize
<1>3. CellAt(STX, 4 * n - 3) /\ CellAt(l, 4 * n - 2) /\ CellAt(t, 4 * n - 1) /\ CellAt(ETX, 4 * n)
  BY DEF CellAt
<1> HIDE DEF l, t
<1>4. f \in Seq(Cell) /\ Len(f) = 4
  BY <1>1
<1>5. f[1] = STX /\ f[2] = l /\ f[3] = t /\ f[4] = ETX
  OBVIOUS
<1> HIDE DEF f
<1>6. ASSUME NEW k \in 1 .. 4 PROVE CellAt(f[k], 4 * n - 4 + k)
  <2>1. \/ k = 1 /\ 4 * n - 4 + k = 4 * n - 3
        \/ k = 2 /\ 4 * n - 4 + k = 4 * n - 2
        \/ k = 3 /\ 4 * n - 4 + k = 4 * n - 1
        \/ k = 4 /\ 4 * n - 4 + k = 4 * n
    OBVIOUS
  <2> QED BY <1>3, <1>5, <2>1
<1> QED BY <1>1, <1>2, <1>4, <1>6

-----------------------------------------------------------------------------
\* What was parsed stays so when the stream and the parser go on.
LEMMA TakenStays ==
    ASSUME NEW rs \in Seq(Reading), NEW s, NEW t, Len(s) \in Nat, Len(t) \in Nat,
           Len(s) <= Len(t), \A i \in 1 .. Len(s) : t[i] = s[i],
           NEW a \in Int, NEW b \in Int, NEW p \in Int, NEW q \in Int,
           p <= q, a <= b \/ p + 1 <= b, TakenFrom(rs, s, a, p)
    PROVE  TakenFrom(rs, t, b, q)
<1>1. ASSUME NEW i \in 1 .. Len(rs) PROVE TakenUpTo(rs[i], t, b, q)
  <2>1. TakenUpTo(rs[i], s, a, p) /\ rs[i].gnss \in Nat
    <3>1. TakenUpTo(rs[i], s, a, p)
      BY DEF TakenFrom
    <3>2. rs[i] \in Reading
      OBVIOUS
    <3>3. \A x \in Reading : x.gnss \in Nat
      BY DEF Reading
    <3> QED BY <3>1, <3>2, <3>3
  <2> DEFINE g == rs[i].gnss
  <2>2. g # 0 => g \in 1 .. Len(t) /\ 4 * g <= b /\ 4 * g <= q + 1
    BY <2>1, SMTT(30) DEF TakenUpTo
  <2> QED BY <2>1, <2>2 DEF TakenUpTo
<1> QED BY <1>1 DEF TakenFrom

\* One more reading is parsed, later than all before unless it is made up.
LEMMA OneMoreTaken ==
    ASSUME NEW rs \in Seq(Reading), NEW r \in Reading, NEW s, NEW a \in Int, NEW b \in Int,
           NEW p \in Int, a <= b, TakenFrom(rs, s, a, p), TakenUpTo(r, s, b, p),
           r.gnss # 0 => a < 4 * r.gnss
    PROVE  Append(rs, r) \in Seq(Reading) /\ TakenFrom(Append(rs, r), s, b, p)
<1> DEFINE L == Len(rs)
           m == Append(rs, r)
<1>1. /\ m \in Seq(Reading) /\ L \in Nat /\ Len(m) = L + 1
      /\ m[L + 1] = r /\ \A i \in 1 .. L : m[i] = rs[i]
  BY AppendProperties
<1>2. r.gnss \in Nat /\ \A i \in 1 .. L : rs[i].gnss \in Nat
  <2>1. \A i \in 1 .. L : rs[i] \in Reading
    OBVIOUS
  <2>2. \A x \in Reading : x.gnss \in Nat
    BY DEF Reading
  <2> QED BY <2>1, <2>2
<1>3. ASSUME NEW i \in 1 .. L
      PROVE  /\ TakenUpTo(rs[i], s, b, p)
             /\ rs[i].gnss # 0 /\ r.gnss # 0 => rs[i].gnss < r.gnss
  <2>1. TakenUpTo(rs[i], s, a, p)
    BY DEF TakenFrom
  <2>2. /\ 4 * rs[i].gnss <= a => 4 * rs[i].gnss <= b
        /\ 4 * rs[i].gnss <= a /\ a < 4 * r.gnss => rs[i].gnss < r.gnss
    BY <1>2
  <2> QED BY <2>1, <2>2 DEF TakenUpTo
<1>4. \A i \in 1 .. Len(m) : i \in 1 .. L \/ i = L + 1
  BY <1>1
<1>5. ASSUME NEW i \in 1 .. Len(m) PROVE TakenUpTo(m[i], s, b, p)
  BY <1>1, <1>3, <1>4
<1>6. ASSUME NEW i \in 1 .. Len(m), NEW j \in 1 .. Len(m), i < j, m[i].gnss # 0, m[j].gnss # 0
      PROVE  m[i].gnss < m[j].gnss
  <2>1. i \in 1 .. L /\ m[i] = rs[i]
    BY <1>1, <1>6
  <2>2. CASE j \in 1 .. L
    <3>1. m[j] = rs[j]
      BY <1>1, <2>2
    <3> QED BY <1>6, <2>1, <2>2, <3>1 DEF TakenFrom
  <2>3. CASE j = L + 1
    BY <1>1, <1>3, <1>6, <2>1, <2>3
  <2> QED BY <1>4, <2>2, <2>3
<1> QED BY <1>1, <1>5, <1>6 DEF TakenFrom

\* The same of the readings of the application.
LEMMA TakenGoesOn ==
    ASSUME NEW from \in Int, NEW to \in Int, FlowAt(from), UNCHANGED received,
           Len(sent) <= Len(sent'), Len(sent') \in Nat,
           \A i \in 1 .. Len(sent) : sent'[i] = sent[i],
           NEW b \in Int, b = Parsed(to)', NEW q \in Int, q = Position',
           Position <= q, Parsed(from) <= b \/ Position + 1 <= b
    PROVE  Taken(to)'
<1> PICK a : a = Parsed(from)
  OBVIOUS
<1> PICK p : p = Position
  OBVIOUS
<1>1. received \in Seq(Reading) /\ Len(sent) \in Nat /\ p \in Int /\ a \in Int
  BY DEF FlowAt, FlowTypes, Position, Parsed, Before
<1>2. TakenFrom(received, sent, a, p)
  BY DEF FlowAt, Taken
<1>3. p <= q /\ (a <= b \/ p + 1 <= b)
  OBVIOUS
<1>4. TakenFrom(received, sent', b, q)
  <2> PICK rs : rs = received
    OBVIOUS
  <2> PICK s : s = sent
    OBVIOUS
  <2> PICK t : t = sent'
    OBVIOUS
  <2>1. /\ rs \in Seq(Reading) /\ Len(s) \in Nat /\ Len(t) \in Nat /\ Len(s) <= Len(t)
        /\ \A i \in 1 .. Len(s) : t[i] = s[i]
    BY <1>1
  <2>2. TakenFrom(rs, s, a, p)
    BY <1>2
  <2>3. TakenFrom(rs, t, b, q)
    BY <1>1, <1>3, <2>1, <2>2, TakenStays
  <2> QED BY <2>3
<1> QED BY <1>4 DEF Taken

\* And with one more.
LEMMA OneMoreGoesOn ==
    ASSUME NEW from \in Int, FlowAt(from), NEW r \in Reading, received' = Append(received, r),
           UNCHANGED << sent, Position >>, NEW b \in Int, b = Parsed(from)', Parsed(from) <= b,
           TakenUpTo(r, sent, b, Position), r.gnss # 0 => Parsed(from) < 4 * r.gnss
    PROVE  received' \in Seq(Reading) /\ Taken(from)'
<1> PICK a : a = Parsed(from)
  OBVIOUS
<1> PICK p : p = Position
  OBVIOUS
<1> PICK rs : rs = received
  OBVIOUS
<1> PICK s : s = sent
  OBVIOUS
<1>1. rs \in Seq(Reading) /\ p \in Int /\ a \in Int /\ a <= b
  BY DEF FlowAt, FlowTypes, Position, Parsed, Before
<1>2. TakenFrom(rs, s, a, p) /\ TakenUpTo(r, s, b, p) /\ (r.gnss # 0 => a < 4 * r.gnss)
  BY DEF FlowAt, Taken
<1>3. Append(rs, r) \in Seq(Reading) /\ TakenFrom(Append(rs, r), s, b, p)
  BY <1>1, <1>2, OneMoreTaken
<1>4. received' = Append(rs, r) /\ sent' = s /\ Position' = p
  OBVIOUS
<1> QED BY <1>3, <1>4 DEF Taken

\* A step that leaves the stream, temp and the readings alone.
LEMMA FlowGoesOn ==
    ASSUME NEW from \in Int, FlowAt(from),
           UNCHANGED << sent, wire, temp, start, leftover_size, received >>,
           pc' = pc \/ pc' \notin {"parse", "check"}
    PROVE  FlowAt(from)'
<1>1. UNCHANGED << size, Position, Before(from) >>
  BY DEF size, Position, Before
<1>2. FlowTypes' /\ Rest' /\ Stretches(from)' /\ Short'
  BY <1>1 DEF FlowAt, FlowTypes, Rest, Stretches, Short
<1> PICK b : b = Parsed(from)'
  OBVIOUS
<1> PICK q : q = Position'
  OBVIOUS
<1>3. /\ Len(sent) \in Nat /\ q \in Int /\ q = Position /\ b \in Int
      /\ Parsed(from) <= b \/ Position + 1 <= b
  <2>1. /\ Len(sent) \in Nat /\ Position \in Int /\ Before(from) \in Int
        /\ start \in Nat /\ leftover_size \in Nat
    BY DEF FlowAt, FlowTypes, Position, Before
  <2>2. b = IF pc' = "parse"
            THEN Before(from) + (IF start > leftover_size + 1 THEN start ELSE leftover_size + 1)
            ELSE Position + 1
    BY <1>1 DEF Parsed
  <2>3. CASE pc' = pc
    <3>1. b = Parsed(from)
      BY <2>2, <2>3 DEF Parsed
    <3>2. b \in Int
      BY <2>1, <2>2
    <3> QED BY <1>1, <2>1, <3>1, <3>2
  <2>4. CASE pc' # "parse"
    BY <1>1, <2>1, <2>2, <2>4
  <2> QED BY <2>3, <2>4
<1>4. Taken(from)'
  BY <1>3, TakenGoesOn
<1> QED BY <1>2, <1>4 DEF FlowAt

\* The car sends one more frame: it goes behind the others.
LEMMA SendFlows == ASSUME NEW from \in Int, FlowAt(from), Send PROVE FlowAt(from)'
<1> DEFINE L == Len(sent)
           w == Len(wire)
           f == Frame(L + 1)
<1>1. PICK radar \in Positions : sent' = Append(sent, radar)
  BY DEF Send
<1>2. sent \in Seq(Positions) /\ wire \in Seq(Cell) /\ L \in Nat /\ w \in Nat
  BY DEF FlowAt, FlowTypes
<1>3. wire' = wire \o f /\ UNCHANGED << temp, start, leftover_size, received, pc >>
  BY DEF Send, detectorVars, connVars
<1>4. f \in Seq(Cell) /\ Len(f) = 4 /\ \A k \in 1 .. 4 : CellAt(f[k], 4 * L + k)
  <2>1. L + 1 \in Nat \ {0} /\ \A k \in 1 .. 4 : 4 * (L + 1) - 4 + k = 4 * L + k
    BY <1>2
  <2> HIDE DEF L
  <2> QED BY <2>1, FrameFacts
<1>5. sent' \in Seq(Positions) /\ Len(sent') = L + 1 /\ \A i \in 1 .. L : sent'[i] = sent[i]
  BY <1>1, <1>2, AppendProperties
<1> HIDE DEF f
<1>6. wire' \in Seq(Cell) /\ Len(wire') = w + 4
      /\ \A i \in 1 .. w + 4 : wire'[i] = IF i <= w THEN wire[i] ELSE f[i - w]
  <2>1. /\ wire \o f \in Seq(Cell) /\ Len(wire \o f) = Len(wire) + Len(f)
        /\ \A i \in 1 .. Len(wire) + Len(f) :
              (wire \o f)[i] = IF i <= Len(wire) THEN wire[i] ELSE f[i - Len(wire)]
    BY <1>2, <1>4, ConcatProperties
  <2> QED BY <1>3, <1>4, <2>1
<1>7. /\ Position' = Position /\ Before(from)' = Before(from) /\ size' = size
      /\ Parsed(from)' = Parsed(from) /\ Position = 4 * L - w
  BY <1>2, <1>3, <1>5, <1>6 DEF Position, Before, size, Parsed
<1>8. FlowTypes' /\ Stretches(from)' /\ Short'
  BY <1>3, <1>5, <1>6, <1>7 DEF FlowAt, FlowTypes, Stretches, Short
<1>9. Rest'
  <2>1. ASSUME NEW i \in 1 .. Len(wire') PROVE CellAt(wire'[i], Position + i)
    <3>1. CASE i <= w
      <4>1. i \in 1 .. Len(wire) /\ wire'[i] = wire[i]
        BY <1>2, <1>6, <3>1
      <4> QED BY <4>1 DEF FlowAt, Rest
    <3>2. CASE ~ (i <= w)
      <4>1. i - w \in 1 .. 4 /\ wire'[i] = f[i - w] /\ Position + i = 4 * L + (i - w)
        <5>1. i \in 1 .. w + 4 /\ i \in Int
          BY <1>6
        <5>2. i - w \in 1 .. 4 /\ Position + i = 4 * L + (i - w)
          BY <1>2, <1>7, <3>2, <5>1, SMTT(30)
        <5> QED BY <1>6, <3>2, <5>1, <5>2
      <4> QED BY <1>4, <4>1
    <3> QED BY <3>1, <3>2
  <2> QED BY <1>7, <2>1 DEF Rest
<1> PICK b : b = Parsed(from)'
  OBVIOUS
<1> PICK q : q = Position'
  OBVIOUS
<1>10. Taken(from)'
  <2>1. Len(sent) <= Len(sent') /\ Len(sent') \in Nat
        /\ Position \in Int /\ Parsed(from) \in Int /\ Before(from) \in Int
    BY <1>2, <1>5, <1>7 DEF FlowAt, FlowTypes, Parsed, Before
  <2>2. q = Position /\ b = Parsed(from)
    BY <1>7
  <2>3. Position <= q /\ q \in Int /\ Parsed(from) <= b /\ b \in Int
    BY <2>1, <2>2
  <2>4. \A i \in 1 .. Len(sent) : sent'[i] = sent[i]
    BY <1>5
  <2>5. UNCHANGED received
    BY <1>3
  <2> QED BY <2>1, <2>3, <2>4, <2>5, TakenGoesOn
<1> QED BY <1>8, <1>9, <1>10 DEF FlowAt

\* What a read takes off the stream.
LEMMA RestGoesOn ==
    ASSUME NEW from \in Int, FlowAt(from), NEW n \in 0 .. Len(wire), UNCHANGED sent,
           wire' = SubSeq(wire, n + 1, Len(wire))
    PROVE  wire' \in Seq(Cell) /\ Rest' /\ Position' = Position + n /\ Position \in Int
<1> DEFINE w == Len(wire)
<1>1. wire \in Seq(Cell) /\ w \in Nat /\ n \in Nat /\ n <= w /\ Len(sent) \in Nat
  BY DEF FlowAt, FlowTypes
<1>2. wire' \in Seq(Cell) /\ Len(wire') = w - n
  BY <1>1
<1>3. \A i \in 1 .. w - n : n + i \in 1 .. w /\ wire'[i] = wire[n + i]
  <2>1. \A i \in 1 .. w - (n + 1) + 1 : SubSeq(wire, n + 1, w)[i] = wire[n + 1 + i - 1]
    BY <1>1
  <2>2. w - (n + 1) + 1 = w - n /\ \A i \in Int : n + 1 + i - 1 = n + i
    BY <1>1
  <2>3. \A i \in 1 .. w - n : n + i \in 1 .. w
    BY <1>1
  <2>4. wire' = SubSeq(wire, n + 1, w)
    OBVIOUS
  <2> HIDE DEF w
  <2>5. ASSUME NEW i \in 1 .. w - n PROVE wire'[i] = wire[n + i]
    <3>1. i \in 1 .. w - (n + 1) + 1 /\ i \in Int
      BY <1>1, <2>2, <2>5
    <3>2. wire'[i] = wire[n + 1 + i - 1]
      BY ONLY <2>1, <2>4, <3>1
    <3>3. n + 1 + i - 1 = n + i
      BY <2>2, <3>1
    <3> QED BY ONLY <3>2, <3>3
  <2> QED BY <2>3, <2>5
<1>4. Position' = Position + n /\ Position \in Int
  <2>1. Position = 4 * Len(sent) - w /\ Position' = 4 * Len(sent) - (w - n)
    BY <1>2 DEF Position
  <2> HIDE DEF w
  <2> QED BY <1>1, <2>1
<1>5. ASSUME NEW i \in 1 .. Len(wire') PROVE CellAt(wire'[i], Position' + i)
  <2>1. i \in 1 .. w - n /\ Position' + i = Position + (n + i)
    BY <1>1, <1>2, <1>4
  <2>2. CellAt(wire[n + i], Position + (n + i))
    BY <1>3, <2>1 DEF FlowAt, Rest
  <2> QED BY <1>3, <2>1, <2>2
<1> QED BY <1>2, <1>4, <1>5 DEF Rest

\* What it puts behind the leftover bytes.
LEMMA WhatIsRead ==
    ASSUME NEW c \in 0 .. Len(wire), NEW g \in Nat, wire \in Seq(Cell), leftover_size \in Nat,
           temp' = leftover \o SubSeq(wire, 1, c) \o [k \in 1 .. g |-> Garbage]
    PROVE  /\ temp' \in Seq(Cell) /\ Len(temp') = leftover_size + c + g
           /\ \A i \in 1 .. leftover_size + c + g :
                 temp'[i] = IF i <= leftover_size THEN NUL
                            ELSE IF i <= leftover_size + c THEN wire[i - leftover_size]
                            ELSE Garbage
<1> DEFINE r == SubSeq(wire, 1, c)
           x == [k \in 1 .. g |-> Garbage]
           l == leftover
<1> PICK s : s = leftover_size
  OBVIOUS
<1>1. r \in Seq(Cell) /\ Len(r) = c /\ \A i \in 1 .. c : r[i] = wire[i]
  OBVIOUS
<1>2. x \in Seq(Cell) /\ Len(x) = g /\ \A i \in 1 .. g : x[i] = Garbage
  <2>1. Garbage \in Cell
    BY DEF Cell
  <2>2. x \in [1 .. g -> Cell]
    BY <2>1
  <2>3. x \in Seq(Cell) /\ Len(x) = g
    BY ONLY <2>2, g \in Nat
  <2> QED BY <2>3
<1>3. s \in Nat /\ l \in Seq(Cell) /\ Len(l) = s /\ \A i \in 1 .. s : l[i] = NUL
  <2>1. s \in Nat /\ NUL \in Cell /\ l = [i \in 1 .. s |-> NUL]
    BY DEF leftover, Cell
  <2> HIDE DEF l
  <2>2. l \in [1 .. s -> Cell]
    BY <2>1
  <2>3. l \in Seq(Cell) /\ Len(l) = s
    BY ONLY <2>1, <2>2
  <2> QED BY <2>1, <2>3
<1>4. temp' = (l \o r) \o x
  OBVIOUS
<1> HIDE DEF r, x, l
<1>5. /\ l \o r \in Seq(Cell) /\ Len(l \o r) = s + c
      /\ \A i \in 1 .. s + c : (l \o r)[i] = IF i <= s THEN NUL ELSE wire[i - s]
  <2>1. /\ l \o r \in Seq(Cell) /\ Len(l \o r) = Len(l) + Len(r)
        /\ \A i \in 1 .. Len(l) + Len(r) :
              (l \o r)[i] = IF i <= Len(l) THEN l[i] ELSE r[i - Len(l)]
    BY ONLY <1>1, <1>3, ConcatProperties
  <2>2. \A i \in 1 .. s + c : (i <= s => i \in 1 .. s) /\ (~ (i <= s) => i - s \in 1 .. c)
    BY <1>3
  <2> QED BY <1>1, <1>3, <2>1, <2>2
<1> DEFINE y == l \o r
<1>6. y \in Seq(Cell) /\ Len(y) = s + c
  BY <1>5
<1>7. \A i \in 1 .. s + c : y[i] = IF i <= s THEN NUL ELSE wire[i - s]
  BY <1>5
<1>8. temp' = y \o x
  BY <1>4
<1> HIDE DEF y
<1>9. /\ y \o x \in Seq(Cell) /\ Len(y \o x) = Len(y) + Len(x)
      /\ \A i \in 1 .. Len(y) + Len(x) :
            (y \o x)[i] = IF i <= Len(y) THEN y[i] ELSE x[i - Len(y)]
  BY ONLY <1>2, <1>6, ConcatProperties
<1>10. \A i \in 1 .. s + c + g : /\ i <= s => i <= s + c
                                 /\ i <= s + c => i \in 1 .. s + c
                                 /\ ~ (i <= s + c) => i - (s + c) \in 1 .. g
  BY <1>3
<1>11. /\ temp' \in Seq(Cell) /\ Len(temp') = s + c + g
       /\ \A i \in 1 .. s + c + g :
             temp'[i] = IF i <= s THEN NUL ELSE IF i <= s + c THEN wire[i - s] ELSE Garbage
  <2>1. temp' \in Seq(Cell) /\ Len(temp') = s + c + g
    BY ONLY <1>2, <1>6, <1>8, <1>9
  <2>2. ASSUME NEW i \in 1 .. s + c + g
        PROVE  temp'[i] = IF i <= s THEN NUL ELSE IF i <= s + c THEN wire[i - s] ELSE Garbage
    <3>1. temp'[i] = IF i <= s + c THEN y[i] ELSE x[i - (s + c)]
      BY ONLY <1>2, <1>6, <1>8, <1>9, <2>2
    <3>2. /\ i <= s => i <= s + c
          /\ i <= s + c => i \in 1 .. s + c
          /\ ~ (i <= s + c) => i - (s + c) \in 1 .. g
      BY ONLY <1>10, <2>2
    <3>3. i <= s + c => y[i] = IF i <= s THEN NUL ELSE wire[i - s]
      BY ONLY <1>7, <3>2
    <3>4. ~ (i <= s + c) => x[i - (s + c)] = Garbage
      BY ONLY <1>2, <3>2
    <3> QED BY ONLY <3>1, <3>2, <3>3, <3>4
  <2> QED BY ONLY <2>1, <2>2
<1> QED BY <1>11

\* A read begins a new stretch of the stream, behind all that was parsed before.
LEMMA ReadFlows == ASSUME NEW from \in Int, FlowAt(from), Read PROVE FlowInv'
<1>1. PICK n \in 0 .. Len(wire), g \in Garbages : \E c \in 0 .. n :
         c + g < BufferSize /\ Receive(n, c, g)
  BY DEF Read
<1>2. PICK c \in 0 .. n : c + g < BufferSize /\ Receive(n, c, g)
  BY <1>1
<1>3. /\ n \in Nat /\ c \in Nat /\ g \in Nat /\ c <= n /\ c \in 0 .. Len(wire)
      /\ wire \in Seq(Cell) /\ Len(sent) \in Nat /\ leftover_size \in Nat /\ start \in Nat
      /\ sent \in Seq(Positions) /\ BufferSize \in Nat
  BY StreamAssumption DEF FlowAt, FlowTypes
<1>4. UNCHANGED << sent, leftover_size, received >> /\ pc = "loop"
      /\ wire' = SubSeq(wire, n + 1, Len(wire))
  BY <1>2 DEF Read, detectorVars, Receive
<1>5. wire' \in Seq(Cell) /\ Rest' /\ Position' = Position + n /\ Position \in Int
  BY <1>4, RestGoesOn
<1> PICK q : q = Position'
  OBVIOUS
<1>6. Position <= q /\ q \in Int /\ Parsed(from) = Position + 1
  BY <1>3, <1>4, <1>5 DEF Parsed
<1>7. CASE UNCHANGED << temp, start >> /\ pc' \notin {"parse", "check"}
  <2>1. FlowTypes' /\ Stretches(from)' /\ Short'
    BY <1>4, <1>5, <1>7 DEF FlowAt, FlowTypes, Stretches, Short
  <2> PICK b : b = Parsed(from)'
    OBVIOUS
  <2>2. b = q + 1
    BY <1>7 DEF Parsed
  <2>3. Parsed(from) <= b /\ b \in Int
    BY <1>5, <1>6, <2>2
  <2>4. Taken(from)'
    BY <1>3, <1>4, <1>6, <2>3, TakenGoesOn
  <2> QED BY <1>5, <2>1, <2>4 DEF FlowAt, FlowInv
<1>8. CASE pc' = "parse"
  <2> PICK p : p = Position
    OBVIOUS
  <2> PICK s : s = leftover_size
    OBVIOUS
  <2>1. /\ start' = 0 /\ c + g # 0
        /\ temp' = leftover \o SubSeq(wire, 1, c) \o [k \in 1 .. g |-> Garbage]
    BY <1>2, <1>4, <1>8 DEF Receive
  <2>2. /\ temp' \in Seq(Cell) /\ Len(temp') = s + c + g
        /\ \A i \in 1 .. s + c + g :
              temp'[i] = IF i <= s THEN NUL ELSE IF i <= s + c THEN wire[i - s] ELSE Garbage
    BY <1>3, <2>1, WhatIsRead
  <2>3. /\ size' = s + c + g /\ Before(p)' = p - s /\ Position' = p + n
        /\ s \in Nat /\ p \in Int /\ leftover_size' = s
    BY <1>3, <1>4, <1>5, <2>2 DEF size, Before
  <2>4. FlowTypes'
    BY <1>4, <1>5, <2>1, <2>2 DEF FlowAt, FlowTypes
  <2>5. \A i \in 1 .. Len(wire) : CellAt(wire[i], p + i) /\ wire[i] # Garbage
    <3>1. ASSUME NEW i \in 1 .. Len(wire) PROVE CellAt(wire[i], p + i) /\ wire[i] # Garbage
      <4>1. CellAt(wire[i], p + i) /\ p + i \in Int
        BY <1>3, <2>3 DEF FlowAt, Rest
      <4> QED BY <4>1, CellsDiffer
    <3> QED BY <3>1
  <2>6. Stretches(p)'
    <3>1. ASSUME NEW i \in 1 .. size'
          PROVE  IF i <= s THEN temp'[i] = NUL
                 ELSE \/ temp'[i] = Garbage
                      \/ CellAt(temp'[i], Before(p)' + i) /\ Before(p)' + i <= Position'
      <4>1. i \in 1 .. s + c + g
        BY <2>3
      <4>2. CASE i <= s
        BY <2>2, <4>1, <4>2
      <4>3. CASE ~ (i <= s) /\ i <= s + c
        <5>1. /\ i - s \in 1 .. Len(wire) /\ Before(p)' + i = p + (i - s)
              /\ Before(p)' + i <= Position'
          BY <1>3, <2>3, <4>1, <4>3
        <5>2. temp'[i] = wire[i - s]
          BY <2>2, <4>1, <4>3
        <5>3. CellAt(temp'[i], Before(p)' + i)
          BY <2>5, <5>1, <5>2
        <5> QED BY <4>3, <5>1, <5>3
      <4>4. CASE ~ (i <= s) /\ ~ (i <= s + c)
        BY <2>2, <4>1, <4>4
      <4> QED BY <4>2, <4>3, <4>4
    <3>2. ASSUME NEW i \in 1 .. size', NEW j \in 1 .. size', j = i + 1, temp'[j] = Garbage
          PROVE  temp'[i] \in {NUL, ETX, Garbage}
      <4>1. i \in 1 .. s + c + g /\ j \in 1 .. s + c + g /\ i \in Int /\ j = i + 1
        BY <2>3, <3>2
      <4>2. ~ (j <= s) /\ ~ (j <= s + c)
        <5>1. NUL # Garbage
          BY DEF NUL, Garbage
        <5>2. ~ (j <= s)
          BY <2>2, <3>2, <4>1, <5>1
        <5>3. ASSUME j <= s + c PROVE FALSE
          <6>1. j - s \in 1 .. Len(wire)
            BY <1>3, <2>3, <4>1, <5>2, <5>3
          <6>2. temp'[j] = wire[j - s]
            BY <2>2, <4>1, <5>2, <5>3
          <6> QED BY <2>5, <3>2, <6>1, <6>2
        <5> QED BY <5>2, <5>3
      <4>3. CASE i <= s
        BY <2>2, <4>1, <4>3
      <4>4. CASE ~ (i <= s + c)
        <5>1. ~ (i <= s)
          BY <1>3, <2>3, <4>1, <4>4
        <5> QED BY <2>2, <4>1, <4>4, <5>1
      <4>5. CASE ~ (i <= s) /\ i <= s + c
        <5>1. i = s + c /\ c > 0 /\ g > 0 /\ i - s = c
          BY <1>3, <2>3, <4>1, <4>2, <4>5
        <5>2. temp'[i] = wire[c]
          BY <2>2, <4>1, <4>5, <5>1
        <5>3. c # 0
          BY <1>3, <5>1
        <5>4. wire[c] = ETX
          BY <1>2, <5>1, <5>3 DEF Receive, Decrypted
        <5> QED BY <5>2, <5>4
      <4> QED BY <4>3, <4>4, <4>5
    <3>3. s <= size' /\ size' < BufferSize + s /\ start' <= size' + 1
      BY <1>2, <1>3, <2>1, <2>3
    <3>4. leftover_size' = s
      BY <2>3
    <3> QED BY <3>1, <3>2, <3>3, <3>4 DEF Stretches
  <2>7. Short'
    BY <1>8 DEF Short
  <2> PICK b : b = Parsed(p)'
    OBVIOUS
  <2>8. b = Position + 1 /\ b \in Int
    <3>1. b = (p - s) + (s + 1)
      BY <1>8, <2>1, <2>3 DEF Parsed
    <3> QED BY <2>3, <3>1
  <2>9. Taken(p)'
    <3>1. Parsed(from) <= b /\ p \in Int
      BY <1>5, <1>6, <2>3, <2>8
    <3>2. /\ UNCHANGED received /\ Len(sent) <= Len(sent') /\ Len(sent') \in Nat
          /\ \A i \in 1 .. Len(sent) : sent'[i] = sent[i]
      BY <1>3, <1>4
    <3>3. b = Parsed(p)' /\ q = Position' /\ Position <= q /\ q \in Int /\ b \in Int
      BY <1>6, <2>8
    <3> QED BY ONLY FlowAt(from), from \in Int, <3>1, <3>2, <3>3, TakenGoesOn
  <2> QED BY <1>5, <2>3, <2>4, <2>6, <2>7, <2>9 DEF FlowAt, FlowInv
<1> QED BY <1>2, <1>4, <1>7, <1>8 DEF Receive

\* A byte that begins no frame is passed over.
LEMMA SkipFlows == ASSUME NEW from \in Int, FlowAt(from), SkipByte PROVE FlowAt(from)'
<1>1. /\ UNCHANGED << sent, wire, temp, leftover_size, received, pc >>
      /\ start' = start + 1 /\ pc = "parse" /\ size - start >= 2
  BY DEF SkipByte, detectorVars, connVars, HeaderSize
<1>2. /\ start \in Nat /\ leftover_size \in Nat /\ size \in Nat /\ Len(sent) \in Nat
      /\ Position \in Int /\ Before(from) \in Int
  BY DEF FlowAt, FlowTypes, size, Position, Before
<1>3. UNCHANGED << size, Position, Before(from) >>
  BY <1>1 DEF size, Position, Before
<1>4. FlowTypes' /\ Rest' /\ Short'
  BY <1>1, <1>2, <1>3 DEF FlowAt, FlowTypes, Rest, Short
<1>5. Stretches(from)'
  <2>1. start' <= size' + 1
    BY <1>1, <1>2, <1>3
  <2> QED BY <1>1, <1>3, <2>1 DEF FlowAt, Stretches
<1> PICK b : b = Parsed(from)'
  OBVIOUS
<1> PICK q : q = Position'
  OBVIOUS
<1>6. Parsed(from) <= b /\ b \in Int /\ Position <= q /\ q \in Int
  <2>1. b = Before(from) + (IF start + 1 > leftover_size + 1 THEN start + 1 ELSE leftover_size + 1)
    BY <1>1, <1>3 DEF Parsed
  <2>2. Parsed(from) = Before(from) + (IF start > leftover_size + 1 THEN start ELSE leftover_size + 1)
    BY <1>1 DEF Parsed
  <2> QED BY <1>2, <1>3, <2>1, <2>2
<1>7. Taken(from)'
  BY <1>1, <1>2, <1>6, TakenGoesOn
<1> QED BY <1>4, <1>5, <1>7 DEF FlowAt

\* The frame at start, when there is one, is a frame of the stream: neither the leftover
\* bytes nor the garbage hold an STX.
LEMMA FrameHere ==
    ASSUME NEW from \in Int, FlowAt(from), pc = "parse", HeaderHere
    PROVE  \E n \in Nat \ {0} :
              /\ Before(from) + start = 4 * n - 4 /\ leftover_size <= start
              /\ FrameEnd = start + 3
              /\ FrameEnd <= size => /\ temp[start + 3] = Text(n) /\ n <= Len(sent)
                                     /\ 4 * n <= Position + 1
              /\ FrameEnd < size => temp[start + 4] = ETX
<1>1. /\ start \in Nat /\ leftover_size \in Nat /\ size \in Nat
      /\ Position \in Int /\ Before(from) \in Int
      /\ Position <= 4 * Len(sent) /\ Len(sent) \in Nat
  BY DEF FlowAt, FlowTypes, size, Position, Before
<1>2. temp[start + 1] = STX /\ size - start >= 2 /\ HeaderSize = 2
  BY DEF HeaderHere, HeaderSize
<1>3. \A i \in 1 .. size :
         IF i <= leftover_size THEN temp[i] = NUL
         ELSE \/ temp[i] = Garbage
              \/ CellAt(temp[i], Before(from) + i) /\ Before(from) + i <= Position
  BY DEF FlowAt, Stretches
<1>4. \A i \in 1 .. size : \A j \in 1 .. size :
         j = i + 1 /\ temp[j] = Garbage => temp[i] \in {NUL, ETX, Garbage}
  BY DEF FlowAt, Stretches
<1>5. start + 1 \in 1 .. size /\ start + 2 \in 1 .. size
  BY <1>1, <1>2
<1>6. STX \notin {NUL, ETX, Garbage} /\ Length(1) \notin {NUL, ETX, Garbage}
      /\ \A n \in Nat : Text(n) \notin {NUL, ETX, Garbage}
  BY DEF STX, NUL, ETX, Garbage, Length, Text
<1>7. leftover_size <= start
  BY <1>1, <1>2, <1>3, <1>5, <1>6
<1>8. \A i \in 1 .. size : start < i /\ temp[i] # Garbage
         => CellAt(temp[i], Before(from) + i) /\ Before(from) + i <= Position
  BY <1>1, <1>3, <1>7
<1>9. PICK n \in Nat \ {0} : Before(from) + (start + 1) = 4 * n - 3
  <2>1. CellAt(temp[start + 1], Before(from) + (start + 1)) /\ Before(from) + (start + 1) \in Int
    BY <1>1, <1>2, <1>5, <1>6, <1>8
  <2> QED BY <1>2, <2>1, CellsDiffer
<1>10. /\ Before(from) + start = 4 * n - 4 /\ Before(from) + (start + 2) = 4 * n - 2
       /\ Before(from) + (start + 3) = 4 * n - 1 /\ Before(from) + (start + 4) = 4 * n
  <2>1. PICK b \in Int : b = Before(from)
    BY <1>1
  <2>2. start \in Int /\ n \in Int /\ b + (start + 1) = 4 * n - 3
    BY <1>1, <1>9, <2>1
  <2>3. /\ b + start = 4 * n - 4 /\ b + (start + 2) = 4 * n - 2
        /\ b + (start + 3) = 4 * n - 1 /\ b + (start + 4) = 4 * n
    BY ONLY <2>1, <2>2
  <2> QED BY <2>1, <2>3
<1>11. temp[start + 2] = Length(1)
  <2>1. temp[start + 2] # Garbage
    <3>1. start + 2 = (start + 1) + 1
      BY <1>1
    <3> QED BY <1>2, <1>4, <1>5, <1>6, <3>1
  <2>2. CellAt(temp[start + 2], 4 * n - 2)
    BY <1>1, <1>5, <1>8, <1>10, <2>1
  <2>3. 4 * n - 2 \in Int /\ n \in Nat
    OBVIOUS
  <2> QED BY ONLY <2>2, <2>3, CellsDiffer
<1>12. FrameEnd = start + 3
  <2>1. Length(1)[2] = 1
    BY DEF Length
  <2> QED BY <1>1, <1>2, <1>11, <2>1 DEF FrameEnd
<1>13. ASSUME FrameEnd <= size
       PROVE  temp[start + 3] = Text(n) /\ n <= Len(sent) /\ 4 * n <= Position + 1
  <2>1. start + 3 \in 1 .. size /\ start < start + 3 /\ start + 3 = (start + 2) + 1
    BY <1>1, <1>12, <1>13
  <2>2. temp[start + 3] # Garbage
    BY <1>4, <1>5, <1>6, <1>11, <2>1
  <2>3. CellAt(temp[start + 3], 4 * n - 1) /\ 4 * n - 1 <= Position
    BY <1>8, <1>10, <2>1, <2>2
  <2>4. temp[start + 3] = Text(n)
    BY <2>3, CellsDiffer
  <2>5. n <= Len(sent) /\ 4 * n <= Position + 1
    BY <1>1, <2>3
  <2> QED BY <2>4, <2>5
<1>14. ASSUME FrameEnd < size PROVE temp[start + 4] = ETX
  <2>1. start + 4 \in 1 .. size /\ start < start + 4 /\ start + 4 = (start + 3) + 1
        /\ start + 3 \in 1 .. size /\ FrameEnd <= size
    BY <1>1, <1>12, <1>14
  <2>2. temp[start + 4] # Garbage
    BY <1>4, <1>6, <1>13, <2>1
  <2>3. CellAt(temp[start + 4], 4 * n)
    BY <1>8, <1>10, <2>1, <2>2
  <2> QED BY <2>3, CellsDiffer
<1> QED BY <1>7, <1>10, <1>12, <1>13, <1>14

\* The pair that is parsed is one the car has sent, and later than all before.
LEMMA ParseFlows == ASSUME NEW from \in Int, FlowAt(from), ParsePair PROVE FlowAt(from)'
<1>1. /\ UNCHANGED << sent, wire, temp, leftover_size, pc >>
      /\ start' = FrameEnd + 1 /\ pc = "parse" /\ HeaderHere /\ FrameEnd <= size
  BY DEF ParsePair, connVars
<1>2. /\ start \in Nat /\ leftover_size \in Nat /\ size \in Nat
      /\ sent \in Seq(Positions) /\ Len(sent) \in Nat /\ Position \in Int /\ Before(from) \in Int
  BY DEF FlowAt, FlowTypes, size, Position, Before
<1>3. PICK n \in Nat \ {0} :
         /\ Before(from) + start = 4 * n - 4 /\ leftover_size <= start
         /\ FrameEnd = start + 3 /\ temp[start + 3] = Text(n) /\ n <= Len(sent)
         /\ 4 * n <= Position + 1
  BY <1>1, FrameHere
<1>4. UNCHANGED << size, Position, Before(from) >>
  BY <1>1 DEF size, Position, Before
<1>5. start' = start + 4 /\ start' <= size + 1 /\ start' \in Nat
  BY <1>1, <1>2, <1>3
<1> PICK b : b = Parsed(from)'
  OBVIOUS
<1>6. b = 4 * n /\ Parsed(from) < 4 * n /\ Parsed(from) \in Int /\ b \in Int
  <2>1. b = Before(from) + (IF start + 4 > leftover_size + 1 THEN start + 4 ELSE leftover_size + 1)
    BY <1>1, <1>4, <1>5 DEF Parsed
  <2>2. Parsed(from) = Before(from) + (IF start > leftover_size + 1 THEN start ELSE leftover_size + 1)
    BY <1>1 DEF Parsed
  <2> QED BY <1>2, <1>3, <2>1, <2>2
<1> DEFINE r == [gnss |-> n, radar |-> sent[n]]
<1>7. received' = Append(received, r)
  <2>1. temp[start + HeaderSize + 1][2] = n
    <3>1. start + HeaderSize + 1 = start + 3
      BY <1>2 DEF HeaderSize
    <3> QED BY <1>3, <3>1 DEF Text
  <2> QED BY <2>1 DEF ParsePair, PushPair
<1>8. n \in 1 .. Len(sent) /\ r \in Reading /\ r.gnss = n /\ r.radar = sent[n]
  BY <1>2, <1>3 DEF Reading
<1> HIDE DEF r
<1>9. TakenUpTo(r, sent, b, Position)
  BY <1>3, <1>6, <1>8 DEF TakenUpTo
<1>10. received' \in Seq(Reading) /\ Taken(from)'
  <2>1. Parsed(from) <= b
    BY <1>6
  <2> QED BY <1>1, <1>4, <1>6, <1>7, <1>8, <1>9, <2>1, OneMoreGoesOn
<1>11. FlowTypes' /\ Rest' /\ Short' /\ Stretches(from)'
  BY <1>1, <1>4, <1>5, <1>10 DEF FlowAt, FlowTypes, Rest, Short, Stretches
<1> QED BY <1>10, <1>11 DEF FlowAt

\* A pair of garbage stands for none that was sent.
LEMMA MakeUpFlows ==
    ASSUME NEW from \in Int, FlowAt(from), MakeUpPair
    PROVE  FlowAt(from)' /\ leftover_size <= start
<1>1. PICK end \in start + HeaderSize .. size, radar \in MadeUp :
         PushPair(0, radar) /\ start' = end + 1
  BY DEF MakeUpPair
<1>2. /\ UNCHANGED << sent, wire, temp, leftover_size, pc >> /\ pc = "parse"
      /\ temp[start + 1] = Garbage /\ size - start >= 2
  BY DEF MakeUpPair, GarbageHere, connVars, HeaderSize
<1>3. /\ start \in Nat /\ leftover_size \in Nat /\ size \in Nat /\ end \in Int
      /\ start + 2 <= end /\ end <= size /\ Len(sent) \in Nat /\ Before(from) \in Int
  BY DEF FlowAt, FlowTypes, size, Before, HeaderSize
<1>4. UNCHANGED << size, Position, Before(from) >>
  BY <1>2 DEF size, Position, Before
<1>5. start' \in Nat /\ start <= start' /\ start' <= size + 1
  BY <1>1, <1>3
<1> PICK b : b = Parsed(from)'
  OBVIOUS
<1>6. b \in Int /\ Parsed(from) <= b
  <2>1. b = Before(from) + (IF start' > leftover_size + 1 THEN start' ELSE leftover_size + 1)
    BY <1>2, <1>4 DEF Parsed
  <2>2. Parsed(from) = Before(from) + (IF start > leftover_size + 1 THEN start ELSE leftover_size + 1)
    BY <1>2 DEF Parsed
  <2> QED BY <1>3, <1>5, <2>1, <2>2
<1> DEFINE r == [gnss |-> 0, radar |-> radar]
<1>7. received' = Append(received, r)
  BY <1>1 DEF PushPair
<1>8. r \in Reading /\ r.gnss = 0
  BY StreamAssumption DEF Reading
<1> HIDE DEF r
<1>9. TakenUpTo(r, sent, b, Position)
  BY <1>8 DEF TakenUpTo
<1>10. received' \in Seq(Reading) /\ Taken(from)'
  BY <1>2, <1>4, <1>6, <1>7, <1>8, <1>9, OneMoreGoesOn
<1>11. FlowTypes' /\ Rest' /\ Short' /\ Stretches(from)'
  BY <1>2, <1>4, <1>5, <1>10 DEF FlowAt, FlowTypes, Rest, Short, Stretches
<1>12. leftover_size <= start
  <2>1. NUL # Garbage /\ start + 1 \in 1 .. size
    BY <1>2, <1>3 DEF NUL, Garbage
  <2>2. ~ (start + 1 <= leftover_size)
    BY <1>2, <2>1 DEF FlowAt, Stretches
  <2> QED BY <1>3, <2>2
<1> QED BY <1>10, <1>11, <1>12 DEF FlowAt

\* What is left when the parser stops is less than a frame, or there is garbage.
LEMMA StopFlows == ASSUME NEW from \in Int, FlowAt(from), StopParsing PROVE FlowAt(from)'
<1>1. /\ UNCHANGED << sent, wire, temp, start, leftover_size, received >>
      /\ pc = "parse" /\ pc' = "check"
  BY DEF StopParsing, EnterCheck, streamVars
<1>2. /\ start \in Nat /\ leftover_size \in Nat /\ size \in Nat /\ Len(sent) \in Nat
      /\ Position \in Int /\ Parsed(from) \in Int
  BY DEF FlowAt, FlowTypes, size, Position, Parsed, Before
<1>3. UNCHANGED << size, Position >>
  BY <1>1 DEF size, Position
<1>4. size - start <= 3 \/ \E i \in 1 .. size : temp[i] = Garbage
  <2>1. CASE size - start < HeaderSize
    BY <1>2, <2>1 DEF HeaderSize
  <2>2. CASE HeaderHere
    <3>1. PICK n \in Nat \ {0} : /\ FrameEnd = start + 3
                                 /\ FrameEnd < size => temp[start + 4] = ETX
      BY <1>1, <2>2, FrameHere
    <3>2. FrameEnd + 1 = start + 4
      BY <1>2, <3>1
    <3>3. FrameEnd < size => ~ \E b \in Terminators : b # ETX
      BY <3>1, <3>2 DEF Terminators
    <3>4. ~ (FrameEnd < size) \/ GarbageHere
      <4>1. FrameEnd > size => ~ (FrameEnd < size)
        BY <1>2, <3>1
      <4>2. CASE HeaderHere /\ FrameEnd <= size /\ \E b \in Terminators : b # ETX
        BY <3>3, <4>2
      <4>3. CASE size - start < HeaderSize
        BY <2>2, <4>3, <1>2 DEF HeaderHere, HeaderSize
      <4> QED BY <4>1, <4>2, <4>3 DEF StopParsing
    <3>5. ~ GarbageHere
      <4>1. STX # Garbage
        BY DEF STX, Garbage
      <4> QED BY <2>2, <4>1 DEF HeaderHere, GarbageHere
    <3> QED BY <1>2, <3>1, <3>4, <3>5
  <2>3. CASE GarbageHere
    <3>1. start + 1 \in 1 .. size /\ temp[start + 1] = Garbage
      BY <1>2, <2>3 DEF GarbageHere, HeaderSize
    <3> QED BY <3>1
  <2> QED BY <2>1, <2>2, <2>3 DEF StopParsing
<1>5. FlowTypes' /\ Rest' /\ Stretches(from)' /\ Short'
  BY <1>1, <1>3, <1>4 DEF FlowAt, FlowTypes, Rest, Stretches, Short
<1> PICK b : b = Parsed(from)'
  OBVIOUS
<1> PICK q : q = Position'
  OBVIOUS
<1>6. Position + 1 <= b /\ b \in Int /\ Position <= q /\ q \in Int
  <2>1. b = Position + 1
    BY <1>1, <1>3 DEF Parsed
  <2> QED BY <1>2, <1>3, <2>1
<1>7. Taken(from)'
  BY <1>1, <1>2, <1>6, TakenGoesOn
<1> QED BY <1>5, <1>7 DEF FlowAt

\* The length of the rest is kept, and temp is forgotten.
LEMMA KeepFlows == ASSUME NEW from \in Int, FlowAt(from), KeepLeftover PROVE FlowAt(from)'
<1>1. /\ UNCHANGED << sent, wire, received >> /\ temp' = << >> /\ start' = 0
      /\ pc = "check" /\ pc' = "loop"
      /\ leftover_size' = IF start < size THEN size - start ELSE 0
  BY DEF KeepLeftover, detectorVars
<1>2. start \in Nat /\ size \in Nat /\ Len(sent) \in Nat /\ Position \in Int
  BY DEF FlowAt, FlowTypes, size, Position
<1>3. Position' = Position /\ Parsed(from)' = Parsed(from) /\ Parsed(from) = Position + 1
  BY <1>1 DEF Position, Parsed
<1>4. leftover_size' \in Nat
  BY <1>1, <1>2
<1>5. FlowTypes' /\ Rest' /\ Stretches(from)' /\ Short'
  BY <1>1, <1>3, <1>4 DEF FlowAt, FlowTypes, Rest, Stretches, Short
<1> PICK b : b = Parsed(from)'
  OBVIOUS
<1> PICK q : q = Position'
  OBVIOUS
<1>6. Parsed(from) <= b /\ b \in Int /\ Position <= q /\ q \in Int
  BY <1>2, <1>3
<1>7. Taken(from)'
  BY <1>1, <1>2, <1>6, TakenGoesOn
<1> QED BY <1>5, <1>7 DEF FlowAt

\* Nothing has been sent at first.
LEMMA FlowStarts == ASSUME Init PROVE FlowInv
<1>1. /\ sent = << >> /\ wire = << >> /\ temp = << >> /\ start = 0 /\ leftover_size = 0
      /\ received = << >> /\ pc = "stackInit"
  BY DEF Init, DetectorInit
<1>2. FlowAt(0)
  BY <1>1 DEF FlowAt, FlowTypes, Rest, Stretches, Short, Taken, TakenFrom
<1> QED BY <1>2 DEF FlowInv

\* Every step keeps the invariant of the stream.
LEMMA FlowStepKeeps == ASSUME FlowInv, [Next]_vars PROVE FlowInv'
<1> PICK from \in Int : FlowAt(from)
  BY DEF FlowInv
<1>1. CASE Send
  BY <1>1, SendFlows DEF FlowInv
<1>2. CASE Read
  BY <1>2, ReadFlows
<1>3. CASE ParsePair
  BY <1>3, ParseFlows DEF FlowInv
<1>4. CASE SkipByte
  BY <1>4, SkipFlows DEF FlowInv
<1>5. CASE StopParsing
  BY <1>5, StopFlows DEF FlowInv
<1>6. CASE KeepLeftover
  BY <1>6, KeepFlows DEF FlowInv
<1>7. CASE MakeUpPair
  BY <1>7, MakeUpFlows DEF FlowInv
<1>8. ASSUME UNCHANGED << sent, wire, temp, start, leftover_size, received >>,
             pc' = pc \/ pc' \notin {"parse", "check"}
      PROVE  FlowInv'
  BY <1>8, FlowGoesOn DEF FlowInv
<1>9. CASE GiveUp \/ StackRuns \/ Create \/ ConnectFails \/ Connect \/ NegativeLength
  BY <1>8, <1>9
  DEF GiveUp, StackRuns, Create, ConnectFails, Connect, NegativeLength, detectorVars, streamVars
<1>10. CASE StartParking \/ Park \/ Finish
  BY <1>8, <1>10 DEF StartParking, Park, Finish, detectorVars, connVars, streamVars
<1>11. CASE Check
  BY <1>8, <1>11 DEF Check, CheckFront, LeaveCheck, connVars, streamVars
<1>12. CASE UNCHANGED vars
  BY <1>8, <1>12 DEF vars, detectorVars, connVars, streamVars
<1> QED BY <1>1, <1>2, <1>3, <1>4, <1>5, <1>6, <1>7, <1>9, <1>10, <1>11, <1>12 DEF Next, App

\* It holds in every reachable state.
LEMMA FlowInvariance == Spec => []FlowInv
  BY FlowStarts, FlowStepKeeps, PTL DEF Spec

\* process_buffer() of TestApp.c: however the stream is cut into reads and whatever garbage
\* that makes, a pair that was sent is taken at most once, in the order of sending, and none
\* is put together from parts of others.
THEOREM PairsParsedInOrder == Spec => []PairsParsedOnceInOrder
<1>1. FlowInv => PairsParsedOnceInOrder
  BY DEF FlowInv, FlowAt, Taken, TakenFrom, TakenUpTo, PairsParsedOnceInOrder
<1> QED BY <1>1, FlowInvariance, PTL

\* process_buffer() of TestApp.c: after a buffer without garbage less than a frame is left
\* over, however much there was before, and after any number of reads.
THEOREM TextRestIsShort == Spec => TextLeavesLessThanAFrame
<1>1. ASSUME FlowInv, [Next]_vars
      PROVE  [pc = "check" /\ pc' = "loop" /\ (\A i \in 1 .. size : temp[i] # Garbage)
              => leftover_size' < FrameSize]_vars
  <2> SUFFICES ASSUME pc = "check", pc' = "loop", \A i \in 1 .. size : temp[i] # Garbage
               PROVE  leftover_size' < FrameSize
    OBVIOUS
  <2>1. PICK from \in Int : FlowAt(from)
    BY <1>1 DEF FlowInv
  <2>2. FrameSize = 4 /\ start \in Nat /\ size \in Nat /\ size - start <= 3
    BY <2>1 DEF FlowAt, FlowTypes, Short, size, FrameSize, Frame
  <2>3. KeepLeftover
    <3>1. ~ UNCHANGED pc /\ ~ Send /\ ~ UNCHANGED vars
      BY DEF Send, vars, connVars
    <3>2. App
      BY <1>1, <3>1 DEF Next
    <3>3. ~ (GiveUp \/ StackRuns \/ Create \/ ConnectFails \/ Connect \/ Read)
      BY DEF GiveUp, StackRuns, Create, ConnectFails, Connect, Read
    <3>4. ~ (ParsePair \/ MakeUpPair \/ NegativeLength \/ SkipByte \/ StopParsing)
      BY DEF ParsePair, MakeUpPair, NegativeLength, SkipByte, StopParsing
    <3>5. ~ (Check \/ StartParking \/ Park \/ Finish)
      BY DEF Check, StartParking, Park, Finish, connVars
    <3> QED BY <3>2, <3>3, <3>4, <3>5 DEF App
  <2>4. leftover_size' = IF start < size THEN size - start ELSE 0
    BY <2>3 DEF KeepLeftover
  <2> QED BY <2>2, <2>4
<1> QED BY <1>1, FlowInvariance, PTL DEF Spec, TextLeavesLessThanAFrame

-----------------------------------------------------------------------------
(* The commands. *)

Orders == {"drive", "stop", "left", "right", "brake", "reverse", "in", "out", "end"}
Begun == IF parkingSpotDetected THEN << "drive", "stop" >> ELSE << "drive" >>

\* Where run() is and what it has sent by then.
ScriptInv ==
    /\ parkingSpotDetected \in BOOLEAN /\ checking \in BOOLEAN
    /\ pc \in {"stackInit", "create", "connect", "loop", "parse", "check", "park", "exit", "fault"}
    /\ pc \in {"stackInit", "create", "connect"} =>
          commands = << >> /\ ~ parkingSpotDetected /\ ~ checking /\ socket # "closed"
    /\ pc \in {"loop", "parse", "check", "fault"} => commands = Begun /\ socket # "closed"
    /\ checking => pc = "check" /\ ~ parkingSpotDetected
    /\ pc = "park" => /\ parkingSpotDetected /\ socket # "closed"
                      /\ \E k \in 2 .. Len(Script) : commands = SubSeq(Script, 1, k)
    /\ pc = "exit" => \/ commands = << >> /\ ~ parkingSpotDetected
                      \/ commands = Script /\ parkingSpotDetected

\* The script, its beginnings, and its one command to stop.
LEMMA ScriptFacts ==
    /\ Script \in Seq(Orders) /\ Len(Script) = 11
    /\ SubSeq(Script, 1, 1) = << "drive" >> /\ SubSeq(Script, 1, 2) = << "drive", "stop" >>
    /\ SubSeq(Script, 1, 11) = Script /\ SubSeq(Script, 1, 0) = << >>
    /\ \A i \in 1 .. 11 : Script[i] = "stop" <=> i = 2
<1> DEFINE a == << "drive", "stop" >>
           b == ParkingScript
           c == << "end" >>
<1>1. a \in Seq(Orders) /\ b \in Seq(Orders) /\ c \in Seq(Orders)
      /\ Len(a) = 2 /\ Len(b) = 8 /\ Len(c) = 1 /\ a[1] = "drive" /\ a[2] = "stop"
      /\ (\A i \in 1 .. 8 : b[i] # "stop") /\ c[1] # "stop"
  BY DEF ParkingScript, Orders
<1>2. Script = (a \o b) \o c
  BY DEF Script
<1> HIDE DEF a, b, c
<1>3. a \o b \in Seq(Orders) /\ Len(a \o b) = 10
      /\ \A i \in 1 .. 10 : (a \o b)[i] = IF i <= 2 THEN a[i] ELSE b[i - 2]
  <2>1. /\ a \o b \in Seq(Orders) /\ Len(a \o b) = Len(a) + Len(b)
        /\ \A i \in 1 .. Len(a) + Len(b) :
              (a \o b)[i] = IF i <= Len(a) THEN a[i] ELSE b[i - Len(a)]
    BY ONLY <1>1, ConcatProperties
  <2>2. Len(a) + Len(b) = 10
    BY <1>1
  <2> QED BY <1>1, <2>1, <2>2
<1>4. (a \o b) \o c \in Seq(Orders) /\ Len((a \o b) \o c) = 11
      /\ \A i \in 1 .. 11 : ((a \o b) \o c)[i] = IF i <= 10 THEN (a \o b)[i] ELSE c[i - 10]
  <2> DEFINE d == a \o b
  <2>1. d \in Seq(Orders) /\ Len(d) = 10
    BY <1>3
  <2> HIDE DEF d
  <2>2. /\ d \o c \in Seq(Orders) /\ Len(d \o c) = Len(d) + Len(c)
        /\ \A i \in 1 .. Len(d) + Len(c) :
              (d \o c)[i] = IF i <= Len(d) THEN d[i] ELSE c[i - Len(d)]
    BY ONLY <1>1, <2>1, ConcatProperties
  <2>3. Len(d) + Len(c) = 11
    BY <1>1, <2>1
  <2> QED BY <1>1, <2>1, <2>2, <2>3 DEF d
<1>5. Script \in Seq(Orders) /\ Len(Script) = 11 /\ Script[1] = "drive" /\ Script[2] = "stop"
  <2>1. 1 \in 1 .. 10 /\ 2 \in 1 .. 10 /\ 1 \in 1 .. 11 /\ 2 \in 1 .. 11 /\ 1 <= 2 /\ 1 <= 10
        /\ 2 <= 10 /\ 2 <= 2
    OBVIOUS
  <2> QED BY <1>1, <1>2, <1>3, <1>4, <2>1
<1>6. SubSeq(Script, 1, 1) = << "drive" >>
  <2> DEFINE s == SubSeq(Script, 1, 1)
             t == << "drive" >>
  <2>1. s \in Seq(Orders) /\ Len(s) = 1 /\ s[1] = "drive"
    BY <1>5
  <2>2. t \in Seq(Orders) /\ Len(t) = 1 /\ t[1] = "drive"
    BY DEF Orders
  <2> HIDE DEF s, t
  <2>3. s = t
    BY <2>1, <2>2, SeqEqual
  <2> QED BY <2>3 DEF s, t
<1>7. SubSeq(Script, 1, 2) = << "drive", "stop" >>
  <2> DEFINE s == SubSeq(Script, 1, 2)
  <2>1. s \in Seq(Orders) /\ Len(s) = 2 /\ s[1] = "drive" /\ s[2] = "stop"
    BY <1>5
  <2> HIDE DEF s
  <2>2. s = a
    BY <1>1, <2>1, SeqEqual
  <2> QED BY <2>2 DEF s, a
<1>8. SubSeq(Script, 1, 11) = Script
  BY <1>5, SubSeqFull
<1>9. SubSeq(Script, 1, 0) = << >>
  BY <1>5
<1>10. \A i \in 1 .. 11 : Script[i] = "stop" <=> i = 2
  <2> SUFFICES ASSUME NEW i \in 1 .. 11 PROVE Script[i] = "stop" <=> i = 2
    OBVIOUS
  <2>1. CASE i <= 2
    <3>1. i = 1 \/ i = 2
      BY <2>1
    <3> QED BY <1>1, <1>5, <3>1
  <2>2. CASE i > 2 /\ i <= 10
    <3>1. i \in 1 .. 10 /\ i - 2 \in 1 .. 8 /\ ~ (i <= 2) /\ i # 2
      BY <2>2
    <3> QED BY <1>1, <1>2, <1>3, <1>4, <2>2, <3>1
  <2>3. CASE i = 11
    <3>1. i - 10 = 1 /\ ~ (i <= 10) /\ i # 2
      BY <2>3
    <3> QED BY <1>1, <1>2, <1>4, <3>1
  <2> QED BY <2>1, <2>2, <2>3
<1> QED BY <1>5, <1>6, <1>7, <1>8, <1>9, <1>10

\* One more command of the script.
LEMMA ScriptGoesOn ==
    ASSUME NEW k \in 0 .. 10
    PROVE  /\ Len(SubSeq(Script, 1, k)) = k
           /\ Append(SubSeq(Script, 1, k), Script[k + 1]) = SubSeq(Script, 1, k + 1)
<1>1. Script \in Seq(Orders) /\ Len(Script) = 11
  BY ScriptFacts
<1> HIDE DEF Script
<1>2. Len(SubSeq(Script, 1, k)) = k
  BY <1>1
<1>3. Append(SubSeq(Script, 1, k), Script[k + 1]) = SubSeq(Script, 1, k + 1)
  BY <1>1
<1> QED BY <1>2, <1>3

\* park() sends the next command.
LEMMA ParkFollows == ASSUME ScriptInv, Park PROVE ScriptInv'
<1>1. /\ pc = "park" /\ pc' = "park" /\ Len(commands) < Len(Script)
      /\ commands' = Append(commands, Script[Len(commands) + 1])
      /\ UNCHANGED << parkingSpotDetected, checking, socket >>
  BY DEF Park, connVars
<1>2. Len(Script) = 11
  BY ScriptFacts
<1>3. PICK k \in 2 .. 11 : commands = SubSeq(Script, 1, k)
  BY <1>1, <1>2 DEF ScriptInv
<1>4. k \in 0 .. 10 /\ Len(commands) = k
  <2>1. k = 11 => commands = Script
    BY <1>3, ScriptFacts
  <2> QED BY <1>1, <1>2, <1>3, <2>1, ScriptGoesOn
<1>5. commands' = SubSeq(Script, 1, k + 1)
  BY <1>1, <1>3, <1>4, ScriptGoesOn
<1>6. k + 1 \in 2 .. Len(Script)
  BY <1>2, <1>3, <1>4
<1> HIDE DEF Script
<1>7. \E i \in 2 .. Len(Script) : commands' = SubSeq(Script, 1, i)
  BY <1>5, <1>6
<1> QED BY <1>1, <1>7 DEF ScriptInv

\* checkForParking sends the command to stop when it finds a parking spot.
LEMMA CheckFollows == ASSUME ScriptInv, Check PROVE ScriptInv'
<1>1. pc = "check" /\ checking /\ ~ parkingSpotDetected /\ UNCHANGED << pc, socket >>
  BY DEF Check, CheckFront, LeaveCheck, connVars, ScriptInv
<1>2. commands = << "drive" >> /\ socket # "closed"
  BY <1>1 DEF ScriptInv, Begun
<1>3. CASE LeaveCheck
  BY <1>1, <1>3 DEF LeaveCheck, ScriptInv, Begun
<1>4. CASE CheckFront
  <2>1. PICK g, r : Compare(g, r)
    BY <1>4 DEF CheckFront
  <2>2. PICK spot \in BOOLEAN : /\ parkingSpotDetected' = (parkingSpotDetected \/ spot)
                                /\ commands' = IF spot THEN Append(commands, "stop") ELSE commands
                                /\ checking' = ~ spot
    <3> DEFINE s == /\ ~ isZeroTuple(r)
                    /\ ~ (isZeroTuple(lastDetectedVehicle.main)
                          /\ isZeroTuple(lastDetectedVehicle.other))
                    /\ IsParkingSpot(calculateEuclideanDistance(lastDetectedVehicle.other, r))
    <3>1. s \in BOOLEAN
      BY DEF isZeroTuple, IsParkingSpot
    <3>2. /\ parkingSpotDetected' = (parkingSpotDetected \/ s)
          /\ commands' = IF s THEN Append(commands, "stop") ELSE commands
          /\ checking' = ~ s
      BY <2>1 DEF Compare
    <3> HIDE DEF s
    <3> QED BY <3>1, <3>2
  <2>3. Append(<< "drive" >>, "stop") = << "drive", "stop" >>
    <3> DEFINE s == << "drive" >>
               t == << "drive", "stop" >>
    <3>1. s \in Seq(Orders) /\ Len(s) = 1 /\ s[1] = "drive"
          /\ t \in Seq(Orders) /\ Len(t) = 2 /\ t[1] = "drive" /\ t[2] = "stop" /\ "stop" \in Orders
      BY DEF Orders
    <3> HIDE DEF s, t
    <3>2. /\ Append(s, "stop") \in Seq(Orders) /\ Len(Append(s, "stop")) = 2
          /\ Append(s, "stop")[1] = "drive" /\ Append(s, "stop")[2] = "stop"
      <4>1. /\ Append(s, "stop") \in Seq(Orders) /\ Len(Append(s, "stop")) = Len(s) + 1
            /\ \A i \in 1 .. Len(s) : Append(s, "stop")[i] = s[i]
            /\ Append(s, "stop")[Len(s) + 1] = "stop"
        <5>1. \A q \in Seq(Orders), x \in Orders :
                 /\ Append(q, x) \in Seq(Orders) /\ Len(Append(q, x)) = Len(q) + 1
                 /\ \A i \in 1 .. Len(q) : Append(q, x)[i] = q[i]
                 /\ Append(q, x)[Len(q) + 1] = x
          BY AppendProperties
        <5> QED BY ONLY <3>1, <5>1
      <4> DEFINE u == Append(s, "stop")
      <4> HIDE DEF u
      <4>2. u \in Seq(Orders) /\ Len(u) = 1 + 1 /\ u[1] = "drive" /\ u[1 + 1] = "stop"
        <5>1. 1 \in 1 .. 1
          OBVIOUS
        <5> QED BY <3>1, <4>1, <5>1 DEF u
      <4>3. 1 + 1 = 2
        OBVIOUS
      <4> QED BY <4>2, <4>3 DEF u
    <3>3. Append(s, "stop") = t
      BY <3>1, <3>2, SeqEqual
    <3> QED BY <3>3 DEF s, t
  <2>4. CASE spot
    BY <1>1, <1>2, <2>2, <2>3, <2>4 DEF ScriptInv, Begun
  <2>5. CASE ~ spot
    BY <1>1, <1>2, <2>2, <2>5 DEF ScriptInv, Begun
  <2> QED BY <2>4, <2>5
<1> QED BY <1>3, <1>4 DEF Check

\* The first command is the one to drive.
LEMMA ConnectFollows == ASSUME ScriptInv, Connect PROVE ScriptInv'
<1>1. Append(<< >>, "drive") = << "drive" >>
  OBVIOUS
<1>2. /\ pc = "connect" /\ pc' = "loop" /\ commands = << >> /\ ~ parkingSpotDetected
      /\ commands' = Append(<< >>, "drive")
      /\ UNCHANGED << parkingSpotDetected, checking, socket >> /\ ~ checking /\ socket # "closed"
  BY DEF Connect, ScriptInv
<1> QED BY <1>1, <1>2 DEF ScriptInv, Begun

\* The socket is closed when all has been sent.
LEMMA FinishFollows == ASSUME ScriptInv, Finish PROVE ScriptInv'
<1>1. /\ pc = "park" /\ pc' = "exit" /\ Len(commands) = Len(Script) /\ parkingSpotDetected
      /\ UNCHANGED << commands, parkingSpotDetected, checking >> /\ ~ checking
  BY DEF Finish, detectorVars, ScriptInv
<1>2. Len(Script) = 11 /\ SubSeq(Script, 1, 11) = Script
  BY ScriptFacts
<1>3. PICK k \in 2 .. 11 : commands = SubSeq(Script, 1, k)
  BY <1>1, <1>2 DEF ScriptInv
<1>4. k \in 0 .. 10 => Len(commands) = k
  BY <1>3, ScriptGoesOn
<1>5. commands = Script
  BY <1>1, <1>2, <1>3, <1>4, SMTT(30)
<1> HIDE DEF Script
<1> QED BY <1>1, <1>5 DEF ScriptInv

\* Parking begins when a spot was found.
LEMMA StartParkingFollows == ASSUME ScriptInv, StartParking PROVE ScriptInv'
<1>1. /\ pc = "loop" /\ pc' = "park" /\ parkingSpotDetected /\ ~ checking
      /\ UNCHANGED << commands, parkingSpotDetected, checking, socket >>
      /\ commands = << "drive", "stop" >> /\ socket # "closed"
  BY DEF StartParking, detectorVars, ScriptInv, Begun
<1>2. 2 \in 2 .. Len(Script) /\ commands = SubSeq(Script, 1, 2)
  <2>1. Len(Script) = 11 /\ SubSeq(Script, 1, 2) = << "drive", "stop" >>
    BY ScriptFacts
  <2> HIDE DEF Script
  <2>2. 2 \in 2 .. 11
    OBVIOUS
  <2> QED BY <1>1, <2>1, <2>2
<1>3. \E k \in 2 .. Len(Script) : commands = SubSeq(Script, 1, k)
  BY <1>2
<1> HIDE DEF Script
<1> QED BY <1>1, <1>3 DEF ScriptInv

\* Nothing has been sent at first.
LEMMA ScriptStarts == ASSUME Init PROVE ScriptInv
<1>1. /\ pc = "stackInit" /\ socket = "none" /\ commands = << >>
      /\ parkingSpotDetected = FALSE /\ checking = FALSE
  BY DEF Init, DetectorInit
<1> QED BY <1>1 DEF ScriptInv

\* Every step keeps the invariant of the script.
LEMMA ScriptStepKeeps == ASSUME ScriptInv, [Next]_vars PROVE ScriptInv'
<1> HIDE DEF Script
<1>1. CASE Send \/ UNCHANGED vars
  <2>1. UNCHANGED << pc, socket, commands, parkingSpotDetected, checking >>
    BY <1>1 DEF Send, vars, detectorVars, connVars
  <2> QED BY <2>1 DEF ScriptInv, Begun
<1>2. CASE GiveUp \/ StackRuns \/ Create \/ ConnectFails
  BY <1>2 DEF GiveUp, StackRuns, Create, ConnectFails, detectorVars, ScriptInv, Begun
<1>3. CASE Connect
  BY <1>3, ConnectFollows
<1>4. CASE Read \/ KeepLeftover \/ NegativeLength
  <2>1. /\ pc \in {"loop", "check", "parse"} /\ ~ checking /\ pc' \in {"loop", "parse", "fault"}
        /\ UNCHANGED << commands, parkingSpotDetected, checking, socket >>
    <3>1. CASE Read
      <4>1. pc = "loop" /\ pc' \in {"loop", "parse", "fault"}
        BY <3>1 DEF Read, Receive
      <4> QED BY <3>1, <4>1 DEF Read, detectorVars, ScriptInv
    <3>2. CASE KeepLeftover \/ NegativeLength
      BY <3>2 DEF KeepLeftover, NegativeLength, detectorVars, ScriptInv
    <3> QED BY <1>4, <3>1, <3>2
  <2> QED BY <2>1 DEF ScriptInv, Begun
<1>5. CASE ParsePair \/ MakeUpPair \/ SkipByte \/ StopParsing
  <2>1. /\ pc = "parse" /\ UNCHANGED << socket, commands, parkingSpotDetected >>
        /\ \/ UNCHANGED << pc, checking >>
           \/ pc' = "check" /\ ~ parkingSpotDetected /\ checking' = TRUE
    BY <1>5
    DEF ParsePair, MakeUpPair, PushPair, SkipByte, StopParsing, EnterCheck, detectorVars, connVars
  <2>2. parkingSpotDetected \in BOOLEAN /\ checking = FALSE /\ commands = Begun
        /\ socket # "closed"
    BY <2>1 DEF ScriptInv
  <2>3. CASE UNCHANGED << pc, checking >>
    BY <2>1, <2>2, <2>3 DEF ScriptInv, Begun
  <2>4. CASE pc' = "check" /\ ~ parkingSpotDetected /\ checking' = TRUE
    BY <2>1, <2>2, <2>4 DEF ScriptInv, Begun
  <2> QED BY <2>1, <2>3, <2>4
<1>6. CASE Check
  BY <1>6, CheckFollows
<1>7. CASE StartParking
  BY <1>7, StartParkingFollows
<1>8. CASE Park
  BY <1>8, ParkFollows
<1>9. CASE Finish
  BY <1>9, FinishFollows
<1> QED BY <1>1, <1>2, <1>3, <1>4, <1>5, <1>6, <1>7, <1>8, <1>9 DEF Next, App

\* What has been sent is a beginning of the script.
LEMMA SentSoFar ==
    ASSUME ScriptInv
    PROVE  \E k \in 0 .. 11 : /\ commands = SubSeq(Script, 1, k) /\ Len(commands) = k
                              /\ k >= 2 <=> parkingSpotDetected
                              /\ socket = "closed" /\ commands # << >> => k = 11
<1>1. Len(Script) = 11 /\ Len(<< "drive" >>) = 1 /\ Len(<< "drive", "stop" >>) = 2
  BY ScriptFacts
<1>2. PICK k \in 0 .. 11 : /\ commands = SubSeq(Script, 1, k)
                           /\ k >= 2 <=> parkingSpotDetected
                           /\ socket = "closed" /\ commands # << >> => k = 11
  <2>1. CASE commands = << >> /\ ~ parkingSpotDetected
    <3>1. SubSeq(Script, 1, 0) = << >>
      BY ScriptFacts
    <3> HIDE DEF Script
    <3> QED BY <2>1, <3>1
  <2>2. CASE commands = Begun /\ socket # "closed"
    <3>1. CASE parkingSpotDetected
      <4>1. SubSeq(Script, 1, 2) = << "drive", "stop" >>
        BY ScriptFacts
      <4>2. 2 \in 0 .. 11 /\ 2 >= 2
        OBVIOUS
      <4> HIDE DEF Script
      <4> QED BY <2>2, <3>1, <4>1, <4>2 DEF Begun
    <3>2. CASE ~ parkingSpotDetected
      <4>1. SubSeq(Script, 1, 1) = << "drive" >>
        BY ScriptFacts
      <4>2. 1 \in 0 .. 11 /\ ~ (1 >= 2)
        OBVIOUS
      <4> HIDE DEF Script
      <4> QED BY <2>2, <3>2, <4>1, <4>2 DEF Begun
    <3> QED BY <3>1, <3>2
  <2>3. CASE parkingSpotDetected /\ socket # "closed"
             /\ \E k \in 2 .. Len(Script) : commands = SubSeq(Script, 1, k)
    <3>1. PICK k \in 2 .. 11 : commands = SubSeq(Script, 1, k)
      BY <1>1, <2>3
    <3>2. k \in 0 .. 11 /\ k >= 2
      OBVIOUS
    <3> HIDE DEF Script
    <3> QED BY <2>3, <3>1, <3>2
  <2>4. CASE commands = Script /\ parkingSpotDetected
    BY <2>4, ScriptFacts
  <2> QED BY <2>1, <2>2, <2>3, <2>4 DEF ScriptInv
<1>3. Len(commands) = k
  BY <1>1, <1>2, ScriptGoesOn, ScriptFacts
<1> QED BY <1>2, <1>3

\* run(), checkForParking() and park() of TestApp.c: the car is sent the documented commands
\* in their order and nothing else, the one to stop exactly when a parking spot is found,
\* and the whole sequence before the socket is closed.
THEOREM ScriptFollowed == Spec => []CommandsFollowScript
<1>1. ScriptInv => CommandsFollowScript
  <2> SUFFICES ASSUME ScriptInv PROVE CommandsFollowScript
    OBVIOUS
  <2>1. PICK k \in 0 .. 11 : /\ commands = SubSeq(Script, 1, k) /\ Len(commands) = k
                             /\ k >= 2 <=> parkingSpotDetected
                             /\ socket = "closed" /\ commands # << >> => k = 11
    BY SentSoFar
  <2>2. k = 11 => commands = Script
    BY <2>1, ScriptFacts
  <2> QED BY <2>1, <2>2 DEF CommandsFollowScript
<1> QED BY <1>1, ScriptStarts, ScriptStepKeeps, PTL DEF Spec

-----------------------------------------------------------------------------
(* The detector. *)

\* The pairs that wait were parsed out of this buffer.
RoomInv ==
    /\ pc = "parse" => vector.size = 0 \/ 3 * vector.size + leftover_size <= start
    /\ ~ parkingSpotDetected /\ pc \notin {"parse", "fault"} /\ ~ checking => vector.size = 0

AppInv == FlowInv /\ ScriptInv /\ DetectorInv /\ RoomInv

\* A pair, of garbage or not, takes at least three cells of the buffer.
LEMMA BatchFits ==
    ASSUME AppInv, pc = "parse", size - start >= 2, leftover_size <= start
    PROVE  /\ vector.size < MaxBatch /\ vector.size \in Nat /\ start \in Nat
           /\ leftover_size \in Nat /\ size \in Nat
           /\ vector.size = 0 \/ 3 * vector.size + leftover_size <= start
<1>1. start \in Nat /\ leftover_size \in Nat /\ size \in Nat /\ leftover_size <= size
      /\ size < BufferSize + leftover_size
  BY DEF AppInv, FlowInv, FlowAt, FlowTypes, Stretches, size
<1>2. vector.size \in Nat /\ (vector.size = 0 \/ 3 * vector.size + leftover_size <= start)
  BY HistoryFacts DEF AppInv, RoomInv
<1>3. MaxBatch \in Nat /\ BufferSize \in Nat /\ BufferSize < 3 * (MaxBatch + 1)
      /\ size - start >= 2
  BY ConstantFacts, StreamAssumption, BatchAssumption DEF HeaderSize
<1> HIDE DEF size
<1>4. CASE vector.size = 0
  BY <1>1, <1>3, <1>4
<1>5. CASE vector.size # 0
  BY <1>1, <1>2, <1>3, <1>5
<1> QED BY <1>1, <1>2, <1>4, <1>5

\* There is always room for the pair that is parsed.
LEMMA ParseHasRoom ==
    ASSUME AppInv, ParsePair
    PROVE  DetectorInv' /\ RoomInv' /\ vector'.size = vector.size + 1
<1>1. /\ pc = "parse" /\ HeaderHere /\ FrameEnd <= size /\ start' = FrameEnd + 1
      /\ UNCHANGED << lastDetectedVehicle, parkingSpotDetected, checking, leftover_size, pc >>
  BY DEF ParsePair, connVars
<1>2. PICK n \in Nat \ {0} : /\ leftover_size <= start /\ FrameEnd = start + 3
                             /\ temp[start + 3] = Text(n) /\ n <= Len(sent)
  BY <1>1, FrameHere DEF AppInv, FlowInv
<1>3. /\ start \in Nat /\ leftover_size \in Nat /\ vector.size \in Nat
      /\ vector.size < MaxBatch /\ sent \in Seq(Positions)
      /\ vector.size = 0 \/ 3 * vector.size + leftover_size <= start
  BY <1>1, <1>2, BatchFits DEF HeaderHere, HeaderSize, AppInv, FlowInv, FlowAt, FlowTypes
<1>4. PushPair(n, sent[n])
  <2>1. start + HeaderSize + 1 = start + 3
    BY <1>3 DEF HeaderSize
  <2>2. temp[start + HeaderSize + 1][2] = n
    BY <1>2, <2>1 DEF Text
  <2> QED BY <2>2 DEF ParsePair
<1>5. sent[n] \in Positions
  BY <1>2, <1>3
<1>6. DetectorInv' /\ vector'.size = vector.size + 1
  BY <1>1, <1>3, <1>4, <1>5, PushPairKeeps DEF AppInv
<1>7. RoomInv'
  <2>1. 3 * (vector.size + 1) + leftover_size <= start'
    BY <1>1, <1>2, <1>3
  <2> QED BY <1>1, <1>6, <2>1 DEF RoomInv
<1> QED BY <1>6, <1>7

\* And for the one that is made up.
LEMMA MakeUpHasRoom ==
    ASSUME AppInv, MakeUpPair
    PROVE  DetectorInv' /\ RoomInv'
<1>1. PICK end \in start + HeaderSize .. size, radar \in MadeUp :
         PushPair(0, radar) /\ start' = end + 1
  BY DEF MakeUpPair
<1>2. /\ pc = "parse" /\ size - start >= 2
      /\ UNCHANGED << lastDetectedVehicle, parkingSpotDetected, checking, leftover_size, pc >>
  BY DEF MakeUpPair, GarbageHere, HeaderSize, connVars
<1>3. leftover_size <= start
  BY MakeUpFlows DEF AppInv, FlowInv
<1>4. /\ start \in Nat /\ leftover_size \in Nat /\ vector.size \in Nat /\ size \in Nat
      /\ vector.size < MaxBatch
      /\ vector.size = 0 \/ 3 * vector.size + leftover_size <= start
  BY <1>2, <1>3, BatchFits
<1>5. DetectorInv' /\ vector'.size = vector.size + 1
  BY <1>1, <1>2, <1>4, PushPairKeeps, StreamAssumption DEF AppInv
<1>6. RoomInv'
  <2>1. end \in Int /\ start + 2 <= end
    BY <1>4 DEF HeaderSize
  <2>2. 3 * (vector.size + 1) + leftover_size <= start'
    BY <1>1, <1>3, <1>4, <2>1
  <2> QED BY <1>2, <1>5, <2>2 DEF RoomInv
<1> QED BY <1>5, <1>6

\* checkForParking empties the vectors, or finds a parking spot.
LEMMA CheckHasRoom ==
    ASSUME AppInv, Check
    PROVE  DetectorInv' /\ RoomInv'
<1>1. pc = "check" /\ UNCHANGED pc
  BY DEF Check, connVars
<1>2. CASE CheckFront
  <2>1. DetectorInv'
    BY <1>2, CheckFrontKeeps DEF AppInv
  <2>2. parkingSpotDetected' \/ checking'
    BY <1>2 DEF CheckFront, Compare
  <2> QED BY <1>1, <2>1, <2>2 DEF RoomInv
<1>3. CASE LeaveCheck
  <2>1. DetectorInv'
    BY <1>3, DetectorUntouched DEF AppInv, LeaveCheck
  <2>2. vector'.size = 0
    BY <1>3 DEF LeaveCheck, AppInv, DetectorInv, Waiting
  <2> QED BY <1>1, <2>1, <2>2 DEF RoomInv
<1> QED BY <1>2, <1>3 DEF Check

\* A byte is passed over.
LEMMA SkipHasRoom ==
    ASSUME AppInv, SkipByte
    PROVE  DetectorInv' /\ RoomInv'
<1>1. pc = "parse" /\ start' = start + 1 /\ UNCHANGED << detectorVars, leftover_size, pc >>
  BY DEF SkipByte, connVars
<1>2. DetectorInv'
  BY <1>1, DetectorUntouched DEF AppInv, detectorVars
<1>3. start \in Nat /\ leftover_size \in Nat /\ vector.size \in Nat
      /\ (vector.size = 0 \/ 3 * vector.size + leftover_size <= start)
  BY <1>1, HistoryFacts DEF AppInv, FlowInv, FlowAt, FlowTypes, RoomInv
<1>4. vector.size = 0 \/ 3 * vector.size + leftover_size <= start'
  BY <1>1, <1>3
<1> QED BY <1>1, <1>2, <1>4 DEF RoomInv, detectorVars

\* All other steps of the application leave the vectors alone, and begin a buffer or a
\* check, or go on where no pairs wait.
LEMMA OthersHaveRoom ==
    ASSUME AppInv,
           UNCHANGED << vector, vector_radar, lastDetectedVehicle, parkingSpotDetected, received >>,
           \/ UNCHANGED << checking, pc, start, leftover_size >>
           \/ pc \notin {"parse", "fault"} /\ UNCHANGED checking
              /\ (checking => pc' # "parse")
              /\ (pc' = "parse" => ~ parkingSpotDetected)
           \/ pc = "parse" /\ pc' = "check" /\ ~ parkingSpotDetected /\ checking' = TRUE
           \/ pc' = "fault" /\ UNCHANGED checking
    PROVE  DetectorInv' /\ RoomInv'
<1>1. DetectorInv'
  BY DetectorUntouched DEF AppInv
<1>2. RoomInv'
  <2>1. CASE UNCHANGED << checking, pc, start, leftover_size >>
    BY <2>1 DEF AppInv, RoomInv
  <2>2. CASE pc # "parse" /\ UNCHANGED checking /\ (checking => pc' # "parse")
             /\ (pc' = "parse" => ~ parkingSpotDetected) /\ pc # "fault"
    BY <2>2 DEF AppInv, RoomInv
  <2>3. CASE pc = "parse" /\ pc' = "check" /\ ~ parkingSpotDetected /\ checking' = TRUE
    BY <2>3 DEF AppInv, RoomInv
  <2>4. CASE pc' = "fault"
    BY <2>4 DEF RoomInv
  <2> QED BY <2>1, <2>2, <2>3, <2>4
<1> QED BY <1>1, <1>2

\* Every step keeps the whole invariant.
LEMMA AppStepKeeps == ASSUME AppInv, [Next]_vars PROVE AppInv'
<1>1. FlowInv' /\ ScriptInv'
  BY FlowStepKeeps, ScriptStepKeeps DEF AppInv
<1>2. DetectorInv' /\ RoomInv'
  <2>1. CASE ParsePair
    BY <2>1, ParseHasRoom
  <2>2. CASE Check
    BY <2>2, CheckHasRoom
  <2>3. CASE SkipByte
    BY <2>3, SkipHasRoom
  <2>4. CASE Send \/ UNCHANGED vars
    BY <2>4, OthersHaveRoom DEF Send, vars, detectorVars, streamVars, connVars
  <2>5. CASE GiveUp \/ StackRuns \/ Create \/ ConnectFails \/ Connect
    BY <2>5, OthersHaveRoom DEF GiveUp, StackRuns, Create, ConnectFails, Connect, detectorVars
  <2>6. CASE Read
    BY <2>6, OthersHaveRoom DEF Read, Receive, detectorVars, AppInv, ScriptInv
  <2>7. CASE KeepLeftover \/ StartParking \/ Finish
    BY <2>7, OthersHaveRoom DEF KeepLeftover, StartParking, Finish, detectorVars
  <2>8. CASE Park
    BY <2>8, OthersHaveRoom DEF Park, connVars, streamVars
  <2>9. CASE StopParsing
    BY <2>9, OthersHaveRoom DEF StopParsing, EnterCheck
  <2>10. CASE MakeUpPair
    BY <2>10, MakeUpHasRoom
  <2>11. CASE NegativeLength
    BY <2>11, OthersHaveRoom DEF NegativeLength, detectorVars
  <2> QED
    BY <2>1, <2>2, <2>3, <2>4, <2>5, <2>6, <2>7, <2>8, <2>9, <2>10, <2>11 DEF Next, App
<1> QED BY <1>1, <1>2 DEF AppInv

\* The vectors of run() are empty at first.
LEMMA AppStarts == ASSUME Init PROVE AppInv
<1>1. DetectorInit
  BY DEF Init
<1>2. DetectorInv
  BY <1>1, InitEstablishes DEF IInv
<1>3. vector.size = 0
  BY <1>1, NewVectorShape DEF DetectorInit
<1> QED BY <1>2, <1>3, FlowStarts, ScriptStarts DEF AppInv, RoomInv

\* The invariant holds in every reachable state.
LEMMA AppInvariance == Spec => []AppInv
  BY AppStarts, AppStepKeeps, PTL DEF Spec

\* process_buffer() and checkForParking() of TestApp.c: with the pairs that the parser takes
\* out of a stream cut anywhere, the dangling front pointers never mix two readings.
THEOREM AppVehicleIsAReading == Spec => []LastVehicleIsAReading
<1>1. AppInv => LastVehicleIsAReading
  BY DetectorFacts DEF AppInv
<1> QED BY <1>1, AppInvariance, PTL

\* checkForParking() in run() of TestApp.c: the car is stopped at most once, and only for a
\* gap of more than 12 metres between two vehicles that were parsed.
THEOREM AppStopsAreJustified == Spec => []StopIsJustified
<1>1. AppInv => StopIsJustified
  <2> SUFFICES ASSUME AppInv PROVE StopIsJustified
    OBVIOUS
  <2>1. parkingSpotDetected => Gap
    BY DetectorFacts DEF AppInv
  <2>2. PICK k \in 0 .. 11 : /\ commands = SubSeq(Script, 1, k) /\ Len(commands) = k
                             /\ k >= 2 <=> parkingSpotDetected
    BY SentSoFar DEF AppInv
  <2>3. \A i \in 1 .. k : commands[i] = "stop" <=> i = 2
    <3>1. Script \in Seq(Orders) /\ Len(Script) = 11
          /\ \A i \in 1 .. 11 : Script[i] = "stop" <=> i = 2
      BY ScriptFacts
    <3> HIDE DEF Script
    <3>2. \A i \in 1 .. k : SubSeq(Script, 1, k)[i] = Script[i] /\ i \in 1 .. 11
      BY <3>1
    <3> QED BY <2>2, <3>1, <3>2
  <2>4. parkingSpotDetected <=> 2 \in 1 .. k
    BY <2>2
  <2>5. parkingSpotDetected <=> \E n \in 1 .. Len(commands) : commands[n] = "stop"
    BY <2>2, <2>3, <2>4
  <2>6. \A m, n \in 1 .. Len(commands) : commands[m] = "stop" /\ commands[n] = "stop" => m = n
    BY <2>2, <2>3
  <2> QED BY <2>1, <2>5, <2>6 DEF StopIsJustified, Gap
<1> QED BY <1>1, AppInvariance, PTL

-----------------------------------------------------------------------------
(* A stream that is read message by message.                               *)

\* Every read is a whole message: with every vehicle shown twice, or just one.
Careful == reads \in {"twice", "alone"}

\* The ways of reading in which it is, whatever the road and however many pairs are sent.
Paired ==
    Careful =>
        /\ reads = "twice" => \A i \in DOMAIN sent : i % 2 = 0 => sent[i] = sent[i - 1]
        /\ reads = "alone" => Len(wire) <= FrameSize

\* A read is a whole message.
ByMessage == Careful /\ Read => ReadMessage

\* Every pair read is parsed, and nothing is ever left over: reads end with a frame and so
\* begin with one, and there is no garbage.
PairsInv ==
    /\ leftover_size = 0 /\ aligned /\ pc # "fault"
    /\ pc = "parse" => \A i \in 1 .. size : CellAt(temp[i], Position - size + i)
    /\ 4 * Len(received) = Position - (IF pc = "parse" THEN size - start ELSE 0)
    /\ pc = "parse" => \E a, k \in Nat : start = 4 * a /\ size = 4 * k /\ start <= size
    /\ pc = "check" => start = size
    /\ \A i \in 1 .. Len(received) : received[i].gnss = i
    /\ reads = "alone" => vector.size <= 1 /\ (pc = "parse" => size <= 4)

\* Where a frame begins, and where it ends.
LEMMA CellsInPlace ==
    ASSUME NEW c, NEW p \in Int, CellAt(c, p), NEW n \in Nat
    PROVE  /\ p = 4 * n - 3 => c = STX
           /\ c = ETX => \E k \in Nat \ {0} : p = 4 * k
<1>1. PICK k \in Nat \ {0} : \/ p = 4 * k - 3 /\ c = STX
                             \/ p = 4 * k - 2 /\ c = Length(1)
                             \/ p = 4 * k - 1 /\ c = Text(k)
                             \/ p = 4 * k     /\ c = ETX
  BY DEF CellAt
<1>2. STX # ETX /\ ETX # Length(1) /\ ETX # Text(k)
  BY DEF STX, ETX, Length, Text
<1> QED BY <1>1, <1>2

\* Types that the steps below need.
LEMMA AppTypes ==
    ASSUME AppInv
    PROVE  /\ sent \in Seq(Positions) /\ wire \in Seq(Cell) /\ temp \in Seq(Cell)
           /\ received \in Seq(Reading) /\ Len(received) \in Nat
           /\ Len(sent) \in Nat /\ Len(wire) \in Nat /\ size \in Nat /\ start \in Nat
           /\ Position = 4 * Len(sent) - Len(wire) /\ Position \in Int
           /\ vector.size \in Nat /\ vector.size <= Len(received)
<1>1. /\ sent \in Seq(Positions) /\ wire \in Seq(Cell) /\ temp \in Seq(Cell)
      /\ received \in Seq(Reading) /\ start \in Nat
  BY DEF AppInv, FlowInv, FlowAt, FlowTypes
<1>2. vector.size \in Nat /\ vector.size <= Len(received)
  BY HistoryFacts DEF AppInv
<1> QED BY <1>1, <1>2 DEF Position, size

\* What has been received is a beginning of what was sent.
LEMMA ReceivedIsSent ==
    ASSUME AppInv, PairsInv
    PROVE  /\ Len(received) <= Len(sent)
           /\ \A i \in 1 .. Len(received) : i \in 1 .. Len(sent) /\ received[i].radar = sent[i]
<1>1. \A i \in 1 .. Len(received) : i \in 1 .. Len(sent) /\ received[i].radar = sent[i]
  <2> PICK from \in Int : FlowAt(from)
    BY DEF AppInv, FlowInv
  <2>1. \A i \in 1 .. Len(received) : received[i].gnss = i /\ i # 0
    BY DEF PairsInv
  <2> QED BY <2>1 DEF FlowAt, Taken, TakenFrom, TakenUpTo
<1>2. Len(received) \in Nat /\ Len(sent) \in Nat
  BY AppTypes
<1>3. Len(received) \in 1 .. Len(received) \/ Len(received) = 0
  BY <1>2
<1> QED BY <1>1, <1>2, <1>3

\* While the parser is not at the end, there is a whole frame before it.
LEMMA WholeFrameHere ==
    ASSUME AppInv, PairsInv, pc = "parse", start # size
    PROVE  /\ HeaderHere /\ FrameEnd = start + 3 /\ start + 4 <= size
           /\ temp[start + 3] = Text(Len(received) + 1)
           /\ Terminators = {ETX} /\ ~ GarbageHere
<1>1. PICK a, k \in Nat : start = 4 * a /\ size = 4 * k /\ start <= size
  BY DEF PairsInv
<1>2. start + 4 <= size /\ start + 1 \in 1 .. size /\ size - start >= 2
  BY <1>1
<1>3. /\ Position - size + start = 4 * Len(received) /\ Len(received) \in Nat /\ start \in Nat
      /\ Position \in Int /\ size \in Nat
  BY AppTypes DEF PairsInv
<1>4. \A i \in 1 .. size : CellAt(temp[i], Position - size + i)
  BY DEF PairsInv
<1> DEFINE n == Len(received) + 1
<1>5. /\ start + 2 \in 1 .. size /\ start + 3 \in 1 .. size /\ start + 4 \in 1 .. size
      /\ n \in Nat /\ Position - size + (start + 1) = 4 * n - 3
      /\ Position - size + (start + 2) = 4 * n - 2
      /\ Position - size + (start + 3) = 4 * n - 1
      /\ Position - size + (start + 4) = 4 * n
  BY <1>2, <1>3
<1> HIDE DEF n
<1>6. /\ CellAt(temp[start + 1], 4 * n - 3) /\ CellAt(temp[start + 2], 4 * n - 2)
      /\ CellAt(temp[start + 3], 4 * n - 1) /\ CellAt(temp[start + 4], 4 * n)
  BY <1>2, <1>4, <1>5
<1>7. 4 * n - 3 \in Int /\ 4 * n - 2 \in Int /\ 4 * n - 1 \in Int /\ 4 * n \in Int
  BY <1>5
<1>8. temp[start + 1] = STX
  BY <1>5, <1>6, <1>7, CellsInPlace
<1>9. temp[start + 2] = Length(1) /\ temp[start + 3] = Text(n) /\ temp[start + 4] = ETX
  BY <1>5, <1>6, <1>7, CellsDiffer
<1>10. FrameEnd = start + 3
  <2>1. Length(1)[2] = 1
    BY DEF Length
  <2> QED BY <1>3, <1>9, <2>1 DEF FrameEnd, HeaderSize
<1>11. HeaderHere
  BY <1>2, <1>8 DEF HeaderHere, HeaderSize
<1>12. Terminators = {ETX}
  <2>1. FrameEnd < size /\ FrameEnd + 1 = start + 4
    BY <1>2, <1>3, <1>10
  <2> QED BY <1>9, <2>1 DEF Terminators
<1>13. ~ GarbageHere
  <2>1. STX # Garbage
    BY DEF STX, Garbage
  <2> QED BY <1>8, <2>1 DEF GarbageHere
<1> QED BY <1>2, <1>9, <1>10, <1>11, <1>12, <1>13 DEF n

\* So there is never garbage before the parser.
LEMMA NoGarbageHere == ASSUME AppInv, PairsInv, pc = "parse" PROVE ~ GarbageHere
<1>1. CASE start = size
  <2>1. ~ (size - start >= 2)
    BY <1>1, AppTypes
  <2> QED BY <2>1 DEF GarbageHere, HeaderSize
<1> QED BY <1>1, WholeFrameHere

\* A step that leaves the stream, the readings and the vector alone.
LEMMA PairsGoOn ==
    ASSUME PairsInv, UNCHANGED << streamVars, received, vector, reads >>,
           pc' = pc \/ (pc \notin {"parse", "check"} /\ pc' \notin {"parse", "check", "fault"})
    PROVE  PairsInv'
<1>1. UNCHANGED << sent, wire, aligned, temp, start, leftover_size, received, vector, reads >>
  BY DEF streamVars
<1>2. UNCHANGED << size, Position >>
  BY <1>1 DEF size, Position
<1> QED BY <1>1, <1>2 DEF PairsInv

\* The car sends one more frame.
LEMMA PairsSend == ASSUME AppInv, PairsInv, Send, UNCHANGED reads PROVE PairsInv'
<1>1. /\ UNCHANGED << aligned, temp, start, leftover_size, received, pc, vector >>
      /\ wire' = wire \o Frame(Len(sent) + 1)
  BY DEF Send, detectorVars, connVars
<1>2. PICK radar \in Positions : sent' = Append(sent, radar)
  BY DEF Send
<1>3. Len(sent') = Len(sent) + 1
  BY <1>2, AppTypes, AppendProperties
<1>4. Len(wire') = Len(wire) + 4
  <2> DEFINE f == Frame(Len(sent) + 1)
  <2>1. Len(sent) + 1 \in Nat \ {0}
    BY AppTypes
  <2>2. f \in Seq(Cell) /\ Len(f) = 4
    BY <2>1, FrameFacts
  <2>3. wire \in Seq(Cell) /\ wire' = wire \o f
    BY <1>1, AppTypes
  <2> HIDE DEF f
  <2>4. Len(wire \o f) = Len(wire) + Len(f)
    BY ONLY <2>2, <2>3, ConcatProperties
  <2> QED BY <2>2, <2>3, <2>4
<1>5. UNCHANGED << size, Position >>
  <2>1. Position' = 4 * Len(sent') - Len(wire')
    BY DEF Position
  <2> QED BY <1>1, <1>3, <1>4, <2>1, AppTypes DEF size
<1> QED BY <1>1, <1>5 DEF PairsInv

\* A read brings whole frames.
LEMMA PairsRead ==
    ASSUME AppInv, PairsInv, Read, ReadMessage, UNCHANGED reads, Careful, Paired
    PROVE  PairsInv'
<1>1. PICK n \in 1 .. Len(wire) : wire[n] = ETX /\ Receive(n, n, 0) /\ aligned'
  BY DEF ReadMessage
<1>2. /\ UNCHANGED << sent, leftover_size, received, vector >> /\ pc = "loop" /\ leftover_size = 0
  BY DEF Read, detectorVars, PairsInv
<1>3. /\ wire \in Seq(Cell) /\ Len(wire) \in Nat /\ n \in Nat /\ 1 <= n /\ n <= Len(wire)
      /\ Len(sent) \in Nat /\ Len(received) \in Nat /\ Position = 4 * Len(received)
      /\ Position = 4 * Len(sent) - Len(wire) /\ Position \in Int /\ n \in 0 .. Len(wire)
  BY <1>2, AppTypes DEF PairsInv
<1>4. /\ wire' = SubSeq(wire, n + 1, Len(wire)) /\ start' = 0 /\ pc' = "parse"
      /\ temp' = leftover \o SubSeq(wire, 1, n) \o [k \in 1 .. 0 |-> Garbage]
  <2>1. n + 0 # 0 /\ ~ (leftover_size > LeftoverSize)
    BY <1>2, <1>3, BatchAssumption
  <2> QED BY <1>1, <2>1 DEF Receive
<1>5. size' = n /\ \A i \in 1 .. n : temp'[i] = wire[i]
  <2>1. /\ Len(temp') = leftover_size + n + 0
        /\ \A i \in 1 .. leftover_size + n + 0 :
              temp'[i] = IF i <= leftover_size THEN NUL
                         ELSE IF i <= leftover_size + n THEN wire[i - leftover_size]
                         ELSE Garbage
    BY <1>2, <1>3, <1>4, WhatIsRead
  <2>2. leftover_size + n + 0 = n /\ leftover_size + n = n
    BY <1>2, <1>3
  <2>3. \A i \in 1 .. n : ~ (i <= leftover_size) /\ i <= n /\ i - leftover_size = i
    BY <1>2, <1>3
  <2> QED BY <2>1, <2>2, <2>3 DEF size
<1>6. Position' = Position + n
  <2>1. Len(wire') = Len(wire) - n
    BY <1>3, <1>4
  <2> QED BY <1>2, <1>3, <2>1 DEF Position
<1>7. \A i \in 1 .. Len(wire) : CellAt(wire[i], Position + i)
  BY DEF AppInv, FlowInv, FlowAt, Rest
<1>8. \A i \in 1 .. size' : CellAt(temp'[i], Position' - size' + i)
  <2>1. ASSUME NEW i \in 1 .. n PROVE CellAt(temp'[i], Position' - size' + i)
    <3>1. Position' - size' + i = Position + i /\ i \in 1 .. Len(wire)
      BY <1>3, <1>5, <1>6
    <3> QED BY <1>5, <1>7, <3>1
  <2> QED BY <1>5, <2>1
<1>9. PICK m \in Nat \ {0} : Position + n = 4 * m
  <2>1. CellAt(wire[n], Position + n) /\ Position + n \in Int
    BY <1>3, <1>7
  <2> QED BY <1>1, <2>1, CellsInPlace
<1>10. n = 4 * (m - Len(received)) /\ m - Len(received) \in Nat
  BY <1>3, <1>9
<1>11. \E a, k \in Nat : start' = 4 * a /\ size' = 4 * k /\ start' <= size'
  <2>1. start' = 4 * 0 /\ start' <= size' /\ 0 \in Nat
    BY <1>3, <1>4, <1>5
  <2>2. size' = 4 * (m - Len(received))
    BY <1>5, <1>10
  <2> QED BY <1>10, <2>1, <2>2
<1>12. reads' = "alone" => size' <= 4
  <2>1. reads = "alone" => Len(wire) <= FrameSize
    BY DEF Paired, Careful
  <2>2. FrameSize = 4
    BY DEF FrameSize, Frame
  <2> QED BY <1>3, <1>5, <2>1, <2>2
<1>13. 4 * Len(received') = Position' - (size' - start')
  <2>1. received' = received /\ Position' = 4 * Len(received) + n /\ size' - start' = n - 0
    BY <1>2, <1>3, <1>4, <1>5, <1>6
  <2> QED BY <1>3, <2>1
<1> QED BY <1>1, <1>2, <1>4, <1>8, <1>11, <1>12, <1>13 DEF PairsInv

\* The next frame is parsed.
LEMMA PairsParse ==
    ASSUME AppInv, AppInv', PairsInv, ParsePair, UNCHANGED reads
    PROVE  PairsInv'
<1> DEFINE L == Len(received)
<1>1. /\ UNCHANGED << sent, wire, aligned, temp, leftover_size, pc >> /\ pc = "parse"
      /\ HeaderHere /\ start' = FrameEnd + 1 /\ FrameEnd <= size
  BY DEF ParsePair, connVars
<1>2. PICK a, k \in Nat : start = 4 * a /\ size = 4 * k /\ start <= size
  BY <1>1 DEF PairsInv
<1>3. start # size
  BY <1>1, <1>2 DEF HeaderHere, HeaderSize
<1>4. /\ start' = start + 4 /\ start' <= size /\ temp[start + 3] = Text(L + 1)
      /\ leftover_size' = 0 /\ leftover_size = 0 /\ L \in Nat /\ start \in Nat
  <2>1. FrameEnd = start + 3 /\ start + 4 <= size /\ temp[start + 3] = Text(L + 1)
    BY <1>1, <1>3, WholeFrameHere
  <2>2. L \in Nat /\ start \in Nat
    BY AppTypes
  <2>3. leftover_size' = 0 /\ leftover_size = 0
    BY <1>1 DEF PairsInv
  <2>4. start' = start + 4
    BY <1>1, <2>1, <2>2
  <2> QED BY <2>1, <2>2, <2>3, <2>4
<1>5. UNCHANGED << size, Position >>
  BY <1>1 DEF size, Position
<1>6. received' = Append(received, [gnss |-> L + 1, radar |-> sent[L + 1]])
  <2>1. start + HeaderSize + 1 = start + 3
    BY <1>4 DEF HeaderSize
  <2>2. temp[start + HeaderSize + 1][2] = L + 1
    BY <1>4, <2>1 DEF Text
  <2> QED BY <2>2 DEF ParsePair, PushPair
<1>7. /\ Len(received') = L + 1 /\ received'[L + 1].gnss = L + 1
      /\ \A i \in 1 .. L : received'[i] = received[i]
  <2> DEFINE r == [gnss |-> L + 1, radar |-> sent[L + 1]]
  <2>1. r.gnss = L + 1 /\ received' = Append(received, r) /\ received \in Seq(Reading)
    BY <1>6, AppTypes
  <2> HIDE DEF r
  <2> QED BY <2>1
<1>8. \A i \in 1 .. Len(received') : received'[i].gnss = i
  <2>1. \A i \in 1 .. L + 1 : i \in 1 .. L \/ i = L + 1
    BY <1>4
  <2> QED BY <1>7, <2>1 DEF PairsInv
<1>9. 4 * Len(received') = Position' - (size' - start')
  <2>1. 4 * L = Position - (size - start) /\ size \in Nat /\ Position \in Int
    BY <1>1, AppTypes DEF PairsInv
  <2> HIDE DEF L
  <2> QED BY <1>4, <1>5, <1>7, <2>1
<1>10. \E b, c \in Nat : start' = 4 * b /\ size' = 4 * c /\ start' <= size'
  <2>1. start' = 4 * (a + 1) /\ size' = 4 * k /\ start' <= size' /\ a + 1 \in Nat
    BY <1>2, <1>4, <1>5
  <2> QED BY <2>1
<1>11. reads' = "alone" => vector'.size <= 1 /\ size' <= 4
  <2>1. vector'.size = 0 \/ 3 * vector'.size + leftover_size' <= start'
    BY <1>1 DEF AppInv, RoomInv
  <2>2. vector'.size \in Nat
    BY ConstantFacts DEF AppInv, DetectorInv, Waiting, Shape
  <2>3. reads' = "alone" => size <= 4
    BY <1>1 DEF PairsInv
  <2> QED BY <1>2, <1>4, <1>5, <2>1, <2>2, <2>3
<1> QED BY <1>1, <1>4, <1>5, <1>8, <1>9, <1>10, <1>11 DEF PairsInv

\* The parser stops at the end of the data.
LEMMA PairsStop ==
    ASSUME AppInv, PairsInv, StopParsing, UNCHANGED reads
    PROVE  PairsInv'
<1>1. /\ UNCHANGED << sent, wire, aligned, temp, start, leftover_size, received, vector >>
      /\ pc = "parse" /\ pc' = "check"
  BY DEF StopParsing, EnterCheck, streamVars
<1>2. UNCHANGED << size, Position >>
  BY <1>1 DEF size, Position
<1>3. start = size
  <2>1. SUFFICES ASSUME start # size PROVE FALSE
    OBVIOUS
  <2>2. HeaderHere /\ FrameEnd = start + 3 /\ start + 4 <= size /\ Terminators = {ETX}
        /\ ~ GarbageHere
    BY <1>1, <2>1, WholeFrameHere
  <2>3. ~ (size - start < HeaderSize) /\ ~ (FrameEnd > size)
    BY <2>2, AppTypes DEF HeaderSize
  <2> QED BY <2>2, <2>3 DEF StopParsing
<1>4. 4 * Len(received) = Position
  <2>1. 4 * Len(received) = Position - (size - start) /\ Position \in Int /\ size \in Nat
    BY <1>1, AppTypes DEF PairsInv
  <2> QED BY <1>3, <2>1
<1> QED BY <1>1, <1>2, <1>3, <1>4 DEF PairsInv

\* Nothing is left over.
LEMMA PairsKeep ==
    ASSUME AppInv, PairsInv, KeepLeftover, UNCHANGED reads
    PROVE  PairsInv'
<1>1. /\ UNCHANGED << sent, wire, aligned, received, vector >> /\ temp' = << >> /\ start' = 0
      /\ pc = "check" /\ pc' = "loop"
      /\ leftover_size' = IF start < size THEN size - start ELSE 0
  BY DEF KeepLeftover, detectorVars
<1>2. leftover_size' = 0
  BY <1>1, AppTypes DEF PairsInv
<1>3. UNCHANGED Position
  BY <1>1 DEF Position
<1> QED BY <1>1, <1>2, <1>3 DEF PairsInv

\* Every step of the application, or of the car's side, keeps it.
LEMMA PairsStepKeeps ==
    ASSUME AppInv, AppInv', PairsInv, [Next]_vars, ByMessage, UNCHANGED reads, Careful, Paired
    PROVE  PairsInv'
<1>1. CASE Send
  BY <1>1, PairsSend
<1>2. CASE Read
  BY <1>2, PairsRead DEF ByMessage
<1>3. CASE ParsePair
  BY <1>3, PairsParse
<1>4. CASE SkipByte
  <2>1. pc = "parse" /\ temp[start + 1] # STX /\ ~ HeaderHere
    BY <1>4 DEF SkipByte, HeaderHere
  <2>2. start = size
    BY <2>1, WholeFrameHere
  <2>3. ~ (size - start >= 2)
    BY <2>2, AppTypes
  <2> QED BY <1>4, <2>3 DEF SkipByte, HeaderSize
<1>5. CASE StopParsing
  BY <1>5, PairsStop
<1>6. CASE KeepLeftover
  BY <1>6, PairsKeep
<1>7. CASE GiveUp \/ StackRuns \/ Create \/ ConnectFails \/ Connect
  BY <1>7, PairsGoOn DEF GiveUp, StackRuns, Create, ConnectFails, Connect, detectorVars
<1>8. CASE StartParking \/ Park \/ Finish
  BY <1>8, PairsGoOn DEF StartParking, Park, Finish, detectorVars, connVars
<1>9. CASE Check
  <2>1. UNCHANGED << streamVars, connVars >> /\ (CheckFront \/ LeaveCheck)
    BY <1>9 DEF Check
  <2>2. CASE LeaveCheck
    BY <2>1, <2>2, PairsGoOn DEF LeaveCheck, connVars
  <2>3. CASE CheckFront
    <3>1. vector'.size = vector.size - 1 /\ received' = received
      BY <2>3, CheckFrontKeeps DEF AppInv, CheckFront
    <3>2. reads = "alone" /\ vector.size <= 1 => vector'.size <= 1
      BY <3>1, AppTypes
    <3>3. UNCHANGED << sent, wire, aligned, temp, start, leftover_size, pc >>
      BY <2>1 DEF streamVars, connVars
    <3>4. UNCHANGED << size, Position >>
      BY <3>3 DEF size, Position
    <3> QED BY <3>1, <3>2, <3>3, <3>4 DEF PairsInv
  <2> QED BY <2>1, <2>2, <2>3
<1>10. CASE UNCHANGED vars
  BY <1>10, PairsGoOn DEF vars, detectorVars, connVars
<1>11. CASE MakeUpPair \/ NegativeLength
  BY <1>11, NoGarbageHere DEF MakeUpPair, NegativeLength
<1> QED BY <1>1, <1>2, <1>3, <1>4, <1>5, <1>6, <1>7, <1>8, <1>9, <1>10, <1>11 DEF Next, App

\* Nothing has been sent at first.
LEMMA PairsStart == ASSUME Init PROVE PairsInv
<1>1. /\ sent = << >> /\ wire = << >> /\ received = << >> /\ leftover_size = 0
      /\ pc = "stackInit" /\ aligned
  BY DEF Init, DetectorInit
<1>2. Position = 0 /\ Len(received) = 0
  BY <1>1 DEF Position
<1>3. vector.size = 0
  BY NewVectorShape DEF Init, DetectorInit
<1> QED BY <1>1, <1>2, <1>3 DEF PairsInv

-----------------------------------------------------------------------------
(* What the documented algorithm knows after every reading.                *)

Known == [last : Positions, spot : BOOLEAN]

\* What it knows after one more reading.
DocStep(known, radar) ==
    IF known.spot \/ radar = 0 THEN known
    ELSE IF known.last = 0 THEN [last |-> radar, spot |-> FALSE]
    ELSE IF calculateEuclideanDistance(known.last, radar) > 4
         THEN [last |-> radar,
               spot |-> calculateEuclideanDistance(known.last, radar) > 12]
    ELSE known

\* f[n] is what it knows after the first n readings sent.
DocRun(f) ==
    /\ f \in [0 .. Len(sent) -> Known]
    /\ f[0] = [last |-> 0, spot |-> FALSE]
    /\ \A n \in 1 .. Len(sent) : f[n] = DocStep(f[n - 1], sent[n])
    /\ \A n \in 0 .. Len(sent) : f[n].spot => f[Len(sent)].spot

\* What the application knows.
Seen == [last |-> lastDetectedVehicle.other, spot |-> parkingSpotDetected]

\* The application knows what the algorithm knows after the readings that do not wait, or
\* already after one more: checkForParking looks at the reading behind the front.
Agrees(f) ==
    LET m == Len(received) - vector.size
    IN  IF parkingSpotDetected THEN f[Len(sent)].spot
        ELSE f[m] = Seen \/ (checking /\ vector.size > 0 /\ f[m + 1] = Seen)

SpotsInv == \E f : DocRun(f) /\ Agrees(f)

LEMMA DocStepFacts ==
    ASSUME NEW k \in Known, NEW r \in Positions
    PROVE  /\ DocStep(k, r) \in Known
           /\ k.spot => DocStep(k, r).spot
           /\ DocStep(DocStep(k, r), r) = DocStep(k, r)
<1> DEFINE d == calculateEuclideanDistance(k.last, r)
           near == [last |-> r, spot |-> FALSE]
           far == [last |-> r, spot |-> d > 12]
<1>1. r \in Int /\ calculateEuclideanDistance(r, r) = 0
  BY DetectorAssumption DEF calculateEuclideanDistance
<1>2. near \in Known /\ far \in Known
  BY DEF Known
<1>3. near.last = r /\ near.spot = FALSE /\ far.last = r /\ far.spot = (d > 12)
  OBVIOUS
<1>4. DocStep(k, r) = IF k.spot \/ r = 0 THEN k ELSE IF k.last = 0 THEN near
                      ELSE IF d > 4 THEN far ELSE k
  BY DEF DocStep
<1>5. DocStep(k, r) \in Known /\ (k.spot => DocStep(k, r).spot)
  <2> HIDE DEF near, far, d
  <2> QED BY <1>2, <1>4
<1>6. r # 0 => DocStep(near, r) = near /\ DocStep(far, r) = far
  <2> HIDE DEF near, far, d
  <2> QED BY <1>1, <1>3 DEF DocStep
<1>7. DocStep(DocStep(k, r), r) = DocStep(k, r)
  <2>1. CASE DocStep(k, r) = k
    BY <2>1
  <2>2. CASE r # 0 /\ (DocStep(k, r) = near \/ DocStep(k, r) = far)
    <3> HIDE DEF near, far, d
    <3> QED BY <1>6, <2>2
  <2> HIDE DEF near, far, d
  <2> QED BY <1>4, <2>1, <2>2
<1> QED BY <1>5, <1>7

\* The run of the algorithm: its parts, and where it stays when a reading is repeated.
LEMMA DocRunFacts ==
    ASSUME AppInv, NEW f, DocRun(f), NEW n \in 1 .. Len(sent)
    PROVE  /\ f[n - 1] \in Known /\ f[n] \in Known /\ sent[n] \in Positions
           /\ f[n] = DocStep(f[n - 1], sent[n])
           /\ DocStep(f[n], sent[n]) = f[n]
<1>1. n - 1 \in 0 .. Len(sent) /\ n \in 0 .. Len(sent) /\ sent \in Seq(Positions)
  BY AppTypes
<1>2. f[n - 1] \in Known /\ f[n] \in Known /\ sent[n] \in Positions
      /\ f[n] = DocStep(f[n - 1], sent[n])
  <2>1. f \in [0 .. Len(sent) -> Known] /\ f[n] = DocStep(f[n - 1], sent[n])
    BY DEF DocRun
  <2> QED BY <1>1, <2>1
<1>3. DocStep(DocStep(f[n - 1], sent[n]), sent[n]) = DocStep(f[n - 1], sent[n])
  BY ONLY <1>2, DocStepFacts
<1> QED BY <1>2, <1>3

\* checkForParking's comparison is one step of the algorithm.
LEMMA CompareIsDocStep ==
    ASSUME DetectorInv, ~ parkingSpotDetected, NEW gnss, NEW radar \in Positions,
           Compare(gnss, radar)
    PROVE  Seen' = DocStep(Seen, radar)
<1> DEFINE other == lastDetectedVehicle.other
           d == calculateEuclideanDistance(other, radar)
           new == radar # 0 /\ (other = 0 \/ d > 4)
           spot == radar # 0 /\ other # 0 /\ d > 12
<1>1. (lastDetectedVehicle.main = 0 /\ other = 0) <=> other = 0
  BY DEF DetectorInv, Remembered
<1>2. other \in Int /\ radar \in Int /\ d \in Int
  <2>1. other \in Int
    BY HistoryFacts, DetectorAssumption DEF DetectorInv, Remembered, Reading
  <2> QED BY <2>1, DetectorAssumption DEF calculateEuclideanDistance
<1>3. lastDetectedVehicle' = IF new THEN [main |-> gnss, other |-> radar]
                             ELSE lastDetectedVehicle
  BY <1>1 DEF Compare, isZeroTuple, IsNewVehicle
<1>4. parkingSpotDetected' = (parkingSpotDetected \/ spot)
  BY <1>1 DEF Compare, isZeroTuple, IsParkingSpot
<1>5. parkingSpotDetected = FALSE
  BY DEF DetectorInv, Decision
<1>6. lastDetectedVehicle'.other = (IF new THEN radar ELSE other)
      /\ parkingSpotDetected' = spot
  BY <1>3, <1>4, <1>5
<1>7. Seen' = [last |-> IF new THEN radar ELSE other, spot |-> spot]
  <2>1. Seen' = [last |-> lastDetectedVehicle'.other, spot |-> parkingSpotDetected']
    BY DEF Seen
  <2> HIDE DEF new, spot
  <2> QED BY <1>6, <2>1
<1>8. Seen = [last |-> other, spot |-> FALSE] /\ Seen.last = other /\ Seen.spot = FALSE
  BY <1>5 DEF Seen
<1>9. DocStep(Seen, radar)
      = IF radar = 0 THEN Seen
        ELSE IF other = 0 THEN [last |-> radar, spot |-> FALSE]
        ELSE IF d > 4 THEN [last |-> radar, spot |-> d > 12]
        ELSE Seen
  BY <1>8 DEF DocStep
<1>10. CASE radar = 0
  BY <1>7, <1>8, <1>9, <1>10
<1>11. CASE radar # 0 /\ other = 0
  BY <1>7, <1>9, <1>11
<1>12. CASE radar # 0 /\ other # 0 /\ d > 4
  <2>1. new = TRUE /\ spot = (d > 12)
    BY <1>12
  <2> HIDE DEF d, new, spot
  <2> QED BY <1>7, <1>9, <1>12, <2>1
<1>13. CASE radar # 0 /\ other # 0 /\ ~ (d > 4)
  <2>1. new = FALSE /\ spot = FALSE
    BY <1>2, <1>13
  <2> HIDE DEF d, new, spot
  <2> QED BY <1>7, <1>8, <1>9, <1>13, <2>1
<1> QED BY <1>10, <1>11, <1>12, <1>13

\* One turn of the loop of checkForParking compares one reading.
LEMMA CheckSees ==
    ASSUME AppInv, PairsInv, CheckFront
    PROVE  \E m \in 1 .. Len(received) :
               /\ m = (IF vector.size > 1 THEN FrontReading + 1 ELSE FrontReading)
               /\ Seen' = DocStep(Seen, sent[m])
               /\ m \in 1 .. Len(sent)
<1>1. DetectorInv /\ vector.size > 0 /\ ~ parkingSpotDetected
  BY DEF CheckFront, AppInv, DetectorInv, Decision
<1>2. PICK m \in 1 .. Len(received) :
          /\ m = (IF vector.size > 1 THEN FrontReading + 1 ELSE FrontReading)
          /\ FrontCell(Popped(vector)) = received[m].gnss
          /\ FrontCell(Popped(vector_radar)) = received[m].radar
  BY <1>1, PointersShowOneReading
<1>3. /\ PopFront(vector) = {Ok(Popped(vector))}
      /\ PopFront(vector_radar) = {Ok(Popped(vector_radar))}
  BY <1>1, PopFrontShifts DEF DetectorInv, Waiting
<1>4. Compare(received[m].gnss, received[m].radar)
  BY <1>2, <1>3 DEF CheckFront, Ok
<1>5. received[m].radar = sent[m] /\ m \in 1 .. Len(sent) /\ sent[m] \in Positions
  BY ReceivedIsSent, AppTypes
<1>6. Seen' = DocStep(Seen, sent[m])
  BY <1>1, <1>4, <1>5, CompareIsDocStep
<1> QED BY <1>2, <1>5, <1>6

-----------------------------------------------------------------------------
(* The application agrees with the algorithm.                              *)

\* A step that leaves the readings and the vehicle alone.
LEMMA SpotsGoOn ==
    ASSUME SpotsInv, checking => checking' \/ vector.size = 0,
           UNCHANGED << sent, received, vector, lastDetectedVehicle, parkingSpotDetected >>
    PROVE  SpotsInv'
<1>1. PICK f : DocRun(f) /\ Agrees(f)
  BY DEF SpotsInv
<1>2. DocRun(f)'
  BY <1>1 DEF DocRun
<1>3. ~ (0 > 0)
  OBVIOUS
<1>4. checking /\ vector.size > 0 => checking'
  BY <1>3
<1>5. Agrees(f)'
  BY <1>1, <1>4 DEF Agrees, Seen
<1> QED BY <1>2, <1>5 DEF SpotsInv

\* The car sends one more reading: the algorithm goes one step on.
LEMMA SpotsSend == ASSUME AppInv, PairsInv, SpotsInv, Send PROVE SpotsInv'
<1> DEFINE L == Len(sent)
<1>1. PICK f : DocRun(f) /\ Agrees(f)
  BY DEF SpotsInv
<1>2. PICK radar \in Positions : sent' = Append(sent, radar)
  BY DEF Send
<1>3. UNCHANGED << received, vector, lastDetectedVehicle, parkingSpotDetected, checking >>
  BY DEF Send, detectorVars
<1>4. L \in Nat /\ Len(sent') = L + 1 /\ sent'[L + 1] = radar
      /\ \A i \in 1 .. L : sent'[i] = sent[i]
  BY <1>2, AppTypes, AppendProperties
<1> DEFINE more == DocStep(f[L], radar)
<1> HIDE DEF L
<1>a. PICK g : g = [n \in 0 .. L + 1 |-> IF n <= L THEN f[n] ELSE more]
  OBVIOUS
<1>5. f[L] \in Known /\ f \in [0 .. L -> Known]
  BY <1>1, <1>4 DEF DocRun, L
<1>6. more \in Known /\ (f[L].spot => more.spot)
  BY <1>2, <1>5, DocStepFacts
<1>7. /\ g \in [0 .. L + 1 -> Known] /\ g[L + 1] = more
      /\ \A n \in 0 .. L : g[n] = f[n]
  <2> HIDE DEF more
  <2>1. \A n \in 0 .. L : n \in 0 .. L + 1 /\ n <= L
    BY <1>4
  <2>2. L + 1 \in 0 .. L + 1 /\ ~ (L + 1 <= L)
    BY <1>4
  <2>3. \A n \in 0 .. L + 1 : n <= L => n \in 0 .. L
    BY <1>4
  <2> QED BY <1>a, <1>5, <1>6, <2>1, <2>2, <2>3
<1>8. DocRun(g)'
  <2>1. ASSUME NEW n \in 1 .. L + 1 PROVE g[n] = DocStep(g[n - 1], sent'[n])
    <3>1. CASE n \in 1 .. L
      <4>1. n - 1 \in 0 .. L /\ n \in 0 .. L
        BY <1>4, <3>1
      <4>2. f[n] = DocStep(f[n - 1], sent[n])
        BY <1>1, <3>1 DEF DocRun, L
      <4> QED BY <1>4, <1>7, <3>1, <4>1, <4>2
    <3>2. CASE n = L + 1
      <4>1. n - 1 = L /\ L \in 0 .. L
        BY <1>4, <3>2
      <4> QED BY <1>4, <1>7, <3>2, <4>1
    <3>3. n \in 1 .. L \/ n = L + 1
      BY <1>4
    <3> QED BY <3>1, <3>2, <3>3
  <2>2. ASSUME NEW n \in 0 .. L + 1, g[n].spot PROVE g[L + 1].spot
    <3>1. CASE n \in 0 .. L
      <4>1. f[n].spot => f[L].spot
        BY <1>1, <3>1 DEF DocRun, L
      <4> HIDE DEF more
      <4> QED BY <1>6, <1>7, <2>2, <3>1, <4>1
    <3>2. CASE n = L + 1
      BY <2>2, <3>2
    <3>3. n \in 0 .. L \/ n = L + 1
      BY <1>4
    <3> QED BY <3>1, <3>2, <3>3
  <2>3. g[0] = [last |-> 0, spot |-> FALSE]
    <3>1. 0 \in 0 .. L
      BY <1>4
    <3> QED BY <1>1, <1>7, <3>1 DEF DocRun
  <2>4. g \in [0 .. Len(sent') -> Known]
    BY <1>4, <1>7
  <2>5. \A n \in 1 .. Len(sent') : g[n] = DocStep(g[n - 1], sent'[n])
    BY <1>4, <2>1
  <2>6. \A n \in 0 .. Len(sent') : g[n].spot => g[Len(sent')].spot
    BY <1>4, <2>2
  <2> QED BY <2>3, <2>4, <2>5, <2>6 DEF DocRun
<1>9. Agrees(g)'
  <2> HIDE DEF more
  <2> DEFINE m == Len(received) - vector.size
  <2>1. m \in 0 .. L /\ (vector.size > 0 => m + 1 \in 0 .. L)
    <3>1. Len(received) <= L
      BY ReceivedIsSent DEF L
    <3>2. vector.size \in Nat /\ vector.size <= Len(received) /\ Len(received) \in Nat
      BY AppTypes
    <3> QED BY <1>4, <3>1, <3>2
  <2>2. CASE parkingSpotDetected
    <3>1. f[L].spot
      BY <1>1, <2>2 DEF Agrees, L
    <3>2. g[Len(sent')].spot
      BY <1>4, <1>6, <1>7, <3>1
    <3>3. parkingSpotDetected'
      BY <1>3, <2>2
    <3> QED BY <3>2, <3>3 DEF Agrees
  <2>3. CASE ~ parkingSpotDetected
    <3>1. f[m] = Seen \/ (checking /\ vector.size > 0 /\ f[m + 1] = Seen)
      BY <1>1, <2>3 DEF Agrees
    <3>2. g[m] = f[m] /\ (vector.size > 0 => g[m + 1] = f[m + 1])
      <4> HIDE DEF m
      <4> QED BY <1>7, <2>1
    <3>3. g[m] = Seen \/ (checking /\ vector.size > 0 /\ g[m + 1] = Seen)
      <4> HIDE DEF m
      <4> QED BY <3>1, <3>2
    <3>4. ~ parkingSpotDetected' /\ Seen' = Seen /\ checking' = checking
          /\ vector' = vector /\ Len(received') - vector'.size = m
      BY <1>3, <2>3 DEF Seen
    <3> QED BY <3>3, <3>4 DEF Agrees
  <2> QED BY <2>2, <2>3
<1> QED BY <1>8, <1>9 DEF SpotsInv

\* One more pair waits.
LEMMA SpotsParse ==
    ASSUME AppInv, SpotsInv, ParsePair
    PROVE  SpotsInv'
<1>1. PICK f : DocRun(f) /\ Agrees(f)
  BY DEF SpotsInv
<1>2. /\ UNCHANGED << sent, lastDetectedVehicle, parkingSpotDetected, checking >>
      /\ pc = "parse" /\ ~ checking
  BY DEF ParsePair, connVars, AppInv, ScriptInv
<1>3. Len(received') = Len(received) + 1
  BY AppTypes, AppendProperties DEF ParsePair, PushPair
<1>4. vector'.size = vector.size + 1
  BY ParseHasRoom
<1>5. Len(received') - vector'.size = Len(received) - vector.size
  <2>1. Len(received) \in Nat /\ vector.size \in Nat
    BY AppTypes
  <2> QED BY <1>3, <1>4, <2>1
<1>6. DocRun(f)'
  BY <1>1, <1>2 DEF DocRun
<1>7. Agrees(f)'
  BY <1>1, <1>2, <1>5 DEF Agrees, Seen
<1> QED BY <1>6, <1>7 DEF SpotsInv

\* One turn of the loop of checkForParking.
LEMMA SpotsCheck ==
    ASSUME AppInv, PairsInv, SpotsInv, CheckFront, UNCHANGED sent, Careful, Paired
    PROVE  SpotsInv'
<1> DEFINE a == FrontReading
           z == vector.size
           L == Len(sent)
<1>1. PICK f : DocRun(f) /\ Agrees(f)
  BY DEF SpotsInv
<1>2. PICK m \in 1 .. Len(received) :
          /\ m = (IF z > 1 THEN a + 1 ELSE a)
          /\ Seen' = DocStep(Seen, sent[m])
          /\ m \in 1 .. Len(sent)
  BY CheckSees
<1>3. /\ z \in Nat /\ z > 0 /\ a \in Nat /\ 1 <= a /\ a <= L /\ L \in Nat
      /\ Len(received) - z = a - 1 /\ Len(received) - (z - 1) = a
      /\ (z > 1 => a + 1 <= L) /\ (a - 1) + 1 = a
  <2>1. z > 0 /\ a = Len(received) - z + 1
    BY DEF CheckFront, FrontReading
  <2> HIDE DEF a
  <2>2. /\ z \in Nat /\ z <= Len(received) /\ Len(received) \in Nat /\ L \in Nat
        /\ Len(received) <= L
    BY AppTypes, ReceivedIsSent
  <2> HIDE DEF z, L
  <2> QED BY <2>1, <2>2
<1>4. ~ parkingSpotDetected /\ checking
  BY DEF CheckFront, AppInv, DetectorInv, Decision
<1>5. received' = received /\ vector'.size = z - 1
  BY CheckFrontKeeps DEF AppInv, CheckFront
<1> HIDE DEF a, z, L
<1>6. f[a - 1] = Seen \/ f[a] = Seen
  BY <1>1, <1>3, <1>4 DEF Agrees, z
<1>7. f[a] = DocStep(f[a - 1], sent[a]) /\ DocStep(f[a], sent[a]) = f[a]
  <2>1. a \in 1 .. Len(sent)
    BY <1>3 DEF L
  <2> QED BY <1>1, <2>1, DocRunFacts
<1>8. z > 1 => f[a + 1] = DocStep(f[a], sent[a + 1])
  <2> SUFFICES ASSUME z > 1 PROVE f[a + 1] = DocStep(f[a], sent[a + 1])
    OBVIOUS
  <2>1. a + 1 \in 1 .. Len(sent) /\ (a + 1) - 1 = a
    BY <1>3 DEF L
  <2>2. f[a + 1] = DocStep(f[(a + 1) - 1], sent[a + 1])
    BY <1>1, <2>1, DocRunFacts
  <2> QED BY <2>1, <2>2
<1>9. f[a] = Seen' \/ (z > 1 /\ f[a + 1] = Seen')
  <2>1. CASE ~ (z > 1)
    BY <1>2, <1>6, <1>7, <2>1
  <2>2. CASE z > 1 /\ f[a] = Seen
    BY <1>2, <1>8, <2>2
  <2>3. CASE z > 1 /\ f[a - 1] = Seen
    <3>1. reads = "twice"
      <4>1. reads = "alone" => z <= 1
        BY DEF PairsInv, z
      <4> QED BY <1>3, <2>3, <4>1 DEF Careful
    <3>2. \A i \in 1 .. L : i % 2 = 0 => sent[i] = sent[i - 1]
      <4>1. DOMAIN sent = 1 .. L
        BY AppTypes DEF L
      <4> QED BY <3>1, <4>1 DEF Paired
    <3>3. CASE a % 2 = 0
      <4>1. a \in 1 .. L /\ a - 1 \in 1 .. L
        BY <1>3, <3>3
      <4>2. sent[a] = sent[a - 1]
        BY <3>2, <3>3, <4>1
      <4>3. DocStep(f[a - 1], sent[a - 1]) = f[a - 1]
        BY <1>1, <4>1, DocRunFacts DEF L
      <4> QED BY <1>2, <1>7, <1>8, <2>3, <4>2, <4>3
    <3>4. CASE a % 2 # 0
      <4>1. (a + 1) % 2 = 0 /\ a + 1 \in 1 .. L /\ (a + 1) - 1 = a
        BY <1>3, <2>3, <3>4
      <4>2. sent[a + 1] = sent[a]
        BY <3>2, <4>1
      <4> QED BY <1>2, <1>7, <2>3, <4>2
    <3> QED BY <3>3, <3>4
  <2> QED BY <1>6, <2>1, <2>2, <2>3
<1>10. DocRun(f)'
  BY <1>1 DEF DocRun
<1>11. CASE parkingSpotDetected'
  <2>1. PICK j \in 0 .. L : f[j] = Seen'
    BY <1>3, <1>9
  <2>2. f[j].spot
    <3>1. Seen'.spot = parkingSpotDetected'
      BY DEF Seen
    <3> QED BY <1>11, <2>1, <3>1
  <2>3. f[L].spot
    BY <1>1, <2>1, <2>2 DEF DocRun, L
  <2>4. Agrees(f)'
    BY <1>11, <2>3 DEF Agrees, L
  <2> QED BY <1>10, <2>4 DEF SpotsInv
<1>12. CASE ~ parkingSpotDetected'
  <2>1. checking'
    BY <1>12 DEF CheckFront, Compare
  <2>2. z > 1 => z - 1 > 0
    BY <1>3
  <2>3. Len(received') - vector'.size = a
    BY <1>3, <1>5
  <2>4. Agrees(f)'
    BY <1>5, <1>9, <1>12, <2>1, <2>2, <2>3 DEF Agrees
  <2> QED BY <1>10, <2>4 DEF SpotsInv
<1> QED BY <1>11, <1>12

\* Nothing has been seen at first.
LEMMA SpotsStart == ASSUME Init PROVE SpotsInv
<1> DEFINE f == [n \in 0 .. 0 |-> [last |-> 0, spot |-> FALSE]]
<1>1. sent = << >> /\ received = << >> /\ vector.size = 0 /\ ~ parkingSpotDetected
      /\ lastDetectedVehicle.other = 0 /\ parkingSpotDetected = FALSE
  BY NewVectorShape DEF Init, DetectorInit
<1>2. Len(sent) = 0 /\ Len(received) = 0 /\ 0 - 0 = 0
  BY <1>1
<1>3. f[0] = [last |-> 0, spot |-> FALSE] /\ [last |-> 0, spot |-> FALSE] \in Known
  BY DetectorAssumption DEF Known
<1>4. DocRun(f)
  <2>1. \A n \in 0 .. 0 : n = 0
    OBVIOUS
  <2>2. 1 .. 0 = {}
    OBVIOUS
  <2>3. f \in [0 .. 0 -> Known]
    BY <1>3
  <2> HIDE DEF f
  <2> QED BY <1>2, <1>3, <2>1, <2>2, <2>3 DEF DocRun
<1>5. Agrees(f)
  BY <1>1, <1>2, <1>3 DEF Agrees, Seen
<1> QED BY <1>4, <1>5 DEF SpotsInv

\* Every step keeps the agreement.
LEMMA SpotsStepKeeps ==
    ASSUME AppInv, PairsInv, SpotsInv, [Next]_vars, Careful, Paired
    PROVE  SpotsInv'
<1>1. CASE Send
  BY <1>1, SpotsSend
<1>2. CASE ParsePair
  BY <1>2, SpotsParse
<1>3. CASE Check
  <2>1. UNCHANGED sent /\ (CheckFront \/ LeaveCheck)
    BY <1>3 DEF Check, streamVars
  <2>2. CASE CheckFront
    BY <2>1, <2>2, SpotsCheck
  <2>3. CASE LeaveCheck
    <3>1. vector.size = 0
      BY <2>3 DEF LeaveCheck, AppInv, DetectorInv, Waiting
    <3> QED BY <2>1, <2>3, <3>1, SpotsGoOn DEF LeaveCheck
  <2> QED BY <2>1, <2>2, <2>3
<1>4. CASE StopParsing
  BY <1>4, SpotsGoOn DEF StopParsing, EnterCheck, streamVars
<1>5. CASE Read \/ SkipByte \/ KeepLeftover
  BY <1>5, SpotsGoOn DEF Read, SkipByte, KeepLeftover, detectorVars
<1>9. CASE MakeUpPair \/ NegativeLength
  BY <1>9, NoGarbageHere DEF MakeUpPair, NegativeLength
<1>6. CASE GiveUp \/ StackRuns \/ Create \/ ConnectFails \/ Connect
  BY <1>6, SpotsGoOn
  DEF GiveUp, StackRuns, Create, ConnectFails, Connect, detectorVars, streamVars
<1>7. CASE StartParking \/ Park \/ Finish
  BY <1>7, SpotsGoOn DEF StartParking, Park, Finish, detectorVars, streamVars
<1>8. CASE UNCHANGED vars
  BY <1>8, SpotsGoOn DEF vars, detectorVars, streamVars
<1> QED BY <1>1, <1>2, <1>3, <1>4, <1>5, <1>6, <1>7, <1>8, <1>9 DEF Next, App

-----------------------------------------------------------------------------
(* The run of the algorithm is the one that Documented defines.            *)

\* Induction over the natural numbers, for a set of them.
LEMMA Induction ==
    ASSUME NEW S, 0 \in S, \A n \in Nat : n \in S => n + 1 \in S
    PROVE  \A n \in Nat : n \in S
<1> DEFINE T == Nat \ S
           R == OpToRel(<, Nat)
<1>1. SUFFICES ASSUME T # {} PROVE FALSE
  OBVIOUS
<1>2. IsWellFoundedOn(R, Nat)
  BY NatLessThanWellFounded
<1>3. \A x, y \in Nat : x < y => << x, y >> \in R
  BY DEF OpToRel
<1> HIDE DEF R
<1>4. PICK x \in T : \A y \in T : << y, x >> \notin R
  <2>1. T \subseteq Nat
    OBVIOUS
  <2> HIDE DEF T
  <2> QED BY <1>1, <1>2, <2>1, WFMin
<1>5. x \in Nat /\ x # 0
  OBVIOUS
<1>6. x - 1 \in Nat /\ x - 1 < x /\ (x - 1) + 1 = x
  BY <1>5
<1>7. x - 1 \notin T
  BY <1>3, <1>4, <1>5, <1>6
<1> QED BY <1>5, <1>6, <1>7

\* What the algorithm of the README decides is what it knows after the last reading.
LEMMA DocumentedIsRun ==
    ASSUME AppInv, NEW f, DocRun(f)
    PROVE  Documented([i \in 1 .. Len(sent) |-> [gnss |-> i, radar |-> sent[i]]])
           = f[Len(sent)]
<1> DEFINE L == Len(sent)
           s == [i \in 1 .. L |-> [gnss |-> i, radar |-> sent[i]]]
           Recursion(g) ==
               g = [n \in 0 .. Len(s) |->
                      IF n = 0 THEN [last |-> 0, spot |-> FALSE]
                      ELSE LET before == g[n - 1]
                               radar  == s[n].radar
                               gap    == calculateEuclideanDistance(before.last, radar)
                           IN  IF before.spot \/ radar = 0 THEN before
                               ELSE IF before.last = 0 THEN [last |-> radar, spot |-> FALSE]
                               ELSE IF gap > 4 THEN [last |-> radar, spot |-> gap > 12]
                               ELSE before]
           run == CHOOSE g : Recursion(g)
           StepAt(g, n) == IF n = 0 THEN [last |-> 0, spot |-> FALSE]
                           ELSE DocStep(g[n - 1], sent[n])
<1>1. L \in Nat
  BY AppTypes
<1>2. Len(s) = L /\ \A n \in 1 .. L : s[n].radar = sent[n]
  <2> HIDE DEF L
  <2> QED BY <1>1
<1>3. Documented(s) = run[Len(s)]
  BY DEF Documented
<1>4. ASSUME NEW g PROVE Recursion(g) <=> g = [n \in 0 .. L |-> StepAt(g, n)]
  <2>1. ASSUME NEW n \in 0 .. L
        PROVE  (IF n = 0 THEN [last |-> 0, spot |-> FALSE]
                ELSE LET before == g[n - 1]
                         radar  == s[n].radar
                         gap    == calculateEuclideanDistance(before.last, radar)
                     IN  IF before.spot \/ radar = 0 THEN before
                         ELSE IF before.last = 0 THEN [last |-> radar, spot |-> FALSE]
                         ELSE IF gap > 4 THEN [last |-> radar, spot |-> gap > 12]
                         ELSE before) = StepAt(g, n)
    <3>1. n # 0 => n \in 1 .. L
      BY <1>1
    <3>2. n # 0 => s[n].radar = sent[n]
      BY <1>2, <3>1
    <3> HIDE DEF s, L
    <3> QED BY <3>2 DEF DocStep
  <2> HIDE DEF s
  <2> QED BY <1>2, <2>1
<1> HIDE DEF Recursion, s
<1>5. f = [n \in 0 .. L |-> StepAt(f, n)]
  <2>1. f = [n \in 0 .. L |-> f[n]]
    BY DEF DocRun
  <2>2. ASSUME NEW n \in 0 .. L PROVE f[n] = StepAt(f, n)
    <3>1. n # 0 => n \in 1 .. L
      BY <1>1
    <3> QED BY <3>1 DEF DocRun
  <2> HIDE DEF StepAt
  <2> QED BY <2>1, <2>2
<1>6. Recursion(f)
  BY <1>4, <1>5
<1>7. Recursion(run)
  BY <1>6
<1> HIDE DEF run
<1>8. run = [n \in 0 .. L |-> StepAt(run, n)]
  BY <1>4, <1>7
<1> DEFINE I == {n \in Nat : n <= L => run[n] = f[n]}
<1>9. 0 \in I
  <2>1. 0 \in 0 .. L
    BY <1>1
  <2>2. run[0] = StepAt(run, 0) /\ f[0] = StepAt(f, 0)
    <3> HIDE DEF StepAt, L
    <3> QED BY <1>5, <1>8, <2>1
  <2> QED BY <2>2
<1>10. ASSUME NEW n \in Nat, n \in I PROVE n + 1 \in I
  <2>1. SUFFICES ASSUME n + 1 <= L PROVE run[n + 1] = f[n + 1]
    OBVIOUS
  <2>2. n + 1 \in 0 .. L /\ n + 1 # 0 /\ (n + 1) - 1 = n /\ n <= L
    BY <1>1, <2>1
  <2>3. run[n + 1] = StepAt(run, n + 1) /\ f[n + 1] = StepAt(f, n + 1)
    <3> HIDE DEF StepAt, L
    <3> QED BY <1>5, <1>8, <2>2
  <2>4. run[n] = f[n]
    BY <1>10, <2>2
  <2> QED BY <2>2, <2>3, <2>4
<1>11. L \in I
  <2> HIDE DEF I, L
  <2> QED BY ONLY <1>1, <1>9, <1>10, Induction
<1>12. run[L] = f[L]
  BY <1>1, <1>11
<1> QED BY <1>2, <1>3, <1>12 DEF s

-----------------------------------------------------------------------------
(* From the stream to the decision.                                        *)

StreamSpotsInv == AppInv /\ Paired /\ (Careful => PairsInv /\ SpotsInv)

\* It holds at first.
LEMMA StreamSpotsStart == Init => StreamSpotsInv
<1> SUFFICES ASSUME Init PROVE StreamSpotsInv
  OBVIOUS
<1>1. AppInv /\ PairsInv /\ SpotsInv
  BY AppStarts, PairsStart, SpotsStart
<1>2. Paired
  <2>1. sent = << >> /\ wire = << >>
    BY DEF Init
  <2>2. Len(wire) = 0 /\ DOMAIN sent = {}
    BY <2>1
  <2>3. FrameSize = 4
    BY DEF FrameSize, Frame
  <2> QED BY <2>2, <2>3 DEF Paired
<1> QED BY <1>1, <1>2 DEF StreamSpotsInv

\* Every step keeps it.
LEMMA StreamSpotsStep ==
    ASSUME StreamSpotsInv, [Next]_vars, ByMessage, UNCHANGED reads, Paired'
    PROVE  StreamSpotsInv'
<1>1. AppInv'
  BY AppStepKeeps DEF StreamSpotsInv
<1>2. ASSUME Careful PROVE PairsInv' /\ SpotsInv'
  <2>1. AppInv /\ Paired /\ PairsInv /\ SpotsInv
    BY <1>2 DEF StreamSpotsInv
  <2> QED BY <1>1, <1>2, <2>1, PairsStepKeeps, SpotsStepKeeps
<1>3. Careful' => Careful
  BY DEF Careful
<1> QED BY <1>1, <1>2, <1>3 DEF StreamSpotsInv

\* It depends on nothing but these variables.
LEMMA StreamSpotsStutters == ASSUME StreamSpotsInv, UNCHANGED mcVars PROVE StreamSpotsInv'
<1>1. UNCHANGED << vars, reads >> /\ UNCHANGED << sent, wire, aligned >>
  BY DEF mcVars, vars, streamVars
<1>2. Paired'
  BY <1>1 DEF StreamSpotsInv, Paired, Careful
<1>3. ASSUME Careful PROVE PairsInv' /\ SpotsInv'
  <2>1. PairsInv /\ SpotsInv
    BY <1>3 DEF StreamSpotsInv
  <2>2. PairsInv'
    BY <1>1, <2>1, PairsGoOn DEF vars, detectorVars, connVars
  <2>3. SpotsInv'
    BY <1>1, <2>1, SpotsGoOn DEF vars, detectorVars, streamVars
  <2> QED BY <2>2, <2>3
<1>4. AppInv'
  BY <1>1, AppStepKeeps DEF StreamSpotsInv
<1>5. Careful' => Careful
  BY <1>1 DEF Careful
<1> QED BY <1>2, <1>3, <1>4, <1>5 DEF StreamSpotsInv

\* What it says when the buffer has been worked through.
LEMMA StreamSpotsDecided == StreamSpotsInv => WholeStreamSpotsFound
<1> SUFFICES ASSUME StreamSpotsInv, Careful, pc = "loop", wire = << >> \/ parkingSpotDetected
             PROVE  parkingSpotDetected
                    = Documented([i \in 1 .. Len(sent) |->
                                    [gnss |-> i, radar |-> sent[i]]]).spot
  BY DEF WholeStreamSpotsFound, StreamSpotsFound, Careful
<1>1. AppInv /\ PairsInv
  BY DEF StreamSpotsInv
<1>2. PICK f : DocRun(f) /\ Agrees(f)
  BY DEF StreamSpotsInv, SpotsInv
<1>3. Documented([i \in 1 .. Len(sent) |-> [gnss |-> i, radar |-> sent[i]]]) = f[Len(sent)]
  BY <1>1, <1>2, DocumentedIsRun
<1>4. f[Len(sent)].spot \in BOOLEAN /\ parkingSpotDetected \in BOOLEAN
  <2>1. Len(sent) \in 0 .. Len(sent)
    BY <1>1, AppTypes
  <2> QED BY <1>1, <1>2, <2>1 DEF DocRun, Known, AppInv, ScriptInv
<1>5. CASE parkingSpotDetected
  BY <1>2, <1>3, <1>4, <1>5 DEF Agrees
<1>6. CASE ~ parkingSpotDetected
  <2>1. ~ checking /\ vector.size = 0
    BY <1>1, <1>6 DEF AppInv, ScriptInv, RoomInv
  <2>2. Len(received) = Len(sent) /\ Len(received) - 0 = Len(received)
    <3>1. wire = << >> /\ Len(wire) = 0
      BY <1>6
    <3> QED BY <1>1, <3>1, AppTypes DEF PairsInv
  <2>3. f[Len(sent)] = Seen
    BY <1>2, <1>6, <2>1, <2>2 DEF Agrees
  <2>4. Seen.spot = parkingSpotDetected
    BY DEF Seen
  <2> QED BY <1>3, <2>3, <2>4
<1> QED BY <1>5, <1>6

\* A stream of pairs on any road, as many as there may be, read message by message in one
\* of the two ways.
RoadSpec ==
    Init /\ reads \in {"twice", "alone"}
         /\ [][[Next]_vars /\ ByMessage /\ UNCHANGED reads /\ Paired']_mcVars

\* run(), process_buffer() and checkForParking() of TestApp.c: when every read is a message of
\* one pair, or of pairs that show every vehicle twice, the application decides what the documented
\* algorithm decides on the positions that the car has sent, whatever the road and however
\* many they are, although the front pointers show the reading behind the front.
THEOREM RoadSpotsAreFound == RoadSpec => []WholeStreamSpotsFound
<1>1. StreamSpotsInv /\ [[Next]_vars /\ ByMessage /\ UNCHANGED reads /\ Paired']_mcVars
      => StreamSpotsInv'
  BY StreamSpotsStep, StreamSpotsStutters
<1> QED BY <1>1, StreamSpotsStart, StreamSpotsDecided, PTL DEF RoadSpec

\* The same of the roads and the lengths that are model-checked.
THEOREM StreamSpotsAreFound == MCSpec => []WholeStreamSpotsFound
<1>1. StreamSpotsInv /\ [MCApp \/ MCSend]_mcVars => StreamSpotsInv'
  <2> SUFFICES ASSUME StreamSpotsInv, [MCApp \/ MCSend]_mcVars PROVE StreamSpotsInv'
    OBVIOUS
  <2>1. CASE UNCHANGED mcVars
    BY <2>1, StreamSpotsStutters
  <2>2. CASE MCApp \/ MCSend
    <3>1. [Next]_vars /\ UNCHANGED reads /\ Stream'
      BY <2>2 DEF MCApp, MCSend, Next
    <3>2. Paired'
      BY <3>1 DEF Stream, Paired, Careful
    <3>3. ByMessage
      <4>1. CASE MCApp
        BY <4>1 DEF MCApp, ByMessage, Careful
      <4>2. CASE Send
        <5>1. Len(sent') = Len(sent) + 1 /\ Len(sent) \in Nat
          BY <4>2, AppTypes, AppendProperties DEF Send, StreamSpotsInv
        <5>2. ~ Read
          BY <5>1 DEF Read
        <5> QED BY <5>2 DEF ByMessage
      <4> QED BY <2>2, <4>1, <4>2 DEF MCSend
    <3> QED BY <3>1, <3>2, <3>3, StreamSpotsStep
  <2> QED BY <2>1, <2>2
<1>2. MCInit => StreamSpotsInv
  BY StreamSpotsStart DEF MCInit
<1> QED BY <1>1, <1>2, StreamSpotsDecided, PTL DEF MCSpec
=============================================================================
