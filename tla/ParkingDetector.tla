-------------------------- MODULE ParkingDetector --------------------------
(***************************************************************************)
(* The detection of a parking spot in components/TestApp/src/TestApp.c:    *)
(* the two vectors that process_buffer fills with parsed pairs, and        *)
(* checkForParking, which takes the pairs out again and compares the       *)
(* positions of detected vehicles.                                         *)
(*                                                                         *)
(* checkForParking takes pointers to the front elements (lines 64-65),     *)
(* pops both vectors (67-68) and reads through the pointers afterwards     *)
(* (71-88).  A pop moves the remaining elements down one cell, so the      *)
(* pointers then show the element behind the popped one, or the popped     *)
(* one itself when it was the last.                                        *)
(*                                                                         *)
(* Data: a radar position is its coordinate along the road, 0 being the    *)
(* zero tuple "nothing detected"; the GNSS position that belongs to the    *)
(* n-th reading is n (the car moves, so no two are equal).                 *)
(*                                                                         *)
(* Bounds: MaxReadings readings in a run, MaxBatch of them in one buffer.  *)
(***************************************************************************)
EXTENDS Scv

CONSTANTS Positions,       \* radar positions, 0 among them
          TupleSize,       \* sizeof(struct Tuple)
          VectorCapacity,  \* the 1000 that run() passes to scv_new
          MaxBatch,        \* pairs one buffer can hold
          MaxReadings

ASSUME DetectorAssumption ==
    /\ Positions \subseteq Int /\ 0 \in Positions
    /\ TupleSize \in Nat \ {0} /\ VectorCapacity \in Nat \ {0}
    /\ VectorCapacity < Limit(TupleSize)
    /\ MaxBatch \in Nat /\ MaxBatch <= VectorCapacity
    /\ MaxReadings \in Nat

VARIABLES vector,               \* GNSS positions waiting
          vector_radar,         \* radar positions waiting
          lastDetectedVehicle,
          parkingSpotDetected,
          checking,             \* the thread is in checkForParking
          commands,             \* the commands sent to the car
          received              \* history: the pairs parsed so far

detectorVars == << vector, vector_radar, lastDetectedVehicle,
                   parkingSpotDetected, checking, commands, received >>

isZeroTuple(position) == position = 0

\* One dimension, so the root of the square is the absolute value.
calculateEuclideanDistance(a, b) == IF a <= b THEN b - a ELSE a - b

\* Slips at the thresholds: >= for >.
NewVehicleFrom4(distance)  == distance >= 4
ParkingSpotFrom12(distance) == distance >= 12

\* The two thresholds of checkForParking, in metres.
IsNewVehicle(distance)  == distance > 4
IsParkingSpot(distance) == distance > 12

DetectorInit ==
    /\ vector = NewVector(TupleSize, VectorCapacity)
    /\ vector_radar = NewVector(TupleSize, VectorCapacity)
    /\ lastDetectedVehicle = [main |-> 0, other |-> 0]
    /\ parkingSpotDetected = FALSE
    /\ checking = FALSE
    /\ commands = << >>
    /\ received = << >>

\* process_buffer has parsed one pair: both halves are pushed, and the results
\* of scv_push_back are not looked at.
PushPair(gnss, radar) ==
    /\ \E r \in PushBack(vector_radar, << radar >>) : vector_radar' = r.vec
    /\ \E g \in PushBack(vector, << gnss >>) : vector' = g.vec
    /\ received' = Append(received, [gnss |-> gnss, radar |-> radar])

\* The car's sensors: a pair arrives while the buffer is being parsed.
Push ==
    /\ ~ checking /\ ~ parkingSpotDetected
    /\ Len(received) < MaxReadings /\ vector.size < MaxBatch
    /\ \E radar \in Positions : PushPair(Len(received) + 1, radar)
    /\ UNCHANGED << lastDetectedVehicle, parkingSpotDetected, checking, commands >>

\* process_buffer calls checkForParking after its loop.
EnterCheck ==
    /\ ~ checking /\ ~ parkingSpotDetected
    /\ checking' = TRUE
    /\ UNCHANGED << vector, vector_radar, lastDetectedVehicle,
                    parkingSpotDetected, commands, received >>

\* One or both vectors are empty: return.
LeaveCheck ==
    /\ checking
    /\ vector.size = 0 \/ vector_radar.size = 0
    /\ checking' = FALSE
    /\ UNCHANGED << vector, vector_radar, lastDetectedVehicle,
                    parkingSpotDetected, commands, received >>

\* The comparison of one detection with the last vehicle (lines 70-103).
Compare(gnss, radar) ==
    LET last     == lastDetectedVehicle
        distance == calculateEuclideanDistance(last.other, radar)
        first    == isZeroTuple(last.main) /\ isZeroTuple(last.other)
        spot     == ~ isZeroTuple(radar) /\ ~ first /\ IsParkingSpot(distance)
    IN  /\ lastDetectedVehicle' =
              IF ~ isZeroTuple(radar) /\ (first \/ IsNewVehicle(distance))
              THEN [main |-> gnss, other |-> radar] ELSE last
        /\ parkingSpotDetected' = (parkingSpotDetected \/ spot)
        /\ commands' = IF spot THEN Append(commands, "stop") ELSE commands
        /\ checking' = ~ spot

\* Slip: the GNSS position is read before the pop, the radar position after it.
CheckFrontMixed ==
    /\ checking /\ vector.size > 0 /\ vector_radar.size > 0
    /\ \E g \in PopFront(vector), r \in PopFront(vector_radar) :
          /\ vector' = g.vec
          /\ vector_radar' = r.vec
          /\ Compare(FrontCell(vector), FrontCell(r.vec))
    /\ UNCHANGED received

\* One turn of the loop of checkForParking.
CheckFront ==
    /\ checking /\ vector.size > 0 /\ vector_radar.size > 0
    /\ \E g \in PopFront(vector), r \in PopFront(vector_radar) :
          /\ vector' = g.vec
          /\ vector_radar' = r.vec
          /\ Compare(FrontCell(g.vec), FrontCell(r.vec))
    /\ UNCHANGED received

DetectorNext == Push \/ EnterCheck \/ LeaveCheck \/ CheckFront

DetectorSpec == DetectorInit /\ [][DetectorNext]_detectorVars

-----------------------------------------------------------------------------
(* What must hold.                                                         *)

\* Type of the state.
DetectorTypeOK ==
    /\ vector.size \in 0 .. VectorCapacity
    /\ vector_radar.size \in 0 .. VectorCapacity
    /\ lastDetectedVehicle.main \in Nat
    /\ lastDetectedVehicle.other \in Positions
    /\ parkingSpotDetected \in BOOLEAN /\ checking \in BOOLEAN

\* The vectors stay in step, and the vehicle remembered is a reading that was
\* received, its two halves being those of the same pair: the two dangling front
\* pointers of checkForParking never mix one pair's GNSS position with another
\* pair's radar position.
LastVehicleIsAReading ==
    /\ vector.size = vector_radar.size
    /\ ~ isZeroTuple(lastDetectedVehicle.other)
       => \E i \in 1 .. Len(received) :
             /\ received[i].gnss = lastDetectedVehicle.main
             /\ received[i].radar = lastDetectedVehicle.other

\* The car is stopped at most once, and only for a gap: two vehicles that were
\* both received, the second after the first, lie more than 12 metres apart.
StopIsJustified ==
    /\ parkingSpotDetected <=> \E n \in 1 .. Len(commands) : commands[n] = "stop"
    /\ \A m, n \in 1 .. Len(commands) :
          commands[m] = "stop" /\ commands[n] = "stop" => m = n
    /\ parkingSpotDetected
       => \E i, j \in 1 .. Len(received) :
             /\ i < j /\ received[i].radar # 0 /\ received[j].radar # 0
             /\ calculateEuclideanDistance(received[i].radar, received[j].radar) > 12

\* The algorithm the component's README describes, over a sequence of pairs: skip
\* zero detections, save the first one, and compare each next detection with the
\* last vehicle.
Documented(s) ==
    LET run[n \in 0 .. Len(s)] ==
            IF n = 0 THEN [last |-> 0, spot |-> FALSE]
            ELSE LET before == run[n - 1]
                     radar  == s[n].radar
                     gap    == calculateEuclideanDistance(before.last, radar)
                 IN  IF before.spot \/ radar = 0 THEN before
                     ELSE IF before.last = 0 THEN [last |-> radar, spot |-> FALSE]
                     ELSE IF gap > 4 THEN [last |-> radar, spot |-> gap > 12]
                     ELSE before
    IN  run[Len(s)]

\* When a buffer has been worked through, the application has found a parking
\* spot if and only if the documented algorithm finds one in the readings
\* received, and it remembers the same vehicle.
FindsDocumentedSpots ==
    ~ checking /\ (vector.size = 0 \/ parkingSpotDetected)
    => LET doc == Documented(received)
       IN  /\ parkingSpotDetected = doc.spot
           /\ lastDetectedVehicle.other = doc.last
=============================================================================
