----------------------------- MODULE BridgeProofs -----------------------------
(***************************************************************************)
(* Proofs about Bridge, for every number of ticks, chunk size, window and  *)
(* number of commands.                                                     *)
(*                                                                         *)
(* PairsInOrder.  A reading passes from arrived over points to the chunk   *)
(* of the sender, and from there to packed.  SensorInv says that what has  *)
(* not reached packed is at every place the next readings of its sensor,   *)
(* also while the list is being replaced by its rest, when readings are in *)
(* two places at once.  So the two lists never get out of step.            *)
(*                                                                         *)
(* CommandsNotRepeated.  A cell passes from wire over leftover_data to the *)
(* queue, and a command from there to the vehicle.  StreamInv says that    *)
(* each place holds older ones than the places before it and holds them in *)
(* order, whatever was cut, lost and decrypted to garbage.                 *)
(*                                                                         *)
(* WholeProcedureFollowed, for the instances of MCBridge that do not cut   *)
(* messages.  Told[n] is what the vehicle is told with the first n         *)
(* commands: a list that has to be shown to exist, by induction.  WholeInv *)
(* says that there is a number of commands taken so far, that the vehicle  *)
(* has been told exactly those, and that the queue and then the wire go on *)
(* with the next one.                                                      *)
(***************************************************************************)
EXTENDS MCBridge, SequenceTheorems, WellFoundedInduction, TLAPS

(* The sensors. *)

Counts(s, from) == \A i \in 1 .. Len(s) : s[i] = from + i - 1

SensorTypes ==
    /\ tick \in Nat /\ first \in [Sensors -> Nat]
    /\ arrived \in [Sensors -> Seq(Int)] /\ points \in [Sensors -> Seq(Int)]
    /\ rest \in [Sensors -> Seq(Int)] /\ chunk \in [Sensors -> Seq(Int)]
    /\ packed \in Seq(Int \X Int) /\ listening \subseteq Sensors /\ locked \subseteq Sensors

\* The sensors whose callback has not been installed yet, and the threads then.
Awaited == CASE main = "radar" -> Sensors [] main = "gnss" -> {"gnss"} [] OTHER -> {}
StartInv ==
    /\ main \in {"radar", "gnss", "start"} => sender = "none" /\ packed = << >>
    /\ \A s \in Awaited : s \notin listening /\ arrived[s] = << >> /\ points[s] = << >>

\* Who holds the locks while the lists are cut.
LockInv ==
    /\ sender = "gnss" => "radar" \in locked
    /\ sender \in {"slice", "assign"} => locked = Sensors

\* The reading with which the list begins, and the one that comes next.
Oldest(s) == first[s] + Len(packed) + (IF sender = "send" THEN MAX_DATA_POINTS ELSE 0)
Coming(s) == Oldest(s) + Len(points[s]) + Len(arrived[s])

InStep(s) ==
    /\ Counts(points[s], Oldest(s))
    /\ Counts(arrived[s], Oldest(s) + Len(points[s]))
    /\ s \in listening => Coming(s) = tick + 1
    /\ sender \in {"assign", "send"} =>
          Len(chunk[s]) = MAX_DATA_POINTS /\ Counts(chunk[s], first[s] + Len(packed))
    /\ sender = "assign" =>
          /\ Len(points[s]) = MAX_DATA_POINTS + Len(rest[s])
          /\ Counts(rest[s], first[s] + Len(packed) + MAX_DATA_POINTS)

SensorInv == \A s \in Sensors : InStep(s)

PairsInv == SensorTypes /\ StartInv /\ LockInv /\ SensorInv /\ PairsInOrder

-----------------------------------------------------------------------------
(* Lists of consecutive readings: one more, one less, and both parts of a cut. *)

LEMMA CountsAppend ==
    ASSUME NEW s \in Seq(Int), NEW from \in Int, Counts(s, from)
    PROVE  /\ Append(s, from + Len(s)) \in Seq(Int)
           /\ Len(Append(s, from + Len(s))) = Len(s) + 1
           /\ Counts(Append(s, from + Len(s)), from)
<1> DEFINE t == Append(s, from + Len(s))
<1>1. /\ Len(s) \in Nat /\ t \in Seq(Int) /\ Len(t) = Len(s) + 1 /\ t[Len(s) + 1] = from + Len(s)
      /\ \A i \in 1 .. Len(s) : t[i] = s[i]
  OBVIOUS
<1> HIDE DEF t
<1>2. ASSUME NEW i \in 1 .. Len(t)
      PROVE  t[i] = from + i - 1
  <2>1. CASE i = Len(s) + 1
    BY <1>1, <2>1
  <2>2. CASE i \in 1 .. Len(s)
    BY <1>1, <2>2 DEF Counts
  <2> QED BY <1>1, <2>1, <2>2
<1>3. Counts(t, from)
  BY <1>2 DEF Counts
<1> QED BY <1>1, <1>3 DEF t

LEMMA CountsTail ==
    ASSUME NEW s \in Seq(Int), NEW from \in Int, Counts(s, from), s # << >>
    PROVE  /\ Head(s) = from /\ Tail(s) \in Seq(Int) /\ Len(Tail(s)) = Len(s) - 1
           /\ Counts(Tail(s), from + 1)
  BY DEF Counts

LEMMA CountsCut ==
    ASSUME NEW s \in Seq(Int), NEW from \in Int, Counts(s, from),
           NEW m \in Nat, m <= Len(s)
    PROVE  /\ SubSeq(s, 1, m) \in Seq(Int) /\ Len(SubSeq(s, 1, m)) = m
           /\ Counts(SubSeq(s, 1, m), from)
           /\ SubSeq(s, m + 1, Len(s)) \in Seq(Int)
           /\ Len(SubSeq(s, m + 1, Len(s))) = Len(s) - m
           /\ Counts(SubSeq(s, m + 1, Len(s)), from + m)
<1>1. Len(s) \in Nat /\ m \in 0 .. Len(s)
  OBVIOUS
<1>2. /\ SubSeq(s, 1, m) \in Seq(Int) /\ Len(SubSeq(s, 1, m)) = m
      /\ \A i \in 1 .. m : SubSeq(s, 1, m)[i] = s[i]
  BY <1>1
<1>3. /\ SubSeq(s, m + 1, Len(s)) \in Seq(Int)
      /\ Len(SubSeq(s, m + 1, Len(s))) = Len(s) - m
      /\ \A i \in 1 .. Len(s) - m : SubSeq(s, m + 1, Len(s))[i] = s[m + i]
  BY <1>1
<1> QED BY <1>1, <1>2, <1>3 DEF Counts

\* What leaves the sensors, the lists and the sender alone.
sensorState == << tick, first, listening, arrived, points, sender, rest, chunk, packed, locked >>

\* A step that touches neither the sensors nor the sender.
LEMMA PairsUntouched ==
    ASSUME PairsInv, UNCHANGED sensorState, main' \notin {"radar", "gnss", "start"} \/ main' = main
    PROVE  PairsInv'
<1>1. UNCHANGED << tick, first, listening, arrived, points, sender, rest, chunk, packed, locked >>
  BY DEF sensorState
<1>2. SensorTypes' /\ LockInv' /\ PairsInOrder'
  BY <1>1 DEF PairsInv, SensorTypes, LockInv, PairsInOrder
<1>3. StartInv'
  BY <1>1 DEF PairsInv, StartInv, Awaited
<1>4. SensorInv'
  BY <1>1 DEF PairsInv, SensorInv, InStep, Oldest, Coming
<1> QED BY <1>2, <1>3, <1>4 DEF PairsInv

\* A tick is the next reading of every sensor whose callback is installed.
LEMMA TickKeeps == ASSUME PairsInv, Tick PROVE PairsInv'
<1>1. /\ tick' = tick + 1
      /\ arrived' = [s \in Sensors |-> IF s \in listening THEN Append(arrived[s], tick')
                                                          ELSE arrived[s]]
      /\ UNCHANGED << first, listening, points, sender, rest, chunk, packed, locked, main >>
  BY DEF Tick, senderVars, mainVars
<1>2. tick \in Nat /\ Len(packed) \in Nat /\ \A s \in Sensors :
         /\ arrived[s] \in Seq(Int) /\ points[s] \in Seq(Int)
         /\ Oldest(s) \in Int /\ Len(points[s]) \in Nat
  BY BridgeAssumption DEF PairsInv, SensorTypes, Oldest
<1>3. ASSUME NEW s \in Sensors
      PROVE  /\ arrived'[s] \in Seq(Int)
             /\ Counts(arrived'[s], Oldest(s) + Len(points[s]))
             /\ s \in listening => Oldest(s) + Len(points[s]) + Len(arrived'[s]) = tick + 2
  <2>1. CASE s \in listening
    <3>1. tick' = (Oldest(s) + Len(points[s])) + Len(arrived[s])
      BY <1>1, <2>1 DEF PairsInv, SensorInv, InStep, Coming
    <3>2. Oldest(s) + Len(points[s]) \in Int /\ Counts(arrived[s], Oldest(s) + Len(points[s]))
      BY <1>2 DEF PairsInv, SensorInv, InStep
    <3>3. arrived'[s] = Append(arrived[s], (Oldest(s) + Len(points[s])) + Len(arrived[s]))
      BY <1>1, <2>1, <3>1
    <3>4. /\ arrived'[s] \in Seq(Int) /\ Len(arrived'[s]) = Len(arrived[s]) + 1
          /\ Counts(arrived'[s], Oldest(s) + Len(points[s]))
      BY <1>2, <3>2, <3>3, CountsAppend
    <3>5. Len(arrived[s]) \in Nat /\ Oldest(s) \in Int /\ Len(points[s]) \in Nat /\ tick \in Nat
      BY <1>2
    <3>6. Oldest(s) + Len(points[s]) + Len(arrived'[s]) = tick + 2
      BY ONLY <1>1, <3>1, <3>4, <3>5
    <3> QED BY <3>4, <3>6
  <2>2. CASE s \notin listening
    BY <1>1, <1>2, <2>2 DEF PairsInv, SensorInv, InStep, Coming
  <2> QED BY <2>1, <2>2
<1>4. SensorTypes'
  BY <1>1, <1>2, <1>3 DEF PairsInv, SensorTypes
<1>5. LockInv' /\ PairsInOrder'
  BY <1>1 DEF PairsInv, LockInv, PairsInOrder
<1>6. SensorInv'
  <2>1. \A s \in Sensors : Oldest(s)' = Oldest(s) /\ points'[s] = points[s]
    BY <1>1 DEF Oldest
  <2> QED BY <1>1, <1>2, <1>3, <2>1 DEF PairsInv, SensorInv, InStep, Coming
<1>7. StartInv'
  <2>1. Awaited' = Awaited /\ Awaited \subseteq Sensors
    BY <1>1 DEF Awaited, Sensors
  <2>2. \A s \in Awaited : arrived'[s] = arrived[s]
    BY <1>1, <2>1 DEF PairsInv, StartInv
  <2> QED BY <1>1, <2>1, <2>2 DEF PairsInv, StartInv
<1> QED BY <1>4, <1>5, <1>6, <1>7 DEF PairsInv

\* What the invariant says of one sensor.
LEMMA Facts ==
    ASSUME PairsInv, NEW s \in Sensors
    PROVE  /\ arrived[s] \in Seq(Int) /\ points[s] \in Seq(Int) /\ rest[s] \in Seq(Int)
           /\ chunk[s] \in Seq(Int) /\ packed \in Seq(Int \X Int)
           /\ first[s] \in Nat /\ tick \in Nat
           /\ Len(packed) \in Nat /\ Len(points[s]) \in Nat /\ Len(arrived[s]) \in Nat
           /\ MAX_DATA_POINTS \in Nat /\ MAX_DATA_POINTS > 0
           /\ Oldest(s) \in Int /\ InStep(s)
  BY BridgeAssumption DEF PairsInv, SensorTypes, SensorInv, Oldest

\* A reading is stored while the sender does not hold the lock of its list.
LEMMA CallbackKeeps ==
    ASSUME PairsInv, NEW s \in Sensors, Callback(s)
    PROVE  PairsInv'
<1>1. /\ arrived[s] # << >> /\ s \notin locked
      /\ points' = [points EXCEPT ![s] = Append(@, Head(arrived[s]))]
      /\ arrived' = [arrived EXCEPT ![s] = Tail(@)]
      /\ UNCHANGED << tick, first, listening, sender, rest, chunk, packed, locked, main >>
  BY DEF Callback, senderVars, mainVars
<1>2. sender \notin {"slice", "assign"}
  BY <1>1 DEF PairsInv, LockInv
<1>3. /\ points'[s] \in Seq(Int) /\ Len(points'[s]) = Len(points[s]) + 1
      /\ Counts(points'[s], Oldest(s))
      /\ arrived'[s] \in Seq(Int) /\ Len(arrived'[s]) = Len(arrived[s]) - 1
      /\ Counts(arrived'[s], Oldest(s) + Len(points[s]) + 1)
  <2>1. /\ Head(arrived[s]) = Oldest(s) + Len(points[s])
        /\ Tail(arrived[s]) \in Seq(Int) /\ Len(Tail(arrived[s])) = Len(arrived[s]) - 1
        /\ Counts(Tail(arrived[s]), Oldest(s) + Len(points[s]) + 1)
    <3> DEFINE from == Oldest(s) + Len(points[s])
    <3>1. arrived[s] \in Seq(Int) /\ from \in Int /\ Counts(arrived[s], from)
      BY Facts DEF InStep
    <3> HIDE DEF from
    <3>2. /\ Head(arrived[s]) = from /\ Tail(arrived[s]) \in Seq(Int)
          /\ Len(Tail(arrived[s])) = Len(arrived[s]) - 1 /\ Counts(Tail(arrived[s]), from + 1)
      BY <1>1, <3>1, CountsTail
    <3> QED BY <3>2 DEF from
  <2>2. points[s] \in Seq(Int) /\ Oldest(s) \in Int /\ Counts(points[s], Oldest(s))
    BY Facts DEF InStep
  <2>3. points'[s] = Append(points[s], Oldest(s) + Len(points[s])) /\ arrived'[s] = Tail(arrived[s])
    BY <1>1, <2>1 DEF PairsInv, SensorTypes
  <2> QED BY <2>1, <2>2, <2>3, CountsAppend
<1>4. \A t \in Sensors : t # s => points'[t] = points[t] /\ arrived'[t] = arrived[t]
  BY <1>1 DEF PairsInv, SensorTypes
<1>5. \A t \in Sensors : Oldest(t)' = Oldest(t)
  BY <1>1 DEF Oldest
<1>6. SensorTypes'
  BY <1>1, <1>3 DEF PairsInv, SensorTypes
<1>7. StartInv' /\ LockInv' /\ PairsInOrder'
  <2>1. Awaited' = Awaited /\ Awaited \subseteq Sensors
    BY <1>1 DEF Awaited, Sensors
  <2>2. s \notin Awaited
    BY <1>1 DEF PairsInv, StartInv
  <2> QED BY <1>1, <1>4, <2>1, <2>2 DEF PairsInv, StartInv, LockInv, PairsInOrder
<1>8. InStep(s)'
  <2>1. Oldest(s) + Len(points'[s]) = Oldest(s) + Len(points[s]) + 1
    BY <1>3, Facts
  <2>2. s \in listening => Oldest(s) + Len(points'[s]) + Len(arrived'[s]) = tick + 1
    <3>1. s \in listening => Oldest(s) + Len(points[s]) + Len(arrived[s]) = tick + 1
      BY Facts DEF InStep, Coming
    <3>2. Oldest(s) \in Int /\ Len(points[s]) \in Nat /\ Len(arrived[s]) \in Nat /\ tick \in Nat
      BY Facts
    <3>3. /\ Len(points'[s]) = Len(points[s]) + 1
          /\ Len(arrived'[s]) = Len(arrived[s]) - 1
      BY <1>3
    <3>4. \A x \in Int, y, z \in Nat : x + (y + 1) + (z - 1) = x + y + z
      OBVIOUS
    <3> QED BY <3>1, <3>2, <3>3, <3>4, SMTT(30)
  <2>3. InStep(s)
    BY Facts
  <2> QED BY <1>1, <1>2, <1>3, <1>5, <2>1, <2>2, <2>3 DEF InStep, Coming
<1>9. ASSUME NEW t \in Sensors, t # s
      PROVE  InStep(t)'
  BY <1>1, <1>4, <1>5, <1>9, Facts DEF InStep, Coming
<1> QED BY <1>6, <1>7, <1>8, <1>9 DEF PairsInv, SensorInv

\* A step of the sender that leaves the lists alone and neither begins nor ends a chunk.
LEMMA SenderGoesOn ==
    ASSUME PairsInv, UNCHANGED << tick, first, listening, arrived, points, packed, main >>,
           sender # "none", UNCHANGED << rest, chunk >>,
           sender \notin {"assign", "send"}, sender' \notin {"assign", "send"},
           locked' \subseteq Sensors, LockInv'
    PROVE  PairsInv'
<1>1. SensorTypes' /\ PairsInOrder'
  BY DEF PairsInv, SensorTypes, PairsInOrder
<1>2. StartInv'
  BY DEF PairsInv, StartInv, Awaited
<1>3. \A s \in Sensors : Oldest(s)' = Oldest(s)
  BY DEF Oldest
<1>4. SensorInv'
  BY <1>3 DEF PairsInv, SensorInv, InStep, Coming
<1> QED BY <1>1, <1>2, <1>4 DEF PairsInv

\* A turn of the sender's loop begins, or a lock is taken.
LEMMA LoopOrLock ==
    ASSUME PairsInv, SenderLoop \/ Lock("radar", "gnss") \/ Lock("gnss", "slice")
    PROVE  PairsInv'
<1>1. /\ UNCHANGED << tick, first, listening, arrived, points, packed, main, rest, chunk >>
      /\ sender # "none" /\ sender \notin {"assign", "send"}
      /\ sender' \notin {"assign", "send"} /\ locked' \subseteq Sensors
  BY DEF SenderLoop, Lock, sensorVars, mainVars, Sensors, PairsInv, SensorTypes
<1>2. LockInv'
  BY DEF SenderLoop, Lock, Sensors, PairsInv, SensorTypes, LockInv
<1> QED BY <1>1, <1>2, SenderGoesOn

\* Both locks are held: both lists are cut at the same place, or none.
LEMMA SliceKeeps == ASSUME PairsInv, Slice PROVE PairsInv'
<1>1. /\ sender = "slice"
      /\ UNCHANGED << tick, first, listening, arrived, points, packed, main >>
  BY DEF Slice, sensorVars, mainVars
<1>2. CASE \A s \in Sensors : Len(points[s]) >= MAX_DATA_POINTS
  <2>1. /\ chunk' = [s \in Sensors |-> SubSeq(points[s], 1, MAX_DATA_POINTS)]
        /\ rest' = [s \in Sensors |-> SubSeq(points[s], MAX_DATA_POINTS + 1, Len(points[s]))]
        /\ sender' = "assign" /\ locked' = locked
    BY <1>2 DEF Slice
  <2>2. locked = Sensors
    BY <1>1 DEF PairsInv, LockInv
  <2>3. ASSUME NEW s \in Sensors
        PROVE  /\ chunk'[s] \in Seq(Int) /\ Len(chunk'[s]) = MAX_DATA_POINTS
               /\ Counts(chunk'[s], Oldest(s))
               /\ rest'[s] \in Seq(Int) /\ Len(points[s]) = MAX_DATA_POINTS + Len(rest'[s])
               /\ Counts(rest'[s], Oldest(s) + MAX_DATA_POINTS)
    <3>1. /\ points[s] \in Seq(Int) /\ Oldest(s) \in Int /\ Counts(points[s], Oldest(s))
          /\ MAX_DATA_POINTS \in Nat /\ MAX_DATA_POINTS <= Len(points[s]) /\ Len(points[s]) \in Nat
      BY <1>2, Facts DEF InStep
    <3>2. /\ chunk'[s] = SubSeq(points[s], 1, MAX_DATA_POINTS)
          /\ rest'[s] = SubSeq(points[s], MAX_DATA_POINTS + 1, Len(points[s]))
      BY <2>1
    <3>3. /\ chunk'[s] \in Seq(Int) /\ Len(chunk'[s]) = MAX_DATA_POINTS
          /\ Counts(chunk'[s], Oldest(s)) /\ rest'[s] \in Seq(Int)
          /\ Len(rest'[s]) = Len(points[s]) - MAX_DATA_POINTS
          /\ Counts(rest'[s], Oldest(s) + MAX_DATA_POINTS)
      BY <3>1, <3>2, CountsCut, SMTT(30)
    <3> QED BY <3>1, <3>3
  <2>4. \A s \in Sensors : Oldest(s)' = Oldest(s) /\ Oldest(s) = first[s] + Len(packed)
    BY <1>1, <2>1, Facts DEF Oldest
  <2>5. SensorTypes'
    BY <1>1, <2>1, <2>2, <2>3 DEF PairsInv, SensorTypes
  <2>6. StartInv' /\ LockInv' /\ PairsInOrder'
    BY <1>1, <2>1, <2>2 DEF PairsInv, StartInv, Awaited, LockInv, PairsInOrder
  <2>7. ASSUME NEW s \in Sensors PROVE InStep(s)'
    BY <1>1, <2>1, <2>3, <2>4, Facts DEF InStep, Coming
  <2> QED BY <2>5, <2>6, <2>7 DEF PairsInv, SensorInv
<1>3. CASE ~ \A s \in Sensors : Len(points[s]) >= MAX_DATA_POINTS
  <2>1. sender' = "loop" /\ locked' = {} /\ UNCHANGED << rest, chunk >>
    BY <1>3 DEF Slice
  <2>2. LockInv'
    BY <2>1 DEF LockInv
  <2> QED BY <1>1, <2>1, <2>2, SenderGoesOn
<1> QED BY <1>2, <1>3

\* The rest replaces the list, which no callback could change meanwhile.
LEMMA AssignKeeps == ASSUME PairsInv, Assign PROVE PairsInv'
<1>1. /\ sender = "assign" /\ sender' = "send" /\ points' = rest /\ rest' = Empty
      /\ UNCHANGED << tick, first, listening, arrived, packed, main, chunk, locked >>
  BY DEF Assign, sensorVars, mainVars
<1>2. SensorTypes'
  BY <1>1 DEF PairsInv, SensorTypes, Empty
<1>3. main \notin {"radar", "gnss", "start"}
  BY <1>1 DEF PairsInv, StartInv
<1>4. StartInv' /\ LockInv' /\ PairsInOrder'
  BY <1>1, <1>3 DEF PairsInv, StartInv, Awaited, LockInv, PairsInOrder
<1>5. ASSUME NEW s \in Sensors PROVE InStep(s)'
  <2>1. Oldest(s)' = Oldest(s) + MAX_DATA_POINTS /\ Oldest(s) = first[s] + Len(packed)
    BY <1>1, Facts DEF Oldest
  <2>2. /\ Len(points[s]) = MAX_DATA_POINTS + Len(points'[s]) /\ Len(points'[s]) \in Nat
        /\ Counts(points'[s], Oldest(s)')
    BY <1>1, <2>1, Facts DEF InStep
  <2>3. Oldest(s)' + Len(points'[s]) = Oldest(s) + Len(points[s])
    BY <2>1, <2>2, Facts
  <2>4. /\ Counts(arrived'[s], Oldest(s)' + Len(points'[s]))
        /\ s \in listening => Oldest(s)' + Len(points'[s]) + Len(arrived'[s]) = tick + 1
    BY <1>1, <2>3, Facts DEF InStep, Coming
  <2> QED BY <1>1, <2>2, <2>4, Facts DEF InStep, Coming
<1> QED BY <1>2, <1>4, <1>5 DEF PairsInv, SensorInv

\* The chunk becomes pairs, whether they are sent or lost.
LEMMA SendKeeps == ASSUME PairsInv, Send PROVE PairsInv'
<1> DEFINE P == Len(packed)
           M == MAX_DATA_POINTS
<1>1. /\ sender = "send" /\ sender' \in {"loop", "ended"}
      /\ packed' = packed \o Pairs /\ chunk' = Empty /\ locked' = {}
      /\ UNCHANGED << tick, first, listening, arrived, points, rest, main >>
  BY DEF Send, sensorVars, mainVars
<1>2. P \in Nat /\ M \in Nat /\ packed \in Seq(Int \X Int)
  BY Facts DEF Sensors
<1>3. /\ Pairs \in Seq(Int \X Int) /\ Len(Pairs) = M
      /\ \A i \in 1 .. M : Pairs[i] = << first["radar"] + P + i - 1, first["gnss"] + P + i - 1 >>
  <2>1. \A s \in Sensors :
           /\ chunk[s] \in Seq(Int) /\ Len(chunk[s]) = M
           /\ \A i \in 1 .. M : chunk[s][i] = first[s] + P + i - 1
    BY <1>1, Facts DEF InStep, Counts
  <2>2. "radar" \in Sensors /\ "gnss" \in Sensors
    BY DEF Sensors
  <2>3. \A i \in 1 .. M : Pairs[i] = << chunk["radar"][i], chunk["gnss"][i] >>
    BY DEF Pairs
  <2>4. \A i \in 1 .. M : chunk["radar"][i] \in Int /\ chunk["gnss"][i] \in Int
    BY <2>1, <2>2
  <2>5. Pairs \in [1 .. M -> Int \X Int]
    BY <2>4 DEF Pairs
  <2>6. Pairs \in Seq(Int \X Int) /\ Len(Pairs) = M
    <3> HIDE DEF M
    <3> QED BY <1>2, <2>5
  <2> QED BY <2>1, <2>2, <2>3, <2>6
<1>4. /\ packed' \in Seq(Int \X Int) /\ Len(packed') = P + M
      /\ \A i \in 1 .. P + M : packed'[i] = IF i <= P THEN packed[i] ELSE Pairs[i - P]
  BY <1>1, <1>2, <1>3, ConcatProperties
<1>5. PairsInOrder'
  <2>1. SUFFICES ASSUME NEW i \in 1 .. P + M
                 PROVE  packed'[i] = << first["radar"] + i - 1, first["gnss"] + i - 1 >>
    BY <1>1, <1>4 DEF PairsInOrder
  <2>2. CASE i <= P
    <3>1. i \in 1 .. Len(packed)
      BY <1>2, <2>2
    <3>2. packed'[i] = packed[i]
      BY <1>4, <2>2
    <3> QED BY <3>1, <3>2 DEF PairsInv, PairsInOrder
  <2>3. CASE ~ (i <= P)
    <3>1. i - P \in 1 .. M /\ P + (i - P) = i
      BY <1>2, <2>3
    <3>2. packed'[i] = Pairs[i - P]
      BY <1>4, <2>3
    <3>3. Pairs[i - P] = << first["radar"] + P + (i - P) - 1, first["gnss"] + P + (i - P) - 1 >>
      BY <1>3, <3>1
    <3>4. /\ first["radar"] + P + (i - P) - 1 = first["radar"] + i - 1
          /\ first["gnss"] + P + (i - P) - 1 = first["gnss"] + i - 1
      <4>1. first["radar"] \in Int /\ first["gnss"] \in Int
        BY Facts, SMTT(30) DEF Sensors
      <4> QED BY <1>2, <4>1
    <3> QED BY <3>2, <3>3, <3>4
  <2> QED BY <2>2, <2>3
<1>6. SensorTypes'
  BY <1>1, <1>4 DEF PairsInv, SensorTypes, Empty
<1>7. StartInv' /\ LockInv'
  BY <1>1 DEF PairsInv, StartInv, Awaited, LockInv
<1>8. ASSUME NEW s \in Sensors PROVE InStep(s)'
  <2>1. Oldest(s)' = Oldest(s)
    <3>1. Oldest(s) = first[s] + P + M /\ Oldest(s)' = first[s] + (P + M) + 0
      BY <1>1, <1>4 DEF Oldest
    <3>2. first[s] \in Int
      BY Facts
    <3> QED BY <1>2, <3>1, <3>2
  <2> QED BY <1>1, <2>1, Facts DEF InStep, Coming
<1> QED BY <1>5, <1>6, <1>7, <1>8 DEF PairsInv, SensorInv

\* The callback that is installed finds nothing of its sensor at any place.
LEMMA ListenKeeps ==
    ASSUME PairsInv, Listen("radar", "gnss") \/ Listen("gnss", "start")
    PROVE  PairsInv'
<1>1. PICK s \in Sensors :
         /\ main = s /\ main' = (IF s = "radar" THEN "gnss" ELSE "start")
         /\ listening' = listening \union {s} /\ first' = [first EXCEPT ![s] = tick + 1]
  BY DEF Listen, Sensors
<1>2. UNCHANGED << tick, arrived, points, sender, rest, chunk, packed, locked >>
  BY DEF Listen, senderVars
<1>3. sender = "none" /\ packed = << >> /\ s \in Awaited
  BY <1>1 DEF PairsInv, StartInv, Sensors, Awaited
<1>4. arrived[s] = << >> /\ points[s] = << >>
  BY <1>3 DEF PairsInv, StartInv
<1>5. /\ first'[s] = tick + 1 /\ tick \in Nat
      /\ \A t \in Sensors : t # s => first'[t] = first[t]
  BY <1>1 DEF PairsInv, SensorTypes
<1>6. SensorTypes'
  BY <1>1, <1>2 DEF PairsInv, SensorTypes
<1>7. StartInv'
  <2>1. \A t \in Awaited' : t \in Awaited /\ t # s
    BY <1>1 DEF Awaited, Sensors
  <2> QED BY <1>1, <1>2, <1>3, <2>1 DEF PairsInv, StartInv
<1>8. LockInv' /\ PairsInOrder'
  BY <1>2, <1>3 DEF PairsInv, LockInv, PairsInOrder
<1>9. ASSUME NEW t \in Sensors PROVE InStep(t)'
  <2>1. CASE t = s
    <3>1. Oldest(s)' = tick + 1 + 0 + 0 /\ Len(points'[s]) = 0 /\ Len(arrived'[s]) = 0
      BY <1>2, <1>3, <1>4, <1>5 DEF Oldest
    <3>2. /\ Counts(points'[s], Oldest(s)') /\ Counts(arrived'[s], Oldest(s)' + Len(points'[s]))
      BY <3>1 DEF Counts
    <3>3. Oldest(s)' + Len(points'[s]) + Len(arrived'[s]) = tick + 1
      BY <1>5, <3>1
    <3> QED BY <1>2, <1>3, <2>1, <3>2, <3>3 DEF InStep, Coming
  <2>2. CASE t # s
    <3>1. Oldest(t)' = Oldest(t)
      BY <1>2, <1>5, <2>2 DEF Oldest
    <3> QED BY <1>1, <1>2, <1>3, <1>5, <2>2, <3>1, Facts DEF InStep, Coming
  <2> QED BY <2>1, <2>2
<1> QED BY <1>6, <1>7, <1>8, <1>9 DEF PairsInv, SensorInv

\* The other steps of the main thread, and those of the receiver, of the application and
\* of the network.
LEMMA OthersKeepPairs ==
    ASSUME PairsInv,
           \/ StartThreads \/ Take \/ WakeUp \/ Interrupt
           \/ Stop("sender", "stopSender", "joinSender")
           \/ Join(sender, "joinSender", "stopReceiver")
           \/ Stop("receiver", "stopReceiver", "joinReceiver")
           \/ Join(receiver, "joinReceiver", "destroy")
           \/ Receiver \/ App \/ Spot \/ Break \/ UNCHANGED vars
    PROVE  PairsInv'
<1>1. CASE StartThreads
  <2>1. /\ main = "start" /\ main' = "take" /\ sender' = "loop"
        /\ UNCHANGED << tick, first, listening, arrived, points, rest, chunk, packed, locked >>
    BY <1>1 DEF StartThreads, sensorVars
  <2>2. sender = "none"
    BY <2>1 DEF PairsInv, StartInv
  <2>3. SensorTypes' /\ StartInv' /\ LockInv' /\ PairsInOrder'
    BY <2>1 DEF PairsInv, SensorTypes, StartInv, Awaited, LockInv, PairsInOrder
  <2>4. SensorInv'
    BY <2>1, <2>2 DEF PairsInv, SensorInv, InStep, Oldest, Coming
  <2> QED BY <2>3, <2>4 DEF PairsInv
<1>2. CASE Take \/ WakeUp \/ Interrupt
  BY <1>2, PairsUntouched
  DEF Take, WakeUp, Interrupt, CleanUp, sensorVars, senderVars, sensorState
<1>3. CASE \/ Stop("sender", "stopSender", "joinSender")
           \/ Join(sender, "joinSender", "stopReceiver")
           \/ Stop("receiver", "stopReceiver", "joinReceiver")
           \/ Join(receiver, "joinReceiver", "destroy")
  BY <1>3, PairsUntouched DEF Stop, Join, sensorVars, senderVars, sensorState
<1>4. CASE Receiver \/ App \/ Spot \/ Break \/ UNCHANGED vars
  BY <1>4, PairsUntouched
  DEF Receiver, ReceiverLoop, Receive, App, Issue, ReadSensors, CloseSocket, Spot, Break, vars,
      sensorVars, senderVars, mainVars, sensorState
<1> QED BY <1>1, <1>2, <1>3, <1>4

\* The callbacks are removed.
LEMMA DestroyKeeps == ASSUME PairsInv, Destroy PROVE PairsInv'
<1>1. /\ main = "destroy" /\ main' = "done" /\ listening' = {}
      /\ UNCHANGED << tick, first, arrived, points, sender, rest, chunk, packed, locked >>
  BY DEF Destroy, senderVars
<1>2. SensorTypes' /\ StartInv' /\ LockInv' /\ PairsInOrder'
  BY <1>1 DEF PairsInv, SensorTypes, StartInv, Awaited, LockInv, PairsInOrder
<1>3. SensorInv'
  BY <1>1 DEF PairsInv, SensorInv, InStep, Oldest, Coming
<1> QED BY <1>2, <1>3 DEF PairsInv

\* The invariant holds at first, and every step keeps it.
LEMMA InitHasPairs == Init => PairsInv
  BY DEF Init, PairsInv, SensorTypes, StartInv, Awaited, LockInv, SensorInv, InStep, Oldest,
         Coming, Counts, PairsInOrder, Empty, Sensors

LEMMA StepKeepsPairs == PairsInv /\ [Next]_vars => PairsInv'
  BY TickKeeps, CallbackKeeps, LoopOrLock, SliceKeeps, AssignKeeps, SendKeeps, ListenKeeps,
     OthersKeepPairs, DestroyKeeps
  DEF Next, Sender, Main

\* radar_callback(), gnss_callback() and send_accumulated_data() of utils.py and
\* communication.py: however the callbacks and the thread interleave, and whatever
\* becomes of the connection, the pairs handed to send_to_server() are the readings of
\* both sensors in order, none lost and none twice: the two lists never get out of step.
THEOREM PairsStayInOrder == Spec => []PairsInOrder
<1>1. PairsInv => PairsInOrder
  BY DEF PairsInv
<1> QED BY InitHasPairs, StepKeepsPairs, <1>1, PTL DEF Spec
-----------------------------------------------------------------------------
(* The commands. *)

Cell == Nat \X (0 .. MessageSize)
Real(c) == c[1] > 0
Older(c, d) == c[1] < d[1] \/ (c[1] = d[1] /\ c[2] < d[2])
Ordered(s) ==
    \A i, j \in 1 .. Len(s) : i < j /\ Real(s[i]) /\ Real(s[j]) => Older(s[i], s[j])
Rising(s) == \A i, j \in 1 .. Len(s) : i < j /\ s[i] > 0 /\ s[j] > 0 => s[i] < s[j]
CellsBefore(s, t) ==
    \A i \in 1 .. Len(s), j \in 1 .. Len(t) : Real(s[i]) /\ Real(t[j]) => Older(s[i], t[j])
NumbersBefore(s, t) ==
    \A i \in 1 .. Len(s), j \in 1 .. Len(t) : s[i] > 0 /\ t[j] > 0 => s[i] < t[j]
Passed(s, t) == \A i \in 1 .. Len(s), j \in 1 .. Len(t) : Real(t[j]) => s[i] < t[j][1]

StreamTypes ==
    /\ issued \in Nat
    /\ wire \in Seq(Cell) /\ leftover_data \in Seq(Cell)
    /\ control_data_queue \in Seq(Int) /\ applied \in Seq(Int)

\* Nothing is there that was not issued.
IssuedInv ==
    /\ \A i \in 1 .. Len(wire) : wire[i][1] <= issued
    /\ \A i \in 1 .. Len(leftover_data) : leftover_data[i][1] <= issued
    /\ \A i \in 1 .. Len(control_data_queue) : control_data_queue[i] <= issued
    /\ \A i \in 1 .. Len(applied) : applied[i] <= issued

OrderInv ==
    /\ Ordered(wire) /\ Ordered(leftover_data) /\ Rising(control_data_queue) /\ Rising(applied)
    /\ CellsBefore(leftover_data, wire) /\ NumbersBefore(applied, control_data_queue)
    /\ Passed(control_data_queue, leftover_data) /\ Passed(control_data_queue, wire)
    /\ Passed(applied, leftover_data) /\ Passed(applied, wire)

StreamInv == StreamTypes /\ IssuedInv /\ OrderInv

\* A step that moves neither cells nor commands.
LEMMA StreamUntouched ==
    ASSUME StreamInv, UNCHANGED << issued, wire, leftover_data, control_data_queue, applied >>
    PROVE  StreamInv'
  BY DEF StreamInv, StreamTypes, IssuedInv, OrderInv, Ordered, Rising, CellsBefore,
         NumbersBefore, Passed

\* A message is newer than all that was issued before it.
LEMMA MessageFacts ==
    ASSUME NEW n \in Nat
    PROVE  /\ Message(n + 1) \in Seq(Cell) /\ Len(Message(n + 1)) = MessageSize
           /\ \A k \in 1 .. MessageSize : Message(n + 1)[k] = << n + 1, k >>
<1> DEFINE f == [k \in 1 .. MessageSize |-> << n + 1, k >>]
<1>1. MessageSize = 8
  BY DEF MessageSize, NonceSize, TupleSize
<1>2. f \in [1 .. MessageSize -> Cell]
  BY <1>1 DEF Cell
<1>3. f = Message(n + 1) /\ \A k \in 1 .. MessageSize : f[k] = << n + 1, k >>
  BY DEF Message
<1> HIDE DEF f
<1>4. f \in Seq(Cell) /\ Len(f) = MessageSize
  <2>1. MessageSize \in Nat
    BY <1>1
  <2> QED BY ONLY <2>1, <1>2
<1> QED BY <1>3, <1>4

\* A command is written: it goes behind everything that is on its way.
LEMMA IssueKeeps == ASSUME StreamInv, Issue PROVE StreamInv'
<1>1. issued' = issued + 1 /\ issued \in Nat
      /\ UNCHANGED << leftover_data, control_data_queue, applied >>
  BY DEF Issue, controlVars, mainVars, StreamInv, StreamTypes
<1>2. \A x \in Int : x <= issued => x <= issued'
  BY <1>1
<1>3. CASE wire' = wire
  <2>1. StreamTypes' /\ OrderInv'
    BY <1>1, <1>3 DEF StreamInv, StreamTypes, OrderInv, Ordered, Rising, CellsBefore,
                      NumbersBefore, Passed
  <2>2. IssuedInv'
    <3>1. /\ \A i \in 1 .. Len(wire) : wire[i][1] \in Int
          /\ \A i \in 1 .. Len(leftover_data) : leftover_data[i][1] \in Int
          /\ \A i \in 1 .. Len(control_data_queue) : control_data_queue[i] \in Int
          /\ \A i \in 1 .. Len(applied) : applied[i] \in Int
      BY SMTT(30) DEF StreamInv, StreamTypes, Cell
    <3> QED BY <1>1, <1>2, <1>3, <3>1 DEF StreamInv, IssuedInv
  <2> QED BY <2>1, <2>2 DEF StreamInv
<1>4. CASE wire' = wire \o Message(issued')
  <2> DEFINE m == Message(issued')
             w == Len(wire)
  <2>1. /\ m \in Seq(Cell) /\ Len(m) = MessageSize
        /\ \A k \in 1 .. MessageSize : m[k] = << issued', k >>
    BY <1>1, MessageFacts
  <2>2. w \in Nat /\ wire \in Seq(Cell) /\ MessageSize = 8
    BY DEF StreamInv, StreamTypes, MessageSize, NonceSize, TupleSize
  <2>a. wire' = wire \o m
    BY <1>4
  <2> HIDE DEF m, w
  <2>3. /\ wire' \in Seq(Cell) /\ Len(wire') = w + MessageSize
        /\ \A i \in 1 .. w + MessageSize :
              wire'[i] = IF i <= w THEN wire[i] ELSE m[i - w]
    <3>1. m \in Seq(Cell) /\ wire \in Seq(Cell)
      BY <2>1, <2>2
    <3>2. /\ wire \o m \in Seq(Cell) /\ Len(wire \o m) = Len(wire) + Len(m)
          /\ \A i \in 1 .. Len(wire) + Len(m) :
                (wire \o m)[i] = IF i <= Len(wire) THEN wire[i] ELSE m[i - Len(wire)]
      BY ONLY <3>1, ConcatProperties
    <3> QED BY <2>1, <2>a, <3>2 DEF w
  <2>4. /\ \A i \in 1 .. w : wire'[i] = wire[i] /\ wire[i][1] <= issued /\ wire[i] \in Cell
        /\ \A i \in w + 1 .. w + MessageSize : wire'[i] = << issued + 1, i - w >>
    <3>1. \A i \in 1 .. w : wire[i][1] <= issued /\ wire[i] \in Cell
      BY DEF w, StreamInv, StreamTypes, IssuedInv
    <3>2. \A i \in 1 .. w : wire'[i] = wire[i]
      BY <2>2, <2>3
    <3>3. ASSUME NEW i \in w + 1 .. w + MessageSize
          PROVE  wire'[i] = << issued + 1, i - w >>
      <4>1. i \in 1 .. w + MessageSize /\ ~ (i <= w) /\ i - w \in 1 .. MessageSize
        BY <2>2
      <4> QED BY <1>1, <2>1, <2>3, <4>1
    <3> QED BY <3>1, <3>2, <3>3
  <2>5. \A i \in 1 .. Len(wire') : i \in 1 .. w \/ i \in w + 1 .. w + MessageSize
    BY <2>2, <2>3
  <2>6. StreamTypes'
    BY <1>1, <2>3 DEF StreamInv, StreamTypes
  <2>7. IssuedInv'
    <3>1. /\ \A i \in 1 .. Len(leftover_data) : leftover_data[i][1] \in Int
          /\ \A i \in 1 .. Len(control_data_queue) : control_data_queue[i] \in Int
          /\ \A i \in 1 .. Len(applied) : applied[i] \in Int
      BY DEF StreamInv, StreamTypes, Cell
    <3>2. \A i \in 1 .. Len(wire') : wire'[i][1] <= issued'
      BY <1>1, <2>4, <2>5 DEF Cell
    <3> QED BY <1>1, <1>2, <3>1, <3>2 DEF StreamInv, IssuedInv
  <2>8. Ordered(wire')
    <3> SUFFICES ASSUME NEW i \in 1 .. Len(wire'), NEW j \in 1 .. Len(wire'), i < j,
                        Real(wire'[i]), Real(wire'[j])
                 PROVE  Older(wire'[i], wire'[j])
      BY DEF Ordered
    <3>1. CASE j \in 1 .. w
      <4>1. i \in 1 .. w
        BY <2>2, <2>3, <3>1
      <4> QED BY <2>4, <3>1, <4>1 DEF w, StreamInv, OrderInv, Ordered
    <3>2. CASE i \in 1 .. w /\ j \in w + 1 .. w + MessageSize
      BY <1>1, <2>4, <3>2 DEF Older, Cell
    <3>3. CASE i \in w + 1 .. w + MessageSize /\ j \in w + 1 .. w + MessageSize
      BY <2>2, <2>4, <3>3 DEF Older
    <3> QED BY <2>5, <3>1, <3>2, <3>3
  <2>9. CellsBefore(leftover_data, wire')
    <3> SUFFICES ASSUME NEW i \in 1 .. Len(leftover_data), NEW j \in 1 .. Len(wire'),
                        Real(leftover_data[i]), Real(wire'[j])
                 PROVE  Older(leftover_data[i], wire'[j])
      BY DEF CellsBefore
    <3>1. leftover_data[i] \in Cell /\ leftover_data[i][1] <= issued
      BY DEF StreamInv, StreamTypes, IssuedInv
    <3>2. CASE j \in 1 .. w
      BY <2>4, <3>2 DEF w, StreamInv, OrderInv, CellsBefore
    <3>3. CASE j \in w + 1 .. w + MessageSize
      BY <1>1, <2>4, <3>1, <3>3 DEF Older, Cell
    <3> QED BY <2>5, <3>2, <3>3
  <2>10. ASSUME NEW s \in Seq(Int), \A i \in 1 .. Len(s) : s[i] <= issued, Passed(s, wire)
         PROVE  Passed(s, wire')
    <3> SUFFICES ASSUME NEW i \in 1 .. Len(s), NEW j \in 1 .. Len(wire'), Real(wire'[j])
                 PROVE  s[i] < wire'[j][1]
      BY DEF Passed
    <3>2. CASE j \in 1 .. w
      BY <2>4, <2>10, <3>2 DEF w, Passed
    <3>3. CASE j \in w + 1 .. w + MessageSize
      BY <1>1, <2>4, <2>10, <3>3
    <3> QED BY <2>5, <3>2, <3>3
  <2>11. Passed(control_data_queue, wire') /\ Passed(applied, wire')
    BY <2>10 DEF StreamInv, StreamTypes, IssuedInv, OrderInv
  <2> QED BY <1>1, <2>6, <2>7, <2>8, <2>9, <2>11
          DEF StreamInv, OrderInv, Ordered, Rising, NumbersBefore, Passed
<1> QED BY <1>3, <1>4 DEF Issue
-----------------------------------------------------------------------------
(* What is cut out of a sequence of cells, with some of them garbled.        *)

Sifted(t, s, k) ==
    /\ Len(t) + k <= Len(s)
    /\ \A i \in 1 .. Len(t) : t[i] = s[k + i] \/ t[i] = Garbage

\* A real cell of the cut-out has its place in the original.
LEMMA SiftedPlaces ==
    ASSUME NEW s \in Seq(Cell), NEW t \in Seq(Cell), NEW k \in Nat, Sifted(t, s, k),
           NEW i \in 1 .. Len(t), Real(t[i])
    PROVE  k + i \in 1 .. Len(s) /\ t[i] = s[k + i]
<1>1. k + i \in 1 .. Len(s)
  BY DEF Sifted
<1> QED BY <1>1 DEF Sifted, Real, Garbage

\* A cut-out is as ordered as the original, and as old or young.
LEMMA SiftedKeeps ==
    ASSUME NEW s \in Seq(Cell), NEW t \in Seq(Cell), NEW k \in Nat, Sifted(t, s, k)
    PROVE  /\ Ordered(s) => Ordered(t)
           /\ \A u : CellsBefore(u, s) => CellsBefore(u, t)
           /\ \A u : CellsBefore(s, u) => CellsBefore(t, u)
           /\ \A u : Passed(u, s) => Passed(u, t)
<1>1. \A i \in 1 .. Len(t) : Real(t[i]) => k + i \in 1 .. Len(s) /\ t[i] = s[k + i]
  BY SiftedPlaces
<1>2. \A i, j \in 1 .. Len(t) : i < j => k + i < k + j
  OBVIOUS
<1>3. Ordered(s) => Ordered(t)
  BY <1>1, <1>2 DEF Ordered
<1>4. \A u : CellsBefore(u, s) => CellsBefore(u, t)
  BY <1>1 DEF CellsBefore
<1>5. \A u : CellsBefore(s, u) => CellsBefore(t, u)
  BY <1>1 DEF CellsBefore
<1>6. \A u : Passed(u, s) => Passed(u, t)
  BY <1>1 DEF Passed
<1> QED BY <1>3, <1>4, <1>5, <1>6

\* Of two cut-outs of an ordered sequence the first is older, if they do not overlap.
LEMMA SiftedApart ==
    ASSUME NEW s \in Seq(Cell), NEW t \in Seq(Cell), NEW u \in Seq(Cell), Ordered(s),
           NEW k \in Nat, NEW n \in Nat, Sifted(t, s, k), Sifted(u, s, n), k + Len(t) <= n
    PROVE  CellsBefore(t, u)
<1> SUFFICES ASSUME NEW i \in 1 .. Len(t), NEW j \in 1 .. Len(u), Real(t[i]), Real(u[j])
             PROVE  Older(t[i], u[j])
  BY DEF CellsBefore
<1>1. k + i \in 1 .. Len(s) /\ t[i] = s[k + i]
  BY SiftedPlaces
<1>2. n + j \in 1 .. Len(s) /\ u[j] = s[n + j]
  BY SiftedPlaces
<1>3. k + i < n + j
  OBVIOUS
<1> QED BY <1>1, <1>2, <1>3 DEF Ordered

\* Two sequences joined.
LEMMA JoinedFacts ==
    ASSUME NEW s \in Seq(Cell), NEW t \in Seq(Cell)
    PROVE  /\ s \o t \in Seq(Cell)
           /\ Ordered(s) /\ Ordered(t) /\ CellsBefore(s, t) => Ordered(s \o t)
           /\ \A u : CellsBefore(s, u) /\ CellsBefore(t, u) => CellsBefore(s \o t, u)
           /\ \A u : Passed(u, s) /\ Passed(u, t) => Passed(u, s \o t)
           /\ \A b \in Nat : (\A i \in 1 .. Len(s) : s[i][1] <= b)
                             /\ (\A i \in 1 .. Len(t) : t[i][1] <= b)
                 => \A i \in 1 .. Len(s \o t) : (s \o t)[i][1] <= b
<1> DEFINE a == s \o t
<1>1. a \in Seq(Cell) /\ Len(a) = Len(s) + Len(t)
  BY ConcatProperties
<1>2. /\ \A i \in 1 .. Len(a) : i \in 1 .. Len(s) \/ i - Len(s) \in 1 .. Len(t)
      /\ \A i \in 1 .. Len(s) : a[i] = s[i]
      /\ \A i \in 1 .. Len(a) : i \notin 1 .. Len(s) => a[i] = t[i - Len(s)]
  <2>1. \A i \in 1 .. Len(s) + Len(t) : a[i] = IF i <= Len(s) THEN s[i] ELSE t[i - Len(s)]
    BY ConcatProperties
  <2>2. Len(s) \in Nat /\ Len(t) \in Nat
    OBVIOUS
  <2> HIDE DEF a
  <2> QED BY <1>1, <2>1, <2>2
<1>3. Len(s) \in Nat /\ Len(t) \in Nat
  OBVIOUS
<1> HIDE DEF a
<1>4. ASSUME Ordered(s), Ordered(t), CellsBefore(s, t) PROVE Ordered(a)
  <2> SUFFICES ASSUME NEW i \in 1 .. Len(a), NEW j \in 1 .. Len(a), i < j,
                      Real(a[i]), Real(a[j])
               PROVE  Older(a[i], a[j])
    BY DEF Ordered
  <2>1. CASE j \in 1 .. Len(s)
    <3>1. i \in 1 .. Len(s)
      BY <1>1, <1>3, <2>1
    <3> QED BY <1>2, <1>4, <2>1, <3>1 DEF Ordered
  <2>2. CASE i \in 1 .. Len(s) /\ j \notin 1 .. Len(s)
    BY <1>2, <1>4, <2>2 DEF CellsBefore
  <2>3. CASE i \notin 1 .. Len(s) /\ j \notin 1 .. Len(s)
    <3>1. i - Len(s) < j - Len(s)
      BY <1>1, <1>3
    <3> QED BY <1>2, <1>4, <2>3, <3>1 DEF Ordered
  <2>4. i \notin 1 .. Len(s) => j \notin 1 .. Len(s)
    BY <1>1, <1>3
  <2> QED BY <2>1, <2>2, <2>3, <2>4
<1>5. \A u : CellsBefore(s, u) /\ CellsBefore(t, u) => CellsBefore(a, u)
  BY <1>2 DEF CellsBefore
<1>6. \A u : Passed(u, s) /\ Passed(u, t) => Passed(u, a)
  BY <1>2 DEF Passed
<1>7. \A b \in Nat : (\A i \in 1 .. Len(s) : s[i][1] <= b)
                     /\ (\A i \in 1 .. Len(t) : t[i][1] <= b)
         => \A i \in 1 .. Len(a) : a[i][1] <= b
  BY <1>2
<1> QED BY <1>1, <1>4, <1>5, <1>6, <1>7 DEF a

-----------------------------------------------------------------------------
(* Receive. *)

\* A number that is not 0 was unpacked out of all five cells of its message.
LEMMA UnpackFacts ==
    ASSUME NEW a \in Seq(Cell), NEW i \in Nat \ {0}, i * TupleSize <= Len(a)
    PROVE  LET m == Unpack(SubSeq(a, (i - 1) * TupleSize + 1, i * TupleSize))
           IN  /\ m \in Nat
               /\ m > 0 => a[5 * i - 4] = << m, 4 >> /\ a[5 * i] = << m, 8 >>
<1>1. TupleSize = 5 /\ NonceSize = 3
  BY DEF TupleSize, NonceSize
<1> DEFINE c == SubSeq(a, (i - 1) * TupleSize + 1, i * TupleSize)
<1>2. /\ (i - 1) * TupleSize + 1 = 5 * i - 4 /\ i * TupleSize = 5 * i
      /\ 5 * i - 4 \in 1 .. Len(a) + 1 /\ 5 * i \in 5 * i - 5 .. Len(a)
      /\ \A k \in 1 .. 5 : 5 * i - 5 + k \in 1 .. Len(a)
  BY <1>1
<1>3. \A k \in 1 .. 5 : c[k] = a[5 * i - 5 + k]
  <2>1. c = SubSeq(a, 5 * i - 4, 5 * i)
    BY <1>2
  <2>2. \A k \in 1 .. 5 * i - (5 * i - 4) + 1 : SubSeq(a, 5 * i - 4, 5 * i)[k] = a[5 * i - 4 + k - 1]
    OBVIOUS
  <2>3. 5 * i - (5 * i - 4) + 1 = 5 /\ \A k \in 1 .. 5 : 5 * i - 4 + k - 1 = 5 * i - 5 + k
    OBVIOUS
  <2> QED BY <2>1, <2>2, <2>3
<1>4. c[1] = a[5 * i - 4] /\ c[5] = a[5 * i] /\ a[5 * i - 4] \in Cell
  <2>1. 5 * i - 5 + 1 = 5 * i - 4 /\ 5 * i - 5 + 5 = 5 * i
    OBVIOUS
  <2> QED BY <1>2, <1>3, <2>1
<1> HIDE DEF c
<1>5. Unpack(c) \in Nat
  BY <1>4 DEF Unpack, Cell
<1>6. ASSUME Unpack(c) > 0 PROVE c[1] = << Unpack(c), 4 >> /\ c[5] = << Unpack(c), 8 >>
  BY <1>1, <1>6 DEF Unpack
<1> QED BY <1>4, <1>5, <1>6 DEF c

\* A sequence cut in two.
LEMMA CutFacts ==
    ASSUME NEW s \in Seq(Cell), NEW n \in 0 .. Len(s)
    PROVE  /\ SubSeq(s, n + 1, Len(s)) \in Seq(Cell) /\ Sifted(SubSeq(s, n + 1, Len(s)), s, n)
           /\ \A i \in 1 .. Len(SubSeq(s, n + 1, Len(s))) :
                 n + i \in 1 .. Len(s) /\ SubSeq(s, n + 1, Len(s))[i] = s[n + i]
           /\ SubSeq(s, 1, n) \in Seq(Cell) /\ Len(SubSeq(s, 1, n)) = n
           /\ \A i \in 1 .. n : SubSeq(s, 1, n)[i] = s[i]
<1> DEFINE r == SubSeq(s, n + 1, Len(s))
<1>1. r \in Seq(Cell) /\ Len(r) = Len(s) - n
  <2>1. n + 1 \in 1 .. Len(s) + 1 /\ Len(s) \in n .. Len(s)
    OBVIOUS
  <2> QED OBVIOUS
<1>2. \A i \in 1 .. Len(s) - n : r[i] = s[n + i]
  <2>1. \A i \in 1 .. Len(s) - (n + 1) + 1 : SubSeq(s, n + 1, Len(s))[i] = s[n + 1 + i - 1]
    OBVIOUS
  <2>2. Len(s) - (n + 1) + 1 = Len(s) - n /\ \A i \in Int : n + 1 + i - 1 = n + i
    OBVIOUS
  <2> QED BY <2>1, <2>2
<1>3. SubSeq(s, 1, n) \in Seq(Cell) /\ Len(SubSeq(s, 1, n)) = n
      /\ \A i \in 1 .. n : SubSeq(s, 1, n)[i] = s[i]
  OBVIOUS
<1>4. Len(s) - n + n <= Len(s) /\ \A i \in 1 .. Len(s) - n : n + i \in 1 .. Len(s)
  OBVIOUS
<1> HIDE DEF r
<1>5. Sifted(r, s, n)
  BY <1>1, <1>2, <1>4 DEF Sifted
<1> QED BY <1>1, <1>2, <1>3, <1>4, <1>5 DEF r

\* What recv_decrypt() returns is a cut-out of what it was given.
LEMMA DecryptFacts ==
    ASSUME NEW s \in Seq(Cell), NEW n \in 0 .. Len(s)
    PROVE  LET d == Decrypt(SubSeq(s, 1, n))
           IN  /\ d \in Seq(Cell)
               /\ \E k \in Nat : Sifted(d, s, k) /\ k + Len(d) <= n
<1> DEFINE data == SubSeq(s, 1, n)
           d == Decrypt(data)
<1>1. data \in Seq(Cell) /\ Len(data) = n /\ \A i \in 1 .. n : data[i] = s[i]
  BY CutFacts
<1> HIDE DEF data
<1>2. NonceSize = 3 /\ n \in Nat /\ n <= Len(s) /\ Garbage \in Cell
  BY DEF NonceSize, TupleSize, Garbage, Cell, MessageSize
<1>3. CASE n < 3
  <2>1. d = << >>
    BY <1>1, <1>2, <1>3 DEF Decrypt
  <2> HIDE DEF d
  <2>2. d \in Seq(Cell) /\ Len(d) = 0
    BY <2>1
  <2>3. Sifted(d, s, 0) /\ 0 + Len(d) <= n
    BY <1>2, <2>2 DEF Sifted
  <2> QED BY <2>2, <2>3 DEF d, data
<1>4. CASE n >= 3
  <2> DEFINE f == [i \in 1 .. Len(data) - NonceSize |->
                     IF \A j \in 1 .. NonceSize + i : data[j] = << data[1][1], j >>
                     THEN data[NonceSize + i] ELSE Garbage]
  <2>1. d = f
    BY <1>1, <1>2, <1>4 DEF Decrypt
  <2>2. \A i \in 1 .. n - 3 : NonceSize + i = 3 + i /\ 3 + i \in 1 .. n /\ 3 + i \in 1 .. Len(s)
    BY <1>2
  <2>3. f \in [1 .. n - 3 -> Cell]
    BY <1>1, <1>2, <2>2
  <2>4. \A i \in 1 .. n - 3 : f[i] = s[3 + i] \/ f[i] = Garbage
    BY <1>1, <1>2, <2>2
  <2> HIDE DEF f, d
  <2>5. f \in Seq(Cell) /\ Len(f) = n - 3
    <3>1. n - 3 \in Nat
      BY <1>2, <1>4
    <3> QED BY ONLY <3>1, <2>3
  <2>6. Sifted(d, s, 3) /\ 3 + Len(d) <= n
    BY <1>2, <2>1, <2>4, <2>5 DEF Sifted
  <2> QED BY <2>1, <2>5, <2>6 DEF d, data
<1> QED BY <1>2, <1>3, <1>4


\* Cells that follow the leftover and come before what is still on the wire.
LEMMA QueueKeeps ==
    ASSUME StreamInv, NEW data \in Seq(Cell), QueueTuples(data), UNCHANGED << issued, applied >>,
           Ordered(data), CellsBefore(leftover_data, data), CellsBefore(data, wire'),
           Passed(control_data_queue, data), Passed(applied, data),
           \A i \in 1 .. Len(data) : data[i][1] <= issued,
           wire' \in Seq(Cell), Ordered(wire'), CellsBefore(leftover_data, wire'),
           Passed(control_data_queue, wire'), Passed(applied, wire'),
           \A i \in 1 .. Len(wire') : wire'[i][1] <= issued
    PROVE  StreamInv'
<1> DEFINE all == leftover_data \o data
           n == Len(all) \div TupleSize
           new == [i \in 1 .. n |-> Unpack(SubSeq(all, (i - 1) * TupleSize + 1, i * TupleSize))]
           q == Len(control_data_queue)
<1>1. /\ leftover_data \in Seq(Cell) /\ control_data_queue \in Seq(Int) /\ applied \in Seq(Int)
      /\ issued \in Nat /\ TupleSize = 5 /\ q \in Nat
      /\ Ordered(leftover_data) /\ Passed(control_data_queue, leftover_data)
      /\ Passed(applied, leftover_data) /\ Rising(control_data_queue) /\ Rising(applied)
      /\ NumbersBefore(applied, control_data_queue)
      /\ \A i \in 1 .. Len(leftover_data) : leftover_data[i][1] <= issued
      /\ \A i \in 1 .. Len(control_data_queue) : control_data_queue[i] <= issued
      /\ \A i \in 1 .. Len(applied) : applied[i] <= issued
  BY DEF StreamInv, StreamTypes, IssuedInv, OrderInv, TupleSize
<1>2. control_data_queue' = control_data_queue \o new
      /\ leftover_data' = SubSeq(all, n * TupleSize + 1, Len(all))
  BY DEF QueueTuples
<1>3. all \in Seq(Cell) /\ Ordered(all) /\ CellsBefore(all, wire')
      /\ Passed(control_data_queue, all) /\ Passed(applied, all)
      /\ \A i \in 1 .. Len(all) : all[i][1] <= issued
  BY <1>1, JoinedFacts
<1> HIDE DEF all, q
<1>4. n \in Nat /\ n * TupleSize = 5 * n /\ 5 * n \in 0 .. Len(all)
      /\ \A i \in 1 .. n : /\ 5 * i - 4 \in 1 .. Len(all) /\ 5 * i \in 1 .. Len(all)
                           /\ i \in Nat \ {0} /\ i * TupleSize <= Len(all)
  BY <1>1, <1>3
<1> HIDE DEF n
<1>5. \A i \in 1 .. n : /\ new[i] \in Nat
                        /\ new[i] > 0 => /\ all[5 * i - 4] = << new[i], 4 >>
                                         /\ all[5 * i] = << new[i], 8 >>
  BY <1>3, <1>4, UnpackFacts
<1>6. new \in [1 .. n -> Int]
  <2>1. \A i \in 1 .. n :
           Unpack(SubSeq(all, (i - 1) * TupleSize + 1, i * TupleSize)) \in Int
    BY <1>5
  <2> QED BY <2>1
<1> HIDE DEF new
<1>7. new \in Seq(Int) /\ Len(new) = n
  BY ONLY <1>4, <1>6
<1> DEFINE queue == control_data_queue'
           left == leftover_data'
<1>8. queue \in Seq(Int) /\ Len(queue) = q + n
      /\ \A i \in 1 .. q + n : queue[i] = IF i <= q THEN control_data_queue[i] ELSE new[i - q]
  <2>1. control_data_queue \in Seq(Int)
    BY <1>1
  <2>2. /\ control_data_queue \o new \in Seq(Int)
        /\ Len(control_data_queue \o new) = Len(control_data_queue) + Len(new)
        /\ \A i \in 1 .. Len(control_data_queue) + Len(new) :
              (control_data_queue \o new)[i] =
                 IF i <= Len(control_data_queue) THEN control_data_queue[i]
                 ELSE new[i - Len(control_data_queue)]
    BY ONLY <2>1, <1>7, ConcatProperties
  <2> QED BY <1>2, <1>7, <2>2 DEF q
<1>9. left \in Seq(Cell) /\ Sifted(left, all, 5 * n)
      /\ \A i \in 1 .. Len(left) : 5 * n + i \in 1 .. Len(all) /\ left[i] = all[5 * n + i]
  <2>1. left = SubSeq(all, 5 * n + 1, Len(all))
    BY <1>2, <1>4
  <2> QED BY <1>3, <1>4, <2>1, CutFacts
<1> HIDE DEF queue, left
<1>10. /\ \A i \in 1 .. q : queue[i] = control_data_queue[i]
       /\ \A i \in 1 .. Len(queue) : i \notin 1 .. q =>
             i - q \in 1 .. n /\ queue[i] = new[i - q]
  BY <1>1, <1>4, <1>8, SMTT(30)
\* What is at the ends of the cells of a new number.
<1>11. ASSUME NEW i \in 1 .. n, new[i] > 0
       PROVE  /\ new[i] <= issued
              /\ 5 * i - 4 \in 1 .. Len(all) /\ all[5 * i - 4] = << new[i], 4 >>
              /\ Real(all[5 * i - 4])
              /\ 5 * i \in 1 .. Len(all) /\ all[5 * i] = << new[i], 8 >> /\ Real(all[5 * i])
  BY <1>3, <1>4, <1>5, <1>11, SMTT(30) DEF Real
<1>12. StreamTypes'
  BY <1>1, <1>8, <1>9 DEF StreamTypes, queue, left
<1>13. IssuedInv'
  <2>1. \A i \in 1 .. Len(left) : left[i][1] <= issued
    BY <1>3, <1>9
  <2>2. \A i \in 1 .. Len(queue) : queue[i] <= issued
    <3> SUFFICES ASSUME NEW i \in 1 .. Len(queue) PROVE queue[i] <= issued
      OBVIOUS
    <3>1. CASE i \in 1 .. q
      BY <1>1, <1>10, <3>1 DEF q
    <3>2. CASE i \notin 1 .. q
      <4> DEFINE k == i - q
      <4>1. k \in 1 .. n /\ queue[i] = new[k]
        BY <1>10, <3>2
      <4> HIDE DEF k
      <4>2. new[k] \in Nat /\ (new[k] > 0 => new[k] <= issued)
        BY <1>5, <1>11, <4>1
      <4> QED BY <1>1, <4>1, <4>2
    <3> QED BY <3>1, <3>2
  <2> QED BY <1>1, <2>1, <2>2 DEF IssuedInv, queue, left
<1>14. Rising(queue)
  <2> SUFFICES ASSUME NEW i \in 1 .. Len(queue), NEW j \in 1 .. Len(queue), i < j,
                      queue[i] > 0, queue[j] > 0
               PROVE  queue[i] < queue[j]
    BY DEF Rising
  <2>1. CASE j \in 1 .. q
    <3>1. i \in 1 .. q
      BY <1>1, <1>8, <2>1
    <3> QED BY <1>1, <1>10, <2>1, <3>1 DEF Rising, q
  <2>2. CASE i \in 1 .. q /\ j \notin 1 .. q
    <3> DEFINE k == j - q
    <3>1. k \in 1 .. n /\ queue[j] = new[k]
      BY <1>10, <2>2
    <3> HIDE DEF k
    <3>2. control_data_queue[i] < all[5 * k - 4][1] /\ all[5 * k - 4] = << new[k], 4 >>
      BY <1>3, <1>11, <2>2, <3>1 DEF Passed, q
    <3> QED BY <1>10, <2>2, <3>1, <3>2
  <2>3. CASE i \notin 1 .. q /\ j \notin 1 .. q
    <3> DEFINE k == i - q
               l == j - q
    <3>1. k \in 1 .. n /\ l \in 1 .. n /\ queue[i] = new[k] /\ queue[j] = new[l]
      BY <1>10, <2>3
    <3>2. 5 * k < 5 * l - 4
      BY <1>1, <1>8, <3>1
    <3> HIDE DEF k, l
    <3>3. Older(all[5 * k], all[5 * l - 4])
      BY <1>3, <1>11, <3>1, <3>2 DEF Ordered
    <3>4. Older(<< new[k], 8 >>, << new[l], 4 >>)
      BY <1>11, <3>1, <3>3
    <3> QED BY <3>1, <3>4 DEF Older
  <2>4. i \notin 1 .. q => j \notin 1 .. q
    BY <1>1, <1>8
  <2> QED BY <2>1, <2>2, <2>3, <2>4
<1>15. NumbersBefore(applied, queue)
  <2> SUFFICES ASSUME NEW i \in 1 .. Len(applied), NEW j \in 1 .. Len(queue),
                      applied[i] > 0, queue[j] > 0
               PROVE  applied[i] < queue[j]
    BY DEF NumbersBefore
  <2>1. CASE j \in 1 .. q
    BY <1>1, <1>10, <2>1 DEF NumbersBefore, q
  <2>2. CASE j \notin 1 .. q
    <3> DEFINE k == j - q
    <3>1. k \in 1 .. n /\ queue[j] = new[k]
      BY <1>10, <2>2
    <3> HIDE DEF k
    <3>2. applied[i] < all[5 * k - 4][1] /\ all[5 * k - 4] = << new[k], 4 >>
      BY <1>3, <1>11, <3>1 DEF Passed
    <3> QED BY <3>1, <3>2
  <2> QED BY <2>1, <2>2
<1>16. ASSUME NEW u \in Seq(Cell), Passed(control_data_queue, u), CellsBefore(all, u)
       PROVE  Passed(queue, u)
  <2> SUFFICES ASSUME NEW i \in 1 .. Len(queue), NEW j \in 1 .. Len(u), Real(u[j])
               PROVE  queue[i] < u[j][1]
    BY DEF Passed
  <2>1. CASE i \in 1 .. q
    BY <1>10, <1>16, <2>1 DEF Passed, q
  <2>2. CASE i \notin 1 .. q /\ new[i - q] > 0
    <3> DEFINE k == i - q
    <3>1. k \in 1 .. n /\ queue[i] = new[k]
      BY <1>10, <2>2
    <3>2. Older(all[5 * k], u[j]) /\ all[5 * k] = << new[k], 8 >>
      BY <1>11, <1>16, <2>2, <3>1 DEF CellsBefore
    <3>3. u[j][1] \in Nat /\ u[j][2] <= 8 /\ u[j][2] \in Nat
      <4>1. u[j] \in Nat \X (0 .. 8)
        BY DEF Cell, MessageSize, NonceSize, TupleSize
      <4> QED BY <4>1, SMTT(30)
    <3> HIDE DEF k
    <3>4. new[k] \in Nat
      BY <1>5, <3>1
    <3> QED BY <3>1, <3>2, <3>3, <3>4 DEF Older
  <2>3. CASE i \notin 1 .. q /\ ~ (new[i - q] > 0)
    BY <1>5, <1>10, <2>3 DEF Real
  <2> QED BY <2>1, <2>2, <2>3
<1>17. Ordered(left) /\ CellsBefore(left, wire')
       /\ Passed(control_data_queue, left) /\ Passed(applied, left)
  BY <1>3, <1>4, <1>9, SiftedKeeps
<1>18. Passed(queue, left)
  \* The numbers were complete before the cells that are left.
  <2> SUFFICES ASSUME NEW i \in 1 .. Len(queue), NEW j \in 1 .. Len(left), Real(left[j])
               PROVE  queue[i] < left[j][1]
    BY DEF Passed
  <2>1. CASE i \in 1 .. q
    BY <1>10, <1>17, <2>1 DEF Passed, q
  <2>2. CASE i \notin 1 .. q /\ new[i - q] > 0
    <3> DEFINE k == i - q
    <3>1. k \in 1 .. n /\ queue[i] = new[k]
      BY <1>10, <2>2
    <3>2. 5 * k < 5 * n + j /\ 5 * n + j \in 1 .. Len(all) /\ left[j] = all[5 * n + j]
      BY <1>4, <1>9, <3>1, SMTT(30)
    <3>3. Older(all[5 * k], left[j]) /\ all[5 * k] = << new[k], 8 >>
      BY <1>3, <1>11, <2>2, <3>1, <3>2 DEF Ordered
    <3>4. left[j][1] \in Nat /\ left[j][2] <= 8 /\ left[j][2] \in Nat
      <4>1. left[j] \in Nat \X (0 .. 8)
        BY <1>9 DEF Cell, MessageSize, NonceSize, TupleSize
      <4> QED BY <4>1, SMTT(30)
    <3> HIDE DEF k
    <3>5. new[k] \in Nat
      BY <1>5, <3>1
    <3> QED BY <3>1, <3>3, <3>4, <3>5 DEF Older
  <2>3. CASE i \notin 1 .. q /\ ~ (new[i - q] > 0)
    <3>1. left[j] \in Cell
      BY <1>9
    <3> QED BY <1>5, <1>10, <2>3, <3>1 DEF Real, Cell
  <2> QED BY <2>1, <2>2, <2>3
<1>19. Passed(queue, wire')
  BY <1>3, <1>16
<1> QED BY <1>1, <1>12, <1>13, <1>14, <1>15, <1>17, <1>18, <1>19
        DEF StreamInv, OrderInv, queue, left, Rising

\* A part of what is on the wire, nothing more from a closed socket, or a reset.
LEMMA ReceiveKeeps == ASSUME StreamInv, Receive PROVE StreamInv'
<1>1. UNCHANGED << issued, applied >>
  BY DEF Receive, mainVars, appVars
<1>2. /\ wire \in Seq(Cell) /\ Ordered(wire) /\ CellsBefore(leftover_data, wire)
      /\ Passed(control_data_queue, wire) /\ Passed(applied, wire)
      /\ issued \in Nat /\ \A i \in 1 .. Len(wire) : wire[i][1] <= issued
  BY DEF StreamInv, StreamTypes, IssuedInv, OrderInv
<1>3. ASSUME NEW n \in 1 .. Len(wire), QueueTuples(Decrypt(SubSeq(wire, 1, n))),
             wire' = SubSeq(wire, n + 1, Len(wire))
      PROVE  StreamInv'
  <2> DEFINE d == Decrypt(SubSeq(wire, 1, n))
             r == SubSeq(wire, n + 1, Len(wire))
  <2>1. n \in 0 .. Len(wire) /\ n \in Nat
    OBVIOUS
  <2>2. PICK k \in Nat : Sifted(d, wire, k) /\ k + Len(d) <= n
    BY <1>2, <2>1, DecryptFacts
  <2>3. d \in Seq(Cell)
    BY <1>2, <2>1, DecryptFacts
  <2>4. r \in Seq(Cell) /\ Sifted(r, wire, n)
        /\ \A i \in 1 .. Len(r) : n + i \in 1 .. Len(wire) /\ r[i] = wire[n + i]
    BY <1>2, <2>1, CutFacts
  <2>5. wire' = r /\ QueueTuples(d)
    BY <1>3
  <2> HIDE DEF d, r
  <2>6. CellsBefore(d, r)
    BY <1>2, <2>1, <2>2, <2>3, <2>4, SiftedApart
  <2>7. Ordered(d) /\ CellsBefore(leftover_data, d)
        /\ Passed(control_data_queue, d) /\ Passed(applied, d)
    BY <1>2, <2>2, <2>3, SiftedKeeps
  <2>8. Ordered(r) /\ CellsBefore(leftover_data, r)
        /\ Passed(control_data_queue, r) /\ Passed(applied, r)
    BY <1>2, <2>1, <2>4, SiftedKeeps
  <2>9. \A i \in 1 .. Len(d) : d[i][1] <= issued
    <3> SUFFICES ASSUME NEW i \in 1 .. Len(d) PROVE d[i][1] <= issued
      OBVIOUS
    <3>1. CASE Real(d[i])
      BY <1>2, <2>2, <2>3, <3>1, SiftedPlaces
    <3>2. CASE ~ Real(d[i])
      <4>1. d[i] \in Cell
        BY <2>3
      <4> QED BY <1>2, <3>2, <4>1 DEF Real, Cell
    <3> QED BY <3>1, <3>2
  <2>10. \A i \in 1 .. Len(r) : r[i][1] <= issued
    BY <1>2, <2>4
  <2> QED BY <1>1, <2>3, <2>4, <2>5, <2>6, <2>7, <2>8, <2>9, <2>10, QueueKeeps
<1>4. ASSUME QueueTuples(<< >>), wire' = wire PROVE StreamInv'
  <2> DEFINE d == << >>
  <2>1. d \in Seq(Cell) /\ Len(d) = 0 /\ QueueTuples(d)
    BY <1>4
  <2> HIDE DEF d
  <2>2. Ordered(d) /\ CellsBefore(leftover_data, d) /\ CellsBefore(d, wire')
        /\ Passed(control_data_queue, d) /\ Passed(applied, d)
        /\ \A i \in 1 .. Len(d) : d[i][1] <= issued
    BY <2>1 DEF Ordered, CellsBefore, Passed
  <2>3. /\ wire' \in Seq(Cell) /\ Ordered(wire') /\ CellsBefore(leftover_data, wire')
        /\ Passed(control_data_queue, wire') /\ Passed(applied, wire')
        /\ \A i \in 1 .. Len(wire') : wire'[i][1] <= issued
    BY <1>2, <1>4
  <2> QED BY <1>1, <2>1, <2>2, <2>3, QueueKeeps
<1>5. CASE UNCHANGED << leftover_data, control_data_queue, wire >>
  BY <1>1, <1>5, StreamUntouched
<1> QED BY <1>3, <1>4, <1>5 DEF Receive

-----------------------------------------------------------------------------
(* The vehicle. *)

\* The vehicle is told a number that is newer than all before and older than all to come.
LEMMA ApplyKeeps ==
    ASSUME StreamInv, NEW c \in Int, c <= issued, applied' = Append(applied, c),
           UNCHANGED << issued, wire, leftover_data >>,
           control_data_queue' \in Seq(Int), Rising(control_data_queue'),
           \A i \in 1 .. Len(control_data_queue') : control_data_queue'[i] <= issued,
           \A i \in 1 .. Len(applied) : applied[i] > 0 /\ c > 0 => applied[i] < c,
           \A i \in 1 .. Len(control_data_queue') :
              c > 0 /\ control_data_queue'[i] > 0 => c < control_data_queue'[i],
           NumbersBefore(applied, control_data_queue'),
           Passed(control_data_queue', leftover_data), Passed(control_data_queue', wire),
           \A s \in {leftover_data, wire} : \A i \in 1 .. Len(s) : Real(s[i]) => c < s[i][1]
    PROVE  StreamInv'
<1> DEFINE a == Len(applied)
<1>1. applied \in Seq(Int) /\ a \in Nat
  BY DEF StreamInv, StreamTypes
<1>2. /\ applied' \in Seq(Int) /\ Len(applied') = a + 1 /\ applied'[a + 1] = c
      /\ \A i \in 1 .. a : applied'[i] = applied[i]
  BY <1>1, AppendProperties
<1>3. \A i \in 1 .. Len(applied') : i \in 1 .. a \/ i = a + 1
  BY <1>1, <1>2
<1>4. StreamTypes' /\ IssuedInv'
  BY <1>2, <1>3 DEF StreamInv, StreamTypes, IssuedInv
<1>5. Rising(applied')
  <2>1. Rising(applied)
    BY DEF StreamInv, OrderInv
  <2> HIDE DEF a
  <2> SUFFICES ASSUME NEW i \in 1 .. Len(applied'), NEW j \in 1 .. Len(applied'), i < j,
                      applied'[i] > 0, applied'[j] > 0
               PROVE  applied'[i] < applied'[j]
    BY DEF Rising
  <2>2. i \in 1 .. a
    BY <1>1, <1>2
  <2>3. CASE j \in 1 .. a
    BY <1>2, <2>1, <2>2, <2>3 DEF Rising, a
  <2>4. CASE j = a + 1
    BY <1>2, <2>2, <2>4 DEF a
  <2> QED BY <1>3, <2>3, <2>4
<1>6. NumbersBefore(applied', control_data_queue')
  <2> SUFFICES ASSUME NEW i \in 1 .. Len(applied'), NEW j \in 1 .. Len(control_data_queue'),
                      applied'[i] > 0, control_data_queue'[j] > 0
               PROVE  applied'[i] < control_data_queue'[j]
    BY DEF NumbersBefore
  <2> QED BY <1>2, <1>3 DEF NumbersBefore
<1>7. ASSUME NEW s \in {leftover_data, wire}, Passed(applied, s) PROVE Passed(applied', s)
  <2> SUFFICES ASSUME NEW i \in 1 .. Len(applied'), NEW j \in 1 .. Len(s), Real(s[j])
               PROVE  applied'[i] < s[j][1]
    BY DEF Passed
  <2> QED BY <1>2, <1>3, <1>7 DEF Passed
<1>8. Passed(applied', leftover_data) /\ Passed(applied', wire)
  BY <1>7 DEF StreamInv, OrderInv
<1> QED BY <1>4, <1>5, <1>6, <1>8 DEF StreamInv, OrderInv, Ordered, CellsBefore

\* The oldest command leaves the queue.
LEMMA TakeKeeps == ASSUME StreamInv, Take PROVE StreamInv'
<1> DEFINE q == control_data_queue
<1>1. /\ q \in Seq(Int) /\ q # << >> /\ q' = Tail(q)
      /\ UNCHANGED << issued, wire, leftover_data >>
  BY DEF StreamInv, StreamTypes, Take, appVars, netVars
<1>2. /\ Head(q) \in Int /\ Head(q) = q[1] /\ Len(q) \in Nat /\ 1 \in 1 .. Len(q)
      /\ q' \in Seq(Int)
      /\ \A i \in 1 .. Len(q') : i + 1 \in 1 .. Len(q) /\ 1 < i + 1 /\ q'[i] = q[i + 1]
  BY <1>1
<1>3. /\ issued \in Nat /\ Rising(q) /\ NumbersBefore(applied, q)
      /\ Passed(q, leftover_data) /\ Passed(q, wire)
      /\ \A i \in 1 .. Len(q) : q[i] <= issued
  BY DEF StreamInv, StreamTypes, IssuedInv, OrderInv
<1> HIDE DEF q
<1>4. /\ NumbersBefore(applied, q') /\ Passed(q', leftover_data) /\ Passed(q', wire)
      /\ \A i \in 1 .. Len(q') : q'[i] <= issued
  BY <1>2, <1>3 DEF NumbersBefore, Passed
<1>5. Rising(q')
  <2>1. \A i, j \in 1 .. Len(q') : i < j => i + 1 < j + 1
    OBVIOUS
  <2> QED BY <1>2, <1>3, <2>1 DEF Rising
<1>6. CASE applied' = applied
  BY <1>1, <1>2, <1>4, <1>5, <1>6
     DEF q, StreamInv, StreamTypes, IssuedInv, OrderInv, Ordered, Rising, CellsBefore,
         NumbersBefore, Passed
<1>7. CASE applied' = Append(applied, Head(q))
  <2>1. \A i \in 1 .. Len(applied) : applied[i] > 0 /\ Head(q) > 0 => applied[i] < Head(q)
    BY <1>2, <1>3 DEF NumbersBefore
  <2>2. \A i \in 1 .. Len(q') : Head(q) > 0 /\ q'[i] > 0 => Head(q) < q'[i]
    BY <1>2, <1>3 DEF Rising
  <2>3. \A s \in {leftover_data, wire} : \A i \in 1 .. Len(s) : Real(s[i]) => Head(q) < s[i][1]
    BY <1>2, <1>3 DEF Passed
  <2>4. Head(q) \in Int /\ Head(q) <= issued
    BY <1>2, <1>3
  <2> QED BY <1>1, <1>2, <1>3, <1>4, <1>5, <1>7, <2>1, <2>2, <2>3, <2>4, ApplyKeeps DEF q
<1> QED BY <1>6, <1>7 DEF Take, q

\* To brake is no command of the application.
LEMMA WakeUpKeeps == ASSUME StreamInv, WakeUp PROVE StreamInv'
<1>1. applied' = Append(applied, Brake) /\ Brake = -1
      /\ UNCHANGED << issued, wire, leftover_data, control_data_queue >>
  BY DEF WakeUp, Brake, controlVars, appVars, netVars
<1>2. \A s \in {leftover_data, wire} : \A i \in 1 .. Len(s) : Real(s[i]) => Brake < s[i][1]
  <2>1. \A s \in {leftover_data, wire} : \A i \in 1 .. Len(s) : s[i] \in Cell
    BY DEF StreamInv, StreamTypes
  <2> QED BY <1>1, <2>1 DEF Real, Cell
<1>3. /\ issued \in Nat /\ control_data_queue \in Seq(Int) /\ Rising(control_data_queue)
      /\ NumbersBefore(applied, control_data_queue)
      /\ Passed(control_data_queue, leftover_data) /\ Passed(control_data_queue, wire)
      /\ \A i \in 1 .. Len(control_data_queue) : control_data_queue[i] <= issued
  BY DEF StreamInv, StreamTypes, IssuedInv, OrderInv
<1>4. Brake \in Int /\ Brake <= issued /\ ~ (Brake > 0)
  BY <1>1, <1>3
<1> QED BY <1>1, <1>2, <1>3, <1>4, ApplyKeeps

\* What is lost is the end of what is on its way.
LEMMA BreakKeeps == ASSUME StreamInv, Break PROVE StreamInv'
<1>1. UNCHANGED << issued, leftover_data, control_data_queue, applied >>
  BY DEF Break, controlVars, mainVars, appVars
<1>2. PICK n \in 0 .. Len(wire) : wire' = SubSeq(wire, 1, n)
  BY DEF Break
<1>3. wire \in Seq(Cell) /\ n \in Nat /\ n <= Len(wire)
  BY DEF StreamInv, StreamTypes
<1>4. wire' \in Seq(Cell) /\ Len(wire') = n /\ \A i \in 1 .. n : wire'[i] = wire[i]
  BY <1>2, <1>3, CutFacts
<1>5. Sifted(wire', wire, 0) /\ \A i \in 1 .. Len(wire') : i \in 1 .. Len(wire)
  BY <1>3, <1>4 DEF Sifted
<1>6. Ordered(wire') /\ CellsBefore(leftover_data, wire')
      /\ Passed(control_data_queue, wire') /\ Passed(applied, wire')
  BY <1>3, <1>4, <1>5, SiftedKeeps DEF StreamInv, OrderInv
<1>7. \A i \in 1 .. Len(wire') : wire'[i][1] <= issued
  BY <1>4, <1>5 DEF StreamInv, IssuedInv
<1> QED BY <1>1, <1>4, <1>6, <1>7
        DEF StreamInv, StreamTypes, IssuedInv, OrderInv, Ordered, Rising, CellsBefore,
            NumbersBefore, Passed

\* Every step keeps the invariant.
LEMMA StreamStepKeeps == ASSUME StreamInv, [Next]_vars PROVE StreamInv'
<1>1. CASE Issue
  BY <1>1, IssueKeeps
<1>2. CASE Receive
  BY <1>2, ReceiveKeeps
<1>3. CASE Take
  BY <1>3, TakeKeeps
<1>4. CASE WakeUp
  BY <1>4, WakeUpKeeps
<1>5. CASE Break
  BY <1>5, BreakKeeps
<1>6. CASE Tick \/ Sender \/ \E s \in Sensors : Callback(s)
  BY <1>6, StreamUntouched
     DEF Tick, Callback, Sender, SenderLoop, Lock, Slice, Assign, Send,
         controlVars, mainVars, appVars, netVars
<1>7. CASE ReceiverLoop \/ StartThreads \/ Interrupt \/ \E s \in Sensors : \E n : Listen(s, n)
  BY <1>7, StreamUntouched
     DEF ReceiverLoop, StartThreads, Interrupt, Listen, controlVars, mainVars, appVars, netVars
<1>8. CASE Destroy \/ (\E t, a, n : Stop(t, a, n)) \/ (\E p, a, n : Join(p, a, n))
  BY <1>8, StreamUntouched DEF Destroy, Stop, Join, controlVars, mainVars, appVars, netVars
<1>9. CASE ReadSensors \/ CloseSocket \/ Spot
  BY <1>9, StreamUntouched
     DEF ReadSensors, CloseSocket, Spot, controlVars, mainVars, appVars, netVars
<1>10. CASE UNCHANGED vars
  BY <1>10, StreamUntouched DEF vars, controlVars, mainVars, appVars, netVars
<1>11. Main => \/ Take \/ WakeUp \/ StartThreads \/ Destroy
               \/ (\E s \in Sensors : \E n : Listen(s, n))
               \/ (\E t, a, n : Stop(t, a, n)) \/ (\E p, a, n : Join(p, a, n))
  BY DEF Main, Sensors
<1> QED BY <1>1, <1>2, <1>3, <1>4, <1>5, <1>6, <1>7, <1>8, <1>9, <1>10, <1>11
        DEF Next, Receiver, App

\* At first nothing has been issued.
LEMMA StreamStarts == ASSUME Init PROVE StreamInv
<1>1. /\ issued = 0 /\ wire = << >> /\ leftover_data = << >> /\ control_data_queue = << >>
      /\ applied = << >>
  BY DEF Init
<1> QED BY <1>1 DEF StreamInv, StreamTypes, IssuedInv, OrderInv, Ordered, Rising, CellsBefore,
                    NumbersBefore, Passed

\* ControlDataReceiver.run() and recv_decrypt() of communication.py: the vehicle carries
\* out no command twice and none before an earlier one, wherever the network cuts the
\* bytes, whatever is decrypted to garbage, and wherever a broken connection stops.
THEOREM CommandsStayInOrder == Spec => []CommandsNotRepeated
<1>1. StreamInv => CommandsNotRepeated
  BY DEF StreamInv, OrderInv, Rising, CommandsNotRepeated
<1> QED BY <1>1, StreamStarts, StreamStepKeeps, PTL DEF Spec

-----------------------------------------------------------------------------
(* Induction, and what a recursive function of the model returns.          *)

\* Induction over the natural numbers, for a set of them.
LEMMA Induction ==
    ASSUME NEW S, 0 \in S, \A n \in Nat : n \in S => n + 1 \in S
    PROVE  \A n \in Nat : n \in S
<1> DEFINE T == Nat \ S
           R == OpToRel(<, Nat)
<1>1. SUFFICES ASSUME T # {} PROVE FALSE
  OBVIOUS
<1>2. IsWellFoundedOn(R, Nat)
  BY NatLessThanWellFounded
<1>3. \A x, y \in Nat : x < y => << x, y >> \in R
  BY DEF OpToRel
<1> HIDE DEF R
<1>4. PICK x \in T : \A y \in T : << y, x >> \notin R
  <2>1. T \subseteq Nat
    OBVIOUS
  <2> HIDE DEF T
  <2> QED BY <1>1, <1>2, <2>1, WFMin
<1>5. x \in Nat /\ x # 0
  OBVIOUS
<1>6. x - 1 \in Nat /\ x - 1 < x /\ (x - 1) + 1 = x
  BY <1>5
<1>7. x - 1 \notin T
  BY <1>3, <1>4, <1>5, <1>6
<1> QED BY <1>5, <1>6, <1>7

\* What FlattenSeq returns, one sequence after the other.
LEMMA Flattened ==
    ASSUME NEW n \in Nat \ {0}, NEW V, NEW s \in [1 .. n -> Seq(V)]
    PROVE  \E f : /\ f[n] = FlattenSeq(s) /\ f[1] = s[1]
                  /\ \A i \in 2 .. n : f[i] = f[i - 1] \o s[i]
<1> DEFINE Upto(m, f) == f = [i \in 1 .. m |-> IF i = 1 THEN s[i] ELSE f[i - 1] \o s[i]]
           S == {m \in Nat : \E f : Upto(m + 1, f)}
<1>1. 0 \in S
  <2> DEFINE f == [i \in 1 .. 1 |-> s[i]]
  <2>1. Upto(0 + 1, f)
    OBVIOUS
  <2> HIDE DEF f
  <2> QED BY <2>1
<1>2. ASSUME NEW m \in Nat, m \in S PROVE m + 1 \in S
  <2>1. PICK f : Upto(m + 1, f)
    BY <1>2
  <2> DEFINE g == [i \in 1 .. m + 2 |-> IF i <= m + 1 THEN f[i] ELSE f[m + 1] \o s[i]]
  <2>2. ASSUME NEW i \in 1 .. m + 2
        PROVE  g[i] = IF i = 1 THEN s[i] ELSE g[i - 1] \o s[i]
    <3>1. CASE i <= m + 1
      <4>1. g[i] = f[i] /\ i \in 1 .. m + 1 /\ (i # 1 => i - 1 \in 1 .. m + 1 /\ g[i - 1] = f[i - 1])
        BY <3>1
      <4>2. f[i] = IF i = 1 THEN s[i] ELSE f[i - 1] \o s[i]
        BY <2>1, <4>1
      <4> QED BY <4>1, <4>2
    <3>2. CASE ~ (i <= m + 1)
      <4>1. i = m + 2 /\ i # 1 /\ i - 1 = m + 1 /\ i - 1 \in 1 .. m + 2 /\ i - 1 <= m + 1
        BY <3>2
      <4>2. g[i] = f[m + 1] \o s[i] /\ g[i - 1] = f[m + 1]
        BY <3>2, <4>1
      <4> QED BY <4>1, <4>2
    <3> QED BY <3>1, <3>2
  <2>3. g = [i \in 1 .. m + 2 |-> IF i = 1 THEN s[i] ELSE g[i - 1] \o s[i]]
    <3> DEFINE h == [i \in 1 .. m + 2 |-> IF i = 1 THEN s[i] ELSE g[i - 1] \o s[i]]
    <3>1. \A i \in 1 .. m + 2 : g[i] = h[i]
      BY <2>2
    <3>2. g = [i \in 1 .. m + 2 |-> g[i]] /\ h = [i \in 1 .. m + 2 |-> h[i]]
      OBVIOUS
    <3> HIDE DEF g, h
    <3>3. g = h
      BY <3>1, <3>2
    <3> QED BY <3>3 DEF h
  <2> HIDE DEF g
  <2>4. (m + 1) + 1 = m + 2 /\ m + 1 \in Nat
    OBVIOUS
  <2> QED BY <2>3, <2>4
<1>3. n - 1 \in S
  <2>1. \A m \in Nat : m \in S
    <3> HIDE DEF S
    <3> QED BY ONLY <1>1, <1>2, Induction
  <2>2. n - 1 \in Nat
    OBVIOUS
  <2> QED BY ONLY <2>1, <2>2
<1>4. \E f : Upto(n, f)
  <2>1. (n - 1) + 1 = n
    OBVIOUS
  <2> QED BY <1>3, <2>1
<1>5. Len(s) = n
  <2>1. s \in Seq(Seq(V))
    OBVIOUS
  <2> QED OBVIOUS
<1> DEFINE F == CHOOSE f : Upto(Len(s), f)
<1>6. F[n] = FlattenSeq(s)
  <2>1. F[Len(s)] = FlattenSeq(s)
    <3>1. Len(s) # 0
      BY <1>5
    <3> QED BY ONLY <3>1 DEF FlattenSeq
  <2> QED BY <1>5, <2>1
<1>7. Upto(n, F)
  <2>1. \E f : Upto(Len(s), f)
    BY <1>4, <1>5
  <2> HIDE DEF Upto
  <2>2. Upto(Len(s), F)
    BY ONLY <2>1
  <2> QED BY <1>5, <2>2
<1> HIDE DEF F
<1>8. F[1] = s[1]
  <2>1. 1 \in 1 .. n
    OBVIOUS
  <2> QED BY <1>7, <2>1
<1>9. ASSUME NEW i \in 2 .. n PROVE F[i] = F[i - 1] \o s[i]
  <2>1. i \in 1 .. n /\ i # 1
    OBVIOUS
  <2> QED BY <1>7, <2>1
<1> QED BY <1>6, <1>8, <1>9

-----------------------------------------------------------------------------
(* What the vehicle is told with a command, and with the first commands.    *)

Tell(c) == IF c \in Timed THEN << c, Brake >> ELSE << c >>
Final == Commands - 1
Told ==
    CHOOSE f : /\ f[0] = << >> /\ f[Final] = Procedure
               /\ \A i \in 1 .. Final : f[i] = f[i - 1] \o Tell(i)

LEMMA FinalFacts == Final \in Nat /\ Timed \subseteq 1 .. Final
  BY BridgeAssumption DEF Final

LEMMA TellFacts == ASSUME NEW c \in Int PROVE Tell(c) \in Seq(Int)
  BY DEF Tell, Brake

LEMMA ToldFacts ==
    /\ Told[0] = << >> /\ Told[Final] = Procedure
    /\ \A i \in 1 .. Final : Told[i] = Told[i - 1] \o Tell(i)
<1> DEFINE s == [c \in 1 .. Final |-> Tell(c)]
<1>1. Final \in Nat /\ Procedure = FlattenSeq(s)
  BY BridgeAssumption DEF Procedure, Tell, Final
<1>2. s \in [1 .. Final -> Seq(Int)]
  BY TellFacts
<1> DEFINE IsTold(f) == /\ f[0] = << >> /\ f[Final] = Procedure
                        /\ \A i \in 1 .. Final : f[i] = f[i - 1] \o Tell(i)
<1>3. \E f : IsTold(f)
  <2>1. CASE Final = 0
    <3>1. s = << >>
      BY <2>1
    <3>2. FlattenSeq(s) = << >>
      BY <3>1 DEF FlattenSeq
    <3>3. IsTold([i \in {0} |-> << >>])
      BY <1>1, <2>1, <3>2
    <3> QED BY <3>3
  <2>2. CASE Final # 0
    <3>1. PICK f : /\ f[Final] = FlattenSeq(s) /\ f[1] = s[1]
                   /\ \A i \in 2 .. Final : f[i] = f[i - 1] \o s[i]
      <4>1. Final \in Nat \ {0}
        BY <1>1, <2>2
      <4> HIDE DEF s
      <4> QED BY ONLY <4>1, <1>2, Flattened
    <3> DEFINE g == [i \in 0 .. Final |-> IF i = 0 THEN << >> ELSE f[i]]
    <3>2. g[0] = << >> /\ g[Final] = Procedure
      BY <1>1, <2>2, <3>1
    <3>3. ASSUME NEW i \in 1 .. Final PROVE g[i] = g[i - 1] \o Tell(i)
      <4>1. s[i] = Tell(i) /\ Tell(i) \in Seq(Int) /\ g[i] = f[i]
        BY TellFacts
      <4>2. CASE i = 1
        <5>1. i - 1 = 0 /\ 0 \in 0 .. Final
          BY <1>1, <4>2
        <5>3. g[i - 1] = << >> /\ g[i] = Tell(i)
          BY <3>1, <4>1, <4>2, <5>1
        <5>2. << >> \o Tell(i) = Tell(i)
          BY <4>1
        <5> QED BY <5>2, <5>3
      <4>3. CASE i # 1
        <5>1. i \in 2 .. Final /\ g[i - 1] = f[i - 1]
          BY <1>1, <4>3
        <5> QED BY <3>1, <4>1, <5>1
      <4> QED BY <4>2, <4>3
    <3> HIDE DEF g
    <3>4. IsTold(g)
      BY <3>2, <3>3
    <3> QED BY <3>4
  <2> QED BY <2>1, <2>2
<1> QED BY <1>3 DEF Told

LEMMA ToldTypes == \A i \in 0 .. Final : Told[i] \in Seq(Int)
<1> DEFINE S == {i \in Nat : i <= Final => Told[i] \in Seq(Int)}
<1>1. 0 \in S
  <2>1. Told[0] \in Seq(Int)
    BY ToldFacts
  <2> QED BY <2>1
<1>2. ASSUME NEW i \in Nat, i \in S PROVE i + 1 \in S
  <2> SUFFICES ASSUME i + 1 <= Final PROVE Told[i + 1] \in Seq(Int)
    OBVIOUS
  <2>1. i + 1 \in 1 .. Final /\ Told[i] \in Seq(Int) /\ (i + 1) - 1 = i
    BY <1>2, FinalFacts
  <2>2. Told[i + 1] = Told[i] \o Tell(i + 1) /\ Tell(i + 1) \in Seq(Int)
    <3>1. Told[i + 1] = Told[(i + 1) - 1] \o Tell(i + 1)
      BY ONLY <2>1, ToldFacts
    <3> QED BY <2>1, <3>1, TellFacts
  <2> QED BY <2>1, <2>2
<1>3. \A i \in Nat : i \in S
  <2> HIDE DEF S
  <2> QED BY ONLY <1>1, <1>2, Induction
<1> QED BY <1>3

\* Prefixes.
LEMMA PrefixFacts ==
    ASSUME NEW s \in Seq(Int), NEW t \in Seq(Int)
    PROVE  /\ IsPrefix(s, s \o t) /\ IsPrefix(s, s)
           /\ \A u \in Seq(Int) : IsPrefix(s \o t, u) => IsPrefix(s, u)
<1>1. \A u \in Seq(Int) : IsPrefix(s, u) <=>
         Len(s) <= Len(u) /\ \A i \in 1 .. Len(s) : s[i] = u[i]
  <2> SUFFICES ASSUME NEW u \in Seq(Int), Len(s) <= Len(u)
               PROVE  SubSeq(s, 1, Len(s)) = SubSeq(u, 1, Len(s)) <=>
                         \A i \in 1 .. Len(s) : s[i] = u[i]
    BY DEF IsPrefix
  <2> DEFINE a == SubSeq(s, 1, Len(s))
             b == SubSeq(u, 1, Len(s))
  <2>1. /\ a \in Seq(Int) /\ Len(a) = Len(s) /\ \A i \in 1 .. Len(s) : a[i] = s[i]
        /\ b \in Seq(Int) /\ Len(b) = Len(s) /\ \A i \in 1 .. Len(s) : b[i] = u[i]
    OBVIOUS
  <2> HIDE DEF a, b
  <2>2. (\A i \in 1 .. Len(s) : s[i] = u[i]) => a = b
    <3> SUFFICES ASSUME \A i \in 1 .. Len(s) : s[i] = u[i] PROVE a = b
      OBVIOUS
    <3>1. \A i \in 1 .. Len(a) : a[i] = b[i]
      BY <2>1
    <3> QED BY ONLY <2>1, <3>1, SeqEqual
  <2> QED BY <2>1, <2>2 DEF a, b
<1>2. s \o t \in Seq(Int) /\ Len(s \o t) = Len(s) + Len(t)
      /\ \A i \in 1 .. Len(s) : (s \o t)[i] = s[i]
  OBVIOUS
<1>3. IsPrefix(s, s \o t) /\ IsPrefix(s, s)
  <2> DEFINE w == s \o t
  <2>1. w \in Seq(Int) /\ Len(s) <= Len(w) /\ \A i \in 1 .. Len(s) : s[i] = w[i]
    BY <1>2
  <2> HIDE DEF w
  <2>2. IsPrefix(s, w)
    BY ONLY <1>1, <2>1
  <2>3. IsPrefix(s, s)
    BY <1>1
  <2> QED BY <2>2, <2>3 DEF w
<1>4. ASSUME NEW u \in Seq(Int), IsPrefix(s \o t, u) PROVE IsPrefix(s, u)
  <2> DEFINE w == s \o t
  <2>1. Len(w) <= Len(u) /\ SubSeq(w, 1, Len(w)) = SubSeq(u, 1, Len(w))
    BY <1>4 DEF IsPrefix
  <2>2. \A i \in 1 .. Len(w) : SubSeq(w, 1, Len(w))[i] = w[i] /\ SubSeq(u, 1, Len(w))[i] = u[i]
    <3> HIDE DEF w
    <3> QED BY <1>2, <2>1 DEF w
  <2>3. \A i \in 1 .. Len(s) : i \in 1 .. Len(w) /\ w[i] = s[i]
    BY <1>2
  <2> QED BY <1>1, <1>2, <2>1, <2>2, <2>3
<1> QED BY <1>3, <1>4

\* At no time has the vehicle been told anything but the beginning of the procedure.
LEMMA ToldIsPrefix ==
    /\ \A i \in 0 .. Final : IsPrefix(Told[i], Procedure)
    /\ \A i \in Timed : IsPrefix(Told[i - 1] \o << i >>, Procedure)
<1>1. Final \in Nat /\ Timed \subseteq 1 .. Final /\ Procedure \in Seq(Int)
  <2>1. Told[Final] \in Seq(Int) /\ Told[Final] = Procedure
    BY FinalFacts, ToldFacts, ToldTypes
  <2> QED BY <2>1, FinalFacts
<1> DEFINE S == {d \in Nat : d <= Final => IsPrefix(Told[Final - d], Procedure)}
<1>2. 0 \in S
  BY <1>1, ToldFacts, PrefixFacts
<1>3. ASSUME NEW d \in Nat, d \in S PROVE d + 1 \in S
  <2> SUFFICES ASSUME d + 1 <= Final PROVE IsPrefix(Told[Final - (d + 1)], Procedure)
    OBVIOUS
  <2> DEFINE i == Final - d
  <2>1. i \in 1 .. Final /\ Final - (d + 1) = i - 1 /\ i - 1 \in 0 .. Final
        /\ IsPrefix(Told[i], Procedure)
    BY <1>1, <1>3
  <2> HIDE DEF i
  <2>2. Told[i] = Told[i - 1] \o Tell(i) /\ Tell(i) \in Seq(Int) /\ Told[i - 1] \in Seq(Int)
    <3>1. i \in Int
      BY <1>1, <2>1
    <3> QED BY ONLY <2>1, <3>1, ToldFacts, TellFacts, ToldTypes
  <2> QED BY <1>1, <2>1, <2>2, PrefixFacts
<1>4. \A d \in Nat : d \in S
  <2> HIDE DEF S
  <2> QED BY ONLY <1>2, <1>3, Induction
<1>5. \A i \in 0 .. Final : IsPrefix(Told[i], Procedure)
  <2> TAKE i \in 0 .. Final
  <2>1. Final - i \in Nat /\ Final - i <= Final /\ Final - (Final - i) = i
    BY <1>1
  <2> QED BY <1>4, <2>1
<1>6. ASSUME NEW i \in Timed PROVE IsPrefix(Told[i - 1] \o << i >>, Procedure)
  <2>1. i \in 1 .. Final /\ i - 1 \in 0 .. Final /\ i \in Int
    BY <1>1
  <2>2. Told[i - 1] \in Seq(Int) /\ IsPrefix(Told[i], Procedure)
        /\ Told[i] = Told[i - 1] \o << i, Brake >>
    <3>1. i \in 0 .. Final /\ Tell(i) = << i, Brake >>
      BY <1>1, <2>1 DEF Tell
    <3>2. Told[i] = Told[i - 1] \o Tell(i)
      BY ONLY <2>1, ToldFacts
    <3> QED BY ONLY <1>5, <2>1, <3>1, <3>2, ToldTypes
  <2>3. << i >> \in Seq(Int) /\ << Brake >> \in Seq(Int)
    BY <2>1 DEF Brake
  <2>4. << i, Brake >> = << i >> \o << Brake >>
    OBVIOUS
  <2>5. Told[i - 1] \o << i, Brake >> = (Told[i - 1] \o << i >>) \o << Brake >>
    <3> DEFINE s == Told[i - 1]
               a == << i >>
               b == << Brake >>
    <3>1. s \in Seq(Int) /\ a \in Seq(Int) /\ b \in Seq(Int)
      BY <2>2, <2>3
    <3> HIDE DEF s, a, b
    <3>2. s \o (a \o b) = (s \o a) \o b
      BY ONLY <3>1, ConcatAssociative, SMTT(30)
    <3> QED BY <2>4, <3>2 DEF s, a, b
  <2>6. Told[i - 1] \o << i >> \in Seq(Int)
    BY <2>2, <2>3
  <2> DEFINE s == Told[i - 1] \o << i >>
             b == << Brake >>
  <2>7. s \in Seq(Int) /\ b \in Seq(Int) /\ IsPrefix(s \o b, Procedure)
    BY <2>2, <2>3, <2>5, <2>6
  <2> HIDE DEF s, b
  <2>8. IsPrefix(s, Procedure)
    BY ONLY <1>1, <2>7, PrefixFacts
  <2> QED BY <2>8 DEF s
<1> QED BY <1>5, <1>6

-----------------------------------------------------------------------------
(* The procedure.                                                          *)

\* The wire holds whole messages from the n-th on, up to the last that was issued unless
\* the connection has ended.
Messages(n) ==
    \E m \in Nat :
       /\ Len(wire) = MessageSize * m /\ n + m - 1 <= issued
       /\ link = "open" => n + m - 1 = issued
       /\ \A k \in 1 .. m, j \in 1 .. MessageSize :
             wire[MessageSize * (k - 1) + j] = << n + k - 1, j >>

\* What the vehicle has been told when so many commands have been taken from the queue.
ToldAfter(taken) ==
    CASE main \in {"radar", "gnss", "start", "take"} ->
            taken < Commands /\ applied = Told[taken]
      [] main = "sleep" -> taken \in Timed /\ applied = Told[taken - 1] \o << taken >>
      [] OTHER -> IsPrefix(applied, Procedure)

Taken(taken) ==
    /\ ToldAfter(taken)
    /\ \A i \in 1 .. Len(control_data_queue) : control_data_queue[i] = taken + i
    /\ Messages(taken + Len(control_data_queue) + 1)

WholeInv ==
    /\ StreamInv
    /\ around # "cut" =>
          /\ leftover_data = << >> /\ issued <= Commands
          /\ \E taken \in Nat : Taken(taken)

\* A step that moves no command, and stops the main thread or lets it be.
LEMMA WholeUntouched ==
    ASSUME WholeInv, StreamInv',
           UNCHANGED << around, issued, wire, leftover_data, control_data_queue, applied >>,
           link' \in {link, "fin", "rst"},
           \/ main' = main
           \/ main \in {"radar", "gnss", "start", "take"} /\ main' \in {"radar", "gnss", "start", "take"}
           \/ main' \notin {"radar", "gnss", "start", "take", "sleep"}
    PROVE  WholeInv'
<1> SUFFICES ASSUME around # "cut" PROVE \E taken \in Nat : Taken(taken)'
  BY DEF WholeInv
<1>1. PICK taken \in Nat : Taken(taken)
  BY DEF WholeInv
<1>2. ToldAfter(taken)'
  <2>1. CASE main' = main
    BY <1>1, <2>1 DEF Taken, ToldAfter
  <2>2. CASE main \in {"radar", "gnss", "start", "take"} /\ main' \in {"radar", "gnss", "start", "take"}
    BY <1>1, <2>2 DEF Taken, ToldAfter
  <2>3. CASE main' \notin {"radar", "gnss", "start", "take", "sleep"}
    <3>1. CASE main \in {"radar", "gnss", "start", "take"}
      <4>1. taken \in 0 .. Final /\ applied = Told[taken]
        BY <1>1, <3>1, BridgeAssumption DEF Taken, ToldAfter, Final
      <4>2. IsPrefix(applied, Procedure)
        BY <4>1, ToldIsPrefix
      <4> QED BY <2>3, <4>2 DEF ToldAfter, IsPrefix
    <3>2. CASE main = "sleep"
      <4>1. taken \in Timed /\ applied = Told[taken - 1] \o << taken >>
        BY <1>1, <3>2 DEF Taken, ToldAfter
      <4>2. IsPrefix(applied, Procedure)
        BY <4>1, ToldIsPrefix
      <4> QED BY <2>3, <4>2 DEF ToldAfter, IsPrefix
    <3>3. CASE main \notin {"radar", "gnss", "start", "take", "sleep"}
      BY <1>1, <2>3, <3>3 DEF Taken, ToldAfter, IsPrefix
    <3> QED BY <3>1, <3>2, <3>3
  <2> QED BY <2>1, <2>2, <2>3
<1>3. Messages(taken + Len(control_data_queue) + 1)'
  BY <1>1 DEF Taken, Messages
<1> QED BY <1>1, <1>2, <1>3 DEF Taken

\* One message more is on the wire, as long as it is open.
LEMMA WholeIssue == ASSUME WholeInv, StreamInv', Issue, UNCHANGED around PROVE WholeInv'
<1>1. /\ issued \in Nat /\ issued' = issued + 1 /\ issued' <= Commands
      /\ wire' = IF link = "open" THEN wire \o Message(issued') ELSE wire
      /\ wire \in Seq(Cell) /\ MessageSize = 8
      /\ UNCHANGED << leftover_data, control_data_queue, applied, main, link >>
  BY BridgeAssumption
     DEF Issue, controlVars, mainVars, WholeInv, StreamInv, StreamTypes,
         MessageSize, NonceSize, TupleSize
<1> SUFFICES ASSUME around # "cut" PROVE \E taken \in Nat : Taken(taken)'
  BY <1>1 DEF WholeInv
<1>2. PICK taken \in Nat : Taken(taken)
  BY DEF WholeInv
<1>3. ToldAfter(taken)' /\ Len(control_data_queue) \in Nat
  <2>1. ToldAfter(taken)'
    BY <1>1, <1>2 DEF Taken, ToldAfter
  <2> QED BY <2>1 DEF WholeInv, StreamInv, StreamTypes
<1>5. PICK n \in Nat : n = taken + Len(control_data_queue) + 1
  BY <1>3
<1>4. PICK m \in Nat :
         /\ Len(wire) = 8 * m /\ n + m - 1 <= issued
         /\ link = "open" => n + m - 1 = issued
         /\ \A k \in 1 .. m, j \in 1 .. 8 : wire[8 * (k - 1) + j] = << n + k - 1, j >>
  BY <1>1, <1>2, <1>5 DEF Taken, Messages
<1>6. Messages(n)'
  <2>1. CASE link # "open"
    <3>1. wire' = wire /\ link' # "open" /\ n + m - 1 <= issued'
      BY <1>1, <1>4, <1>5, <2>1
    <3>2. /\ Len(wire') = MessageSize * m
          /\ \A k \in 1 .. m, j \in 1 .. MessageSize :
                wire'[MessageSize * (k - 1) + j] = << n + k - 1, j >>
      BY <1>1, <1>4, <3>1
    <3> QED BY <3>1, <3>2 DEF Messages
  <2>2. CASE link = "open"
    <3>1. /\ Message(issued') \in Seq(Cell) /\ Len(Message(issued')) = 8
          /\ \A k \in 1 .. 8 : Message(issued')[k] = << n + m, k >>
      <4>1. issued' = n + m
        BY <1>1, <1>4, <1>5, <2>2
      <4> QED BY <1>1, <4>1, MessageFacts, SMTT(30)
    <3>2. Len(wire') = 8 * m + 8 /\ \A i \in 1 .. 8 * m + 8 :
             wire'[i] = IF i <= 8 * m THEN wire[i] ELSE Message(issued')[i - 8 * m]
      <4>1. wire' = wire \o Message(issued')
        BY <1>1, <2>2
      <4> DEFINE msg == Message(issued')
      <4>2. msg \in Seq(Cell) /\ Len(msg) = 8 /\ wire \in Seq(Cell)
            /\ Len(wire) = 8 * m /\ wire' = wire \o msg
        BY <1>1, <1>4, <3>1, <4>1
      <4> HIDE DEF msg
      <4>3. /\ Len(wire \o msg) = Len(wire) + Len(msg)
            /\ \A i \in 1 .. Len(wire) + Len(msg) :
                 (wire \o msg)[i] = IF i <= Len(wire) THEN wire[i] ELSE msg[i - Len(wire)]
        BY ONLY <4>2, ConcatProperties
      <4> QED BY <4>2, <4>3 DEF msg
    <3>3. Len(wire') = 8 * (m + 1) /\ n + (m + 1) - 1 = issued' /\ m + 1 \in Nat
      BY <1>1, <1>4, <1>5, <2>2, <3>2
    <3>4. ASSUME NEW k \in 1 .. m + 1, NEW j \in 1 .. 8
          PROVE  wire'[8 * (k - 1) + j] = << n + k - 1, j >>
      <4>1. CASE k \in 1 .. m
        <5>1. 8 * (k - 1) + j \in 1 .. 8 * m + 8 /\ 8 * (k - 1) + j <= 8 * m
          BY <4>1
        <5> QED BY <1>4, <3>2, <4>1, <5>1
      <4>2. CASE k = m + 1
        <5>1. /\ 8 * (k - 1) + j \in 1 .. 8 * m + 8 /\ ~ (8 * (k - 1) + j <= 8 * m)
              /\ (8 * (k - 1) + j) - 8 * m = j /\ n + k - 1 = n + m
          BY <1>5, <4>2
        <5> QED BY <3>1, <3>2, <5>1
      <4> QED BY <4>1, <4>2
    <3>5. /\ Len(wire') = MessageSize * (m + 1) /\ n + (m + 1) - 1 <= issued'
          /\ \A k \in 1 .. m + 1, j \in 1 .. MessageSize :
                wire'[MessageSize * (k - 1) + j] = << n + k - 1, j >>
      <4>1. MessageSize = 8 /\ issued' \in Nat
        BY <1>1
      <4> QED BY ONLY <3>3, <3>4, <4>1
    <3> QED BY <3>3, <3>5 DEF Messages
  <2> QED BY <2>1, <2>2
<1>7. \A i \in 1 .. Len(control_data_queue)' : control_data_queue'[i] = taken + i
  BY <1>1, <1>2 DEF Taken
<1>8. Taken(taken)'
  BY <1>1, <1>3, <1>5, <1>6, <1>7 DEF Taken, Messages
<1> QED BY <1>8

\* What is cut off the end of the wire is a message, or nothing.
LEMMA WholeBreak ==
    ASSUME WholeInv, StreamInv', Break, WholeMessages, UNCHANGED around PROVE WholeInv'
<1>1. /\ wire \in Seq(Cell) /\ MessageSize = 8 /\ link' = "rst"
      /\ UNCHANGED << issued, leftover_data, control_data_queue, applied, main >>
  BY DEF Break, controlVars, mainVars, appVars, WholeInv, StreamInv, StreamTypes,
         MessageSize, NonceSize, TupleSize
<1> SUFFICES ASSUME around # "cut" PROVE \E taken \in Nat : Taken(taken)'
  BY <1>1 DEF WholeInv
<1>2. PICK taken \in Nat : Taken(taken)
  BY DEF WholeInv
<1>3. ToldAfter(taken)' /\ Len(control_data_queue) \in Nat /\ issued \in Nat
  <2>1. ToldAfter(taken)'
    BY <1>1, <1>2 DEF Taken, ToldAfter
  <2> QED BY <2>1 DEF WholeInv, StreamInv, StreamTypes
<1>5. PICK n \in Nat : n = taken + Len(control_data_queue) + 1
  BY <1>3
<1>4. PICK m \in Nat :
         /\ Len(wire) = 8 * m /\ n + m - 1 <= issued
         /\ \A k \in 1 .. m, j \in 1 .. 8 : wire[8 * (k - 1) + j] = << n + k - 1, j >>
  BY <1>1, <1>2, <1>5 DEF Taken, Messages
<1>6. PICK x \in 0 .. Len(wire) : wire' = SubSeq(wire, 1, x)
  BY DEF Break
<1>7. Len(wire') = x /\ \A i \in 1 .. x : wire'[i] = wire[i]
  BY <1>1, <1>6, CutFacts
<1>8. PICK l \in Nat : l <= m /\ Len(wire') = 8 * l
  <2>1. Len(wire') = 8 * m \/ Len(wire') = 8 * m - 8
    BY <1>1, <1>4 DEF WholeMessages
  <2>2. CASE Len(wire') = 8 * m
    BY <2>2
  <2>3. CASE Len(wire') = 8 * m - 8
    <3>1. m - 1 \in Nat /\ m - 1 <= m /\ 8 * (m - 1) = 8 * m - 8
      BY <1>7, <2>3
    <3> QED BY <2>3, <3>1
  <2> QED BY <2>1, <2>2, <2>3
<1>9. Messages(n)'
  <2>1. n + l - 1 <= issued'
    BY <1>1, <1>3, <1>4, <1>5, <1>8
  <2>2. ASSUME NEW k \in 1 .. l, NEW j \in 1 .. 8
        PROVE  wire'[8 * (k - 1) + j] = << n + k - 1, j >>
    <3>1. k \in 1 .. m /\ 8 * (k - 1) + j \in 1 .. x
      BY <1>7, <1>8
    <3> QED BY <1>4, <1>7, <3>1
  <2> QED BY <1>1, <1>8, <2>1, <2>2 DEF Messages
<1>10. Taken(taken)'
  BY <1>1, <1>2, <1>3, <1>5, <1>9 DEF Taken
<1> QED BY <1>10

\* Of a whole message nothing is left over: it is one command.
LEMMA MessageQueued ==
    ASSUME NEW n \in Nat, NEW data \in Seq(Cell), Len(data) = 8,
           \A j \in 1 .. 8 : data[j] = << n, j >>,
           leftover_data = << >>, QueueTuples(Decrypt(data))
    PROVE  leftover_data' = << >> /\ control_data_queue' = control_data_queue \o << n >>
<1> DEFINE cells == Decrypt(data)
<1>1. NonceSize = 3 /\ TupleSize = 5
  BY DEF NonceSize, TupleSize
<1>2. cells \in Seq(Cell) /\ Len(cells) = 5 /\ \A i \in 1 .. 5 : cells[i] = << n, 3 + i >>
  <2> DEFINE f == [i \in 1 .. Len(data) - NonceSize |->
                     IF \A j \in 1 .. NonceSize + i : data[j] = << data[1][1], j >>
                     THEN data[NonceSize + i] ELSE Garbage]
  <2>1. cells = f
    BY <1>1 DEF Decrypt
  <2>2. \A i \in 1 .. 5 : f[i] = << n, 3 + i >>
    <3> TAKE i \in 1 .. 5
    <3>1. i \in 1 .. Len(data) - NonceSize /\ NonceSize + i = 3 + i /\ 3 + i \in 1 .. 8
          /\ data[1][1] = n
      BY <1>1
    <3>2. \A j \in 1 .. NonceSize + i : data[j] = << data[1][1], j >>
      BY <3>1
    <3> QED BY <3>1, <3>2
  <2>3. f \in [1 .. 5 -> Cell]
    <3>1. \A i \in 1 .. 5 : << n, 3 + i >> \in Cell
      BY DEF Cell, MessageSize, NonceSize, TupleSize
    <3>2. f = [i \in 1 .. 5 |-> f[i]]
      BY <1>1
    <3> HIDE DEF f
    <3> QED BY <2>2, <3>1, <3>2
  <2> HIDE DEF f
  <2>4. f \in Seq(Cell) /\ Len(f) = 5
    <3>1. PICK m \in Nat : m = 5
      OBVIOUS
    <3>2. f \in [1 .. m -> Cell]
      BY <2>3, <3>1
    <3>3. f \in Seq(Cell) /\ Len(f) = m
      BY ONLY <3>2
    <3> QED BY <3>1, <3>3
  <2> QED BY <2>1, <2>2, <2>4
<1> HIDE DEF cells
<1> DEFINE all == leftover_data \o cells
           k == Len(all) \div TupleSize
           new == [i \in 1 .. k |-> Unpack(SubSeq(all, (i - 1) * TupleSize + 1, i * TupleSize))]
<1>3. control_data_queue' = control_data_queue \o new
      /\ leftover_data' = SubSeq(all, k * TupleSize + 1, Len(all))
  BY DEF QueueTuples, cells
<1>4. all = cells
  BY <1>2
<1>5. k = 1
  <2>1. Len(all) = 5
    BY <1>2, <1>4
  <2>2. k = 5 \div 5
    BY ONLY <1>1, <2>1
  <2> QED BY <2>2
<1> HIDE DEF all, k
<1>6. leftover_data' = << >>
  <2>1. leftover_data' = SubSeq(cells, 6, 5)
    <3>1. k * TupleSize + 1 = 6
      BY <1>1, <1>5
    <3>2. Len(all) = 5
      BY <1>2, <1>4
    <3> QED BY <1>3, <1>4, <3>1, <3>2
  <2>2. SubSeq(cells, 6, 5) = << >>
    BY <1>2
  <2> QED BY <2>1, <2>2
<1>7. Unpack(SubSeq(cells, 1, 5)) = n
  <2> DEFINE t == SubSeq(cells, 1, 5)
  <2>1. \A i \in 1 .. 5 : t[i] = << n, 3 + i >>
    BY <1>2
  <2> HIDE DEF t
  <2>2. \A i \in 1 .. TupleSize : t[i] = << t[1][1], NonceSize + i >>
    BY <1>1, <2>1
  <2>3. Unpack(t) = t[1][1]
    BY <2>2 DEF Unpack
  <2>4. t[1][1] = n
    BY <2>1
  <2> QED BY <2>3, <2>4 DEF t
<1>8. new = << n >>
  <2>1. \A i \in 1 .. 1 : (i - 1) * TupleSize + 1 = 1 /\ i * TupleSize = 5
    BY <1>1
  <2>2. new = [i \in 1 .. 1 |-> n]
    BY <1>4, <1>5, <1>7, <2>1
  <2> HIDE DEF new
  <2>3. [i \in 1 .. 1 |-> n] = << n >>
    OBVIOUS
  <2> QED BY <2>2, <2>3
<1> QED BY <1>3, <1>6, <1>8

\* From a closed socket nothing comes.
LEMMA NothingQueued ==
    ASSUME leftover_data = << >>, QueueTuples(<< >>), control_data_queue \in Seq(Int)
    PROVE  leftover_data' = << >> /\ control_data_queue' = control_data_queue
<1> DEFINE all == leftover_data \o << >>
           k == Len(all) \div TupleSize
           new == [i \in 1 .. k |-> Unpack(SubSeq(all, (i - 1) * TupleSize + 1, i * TupleSize))]
<1>1. control_data_queue' = control_data_queue \o new
      /\ leftover_data' = SubSeq(all, k * TupleSize + 1, Len(all))
  BY DEF QueueTuples
<1>2. all = << >>
  OBVIOUS
<1>3. k = 0
  BY <1>2 DEF TupleSize
<1> HIDE DEF all, k
<1>4. SubSeq(all, k * TupleSize + 1, Len(all)) = << >>
  <2>1. k * TupleSize + 1 = 1 /\ Len(all) = 0
    BY <1>2, <1>3 DEF TupleSize
  <2> QED BY <1>2, <2>1
<1>5. new = << >>
  BY <1>3
<1> HIDE DEF new
<1>6. control_data_queue \o << >> = control_data_queue
  OBVIOUS
<1> QED BY <1>1, <1>4, <1>5, <1>6

\* What the invariant says when a command is on its way.
LEMMA TakenFacts ==
    ASSUME WholeInv, around # "cut"
    PROVE  /\ leftover_data = << >> /\ control_data_queue \in Seq(Int) /\ wire \in Seq(Cell)
           /\ applied \in Seq(Int) /\ issued \in Nat /\ issued <= Commands
           /\ Len(control_data_queue) \in Nat
           /\ \E taken, n, m \in Nat :
                 /\ ToldAfter(taken) /\ n = taken + Len(control_data_queue) + 1
                 /\ \A i \in 1 .. Len(control_data_queue) : control_data_queue[i] = taken + i
                 /\ Len(wire) = 8 * m /\ n + m - 1 <= issued
                 /\ link = "open" => n + m - 1 = issued
                 /\ \A k \in 1 .. m, j \in 1 .. 8 : wire[8 * (k - 1) + j] = << n + k - 1, j >>
<1>1. /\ leftover_data = << >> /\ control_data_queue \in Seq(Int) /\ wire \in Seq(Cell)
      /\ applied \in Seq(Int) /\ issued \in Nat /\ issued <= Commands
      /\ Len(control_data_queue) \in Nat
  BY DEF WholeInv, StreamInv, StreamTypes
<1>2. PICK taken \in Nat : Taken(taken)
  BY DEF WholeInv
<1>3. PICK n \in Nat : n = taken + Len(control_data_queue) + 1
  BY <1>1
<1>4. MessageSize = 8
  BY DEF MessageSize, NonceSize, TupleSize
<1>5. PICK m \in Nat :
         /\ Len(wire) = 8 * m /\ n + m - 1 <= issued
         /\ link = "open" => n + m - 1 = issued
         /\ \A k \in 1 .. m, j \in 1 .. 8 : wire[8 * (k - 1) + j] = << n + k - 1, j >>
  BY <1>2, <1>3, <1>4 DEF Taken, Messages
<1> QED BY <1>1, <1>2, <1>3, <1>5 DEF Taken

\* A message is received, or nothing.
LEMMA WholeReceive ==
    ASSUME WholeInv, StreamInv', Receive, WholeMessages, UNCHANGED around PROVE WholeInv'
<1>1. UNCHANGED << main, applied, issued, link >>
  BY DEF Receive, mainVars, appVars
<1>2. CASE around = "cut"
  BY <1>2 DEF WholeInv
<1>3. ASSUME around # "cut", UNCHANGED << leftover_data, control_data_queue, wire >> PROVE WholeInv'
  BY <1>1, <1>3, WholeUntouched
<1>4. ASSUME around # "cut", wire = << >>, QueueTuples(<< >>), wire' = wire PROVE WholeInv'
  <2>1. leftover_data' = << >> /\ control_data_queue' = control_data_queue /\ leftover_data = << >>
    BY <1>4, TakenFacts, NothingQueued
  <2> QED BY <1>3, <1>4, <2>1
<1>5. ASSUME around # "cut", NEW x \in 1 .. Len(wire), QueueTuples(Decrypt(SubSeq(wire, 1, x))),
             wire' = SubSeq(wire, x + 1, Len(wire))
      PROVE  WholeInv'
  <2> DEFINE data == SubSeq(wire, 1, x)
             q == Len(control_data_queue)
  <2>1. /\ leftover_data = << >> /\ control_data_queue \in Seq(Int) /\ wire \in Seq(Cell)
        /\ issued \in Nat /\ issued <= Commands /\ q \in Nat
    BY <1>5, TakenFacts
  <2>2. PICK taken, n, m \in Nat :
           /\ ToldAfter(taken) /\ n = taken + q + 1
           /\ \A i \in 1 .. q : control_data_queue[i] = taken + i
           /\ Len(wire) = 8 * m /\ n + m - 1 <= issued
           /\ link = "open" => n + m - 1 = issued
           /\ \A k \in 1 .. m, j \in 1 .. 8 : wire[8 * (k - 1) + j] = << n + k - 1, j >>
    BY <1>5, TakenFacts
  <2>3. x \in 0 .. Len(wire) /\ MessageSize = 8
    BY <2>1 DEF MessageSize, NonceSize, TupleSize
  <2>4. /\ wire' \in Seq(Cell) /\ Len(wire') = Len(wire) - x
        /\ \A i \in 1 .. Len(wire') : wire'[i] = wire[x + i]
        /\ data \in Seq(Cell) /\ Len(data) = x /\ \A i \in 1 .. x : data[i] = wire[i]
    <3>1. /\ wire' \in Seq(Cell)
          /\ \A i \in 1 .. Len(wire') : wire'[i] = wire[x + i]
          /\ data \in Seq(Cell) /\ Len(data) = x /\ \A i \in 1 .. x : data[i] = wire[i]
      BY <1>5, <2>1, <2>3, CutFacts
    <3>2. Len(wire') = Len(wire) - x
      BY <1>5, <2>1, <2>3
    <3> QED BY <3>1, <3>2
  <2>5. x = 8 /\ m - 1 \in Nat /\ Len(wire') = 8 * (m - 1)
    <3>1. Len(wire') = Len(wire) \/ Len(wire') = Len(wire) - 8
      BY <2>3 DEF WholeMessages
    <3>2. x = 8
      BY <2>2, <2>4, <3>1
    <3> QED BY <2>2, <2>4, <3>2
  <2>6. \A j \in 1 .. 8 : data[j] = << n, j >>
    <3> TAKE j \in 1 .. 8
    <3>1. 1 \in 1 .. m /\ 8 * (1 - 1) + j = j /\ n + 1 - 1 = n
      BY <2>2, <2>5
    <3>2. wire[8 * (1 - 1) + j] = << n + 1 - 1, j >>
      BY <2>2, <3>1
    <3> QED BY <2>4, <2>5, <3>1, <3>2
  <2>7. leftover_data' = << >> /\ control_data_queue' = control_data_queue \o << n >>
    <3>1. QueueTuples(Decrypt(data)) /\ data \in Seq(Cell) /\ Len(data) = 8
      BY <1>5, <2>4, <2>5
    <3> HIDE DEF data
    <3> QED BY <2>1, <2>6, <3>1, MessageQueued
  <2>8. /\ Len(control_data_queue') = q + 1
        /\ \A i \in 1 .. q + 1 : control_data_queue'[i] = taken + i
    <3>1. n \in Int
      OBVIOUS
    <3>2. /\ Len(control_data_queue') = q + 1 /\ control_data_queue'[q + 1] = n
          /\ \A i \in 1 .. q : control_data_queue'[i] = control_data_queue[i]
      BY <2>1, <2>7, <3>1
    <3> HIDE DEF q
    <3>3. \A i \in 1 .. q + 1 : i \in 1 .. q \/ i = q + 1
      BY <2>1
    <3>4. n = taken + (q + 1)
      BY <2>1, <2>2
    <3> QED BY ONLY <2>2, <3>2, <3>3, <3>4
  <2>9. ASSUME NEW k \in 1 .. m - 1, NEW j \in 1 .. 8
        PROVE  wire'[8 * (k - 1) + j] = << (n + 1) + k - 1, j >>
    <3>1. /\ 8 * (k - 1) + j \in 1 .. Len(wire') /\ k + 1 \in 1 .. m
          /\ x + (8 * (k - 1) + j) = 8 * ((k + 1) - 1) + j
          /\ n + (k + 1) - 1 = (n + 1) + k - 1
      BY <2>5
    <3>2. wire[8 * ((k + 1) - 1) + j] = << n + (k + 1) - 1, j >>
      BY <2>2, <3>1
    <3> QED BY <2>4, <3>1, <3>2
  <2>10. Messages(n + 1)'
    <3>1. /\ Len(wire') = MessageSize * (m - 1) /\ (n + 1) + (m - 1) - 1 = n + m - 1
          /\ \A k \in 1 .. m - 1, j \in 1 .. MessageSize :
                wire'[MessageSize * (k - 1) + j] = << (n + 1) + k - 1, j >>
      <4>1. (n + 1) + (m - 1) - 1 = n + m - 1
        OBVIOUS
      <4> QED BY ONLY <2>3, <2>5, <2>9, <4>1
    <3>2. (n + 1) + (m - 1) - 1 <= issued' /\ (link' = "open" => (n + 1) + (m - 1) - 1 = issued')
      BY <1>1, <2>2, <3>1
    <3> QED BY <2>5, <3>1, <3>2 DEF Messages
  <2>11. ToldAfter(taken)'
    BY <1>1, <2>2 DEF ToldAfter
  <2>12. Taken(taken)'
    <3>1. taken + Len(control_data_queue') + 1 = n + 1
      BY <2>1, <2>2, <2>8
    <3>2. Messages(taken + Len(control_data_queue) + 1)'
      BY ONLY <2>10, <3>1, Zenon
    <3>3. \A i \in 1 .. Len(control_data_queue)' : control_data_queue'[i] = taken + i
      BY <2>8
    <3> QED BY <2>11, <3>2, <3>3 DEF Taken
  <2> QED BY <1>1, <2>1, <2>7, <2>12 DEF WholeInv
<1> QED BY <1>2, <1>3, <1>4, <1>5 DEF Receive

\* The next command is carried out, or it is the one that ends the simulation.
LEMMA WholeTake == ASSUME WholeInv, StreamInv', Take, UNCHANGED around PROVE WholeInv'
<1> DEFINE q == Len(control_data_queue)
           h == Head(control_data_queue)
<1>1. /\ UNCHANGED << issued, link, wire, leftover_data >> /\ main = "take"
      /\ control_data_queue # << >> /\ control_data_queue' = Tail(control_data_queue)
      /\ IF h = Commands THEN main' = "stopSender" /\ applied' = applied
         ELSE /\ applied' = Append(applied, h)
              /\ \/ h \in Timed \union {0} /\ main' = "sleep"
                 \/ h \notin Timed /\ main' = "take"
                 \/ h = 0 /\ main' = "stopSender"
  BY DEF Take, CleanUp, appVars, netVars
<1> SUFFICES ASSUME around # "cut" PROVE WholeInv'
  BY DEF WholeInv
<1>2. /\ leftover_data = << >> /\ control_data_queue \in Seq(Int) /\ q \in Nat
      /\ applied \in Seq(Int) /\ issued \in Nat /\ issued <= Commands
  BY TakenFacts
<1>3. PICK taken, n, m \in Nat :
         /\ ToldAfter(taken) /\ n = taken + q + 1
         /\ \A i \in 1 .. q : control_data_queue[i] = taken + i
         /\ Len(wire) = 8 * m /\ n + m - 1 <= issued
         /\ link = "open" => n + m - 1 = issued
         /\ \A k \in 1 .. m, j \in 1 .. 8 : wire[8 * (k - 1) + j] = << n + k - 1, j >>
  BY TakenFacts
<1>4. /\ q >= 1 /\ h = taken + 1 /\ h \in 1 .. Commands
      /\ Len(control_data_queue') = q - 1
      /\ \A i \in 1 .. q - 1 : control_data_queue'[i] = h + i
  <2>1. q >= 1 /\ h = control_data_queue[1]
    BY <1>1, <1>2
  <2>2. /\ Len(control_data_queue') = q - 1
        /\ \A i \in 1 .. q - 1 : control_data_queue'[i] = control_data_queue[i + 1]
    BY <1>1, <1>2
  <2>3. h = taken + 1
    BY <1>3, <2>1
  <2>4. h <= Commands
    BY <1>2, <1>3, <2>1, <2>3, BridgeAssumption
  <2> HIDE DEF q, h
  <2>5. \A i \in 1 .. q - 1 : control_data_queue'[i] = h + i
    <3> TAKE i \in 1 .. q - 1
    <3>1. i + 1 \in 1 .. q /\ taken + (i + 1) = h + i
      BY <1>2, <2>3
    <3> QED BY <1>3, <2>2, <3>1
  <2> QED BY <2>1, <2>2, <2>3, <2>4, <2>5, BridgeAssumption
<1>9. PICK c \in Nat : c = h
  BY <1>4
<1>5. taken \in 0 .. Final /\ applied = Told[taken] /\ Final = Commands - 1
  BY <1>1, <1>3, BridgeAssumption DEF ToldAfter, Final
<1> HIDE DEF q, h
<1>6. ToldAfter(c)'
  <2>1. CASE c = Commands
    BY <1>1, <1>5, <1>9, <2>1, ToldIsPrefix DEF ToldAfter, IsPrefix
  <2>2. CASE c # Commands
    <3>1. c \in 1 .. Final /\ c # 0 /\ c < Commands /\ c - 1 = taken
      BY <1>4, <1>5, <1>9, <2>2, BridgeAssumption
    <3>2. applied' = applied \o << c >>
      <4>1. c \in Int /\ applied' = Append(applied, c)
        BY <1>1, <1>9, <2>2, <3>1
      <4>2. Append(applied, c) = applied \o << c >>
        BY <1>2, <4>1, AppendIsConcat
      <4> QED BY <4>1, <4>2
    <3>3. CASE c \in Timed
      <4>1. main' = "sleep"
        BY <1>1, <1>9, <2>2, <3>1, <3>3
      <4> QED BY <1>5, <3>1, <3>2, <3>3, <4>1 DEF ToldAfter
    <3>4. CASE c \notin Timed
      <4>1. main' = "take"
        BY <1>1, <1>9, <2>2, <3>1, <3>4
      <4>2. Told[c] = Told[c - 1] \o << c >>
        BY <3>1, <3>4, ToldFacts DEF Tell
      <4> QED BY <1>5, <3>1, <3>2, <4>1, <4>2 DEF ToldAfter
    <3> QED BY <3>3, <3>4
  <2> QED BY <2>1, <2>2
<1>7. Taken(c)'
  <2>1. c + Len(control_data_queue') + 1 = n
    BY <1>2, <1>3, <1>4, <1>9
  <2>2. Messages(n)'
    <3>1. MessageSize = 8
      BY DEF MessageSize, NonceSize, TupleSize
    <3>2. /\ Len(wire') = MessageSize * m /\ n + m - 1 <= issued'
          /\ link' = "open" => n + m - 1 = issued'
          /\ \A k \in 1 .. m, j \in 1 .. MessageSize :
                wire'[MessageSize * (k - 1) + j] = << n + k - 1, j >>
      BY ONLY <1>1, <1>3, <3>1
    <3> QED BY <3>2 DEF Messages
  <2> QED BY <1>4, <1>6, <1>9, <2>1, <2>2 DEF Taken, Messages
<1> QED BY <1>1, <1>2, <1>7 DEF WholeInv

\* To brake completes a command with a time.
LEMMA WholeWakeUp == ASSUME WholeInv, StreamInv', WakeUp, UNCHANGED around PROVE WholeInv'
<1>1. /\ UNCHANGED << issued, link, wire, leftover_data, control_data_queue >>
      /\ main = "sleep" /\ main' = "take" /\ applied' = Append(applied, Brake)
  BY DEF WakeUp, controlVars, appVars, netVars
<1> SUFFICES ASSUME around # "cut" PROVE \E taken \in Nat : Taken(taken)'
  BY <1>1 DEF WholeInv
<1>2. PICK taken \in Nat : Taken(taken)
  BY DEF WholeInv
<1>3. taken \in Timed /\ applied = Told[taken - 1] \o << taken >>
  BY <1>1, <1>2 DEF Taken, ToldAfter
<1>4. taken \in 1 .. Final /\ taken < Commands /\ taken - 1 \in 0 .. Final
  BY <1>3, BridgeAssumption DEF Final
<1>5. Told[taken] = Told[taken - 1] \o << taken, Brake >> /\ Told[taken - 1] \in Seq(Int)
  BY <1>3, <1>4, ToldFacts, ToldTypes DEF Tell
<1>6. applied' = Told[taken]
  <2> DEFINE s == Told[taken - 1]
             a == << taken >>
             b == << Brake >>
  <2>1. s \in Seq(Int) /\ a \in Seq(Int) /\ b \in Seq(Int) /\ Brake \in Int
    BY <1>5 DEF Brake
  <2>2. << taken, Brake >> = a \o b
    OBVIOUS
  <2>3. applied' = (s \o a) \o b
    <3>1. applied \in Seq(Int) /\ applied = s \o a
      BY <1>3, TakenFacts
    <3>2. Append(applied, Brake) = applied \o << Brake >>
      BY <2>1, <3>1, AppendIsConcat
    <3> QED BY <1>1, <3>1, <3>2
  <2> HIDE DEF s, a, b
  <2>4. s \o (a \o b) = (s \o a) \o b
    BY ONLY <2>1, ConcatAssociative, SMTT(30)
  <2> QED BY <1>5, <2>2, <2>3, <2>4 DEF s
<1>7. ToldAfter(taken)'
  BY <1>1, <1>4, <1>6 DEF ToldAfter
<1> QED BY <1>1, <1>2, <1>7 DEF Taken, Messages

\* At first nothing has been sent.
LEMMA WholeStarts == ASSUME MCInit PROVE WholeInv
<1>1. Init
  BY DEF MCInit
<1>2. /\ main = "radar" /\ applied = << >> /\ leftover_data = << >> /\ issued = 0
      /\ control_data_queue = << >> /\ wire = << >>
  BY <1>1 DEF Init
<1>3. ToldAfter(0)
  BY <1>2, BridgeAssumption, ToldFacts DEF ToldAfter
<1>4. Messages(1)
  <2>1. 0 \in Nat /\ Len(wire) = MessageSize * 0 /\ 1 + 0 - 1 = issued
    BY <1>2 DEF MessageSize, NonceSize, TupleSize
  <2> QED BY <1>2, <2>1 DEF Messages
<1>5. Taken(0)
  BY <1>2, <1>3, <1>4 DEF Taken
<1> QED BY <1>1, <1>2, <1>5, StreamStarts, BridgeAssumption DEF WholeInv

\* Every step keeps the invariant.
LEMMA WholeStepKeeps == ASSUME WholeInv, [MCStep(MCNext)]_mcVars PROVE WholeInv'
<1>1. CASE UNCHANGED mcVars
  <2>1. StreamInv'
    BY <1>1, StreamStepKeeps DEF mcVars, WholeInv
  <2> QED BY <1>1, <2>1, WholeUntouched
          DEF mcVars, vars, sensorVars, senderVars, controlVars, mainVars, appVars, netVars
<1>2. CASE MCStep(MCNext)
  <2>1. UNCHANGED around /\ MCNext
    BY <1>2 DEF MCStep
  <2>2. Next
    BY <2>1 DEF MCNext, MCReceiver, Next
  <2>3. StreamInv'
    BY <2>2, StreamStepKeeps DEF WholeInv
  <2>4. CASE Issue
    BY <2>1, <2>3, <2>4, WholeIssue
  <2>5. CASE MCReceiver
    <3>1. CASE ReceiverLoop
      BY <2>1, <2>3, <3>1, WholeUntouched
         DEF ReceiverLoop, mainVars, appVars, netVars
    <3>2. CASE Receive /\ around = "cut"
      BY <2>1, <2>3, <3>2 DEF WholeInv
    <3>3. CASE Receive /\ WholeMessages
      BY <2>1, <2>3, <3>3, WholeReceive
    <3> QED BY <2>5, <3>1, <3>2, <3>3 DEF MCReceiver, Receiver
  <2>6. CASE Take
    BY <2>1, <2>3, <2>6, WholeTake
  <2>7. CASE WakeUp
    BY <2>1, <2>3, <2>7, WholeWakeUp
  <2>8. CASE Break /\ WholeMessages
    BY <2>1, <2>3, <2>8, WholeBreak
  <2>9. CASE Tick \/ Sender \/ \E s \in Sensors : Callback(s)
    <3>1. UNCHANGED << issued, wire, leftover_data, control_data_queue, applied, link, main >>
      BY <2>9 DEF Tick, Callback, Sender, SenderLoop, Lock, Slice, Assign, Send,
                  controlVars, mainVars, appVars, netVars
    <3> QED BY <2>1, <2>3, <3>1, WholeUntouched
  <2>10. CASE StartThreads \/ Listen("radar", "gnss") \/ Listen("gnss", "start")
    <3>1. /\ UNCHANGED << issued, wire, leftover_data, control_data_queue, applied, link >>
          /\ main \in {"radar", "gnss", "start"} /\ main' \in {"gnss", "start", "take"}
      BY <2>10 DEF StartThreads, Listen, controlVars, appVars, netVars
    <3> QED BY <2>1, <2>3, <3>1, WholeUntouched
  <2>11. CASE \/ Interrupt \/ Destroy
              \/ Stop("sender", "stopSender", "joinSender")
              \/ Join(sender, "joinSender", "stopReceiver")
              \/ Stop("receiver", "stopReceiver", "joinReceiver")
              \/ Join(receiver, "joinReceiver", "destroy")
    <3>1. /\ UNCHANGED << issued, wire, leftover_data, control_data_queue, applied, link >>
          /\ main' \notin {"radar", "gnss", "start", "take", "sleep"}
      BY <2>11 DEF Interrupt, CleanUp, Destroy, Stop, Join, controlVars, appVars, netVars
    <3> QED BY <2>1, <2>3, <3>1, WholeUntouched
  <2>12. CASE ReadSensors \/ CloseSocket \/ Spot
    <3>1. /\ UNCHANGED << issued, wire, leftover_data, control_data_queue, applied, main >>
          /\ link' \in {link, "fin"}
      BY <2>12 DEF ReadSensors, CloseSocket, Spot, controlVars, mainVars, appVars, netVars
    <3> QED BY <2>1, <2>3, <3>1, WholeUntouched
  <2> QED BY <2>1, <2>4, <2>5, <2>6, <2>7, <2>8, <2>9, <2>10, <2>11, <2>12 DEF MCNext, Main, App
<1> QED BY <1>1, <1>2

\* Of whatever state the bridge is in, the vehicle has been told a beginning of the procedure.
LEMMA WholeIsPrefix == ASSUME WholeInv PROVE WholeProcedureFollowed
<1> SUFFICES ASSUME around # "cut" PROVE IsPrefix(applied, Procedure)
  BY DEF WholeProcedureFollowed, ProcedureFollowed
<1>1. PICK taken \in Nat : ToldAfter(taken)
  BY DEF WholeInv, Taken
<1>2. CASE main \in {"radar", "gnss", "start", "take"}
  <2>1. taken \in 0 .. Final /\ applied = Told[taken]
    BY <1>1, <1>2, BridgeAssumption DEF ToldAfter, Final
  <2> QED BY <2>1, ToldIsPrefix
<1>3. CASE main = "sleep"
  <2>1. taken \in Timed /\ applied = Told[taken - 1] \o << taken >>
    BY <1>1, <1>3 DEF ToldAfter
  <2> QED BY <2>1, ToldIsPrefix
<1>4. CASE main \notin {"radar", "gnss", "start", "take", "sleep"}
  BY <1>1, <1>4 DEF ToldAfter
<1> QED BY <1>2, <1>3, <1>4

\* ControlDataReceiver.run(), the loop of bridge.py and the application's commands: when
\* every recv() returns one message, the vehicle is told what the application has sent,
\* in order and with the brake after every command with a time, and nothing else, also
\* when the user interrupts the simulation or the connection breaks.
THEOREM ProcedureIsFollowed == MCSpec => []WholeProcedureFollowed
<1> QED BY WholeStarts, WholeStepKeeps, WholeIsPrefix, PTL DEF MCSpec
================================================================================
