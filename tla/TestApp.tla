------------------------------ MODULE TestApp ------------------------------
(***************************************************************************)
(* The application component, components/TestApp/src/TestApp.c: run(),     *)
(* process_buffer() and, from ParkingDetector, checkForParking().  One     *)
(* CAmkES thread runs all of it; pc says where it is.                      *)
(*                                                                         *)
(* wire is what the car's side has sent and the application has not read.  *)
(* The server writes messages of one or more whole pairs (send_to_server   *)
(* in python_client/communication.py), each encrypted behind its nonce.  A *)
(* read takes any piece of that off the stack, and SecureCommunication     *)
(* takes the first 12 bytes of the piece for the nonce of all the rest: of *)
(* a piece that begins with a message the application gets the text of     *)
(* that message, and bytes with no meaning for what follows it; of any     *)
(* other piece only such bytes.  The nonces themselves are not on wire;    *)
(* where a message ends is decided by the read that ends there.  That the  *)
(* crypto library has no more room for a cipher is left to SecureChannel.  *)
(*                                                                         *)
(* Data: a pair on the wire is 0x13, its length, its text, 0x14.  The four *)
(* bytes of the length are one cell here and the text of the pair is       *)
(* another, so HeaderSize is 2 for 5 and a whole frame is 4 cells; a frame *)
(* can still be cut at every place the parser distinguishes.  The n-th     *)
(* pair sent carries the GNSS position n.  A Garbage cell can be any byte, *)
(* a length or a text of any size; a pair made up of it has a position of  *)
(* MadeUp and the GNSS position 0.                                         *)
(*                                                                         *)
(* At pc = "fault" memory outside of an array has been read, or a negative *)
(* length passed on: what the program does then is not modelled.           *)
(*                                                                         *)
(* Bounds: MaxSent pairs are sent, a read returns up to BufferSize - 1     *)
(* cells, as many of them garbage as Garbages says.                        *)
(***************************************************************************)
EXTENDS ParkingDetector

CONSTANTS MaxSent,
          BufferSize,   \* char buffer[4096] of run()
          LeftoverSize, \* char leftover[1024]
          Garbages,     \* how many cells of garbage a read may give
          MadeUp        \* radar positions that a pair of garbage may have

ASSUME StreamAssumption ==
    /\ MaxSent \in Nat /\ BufferSize \in Nat \ {0}
    /\ Garbages \subseteq Nat /\ 0 \in Garbages /\ MadeUp \subseteq Positions

VARIABLES pc,
          sent,            \* history: the radar positions the server has sent
          wire,
          aligned,         \* the next piece begins with a message
          temp,            \* the bytes process_buffer works on, `size` many
          start,           \* its position in them, from 0
          leftover_size,
          tpmUp,           \* TestApp has not called tpmctrl.shutdown()
          socket           \* "none", "open" or "closed", as TestApp sees it

streamVars == << sent, wire, aligned, temp, start, leftover_size >>
connVars   == << pc, tpmUp, socket >>
vars       == << detectorVars, streamVars, connVars >>

STX    == << "stx" >>
ETX    == << "etx" >>
NUL    == << "nul" >>
Garbage == << "garbage" >>
Length(n)     == << "length", n >>
Text(n)       == << "text", n >>
Frame(n)      == << STX, Length(1), Text(n), ETX >>
FrameSize     == Len(Frame(1))
HeaderSize    == 2

\* A buffer holds at most MaxBatch pairs, those without a text included: in 4096 bytes
\* there is no room for 1000 frames of at least six.  What is left of a frame has room.
ASSUME BatchAssumption ==
    /\ BufferSize < (HeaderSize + 1) * (MaxBatch + 1)
    /\ LeftoverSize \in Nat /\ FrameSize <= LeftoverSize

Init ==
    /\ DetectorInit
    /\ pc = "stackInit" /\ tpmUp = TRUE /\ socket = "none"
    /\ sent = << >> /\ wire = << >> /\ aligned = TRUE
    /\ temp = << >> /\ start = 0 /\ leftover_size = 0

-----------------------------------------------------------------------------
(* The beginning of run().                                                 *)

\* run() returns without the socket or the TPM being released (lines 178-196).
GiveUp ==
    /\ \/ pc = "stackInit"     \* waitForNetworkStackInit: FATAL_ERROR
       \/ pc = "create"        \* OS_Socket_create failed
    /\ pc' = "exit"
    /\ UNCHANGED << detectorVars, streamVars, tpmUp, socket >>

StackRuns ==
    /\ pc = "stackInit" /\ pc' = "create"
    /\ UNCHANGED << detectorVars, streamVars, tpmUp, socket >>

Create ==
    /\ pc = "create" /\ pc' = "connect" /\ socket' = "open"
    /\ UNCHANGED << detectorVars, streamVars, tpmUp >>

\* OS_Socket_connect failed: close, shut the TPM down, return (lines 210-216).
ConnectFails ==
    /\ pc = "connect" /\ pc' = "exit"
    /\ socket' = "closed" /\ tpmUp' = FALSE
    /\ UNCHANGED << detectorVars, streamVars >>

\* Connected: the command to drive is sent, and the receiving loop begins.
Connect ==
    /\ pc = "connect" /\ pc' = "loop"
    /\ commands' = Append(commands, "drive")
    /\ UNCHANGED << vector, vector_radar, lastDetectedVehicle, parkingSpotDetected,
                    checking, received, streamVars, tpmUp, socket >>

-----------------------------------------------------------------------------
(* The receiving loop, and process_buffer().                               *)

\* A read takes n cells off the stream and gives c cells of text and g of garbage.
\* Beyond the end of the message that it begins with, all is garbage; what is shorter
\* than a nonce, or cannot be decrypted, is dropped.
Decrypted(n, c, g) ==
    \/ aligned /\ c > 0 /\ (n > c \/ g > 0 => wire[c] = ETX /\ g >= n - c)
    \/ ~ aligned /\ c = 0 /\ n > 0
    \/ c = 0 /\ g = 0

\* After it, the stream may stand at the beginning of a message: when the last cell was
\* the end of one, and no part of the next nonce has been taken.
AlignedAfter(n, c, g) ==
    { b \in BOOLEAN :
        b => n > 0 /\ wire[n] = ETX /\ (aligned /\ c = n => g = 0) }

\* The global leftover, which nothing ever writes.
leftover == [k \in 1 .. leftover_size |-> NUL]

\* What is read is put behind the leftover bytes, of which there may be more than the
\* array holds.  (A read that fails or returns nothing leaves all as it was: the loop
\* spins.)
Receive(n, c, g) ==
    /\ Decrypted(n, c, g)
    /\ wire' = SubSeq(wire, n + 1, Len(wire))
    /\ aligned' \in AlignedAfter(n, c, g)
    /\ IF c + g = 0 THEN UNCHANGED << pc, temp, start >>
       ELSE IF leftover_size > LeftoverSize THEN pc' = "fault" /\ UNCHANGED << temp, start >>
       ELSE /\ pc' = "parse" /\ start' = 0
            /\ temp' = leftover \o SubSeq(wire, 1, c) \o [k \in 1 .. g |-> Garbage]

\* Slip: the same data is worked through again at the next turn of the loop.
ReadAgain ==
    /\ pc = "loop" /\ ~ parkingSpotDetected
    /\ \E n \in 1 .. Len(wire) :
          n < BufferSize /\ aligned /\ temp' = leftover \o SubSeq(wire, 1, n)
    /\ start' = 0
    /\ pc' = "parse"
    /\ UNCHANGED << detectorVars, sent, wire, aligned, leftover_size, tpmUp, socket >>

\* OS_Socket_read, when there is something to read.
Read ==
    /\ pc = "loop" /\ ~ parkingSpotDetected /\ wire # << >>
    /\ \E n \in 0 .. Len(wire), g \in Garbages : \E c \in 0 .. n :
          c + g < BufferSize /\ Receive(n, c, g)
    /\ UNCHANGED << detectorVars, sent, leftover_size, tpmUp, socket >>

size == Len(temp)

\* The frame at start, and the position of its terminator.
HeaderHere == size - start >= HeaderSize /\ temp[start + 1] = STX
GarbageHere == size - start >= HeaderSize /\ temp[start + 1] = Garbage
FrameEnd   == start + HeaderSize + temp[start + 2][2]

\* buffer[FrameEnd], which lies behind the received bytes when FrameEnd = size:
\* then it is whatever the array temp of run() holds there.
Terminators == IF FrameEnd < size THEN {temp[FrameEnd + 1]} ELSE {ETX, NUL}

ParsePair ==
    /\ pc = "parse" /\ HeaderHere /\ FrameEnd <= size
    /\ ETX \in Terminators
    /\ LET n == temp[start + HeaderSize + 1][2] IN PushPair(n, sent[n])
    /\ start' = FrameEnd + 1
    /\ UNCHANGED << lastDetectedVehicle, parkingSpotDetected, checking, commands,
                    sent, wire, aligned, temp, leftover_size, connVars >>

\* Garbage that is taken for a frame, of any length that the data allows: whatever
\* sscanf leaves in the two tuples is pushed.
MakeUpPair ==
    /\ pc = "parse" /\ GarbageHere
    /\ \E end \in start + HeaderSize .. size, radar \in MadeUp :
          PushPair(0, radar) /\ start' = end + 1
    /\ UNCHANGED << lastDetectedVehicle, parkingSpotDetected, checking, commands,
                    sent, wire, aligned, temp, leftover_size, connVars >>

\* A length made of garbage is negative, or so large that the sum wraps around: the byte
\* that is looked at lies anywhere, and as a terminator it lets malloc and memcpy have
\* such a length.
NegativeLength ==
    /\ pc = "parse" /\ GarbageHere /\ pc' = "fault"
    /\ UNCHANGED << detectorVars, streamVars, tpmUp, socket >>

\* Slip: the other byte is not skipped.
SkipNothing ==
    /\ pc = "parse"
    /\ size - start >= HeaderSize /\ temp[start + 1] # STX
    /\ UNCHANGED vars

\* Another byte: skipped.
SkipByte ==
    /\ pc = "parse"
    /\ size - start >= HeaderSize /\ temp[start + 1] # STX
    /\ start' = start + 1
    /\ UNCHANGED << detectorVars, sent, wire, aligned, temp, leftover_size, connVars >>

\* The loop ends, or breaks: too short for a header, an incomplete frame, or no
\* terminator behind it, as it may be with garbage.  checkForParking is called.
StopParsing ==
    /\ pc = "parse"
    /\ \/ size - start < HeaderSize
       \/ HeaderHere /\ FrameEnd > size
       \/ HeaderHere /\ FrameEnd <= size /\ \E b \in Terminators : b # ETX
       \/ GarbageHere
    /\ EnterCheck
    /\ pc' = "check"
    /\ UNCHANGED << streamVars, tpmUp, socket >>

Check ==
    /\ pc = "check" /\ (CheckFront \/ LeaveCheck)
    /\ UNCHANGED << streamVars, connVars >>

\* Slip: a leftover that adds up.
KeepLeftoverAddedUp ==
    /\ pc = "check" /\ ~ checking
    /\ leftover_size' = IF start < size THEN leftover_size + size - start ELSE 0
    /\ temp' = << >> /\ start' = 0
    /\ pc' = "loop"
    /\ UNCHANGED << detectorVars, sent, wire, aligned, tpmUp, socket >>

\* The end of process_buffer: the rest is moved to the front of temp, an array
\* that dies with this turn of the loop in run(), and its length is kept.
KeepLeftover ==
    /\ pc = "check" /\ ~ checking
    /\ leftover_size' = IF start < size THEN size - start ELSE 0
    /\ temp' = << >> /\ start' = 0
    /\ pc' = "loop"
    /\ UNCHANGED << detectorVars, sent, wire, aligned, tpmUp, socket >>

-----------------------------------------------------------------------------
(* The end of run().                                                       *)

\* The eight commands of park(), then the command that ends the simulation.
ParkingScript == << "left", "right", "brake", "reverse", "brake", "in", "out", "brake" >>
Script == << "drive", "stop" >> \o ParkingScript \o << "end" >>

StartParking ==
    /\ pc = "loop" /\ parkingSpotDetected /\ pc' = "park"
    /\ UNCHANGED << detectorVars, streamVars, tpmUp, socket >>

Park ==
    /\ pc = "park" /\ Len(commands) < Len(Script)
    /\ commands' = Append(commands, Script[Len(commands) + 1])
    /\ UNCHANGED << vector, vector_radar, lastDetectedVehicle, parkingSpotDetected,
                    checking, received, streamVars, connVars >>

\* Slips: the end command is forgotten, or the TPM is.
FinishWithoutEnd ==
    /\ pc = "park" /\ Len(commands) >= Len(Script) - 1
    /\ pc' = "exit" /\ socket' = "closed" /\ tpmUp' = FALSE
    /\ UNCHANGED << detectorVars, streamVars >>

FinishWithoutShutdown ==
    /\ pc = "park" /\ Len(commands) = Len(Script)
    /\ pc' = "exit" /\ socket' = "closed"
    /\ UNCHANGED << detectorVars, streamVars, tpmUp >>

\* OS_Socket_close, tpmctrl.shutdown, scv_delete of both vectors, return.
Finish ==
    /\ pc = "park" /\ Len(commands) = Len(Script)
    /\ pc' = "exit" /\ socket' = "closed" /\ tpmUp' = FALSE
    /\ UNCHANGED << detectorVars, streamVars >>

\* The car's side: one more pair.
Send ==
    /\ Len(sent) < MaxSent
    /\ \E radar \in Positions : sent' = Append(sent, radar)
    /\ wire' = wire \o Frame(Len(sent) + 1)
    /\ UNCHANGED << detectorVars, connVars, aligned, temp, start, leftover_size >>

App ==
    \/ GiveUp \/ StackRuns \/ Create \/ ConnectFails \/ Connect
    \/ Read \/ ParsePair \/ MakeUpPair \/ NegativeLength \/ SkipByte \/ StopParsing
    \/ Check \/ KeepLeftover \/ StartParking \/ Park \/ Finish

Next == App \/ Send

\* The thread of the application is scheduled again and again.
Spec == Init /\ [][Next]_vars /\ WF_vars(App)

-----------------------------------------------------------------------------
(* What must hold.                                                         *)

\* However the stream is cut and whatever garbage the cuts make: of the pairs that the
\* car has sent the parser takes each at most once, in the order of sending, and never
\* puts one together from parts of others.  (Those made up of garbage have number 0.)
PairsParsedOnceInOrder ==
    /\ \A i \in 1 .. Len(received) : received[i].gnss # 0 =>
          /\ received[i].gnss \in 1 .. Len(sent)
          /\ received[i].radar = sent[received[i].gnss]
    /\ \A i, j \in 1 .. Len(received) :
          i < j /\ received[i].gnss # 0 /\ received[j].gnss # 0
          => received[i].gnss < received[j].gnss

\* A length made of garbage can leave a rest of any size, more than leftover has room for.
\* A buffer without garbage puts an end to that: whatever was left over before it, the rest
\* that it leaves is less than a frame.  What is left over never piles up.
TextLeavesLessThanAFrame ==
    [][pc = "check" /\ pc' = "loop" /\ (\A i \in 1 .. size : temp[i] # Garbage)
       => leftover_size' < FrameSize]_vars

\* The comment at process_buffer: "If a data pair is incomplete, it stores the leftover
\* data and waits for the rest".  What is in leftover afterwards is the data that is left.
IncompletePairsAreKept ==
    [][pc = "check" /\ pc' = "loop" /\ start < size
       => leftover' = SubSeq(temp, start + 1, size)]_vars

\* From the stream to the decision: the application finds a parking spot exactly
\* when the documented algorithm finds one in what the car has sent.
StreamSpotsFound ==
    pc = "loop" /\ (wire = << >> \/ parkingSpotDetected)
    => parkingSpotDetected
       = Documented([i \in 1 .. Len(sent) |-> [gnss |-> i, radar |-> sent[i]]]).spot

\* The car gets the documented sequence of commands, nothing else, and all of it
\* before the socket is closed after a parking spot was found.
CommandsFollowScript ==
    /\ commands = SubSeq(Script, 1, Len(commands))
    /\ Len(commands) >= 2 <=> parkingSpotDetected
    /\ socket = "closed" /\ commands # << >> => commands = Script

\* Every buffer is worked through: parsing and checking end, as long as no length made of
\* garbage leads out of the buffer.
BuffersEnd == pc = "parse" ~> pc \in {"loop", "fault"}

\* A parking spot found leads to the whole parking procedure and to the end of
\* the application, with the TPM shut down.
ParkingEnds == parkingSpotDetected ~> (pc = "exit" /\ commands = Script /\ ~ tpmUp)
=============================================================================
