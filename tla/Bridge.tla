------------------------------- MODULE Bridge -------------------------------
(***************************************************************************)
(* The Python client after the key exchange: bridge.py and scenario.py in  *)
(* the main thread, the threads ControlDataReceiver and SensorDataSender   *)
(* (communication.py), and the callbacks of the two sensors, which CARLA   *)
(* runs in threads of its own (utils.py).  Its peer is the application,    *)
(* which reads sensor data until it has found a parking spot, sends its    *)
(* commands and closes the socket.                                         *)
(*                                                                         *)
(* Data: a sensor reading is the number of the simulator's tick it belongs *)
(* to.  A command is the number of its message, the last is the one that   *)
(* ends the simulation; 0 is five floats that nobody has sent.  Bytes are  *)
(* taken four at a time: a message is NonceSize cells of nonce and         *)
(* TupleSize cells of ControlData.  What is decrypted with another nonce,  *)
(* or from another place of the key stream, is Garbage.                    *)
(*                                                                         *)
(* Bounds: MaxTicks ticks of the simulator; MAX_DATA_POINTS, which is 8 in *)
(* communication.py; Window chunks on their way to the application.        *)
(***************************************************************************)
EXTENDS Integers, SequencesExt

CONSTANTS MaxTicks, MAX_DATA_POINTS, Window,
          Commands,     \* the messages of a run of the application
          Timed         \* those of them with a time greater than 0

ASSUME BridgeAssumption ==
    /\ MaxTicks \in Nat /\ MAX_DATA_POINTS \in Nat \ {0} /\ Window \in Nat \ {0}
    /\ Commands \in Nat \ {0} /\ Timed \subseteq 1 .. Commands - 1

VARIABLES
    main,           \* the main thread
    listening,      \* the sensors whose callbacks are installed
    tick, first,    \* the simulator's time, and when each callback was installed
    arrived,        \* readings whose callback has not stored them yet
    points,         \* radar_data_points and gnss_data_points
    locked,         \* the locks of these lists that the sender holds
    sender, rest, chunk,      \* the sender's place and its local lists
    packed,         \* history: all pairs handed to send_to_server
    receiver, leftover_data, control_data_queue,
    stopped,        \* the threads whose stop_event is set
    applied,        \* history: what the vehicle was told to do
    app, issued,    \* the application's place and the number of its commands
    link, wire, out \* the connection; bytes from, and chunks to the application

sensorVars  == << listening, tick, first, arrived >>
senderVars  == << sender, rest, chunk, packed, locked >>
controlVars == << receiver, leftover_data, control_data_queue >>
mainVars    == << main, stopped, applied >>
appVars     == << app, issued >>
netVars     == << link, wire, out >>
vars == << sensorVars, points, senderVars, controlVars, mainVars, appVars, netVars >>

Sensors == {"radar", "gnss"}
Threads == {"sender", "receiver"}
NonceSize   == 3
TupleSize   == 5
MessageSize == NonceSize + TupleSize
Message(n)  == [k \in 1 .. MessageSize |-> << n, k >>]
Garbage     == << 0, 0 >>
Brake       == -1

Empty == [s \in Sensors |-> << >>]

Init ==
    /\ main = "radar" /\ stopped = {} /\ applied = << >>
    /\ listening = {} /\ tick = 0 /\ first = [s \in Sensors |-> 0]
    /\ arrived = Empty /\ points = Empty
    /\ sender = "none" /\ rest = Empty /\ chunk = Empty /\ packed = << >> /\ locked = {}
    /\ receiver = "none" /\ leftover_data = << >> /\ control_data_queue = << >>
    /\ app = "reading" /\ issued = 0
    /\ link = "open" /\ wire = << >> /\ out = << >>

-----------------------------------------------------------------------------
(* The sensors.                                                            *)

\* A tick of the simulator gives every installed callback a reading.
Tick ==
    /\ tick < MaxTicks /\ tick' = tick + 1
    /\ arrived' = [s \in Sensors |-> IF s \in listening THEN Append(arrived[s], tick')
                                                        ELSE arrived[s]]
    /\ UNCHANGED << listening, first, points, senderVars, controlVars, mainVars,
                    appVars, netVars >>

\* Slip: the lock of the list is not taken.
CallbackUnlocked(s) ==
    /\ arrived[s] # << >>
    /\ points' = [points EXCEPT ![s] = Append(@, Head(arrived[s]))]
    /\ arrived' = [arrived EXCEPT ![s] = Tail(@)]
    /\ UNCHANGED << listening, tick, first, senderVars, controlVars, mainVars,
                    appVars, netVars >>

\* radar_callback, gnss_callback: the reading is stored under the lock of its list.
Callback(s) ==
    /\ arrived[s] # << >> /\ s \notin locked
    /\ points' = [points EXCEPT ![s] = Append(@, Head(arrived[s]))]
    /\ arrived' = [arrived EXCEPT ![s] = Tail(@)]
    /\ UNCHANGED << listening, tick, first, senderVars, controlVars, mainVars,
                    appVars, netVars >>

-----------------------------------------------------------------------------
(* SensorDataSender.                                                       *)

\* run(): the stop event is looked at, then the thread sleeps.
SenderLoop ==
    /\ sender = "loop"
    /\ sender' = IF "sender" \in stopped THEN "ended" ELSE "radar"
    /\ UNCHANGED << sensorVars, points, rest, chunk, packed, locked, controlVars, mainVars,
                    appVars, netVars >>

\* send_accumulated_data(): the two locks are taken one after the other.
Lock(s, next) ==
    /\ sender = s /\ sender' = next /\ locked' = locked \union {s}
    /\ UNCHANGED << sensorVars, points, rest, chunk, packed, controlVars, mainVars,
                    appVars, netVars >>

\* Both lists are cut, if both are long enough.  Lists are copied by the slices.
Slice ==
    /\ sender = "slice"
    /\ IF \A s \in Sensors : Len(points[s]) >= MAX_DATA_POINTS
       THEN /\ chunk' = [s \in Sensors |-> SubSeq(points[s], 1, MAX_DATA_POINTS)]
            /\ rest' = [s \in Sensors |->
                          SubSeq(points[s], MAX_DATA_POINTS + 1, Len(points[s]))]
            /\ sender' = "assign" /\ UNCHANGED locked
       ELSE sender' = "loop" /\ locked' = {} /\ UNCHANGED << rest, chunk >>
    /\ UNCHANGED << sensorVars, points, packed, controlVars, mainVars, appVars, netVars >>

\* The rests become the lists.
Assign ==
    /\ sender = "assign" /\ sender' = "send"
    /\ points' = rest /\ rest' = Empty
    /\ UNCHANGED << sensorVars, chunk, packed, locked, controlVars, mainVars, appVars,
                    netVars >>

Pairs == [i \in 1 .. MAX_DATA_POINTS |-> << chunk["radar"][i], chunk["gnss"][i] >>]

\* Slip: the locks are not released when sendall() raises an exception.
SendKeepingLocks ==
    /\ sender = "send"
    /\ \/ /\ link = "open" /\ Len(out) < Window
          /\ out' = Append(out, Pairs) /\ sender' = "loop" /\ locked' = {}
       \/ link = "fin" /\ sender' = "loop" /\ locked' = {} /\ UNCHANGED out
       \/ link = "rst" /\ sender' = "ended" /\ UNCHANGED << out, locked >>
    /\ packed' = packed \o Pairs /\ chunk' = Empty
    /\ UNCHANGED << sensorVars, points, rest, controlVars, mainVars, appVars, link, wire >>

\* send_to_server(), with both locks held: sendall() waits for room.  To a peer that
\* has closed the data is lost (BrokenPipeError is caught); a reset raises another
\* exception, which ends the thread.  The locks are released on every way out.
Send ==
    /\ sender = "send"
    /\ \/ /\ link = "open" /\ Len(out) < Window
          /\ out' = Append(out, Pairs) /\ sender' = "loop"
       \/ link = "fin" /\ sender' = "loop" /\ UNCHANGED out
       \/ link = "rst" /\ sender' = "ended" /\ UNCHANGED out
    /\ packed' = packed \o Pairs /\ chunk' = Empty /\ locked' = {}
    /\ UNCHANGED << sensorVars, points, rest, controlVars, mainVars, appVars, link, wire >>

Sender == SenderLoop \/ Lock("radar", "gnss") \/ Lock("gnss", "slice") \/ Slice \/ Assign \/ Send

-----------------------------------------------------------------------------
(* ControlDataReceiver.                                                    *)

\* Slip: the nonce is not cut off before the decryption.
DecryptNonceToo(data) ==
    IF Len(data) < NonceSize THEN << >>
    ELSE [i \in 1 .. Len(data) |-> IF i <= NonceSize THEN Garbage ELSE data[i]]

\* recv_decrypt(): the first cells are the nonce for all that follow, whatever they
\* are.  No tag tells whether they are.
Decrypt(data) ==
    IF Len(data) < NonceSize THEN << >>
    ELSE [i \in 1 .. Len(data) - NonceSize |->
            IF \A j \in 1 .. NonceSize + i : data[j] = << data[1][1], j >>
            THEN data[NonceSize + i] ELSE Garbage]

\* struct.unpack(): the command with these cells, if it is one.
Unpack(cells) ==
    IF \A k \in 1 .. TupleSize : cells[k] = << cells[1][1], NonceSize + k >>
    THEN cells[1][1] ELSE 0

ReceiverLoop ==
    /\ receiver = "loop"
    /\ receiver' = IF "receiver" \in stopped THEN "ended" ELSE "recv"
    /\ UNCHANGED << sensorVars, points, senderVars, leftover_data, control_data_queue,
                    mainVars, appVars, netVars >>

\* Slips: the last complete tuple is left, and what is left over is kept for good.
QueueAllButLast(data) ==
    LET all == leftover_data \o data
        n   == IF all = << >> THEN 0 ELSE (Len(all) - 1) \div TupleSize
    IN  /\ control_data_queue' = control_data_queue \o
             [i \in 1 .. n |-> Unpack(SubSeq(all, (i - 1) * TupleSize + 1, i * TupleSize))]
        /\ leftover_data' = SubSeq(all, n * TupleSize + 1, Len(all))

QueueKeepingLeftover(data) ==
    LET all == leftover_data \o data
        n   == Len(all) \div TupleSize
        new == SubSeq(all, n * TupleSize + 1, Len(all))
    IN  /\ control_data_queue' = control_data_queue \o
             [i \in 1 .. n |-> Unpack(SubSeq(all, (i - 1) * TupleSize + 1, i * TupleSize))]
        /\ leftover_data' = IF new = << >> THEN all ELSE new

\* The loop of run(): every complete tuple goes into the queue, the rest is kept.
QueueTuples(data) ==
    LET all == leftover_data \o data
        n   == Len(all) \div TupleSize
    IN  /\ control_data_queue' = control_data_queue \o
             [i \in 1 .. n |-> Unpack(SubSeq(all, (i - 1) * TupleSize + 1, i * TupleSize))]
        /\ leftover_data' = SubSeq(all, n * TupleSize + 1, Len(all))

\* recv(1024) waits for data, and returns any part of it (1024 bytes are more than all
\* commands together), or nothing when the application has closed; a reset raises an
\* exception, which ends the thread.
Receive ==
    /\ receiver = "recv"
    /\ \/ /\ \E n \in 1 .. Len(wire) :
                QueueTuples(Decrypt(SubSeq(wire, 1, n)))
                /\ wire' = SubSeq(wire, n + 1, Len(wire))
          /\ receiver' = "loop"
       \/ /\ wire = << >> /\ link = "fin" /\ QueueTuples(<< >>)
          /\ receiver' = "loop" /\ UNCHANGED wire
       \/ /\ wire = << >> /\ link = "rst" /\ receiver' = "ended"
          /\ UNCHANGED << leftover_data, control_data_queue, wire >>
    /\ UNCHANGED << sensorVars, points, senderVars, mainVars, appVars, link, out >>

Receiver == ReceiverLoop \/ Receive

-----------------------------------------------------------------------------
(* The main thread: bridge.py and ScenarioSetup.                           *)

\* Whatever the main thread does here may raise an exception, or Ctrl-C may: finally.
CleanUp == main' = "stopSender"

\* sensor_setup(): the callback of the radar is installed, then the one of the GNSS.
Listen(s, next) ==
    /\ main = s /\ main' = next
    /\ listening' = listening \union {s} /\ first' = [first EXCEPT ![s] = tick + 1]
    /\ UNCHANGED << tick, arrived, points, senderVars, controlVars, stopped, applied,
                    appVars, netVars >>

\* start_threads().
StartThreads ==
    /\ main = "start" /\ main' = "take"
    /\ sender' = "loop" /\ receiver' = "loop"
    /\ UNCHANGED << sensorVars, points, rest, chunk, packed, locked, leftover_data,
                    control_data_queue, stopped, applied, appVars, netVars >>

\* The loop of bridge.py: get() waits for a command.  A command of zeros ends it; with
\* a time the thread sleeps before it goes on.  Garbage has any time, which sleep()
\* may also refuse.
Take ==
    /\ main = "take" /\ control_data_queue # << >>
    /\ control_data_queue' = Tail(control_data_queue)
    /\ LET c == Head(control_data_queue) IN
          IF c = Commands THEN CleanUp /\ UNCHANGED applied
          ELSE /\ applied' = Append(applied, c)
               /\ \/ c \in Timed \union {0} /\ main' = "sleep"
                  \/ c \notin Timed /\ main' = "take"
                  \/ c = 0 /\ CleanUp
    /\ UNCHANGED << sensorVars, points, senderVars, receiver, leftover_data, stopped,
                    appVars, netVars >>

\* The time is over: brake().
WakeUp ==
    /\ main = "sleep" /\ main' = "take" /\ applied' = Append(applied, Brake)
    /\ UNCHANGED << sensorVars, points, senderVars, controlVars, stopped, appVars, netVars >>

Interrupt ==
    /\ main \in {"radar", "gnss", "start", "take", "sleep"} /\ CleanUp
    /\ UNCHANGED << sensorVars, points, senderVars, controlVars, stopped, applied,
                    appVars, netVars >>

\* Slip: stop_thread() of the receiver joins without the event.
StopWithoutEvent(thread, at, next) ==
    /\ main = at /\ main' = next
    /\ stopped' = stopped \union ({thread} \ {"receiver"})
    /\ UNCHANGED << sensorVars, points, senderVars, controlVars, applied, appVars, netVars >>

\* clean_up(): stop_thread() sets the event of a thread, and joins it if it is alive.
Stop(thread, at, next) ==
    /\ main = at /\ main' = next
    /\ stopped' = stopped \union {thread}
    /\ UNCHANGED << sensorVars, points, senderVars, controlVars, applied, appVars, netVars >>

Join(place, at, next) ==
    /\ main = at /\ place \in {"none", "ended"} /\ main' = next
    /\ UNCHANGED << sensorVars, points, senderVars, controlVars, stopped, applied,
                    appVars, netVars >>

\* The sensors and the vehicles are destroyed.
Destroy ==
    /\ main = "destroy" /\ main' = "done" /\ listening' = {}
    /\ UNCHANGED << tick, first, arrived, points, senderVars, controlVars, stopped, applied,
                    appVars, netVars >>

Main ==
    \/ Listen("radar", "gnss") \/ Listen("gnss", "start") \/ StartThreads
    \/ Take \/ WakeUp
    \/ Stop("sender", "stopSender", "joinSender")
    \/ Join(sender, "joinSender", "stopReceiver")
    \/ Stop("receiver", "stopReceiver", "joinReceiver")
    \/ Join(receiver, "joinReceiver", "destroy")
    \/ Destroy

-----------------------------------------------------------------------------
(* The application, and the network.                                       *)

\* A command is written; whether the write succeeds is not looked at.
Issue ==
    /\ issued < (IF app = "reading" THEN 1 ELSE Commands) /\ app # "closed"
    /\ issued' = issued + 1
    /\ wire' = IF link = "open" THEN wire \o Message(issued') ELSE wire
    /\ UNCHANGED << sensorVars, points, senderVars, controlVars, mainVars, app, link, out >>

ReadSensors ==
    /\ app = "reading" /\ issued = 1 /\ out # << >> /\ out' = Tail(out)
    /\ UNCHANGED << sensorVars, points, senderVars, controlVars, mainVars, appVars,
                    link, wire >>

\* A parking spot: no more sensor data is read.
Spot ==
    /\ app = "reading" /\ issued = 1 /\ app' = "parking"
    /\ UNCHANGED << sensorVars, points, senderVars, controlVars, mainVars, issued, netVars >>

CloseSocket ==
    /\ app = "parking" /\ issued = Commands /\ app' = "closed"
    /\ link' = IF link = "open" THEN "fin" ELSE link
    /\ UNCHANGED << sensorVars, points, senderVars, controlVars, mainVars, issued, wire, out >>

App == Issue \/ ReadSensors \/ CloseSocket

\* The connection breaks: what is on its way may be lost.
Break ==
    /\ link = "open" /\ link' = "rst" /\ out' = << >>
    /\ \E n \in 0 .. Len(wire) : wire' = SubSeq(wire, 1, n)
    /\ UNCHANGED << sensorVars, points, senderVars, controlVars, mainVars, appVars >>

Next ==
    \/ Tick \/ (\E s \in Sensors : Callback(s)) \/ Sender \/ Receiver \/ Main
    \/ Interrupt \/ App \/ Spot \/ Break

\* Every thread is scheduled; a callback that waits for a lock gets it at last, for the
\* sender sleeps for SEND_INTERVAL at every turn without the locks.  The application
\* does what it has to do; nothing makes it find a parking spot.
Spec ==
    /\ Init /\ [][Next]_vars
    /\ \A s \in Sensors : SF_vars(Callback(s))
    /\ WF_vars(Sender) /\ WF_vars(Receiver) /\ WF_vars(Main) /\ WF_vars(App)

-----------------------------------------------------------------------------
(* What must hold.                                                         *)

\* Whatever the threads and callbacks do, the pairs of send_to_server are the readings
\* of both sensors in order, none lost and none twice: the distance between the two
\* readings of a pair is always that between the installations of the callbacks.
PairsInOrder ==
    \A i \in 1 .. Len(packed) :
       packed[i] = << first["radar"] + i - 1, first["gnss"] + i - 1 >>

\* However the network cuts and joins the bytes, no command is carried out twice or
\* before an earlier one.
CommandsNotRepeated ==
    \A i, j \in 1 .. Len(applied) :
       i < j /\ applied[i] > 0 /\ applied[j] > 0 => applied[i] < applied[j]

\* What the vehicle is told in a run without losses.
Procedure ==
    FlattenSeq([c \in 1 .. Commands - 1 |-> IF c \in Timed THEN << c, Brake >> ELSE << c >>])

\* The vehicle is told what the application has sent, in order, and nothing else.
ProcedureFollowed == IsPrefix(applied, Procedure)

\* A callback of the simulator is never blocked for good.
CallbacksReturn ==
    \A s \in Sensors : arrived[s] # << >> ~> (arrived[s] = << >> \/ main = "done")

\* When the application does not read any more, a clean-up that was begun comes to its
\* end: both threads end, whatever they wait for.
CleanUpEnds == (main = "stopSender" /\ app # "reading") ~> main = "done"

\* components/TestApp/README.md: the bridge applies all commands, exits when it has
\* finished them, and cleans everything up.
BridgeExits == app = "parking" ~> (main = "done" /\ applied = Procedure)
=============================================================================
