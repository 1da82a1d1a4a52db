# Autonomous driving on TRENTOS: a TLA+ verification project

The repository is a parking assistant. An seL4/TRENTOS application on a
Raspberry Pi (`components/`, C) gets radar and GNSS readings of a simulated
car, looks for a gap between parked vehicles, stops the car there and sends it
the commands of a fixed parking manoeuvre. The car lives in the CARLA simulator
on another machine and is driven by a Python program (`python_client/`). The
bytes between the two go through an encrypting socket component whose key comes
out of an exchange that is anchored in a TPM, which is reached through the wolfTPM
library over SPI.

This directory holds TLA+ models of these programs, TLC configurations that
check them on small instances, and TLAPS proofs for instances of every size. It
is read beside the code: every definition that stands for code is listed with
its file and lines in `PROJECT.json` under `map`.

Contents: 1 the system; 2 the modules; 3 the runs; 4 fairness; 5 the proofs;
6 what the code does otherwise than its documents say; 7 abstractions; 8 what is not
modelled; 9 the plan.

## 1. The system

```
  Raspberry Pi (CAmkES components)                   simulator's machine

  TestApp --RPC--> SecureCommunication --RPC--> NetworkStack ===TCP=== Python client
     |                  |                       (one socket)            |   main thread
     |                  | keystore, crypto, entropy                     |   ControlDataReceiver
     |                  v                                               |   SensorDataSender
     +--shutdown--> WolfTPM --SPI--> TPM                                |   sensor callbacks
                                                                        v
                                                                      CARLA
```

### TestApp (`components/TestApp`)

State: the socket, the two vectors of GNSS and radar positions, the last
detected vehicle, `leftover` and `leftover_size`, the flag of a spot found. One
thread runs `run()`: it waits for the stack, creates and connects the socket
(which runs the key exchange), sends the command to drive, and reads until a
spot is found. Each read goes to `process_buffer()`, which takes the frames
apart (0x13, length, text, 0x14), pushes both halves of a pair and calls
`checkForParking()`. What a read gives has been decrypted by `SecureCommunication`, which
takes the first 12 bytes of whatever has arrived for the nonce of all the rest: the rest of a
message that was cut, and a message that follows another in one read, are garbage. Then `park()` sends eight commands, a ninth ends the
simulation, the socket is closed and the TPM is shut down.

Hard: a TCP stream may be cut anywhere, and the parser has to resume behind what was
lost and the garbage, in which it may see frames of any length; the detection reads through pointers into a vector that it has popped in between;
several early returns release different things. Correct when: every pair sent
is parsed once, in order, never assembled from two; what is left over does not grow from
read to read; the car is stopped once, for a gap that was there, and for every gap
the documented algorithm finds; the car then gets the whole procedure.

### scv (`components/TestApp/src/scv`)

The vector library: header (`objsize`, `size`, `capacity`) and one allocation.
Operations: all of `scv.h`. Hard: sizes are computed in `size_t`, memory may run out in the middle. Correct when a vector is the
sequence its header file describes, and a refused call changes nothing.

### SecureCommunication (`components/SecureCommunication`)

State: `is_initialized`, the handle of the stored key, the socket's handle.
`create` runs `exchange_keys()` on its first call: it gets two public keys from
WolfTPM, sends them to the server's crypto port, reads the response until the
connection is closed, has it decrypted twice by WolfTPM and stores 32 bytes.
`connect` waits for the connection. `write` and `sendto` load the key, draw an
IV, encrypt and send; `read` and `recvfrom` are the reverse. Hard: both sides
restart independently, every call of the stack and of the TPM may fail, several
results are not looked at, a read returns a piece of a message or several at once, and each
message takes room in the crypto library that is never given back. Correct when a key
that came through an exchange is only ever used with the server that made it, the two ends
of an undisturbed channel have one key, an exchange always ends, an IV is used twice only
when the TPM has refused a random number, nothing arrives twice or out of order, and a caller is
told when its message was not sent. Two of these have exceptions in the code (section 6).

### WolfTPM (`components/WolfTPM`)

State: the cEK, the SRK and cSRK, `nv_off`; and in the TPM, surviving power
cuts, two NV indices. `pre_init()` loads the cEK or, when index 1 cannot be
opened, runs `first_setup()`, which generates one, writes it into two indices,
prints its public part and halts. `storeKey`/`loadKey` use the rest of index 2.
Other interfaces (entropy, RSA, shutdown) keep no state. Hard: the set-up is a
sequence of TPM commands any of which may fail or be the last before the power
goes. Correct when no partly written or mixed cEK is ever served, the one that
was printed and imported is never damaged, and handles lead to their keys.

### The wolfTPM library (`components/WolfTPM/src`, `tpm_io_trentos.c`)

Three layers below `trentos.c`, in the order of a call:

- the wrappers (`tpm2_wrap.c`) are sequences of commands. State: the device's
  session slots, and the handles in the caller's structures. Hard: every command may
  fail, done or not, and the handle of what is loaded is the only way to unload it.
  Correct when a call leaves no object of the TPM behind without a handle, and a
  session's nonce is where its next use takes it from;
- the command layer (`tpm2.c`, `tpm2_packet.c`) puts a command together in the
  context's one buffer, inserts the authorization area, sends it and takes the
  answer apart. State: the buffer, the slots' nonces. Hard: each of some hundred
  functions counts its handles by hand, an entry is written over later at a computed
  place, and getting a nonce sends a command in between. Correct when what is
  sent is a command in the sense of the TPM's specification and what is read is read where
  the TPM has put it;
- the driver of the register interface (`tpm2_tis.c`) polls status bits and burst counts a
  limited number of times. State: none of its own between calls, but the TPM's: an answer
  that came too late stays in its FIFO, a command may be half written. Correct when a
  call returns the answer to its own command or fails, always returns, and works again
  once the TPM does.

### Python client (`python_client`)

State: the two lists of readings with their locks, the queue of commands, the
leftover of the receiver, two stop events, the socket. `start_server()` listens
on both ports, serves the key exchange once, accepts the application.
`bridge.py` installs the callbacks, starts the two threads, applies commands
from the queue and cleans up. Hard: five kinds of threads share lists, locks and
a socket; `sendall()` blocks with both locks held; clean-up joins threads that
may be blocked in a call; `recv()` cuts and joins messages. Correct when pairs
stay paired, no reading is lost or sent twice, commands are applied once and in
order, no callback is blocked for ever, and clean-up ends.

### Outside the repository

The network stack (one socket, asynchronous events), the TPM chip, TCP, CARLA and the
CAmkES runtime are modelled only as far as the code above sees them; the definitions
concerned are marked `external` in the map.

### What is hard to test

`PROJECT.json` lists the hazards, each at its line, with the properties that
are about it. Two have no property and a note that says why: the way out of `run()`
without the TPM's shutdown, which is a straight line of code, and the receiving loop after
the connection is gone, of which nothing promises an end.

## 2. The modules

| Module | Models | Extends / instantiates |
|---|---|---|
| `Scv` | `scv.c` as a data type: every operation is the set of its outcomes | |
| `ScvVector` | a program that calls the library in any legal order | `Scv`, `ScvSequence` |
| `ScvSequence` | abstract: what `scv.h` promises | |
| `ParkingDetector` | the two vectors and `checkForParking()` | `Scv` |
| `TestApp` | `run()`, `process_buffer()`, `park()`, and the stream | `ParkingDetector` |
| `WolfTPM` | `trentos.c` over the TPM's NV memory | |
| `TpmOperator` | `WolfTPM` and who starts it: anybody, or an operator who follows the README | `WolfTPM` |
| `KeyExchange` | `create`/`connect` with `exchange_keys()`, and the server's start | |
| `SecureChannel` | `write`/`read` with the cipher, the IV and the other end | `MessageChannel` |
| `MessageChannel` | abstract: messages of which some are lost | |
| `Bridge` | the Python client after the exchange | |
| `TPM2Wrap` | the wrappers of `tpm2_wrap.c` | `TPM2Commands` |
| `TPM2Commands` | the commands of `tpm2.c`, as a table | `TPM2Packet` |
| `TPM2Table` | what is required of that table, computed by TLC | `TPM2Commands` |
| `TPM2Packet` | the Append and Parse functions of `tpm2_packet.c`, as layouts | |
| `TPM2` | a command on its way through the command layer | `TPM2Commands` |
| `TpmTis` | the driver of the register interface and the start of the chip | `TpmLink` |
| `TpmLink` | abstract: commands that are answered or fail | |
| `MC*` | instances for TLC | the module of that name; `MCTPM2Wrap` also `TPM2Table` |
| `*Proofs` | theorems and proofs; `TestAppProofs` also those about `ParkingDetector`, `TPM2Proofs` about `TPM2Wrap` | the module of that name (`TestApp`, `Bridge`: its `MC` module), `TLAPS` |

The detection is composed with the vector library (it works on the real
headers and cells, which is what the dangling pointers need), and the
application with both. A definition whose comment begins with *Slip* is a
plausible mistake in the code; it belongs to no specification and serves to
show that a property can be violated.

**Scv.** A vector is a record of its header and all cells of the allocation,
those behind `size` too, because `scv_front()` returns a pointer that goes on
seeing them. `Realloc` succeeds or fails. Byte counts are `0 .. SizeMax`, and
the one sum that can wrap is taken modulo `SizeMax + 1`. The arguments NULL,
zero sizes and indices out of range are in the inputs.

**ScvSequence.** Actions over sequences: splice, resize, copy, swap, each
refused with the documented code and then without effect. `ScvVector` shows
(`ImplementsSequence`) that the visible elements behave like that.

**ParkingDetector.** `CheckFront` is one turn of the loop: it pops both
vectors and then reads cell 0 of the *new* vectors, as the C pointers do.
`Documented` is the algorithm of the component's README, as a recursive
function over the readings.

**TestApp.** `pc` follows the one thread. A read takes any prefix off the stream and
gives what the decryption makes of it (`Decrypted`): the text of one message, or of its beginning, when the
piece begins with a message (`aligned`), and `Garbage` for all the rest. The parser's cases are actions of their own
(`ParsePair`, `SkipByte`, `StopParsing`); the byte behind the data, which the
parser looks at, is anything. A `Garbage` cell may be any byte: one that is passed over, the header of a
frame of any length, of which a pair is made up (`MakeUpPair`) or for which the parser waits, or
a length that is negative or overflows (`NegativeLength`), after which nothing is modelled. The
leftover is kept the way the code keeps it: its length survives, its bytes do not; when it is longer
than the array `leftover`, the next read leaves the array (`pc = "fault"`).

**WolfTPM.** One action per TPM command. A command may fail unexecuted
(`Fault`), be executed and reported as failed (`Proceed`), and the power may go
anywhere (`PowerCut`). `printed` remembers which cEK the operator was shown;
`handles` remembers what `storeKey` returned, with the boot it was in.

**KeyExchange.** The application's call (`pc`), the stack's one socket and its
pending events, one TCP connection (`link`) with the bytes in both directions
and the way it ends, the server's process (`spc`) and its two backlogs. Boots
and server starts are numbered; the key that server *n* makes is *n*, so that
an old key is recognised.

**SecureChannel.** `pc` follows the one thread of the component through a `write` or a
`read`; network and other end go on between its steps. The ciphertext of a message is
cells of its IV, place and number, so that decrypting from the wrong place or with the
wrong IV is seen. Every call of the stack, the key store and the TPM may fail, the stack
may take only a part, a read returns any piece. `free` is the room in the crypto library:
each message takes a key and a cipher of it and gives neither back. Where there is room for the key only,
the code goes on without a cipher and reports success; what it delivers or sends is what its
local array holds, and `plaintext` and `payload` are the text that earlier calls may have left there. In the behaviours with `regular`, messages stay
apart and there is room; there each direction is shown to implement `MessageChannel`
(`EachWayIsMessageChannel`): a message arrives whole and once and in order, or is lost. Without it
that is not so (a stream that is cut garbles all that is read with it), and
`PlainInOrder` says what is left.

**Bridge.** One program counter per thread, the two locks (a lock is held by the
sender only; a callback appends to its list in one step that needs the lock
free), the queue, the stop events, the connection. Messages are cells of
four bytes: three of nonce, five of `ControlData`. Decrypting with the wrong
nonce or at the wrong place gives `Garbage`. `packed` and `applied` are history.

**TPM2Packet, TPM2Commands, TPM2.** A command is a record of the kind of its function,
the handles it appends, what it tells `CmdInfo_t`, and the fields it appends and parses,
given by the Append and Parse functions it calls. A field is a name; which fields
there are may depend on the shape of a structure (`Shapes`). `TPM2` sends one command
after the other: `Call` puts it together, `CommandProcess` writes the sessions' entries over, one
step per session with its `TPM2_GetNonce()`, the TPM executes, refuses or loses it,
`ResponseProcess` finds the sessions in the answer by counting, `ReadAnswer` is the
parsing. A TPM that understands only well-formed commands is on the other end.
`AnswersReadInPlace` compares what the function reads with what the answer has at that place.

**TPM2Wrap.** A wrapper is a script of steps. `Do` gives the effect of one step, `Done` of a script
in which some commands fail (`Outcomes`: not executed, or executed and the answer lost); failing steps end
it, except for those the code takes all the same and the results it does not look at. The TPM has little
room (`loaded`). `failed` is how often a step failed in a call that left something behind,
which is as much as a caller can learn from it; `kept` is where the TPM's last nonce of the
session can be found.

**TpmTis.** One action for each access to a register and each round of a wait. The TPM is slow
as long as it likes and then `prompt`: from some point on it has done what it can whenever it
is looked at. That is the assumption under which failed calls must not make later ones fail
(`PromptTpmIsHeard`). `ImplementsLink` is the refinement to `TpmLink`, in which a call
returns the answer to its own command or fails, and a command is executed at most once.

## 3. The runs

Sizes are those with two TLC workers.

| Run | Module | Distinct states | Question |
|---|---|---|---|
| `vector` | `MCScvVector` | 2 000 (3 million steps) | Is the library the documented sequence, in range, atomic on errors, and do full vectors grow by more than half? |
| `detector_stale` | `ParkingDetector` | violation | Does the detection agree with its documents for every batching? |
| `app` | `MCTestApp` | 379 000 | From the stream to the procedure: what holds however reads are cut, what when they are not? |
| `app_split` | `MCTestApp` | violation | Is a cut pair kept? |
| `tpm` | `MCWolfTPM` | 106 000 | Do the cEK and the stored keys survive interruptions? |
| `tpm_reboot` | `MCWolfTPM` | violation | Is the key store non-volatile? |
| `exchange` | `MCKeyExchange` | 14 000 | Do keys agree after restarts and failures, and when does the exchange end? |
| `channel` | `MCSecureChannel` | 6 670 000 | What arrives, whatever is cut, joined, refused or used up; and is each direction a channel? |
| `bridge` | `MCBridge` | 81 000 | Do pairs, commands, locks and the clean-up survive all interleavings? |
| `commands` | `MCTPM2` | 336 000 | Is every command understood and every answer read in place, with any sessions? |
| `tis` | `MCTpmTis` | 77 000 | Does a call return its own answer, always return, and recover? |
| `wrappers` | `MCTPM2Wrap` | 25 000 | Does any sequence of calls with failures keep the TPM's room and the nonces? |

Several `MC` modules add one variable that chooses, in the initial state, what
surrounds the component in this behaviour. It keeps one run from multiplying
cases that have nothing to do with each other, and lets a property say under
which circumstances it is claimed.

**`vector`.** Two vectors, element sizes 0 to 3, every argument from 0 to 7,
`size_t` of 0 to 7, a minimum allocation of 2 bytes, doubling up to 3 bytes.
At this scale both growth factors are used, a factor wraps, every refusal occurs,
and elements do and do not divide the byte counts. `RoomForBoth` keeps a vector of
1-byte elements alone (it has by far the most states; `scv_copy` and `scv_swap` are
exercised between the others). The view leaves out the record of the last call;
the step properties are evaluated on every step all the same.

**`app`.** `reads` says how the stream is read: `anywhere` (three pairs in pieces of any
size, at most two of them on the way and at most one pair made up of garbage), or message by message: `whole` (three pairs,
any number in a message), `twice` (six pairs, each vehicle shown
twice in a row) or `alone` (five, one in a message). A frame is four cells, which can be cut
at every place the parser tells apart; the buffer takes four frames. A read gives no cell of garbage, one,
or five, which is a frame and more than `leftover` has room for (four). Positions are chosen so that the
distances 4, 5, 12, 13, and some below and above, occur; three readings in a buffer are
enough for first, middle and last elements of the loop. `LastVehicleIsAReading`,
`StopIsJustified`, parsing once and in order, the leftover, the end of every
buffer and the procedure are checked for all; that the documented spots are found in what
the car sent (`WholeStreamSpotsFound`, which includes that nothing is lost) for
`twice` and `alone`.

**`tpm`.** `operator` is `anybody` (any image at any boot, three faults, two
set-ups) or `follows` (the README's procedure: `CLEAR_TPM` until a cEK has been
printed; two faults). Four boots allow an interrupted set-up, a completed one, a normal
boot and one more; index 1 is three chunks, so that there is a first, a middle and
a last write; index 2 has room for two keys and refuses a third.

**`exchange`.** `around` is `restarts` (three starts of each side in any order, no
failure), `failures` (one boot, three servers, three failures) or `calm`. Three starts
are one more than needed to confuse a key with the one before. `UndisturbedKeysAgree`
needs no failure and no reboot, but allows restarts of the server; `ExchangeEnds` is checked in
every mode, with the one exception that it names (`WaitsForDeadBoot`, section 6); that the component gives up with
`exit(1)`, which leaves the application's call without an answer, counts as an end of the exchange.
`CalmChannelComesUp` is for `calm`.

**`bridge`.** `around` is `sensors` (three ticks, no parking spot, the
connection may break), `calm` (two ticks), `interrupted` (Ctrl-C or an exception in the
main thread), `broken` (a reset), `cut` (bytes are cut and joined, inside the nonce, inside a tuple and between
messages; no sensor data). Three commands, the second with a time, then the end. Chunks of one pair instead of eight and
one chunk in the window: with three ticks the sender finds lists too short, exactly long
enough and longer, and with the window full `sendall()` blocks with both locks held.
`PairsInOrder` and `CommandsNotRepeated` are checked in every mode,
`WholeProcedureFollowed` when messages arrive whole, `CallbacksReturn` and `CleanUpEnds`
in every mode, `CalmBridgeExits` in `calm`.

**`channel`.** Two messages written (of 3 or 4 cells, the latter too long for the
buffer of 5 with an IV of 2) and two sent by the other end, two failures, room for the objects of all four
messages or of one (the next then finds room for its key only, and the ones after it for nothing). `size_t`
wraps at 16. Two in each direction are what it takes to join and reorder them, to use an IV
twice, and to deliver text of the one where there is no cipher for the other.

**`commands`.** Every command of the table with every combination of an empty slot, a
password, a policy session or an HMAC session of each use in three slots (in the third only those
that make a difference there), and five shapes that hold each type, algorithm, scheme and
kind of signature once. Commands do not influence each other but through `inStep`, so
one session per slot and any order of commands is the general case.

**`tis`.** Three commands: one that fails, one that meets what it has left, and
one more. Commands and answers of a header (2) and of more than a frame (5, frame 3), and an answer
(6) that is larger than the packet. Two tries are enough for a wait to find, to miss once, and to give up.

**`wrappers`.** Room for two objects and one session, one failure in every call, two
pieces of data: a leak is seen at once in one call, and the second object is what a
caller finds no room for after one. A caller works with keys (with or without a policy)
or with hashes, which only share the TPM's room.

`CHECK_DEADLOCK FALSE` stands in the configurations of programs that end; `vector` is
checked for deadlock.

## 4. Fairness

- `TestApp`: weak fairness of the application's thread. The code never blocks
  for ever outside the read; nothing forces the car to send.
- `WolfTPM`: weak fairness of the boot's steps and of switching on and off. The
  operator of the README starts the program again until it serves; faults are bounded.
  Calls of the key store are not fair: nobody has to store a key.
- `KeyExchange`: weak fairness of the call, of TCP's delivery and of the server's
  process. Nobody has to switch on, restart or kill anything.
- `Bridge`: weak fairness of each thread and of the application; *strong* fairness of a
  callback, which competes with the sender for a lock: the sender sleeps `SEND_INTERVAL`
  without locks at every turn, so that a waiting callback gets its chance again and again.
  No fairness for the ticks, the interrupt, the break, or for finding a spot.

The fair specifications of the `MC` modules put the same fairness on the
restricted steps.

- `TpmTis`: weak fairness of the driver's thread, which polls and never blocks, and of the
  TPM once it is prompt. Nothing makes it prompt. `CallReturns` needs the first only.

`SecureChannel`, `TPM2`, `TPM2Wrap` and `ScvVector` state no fairness: what is asked of them is safety.

## 5. The proofs

All proofs are checked by `tlapm` to the last leaf, with Z3, Zenon and LS4. They
hold for every value of the constants that satisfies the named assumption of
the module: sizes, roads, batches, numbers of boots, keys and faults.

**`ScvVectorProofs`.** `TypeCorrect` (TypeOK), `AllocationsInRange`,
`ErrorsAreAtomic`. The invariant adds to TypeOK that the capacity of every vector is
below `SizeMax \div objsize` and at least the minimum allocation. Each data type
operation is shown to return either an error with the same vector or a sound vector; the
work is in the arithmetic of `scv_i_grow` (a wrapped factor is below the request, and the
request has been compared with the limit) and of the rounding of
`SCV_MIN_ALLOC`. `VectorsAreSequences` is the refinement `ImplementsSequence`: a lemma per
operation says which cells its vector has afterwards (those kept, those put in, those
moved; the cells behind `size` are whatever they are), and `SplicesStep` turns that into
the splice of `ScvSequence`. `FullVectorsGrowByHalf` is `GrowthIsGeometric`, which needs
that a vector is full exactly when its allocation is used up. Assumed of the
constants: `3 * MinAlloc <= SizeMax` and `2 * SmallBytes < SizeMax`, which hold for 64, 4096
and any `size_t` of C, and that the NULL of the model is no vector (`NullAssumption`).

**`TestAppProofs`**, the detector. `DetectorTypeCorrect`, `VehicleIsAReading`,
`StopsAreJustified`: any readings may be pushed. The invariants themselves say nothing of the vectors' content, so
they are not inductive. The strengthening: the two vectors hold the last `size` readings,
in order and in both halves (`Waiting`); the remembered vehicle is a reading not newer
than the front (`Remembered`); and a decision is accompanied by a gap (`Decision`). Hence a
front pointer that is read after the pop shows two halves of one reading, the next one or
the popped one, and a gap is always between an older and a newer reading. It uses
`MaxBatch <= VectorCapacity` (a buffer of 4096 bytes holds far fewer than 1000
pairs), so that `scv_push_back`, whose result is not looked at, never has to grow.
`DetectorInv` says this for any readings that are pushed.

The application. `PairsParsedInOrder` says that of the pairs sent the parser takes each at
most once and in order, and assembles none; `TextRestIsShort` (`TextLeavesLessThanAFrame`) that a buffer without
garbage leaves less than a frame over, whatever rest there was before it.
The invariant `FlowInv` gives every cell of `temp` its place in what was sent: `temp` is what
was left over, which has lost its bytes, followed by an unbroken stretch of the stream and by garbage
(`Stretches`), and all that was parsed lies before the stretch (`Taken`); since text before garbage
ends with the end of a message, no frame reaches from the one into the other. `ScriptFollowed`
(`CommandsFollowScript`) keeps account of the script at each place of `run()` and `park()`.
`AppVehicleIsAReading` and `AppStopsAreJustified` carry the detector's results over to the
application: `DetectorInv` holds for the pairs that the parser finds in the stream or makes up of garbage, and
`RoomInv` counts the cells they take up, three at least, so that `BatchAssumption` (a buffer does not hold as
many pairs as a vector has room for) is enough where the detector alone had a bound on the batch.

The decision. `RoadSpotsAreFound` (`WholeStreamSpotsFound`, for any road, any number of pairs and
any buffer; `StreamSpotsAreFound` is the same of `MCSpec`). `PairsInv`: where
the stream is read message by message, nothing is ever left over and the *n*-th reading received is the *n*-th one
sent. `SpotsInv` follows the documented algorithm beside the application. `Documented` is a
recursive function over the readings, so the sequence of what the algorithm knows after each of
them is first shown to exist (`DocRun`), by an induction over the set of lengths for which it does. The application
knows what the algorithm knows after the readings that no longer wait, or
after one more, since the pointers show the reading behind the front (`Agrees`). The two come together again
because a step of the algorithm that is repeated changes nothing (`DocStepFacts`): with every
vehicle shown twice the one more is a repetition, and with one pair in a read there is none.

**`WolfTPMProofs`.** `TypeCorrect`, `WholeKeysServed`, `PrintedKeysSurvive`,
`HandlesLeadToKeys`. The tail of the cEK is the last thing a set-up writes, and an index
that was never written cannot be read: so if index 2 was written at all, one whole key is
in NV memory (`NvMemory`), and a boot that reads it gets that one (`Reading`). An index
that exists is never defined again, so a set-up begun by mistake stops before it damages
anything (`Setup`). Stored keys lie between the cEK's tail and `nv_off` (`KeyStore`,
`Kept`). `FollowersGetPrintedKey` is about the operator of `TpmOperator`: `FollowInv` adds that
a boot with `CLEAR_TPM` finds no index 1 and so always ends in a set-up, and that a boot
without it was begun when a cEK had been printed; that one is still there, so it is the one
that is read, even when such a boot takes a failure for a first run.

**`KeyExchangeProofs`.** `TypeCorrect` and `NoOldKeyUsed`. `NoOldKey` looks only at a
channel that is up; the invariant must say why the key in use is this server's: once a
connection of this boot waits at or was accepted by the crypto port of a server, every key
on the way to the application, in its buffer, in its dataport and behind its handle is
this server's or none (`Agreement`); before, the application has read nothing (`Unread`).
`UndisturbedKeysDoAgree` follows the exchange of the first boot without a failure: `Stage`
gives for each place of the application where the server is and what is on the way
between them, so that the channel comes up only with the whole response of the server that accepts
it. The server may have been restarted before, any number of times.

**`SecureChannelProofs`.** `IvRepeatsOnlyWhenRefused` (`IvRepeatedOnlyWhenRefused`): the IVs used so far
follow the random numbers (`UsedInv`), the one that has been read for the message at hand is the latest
(`LatestInv`), and the repetitions, with the one that is about to come, are no more than the refusals
(`RepeatInv`). `PlainStaysInOrder`: `PlainInv` follows the cells of a
message, whatever cuts, joins and garbles them, and says that what an end has got is older than
what is in its buffer, and that older than what is on the way. What memory has given once more is marked
as such in the model, and is shown to need a full crypto library. `ToldMessagesArrive` and
`EachWayImplementsMessageChannel` are about the behaviours with `regular`: `WholeInv` says that the chunks on
the way are whole messages and that the room left in the crypto library is enough to open
them (`RoomInv`), so what is delivered is whole, and each direction maps to `MessageChannel` step
by step. None of it assumes anything of the constants but their being sizes.

**`TpmTisProofs`.** `TisImplementsLink`: the driver implements `TpmLink`, under
`TisAssumption`. A step of the link is many steps of the driver, and `TisInv` says what
holds in between. What has been executed has been asked (`ExecutedInv`); a command that is
being executed, an old one perhaps, is none of those executed so far (`ExecutingInv`); while
the driver sends, the FIFO is the part of the command at hand that has been written
(`SendingInv`); while it reads, what has been read and what is left in the FIFO are the two
parts of the answer to that command (`ReadingInv`). The lemmas of the first half say how
parts of a command are cut and joined. `PromptTpmAlwaysHeard` (`PromptTpmIsHeard`) needs more: after
the TPM has become prompt, each wait of a later command finds at its first look what it waits
for (`FreshInv`), whatever the calls before have left in the FIFO.

**`BridgeProofs`.** `PairsStayInOrder` (`PairsInOrder`): a reading passes from its list to the
sender's chunk and to the packed pairs, and while the list is replaced by its rest it is in two
places. `SensorInv` says that from every place the next reading is the next of its sensor. The
two lists agree because only the sender, with both locks (`LockInv`), shortens them. `CommandsStayInOrder`
(`CommandsNotRepeated`): `OrderInv` orders the cells on the wire, in the leftover, the queue and the
vehicle's log, for every way in which bytes are cut, joined, lost with the connection or decrypted to garbage.
`ProcedureIsFollowed` (`WholeProcedureFollowed`) is about the instances of `MCBridge` that cut no message. What the
vehicle is told with the first *n* commands, `Told[n]`, is a concatenation over the script; that there is
such a list is shown by induction, over the set of the numbers for which there is none. `WholeInv` says that for some number of
commands the vehicle has been told exactly those, and that the queue and then the wire go on with the next.

**`TPM2Proofs`.** `CommandsDoArriveWhole`, `FirstParameterFound`, `AnswersAreReadInPlace`,
`SessionsStayInStep`: the four properties of the run `commands`, for any number of slots,
sessions and shapes. A command is written in two passes, the room for the sessions by one
function and the sessions by another that computes their places from `inHandleCnt`. None of
the properties is inductive, for each is about one place of the program; `IInv` says at all of
them what each cell of the packet is: `CommandInv` of a command before it is sent, `AnswerInv` of what the TPM
answers, `NonceInv` of the sessions behind the answer, of which the first `i` have been taken over.
The count of the sessions is a cardinality and needs no more than to be within the slots.
What the hundred functions append, parse and count enters through `TableAssumption` of
`TPM2Table`: that the counts are right (but for the two `Miscounted`), that the first parameter is
a buffer where a flag says so, and that what is parsed is a prefix of what the TPM writes. This is a
formula without constants or variables; the layouts are sequences that are flattened recursively, so
the provers cannot compute it, and TLC does, for each function and shape, at the start of the run
`wrappers`. It is the one fact about the code that the proofs take from TLC.

The wrappers. `SessionNonceKept` (`NonceKept`) and `HandlesAreAccountedFor` (`HandlesAccountedFor`), under
`WrapAssumption`, for any number of objects and sessions of the TPM, any number of failures in a call and any
number of pieces of data. A call is one step in which `Done` runs a script recursively, up to as many steps as
there are objects to unload. `Takes` says where one step leads from a set of worlds, whatever becomes of it, and `Leads`
that there is a set of worlds for each place in a script, each step leading from one to the next;
`DoneLeads` shows by induction that `Done` gets to the last one. Scripts are then put together as the
wrappers are (`LeadsOne`, `LeadsThen`, `LeadsAll`, `LeadsJoined`).

- For the nonce the worlds are `Sane`: what sits in slot 1 is the session of the structure, and its nonce is where
  `NonceKept` wants it (`Kept`). Most wrappers keep all of that (`Quiet`); those of a session leave it and come back.
  `WrapperInv` holds between the calls (`WrapperInvariance`) and is used for the handles as well.
- For the handles a set *S* of structures is followed through the call. `Astray` are the objects and sessions that no
  structure of *S* names and that were not lost before the call; `Owed` says that these
  are not more than the steps that have failed. A step that makes something enlarges *S*, one
  that clears a structure may only take place when the structure is not in *S* or its object has gone or
  its step has failed (`Dropped`, `Finishers`), and what a wrapper holds in its own
  structure is passed on before it ends, also when a step in between has failed (`Passing`). `Held` says of
  every handle that a structure has come by that the TPM has it. At the end some *S* is left for which the
  account is right (`Settled`).

Only model-checked, on the instances above:

- liveness (`BuffersEnd`, `ParkingEnds`, `FollowerIsServed`, `ExchangeEnds`, `CallReturns`,
  `CalmChannelComesUp`, `CallbacksReturn`, `CleanUpEnds`, `CalmBridgeExits`), which is out
  of the prover's reach;
- that the model's tables are as the proofs need them: `TableAssumption` is computed by TLC, as said above.

Every invariant, every action property and every refinement that a passing run checks is a theorem.
`FindsDocumentedSpots`, `IncompletePairsAreKept` and `StoredKeysAreNonVolatile` are refuted by their
runs (section 6).

## 6. Where the code and its documents differ

Each of these is a run that TLC ends with a counterexample; `PROJECT.json`, `findings`,
quotes the documents.

- **`detector_stale`**: `checkForParking()` reads through its front pointers after the
  pop. Of every buffer with several pairs the first is never compared and the last is
  compared twice, so other spots are found than the README's algorithm finds.
- **`app_split`**: the comment at `process_buffer()` says that an incomplete pair is kept
  until the rest arrives. Only its length is kept; the pair is lost.
- **`tpm_reboot`**: storage of keys is called non-volatile; after a boot the key store
  begins at its first cell again and the next key overwrites the first.

### Observations

Met while modelling, part of the models as the code has them, without a run of their own:

- The stream is decrypted read by read (`SecureCommunication.c:273`), so after a cut or a joined read
  `process_buffer()` parses garbage, and trusts the length that it finds there (`TestApp.c:124-134`). A negative or huge one
  passes the check of line 129 or makes the sum overflow; the byte at line 134 then lies outside `temp`, and `malloc` and
  `memcpy` get such a length. A garbage frame may push two tuples that `sscanf` has not filled (line 142), and its rest may be
  longer than `leftover[1024]`, from which line 239 then copies. `NegativeLength`, `MakeUpPair` and the fault in `Receive`.
- After a refused random number (`wolfTPM2_GetRandom`, `trentos.c:226`) `entropy_rpc_read()` reports the full
  length, and the next message is encrypted with the IV of the one before: under AES-GCM, with the same key stream.
  `IvRepeatedOnlyWhenRefused` says that it needs a refusal each time, and no more.
- No key and no cipher of the crypto library is freed. When there is room for a key and not for a cipher,
  `encrypt_AES_GCM()` and `decrypt_AES_GCM()` look at no result (`sc_helpers.c:47-62`, `:94-111`): the caller is given the local
  `plaintext` (`SecureCommunication.c:239`) with `OS_SUCCESS`, though nothing was written to it, or the local payload
  is sent; either may hold text of an earlier message, which then comes a second time. `PlainInOrder` says when.
- The server takes the public keys with a `recv()` that has no timeout (`secureClient.py:20`). When the application's machine goes down
  before it has sent them, the server waits for that boot for ever; the next boot's connection waits in the backlog, its keys are sent,
  and `exchange_keys()` reads for ever, with nothing reported on either side, until the server is started
  again. It is the exception in `ExchangeEnds`; without it TLC shows this trace.
- `exchange_keys()` reports success and stores 32 bytes although the server has refused or
  closed the connection (`SecureCommunication.c:578`).
- Two commands that arrive together are decrypted as one message by the client
  (`secureClient.py:69`); the second becomes garbage, and when it was the end of the simulation the
  bridge goes on for ever. Hence `around` in `MCBridge`.
- `run()` returns without the shutdown of the TPM at `TestApp.c:181` and `:195`.
- A text whose stack write fails or is cut below the nonce has `*pLen` wrapped around or computed from
  what the stack holds (`SecureCommunication.c:222`); the caller is not told that it was sent.
- `TPM2_GetSessionAuditDigest` (`tpm2.c:2648`) appends three handles and counts two;
  `TPM2_CreateLoaded` (`:1083`) reads a handle and does not count it. With sessions neither
  arrives or is read as it should be (`Miscounted` in `TPM2`). No wrapper calls the first;
  `wolfTPM2_CreateLoadedKey()` calls the second.
- `TPM2_PCR_SetAuthPolicy` (`:3134`) has no flag of an authorization, so it always ends in
  `TPM_RC_AUTH_MISSING`; the functions of kind `Open` count no session, so they never carry one.
- `TPM2_EC_Ephemeral` appends the curve as 32 bits; `Certify`, `Quote`, `GetTime` and others
  append a hash even for the scheme NULL, `Duplicate` key bits and a mode even for no algorithm.
- `wolfTPM2_StartSession()` with an auth value leaves the session it has started without a handle when the key
  cannot be derived; `wolfTPM2_ChangeAuthKey()` and `wolfTPM2_NVStoreKey()` report success
  when the old key was not unloaded; `wolfTPM2_HashFinish()` and `wolfTPM2_HmacFinish()` forget
  handles before they know. `HandlesAccountedFor` says how much room one call can lose in this way.
- `wolfTPM2_SetAuthSession()` puts the structure's nonce into the slot, also when the session is
  there already with a newer one; `wolfTPM2_UnsetAuth()` drops it. The caller of `TPM2Wrap` does neither.
- `wolfTPM2_Shutdown()` forgets that the shutdown failed when it starts the TPM again;
  `wolfTPM2_ECDHEGenZ()` reads the handle it has just cleared; `wolfTPM2_SetupPCRSel` keeps only the last
  PCR of each byte; `TPM2_GetNonce()` goes on for ever with a TPM that answers no bytes.

## 7. Abstractions

- Positions have one dimension; GNSS positions are numbered by reading. Text and numbers
  of a pair are one cell: `sprintf`, `strtof` and their formats are left out.
- `TestApp` has the nonces off the stream: a piece is text when it begins with a message, and garbage has as
  many cells as it likes. Garbage that happens to be a frame has a position of `MadeUp`, and number 0. That the crypto library
  is full is left to `SecureChannel`. A read that fails sets the length to 0 and so only repeats the loop.
- In `SecureChannel` an array that is used without having been written holds either what the earlier calls of its
  function have left there, as far as newer ones have not written over it, or nothing of any message. The crypto
  library has room for whole messages at first.
- The results of writes of commands are ignored by the code and by the models.
- In `KeyExchange` two public keys that arrive in two segments, although they fit
  into one, count as a failure of the network. RSA and its errors are one bit of the response.
- In `Bridge` a `recv(1024)` is larger than all commands together, bytes are taken four at
  a time, and a nonce is fresh (it equals no other). The vehicle is a log of commands.
- In `WolfTPM` a cEK is its number, its chunks in index 1 are equal parts, and cells stand
  for bytes. Writes of one chunk are atomic, as one TPM command is.
- In `SecureChannel` `sendto` and `recvfrom` are `write` and `read` with an address. GCM's tag
  is neither sent nor checked by the code, so decryption never fails by itself. The key has been agreed
  upon, and the other end's IVs are new ones.
- `CleanUpEnds` of `Bridge` is claimed where the application does not go on reading: a receiver that sits in `recv()`
  on an open connection to an application that sends nothing is joined for as long as that lasts.
- In `TPM2` the TPM answers a command with the fields that the function itself lists: a field read with another width than the
  TPM has it (the `TPM_RC` of `TPM2_GetTestResult`, read as 16 bits at `tpm2.c:814`) is not seen.
- In `TpmTis` the SPI callback waits for a whole transfer and never fails (`tpm_io_trentos.c`);
  status bits are those of the TPM's state, or none yet.
- In `TPM2` and `TPM2Wrap` the library is built without wolfCrypt, as here: an HMAC, a KDF or the encryption
  of a parameter is a step that fails. The buffers are large enough for what is put into them. A
  wrapper's call is one step: one thread uses the TPM, and nothing else does. The caller keeps to what
  the header of `TPM2Wrap` says. Commands that sessions treat alike are one step there.

## 8. What is not modelled

- **Parameter encryption and crypto callbacks** (`tpm2_param_enc.c`, `tpm2_cryptocb.c`) need
  wolfCrypt, which is not part of this build.
- **`bcm2837_spi.c`, GPIO, mailbox**: register access; `bcm2837_spi_transfernb()` fills and
  empties a FIFO without a bound on its time.
- **The vendors' own commands** of wolfTPM for other chips, its tables of names, the emulators' transports;
  the wrappers that fill in templates, and certificate requests.
- **Headers**: types and constants.
- **`importEK.py`, `arg_parser.py`**: a file written once (the variable `imported` of
  `KeyExchange`), and options.
- **Tests, pictures, slides**; and what is not in the repository: the network stack, the NIC
  driver, the time server, OS_Crypto, CARLA.

## 9. The plan

Done, in this order: the vector library and its abstract specification; the detection;
the receiving loop and procedure; the TPM's key store; the key exchange; the bridge; the encrypted
channel; the three layers of wolfTPM; proofs of all that is not liveness, those of the wrappers last.

Left:

1. A composition of `TestApp`, `SecureChannel` and the sender of `Bridge`: which pairs
   that a callback stored reach `checkForParking()`; and of `WolfTPM` over `TpmLink`, whose
   failures are the ones `WolfTPM` assumes of a command.
2. `TPM2Wrap` with wolfCrypt: salted and bound sessions, and the encryption of parameters.
