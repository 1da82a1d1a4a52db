-------------------------------- MODULE TpmTis --------------------------------
(***************************************************************************)
(* The driver of the TPM's register interface (tpm2_tis.c) and the start   *)
(* of the chip (TPM2_ChipStartup): one thread that reads and writes the    *)
(* registers over SPI, and polls them a limited number of times.  A read   *)
(* or a write of a register is one step, since the SPI callback waits for  *)
(* the whole transfer and never fails (tpm_io_trentos.c).                  *)
(*                                                                         *)
(* The TPM is external: it is idle, ready for a command, receiving one,    *)
(* executing it, or complete with an answer, which stays in its FIFO until *)
(* the register commandReady is written.  It may be slow: a status or      *)
(* burst count read says that there is nothing yet.  A prompt one has done *)
(* what it can whenever it is looked at, and its answers fit the packet.   *)
(*                                                                         *)
(* Data: command n is the n-th, and a cell of a command or of an answer is *)
(* << n, its place, the length >>.                                         *)
(***************************************************************************)
EXTENDS Integers, SequencesExt

CONSTANTS CommandSizes,  \* lengths of commands
          AnswerSizes,   \* lengths of answers
          Header,        \* TPM2_HEADER_SIZE
          Frame,         \* MAX_SPI_FRAMESIZE
          PacketSize,    \* packet->size
          Tries,         \* TPM_TIMEOUT_TRIES
          MaxCommands

ASSUME TisAssumption ==
    /\ Header \in Nat \ {0} /\ Frame \in Nat \ {0} /\ Tries \in Nat \ {0}
    /\ PacketSize \in Nat /\ Header <= PacketSize /\ MaxCommands \in Nat
    /\ CommandSizes \subseteq Header..PacketSize /\ AnswerSizes \subseteq Nat
    /\ \A n \in AnswerSizes : n >= Header
    /\ \E n \in AnswerSizes : n <= PacketSize

VARIABLES pc,
          sizes,     \* packet->pos of each command so far
          pos, rspSz, burst,
          polls,     \* what is left of the timeout of the wait at hand
          answer,    \* what has been read into packet->buf
          tpm,       \* the state of the TPM
          fifo,      \* the command it has received, or what is left of its answer
          requested, \* use of locality 0 has been requested
          prompt,    \* the TPM is prompt from now on
          late,      \* history: the commands sent before it was
          executed, results  \* history, see TpmLink

driver == << pc, sizes, pos, rspSz, burst, polls, answer >>
device == << tpm, fifo, requested, executed >>
vars   == << driver, device, prompt, late, results >>

Command(n) == [k \in 1..sizes[n] |-> << n, k, sizes[n] >>]
AnswerOf(n, len) == [k \in 1..len |-> << n, k, len >>]

Lesser(a, b) == IF a < b THEN a ELSE b

Init ==
    /\ pc = "startup" /\ sizes = << >> /\ pos = 0 /\ rspSz = 0 /\ burst = 0
    /\ polls = Tries /\ answer = << >>
    /\ tpm \in {"absent", "inactive", "idle"} /\ fifo = << >> /\ requested = FALSE
    /\ prompt = FALSE /\ late = 0 /\ executed = << >> /\ results = << >>

-----------------------------------------------------------------------------
(* The TPM (external).                                                     *)

\* It comes up, and it grants the use of its locality.
TpmStarts ==
    \/ tpm = "absent" /\ tpm' = "inactive"
    \/ tpm = "inactive" /\ requested /\ tpm' = "idle"

TpmExecutes ==
    /\ tpm = "execution" /\ tpm' = "completion"
    /\ executed' = Append(executed, fifo[1][1])
    /\ \E len \in AnswerSizes :
          /\ prompt => len <= PacketSize
          /\ fifo' = AnswerOf(fifo[1][1], len)

\* A command has been given up.
TpmAborts ==
    /\ tpm = "aborting" /\ tpm' = "ready"

TpmStep ==
    /\ \/ TpmStarts /\ UNCHANGED << fifo, executed >>
       \/ TpmExecutes
       \/ TpmAborts /\ UNCHANGED << fifo, executed >>
    /\ UNCHANGED << driver, requested, prompt, late, results >>

BecomesPrompt ==
    /\ ~prompt /\ prompt' = TRUE /\ late' = Len(sizes)
    /\ UNCHANGED << driver, device, results >>

Settled == prompt => tpm \notin {"absent", "execution", "aborting"}
                       /\ ~(tpm = "inactive" /\ requested)

\* The bits of TPM_STS that the driver looks at.
Bits ==
    CASE tpm = "ready" -> {"valid", "commandReady"}
      [] tpm = "reception" -> {"valid"} \union
                                IF Len(fifo) < fifo[1][3] THEN {"expect"} ELSE {}
      [] tpm = "completion" /\ fifo # << >> -> {"valid", "avail"}
      [] OTHER -> {"valid"}

StatusRead == {Bits} \union IF prompt THEN {} ELSE {{}}

\* How much it says that it takes, or has, at once.
BurstRead ==
    LET room == CASE tpm = "ready" -> 1..Frame + 1
                  [] tpm = "reception" -> 1..Frame + 1
                  [] tpm = "completion" /\ fifo # << >> -> 1..Len(fifo)
                  [] OTHER -> {0}
    IN room \union IF prompt THEN {} ELSE {0}

\* Writing commandReady; a command that is being executed may be over by then.
CommandReadyWritten ==
    /\ fifo' = << >>
    /\ tpm' \in CASE tpm \in {"idle", "ready"} -> {"ready"}
                  [] tpm = "completion" -> {"ready"} \union IF prompt THEN {} ELSE {"idle"}
                  [] tpm \in {"reception", "execution", "aborting"} -> {"aborting"}
                  [] OTHER -> {tpm}
    /\ executed' \in {executed} \union
                       IF tpm = "execution" THEN {Append(executed, fifo[1][1])} ELSE {}

\* Cells written while it expects none are dropped.
Received(cells) ==
    IF tpm \in {"ready", "reception"}
    THEN fifo' = fifo \o cells /\ tpm' = "reception"
    ELSE UNCHANGED << tpm, fifo >>

-----------------------------------------------------------------------------
(* The start of the chip.                                                  *)

\* One round of a wait that ends when found, or when it has been tried too often.
Poll(found, next, failed) ==
    IF found THEN pc' = next /\ polls' = Tries
    ELSE IF polls > 1 THEN polls' = polls - 1 /\ UNCHANGED pc
    ELSE pc' = failed /\ polls' = Tries

StartupWait ==
    /\ pc = "startup" /\ Settled
    /\ Poll(tpm # "absent", "locality", "down")
    /\ UNCHANGED << sizes, pos, rspSz, burst, answer, device, prompt, late, results >>

\* TPM2_TIS_RequestLocality; the locality is this driver's already, or it is requested.
RequestLocality ==
    /\ pc = "locality"
    /\ IF tpm \notin {"absent", "inactive"}
       THEN pc' = "info" /\ UNCHANGED requested
       ELSE pc' = "grant" /\ requested' = TRUE
    /\ UNCHANGED << sizes, pos, rspSz, burst, polls, answer, tpm, fifo, executed, prompt,
                    late, results >>

CheckLocality ==
    /\ pc = "grant" /\ Settled
    /\ Poll(tpm \notin {"absent", "inactive"}, "info", "down")
    /\ UNCHANGED << sizes, pos, rspSz, burst, answer, device, prompt, late, results >>

\* TPM2_TIS_GetInfo reads three registers into the context.
GetInfo ==
    /\ pc = "info" /\ pc' = "idle"
    /\ UNCHANGED << sizes, pos, rspSz, burst, polls, answer, device, prompt, late, results >>

-----------------------------------------------------------------------------
(* TPM2_TIS_SendCommand().                                                 *)

SendCommand ==
    /\ pc = "idle" /\ Len(sizes) < MaxCommands
    /\ \E n \in CommandSizes : sizes' = Append(sizes, n)
    /\ pc' = "status"
    /\ UNCHANGED << pos, rspSz, burst, polls, answer, device, prompt, late, results >>

\* The call is over, and its locals with it.
Return(result) ==
    /\ pc' = "idle" /\ results' = Append(results, result)
    /\ pos' = 0 /\ rspSz' = 0 /\ burst' = 0 /\ polls' = Tries /\ answer' = << >>
    /\ UNCHANGED sizes

Stays == UNCHANGED << sizes, pos, rspSz, burst, answer, results >>

\* Slip: the rounds of a wait are not counted.
PollOn(found, next) == found /\ pc' = next /\ UNCHANGED polls /\ Stays

\* A poll of SendCommand: the command is given up when it fails.
PollOr(found, next) ==
    IF ~found /\ polls = 1 THEN Return(0) ELSE Poll(found, next, "idle") /\ Stays

\* Slip: the TPM is made ready for the first command only.
ReadyOnce ==
    /\ pc = "status" /\ Settled
    /\ IF Len(sizes) > 1
       THEN pc' = "writeBurst" /\ UNCHANGED << tpm, fifo, executed >>
       ELSE pc' = "waitReady" /\ CommandReadyWritten
    /\ UNCHANGED << sizes, pos, rspSz, burst, polls, answer, requested, prompt, late, results >>

\* Whatever the last command has left, the TPM is told to expect a new one.
CheckReady ==
    /\ pc = "status" /\ Settled
    /\ \E s \in StatusRead :
          IF "commandReady" \in s
          THEN pc' = "writeBurst" /\ UNCHANGED << tpm, fifo, executed >>
          ELSE pc' = "waitReady" /\ CommandReadyWritten
    /\ UNCHANGED << sizes, pos, rspSz, burst, polls, answer, requested, prompt, late, results >>

WaitForStatus(at, mask, status, next) ==
    /\ pc = at /\ Settled
    /\ \E s \in StatusRead : PollOr(s \intersect mask = status, next)
    /\ UNCHANGED << device, prompt, late >>

WaitReady == WaitForStatus("waitReady", {"commandReady"}, {"commandReady"}, "writeBurst")
WaitExpect == WaitForStatus("waitExpect", {"expect"}, {"expect"}, "writeBurst")
WaitWhole == WaitForStatus("waitWhole", {"expect", "valid"}, {"valid"}, "go")
WaitAvail == WaitForStatus("waitAvail", {"avail"}, {"avail"}, "readBurst")

\* Slip: the burst count is taken as it is.
BurstAsRead(b) == b
Capped(b) == Lesser(b, Frame)

GetBurstCount(at, next) ==
    /\ pc = at /\ Settled
    /\ \E b \in BurstRead :
          IF b = 0 /\ polls = 1 THEN Return(0)
          ELSE /\ Poll(b > 0, next, "idle") /\ burst' = Capped(b)
               /\ UNCHANGED << sizes, pos, rspSz, answer, results >>
    /\ UNCHANGED << device, prompt, late >>

WriteBurst == GetBurstCount("writeBurst", "write")
ReadBurst == GetBurstCount("readBurst", "read")

\* TPM2_TIS_Write of the next cells of the command; it refuses more than a frame.
Write ==
    LET n == Len(sizes)
        xferSz == Lesser(sizes[n] - pos, burst)
    IN /\ pc = "write"
       /\ IF xferSz > Frame
          THEN Return(0) /\ UNCHANGED << tpm, fifo >>
          ELSE /\ Received(SubSeq(Command(n), pos + 1, pos + xferSz))
               /\ pos' = pos + xferSz
               /\ pc' = IF pos' < sizes[n] THEN "waitExpect" ELSE "waitWhole"
               /\ UNCHANGED << sizes, rspSz, burst, polls, answer, results >>
       /\ UNCHANGED << requested, executed, prompt, late >>

Go ==
    /\ pc = "go" /\ pc' = "waitAvail"
    /\ pos' = 0 /\ rspSz' = Header
    /\ tpm' = IF tpm = "reception" /\ Len(fifo) = fifo[1][3] THEN "execution" ELSE tpm
    /\ UNCHANGED << sizes, burst, polls, answer, fifo, requested, executed, prompt, late,
                    results >>

\* TPM2_TIS_Read of the next cells of the answer; when its header has been read, the
\* answer's length is known.
Read ==
    LET xferSz == Lesser(rspSz - pos, burst)
        all == answer \o SubSeq(fifo, 1, xferSz)
        size == IF pos + xferSz = Header THEN all[1][3] ELSE rspSz
    IN /\ pc = "read"
       /\ fifo' = SubSeq(fifo, xferSz + 1, Len(fifo))
       /\ IF xferSz > Frame \/ (pos + xferSz = Header /\ size > PacketSize)
          THEN Return(0)
          ELSE /\ answer' = all /\ pos' = pos + xferSz /\ rspSz' = size
               /\ pc' = IF pos' < rspSz' THEN "waitAvail" ELSE "done"
               /\ UNCHANGED << sizes, burst, polls, results >>
       /\ UNCHANGED << tpm, requested, executed, prompt, late >>

\* "Tell TPM we are done".
Done ==
    LET n == answer[1][1]
    IN /\ pc = "done" /\ CommandReadyWritten
       /\ Return(IF answer = AnswerOf(n, answer[1][3]) THEN n ELSE -1)
       /\ UNCHANGED << requested, prompt, late >>

ChipStartup == StartupWait \/ RequestLocality \/ CheckLocality \/ GetInfo

DriverStep ==
    \/ ChipStartup
    \/ CheckReady \/ WaitReady \/ WriteBurst \/ Write \/ WaitExpect \/ WaitWhole
    \/ Go \/ WaitAvail \/ ReadBurst \/ Read \/ Done

Next == SendCommand \/ DriverStep \/ TpmStep \/ BecomesPrompt

\* The driver's thread runs on; of the TPM nothing is known unless it is prompt.
Spec == Init /\ [][Next]_vars /\ WF_vars(DriverStep) /\ WF_vars(prompt /\ TpmStep)

-----------------------------------------------------------------------------
(* Properties.                                                             *)

Link == INSTANCE TpmLink WITH asked <- Len(sizes)

\* A call of TPM2_TIS_SendCommand returns the whole answer to its own command or fails:
\* although a failed call leaves behind an answer that nobody has read, a command half
\* written or one that is still being executed, none of it gets into a later call.
ImplementsLink == Link!Spec

\* What failed calls have left in the TPM does not make a later one fail: every command
\* that is sent after the TPM has become prompt gets its answer.
PromptTpmIsHeard ==
    prompt => \A n \in late + 1..Len(results) : results[n] = n

\* Every call returns, whatever the TPM does or does not do.
CallReturns == pc \notin {"idle", "down"} ~> pc \in {"idle", "down"}
=============================================================================
