------------------------------ MODULE TpmTisProofs ------------------------------
(***************************************************************************)
(* Proofs about TpmTis, for every length of commands, answers, frames and  *)
(* packets and every limit on the polls: the driver implements TpmLink,    *)
(* and a command that is asked of a prompt TPM is answered.                *)
(*                                                                         *)
(* A step of the link is a command that is asked, executed, answered or    *)
(* given up; the driver takes many steps for each.  TisInv says what ties  *)
(* them together: while the driver sends, the FIFO is what it has written  *)
(* of the command at hand; while it reads, what it has read and what is    *)
(* left in the FIFO are the two parts of the answer to that command; and   *)
(* an old command that is still being executed has not been executed yet.  *)
(*                                                                         *)
(* HeardInv, on top of it, is about the command at hand when the TPM is    *)
(* prompt: at every place where the driver waits, the first look finds     *)
(* what it waits for, so no poll runs out and no call fails.               *)
(*                                                                         *)
(* The first part is about stretches: the cells of a command or of an      *)
(* answer from one place to another.                                       *)
(***************************************************************************)
EXTENDS TpmTis, SequenceTheorems, TLAPS

\* The cells of command n, or of its answer.
CellsOf(n, len) == {<< n, k, len >> : k \in Nat}
Stretch(n, len, from, to) == [k \in 1 .. to - from |-> << n, from + k, len >>]

\* A stretch is a sequence, and its length and cells.
LEMMA StretchIsSeq ==
    ASSUME NEW n, NEW len, NEW from \in Nat, NEW to \in Nat, from <= to
    PROVE  /\ Stretch(n, len, from, to) \in Seq(CellsOf(n, len))
           /\ Len(Stretch(n, len, from, to)) = to - from
           /\ \A k \in 1 .. to - from : Stretch(n, len, from, to)[k] = << n, from + k, len >>
<1> DEFINE f == [k \in 1 .. to - from |-> << n, from + k, len >>]
<1>1. to - from \in Nat
  OBVIOUS
<1>2. \A k \in 1 .. to - from : << n, from + k, len >> \in CellsOf(n, len)
  BY DEF CellsOf
<1>3. f \in [1 .. to - from -> CellsOf(n, len)]
  BY <1>2
<1> HIDE DEF f
<1>4. f \in Seq(CellsOf(n, len)) /\ Len(f) = to - from
  BY <1>1, <1>3
<1>5. f = Stretch(n, len, from, to) /\ \A k \in 1 .. to - from : f[k] = << n, from + k, len >>
  BY DEF f, Stretch
<1> QED BY <1>4, <1>5

\* The first cell of a command says which one it is.
LEMMA FirstCell ==
    ASSUME NEW n, NEW len, NEW to \in Nat, to > 0
    PROVE  Stretch(n, len, 0, to)[1] = << n, 1, len >> /\ Len(Stretch(n, len, 0, to)) = to
<1>1. Stretch(n, len, 0, to)[1] = << n, 1, len >>
  <2> DEFINE z == 0
             k == 1
  <2>1. z \in Nat /\ k \in 1 .. to - z /\ z + k = k
    OBVIOUS
  <2> HIDE DEF z, k
  <2>2. Stretch(n, len, z, to)[k] = << n, z + k, len >>
    BY <2>1 DEF Stretch
  <2>3. Stretch(n, len, z, to)[k] = << n, k, len >>
    BY <2>1, <2>2
  <2> QED BY ONLY <2>3, Zenon DEF z, k
<1>2. Len(Stretch(n, len, 0, to)) = to
  <2>1. \A from \in Nat : from <= to => Len(Stretch(n, len, from, to)) = to - from
    BY StretchIsSeq
  <2>2. 0 \in Nat /\ 0 <= to /\ to - 0 = to
    OBVIOUS
  <2> QED BY ONLY <2>1, <2>2
<1> QED BY ONLY <1>1, <1>2, Zenon

\* From a place to the same place there is nothing.
LEMMA StretchEmpty ==
    ASSUME NEW n, NEW len, NEW from \in Nat
    PROVE  Stretch(n, len, from, from) = << >>
  BY DEF Stretch

\* A sequence is a stretch if it has its length and its cells.
LEMMA IsStretch ==
    ASSUME NEW n, NEW len, NEW from \in Nat, NEW to \in Nat, from <= to,
           NEW S, NEW s \in Seq(S), Len(s) = to - from,
           \A k \in 1 .. to - from : s[k] = << n, from + k, len >>
    PROVE  s = Stretch(n, len, from, to)
<1>1. s = [k \in 1 .. Len(s) |-> s[k]]
  OBVIOUS
<1> QED BY <1>1 DEF Stretch

\* SubSeq under a name of its own, which the provers do not look into.
Cut(s, p, q) == SubSeq(s, p, q)

\* A part of a stretch is a stretch.
LEMMA StretchPart ==
    ASSUME NEW n, NEW len, NEW from \in Nat, NEW to \in Nat,
           NEW a \in Nat, NEW b \in Nat, a <= b, from + b <= to
    PROVE  Cut(Stretch(n, len, from, to), a + 1, b) = Stretch(n, len, from + a, from + b)
<1> DEFINE s == Stretch(n, len, from, to)
           S == CellsOf(n, len)
<1>0. from \in Nat /\ to \in Nat /\ from <= to
  OBVIOUS
<1>1. /\ s \in Seq(S) /\ Len(s) = to - from
      /\ \A k \in 1 .. to - from : s[k] = << n, from + k, len >>
  BY ONLY <1>0, StretchIsSeq, ZenonT(60)
<1> HIDE DEF s, S
<1>2. \A i \in a + 1 .. b : s[i] \in S
  BY <1>1
<1>3. /\ SubSeq(s, a + 1, b) \in Seq(S)
      /\ Len(SubSeq(s, a + 1, b)) = b - a
      /\ \A i \in 1 .. b - a : SubSeq(s, a + 1, b)[i] = s[a + i]
  <2>1. a + 1 \in Int /\ b \in Int
    OBVIOUS
  <2>2. /\ SubSeq(s, a + 1, b) \in Seq(S)
        /\ Len(SubSeq(s, a + 1, b)) = IF a + 1 <= b THEN b - (a + 1) + 1 ELSE 0
        /\ \A i \in 1 .. b - (a + 1) + 1 : SubSeq(s, a + 1, b)[i] = s[(a + 1) + i - 1]
    BY <1>2, <2>1, SubSeqProperties
  <2>3. b - (a + 1) + 1 = b - a /\ \A i \in Int : (a + 1) + i - 1 = a + i
    OBVIOUS
  <2> QED BY <2>2, <2>3
<1>4. \A i \in 1 .. b - a : SubSeq(s, a + 1, b)[i] = << n, (from + a) + i, len >>
  <2> TAKE i \in 1 .. b - a
  <2>1. a + i \in 1 .. to - from /\ from + (a + i) = (from + a) + i
    OBVIOUS
  <2> QED BY <1>1, <1>3, <2>1
<1>5. /\ from + a \in Nat /\ from + b \in Nat /\ from + a <= from + b
      /\ (from + b) - (from + a) = b - a
  OBVIOUS
<1>6. SubSeq(s, a + 1, b) = Stretch(n, len, from + a, from + b)
  <2> DEFINE q == SubSeq(s, a + 1, b)
             c == from + a
             d == from + b
  <2>1. /\ c \in Nat /\ d \in Nat /\ c <= d /\ q \in Seq(S) /\ Len(q) = d - c
        /\ \A k \in 1 .. d - c : q[k] = << n, c + k, len >>
    BY <1>3, <1>4, <1>5
  <2> HIDE DEF q, c, d
  <2>2. q = Stretch(n, len, c, d)
    BY <2>1, IsStretch
  <2> QED BY <2>2 DEF q, c, d
<1> QED BY <1>6 DEF s, Cut

\* The same with names for all of its bounds.
LEMMA StretchCut ==
    ASSUME NEW n, NEW len, NEW from \in Nat, NEW to \in Nat, NEW p \in Nat, NEW q \in Nat,
           NEW c \in Nat, NEW d \in Nat,
           p > 0, c = from + (p - 1), d = from + q, c <= d, d <= to
    PROVE  Cut(Stretch(n, len, from, to), p, q) = Stretch(n, len, c, d)
<1> DEFINE a == p - 1
<1>1. a \in Nat /\ a <= q /\ from + q <= to /\ a + 1 = p /\ from + a = c /\ from + q = d
  OBVIOUS
<1> HIDE DEF a
<1>2. Cut(Stretch(n, len, from, to), a + 1, q) = Stretch(n, len, from + a, from + q)
  <2>1. from \in Nat /\ to \in Nat /\ a \in Nat /\ q \in Nat /\ a <= q /\ from + q <= to
    BY <1>1
  <2> QED BY ONLY <2>1, StretchPart, SMTT(30)
<1> QED BY <1>1, <1>2

\* Two stretches that meet are one: how a command is sent and an answer is read in parts.
LEMMA StretchJoin ==
    ASSUME NEW n, NEW len, NEW a \in Nat, NEW b \in Nat, NEW c \in Nat, a <= b, b <= c
    PROVE  Stretch(n, len, a, b) \o Stretch(n, len, b, c) = Stretch(n, len, a, c)
<1> DEFINE s == Stretch(n, len, a, b)
           t == Stretch(n, len, b, c)
           S == CellsOf(n, len)
<1>1. /\ s \in Seq(S) /\ Len(s) = b - a /\ \A k \in 1 .. b - a : s[k] = << n, a + k, len >>
      /\ t \in Seq(S) /\ Len(t) = c - b /\ \A k \in 1 .. c - b : t[k] = << n, b + k, len >>
  <2>1. s \in Seq(S) /\ Len(s) = b - a /\ \A k \in 1 .. b - a : s[k] = << n, a + k, len >>
    BY ONLY a \in Nat, b \in Nat, a <= b, StretchIsSeq, ZenonT(60)
  <2>2. t \in Seq(S) /\ Len(t) = c - b /\ \A k \in 1 .. c - b : t[k] = << n, b + k, len >>
    BY ONLY b \in Nat, c \in Nat, b <= c, StretchIsSeq, ZenonT(60)
  <2> QED BY <2>1, <2>2
<1> HIDE DEF s, t, S
<1>2. /\ s \o t \in Seq(S) /\ Len(s \o t) = c - a
      /\ \A i \in 1 .. c - a : (s \o t)[i] = IF i <= b - a THEN s[i] ELSE t[i - (b - a)]
  <2>1. (b - a) + (c - b) = c - a
    OBVIOUS
  <2>2. /\ s \o t \in Seq(S) /\ Len(s \o t) = Len(s) + Len(t)
        /\ \A i \in 1 .. Len(s) + Len(t) :
             (s \o t)[i] = IF i <= Len(s) THEN s[i] ELSE t[i - Len(s)]
    BY <1>1, ConcatProperties
  <2>3. Len(s) + Len(t) = c - a
    BY <1>1, <2>1
  <2> QED BY <1>1, <2>2, <2>3
<1>3. \A i \in 1 .. c - a : (s \o t)[i] = << n, a + i, len >>
  <2> TAKE i \in 1 .. c - a
  <2>1. CASE i <= b - a
    BY <1>1, <1>2, <2>1
  <2>2. CASE ~ (i <= b - a)
    <3>1. i - (b - a) \in 1 .. c - b /\ b + (i - (b - a)) = a + i
      BY <2>2
    <3> QED BY <1>1, <1>2, <2>2, <3>1
  <2> QED BY <2>1, <2>2
<1>4. s \o t = Stretch(n, len, a, c)
  <2> DEFINE q == s \o t
  <2>1. q \in Seq(S) /\ Len(q) = c - a
    BY ONLY <1>2
  <2>2. \A k \in 1 .. c - a : q[k] = << n, a + k, len >>
    BY ONLY <1>3
  <2> HIDE DEF q
  <2>3. a <= c
    OBVIOUS
  <2>4. q = Stretch(n, len, a, c)
    BY ONLY <2>1, <2>2, <2>3, a \in Nat, c \in Nat, IsStretch
  <2> QED BY <2>4 DEF q
<1> QED BY <1>4 DEF s, t

-----------------------------------------------------------------------------
\* The command at hand is the last one asked.
Asked == Len(sizes)

\* Where the driver is: no command at hand, and the three parts of TPM2_TIS_SendCommand.
Before == {"startup", "locality", "grant", "info", "down", "idle"}
Asking == {"status", "waitReady"}
Sending == {"writeBurst", "write", "waitExpect", "waitWhole", "go"}
Reading == {"waitAvail", "readBurst", "read", "done"}

TypeInv ==
    /\ pc \in Before \union Asking \union Sending \union Reading
    /\ sizes \in Seq(CommandSizes) /\ polls \in 1..Tries
    /\ pos \in Nat /\ burst \in Nat
    /\ tpm \in {"absent", "inactive", "idle", "ready", "reception", "execution",
                "completion", "aborting"}
    /\ executed \in Seq(Nat) /\ results \in Seq(Nat)

\* A call returns once.
CountInv == IF pc \in Before THEN Asked = Len(results) ELSE Asked = Len(results) + 1

\* What is executed has been asked, and the command at hand is not executed before it has
\* been sent.
ExecutedInv ==
    \A i \in DOMAIN executed :
       /\ executed[i] \in 1..Asked
       /\ pc \in Asking \union Sending => executed[i] < Asked

\* A command that is being executed, an old one perhaps, is none of those executed so far.
ExecutingInv ==
    tpm = "execution" =>
       /\ fifo[1][1] \in 1..Asked
       /\ pc \in Asking => fifo[1][1] < Asked
       /\ \A i \in DOMAIN executed : executed[i] < fifo[1][1]

\* A ready TPM has thrown away what it had, and so has a driver that begins.
EmptyInv ==
    /\ tpm \in {"ready", "aborting"} => fifo = << >>
    /\ pc \notin Sending \union Reading => pos = 0
    /\ pc \notin Reading => answer = << >>

\* What the TPM has received is what has been sent of the command at hand.
SendingInv ==
    pc \in Sending =>
       /\ tpm \in {"ready", "reception"} /\ (tpm = "ready" => pos = 0)
       /\ pos <= sizes[Asked] /\ fifo = Stretch(Asked, sizes[Asked], 0, pos)
       /\ pc \in {"waitWhole", "go"} => pos = sizes[Asked]
       /\ pc = "write" => burst > 0

\* The TPM executes the command at hand, or its answer is in two parts: what has been read
\* and what is in the FIFO.
AnswerInv(len) ==
    /\ Header <= len /\ pos <= len
    /\ answer = Stretch(Asked, len, 0, pos) /\ fifo = Stretch(Asked, len, pos, len)
    /\ rspSz = IF pos < Header THEN Header ELSE len
    /\ pc = "read" => burst > 0 /\ burst <= len - pos
    /\ IF pc = "done" THEN pos = len ELSE pos < rspSz

ReadingInv ==
    pc \in Reading =>
       \/ /\ tpm = "execution" /\ pc = "waitAvail" /\ fifo[1][1] = Asked
          /\ pos = 0 /\ rspSz = Header /\ answer = << >>
       \/ /\ tpm = "completion" /\ \E i \in DOMAIN executed : executed[i] = Asked
          /\ \E len \in Nat : AnswerInv(len)

TisInv ==
    /\ TypeInv /\ CountInv /\ ExecutedInv /\ ExecutingInv
    /\ EmptyInv /\ SendingInv /\ ReadingInv

\* A step of the link, or none.
Simulates == Link!Next \/ UNCHANGED << Len(sizes), executed, results >>

-----------------------------------------------------------------------------
\* The command at hand, as a stretch.
LEMMA SizeFacts ==
    ASSUME TypeInv, Asked > 0
    PROVE  /\ Asked \in Nat /\ sizes[Asked] \in Nat /\ sizes[Asked] > 0
           /\ Command(Asked) = Stretch(Asked, sizes[Asked], 0, sizes[Asked])
<1>1. Asked \in 1 .. Len(sizes) /\ Asked \in Nat
  BY DEF TypeInv, Asked
<1>2. sizes[Asked] \in CommandSizes
  BY <1>1 DEF TypeInv, Asked
<1>3. sizes[Asked] \in Nat /\ sizes[Asked] > 0
  <2>1. sizes[Asked] \in Header..PacketSize /\ Header \in Nat \ {0} /\ PacketSize \in Nat
    BY <1>2, TisAssumption
  <2> QED BY <2>1
<1> QED BY <1>1, <1>3 DEF Command, Stretch

\* A poll finds what it waits for, or not, or it was the last one.
LEMMA PollOrCases ==
    ASSUME TypeInv, NEW found \in BOOLEAN, NEW next, PollOr(found, next)
    PROVE  \/ Return(0)
           \/ found /\ pc' = next /\ polls' \in 1 .. Tries /\ Stays
           \/ ~ found /\ pc' = pc /\ polls' \in 1 .. Tries /\ Stays
  BY TisAssumption DEF PollOr, Poll, TypeInv

\* A call that fails leaves the TPM as it is.
LEMMA CallFails ==
    ASSUME TisInv, pc \notin Before, Return(0),
           UNCHANGED << tpm, executed >>, fifo' = fifo \/ tpm = "completion"
    PROVE  TisInv' /\ Simulates
<1>1. polls' \in 1 .. Tries /\ results' \in Seq(Nat) /\ Len(results') = Len(results) + 1
  BY TisAssumption DEF Return, TisInv, TypeInv
<1>2. TypeInv'
  BY <1>1 DEF Return, TisInv, TypeInv, Before
<1>3. CountInv'
  BY <1>1 DEF Return, TisInv, CountInv, Before, Asked
<1>4. ExecutedInv' /\ ExecutingInv'
  BY DEF Return, TisInv, ExecutedInv, ExecutingInv, Asking, Sending, Asked
<1>5. EmptyInv' /\ SendingInv' /\ ReadingInv'
  BY DEF Return, TisInv, EmptyInv, SendingInv, ReadingInv, Sending, Reading
<1>6. Link!Fail
  BY DEF Link!Fail, Return, TisInv, CountInv, Asked
<1> QED BY <1>2, <1>3, <1>4, <1>5, <1>6 DEF TisInv, Simulates, Link!Next

\* The start of the chip touches none of it.
LEMMA StartupKeeps ==
    ASSUME TisInv, ChipStartup
    PROVE  TisInv' /\ Simulates
<1>1. /\ pc \in Before /\ pc' \in Before /\ polls' \in 1 .. Tries
      /\ UNCHANGED << sizes, pos, burst, answer, tpm, fifo, executed, results >>
  BY TisAssumption
     DEF ChipStartup, StartupWait, RequestLocality, CheckLocality, GetInfo, Poll, device,
         Before, TisInv, TypeInv
<1>2. TypeInv' /\ CountInv' /\ ExecutedInv' /\ ExecutingInv'
  BY <1>1 DEF TisInv, TypeInv, CountInv, ExecutedInv, ExecutingInv, Asked, Before, Asking,
              Sending
<1>3. EmptyInv' /\ SendingInv' /\ ReadingInv'
  BY <1>1 DEF TisInv, EmptyInv, SendingInv, ReadingInv, Before, Sending, Reading
<1> QED BY <1>1, <1>2, <1>3 DEF TisInv, Simulates

\* A call begins with the next command.
LEMMA SendCommandKeeps ==
    ASSUME TisInv, SendCommand
    PROVE  TisInv' /\ Simulates
<1>1. /\ pc = "idle" /\ pc' = "status"
      /\ UNCHANGED << pos, burst, polls, answer, tpm, fifo, executed, results >>
  BY DEF SendCommand, device
<1>2. sizes' \in Seq(CommandSizes) /\ Asked' = Asked + 1 /\ Asked \in Nat
  BY DEF SendCommand, TisInv, TypeInv, Asked
<1>3. TypeInv' /\ CountInv'
  BY <1>1, <1>2 DEF TisInv, TypeInv, CountInv, Before, Asking
<1>4. ExecutedInv'
  BY <1>1, <1>2 DEF TisInv, ExecutedInv
<1>5. ExecutingInv'
  BY <1>1, <1>2 DEF TisInv, ExecutingInv
<1>6. EmptyInv' /\ SendingInv' /\ ReadingInv'
  BY <1>1 DEF TisInv, EmptyInv, SendingInv, ReadingInv, Sending, Reading
<1>7. Link!Ask
  BY <1>1, <1>2 DEF Link!Ask, TisInv, CountInv, Before, Asked
<1> QED BY <1>3, <1>4, <1>5, <1>6, <1>7 DEF TisInv, Simulates, Link!Next

\* A command that is given up may just have been executed.
LEMMA CommandReadyCases ==
    ASSUME TisInv, CommandReadyWritten
    PROVE  /\ fifo' = << >> /\ tpm' # "execution" /\ tpm' # "reception"
           /\ tpm' \in {"absent", "inactive", "idle", "ready", "completion", "aborting"}
           /\ \/ UNCHANGED executed
              \/ tpm = "execution" /\ executed' = Append(executed, fifo[1][1])
  BY DEF CommandReadyWritten, TisInv, TypeInv

\* The first look at the status: the TPM is ready, or it is told to be.
LEMMA CheckReadyKeeps ==
    ASSUME TisInv, CheckReady
    PROVE  TisInv' /\ Simulates
<1>1. /\ pc = "status"
      /\ UNCHANGED << sizes, pos, burst, polls, answer, results >>
  BY DEF CheckReady
<1>2. CASE pc' = "writeBurst" /\ tpm = "ready" /\ UNCHANGED << tpm, fifo, executed >>
  <2>1. Asked > 0 /\ Asked \in Nat
    BY <1>1 DEF TisInv, TypeInv, CountInv, Before, Asked
  <2>2. sizes[Asked] \in Nat /\ Stretch(Asked, sizes[Asked], 0, 0) = << >>
    BY <2>1, SizeFacts, StretchEmpty DEF TisInv
  <2>3. TypeInv' /\ CountInv' /\ ExecutedInv' /\ ExecutingInv'
    BY <1>1, <1>2 DEF TisInv, TypeInv, CountInv, ExecutedInv, ExecutingInv, Asked, Before,
                      Asking, Sending
  <2>4. fifo = << >> /\ pos = 0 /\ answer = << >>
    BY <1>1, <1>2 DEF TisInv, EmptyInv, Sending, Reading
  <2>5. EmptyInv' /\ SendingInv' /\ ReadingInv'
    BY <1>1, <1>2, <2>2, <2>4 DEF EmptyInv, SendingInv, ReadingInv, Sending, Reading, Asked
  <2> QED BY <1>1, <1>2, <2>3, <2>5 DEF TisInv, Simulates
<1>3. CASE pc' = "waitReady" /\ CommandReadyWritten
  <2>1. /\ fifo' = << >> /\ tpm' # "execution"
        /\ tpm' \in {"absent", "inactive", "idle", "ready", "completion", "aborting"}
        /\ \/ UNCHANGED executed
           \/ tpm = "execution" /\ executed' = Append(executed, fifo[1][1])
    BY <1>3, CommandReadyCases
  <2>2. tpm = "execution" => /\ fifo[1][1] \in 1 .. Asked /\ fifo[1][1] < Asked
                             /\ \A i \in DOMAIN executed : executed[i] < fifo[1][1]
    BY <1>1 DEF TisInv, ExecutingInv, Asking
  <2>3. executed' \in Seq(Nat) /\ ExecutedInv'
    <3>1. executed \in Seq(Nat) /\ Asked' = Asked
      BY <1>1 DEF TisInv, TypeInv, Asked
    <3>2. \A i \in DOMAIN executed : executed[i] \in 1 .. Asked /\ executed[i] < Asked
      BY <1>1 DEF TisInv, ExecutedInv, Asking
    <3>3. CASE executed' = executed
      BY <3>1, <3>2, <3>3 DEF ExecutedInv
    <3>4. CASE tpm = "execution" /\ executed' = Append(executed, fifo[1][1])
      <4>1. fifo[1][1] \in Nat /\ fifo[1][1] \in 1 .. Asked /\ fifo[1][1] < Asked
        BY <2>2, <3>4
      <4>2. /\ executed' \in Seq(Nat) /\ DOMAIN executed' = 1 .. Len(executed) + 1
            /\ DOMAIN executed = 1 .. Len(executed) /\ Len(executed) \in Nat
            /\ executed'[Len(executed) + 1] = fifo[1][1]
            /\ \A i \in 1 .. Len(executed) : executed'[i] = executed[i]
        BY <3>1, <3>4, <4>1
      <4>3. \A i \in DOMAIN executed' : executed'[i] \in 1 .. Asked /\ executed'[i] < Asked
        BY <3>2, <4>1, <4>2
      <4> QED BY <3>1, <4>2, <4>3 DEF ExecutedInv
    <3> QED BY <2>1, <3>3, <3>4
  <2>4. TypeInv' /\ CountInv' /\ ExecutingInv'
    BY <1>1, <1>3, <2>1, <2>3 DEF TisInv, TypeInv, CountInv, ExecutingInv, Asked, Before, Asking
  <2>5. EmptyInv' /\ SendingInv' /\ ReadingInv'
    BY <1>1, <1>3, <2>1 DEF TisInv, EmptyInv, SendingInv, ReadingInv, Sending, Reading
  <2>6. Simulates
    BY <1>1, <2>1, <2>2 DEF Simulates, Link!Next, Link!Execute, Asked
  <2> QED BY <2>3, <2>4, <2>5, <2>6 DEF TisInv
<1>4. ("commandReady" \in Bits) => tpm = "ready"
  BY DEF Bits, TisInv, TypeInv
<1> QED BY <1>2, <1>3, <1>4 DEF CheckReady, StatusRead

\* A round of a wait, or of getting the burst count, that does not end the call leaves
\* everything but pc, polls and burst alone.
Round(next) ==
    /\ pc' \in {pc, next} /\ polls' \in 1 .. Tries /\ burst' \in Nat
    /\ UNCHANGED << sizes, pos, rspSz, answer, results, tpm, fifo, executed >>

\* Going on within a call needs only the conditions that belong to the next pc.
LEMMA RoundKeeps ==
    ASSUME TisInv, NEW next, Round(next), pc' = pc \/ pc' = next,
           \/ pc \in Asking /\ next \in Asking
           \/ pc \in Sending /\ next \in Sending
           \/ pc \in Reading /\ next \in Reading,
           SendingInv', ReadingInv'
    PROVE  TisInv' /\ Simulates
<1>1. TypeInv' /\ CountInv' /\ ExecutedInv' /\ ExecutingInv'
  BY DEF Round, TisInv, TypeInv, CountInv, ExecutedInv, ExecutingInv, Asked, Before, Asking,
         Sending, Reading
<1>2. EmptyInv'
  BY DEF Round, TisInv, EmptyInv, Asking, Sending, Reading
<1> QED BY <1>1, <1>2 DEF TisInv, Simulates, Round

\* Waiting for the status: found, not yet, or given up.
LEMMA WaitCases ==
    ASSUME TisInv, NEW at, NEW mask, NEW status, NEW next,
           WaitForStatus(at, mask, status, next)
    PROVE  /\ pc = at /\ UNCHANGED << tpm, fifo, executed >>
           /\ \/ Return(0)
              \/ /\ pc' = next /\ polls' \in 1 .. Tries /\ Stays
                 /\ Bits \intersect mask = status \/ {} \intersect mask = status
              \/ pc' = pc /\ polls' \in 1 .. Tries /\ Stays
<1>1. PICK s \in StatusRead : PollOr(s \intersect mask = status, next)
  BY DEF WaitForStatus
<1>2. s = Bits \/ s = {}
  BY DEF StatusRead
<1>3. \/ Return(0)
      \/ (s \intersect mask = status) /\ pc' = next /\ polls' \in 1 .. Tries /\ Stays
      \/ pc' = pc /\ polls' \in 1 .. Tries /\ Stays
  <2> DEFINE found == s \intersect mask = status
  <2>1. found \in BOOLEAN /\ PollOr(found, next) /\ TypeInv
    BY <1>1 DEF TisInv
  <2> HIDE DEF found
  <2>2. \/ Return(0)
        \/ found /\ pc' = next /\ polls' \in 1 .. Tries /\ Stays
        \/ ~ found /\ pc' = pc /\ polls' \in 1 .. Tries /\ Stays
    BY <2>1, PollOrCases
  <2> QED BY <2>2 DEF found
<1>4. pc = at /\ UNCHANGED << tpm, fifo, executed >>
  BY DEF WaitForStatus, device
<1> QED BY <1>2, <1>3, <1>4

\* A TPM that is ready has an empty FIFO, so the command starts at its beginning.
LEMMA WaitReadyKeeps ==
    ASSUME TisInv, WaitReady
    PROVE  TisInv' /\ Simulates
<1>1. /\ pc = "waitReady" /\ UNCHANGED << tpm, fifo, executed >>
      /\ \/ Return(0)
         \/ /\ pc' = "writeBurst" /\ polls' \in 1 .. Tries /\ Stays
            /\ \/ Bits \intersect {"commandReady"} = {"commandReady"}
               \/ {} \intersect {"commandReady"} = {"commandReady"}
         \/ pc' = pc /\ polls' \in 1 .. Tries /\ Stays
  BY WaitCases DEF WaitReady
<1>2. CASE Return(0)
  BY <1>1, <1>2, CallFails DEF Before
<1>3. CASE /\ pc' = "writeBurst" /\ polls' \in 1 .. Tries /\ Stays
           /\ \/ Bits \intersect {"commandReady"} = {"commandReady"}
              \/ {} \intersect {"commandReady"} = {"commandReady"}
  <2>1. "commandReady" \in Bits
    BY <1>3
  <2>2. tpm = "ready"
    BY <2>1 DEF Bits, TisInv, TypeInv
  <2>3. Asked > 0 /\ Asked \in Nat
    BY <1>1 DEF TisInv, TypeInv, CountInv, Before, Asked
  <2>4. sizes[Asked] \in Nat /\ Stretch(Asked, sizes[Asked], 0, 0) = << >>
    BY <2>3, SizeFacts, StretchEmpty DEF TisInv
  <2>5. fifo = << >> /\ pos = 0 /\ answer = << >>
    BY <1>1, <2>2 DEF TisInv, EmptyInv, Sending, Reading
  <2>6. TypeInv' /\ CountInv' /\ ExecutedInv' /\ ExecutingInv'
    BY <1>1, <1>3, <2>2 DEF Stays, TisInv, TypeInv, CountInv, ExecutedInv, ExecutingInv, Asked,
                            Before, Asking, Sending
  <2>7. EmptyInv' /\ SendingInv' /\ ReadingInv'
    BY <1>1, <1>3, <2>2, <2>4, <2>5
       DEF Stays, EmptyInv, SendingInv, ReadingInv, Sending, Reading, Asked
  <2> QED BY <1>1, <1>3, <2>6, <2>7 DEF TisInv, Simulates, Stays
<1>4. CASE pc' = pc /\ polls' \in 1 .. Tries /\ Stays
  <2>1. Round("waitReady") /\ pc' = pc
    BY <1>1, <1>4 DEF Round, Stays, TisInv, TypeInv
  <2>2. SendingInv' /\ ReadingInv'
    BY <1>1, <1>4 DEF SendingInv, ReadingInv, Sending, Reading
  <2> QED BY <1>1, <2>1, <2>2, RoundKeeps DEF Asking
<1> QED BY <1>1, <1>2, <1>3, <1>4

\* The TPM expects more of the command.
LEMMA WaitExpectKeeps ==
    ASSUME TisInv, WaitExpect
    PROVE  TisInv' /\ Simulates
<1>1. /\ pc = "waitExpect" /\ UNCHANGED << tpm, fifo, executed >>
      /\ \/ Return(0)
         \/ pc' = "writeBurst" /\ polls' \in 1 .. Tries /\ Stays
         \/ pc' = pc /\ polls' \in 1 .. Tries /\ Stays
  BY WaitCases DEF WaitExpect
<1>2. CASE Return(0)
  BY <1>1, <1>2, CallFails DEF Before
<1>3. CASE pc' \in {pc, "writeBurst"} /\ polls' \in 1 .. Tries /\ Stays
  <2>1. Round("writeBurst")
    BY <1>1, <1>3 DEF Round, Stays, TisInv, TypeInv
  <2>2. SendingInv' /\ ReadingInv'
    BY <1>1, <1>3 DEF Stays, TisInv, SendingInv, ReadingInv, Sending, Reading, Asked
  <2> QED BY <1>1, <1>3, <2>1, <2>2, RoundKeeps DEF Sending
<1> QED BY <1>1, <1>2, <1>3

\* The TPM expects no more once the whole command is there.
LEMMA WaitWholeKeeps ==
    ASSUME TisInv, WaitWhole
    PROVE  TisInv' /\ Simulates
<1>1. /\ pc = "waitWhole" /\ UNCHANGED << tpm, fifo, executed >>
      /\ \/ Return(0)
         \/ pc' = "go" /\ polls' \in 1 .. Tries /\ Stays
         \/ pc' = pc /\ polls' \in 1 .. Tries /\ Stays
  BY WaitCases DEF WaitWhole
<1>2. CASE Return(0)
  BY <1>1, <1>2, CallFails DEF Before
<1>3. CASE pc' \in {pc, "go"} /\ polls' \in 1 .. Tries /\ Stays
  <2>1. Round("go")
    BY <1>1, <1>3 DEF Round, Stays, TisInv, TypeInv
  <2>2. SendingInv' /\ ReadingInv'
    BY <1>1, <1>3 DEF Stays, TisInv, SendingInv, ReadingInv, Sending, Reading, Asked
  <2> QED BY <1>1, <1>3, <2>1, <2>2, RoundKeeps DEF Sending
<1> QED BY <1>1, <1>2, <1>3

\* The TPM says that an answer is there only when it has executed the command at hand.
LEMMA WaitAvailKeeps ==
    ASSUME TisInv, WaitAvail
    PROVE  TisInv' /\ Simulates
<1>1. /\ pc = "waitAvail" /\ UNCHANGED << tpm, fifo, executed >>
      /\ \/ Return(0)
         \/ /\ pc' = "readBurst" /\ polls' \in 1 .. Tries /\ Stays
            /\ \/ Bits \intersect {"avail"} = {"avail"} \/ {} \intersect {"avail"} = {"avail"}
         \/ pc' = pc /\ polls' \in 1 .. Tries /\ Stays
  BY WaitCases DEF WaitAvail
<1>2. CASE Return(0)
  BY <1>1, <1>2, CallFails DEF Before
<1>3. CASE /\ pc' = "readBurst" /\ polls' \in 1 .. Tries /\ Stays
           /\ \/ Bits \intersect {"avail"} = {"avail"} \/ {} \intersect {"avail"} = {"avail"}
  <2>1. "avail" \in Bits
    BY <1>3
  <2>2. tpm # "execution"
    BY <2>1 DEF Bits
  <2>3. Round("readBurst")
    BY <1>1, <1>3 DEF Round, Stays, TisInv, TypeInv
  <2>4. SendingInv'
    BY <1>3 DEF SendingInv, Sending
  <2>5. ReadingInv'
    BY <1>1, <1>3, <2>2 DEF Stays, TisInv, ReadingInv, AnswerInv, Reading, Asked
  <2> QED BY <1>1, <1>3, <2>3, <2>4, <2>5, RoundKeeps DEF Reading
<1>4. CASE pc' = pc /\ polls' \in 1 .. Tries /\ Stays
  <2>1. Round("waitAvail")
    BY <1>1, <1>4 DEF Round, Stays, TisInv, TypeInv
  <2>2. SendingInv' /\ ReadingInv'
    BY <1>1, <1>4 DEF Stays, TisInv, SendingInv, ReadingInv, AnswerInv, Sending, Reading, Asked
  <2> QED BY <1>1, <1>4, <2>1, <2>2, RoundKeeps DEF Reading
<1> QED BY <1>1, <1>2, <1>3, <1>4

\* Waiting for the burst count: some, not yet, or given up.
LEMMA BurstCases ==
    ASSUME TisInv, NEW at, NEW next, at # next, GetBurstCount(at, next)
    PROVE  /\ pc = at /\ UNCHANGED << tpm, fifo, executed >>
           /\ \/ Return(0)
              \/ /\ Round(next)
                 /\ pc' = next => burst' > 0 /\ \E b \in BurstRead : burst' <= b
<1>1. PICK b \in BurstRead :
         IF b = 0 /\ polls = 1 THEN Return(0)
         ELSE /\ Poll(b > 0, next, "idle") /\ burst' = Capped(b)
              /\ UNCHANGED << sizes, pos, rspSz, answer, results >>
  BY DEF GetBurstCount
<1>2. Frame \in Nat \ {0}
  BY TisAssumption
<1>3. b \in Nat
  BY <1>2 DEF BurstRead, TisInv, TypeInv
<1>4. Capped(b) \in Nat /\ Capped(b) <= b /\ (b > 0 => Capped(b) > 0)
  BY <1>2, <1>3 DEF Capped, Lesser
<1>5. pc = at /\ UNCHANGED << tpm, fifo, executed >>
  BY DEF GetBurstCount, device
<1>6. ASSUME ~ (b = 0 /\ polls = 1)
      PROVE  Round(next) /\ (pc' = next => burst' > 0 /\ burst' <= b)
  <2>1. polls \in 1 .. Tries /\ Tries \in Nat \ {0}
    BY TisAssumption DEF TisInv, TypeInv
  <2>2. /\ pc' \in {pc, next} /\ polls' \in 1 .. Tries
        /\ pc' = next => b > 0
    BY <1>1, <1>3, <1>5, <1>6, <2>1 DEF Poll
  <2> QED BY <1>1, <1>4, <1>5, <1>6, <2>2 DEF Round
<1> QED BY <1>1, <1>5, <1>6

\* A burst count to write changes nothing of the command.
LEMMA WriteBurstKeeps ==
    ASSUME TisInv, WriteBurst
    PROVE  TisInv' /\ Simulates
<1>1. /\ pc = "writeBurst" /\ UNCHANGED << tpm, fifo, executed >>
      /\ Return(0) \/ (Round("write") /\ (pc' = "write" => burst' > 0))
  BY BurstCases DEF WriteBurst
<1>2. CASE Return(0)
  BY <1>1, <1>2, CallFails DEF Before
<1>3. CASE Round("write") /\ (pc' = "write" => burst' > 0)
  <2>1. SendingInv' /\ ReadingInv'
    BY <1>1, <1>3 DEF Round, TisInv, SendingInv, ReadingInv, Sending, Reading, Asked
  <2> QED BY <1>1, <1>3, <2>1, RoundKeeps DEF Sending, Round
<1> QED BY <1>1, <1>2, <1>3

\* What is read at once is there.
LEMMA ReadBurstKeeps ==
    ASSUME TisInv, ReadBurst
    PROVE  TisInv' /\ Simulates
<1>1. /\ pc = "readBurst" /\ UNCHANGED << tpm, fifo, executed >>
      /\ \/ Return(0)
         \/ /\ Round("read")
            /\ pc' = "read" => burst' > 0 /\ \E b \in BurstRead : burst' <= b
  BY BurstCases DEF ReadBurst
<1>2. CASE Return(0)
  BY <1>1, <1>2, CallFails DEF Before
<1>3. CASE /\ Round("read")
           /\ pc' = "read" => burst' > 0 /\ \E b \in BurstRead : burst' <= b
  <2>1. SendingInv'
    BY <1>1, <1>3 DEF Round, SendingInv, Sending
  <2>2. /\ tpm = "completion" /\ \E i \in DOMAIN executed : executed[i] = Asked
        /\ \E len \in Nat : AnswerInv(len)
    BY <1>1 DEF TisInv, ReadingInv, Reading
  <2>3. PICK len \in Nat : AnswerInv(len)
    BY <2>2
  <2>4. Len(fifo) = len - pos /\ pos \in Nat
    BY <2>3, StretchIsSeq DEF AnswerInv, TisInv, TypeInv
  <2>5. pc' = "read" => burst' > 0 /\ burst' <= len - pos
    <3>1. \A b \in BurstRead : b \in Nat /\ (b <= len - pos \/ b = 0)
      BY <2>2, <2>4 DEF BurstRead
    <3>2. burst' \in Nat
      BY <1>3 DEF Round
    <3> QED BY <1>3, <2>4, <3>1, <3>2
  <2>6. AnswerInv(len)'
    BY <1>1, <1>3, <2>3, <2>5 DEF AnswerInv, Round, Asked
  <2>7. ReadingInv'
    BY <1>1, <1>3, <2>2, <2>6 DEF ReadingInv, Round, Asked
  <2> QED BY <1>1, <1>3, <2>1, <2>7, RoundKeeps DEF Reading, Round
<1> QED BY <1>1, <1>2, <1>3

\* What is written is the next part of the command at hand.
LEMMA WriteKeeps ==
    ASSUME TisInv, Write
    PROVE  TisInv' /\ Simulates
<1> DEFINE n == Asked
           size == sizes[Asked]
           x == Lesser(size - pos, burst)
<1>1. pc = "write" /\ UNCHANGED executed
  BY DEF Write
<1>2. n > 0 /\ n \in Nat
  BY <1>1 DEF TisInv, TypeInv, CountInv, Before, Asked
<1>3. size \in Nat /\ Command(n) = Stretch(n, size, 0, size)
  BY <1>2, SizeFacts DEF TisInv
<1>4. /\ tpm \in {"ready", "reception"} /\ pos \in Nat /\ pos <= size
      /\ fifo = Stretch(n, size, 0, pos) /\ burst \in Nat /\ burst > 0
      /\ answer = << >>
  BY <1>1 DEF TisInv, TypeInv, SendingInv, EmptyInv, Sending, Reading
<1>5. x \in Nat /\ pos + x <= size /\ (pos < size => pos + x > 0)
  BY <1>3, <1>4 DEF Lesser
<1>6. CASE x > Frame
  <2>1. Return(0) /\ UNCHANGED << tpm, fifo >>
    BY <1>6 DEF Write, Asked
  <2> QED BY <1>1, <2>1, CallFails DEF Before
<1>7. CASE ~ (x > Frame)
  <2>1. /\ Received(SubSeq(Command(n), pos + 1, pos + x)) /\ pos' = pos + x
        /\ pc' = IF pos' < sizes[n] THEN "waitExpect" ELSE "waitWhole"
        /\ UNCHANGED << sizes, rspSz, burst, polls, answer, results >>
    BY <1>7 DEF Write, Asked
  <2>2. SubSeq(Command(n), pos + 1, pos + x) = Stretch(n, size, pos, pos + x)
    <3> HIDE DEF size, n, x
    <3> DEFINE y == pos + x
           p == pos + 1
    <3>1. /\ 0 \in Nat /\ size \in Nat /\ p \in Nat /\ y \in Nat /\ pos \in Nat
          /\ p > 0 /\ pos = 0 + (p - 1) /\ y = 0 + y /\ pos <= y /\ y <= size
      BY <1>3, <1>4, <1>5
    <3> HIDE DEF y, p
    <3>2. Cut(Stretch(n, size, 0, size), p, y) = Stretch(n, size, pos, y)
      BY ONLY <3>1, StretchCut, SMTT(30)
    <3> QED BY <1>3, <3>2 DEF y, p, Cut
  <2>3. tpm' = "reception" /\ fifo' = Stretch(n, size, 0, pos + x)
    <3> DEFINE y == pos + x
    <3>1. 0 \in Nat /\ pos \in Nat /\ y \in Nat /\ 0 <= pos /\ pos <= y
      BY <1>4, <1>5
    <3> HIDE DEF y, size, n, x
    <3>2. Stretch(n, size, 0, pos) \o Stretch(n, size, pos, y) = Stretch(n, size, 0, y)
      BY <3>1, StretchJoin, Zenon
    <3> QED BY <1>4, <2>1, <2>2, <3>2 DEF Received, y
  <2>4. TypeInv' /\ CountInv' /\ ExecutedInv' /\ ExecutingInv' /\ EmptyInv'
    BY <1>1, <1>4, <1>5, <2>1, <2>3
       DEF TisInv, TypeInv, CountInv, ExecutedInv, ExecutingInv, EmptyInv, Before, Asking,
           Sending, Reading, Asked
  <2>5. SendingInv'
    BY <1>3, <1>4, <1>5, <2>1, <2>3 DEF SendingInv, Asked
  <2>6. ReadingInv'
    BY <2>1 DEF ReadingInv, Reading
  <2> QED BY <1>1, <2>1, <2>4, <2>5, <2>6 DEF TisInv, Simulates
<1> QED BY <1>6, <1>7

\* The whole command has been received, and the TPM executes it.
LEMMA GoKeeps ==
    ASSUME TisInv, Go
    PROVE  TisInv' /\ Simulates
<1> DEFINE n == Asked
           size == sizes[Asked]
<1>1. /\ pc = "go" /\ pc' = "waitAvail" /\ pos' = 0 /\ rspSz' = Header
      /\ tpm' = IF tpm = "reception" /\ Len(fifo) = fifo[1][3] THEN "execution" ELSE tpm
      /\ UNCHANGED << sizes, burst, polls, answer, fifo, executed, results >>
  BY DEF Go
<1>2. n > 0 /\ n \in Nat
  BY <1>1 DEF TisInv, TypeInv, CountInv, Before, Asked
<1>3. size \in Nat /\ size > 0
  BY <1>2, SizeFacts DEF TisInv
<1>4. /\ tpm \in {"ready", "reception"} /\ (tpm = "ready" => pos = 0)
      /\ pos = size /\ fifo = Stretch(n, size, 0, size) /\ answer = << >>
      /\ \A i \in DOMAIN executed : executed[i] \in 1 .. n /\ executed[i] < n
  BY <1>1 DEF TisInv, SendingInv, EmptyInv, ExecutedInv, Sending, Reading
<1>5. Len(fifo) = size /\ fifo[1] = << n, 1, size >>
  <2> HIDE DEF n, size
  <2> QED BY <1>3, <1>4, FirstCell, Zenon
<1>6. tpm' = "execution" /\ fifo'[1][1] = n
  BY <1>1, <1>3, <1>4, <1>5
<1>7. TypeInv' /\ CountInv' /\ ExecutedInv' /\ EmptyInv'
  BY <1>1, <1>6 DEF TisInv, TypeInv, CountInv, ExecutedInv, EmptyInv, Before, Asking, Sending,
                    Reading, Asked
<1>8. ExecutingInv'
  BY <1>1, <1>2, <1>4, <1>6 DEF ExecutingInv, Asking, Asked
<1>9. SendingInv' /\ ReadingInv'
  BY <1>1, <1>4, <1>6 DEF SendingInv, ReadingInv, Sending, Reading, Asked
<1> QED BY <1>1, <1>7, <1>8, <1>9 DEF TisInv, Simulates

\* What is read is the next part of the answer, and with the header its length is known.
LEMMA ReadPart ==
    ASSUME TisInv, pc = "read", NEW len \in Nat, AnswerInv(len),
           NEW x, x = Lesser(rspSz - pos, burst), NEW y, y = pos + x
    PROVE  /\ x \in Nat /\ x > 0 /\ y \in Nat /\ pos <= y /\ y <= rspSz /\ y <= len
           /\ Len(fifo) = len - pos
           /\ SubSeq(fifo, x + 1, Len(fifo)) = Stretch(Asked, len, y, len)
           /\ answer \o SubSeq(fifo, 1, x) = Stretch(Asked, len, 0, y)
           /\ (answer \o SubSeq(fifo, 1, x))[1][3] = len
<1>1. /\ Header <= len /\ pos <= len /\ pos < rspSz /\ burst > 0 /\ burst <= len - pos
      /\ answer = Stretch(Asked, len, 0, pos) /\ fifo = Stretch(Asked, len, pos, len)
      /\ rspSz = IF pos < Header THEN Header ELSE len
  BY DEF AnswerInv
<1>2. Header \in Nat \ {0} /\ pos \in Nat /\ burst \in Nat /\ rspSz \in Nat
  BY <1>1, TisAssumption DEF TisInv, TypeInv
<1>3. /\ x \in Nat /\ x > 0 /\ y \in Nat /\ pos <= y /\ y <= rspSz /\ y <= len
      /\ pos + x = y
  BY <1>1, <1>2 DEF Lesser
<1>4. PICK n : n = Asked
  OBVIOUS
<1>5. Len(fifo) = len - pos
  <2>1. pos \in Nat /\ len \in Nat /\ pos <= len
    BY <1>1, <1>2
  <2>2. Len(Stretch(n, len, pos, len)) = len - pos
    BY ONLY <2>1, StretchIsSeq, ZenonT(60)
  <2> QED BY <1>1, <1>4, <2>2
<1>6. SubSeq(fifo, 1, x) = Stretch(n, len, pos, y)
  <2>1. /\ pos \in Nat /\ len \in Nat /\ 1 \in Nat /\ x \in Nat /\ y \in Nat
        /\ 1 > 0 /\ pos = pos + (1 - 1) /\ y = pos + x /\ pos <= y /\ y <= len
    BY <1>2, <1>3
  <2>2. Cut(Stretch(n, len, pos, len), 1, x) = Stretch(n, len, pos, y)
    BY ONLY <2>1, StretchCut, SMTT(30)
  <2> QED BY <1>1, <1>4, <2>2 DEF Cut
<1>7. SubSeq(fifo, x + 1, Len(fifo)) = Stretch(n, len, y, len)
  <2> DEFINE l == len - pos
             p == x + 1
  <2>1. /\ pos \in Nat /\ len \in Nat /\ p \in Nat /\ l \in Nat /\ y \in Nat
        /\ p > 0 /\ y = pos + (p - 1) /\ len = pos + l /\ y <= len /\ len <= len
    BY <1>1, <1>2, <1>3
  <2> HIDE DEF l, p
  <2>2. Cut(Stretch(n, len, pos, len), p, l) = Stretch(n, len, y, len)
    BY ONLY <2>1, StretchCut, SMTT(30)
  <2> QED BY <1>1, <1>4, <1>5, <2>2 DEF l, p, Cut
<1>8. answer \o SubSeq(fifo, 1, x) = Stretch(n, len, 0, y)
  <2>1. \A a, b, c \in Nat : a <= b /\ b <= c =>
           Stretch(n, len, a, b) \o Stretch(n, len, b, c) = Stretch(n, len, a, c)
    BY ONLY StretchJoin, ZenonT(60)
  <2>2. 0 \in Nat /\ pos \in Nat /\ y \in Nat /\ 0 <= pos /\ pos <= y
    BY <1>2, <1>3
  <2>3. Stretch(n, len, 0, pos) \o Stretch(n, len, pos, y) = Stretch(n, len, 0, y)
    BY ONLY <2>1, <2>2, Zenon
  <2> QED BY ONLY <1>1, <1>4, <1>6, <2>3, Zenon
<1>9. (answer \o SubSeq(fifo, 1, x))[1][3] = len
  <2>1. y > 0
    BY <1>2, <1>3
  <2>2. Stretch(n, len, 0, y)[1] = << n, 1, len >>
    BY <1>3, <2>1, FirstCell, Zenon
  <2>3. (answer \o SubSeq(fifo, 1, x))[1] = << n, 1, len >>
    BY ONLY <1>8, <2>2, Zenon
  <2> DEFINE c == (answer \o SubSeq(fifo, 1, x))[1]
  <2>4. c = << n, 1, len >>
    BY ONLY <2>3
  <2> HIDE DEF c
  <2>5. c[3] = len
    BY ONLY <2>4
  <2> QED BY ONLY <2>5, Zenon DEF c
<1> QED BY <1>3, <1>4, <1>5, <1>7, <1>8, <1>9

LEMMA ReadKeeps ==
    ASSUME TisInv, Read
    PROVE  TisInv' /\ Simulates
<1> DEFINE n == Asked
           x == Lesser(rspSz - pos, burst)
           all == answer \o SubSeq(fifo, 1, x)
           size == IF pos + x = Header THEN all[1][3] ELSE rspSz
           y == pos + x
<1>1. /\ pc = "read" /\ UNCHANGED << tpm, executed >>
      /\ fifo' = SubSeq(fifo, x + 1, Len(fifo))
      /\ IF x > Frame \/ (pos + x = Header /\ size > PacketSize)
         THEN Return(0)
         ELSE /\ answer' = all /\ pos' = pos + x /\ rspSz' = size
              /\ pc' = IF pos' < rspSz' THEN "waitAvail" ELSE "done"
              /\ UNCHANGED << sizes, burst, polls, results >>
  BY DEF Read
<1>2. /\ tpm = "completion" /\ \E i \in DOMAIN executed : executed[i] = n
      /\ \E len \in Nat : AnswerInv(len)
  BY <1>1 DEF TisInv, ReadingInv, Reading
<1>3. CASE Return(0)
  BY <1>1, <1>2, <1>3, CallFails DEF Before
<1>4. CASE /\ answer' = all /\ pos' = y /\ rspSz' = size
           /\ pc' = IF pos' < rspSz' THEN "waitAvail" ELSE "done"
           /\ UNCHANGED << sizes, burst, polls, results >>
  <2>1. PICK len \in Nat : AnswerInv(len)
    BY <1>2
  <2>2. /\ Header <= len /\ pos <= len /\ pos < rspSz
        /\ rspSz = IF pos < Header THEN Header ELSE len
    BY <1>1, <2>1 DEF AnswerInv
  <2>3. Header \in Nat \ {0} /\ pos \in Nat /\ rspSz \in Nat
    BY <2>1, <2>2, TisAssumption DEF TisInv, TypeInv
  <2>4. /\ x \in Nat /\ x > 0 /\ y \in Nat /\ pos <= y /\ y <= rspSz /\ y <= len
        /\ fifo' = Stretch(n, len, y, len) /\ all = Stretch(n, len, 0, y)
        /\ all[1][3] = len
    BY <1>1, <2>1, ReadPart
  <2>5. pos + x = y
    OBVIOUS
  <2> HIDE DEF n, x, y, all
  <2>6. size = IF y < Header THEN Header ELSE len
    BY <2>2, <2>3, <2>4, <2>5
  <2> HIDE DEF size
  <2>7. /\ pc' \in {"waitAvail", "done"}
        /\ IF pc' = "done" THEN pos' = len ELSE pos' < rspSz'
    BY <1>4, <2>2, <2>3, <2>4, <2>6
  <2>8. AnswerInv(len)'
    BY <1>4, <2>2, <2>4, <2>6, <2>7 DEF AnswerInv, n, Asked
  <2>9. SendingInv' /\ ReadingInv'
    BY <1>1, <1>2, <1>4, <2>7, <2>8 DEF SendingInv, ReadingInv, Sending, Reading, n, Asked
  <2>10. TypeInv' /\ CountInv' /\ ExecutedInv' /\ ExecutingInv' /\ EmptyInv'
    BY <1>1, <1>2, <1>4, <2>4, <2>7
       DEF TisInv, TypeInv, CountInv, ExecutedInv, ExecutingInv, EmptyInv, Before, Asking,
           Sending, Reading, Asked
  <2> QED BY <1>1, <1>4, <2>9, <2>10 DEF TisInv, Simulates
<1> QED BY <1>1, <1>3, <1>4

\* The answer is whole, and it is the one to the command at hand.
LEMMA DoneReturns ==
    ASSUME TisInv, Done
    PROVE  Return(Asked)
<1>1. /\ pc = "done" /\ CommandReadyWritten
      /\ Return(IF answer = AnswerOf(answer[1][1], answer[1][3]) THEN answer[1][1] ELSE -1)
  BY DEF Done
<1>2. /\ tpm = "completion" /\ \E i \in DOMAIN executed : executed[i] = Asked
      /\ \E len \in Nat : AnswerInv(len)
  BY <1>1 DEF TisInv, ReadingInv, Reading
<1>3. PICK len \in Nat : AnswerInv(len)
  BY <1>2
<1>4. len > 0 /\ answer = Stretch(Asked, len, 0, len)
  BY <1>1, <1>3, TisAssumption DEF AnswerInv
<1>5. answer[1] = << Asked, 1, len >>
  BY <1>4, FirstCell, Zenon
<1>6. answer = AnswerOf(Asked, len)
  BY <1>4 DEF AnswerOf, Stretch
<1> QED BY <1>1, <1>5, <1>6

LEMMA DoneKeeps ==
    ASSUME TisInv, Done
    PROVE  TisInv' /\ Simulates
<1>1. /\ pc = "done" /\ CommandReadyWritten /\ Return(Asked)
  BY DoneReturns DEF Done
<1>2. /\ tpm = "completion" /\ \E i \in DOMAIN executed : executed[i] = Asked
  BY <1>1 DEF TisInv, ReadingInv, Reading
<1>3. Asked \in Nat /\ Asked = Len(results) + 1
  BY <1>1 DEF TisInv, TypeInv, CountInv, Before, Asked
<1>4. polls' \in 1 .. Tries /\ results' \in Seq(Nat) /\ Len(results') = Len(results) + 1
  BY <1>1, <1>3, TisAssumption DEF Return, TisInv, TypeInv
<1>5. /\ UNCHANGED executed /\ fifo' = << >>
       /\ tpm' \in {"absent", "inactive", "idle", "ready", "completion", "aborting"}
  BY <1>1, <1>2, CommandReadyCases
<1>6. TypeInv' /\ CountInv'
  BY <1>1, <1>3, <1>4, <1>5 DEF Return, TisInv, TypeInv, CountInv, Before, Asked
<1>7. ExecutedInv' /\ ExecutingInv'
  BY <1>1, <1>5 DEF Return, TisInv, ExecutedInv, ExecutingInv, Asking, Sending, Asked
<1>8. EmptyInv' /\ SendingInv' /\ ReadingInv'
  BY <1>1, <1>5 DEF Return, EmptyInv, SendingInv, ReadingInv, Sending, Reading
<1>9. Link!Answer
  BY <1>1, <1>2, <1>3, <1>5 DEF Link!Answer, Return, Asked
<1> QED BY <1>6, <1>7, <1>8, <1>9 DEF TisInv, Simulates, Link!Next

\* The TPM by itself executes what it has, an old command perhaps.
LEMMA TpmStepKeeps ==
    ASSUME TisInv, TpmStep
    PROVE  TisInv' /\ Simulates
<1>1. UNCHANGED << pc, sizes, pos, rspSz, burst, polls, answer, results >>
  BY DEF TpmStep, driver
<1>2. CASE (TpmStarts \/ TpmAborts) /\ UNCHANGED << fifo, executed >>
  <2>1. /\ tpm \in {"absent", "inactive", "aborting"} /\ tpm' \in {"inactive", "idle", "ready"}
        /\ tpm' = "ready" => tpm = "aborting"
    BY <1>2 DEF TpmStarts, TpmAborts
  <2>2. TypeInv' /\ CountInv' /\ ExecutedInv' /\ ExecutingInv'
    BY <1>1, <1>2, <2>1 DEF TisInv, TypeInv, CountInv, ExecutedInv, ExecutingInv, Asked
  <2>3. EmptyInv' /\ SendingInv' /\ ReadingInv'
    BY <1>1, <1>2, <2>1 DEF TisInv, EmptyInv, SendingInv, ReadingInv
  <2> QED BY <1>1, <1>2, <2>2, <2>3 DEF TisInv, Simulates
<1>3. CASE TpmExecutes
  <2> DEFINE n == fifo[1][1]
  <2>1. /\ tpm = "execution" /\ tpm' = "completion" /\ executed' = Append(executed, n)
        /\ \E len \in AnswerSizes : fifo' = AnswerOf(n, len)
    BY <1>3 DEF TpmExecutes
  <2>2. /\ n \in 1 .. Asked /\ \A i \in DOMAIN executed : executed[i] < n
        /\ pc \in Asking => n < Asked
    BY <2>1 DEF TisInv, ExecutingInv
  <2>3. executed \in Seq(Nat) /\ Asked \in Nat
    BY DEF TisInv, TypeInv, Asked
  <2> HIDE DEF n
  <2>4. n \in Nat
    BY <2>2, <2>3
  <2>5. /\ executed' \in Seq(Nat) /\ DOMAIN executed' = 1 .. Len(executed) + 1
        /\ DOMAIN executed = 1 .. Len(executed) /\ Len(executed) \in Nat
        /\ executed'[Len(executed) + 1] = n
        /\ \A i \in 1 .. Len(executed) : executed'[i] = executed[i]
    BY <2>1, <2>3, <2>4
  <2>6. pc \notin Sending
    BY <2>1 DEF TisInv, SendingInv
  <2>7. ExecutedInv'
    <3>1. \A i \in DOMAIN executed : executed[i] \in 1 .. Asked /\ (pc \in Asking => executed[i] < Asked)
      BY DEF TisInv, ExecutedInv
    <3>2. \A i \in DOMAIN executed' :
             executed'[i] \in 1 .. Asked /\ (pc \in Asking => executed'[i] < Asked)
      BY <2>2, <2>5, <3>1
    <3> QED BY <1>1, <2>6, <3>2 DEF ExecutedInv, Asked
  <2>8. TypeInv' /\ CountInv' /\ ExecutingInv' /\ EmptyInv' /\ SendingInv'
    BY <1>1, <2>1, <2>5, <2>6
       DEF TisInv, TypeInv, CountInv, ExecutingInv, EmptyInv, SendingInv, Asked
  <2>9. ReadingInv'
    <3>1. SUFFICES ASSUME pc \in Reading PROVE ReadingInv'
      BY <1>1 DEF ReadingInv
    <3>2. /\ pc = "waitAvail" /\ n = Asked /\ pos = 0 /\ rspSz = Header /\ answer = << >>
      BY <2>1, <3>1 DEF TisInv, ReadingInv, n
    <3>3. PICK len \in AnswerSizes : fifo' = AnswerOf(n, len)
      BY <2>1
    <3>4. len \in Nat /\ Header <= len /\ Header \in Nat \ {0}
      BY TisAssumption
    <3>5. fifo' = Stretch(Asked, len, 0, len) /\ Stretch(Asked, len, 0, 0) = << >>
      BY <3>2, <3>3, <3>4, StretchEmpty DEF AnswerOf, Stretch
    <3>6. AnswerInv(len)'
      BY <1>1, <3>2, <3>4, <3>5 DEF AnswerInv, Asked
    <3>7. \E i \in DOMAIN executed' : executed'[i] = Asked'
      BY <1>1, <2>5, <3>2 DEF Asked
    <3> QED BY <2>1, <3>4, <3>6, <3>7 DEF ReadingInv
  <2>10. Link!Execute
    BY <1>1, <2>1, <2>2 DEF Link!Execute, Asked
  <2> QED BY <2>7, <2>8, <2>9, <2>10 DEF TisInv, Simulates, Link!Next
<1> QED BY <1>2, <1>3 DEF TpmStep

\* A TPM that becomes prompt, and a step of nobody.
LEMMA OthersKeep ==
    ASSUME TisInv, BecomesPrompt \/ UNCHANGED vars
    PROVE  TisInv' /\ Simulates
<1>1. UNCHANGED << pc, sizes, pos, rspSz, burst, polls, answer, tpm, fifo, executed, results >>
  BY DEF BecomesPrompt, vars, driver, device
<1>2. TypeInv' /\ CountInv' /\ ExecutedInv' /\ ExecutingInv' /\ EmptyInv'
  BY <1>1 DEF TisInv, TypeInv, CountInv, ExecutedInv, ExecutingInv, EmptyInv, Asked
<1>3. SendingInv' /\ ReadingInv'
  BY <1>1 DEF TisInv, SendingInv, ReadingInv, AnswerInv, Asked
<1> QED BY <1>1, <1>2, <1>3 DEF TisInv, Simulates

\* Every step keeps the invariant and is a step of the link or none.
LEMMA StepKeeps == TisInv /\ [Next]_vars => TisInv' /\ Simulates
  BY StartupKeeps, SendCommandKeeps, CheckReadyKeeps, WaitReadyKeeps, WriteBurstKeeps,
     WriteKeeps, WaitExpectKeeps, WaitWholeKeeps, GoKeeps, WaitAvailKeeps, ReadBurstKeeps,
     ReadKeeps, DoneKeeps, TpmStepKeeps, OthersKeep
  DEF Next, DriverStep

\* Before the start nothing has been asked, executed or returned.
LEMMA InitHasInv == Init => TisInv /\ Link!Init
  BY TisAssumption
     DEF Init, TisInv, TypeInv, CountInv, ExecutedInv, ExecutingInv, EmptyInv, SendingInv,
         ReadingInv, Link!Init, Before, Asking, Sending, Reading, Asked

\* The driver implements the link: a call of TPM2_TIS_SendCommand (tpm2_tis.c) that returns
\* success does so after the TPM has executed that very command and with its answer, and the
\* TPM executes no command twice, none before it is asked and none after a later one; whatever
\* the lengths, the burst counts, the timeouts and the commands given up half way.
THEOREM TisImplementsLink == Spec => ImplementsLink
<1>1. Init => TisInv /\ Link!Init
  BY InitHasInv
<1>2. TisInv /\ [Next]_vars => TisInv'
  BY StepKeeps
<1>3. TisInv /\ [Next]_vars => [Link!Next]_<< Len(sizes), executed, results >>
  BY StepKeeps DEF Simulates
<1> QED BY <1>1, <1>2, <1>3, PTL DEF Spec, ImplementsLink, Link!Spec

-----------------------------------------------------------------------------
(* PromptTpmIsHeard, by HeardInv.                                          *)

\* The command at hand has been asked of a prompt TPM.
Fresh == prompt /\ late < Asked

\* A driver that has come up has a TPM that has.
StartedInv ==
    pc \notin {"startup", "locality", "grant", "down"} => tpm \notin {"absent", "inactive"}

LateInv == late \in Nat /\ late <= Asked

\* What TisInv leaves open, for it holds of slow TPMs as well.
FreshInv ==
    Fresh =>
       /\ pc = "waitReady" => tpm \in {"ready", "aborting"}
       /\ pc = "waitExpect" => tpm = "reception" /\ 0 < pos /\ pos < sizes[Asked]
       /\ pc \in {"write", "read"} => burst <= Frame
       /\ pc \in Reading /\ tpm = "completion" =>
             \A i \in 1 .. Len(fifo) : fifo[i][3] <= PacketSize

HeardInv == StartedInv /\ LateInv /\ FreshInv /\ PromptTpmIsHeard

\* A driver that has come up stays so, and so does its TPM.
LEMMA StartedStep ==
    ASSUME TisInv, StartedInv, [Next]_vars
    PROVE  StartedInv'
<1>1. CASE ChipStartup
  BY <1>1 DEF ChipStartup, StartupWait, RequestLocality, CheckLocality, GetInfo, Poll, device,
              StartedInv
<1>2. CASE CheckReady \/ Done
  BY <1>2 DEF CheckReady, Done, CommandReadyWritten, StartedInv, TisInv, TypeInv
<1>3. CASE WaitReady \/ WaitExpect \/ WaitWhole \/ WaitAvail
  BY <1>3 DEF WaitReady, WaitExpect, WaitWhole, WaitAvail, WaitForStatus, device, StartedInv
<1>4. CASE WriteBurst \/ ReadBurst
  BY <1>4 DEF WriteBurst, ReadBurst, GetBurstCount, device, StartedInv
<1>5. CASE Write
  <2>1. pc = "write" /\ tpm' \in {tpm, "reception"}
    BY <1>5 DEF Write, Received
  <2> QED BY <2>1 DEF StartedInv
<1>6. CASE Go \/ Read \/ SendCommand
  BY <1>6 DEF Go, Read, SendCommand, device, StartedInv
<1>7. CASE TpmStep
  BY <1>7 DEF TpmStep, TpmStarts, TpmExecutes, TpmAborts, driver, StartedInv
<1>8. CASE BecomesPrompt \/ UNCHANGED vars
  BY <1>8 DEF BecomesPrompt, vars, driver, device, StartedInv
<1> QED BY <1>1, <1>2, <1>3, <1>4, <1>5, <1>6, <1>7, <1>8 DEF Next, DriverStep

\* Steps other than these two leave the number of commands, and what is known of the TPM.
LEMMA SameCommand ==
    ASSUME DriverStep \/ TpmStep \/ UNCHANGED vars
    PROVE  UNCHANGED << sizes, prompt, late >>
<1>1. CASE TpmStep \/ UNCHANGED vars
  BY <1>1 DEF TpmStep, driver, vars
<1>2. CASE ChipStartup
  BY <1>2 DEF ChipStartup, StartupWait, RequestLocality, CheckLocality, GetInfo
<1>3. CASE WaitReady \/ WaitExpect \/ WaitWhole \/ WaitAvail
  BY <1>3 DEF WaitReady, WaitExpect, WaitWhole, WaitAvail, WaitForStatus, PollOr, Stays, Return
<1>4. CASE WriteBurst \/ ReadBurst
  BY <1>4 DEF WriteBurst, ReadBurst, GetBurstCount, Return
<1>5. CASE CheckReady \/ Write \/ Go \/ Read \/ Done
  BY <1>5 DEF CheckReady, Write, Go, Read, Done, Return
<1> QED BY <1>1, <1>2, <1>3, <1>4, <1>5 DEF DriverStep

\* The commands sent before the TPM was prompt stay that many.
LEMMA LateStep ==
    ASSUME TisInv, LateInv, [Next]_vars
    PROVE  LateInv'
<1>1. sizes \in Seq(CommandSizes) /\ Asked \in Nat
  BY DEF TisInv, TypeInv, Asked
<1>2. CASE DriverStep \/ TpmStep \/ UNCHANGED vars
  BY <1>2, SameCommand DEF LateInv, Asked
<1>3. CASE BecomesPrompt
  BY <1>1, <1>3 DEF BecomesPrompt, driver, LateInv, Asked
<1>4. CASE SendCommand
  <2>1. late' = late /\ Asked' = Asked + 1
    BY <1>1, <1>4 DEF SendCommand, Asked
  <2> QED BY <1>1, <2>1 DEF LateInv
<1> QED BY <1>2, <1>3, <1>4 DEF Next

\* Of commands that were sent too early nothing is said.
LEMMA NotFresh ==
    ASSUME TypeInv', CountInv', LateInv', ~ Fresh'
    PROVE  FreshInv' /\ PromptTpmIsHeard'
<1>1. CASE ~ prompt'
  BY <1>1 DEF FreshInv, Fresh, PromptTpmIsHeard
<1>2. CASE prompt'
  <2>1. Asked' <= late' /\ Len(results') \in Nat /\ Asked' \in Nat /\ late' \in Nat
    BY <1>2 DEF Fresh, LateInv, TypeInv, Asked
  <2>2. Len(results') <= late'
    BY <2>1 DEF CountInv
  <2>3. late' + 1 .. Len(results') = {}
    BY <2>1, <2>2
  <2> QED BY <2>3 DEF FreshInv, PromptTpmIsHeard
<1> QED BY <1>1, <1>2

\* As long as nothing is returned, what has been returned is right.
LEMMA HeardStays ==
    ASSUME PromptTpmIsHeard, UNCHANGED << prompt, late, results >>
    PROVE  PromptTpmIsHeard'
  BY DEF PromptTpmIsHeard

-----------------------------------------------------------------------------
\* A look at a prompt TPM that shows what the driver waits for ends the wait.
LEMMA WaitHeard ==
    ASSUME prompt, NEW at, NEW mask, NEW status, NEW next,
           WaitForStatus(at, mask, status, next), Bits \intersect mask = status
    PROVE  pc' = next /\ Stays /\ UNCHANGED << device, prompt, late >>
<1>1. StatusRead = {Bits}
  BY DEF StatusRead
<1>2. PollOr(Bits \intersect mask = status, next)
  BY <1>1 DEF WaitForStatus
<1>3. PollOr(TRUE, next)
  BY <1>2 DEF PollOr, Poll
<1> QED BY <1>3 DEF PollOr, Poll, WaitForStatus

\* A TPM that takes or has something says how much at the first look, and no more of it is
\* used than one frame carries.
LEMMA BurstHeard ==
    ASSUME prompt, NEW at, NEW next, GetBurstCount(at, next), BurstRead \subseteq Nat \ {0}
    PROVE  /\ pc' = next /\ burst' <= Frame
           /\ UNCHANGED << sizes, pos, rspSz, answer, results, device, prompt, late >>
<1>1. PICK b \in BurstRead :
         IF b = 0 /\ polls = 1 THEN Return(0)
         ELSE /\ Poll(b > 0, next, "idle") /\ burst' = Capped(b)
              /\ UNCHANGED << sizes, pos, rspSz, answer, results >>
  BY DEF GetBurstCount
<1>2. b \in Nat /\ b > 0 /\ Frame \in Nat
  BY TisAssumption
<1>3. /\ Poll(b > 0, next, "idle") /\ burst' = Capped(b)
      /\ UNCHANGED << sizes, pos, rspSz, answer, results >>
  BY <1>1, <1>2
<1>4. pc' = next
  BY <1>2, <1>3 DEF Poll
<1>5. burst' <= Frame
  BY <1>2, <1>3 DEF Capped, Lesser
<1> QED BY <1>3, <1>4, <1>5 DEF GetBurstCount

\* What a prompt TPM that has come up can be in when the driver looks at it.
LEMMA SettledStates ==
    ASSUME TisInv, StartedInv, prompt, Settled, pc \notin Before
    PROVE  tpm \in {"idle", "ready", "reception", "completion"}
  BY DEF TisInv, TypeInv, StartedInv, Settled, Before

\* The TPM is ready for the command at once, or it is told to be.
LEMMA CheckReadyHeard ==
    ASSUME TisInv, HeardInv, Fresh, CheckReady
    PROVE  FreshInv' /\ UNCHANGED results
<1>1. pc = "status" /\ Settled /\ prompt /\ UNCHANGED results
  BY DEF CheckReady, Fresh
<1>2. tpm \in {"idle", "ready", "reception", "completion"}
  BY <1>1, SettledStates DEF HeardInv, Before
<1>3. CASE pc' = "writeBurst"
  BY <1>1, <1>3 DEF FreshInv, Reading
<1>4. CASE "commandReady" \notin Bits /\ pc' = "waitReady" /\ CommandReadyWritten
  <2>1. tpm # "ready"
    BY <1>4 DEF Bits
  <2>2. tpm' \in {"ready", "aborting"}
    BY <1>1, <1>2, <1>4, <2>1 DEF CommandReadyWritten
  <2> QED BY <1>1, <1>4, <2>2 DEF FreshInv, Reading
<1>5. StatusRead = {Bits}
  BY <1>1 DEF StatusRead
<1> QED BY <1>1, <1>3, <1>4, <1>5 DEF CheckReady

\* What it was at has been given up by the time it is looked at.
LEMMA WaitReadyHeard ==
    ASSUME TisInv, HeardInv, Fresh, WaitReady
    PROVE  FreshInv' /\ UNCHANGED results
<1>1. pc = "waitReady" /\ Settled /\ prompt
  BY DEF WaitReady, WaitForStatus, Fresh
<1>2. tpm = "ready"
  BY <1>1 DEF HeardInv, FreshInv, Settled
<1>3. Bits \intersect {"commandReady"} = {"commandReady"}
  BY <1>2 DEF Bits
<1>4. pc' = "writeBurst" /\ Stays
  BY <1>1, <1>3, WaitHeard DEF WaitReady
<1> QED BY <1>4 DEF FreshInv, Reading, Stays

\* It takes something as long as the command is not whole.
LEMMA WriteBurstHeard ==
    ASSUME TisInv, HeardInv, Fresh, WriteBurst
    PROVE  FreshInv' /\ UNCHANGED results
<1>1. pc = "writeBurst" /\ prompt
  BY DEF WriteBurst, GetBurstCount, Fresh
<1>2. tpm \in {"ready", "reception"} /\ Frame \in Nat
  BY <1>1, TisAssumption DEF TisInv, SendingInv, Sending
<1>3. BurstRead \subseteq Nat \ {0}
  BY <1>1, <1>2 DEF BurstRead
<1>4. pc' = "write" /\ burst' <= Frame /\ UNCHANGED results
  BY <1>1, <1>3, BurstHeard DEF WriteBurst
<1> QED BY <1>4 DEF FreshInv, Reading

\* A frame is written, and the TPM has received the beginning of the command.
LEMMA WriteHeard ==
    ASSUME TisInv, HeardInv, Fresh, Write
    PROVE  FreshInv' /\ UNCHANGED results
<1> DEFINE size == sizes[Asked]
           x == Lesser(size - pos, burst)
<1>1. pc = "write"
  BY DEF Write
<1>2. Asked > 0 /\ Asked \in Nat
  BY <1>1 DEF TisInv, TypeInv, CountInv, Before, Asked
<1>3. size \in Nat /\ size > 0
  BY <1>2, SizeFacts DEF TisInv
<1>4. /\ tpm \in {"ready", "reception"} /\ pos \in Nat /\ pos <= size
      /\ burst \in Nat /\ burst > 0 /\ burst <= Frame /\ Frame \in Nat
  BY <1>1, TisAssumption DEF TisInv, TypeInv, SendingInv, Sending, HeardInv, FreshInv
<1>5. x \in Nat /\ ~ (x > Frame) /\ (pos < size => x > 0) /\ pos + x <= size
  BY <1>3, <1>4 DEF Lesser
<1>6. /\ Received(SubSeq(Command(Asked), pos + 1, pos + x)) /\ pos' = pos + x
      /\ pc' = IF pos' < size THEN "waitExpect" ELSE "waitWhole"
      /\ UNCHANGED << sizes, results >>
  BY <1>5 DEF Write, Asked
<1>7. tpm' = "reception"
  BY <1>4, <1>6 DEF Received
<1>8. pos' < size => pos' > 0
  BY <1>3, <1>4, <1>5, <1>6
<1> QED BY <1>6, <1>7, <1>8 DEF FreshInv, Reading, Asked

\* What the FIFO holds of the command at hand tells its length.
LEMMA ReceivedLength ==
    ASSUME TisInv, pc \in Sending, pos > 0
    PROVE  /\ tpm = "reception" /\ Len(fifo) = pos /\ fifo[1][3] = sizes[Asked]
           /\ pos \in Nat /\ sizes[Asked] \in Nat
<1>1. Asked > 0 /\ Asked \in Nat
  BY DEF TisInv, TypeInv, CountInv, Before, Sending, Asked
<1>2. sizes[Asked] \in Nat
  BY <1>1, SizeFacts DEF TisInv
<1>3. /\ tpm \in {"ready", "reception"} /\ (tpm = "ready" => pos = 0)
      /\ fifo = Stretch(Asked, sizes[Asked], 0, pos) /\ pos \in Nat
  BY DEF TisInv, TypeInv, SendingInv
<1>4. fifo[1] = << Asked, 1, sizes[Asked] >> /\ Len(fifo) = pos
  BY <1>3, FirstCell, Zenon
<1> QED BY <1>2, <1>3, <1>4

\* It expects the rest of a command that is not whole.
LEMMA WaitExpectHeard ==
    ASSUME TisInv, HeardInv, Fresh, WaitExpect
    PROVE  FreshInv' /\ UNCHANGED results
<1>1. pc = "waitExpect" /\ prompt
  BY DEF WaitExpect, WaitForStatus, Fresh
<1>2. 0 < pos /\ pos < sizes[Asked]
  BY <1>1 DEF HeardInv, FreshInv
<1>3. tpm = "reception" /\ Len(fifo) < fifo[1][3]
  BY <1>1, <1>2, ReceivedLength DEF Sending
<1>4. Bits \intersect {"expect"} = {"expect"}
  BY <1>3 DEF Bits
<1>5. pc' = "writeBurst" /\ Stays
  BY <1>1, <1>4, WaitHeard DEF WaitExpect
<1> QED BY <1>5 DEF FreshInv, Reading, Stays

\* It expects no more of a command that is whole.
LEMMA WaitWholeHeard ==
    ASSUME TisInv, HeardInv, Fresh, WaitWhole
    PROVE  FreshInv' /\ UNCHANGED results
<1>1. pc = "waitWhole" /\ prompt
  BY DEF WaitWhole, WaitForStatus, Fresh
<1>2. Asked > 0
  BY <1>1 DEF TisInv, TypeInv, CountInv, Before, Asked
<1>3. pos = sizes[Asked] /\ sizes[Asked] > 0
  BY <1>1, <1>2, SizeFacts DEF TisInv, SendingInv, Sending
<1>4. tpm = "reception" /\ ~ (Len(fifo) < fifo[1][3])
  BY <1>1, <1>3, ReceivedLength DEF Sending
<1>5. Bits \intersect {"expect", "valid"} = {"valid"}
  BY <1>4 DEF Bits
<1>6. pc' = "go" /\ Stays
  BY <1>1, <1>5, WaitHeard DEF WaitWhole
<1> QED BY <1>6 DEF FreshInv, Reading, Stays

\* The TPM executes the command, and has no answer yet.
LEMMA GoHeard ==
    ASSUME TisInv, HeardInv, Fresh, Go
    PROVE  FreshInv' /\ UNCHANGED results
<1>1. pc = "go" /\ pc' = "waitAvail" /\ tpm' \in {tpm, "execution"} /\ UNCHANGED results
  BY DEF Go
<1>2. tpm # "completion"
  BY <1>1 DEF TisInv, SendingInv, Sending
<1> QED BY <1>1, <1>2 DEF FreshInv

\* As long as the answer has not been read there is something of it, and it fits.
LEMMA AnswerIsThere ==
    ASSUME TisInv, HeardInv, Fresh, pc \in Reading \ {"done"}, tpm = "completion",
           NEW len \in Nat, AnswerInv(len)
    PROVE  /\ Len(fifo) \in Nat /\ Len(fifo) > 0 /\ fifo # << >>
           /\ len <= PacketSize
<1>1. /\ Header <= len /\ pos <= len /\ pos < rspSz
      /\ fifo = Stretch(Asked, len, pos, len)
      /\ rspSz = IF pos < Header THEN Header ELSE len
  BY DEF AnswerInv
<1>2. pos \in Nat /\ Header \in Nat
  BY TisAssumption DEF TisInv, TypeInv
<1>3. pos < len
  BY <1>1, <1>2
<1>4. PICK n : n = Asked
  OBVIOUS
<1>5. /\ Len(Stretch(n, len, pos, len)) = len - pos
      /\ \A k \in 1 .. len - pos : Stretch(n, len, pos, len)[k] = << n, pos + k, len >>
  <2>1. pos \in Nat /\ len \in Nat /\ pos <= len
    BY <1>1, <1>2
  <2> QED BY ONLY <2>1, StretchIsSeq, ZenonT(60)
<1>6. Len(fifo) = len - pos /\ fifo[1] = << n, pos + 1, len >>
  <2>1. 1 \in 1 .. len - pos
    BY <1>2, <1>3
  <2>2. Len(fifo) = len - pos
    BY <1>1, <1>4, <1>5
  <2>3. fifo[1] = << n, pos + 1, len >>
    BY ONLY <1>1, <1>4, <1>5, <2>1, Zenon
  <2> QED BY <2>2, <2>3
<1>7. Len(fifo) \in Nat /\ Len(fifo) > 0 /\ fifo # << >>
  BY <1>2, <1>3, <1>6
<1>8. fifo[1][3] <= PacketSize
  <2>1. \A i \in 1 .. Len(fifo) : fifo[i][3] <= PacketSize
    BY DEF HeardInv, FreshInv
  <2>2. 1 \in 1 .. Len(fifo)
    BY <1>7
  <2> QED BY <2>1, <2>2
<1> QED BY <1>6, <1>7, <1>8

\* A prompt TPM has executed the command at hand before it is looked at.
LEMMA AnswerSettled ==
    ASSUME TisInv, HeardInv, Fresh, Settled, pc \in Reading
    PROVE  tpm = "completion" /\ \E len \in Nat : AnswerInv(len)
  BY DEF TisInv, ReadingInv, Settled, Fresh

\* It has an answer to be read.
LEMMA WaitAvailHeard ==
    ASSUME TisInv, HeardInv, Fresh, WaitAvail
    PROVE  FreshInv' /\ UNCHANGED results
<1>1. pc = "waitAvail" /\ Settled /\ prompt
  BY DEF WaitAvail, WaitForStatus, Fresh
<1>2. tpm = "completion" /\ \E len \in Nat : AnswerInv(len)
  BY <1>1, AnswerSettled DEF Reading
<1>3. fifo # << >>
  BY <1>1, <1>2, AnswerIsThere DEF Reading
<1>4. Bits \intersect {"avail"} = {"avail"}
  BY <1>2, <1>3 DEF Bits
<1>5. pc' = "readBurst" /\ Stays /\ UNCHANGED << device, prompt, late >>
  BY <1>1, <1>4, WaitHeard DEF WaitAvail
<1> QED BY <1>1, <1>5 DEF HeardInv, FreshInv, Fresh, Reading, Stays, device, Asked

\* And it says how much of it.
LEMMA ReadBurstHeard ==
    ASSUME TisInv, HeardInv, Fresh, ReadBurst
    PROVE  FreshInv' /\ UNCHANGED results
<1>1. pc = "readBurst" /\ Settled /\ prompt
  BY DEF ReadBurst, GetBurstCount, Fresh
<1>2. tpm = "completion" /\ \E len \in Nat : AnswerInv(len)
  BY <1>1, AnswerSettled DEF Reading
<1>3. fifo # << >>
  BY <1>1, <1>2, AnswerIsThere DEF Reading
<1>4. BurstRead = 1 .. Len(fifo)
  BY <1>1, <1>2, <1>3 DEF BurstRead
<1>5. BurstRead \subseteq Nat \ {0}
  BY <1>4
<1>6. /\ pc' = "read" /\ burst' <= Frame
      /\ UNCHANGED << sizes, results, device, prompt, late >>
  BY <1>1, <1>5, BurstHeard DEF ReadBurst
<1> QED BY <1>1, <1>6 DEF HeardInv, FreshInv, Fresh, Reading, device, Asked

\* A frame is read, and neither it nor the length found in it is too large.
LEMMA ReadHeard ==
    ASSUME TisInv, HeardInv, Fresh, Read
    PROVE  FreshInv' /\ UNCHANGED results
<1> DEFINE x == Lesser(rspSz - pos, burst)
           all == answer \o SubSeq(fifo, 1, x)
           size == IF pos + x = Header THEN all[1][3] ELSE rspSz
           y == pos + x
<1>1. /\ pc = "read" /\ UNCHANGED << tpm, prompt, late >>
      /\ fifo' = SubSeq(fifo, x + 1, Len(fifo))
      /\ IF x > Frame \/ (pos + x = Header /\ size > PacketSize)
         THEN Return(0)
         ELSE /\ answer' = all /\ pos' = pos + x /\ rspSz' = size
              /\ pc' = IF pos' < rspSz' THEN "waitAvail" ELSE "done"
              /\ UNCHANGED << sizes, burst, polls, results >>
  BY DEF Read
<1>2. tpm = "completion" /\ \E len \in Nat : AnswerInv(len)
  BY <1>1 DEF TisInv, ReadingInv, Reading
<1>3. PICK len \in Nat : AnswerInv(len)
  BY <1>2
<1>4. len <= PacketSize /\ PacketSize \in Nat
  BY <1>1, <1>2, <1>3, AnswerIsThere, TisAssumption DEF Reading
<1>5. /\ x \in Nat /\ y \in Nat /\ y <= len
      /\ fifo' = Stretch(Asked, len, y, len) /\ all[1][3] = len
  BY <1>1, <1>3, ReadPart
<1>6. burst \in Nat /\ burst <= Frame /\ Frame \in Nat /\ rspSz - pos \in Int
  <2>1. burst \in Nat /\ pos \in Nat /\ Frame \in Nat /\ Header \in Nat
    BY TisAssumption DEF TisInv, TypeInv
  <2>2. rspSz \in Nat
    BY <1>3, <2>1 DEF AnswerInv
  <2> QED BY <1>1, <2>1, <2>2 DEF HeardInv, FreshInv
<1>7. ~ (x > Frame)
  BY <1>6 DEF Lesser
<1> HIDE DEF x, all
<1>8. ~ (pos + x = Header /\ size > PacketSize)
  BY <1>4, <1>5
<1>9. pc' \in {"waitAvail", "done"} /\ UNCHANGED results
  BY <1>1, <1>7, <1>8
<1> HIDE DEF size, y
<1>10. \A i \in 1 .. Len(fifo') : fifo'[i][3] <= PacketSize
  <2>1. PICK n : n = Asked
    OBVIOUS
  <2>2. PICK g : g = fifo'
    OBVIOUS
  <2>3. /\ Len(Stretch(n, len, y, len)) = len - y
        /\ \A k \in 1 .. len - y : Stretch(n, len, y, len)[k] = << n, y + k, len >>
    <3>1. y \in Nat /\ len \in Nat /\ y <= len
      BY <1>5
    <3> QED BY ONLY <3>1, StretchIsSeq, ZenonT(60)
  <2>4. g = Stretch(n, len, y, len)
    BY <1>5, <2>1, <2>2
  <2>5. \A i \in 1 .. Len(g) : g[i][3] = len
    BY ONLY <2>3, <2>4
  <2> QED BY <1>4, <2>2, <2>5
<1> QED BY <1>9, <1>10 DEF FreshInv

\* The answer is returned, and it is the one to the command at hand.
LEMMA DoneHeard ==
    ASSUME TisInv, HeardInv, Done
    PROVE  FreshInv' /\ PromptTpmIsHeard'
<1>1. Return(Asked) /\ UNCHANGED << prompt, late >>
  BY DoneReturns DEF Done
<1>2. pc' = "idle" /\ results' = Append(results, Asked)
  BY <1>1 DEF Return
<1>3. Asked = Len(results) + 1 /\ results \in Seq(Nat) /\ Asked \in Nat
  BY DEF Done, TisInv, TypeInv, CountInv, Before, Asked
<1>4. /\ Len(results') = Len(results) + 1 /\ Len(results) \in Nat
      /\ results'[Len(results) + 1] = Asked
      /\ \A i \in 1 .. Len(results) : results'[i] = results[i]
  BY <1>2, <1>3
<1>5. PromptTpmIsHeard'
  <2>1. late \in Nat /\ (prompt => \A n \in late + 1 .. Len(results) : results[n] = n)
    BY DEF HeardInv, LateInv, PromptTpmIsHeard
  <2>2. prompt => \A n \in late + 1 .. Len(results') : results'[n] = n
    <3> SUFFICES ASSUME prompt, NEW n \in late + 1 .. Len(results') PROVE results'[n] = n
      OBVIOUS
    <3>1. CASE n = Len(results) + 1
      BY <1>3, <1>4, <3>1
    <3>2. CASE n # Len(results) + 1
      <4>1. n \in 1 .. Len(results) /\ n \in late + 1 .. Len(results)
        BY <1>4, <2>1, <3>2
      <4> QED BY <1>4, <2>1, <4>1
    <3> QED BY <3>1, <3>2
  <2> QED BY <1>1, <2>2 DEF PromptTpmIsHeard
<1>6. FreshInv'
  BY <1>2 DEF FreshInv, Reading
<1> QED BY <1>5, <1>6

\* A prompt TPM gives answers that fit.
LEMMA TpmStepHeard ==
    ASSUME TisInv, HeardInv, Fresh, TpmStep
    PROVE  FreshInv' /\ UNCHANGED results
<1>1. UNCHANGED << pc, sizes, pos, burst, prompt, late, results >>
  BY DEF TpmStep, driver
<1>2. CASE TpmStarts \/ TpmAborts
  <2>1. /\ tpm \in {"absent", "inactive", "aborting"}
        /\ tpm' \in {"inactive", "idle", "ready"} /\ (tpm = "aborting" => tpm' = "ready")
    BY <1>2 DEF TpmStarts, TpmAborts
  <2> QED BY <1>1, <2>1 DEF HeardInv, FreshInv, Fresh, Asked
<1>3. CASE TpmExecutes
  <2>1. tpm = "execution" /\ prompt
    BY <1>3 DEF TpmExecutes, Fresh
  <2>2. PICK len \in AnswerSizes : len <= PacketSize /\ fifo' = AnswerOf(fifo[1][1], len)
    BY <1>3, <2>1 DEF TpmExecutes
  <2>3. PICK m : m = fifo[1][1]
    OBVIOUS
  <2>4. PICK g : g = fifo'
    OBVIOUS
  <2>5. len \in Nat /\ g = [k \in 1 .. len |-> << m, k, len >>]
    BY <2>2, <2>3, <2>4, TisAssumption DEF AnswerOf
  <2>6. Len(g) = len /\ \A i \in 1 .. Len(g) : g[i][3] = len
    BY ONLY <2>5
  <2>7. \A i \in 1 .. Len(fifo') : fifo'[i][3] <= PacketSize
    BY <2>2, <2>4, <2>6
  <2> QED BY <1>1, <2>1, <2>7 DEF HeardInv, FreshInv, Fresh, Asked
<1> QED BY <1>2, <1>3 DEF TpmStep

\* The start of the chip is no part of a call.
LEMMA StartupHeard ==
    ASSUME ChipStartup
    PROVE  FreshInv' /\ UNCHANGED results
<1>1. pc' \in Before /\ UNCHANGED results
  BY DEF ChipStartup, StartupWait, RequestLocality, CheckLocality, GetInfo, Poll, Before
<1> QED BY <1>1 DEF FreshInv, Before, Reading

\* Every step keeps it.
LEMMA HeardStep ==
    ASSUME TisInv, TisInv', HeardInv, [Next]_vars
    PROVE  HeardInv'
<1>1. StartedInv' /\ LateInv'
  BY StartedStep, LateStep DEF HeardInv
<1>2. CASE ~ Fresh'
  BY <1>1, <1>2, NotFresh DEF TisInv, HeardInv
<1>3. CASE Fresh' /\ SendCommand
  <2>1. pc' = "status" /\ UNCHANGED << prompt, late, results >>
    BY <1>3 DEF SendCommand
  <2>2. PromptTpmIsHeard'
    BY <2>1, HeardStays DEF HeardInv
  <2> QED BY <1>1, <2>1, <2>2 DEF HeardInv, FreshInv, Reading
<1>4. CASE Fresh' /\ (DriverStep \/ TpmStep)
  <2>1. Fresh /\ UNCHANGED << prompt, late >>
    BY <1>4, SameCommand DEF Fresh, Asked
  <2>2. CASE Done
    BY <1>1, <2>2, DoneHeard DEF HeardInv
  <2>3. CASE ~ Done
    <3>1. FreshInv' /\ UNCHANGED results
      BY <1>4, <2>1, <2>3, StartupHeard, CheckReadyHeard, WaitReadyHeard, WriteBurstHeard,
         WriteHeard, WaitExpectHeard, WaitWholeHeard, GoHeard, WaitAvailHeard, ReadBurstHeard,
         ReadHeard, TpmStepHeard DEF DriverStep
    <3>2. PromptTpmIsHeard'
      BY <2>1, <3>1, HeardStays DEF HeardInv
    <3> QED BY <1>1, <3>1, <3>2 DEF HeardInv
  <2> QED BY <2>2, <2>3
<1>5. CASE Fresh' /\ BecomesPrompt
  BY <1>5 DEF BecomesPrompt, driver, Fresh, TisInv, TypeInv, Asked
<1>6. CASE Fresh' /\ UNCHANGED vars
  <2>1. UNCHANGED << pc, sizes, pos, burst, tpm, fifo, prompt, late, results >>
    BY <1>6 DEF vars, driver, device
  <2>2. FreshInv'
    BY <2>1 DEF HeardInv, FreshInv, Fresh, Asked
  <2>3. PromptTpmIsHeard'
    BY <2>1, HeardStays DEF HeardInv
  <2> QED BY <1>1, <2>2, <2>3 DEF HeardInv
<1> QED BY <1>2, <1>3, <1>4, <1>5, <1>6 DEF Next

\* Whatever failed calls have left in the TPM or on the wire (an answer nobody has read, a
\* command written half way, one still executing), TPM2_TIS_SendCommand (tpm2_tis.c) makes the
\* TPM ready anew, and every command that is sent after the TPM has become prompt is answered.
THEOREM PromptTpmAlwaysHeard == Spec => []PromptTpmIsHeard
<1>1. Init => TisInv
  BY InitHasInv
<1>2. Init => HeardInv
  BY DEF Init, HeardInv, StartedInv, LateInv, FreshInv, Fresh, PromptTpmIsHeard, Asked
<1>3. TisInv /\ [Next]_vars => TisInv'
  BY StepKeeps
<1>4. TisInv /\ TisInv' /\ HeardInv /\ [Next]_vars => HeardInv'
  BY HeardStep
<1>5. HeardInv => PromptTpmIsHeard
  BY DEF HeardInv
<1> QED BY <1>1, <1>2, <1>3, <1>4, <1>5, PTL DEF Spec
=============================================================================
