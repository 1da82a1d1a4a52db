-------------------------- MODULE SecureChannelProofs --------------------------
(***************************************************************************)
(* Proofs about SecureChannel, for every size, length and number of        *)
(* messages and failures.                                                  *)
(*                                                                         *)
(* 1. An IV is repeated only when the TPM refuses a random number, once    *)
(*    for each refusal (IvRepeatedOnlyWhenRefused).  That is not           *)
(*    inductive: it says nothing of the IV that has been read and not been *)
(*    used.  IvInv adds that the IVs follow the random numbers, that the   *)
(*    one about to be used is the latest of them, and that a repetition    *)
(*    which is about to be made has its refusal, too (Pending).            *)
(* 2. What arrives in the clear arrives in order (PlainInOrder): PlainInv  *)
(*    follows a message from the call that takes it through the buffers of *)
(*    the stack to the end that has opened it.                             *)
(* 3. When messages stay apart and there is room to open them, what is     *)
(*    delivered is whole (WholeInv): what write() reports as sent arrives, *)
(*    and each direction implements MessageChannel.                        *)
(***************************************************************************)
EXTENDS SecureChannel, SequenceTheorems, FiniteSetTheorems, TLAPS

NumbersInv ==
    /\ random \in Nat /\ port \in Nat /\ iv \in Nat /\ refused \in Nat
    /\ used \in Seq(Nat)

\* The dataport holds the latest random number, and the IVs used follow those numbers.
UsedInv ==
    /\ port = random
    /\ \A i \in DOMAIN used : used[i] <= random
    /\ \A i, j \in DOMAIN used : i < j => used[i] <= used[j]

LatestInv == pc = "encrypt" => iv = random

\* The IV that is to be used next is that of the last message.
Pending == IF pc = "encrypt" /\ used # << >> /\ used[Len(used)] = iv THEN 1 ELSE 0

RepeatInv ==
    /\ IsFiniteSet(Repeated)
    /\ Cardinality(Repeated) + Pending <= refused

IvInv == NumbersInv /\ UsedInv /\ LatestInv /\ RepeatInv

-----------------------------------------------------------------------------
\* What a step leaves alone of the random numbers keeps the invariant, as long as it does
\* not go on to encrypt.
LEMMA RandomUntouched ==
    ASSUME IvInv, UNCHANGED << entropy, used >>,
           iv' \in Nat, pc' # "encrypt" \/ UNCHANGED << pc, iv >>
    PROVE  IvInv'
<1>1. UNCHANGED << port, random, refused, used >>
  BY DEF entropy
<1>2. NumbersInv' /\ UsedInv' /\ LatestInv'
  BY <1>1 DEF IvInv, NumbersInv, UsedInv, LatestInv
<1>3. Repeated' = Repeated
  BY <1>1 DEF Repeated
<1>4. Pending \in {0, 1} /\ Pending' \in {0, Pending}
  BY <1>1 DEF Pending
<1>5. Cardinality(Repeated) \in Nat /\ IsFiniteSet(Repeated)
  BY FS_CardinalityType DEF IvInv, RepeatInv
<1>6. RepeatInv'
  BY <1>1, <1>3, <1>4, <1>5 DEF IvInv, RepeatInv, NumbersInv
<1> QED BY <1>2, <1>6 DEF IvInv

\* A random number that has been generated is above all IVs used; one that has been
\* refused may repeat the last of them.
LEMMA ReadIvKeeps == ASSUME IvInv, ReadIv PROVE IvInv'
<1>1. used' = used /\ iv' = port' /\ used \in Seq(Nat) /\ random \in Nat /\ refused \in Nat
  BY DEF ReadIv, IvInv, NumbersInv
<1>2. Repeated' = Repeated /\ Cardinality(Repeated) \in Nat /\ Pending \in {0, 1}
      /\ IsFiniteSet(Repeated) /\ Cardinality(Repeated) + Pending <= refused
      /\ Pending' \in {0, 1}
  BY <1>1, FS_CardinalityType DEF Repeated, Pending, IvInv, RepeatInv
<1>3. CASE random' = random + 1 /\ port' = random + 1 /\ UNCHANGED << refused, faults >>
  <2>1. NumbersInv' /\ LatestInv'
    BY <1>1, <1>3 DEF IvInv, NumbersInv, LatestInv
  <2>2. \A i \in DOMAIN used : used[i] <= random /\ used[i] \in Nat
    BY <1>1 DEF IvInv, UsedInv
  <2>3. UsedInv'
    BY <1>1, <1>3, <2>2 DEF IvInv, UsedInv
  <2>4. used # << >> => used[Len(used)] # iv'
    <3>1. used # << >> => Len(used) \in DOMAIN used
      BY <1>1
    <3> QED
      BY <1>1, <1>3, <2>2, <3>1
  <2>5. Pending' = 0
    BY <1>1, <2>4 DEF Pending
  <2> QED
    BY <1>2, <1>3, <2>1, <2>3, <2>5, <1>1 DEF IvInv, RepeatInv
<1>4. CASE Fails /\ refused' = refused + 1 /\ UNCHANGED << port, random >>
  <2>1. NumbersInv' /\ LatestInv' /\ UsedInv'
    BY <1>1, <1>4 DEF IvInv, NumbersInv, LatestInv, UsedInv
  <2> QED
    BY <1>1, <1>2, <1>4, <2>1 DEF IvInv, RepeatInv
<1> QED BY <1>3, <1>4 DEF ReadIv

\* The message that is encrypted repeats the IV of the last one, or does not.
LEMMA EncryptKeeps == ASSUME IvInv, Encrypt PROVE IvInv'
<1>1. UNCHANGED << random, port, refused >> /\ pc = "encrypt"
  BY DEF Encrypt, entropy
<1>2. iv' \in Nat /\ pc' # "encrypt"
  BY DEF Encrypt, Return, IvInv, NumbersInv
<1>3. CASE used' = used
  BY <1>1, <1>2, <1>3, RandomUntouched DEF entropy
<1>4. CASE used' = Append(used, iv)
  <2>0. PICK l \in Nat : l = Len(used)
    BY DEF IvInv, NumbersInv
  <2>1. used \in Seq(Nat) /\ iv \in Nat /\ random \in Nat /\ refused \in Nat /\ iv = random
    BY <1>1 DEF IvInv, NumbersInv, LatestInv
  <2>2. /\ DOMAIN used = 1 .. l /\ DOMAIN used' = 1 .. l + 1
        /\ used' \in Seq(Nat) /\ used'[l + 1] = iv
        /\ \A i \in 1 .. l : used'[i] = used[i] /\ used[i] \in Nat
    BY <1>4, <2>0, <2>1
  <2>3. NumbersInv' /\ LatestInv'
    BY <1>1, <1>2, <2>1, <2>2 DEF IvInv, NumbersInv, LatestInv
  <2>4. UsedInv'
    <3>1. \A i \in 1 .. l : used[i] <= random
      BY <2>2 DEF IvInv, UsedInv
    <3>2. \A i, j \in 1 .. l : i < j => used[i] <= used[j]
      BY <2>2 DEF IvInv, UsedInv
    <3>3. ASSUME NEW i \in 1 .. l + 1, NEW j \in 1 .. l + 1, i < j
          PROVE  used'[i] <= used'[j]
      <4>1. i \in 1 .. l
        BY <2>0, <3>3
      <4>2. CASE j \in 1 .. l
        BY <2>2, <3>2, <3>3, <4>1, <4>2
      <4>3. CASE j = l + 1
        BY <2>1, <2>2, <3>1, <4>1, <4>3
      <4> QED
        BY <2>0, <4>2, <4>3
    <3>4. \A i \in 1 .. l + 1 : used'[i] <= random
      BY <2>0, <2>1, <2>2, <3>1
    <3> QED
      BY <1>1, <2>2, <3>3, <3>4 DEF IvInv, UsedInv
  <2>5. RepeatInv'
    <3>1. IsFiniteSet(Repeated) /\ Cardinality(Repeated) \in Nat
      BY FS_CardinalityType DEF IvInv, RepeatInv
    <3>2. Pending' = 0
      BY <1>2 DEF Pending
    <3>3. CASE Pending = 1
      <4>1. Repeated' = Repeated \union {l + 1} /\ l + 1 \notin Repeated
        <5>1. l # 0 /\ used[l] = iv
          BY <2>0, <2>1, <3>3 DEF Pending
        <5>2. \A i \in 1 .. l : i > 1 => i - 1 \in 1 .. l
          BY <2>0
        <5>3. l + 1 > 1 /\ (l + 1) - 1 = l /\ l \in 1 .. l
          BY <2>0, <5>1
        <5>4. \A i \in 1 .. l + 1 : i \in 1 .. l \/ i = l + 1
          BY <2>0
        <5>5. l + 1 \notin 1 .. l /\ \A i \in 1 .. l : i \in 1 .. l + 1
          BY <2>0
        <5> QED
          BY <2>2, <5>1, <5>2, <5>3, <5>4, <5>5 DEF Repeated
      <4>2. IsFiniteSet(Repeated') /\ Cardinality(Repeated') = Cardinality(Repeated) + 1
        BY <3>1, <4>1, FS_AddElement
      <4> QED
        BY <1>1, <3>1, <3>2, <3>3, <4>2, <2>1 DEF RepeatInv, IvInv
    <3>4. CASE Pending = 0
      <4>1. Repeated' = Repeated
        <5>1. l = 0 \/ used[l] # iv
          BY <1>1, <2>0, <2>1, <3>4 DEF Pending
        <5>2. \A i \in 1 .. l : i > 1 => i - 1 \in 1 .. l
          BY <2>0
        <5>3. (l + 1) - 1 = l /\ (l + 1 > 1 => l # 0 /\ l \in 1 .. l)
          BY <2>0
        <5>4. \A i \in 1 .. l + 1 : i \in 1 .. l \/ i = l + 1
          BY <2>0
        <5>5. \A i \in 1 .. l : i \in 1 .. l + 1
          BY <2>0
        <5> QED
          BY <2>2, <5>1, <5>2, <5>3, <5>4, <5>5 DEF Repeated
      <4> QED
        BY <1>1, <3>1, <3>2, <3>4, <4>1 DEF RepeatInv, IvInv
    <3> QED
      BY <3>3, <3>4 DEF Pending
  <2> QED BY <2>3, <2>4, <2>5 DEF IvInv
<1> QED BY <1>3, <1>4 DEF Encrypt

LEMMA InitHasInv == Init => IvInv
<1> SUFFICES ASSUME Init PROVE IvInv
  OBVIOUS
<1>1. used = << >> /\ pc = "idle" /\ refused = 0
  BY DEF Init
<1>2. Repeated = {} /\ Pending = 0
  BY <1>1 DEF Repeated, Pending
<1>3. IsFiniteSet(Repeated) /\ Cardinality(Repeated) = 0
  BY <1>2, FS_EmptySet
<1>4. NumbersInv /\ UsedInv /\ LatestInv
  BY DEF Init, NumbersInv, UsedInv, LatestInv
<1> QED
  BY <1>1, <1>2, <1>3, <1>4 DEF IvInv, RepeatInv

\* All other steps leave the random numbers alone.
LEMMA StepKeeps == IvInv /\ [Next]_vars => IvInv'
<1> SUFFICES ASSUME IvInv, [Next]_vars PROVE IvInv'
  OBVIOUS
<1>0. iv \in Nat
  BY DEF IvInv, NumbersInv
<1>1. CASE Write
  BY <1>0, <1>1, RandomUntouched DEF Write, Return
<1>2. CASE WriteLoadsKey
  BY <1>0, <1>2, RandomUntouched DEF WriteLoadsKey, Return
<1>3. CASE ReadIv
  BY <1>3, ReadIvKeeps
<1>4. CASE Encrypt
  BY <1>4, EncryptKeeps
<1>5. CASE Send
  BY <1>5, RandomUntouched DEF Send, Return
<1>6. CASE Read
  <2>1. iv' \in Nat /\ (pc' # "encrypt" \/ UNCHANGED << pc, iv >>) /\ UNCHANGED << entropy, used >>
    BY <1>0, <1>6 DEF Read, Return
  <2> QED BY <2>1, RandomUntouched
<1>7. CASE ReadLoadsKey
  BY <1>0, <1>7, RandomUntouched DEF ReadLoadsKey, Return
<1>8. CASE Decrypt
  BY <1>8, RandomUntouched DEF Decrypt, Return
<1>9. CASE PeerSend
  BY <1>0, <1>9, RandomUntouched DEF PeerSend, call
<1>10. CASE PeerReceive
  BY <1>0, <1>10, RandomUntouched DEF PeerReceive, call
<1>11. CASE UNCHANGED vars
  BY <1>0, <1>11, RandomUntouched DEF vars, call
<1> QED
  BY <1>1, <1>2, <1>3, <1>4, <1>5, <1>6, <1>7, <1>8, <1>9, <1>10, <1>11 DEF Next, App

\* IvRepeatedOnlyWhenRefused of SecureChannel, whatever is sent, cut and lost: a message is
\* encrypted under the IV of an earlier one (encrypt_AES_GCM) only when that is the latest,
\* and entropy_rpc_read has left it in the dataport once for each of them.
THEOREM IvRepeatsOnlyWhenRefused == Spec => []IvRepeatedOnlyWhenRefused
<1>1. Init => IvInv
  BY InitHasInv
<1>2. IvInv /\ [Next]_vars => IvInv'
  BY StepKeeps
<1>3. IvInv => IvRepeatedOnlyWhenRefused
  <2> SUFFICES ASSUME IvInv PROVE IvRepeatedOnlyWhenRefused
    OBVIOUS
  <2>1. Cardinality(Repeated) \in Nat /\ Pending \in {0, 1} /\ refused \in Nat
    BY FS_CardinalityType DEF IvInv, RepeatInv, Pending, NumbersInv
  <2> QED
    BY <2>1 DEF IvInv, UsedInv, RepeatInv, IvRepeatedOnlyWhenRefused
<1> QED BY <1>1, <1>2, <1>3, PTL DEF Spec

-----------------------------------------------------------------------------
(* PlainInOrder.  One direction is a stream of cells and the chunks that    *)
(* an end has been given.  Two cells of a stream are of one message and as  *)
(* far apart as their places, or the later one is of a later message that   *)
(* begins between them (Aligned): so a cell whose place is where it stands  *)
(* in a chunk is of the message with which the chunk begins.                *)

Cell == Int \X Nat \X Nat \X Nat
Text == Int \X Nat

\* New text; Garbage has the number 0, old text one below it.
Shown(c) == c[1] > 0

Aligned(s) ==
    \A a, b \in 1 .. Len(s) :
        a < b => \/ s[a][3] = s[b][3] /\ s[b][2] - s[a][2] = b - a
                 \/ s[a][3] < s[b][3] /\ s[b][2] <= b - a

\* Every cell of s is before every cell of t.
Ahead(s, t) ==
    \A a \in 1 .. Len(s), k \in 1 .. Len(t) :
        s[a][3] < t[k][3] \/ (s[a][3] = t[k][3] /\ s[a][2] < t[k][2])

\* What has been given is of cells before those of s.
Behind(chunks, s) ==
    \A a \in 1 .. Len(chunks) : \A i \in 1 .. Len(chunks[a]), k \in 1 .. Len(s) :
        Shown(chunks[a][i])
        => \/ chunks[a][i][1] < s[k][3]
           \/ chunks[a][i][1] = s[k][3] /\ NonceSize + chunks[a][i][2] < s[k][2]

Below(s, m) == \A k \in 1 .. Len(s) : s[k][3] < m
GivenBelow(chunks, m) ==
    \A a \in 1 .. Len(chunks) : \A i \in 1 .. Len(chunks[a]) :
        Shown(chunks[a][i]) => chunks[a][i][1] < m

Chunk == Seq(Text)

Direction(chunks, s, m) ==
    /\ chunks \in Seq(Chunk) /\ s \in Seq(Cell)
    /\ Aligned(s) /\ Below(s, m) /\ Behind(chunks, s)
    /\ GivenBelow(chunks, m) /\ InOrder(chunks)

\* The cells of one message, from its beginning.
Piece(s, m) == \A k \in 1 .. Len(s) : s[k][2] = k /\ s[k][3] = m

-----------------------------------------------------------------------------
(* Facts about chunks and streams.                                          *)

LEMMA CellFacts ==
    ASSUME NEW s \in Seq(Cell), NEW k \in 1 .. Len(s)
    PROVE  /\ s[k] \in Cell /\ s[k][1] \in Int /\ s[k][2] \in Nat /\ s[k][3] \in Nat
           /\ s[k][4] \in Nat
<1>1. s[k] \in Cell
  OBVIOUS
<1> QED
  BY <1>1 DEF Cell

\* What is no garbage in a chunk is of a cell that stands at its place, under the IV with
\* which the chunk begins.
LEMMA OpenedFacts ==
    ASSUME NEW s \in Seq(Cell), Len(s) >= NonceSize
    PROVE  /\ Opened(s) \in Chunk /\ Len(Opened(s)) = Len(s) - NonceSize
           /\ \A i \in 1 .. Len(s) - NonceSize : Opened(s)[i] # Garbage =>
                 /\ Opened(s)[i] = TextOf(s[NonceSize + i], i)
                 /\ s[1][2] = 1 /\ s[NonceSize + i][2] = NonceSize + i
                 /\ s[NonceSize + i][1] = s[1][1]
           /\ \A i \in 1 .. Len(s) - NonceSize : Shown(Opened(s)[i]) =>
                 /\ Opened(s)[i] = << s[NonceSize + i][3], i >>
                 /\ s[1][2] = 1 /\ s[NonceSize + i][2] = NonceSize + i
<1>1. NonceSize \in Nat \ {0} /\ Len(s) \in Nat
  BY ChannelAssumption
<1>2. Len(s) - NonceSize \in Nat
  BY <1>1
<1>3. \A i \in 1 .. Len(s) - NonceSize :
         /\ NonceSize + i \in 1 .. Len(s)
         /\ s[NonceSize + i][3] \in Nat /\ s[NonceSize + i][4] \in Nat
         /\ TextOf(s[NonceSize + i], i) \in Text
  <2> TAKE i \in 1 .. Len(s) - NonceSize
  <2>1. NonceSize + i \in 1 .. Len(s)
    BY <1>1
  <2>2. s[NonceSize + i][3] \in Nat /\ s[NonceSize + i][4] \in Nat
    BY <2>1, CellFacts
  <2>3. TextOf(s[NonceSize + i], i) \in Text
    BY <2>2 DEF Text, TextOf
  <2> QED
    BY <2>1, <2>2, <2>3
<1>4. Garbage \in Text
  BY DEF Garbage, Text
<1> DEFINE good(j) == /\ \A k \in 1 .. NonceSize : s[k][1] = s[1][1] /\ s[k][2] = k
                      /\ s[j][1] = s[1][1] /\ s[j][2] = j
<1>5. Opened(s) = [i \in 1 .. Len(s) - NonceSize |->
                     IF good(NonceSize + i) THEN TextOf(s[NonceSize + i], i) ELSE Garbage]
  BY DEF Opened
<1>6. \A i : good(NonceSize + i) => /\ s[1][2] = 1 /\ s[NonceSize + i][2] = NonceSize + i
                                   /\ s[NonceSize + i][1] = s[1][1]
  BY <1>1
<1> HIDE DEF good
<1>7. \A i \in 1 .. Len(s) - NonceSize : Opened(s)[i] \in Text
  BY <1>3, <1>4, <1>5
<1>8. Opened(s) \in Chunk
  <2>1. PICK l \in Nat : l = Len(s) - NonceSize
    BY <1>2
  <2>2. PICK f : f = Opened(s)
    OBVIOUS
  <2>3. f \in [1 .. l -> Text]
    BY <1>5, <1>7, <2>1, <2>2
  <2>4. f \in Seq(Text)
    BY <2>1, <2>3
  <2> QED
    BY <2>2, <2>4 DEF Chunk
<1>9. Len(Opened(s)) = Len(s) - NonceSize
  BY <1>2, <1>5, <1>8
<1>10. ASSUME NEW i \in 1 .. Len(s) - NonceSize, Opened(s)[i] # Garbage
       PROVE  /\ Opened(s)[i] = TextOf(s[NonceSize + i], i)
              /\ s[1][2] = 1 /\ s[NonceSize + i][2] = NonceSize + i
              /\ s[NonceSize + i][1] = s[1][1]
  <2>1. good(NonceSize + i)
    BY <1>5, <1>10
  <2> QED
    BY <1>5, <1>6, <2>1
<1>11. ASSUME NEW i \in 1 .. Len(s) - NonceSize, Shown(Opened(s)[i])
       PROVE  /\ Opened(s)[i] = << s[NonceSize + i][3], i >>
              /\ s[1][2] = 1 /\ s[NonceSize + i][2] = NonceSize + i
  <2>1. ~ Shown(Garbage)
    BY DEF Shown, Garbage
  <2>2. /\ Opened(s)[i] = TextOf(s[NonceSize + i], i)
        /\ s[1][2] = 1 /\ s[NonceSize + i][2] = NonceSize + i
    BY <1>10, <1>11, <2>1
  <2>3. PICK x, y : x = s[NonceSize + i][3] /\ y = s[NonceSize + i][4]
    OBVIOUS
  <2>4. x \in Nat /\ y \in Nat
    BY <1>3, <2>3
  <2>5. Opened(s)[i] = IF y = 0 THEN << x, i >> ELSE << -y, i >>
    BY <2>2, <2>3 DEF TextOf
  <2>6. ASSUME y # 0 PROVE FALSE
    <3>1. Opened(s)[i][1] = -y
      BY <2>5, <2>6
    <3>2. ~ (-y > 0)
      BY <2>4
    <3> QED
      BY <1>11, <3>1, <3>2 DEF Shown
  <2> QED
    BY <2>2, <2>3, <2>5, <2>6
<1> QED
  BY <1>8, <1>9, <1>10, <1>11

\* A cell that stands at its place is of the message with which the chunk begins.
LEMMA SameMessage ==
    ASSUME NEW s \in Seq(Cell), Aligned(s), NEW j \in 1 .. Len(s), 1 < j, s[j][2] = j
    PROVE  s[j][3] = s[1][3]
<1>1. 1 \in 1 .. Len(s)
  OBVIOUS
<1>2. s[1][3] = s[j][3] \/ s[j][2] <= j - 1
  BY <1>1 DEF Aligned
<1>3. ~ (j <= j - 1)
  OBVIOUS
<1> QED
  BY <1>2, <1>3

\* A chunk o of plaintext that shows only text of the message with which s begins.
FirstOf(o, s) ==
    \A i \in 1 .. Len(o) : Shown(o[i]) =>
        /\ o[i][1] = s[1][3] /\ o[i][2] = i /\ NonceSize + i \in 1 .. Len(s)
        /\ s[NonceSize + i][3] = s[1][3] /\ s[NonceSize + i][2] = NonceSize + i

LEMMA FirstMessage ==
    ASSUME NEW s \in Seq(Cell), Len(s) >= NonceSize, Aligned(s)
    PROVE  FirstOf(Opened(s), s)
<1> SUFFICES ASSUME NEW i \in 1 .. Len(s) - NonceSize, Shown(Opened(s)[i])
    PROVE  /\ Opened(s)[i][1] = s[1][3] /\ Opened(s)[i][2] = i
           /\ NonceSize + i \in 1 .. Len(s)
           /\ s[NonceSize + i][3] = s[1][3] /\ s[NonceSize + i][2] = NonceSize + i
  BY OpenedFacts DEF FirstOf
<1>1. /\ Opened(s)[i] = << s[NonceSize + i][3], i >>
      /\ s[1][2] = 1 /\ s[NonceSize + i][2] = NonceSize + i
  BY OpenedFacts
<1>2. /\ 1 \in 1 .. Len(s) /\ NonceSize + i \in 1 .. Len(s) /\ 1 < NonceSize + i
      /\ NonceSize \in Nat
  BY ChannelAssumption
<1>3. s[NonceSize + i][3] = s[1][3]
  BY <1>1, <1>2, SameMessage
<1> QED
  BY <1>1, <1>2, <1>3

\* A chunk that is cut off a stream.
LEMMA Cutting ==
    ASSUME NEW s \in Seq(Cell), NEW n \in 1 .. Len(s), Aligned(s)
    PROVE  /\ SubSeq(s, 1, n) \in Seq(Cell) /\ Len(SubSeq(s, 1, n)) = n
           /\ Rest(s, n) \in Seq(Cell) /\ Len(Rest(s, n)) = Len(s) - n
           /\ Aligned(SubSeq(s, 1, n)) /\ Aligned(Rest(s, n))
           /\ Ahead(SubSeq(s, 1, n), Rest(s, n))
           /\ \A m : Below(s, m) => Below(SubSeq(s, 1, n), m) /\ Below(Rest(s, n), m)
           /\ \A chunks : Behind(chunks, s)
                          => Behind(chunks, SubSeq(s, 1, n)) /\ Behind(chunks, Rest(s, n))
<1> DEFINE h == SubSeq(s, 1, n)
           r == Rest(s, n)
<1>1. /\ h \in Seq(Cell) /\ Len(h) = n /\ \A k \in 1 .. n : h[k] = s[k]
      /\ r \in Seq(Cell) /\ Len(r) = Len(s) - n /\ \A k \in 1 .. Len(s) - n : r[k] = s[n + k]
  BY DEF Rest
<1>2. Len(s) \in Nat /\ n \in Nat /\ n <= Len(s)
  OBVIOUS
<1> HIDE DEF h, r
<1>3. \A k \in 1 .. n : k \in 1 .. Len(s)
  BY <1>2
<1>4. \A k \in 1 .. Len(s) - n : n + k \in 1 .. Len(s)
  BY <1>2
<1>5. Aligned(h)
  <2> SUFFICES ASSUME NEW a \in 1 .. n, NEW b \in 1 .. n, a < b
               PROVE  \/ h[a][3] = h[b][3] /\ h[b][2] - h[a][2] = b - a
                      \/ h[a][3] < h[b][3] /\ h[b][2] <= b - a
    BY <1>1 DEF Aligned
  <2>1. \/ s[a][3] = s[b][3] /\ s[b][2] - s[a][2] = b - a
        \/ s[a][3] < s[b][3] /\ s[b][2] <= b - a
    BY <1>3 DEF Aligned
  <2>2. h[a] = s[a] /\ h[b] = s[b]
    BY <1>1
  <2> QED
    BY <2>1, <2>2
<1>6. Aligned(r)
  <2> SUFFICES ASSUME NEW a \in 1 .. Len(s) - n, NEW b \in 1 .. Len(s) - n, a < b
               PROVE  \/ r[a][3] = r[b][3] /\ r[b][2] - r[a][2] = b - a
                      \/ r[a][3] < r[b][3] /\ r[b][2] <= b - a
    BY <1>1 DEF Aligned
  <2>0. PICK x \in 1 .. Len(s), y \in 1 .. Len(s) : x = n + a /\ y = n + b
    BY <1>4
  <2>1. x < y /\ y - x = b - a
    BY <1>2, <2>0
  <2>2. \/ s[x][3] = s[y][3] /\ s[y][2] - s[x][2] = y - x
        \/ s[x][3] < s[y][3] /\ s[y][2] <= y - x
    BY <2>1 DEF Aligned
  <2>3. r[a] = s[x] /\ r[b] = s[y]
    BY <1>1, <2>0
  <2> QED
    BY <2>1, <2>2, <2>3
<1>7. Ahead(h, r)
  <2> SUFFICES ASSUME NEW a \in 1 .. Len(h), NEW k \in 1 .. Len(r)
               PROVE  \/ h[a][3] < r[k][3]
                      \/ h[a][3] = r[k][3] /\ h[a][2] < r[k][2]
    BY DEF Ahead
  <2>0. a \in 1 .. n /\ k \in 1 .. Len(s) - n /\ h[a] = s[a] /\ r[k] = s[n + k]
    BY <1>1
  <2>1. a \in 1 .. Len(s) /\ n + k \in 1 .. Len(s) /\ a < n + k /\ (n + k) - a > 0
    BY <1>2, <2>0
  <2>2. s[a][2] \in Nat /\ s[n + k][2] \in Nat
    BY <2>1, CellFacts
  <2>3. \/ s[a][3] = s[n + k][3] /\ s[n + k][2] - s[a][2] = (n + k) - a
        \/ s[a][3] < s[n + k][3]
    BY <2>1 DEF Aligned
  <2>4. s[n + k][2] - s[a][2] = (n + k) - a => s[a][2] < s[n + k][2]
    <3>1. PICK x, y : x = s[a][2] /\ y = s[n + k][2]
      OBVIOUS
    <3>2. x \in Nat /\ y \in Nat
      BY <2>2, <3>1
    <3>3. PICK d : d = (n + k) - a /\ d \in Int /\ d > 0
      BY <1>2, <2>1
    <3>4. y - x = d => x < y
      BY <3>2, <3>3
    <3> QED
      BY <3>1, <3>3, <3>4
  <2> QED
    BY <2>0, <2>3, <2>4
<1>8. \A m : Below(s, m) => Below(h, m) /\ Below(r, m)
  BY <1>1, <1>3, <1>4 DEF Below
<1>9. ASSUME NEW chunks, Behind(chunks, s)
      PROVE  Behind(chunks, h) /\ Behind(chunks, r)
  <2> DEFINE P(a, i, c) == Shown(chunks[a][i])
                           => \/ chunks[a][i][1] < c[3]
                              \/ chunks[a][i][1] = c[3] /\ NonceSize + chunks[a][i][2] < c[2]
  <2>1. \A a \in 1 .. Len(chunks) : \A i \in 1 .. Len(chunks[a]), k \in 1 .. Len(s) :
           P(a, i, s[k])
    BY <1>9 DEF Behind
  <2>2. \A a \in 1 .. Len(chunks) : \A i \in 1 .. Len(chunks[a]), k \in 1 .. Len(h) :
           P(a, i, h[k])
    <3> HIDE DEF P
    <3> QED
      BY <1>1, <1>3, <2>1
  <2>3. \A a \in 1 .. Len(chunks) : \A i \in 1 .. Len(chunks[a]), k \in 1 .. Len(r) :
           P(a, i, r[k])
    <3> HIDE DEF P
    <3> QED
      BY <1>1, <1>4, <2>1
  <2> QED
    BY <2>2, <2>3 DEF Behind
<1> QED
  BY <1>1, <1>5, <1>6, <1>7, <1>8, <1>9 DEF h, r

\* What is sent of a message goes behind all that is in the stream.
LEMMA Joining ==
    ASSUME NEW s \in Seq(Cell), NEW p \in Seq(Cell), NEW m \in Int,
           Aligned(s), Below(s, m), Piece(p, m)
    PROVE  /\ s \o p \in Seq(Cell) /\ Len(s \o p) = Len(s) + Len(p)
           /\ Aligned(s \o p) /\ Below(s \o p, m + 1)
           /\ \A c \in Seq(Cell) : Ahead(c, s) /\ Below(c, m) => Ahead(c, s \o p)
           /\ \A chunks \in Seq(Chunk) :
                 Behind(chunks, s) /\ GivenBelow(chunks, m) => Behind(chunks, s \o p)
<1> DEFINE u == s \o p
<1>1. /\ u \in Seq(Cell) /\ Len(u) = Len(s) + Len(p) /\ Len(s) \in Nat /\ Len(p) \in Nat
      /\ \A k \in 1 .. Len(s) + Len(p) : u[k] = IF k <= Len(s) THEN s[k] ELSE p[k - Len(s)]
  BY ConcatProperties
<1> HIDE DEF u
<1>2. \A k \in 1 .. Len(u) : \/ k \in 1 .. Len(s) /\ u[k] = s[k]
                             \/ /\ k > Len(s) /\ k - Len(s) \in 1 .. Len(p)
                                /\ u[k] = p[k - Len(s)]
  <2> TAKE k \in 1 .. Len(u)
  <2>1. k \in 1 .. Len(s) + Len(p)
    BY <1>1
  <2>2. CASE k <= Len(s)
    BY <1>1, <2>1, <2>2
  <2>3. CASE k > Len(s)
    BY <1>1, <2>1, <2>3
  <2> QED
    BY <1>1, <2>1, <2>2, <2>3
<1>3. \A k \in 1 .. Len(u) : \/ k \in 1 .. Len(s) /\ u[k] = s[k] /\ s[k][3] < m
                             \/ /\ k > Len(s) /\ u[k][2] = k - Len(s) /\ u[k][3] = m
  <2> TAKE k \in 1 .. Len(u)
  <2>1. CASE k \in 1 .. Len(s) /\ u[k] = s[k]
    BY <2>1 DEF Below
  <2>2. CASE k > Len(s) /\ k - Len(s) \in 1 .. Len(p) /\ u[k] = p[k - Len(s)]
    <3>1. PICK j \in 1 .. Len(p) : j = k - Len(s)
      BY <2>2
    <3> QED
      BY <2>2, <3>1 DEF Piece
  <2> QED
    BY <1>2, <2>1, <2>2
<1>4. \A k \in 1 .. Len(u) : u[k][2] \in Nat /\ u[k][3] \in Nat
  BY <1>1, CellFacts
<1>5. Aligned(u)
  <2> SUFFICES ASSUME NEW a \in 1 .. Len(u), NEW b \in 1 .. Len(u), a < b
               PROVE  \/ u[a][3] = u[b][3] /\ u[b][2] - u[a][2] = b - a
                      \/ u[a][3] < u[b][3] /\ u[b][2] <= b - a
    BY DEF Aligned
  <2>1. CASE a \in 1 .. Len(s) /\ b \in 1 .. Len(s)
    <3>1. \/ s[a][3] = s[b][3] /\ s[b][2] - s[a][2] = b - a
          \/ s[a][3] < s[b][3] /\ s[b][2] <= b - a
      BY <2>1 DEF Aligned
    <3>2. u[a] = s[a] /\ u[b] = s[b]
      BY <1>2, <2>1
    <3> QED
      BY <3>1, <3>2
  <2>2. CASE a \in 1 .. Len(s) /\ b > Len(s)
    <3>1. u[a][3] < m /\ u[b][3] = m /\ u[b][2] = b - Len(s)
      BY <1>1, <1>3, <2>2
    <3>2. b - Len(s) <= b - a
      BY <1>1, <2>2
    <3> QED
      BY <3>1, <3>2
  <2>3. CASE a > Len(s)
    <3>1. b > Len(s)
      BY <1>1, <2>3
    <3>2. u[a][3] = m /\ u[b][3] = m /\ u[b][2] = b - Len(s) /\ u[a][2] = a - Len(s)
      BY <1>1, <1>3, <2>3, <3>1
    <3>3. (b - Len(s)) - (a - Len(s)) = b - a
      BY <1>1
    <3> QED
      BY <3>2, <3>3
  <2> QED
    BY <1>1, <2>1, <2>2, <2>3
<1>6. Below(u, m + 1)
  BY <1>3, <1>4 DEF Below
<1>7. ASSUME NEW c \in Seq(Cell), Ahead(c, s), Below(c, m)
      PROVE  Ahead(c, u)
  <2> SUFFICES ASSUME NEW a \in 1 .. Len(c), NEW k \in 1 .. Len(u)
               PROVE  c[a][3] < u[k][3] \/ (c[a][3] = u[k][3] /\ c[a][2] < u[k][2])
    BY DEF Ahead
  <2>1. CASE k \in 1 .. Len(s) /\ u[k] = s[k]
    BY <1>7, <2>1 DEF Ahead
  <2>2. CASE u[k][3] = m
    BY <1>7, <2>2 DEF Below
  <2> QED
    BY <1>3, <2>1, <2>2
<1>8. ASSUME NEW chunks \in Seq(Chunk), Behind(chunks, s), GivenBelow(chunks, m)
      PROVE  Behind(chunks, u)
  <2> SUFFICES ASSUME NEW a \in 1 .. Len(chunks), NEW i \in 1 .. Len(chunks[a]),
                      NEW k \in 1 .. Len(u), Shown(chunks[a][i])
               PROVE  \/ chunks[a][i][1] < u[k][3]
                      \/ chunks[a][i][1] = u[k][3] /\ NonceSize + chunks[a][i][2] < u[k][2]
    BY DEF Behind
  <2>1. CASE k \in 1 .. Len(s) /\ u[k] = s[k]
    BY <1>8, <2>1 DEF Behind
  <2>2. CASE u[k][3] = m
    BY <1>8, <2>2 DEF GivenBelow
  <2> QED
    BY <1>3, <2>1, <2>2
<1> QED
  BY <1>1, <1>5, <1>6, <1>7, <1>8 DEF u

\* What an end is given of a chunk goes behind what it has been given, in order, and
\* before all that stays in the stream.
LEMMA Giving ==
    ASSUME NEW chunks \in Seq(Chunk), NEW s \in Seq(Cell), NEW t \in Seq(Cell), NEW m \in Int,
           NEW o \in Chunk, FirstOf(o, s), Len(s) >= NonceSize, Below(s, m), Behind(chunks, s),
           Ahead(s, t), Behind(chunks, t), GivenBelow(chunks, m), InOrder(chunks)
    PROVE  /\ Append(chunks, o) \in Seq(Chunk)
           /\ InOrder(Append(chunks, o))
           /\ Behind(Append(chunks, o), t)
           /\ GivenBelow(Append(chunks, o), m)
<1> DEFINE all == Append(chunks, o)
           l == Len(chunks)
<1>1. NonceSize \in Nat \ {0} /\ Len(s) \in Nat
  BY ChannelAssumption
<1>2. ASSUME NEW i \in 1 .. Len(o), Shown(o[i])
      PROVE  /\ o[i][1] = s[1][3] /\ o[i][2] = i /\ NonceSize + i \in 1 .. Len(s)
             /\ s[NonceSize + i][3] = s[1][3] /\ s[NonceSize + i][2] = NonceSize + i
  BY <1>2 DEF FirstOf
<1>3. 1 \in 1 .. Len(s)
  BY <1>1
<1>4. /\ all \in Seq(Chunk) /\ Len(all) = l + 1 /\ all[l + 1] = o /\ l \in Nat
      /\ \A a \in 1 .. l : all[a] = chunks[a]
  BY <1>1, AppendProperties
<1> HIDE DEF all, l
<1>5. \A a \in 1 .. Len(all) : (a \in 1 .. l /\ all[a] = chunks[a]) \/ (a = l + 1 /\ all[a] = o)
  BY <1>4
<1>6. l = Len(chunks)
  BY DEF l
<1>7. GivenBelow(all, m)
  <2> SUFFICES ASSUME NEW a \in 1 .. Len(all), NEW i \in 1 .. Len(all[a]), Shown(all[a][i])
               PROVE  all[a][i][1] < m
    BY DEF GivenBelow
  <2>1. CASE a \in 1 .. l /\ all[a] = chunks[a]
    BY <1>6, <2>1 DEF GivenBelow
  <2>2. CASE all[a] = o
    BY <1>2, <1>3, <2>2 DEF Below
  <2> QED
    BY <1>5, <2>1, <2>2
<1>8. Behind(all, t)
  <2> SUFFICES ASSUME NEW a \in 1 .. Len(all), NEW i \in 1 .. Len(all[a]),
                      NEW k \in 1 .. Len(t), Shown(all[a][i])
               PROVE  \/ all[a][i][1] < t[k][3]
                      \/ all[a][i][1] = t[k][3] /\ NonceSize + all[a][i][2] < t[k][2]
    BY DEF Behind
  <2>1. CASE a \in 1 .. l /\ all[a] = chunks[a]
    BY <1>6, <2>1, SMTT(30) DEF Behind
  <2>2. CASE all[a] = o
    <3>1. PICK j \in 1 .. Len(s) :
             /\ j = NonceSize + i /\ s[j][3] = o[i][1] /\ s[j][2] = j /\ o[i][2] = i
      BY <1>2, <2>2
    <3>2. s[j][3] < t[k][3] \/ (s[j][3] = t[k][3] /\ s[j][2] < t[k][2])
      BY DEF Ahead
    <3>3. s[j][2] = NonceSize + o[i][2]
      BY <3>1
    <3> QED
      BY ONLY <2>2, <3>1, <3>2, <3>3
  <2> QED
    BY <1>5, <2>1, <2>2
<1>9. InOrder(all)
  <2> SUFFICES ASSUME NEW a \in 1 .. l + 1, NEW b \in 1 .. l + 1,
                      NEW i \in 1 .. Len(all[a]), NEW j \in 1 .. Len(all[b]),
                      Shown(all[a][i]), Shown(all[b][j]), a < b \/ (a = b /\ i < j)
               PROVE  \/ all[a][i][1] < all[b][j][1]
                      \/ all[a][i][1] = all[b][j][1] /\ all[a][i][2] < all[b][j][2]
    <3>1. DOMAIN all = 1 .. l + 1 /\ \A a \in 1 .. l + 1 : DOMAIN all[a] = 1 .. Len(all[a])
      BY <1>4 DEF Chunk
    <3> QED
      BY <3>1, ZenonT(60) DEF InOrder, Shown
  <2>1. CASE a \in 1 .. l /\ b \in 1 .. l
    <3>1. all[a] = chunks[a] /\ all[b] = chunks[b]
      BY <1>4, <2>1
    <3>2. /\ DOMAIN chunks = 1 .. l /\ chunks[a] \in Chunk /\ chunks[b] \in Chunk
      BY <1>6, <2>1
    <3>3. i \in DOMAIN chunks[a] /\ j \in DOMAIN chunks[b]
      BY <3>1, <3>2 DEF Chunk
    <3>4. chunks[a][i][1] > 0 /\ chunks[b][j][1] > 0
      BY <3>1 DEF Shown
    <3>5. a \in DOMAIN chunks /\ b \in DOMAIN chunks
      BY <2>1, <3>2
    <3>6. \/ chunks[a][i][1] < chunks[b][j][1]
          \/ chunks[a][i][1] = chunks[b][j][1] /\ chunks[a][i][2] < chunks[b][j][2]
      BY <3>3, <3>4, <3>5 DEF InOrder
    <3> QED
      BY <3>1, <3>6
  <2>2. CASE a \in 1 .. l /\ b = l + 1
    <3>1. all[a] = chunks[a] /\ all[b] = o
      BY <1>4, <2>2
    <3>2. PICK x \in 1 .. Len(s) :
             /\ x = NonceSize + j /\ s[x][3] = o[j][1] /\ s[x][2] = x /\ o[j][2] = j
      <4>1. j \in 1 .. Len(o) /\ Shown(o[j])
        BY <3>1
      <4>2. /\ o[j][1] = s[1][3] /\ o[j][2] = j /\ NonceSize + j \in 1 .. Len(s)
            /\ s[NonceSize + j][3] = s[1][3] /\ s[NonceSize + j][2] = NonceSize + j
        BY <1>2, <4>1
      <4> QED
        BY <4>2
    <3>3. \/ chunks[a][i][1] < s[x][3]
          \/ chunks[a][i][1] = s[x][3] /\ NonceSize + chunks[a][i][2] < s[x][2]
      BY <1>6, <2>2, <3>1 DEF Behind
    <3>4. chunks[a][i][2] \in Int
      <4>1. chunks[a] \in Seq(Text) /\ i \in 1 .. Len(chunks[a])
        BY <1>6, <2>2, <3>1 DEF Chunk
      <4>2. chunks[a][i] \in Text
        BY <4>1
      <4> QED
        BY <4>2 DEF Text
    <3>5. NonceSize + chunks[a][i][2] < NonceSize + j => chunks[a][i][2] < j
      <4>1. PICK y \in Int : y = chunks[a][i][2]
        BY <3>4
      <4>2. NonceSize + y < NonceSize + j => y < j
        BY <1>1
      <4> QED
        BY <4>1, <4>2
    <3> QED
      BY <3>1, <3>2, <3>3, <3>5
  <2>3. CASE a = l + 1
    <3>1. b = l + 1 /\ i < j
      BY <1>4, <2>3
    <3>2. all[a] = o /\ all[b] = o
      BY <1>4, <2>3, <3>1
    <3>3. o[i][1] = s[1][3] /\ o[i][2] = i /\ o[j][1] = s[1][3] /\ o[j][2] = j
      BY <1>2, <3>2
    <3> QED
      BY <3>1, <3>2, <3>3
  <2>0. l \in Nat
    BY <1>4
  <2>4. (a \in 1 .. l \/ a = l + 1) /\ (b \in 1 .. l \/ b = l + 1)
    BY ONLY <2>0, a \in 1 .. l + 1, b \in 1 .. l + 1
  <2> QED
    BY <2>1, <2>2, <2>3, <2>4
<1> QED
  BY <1>4, <1>7, <1>8, <1>9 DEF all

-----------------------------------------------------------------------------
(* The two directions.                                                      *)

Reading == {"readKey", "decrypt"}
Writing == {"writeKey", "iv", "encrypt", "send"}

\* Messages to the other end that are in the stream or have been delivered.
Sent == IF pc \in Writing THEN written ELSE written + 1

DownInv ==
    /\ Direction(got, down, peerSent + 1)
    /\ pc \in Reading =>
          /\ buf \in Seq(Cell) /\ Len(buf) >= NonceSize /\ Aligned(buf)
          /\ Below(buf, peerSent + 1) /\ Behind(got, buf) /\ Ahead(buf, down)

UpInv ==
    /\ Direction(peerGot, up, Sent)
    /\ pc = "send" => buf \in Seq(Cell) /\ Piece(buf, written)

PlainInv ==
    /\ written \in Nat /\ peerSent \in Nat /\ length \in Nat
    /\ DownInv /\ UpInv

\* More messages may be sent.
LEMMA Raising ==
    ASSUME NEW chunks \in Seq(Chunk), NEW s \in Seq(Cell), NEW m \in Int
    PROVE  /\ Below(s, m) => Below(s, m + 1)
           /\ GivenBelow(chunks, m) => GivenBelow(chunks, m + 1)
<1>1. ASSUME Below(s, m) PROVE Below(s, m + 1)
  <2> SUFFICES ASSUME NEW k \in 1 .. Len(s) PROVE s[k][3] < m + 1
    BY DEF Below
  <2>1. PICK x \in Nat : x = s[k][3]
    BY CellFacts
  <2>2. x < m
    BY <1>1, <2>1 DEF Below
  <2> QED
    BY <2>1, <2>2
<1>2. ASSUME GivenBelow(chunks, m) PROVE GivenBelow(chunks, m + 1)
  <2> SUFFICES ASSUME NEW a \in 1 .. Len(chunks), NEW i \in 1 .. Len(chunks[a]),
                      Shown(chunks[a][i])
               PROVE  chunks[a][i][1] < m + 1
    BY DEF GivenBelow
  <2>0. chunks[a] \in Seq(Text)
    BY DEF Chunk
  <2>1. PICK x \in Int : x = chunks[a][i][1]
    <3>1. chunks[a][i] \in Text
      BY <2>0
    <3> QED
      BY <3>1 DEF Text
  <2>2. x < m
    BY <1>2, <2>1 DEF GivenBelow
  <2> QED
    BY <2>1, <2>2
<1> QED
  BY <1>1, <1>2

LEMMA SealedFacts ==
    ASSUME NEW v \in Int, NEW n \in Nat, NEW len \in Nat
    PROVE  /\ Sealed(v, n, len) \in Seq(Cell) /\ Len(Sealed(v, n, len)) = NonceSize + len
           /\ \A k \in 1 .. NonceSize + len : Sealed(v, n, len)[k] = << v, k, n, 0 >>
           /\ Piece(Sealed(v, n, len), n)
<1>1. PICK l \in Nat : l = NonceSize + len
  BY ChannelAssumption
<1>2. PICK p : p = [k \in 1 .. l |-> << v, k, n, 0 >>]
  OBVIOUS
<1>3. \A k \in 1 .. l : << v, k, n, 0 >> \in Cell
  BY DEF Cell
<1>4. p \in [1 .. l -> Cell]
  BY <1>2, <1>3
<1>5. p \in Seq(Cell) /\ Len(p) = l /\ \A k \in 1 .. l : p[k] = << v, k, n, 0 >>
  BY <1>2, <1>4
<1>6. Sealed(v, n, len) = p
  BY <1>1, <1>2 DEF Sealed
<1>7. Piece(p, n)
  BY <1>5 DEF Piece
<1> QED
  BY <1>1, <1>5, <1>6, <1>7

\* Steps that leave both streams and what has been given alone.
LEMMA OtherSteps ==
    ASSUME PlainInv, UNCHANGED << up, down, got, peerGot, peerSent >>,
           length' \in Nat, written' \in Nat, Sent' \in {Sent, Sent + 1},
           pc' \in Reading => pc \in Reading /\ buf' = buf,
           pc' = "send" => buf' \in Seq(Cell) /\ Piece(buf', written')
    PROVE  PlainInv'
<1>1. Sent \in Int
  BY DEF Sent, PlainInv
<1>2. Below(up, Sent') /\ GivenBelow(peerGot, Sent')
  <2>1. peerGot \in Seq(Chunk) /\ up \in Seq(Cell) /\ Below(up, Sent) /\ GivenBelow(peerGot, Sent)
    BY DEF PlainInv, UpInv, Direction
  <2>2. Below(up, Sent + 1) /\ GivenBelow(peerGot, Sent + 1)
    BY <1>1, <2>1, Raising
  <2> QED
    BY <2>1, <2>2
<1>3. UpInv'
  <2>1. PICK m : m = Sent'
    OBVIOUS
  <2>2. Direction(peerGot, up, m)
    BY <1>2, <2>1 DEF PlainInv, UpInv, Direction
  <2>3. Direction(peerGot', up', Sent')
    BY <2>1, <2>2
  <2> QED
    BY <2>3 DEF UpInv
<1>4. DownInv'
  BY DEF PlainInv, DownInv
<1> QED
  BY <1>3, <1>4 DEF PlainInv

LEMMA PlainInit == Init => PlainInv
<1> SUFFICES ASSUME Init PROVE PlainInv
  OBVIOUS
<1>1. \A m : Direction(<< >>, << >>, m)
  BY DEF Direction, Aligned, Below, Behind, GivenBelow, InOrder
<1> QED
  BY <1>1 DEF Init, PlainInv, DownInv, UpInv, Reading

LEMMA WriteKeepsOrder ==
    ASSUME PlainInv, Write \/ WriteLoadsKey \/ ReadIv
    PROVE  PlainInv'
<1>1. /\ UNCHANGED << up, down, got, peerGot, peerSent >>
      /\ pc \in {"idle", "writeKey", "iv"} /\ pc' \in {"idle", "writeKey", "iv", "encrypt"}
      /\ written' = written \/ (pc = "idle" /\ written' = written + 1)
      /\ pc = "idle" => written' = written + 1
      /\ length' \in {0, length} \union Lengths
  BY DEF Write, WriteLoadsKey, ReadIv, given, counts, Return
<1>2. Sent' \in {Sent, Sent + 1} /\ written' \in Nat /\ length' \in Nat
  BY <1>1, ChannelAssumption DEF Sent, Writing, PlainInv
<1> QED
  BY <1>1, <1>2, OtherSteps DEF Reading

\* What memory holds of earlier payloads: ciphertext at its place, under an IV that was
\* used or under none.
PayloadInv ==
    /\ payload \in Seq(Cell)
    /\ \A k \in 1 .. Len(payload) :
          /\ payload[k][2] = k
          /\ k > NonceSize => payload[k][1] \in {-1} \union Range(used)

\* A payload that was sealed by no cipher of its own.
LEMMA NotSealedFacts ==
    ASSUME PlainInv, NumbersInv, PayloadInv, NEW p \in NotSealed
    PROVE  /\ p \in Seq(Cell) /\ Len(p) = NonceSize + length /\ Piece(p, written)
           /\ \A k \in 1 .. Len(p) :
                 /\ k <= NonceSize => p[k][1] = iv /\ p[k][4] = 0
                 /\ k > NonceSize => p[k][1] \in {-1} \union Range(used)
<1>1. PICK l \in Nat : l = NonceSize + length
  BY ChannelAssumption DEF PlainInv
<1>2. iv \in Int /\ written \in Nat /\ NonceSize \in Nat
  BY ChannelAssumption DEF PlainInv, NumbersInv
<1> DEFINE cell(k, v) == << IF k <= NonceSize THEN iv ELSE v, k, written, 0 >>
           Fits(c, k) == /\ c \in Cell /\ c[2] = k /\ c[3] = written
                         /\ k <= NonceSize => c[1] = iv /\ c[4] = 0
                         /\ k > NonceSize => c[1] \in {-1} \union Range(used)
<1>3. ASSUME NEW k \in 1 .. l, NEW v \in {-1} \union ({iv} \intersect Range(used))
      PROVE  Fits(cell(k, v), k)
  <2>1. cell(k, v) \in Cell
    BY <1>2 DEF Cell
  <2> QED
    BY <1>2, <2>1
<1>4. ASSUME NEW k \in 1 .. l, k > NonceSize, k \in DOMAIN payload
      PROVE  Fits(AgainFor(written, payload[k]), k)
  <2>1. payload \in Seq(Cell) /\ k \in 1 .. Len(payload)
    BY <1>4 DEF PayloadInv
  <2>2. PICK c : c = payload[k]
    OBVIOUS
  <2>3. c \in Cell /\ c[1] \in Int /\ c[2] = k /\ c[3] \in Nat /\ c[4] \in Nat
        /\ c[1] \in {-1} \union Range(used)
    BY <1>4, <2>1, <2>2, CellFacts DEF PayloadInv
  <2>4. PICK o \in Nat : o = IF c[4] = 0 THEN c[3] ELSE c[4]
    BY <2>3
  <2>5. AgainFor(written, c) = << c[1], c[2], written, o >>
    BY <2>4 DEF AgainFor
  <2>6. << c[1], c[2], written, o >> \in Cell
    BY <1>2, <2>3 DEF Cell
  <2>7. ~ (k <= NonceSize)
    BY <1>2, <1>4
  <2> QED
    BY <2>2, <2>3, <2>5, <2>6, <2>7
<1>5. /\ p \in [1 .. l -> Cell]
      /\ \A k \in 1 .. l : Fits(p[k], k)
  <2> DEFINE kept(k) == k > NonceSize /\ k \in DOMAIN payload
  <2>1. \/ \E v \in {-1} \union ({iv} \intersect Range(used)) :
              p = [k \in 1 .. l |-> cell(k, v)]
        \/ p = [k \in 1 .. l |-> IF kept(k) THEN AgainFor(written, payload[k])
                                ELSE cell(k, -1)]
    BY <1>1 DEF NotSealed
  <2> HIDE DEF cell, Fits, kept
  <2>2. CASE \E v \in {-1} \union ({iv} \intersect Range(used)) :
                p = [k \in 1 .. l |-> cell(k, v)]
    <3>1. \A k \in 1 .. l : Fits(p[k], k)
      BY <1>3, <2>2
    <3> QED
      BY <2>2, <3>1 DEF Fits
  <2>3. CASE p = [k \in 1 .. l |-> IF kept(k) THEN AgainFor(written, payload[k])
                                  ELSE cell(k, -1)]
    <3>1. ASSUME NEW k \in 1 .. l PROVE Fits(p[k], k)
      <4>1. CASE kept(k)
        <5>1. Fits(AgainFor(written, payload[k]), k)
          BY <1>4, <4>1 DEF kept
        <5> QED
          BY <2>3, <4>1, <5>1
      <4>2. CASE ~ kept(k)
        <5>1. Fits(cell(k, -1), k)
          BY <1>3
        <5> QED
          BY <2>3, <4>2, <5>1
      <4> QED
        BY <4>1, <4>2
    <3> QED
      BY <2>3, <3>1 DEF Fits
  <2> QED
    BY <2>1, <2>2, <2>3
<1> HIDE DEF cell
<1>6. p \in Seq(Cell) /\ Len(p) = l
  BY <1>5
<1>7. Piece(p, written)
  BY <1>5, <1>6 DEF Piece
<1> QED
  BY <1>1, <1>5, <1>6, <1>7

LEMMA EncryptKeepsOrder ==
    ASSUME PlainInv, NumbersInv, PayloadInv, Encrypt
    PROVE  PlainInv'
<1>1. /\ UNCHANGED << up, down, got, peerGot, peerSent, written >> /\ pc = "encrypt"
      /\ pc' \in {"idle", "send"} /\ length' \in {0, length}
  BY DEF Encrypt, given, counts, Return
<1>2. Sent' \in {Sent, Sent + 1}
  BY <1>1 DEF Sent, Writing, PlainInv
<1>3. ASSUME pc' = "send"
      PROVE  buf' \in Seq(Cell) /\ Piece(buf', written')
  <2>1. CASE buf' = Sealed(iv, written, length)
    <3>1. iv \in Int /\ written \in Nat /\ length \in Nat
      BY DEF PlainInv, NumbersInv
    <3>2. Sealed(iv, written, length) \in Seq(Cell) /\ Piece(Sealed(iv, written, length), written)
      BY ONLY <3>1, SealedFacts
    <3> QED
      BY <1>1, <2>1, <3>2
  <2>2. CASE buf' \in NotSealed
    BY <1>1, <2>2, NotSealedFacts
  <2>3. buf' = Sealed(iv, written, length) \/ buf' \in NotSealed
    BY <1>3 DEF Encrypt, Return
  <2> QED
    BY <2>1, <2>2, <2>3
<1>4. length' \in Nat /\ written' \in Nat
  BY <1>1 DEF PlainInv
<1> QED
  BY <1>1, <1>2, <1>3, <1>4, OtherSteps DEF Reading

\* What is left of the message is nowhere; what was sent of it is behind everything.
LEMMA SendKeepsOrder ==
    ASSUME PlainInv, Send
    PROVE  PlainInv'
<1>1. /\ UNCHANGED << down, got, peerGot, peerSent, written >> /\ pc = "send"
      /\ pc' = "idle" /\ length' = 0
  BY DEF Send, given, counts, Return
<1>2. CASE UNCHANGED up
  <2>1. Sent' \in {Sent, Sent + 1}
    BY <1>1 DEF Sent, Writing, PlainInv
  <2>2. length' \in Nat /\ written' \in Nat
    BY <1>1 DEF PlainInv
  <2> QED
    BY <1>1, <1>2, <2>1, <2>2, OtherSteps DEF Reading
<1>3. CASE \E n \in 0 .. Len(buf) : up' = up \o SubSeq(buf, 1, n)
  <2>1. PICK n \in 0 .. Len(buf) : up' = up \o SubSeq(buf, 1, n)
    BY <1>3
  <2>2. PICK p : p = SubSeq(buf, 1, n)
    OBVIOUS
  <2>3. p \in Seq(Cell) /\ Piece(p, written)
    <3>1. buf \in Seq(Cell) /\ Piece(buf, written)
      BY <1>1 DEF PlainInv, UpInv
    <3>2. p \in Seq(Cell) /\ Len(p) = n /\ \A k \in 1 .. n : p[k] = buf[k] /\ k \in 1 .. Len(buf)
      BY <2>2, <3>1
    <3> QED
      BY <3>1, <3>2 DEF Piece
  <2>4. /\ Direction(peerGot, up, written) /\ Sent = written /\ Sent' = written + 1
        /\ written \in Int
    BY <1>1 DEF Sent, Writing, PlainInv, UpInv
  <2>5. /\ up \in Seq(Cell) /\ peerGot \in Seq(Chunk) /\ Aligned(up) /\ Below(up, written)
        /\ Behind(peerGot, up) /\ GivenBelow(peerGot, written) /\ InOrder(peerGot)
    BY <2>4 DEF Direction
  <2>6. /\ up \o p \in Seq(Cell) /\ Aligned(up \o p) /\ Below(up \o p, written + 1)
        /\ Behind(peerGot, up \o p)
    BY <2>3, <2>4, <2>5, Joining
  <2>7. GivenBelow(peerGot, written + 1)
    BY <2>4, <2>5, Raising
  <2>8. Direction(peerGot, up \o p, written + 1)
    BY <2>5, <2>6, <2>7 DEF Direction
  <2>9. UpInv'
    BY <1>1, <2>1, <2>2, <2>4, <2>8 DEF UpInv
  <2>10. DownInv'
    BY <1>1 DEF PlainInv, DownInv, Reading
  <2> QED
    BY <1>1, <2>9, <2>10 DEF PlainInv
<1> QED
  BY <1>2, <1>3 DEF Send

LEMMA ReadKeepsOrder ==
    ASSUME PlainInv, Read
    PROVE  PlainInv'
<1>1. /\ UNCHANGED << up, got, peerGot, peerSent, written >> /\ pc = "idle"
      /\ pc' \in {"idle", "readKey"} /\ length' \in {0, length}
  BY DEF Read, given, counts, Return
<1>2. PICK n \in 1 .. Len(down) :
         /\ down' = Rest(down, n)
         /\ n < NonceSize => pc' = "idle"
         /\ pc' # "idle" => buf' = SubSeq(down, 1, n)
  BY <1>1 DEF Read, Chunks, Return
<1>3. UpInv'
  <2>1. Sent' = Sent
    BY <1>1 DEF Sent, Writing
  <2> QED
    BY <1>1, <2>1 DEF PlainInv, UpInv
<1>4. PICK h, r, m : h = SubSeq(down, 1, n) /\ r = Rest(down, n) /\ m = peerSent + 1
  OBVIOUS
<1>5. /\ down \in Seq(Cell) /\ Aligned(down) /\ Below(down, m) /\ Behind(got, down)
      /\ got \in Seq(Chunk) /\ GivenBelow(got, m) /\ InOrder(got)
  BY <1>4 DEF PlainInv, DownInv, Direction
<1>6. /\ h \in Seq(Cell) /\ Len(h) = n /\ r \in Seq(Cell)
      /\ Aligned(h) /\ Aligned(r) /\ Ahead(h, r)
      /\ Below(h, m) /\ Below(r, m) /\ Behind(got, h) /\ Behind(got, r)
  BY <1>4, <1>5, Cutting
<1>7. Direction(got, r, m)
  BY <1>5, <1>6 DEF Direction
<1>8. pc' \in Reading => buf' = h /\ n >= NonceSize
  <2>1. n \in Int /\ NonceSize \in Int
    BY ChannelAssumption
  <2> QED
    BY <1>2, <1>4, <2>1 DEF Reading
<1>9. DownInv'
  BY <1>1, <1>2, <1>4, <1>6, <1>7, <1>8 DEF DownInv
<1> QED
  BY <1>1, <1>3, <1>9 DEF PlainInv

LEMMA ReadKeyKeepsOrder ==
    ASSUME PlainInv, ReadLoadsKey
    PROVE  PlainInv'
<1>1. /\ UNCHANGED << up, down, got, peerGot, peerSent, written >> /\ pc = "readKey"
      /\ pc' \in {"idle", "decrypt"} /\ length' \in {0, length}
      /\ pc' = "decrypt" => buf' = buf
  BY DEF ReadLoadsKey, given, counts, Return
<1>2. Sent' \in {Sent, Sent + 1} /\ length' \in Nat /\ written' \in Nat
  BY <1>1 DEF Sent, Writing, PlainInv
<1> QED
  BY <1>1, <1>2, OtherSteps DEF Reading

PlaintextInv == plaintext \in Chunk

\* A chunk that shows nothing new changes nothing.
LEMMA Nothing ==
    ASSUME NEW o, NEW s, \A i \in 1 .. Len(o) : ~ Shown(o[i])
    PROVE  FirstOf(o, s)
  BY DEF FirstOf

\* What memory holds of earlier texts.
LEMMA BlindFacts ==
    ASSUME PlaintextInv, NEW l \in Nat, NEW kept \in BOOLEAN,
           NEW o, o = [i \in 1 .. l |-> IF kept /\ i \in DOMAIN plaintext
                                       THEN Again(plaintext[i]) ELSE Garbage]
    PROVE  o \in Chunk /\ Len(o) = l /\ \A i \in 1 .. l : ~ Shown(o[i])
<1>1. Garbage \in Text /\ ~ Shown(Garbage)
  BY DEF Garbage, Text, Shown
<1>2. ASSUME NEW i \in DOMAIN plaintext
      PROVE  Again(plaintext[i]) \in Text /\ ~ Shown(Again(plaintext[i]))
  <2>1. PICK c : c = plaintext[i]
    OBVIOUS
  <2>2. c \in Text
    BY <2>1 DEF PlaintextInv, Chunk
  <2>3. c[1] \in Int /\ c[2] \in Nat /\ c = << c[1], c[2] >>
    BY <2>2 DEF Text
  <2>4. CASE c[1] > 0
    <3>1. Again(c) = << -c[1], c[2] >> /\ -c[1] \in Int /\ ~ (-c[1] > 0)
      BY <2>3, <2>4 DEF Again
    <3> QED
      BY <2>1, <2>3, <3>1 DEF Text, Shown
  <2>5. CASE ~ (c[1] > 0)
    BY <2>1, <2>2, <2>5 DEF Again, Shown
  <2> QED
    BY <2>4, <2>5
<1>3. \A i \in 1 .. l : o[i] \in Text /\ ~ Shown(o[i])
  BY <1>1, <1>2
<1>4. o \in [1 .. l -> Text]
  BY <1>3
<1> QED
  BY <1>3, <1>4 DEF Chunk

LEMMA DecryptKeepsOrder ==
    ASSUME PlainInv, PlaintextInv, Decrypt
    PROVE  PlainInv'
<1>1. /\ UNCHANGED << up, down, peerGot, peerSent, written >> /\ pc = "decrypt"
      /\ pc' = "idle" /\ length' = 0
  BY DEF Decrypt, counts, Return
<1>2. PICK m : m = peerSent + 1
  OBVIOUS
<1>3. /\ down \in Seq(Cell) /\ Aligned(down) /\ Below(down, m) /\ Behind(got, down)
      /\ got \in Seq(Chunk) /\ GivenBelow(got, m) /\ InOrder(got) /\ m \in Int
      /\ buf \in Seq(Cell) /\ Len(buf) >= NonceSize /\ Aligned(buf)
      /\ Below(buf, m) /\ Behind(got, buf) /\ Ahead(buf, down)
  BY <1>1, <1>2 DEF PlainInv, DownInv, Direction, Reading
<1>4. ASSUME NEW o \in Chunk, FirstOf(o, buf), got' = Append(got, o)
      PROVE  Direction(got', down, m)
  <2>2. /\ Append(got, o) \in Seq(Chunk) /\ InOrder(Append(got, o))
        /\ Behind(Append(got, o), down) /\ GivenBelow(Append(got, o), m)
    BY <1>3, <1>4, Giving
  <2> QED
    BY <1>3, <1>4, <2>2 DEF Direction
<1>5. Direction(got', down, m)
  <2>1. CASE got' = Append(got, Opened(buf))
    BY <1>3, <1>4, <2>1, OpenedFacts, FirstMessage
  <2>2. CASE \E kept \in BOOLEAN :
                LET text == [i \in 1 .. Len(buf) - NonceSize |->
                               IF kept /\ i \in DOMAIN plaintext THEN Again(plaintext[i])
                               ELSE Garbage]
                IN got' = Append(got, text) /\ plaintext' = Over(text, plaintext)
    <3>1. PICK l \in Nat : l = Len(buf) - NonceSize
      <4>1. Len(buf) \in Nat /\ NonceSize \in Nat
        BY <1>3, ChannelAssumption
      <4>2. Len(buf) - NonceSize \in Nat
        BY <1>3, <4>1
      <4> QED
        BY <4>2
    <3>2. PICK kept \in BOOLEAN :
             got' = Append(got, [i \in 1 .. l |-> IF kept /\ i \in DOMAIN plaintext
                                               THEN Again(plaintext[i]) ELSE Garbage])
      BY <2>2, <3>1
    <3>5. PICK o : o = [i \in 1 .. l |-> IF kept /\ i \in DOMAIN plaintext
                                       THEN Again(plaintext[i]) ELSE Garbage]
      OBVIOUS
    <3>3. o \in Chunk /\ Len(o) = l /\ \A i \in 1 .. l : ~ Shown(o[i])
      BY <3>5, BlindFacts
    <3>4. FirstOf(o, buf)
      BY <3>3, Nothing
    <3> QED
      BY <1>4, <3>2, <3>3, <3>4, <3>5
  <2>3. CASE UNCHANGED got
    BY <1>3, <2>3 DEF Direction
  <2> QED
    BY <2>1, <2>2, <2>3 DEF Decrypt
<1>6. DownInv'
  BY <1>1, <1>2, <1>5 DEF DownInv, Reading
<1>7. UpInv'
  <2>1. Sent' = Sent
    BY <1>1 DEF Sent, Writing
  <2> QED
    BY <1>1, <2>1 DEF PlainInv, UpInv
<1> QED
  BY <1>1, <1>6, <1>7 DEF PlainInv

LEMMA PeerSendKeepsOrder ==
    ASSUME PlainInv, PeerSend
    PROVE  PlainInv'
<1>1. /\ UNCHANGED << pc, length, buf, up, got, peerGot, written >>
      /\ peerSent' = peerSent + 1
      /\ down' = down \o Sealed(peerSent + 1, peerSent + 1, PeerLength)
  BY DEF PeerSend, given, call
<1>2. PICK m, p : m = peerSent + 1 /\ p = Sealed(peerSent + 1, peerSent + 1, PeerLength)
  OBVIOUS
<1>3. m \in Nat /\ m \in Int /\ PeerLength \in Nat
  BY <1>2, ChannelAssumption DEF PlainInv
<1>4. p \in Seq(Cell) /\ Piece(p, m)
  <2>1. p = Sealed(m, m, PeerLength)
    BY <1>2
  <2> QED
    BY <1>3, <2>1, SealedFacts
<1>5. /\ down \in Seq(Cell) /\ Aligned(down) /\ Below(down, m) /\ Behind(got, down)
      /\ got \in Seq(Chunk) /\ GivenBelow(got, m) /\ InOrder(got)
  BY <1>2 DEF PlainInv, DownInv, Direction
<1>6. /\ down \o p \in Seq(Cell) /\ Aligned(down \o p) /\ Below(down \o p, m + 1)
      /\ Behind(got, down \o p)
      /\ \A c \in Seq(Cell) : Ahead(c, down) /\ Below(c, m) => Ahead(c, down \o p)
  BY <1>3, <1>4, <1>5, Joining
<1>7. GivenBelow(got, m + 1)
  BY <1>3, <1>5, Raising
<1>8. Direction(got, down \o p, m + 1)
  BY <1>5, <1>6, <1>7 DEF Direction
<1>9. DownInv'
  <2>1. ASSUME pc \in Reading
        PROVE  /\ buf \in Seq(Cell) /\ Len(buf) >= NonceSize /\ Aligned(buf)
               /\ Below(buf, m + 1) /\ Behind(got, buf) /\ Ahead(buf, down \o p)
    <3>1. /\ buf \in Seq(Cell) /\ Len(buf) >= NonceSize /\ Aligned(buf)
          /\ Below(buf, m) /\ Behind(got, buf) /\ Ahead(buf, down)
      BY <1>2, <2>1 DEF PlainInv, DownInv
    <3>2. Below(buf, m + 1)
      BY <1>3, <1>5, <3>1, Raising
    <3> QED
      BY <1>6, <3>1, <3>2
  <2> QED
    BY <1>1, <1>2, <1>8, <2>1 DEF DownInv
<1>10. UpInv'
  <2>1. Sent' = Sent
    BY <1>1 DEF Sent
  <2> QED
    BY <1>1, <2>1 DEF PlainInv, UpInv
<1> QED
  BY <1>1, <1>2, <1>3, <1>9, <1>10 DEF PlainInv

LEMMA PeerReceiveKeepsOrder ==
    ASSUME PlainInv, PeerReceive
    PROVE  PlainInv'
<1>1. UNCHANGED << pc, length, buf, down, got, written, peerSent >>
  BY DEF PeerReceive, call, counts
<1>2. PICK n \in 1 .. Len(up) :
         /\ up' = Rest(up, n)
         /\ peerGot' = IF n < NonceSize THEN peerGot
                       ELSE Append(peerGot, Opened(SubSeq(up, 1, n)))
  BY DEF PeerReceive, Chunks
<1>3. PICK h, r, m : h = SubSeq(up, 1, n) /\ r = Rest(up, n) /\ m = Sent
  OBVIOUS
<1>4. /\ up \in Seq(Cell) /\ Aligned(up) /\ Below(up, m) /\ Behind(peerGot, up)
      /\ peerGot \in Seq(Chunk) /\ GivenBelow(peerGot, m) /\ InOrder(peerGot) /\ m \in Int
  BY <1>3 DEF PlainInv, UpInv, Direction, Sent
<1>5. /\ h \in Seq(Cell) /\ Len(h) = n /\ r \in Seq(Cell)
      /\ Aligned(h) /\ Aligned(r) /\ Ahead(h, r)
      /\ Below(h, m) /\ Below(r, m) /\ Behind(peerGot, h) /\ Behind(peerGot, r)
  BY <1>3, <1>4, Cutting
<1>6. Direction(peerGot', r, m)
  <2>1. CASE n < NonceSize
    BY <1>2, <1>4, <1>5, <2>1 DEF Direction
  <2>2. CASE ~ (n < NonceSize)
    <3>1. Len(h) >= NonceSize
      <4>1. n \in Int /\ NonceSize \in Int
        BY ChannelAssumption
      <4> QED
        BY <1>5, <2>2, <4>1
    <3>2. Opened(h) \in Chunk /\ FirstOf(Opened(h), h)
      BY <1>5, <3>1, OpenedFacts, FirstMessage
    <3>3. PICK o \in Chunk : o = Opened(h) /\ FirstOf(o, h)
      BY <3>2
    <3>4. /\ Append(peerGot, o) \in Seq(Chunk) /\ InOrder(Append(peerGot, o))
          /\ Behind(Append(peerGot, o), r) /\ GivenBelow(Append(peerGot, o), m)
      BY <1>4, <1>5, <3>1, <3>3, Giving
    <3>5. peerGot' = Append(peerGot, o)
      BY <1>2, <1>3, <2>2, <3>3
    <3> QED
      BY <1>5, <3>4, <3>5 DEF Direction
  <2> QED
    BY <2>1, <2>2
<1>7. UpInv'
  <2>1. Sent' = m
    BY <1>1, <1>3 DEF Sent
  <2> QED
    BY <1>1, <1>2, <1>3, <1>6, <2>1 DEF PlainInv, UpInv
<1>8. DownInv'
  BY <1>1 DEF PlainInv, DownInv
<1> QED
  BY <1>1, <1>7, <1>8 DEF PlainInv

LEMMA PlainKept ==
    ASSUME PlainInv, NumbersInv, PayloadInv, PlaintextInv, [Next]_vars
    PROVE  PlainInv'
<1>1. CASE Write \/ WriteLoadsKey \/ ReadIv
  BY <1>1, WriteKeepsOrder
<1>2. CASE Encrypt
  BY <1>2, EncryptKeepsOrder
<1>3. CASE Send
  BY <1>3, SendKeepsOrder
<1>4. CASE Read \/ ReadLoadsKey \/ Decrypt
  BY <1>4, ReadKeepsOrder, ReadKeyKeepsOrder, DecryptKeepsOrder
<1>5. CASE PeerSend \/ PeerReceive
  BY <1>5, PeerSendKeepsOrder, PeerReceiveKeepsOrder
<1>6. CASE UNCHANGED vars
  BY <1>6 DEF vars, call, counts, given, PlainInv, DownInv, UpInv, Sent
<1> QED
  BY <1>1, <1>2, <1>3, <1>4, <1>5, <1>6 DEF Next, App

-----------------------------------------------------------------------------
(* Old text: what a call without a cipher of its own finds in memory.  The  *)
(* text of the application's reads is found by reads that come when there   *)
(* is no more room, and then no read shows anything new.  A payload of the  *)
(* application opens at the other end when it was sealed under the IV that  *)
(* is sent in front of it: an IV that was refused and used again.           *)

\* No cell of s is old.
Plain(s) == \A k \in 1 .. Len(s) : s[k][4] = 0

\* Old cells of s are not under the IV with which their message begins, unless the TPM
\* has refused one.
Closed(s) ==
    /\ \A k \in 1 .. Len(s) : s[k][4] # 0 => free < 1
    /\ refused = 0 =>
          \A a, b \in 1 .. Len(s) :
             s[a][3] = s[b][3] /\ s[a][2] <= NonceSize /\ s[b][4] # 0 => s[a][1] # s[b][1]

OldGot ==
    \A a, b \in 1 .. Len(got) :
        ShowsOld(got[a]) => free < 1 /\ (a <= b => ~ ShowsNew(got[b]))

OldPeerGot == \A a \in 1 .. Len(peerGot) : ShowsOld(peerGot[a]) => free < 1 /\ refused > 0

OldInv ==
    /\ free \in Int /\ free >= -1
    /\ Plain(down) /\ (pc \in Reading => Plain(buf))
    /\ Closed(up) /\ (pc = "send" => Closed(buf))
    /\ OldGot /\ OldPeerGot

\* The invariant of what is read and of what memory holds.
TextInv == PlainInv /\ PayloadInv /\ PlaintextInv /\ OldInv

\* Room is never won, and refusals stay.
LEMMA OldStays ==
    ASSUME OldInv, NumbersInv, free' \in Int, free' <= free,
           refused' \in Nat, refused' >= refused
    PROVE  /\ \A s : Closed(s) => (Closed(s))'
           /\ UNCHANGED got => OldGot'
           /\ UNCHANGED peerGot => OldPeerGot'
<1>1. free \in Int /\ refused \in Nat
  BY DEF OldInv, NumbersInv
<1>2. (free < 1 => free' < 1) /\ (refused' = 0 => refused = 0) /\ (refused > 0 => refused' > 0)
  BY <1>1
<1> QED
  BY <1>2 DEF OldInv, Closed, OldGot, OldPeerGot

LEMMA Latest ==
    ASSUME IvInv, pc = "encrypt", refused = 0
    PROVE  iv \notin {-1} \union Range(used)
<1>1. used \in Seq(Nat) /\ iv \in Nat
  BY DEF IvInv, NumbersInv
<1>2. Pending = 0
  <2>1. Cardinality(Repeated) \in Nat /\ Pending \in {0, 1}
    BY FS_CardinalityType DEF IvInv, RepeatInv, Pending
  <2> QED
    BY <2>1 DEF IvInv, RepeatInv
<1>3. ASSUME NEW i \in 1 .. Len(used) PROVE used[i] # iv
  <2>1. PICK l \in Nat : l = Len(used) /\ l \in 1 .. Len(used) /\ used # << >>
    BY <1>1
  <2>2. used[l] # iv
    BY <1>2, <2>1 DEF Pending
  <2>3. used[l] <= iv /\ used[l] \in Nat /\ used[i] \in Nat
    BY <1>1, <2>1 DEF IvInv, UsedInv, LatestInv
  <2>4. i = l \/ used[i] <= used[l]
    BY <1>1, <2>1 DEF IvInv, UsedInv
  <2> QED
    BY <1>1, <2>2, <2>3, <2>4
<1> QED
  BY <1>1, <1>3 DEF Range

\* Cells of a stream that are taken out of it.
LEMMA ClosedPart ==
    ASSUME NEW s, NEW r, \A k \in 1 .. Len(r) : \E j \in 1 .. Len(s) : r[k] = s[j]
    PROVE  (Closed(s) => Closed(r)) /\ (Plain(s) => Plain(r))
<1>1. PICK f \in [1 .. Len(r) -> 1 .. Len(s)] : \A k \in 1 .. Len(r) : r[k] = s[f[k]]
  <2> DEFINE f == [k \in 1 .. Len(r) |-> CHOOSE j \in 1 .. Len(s) : r[k] = s[j]]
  <2>1. \A k \in 1 .. Len(r) : f[k] \in 1 .. Len(s) /\ r[k] = s[f[k]]
    OBVIOUS
  <2> QED
    BY <2>1
<1>2. ASSUME Closed(s) PROVE Closed(r)
  <2>1. \A k \in 1 .. Len(r) : r[k][4] # 0 => free < 1
    BY <1>1, <1>2 DEF Closed
  <2>2. ASSUME refused = 0, NEW a \in 1 .. Len(r), NEW b \in 1 .. Len(r),
               r[a][3] = r[b][3], r[a][2] <= NonceSize, r[b][4] # 0
        PROVE  r[a][1] # r[b][1]
    <3>1. PICK i \in 1 .. Len(s), j \in 1 .. Len(s) : r[a] = s[i] /\ r[b] = s[j]
      BY <1>1
    <3> QED
      BY <1>2, <2>2, <3>1 DEF Closed
  <2> QED
    BY <2>1, <2>2 DEF Closed
<1>3. ASSUME Plain(s) PROVE Plain(r)
  BY <1>1, <1>3 DEF Plain
<1> QED
  BY <1>2, <1>3

LEMMA CutParts ==
    ASSUME NEW s \in Seq(Cell), NEW n \in 0 .. Len(s)
    PROVE  /\ Closed(s) => Closed(SubSeq(s, 1, n)) /\ Closed(Rest(s, n))
           /\ Plain(s) => Plain(SubSeq(s, 1, n)) /\ Plain(Rest(s, n))
<1>1. PICK h, r : h = SubSeq(s, 1, n) /\ r = Rest(s, n)
  OBVIOUS
<1>2. Len(s) \in Nat /\ n \in Nat /\ n <= Len(s)
  OBVIOUS
<1>3. /\ Len(h) = n /\ \A k \in 1 .. n : h[k] = s[k] /\ k \in 1 .. Len(s)
      /\ Len(r) = Len(s) - n
      /\ \A k \in 1 .. Len(s) - n : r[k] = s[n + k] /\ n + k \in 1 .. Len(s)
  BY <1>1, <1>2 DEF Rest
<1>4. \A k \in 1 .. Len(h) : \E j \in 1 .. Len(s) : h[k] = s[j]
  BY <1>3
<1>5. \A k \in 1 .. Len(r) : \E j \in 1 .. Len(s) : r[k] = s[j]
  BY <1>3
<1>6. (Closed(s) => Closed(h)) /\ (Plain(s) => Plain(h))
  BY <1>4, ClosedPart
<1>7. (Closed(s) => Closed(r)) /\ (Plain(s) => Plain(r))
  BY <1>5, ClosedPart
<1> QED
  BY <1>1, <1>6, <1>7

\* A message that goes behind a stream has a number of its own.
LEMMA ClosedJoin ==
    ASSUME NEW s \in Seq(Cell), NEW p \in Seq(Cell), NEW m \in Int, Below(s, m), Piece(p, m)
    PROVE  /\ Closed(s) /\ Closed(p) => Closed(s \o p)
           /\ Plain(s) /\ Plain(p) => Plain(s \o p)
<1>1. PICK u : u = s \o p
  OBVIOUS
<1>2. /\ Len(u) = Len(s) + Len(p) /\ Len(s) \in Nat /\ Len(p) \in Nat
      /\ \A k \in 1 .. Len(s) + Len(p) : u[k] = IF k <= Len(s) THEN s[k] ELSE p[k - Len(s)]
  BY <1>1, ConcatProperties
<1>3. ASSUME NEW k \in 1 .. Len(u)
      PROVE  \/ \E j \in 1 .. Len(s) : u[k] = s[j] /\ s[j][3] < m
             \/ \E j \in 1 .. Len(p) : u[k] = p[j] /\ p[j][3] = m
  <2>1. CASE k <= Len(s)
    BY <1>2, <2>1 DEF Below
  <2>2. CASE k > Len(s)
    <3>1. PICK j \in 1 .. Len(p) : j = k - Len(s)
      BY <1>2, <2>2
    <3>2. u[k] = p[j]
      BY <1>2, <2>2, <3>1
    <3> QED
      BY <3>2 DEF Piece
  <2> QED
    BY <1>2, <2>1, <2>2
<1>4. ASSUME Closed(s), Closed(p) PROVE Closed(u)
  <2>1. \A k \in 1 .. Len(u) : u[k][4] # 0 => free < 1
    BY <1>3, <1>4 DEF Closed
  <2>2. ASSUME refused = 0, NEW a \in 1 .. Len(u), NEW b \in 1 .. Len(u),
               u[a][3] = u[b][3], u[a][2] <= NonceSize, u[b][4] # 0
        PROVE  u[a][1] # u[b][1]
    <3>1. \/ \E i, j \in 1 .. Len(s) : u[a] = s[i] /\ u[b] = s[j]
          \/ \E i, j \in 1 .. Len(p) : u[a] = p[i] /\ u[b] = p[j]
      <4>1. \/ \E j \in 1 .. Len(s) : u[a] = s[j] /\ s[j][3] < m
            \/ \E j \in 1 .. Len(p) : u[a] = p[j] /\ p[j][3] = m
        BY <1>3
      <4>2. \/ \E j \in 1 .. Len(s) : u[b] = s[j] /\ s[j][3] < m
            \/ \E j \in 1 .. Len(p) : u[b] = p[j] /\ p[j][3] = m
        BY <1>3
      <4>3. \A i \in 1 .. Len(s), j \in 1 .. Len(p) :
               s[i][3] < m /\ p[j][3] = m => s[i][3] # p[j][3]
        OBVIOUS
      <4> QED
        BY <2>2, <4>1, <4>2, <4>3
    <3> QED
      BY <1>4, <2>2, <3>1 DEF Closed
  <2> QED
    BY <2>1, <2>2 DEF Closed
<1>5. Plain(s) /\ Plain(p) => Plain(u)
  BY <1>3 DEF Plain
<1> QED
  BY <1>1, <1>4, <1>5

\* Old text that is read was sent under the IV in front of it.
LEMMA OpenedOld ==
    ASSUME NEW s \in Seq(Cell), Len(s) >= NonceSize
    PROVE  /\ Plain(s) => ~ ShowsOld(Opened(s))
           /\ Aligned(s) /\ Closed(s) /\ ShowsOld(Opened(s)) => free < 1 /\ refused # 0
<1>1. NonceSize \in Nat \ {0} /\ Len(s) \in Nat
  BY ChannelAssumption
<1>2. ASSUME ShowsOld(Opened(s))
      PROVE  \E j \in 1 .. Len(s) : /\ 1 < j /\ s[j][2] = j /\ s[j][4] # 0
                                    /\ s[1][2] = 1 /\ s[j][1] = s[1][1]
  <2>1. PICK i \in DOMAIN Opened(s) : Opened(s)[i][1] < 0
    BY <1>2 DEF ShowsOld
  <2>2. i \in 1 .. Len(s) - NonceSize
    BY OpenedFacts DEF Chunk
  <2>3. Opened(s)[i] # Garbage
    BY <2>1 DEF Garbage
  <2>4. /\ Opened(s)[i] = TextOf(s[NonceSize + i], i)
        /\ s[1][2] = 1 /\ s[NonceSize + i][2] = NonceSize + i
        /\ s[NonceSize + i][1] = s[1][1]
    BY <2>2, <2>3, OpenedFacts
  <2>5. PICK j \in 1 .. Len(s) : j = NonceSize + i /\ 1 < j
    BY <1>1, <2>2
  <2>6. s[j][4] # 0
    <3>1. SUFFICES ASSUME s[j][4] = 0 PROVE FALSE
      OBVIOUS
    <3>2. Opened(s)[i] = << s[j][3], i >>
      BY <2>4, <2>5, <3>1 DEF TextOf
    <3>3. s[j][3] \in Nat /\ Opened(s)[i][1] = s[j][3]
      BY <3>2, CellFacts
    <3> QED
      BY <2>1, <3>3
  <2> QED
    BY <2>4, <2>5, <2>6
<1>3. Plain(s) => ~ ShowsOld(Opened(s))
  BY <1>2 DEF Plain
<1>4. ASSUME Aligned(s), Closed(s), ShowsOld(Opened(s)) PROVE free < 1 /\ refused # 0
  <2>1. PICK j \in 1 .. Len(s) : /\ 1 < j /\ s[j][2] = j /\ s[j][4] # 0
                                 /\ s[1][2] = 1 /\ s[j][1] = s[1][1]
    BY <1>2, <1>4
  <2>2. s[j][3] = s[1][3] /\ 1 \in 1 .. Len(s) /\ 1 <= NonceSize
    BY <1>1, <1>4, <2>1, SameMessage
  <2> QED
    BY <1>4, <2>1, <2>2 DEF Closed
<1> QED
  BY <1>3, <1>4

LEMMA OverFacts ==
    ASSUME NEW S, NEW new \in Seq(S), NEW old \in Seq(S)
    PROVE  /\ Over(new, old) \in Seq(S)
           /\ \A k \in 1 .. Len(Over(new, old)) :
                 \/ k \in 1 .. Len(new) /\ Over(new, old)[k] = new[k]
                 \/ k \in 1 .. Len(old) /\ Over(new, old)[k] = old[k]
<1>1. Len(new) \in Nat /\ Len(old) \in Nat
  OBVIOUS
<1>2. PICK n \in Nat, l \in Nat : n = Len(new) /\ l = Len(old)
  BY <1>1
<1>3. PICK r : r = SubSeq(old, n + 1, l)
  OBVIOUS
<1>4. /\ r \in Seq(S) /\ Len(r) = IF n + 1 <= l THEN l - n ELSE 0
      /\ \A k \in 1 .. Len(r) : r[k] = old[n + k] /\ n + k \in 1 .. l
  BY <1>2, <1>3
<1>5. PICK u : u = new \o r
  OBVIOUS
<1>6. /\ u \in Seq(S) /\ Len(u) = n + Len(r)
      /\ \A k \in 1 .. n + Len(r) : u[k] = IF k <= n THEN new[k] ELSE r[k - n]
  BY <1>2, <1>4, <1>5, ConcatProperties
<1>7. ASSUME NEW k \in 1 .. Len(u)
      PROVE  (k \in 1 .. n /\ u[k] = new[k]) \/ (k \in 1 .. l /\ u[k] = old[k])
  <2>1. CASE k <= n
    BY <1>2, <1>4, <1>6, <2>1
  <2>2. CASE k > n
    <3>0. PICK m \in Nat : m = Len(r) /\ k \in 1 .. n + m
      <4>1. Len(r) \in Nat
        BY <1>4
      <4> QED
        BY <1>6, <4>1
    <3>1. PICK j \in 1 .. m : j = k - n
      BY <2>2, <3>0
    <3>2. n + j = k
      BY <1>2, <3>1
    <3>3. u[k] = r[j] /\ r[j] = old[n + j] /\ n + j \in 1 .. l
      BY <1>2, <1>4, <1>6, <2>2, <3>0, <3>1
    <3> QED
      BY <3>2, <3>3
  <2> QED
    BY <1>2, <1>4, <1>6, <2>1, <2>2
<1> QED
  BY <1>2, <1>3, <1>5, <1>6, <1>7 DEF Over

-----------------------------------------------------------------------------
(* The steps.                                                               *)

\* Room and refusals.
LEMMA RoomFalls ==
    ASSUME OldInv, NumbersInv, App \/ PeerSend \/ PeerReceive
    PROVE  /\ free' \in Int /\ free' >= -1 /\ free' <= free
           /\ refused' \in Nat /\ refused' >= refused
<1>1. free \in Int /\ free >= -1 /\ refused \in Nat
  BY DEF OldInv, NumbersInv
<1>2. CASE Encrypt
  BY <1>1, <1>2 DEF Encrypt, entropy
<1>3. CASE Decrypt
  <2>1. /\ UNCHANGED refused
        /\ \/ free >= 1 /\ free' = free - 1
           \/ free = 0 /\ free' = 0
           \/ free < 1 /\ free' = -1
    BY <1>3, ZenonT(60) DEF Decrypt, entropy
  <2> QED
    BY <1>1, <2>1
<1>4. CASE ReadIv
  BY <1>1, <1>4 DEF ReadIv
<1>5. CASE Write \/ WriteLoadsKey \/ Send \/ Read \/ ReadLoadsKey
  <2>1. UNCHANGED << free, refused >>
    BY <1>5, ZenonT(60) DEF Write, WriteLoadsKey, Send, Read, ReadLoadsKey, entropy
  <2> QED
    BY <1>1, <2>1
<1>6. CASE PeerSend \/ PeerReceive
  <2>1. UNCHANGED << free, refused >>
    BY <1>6, ZenonT(60) DEF PeerSend, PeerReceive, entropy
  <2> QED
    BY <1>1, <2>1
<1> QED
  BY <1>2, <1>3, <1>4, <1>5, <1>6 DEF App

\* A payload that is written over the last one.
LEMMA PayloadStep ==
    ASSUME PayloadInv, NEW p \in Seq(Cell), payload' = Over(p, payload),
           Range(used) \subseteq Range(used'),
           \A k \in 1 .. Len(p) :
              /\ p[k][2] = k
              /\ k > NonceSize => p[k][1] \in {-1} \union Range(used')
    PROVE  PayloadInv'
<1>1. payload \in Seq(Cell)
  BY DEF PayloadInv
<1>2. PICK u, old : u = Over(p, payload) /\ old = payload
  OBVIOUS
<1>3. /\ u \in Seq(Cell)
      /\ \A k \in 1 .. Len(u) : (k \in 1 .. Len(p) /\ u[k] = p[k])
                              \/ (k \in 1 .. Len(old) /\ u[k] = old[k])
  BY <1>1, <1>2, OverFacts
<1>4. \A k \in 1 .. Len(old) :
         /\ old[k][2] = k
         /\ k > NonceSize => old[k][1] \in {-1} \union Range(used)
  BY <1>2 DEF PayloadInv
<1>5. PICK R : R = {-1} \union Range(used') /\ {-1} \union Range(used) \subseteq R
  OBVIOUS
<1>6. \A k \in 1 .. Len(u) : u[k][2] = k /\ (k > NonceSize => u[k][1] \in R)
  BY <1>3, <1>4, <1>5
<1>7. u = payload'
  BY <1>2
<1> QED
  BY <1>3, <1>5, <1>6, <1>7 DEF PayloadInv, Range

\* Memory changes when something is encrypted or decrypted.
LEMMA MemoryKept ==
    ASSUME TextInv, IvInv, App \/ PeerSend \/ PeerReceive
    PROVE  PayloadInv' /\ PlaintextInv'
<1>1. PlainInv /\ PayloadInv /\ PlaintextInv /\ NumbersInv
  BY DEF TextInv, IvInv
<1>2. CASE UNCHANGED << payload, plaintext, used >>
  BY <1>1, <1>2 DEF PayloadInv, PlaintextInv
<1>3. CASE Write \/ WriteLoadsKey \/ ReadIv \/ Send \/ Read \/ ReadLoadsKey \/ PeerSend \/ PeerReceive
  <2>1. UNCHANGED << payload, plaintext, used >>
    BY <1>3, ZenonT(60) DEF Write, WriteLoadsKey, ReadIv, Send, Read, ReadLoadsKey, PeerSend,
       PeerReceive, memory
  <2> QED
    BY <1>2, <2>1
<1>4. CASE Encrypt
  <2>1. PlaintextInv'
    BY <1>1, <1>4 DEF Encrypt, PlaintextInv
  <2>3. CASE buf' = Sealed(iv, written, length) /\ used' = Append(used, iv)
             /\ payload' = Over(buf', payload)
    <3>1. iv \in Int /\ written \in Nat /\ length \in Nat /\ used \in Seq(Nat) /\ iv \in Nat
      BY <1>1 DEF PlainInv, NumbersInv
    <3>2. PICK p : p = Sealed(iv, written, length)
      OBVIOUS
    <3>3. /\ p \in Seq(Cell) /\ Len(p) = NonceSize + length
          /\ \A k \in 1 .. NonceSize + length : p[k] = << iv, k, written, 0 >>
      BY <3>1, <3>2, SealedFacts
    <3>4. /\ DOMAIN used' = 1 .. Len(used) + 1 /\ used'[Len(used) + 1] = iv
          /\ \A i \in DOMAIN used : i \in DOMAIN used' /\ used'[i] = used[i]
      BY <2>3, <3>1
    <3>5. iv \in Range(used') /\ Range(used) \subseteq Range(used')
      <4>1. Len(used) + 1 \in 1 .. Len(used) + 1
        BY <3>1
      <4> QED
        BY <3>4, <4>1 DEF Range
    <3>6. \A k \in 1 .. Len(p) :
             p[k][2] = k /\ (k > NonceSize => p[k][1] \in {-1} \union Range(used'))
      BY <3>3, <3>5
    <3> QED
      BY <1>1, <2>1, <2>3, <3>2, <3>3, <3>5, <3>6, PayloadStep
  <2>4. CASE buf' \in NotSealed /\ used' = used /\ payload' = Over(buf', payload)
    <3>1. PICK p \in NotSealed : p = buf'
      BY <2>4
    <3>2. /\ p \in Seq(Cell) /\ Piece(p, written)
          /\ \A k \in 1 .. Len(p) : k > NonceSize => p[k][1] \in {-1} \union Range(used)
      BY <1>1, NotSealedFacts
    <3>3. \A k \in 1 .. Len(p) :
             p[k][2] = k /\ (k > NonceSize => p[k][1] \in {-1} \union Range(used'))
      BY <2>4, <3>2 DEF Piece
    <3> QED
      BY <1>1, <2>1, <2>4, <3>1, <3>2, <3>3, PayloadStep
  <2>5. CASE payload' = payload /\ used' = used
    BY <1>1, <2>1, <2>5 DEF PayloadInv, Range
  <2> QED
    BY <1>4, <2>1, <2>3, <2>4, <2>5 DEF Encrypt
<1>5. CASE Decrypt
  <2>1. PayloadInv'
    BY <1>1, <1>5 DEF Decrypt, PayloadInv
  <2>2. buf \in Seq(Cell) /\ Len(buf) >= NonceSize /\ plaintext \in Seq(Text)
    BY <1>1, <1>5 DEF Decrypt, PlainInv, DownInv, Reading, PlaintextInv, Chunk
  <2>3. PICK l \in Nat : l = Len(buf) - NonceSize
    <3>1. Len(buf) - NonceSize \in Nat
      BY <2>2, ChannelAssumption
    <3> QED
      BY <3>1
  <2>4. \/ plaintext' = plaintext
        \/ \E o \in Chunk : plaintext' = Over(o, plaintext)
    <3>1. CASE plaintext' = Over(Opened(buf), plaintext)
      BY <2>2, <3>1, OpenedFacts
    <3>2. CASE \E kept \in BOOLEAN :
                 plaintext' = Over([i \in 1 .. l |-> IF kept /\ i \in DOMAIN plaintext
                                         THEN Again(plaintext[i]) ELSE Garbage], plaintext)
      <4>1. PICK kept \in BOOLEAN :
                 plaintext' = Over([i \in 1 .. l |-> IF kept /\ i \in DOMAIN plaintext
                                         THEN Again(plaintext[i]) ELSE Garbage], plaintext)
        BY <3>2
      <4>2. PICK o : o = [i \in 1 .. l |-> IF kept /\ i \in DOMAIN plaintext
                                         THEN Again(plaintext[i]) ELSE Garbage]
        OBVIOUS
      <4>3. o \in Chunk
        BY <1>1, <4>2, BlindFacts
      <4> QED
        BY <4>1, <4>2, <4>3
    <3> QED
      BY <1>5, <2>3, <3>1, <3>2 DEF Decrypt
  <2>5. PlaintextInv'
    BY <1>1, <2>2, <2>4, OverFacts DEF PlaintextInv, Chunk
  <2> QED
    BY <2>1, <2>5
<1> QED
  BY <1>2, <1>3, <1>4, <1>5 DEF App

\* Steps that leave alone what has been sent and given.
LEMMA OldUntouched ==
    ASSUME OldInv, NumbersInv, App \/ PeerSend \/ PeerReceive,
           UNCHANGED << up, down, got, peerGot >>,
           pc' \in Reading => pc \in Reading /\ buf' = buf, pc' # "send"
    PROVE  OldInv'
<1>1. /\ free' \in Int /\ free' >= -1 /\ free' <= free
      /\ refused' \in Nat /\ refused' >= refused
  BY RoomFalls
<1>2. (Closed(up))' /\ OldGot' /\ OldPeerGot'
  <2>1. Closed(up)
    BY DEF OldInv
  <2>2. /\ \A s : Closed(s) => (Closed(s))'
        /\ OldGot' /\ OldPeerGot'
    BY <1>1, OldStays
  <2>3. PICK s : s = up
    OBVIOUS
  <2>4. (Closed(s))' /\ up' = s
    BY <2>1, <2>2, <2>3
  <2> QED
    BY <2>2, <2>4 DEF Closed
<1>3. Plain(down)' /\ (pc' \in Reading => Plain(buf)')
  BY DEF OldInv, Plain
<1> QED
  BY <1>1, <1>2, <1>3 DEF OldInv

LEMMA ClosedStays ==
    ASSUME OldInv, NumbersInv, App \/ PeerSend \/ PeerReceive, NEW s, Closed(s)
    PROVE  (Closed(s))'
<1>1. /\ free' \in Int /\ free' >= -1 /\ free' <= free
      /\ refused' \in Nat /\ refused' >= refused
  BY RoomFalls
<1> QED
  BY <1>1, OldStays

LEMMA GivenStays ==
    ASSUME OldInv, NumbersInv, App \/ PeerSend \/ PeerReceive
    PROVE  /\ UNCHANGED got => OldGot'
           /\ UNCHANGED peerGot => OldPeerGot'
           /\ UNCHANGED up => (Closed(up))'
           /\ free' \in Int /\ free' >= -1
<1>1. /\ free' \in Int /\ free' >= -1 /\ free' <= free
      /\ refused' \in Nat /\ refused' >= refused
  BY RoomFalls
<1>2. (UNCHANGED got => OldGot') /\ (UNCHANGED peerGot => OldPeerGot')
  BY <1>1, OldStays
<1>3. ASSUME UNCHANGED up PROVE (Closed(up))'
  <2>1. PICK s : s = up
    OBVIOUS
  <2>2. Closed(s)
    BY <2>1 DEF OldInv
  <2>3. (Closed(s))'
    BY <2>2, ClosedStays
  <2>4. up' = s
    BY <1>3, <2>1
  <2> QED
    BY <2>3, <2>4 DEF Closed
<1> QED
  BY <1>1, <1>2, <1>3

LEMMA EncryptKeepsOld ==
    ASSUME OldInv, PlainInv, PayloadInv, IvInv, Encrypt
    PROVE  OldInv'
<1>0. NumbersInv /\ (App \/ PeerSend \/ PeerReceive)
  BY DEF IvInv, App
<1>1. /\ UNCHANGED << up, down, got, peerGot, refused, pc >> \/ pc' \in {"idle", "send"}
      /\ UNCHANGED << up, down, got, peerGot, refused, written >>
      /\ pc = "encrypt" /\ pc' \in {"idle", "send"}
  BY DEF Encrypt, given, counts, entropy, Return
<1>2. ASSUME pc' = "send" PROVE (Closed(buf))'
  <2>1. \/ buf' = Sealed(iv, written, length)
        \/ buf' \in NotSealed /\ free' = 0
    BY <1>2 DEF Encrypt, Return
  <2>2. CASE buf' = Sealed(iv, written, length)
    <3>1. iv \in Int /\ written \in Nat /\ length \in Nat
      BY <1>0 DEF PlainInv, NumbersInv
    <3>2. PICK p : p = Sealed(iv, written, length)
      OBVIOUS
    <3>3. Len(p) = NonceSize + length
          /\ \A k \in 1 .. NonceSize + length : p[k] = << iv, k, written, 0 >>
      BY <3>1, <3>2, SealedFacts
    <3>4. \A k \in 1 .. Len(p) : p[k][4] = 0
      BY <3>3
    <3>5. buf' = p
      BY <2>2, <3>2
    <3> QED
      BY <3>4, <3>5 DEF Closed
  <2>3. CASE buf' \in NotSealed /\ free' = 0
    <3>1. PICK p \in NotSealed : p = buf'
      BY <2>3
    <3>2. /\ Piece(p, written)
          /\ \A k \in 1 .. Len(p) :
                /\ k <= NonceSize => p[k][1] = iv /\ p[k][4] = 0
                /\ k > NonceSize => p[k][1] \in {-1} \union Range(used)
      BY <1>0, NotSealedFacts
    <3>3. refused = 0 => iv \notin {-1} \union Range(used)
      BY <1>1, Latest
    <3>4. ASSUME refused = 0, NEW a \in 1 .. Len(p), NEW b \in 1 .. Len(p),
                 p[a][2] <= NonceSize, p[b][4] # 0
          PROVE  p[a][1] # p[b][1]
      <4>1. p[a][2] = a
        BY <3>2 DEF Piece
      <4>2. p[a][1] = iv
        BY <3>2, <3>4, <4>1
      <4>3. b > NonceSize
        <5>1. NonceSize \in Nat /\ b \in Nat
          BY ChannelAssumption
        <5> QED
          BY <3>2, <3>4, <5>1
      <4> QED
        BY <3>2, <3>3, <3>4, <4>2, <4>3
    <3>5. free' < 1 /\ refused' = refused
      BY <1>1, <2>3
    <3> QED
      BY <3>1, <3>4, <3>5 DEF Closed
  <2> QED
    BY <2>1, <2>2, <2>3
<1>3. Plain(down)'
  BY <1>1 DEF OldInv, Plain
<1>4. OldGot' /\ OldPeerGot' /\ (Closed(up))' /\ free' \in Int /\ free' >= -1
  BY <1>0, <1>1, GivenStays
<1>5. pc' \notin Reading
  BY <1>1 DEF Reading
<1> QED
  BY <1>2, <1>3, <1>4, <1>5 DEF OldInv

LEMMA SendKeepsOld ==
    ASSUME OldInv, PlainInv, NumbersInv, Send
    PROVE  OldInv'
<1>0. App \/ PeerSend \/ PeerReceive
  BY DEF App
<1>1. UNCHANGED << down, got, peerGot >> /\ pc = "send" /\ pc' = "idle"
  BY DEF Send, given, Return
<1>2. PICK s, m : s = up /\ m = written
  OBVIOUS
<1>3. /\ s \in Seq(Cell) /\ buf \in Seq(Cell) /\ Piece(buf, m) /\ m \in Int
      /\ Below(s, m) /\ Closed(s) /\ Closed(buf)
  BY <1>1, <1>2 DEF PlainInv, UpInv, Direction, OldInv, Sent, Writing
<1>4. UNCHANGED up \/ \E n \in 0 .. Len(buf) : up' = up \o SubSeq(buf, 1, n)
  BY DEF Send
<1>5. ASSUME NEW n \in 0 .. Len(buf), up' = s \o SubSeq(buf, 1, n)
      PROVE  (Closed(up))'
  <2>1. PICK p : p = SubSeq(buf, 1, n)
    OBVIOUS
  <2>2. Closed(p)
    BY <1>3, <2>1, CutParts
  <2>3. p \in Seq(Cell) /\ Piece(p, m)
    <3>1. p \in Seq(Cell) /\ Len(p) = n /\ \A k \in 1 .. n : p[k] = buf[k] /\ k \in 1 .. Len(buf)
      BY <1>3, <2>1
    <3> QED
      BY <1>3, <3>1 DEF Piece
  <2>4. PICK u : u = s \o p
    OBVIOUS
  <2>5. Closed(u)
    BY <1>3, <2>2, <2>3, <2>4, ClosedJoin
  <2>6. (Closed(u))'
    BY <1>0, <2>5, ClosedStays
  <2>7. up' = u
    BY <1>5, <2>1, <2>4
  <2> QED
    BY <2>6, <2>7 DEF Closed
<1>6. OldGot' /\ OldPeerGot' /\ (UNCHANGED up => (Closed(up))') /\ free' \in Int /\ free' >= -1
  BY <1>0, <1>1, GivenStays
<1>7. (Closed(up))'
  BY <1>2, <1>4, <1>5, <1>6
<1>8. Plain(down)' /\ pc' \notin Reading /\ pc' # "send"
  BY <1>1 DEF OldInv, Plain, Reading
<1> QED
  BY <1>6, <1>7, <1>8 DEF OldInv

LEMMA ReadKeepsOld ==
    ASSUME OldInv, PlainInv, NumbersInv, Read
    PROVE  OldInv'
<1>0. App \/ PeerSend \/ PeerReceive
  BY DEF App
<1>1. UNCHANGED << up, got, peerGot >> /\ pc' \in {"idle", "readKey"}
  BY DEF Read, given, Return
<1>2. PICK n \in 1 .. Len(down) :
         /\ down' = Rest(down, n)
         /\ pc' # "idle" => buf' = SubSeq(down, 1, n)
  BY <1>1 DEF Read, Chunks, Return
<1>3. down \in Seq(Cell) /\ Plain(down) /\ n \in 0 .. Len(down)
  BY DEF PlainInv, DownInv, Direction, OldInv
<1>4. Plain(SubSeq(down, 1, n)) /\ Plain(Rest(down, n))
  BY <1>3, CutParts
<1>5. Plain(down)' /\ (pc' \in Reading => Plain(buf)')
  BY <1>1, <1>2, <1>4 DEF Plain, Reading
<1>6. OldGot' /\ OldPeerGot' /\ (Closed(up))' /\ free' \in Int /\ free' >= -1
  BY <1>0, <1>1, GivenStays
<1>7. pc' # "send"
  BY <1>1
<1> QED
  BY <1>5, <1>6, <1>7 DEF OldInv

LEMMA DecryptKeepsOld ==
    ASSUME OldInv, PlainInv, PlaintextInv, NumbersInv, Decrypt
    PROVE  OldInv'
<1>0. App \/ PeerSend \/ PeerReceive
  BY DEF App
<1>1. UNCHANGED << up, down, peerGot >> /\ pc = "decrypt" /\ pc' = "idle"
  BY DEF Decrypt, Return
<1>2. OldPeerGot' /\ (Closed(up))' /\ (UNCHANGED got => OldGot') /\ free' \in Int /\ free' >= -1
  BY <1>0, <1>1, GivenStays
<1>3. Plain(down)' /\ pc' \notin Reading /\ pc' # "send"
  BY <1>1 DEF OldInv, Plain, Reading
<1>4. /\ got \in Seq(Chunk) /\ buf \in Seq(Cell) /\ Len(buf) >= NonceSize /\ Plain(buf)
      /\ OldGot
  BY <1>1 DEF PlainInv, DownInv, Direction, OldInv, Reading
<1>5. ASSUME NEW o \in Chunk, got' = Append(got, o),
             ShowsOld(o) => free' < 1, free < 1 => free' < 1,
             (\E a \in 1 .. Len(got) : ShowsOld(got[a])) \/ ShowsOld(o) => ~ ShowsNew(o)
      PROVE  OldGot'
  <2>1. PICK u, l : u = Append(got, o) /\ l = Len(got)
    OBVIOUS
  <2>2. /\ l \in Nat /\ Len(u) = l + 1 /\ u[l + 1] = o
        /\ \A a \in 1 .. l : u[a] = got[a]
    BY <1>4, <2>1, AppendProperties
  <2>3. ASSUME NEW a \in 1 .. l + 1, NEW b \in 1 .. l + 1, ShowsOld(u[a])
        PROVE  free' < 1 /\ (a <= b => ~ ShowsNew(u[b]))
    <3>1. (a \in 1 .. l /\ u[a] = got[a]) \/ (a = l + 1 /\ u[a] = o)
      BY <2>2
    <3>2. (b \in 1 .. l /\ u[b] = got[b]) \/ (b = l + 1 /\ u[b] = o)
      BY <2>2
    <3>3. CASE a \in 1 .. l /\ u[a] = got[a]
      <4>1. free' < 1
        BY <1>4, <1>5, <2>1, <2>3, <3>3 DEF OldGot
      <4> QED
        BY <1>4, <1>5, <2>1, <2>3, <3>2, <3>3, <4>1 DEF OldGot
    <3>4. CASE a = l + 1 /\ u[a] = o
      <4>1. a <= b => b = l + 1
        BY <2>2, <3>4
      <4> QED
        BY <1>5, <2>2, <2>3, <3>4, <4>1
    <3> QED
      BY <3>1, <3>3, <3>4
  <2> QED
    BY <1>5, <2>1, <2>2, <2>3 DEF OldGot
<1>6. OldGot'
  <2>1. CASE free >= 1 /\ got' = Append(got, Opened(buf))
    <3>1. Opened(buf) \in Chunk /\ ~ ShowsOld(Opened(buf))
      BY <1>4, OpenedFacts, OpenedOld
    <3>2. ~ (free < 1) /\ \A a \in 1 .. Len(got) : ~ ShowsOld(got[a])
      <4>1. ~ (free < 1)
        BY <2>1 DEF OldInv
      <4> QED
        BY <1>4, <4>1 DEF OldGot
    <3> QED
      BY <1>5, <2>1, <3>1, <3>2
  <2>2. CASE /\ free = 0 /\ free' = 0
             /\ \E kept \in BOOLEAN :
                   LET text == [i \in 1 .. Len(buf) - NonceSize |->
                                  IF kept /\ i \in DOMAIN plaintext THEN Again(plaintext[i])
                                  ELSE Garbage]
                   IN got' = Append(got, text) /\ plaintext' = Over(text, plaintext)
    <3>1. PICK l \in Nat : l = Len(buf) - NonceSize
      <4>1. Len(buf) - NonceSize \in Nat
        BY <1>4, ChannelAssumption
      <4> QED
        BY <4>1
    <3>2. PICK kept \in BOOLEAN :
             got' = Append(got, [i \in 1 .. l |-> IF kept /\ i \in DOMAIN plaintext
                                               THEN Again(plaintext[i]) ELSE Garbage])
      BY <2>2, <3>1
    <3>3. PICK o : o = [i \in 1 .. l |-> IF kept /\ i \in DOMAIN plaintext
                                       THEN Again(plaintext[i]) ELSE Garbage]
      OBVIOUS
    <3>4. o \in Chunk /\ Len(o) = l /\ \A i \in 1 .. l : ~ Shown(o[i])
      BY <3>3, BlindFacts
    <3>5. ~ ShowsNew(o)
      BY <3>4 DEF ShowsNew, Shown, Chunk
    <3>6. free' < 1
      BY <2>2
    <3> QED
      BY <1>5, <3>2, <3>3, <3>4, <3>5, <3>6
  <2>3. CASE UNCHANGED got
    BY <1>2, <2>3
  <2> QED
    BY <2>1, <2>2, <2>3 DEF Decrypt
<1> QED
  BY <1>2, <1>3, <1>6 DEF OldInv

LEMMA PeerSendKeepsOld ==
    ASSUME OldInv, PlainInv, NumbersInv, PeerSend
    PROVE  OldInv'
<1>1. /\ UNCHANGED << pc, buf, up, got, peerGot, free, refused >>
      /\ down' = down \o Sealed(peerSent + 1, peerSent + 1, PeerLength)
  BY DEF PeerSend, given, call, entropy
<1>2. PICK m, p : m = peerSent + 1 /\ p = Sealed(m, m, PeerLength)
  OBVIOUS
<1>3. m \in Nat /\ m \in Int /\ PeerLength \in Nat
  BY <1>2, ChannelAssumption DEF PlainInv
<1>4. /\ p \in Seq(Cell) /\ Piece(p, m) /\ Len(p) = NonceSize + PeerLength
      /\ \A k \in 1 .. NonceSize + PeerLength : p[k] = << m, k, m, 0 >>
  BY <1>2, <1>3, SealedFacts
<1>5. Plain(p)
  BY <1>4 DEF Plain
<1>6. down \in Seq(Cell) /\ Below(down, m) /\ Plain(down)
  BY <1>2 DEF PlainInv, DownInv, Direction, OldInv
<1>7. Plain(down \o p)
  BY <1>3, <1>4, <1>5, <1>6, ClosedJoin
<1>8. down' = down \o p
  BY <1>1, <1>2
<1>9. Plain(down)'
  BY <1>7, <1>8 DEF Plain
<1> QED
  BY <1>1, <1>9 DEF OldInv, Plain, Closed, OldGot, OldPeerGot

LEMMA PeerReceiveKeepsOld ==
    ASSUME OldInv, PlainInv, NumbersInv, PeerReceive
    PROVE  OldInv'
<1>1. UNCHANGED << pc, buf, down, got, free, refused >>
  BY DEF PeerReceive, call, entropy
<1>2. PICK n \in 1 .. Len(up) :
         /\ up' = Rest(up, n)
         /\ peerGot' = IF n < NonceSize THEN peerGot
                       ELSE Append(peerGot, Opened(SubSeq(up, 1, n)))
  BY DEF PeerReceive, Chunks
<1>3. PICK h, r : h = SubSeq(up, 1, n) /\ r = Rest(up, n)
  OBVIOUS
<1>4. /\ up \in Seq(Cell) /\ Aligned(up) /\ Closed(up) /\ peerGot \in Seq(Chunk) /\ OldPeerGot
      /\ n \in 0 .. Len(up)
  BY DEF PlainInv, UpInv, Direction, OldInv
<1>5. Closed(h) /\ Closed(r)
  BY <1>3, <1>4, CutParts
<1>6. h \in Seq(Cell) /\ Len(h) = n /\ Aligned(h)
  BY <1>3, <1>4, Cutting
<1>7. OldPeerGot'
  <2>1. CASE n < NonceSize
    BY <1>1, <1>2, <1>4, <2>1 DEF OldPeerGot
  <2>2. CASE ~ (n < NonceSize)
    <3>1. Len(h) >= NonceSize
      <4>1. n \in Int /\ NonceSize \in Int
        BY ChannelAssumption
      <4> QED
        BY <1>6, <2>2, <4>1
    <3>2. PICK o : o = Opened(h)
      OBVIOUS
    <3>3. o \in Chunk /\ (ShowsOld(o) => free < 1 /\ refused # 0)
      BY <1>5, <1>6, <3>1, <3>2, OpenedFacts, OpenedOld
    <3>4. ShowsOld(o) => free < 1 /\ refused > 0
      BY <3>3 DEF NumbersInv
    <3>5. PICK u, l : u = Append(peerGot, o) /\ l = Len(peerGot)
      OBVIOUS
    <3>6. /\ l \in Nat /\ Len(u) = l + 1 /\ u[l + 1] = o
          /\ \A a \in 1 .. l : u[a] = peerGot[a]
      BY <1>4, <3>3, <3>5, AppendProperties
    <3>7. \A a \in 1 .. l : ShowsOld(peerGot[a]) => free < 1 /\ refused > 0
      BY <1>4, <3>5 DEF OldPeerGot
    <3>8. \A a \in 1 .. l + 1 : a \in 1 .. l \/ a = l + 1
      BY <3>6
    <3>9. \A a \in 1 .. Len(u) : ShowsOld(u[a]) => free < 1 /\ refused > 0
      BY <3>4, <3>6, <3>7, <3>8
    <3>10. peerGot' = u
      BY <1>2, <1>3, <2>2, <3>2, <3>5
    <3> QED
      BY <1>1, <3>9, <3>10 DEF OldPeerGot
  <2> QED
    BY <2>1, <2>2
<1>8. (Closed(up))'
  <2>1. up' = r
    BY <1>2, <1>3
  <2> QED
    BY <1>1, <1>5, <2>1 DEF Closed
<1> QED
  BY <1>1, <1>7, <1>8 DEF OldInv, Plain, Closed, OldGot

LEMMA OldKept ==
    ASSUME TextInv, IvInv, App \/ PeerSend \/ PeerReceive
    PROVE  OldInv'
<1>1. OldInv /\ PlainInv /\ PayloadInv /\ PlaintextInv /\ NumbersInv
  BY DEF TextInv, IvInv
<1>2. CASE Write \/ WriteLoadsKey \/ ReadIv \/ ReadLoadsKey
  <2>1. /\ UNCHANGED << up, down, got, peerGot >> /\ pc' # "send"
        /\ pc' \in Reading => pc \in Reading /\ buf' = buf
    <3>1. CASE Write \/ WriteLoadsKey \/ ReadIv
      BY <3>1 DEF Write, WriteLoadsKey, ReadIv, Return, given, Reading
    <3>2. CASE ReadLoadsKey
      BY <3>2 DEF ReadLoadsKey, Return, given, Reading
    <3> QED
      BY <1>2, <3>1, <3>2
  <2> QED
    BY <1>1, <2>1, OldUntouched
<1>3. CASE Encrypt
  BY <1>1, <1>3, EncryptKeepsOld
<1>4. CASE Send \/ Read \/ Decrypt
  BY <1>1, <1>4, SendKeepsOld, ReadKeepsOld, DecryptKeepsOld
<1>5. CASE PeerSend \/ PeerReceive
  BY <1>1, <1>5, PeerSendKeepsOld, PeerReceiveKeepsOld
<1> QED
  BY <1>2, <1>3, <1>4, <1>5 DEF App

LEMMA TextInit == Init => TextInv
<1> SUFFICES ASSUME Init PROVE TextInv
  OBVIOUS
<1>1. free \in Int /\ free >= -1
  BY ChannelAssumption DEF Init
<1>2. /\ up = << >> /\ down = << >> /\ got = << >> /\ peerGot = << >>
      /\ payload = << >> /\ plaintext = << >> /\ pc = "idle"
  BY DEF Init
<1>3. PayloadInv /\ PlaintextInv
  BY <1>2 DEF PayloadInv, PlaintextInv, Chunk
<1>4. OldInv
  BY <1>1, <1>2 DEF OldInv, Plain, Closed, OldGot, OldPeerGot, Reading
<1> QED
  BY <1>3, <1>4, PlainInit DEF TextInv

LEMMA TextKept ==
    ASSUME TextInv, IvInv, [Next]_vars
    PROVE  TextInv'
<1>1. PlainInv'
  BY PlainKept DEF TextInv, IvInv
<1>2. CASE Next
  <2>1. App \/ PeerSend \/ PeerReceive
    BY <1>2 DEF Next
  <2> QED
    BY <1>1, <2>1, OldKept, MemoryKept DEF TextInv
<1>3. CASE UNCHANGED vars
  <2>1. /\ UNCHANGED << up, down, got, peerGot, payload, plaintext, used, pc, buf, free >>
        /\ UNCHANGED refused
    BY <1>3 DEF vars, call, given, memory, entropy
  <2>2. PayloadInv' /\ PlaintextInv'
    BY <2>1 DEF TextInv, PayloadInv, PlaintextInv, Range
  <2>3. OldInv'
    BY <2>1 DEF TextInv, OldInv, Plain, Closed, OldGot, OldPeerGot
  <2> QED
    BY <1>1, <2>2, <2>3 DEF TextInv
<1> QED
  BY <1>2, <1>3

\* PlainInOrder of SecureChannel: wherever the network cuts and joins the messages,
\* whatever fails, whichever IV is used twice and when the crypto library is full, what
\* secureCommunication_rpc_socket_read and recv_decrypt show of the messages is in the
\* order in which it was sent, and nothing twice but what was left in memory: that only
\* when there was no room for a cipher, the last that the application reads of messages,
\* and for the other end only after the TPM has refused an IV.
THEOREM PlainStaysInOrder == Spec => []PlainInOrder
<1>1. Init => IvInv /\ TextInv
  BY InitHasInv, TextInit
<1>2. IvInv /\ TextInv /\ [Next]_vars => (IvInv /\ TextInv)'
  BY StepKeeps, TextKept
<1>3. TextInv => PlainInOrder
  <2> SUFFICES ASSUME TextInv PROVE PlainInOrder
    OBVIOUS
  <2>1. InOrder(got) /\ InOrder(peerGot) /\ got \in Seq(Chunk) /\ peerGot \in Seq(Chunk)
    BY DEF TextInv, PlainInv, DownInv, UpInv, Direction
  <2>2. DOMAIN got = 1 .. Len(got) /\ DOMAIN peerGot = 1 .. Len(peerGot)
    BY <2>1
  <2>3. OldGot /\ OldPeerGot
    BY DEF TextInv, OldInv
  <2> QED
    BY <2>1, <2>2, <2>3 DEF PlainInOrder, OldGot, OldPeerGot
<1> QED
  BY <1>1, <1>2, <1>3, PTL DEF Spec

-----------------------------------------------------------------------------
(* Messages that stay apart: ToldWholeArrives and EachWayIsMessageChannel.  *)
(* A stream then holds one message or the beginning of one.                 *)

\* The cells of message m under v.
Uniform(s, v, m) == \A k \in 1 .. Len(s) : s[k] = << v, k, m, 0 >>

\* What has been given are messages before the m-th.
Earlier(chunks, nothing, m) == \A i \in 1 .. Len(chunks) : Number(chunks[i], nothing) < m

\* The messages for which objects are still to be made.
ToMake ==
    (IF pc \in {"writeKey", "iv", "encrypt"} THEN 1 ELSE 0)
    + (IF pc \in Reading THEN 1 ELSE 0) + (IF down # << >> THEN 1 ELSE 0)

RoomInv ==
    /\ written <= MaxWrites /\ peerSent <= MaxSends /\ free \in Nat
    /\ free >= (MaxWrites - written) + (MaxSends - peerSent) + ToMake

WholeDown ==
    /\ Earlier(got, -1, peerSent + 1)
    /\ down # << >> =>
          /\ Uniform(down, peerSent, peerSent) /\ Len(down) = NonceSize + PeerLength
          /\ Earlier(got, -1, peerSent) /\ peerSent # 0
    /\ pc \in Reading =>
          \E m \in 1 .. peerSent :
             /\ Uniform(buf, m, m) /\ Len(buf) = NonceSize + PeerLength
             /\ Earlier(got, -1, m) /\ (down # << >> => m < peerSent)

WholeUp ==
    /\ Len(peerGot) <= written /\ Earlier(peerGot, 0, written + 1)
    /\ pc \in Writing \/ up # << >> =>
          Len(peerGot) < written /\ Earlier(peerGot, 0, written)
    /\ pc \in Writing => up = << >>
    /\ pc = "send" => /\ Uniform(buf, iv, written) /\ Len(buf) = NonceSize + length
                      /\ Len(buf) <= BufferSize
    /\ up # << >> => \E v \in Int : Uniform(up, v, written)

Arrived(t) == \E c \in Range(peerGot) : c = Cells(t[1], t[2])

ToldInv ==
    \A t \in told :
        /\ t \in Nat \X Nat
        /\ \/ Arrived(t)
           \/ up # << >> /\ t[1] = written /\ Len(up) = NonceSize + t[2]

WholeInv == regular => RoomInv /\ WholeDown /\ WholeUp /\ ToldInv

-----------------------------------------------------------------------------
(* Facts about whole messages.                                              *)

LEMMA CellsFacts ==
    ASSUME NEW m \in Int, NEW l \in Nat
    PROVE  /\ Cells(m, l) \in Chunk /\ Len(Cells(m, l)) = l
           /\ \A i \in 1 .. l : Cells(m, l)[i] = << m, i >>
<1>1. PICK f : f = [i \in 1 .. l |-> << m, i >>]
  OBVIOUS
<1>2. \A i \in 1 .. l : << m, i >> \in Text
  BY DEF Text
<1>3. f \in [1 .. l -> Text] /\ \A i \in 1 .. l : f[i] = << m, i >>
  BY <1>1, <1>2
<1>4. f \in Chunk /\ Len(f) = l
  BY <1>3 DEF Chunk
<1> QED
  BY <1>1, <1>3, <1>4 DEF Cells

\* What is decrypted of a whole message, or of its beginning.
LEMMA OpenedWhole ==
    ASSUME NEW s \in Seq(Cell), NEW v \in Int, NEW m \in Int, Uniform(s, v, m),
           Len(s) >= NonceSize
    PROVE  /\ Len(s) - NonceSize \in Nat
           /\ Opened(s) = Cells(m, Len(s) - NonceSize)
<1>1. NonceSize \in Nat \ {0} /\ Len(s) \in Nat
  BY ChannelAssumption
<1>2. PICK l \in Nat : l = Len(s) - NonceSize
  <2>1. Len(s) - NonceSize \in Nat
    BY <1>1
  <2> QED
    BY <2>1
<1> DEFINE good(j) == /\ \A k \in 1 .. NonceSize : s[k][1] = s[1][1] /\ s[k][2] = k
                      /\ s[j][1] = s[1][1] /\ s[j][2] = j
<1>3. Opened(s) = [i \in 1 .. l |->
                     IF good(NonceSize + i) THEN TextOf(s[NonceSize + i], i) ELSE Garbage]
  BY <1>2 DEF Opened
<1>4. \A k \in 1 .. Len(s) : s[k][1] = v /\ s[k][2] = k /\ s[k][3] = m /\ s[k][4] = 0
  BY DEF Uniform
<1>5. \A k \in 1 .. NonceSize : k \in 1 .. Len(s)
  BY <1>1
<1>6. \A i \in 1 .. l : NonceSize + i \in 1 .. Len(s)
  BY <1>1, <1>2
<1>7. 1 \in 1 .. Len(s)
  BY <1>1
<1>8. \A i \in 1 .. l : /\ good(NonceSize + i)
                          /\ TextOf(s[NonceSize + i], i) = << m, i >>
  BY <1>4, <1>5, <1>6, <1>7 DEF TextOf
<1> HIDE DEF good
<1>9. Opened(s) = [i \in 1 .. l |-> << m, i >>]
  BY <1>3, <1>8
<1> QED
  BY <1>2, <1>9 DEF Cells

LEMMA NumberFacts ==
    ASSUME NEW m \in Int, NEW l \in Nat, NEW e
    PROVE  Number(Cells(m, l), e) = IF l = 0 THEN e ELSE m
<1>1. PICK c : c = Cells(m, l)
  OBVIOUS
<1>2. c \in Seq(Text) /\ Len(c) = l /\ \A i \in 1 .. l : c[i] = << m, i >>
  BY <1>1, CellsFacts DEF Chunk
<1>3. CASE l = 0
  <2>1. c = << >>
    BY <1>2, <1>3
  <2> QED
    BY <1>1, <1>3, <2>1 DEF Number
<1>4. CASE l # 0
  <2>1. c # << >> /\ c[1] = << m, 1 >>
    BY <1>2, <1>4
  <2>2. c[1][1] = m
    BY <2>1
  <2> QED
    BY <1>1, <1>2, <1>4, <2>1, <2>2 DEF Number
<1> QED
  BY <1>3, <1>4

LEMMA NumberIsInt ==
    ASSUME NEW c \in Chunk, NEW e \in Int
    PROVE  Number(c, e) \in Int
<1>1. CASE c = << >>
  BY <1>1 DEF Number
<1>2. CASE c # << >>
  <2>1. c[1] \in Text
    BY <1>2 DEF Chunk
  <2>2. c[1][1] \in Int
    BY <2>1 DEF Text
  <2> QED
    BY <1>2, <2>2 DEF Number
<1> QED
  BY <1>1, <1>2

LEMMA EarlierKept ==
    ASSUME NEW chunks \in Seq(Chunk), NEW e \in Int, NEW m \in Int, Earlier(chunks, e, m)
    PROVE  /\ Earlier(chunks, e, m + 1)
           /\ \A c \in Chunk : Number(c, e) < m + 1 => Earlier(Append(chunks, c), e, m + 1)
<1>1. \A i \in 1 .. Len(chunks) : Number(chunks[i], e) < m + 1
  <2> TAKE i \in 1 .. Len(chunks)
  <2>1. PICK x \in Int : x = Number(chunks[i], e)
    BY NumberIsInt
  <2>2. x < m
    BY <2>1 DEF Earlier
  <2> QED
    BY <2>1, <2>2
<1>2. ASSUME NEW c \in Chunk, Number(c, e) < m + 1
      PROVE  Earlier(Append(chunks, c), e, m + 1)
  <2>1. PICK all : all = Append(chunks, c)
    OBVIOUS
  <2>2. /\ Len(all) = Len(chunks) + 1 /\ all[Len(chunks) + 1] = c /\ Len(chunks) \in Nat
        /\ \A i \in 1 .. Len(chunks) : all[i] = chunks[i]
    BY <2>1, AppendProperties
  <2>3. \A i \in 1 .. Len(all) : i \in 1 .. Len(chunks) \/ i = Len(chunks) + 1
    BY <2>2
  <2>4. \A i \in 1 .. Len(all) : Number(all[i], e) < m + 1
    BY <1>1, <1>2, <2>2, <2>3
  <2> QED
    BY <2>1, <2>4 DEF Earlier
<1> QED
  BY <1>1, <1>2 DEF Earlier

\* The whole stream is read at once.
LEMMA WholeRead ==
    ASSUME regular, NEW s \in Seq(Cell), NEW size, NEW n \in Chunks(s, size)
    PROVE  /\ s # << >> /\ n = Len(s) /\ Rest(s, n) = << >> /\ SubSeq(s, 1, n) = s
           /\ n \in Nat /\ n <= size
<1>1. n \in 1 .. Len(s) /\ n = Len(s) /\ n <= size
  BY DEF Chunks
<1>2. SubSeq(s, 1, Len(s)) = s /\ SubSeq(s, Len(s) + 1, Len(s)) = << >>
  OBVIOUS
<1>3. s # << >>
  BY <1>1
<1> QED
  BY <1>1, <1>2, <1>3 DEF Rest

-----------------------------------------------------------------------------
(* The steps.                                                               *)

\* w and p messages are sent, t have no objects yet, there is room for those of f.
LEMMA RoomLeft ==
    ASSUME NEW a \in Nat, NEW b \in Nat, NEW w \in Nat, NEW p \in Nat, NEW t \in Nat,
           NEW f \in Nat, NEW w1 \in Nat, NEW p1 \in Nat, NEW t1 \in Nat, NEW f1 \in Nat,
           f >= (a - w) + (b - p) + t,
           f1 + (w1 + p1 + t) >= f + (w + p + t1)
    PROVE  f1 >= (a - w1) + (b - p1) + t1
  OBVIOUS

\* There is always room for the next key and cipher.
LEMMA RoomKept ==
    ASSUME regular, RoomInv, PlainInv, App \/ PeerSend \/ PeerReceive
    PROVE  RoomInv'
<1>1. /\ MaxWrites \in Nat /\ MaxSends \in Nat /\ written \in Nat /\ peerSent \in Nat
      /\ free \in Nat /\ written <= MaxWrites /\ peerSent <= MaxSends
      /\ free >= (MaxWrites - written) + (MaxSends - peerSent) + ToMake
  BY ChannelAssumption DEF PlainInv, RoomInv
<1>0. ASSUME ToMake \in Nat, ToMake' \in Nat,
             NEW dw \in {0, 1}, NEW dp \in {0, 1}, NEW df \in {0, 1}, free >= df,
             written' = written + dw, peerSent' = peerSent + dp, free' = free - df,
             written' <= MaxWrites, peerSent' <= MaxSends,
             ToMake' + df <= ToMake + dw + dp
      PROVE  RoomInv'
  <2>0. written + dw \in Nat /\ peerSent + dp \in Nat /\ free - df \in Nat
    BY <1>0, <1>1
  <2>1. PICK t \in Nat, t1 \in Nat, w1 \in Nat, p1 \in Nat, f1 \in Nat :
           /\ t = ToMake /\ t1 = ToMake' /\ w1 = written' /\ p1 = peerSent' /\ f1 = free'
    BY <1>0, <2>0
  <2>2. w1 = written + dw /\ p1 = peerSent + dp /\ f1 = free - df
        /\ t1 + df <= t + dw + dp
    BY <1>0, <2>1
  <2>3. f1 + (w1 + p1 + t) >= free + (written + peerSent + t1)
    BY <1>0, <1>1, <2>2
  <2>4. free >= (MaxWrites - written) + (MaxSends - peerSent) + t
    BY <1>1, <2>1
  <2>5. f1 >= (MaxWrites - w1) + (MaxSends - p1) + t1
    BY <1>1, <2>3, <2>4, RoomLeft
  <2> QED
    BY <1>0, <2>1, <2>5 DEF RoomInv
<1>2. CASE Write
  <2>1. /\ pc = "idle" /\ written' = written + 1 /\ written' <= MaxWrites
        /\ UNCHANGED << peerSent, free, down >> /\ pc' \in {"idle", "writeKey"}
    BY <1>1, <1>2 DEF Write, Return
  <2>2. ToMake' + 0 <= ToMake + 1 + 0
        /\ ToMake \in Nat /\ ToMake' \in Nat
    BY <2>1 DEF ToMake, Reading
  <2>8. /\ written' = written + 1 /\ peerSent' = peerSent + 0
        /\ free' = free - 0 /\ free >= 0
        /\ written' <= MaxWrites /\ peerSent' <= MaxSends
    BY <1>1, <2>1, <2>2
  <2> QED
    BY <1>0, <2>8, <2>1, <2>2
<1>3. CASE \/ WriteLoadsKey \/ ReadIv \/ Send \/ ReadLoadsKey \/ PeerReceive
  <2>1. /\ UNCHANGED << written, peerSent, free, down >>
        /\ \/ pc = "writeKey" /\ pc' \in {"iv", "idle"}
           \/ pc = "iv" /\ pc' = "encrypt"
           \/ pc = "send" /\ pc' = "idle"
           \/ pc = "readKey" /\ pc' \in {"decrypt", "idle"}
           \/ pc' = pc
    BY <1>3, ZenonT(60) DEF WriteLoadsKey, ReadIv, Send, ReadLoadsKey, PeerReceive,
                             call, counts, Return
  <2>2. ToMake' + 0 <= ToMake + 0 + 0
        /\ ToMake \in Nat /\ ToMake' \in Nat
    BY <2>1 DEF ToMake, Reading
  <2>8. /\ written' = written + 0 /\ peerSent' = peerSent + 0
        /\ free' = free - 0 /\ free >= 0
        /\ written' <= MaxWrites /\ peerSent' <= MaxSends
    BY <1>1, <2>1, <2>2
  <2> QED
    BY <1>0, <2>8, <2>1, <2>2
<1>4. CASE Encrypt
  <2>1. ToMake >= 1 /\ ToMake \in Nat
    BY <1>4 DEF Encrypt, ToMake, Reading
  <2>2. free >= 1
    BY <1>1, <2>1
  <2>3. /\ UNCHANGED << written, peerSent, down >> /\ free' \in {free, free - 1}
        /\ pc = "encrypt" /\ pc' \in {"idle", "send"}
    BY <1>4, <2>2 DEF Encrypt, counts, Return
  <2>4. ToMake' = ToMake - 1
    BY <2>3 DEF ToMake, Reading
  <2>5. CASE free' = free
    <3>8. /\ written' = written + 0 /\ peerSent' = peerSent + 0
          /\ free' = free - 0 /\ free >= 0
          /\ written' <= MaxWrites /\ peerSent' <= MaxSends
      BY <1>1, <2>1, <2>2, <2>3, <2>4, <2>5
    <3>9. ToMake' + 0 <= ToMake + 0 + 0
      BY <2>1, <2>2, <2>3, <2>4
    <3> QED
      BY <1>0, <3>8, <3>9, <2>1, <2>2, <2>3, <2>4
  <2>6. CASE free' = free - 1
    <3>8. /\ written' = written + 0 /\ peerSent' = peerSent + 0
          /\ free' = free - 1 /\ free >= 1
          /\ written' <= MaxWrites /\ peerSent' <= MaxSends
      BY <1>1, <2>1, <2>2, <2>3, <2>4, <2>6
    <3>9. ToMake' + 1 <= ToMake + 0 + 0
      BY <2>1, <2>2, <2>3, <2>4
    <3> QED
      BY <1>0, <3>8, <3>9, <2>1, <2>2, <2>3, <2>4
  <2> QED
    BY <2>3, <2>5, <2>6
<1>5. CASE Decrypt
  <2>1. ToMake >= 1 /\ ToMake \in Nat
    BY <1>5 DEF Decrypt, ToMake, Reading
  <2>2. free >= 1
    BY <1>1, <2>1
  <2>7. ~ (free < 1) /\ ~ (free = 0)
    BY <1>1, <2>2
  <2>3. /\ UNCHANGED << written, peerSent, down >> /\ free' \in {free, free - 1}
        /\ pc = "decrypt" /\ pc' = "idle"
    BY <1>5, <2>7, Zenon DEF Decrypt, counts, Return
  <2>4. ToMake' = ToMake - 1
    BY <2>3 DEF ToMake, Reading
  <2>5. CASE free' = free
    <3>8. /\ written' = written + 0 /\ peerSent' = peerSent + 0
          /\ free' = free - 0 /\ free >= 0
          /\ written' <= MaxWrites /\ peerSent' <= MaxSends
      BY <1>1, <2>1, <2>2, <2>3, <2>4, <2>5
    <3>9. ToMake' + 0 <= ToMake + 0 + 0
      BY <2>1, <2>2, <2>3, <2>4
    <3> QED
      BY <1>0, <3>8, <3>9, <2>1, <2>2, <2>3, <2>4
  <2>6. CASE free' = free - 1
    <3>8. /\ written' = written + 0 /\ peerSent' = peerSent + 0
          /\ free' = free - 1 /\ free >= 1
          /\ written' <= MaxWrites /\ peerSent' <= MaxSends
      BY <1>1, <2>1, <2>2, <2>3, <2>4, <2>6
    <3>9. ToMake' + 1 <= ToMake + 0 + 0
      BY <2>1, <2>2, <2>3, <2>4
    <3> QED
      BY <1>0, <3>8, <3>9, <2>1, <2>2, <2>3, <2>4
  <2> QED
    BY <2>3, <2>5, <2>6
<1>6. CASE Read
  <2>1. PICK n \in Chunks(down, BufferSize) :
           down' = Rest(down, n) /\ pc' \in {"idle", "readKey"}
    BY <1>6 DEF Read, Return
  <2>2. down \in Seq(Cell)
    BY DEF PlainInv, DownInv, Direction
  <2>3. down # << >> /\ down' = << >>
    BY <2>1, <2>2, WholeRead
  <2>4. UNCHANGED << written, peerSent, free >> /\ pc = "idle"
    BY <1>6 DEF Read, counts
  <2>5. ToMake' + 0 <= ToMake + 0 + 0
        /\ ToMake \in Nat /\ ToMake' \in Nat
    BY <2>1, <2>3, <2>4 DEF ToMake, Reading
  <2>8. /\ written' = written + 0 /\ peerSent' = peerSent + 0
        /\ free' = free - 0 /\ free >= 0
        /\ written' <= MaxWrites /\ peerSent' <= MaxSends
    BY <1>1, <2>4, <2>5
  <2> QED
    BY <1>0, <2>8, <2>4, <2>5
<1>7. CASE PeerSend
  <2>1. /\ UNCHANGED << written, free, pc >> /\ peerSent' = peerSent + 1
        /\ peerSent' <= MaxSends /\ down = << >>
    BY <1>1, <1>7 DEF PeerSend, call
  <2>2. ToMake' + 0 <= ToMake + 0 + 1
        /\ ToMake \in Nat /\ ToMake' \in Nat
    BY <2>1 DEF ToMake, Reading
  <2>8. /\ written' = written + 0 /\ peerSent' = peerSent + 1
        /\ free' = free - 0 /\ free >= 0
        /\ written' <= MaxWrites /\ peerSent' <= MaxSends
    BY <1>1, <2>1, <2>2
  <2> QED
    BY <1>0, <2>8, <2>1, <2>2
<1> QED
  BY <1>2, <1>3, <1>4, <1>5, <1>6, <1>7 DEF App

\* The other end's messages: one is in the stream, one is being read.
LEMMA WholeDownKept ==
    ASSUME regular, WholeDown, RoomInv, PlainInv, App \/ PeerSend \/ PeerReceive
    PROVE  WholeDown'
<1>1. got \in Seq(Chunk) /\ down \in Seq(Cell) /\ peerSent \in Nat /\ -1 \in Int
      /\ (pc \in Reading => buf \in Seq(Cell) /\ Len(buf) >= NonceSize)
  BY DEF PlainInv, DownInv, Direction
<1>2. CASE /\ UNCHANGED << got, down, peerSent >>
           /\ pc' \in Reading => pc \in Reading /\ buf' = buf
  <2>1. pc' \in Reading =>
          \E m \in 1 .. peerSent :
             /\ Uniform(buf', m, m) /\ Len(buf') = NonceSize + PeerLength
             /\ Earlier(got, -1, m) /\ (down # << >> => m < peerSent)
    BY <1>2 DEF WholeDown
  <2> QED
    BY <1>2, <2>1 DEF WholeDown
<1>3. CASE Read
  <2>1. PICK n \in Chunks(down, BufferSize) :
           /\ down' = Rest(down, n)
           /\ pc' \in Reading => buf' = SubSeq(down, 1, n)
    BY <1>3 DEF Read, Return, Reading
  <2>2. down # << >> /\ down' = << >> /\ SubSeq(down, 1, n) = down
    BY <1>1, <2>1, WholeRead
  <2>3. UNCHANGED << got, peerSent >> /\ peerSent \in 1 .. peerSent
        /\ Uniform(down, peerSent, peerSent) /\ Len(down) = NonceSize + PeerLength
        /\ Earlier(got, -1, peerSent)
    BY <1>1, <1>3, <2>2 DEF Read, counts, given, WholeDown
  <2>4. pc' \in Reading =>
          \E m \in 1 .. peerSent :
             /\ Uniform(buf', m, m) /\ Len(buf') = NonceSize + PeerLength
             /\ Earlier(got, -1, m)
    BY <2>1, <2>2, <2>3
  <2> QED
    BY <2>2, <2>3, <2>4 DEF WholeDown
<1>4. CASE Decrypt
  <2>1. ToMake >= 1 /\ ToMake \in Nat /\ pc \in Reading
    BY <1>4 DEF Decrypt, ToMake, Reading
  <2>2. free >= 1
    BY <2>1, ChannelAssumption DEF RoomInv, PlainInv
  <2>9. ~ (free < 1) /\ ~ (free = 0)
    BY <2>2 DEF RoomInv
  <2>3. got' = Append(got, Opened(buf)) /\ UNCHANGED << down, peerSent >> /\ pc' = "idle"
    BY <1>4, <2>9, Zenon DEF Decrypt, counts, Return
  <2>4. PICK m \in 1 .. peerSent :
             /\ Uniform(buf, m, m) /\ Len(buf) = NonceSize + PeerLength
             /\ Earlier(got, -1, m) /\ (down # << >> => m < peerSent)
    BY <2>1 DEF WholeDown
  <2>5. Opened(buf) = Cells(m, PeerLength) /\ PeerLength \in Nat \ {0}
    <3>1. (NonceSize + PeerLength) - NonceSize = PeerLength /\ PeerLength \in Nat \ {0}
      BY ChannelAssumption
    <3>2. Opened(buf) = Cells(m, Len(buf) - NonceSize)
      BY <1>1, <2>1, <2>4, OpenedWhole
    <3> QED
      BY <2>4, <3>1, <3>2
  <2>6. Number(Opened(buf), -1) = m /\ Opened(buf) \in Chunk
    BY <2>5, NumberFacts, CellsFacts
  <2>7. Earlier(got', -1, m + 1)
    BY <1>1, <2>3, <2>4, <2>6, EarlierKept
  <2>8. Earlier(got', -1, peerSent + 1) /\ (down # << >> => Earlier(got', -1, peerSent))
    <3>1. got' \in Seq(Chunk)
      BY <1>1, <2>3, <2>6
    <3>2. ASSUME NEW k \in Int, m + 1 <= k PROVE Earlier(got', -1, k)
      <4> SUFFICES ASSUME NEW i \in 1 .. Len(got') PROVE Number(got'[i], -1) < k
        BY DEF Earlier
      <4>1. PICK x \in Int : x = Number(got'[i], -1)
        <5>1. got'[i] \in Chunk
          BY <3>1
        <5> QED
          BY <1>1, <5>1, NumberIsInt
      <4>2. x < m + 1
        BY <2>7, <4>1 DEF Earlier
      <4> QED
        BY <3>2, <4>1, <4>2
    <3> QED
      BY <1>1, <2>4, <3>2
  <2> QED
    BY <2>3, <2>8 DEF WholeDown, Reading
<1>5. CASE PeerSend
  <2>1. /\ down = << >> /\ peerSent' = peerSent + 1 /\ UNCHANGED << got, pc, buf >>
        /\ down' = << >> \o Sealed(peerSent + 1, peerSent + 1, PeerLength)
    BY <1>5 DEF PeerSend, call, given
  <2>2. PICK n \in Nat, p \in {Sealed(peerSent + 1, peerSent + 1, PeerLength)} :
                n = peerSent + 1 /\ p = Sealed(n, n, PeerLength)
    BY <1>1
  <2>3. p \in Seq(Cell) /\ Len(p) = NonceSize + PeerLength /\ Uniform(p, n, n)
    <3>1. PeerLength \in Nat /\ n \in Int
      BY ChannelAssumption
    <3>2. /\ p \in Seq(Cell) /\ Len(p) = NonceSize + PeerLength
          /\ \A k \in 1 .. NonceSize + PeerLength : p[k] = << n, k, n, 0 >>
      BY <2>2, <3>1, SealedFacts
    <3> QED
      BY <3>2 DEF Uniform
  <2>4. down' = p
    BY <2>1, <2>2, <2>3
  <2>5. Earlier(got, -1, n) /\ Earlier(got, -1, n + 1)
    <3>1. Earlier(got, -1, n)
      BY <2>2 DEF WholeDown
    <3> QED
      BY <1>1, <3>1, EarlierKept
  <2>6. pc \in Reading =>
          \E m \in 1 .. n :
             /\ Uniform(buf, m, m) /\ Len(buf) = NonceSize + PeerLength
             /\ Earlier(got, -1, m) /\ m < n
    <3>1. \A m \in 1 .. peerSent : m \in 1 .. n /\ m < n
      BY <1>1, <2>2
    <3> QED
      BY <3>1 DEF WholeDown
  <2>7. n # 0
    BY <1>1, <2>2
  <2> QED
    BY <2>1, <2>2, <2>3, <2>4, <2>5, <2>6, <2>7 DEF WholeDown
<1>6. CASE Write \/ WriteLoadsKey \/ ReadIv \/ Encrypt \/ Send
  BY <1>2, <1>6 DEF Write, WriteLoadsKey, ReadIv, Encrypt, Send, Return, counts, given, Reading
<1>7. CASE ReadLoadsKey \/ PeerReceive
  BY <1>2, <1>7, ZenonT(60) DEF ReadLoadsKey, PeerReceive, Return, counts, given, call, Reading
<1> QED
  BY <1>3, <1>4, <1>5, <1>6, <1>7 DEF App

\* What OS_Socket_write takes of a message, and what is left of one in the stream.
LEMMA UniformPart ==
    ASSUME NEW s \in Seq(Cell), NEW v, NEW m, Uniform(s, v, m), NEW n \in 0 .. Len(s)
    PROVE  /\ SubSeq(s, 1, n) \in Seq(Cell) /\ Len(SubSeq(s, 1, n)) = n
           /\ Uniform(SubSeq(s, 1, n), v, m)
<1>1. /\ SubSeq(s, 1, n) \in Seq(Cell) /\ Len(SubSeq(s, 1, n)) = n
      /\ \A k \in 1 .. n : SubSeq(s, 1, n)[k] = s[k] /\ k \in 1 .. Len(s)
  OBVIOUS
<1> QED
  BY <1>1 DEF Uniform

\* What send does when messages stay apart.
LEMMA WholeSend ==
    ASSUME regular, WholeUp, PlainInv, NumbersInv, Send
    PROVE  /\ up = << >> /\ buf \in Seq(Cell) /\ iv \in Int
           /\ Uniform(buf, iv, written) /\ Len(buf) = NonceSize + length
           /\ Len(buf) <= BufferSize
           /\ \E n \in 0 .. Len(buf) :
                 /\ up' = SubSeq(buf, 1, n) /\ Uniform(up', iv, written) /\ Len(up') = n
                 /\ \/ told' = told
                    \/ told' = told \union {<< written, length >>} /\ n = Len(buf)
<1>1. /\ up = << >> /\ buf \in Seq(Cell) /\ iv \in Int /\ pc = "send"
      /\ Uniform(buf, iv, written) /\ Len(buf) = NonceSize + length /\ Len(buf) <= BufferSize
  BY DEF Send, WholeUp, PlainInv, UpInv, NumbersInv, Writing
<1>2. PICK l \in Nat : l = Len(buf)
  BY <1>1
<1>3. CASE UNCHANGED up /\ told' = told
  <2>1. SubSeq(buf, 1, 0) = << >> /\ 0 \in 0 .. Len(buf)
    BY <1>1, <1>2
  <2>2. up' = SubSeq(buf, 1, 0) /\ Uniform(up', iv, written) /\ Len(up') = 0
    BY <1>1, <1>3, <2>1 DEF Uniform
  <2> QED
    BY <1>1, <1>3, <2>1, <2>2
<1>4. CASE \E n \in 0 .. Len(buf) :
              up' = up \o SubSeq(buf, 1, n) /\ Tell("success", (n - NonceSize) % SizeMod)
  <2>1. PICK n \in 0 .. Len(buf) :
              up' = up \o SubSeq(buf, 1, n) /\ Tell("success", (n - NonceSize) % SizeMod)
    BY <1>4
  <2>2. /\ SubSeq(buf, 1, n) \in Seq(Cell) /\ Len(SubSeq(buf, 1, n)) = n
        /\ Uniform(SubSeq(buf, 1, n), iv, written)
    BY <1>1, UniformPart
  <2>3. up' = SubSeq(buf, 1, n)
    BY <1>1, <2>1, <2>2
  <2>4. (n - NonceSize) % SizeMod = length => n = Len(buf)
    <3>1. PICK c \in Nat \ {0}, z \in Nat \ {0}, y \in Nat, b \in Nat :
             c = NonceSize /\ z = SizeMod /\ y = length /\ b = BufferSize
      BY ChannelAssumption DEF PlainInv
    <3>2. c + b < z /\ l = c + y /\ l <= b
      BY <1>1, <1>2, <3>1, ChannelAssumption
    <3>3. n \in 0 .. l
      BY <1>2
    <3>4. CASE n < c
      <4>1. 0 - z <= n - c /\ n - c < 0 /\ n - c \in Int
        BY <3>2, <3>3, <3>4
      <4>2. (n - c) % z = (n - c) + z
        BY <4>1
      <4>3. (n - c) + z # y
        BY <3>2, <3>3
      <4> QED
        BY <3>1, <4>2, <4>3
    <3>5. CASE n >= c
      <4>1. 0 <= n - c /\ n - c < z /\ n - c \in Int
        BY <3>2, <3>3, <3>5
      <4>2. (n - c) % z = n - c
        BY <4>1
      <4>3. n - c = y => n = l
        BY <3>2, <3>3
      <4> QED
        BY <1>2, <3>1, <4>2, <4>3
    <3> QED
      BY <3>1, <3>3, <3>4, <3>5
  <2>5. \/ told' = told
        \/ told' = told \union {<< written, length >>} /\ n = Len(buf)
    BY <2>1, <2>4 DEF Tell
  <2> QED
    BY <1>1, <2>2, <2>3, <2>5
<1> QED
  BY <1>3, <1>4 DEF Send, Tell

\* What the other end receives when messages stay apart.
LEMMA WholeReceive ==
    ASSUME regular, WholeUp, PlainInv, PeerReceive
    PROVE  /\ up # << >> /\ up' = << >> /\ pc \notin Writing /\ Len(peerGot) < written
           /\ Earlier(peerGot, 0, written)
           /\ \/ peerGot' = peerGot /\ Len(up) < NonceSize
              \/ /\ Len(up) >= NonceSize /\ Len(up) - NonceSize \in Nat
                 /\ peerGot' = Append(peerGot, Cells(written, Len(up) - NonceSize))
<1>1. up \in Seq(Cell) /\ written \in Nat
  BY DEF PlainInv, UpInv, Direction
<1>2. PICK n \in Chunks(up, 1024) :
         /\ up' = Rest(up, n)
         /\ peerGot' = IF n < NonceSize THEN peerGot
                       ELSE Append(peerGot, Opened(SubSeq(up, 1, n)))
  BY DEF PeerReceive
<1>3. up # << >> /\ n = Len(up) /\ up' = << >> /\ SubSeq(up, 1, n) = up
  BY <1>1, <1>2, WholeRead
<1>4. /\ pc \notin Writing /\ Len(peerGot) < written /\ Earlier(peerGot, 0, written)
      /\ \E v \in Int : Uniform(up, v, written)
  BY <1>3 DEF WholeUp
<1>5. CASE n < NonceSize
  BY <1>2, <1>3, <1>4, <1>5
<1>6. CASE ~ (n < NonceSize)
  <2>1. Len(up) >= NonceSize
    <3>1. Len(up) \in Int /\ NonceSize \in Int
      BY <1>1, ChannelAssumption
    <3> QED
      BY <1>3, <1>6, <3>1
  <2>2. PICK v \in Int : Uniform(up, v, written)
    BY <1>4
  <2>3. Len(up) - NonceSize \in Nat /\ Opened(up) = Cells(written, Len(up) - NonceSize)
    BY <1>1, <2>1, <2>2, OpenedWhole
  <2> QED
    BY <1>2, <1>3, <1>4, <1>6, <2>1, <2>3
<1> QED
  BY <1>5, <1>6

LEMMA WholeUpKept ==
    ASSUME regular, WholeUp, RoomInv, PlainInv, NumbersInv, App \/ PeerSend \/ PeerReceive
    PROVE  WholeUp'
<1>1. peerGot \in Seq(Chunk) /\ up \in Seq(Cell) /\ written \in Nat /\ 0 \in Int
      /\ length \in Nat /\ Len(peerGot) \in Nat
  BY DEF PlainInv, UpInv, Direction
<1>2. CASE Write
  <2>1. /\ up = << >> /\ UNCHANGED << up, peerGot >> /\ written' = written + 1
        /\ pc' \in {"idle", "writeKey"}
    BY <1>2 DEF Write, given, Return
  <2>2. Earlier(peerGot, 0, written + 1) /\ Earlier(peerGot, 0, (written + 1) + 1)
        /\ Len(peerGot) <= written
    <3>1. Earlier(peerGot, 0, written + 1) /\ Len(peerGot) <= written
      BY DEF WholeUp
    <3> QED
      BY <1>1, <3>1, EarlierKept
  <2>3. Len(peerGot) < written + 1 /\ Len(peerGot) <= written + 1
    BY <1>1, <2>2
  <2> QED
    BY <2>1, <2>2, <2>3 DEF WholeUp
<1>3. CASE WriteLoadsKey \/ ReadIv
  BY <1>3 DEF WriteLoadsKey, ReadIv, Return, counts, given, WholeUp, Writing
<1>4. CASE Encrypt
  <2>1. pc = "encrypt" /\ UNCHANGED << up, peerGot, written >> /\ up = << >>
        /\ pc' \in {"idle", "send"}
    BY <1>4 DEF Encrypt, counts, given, Return, WholeUp, Writing
  <2>2. free >= 1
    <3>1. ToMake >= 1 /\ ToMake \in Nat
      BY <2>1 DEF ToMake, Reading
    <3> QED
      BY <3>1, ChannelAssumption DEF RoomInv, PlainInv
  <2>3. CASE pc' = "idle"
    BY <2>1, <2>3 DEF WholeUp, Writing
  <2>4. CASE pc' = "send"
    <3>1. /\ BufferSize >= NonceSize + length /\ buf' = Sealed(iv, written, length)
          /\ UNCHANGED << length, iv >>
      BY <1>4, <2>2, <2>4, ChannelAssumption DEF Encrypt, Return
    <3>2. /\ Len(buf') = NonceSize + length /\ Uniform(buf', iv, written)
      <4>1. iv \in Int
        BY DEF NumbersInv
      <4>2. PICK p : p = Sealed(iv, written, length)
        OBVIOUS
      <4>3. /\ Len(p) = NonceSize + length
            /\ \A k \in 1 .. NonceSize + length : p[k] = << iv, k, written, 0 >>
        BY <1>1, <4>1, <4>2, SealedFacts
      <4>4. Uniform(p, iv, written)
        BY <4>3 DEF Uniform
      <4> QED
        BY <3>1, <4>2, <4>3, <4>4
    <3>3. Len(buf') <= BufferSize
      <4>1. NonceSize + length \in Int /\ BufferSize \in Int
        BY <1>1, ChannelAssumption
      <4> QED
        BY <3>1, <3>2, <4>1
    <3> QED
      BY <2>1, <2>4, <3>1, <3>2, <3>3 DEF WholeUp, Writing
  <2> QED
    BY <2>1, <2>3, <2>4
<1>5. CASE Send
  <2>1. pc = "send" /\ pc' = "idle" /\ UNCHANGED << peerGot, written >>
    BY <1>5 DEF Send, counts, given, Return
  <2>2. \E v \in Int : Uniform(up', v, written)
    BY <1>5, WholeSend
  <2> QED
    BY <2>1, <2>2 DEF WholeUp, Writing
<1>6. CASE PeerReceive
  <2>1. UNCHANGED << pc, written, iv, buf, length >>
    BY <1>6 DEF PeerReceive, call, counts
  <2>2. /\ up' = << >> /\ pc \notin Writing /\ Len(peerGot) < written
        /\ Earlier(peerGot, 0, written)
        /\ \/ peerGot' = peerGot
           \/ /\ Len(up) - NonceSize \in Nat
              /\ peerGot' = Append(peerGot, Cells(written, Len(up) - NonceSize))
    BY <1>6, WholeReceive
  <2>3. Len(peerGot') <= written /\ Earlier(peerGot', 0, written + 1)
    <3>1. CASE peerGot' = peerGot
      BY <1>1, <2>2, <3>1, EarlierKept
    <3>2. CASE /\ Len(up) - NonceSize \in Nat
               /\ peerGot' = Append(peerGot, Cells(written, Len(up) - NonceSize))
      <4>1. PICK c \in Chunk : c = Cells(written, Len(up) - NonceSize)
                               /\ Number(c, 0) \in {0, written}
        BY <1>1, <3>2, CellsFacts, NumberFacts
      <4>2. Number(c, 0) < written + 1
        BY <1>1, <4>1
      <4>3. Earlier(peerGot', 0, written + 1)
        BY <1>1, <2>2, <3>2, <4>1, <4>2, EarlierKept
      <4>4. Len(peerGot') = Len(peerGot) + 1
        BY <1>1, <3>2, <4>1, AppendProperties
      <4> QED
        BY <1>1, <2>2, <4>3, <4>4
    <3> QED
      BY <2>2, <3>1, <3>2
  <2>4. pc # "send"
    BY <2>2 DEF Writing
  <2> QED
    BY <2>1, <2>2, <2>3, <2>4 DEF WholeUp
<1>7. CASE Read \/ ReadLoadsKey \/ Decrypt \/ PeerSend
  <2>1. UNCHANGED << up, peerGot, written >>
        /\ (pc' \in Writing => pc' = pc /\ UNCHANGED << buf, iv, length >>)
    BY <1>7 DEF Read, ReadLoadsKey, Decrypt, PeerSend, Return, counts, given, call, Writing
  <2>2. pc' = "send" => pc' \in Writing
    BY DEF Writing
  <2> QED
    BY <2>1, <2>2 DEF WholeUp
<1> QED
  BY <1>2, <1>3, <1>4, <1>5, <1>6, <1>7 DEF App

LEMMA ArrivedStays ==
    ASSUME NEW t, Arrived(t), peerGot \in Seq(Chunk),
           peerGot' = peerGot \/ \E c \in Chunk : peerGot' = Append(peerGot, c)
    PROVE  Arrived(t)'
<1>1. PICK i \in 1 .. Len(peerGot) : peerGot[i] = Cells(t[1], t[2])
  BY DEF Arrived, Range
<1>2. CASE peerGot' = peerGot
  BY <1>2 DEF Arrived
<1>3. CASE \E c \in Chunk : peerGot' = Append(peerGot, c)
  <2>1. PICK c \in Chunk : peerGot' = Append(peerGot, c)
    BY <1>3
  <2>2. /\ Append(peerGot, c)[i] = peerGot[i] /\ i \in 1 .. Len(Append(peerGot, c))
        /\ Append(peerGot, c) \in Seq(Chunk)
    BY AppendProperties
  <2>3. i \in DOMAIN peerGot' /\ peerGot'[i] = Cells(t[1], t[2])
    BY <1>1, <2>1, <2>2
  <2> QED
    BY <2>3 DEF Arrived, Range
<1> QED
  BY <1>2, <1>3

LEMMA ToldKept ==
    ASSUME regular, ToldInv, WholeUp, PlainInv, NumbersInv, App \/ PeerSend \/ PeerReceive
    PROVE  ToldInv'
<1>1. peerGot \in Seq(Chunk) /\ up \in Seq(Cell) /\ written \in Nat /\ length \in Nat
  BY DEF PlainInv, UpInv, Direction
<1>2. CASE Write
  <2>1. up = << >> /\ UNCHANGED << told, peerGot >>
    BY <1>2 DEF Write, given
  <2> QED
    BY <2>1 DEF ToldInv, Arrived
<1>3. CASE Send
  <2>1. PICK n \in 0 .. Len(buf) :
           /\ Len(up') = n
           /\ \/ told' = told
              \/ told' = told \union {<< written, length >>} /\ n = Len(buf)
    BY <1>3, WholeSend
  <2>2. up = << >> /\ Len(buf) = NonceSize + length /\ UNCHANGED << peerGot, written >>
    BY <1>3, WholeSend DEF Send, counts, given
  <2>3. ASSUME NEW t \in told' PROVE t \in Nat \X Nat /\ (t \in told => Arrived(t)')
    BY <1>1, <2>1, <2>2 DEF ToldInv, Arrived
  <2>4. ASSUME NEW t \in told', t \notin told
        PROVE  up' # << >> /\ t[1] = written /\ Len(up') = NonceSize + t[2]
    <3>1. t = << written, length >> /\ n = Len(buf)
      BY <2>1, <2>4
    <3>2. Len(up') = NonceSize + length /\ NonceSize + length # 0
      BY <1>1, <2>1, <2>2, <3>1, ChannelAssumption
    <3>3. Len(<< >>) = 0
      OBVIOUS
    <3> QED
      BY <3>1, <3>2, <3>3
  <2> QED
    BY <2>2, <2>3, <2>4 DEF ToldInv
<1>4. CASE PeerReceive
  <2>1. /\ UNCHANGED << written, told >>
    BY <1>4 DEF PeerReceive, counts
  <2>2. /\ peerGot' = peerGot \/ \E c \in Chunk : peerGot' = Append(peerGot, c)
        /\ up # << >> /\ Len(up) >= NonceSize
           => /\ Len(up) - NonceSize \in Nat
              /\ peerGot' = Append(peerGot, Cells(written, Len(up) - NonceSize))
    <3>1. /\ \/ peerGot' = peerGot /\ Len(up) < NonceSize
             \/ /\ Len(up) >= NonceSize /\ Len(up) - NonceSize \in Nat
                /\ peerGot' = Append(peerGot, Cells(written, Len(up) - NonceSize))
      BY <1>4, WholeReceive
    <3>2. ~ (Len(up) < NonceSize /\ Len(up) >= NonceSize)
      BY <1>1, ChannelAssumption
    <3>3. Len(up) - NonceSize \in Nat => Cells(written, Len(up) - NonceSize) \in Chunk
      BY <1>1, CellsFacts
    <3> QED
      BY <3>1, <3>2, <3>3
  <2>3. ASSUME NEW t \in told, Arrived(t) PROVE Arrived(t)'
    BY <1>1, <2>2, <2>3, ArrivedStays
  <2>4. ASSUME NEW t \in told, t \in Nat \X Nat, up # << >>, t[1] = written,
               Len(up) = NonceSize + t[2]
        PROVE  Arrived(t)'
    <3>1. t[2] \in Nat /\ NonceSize \in Nat
      BY <2>4, ChannelAssumption
    <3>2. Len(up) >= NonceSize /\ Len(up) - NonceSize = t[2]
      BY <2>4, <3>1
    <3>3. PICK c \in Chunk : c = Cells(t[1], t[2])
      BY <1>1, <2>4, <3>1, CellsFacts
    <3>4. peerGot' = Append(peerGot, c)
      BY <2>2, <2>4, <3>2, <3>3
    <3>5. /\ Append(peerGot, c)[Len(peerGot) + 1] = c /\ Append(peerGot, c) \in Seq(Chunk)
          /\ Len(Append(peerGot, c)) = Len(peerGot) + 1 /\ Len(peerGot) \in Nat
      BY <1>1, AppendProperties
    <3>6. Len(peerGot) + 1 \in DOMAIN peerGot' /\ peerGot'[Len(peerGot) + 1] = c
      BY <3>4, <3>5
    <3> QED
      BY <3>3, <3>6 DEF Arrived, Range
  <2> QED
    BY <2>1, <2>3, <2>4 DEF ToldInv
<1>5. CASE WriteLoadsKey \/ ReadIv \/ Encrypt \/ Read \/ ReadLoadsKey \/ Decrypt \/ PeerSend
  <2>1. UNCHANGED << up, peerGot, written, told >>
    BY <1>5 DEF WriteLoadsKey, ReadIv, Encrypt, Read, ReadLoadsKey, Decrypt, PeerSend,
       counts, given
  <2> QED
    BY <2>1 DEF ToldInv, Arrived
<1> QED
  BY <1>2, <1>3, <1>4, <1>5 DEF App

LEMMA RegularKept == ASSUME [Next]_vars PROVE regular' = regular
<1>1. CASE Write \/ WriteLoadsKey \/ ReadIv \/ Encrypt \/ Send
  BY <1>1 DEF Write, WriteLoadsKey, ReadIv, Encrypt, Send
<1>2. CASE Read \/ ReadLoadsKey \/ Decrypt
  BY <1>2 DEF Read, ReadLoadsKey, Decrypt
<1>3. CASE PeerSend \/ PeerReceive \/ UNCHANGED vars
  BY <1>3 DEF PeerSend, PeerReceive, vars, call
<1> QED
  BY <1>1, <1>2, <1>3 DEF Next, App

LEMMA WholeInit == Init => WholeInv
<1> SUFFICES ASSUME Init, regular PROVE RoomInv /\ WholeDown /\ WholeUp /\ ToldInv
  BY DEF WholeInv
<1>1. RoomInv
  <2>1. ToMake = 0 /\ free \in Nat /\ written = 0 /\ peerSent = 0
    BY ChannelAssumption DEF Init, ToMake, Reading
  <2>2. free >= MaxWrites + MaxSends
    BY DEF Init
  <2>3. free >= (MaxWrites - 0) + (MaxSends - 0) + 0
    BY <2>1, <2>2, ChannelAssumption
  <2> QED
    BY <2>1, <2>3, ChannelAssumption DEF RoomInv
<1>2. WholeDown /\ WholeUp /\ ToldInv
  BY DEF Init, WholeDown, WholeUp, ToldInv, Earlier, Reading, Writing
<1> QED
  BY <1>1, <1>2

LEMMA WholeKept ==
    ASSUME WholeInv, PlainInv, NumbersInv, [Next]_vars
    PROVE  WholeInv'
<1> SUFFICES ASSUME regular PROVE (RoomInv /\ WholeDown /\ WholeUp /\ ToldInv)'
  BY RegularKept DEF WholeInv
<1>1. RoomInv /\ WholeDown /\ WholeUp /\ ToldInv
  BY DEF WholeInv
<1>2. CASE Next
  <2>1. App \/ PeerSend \/ PeerReceive
    BY <1>2 DEF Next
  <2> QED
    BY <1>1, <2>1, RoomKept, WholeDownKept, WholeUpKept, ToldKept
<1>3. CASE UNCHANGED vars
  BY <1>1, <1>3 DEF vars, call, counts, given, RoomInv, WholeDown, WholeUp, ToldInv, Arrived,
     ToMake
<1> QED
  BY <1>2, <1>3

\* The invariant of all directions.
ChannelInv == IvInv /\ TextInv /\ WholeInv

LEMMA ChannelInvariance == Spec => []ChannelInv
<1>1. Init => ChannelInv
  BY InitHasInv, TextInit, WholeInit DEF ChannelInv
<1>2. ChannelInv /\ [Next]_vars => ChannelInv'
  BY StepKeeps, TextKept, WholeKept DEF ChannelInv, TextInv, IvInv
<1> QED
  BY <1>1, <1>2, PTL DEF Spec

\* ToldWholeArrives of SecureChannel: when messages stay apart, every message for which
\* secureCommunication_rpc_socket_write returned success with the length that was asked
\* for reaches the other end with all its bytes.  Neither the subtraction of the 12 bytes
\* of the IV, which wraps around, nor a count the stack has left uninitialised tells of
\* one that was not sent whole.
THEOREM ToldMessagesArrive == Spec => []ToldWholeArrives
<1>1. ChannelInv => ToldWholeArrives
  BY DEF ChannelInv, WholeInv, ToldInv, Arrived, ToldWholeArrives
<1> QED
  BY <1>1, ChannelInvariance, PTL

-----------------------------------------------------------------------------
(* EachWayIsMessageChannel, step by step: PeerSend and Write send, Decrypt  *)
(* and PeerReceive deliver, and nothing else is seen of the channels.       *)

LEMMA NumbersFacts ==
    ASSUME NEW chunks \in Seq(Chunk), NEW e
    PROVE  /\ DOMAIN Numbers(chunks, e) = 1 .. Len(chunks)
           /\ Len(Numbers(chunks, e)) = Len(chunks)
           /\ \A i \in 1 .. Len(chunks) : Numbers(chunks, e)[i] = Number(chunks[i], e)
           /\ \A c \in Chunk :
                 Numbers(Append(chunks, c), e) = Append(Numbers(chunks, e), Number(c, e))
<1> DEFINE all == UNION {{Number(chunks[i], e) : i \in 1 .. Len(chunks)},
                         {Number(c, e) : c \in Chunk}}
<1>1. PICK l \in Nat : l = Len(chunks) /\ DOMAIN chunks = 1 .. l
  OBVIOUS
<1>2. PICK f : f = Numbers(chunks, e)
  OBVIOUS
<1>3. f = [i \in 1 .. l |-> Number(chunks[i], e)]
  BY <1>1, <1>2 DEF Numbers
<1>4. \A i \in 1 .. l : Number(chunks[i], e) \in all
  BY <1>1
<1>5. f \in [1 .. l -> all]
  <2> HIDE DEF all
  <2> QED
    BY <1>3, <1>4
<1>6. f \in Seq(all) /\ Len(f) = l /\ DOMAIN f = 1 .. l
  <2> HIDE DEF all
  <2> QED
    BY <1>5
<1>7. ASSUME NEW c \in Chunk
      PROVE  Numbers(Append(chunks, c), e) = Append(f, Number(c, e))
  <2>1. PICK u : u = Append(chunks, c)
    OBVIOUS
  <2>2. /\ DOMAIN u = 1 .. l + 1 /\ u[l + 1] = c /\ \A i \in 1 .. l : u[i] = chunks[i]
    BY <1>1, <2>1, AppendProperties
  <2>3. Numbers(u, e) = [i \in 1 .. l + 1 |-> Number(u[i], e)]
    BY <2>2 DEF Numbers
  <2>4. PICK x : x = Number(c, e)
    OBVIOUS
  <2>5. x \in all
    BY <2>4
  <2>6. /\ Append(f, x) \in Seq(all) /\ Len(Append(f, x)) = l + 1
        /\ Append(f, x)[l + 1] = x /\ \A i \in 1 .. l : Append(f, x)[i] = f[i]
    <3> HIDE DEF all
    <3> QED
      BY <1>6, <2>5, AppendProperties
  <2>7. PICK g : g = Append(f, x)
    OBVIOUS
  <2>8. g = [i \in 1 .. l + 1 |-> g[i]]
    <3> HIDE DEF all
    <3>1. g \in Seq(all) /\ Len(g) = l + 1
      BY <2>6, <2>7
    <3>2. PICK k \in Nat : k = l + 1
      BY <1>1
    <3>3. g \in [1 .. k -> all]
      BY ONLY <3>1, <3>2
    <3> QED
      BY ONLY <3>2, <3>3
  <2>9. \A i \in 1 .. l + 1 : g[i] = Number(u[i], e)
    <3>1. \A i \in 1 .. l + 1 : i \in 1 .. l \/ i = l + 1
      BY <1>1
    <3> QED
      BY <1>3, <2>2, <2>4, <2>6, <2>7, <3>1
  <2> QED
    BY <2>1, <2>3, <2>4, <2>7, <2>8, <2>9
<1> QED
  BY <1>1, <1>2, <1>3, <1>6, <1>7

DownSent == IF regular THEN peerSent ELSE 0
DownGot == IF regular THEN Numbers(got, -1) ELSE << >>
UpSent == IF regular THEN written ELSE 0
UpGot == IF regular THEN Numbers(peerGot, 0) ELSE << >>

LEMMA ChannelsBegin == Init => Up!Init /\ Down!Init
<1> SUFFICES ASSUME Init PROVE Up!Init /\ Down!Init
  OBVIOUS
<1>1. Numbers(<< >>, 0) = << >> /\ Numbers(<< >>, -1) = << >>
  BY DEF Numbers
<1> QED
  BY <1>1 DEF Init, Up!Init, Down!Init

LEMMA DownSteps ==
    ASSUME ChannelInv, [Next]_vars
    PROVE  [Down!Next]_<< DownSent, DownGot >>
<1>1. regular' = regular
  BY RegularKept
<1>2. CASE ~ regular
  BY <1>1, <1>2 DEF DownSent, DownGot
<1>3. CASE regular /\ UNCHANGED << peerSent, got >>
  BY <1>1, <1>3 DEF DownSent, DownGot
<1>4. CASE regular /\ PeerSend
  <2>1. peerSent' = peerSent + 1 /\ got' = got
    BY <1>4 DEF PeerSend, given
  <2> QED
    BY <1>1, <1>4, <2>1 DEF Down!Next, Down!Send
<1>5. CASE regular /\ Decrypt
  <2>1. /\ got \in Seq(Chunk) /\ buf \in Seq(Cell) /\ Len(buf) >= NonceSize
        /\ RoomInv /\ WholeDown /\ peerSent \in Nat /\ pc = "decrypt" /\ pc \in Reading
        /\ written \in Nat
    BY <1>5 DEF ChannelInv, TextInv, WholeInv, PlainInv, DownInv, Direction, Decrypt, Reading
  <2>2. free >= 1
    <3>1. ToMake >= 1 /\ ToMake \in Nat
      BY <2>1 DEF ToMake, Reading
    <3> QED
      BY <2>1, <3>1, ChannelAssumption DEF RoomInv
  <2>8. ~ (free < 1) /\ ~ (free = 0)
    BY <2>1, <2>2 DEF RoomInv
  <2>3. got' = Append(got, Opened(buf)) /\ peerSent' = peerSent
    BY <1>5, <2>8, Zenon DEF Decrypt, counts
  <2>4. PICK m \in 1 .. peerSent :
             /\ Uniform(buf, m, m) /\ Len(buf) = NonceSize + PeerLength
             /\ Earlier(got, -1, m)
    BY <2>1 DEF WholeDown
  <2>5. PICK c \in Chunk : c = Opened(buf) /\ Number(c, -1) = m
    <3>1. (NonceSize + PeerLength) - NonceSize = PeerLength /\ PeerLength \in Nat \ {0}
          /\ PeerLength \in Nat /\ PeerLength # 0 /\ m \in Int
      BY ChannelAssumption
    <3>2. Opened(buf) = Cells(m, PeerLength)
      <4>1. Opened(buf) = Cells(m, Len(buf) - NonceSize)
        BY <2>1, <2>4, OpenedWhole
      <4> QED
        BY <2>4, <3>1, <4>1
    <3>3. Cells(m, PeerLength) \in Chunk
      BY <3>1, CellsFacts
    <3>4. Number(Cells(m, PeerLength), -1) = m
      BY <3>1, NumberFacts
    <3> QED
      BY <3>2, <3>3, <3>4
  <2>6. Numbers(got', -1) = Append(Numbers(got, -1), m)
    BY <2>1, <2>3, <2>5, NumbersFacts
  <2>7. \A i \in DOMAIN Numbers(got, -1) : Numbers(got, -1)[i] < m
    BY <2>1, <2>4, NumbersFacts DEF Earlier
  <2> QED
    BY <1>1, <1>5, <2>3, <2>6, <2>7 DEF Down!Next, Down!Deliver
<1>6. CASE Write \/ WriteLoadsKey \/ ReadIv \/ Encrypt \/ Send \/ Read \/ ReadLoadsKey
           \/ PeerReceive \/ UNCHANGED vars
  <2>1. UNCHANGED << peerSent, got >>
    BY <1>6 DEF Write, WriteLoadsKey, ReadIv, Encrypt, Send, Read, ReadLoadsKey, PeerReceive,
       vars, counts, given
  <2> QED
    BY <1>2, <1>3, <2>1
<1> QED
  BY <1>2, <1>4, <1>5, <1>6 DEF Next, App

LEMMA UpSteps ==
    ASSUME ChannelInv, [Next]_vars
    PROVE  [Up!Next]_<< UpSent, UpGot >>
<1>1. regular' = regular
  BY RegularKept
<1>2. CASE ~ regular
  BY <1>1, <1>2 DEF UpSent, UpGot
<1>3. CASE regular /\ UNCHANGED << written, peerGot >>
  BY <1>1, <1>3 DEF UpSent, UpGot
<1>4. CASE regular /\ Write
  <2>1. written' = written + 1 /\ peerGot' = peerGot
    BY <1>4 DEF Write, given
  <2> QED
    BY <1>1, <1>4, <2>1 DEF Up!Next, Up!Send
<1>5. CASE regular /\ PeerReceive
  <2>1. /\ peerGot \in Seq(Chunk) /\ up \in Seq(Cell) /\ WholeUp /\ written \in Nat
        /\ PlainInv /\ written' = written
    BY <1>5 DEF ChannelInv, TextInv, WholeInv, PlainInv, UpInv, Direction, PeerReceive, counts
  <2>2. /\ Len(peerGot) < written /\ Earlier(peerGot, 0, written)
        /\ \/ peerGot' = peerGot
           \/ /\ Len(up) - NonceSize \in Nat
              /\ peerGot' = Append(peerGot, Cells(written, Len(up) - NonceSize))
    BY <1>5, <2>1, WholeReceive
  <2>3. CASE peerGot' = peerGot
    BY <1>3, <1>5, <2>1, <2>3
  <2>4. CASE /\ Len(up) - NonceSize \in Nat
             /\ peerGot' = Append(peerGot, Cells(written, Len(up) - NonceSize))
    <3>1. PICK l \in Nat, c \in Chunk : l = Len(up) - NonceSize /\ c = Cells(written, l)
      BY <2>1, <2>4, CellsFacts
    <3>2. Number(c, 0) = IF l = 0 THEN 0 ELSE written
      BY <2>1, <3>1, NumberFacts
    <3>3. Numbers(peerGot', 0) = Append(Numbers(peerGot, 0), Number(c, 0))
      BY <2>1, <2>4, <3>1, NumbersFacts
    <3>4. CASE l = 0
      <4>1. Len(Numbers(peerGot, 0)) < written
        BY <2>1, <2>2, NumbersFacts
      <4> QED
        BY <1>1, <1>5, <2>1, <3>2, <3>3, <3>4, <4>1 DEF Up!Next, Up!DeliverEmpty
    <3>5. CASE l # 0
      <4>1. \A i \in DOMAIN Numbers(peerGot, 0) : Numbers(peerGot, 0)[i] < written
        BY <2>1, <2>2, NumbersFacts, SMTT(30) DEF Earlier
      <4>2. written \in 1 .. written
        BY <2>1, <2>2
      <4> QED
        BY <1>1, <1>5, <2>1, <3>2, <3>3, <3>5, <4>1, <4>2 DEF Up!Next, Up!Deliver
    <3> QED
      BY <3>4, <3>5
  <2> QED
    BY <2>2, <2>3, <2>4
<1>6. CASE WriteLoadsKey \/ ReadIv \/ Encrypt \/ Send \/ Read \/ ReadLoadsKey \/ Decrypt
           \/ PeerSend \/ UNCHANGED vars
  <2>1. UNCHANGED << written, peerGot >>
    BY <1>6 DEF WriteLoadsKey, ReadIv, Encrypt, Send, Read, ReadLoadsKey, Decrypt, PeerSend,
       vars, counts, given
  <2> QED
    BY <1>2, <1>3, <2>1
<1> QED
  BY <1>2, <1>4, <1>5, <1>6 DEF Next, App

\* EachWayIsMessageChannel of SecureChannel: when messages stay apart and the crypto
\* library has room, each direction implements the message channel.  What fails in the
\* TPM, the key store or the stack costs whole messages, or their ends; none is
\* delivered twice, out of order or as another one.
THEOREM EachWayImplementsMessageChannel == Spec => EachWayIsMessageChannel
<1>1. Init => Up!Init /\ Down!Init
  BY ChannelsBegin
<1>2. ChannelInv /\ [Next]_vars => [Down!Next]_<< IF regular THEN peerSent ELSE 0,
                                                  IF regular THEN Numbers(got, -1) ELSE << >> >>
  BY DownSteps DEF DownSent, DownGot
<1>3. ChannelInv /\ [Next]_vars => [Up!Next]_<< IF regular THEN written ELSE 0,
                                                IF regular THEN Numbers(peerGot, 0) ELSE << >> >>
  BY UpSteps DEF UpSent, UpGot
<1> QED
  BY <1>1, <1>2, <1>3, ChannelInvariance, PTL
     DEF Spec, EachWayIsMessageChannel, Up!Spec, Down!Spec
=============================================================================
