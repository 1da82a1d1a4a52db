---------------------------- MODULE SecureChannel ----------------------------
(***************************************************************************)
(* The encrypted connection when it is open: the calls write and read of   *)
(* the component SecureCommunication (SecureCommunication.c, sc_helpers.c),*)
(* the random numbers they take from WolfTPM (trentos.c), and send_encrypt *)
(* and recv_decrypt of the Python client (secureClient.py) on the other    *)
(* end.  sendto and recvfrom are write and read with an address.           *)
(*                                                                         *)
(* One thread serves the calls, one at a time; between two of its steps    *)
(* the network and the other end go on.  K_sym has been agreed upon.       *)
(*                                                                         *)
(* Data: a message is its number.  Its ciphertext is NonceSize cells for   *)
(* the 12 bytes of the IV and as many as the message is long; a cell is    *)
(* the IV, its place, the message and, when it was not encrypted for this  *)
(* message but found in memory, the message whose text it is (else 0).     *)
(* Decrypted with another IV or from another place it is Garbage.  Text is *)
(* the message and the place in it; text that was found in memory has the  *)
(* number of its message negated.  GCM's tag is neither sent nor checked.  *)
(* A message the application writes has its length from Lengths, one that  *)
(* the other end sends is PeerLength long.                                 *)
(*                                                                         *)
(* Nothing the crypto library makes for a message is freed.  It has room   *)
(* for the objects of a number of messages; then a key may fit still, but  *)
(* no cipher, and in the end not even a key.                               *)
(*                                                                         *)
(* Bounds: MaxWrites and MaxSends messages, MaxFaults failures, and Pools, *)
(* the messages the crypto library has room for.                           *)
(***************************************************************************)
EXTENDS Integers, SequencesExt

CONSTANTS Lengths,      \* the lengths of the application's messages
          PeerLength,
          NonceSize,    \* 12
          BufferSize,   \* OS_DATAPORT_DEFAULT_SIZE
          SizeMod,      \* 2^32, the range of size_t
          Pools,        \* messages for which the crypto library has room
          MaxWrites, MaxSends, MaxFaults

ASSUME ChannelAssumption ==
    /\ Lengths \subseteq Nat /\ PeerLength \in Nat \ {0} /\ NonceSize \in Nat \ {0}
    /\ BufferSize \in Nat /\ SizeMod \in Nat /\ NonceSize + BufferSize < SizeMod
    /\ Pools \subseteq Nat
    /\ MaxWrites \in Nat /\ MaxSends \in Nat /\ MaxFaults \in Nat

VARIABLES regular,     \* each message is read before the next is sent, and there is
                       \* room for all messages
          pc,
          length,      \* *pLen, the length of the message that is written
          buf,         \* what is to be sent, or has been read
          iv,          \* the IV of the message that is written
          port,        \* the random number in the entropy dataport
          random,      \* random numbers the TPM has generated
          refused,     \* history: how often TPM2_GetRandom has failed
          free,        \* messages for which the crypto library has room; at 0 a key
                       \* may still fit, at -1 none does
          plaintext,   \* what the calls of read have left of their local plaintext
          payload,     \* what the calls of write have left of their local payload
          up, down,    \* the streams to the other end and from it
          written, peerSent, \* messages so far
          told,        \* history: number and length of each message of which the
                       \* caller was told that it has been sent whole
          got, peerGot,      \* history: what each end has been given
          used,        \* history: the IVs with which ciphers were made for messages
          faults

call    == << regular, pc, length, buf, iv >>
entropy == << port, random, refused >>
memory  == << plaintext, payload >>
counts  == << written, peerSent >>
given   == << got, peerGot >>
vars    == << call, entropy, free, memory, up, down, counts, told, given, used, faults >>

Garbage == << 0, 0 >>

Init ==
    /\ regular \in BOOLEAN
    /\ free \in Pools /\ (regular => free >= MaxWrites + MaxSends)
    /\ pc = "idle" /\ length = 0 /\ buf = << >> /\ iv = 0
    /\ port = 0 /\ random = 0 /\ refused = 0
    /\ plaintext = << >> /\ payload = << >>
    /\ up = << >> /\ down = << >>
    /\ written = 0 /\ peerSent = 0 /\ told = {}
    /\ got = << >> /\ peerGot = << >> /\ used = << >> /\ faults = 0

Fails == faults < MaxFaults /\ faults' = faults + 1

\* The call is over, and with it its locals.
Return == pc' = "idle" /\ length' = 0 /\ buf' = << >> /\ iv' = 0

\* The caller of write sees a result and *pLen.
Tell(ret, len) ==
    told' = IF ret = "success" /\ len = length THEN told \union {<< written, length >>} ELSE told

\* AES-GCM as it is used: the IV, and the text under the key stream of that IV.
Sealed(v, n, len) == [k \in 1 .. NonceSize + len |-> << v, k, n, 0 >>]

\* A local array after its first bytes have been written; memory keeps the others.
Over(new, old) == new \o SubSeq(old, Len(new) + 1, Len(old))

\* Text and ciphertext, when memory still holds them for a later message n.
Again(c) == IF c[1] > 0 THEN << -c[1], c[2] >> ELSE c
AgainFor(n, c) == << c[1], c[2], n, IF c[4] = 0 THEN c[3] ELSE c[4] >>

\* The text of a cell at place i of a chunk.
TextOf(c, i) == IF c[4] = 0 THEN << c[3], i >> ELSE << -c[4], i >>

\* Slip: the text is taken to begin one byte behind the IV.
OpenedLate(cells) ==
    LET v == cells[1][1]
        good(j) == /\ \A k \in 1 .. NonceSize : cells[k][1] = v /\ cells[k][2] = k
                   /\ cells[j][1] = v /\ cells[j][2] = j + 1
    IN [i \in 1 .. Len(cells) - NonceSize |->
           IF good(NonceSize + i) THEN TextOf(cells[NonceSize + i], i) ELSE Garbage]

\* What decrypting cells gives; the first NonceSize of them are taken for an IV.
Opened(cells) ==
    LET v == cells[1][1]
        good(j) == /\ \A k \in 1 .. NonceSize : cells[k][1] = v /\ cells[k][2] = k
                   /\ cells[j][1] = v /\ cells[j][2] = j
    IN [i \in 1 .. Len(cells) - NonceSize |->
           IF good(NonceSize + i) THEN TextOf(cells[NonceSize + i], i) ELSE Garbage]

\* What a read of a stream may return: a prefix that fits, or what is there.
Chunks(stream, size) ==
    { n \in 1 .. Len(stream) : n <= size /\ (regular => n = Len(stream)) }
Rest(stream, n) == SubSeq(stream, n + 1, Len(stream))

-----------------------------------------------------------------------------
(* secureCommunication_rpc_socket_write().                                 *)

Write ==
    /\ pc = "idle" /\ written < MaxWrites /\ (regular => up = << >>)
    /\ written' = written + 1
    /\ \/ pc' = "writeKey" /\ length' \in Lengths /\ UNCHANGED << buf, iv, faults >>
       \/ Fails /\ Return                            \* CHECK_IS_RUNNING
    /\ UNCHANGED << regular, entropy, free, memory, up, down, peerSent, told, given, used >>

\* keystore.loadKey.
WriteLoadsKey ==
    /\ pc = "writeKey"
    /\ \/ pc' = "iv" /\ UNCHANGED << length, buf, iv, faults >>
       \/ Fails /\ Return
    /\ UNCHANGED << regular, entropy, free, memory, up, down, counts, told, given, used >>

\* Slip: a random number that is in the dataport is taken for one that is new.
ReadIvKept ==
    /\ pc = "iv" /\ pc' = "encrypt"
    /\ IF port = 0 THEN random' = random + 1 /\ port' = random + 1
                   ELSE UNCHANGED << port, random >>
    /\ iv' = port'
    /\ UNCHANGED << regular, length, buf, refused, free, memory, up, down, counts, told,
                    given, used, faults >>

\* entropy.read(12): entropy_rpc_read does not look at the result of GetRandom, and
\* returns 12 whatever it is.
ReadIv ==
    /\ pc = "iv" /\ pc' = "encrypt"
    /\ \/ random' = random + 1 /\ port' = random + 1 /\ UNCHANGED << refused, faults >>
       \/ Fails /\ refused' = refused + 1 /\ UNCHANGED << port, random >>
    /\ iv' = port'
    /\ UNCHANGED << regular, length, buf, free, memory, up, down, counts, told, given, used >>

\* The payload when the process call had no cipher of its own.  The handle is what the
\* stack holds: the cipher of an earlier message, whose key stream is another one (IV -1
\* here) or, when that cipher had this IV and begins anew, the right one; or no cipher,
\* and the payload stays as it is in memory, whether that still holds an earlier one.
NotSealed ==
    LET cell(k, v) == << IF k <= NonceSize THEN iv ELSE v, k, written, 0 >>
        whole == 1 .. NonceSize + length
    IN { [k \in whole |-> cell(k, v)] : v \in {-1} \union ({iv} \intersect Range(used)) }
       \union
       { [k \in whole |-> IF k > NonceSize /\ k \in DOMAIN payload
                         THEN AgainFor(written, payload[k]) ELSE cell(k, -1)] }

\* encrypt_AES_GCM.  Without a cipher outputSize keeps the size of the buffer, which is
\* found out unless the message fills it; with the cipher of an earlier message it does
\* not show.
Encrypt ==
    /\ pc = "encrypt"
    /\ \/ /\ BufferSize < NonceSize + length \/ free = -1
          /\ Return /\ UNCHANGED << free, payload, used >>
       \/ /\ BufferSize >= NonceSize + length /\ free >= 1
          /\ free' = free - 1 /\ used' = Append(used, iv)
          /\ buf' = Sealed(iv, written, length) /\ payload' = Over(buf', payload)
          /\ pc' = "send" /\ UNCHANGED << length, iv >>
       \/ /\ BufferSize >= NonceSize + length /\ free = 0 /\ UNCHANGED used
          /\ \/ free' = -1 /\ Return /\ UNCHANGED payload
             \/ free' = 0 /\ Return /\ UNCHANGED payload
             \/ /\ free' = 0 /\ buf' \in NotSealed /\ payload' = Over(buf', payload)
                /\ pc' = "send" /\ UNCHANGED << length, iv >>
    /\ UNCHANGED << regular, entropy, plaintext, up, down, counts, told, given, faults >>

\* Slip: the count of the stack is handed on, the IV included.
SendCounted ==
    /\ pc = "send" /\ Return
    /\ \/ \E n \in 0 .. Len(buf) :
             /\ up' = up \o SubSeq(buf, 1, n)
             /\ Tell("success", n)
             /\ IF n = Len(buf) THEN UNCHANGED faults ELSE Fails
       \/ Fails /\ UNCHANGED << up, told >>
    /\ UNCHANGED << regular, entropy, free, memory, down, counts, given, used >>

\* OS_Socket_write.  The stack may take less than it is given; when it fails,
\* sentLength is what the stack held.  *pLen is a size_t.
Send ==
    /\ pc = "send" /\ Return
    /\ \/ \E n \in 0 .. Len(buf) :
             /\ up' = up \o SubSeq(buf, 1, n)
             /\ Tell("success", (n - NonceSize) % SizeMod)
             /\ IF n = Len(buf) THEN UNCHANGED faults ELSE Fails
       \/ /\ Fails /\ UNCHANGED up
          /\ \E n \in 0 .. SizeMod - 1 : Tell("error", (n - NonceSize) % SizeMod)
    /\ UNCHANGED << regular, entropy, free, memory, down, counts, given, used >>

-----------------------------------------------------------------------------
(* secureCommunication_rpc_socket_read().                                  *)

\* OS_Socket_read is asked for a full buffer, whatever the caller asks for; what is
\* shorter than an IV is dropped.  A read that fails or finds nothing changes nothing.
Read ==
    /\ pc = "idle"
    /\ \E n \in Chunks(down, BufferSize) :
          /\ down' = Rest(down, n)
          /\ IF n < NonceSize THEN Return
             ELSE pc' = "readKey" /\ buf' = SubSeq(down, 1, n) /\ UNCHANGED << length, iv >>
    /\ UNCHANGED << regular, entropy, free, memory, up, counts, told, given, used, faults >>

\* Slip: the result of loadKey is looked at too late, the dataport is handed over.
ReadLoadsKeyLate ==
    /\ pc = "readKey"
    /\ \/ pc' = "decrypt" /\ UNCHANGED << length, buf, iv, got, faults >>
       \/ /\ Fails /\ Return
          /\ got' = IF got = << >> THEN got ELSE Append(got, got[Len(got)])
    /\ UNCHANGED << regular, entropy, free, memory, up, down, counts, told, peerGot, used >>

\* keystore.loadKey.  The bytes have left the stack.
ReadLoadsKey ==
    /\ pc = "readKey"
    /\ \/ pc' = "decrypt" /\ UNCHANGED << length, buf, iv, faults >>
       \/ Fails /\ Return
    /\ UNCHANGED << regular, entropy, free, memory, up, down, counts, told, given, used >>

\* decrypt_AES_GCM, with the same two objects.  Without a cipher of its own it reports
\* success all the same, for the size it compares is the one it has set itself: the text
\* is Garbage, by the key stream of another cipher or as it is on the stack, or what an
\* earlier read has left there.
Decrypt ==
    /\ pc = "decrypt" /\ Return
    /\ \/ /\ free >= 1 /\ free' = free - 1
          /\ got' = Append(got, Opened(buf)) /\ plaintext' = Over(Opened(buf), plaintext)
       \/ /\ free = 0 /\ free' = 0
          /\ \E kept \in BOOLEAN :
                LET text == [i \in 1 .. Len(buf) - NonceSize |->
                               IF kept /\ i \in DOMAIN plaintext THEN Again(plaintext[i])
                               ELSE Garbage]
                IN got' = Append(got, text) /\ plaintext' = Over(text, plaintext)
       \/ free < 1 /\ free' = -1 /\ UNCHANGED << got, plaintext >>
    /\ UNCHANGED << regular, entropy, payload, up, down, counts, told, peerGot, used, faults >>

-----------------------------------------------------------------------------
(* The Python client.                                                      *)

\* send_encrypt.  Its IVs are taken to be new ones; messages are numbered from 1.
PeerSend ==
    /\ peerSent < MaxSends /\ (regular => down = << >>)
    /\ peerSent' = peerSent + 1
    /\ down' = down \o Sealed(peerSent + 1, peerSent + 1, PeerLength)
    /\ UNCHANGED << call, entropy, free, memory, up, written, told, given, used, faults >>

\* recv_decrypt: what is shorter than an IV is dropped here, too.
PeerReceive ==
    /\ \E n \in Chunks(up, 1024) :
          /\ up' = Rest(up, n)
          /\ peerGot' = IF n < NonceSize THEN peerGot
                        ELSE Append(peerGot, Opened(SubSeq(up, 1, n)))
    /\ UNCHANGED << call, entropy, free, memory, down, counts, told, got, used, faults >>

App == \/ Write \/ WriteLoadsKey \/ ReadIv \/ Encrypt \/ Send
       \/ Read \/ ReadLoadsKey \/ Decrypt

Next == App \/ PeerSend \/ PeerReceive

Spec == Init /\ [][Next]_vars
-----------------------------------------------------------------------------
(* What must hold.                                                         *)

Cells(n, len) == [i \in 1 .. len |-> << n, i >>]

\* Though nobody looks at the result of wolfTPM2_GetRandom, it takes a refusal of its own
\* for every message that gets an IV once more, and no message gets an IV that is older
\* than its predecessor's.
Repeated == { i \in DOMAIN used : i > 1 /\ used[i] = used[i - 1] }
IvRepeatedOnlyWhenRefused ==
    /\ \A i, j \in DOMAIN used : i < j => used[i] <= used[j]
    /\ Cardinality(Repeated) <= refused

\* What an end has been given shows new text where it shows text of a message for the
\* first time, and old text where memory has given it text of a message once more.
ShowsNew(chunk) == \E i \in DOMAIN chunk : chunk[i][1] > 0
ShowsOld(chunk) == \E i \in DOMAIN chunk : chunk[i][1] < 0

\* Of two places that show new text, the later one shows text that was sent later.
InOrder(chunks) ==
    \A a, b \in DOMAIN chunks : \A i \in DOMAIN chunks[a], j \in DOMAIN chunks[b] :
        LET c == chunks[a][i]
            d == chunks[b][j]
        IN  /\ c[1] > 0 /\ d[1] > 0
            /\ a < b \/ (a = b /\ i < j)
            => c[1] < d[1] \/ (c[1] = d[1] /\ c[2] < d[2])

\* However the network cuts and joins the messages, whatever fails and when the crypto
\* library has no more room: what an end can read of the messages is in the order in
\* which it was sent, and none of it is there twice.  The one exception is text that
\* memory still held when there was no room for a cipher: the application may read it
\* again, and nothing new after it; the other end only if the TPM has refused an IV, too.
PlainInOrder ==
    /\ InOrder(got) /\ InOrder(peerGot)
    /\ \A a, b \in DOMAIN got :
          ShowsOld(got[a]) => free < 1 /\ (a <= b => ~ ShowsNew(got[b]))
    /\ \A a \in DOMAIN peerGot : ShowsOld(peerGot[a]) => free < 1 /\ refused > 0

\* The caller of write learns of a message that was not sent whole: one that it was
\* told has been sent reaches the other end, each of its bytes.
ToldWholeArrives ==
    regular /\ up = << >> => \A t \in told : \E c \in Range(peerGot) : c = Cells(t[1], t[2])

\* The messages that an end is given, by their numbers; -1 is none that was sent.  A
\* stack that takes only a part of a message shortens it, at most to nothing.
Number(chunk, nothing) ==
    IF chunk = << >> THEN nothing
    ELSE IF chunk = Cells(chunk[1][1], Len(chunk)) THEN chunk[1][1] ELSE -1
Numbers(chunks, nothing) == [i \in DOMAIN chunks |-> Number(chunks[i], nothing)]
Down == INSTANCE MessageChannel
            WITH sent <- IF regular THEN peerSent ELSE 0,
                 got <- IF regular THEN Numbers(got, -1) ELSE << >>
Up == INSTANCE MessageChannel
          WITH sent <- IF regular THEN written ELSE 0,
               got <- IF regular THEN Numbers(peerGot, 0) ELSE << >>

\* When messages stay apart and the crypto library has room, each direction is a
\* message channel: a failure costs whole messages, or their ends.
EachWayIsMessageChannel == Up!Spec /\ Down!Spec
=============================================================================
