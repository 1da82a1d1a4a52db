-------------------------------- MODULE TPM2 --------------------------------
(***************************************************************************)
(* The command layer of the wolfTPM library (tpm2.c): how a command is put *)
(* together in the context's buffer, authorised with the sessions that are *)
(* set, sent, and its answer taken apart.  The commands are those of       *)
(* TPM2Commands; the device and the link to it are external: a command may *)
(* be lost before it is executed or its answer afterwards, the TPM refuses *)
(* what is not in order and may refuse anything else.                      *)
(*                                                                         *)
(* A packet is a sequence of cells: the header, handles and parameters     *)
(* (fields of TPM2Packet), sizes, and one cell for what one session adds.  *)
(* A size counts cells.  A session's slot holds its kind and attributes;   *)
(* of its nonces only this is kept: whether the caller's nonce was made    *)
(* for the command at hand, and whether the TPM's nonce in the slot is the *)
(* one the TPM used last.  The library is compiled without wolfCrypt: no   *)
(* HMAC is computed, and encrypting or decrypting a parameter fails.       *)
(***************************************************************************)
EXTENDS Integers, FiniteSets, TPM2Commands, TLC

CONSTANTS MaxSession,   \* MAX_SESSION_NUM
          SlotChoices,  \* what the slots of the sessions may hold
          ShapeChoices  \* the structures that callers pass and the TPM answers with

Slots == 0..MaxSession - 1

Handles == {"none", "password", "hmac", "policy"}
Attributes == {"continue", "decrypt", "encrypt", "audit"}

ASSUME TPM2Assumption ==
    /\ MaxSession \in Nat \ {0}
    /\ SlotChoices \subseteq [Slots -> [handle : Handles, attrs : SUBSET Attributes]]
    /\ ShapeChoices \subseteq Shapes /\ ShapeChoices # {}

VARIABLES slots,    \* the sessions of the device (dev->session)
          set,      \* whether the context points to them (ctx->session)
          inStep,   \* of each slot: its nonceTPM is the TPM's last
          pc, cmd, shape,
          authCnt,  \* info->authCnt
          packet,   \* ctx->cmdBuf, command and answer
          i, pos,   \* the session at hand, and packet->pos or authPos
          rc

vars == << slots, set, inStep, pc, cmd, shape, authCnt, packet, i, pos, rc >>

-----------------------------------------------------------------------------
(* Cells.                                                                  *)

Field(name) == [what |-> "field", name |-> name]
Header(tag) == [what |-> "header", tag |-> tag]
Size(n) == [what |-> "size", number |-> n]
Auth(slot, nonce, attrs) ==
    [what |-> "auth", slot |-> slot, nonce |-> nonce, attrs |-> attrs]

Fields(layout) == [k \in DOMAIN layout |-> Field(layout[k])]
HandleFields(n) == [k \in 1..n |-> Field("handle")]

\* Anything but a size reads as a number far beyond the packet.
NumberAt(p, k) ==
    IF k \in DOMAIN p /\ p[k].what = "size" THEN p[k].number ELSE Len(p)

Replace(p, k, cell) == IF k \in DOMAIN p THEN [p EXCEPT ![k] = cell] ELSE p

-----------------------------------------------------------------------------
(* Which sessions authorise a command.                                     *)

AuthReq(k, flags) ==
    \/ k = 0 /\ flags \cap {"user1", "admin", "dup"} # {}
    \/ k = 1 /\ "user2" \in flags

\* An HMAC session goes along if it encrypts or audits this command.
Useful(attrs, flags) ==
    \/ "decrypt" \in attrs /\ "enc" \in flags
    \/ "encrypt" \in attrs /\ "dec" \in flags
    \/ "audit" \in attrs

\* A password, or a policy without attributes, stands for what the command asks for.
Authorizes(k, flags) ==
    /\ AuthReq(k, flags)
    /\ \/ slots[k].handle = "password"
       \/ slots[k].handle = "policy" /\ slots[k].attrs = {}

\* An HMAC session may come behind one that authorizes.
Follows(k, flags) ==
    slots[k].handle = "hmac" /\ \E j \in 0..k - 1 : Authorizes(j, flags)

\* The sessions that count before the first one that ends the list.
TPM2_GetCmdAuthCount(flags) ==
    LET Listed(k) == AuthReq(k, flags) \/ Follows(k, flags)
        Counts(k) == \/ Authorizes(k, flags)
                     \/ Follows(k, flags) /\ Useful(slots[k].attrs, flags)
    IN Cardinality({k \in Slots : Counts(k) /\ \A j \in 0..k - 1 : Listed(j)})

-----------------------------------------------------------------------------
(* The TPM and the link to it (external).                                  *)

\* The n-th cell and those after it are one session's each.
AuthCells(p, from, n) ==
    /\ from + n - 1 <= Len(p)
    /\ \A k \in from..from + n - 1 :
         p[k].what = "auth" /\ slots[p[k].slot].handle # "none"

\* A command as the TPM takes it: its handles, the authorizations, the parameters.
WellFormed(p) ==
    LET d == Commands[cmd]
        h == d.handles
        n == IF p[1].tag = "none" THEN -1 ELSE NumberAt(p, h + 2)
    IN /\ p[1].what = "header"
       /\ SubSeq(p, 2, h + 1) = HandleFields(h)
       /\ p[1].tag = "sessions" => p[h + 2].what = "size" /\ AuthCells(p, h + 3, n)
       /\ SubSeq(p, h + n + 3, Len(p)) = Fields(Written(d.in, shape))

\* The sessions a command was sent with.
Sent(p) == {p[k].slot : k \in {k \in DOMAIN p : p[k].what = "auth"}}

AnswerTo(p) ==
    LET d == Commands[cmd]
        results == Fields(Written(Results(d), shape))
        auths == [k \in 1..NumberAt(p, d.handles + 2) |->
                    [p[d.handles + 2 + k] EXCEPT !.nonce = "TPM"]]
    IN << Header(p[1].tag) >> \o HandleFields(OutHandles(d))
         \o IF p[1].tag = "none" THEN results
            ELSE << Size(Len(results)) >> \o results \o auths

-----------------------------------------------------------------------------
AnyShape == CHOOSE s \in ShapeChoices : TRUE

\* The shapes that make a difference to a command.
ShapesOf(c) ==
    LET kinds == ToSet(Commands[c].in) \union ToSet(Commands[c].out)
    IN IF kinds \cap {"public", "parms", "symmetric", "scheme", "signature", "sensitive"} = {}
       THEN {AnyShape} ELSE ShapeChoices

Init ==
    /\ slots \in SlotChoices
    /\ set = TRUE
    /\ inStep = [k \in Slots |-> TRUE]
    /\ pc = "idle" /\ cmd = "Startup" /\ shape = AnyShape
    /\ authCnt = 0 /\ packet = << >> /\ i = 0 /\ pos = 0 /\ rc = "success"

\* Returning, the function leaves nothing behind that another one looks at.
Return(code) ==
    /\ pc' = "returned" /\ rc' = code

\* TPM2_SetSessionAuth: the slots themselves are the wrappers' (TPM2Wrap).
TPM2_SetSessionAuth ==
    /\ pc = "idle" /\ set' = ~set
    /\ UNCHANGED << slots, inStep, pc, cmd, shape, authCnt, packet, i, pos, rc >>

\* TPM2_Packet_AppendAuthCmd: a password session always continues.
AppendAuthCmd(slot, nonce, attrs) ==
    Auth(slot, nonce, IF slots[slot].handle = "password" THEN attrs \union {"continue"}
                      ELSE attrs)

\* TPM2_Packet_AppendAuth: a size and the first n sessions, or nothing.
AppendAuth(n) ==
    IF n = 0 THEN << >>
    ELSE << Size(n) >> \o [k \in 1..n |-> AppendAuthCmd(k - 1, "stale", slots[k - 1].attrs)]

\* Any of the functions TPM2_*: its arguments are checked and the command is put
\* together, up to TPM2_SendCommand and the first lines of TPM2_SendCommandAuth.
Call(c, s) ==
    LET d == Commands[c]
        n == IF d.kind = "plain" \/ ~set THEN 0 ELSE TPM2_GetCmdAuthCount(d.flags)
        tag == IF d.kind \in {"authorized", "unguarded"} \/ (d.kind = "open" /\ n > 0)
               THEN "sessions" ELSE "none"
    IN /\ pc = "idle" /\ cmd' = c /\ shape' = s
       /\ IF d.kind = "authorized" /\ ~set
          THEN /\ Return("BAD_FUNC_ARG")
               /\ UNCHANGED << slots, set, inStep, authCnt, packet, i, pos >>
          ELSE /\ authCnt' = n
               /\ packet' = << Header(tag) >> \o HandleFields(d.handles) \o AppendAuth(n)
                                \o Fields(Written(d.in, s))
               /\ slots' = [k \in Slots |->
                     IF k < n /\ slots[k].handle = "password"
                     THEN [slots[k] EXCEPT !.attrs = @ \union {"continue"}] ELSE slots[k]]
               /\ UNCHANGED << set, inStep >>
               /\ IF tag = "none"
                  THEN pc' = "send" /\ UNCHANGED << rc, i, pos >>
                  ELSE IF n < 1
                  THEN Return("TPM_RC_AUTH_MISSING") /\ UNCHANGED << i, pos >>
                  ELSE \* TPM2_CommandProcess skips the header and the handles area
                       /\ pc' = "process" /\ i' = 0 /\ pos' = 1 + d.inHandleCnt + 2
                       /\ UNCHANGED rc

\* Slip: GetRandom is put together in the context's buffer.
AfterGetRandom(p) == << Header("none"), Field("bytesRequested") >> \o SubSeq(p, 3, Len(p))

\* TPM2_GetNonce sends GetRandom from a buffer of its own, so that the command that
\* is being put together stays as it is.
AfterGetNonce(p) == p

\* The attributes a session is sent with: what the command has no parameter for is
\* left out.
Masked(attrs, flags) ==
    attrs \ ((IF "enc" \in flags THEN {} ELSE {"decrypt"})
               \union (IF "dec" \in flags THEN {} ELSE {"encrypt"}))

\* One session of TPM2_CommandProcess: a fresh nonce, and the session's cell is
\* written once more.
CommandProcess ==
    LET d == Commands[cmd]
        s == slots[i]
        attrs == IF s.handle \in {"hmac", "policy"} THEN Masked(s.attrs, d.flags)
                 ELSE s.attrs
        p == IF s.handle = "password" THEN packet ELSE AfterGetNonce(packet)
    IN /\ pc = "process" /\ i < authCnt
       /\ \/ /\ s.handle # "password" /\ Return("TPM_RC_FAILURE")    \* TPM2_GetNonce
             /\ UNCHANGED << i, pos, packet >>
          \/ IF s.handle \in {"hmac", "policy"} /\ "enc" \in d.flags /\ "decrypt" \in attrs
             THEN Return("NOT_COMPILED_IN") /\ packet' = p /\ UNCHANGED << i, pos >>
             ELSE /\ packet' = Replace(p, pos, AppendAuthCmd(i, "fresh", attrs))
                  /\ i' = i + 1 /\ pos' = pos + 1
                  /\ UNCHANGED << pc, rc >>
       /\ UNCHANGED << slots, set, inStep, cmd, shape, authCnt >>

\* The end of TPM2_CommandProcess: the size of what has been written is placed.
CommandProcessed ==
    LET tmpSz == 1 + Commands[cmd].inHandleCnt + 1
    IN /\ pc = "process" /\ i = authCnt
       /\ packet' = Replace(packet, tmpSz, Size(pos - tmpSz - 1))
       /\ pc' = "send"
       /\ UNCHANGED << slots, set, inStep, cmd, shape, authCnt, i, pos, rc >>

\* INTERNAL_SEND_COMMAND and TPM2_Packet_Parse.  Executing the command, the TPM
\* rolls the nonces of the sessions it came with.
SendFails ==
    /\ pc = "send" /\ Return("TPM_RC_TIMEOUT")
    /\ UNCHANGED << slots, set, inStep, cmd, shape, authCnt, packet, i, pos >>

Refused ==
    /\ pc = "send" /\ Return("refused")
    /\ packet' = << Header("none") >>
    /\ UNCHANGED << slots, set, inStep, cmd, shape, authCnt, i, pos >>

Rolled == [k \in Slots |-> inStep[k] /\ ~(k \in Sent(packet) /\ slots[k].handle # "password")]

Executed ==
    /\ pc = "send" /\ WellFormed(packet)
    /\ inStep' = Rolled
    /\ packet' = AnswerTo(packet)
    /\ IF packet[1].tag = "sessions"
       THEN \* TPM2_ResponseProcess skips the header and the handles, and finds the
            \* sessions behind the parameters
            LET size == 1 + Commands[cmd].outHandleCnt + 1
            IN /\ pc' = "respond" /\ i' = 0
               /\ pos' = size + NumberAt(AnswerTo(packet), size) + 1
       ELSE pc' = "read" /\ UNCHANGED << i, pos >>
    /\ UNCHANGED << slots, set, cmd, shape, authCnt, rc >>

AnswerLost ==
    /\ pc = "send" /\ WellFormed(packet)
    /\ inStep' = Rolled
    /\ Return("TPM_RC_TIMEOUT")
    /\ UNCHANGED << slots, set, cmd, shape, authCnt, packet, i, pos >>

\* One session of TPM2_ResponseProcess.
ResponseProcess ==
    LET there == pos \in DOMAIN packet /\ packet[pos].what = "auth"
    IN /\ pc = "respond" /\ i < authCnt
       /\ pos' = pos + 1 /\ i' = i + 1
       /\ inStep' = [inStep EXCEPT ![i] = @ \/ (there /\ slots[i].handle # "password")]
       /\ IF /\ there /\ slots[i].handle # "password"
             /\ "dec" \in Commands[cmd].flags /\ "encrypt" \in packet[pos].attrs
          THEN Return("NOT_COMPILED_IN")
          ELSE UNCHANGED << pc, rc >>
       /\ UNCHANGED << slots, set, cmd, shape, authCnt, packet >>

ResponseProcessed ==
    /\ pc = "respond" /\ i = authCnt
    /\ pc' = "read"
    /\ UNCHANGED << slots, set, inStep, cmd, shape, authCnt, packet, i, pos, rc >>

\* Slip: the size of the parameters is expected in every answer.
ReadsAll == Commands[cmd].out

\* What the function reads from behind the answer's header.
Reads ==
    LET d == Commands[cmd]
        st == IF authCnt > 0 THEN "sessions" ELSE "none"
    IN IF d.kind = "open" /\ st = "none" THEN Unsized(d)
       ELSE d.out

ReadAnswer ==
    /\ pc = "read" /\ Return("success")
    /\ UNCHANGED << slots, set, inStep, cmd, shape, authCnt, packet, i, pos >>

\* The next call starts with a new packet and a new CmdInfo_t.
Returned ==
    /\ pc = "returned" /\ pc' = "idle"
    /\ cmd' = "Startup" /\ authCnt' = 0 /\ packet' = << >> /\ i' = 0 /\ pos' = 0
    /\ rc' = "success" /\ shape' = AnyShape
    /\ UNCHANGED << slots, set, inStep >>

Next ==
    \/ TPM2_SetSessionAuth
    \/ \E c \in DOMAIN Commands : \E s \in ShapesOf(c) : Call(c, s)
    \/ CommandProcess \/ CommandProcessed
    \/ SendFails \/ Refused \/ Executed \/ AnswerLost
    \/ ResponseProcess \/ ResponseProcessed \/ ReadAnswer \/ Returned

Spec == Init /\ [][Next]_vars

-----------------------------------------------------------------------------
(* Properties.                                                             *)

\* The sessions that go along all apply to the command: the caller has kept to "The
\* auth sessions must be first in the list" (tpm2_packet.c:303).
WellOrdered ==
    LET flags == Commands[cmd].flags
    IN \A k \in 0..authCnt - 1 :
         \/ slots[k].handle = "password" /\ AuthReq(k, flags)
         \/ slots[k].handle = "hmac" /\ Useful(slots[k].attrs, flags)
         \/ slots[k].handle = "policy" /\ AuthReq(k, flags) /\ slots[k].attrs = {}

\* A command reaches the link the way the TPM takes it: its handles, one entry for each
\* session that applies, in their order, each with a nonce made for this command and
\* without the attributes the command has no use for, and untouched parameters, although
\* the entries are written over once more after the packet was finished.
CommandsArriveWhole ==
    pc = "send" /\ cmd \notin Miscounted /\ WellOrdered =>
      LET h == Commands[cmd].handles
      IN /\ WellFormed(packet)
         /\ IF packet[1].tag = "none" THEN authCnt = 0
            ELSE NumberAt(packet, h + 2) = authCnt
         /\ \A k \in 0..authCnt - 1 :
              LET auth == packet[h + 3 + k]
              IN /\ auth.slot = k /\ auth.nonce = "fresh"
                 /\ slots[k].handle = "hmac" =>
                      auth.attrs = Masked(slots[k].attrs, Commands[cmd].flags)

\* What the library would encrypt on the way out, or decrypt on the way in, is a buffer
\* behind its size: it looks for it behind the sessions of the command and behind the
\* handles of the answer, in any command with CMD_FLAG_ENC2 or CMD_FLAG_DEC2.
FirstParameterIsSized ==
    /\ pc = "process" /\ i = 0 /\ "enc" \in Commands[cmd].flags /\ cmd \notin Miscounted =>
         packet[pos + NumberAt(packet, pos - 1)] = Field("size")
    /\ pc = "respond" /\ i = 0 /\ "dec" \in Commands[cmd].flags /\ cmd \notin Miscounted =>
         packet[1 + Commands[cmd].outHandleCnt + 2] = Field("size")

\* A function reads from an answer the fields that the TPM has put there, from the first
\* on, and the size of the parameters if and only if the answer has one.
AnswersReadInPlace ==
    pc = "read" =>
      LET names == Read(Reads, shape)
      IN /\ Len(names) < Len(packet)
         /\ \A k \in DOMAIN names :
              packet[k + 1] = IF names[k] = "paramSz"
                              THEN Size(Len(Written(Results(Commands[cmd]), shape)))
                              ELSE Field(names[k])

\* A call that succeeds leaves the library with the TPM's last nonce of every session it
\* was authorised with: the next command of the session can be answered for.
SessionsInStep ==
    pc = "returned" /\ rc = "success" /\ cmd \notin Miscounted =>
      \A k \in 0..authCnt - 1 : slots[k].handle # "password" => inStep[k]

=============================================================================
