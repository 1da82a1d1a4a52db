------------------------------ MODULE WolfTPM ------------------------------
(***************************************************************************)
(* The component WolfTPM, components/WolfTPM/trentos.c: the boot in        *)
(* pre_init(), the first set-up that generates the cEK and writes it into  *)
(* two NV indices of the TPM, and the key store in the second of them.     *)
(*                                                                         *)
(* The TPM keeps its NV memory when the power goes; the component's        *)
(* globals do not.  The power may go at any step, and every TPM command    *)
(* may fail, executed or not: wolfTPM reports both in the same way.        *)
(*                                                                         *)
(* Data: a cEK is a number, its Parts chunks in index 1 (one TPM command   *)
(* each) and its tail in index 2 are the number again.  Index 2 is an      *)
(* array of cells from 0: the CekTail cells of the cEK's tail, then what   *)
(* storeKey appends, one cell for a length and as many as it says for the  *)
(* key.  A key to store is its number.                                     *)
(*                                                                         *)
(* Bounds: MaxSetups cEKs are generated, MaxStores keys stored, the        *)
(* component boots MaxBoots times, and at most MaxFaults power cuts and    *)
(* failing commands happen.                                                *)
(***************************************************************************)
EXTENDS Integers, Sequences

CONSTANTS Parts,     \* NV_MAX_SIZE in chunks of MAX_NV_BUFFER_SIZE bytes
          NvSize,    \* NV_MAX_SIZE in cells
          CekTail,   \* sizeof(cek) - NV_MAX_SIZE in cells
          KeyLens,   \* lengths of the keys that are stored
          MaxSetups, MaxStores, MaxBoots, MaxFaults

ASSUME TpmAssumption ==
    /\ Parts \in Nat \ {0}
    /\ NvSize \in Nat /\ CekTail \in Nat \ {0} /\ CekTail <= NvSize
    /\ KeyLens \subseteq Nat
    /\ MaxSetups \in Nat /\ MaxStores \in Nat
    /\ MaxBoots \in Nat /\ MaxFaults \in Nat

VARIABLES nv1, nv2,   \* the TPM: its two NV indices
          orderly,    \* the TPM: shut down since its last start
          image,      \* "clear": the program is built with CLEAR_TPM
          pc,
          part,       \* chunks of the cEK written to index 1
          cek,        \* the global cek: its chunks, and its tail
          nv_off,
          storing,    \* the arguments and locals of storeKey
          generated, stored, boot, faults,  \* counters of what has happened
          printed,    \* history: the cEK printed since the last clear, or 0
          handles     \* history: what storeKey has returned

tpm     == << nv1, nv2, orderly >>
ram     == << part, cek, nv_off, storing >>
history == << generated, stored, boot, printed, handles >>
vars    == << tpm, image, pc, ram, faults, history >>

Undefined  == << >>
Erased     == << "erased", 0, 0 >>
CekCell(k) == << "cek", k, 0 >>
LenCell(n) == << "len", n, 0 >>
KeyCell(k, i) == << "key", k, i >>

Whole(k) == [p \in 1 .. Parts + 1 |-> k]

\* The initial value of nv_off: behind the tail of the cEK.
KeyStoreStart == CekTail

Init ==
    /\ nv1 = Undefined /\ nv2 = Undefined /\ orderly = TRUE
    /\ image = "plain" /\ pc = "off"
    /\ part = 0 /\ cek = Whole(0) /\ nv_off = KeyStoreStart
    /\ storing = [len |-> 0, start |-> 0]
    /\ generated = 0 /\ stored = 0 /\ boot = 0 /\ faults = 0
    /\ printed = 0 /\ handles = {}

-----------------------------------------------------------------------------
(* Power, faults, and the way to the next step.                            *)

\* The power is switched on, with an image of the operator's choice.  All globals
\* are as the C program initialises them, nv_off too.
PowerOn ==
    /\ pc = "off" /\ boot < MaxBoots
    /\ image' \in {"clear", "plain"}
    /\ pc' = "init" /\ orderly' = FALSE
    /\ part' = 0 /\ cek' = Whole(0) /\ nv_off' = KeyStoreStart
    /\ storing' = [len |-> 0, start |-> 0]
    /\ boot' = boot + 1
    /\ UNCHANGED << nv1, nv2, faults, generated, stored, printed, handles >>

PowerOff ==
    /\ pc \in {"halt", "down"} /\ pc' = "off"
    /\ UNCHANGED << tpm, image, ram, faults, history >>

PowerCut ==
    /\ pc # "off" /\ faults < MaxFaults
    /\ pc' = "off" /\ faults' = faults + 1
    /\ UNCHANGED << tpm, image, ram, history >>

\* The steps of pre_init and first_setup that send commands to the TPM.
Commands == {"init", "clear", "srk", "open1", "createKey", "define1", "define2",
             "write1", "write2", "open2", "read1", "read2", "load", "csrk"}

\* CHKRCV: the command failed, and nothing was executed.  Only the failure to open
\* index 1 does not end the program.
Fault ==
    /\ pc \in Commands \ {"open1"} /\ faults < MaxFaults
    /\ pc' = "halt" /\ faults' = faults + 1
    /\ UNCHANGED << tpm, image, ram, history >>

\* The command was executed.  Its success is reported, or its answer is lost.
Proceed(next) ==
    \/ pc' = next /\ UNCHANGED faults
    \/ faults < MaxFaults /\ pc' = "halt" /\ faults' = faults + 1

-----------------------------------------------------------------------------
(* pre_init().                                                             *)

InitTpm ==
    /\ pc = "init"
    /\ pc' = IF image = "clear" THEN "clear" ELSE "srk"
    /\ UNCHANGED << tpm, image, ram, faults, history >>

\* wolfTPM2_Clear: the TPM forgets the indices, and with them the cEK.
ClearTpm ==
    /\ pc = "clear"
    /\ nv1' = Undefined /\ nv2' = Undefined
    /\ printed' = 0 /\ handles' = {}
    /\ Proceed("srk")
    /\ UNCHANGED << orderly, image, ram, generated, stored, boot >>

CreateSRK ==
    /\ pc = "srk" /\ pc' = "open1"
    /\ UNCHANGED << tpm, image, ram, faults, history >>

\* Index 1 opens, or it does not: it does not exist, or the command failed.
OpenNv1 ==
    /\ pc = "open1"
    /\ \/ nv1 # Undefined /\ pc' = "open2" /\ UNCHANGED faults
       \/ nv1 = Undefined /\ pc' = "createKey" /\ UNCHANGED faults
       \/ faults < MaxFaults /\ pc' = "createKey" /\ faults' = faults + 1
    /\ UNCHANGED << tpm, image, ram, history >>

OpenNv2 ==
    /\ pc = "open2"
    /\ pc' = IF nv2 # Undefined THEN "read1" ELSE "halt"
    /\ UNCHANGED << tpm, image, ram, faults, history >>

\* TPM2_NV_Read refuses an index that was never written; the bytes of a written
\* one that no write has reached are all ones.
ReadNv1 ==
    /\ pc = "read1"
    /\ IF nv1[1] = 0 THEN pc' = "halt" /\ UNCHANGED cek
       ELSE /\ pc' = "read2"
            /\ cek' = [p \in 1 .. Parts + 1 |-> IF p <= Parts THEN nv1[p] ELSE cek[p]]
    /\ UNCHANGED << tpm, image, part, nv_off, storing, faults, history >>

ReadNv2 ==
    /\ pc = "read2"
    /\ IF \A i \in DOMAIN nv2 : nv2[i] = Erased THEN pc' = "halt" /\ UNCHANGED cek
       ELSE pc' = "load" /\ cek' = [cek EXCEPT ![Parts + 1] = nv2[0][2]]
    /\ UNCHANGED << tpm, image, part, nv_off, storing, faults, history >>

\* wolfTPM2_LoadKey.  A damaged blob the TPM may refuse.
LoadKey ==
    /\ pc = "load"
    /\ \/ pc' = "csrk"
       \/ (\A k \in 1 .. generated : cek # Whole(k)) /\ pc' = "halt"
    /\ UNCHANGED << tpm, image, ram, faults, history >>

CreateCSRK ==
    /\ pc = "csrk" /\ pc' = "serve"
    /\ UNCHANGED << tpm, image, ram, faults, history >>

-----------------------------------------------------------------------------
(* first_setup().                                                          *)

CreateKey ==
    /\ pc = "createKey" /\ generated < MaxSetups
    /\ generated' = generated + 1 /\ cek' = Whole(generated + 1)
    /\ pc' = "define1"
    /\ UNCHANGED << tpm, image, part, nv_off, storing, faults,
                    stored, boot, printed, handles >>

\* Slip: an index that exists already is defined afresh.
DefineNv1Afresh ==
    /\ pc = "define1"
    /\ nv1' = [p \in 1 .. Parts |-> 0]
    /\ Proceed("define2")
    /\ UNCHANGED << nv2, orderly, image, ram, history >>

\* wolfTPM2_NVCreateAuth: TPM_RC_NV_DEFINED is returned as an error, and ends the
\* program.
DefineNv1 ==
    /\ pc = "define1"
    /\ IF nv1 = Undefined
       THEN nv1' = [p \in 1 .. Parts |-> 0] /\ Proceed("define2")
       ELSE UNCHANGED << nv1, faults >> /\ pc' = "halt"
    /\ UNCHANGED << nv2, orderly, image, ram, history >>

\* Slip: the tail is written before the chunks of index 1.
DefineNv2AndWriteTail ==
    /\ pc = "define2"
    /\ nv2 = Undefined
    /\ nv2' = [i \in 0 .. NvSize - 1 |->
                  IF i < CekTail THEN CekCell(cek[1]) ELSE Erased]
    /\ Proceed("write1")
    /\ UNCHANGED << nv1, orderly, image, ram, history >>

DefineNv2 ==
    /\ pc = "define2"
    /\ IF nv2 = Undefined
       THEN nv2' = [i \in 0 .. NvSize - 1 |-> Erased] /\ Proceed("write1")
       ELSE UNCHANGED << nv2, faults >> /\ pc' = "halt"
    /\ UNCHANGED << nv1, orderly, image, ram, history >>

\* Slip: the position is not advanced.
WriteNv1Again ==
    /\ pc = "write1"
    /\ nv1' = [nv1 EXCEPT ![part + 1] = cek[part + 1]]
    /\ Proceed(IF part + 1 = Parts THEN "write2" ELSE "write1")
    /\ UNCHANGED << nv2, orderly, image, ram, history >>

\* One turn of the loop of wolfTPM2_NVWriteAuth.
WriteNv1 ==
    /\ pc = "write1"
    /\ nv1' = [nv1 EXCEPT ![part + 1] = cek[part + 1]]
    /\ part' = part + 1
    /\ Proceed(IF part + 1 = Parts THEN "write2" ELSE "write1")
    /\ UNCHANGED << nv2, orderly, image, cek, nv_off, storing, history >>

\* TPM2_NV_Write of cells, from offset on.
Written(nv, offset, cells) ==
    [i \in DOMAIN nv |-> IF i \in offset .. offset + Len(cells) - 1
                         THEN cells[i - offset + 1] ELSE nv[i]]

\* Slip: the program goes on with the new cEK instead of printing it.
WriteNv2AndGoOn ==
    /\ pc = "write2"
    /\ nv2' = Written(nv2, 0, [i \in 1 .. CekTail |-> CekCell(cek[Parts + 1])])
    /\ Proceed("csrk")
    /\ UNCHANGED << nv1, orderly, image, ram, history >>

WriteNv2 ==
    /\ pc = "write2"
    /\ nv2' = Written(nv2, 0, [i \in 1 .. CekTail |-> CekCell(cek[Parts + 1])])
    /\ Proceed("print")
    /\ UNCHANGED << nv1, orderly, image, ram, history >>

\* The public key is printed for the operator to import, and the program ends.
PrintKey ==
    /\ pc = "print"
    /\ printed' = cek[1] /\ pc' = "halt"
    /\ UNCHANGED << tpm, image, ram, faults, generated, stored, boot, handles >>

-----------------------------------------------------------------------------
(* The key store, and the shutdown.                                        *)

Fits(offset, n) == offset + n <= NvSize

\* Slip: the place of the length is not left out.
StoreLengthInPlace ==
    /\ pc = "serve" /\ stored < MaxStores
    /\ \E len \in KeyLens :
          /\ Fits(nv_off, 1)
          /\ nv2' = Written(nv2, nv_off, << LenCell(len) >>)
          /\ storing' = [len |-> len, start |-> nv_off]
          /\ nv_off' = nv_off /\ pc' = "storeData"
    /\ UNCHANGED << nv1, orderly, image, part, cek, faults, history >>

\* keystore_rpc_storeKey, up to its first write.  A write that fails, or that does
\* not fit (TPM_RC_NV_RANGE), returns -1 and changes nothing here; one whose answer
\* is lost returns -1 although the length is written.
StoreLength ==
    /\ pc = "serve" /\ stored < MaxStores
    /\ \E len \in KeyLens :
          /\ Fits(nv_off, 1)
          /\ nv2' = Written(nv2, nv_off, << LenCell(len) >>)
          /\ \/ /\ storing' = [len |-> len, start |-> nv_off]
                /\ nv_off' = nv_off + 1
                /\ pc' = "storeData" /\ UNCHANGED faults
             \/ /\ faults < MaxFaults /\ faults' = faults + 1
                /\ UNCHANGED << storing, nv_off, pc >>
    /\ UNCHANGED << nv1, orderly, image, part, cek, history >>

\* The second write.  When it fails, nv_off stays behind the length.
StoreKeyData ==
    /\ pc = "storeData" /\ pc' = "serve"
    /\ stored' = stored + 1
    /\ LET len == storing.len
           key == [i \in 1 .. len |-> KeyCell(stored + 1, i)]
           entry == [hdl |-> storing.start, key |-> stored + 1,
                     len |-> len, boot |-> boot]
       IN  \/ /\ Fits(nv_off, len)
              /\ nv2' = Written(nv2, nv_off, key)
              /\ \/ /\ nv_off' = nv_off + len /\ handles' = handles \union {entry}
                    /\ UNCHANGED faults
                 \/ /\ faults < MaxFaults /\ faults' = faults + 1
                    /\ UNCHANGED << nv_off, handles >>
           \/ /\ \/ ~ Fits(nv_off, len) /\ UNCHANGED faults
                 \/ faults < MaxFaults /\ faults' = faults + 1
              /\ UNCHANGED << nv2, nv_off, handles >>
    /\ UNCHANGED << nv1, orderly, image, part, cek, storing, generated, boot, printed >>

\* keystore_rpc_loadKey: the cells it reads for a handle.
keystore_rpc_loadKey(hdl) == [i \in 1 .. nv2[hdl][2] |-> nv2[hdl + i]]

\* tpm_ctrl_rpc_shutdown.
Shutdown ==
    /\ pc = "serve" /\ pc' = "down" /\ orderly' = TRUE
    /\ UNCHANGED << nv1, nv2, image, ram, faults, history >>

Boot ==
    \/ InitTpm \/ ClearTpm \/ CreateSRK \/ OpenNv1 \/ OpenNv2
    \/ ReadNv1 \/ ReadNv2 \/ LoadKey \/ CreateCSRK
    \/ CreateKey \/ DefineNv1 \/ DefineNv2 \/ WriteNv1 \/ WriteNv2 \/ PrintKey

Serve == StoreLength \/ StoreKeyData \/ Shutdown

Next == PowerOn \/ PowerOff \/ PowerCut \/ Fault \/ Boot \/ Serve

\* The component's thread runs on, and the operator starts the program again when
\* it has stopped.
Spec == Init /\ [][Next]_vars /\ WF_vars(Boot) /\ WF_vars(PowerOn) /\ WF_vars(PowerOff)

-----------------------------------------------------------------------------
(* What must hold.                                                         *)

Serving == {"csrk", "serve", "storeData", "down"}

\* The cEK k is in NV memory, all of it.
Stored(k) ==
    /\ nv1 = [p \in 1 .. Parts |-> k]
    /\ nv2 # Undefined /\ \A i \in 0 .. CekTail - 1 : nv2[i] = CekCell(k)

TypeOK ==
    /\ nv1 = Undefined \/ nv1 \in [1 .. Parts -> 0 .. generated]
    /\ nv2 = Undefined \/ DOMAIN nv2 = 0 .. NvSize - 1
    /\ cek \in [1 .. Parts + 1 -> 0 .. generated]
    /\ part \in 0 .. Parts
    /\ nv_off \in CekTail .. NvSize
    /\ printed \in 0 .. generated

\* Whatever is interrupted, the component never serves a cEK that is only partly
\* written or put together from two: what it serves is one generated key, and that
\* key is in NV memory for the next boot.
ServedKeyWhole ==
    pc \in Serving => \E k \in 1 .. generated : cek = Whole(k) /\ Stored(k)

\* A cEK that was printed stays in NV memory until the TPM is cleared: no set-up
\* that a failing command starts by mistake, and no stored key, damages the key
\* that the client has imported.
PrintedKeySurvives == printed # 0 => Stored(printed)

\* When the README's procedure is followed, interrupted or not, the cEK served is
\* the one that was printed and imported.
ServedKeyWasPrinted == pc \in Serving => cek = Whole(printed)

\* Until the next boot, a handle that storeKey has returned leads loadKey to the
\* key that was stored under it, whatever was stored, refused or half stored later.
Reads(h) ==
    keystore_rpc_loadKey(h.hdl) = [i \in 1 .. h.len |-> KeyCell(h.key, i)]
HandlesReadBack ==
    pc \in {"serve", "storeData"} => \A h \in handles : h.boot = boot => Reads(h)

\* components/WolfTPM/README.md: non-volatile storage of keys, which loadKey finds
\* by the handle that storeKey has created.
StoredKeysAreNonVolatile ==
    pc = "serve" => \A h \in handles : Reads(h)

\* The procedure of the README leads to a component that serves, although the
\* set-up may be interrupted at every step a number of times.
ProcedureServes == <>(pc = "serve")
=============================================================================
