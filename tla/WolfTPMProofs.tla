---------------------------- MODULE WolfTPMProofs ----------------------------
(***************************************************************************)
(* Proofs about WolfTPM, for every size of the indices, every length of    *)
(* the stored keys and every number of boots and faults.  The argument:    *)
(* the tail of the cEK is the last thing a set-up writes and the first     *)
(* thing that makes index 2 readable, so a boot that can read index 2      *)
(* finds the whole of one cEK; and an index that exists is never defined   *)
(* again, so nothing but the clear removes it.  When the program is built  *)
(* as the README says, it serves only in a boot that began with a printed  *)
(* cEK: that is the one it finds.                                          *)
(***************************************************************************)
EXTENDS TpmOperator, TLAPS

-----------------------------------------------------------------------------
(* The strengthened invariant.                                             *)

Types ==
    /\ generated \in Nat /\ printed \in Nat /\ boot \in Nat
    /\ part \in 0 .. Parts
    /\ cek \in [1 .. Parts + 1 -> 0 .. generated]
    /\ nv1 = Undefined \/ nv1 \in [1 .. Parts -> 0 .. generated]
    /\ nv2 = Undefined \/ DOMAIN nv2 = 0 .. NvSize - 1
    /\ printed <= generated
    /\ nv_off \in CekTail .. NvSize

\* Index 2 was written: then all of a cEK is there, in both indices.
Nv2Written == nv2 # Undefined /\ \E i \in 0 .. NvSize - 1 : nv2[i] # Erased

NvMemory ==
    /\ nv1 = Undefined => nv2 = Undefined
    /\ Nv2Written => \E k \in 1 .. generated : Stored(k)
    /\ printed # 0 => Stored(printed)

\* What the steps of first_setup have reached.
Setup ==
    /\ pc \in {"init", "clear", "srk", "open1", "createKey", "define1", "define2"}
       => part = 0
    /\ pc \in {"define1", "define2", "write1", "write2", "print"}
       => generated # 0 /\ cek = Whole(generated)
    /\ pc \in {"define2", "write1", "write2"} => nv1 # Undefined /\ ~ Nv2Written
    /\ pc \in {"write1", "write2"} => nv2 # Undefined
    /\ pc = "write1" => part < Parts
    /\ pc \in {"write1", "write2"} => \A p \in 1 .. part : nv1[p] = generated
    /\ pc = "write2" => part = Parts
    /\ pc = "print" => Stored(generated)

\* What the steps of pre_init have read.
Reading ==
    /\ pc \in {"open2", "read1", "read2"} => nv1 # Undefined
    /\ pc \in {"read1", "read2"} => nv2 # Undefined
    /\ pc = "read2" => \A p \in 1 .. Parts : cek[p] = nv1[p]
    /\ pc = "load" \/ pc \in Serving
       => \E k \in 1 .. generated : cek = Whole(k) /\ Stored(k)

\* A stored key lies between the cEK and the place of the next one.
Kept(h, end) ==
    /\ h.hdl \in Nat /\ h.len \in Nat
    /\ CekTail <= h.hdl /\ h.hdl + h.len + 1 <= end
    /\ nv2[h.hdl] = LenCell(h.len)
    /\ \A i \in 1 .. h.len : nv2[h.hdl + i] = KeyCell(h.key, i)

KeyStore ==
    /\ \A h \in handles : h.boot \in Nat /\ h.boot <= boot
    /\ pc \notin {"serve", "storeData", "down", "halt", "off"}
       => \A h \in handles : h.boot # boot
    /\ pc = "serve" => \A h \in handles : h.boot = boot => Kept(h, nv_off)
    /\ pc = "storeData" =>
          /\ storing.len \in Nat /\ storing.start \in CekTail .. NvSize
          /\ nv_off = storing.start + 1
          /\ nv2[storing.start] = LenCell(storing.len)
          /\ \A h \in handles : h.boot = boot => Kept(h, storing.start)

IInv == Types /\ NvMemory /\ Setup /\ Reading /\ KeyStore

-----------------------------------------------------------------------------
(* Small facts.                                                            *)

LEMMA ConstantFacts ==
    /\ Parts \in Nat \ {0} /\ NvSize \in Nat \ {0}
    /\ CekTail \in Nat \ {0} /\ CekTail <= NvSize
    /\ KeyLens \subseteq Nat
  BY TpmAssumption

\* An index that was defined is not the undefined one.
LEMMA DefinedIndex ==
    ASSUME NEW f, NEW a \in Int, NEW b \in Int, a <= b, DOMAIN f = a .. b
    PROVE  f # Undefined
<1>1. a \in DOMAIN f
  OBVIOUS
<1>2. DOMAIN << >> = {}
  OBVIOUS
<1> QED
  BY <1>1, <1>2 DEF Undefined

\* The cells differ in their kind.
LEMMA CellKinds ==
    /\ \A k : CekCell(k) # Erased
    /\ \A n, m : LenCell(n) = LenCell(m) => n = m
    /\ \A n : LenCell(n)[2] = n /\ CekCell(n)[2] = n
  BY DEF CekCell, Erased, LenCell

\* Stored(k) puts k into the second index.
LEMMA StoredIsWritten ==
    ASSUME NEW k, Stored(k)
    PROVE  nv2 # Undefined /\ 0 \in 0 .. CekTail - 1 /\ nv2[0] = CekCell(k)
  BY ConstantFacts DEF Stored

-----------------------------------------------------------------------------
(* Steps that change neither the NV memory nor the globals.                *)

LEMMA InitEstablishes == Init => IInv
<1> SUFFICES ASSUME Init PROVE IInv
  OBVIOUS
<1> USE ConstantFacts DEF Init
<1>1. Types
  BY DEF Types, Whole, KeyStoreStart
<1>2. NvMemory /\ Setup /\ Reading /\ KeyStore
  BY DEF NvMemory, Nv2Written, Setup, Reading, Serving, KeyStore
<1> QED
  BY <1>1, <1>2 DEF IInv

\* The parts of the invariant that do not mention pc.
LEMMA QuietSteps ==
    ASSUME IInv, UNCHANGED << nv1, nv2, ram, history >>
    PROVE  Types' /\ NvMemory'
<1> USE DEF ram, history
<1>1. Types'
  BY DEF IInv, Types
<1>2. NvMemory'
  BY DEF IInv, NvMemory, Nv2Written, Stored
<1> QED
  BY <1>1, <1>2

\* The power goes, or the program ends.
LEMMA StopPreserves ==
    ASSUME IInv, UNCHANGED << nv1, nv2, ram, history >>, pc' \in {"off", "halt"}
    PROVE  IInv'
<1>1. Types' /\ NvMemory'
  BY QuietSteps
<1>2. Setup' /\ Reading'
  BY DEF Setup, Reading, Serving
<1>3. KeyStore'
  BY DEF IInv, KeyStore, history
<1> QED
  BY <1>1, <1>2, <1>3 DEF IInv

\* The steps of pre_init that only send a command.
LEMMA QuietBootPreserves ==
    ASSUME IInv, InitTpm \/ CreateSRK \/ OpenNv1 \/ OpenNv2 \/ LoadKey \/ CreateCSRK
    PROVE  IInv'
<1>1. UNCHANGED << nv1, nv2, ram, history >>
  BY DEF InitTpm, CreateSRK, OpenNv1, OpenNv2, LoadKey, CreateCSRK, tpm
<1>2. Types' /\ NvMemory'
  BY <1>1, QuietSteps
<1>3. Setup'
  <2> USE <1>1 DEF IInv, Setup, ram, history
  <2>1. CASE InitTpm
    BY <2>1 DEF InitTpm
  <2>2. CASE CreateSRK
    BY <2>2 DEF CreateSRK
  <2>3. CASE OpenNv1
    BY <2>3 DEF OpenNv1
  <2>4. CASE OpenNv2
    BY <2>4 DEF OpenNv2
  <2>5. CASE LoadKey
    BY <2>5 DEF LoadKey
  <2>6. CASE CreateCSRK
    BY <2>6 DEF CreateCSRK
  <2> QED
    BY <2>1, <2>2, <2>3, <2>4, <2>5, <2>6
<1>4. Reading'
  <2> USE <1>1 DEF IInv, Reading, Serving, ram, history
  <2>1. CASE InitTpm
    BY <2>1 DEF InitTpm
  <2>2. CASE CreateSRK
    BY <2>2 DEF CreateSRK
  <2>3. CASE OpenNv1
    BY <2>3 DEF OpenNv1
  <2>4. CASE OpenNv2
    BY <2>4 DEF OpenNv2
  <2>5. CASE LoadKey
    BY <2>5 DEF LoadKey, Stored
  <2>6. CASE CreateCSRK
    BY <2>6 DEF CreateCSRK, Stored
  <2> QED
    BY <2>1, <2>2, <2>3, <2>4, <2>5, <2>6
<1>5. KeyStore'
  <2>1. pc \notin {"serve", "storeData", "down", "halt", "off"} /\ pc' # "storeData"
    BY DEF InitTpm, CreateSRK, OpenNv1, OpenNv2, LoadKey, CreateCSRK
  <2> QED
    BY <1>1, <2>1 DEF IInv, KeyStore, history
<1> QED
  BY <1>2, <1>3, <1>4, <1>5 DEF IInv

LEMMA StopActions ==
    ASSUME IInv, PowerOff \/ PowerCut \/ Fault
    PROVE  IInv'
  BY StopPreserves DEF PowerOff, PowerCut, Fault, tpm

LEMMA ShutdownPreserves ==
    ASSUME IInv, Shutdown
    PROVE  IInv'
<1>1. /\ UNCHANGED << nv1, nv2, ram, history >>
      /\ pc = "serve" /\ pc' = "down"
  BY DEF Shutdown
<1>2. Types' /\ NvMemory'
  BY <1>1, QuietSteps
<1>3. Setup' /\ KeyStore'
  BY <1>1 DEF IInv, Setup, KeyStore, history
<1>4. Reading'
  BY <1>1 DEF IInv, Reading, Serving, Stored, ram, history
<1> QED
  BY <1>2, <1>3, <1>4 DEF IInv

LEMMA PowerOnPreserves ==
    ASSUME IInv, PowerOn
    PROVE  IInv'
<1>1. /\ pc = "off" /\ pc' = "init" /\ part' = 0 /\ cek' = Whole(0)
      /\ nv_off' = CekTail /\ boot' = boot + 1
      /\ UNCHANGED << nv1, nv2, generated, stored, printed, handles >>
  BY DEF PowerOn, KeyStoreStart
<1>2. Types'
  BY <1>1, ConstantFacts DEF IInv, Types, Whole
<1>3. NvMemory'
  BY <1>1 DEF IInv, NvMemory, Nv2Written, Stored
<1>4. Setup' /\ Reading'
  BY <1>1 DEF Setup, Reading, Serving
<1>5. KeyStore'
  <2>1. boot \in Nat
    BY DEF IInv, Types
  <2>2. \A h \in handles : h.boot \in Nat /\ h.boot <= boot
    BY DEF IInv, KeyStore
  <2> QED
    BY <1>1, <2>1, <2>2 DEF KeyStore
<1> QED
  BY <1>2, <1>3, <1>4, <1>5 DEF IInv

-----------------------------------------------------------------------------
(* The steps of pre_init that read or clear the NV memory.                 *)

LEMMA ClearPreserves ==
    ASSUME IInv, ClearTpm
    PROVE  IInv'
<1>1. /\ pc = "clear" /\ pc' \in {"srk", "halt"}
      /\ nv1' = Undefined /\ nv2' = Undefined /\ printed' = 0 /\ handles' = {}
      /\ UNCHANGED << part, cek, nv_off, storing, generated, stored, boot >>
  BY DEF ClearTpm, Proceed, ram
<1>2. Types'
  BY <1>1 DEF IInv, Types
<1>3. NvMemory'
  BY <1>1 DEF NvMemory, Nv2Written
<1>4. Setup'
  BY <1>1 DEF IInv, Setup
<1>5. Reading' /\ KeyStore'
  BY <1>1 DEF Reading, Serving, KeyStore
<1> QED
  BY <1>2, <1>3, <1>4, <1>5 DEF IInv

LEMMA ReadNv1Preserves ==
    ASSUME IInv, ReadNv1
    PROVE  IInv'
<1>1. /\ pc = "read1" /\ UNCHANGED << nv1, nv2, part, nv_off, storing, history >>
      /\ pc' \in {"read2", "halt"}
      /\ \/ pc' = "halt" /\ cek' = cek
         \/ /\ pc' = "read2"
            /\ cek' = [p \in 1 .. Parts + 1 |-> IF p <= Parts THEN nv1[p] ELSE cek[p]]
  BY DEF ReadNv1, tpm
<1>2. nv1 \in [1 .. Parts -> 0 .. generated] /\ nv2 # Undefined
  BY <1>1 DEF IInv, Types, Reading
<1>3. cek' \in [1 .. Parts + 1 -> 0 .. generated]
  <2>1. CASE cek' = cek
    BY <2>1 DEF IInv, Types
  <2>2. CASE cek' = [p \in 1 .. Parts + 1 |-> IF p <= Parts THEN nv1[p] ELSE cek[p]]
    <3>1. cek \in [1 .. Parts + 1 -> 0 .. generated]
      BY DEF IInv, Types
    <3>2. \A p \in 1 .. Parts + 1 : p <= Parts => p \in 1 .. Parts
      BY ConstantFacts
    <3> QED
      BY <1>2, <2>2, <3>1, <3>2
  <2> QED
    BY <1>1, <2>1, <2>2
<1>4. Types'
  BY <1>1, <1>3 DEF IInv, Types, history
<1>5. NvMemory'
  BY <1>1 DEF IInv, NvMemory, Nv2Written, Stored, history
<1>6. Setup'
  BY <1>1 DEF Setup
<1>7. Reading'
  <2>1. pc' = "read2" => \A p \in 1 .. Parts : cek'[p] = nv1[p]
    BY <1>1, ConstantFacts
  <2> QED
    BY <1>1, <1>2, <2>1 DEF IInv, Reading, Serving
<1>8. KeyStore'
  BY <1>1 DEF IInv, KeyStore, history
<1> QED
  BY <1>4, <1>5, <1>6, <1>7, <1>8 DEF IInv

\* A boot that can read index 2 finds the whole of one cEK.
LEMMA ReadNv2Preserves ==
    ASSUME IInv, ReadNv2
    PROVE  IInv'
<1>1. /\ pc = "read2" /\ UNCHANGED << nv1, nv2, part, nv_off, storing, history >>
      /\ nv2 # Undefined /\ DOMAIN nv2 = 0 .. NvSize - 1
      /\ cek \in [1 .. Parts + 1 -> 0 .. generated]
      /\ \A p \in 1 .. Parts : cek[p] = nv1[p]
  BY DEF ReadNv2, tpm, IInv, Types, Reading
<1>2. CASE \A i \in DOMAIN nv2 : nv2[i] = Erased
  <2>1. pc' = "halt" /\ cek' = cek
    BY <1>2 DEF ReadNv2
  <2> QED
    BY <1>1, <2>1, StopPreserves DEF ram
<1>3. CASE ~ \A i \in DOMAIN nv2 : nv2[i] = Erased
  <2>1. pc' = "load" /\ cek' = [cek EXCEPT ![Parts + 1] = nv2[0][2]]
    BY <1>3 DEF ReadNv2
  <2>2. PICK k \in 1 .. generated : Stored(k)
    BY <1>1, <1>3 DEF Nv2Written, IInv, NvMemory
  <2>3. nv2[0][2] = k /\ \A p \in 1 .. Parts : nv1[p] = k
    BY <2>2, StoredIsWritten, CellKinds DEF Stored
  <2>4. cek' = Whole(k)
    <3>1. \A p \in 1 .. Parts + 1 : p \in 1 .. Parts \/ p = Parts + 1
      BY ConstantFacts
    <3>2. Parts + 1 \in 1 .. Parts + 1
      BY ConstantFacts
    <3> QED
      BY <1>1, <2>1, <2>3, <3>1, <3>2, ConstantFacts DEF Whole
  <2>5. Types'
    <3>1. Whole(k) \in [1 .. Parts + 1 -> 0 .. generated]
      BY <2>2 DEF Whole, IInv, Types
    <3> QED
      BY <1>1, <2>4, <3>1 DEF IInv, Types, history
  <2>6. NvMemory'
    BY <1>1 DEF IInv, NvMemory, Nv2Written, Stored, history
  <2>7. Setup'
    BY <2>1 DEF Setup
  <2>8. Reading'
    BY <1>1, <2>1, <2>2, <2>4 DEF Reading, Serving, Stored, history
  <2>9. KeyStore'
    BY <1>1, <2>1 DEF IInv, KeyStore, history
  <2> QED
    BY <2>5, <2>6, <2>7, <2>8, <2>9 DEF IInv
<1> QED
  BY <1>2, <1>3

-----------------------------------------------------------------------------
(* The steps of first_setup.                                               *)

LEMMA CreateKeyPreserves ==
    ASSUME IInv, CreateKey
    PROVE  IInv'
<1>1. /\ pc = "createKey" /\ pc' = "define1"
      /\ generated' = generated + 1 /\ cek' = Whole(generated + 1)
      /\ UNCHANGED << nv1, nv2, part, nv_off, storing, stored, boot, printed, handles >>
  BY DEF CreateKey, tpm
<1>2. generated \in Nat /\ 0 .. generated \subseteq 0 .. generated + 1
      /\ 1 .. generated \subseteq 1 .. generated + 1
  BY DEF IInv, Types
<1>3. Types'
  <2>1. Whole(generated + 1) \in [1 .. Parts + 1 -> 0 .. generated + 1]
    BY <1>2 DEF Whole
  <2>2. nv1 = Undefined \/ nv1 \in [1 .. Parts -> 0 .. generated + 1]
    BY <1>2 DEF IInv, Types
  <2> QED
    BY <1>1, <1>2, <2>1, <2>2 DEF IInv, Types
<1>4. NvMemory'
  BY <1>1, <1>2 DEF IInv, NvMemory, Nv2Written, Stored
<1>5. Setup'
  BY <1>1, <1>2 DEF IInv, Setup
<1>6. Reading'
  BY <1>1 DEF Reading, Serving
<1>7. KeyStore'
  BY <1>1 DEF IInv, KeyStore
<1> QED
  BY <1>3, <1>4, <1>5, <1>6, <1>7 DEF IInv

\* An index that exists is left as it is.
LEMMA DefineNv1Preserves ==
    ASSUME IInv, DefineNv1
    PROVE  IInv'
<1>1. /\ pc = "define1"
      /\ UNCHANGED << nv2, ram, history >>
  BY DEF DefineNv1
<1>2. CASE nv1 # Undefined
  <2>1. pc' = "halt" /\ nv1' = nv1
    BY <1>2 DEF DefineNv1
  <2> QED
    BY <1>1, <2>1, StopPreserves
<1>3. CASE nv1 = Undefined
  <2>1. pc' \in {"define2", "halt"} /\ nv1' = [p \in 1 .. Parts |-> 0]
    BY <1>3 DEF DefineNv1, Proceed
  <2>2. nv1' # Undefined
    BY <2>1, ConstantFacts, DefinedIndex
  <2>3. nv2 = Undefined /\ printed = 0
    BY <1>3, StoredIsWritten DEF IInv, NvMemory
  <2>4. Types'
    BY <1>1, <2>1 DEF IInv, Types, ram, history
  <2>5. NvMemory'
    BY <1>1, <2>2, <2>3 DEF NvMemory, Nv2Written, history
  <2>6. Setup'
    BY <1>1, <2>1, <2>2, <2>3 DEF IInv, Setup, Nv2Written, ram, history
  <2>7. Reading'
    BY <2>1 DEF Reading, Serving
  <2>8. KeyStore'
    BY <1>1, <2>1 DEF IInv, KeyStore, history
  <2> QED
    BY <2>4, <2>5, <2>6, <2>7, <2>8 DEF IInv
<1> QED
  BY <1>2, <1>3

LEMMA DefineNv2Preserves ==
    ASSUME IInv, DefineNv2
    PROVE  IInv'
<1>1. /\ pc = "define2"
      /\ UNCHANGED << nv1, ram, history >>
  BY DEF DefineNv2
<1>2. CASE nv2 # Undefined
  <2>1. pc' = "halt" /\ nv2' = nv2
    BY <1>2 DEF DefineNv2
  <2> QED
    BY <1>1, <2>1, StopPreserves
<1>3. CASE nv2 = Undefined
  <2>1. /\ pc' \in {"write1", "halt"}
        /\ nv2' = [i \in 0 .. NvSize - 1 |-> Erased]
    BY <1>3 DEF DefineNv2, Proceed
  <2>2. nv2' # Undefined /\ ~ Nv2Written' /\ DOMAIN nv2' = 0 .. NvSize - 1
    BY <2>1, ConstantFacts, DefinedIndex DEF Nv2Written
  <2>3. nv1 # Undefined /\ printed = 0 /\ part = 0
    BY <1>1, <1>3, StoredIsWritten DEF IInv, NvMemory, Setup
  <2>4. Types'
    BY <1>1, <2>2 DEF IInv, Types, ram, history
  <2>5. NvMemory'
    BY <1>1, <2>2, <2>3 DEF NvMemory, history
  <2>6. Setup'
    BY <1>1, <2>1, <2>2, <2>3, ConstantFacts DEF IInv, Setup, ram, history
  <2>7. Reading'
    BY <2>1 DEF Reading, Serving
  <2>8. KeyStore'
    BY <1>1, <2>1 DEF IInv, KeyStore, history
  <2> QED
    BY <2>4, <2>5, <2>6, <2>7, <2>8 DEF IInv
<1> QED
  BY <1>2, <1>3

LEMMA WriteNv1Preserves ==
    ASSUME IInv, WriteNv1
    PROVE  IInv'
<1>1. /\ pc = "write1"
      /\ nv1' = [nv1 EXCEPT ![part + 1] = cek[part + 1]]
      /\ part' = part + 1
      /\ UNCHANGED << nv2, cek, nv_off, storing, history >>
      /\ pc' \in {"write1", "write2", "halt"}
      /\ pc' = "write1" => part + 1 # Parts
      /\ pc' = "write2" => part + 1 = Parts
  BY DEF WriteNv1, Proceed
<1>2. /\ part \in 0 .. Parts /\ part < Parts /\ part + 1 \in 1 .. Parts
      /\ generated \in Nat \ {0} /\ cek = Whole(generated)
      /\ nv1 \in [1 .. Parts -> 0 .. generated] /\ ~ Nv2Written /\ nv2 # Undefined
      /\ \A p \in 1 .. part : nv1[p] = generated
  BY <1>1, ConstantFacts DEF IInv, Types, Setup
<1>3. cek[part + 1] = generated
  <2>1. part + 1 \in 1 .. Parts + 1
    BY <1>2, ConstantFacts
  <2> QED
    BY <1>2, <2>1 DEF Whole
<1>4. nv1' \in [1 .. Parts -> 0 .. generated] /\ DOMAIN nv1' = 1 .. Parts
  BY <1>1, <1>2, <1>3
<1>5. nv1' # Undefined
  BY <1>4, ConstantFacts, DefinedIndex
<1>6. printed = 0
  <2>1. nv2 # Undefined => (nv2[0] # Erased => Nv2Written)
    BY ConstantFacts DEF Nv2Written
  <2> QED
    BY <1>2, <2>1, StoredIsWritten, CellKinds DEF IInv, NvMemory
<1>7. Types'
  BY <1>1, <1>2, <1>4 DEF IInv, Types, history
<1>8. NvMemory'
  BY <1>1, <1>2, <1>5, <1>6 DEF NvMemory, Nv2Written, history
<1>9. Setup'
  <2>1. \A p \in 1 .. part + 1 : nv1'[p] = generated
    <3>1. part \in Nat /\ Parts \in Nat /\ part + 1 <= Parts
      BY <1>2, ConstantFacts
    <3>2. \A p \in 1 .. part + 1 : p \in 1 .. Parts /\ (p \in 1 .. part \/ p = part + 1)
      BY <3>1
    <3> QED
      BY <1>1, <1>2, <1>3, <3>2
  <2>2. ~ Nv2Written'
    BY <1>1, <1>2 DEF Nv2Written
  <2>3. pc' = "write1" => part + 1 < Parts
    BY <1>1, <1>2, ConstantFacts
  <2> QED
    BY <1>1, <1>2, <1>5, <2>1, <2>2, <2>3 DEF Setup, history
<1>10. Reading'
  BY <1>1 DEF Reading, Serving
<1>11. KeyStore'
  BY <1>1 DEF IInv, KeyStore, history
<1> QED
  BY <1>7, <1>8, <1>9, <1>10, <1>11 DEF IInv

\* With the tail all of the new cEK is in NV memory.
LEMMA WriteNv2Preserves ==
    ASSUME IInv, WriteNv2
    PROVE  IInv'
<1> DEFINE tail == [i \in 1 .. CekTail |-> CekCell(cek[Parts + 1])]
<1>1. /\ pc = "write2" /\ pc' \in {"print", "halt"}
      /\ nv2' = Written(nv2, 0, tail)
      /\ UNCHANGED << nv1, ram, history >>
  BY DEF WriteNv2, Proceed
<1>2. /\ part = Parts /\ generated \in Nat \ {0} /\ cek = Whole(generated)
      /\ nv1 \in [1 .. Parts -> 0 .. generated]
      /\ DOMAIN nv2 = 0 .. NvSize - 1 /\ nv1 # Undefined
      /\ \A p \in 1 .. Parts : nv1[p] = generated
  BY <1>1 DEF IInv, Types, Setup
<1>3. Len(tail) = CekTail /\ cek[Parts + 1] = generated
  BY <1>2, ConstantFacts DEF Whole
<1>4. /\ DOMAIN nv2' = 0 .. NvSize - 1
      /\ \A i \in 0 .. CekTail - 1 : nv2'[i] = CekCell(generated)
  <2>1. DOMAIN nv2' = 0 .. NvSize - 1
    BY <1>1, <1>2 DEF Written
  <2>2. ASSUME NEW i \in 0 .. CekTail - 1 PROVE nv2'[i] = CekCell(generated)
    <3>1. i \in 0 .. NvSize - 1 /\ i \in 0 .. 0 + Len(tail) - 1 /\ i - 0 + 1 \in 1 .. CekTail
      BY <1>3, ConstantFacts
    <3>2. nv2'[i] = tail[i - 0 + 1]
      BY <1>1, <1>2, <3>1 DEF Written
    <3> QED
      BY <1>3, <3>1, <3>2
  <2> QED
    BY <2>1, <2>2
<1>5. nv2' # Undefined
  BY <1>4, ConstantFacts, DefinedIndex
<1>6. Stored(generated)'
  BY <1>1, <1>2, <1>4, <1>5 DEF Stored, history
<1>7. printed = 0 \/ printed = generated
  BY <1>2, ConstantFacts DEF IInv, NvMemory, Stored
<1>8. Types'
  BY <1>1, <1>4 DEF IInv, Types, ram, history
<1>9. NvMemory'
  BY <1>1, <1>2, <1>6, <1>7 DEF NvMemory, history
<1>10. Setup'
  BY <1>1, <1>2, <1>6 DEF Setup, Whole, ram, history
<1>11. Reading'
  BY <1>1 DEF Reading, Serving
<1>12. KeyStore'
  BY <1>1 DEF IInv, KeyStore, history
<1> QED
  BY <1>8, <1>9, <1>10, <1>11, <1>12 DEF IInv

LEMMA PrintPreserves ==
    ASSUME IInv, PrintKey
    PROVE  IInv'
<1>1. /\ pc = "print" /\ pc' = "halt" /\ printed' = cek[1]
      /\ UNCHANGED << nv1, nv2, ram, generated, stored, boot, handles >>
  BY DEF PrintKey, tpm
<1>2. cek[1] = generated /\ Stored(generated) /\ generated \in Nat
  BY <1>1, ConstantFacts DEF IInv, Types, Setup, Whole
<1>3. Types'
  BY <1>1, <1>2 DEF IInv, Types, ram
<1>4. NvMemory'
  BY <1>1, <1>2 DEF IInv, NvMemory, Nv2Written, Stored
<1>5. Setup' /\ Reading'
  BY <1>1 DEF Setup, Reading, Serving
<1>6. KeyStore'
  BY <1>1 DEF IInv, KeyStore
<1> QED
  BY <1>3, <1>4, <1>5, <1>6 DEF IInv

-----------------------------------------------------------------------------
(* The key store.                                                          *)

\* A write behind the cEK leaves the cEK and the keys before it alone.
LEMMA WriteBehind ==
    ASSUME NEW off \in Nat, NEW cells, Len(cells) \in Nat,
           CekTail <= off, off + Len(cells) <= NvSize,
           DOMAIN nv2 = 0 .. NvSize - 1,
           nv2' = Written(nv2, off, cells)
    PROVE  /\ DOMAIN nv2' = 0 .. NvSize - 1
           /\ \A i \in 0 .. off - 1 : nv2'[i] = nv2[i]
           /\ \A i \in 0 .. Len(cells) - 1 : nv2'[off + i] = cells[i + 1]
           /\ nv1' = nv1 => \A k : Stored(k) => Stored(k)'
           /\ \A h : Kept(h, off) => Kept(h, off)'
<1>1. /\ DOMAIN nv2' = 0 .. NvSize - 1
      /\ \A i \in 0 .. NvSize - 1 :
            nv2'[i] = IF i \in off .. off + Len(cells) - 1 THEN cells[i - off + 1] ELSE nv2[i]
  BY DEF Written
<1>2. \A i \in 0 .. off - 1 : i \in 0 .. NvSize - 1 /\ nv2'[i] = nv2[i]
  BY <1>1, ConstantFacts
<1>3. \A i \in 0 .. Len(cells) - 1 : nv2'[off + i] = cells[i + 1]
  <2> TAKE i \in 0 .. Len(cells) - 1
  <2>1. off + i \in 0 .. NvSize - 1 /\ off + i \in off .. off + Len(cells) - 1
        /\ (off + i) - off + 1 = i + 1
    BY ConstantFacts
  <2> QED
    BY <1>1, <2>1
<1>4. ASSUME nv1' = nv1, NEW k, Stored(k) PROVE Stored(k)'
  <2>1. nv2' # Undefined
    BY <1>1, ConstantFacts, DefinedIndex
  <2>2. \A i \in 0 .. CekTail - 1 : i \in 0 .. off - 1
    BY ConstantFacts
  <2> QED
    BY <1>2, <1>4, <2>1, <2>2 DEF Stored
<1>5. ASSUME NEW h, Kept(h, off) PROVE Kept(h, off)'
  <2>1. h.hdl \in 0 .. off - 1 /\ \A i \in 1 .. h.len : h.hdl + i \in 0 .. off - 1
    BY <1>5, ConstantFacts, SMTT(30) DEF Kept
  <2> QED
    BY <1>2, <1>5, <2>1 DEF Kept
<1> QED
  BY <1>1, <1>2, <1>3, <1>4, <1>5

\* Keys kept up to one place are kept up to a later one.
LEMMA KeptFurther ==
    ASSUME NEW h, NEW a \in Nat, NEW b \in Nat, a <= b, Kept(h, a)
    PROVE  Kept(h, b)
  BY ConstantFacts DEF Kept

\* What a serving component knows about the memory.
LEMMA ServingFacts ==
    ASSUME IInv, pc \in {"serve", "storeData"}
    PROVE  /\ nv2 # Undefined /\ DOMAIN nv2 = 0 .. NvSize - 1
           /\ nv_off \in Nat /\ CekTail <= nv_off /\ nv_off <= NvSize
           /\ \E k \in 1 .. generated : cek = Whole(k) /\ Stored(k)
<1>1. PICK k \in 1 .. generated : cek = Whole(k) /\ Stored(k)
  BY DEF IInv, Reading, Serving
<1>2. nv2 # Undefined
  BY <1>1 DEF Stored
<1> QED
  BY <1>1, <1>2, ConstantFacts DEF IInv, Types

\* The parts of the invariant that a write behind the cEK keeps.
LEMMA StoreFrame ==
    ASSUME IInv, pc \in {"serve", "storeData"}, pc' \in {"serve", "storeData"},
           UNCHANGED << nv1, part, cek, generated, boot, printed >>,
           nv_off' \in CekTail .. NvSize,
           DOMAIN nv2' = 0 .. NvSize - 1,
           \A k : Stored(k) => Stored(k)'
    PROVE  Types' /\ NvMemory' /\ Setup' /\ Reading'
<1>1. PICK k \in 1 .. generated : cek = Whole(k) /\ Stored(k)
  BY ServingFacts
<1>2. Stored(k)'
  BY <1>1
<1>3. nv2' # Undefined
  BY ConstantFacts, DefinedIndex
<1>4. Types'
  BY DEF IInv, Types
<1>5. NvMemory'
  <2>1. nv1' = Undefined => nv2' = Undefined
    BY ServingFacts DEF IInv, NvMemory
  <2>2. printed' # 0 => Stored(printed)'
    BY DEF IInv, NvMemory
  <2> QED
    BY <1>1, <1>2, <2>1, <2>2 DEF NvMemory
<1>6. Setup'
  BY DEF Setup
<1>7. Reading'
  BY <1>1, <1>2 DEF Reading
<1> QED
  BY <1>4, <1>5, <1>6, <1>7

LEMMA StoreLengthPreserves ==
    ASSUME IInv, StoreLength
    PROVE  IInv'
<1>1. PICK len \in KeyLens :
          /\ Fits(nv_off, 1)
          /\ nv2' = Written(nv2, nv_off, << LenCell(len) >>)
          /\ \/ /\ storing' = [len |-> len, start |-> nv_off]
                /\ nv_off' = nv_off + 1
                /\ pc' = "storeData"
             \/ UNCHANGED << storing, nv_off, pc >>
  BY DEF StoreLength
<1>2. /\ pc = "serve" /\ len \in Nat
      /\ UNCHANGED << nv1, part, cek, generated, stored, boot, printed, handles >>
  BY ConstantFacts DEF StoreLength, history
<1>3. PICK off \in Nat : off = nv_off
  BY <1>2, ServingFacts
<1>4. /\ DOMAIN nv2 = 0 .. NvSize - 1
      /\ CekTail <= off /\ off + 1 <= NvSize
  BY <1>1, <1>2, <1>3, ServingFacts DEF Fits
<1>5. /\ DOMAIN nv2' = 0 .. NvSize - 1
      /\ nv2'[off] = LenCell(len)
      /\ \A k : Stored(k) => Stored(k)'
      /\ \A h : Kept(h, off) => Kept(h, off)'
  <2> DEFINE cells == << LenCell(len) >>
  <2>1. Len(cells) = 1 /\ cells[0 + 1] = LenCell(len) /\ 0 \in 0 .. Len(cells) - 1
    OBVIOUS
  <2>2. nv2' = Written(nv2, off, cells)
    BY <1>1, <1>3
  <2> HIDE DEF cells
  <2>5. off \in Nat /\ Len(cells) \in Nat /\ off + Len(cells) <= NvSize /\ nv1' = nv1
    BY <1>2, <1>4, <2>1
  <2>3. /\ DOMAIN nv2' = 0 .. NvSize - 1
        /\ \A i \in 0 .. Len(cells) - 1 : nv2'[off + i] = cells[i + 1]
        /\ \A k : Stored(k) => Stored(k)'
        /\ \A h : Kept(h, off) => Kept(h, off)'
    BY <1>4, <2>5, <2>2, WriteBehind
  <2>4. nv2'[off + 0] = LenCell(len) /\ off + 0 = off
    BY <2>1, <2>3
  <2> QED
    BY <2>3, <2>4
<1>6. \A h \in handles : h.boot = boot => Kept(h, off)'
  BY <1>2, <1>3, <1>5 DEF IInv, KeyStore
<1>7. CASE UNCHANGED << storing, nv_off, pc >>
  <2>1. Types' /\ NvMemory' /\ Setup' /\ Reading'
    <3>1. nv_off' \in CekTail .. NvSize
      BY <1>7 DEF IInv, Types
    <3> QED
      BY <1>2, <1>5, <1>7, <3>1, StoreFrame
  <2>2. KeyStore'
    BY <1>2, <1>3, <1>6, <1>7 DEF IInv, KeyStore, Kept
  <2> QED
    BY <2>1, <2>2 DEF IInv
<1>8. CASE /\ storing' = [len |-> len, start |-> nv_off]
           /\ nv_off' = nv_off + 1
           /\ pc' = "storeData"
  <2>1. Types' /\ NvMemory' /\ Setup' /\ Reading'
    <3>1. nv_off' \in CekTail .. NvSize
      BY <1>3, <1>4, <1>8, ConstantFacts
    <3> QED
      BY <1>2, <1>5, <1>8, <3>1, StoreFrame
  <2>2. KeyStore'
    <3>1. storing'.len = len /\ storing'.start = off /\ nv_off' = off + 1
      BY <1>3, <1>8
    <3>2. off \in CekTail .. NvSize
      BY <1>4, ConstantFacts
    <3>3. \A h \in handles : h.boot \in Nat /\ h.boot <= boot
      BY DEF IInv, KeyStore
    <3>4. \A h \in handles' : h.boot = boot' => Kept(h, storing.start)'
      BY <1>2, <1>6, <3>1 DEF Kept
    <3> QED
      BY <1>2, <1>5, <1>8, <3>1, <3>2, <3>3, <3>4 DEF KeyStore
  <2> QED
    BY <2>1, <2>2 DEF IInv
<1> QED
  BY <1>1, <1>7, <1>8

LEMMA StoreKeyDataPreserves ==
    ASSUME IInv, StoreKeyData
    PROVE  IInv'
<1>1. /\ pc = "storeData" /\ pc' = "serve"
      /\ UNCHANGED << nv1, part, cek, storing, generated, boot, printed >>
  BY DEF StoreKeyData
<1>0. PICK id : id = stored + 1
  OBVIOUS
<1>2. PICK off \in Nat, len \in Nat : off = nv_off /\ len = storing.len
  BY <1>1, ServingFacts DEF IInv, KeyStore
<1>3. /\ DOMAIN nv2 = 0 .. NvSize - 1
      /\ CekTail <= off /\ off <= NvSize
  BY <1>1, <1>2, ServingFacts
<1>4. PICK start \in Nat : start = storing.start
  BY <1>1, ConstantFacts DEF IInv, KeyStore
<1>5. /\ CekTail <= start /\ off = start + 1
      /\ nv2[start] = LenCell(len)
      /\ \A h \in handles : h.boot \in Nat /\ h.boot <= boot
      /\ \A h \in handles : h.boot = boot => Kept(h, start)
  BY <1>1, <1>2, <1>4 DEF IInv, KeyStore
<1> DEFINE key == [i \in 1 .. len |-> KeyCell(id, i)]
           entry == [hdl |-> start, key |-> id, len |-> len, boot |-> boot]
<1>6. \/ /\ off + len <= NvSize
         /\ nv2' = Written(nv2, off, key)
         /\ \/ nv_off' = off + len /\ handles' = handles \union {entry}
            \/ UNCHANGED << nv_off, handles >>
      \/ UNCHANGED << nv2, nv_off, handles >>
  BY <1>0, <1>2, <1>4 DEF StoreKeyData, Fits
<1>7. CASE UNCHANGED << nv2, nv_off, handles >>
  <2>1. Types' /\ NvMemory' /\ Setup' /\ Reading'
    <3>1. nv_off' \in CekTail .. NvSize /\ (\A k : Stored(k) => Stored(k)')
      BY <1>1, <1>7 DEF IInv, Types, Stored
    <3> QED
      BY <1>1, <1>3, <1>7, <3>1, StoreFrame
  <2>2. \A h \in handles : h.boot = boot => Kept(h, off)
    BY <1>5, KeptFurther
  <2>3. KeyStore'
    BY <1>1, <1>2, <1>5, <1>7, <2>2 DEF KeyStore, Kept
  <2> QED
    BY <2>1, <2>3 DEF IInv
<1>8. CASE /\ off + len <= NvSize
           /\ nv2' = Written(nv2, off, key)
           /\ \/ nv_off' = off + len /\ handles' = handles \union {entry}
              \/ UNCHANGED << nv_off, handles >>
  <2>1. Len(key) = len /\ \A i \in 1 .. len : key[i] = KeyCell(id, i)
    OBVIOUS
  <2> HIDE DEF key
  <2>2. off + Len(key) <= NvSize /\ Len(key) \in Nat /\ nv1' = nv1
        /\ nv2' = Written(nv2, off, key)
    BY <1>1, <1>8, <2>1
  <2>3. /\ DOMAIN nv2' = 0 .. NvSize - 1
        /\ \A i \in 0 .. off - 1 : nv2'[i] = nv2[i]
        /\ \A i \in 0 .. Len(key) - 1 : nv2'[off + i] = key[i + 1]
        /\ \A k : Stored(k) => Stored(k)'
        /\ \A h : Kept(h, off) => Kept(h, off)'
    BY <1>3, <2>2, WriteBehind
  <2>4. Types' /\ NvMemory' /\ Setup' /\ Reading'
    <3>1. nv_off' \in CekTail .. NvSize
      BY <1>2, <1>3, <1>8, ConstantFacts
    <3> QED
      BY <1>1, <2>3, <3>1, StoreFrame
  <2>5. \A h \in handles : h.boot = boot => Kept(h, off)'
    <3>1. \A h \in handles : h.boot = boot => Kept(h, off)
      BY <1>5, KeptFurther
    <3> QED
      BY <2>3, <3>1
  <2>6. CASE UNCHANGED << nv_off, handles >>
    <3>1. KeyStore'
      BY <1>1, <1>2, <1>5, <2>5, <2>6 DEF KeyStore, Kept
    <3> QED
      BY <2>4, <3>1 DEF IInv
  <2>7. CASE nv_off' = off + len /\ handles' = handles \union {entry}
    <3>1. \A h : Kept(h, off)' => (h.hdl + h.len + 1 <= off + len /\ Kept(h, nv_off)')
      BY <2>7, ConstantFacts DEF Kept
    <3>2. nv2'[start] = LenCell(len)
      <4>1. start \in 0 .. off - 1
        BY <1>5
      <4> QED
        BY <1>5, <2>3, <4>1
    <3>3. \A i \in 1 .. len : nv2'[start + i] = KeyCell(id, i)
      <4> TAKE i \in 1 .. len
      <4>1. i - 1 \in 0 .. Len(key) - 1 /\ off + (i - 1) = start + i /\ (i - 1) + 1 = i
        BY <1>5, <2>1
      <4>2. nv2'[off + (i - 1)] = key[(i - 1) + 1]
        BY <2>3, <4>1
      <4> QED
        BY <2>1, <4>1, <4>2
    <3>4. Kept(entry, nv_off)'
      <4>1. boot' = boot
        BY <1>1
      <4>2. /\ entry'.hdl = start /\ entry'.len = len /\ entry'.key = id
            /\ entry' = entry
        BY <4>1
      <4>3. nv_off' = off + len /\ start + len + 1 <= off + len
        BY <1>5, <2>7
      <4> HIDE DEF entry
      <4> QED
        BY <1>5, <3>2, <3>3, <4>2, <4>3 DEF Kept
    <3>5. \A h \in handles' : h.boot = boot' => Kept(h, nv_off)'
      BY <1>1, <2>5, <2>7, <3>1, <3>4
    <3>6. \A h \in handles' : h.boot \in Nat /\ h.boot <= boot'
      <4>1. boot \in Nat
        BY DEF IInv, Types
      <4> QED
        BY <1>1, <1>5, <2>7, <4>1
    <3>7. KeyStore'
      BY <1>1, <3>5, <3>6 DEF KeyStore
    <3> QED
      BY <2>4, <3>7 DEF IInv
  <2> QED
    BY <1>8, <2>6, <2>7
<1> QED
  BY <1>6, <1>7, <1>8

LEMMA StutterPreserves ==
    ASSUME IInv, UNCHANGED vars
    PROVE  IInv'
<1>1. /\ UNCHANGED << nv1, nv2, ram, history >> /\ pc' = pc
  BY DEF vars, tpm
<1>2. Types' /\ NvMemory'
  BY <1>1, QuietSteps
<1>3. Setup' /\ KeyStore'
  BY <1>1 DEF IInv, Setup, KeyStore, Nv2Written, Stored, Kept, ram, history
<1>4. Reading'
  BY <1>1 DEF IInv, Reading, Serving, Stored, ram, history
<1> QED
  BY <1>2, <1>3, <1>4 DEF IInv

\* Every step keeps the invariant.
LEMMA StepPreserves == IInv /\ [Next]_vars => IInv'
<1> SUFFICES ASSUME IInv, [Next]_vars PROVE IInv'
  OBVIOUS
<1>1. CASE PowerOn
  BY <1>1, PowerOnPreserves
<1>2. CASE PowerOff \/ PowerCut \/ Fault
  BY <1>2, StopActions
<1>3. CASE Boot
  BY <1>3, QuietBootPreserves, ClearPreserves, ReadNv1Preserves, ReadNv2Preserves,
     CreateKeyPreserves, DefineNv1Preserves, DefineNv2Preserves,
     WriteNv1Preserves, WriteNv2Preserves, PrintPreserves DEF Boot
<1>4. CASE Serve
  BY <1>4, StoreLengthPreserves, StoreKeyDataPreserves, ShutdownPreserves DEF Serve
<1>5. CASE UNCHANGED vars
  BY <1>5, StutterPreserves
<1> QED
  BY <1>1, <1>2, <1>3, <1>4, <1>5 DEF Next

\* The invariant holds in every reachable state.
THEOREM Invariance == Spec => []IInv
<1>1. Init => IInv
  BY InitEstablishes
<1> QED
  BY <1>1, StepPreserves, PTL DEF Spec

-----------------------------------------------------------------------------
(* What follows from it.                                                   *)

\* Every variable keeps its type, and nv_off stays between the cEK and the end of
\* index 2.
THEOREM TypeCorrect == Spec => []TypeOK
<1>1. IInv => TypeOK
  BY DEF IInv, Types, TypeOK
<1> QED
  BY <1>1, Invariance, PTL

\* However often set-ups and boots are interrupted, the cEK served is one whole
\* generated key, and it is in NV memory.
THEOREM WholeKeysServed == Spec => []ServedKeyWhole
<1>1. IInv => ServedKeyWhole
  BY DEF IInv, Reading, ServedKeyWhole
<1> QED
  BY <1>1, Invariance, PTL

\* A cEK that was printed is in NV memory until the TPM is cleared.
THEOREM PrintedKeysSurvive == Spec => []PrintedKeySurvives
<1>1. IInv => PrintedKeySurvives
  BY DEF IInv, NvMemory, PrintedKeySurvives
<1> QED
  BY <1>1, Invariance, PTL

\* The handles of one boot lead to the keys that were stored.
THEOREM HandlesLeadToKeys == Spec => []HandlesReadBack
<1>1. IInv => HandlesReadBack
  <2> SUFFICES ASSUME IInv, pc \in {"serve", "storeData"},
                      NEW h \in handles, h.boot = boot
               PROVE  Reads(h)
    BY DEF HandlesReadBack
  <2>1. PICK end : Kept(h, end)
    BY DEF IInv, KeyStore
  <2>2. nv2[h.hdl][2] = h.len
    BY <2>1, CellKinds DEF Kept
  <2> QED
    BY <2>1, <2>2 DEF Kept, Reads, keystore_rpc_loadKey
<1> QED
  BY <1>1, Invariance, PTL

-----------------------------------------------------------------------------
(* The operator who follows the README.                                    *)

\* A boot with CLEAR_TPM finds no index 1 and sets the TPM up; one without it was begun
\* when a cEK had been printed.
FollowInv ==
    operator = "follows" =>
       /\ image \in {"clear", "plain"}
       /\ pc = "clear" => image = "clear"
       /\ pc # "off" /\ image = "plain" => printed # 0
       /\ image = "clear" => pc \notin Serving \union {"open2", "read1", "read2", "load"}
       /\ image = "clear" /\ pc \in {"srk", "open1"} => nv1 = Undefined

\* The boot of a follower.
LEMMA FollowBoot ==
    ASSUME IInv, FollowInv, Boot, UNCHANGED operator
    PROVE  FollowInv'
<1>1. CASE InitTpm \/ CreateSRK \/ OpenNv1 \/ OpenNv2 \/ LoadKey \/ CreateCSRK
  BY <1>1 DEF InitTpm, CreateSRK, OpenNv1, OpenNv2, LoadKey, CreateCSRK, tpm, history,
              FollowInv, Serving
<1>2. CASE ReadNv1 \/ ReadNv2
  BY <1>2 DEF ReadNv1, ReadNv2, tpm, history, FollowInv, Serving
<1>3. CASE ClearTpm
  BY <1>3 DEF ClearTpm, Proceed, FollowInv, Serving
<1>4. CASE CreateKey
  BY <1>4 DEF CreateKey, tpm, FollowInv, Serving
<1>5. CASE DefineNv1 \/ DefineNv2
  BY <1>5 DEF DefineNv1, DefineNv2, Proceed, history, FollowInv, Serving
<1>6. CASE WriteNv1 \/ WriteNv2
  BY <1>6 DEF WriteNv1, WriteNv2, Proceed, history, FollowInv, Serving
<1>7. CASE PrintKey
  <2>1. pc = "print" /\ pc' = "halt" /\ printed' = cek[1] /\ UNCHANGED << nv1, image >>
    BY <1>7 DEF PrintKey, tpm
  <2>2. generated # 0 /\ cek = Whole(generated)
    BY <2>1 DEF IInv, Setup
  <2>3. cek[1] = generated
    <3>1. 1 \in 1 .. Parts + 1
      BY ConstantFacts
    <3> QED
      BY <2>2, <3>1 DEF Whole
  <2> QED
    BY <2>1, <2>2, <2>3 DEF FollowInv, Serving
<1> QED
  BY <1>1, <1>2, <1>3, <1>4, <1>5, <1>6, <1>7 DEF Boot

LEMMA FollowStep ==
    ASSUME IInv, FollowInv, [Operated(Next)]_operated
    PROVE  FollowInv'
<1>1. CASE UNCHANGED operated
  BY <1>1 DEF operated, vars, tpm, history, FollowInv, Serving
<1>2. CASE PowerOn /\ UNCHANGED operator /\ Procedure
  <2>1. pc = "off" /\ pc' = "init" /\ image' \in {"clear", "plain"} /\ printed' = printed
    BY <1>2 DEF PowerOn
  <2>2. operator = "follows" => image' = IF printed = 0 THEN "clear" ELSE "plain"
    BY <1>2, <2>1 DEF Procedure
  <2> QED
    BY <1>2, <2>1, <2>2 DEF FollowInv, Serving
<1>3. CASE (PowerOff \/ PowerCut \/ Fault) /\ UNCHANGED operator
  BY <1>3 DEF PowerOff, PowerCut, Fault, Commands, tpm, history, FollowInv, Serving
<1>4. CASE Boot /\ UNCHANGED operator
  BY <1>4, FollowBoot
<1>5. CASE Serve /\ UNCHANGED operator
  <2>1. /\ pc \in Serving /\ pc' \in Serving
        /\ UNCHANGED << image, printed, nv1 >>
    BY <1>5 DEF Serve, StoreLength, StoreKeyData, Shutdown, history, Serving
  <2> QED
    BY <1>5, <2>1 DEF FollowInv, Serving
<1> QED
  BY <1>1, <1>2, <1>3, <1>4, <1>5 DEF Operated, Next

\* When the README's procedure for a new cEK is followed, however often its set-ups and
\* boots are interrupted, the cEK served is the one that was printed and imported.
THEOREM FollowersGetPrintedKey == OperatedSpec => []FollowerGetsPrintedKey
<1>1. OperatedInit => IInv /\ FollowInv
  <2> SUFFICES ASSUME OperatedInit PROVE IInv /\ FollowInv
    OBVIOUS
  <2>1. IInv
    BY InitEstablishes DEF OperatedInit
  <2>2. FollowInv
    BY DEF OperatedInit, Init, FollowInv, Serving
  <2> QED
    BY <2>1, <2>2
<1>2. IInv /\ [Operated(Next)]_operated => IInv'
  <2>1. [Operated(Next)]_operated => [Next]_vars
    BY DEF Operated, operated
  <2> QED
    BY <2>1, StepPreserves
<1>3. IInv /\ FollowInv /\ [Operated(Next)]_operated => FollowInv'
  BY FollowStep
<1>4. IInv /\ FollowInv => FollowerGetsPrintedKey
  <2> SUFFICES ASSUME IInv, FollowInv, operator = "follows", pc \in Serving
               PROVE  cek = Whole(printed)
    BY DEF FollowerGetsPrintedKey, ServedKeyWasPrinted
  <2>1. printed # 0
    BY DEF FollowInv, Serving
  <2>2. Stored(printed)
    BY <2>1 DEF IInv, NvMemory
  <2>3. PICK k \in 1 .. generated : cek = Whole(k) /\ Stored(k)
    BY DEF IInv, Reading
  <2>4. 1 \in 1 .. Parts
    BY ConstantFacts
  <2>5. k = printed
    BY <2>2, <2>3, <2>4 DEF Stored
  <2> QED
    BY <2>3, <2>5
<1> QED
  BY <1>1, <1>2, <1>3, <1>4, PTL DEF OperatedSpec
=============================================================================
