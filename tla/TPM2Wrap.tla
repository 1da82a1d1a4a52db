------------------------------- MODULE TPM2Wrap -------------------------------
(***************************************************************************)
(* The wrappers of the wolfTPM library (tpm2_wrap.c): sequences of         *)
(* commands that keep in the caller's structures the handles of what they  *)
(* have loaded into the TPM, and in the device's slots what the next       *)
(* command is authorised with.  The commands are those of TPM2Commands.    *)
(*                                                                         *)
(* Each wrapper is a script: what it does step by step when nothing fails. *)
(* A step that fails ends it, except for the steps that the code takes all *)
(* the same (Always) and the failures it does not look at (Ignoring).  One *)
(* thread uses the TPM and nothing else does, so a call is one action.     *)
(*                                                                         *)
(* The caller's structures are a key, a hash, the key of an HMAC, and a    *)
(* session; a parent key is always there.  The caller does not create into *)
(* a structure that still names something, keeps sessions for HMACs in     *)
(* slot 1 and for policies in slot 0, and takes a session out of slot 1    *)
(* before it sets it again or gives the device up.  One caller works with  *)
(* keys and another with hashes.  What the commands carry is left out, and *)
(* so are buffers that are too small, wrong arguments and whatever needs   *)
(* wolfCrypt, which is not compiled: such a step always fails.             *)
(***************************************************************************)
EXTENDS Integers, FiniteSets, TPM2Commands

CONSTANTS MAX_HANDLE_NUM, \* transient objects that the TPM has room for
          SessionIds, \* the handles of its sessions
          MaxFaults,  \* failures of the link or the TPM in one call
          Rounds      \* pieces in which data is handed over or fetched

Objects == 1..MAX_HANDLE_NUM    \* from TRANSIENT_FIRST on

None == 0             \* TPM_RH_NULL, or a structure that has been cleared
Password == -1        \* TPM_RS_PW
Persistent == -2
Counter == -3         \* what EC_Ephemeral gives in the place of a handle

ASSUME WrapAssumption ==
    /\ MAX_HANDLE_NUM \in Nat /\ SessionIds \subseteq Nat \ {0}
    /\ Objects \cap SessionIds = {} /\ IsFiniteSet(SessionIds)
    /\ MaxFaults \in Nat /\ Rounds \subseteq Nat

Structures == {"key", "hash", "hmacKey", "session", "local"}

VARIABLES handle,     \* of each structure
          hmacKeyLoaded,
          purpose,    \* what the caller has a TPM for, a bound; with "policyKeys" it has set
                      \* key->handle.policyAuth
          slot,       \* the sessions of the device: handle and attributes
          loaded,     \* what the TPM has: of each handle, its kind or "none"
          kept,       \* where the TPM's last nonce of the session in slot 1 or in the
                      \* structure is: "slot", "session", both or neither
          missed,     \* history: an answer with the session's nonce did not come
          active,     \* the device has been initialised
          failed      \* how many steps of the last call failed, if it left something behind

wrapperVars == << handle, hmacKeyLoaded, purpose, slot, loaded, kept, missed, active, failed >>

-----------------------------------------------------------------------------
(* Steps.                                                                  *)

\* What sessions have to do with a command (TPM2_GetCmdAuthCount): whether it takes any,
\* whether it must, and which of its sides they may encrypt.  Commands that are alike in
\* this are one step.
Traits(c) ==
    LET d == Commands[c]
    IN (IF d.kind \in {"authorized", "unguarded"} THEN {"sessions"} ELSE {})
       \union (IF d.flags \cap {"user1", "admin", "dup"} # {} THEN {"auth"} ELSE {})
       \union (d.flags \cap {"enc", "dec"})

Step(op) ==
    [op |-> op, traits |-> {}, uses |-> {}, into |-> "none", from |-> "none",
     makes |-> "none", index |-> 0, value |-> None, attrs |-> {}, always |-> FALSE, ignore |-> {}]

Always(step) == [step EXCEPT !.always = TRUE]
Ignoring(step) == [step EXCEPT !.ignore = {"refused", "lost"}]

\* A command on what structures name, one that makes something, and what it makes.
Run(c, uses) == [Step("command") EXCEPT !.traits = Traits(c), !.uses = uses]
Make(c, uses, kind, into) ==
    [Run(c, uses) EXCEPT !.makes = kind, !.into = into]

Put(h, s) == [Step("put") EXCEPT !.value = h, !.into = s]
Clear(s) == Put(None, s)
Copy(s, t) == [Step("copy") EXCEPT !.from = s, !.into = t]

\* What is not compiled, or fails for another reason that does not lie with the TPM.
Error == Step("error")

Times(n, step) == [k \in 1..n |-> step]

-----------------------------------------------------------------------------
(* Sessions of the device, and single commands.                            *)

wolfTPM2_SetAuth(index, h) == [Step("slot") EXCEPT !.index = index, !.value = h]
wolfTPM2_SetAuthPassword == wolfTPM2_SetAuth(0, Password)
wolfTPM2_SetAuthHandle(s) == [Step("handle") EXCEPT !.from = s]
wolfTPM2_SetAuthSession(index, attrs) ==
    [Step("session") EXCEPT !.index = index, !.attrs = attrs, !.from = "session"]
wolfTPM2_UnsetAuth(index) == << wolfTPM2_SetAuth(index, None) >>
wolfTPM2_UnsetAuthSession(index) ==
    << [Step("save") EXCEPT !.index = index] >> \o wolfTPM2_UnsetAuth(index)

wolfTPM2_SelfTest == << Run("SelfTest", {}) >>
wolfTPM2_GetCapabilities == Times(2, Run("GetCapability", {}))
wolfTPM2_GetRandom(n) == Times(n, Run("GetRandom", {}))
wolfTPM2_Clear == << [Run("Clear", {}) EXCEPT !.makes = "clear"] >>
wolfTPM2_ResetPCR == << Run("PCR_Reset", {}) >>
wolfTPM2_ReadPCR == << wolfTPM2_SetAuthPassword, Run("PCR_Read", {}) >>
wolfTPM2_ExtendPCR == << wolfTPM2_SetAuthPassword, Run("PCR_Extend", {}) >>
wolfTPM2_GetTime == << Run("GetTime", {"key"}) >>
wolfTPM2_PolicyRestart == << Run("PolicyRestart", {"session"}) >>
wolfTPM2_GetPolicyDigest == << Run("PolicyGetDigest", {"session"}) >>
wolfTPM2_PolicyPCR == << Run("PolicyPCR", {"session"}) >>

\* Startup is content to find the TPM started (TPM_RC_INITIALIZE).
wolfTPM2_Init ==
    << Step("reset"), Run("Startup", {}), wolfTPM2_SetAuthPassword, Step("active") >>
wolfTPM2_Cleanup == << Ignoring(Run("Shutdown", {})), Step("reset") >>

\* With doStartup the result of the shutdown is forgotten.
wolfTPM2_Shutdown == << Ignoring(Run("Shutdown", {})), Run("Startup", {}) >>

\* Nothing is to be unloaded where there is no handle, or a persistent one.
wolfTPM2_UnloadHandle(s) ==
    [Run("FlushContext", {s}) EXCEPT !.op = "unload", !.into = s]

wolfTPM2_UnloadHandles(handleStart, handleCount) ==
    [k \in 1..2 * handleCount |->
       IF k % 2 = 1 THEN Put(handleStart + (k \div 2), "local")
       ELSE Ignoring(wolfTPM2_UnloadHandle("local"))]
wolfTPM2_UnloadHandles_AllTransient == wolfTPM2_UnloadHandles(1, MAX_HANDLE_NUM)

-----------------------------------------------------------------------------
(* Sessions of the TPM.                                                    *)

\* TPM2_GetNonce; where only a negative result counts, a refusal of the TPM does not.
GetNonce == Run("GetRandom", {})

\* A session bound to something with an auth value, or salted with a key, needs
\* TPM2_KDFa or wolfTPM2_EncryptSecret, which fail in this build; in slot 0 the handle of
\* the salt's key, which is no session's, is as good as none.
wolfTPM2_StartSession(kind, salted, bound) ==
    << Clear("session"),
       IF salted THEN wolfTPM2_SetAuth(0, None) ELSE wolfTPM2_SetAuthPassword,
       [GetNonce EXCEPT !.ignore = {"refused"}] >>
    \o IF salted THEN << GetNonce, Error >>
       ELSE << Make("StartAuthSession", {}, kind, "local") >>
              \o (IF bound THEN << Error >> ELSE << >>)
              \o << Copy("local", "session") >>

wolfTPM2_CreateAuthSession_EkPolicy ==
    wolfTPM2_StartSession("policy", FALSE, FALSE) \o << Run("PolicySecret", {"session"}) >>

wolfTPM2_ChangePlatformAuth(withSession) ==
    (IF withSession
     THEN << wolfTPM2_SetAuthSession(1, {"decrypt", "encrypt", "continue"}) >> ELSE << >>)
    \o << GetNonce, Run("HierarchyChangeAuth", {}) >>

-----------------------------------------------------------------------------
(* Keys.                                                                   *)

wolfTPM2_CreatePrimaryKey(kind) ==
    << wolfTPM2_SetAuthPassword, Clear("key"), Make("CreatePrimary", {}, kind, "key") >>
wolfTPM2_CreateEK == wolfTPM2_CreatePrimaryKey("key")
wolfTPM2_CreateSRK == wolfTPM2_CreatePrimaryKey("key")
wolfTPM2_ECDHGenKey == wolfTPM2_CreatePrimaryKey("temporary")

wolfTPM2_CreateKey(s) == << Clear(s), wolfTPM2_SetAuthHandle("parent"), Run("Create", {}) >>
wolfTPM2_CreateKeySeal_ex(s) == wolfTPM2_CreateKey(s)
wolfTPM2_CreateKeySeal(s) == wolfTPM2_CreateKeySeal_ex(s)
wolfTPM2_LoadKey(s) == << wolfTPM2_SetAuthHandle("parent"), Make("Load", {}, "key", s) >>

\* The key blob is returned whatever has happened.
wolfTPM2_CreateAndLoadKey ==
    wolfTPM2_CreateKey("local") \o wolfTPM2_LoadKey("local")
      \o << Always(Copy("local", "key")) >>
wolfTPM2_CreateAndLoadAIK == wolfTPM2_CreateAndLoadKey
wolfTPM2_CreateLoadedKey(s) ==
    << Clear(s), wolfTPM2_SetAuthHandle("parent"), Make("CreateLoaded", {}, "key", s) >>

\* Slip: the old key is not unloaded.
ChangeAuthKeyOnly ==
    << wolfTPM2_SetAuthHandle("key"), Run("ObjectChangeAuth", {"key"}),
       wolfTPM2_SetAuthHandle("parent"), Make("Load", {}, "key", "key") >>

wolfTPM2_ChangeAuthKey ==
    << wolfTPM2_SetAuthHandle("key"), Run("ObjectChangeAuth", {"key"}),
       Ignoring(wolfTPM2_UnloadHandle("key")),
       wolfTPM2_SetAuthHandle("parent"), Make("Load", {}, "key", "key") >>

wolfTPM2_LoadPublicKey_ex == << Make("LoadExternal", {}, "key", "key") >>
wolfTPM2_LoadPublicKey == wolfTPM2_LoadPublicKey_ex
wolfTPM2_LoadRsaPublicKey_ex == wolfTPM2_LoadPublicKey
wolfTPM2_LoadRsaPublicKey == wolfTPM2_LoadRsaPublicKey_ex
wolfTPM2_LoadEccPublicKey == wolfTPM2_LoadPublicKey

\* The name, the seed and the private area cannot be computed.
wolfTPM2_ImportPrivateKey == << wolfTPM2_SetAuthHandle("parent"), Error >>
wolfTPM2_ImportRsaPrivateKeySeed == << Ignoring(GetNonce) >> \o wolfTPM2_ImportPrivateKey
wolfTPM2_ImportRsaPrivateKey == wolfTPM2_ImportRsaPrivateKeySeed
wolfTPM2_ImportEccPrivateKeySeed == << Ignoring(GetNonce) >> \o wolfTPM2_ImportPrivateKey
wolfTPM2_ImportEccPrivateKey == wolfTPM2_ImportEccPrivateKeySeed

Imported(script) ==
    << Copy("key", "local") >> \o script \o wolfTPM2_LoadKey("local")
      \o << Always(Copy("local", "key")) >>
wolfTPM2_LoadPrivateKey == Imported(wolfTPM2_ImportPrivateKey)
wolfTPM2_LoadRsaPrivateKey_ex == Imported(wolfTPM2_ImportRsaPrivateKey)
wolfTPM2_LoadRsaPrivateKey == wolfTPM2_LoadRsaPrivateKey_ex
wolfTPM2_LoadEccPrivateKey == Imported(wolfTPM2_ImportEccPrivateKey)
wolfTPM2_LoadSymmetricKey == wolfTPM2_GetRandom(1) \o << Error >>

\* The handle is the one that has been read.
wolfTPM2_ReadPublicKey ==
    << Put(Persistent, "local"), Run("ReadPublic", {"local"}), Copy("local", "key") >>

\* A key that is persistent already is not moved, and one that is not is not deleted.
wolfTPM2_NVStoreKey ==
    << wolfTPM2_SetAuthPassword, [Run("EvictControl", {"key"}) EXCEPT !.makes = "persist"],
       Ignoring(wolfTPM2_UnloadHandle("key")), Put(Persistent, "key") >>
wolfTPM2_NVDeleteKey ==
    << [Run("EvictControl", {"key"}) EXCEPT !.makes = "end", !.from = "key"], Clear("key") >>

-----------------------------------------------------------------------------
(* Signing, key agreement, encryption.                                     *)

OnKey(c) == << wolfTPM2_SetAuthHandle("key"), Run(c, {"key"}) >>

wolfTPM2_SignHashScheme == OnKey("Sign")
wolfTPM2_SignHash == wolfTPM2_SignHashScheme
wolfTPM2_VerifyHashTicket == OnKey("VerifySignature")
wolfTPM2_VerifyHashScheme == wolfTPM2_VerifyHashTicket
wolfTPM2_VerifyHash_ex == wolfTPM2_VerifyHashTicket
wolfTPM2_VerifyHash == wolfTPM2_VerifyHashTicket
wolfTPM2_ECDHGen == OnKey("ECDH_KeyGen")
wolfTPM2_ECDHGenZ == OnKey("ECDH_ZGen")
wolfTPM2_RsaEncrypt == OnKey("RSA_Encrypt")
wolfTPM2_RsaDecrypt == OnKey("RSA_Decrypt")

\* The key of ECDHE is a counter, and it is forgotten before it is used.
wolfTPM2_ECDHEGenKey == << Run("EC_Ephemeral", {}), Put(Counter, "key") >>
wolfTPM2_ECDHEGenZ ==
    << wolfTPM2_SetAuthHandle("parent"), Clear("key"), Run("ZGen_2Phase", {}) >>

\* A TPM without the command is not made to support it (wolfTPM2_SetCommand).
wolfTPM2_EncryptDecryptBlock == OnKey("EncryptDecrypt2")
wolfTPM2_EncryptDecrypt(n) ==
    [k \in 1..2 * n |-> wolfTPM2_EncryptDecryptBlock[IF k % 2 = 1 THEN 1 ELSE 2]]

-----------------------------------------------------------------------------
(* Hashes and HMACs.                                                       *)

wolfTPM2_HashStart == << Make("HashSequenceStart", {}, "temporary", "hash") >>
wolfTPM2_HashUpdate(n) ==
    << wolfTPM2_SetAuthHandle("hash") >> \o Times(n, Run("SequenceUpdate", {"hash"}))
wolfTPM2_HmacUpdate(n) == wolfTPM2_HashUpdate(n)

\* The handle is forgotten before the result of the command is looked at.
wolfTPM2_HashFinish ==
    << wolfTPM2_SetAuthHandle("hash"),
       [Run("SequenceComplete", {"hash"}) EXCEPT !.makes = "end", !.from = "hash"],
       Always(Clear("hash")) >>

wolfTPM2_LoadKeyedHashKey(s) ==
    << Clear(s), wolfTPM2_SetAuthHandle("parent"), Run("Create", {}),
       Make("Load", {}, "key", s) >>

wolfTPM2_HmacStart(keyLoaded) ==
    (IF keyLoaded THEN << >>
     ELSE wolfTPM2_LoadKeyedHashKey("hmacKey") \o << Step("keyLoaded") >>)
    \o << wolfTPM2_SetAuthHandle("hash"), Make("HMAC_Start", {"hmacKey"}, "temporary", "hash") >>

wolfTPM2_HmacFinish(keep) ==
    wolfTPM2_HashFinish
    \o IF keep THEN << >>
       ELSE << Always(Ignoring(wolfTPM2_UnloadHandle("hmacKey"))), Always(Step("keyUnloaded")) >>

-----------------------------------------------------------------------------
(* NV memory; an index needs no handle of the TPM's.                       *)

wolfTPM2_NVReadPublic == << Run("NV_ReadPublic", {}) >>
wolfTPM2_NVOpen == wolfTPM2_NVReadPublic

\* The index is opened even when it has been there before.
wolfTPM2_NVCreateAuth ==
    << wolfTPM2_SetAuthHandle("parent"), Run("NV_DefineSpace", {}) >> \o wolfTPM2_NVOpen
wolfTPM2_NVCreate == wolfTPM2_NVCreateAuth

\* wolfTPM2_SetAuthHandleName leaves the slots' handles alone.  The first of the pieces
\* changes the index's name.
Opened(known) == IF known THEN << >> ELSE wolfTPM2_NVOpen

wolfTPM2_NVWriteAuth(known, n) ==
    Opened(known)
    \o IF n = 0 THEN << >>
       ELSE << Run("NV_Write", {}) >> \o wolfTPM2_NVOpen \o Times(n - 1, Run("NV_Write", {}))
wolfTPM2_NVWrite(n) == wolfTPM2_NVWriteAuth(FALSE, n)
wolfTPM2_NVReadAuth(known, n) == Opened(known) \o Times(n, Run("NV_Read", {}))
wolfTPM2_NVRead(n) == wolfTPM2_NVReadAuth(FALSE, n)
wolfTPM2_NVIncrement(known) == Opened(known) \o << Run("NV_Increment", {}) >>
wolfTPM2_NVWriteLock(known) == Opened(known) \o << Run("NV_WriteLock", {}) >>
wolfTPM2_NVDeleteAuth == << wolfTPM2_SetAuthHandle("parent"), Run("NV_UndefineSpace", {}) >>
wolfTPM2_NVDelete == wolfTPM2_NVDeleteAuth

-----------------------------------------------------------------------------
(* The calls a caller may make.                                            *)

\* Which steps fail, and how: the command is not executed, or its answer is not received.
Outcomes(script) ==
    LET commands == {k \in DOMAIN script : script[k].op \in {"command", "unload"}}
    IN UNION {[failing -> {"refused", "lost"}] :
                failing \in UNION {kSubset(n, commands) : n \in 0..MaxFaults}}

\* Scripts, each with what may happen in it.
Calls(scripts) == UNION {{script} \X Outcomes(script) : script \in scripts}

Anytime ==
    Calls({wolfTPM2_SelfTest, wolfTPM2_GetCapabilities, wolfTPM2_Clear, wolfTPM2_ResetPCR,
           wolfTPM2_ReadPCR, wolfTPM2_ExtendPCR, wolfTPM2_Shutdown, wolfTPM2_UnsetAuth(0),
           wolfTPM2_UnloadHandles_AllTransient, wolfTPM2_ChangePlatformAuth(FALSE),
           wolfTPM2_NVReadPublic, wolfTPM2_NVCreate, wolfTPM2_NVDelete}
          \union (UNION {{wolfTPM2_GetRandom(n), wolfTPM2_NVWrite(n), wolfTPM2_NVRead(n)} :
                           n \in Rounds})
          \union (UNION {{wolfTPM2_NVWriteAuth(k, n), wolfTPM2_NVReadAuth(k, n)} :
                           k \in BOOLEAN, n \in Rounds})
          \union (UNION {{wolfTPM2_NVIncrement(k), wolfTPM2_NVWriteLock(k)} : k \in BOOLEAN}))

WithKey ==
    Calls({wolfTPM2_GetTime, wolfTPM2_ChangeAuthKey, wolfTPM2_NVStoreKey, wolfTPM2_SignHash,
           wolfTPM2_VerifyHash, wolfTPM2_ECDHGen, wolfTPM2_ECDHGenZ, wolfTPM2_RsaEncrypt,
           wolfTPM2_RsaDecrypt, << wolfTPM2_UnloadHandle("key") >>}
          \union {wolfTPM2_EncryptDecrypt(n) : n \in Rounds})

IntoKey ==
    Calls({wolfTPM2_CreateEK, wolfTPM2_CreateSRK, wolfTPM2_ECDHGenKey,
           wolfTPM2_CreateAndLoadAIK, wolfTPM2_LoadRsaPublicKey, wolfTPM2_LoadEccPublicKey,
           wolfTPM2_LoadPrivateKey, wolfTPM2_LoadRsaPrivateKey, wolfTPM2_LoadEccPrivateKey,
           wolfTPM2_LoadSymmetricKey, wolfTPM2_CreateLoadedKey("key"),
           wolfTPM2_ReadPublicKey, wolfTPM2_ECDHEGenKey, wolfTPM2_CreateKeySeal("key"),
           wolfTPM2_CreateKey("key") \o wolfTPM2_LoadKey("key")})

Deleting == Calls({wolfTPM2_NVDeleteKey})
Agreeing == Calls({wolfTPM2_ECDHEGenZ})

IntoHash == Calls({wolfTPM2_HashStart, wolfTPM2_HmacStart(FALSE)})
IntoHashAgain == Calls({wolfTPM2_HashStart, wolfTPM2_HmacStart(TRUE)})

WithHash ==
    Calls({wolfTPM2_HashFinish} \union {wolfTPM2_HmacFinish(keep) : keep \in BOOLEAN}
          \union {wolfTPM2_HmacUpdate(n) : n \in Rounds})

IntoSession ==
    Calls({wolfTPM2_StartSession(kind, salted, bound) :
             kind \in {"hmac", "policy"}, salted \in BOOLEAN, bound \in BOOLEAN}
          \union {wolfTPM2_CreateAuthSession_EkPolicy})

WithSession ==
    Calls({wolfTPM2_PolicyRestart, wolfTPM2_GetPolicyDigest, wolfTPM2_PolicyPCR})

Seat ==
    Calls({<< wolfTPM2_SetAuthSession(1, attrs) >> :
             attrs \in {{"continue", "audit"}, {"continue", "encrypt"}}}
          \union {wolfTPM2_ChangePlatformAuth(TRUE), << wolfTPM2_UnloadHandle("session") >>})

SeatPolicy ==
    Calls({<< wolfTPM2_SetAuthSession(0, {}) >>, << wolfTPM2_UnloadHandle("session") >>})

Starting == Calls({wolfTPM2_Init})
Stopping == Calls({wolfTPM2_Init, wolfTPM2_Cleanup})
Unseat == Calls({wolfTPM2_UnsetAuthSession(1)})

-----------------------------------------------------------------------------
(* What a step does; w holds the variables, and whether the script goes on. *)

Live(w, h) == h = Counter \/ (h \in DOMAIN w.loaded /\ w.loaded[h] # "none")

\* The kind of a free handle that a command makes an object or a session of.
Room(w, kind) ==
    LET place == IF kind \in {"hmac", "policy"} THEN SessionIds ELSE Objects
    IN {h \in place : w.loaded[h] = "none"}

\* The number of slots a command goes with, and the sessions in them (TPM2!Call); a policy
\* session counts without attributes only.
AuthCount(w, traits) ==
    LET kind(k) == IF w.slot[k].handle \in SessionIds THEN w.loaded[w.slot[k].handle] ELSE "none"
        first == /\ "auth" \in traits
                 /\ \/ w.slot[0].handle = Password
                    \/ w.slot[0].handle \in SessionIds /\ w.slot[0].attrs = {}
        attrs == w.slot[1].attrs
        second == /\ w.slot[1].handle \in SessionIds
                  /\ \/ "decrypt" \in attrs /\ "enc" \in traits
                     \/ "encrypt" \in attrs /\ "dec" \in traits
                     \/ "audit" \in attrs
    IN IF "sessions" \notin traits \/ ~first THEN 0
       ELSE IF second THEN 2 ELSE 1

Fail(w, step, how) ==
    [w EXCEPT !.ok = @ /\ how \in step.ignore, !.failed = @ + 1]

\* What an executed command leaves in the TPM: a policy session ends with its use, since it
\* is sent without continueSession.
Execute(w, step, sent) ==
    LET named == {w.handle[s] : s \in step.uses}
        gone == CASE step.op = "unload" -> named
                  [] step.makes = "end" -> named
                  [] step.makes = "clear" ->
                       {h \in Objects \union {Persistent} : w.loaded[h] = "key"}
                  [] OTHER -> {}
        ended == IF 0 \in sent THEN {w.slot[0].handle} \cap SessionIds ELSE {}
        new == IF step.makes \in {"key", "temporary", "hmac", "policy"}
               THEN {CHOOSE h \in Room(w, step.makes) : TRUE}
               ELSE IF step.makes = "persist" THEN {Persistent} ELSE {}
    IN [w EXCEPT !.loaded = [h \in DOMAIN @ |->
                               IF h \in gone \union ended THEN "none"
                               ELSE IF h \in new
                               THEN IF step.makes = "persist" THEN "key" ELSE step.makes
                               ELSE @[h]],
                 !.kept = IF 1 \in sent THEN {} ELSE @,
                 !.new = new]

\* The history is the present session's.
Forgotten(w, s) == IF s = "session" THEN [w EXCEPT !.kept = {}, !.missed = FALSE] ELSE w

Accept(w, step) ==
    IF step.op = "unload" THEN Forgotten([w EXCEPT !.handle[step.into] = None], step.into)
    ELSE IF step.into # "none"
    THEN [w EXCEPT !.handle[step.into] = CHOOSE h \in w.new : TRUE,
                   !.kept = IF step.makes = "hmac" THEN {"session"} ELSE @,
                   !.missed = IF step.makes = "hmac" THEN FALSE ELSE @]
    ELSE w

\* A command with a session that decrypts is not sent, and the answer to one with a session
\* that encrypts is thrown away when its nonce has been read.
Transmit(w, step, how) ==
    LET n == AuthCount(w, step.traits)
        sent == 0..n - 1
        attrs == IF 1 \in sent THEN w.slot[1].attrs ELSE {}
        refused ==
          \/ how = "refused"
          \/ "sessions" \in step.traits /\ n = 0
          \/ "decrypt" \in attrs /\ "enc" \in step.traits
          \/ \E s \in step.uses : ~Live(w, w.handle[s])
          \/ \E k \in sent : w.slot[k].handle # Password /\ ~Live(w, w.slot[k].handle)
          \/ step.makes \in {"key", "temporary", "hmac", "policy"} /\ Room(w, step.makes) = {}
          \/ step.makes = "persist" /\ w.loaded[Persistent] # "none"
        E == Execute(w, step, sent)
        R == [E EXCEPT !.kept = IF 1 \in sent THEN {"slot"} ELSE @]
    IN IF refused THEN Fail(w, step, "refused")
       ELSE IF how = "lost" THEN [Fail(E, step, "lost") EXCEPT !.missed = @ \/ 1 \in sent]
       ELSE IF "encrypt" \in attrs /\ "dec" \in step.traits THEN Fail(R, step, "refused")
       ELSE Accept(R, step)

\* Slip: the nonce of a session that is taken out of its slot is not saved.
SavedNot(w) == w
Saved(w) == [w EXCEPT !.kept = IF "slot" \in @ THEN {"session"} ELSE {}]

\* A slot takes a session with the nonce that its structure has.
Seated(w, step) ==
    [w EXCEPT !.slot[step.index] = [handle |-> w.handle["session"], attrs |-> step.attrs],
              !.kept = IF step.index = 1 /\ "session" \in @ THEN {"session", "slot"} ELSE @]

Do(w, step, how) ==
    LET op == step.op
        at(h) == [handle |-> h, attrs |-> {}]
    IN CASE op = "command" -> Transmit(w, step, how)
         [] op = "unload" -> IF w.handle[step.into] \in {None, Persistent} THEN w
                             ELSE Transmit(w, step, how)
         [] op = "slot" -> [w EXCEPT !.slot[step.index] = at(step.value)]
         [] op = "handle" -> IF step.from = "key" /\ purpose = "policyKeys" THEN w
                             ELSE [w EXCEPT !.slot[0] = at(Password)]
         [] op = "session" -> Seated(w, step)
         [] op = "save" -> Saved(w)
         [] op = "put" -> Forgotten([w EXCEPT !.handle[step.into] = step.value], step.into)
         [] op = "copy" -> [w EXCEPT !.handle[step.into] = w.handle[step.from]]
         [] op = "reset" -> [w EXCEPT !.slot = [k \in 0..1 |-> at(None)], !.active = FALSE,
                                     !.kept = @ \ {"slot"}]
         [] op = "active" -> [w EXCEPT !.active = TRUE]
         [] op = "keyLoaded" -> [w EXCEPT !.hmacKeyLoaded = TRUE]
         [] op = "keyUnloaded" -> [w EXCEPT !.hmacKeyLoaded = FALSE]
         [] op = "error" -> Fail(w, step, "error")

\* What the TPM has loaded and no structure of the caller names as loaded.
Unnamed ==
    LET names(s, h) == handle[s] = h /\ (s = "hmacKey" => hmacKeyLoaded)
    IN {h \in Objects \union SessionIds :
          loaded[h] # "none" /\ \A s \in Structures : ~names(s, h)}

Before ==
    [handle |-> handle, hmacKeyLoaded |-> hmacKeyLoaded, slot |-> slot, loaded |-> loaded,
     kept |-> kept, missed |-> missed, active |-> active, failed |-> 0, ok |-> TRUE, new |-> {}]

\* A step is taken while nothing has failed.
Turn(w, step, how) == IF w.ok \/ step.always THEN Do(w, step, how) ELSE w

Done(script, outs) ==
    LET how(k) == IF k \in DOMAIN outs THEN outs[k] ELSE "ok"
        after[k \in 0..Len(script)] ==
          IF k = 0 THEN Before ELSE Turn(after[k - 1], script[k], how(k))
    IN after[Len(script)]

WrapperInit ==
    /\ handle = [s \in Structures |-> None] /\ hmacKeyLoaded = FALSE
    /\ purpose \in {"keys", "policyKeys", "hashes"}
    /\ slot = [k \in 0..1 |-> [handle |-> None, attrs |-> {}]]
    /\ loaded = [h \in Objects \union SessionIds \union {Persistent} |-> "none"]
    /\ kept = {} /\ missed = FALSE /\ active = FALSE /\ failed = 0

CallWrapper(script, outs) ==
    \E w \in {Done(script, outs)} :
       /\ handle' = [w.handle EXCEPT !["local"] = None]
       /\ hmacKeyLoaded' = w.hmacKeyLoaded /\ slot' = w.slot /\ loaded' = w.loaded
       /\ kept' = w.kept /\ missed' = w.missed /\ active' = w.active
       /\ failed' = IF Unnamed' \subseteq Unnamed THEN 0 ELSE w.failed
       /\ UNCHANGED purpose

Perform(calls) == \E call \in calls : CallWrapper(call[1], call[2])

\* The caller keeps to what the introduction says of it.
UseDevice ==
    \/ ~active /\ Perform(Starting)
    \/ active /\ slot[1].handle = None /\ Perform(Stopping)
    \/ active /\ Perform(Anytime)

UseKey ==
    /\ active /\ purpose # "hashes"
    /\ \/ handle["key"] \in Objects /\ Perform(WithKey)
       \/ handle["key"] = None /\ Perform(IntoKey)
       \/ handle["key"] = Persistent /\ Perform(Deleting)
       \/ handle["key"] = Counter /\ Perform(Agreeing)

UseHash ==
    /\ active /\ purpose = "hashes"
    /\ LET known == hmacKeyLoaded /\ handle["hmacKey"] # None
       IN \/ handle["hash"] = None /\ ~known /\ Perform(IntoHash)
          \/ handle["hash"] = None /\ known /\ Perform(IntoHashAgain)
          \/ handle["hash"] # None /\ Perform(WithHash)

UseSession ==
    /\ active
    /\ LET h == handle["session"]
       IN \/ h = None /\ Perform(IntoSession)
          \/ h # None /\ Perform(WithSession)
          \/ h # None /\ slot[1].handle = None /\ loaded[h] = "hmac" /\ Perform(Seat)
          \/ h # None /\ loaded[h] # "hmac" /\ Perform(SeatPolicy)
          \/ slot[1].handle # None /\ Perform(Unseat)

WrapperNext == UseDevice \/ UseKey \/ UseHash \/ UseSession

WrapperSpec == WrapperInit /\ [][WrapperNext]_wrapperVars

-----------------------------------------------------------------------------
(* Properties.                                                             *)

\* The limited room of the TPM is not lost silently: a call leaves behind, without a handle
\* to unload it by, at most one object or session for each of its steps that failed, and
\* whatever handle a structure comes to hold is that of something loaded.
HandlesAccountedFor ==
    [][ /\ Cardinality(Unnamed' \ Unnamed) <= failed'
        /\ \A s \in Structures :
             handle'[s] # handle[s] /\ handle'[s] \in Objects \union SessionIds =>
               loaded'[handle'[s]] # "none" ]_wrapperVars

\* The TPM's last nonce of an HMAC session is where its next use takes it from ("save off
\* nonce from TPM to support continued use of session", tpm2_wrap.c:778): in slot 1 while
\* the session is in use, and otherwise in the session's structure.
NonceKept ==
    LET h == handle["session"]
    IN h \in SessionIds /\ loaded[h] = "hmac" /\ ~missed =>
         IF slot[1].handle = h THEN "slot" \in kept ELSE "session" \in kept
=============================================================================
