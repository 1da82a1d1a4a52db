---------------------------- MODULE TPM2Commands ----------------------------
(***************************************************************************)
(* The commands of the wolfTPM library (tpm2.c, "Standard TPM API's"), as  *)
(* the functions TPM2_* build them and read their answers.                 *)
(*                                                                         *)
(* Each function is one of four kinds:                                     *)
(*   Plain       sent with TPM2_SendCommand and never with sessions;       *)
(*   Authorized  refused at once (BAD_FUNC_ARG) when no sessions are set,  *)
(*               tagged TPM_ST_SESSIONS and sent with TPM2_SendCommandAuth;*)
(*   Unguarded   the same without that guard;                              *)
(*   Open        tagged as TPM2_Packet_AppendAuth finds: with sessions when*)
(*               one of them applies, and plain otherwise.                 *)
(* "handles" is the number of handles that are appended before the         *)
(* authorization area.  inHandleCnt, outHandleCnt and flags are what the   *)
(* function puts into CmdInfo_t for TPM2_SendCommandAuth: enc and dec for   *)
(* CMD_FLAG_ENC2 and DEC2, user1, user2, admin and dup for CMD_FLAG_AUTH_*. *)
(* "in" is what is appended after the authorization area, and "out" what   *)
(* is read from behind the answer's header, each by the names of TPM2Packet.*)
(* An Open function reads paramSz only if the command was sent with        *)
(* sessions.  The vendors' own commands are not compiled for this TPM.     *)
(***************************************************************************)
EXTENDS TPM2Packet

Command(kind, handles, inHandleCnt, outHandleCnt, flags, in, out) ==
    [kind |-> kind, handles |-> handles, inHandleCnt |-> inHandleCnt,
     outHandleCnt |-> outHandleCnt, flags |-> flags, in |-> in, out |-> out]

Plain(handles, in, out) == Command("plain", handles, 0, 0, {}, in, out)

Authorized(handles, inHandleCnt, outHandleCnt, flags, in, out) ==
    Command("authorized", handles, inHandleCnt, outHandleCnt, flags, in, out)

Unguarded(handles, inHandleCnt, outHandleCnt, flags, in, out) ==
    Command("unguarded", handles, inHandleCnt, outHandleCnt, flags, in, out)

Open(handles, inHandleCnt, outHandleCnt, flags, in, out) ==
    Command("open", handles, inHandleCnt, outHandleCnt, flags, in, out)

-----------------------------------------------------------------------------
(* Start, tests, capabilities, random numbers and PCRs.                    *)

TPM2_Startup == Plain(0, << "startupType" >>, << >>)
TPM2_Shutdown == Plain(0, << "shutdownType" >>, << >>)
TPM2_SelfTest == Plain(0, << "fullTest" >>, << >>)
TPM2_IncrementalSelfTest == Plain(0, << "list" >>, << "list" >>)
TPM2_GetTestResult == Plain(0, << >>, << "2b", "testResult" >>)
TPM2_GetCapability ==
    Plain(0,
               << "capability", "property", "propertyCount" >>,
               << "moreData", "capability", "list" >>)
TPM2_GetRandom == Plain(0, << "bytesRequested" >>, << "2b" >>)
TPM2_StirRandom == Plain(0, << "2b" >>, << >>)
TPM2_PCR_Read == Plain(0, << "pcr" >>, << "pcrUpdateCounter", "pcr", "list" >>)
TPM2_PCR_Extend == Authorized(1, 1, 0, {"user1"}, << "list" >>, << >>)

-----------------------------------------------------------------------------
(* Objects.                                                                *)

TPM2_Create ==
    Authorized(1, 1, 0, {"enc", "dec", "user1"},
               << "sensitiveCreate", "public", "2b", "pcr" >>,
               << "paramSz", "2b", "public", "creationData", "2b",
                  "ticket" >>)
TPM2_CreateLoaded ==
    Authorized(1, 1, 0, {"enc", "dec", "user1"},
               << "sensitiveCreate", "public" >>,
               << "handle", "paramSz", "2b", "public", "2b" >>)
TPM2_CreatePrimary ==
    Authorized(1, 1, 1, {"enc", "dec", "user1"},
               << "sensitiveCreate", "public", "2b", "pcr" >>,
               << "handle", "paramSz", "public", "creationData", "2b",
                  "ticket", "2b" >>)
TPM2_Load ==
    Authorized(1, 1, 1, {"enc", "dec", "user1"},
               << "2b", "public" >>, << "handle", "paramSz", "2b" >>)
TPM2_FlushContext == Plain(1, << >>, << >>)
TPM2_Unseal ==
    Authorized(1, 1, 0, {"dec", "user1"}, << >>, << "paramSz", "2b" >>)

-----------------------------------------------------------------------------
(* Sessions and objects.                                                   *)

TPM2_StartAuthSession ==
    Plain(2,
               << "2b", "2b", "sessionType", "symmetric", "authHash" >>,
               << "handle", "2b" >>)
TPM2_PolicyRestart == Plain(1, << >>, << >>)

-----------------------------------------------------------------------------
(* Objects, keys and their credentials.                                    *)

TPM2_LoadExternal ==
    Open(0, 0, 1, {"enc", "dec"},
               << "sensitive", "public", "hierarchy" >>, << "handle", "paramSz", "2b" >>)
TPM2_ReadPublic == Plain(1, << >>, << "public", "2b", "2b" >>)
TPM2_ActivateCredential ==
    Authorized(2, 2, 0, {"enc", "dec", "admin", "user2"},
               << "2b", "2b" >>, << "paramSz", "2b" >>)
TPM2_MakeCredential == Plain(1, << "2b", "2b" >>, << "2b", "2b" >>)
TPM2_ObjectChangeAuth ==
    Authorized(2, 2, 0, {"enc", "dec", "admin"}, << "2b" >>, << "paramSz", "2b" >>)
TPM2_Duplicate ==
    Authorized(2, 2, 0, {"enc", "dec", "dup"},
               << "2b", "algorithm", "keyBits", "mode" >>,
               << "paramSz", "2b", "2b", "2b" >>)
TPM2_Rewrap ==
    Authorized(2, 2, 0, {"enc", "dec", "user1"},
               << "2b", "2b", "2b" >>, << "paramSz", "2b", "2b" >>)
TPM2_Import ==
    Unguarded(1, 1, 0, {"enc", "dec", "user1"},
               << "2b", "public", "2b", "2b", "symmetric" >>, << "paramSz", "2b" >>)

-----------------------------------------------------------------------------
(* Asymmetric and symmetric ciphers.                                       *)

TPM2_RSA_Encrypt ==
    Open(1, 1, 0, {"enc", "dec"}, << "2b", "scheme", "2b" >>, << "paramSz", "2b" >>)
TPM2_RSA_Decrypt ==
    Authorized(1, 1, 0, {"enc", "dec", "user1"},
               << "2b", "scheme", "2b" >>, << "paramSz", "2b" >>)
TPM2_ECDH_KeyGen ==
    Open(1, 1, 0, {"dec"}, << >>, << "paramSz", "point", "point" >>)
TPM2_ECDH_ZGen ==
    Authorized(1, 1, 0, {"enc", "dec", "user1"},
               << "point" >>, << "paramSz", "point" >>)
TPM2_ECC_Parameters ==
    Plain(0,
               << "curveID" >>,
               << "curveID", "keySize", "scheme", "scheme", "2b",
                  "2b", "2b", "2b", "2b", "2b", "2b" >>)
TPM2_ZGen_2Phase ==
    Authorized(1, 1, 0, {"enc", "dec", "user1"},
               << "point", "point", "inScheme", "counter" >>,
               << "paramSz", "point", "point" >>)
\* Slip: the flags of EncryptDecrypt2 for a command that begins with a byte.
EncryptDecryptEncrypted ==
    Authorized(1, 1, 0, {"enc", "dec", "user1"},
               << "decrypt", "mode", "2b", "2b" >>, << "paramSz", "2b", "2b" >>)
TPM2_EncryptDecrypt ==
    Authorized(1, 1, 0, {"dec", "user1"},
               << "decrypt", "mode", "2b", "2b" >>, << "paramSz", "2b", "2b" >>)
TPM2_EncryptDecrypt2 ==
    Authorized(1, 1, 0, {"enc", "dec", "user1"},
               << "2b", "decrypt", "mode", "2b" >>, << "paramSz", "2b", "2b" >>)

-----------------------------------------------------------------------------
(* Hashes, HMACs and sequences.                                            *)

TPM2_Hash ==
    Open(0, 0, 0, {"enc", "dec"},
               << "2b", "hashAlg", "hierarchy" >>, << "paramSz", "2b", "ticket" >>)
TPM2_HMAC ==
    Authorized(1, 1, 0, {"enc", "dec", "user1"},
               << "2b", "hashAlg" >>, << "paramSz", "2b" >>)
\* Slip: the sequence that is started is not counted among the handles.
HMAC_StartUncounted ==
    Authorized(1, 1, 0, {"enc", "user1"}, << "2b", "hashAlg" >>, << "handle", "paramSz" >>)
TPM2_HMAC_Start ==
    Authorized(1, 1, 1, {"enc", "user1"},
               << "2b", "hashAlg" >>, << "handle", "paramSz" >>)
TPM2_HashSequenceStart ==
    Open(0, 0, 1, {"enc"}, << "2b", "hashAlg" >>, << "handle" >>)
TPM2_SequenceUpdate == Authorized(1, 1, 0, {"enc", "user1"}, << "2b" >>, << >>)
TPM2_SequenceComplete ==
    Authorized(1, 1, 0, {"enc", "dec", "user1"},
               << "2b", "hierarchy" >>, << "paramSz", "2b", "ticket" >>)
TPM2_EventSequenceComplete ==
    Authorized(2, 2, 0, {"enc", "user1", "user2"},
               << "2b" >>, << "paramSz", "list" >>)

-----------------------------------------------------------------------------
(* Attestation and signatures.                                             *)

TPM2_Certify ==
    Authorized(2, 2, 0, {"enc", "dec", "admin", "user2"},
               << "2b", "inScheme", "hashAlg" >>, << "paramSz", "2b", "signature" >>)
TPM2_CertifyCreation ==
    Authorized(2, 2, 0, {"enc", "dec", "user1"},
               << "2b", "2b", "inScheme", "hashAlg", "ticket" >>,
               << "paramSz", "2b", "signature" >>)
TPM2_Quote ==
    Authorized(1, 1, 0, {"enc", "dec", "user1"},
               << "2b", "inScheme", "hashAlg", "pcr" >>,
               << "paramSz", "2b", "signature" >>)
TPM2_GetSessionAuditDigest ==
    Authorized(3, 2, 0, {"enc", "dec", "user1", "user2"},
               << "2b", "inScheme", "hashAlg" >>, << "paramSz", "2b", "signature" >>)
TPM2_GetCommandAuditDigest ==
    Authorized(2, 2, 0, {"enc", "dec", "user1", "user2"},
               << "2b", "inScheme", "hashAlg" >>, << "paramSz", "2b", "signature" >>)
TPM2_GetTime ==
    Authorized(2, 2, 0, {"enc", "dec", "user1", "user2"},
               << "2b", "inScheme", "hashAlg" >>, << "paramSz", "2b", "signature" >>)
TPM2_Commit ==
    Authorized(1, 1, 0, {"enc", "dec", "user1"},
               << "point", "2b", "2b" >>,
               << "paramSz", "point", "point", "point", "counter" >>)
TPM2_EC_Ephemeral ==
    Open(0, 0, 0, {"dec"}, << "curveID" >>, << "paramSz", "point", "counter" >>)
TPM2_VerifySignature ==
    Open(1, 1, 0, {"enc"}, << "2b", "signature" >>, << "paramSz", "ticket" >>)
TPM2_Sign ==
    Authorized(1, 1, 0, {"enc", "user1"},
               << "2b", "scheme", "ticket" >>, << "paramSz", "signature" >>)

-----------------------------------------------------------------------------
(* Audit and PCRs.                                                         *)

TPM2_SetCommandCodeAuditStatus ==
    Authorized(1, 1, 0, {"user1"}, << "auditAlg", "list", "list" >>, << >>)
TPM2_PCR_Event ==
    Authorized(1, 1, 0, {"enc", "user1"}, << "2b" >>, << "paramSz", "list" >>)
TPM2_PCR_Allocate ==
    Authorized(1, 1, 0, {"user1"},
               << "pcr" >>,
               << "paramSz", "allocationSuccess", "maxPCR",
                  "sizeNeeded", "sizeAvailable" >>)
TPM2_PCR_SetAuthPolicy ==
    Authorized(1, 1, 0, {"enc"}, << "2b", "hashAlg", "pcrNum" >>, << >>)
TPM2_PCR_SetAuthValue ==
    Authorized(1, 1, 0, {"enc", "user1"}, << "2b" >>, << >>)
TPM2_PCR_Reset == Authorized(1, 1, 0, {"user1"}, << >>, << >>)

-----------------------------------------------------------------------------
(* Policies.                                                               *)

TPM2_PolicySigned ==
    Open(2, 2, 0, {"enc", "dec"},
               << "2b", "2b", "2b", "expiration", "signature" >>,
               << "paramSz", "2b", "ticket" >>)
TPM2_PolicySecret ==
    Authorized(2, 2, 0, {"enc", "dec", "user1"},
               << "2b", "2b", "2b", "expiration" >>, << "paramSz", "2b", "ticket" >>)
TPM2_PolicyTicket == Open(1, 1, 0, {"enc"}, << "2b", "2b", "2b", "2b" >>, << >>)
TPM2_PolicyOR == Plain(1, << "list" >>, << >>)
TPM2_PolicyPCR == Open(1, 1, 0, {"enc"}, << "2b", "pcr" >>, << >>)
TPM2_PolicyLocality == Plain(1, << "locality" >>, << >>)
TPM2_PolicyNV ==
    Authorized(3, 3, 0, {"enc", "user1"}, << "2b", "offset", "operation" >>, << >>)
TPM2_PolicyCounterTimer ==
    Open(1, 1, 0, {"enc"}, << "2b", "offset", "operation" >>, << >>)
TPM2_PolicyCommandCode == Plain(1, << "code" >>, << >>)
TPM2_PolicyCpHash == Open(1, 1, 0, {"enc"}, << "2b" >>, << >>)
TPM2_PolicyNameHash == Open(1, 1, 0, {"enc"}, << "2b" >>, << >>)
TPM2_PolicyDuplicationSelect ==
    Open(1, 1, 0, {"enc"}, << "2b", "2b", "includeObject" >>, << >>)
TPM2_PolicyAuthorize ==
    Open(1, 1, 0, {"enc"}, << "2b", "2b", "2b", "ticket" >>, << >>)
TPM2_PolicySessionOnly == Plain(1, << >>, << >>)
TPM2_PolicyPhysicalPresence == TPM2_PolicySessionOnly
TPM2_PolicyAuthValue == TPM2_PolicySessionOnly
TPM2_PolicyPassword == TPM2_PolicySessionOnly
TPM2_PolicyGetDigest == Open(1, 1, 0, {"dec"}, << >>, << "paramSz", "2b" >>)
TPM2_PolicyNvWritten == Plain(1, << "writtenSet" >>, << >>)
TPM2_PolicyTemplate == Open(1, 1, 0, {"enc"}, << "2b" >>, << >>)
TPM2_PolicyAuthorizeNV == Authorized(3, 3, 0, {"user1"}, << >>, << >>)

-----------------------------------------------------------------------------
(* Hierarchies, lockout and firmware.                                      *)

TPM2_HierarchyControl ==
    Authorized(1, 1, 0, {"user1"}, << "enable", "state" >>, << >>)
TPM2_SetPrimaryPolicy ==
    Authorized(1, 1, 0, {"enc", "user1"}, << "2b", "hashAlg" >>, << >>)
TPM2_ChangeSeed == Authorized(1, 1, 0, {"user1"}, << >>, << >>)
TPM2_ChangePPS == TPM2_ChangeSeed
TPM2_ChangeEPS == TPM2_ChangeSeed
TPM2_Clear == Authorized(1, 1, 0, {"user1"}, << >>, << >>)
TPM2_ClearControl == Authorized(1, 1, 0, {"user1"}, << "disable" >>, << >>)
TPM2_HierarchyChangeAuth ==
    Authorized(1, 1, 0, {"enc", "user1"}, << "2b" >>, << >>)
TPM2_DictionaryAttackLockReset == Authorized(1, 1, 0, {"user1"}, << >>, << >>)
TPM2_DictionaryAttackParameters ==
    Authorized(1, 1, 0, {"user1"},
               << "newMaxTries", "newRecoveryTime", "lockoutRecovery" >>, << >>)
TPM2_PP_Commands == Authorized(1, 1, 0, {"user1"}, << "list", "list" >>, << >>)
TPM2_SetAlgorithmSet ==
    Authorized(1, 1, 0, {"user1"}, << "algorithmSet" >>, << >>)
TPM2_FieldUpgradeStart ==
    Authorized(2, 2, 0, {"enc", "admin"}, << "2b", "signature" >>, << >>)
TPM2_FieldUpgradeData ==
    Open(0, 0, 0, {"enc"}, << "2b" >>, << "paramSz", "ha", "ha" >>)
TPM2_FirmwareRead ==
    Open(0, 0, 0, {"dec"}, << "sequenceNumber" >>, << "paramSz", "2b" >>)

-----------------------------------------------------------------------------
(* Contexts, persistent objects, clock.                                    *)

TPM2_ContextSave ==
    Plain(1, << >>, << "sequence", "savedHandle", "hierarchy", "2b" >>)
TPM2_ContextLoad ==
    Plain(0, << "sequence", "savedHandle", "hierarchy", "2b" >>, << "handle" >>)
TPM2_EvictControl ==
    Unguarded(2, 2, 0, {"user1"}, << "persistentHandle" >>, << >>)
TPM2_ReadClock ==
    Open(0, 0, 0, {},
               << >>,
               << "paramSz", "time", "clock", "resetCount",
                  "restartCount", "safe" >>)
TPM2_ClockSet == Authorized(1, 1, 0, {"user1"}, << "newTime" >>, << >>)
TPM2_ClockRateAdjust ==
    Authorized(1, 1, 0, {"user1"}, << "rateAdjust" >>, << >>)
TPM2_TestParms == Open(0, 0, 0, {}, << "parms" >>, << >>)

-----------------------------------------------------------------------------
(* NV memory.                                                              *)

TPM2_NV_DefineSpace ==
    Authorized(1, 1, 0, {"enc", "user1"}, << "2b", "nvPublic" >>, << >>)
TPM2_NV_UndefineSpace == Authorized(2, 2, 0, {"user1"}, << >>, << >>)
TPM2_NV_UndefineSpaceSpecial ==
    Authorized(2, 2, 0, {"admin", "user2"}, << >>, << >>)
TPM2_NV_ReadPublic ==
    Open(1, 1, 0, {"dec"}, << >>, << "paramSz", "nvPublic", "2b" >>)
TPM2_NV_Write ==
    Authorized(2, 2, 0, {"enc", "user1"}, << "2b", "offset" >>, << >>)
TPM2_NV_Increment == Authorized(2, 2, 0, {"user1"}, << >>, << >>)
TPM2_NV_Extend == Authorized(2, 2, 0, {"enc", "user1"}, << "2b" >>, << >>)
TPM2_NV_SetBits == Authorized(2, 2, 0, {"user1"}, << "bits" >>, << >>)
TPM2_NV_WriteLock == Authorized(2, 2, 0, {"user1"}, << >>, << >>)
TPM2_NV_GlobalWriteLock == Authorized(1, 1, 0, {"user1"}, << >>, << >>)
TPM2_NV_Read ==
    Authorized(2, 2, 0, {"dec", "user1"},
               << "size", "offset" >>, << "paramSz", "2b" >>)
TPM2_NV_ReadLock == Authorized(2, 2, 0, {"user1"}, << >>, << >>)
TPM2_NV_ChangeAuth == Authorized(1, 1, 0, {"enc", "admin"}, << "2b" >>, << >>)
TPM2_NV_Certify ==
    Authorized(3, 3, 0, {"enc", "dec", "user1", "user2"},
               << "2b", "inScheme", "hashAlg", "size", "offset" >>,
               << "paramSz", "2b", "signature" >>)

-----------------------------------------------------------------------------
\* Every function under its name.
Commands ==
    [Startup |-> TPM2_Startup, Shutdown |-> TPM2_Shutdown, SelfTest |-> TPM2_SelfTest,
     IncrementalSelfTest |-> TPM2_IncrementalSelfTest,
     GetTestResult |-> TPM2_GetTestResult, GetCapability |-> TPM2_GetCapability,
     GetRandom |-> TPM2_GetRandom, StirRandom |-> TPM2_StirRandom,
     PCR_Read |-> TPM2_PCR_Read, PCR_Extend |-> TPM2_PCR_Extend,
     Create |-> TPM2_Create, CreateLoaded |-> TPM2_CreateLoaded,
     CreatePrimary |-> TPM2_CreatePrimary, Load |-> TPM2_Load,
     FlushContext |-> TPM2_FlushContext, Unseal |-> TPM2_Unseal,
     StartAuthSession |-> TPM2_StartAuthSession, PolicyRestart |-> TPM2_PolicyRestart,
     LoadExternal |-> TPM2_LoadExternal, ReadPublic |-> TPM2_ReadPublic,
     ActivateCredential |-> TPM2_ActivateCredential,
     MakeCredential |-> TPM2_MakeCredential,
     ObjectChangeAuth |-> TPM2_ObjectChangeAuth, Duplicate |-> TPM2_Duplicate,
     Rewrap |-> TPM2_Rewrap, Import |-> TPM2_Import, RSA_Encrypt |-> TPM2_RSA_Encrypt,
     RSA_Decrypt |-> TPM2_RSA_Decrypt, ECDH_KeyGen |-> TPM2_ECDH_KeyGen,
     ECDH_ZGen |-> TPM2_ECDH_ZGen, ECC_Parameters |-> TPM2_ECC_Parameters,
     ZGen_2Phase |-> TPM2_ZGen_2Phase, EncryptDecrypt |-> TPM2_EncryptDecrypt,
     EncryptDecrypt2 |-> TPM2_EncryptDecrypt2, Hash |-> TPM2_Hash, HMAC |-> TPM2_HMAC,
     HMAC_Start |-> TPM2_HMAC_Start, HashSequenceStart |-> TPM2_HashSequenceStart,
     SequenceUpdate |-> TPM2_SequenceUpdate,
     SequenceComplete |-> TPM2_SequenceComplete,
     EventSequenceComplete |-> TPM2_EventSequenceComplete, Certify |-> TPM2_Certify,
     CertifyCreation |-> TPM2_CertifyCreation, Quote |-> TPM2_Quote,
     GetSessionAuditDigest |-> TPM2_GetSessionAuditDigest,
     GetCommandAuditDigest |-> TPM2_GetCommandAuditDigest, GetTime |-> TPM2_GetTime,
     Commit |-> TPM2_Commit, EC_Ephemeral |-> TPM2_EC_Ephemeral,
     VerifySignature |-> TPM2_VerifySignature, Sign |-> TPM2_Sign,
     SetCommandCodeAuditStatus |-> TPM2_SetCommandCodeAuditStatus,
     PCR_Event |-> TPM2_PCR_Event, PCR_Allocate |-> TPM2_PCR_Allocate,
     PCR_SetAuthPolicy |-> TPM2_PCR_SetAuthPolicy,
     PCR_SetAuthValue |-> TPM2_PCR_SetAuthValue, PCR_Reset |-> TPM2_PCR_Reset,
     PolicySigned |-> TPM2_PolicySigned, PolicySecret |-> TPM2_PolicySecret,
     PolicyTicket |-> TPM2_PolicyTicket, PolicyOR |-> TPM2_PolicyOR,
     PolicyPCR |-> TPM2_PolicyPCR, PolicyLocality |-> TPM2_PolicyLocality,
     PolicyNV |-> TPM2_PolicyNV, PolicyCounterTimer |-> TPM2_PolicyCounterTimer,
     PolicyCommandCode |-> TPM2_PolicyCommandCode, PolicyCpHash |-> TPM2_PolicyCpHash,
     PolicyNameHash |-> TPM2_PolicyNameHash,
     PolicyDuplicationSelect |-> TPM2_PolicyDuplicationSelect,
     PolicyAuthorize |-> TPM2_PolicyAuthorize,
     PolicyPhysicalPresence |-> TPM2_PolicyPhysicalPresence,
     PolicyAuthValue |-> TPM2_PolicyAuthValue, PolicyPassword |-> TPM2_PolicyPassword,
     PolicyGetDigest |-> TPM2_PolicyGetDigest,
     PolicyNvWritten |-> TPM2_PolicyNvWritten, PolicyTemplate |-> TPM2_PolicyTemplate,
     PolicyAuthorizeNV |-> TPM2_PolicyAuthorizeNV,
     HierarchyControl |-> TPM2_HierarchyControl,
     SetPrimaryPolicy |-> TPM2_SetPrimaryPolicy, ChangePPS |-> TPM2_ChangePPS,
     ChangeEPS |-> TPM2_ChangeEPS, Clear |-> TPM2_Clear,
     ClearControl |-> TPM2_ClearControl,
     HierarchyChangeAuth |-> TPM2_HierarchyChangeAuth,
     DictionaryAttackLockReset |-> TPM2_DictionaryAttackLockReset,
     DictionaryAttackParameters |-> TPM2_DictionaryAttackParameters,
     PP_Commands |-> TPM2_PP_Commands, SetAlgorithmSet |-> TPM2_SetAlgorithmSet,
     FieldUpgradeStart |-> TPM2_FieldUpgradeStart,
     FieldUpgradeData |-> TPM2_FieldUpgradeData, FirmwareRead |-> TPM2_FirmwareRead,
     ContextSave |-> TPM2_ContextSave, ContextLoad |-> TPM2_ContextLoad,
     EvictControl |-> TPM2_EvictControl, ReadClock |-> TPM2_ReadClock,
     ClockSet |-> TPM2_ClockSet, ClockRateAdjust |-> TPM2_ClockRateAdjust,
     TestParms |-> TPM2_TestParms, NV_DefineSpace |-> TPM2_NV_DefineSpace,
     NV_UndefineSpace |-> TPM2_NV_UndefineSpace,
     NV_UndefineSpaceSpecial |-> TPM2_NV_UndefineSpaceSpecial,
     NV_ReadPublic |-> TPM2_NV_ReadPublic, NV_Write |-> TPM2_NV_Write,
     NV_Increment |-> TPM2_NV_Increment, NV_Extend |-> TPM2_NV_Extend,
     NV_SetBits |-> TPM2_NV_SetBits, NV_WriteLock |-> TPM2_NV_WriteLock,
     NV_GlobalWriteLock |-> TPM2_NV_GlobalWriteLock, NV_Read |-> TPM2_NV_Read,
     NV_ReadLock |-> TPM2_NV_ReadLock, NV_ChangeAuth |-> TPM2_NV_ChangeAuth,
     NV_Certify |-> TPM2_NV_Certify]

\* What the TPM answers a command with: at most one handle, and parameters.
OutHandles(d) == IF d.out # << >> /\ d.out[1] = "handle" THEN 1 ELSE 0
Results(d) == SelectSeq(d.out, LAMBDA k : k \notin {"handle", "paramSz"})

\* What an Open function reads when the command was sent without sessions.
Unsized(d) == SelectSeq(d.out, LAMBDA k : k # "paramSz")

\* Two functions do not tell CmdInfo_t of all their handles: GetSessionAuditDigest
\* appends three and counts two, and CreateLoaded does not count the one it reads.
Miscounted == {"GetSessionAuditDigest", "CreateLoaded"}
=============================================================================
