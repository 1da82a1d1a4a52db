----------------------------- MODULE TPM2Packet -----------------------------
(***************************************************************************)
(* How the wolfTPM library marshals (tpm2_packet.c): which fields the      *)
(* Append functions write, which the Parse functions read, and in which    *)
(* order.  A layout is the sequence of the fields' names; what a field     *)
(* holds matters only where another field's presence depends on it, and    *)
(* that is the "shape" of a structure:                                     *)
(*   type       the type of an object's public area                        *)
(*   algorithm  the algorithm of a symmetric definition                    *)
(*   scheme     whether a scheme names a hash, or is TPM_ALG_NULL          *)
(*   sigAlg     the kind of a signature                                    *)
(*   private    whether LoadExternal is given a private part               *)
(* A packet that is too small for a field drops it (the command buffer is  *)
(* larger than any command); this is left out.                             *)
(***************************************************************************)
EXTENDS Naturals, SequencesExt

Shapes == [type : {"keyedhash", "symcipher", "rsa", "ecc", "other"},
           algorithm : {"xor", "aes", "null", "other"},
           scheme : {"null", "hash"},
           sigAlg : {"ecdsa", "rsa", "hmac", "other"},
           private : {"absent", "present"}]

\* MarkU16 ... PlaceU16: the size is placed in front when the structure is complete.
PlaceU16(layout) == << "size" >> \o layout

\* A TPM2B: the size and as many bytes.
TPM2B == << "size", "buffer" >>

-----------------------------------------------------------------------------
(* What is written.                                                        *)

AppendSymmetric(shape) ==
    << "algorithm" >> \o CASE shape.algorithm = "xor"  -> << "keyBits" >>
                           [] shape.algorithm = "null" -> << >>
                           [] OTHER                    -> << "keyBits", "mode" >>

\* The schemes of an ECC key, an RSA key, a keyed hash, a KDF and of any other key.
AppendEccScheme(shape) ==
    << "scheme" >> \o IF shape.scheme = "null" THEN << >> ELSE << "hashAlg" >>
AppendRsaScheme(shape) ==
    << "scheme" >> \o IF shape.scheme = "null" THEN << >> ELSE << "hashAlg" >>
AppendKeyedHashScheme(shape) ==
    << "scheme" >> \o IF shape.scheme = "null" THEN << >> ELSE << "hashAlg" >>
AppendKdfScheme(shape) ==
    << "scheme" >> \o IF shape.scheme = "null" THEN << >> ELSE << "hashAlg" >>
AppendAsymScheme(shape) ==
    << "scheme" >> \o IF shape.scheme = "null" THEN << >> ELSE << "hashAlg" >>

AppendPCR == << "count", "hash", "sizeofSelect", "pcrSelect" >>

AppendEccPoint == << "x.size", "x", "y.size", "y" >>

AppendPoint == PlaceU16(AppendEccPoint)

AppendSensitiveCreate ==
    PlaceU16(<< "userAuth.size", "userAuth", "data.size", "data" >>)

AppendPublicParms(shape) ==
    CASE shape.type = "keyedhash" -> AppendKeyedHashScheme(shape)
      [] shape.type = "symcipher" -> << "algorithm", "keyBits", "mode" >>
      [] shape.type = "rsa" -> AppendSymmetric(shape) \o AppendRsaScheme(shape)
                                 \o << "keyBits", "exponent" >>
      [] shape.type = "ecc" -> AppendSymmetric(shape) \o AppendEccScheme(shape)
                                 \o << "curveID" >> \o AppendKdfScheme(shape)
      [] OTHER -> AppendSymmetric(shape) \o AppendAsymScheme(shape)

AppendPublicArea(shape) ==
    << "type", "nameAlg", "objectAttributes", "authPolicy.size", "authPolicy" >>
      \o AppendPublicParms(shape)
      \o CASE shape.type \in {"keyedhash", "symcipher", "rsa"} -> << "unique.size", "unique" >>
           [] shape.type = "ecc" -> AppendEccPoint
           [] OTHER -> << >>

AppendPublic(shape) == PlaceU16(AppendPublicArea(shape))

AppendSignature(shape) ==
    << "sigAlg" >>
      \o CASE shape.sigAlg = "ecdsa" -> << "hash", "r.size", "r", "s.size", "s" >>
           [] shape.sigAlg = "rsa"   -> << "hash", "sig.size", "sig" >>
           [] shape.sigAlg = "hmac"  -> << "hashAlg", "digest" >>
           [] OTHER -> << >>

-----------------------------------------------------------------------------
(* What is read.                                                           *)

ParseSymmetric(shape) ==
    << "algorithm" >> \o CASE shape.algorithm = "xor"  -> << "keyBits" >>
                           [] shape.algorithm = "null" -> << >>
                           [] OTHER                    -> << "keyBits", "mode" >>

ParseEccScheme(shape) ==
    << "scheme" >> \o IF shape.scheme = "null" THEN << >> ELSE << "hashAlg" >>
ParseRsaScheme(shape) ==
    << "scheme" >> \o IF shape.scheme = "null" THEN << >> ELSE << "hashAlg" >>
ParseKeyedHashScheme(shape) ==
    << "scheme" >> \o IF shape.scheme = "null" THEN << >> ELSE << "hashAlg" >>
ParseKdfScheme(shape) ==
    << "scheme" >> \o IF shape.scheme = "null" THEN << >> ELSE << "hashAlg" >>
ParseAsymScheme(shape) ==
    << "scheme" >> \o IF shape.scheme = "null" THEN << >> ELSE << "hashAlg" >>

ParsePCR == << "count", "hash", "sizeofSelect", "pcrSelect" >>

ParseEccPoint == << "x.size", "x", "y.size", "y" >>

ParsePoint == << "size" >> \o ParseEccPoint

ParsePublicParms(shape) ==
    CASE shape.type = "keyedhash" -> ParseKeyedHashScheme(shape)
      [] shape.type = "symcipher" -> << "algorithm", "keyBits", "mode" >>
      [] shape.type = "rsa" -> ParseSymmetric(shape) \o ParseRsaScheme(shape)
                                 \o << "keyBits", "exponent" >>
      [] shape.type = "ecc" -> ParseSymmetric(shape) \o ParseEccScheme(shape)
                                 \o << "curveID" >> \o ParseKdfScheme(shape)
      [] OTHER -> ParseSymmetric(shape) \o ParseAsymScheme(shape)

\* The public areas the TPM answers with are never empty.
ParsePublic(shape) ==
    << "size", "type", "nameAlg", "objectAttributes", "authPolicy.size", "authPolicy" >>
      \o ParsePublicParms(shape)
      \o CASE shape.type \in {"keyedhash", "symcipher", "rsa"} -> << "unique.size", "unique" >>
           [] shape.type = "ecc" -> ParseEccPoint
           [] OTHER -> << >>

ParseSignature(shape) ==
    << "sigAlg" >>
      \o CASE shape.sigAlg = "ecdsa" -> << "hash", "r.size", "r", "s.size", "s" >>
           [] shape.sigAlg = "rsa"   -> << "hash", "sig.size", "sig" >>
           [] shape.sigAlg = "hmac"  -> << "hashAlg", "digest" >>
           [] OTHER -> << >>

-----------------------------------------------------------------------------
(* Commands name the structures they carry.                                *)

\* The structures that the functions of tpm2.c write field by field.
Composed(kind) ==
    CASE kind = "2b"     -> TPM2B
      [] kind = "list"   -> << "count", "elements" >>
      [] kind = "ha"     -> << "hashAlg", "digest" >>
      [] kind = "ticket" -> << "tag", "hierarchy" >> \o TPM2B
      [] kind = "creationData" ->
            << "size" >> \o ParsePCR \o TPM2B \o << "locality", "parentNameAlg" >>
               \o TPM2B \o TPM2B \o TPM2B
      [] kind = "nvPublic" -> PlaceU16(<< "nvIndex", "nameAlg", "attributes" >> \o TPM2B
                                          \o << "dataSize" >>)
      [] OTHER -> << kind >>

\* A scheme that the functions of tpm2.c write or read themselves.
SchemeAndHash(shape) ==
    << "scheme" >> \o IF shape.scheme = "null" THEN << >> ELSE << "hashAlg" >>

\* The private part that LoadExternal writes.
Sensitive(shape) ==
    IF shape.private = "absent" THEN << "size" >>
    ELSE PlaceU16(<< "sensitiveType" >> \o TPM2B \o TPM2B \o TPM2B)

AppendKind(kind, shape) ==
    CASE kind = "pcr"       -> AppendPCR
      [] kind = "symmetric" -> AppendSymmetric(shape)
      [] kind = "scheme"    -> SchemeAndHash(shape)
      [] kind = "sensitive" -> Sensitive(shape)
      [] kind = "point"     -> AppendPoint
      [] kind = "public"    -> AppendPublic(shape)
      [] kind = "parms"     -> << "type" >> \o AppendPublicParms(shape)
      [] kind = "sensitiveCreate" -> AppendSensitiveCreate
      [] kind = "signature" -> AppendSignature(shape)
      [] OTHER              -> Composed(kind)

ParseKind(kind, shape) ==
    CASE kind = "pcr"       -> ParsePCR
      [] kind = "scheme"    -> SchemeAndHash(shape)
      [] kind = "point"     -> ParsePoint
      [] kind = "public"    -> ParsePublic(shape)
      [] kind = "signature" -> ParseSignature(shape)
      [] OTHER              -> Composed(kind)

Written(kinds, shape) == FlattenSeq([i \in DOMAIN kinds |-> AppendKind(kinds[i], shape)])
Read(kinds, shape) == FlattenSeq([i \in DOMAIN kinds |-> ParseKind(kinds[i], shape)])
=============================================================================
