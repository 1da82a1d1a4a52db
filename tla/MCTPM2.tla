------------------------------- MODULE MCTPM2 -------------------------------
(***************************************************************************)
(* Instances of TPM2: every command with every combination of sessions in  *)
(* the first two slots, and in the third one of those that differ there.   *)
(***************************************************************************)
EXTENDS TPM2

Session(handle, attrs) == [handle |-> handle, attrs |-> attrs]

MCSlots ==
    LET any == {Session("none", {}), Session("password", {}), Session("policy", {}),
                Session("policy", {"decrypt"})}
                 \union {Session("hmac", attrs) :
                           attrs \in {{}, {"decrypt"}, {"encrypt"}, {"audit"}}}
        last == {Session("none", {}), Session("hmac", {"encrypt"})}
    IN {s \in [Slots -> any] : s[2] \in last}

\* Each type, algorithm, scheme and signature in one structure at least.
MCShapes ==
    {[type |-> "rsa", algorithm |-> "aes", scheme |-> "null", sigAlg |-> "rsa",
      private |-> "absent"],
     [type |-> "ecc", algorithm |-> "null", scheme |-> "hash", sigAlg |-> "ecdsa",
      private |-> "present"],
     [type |-> "keyedhash", algorithm |-> "xor", scheme |-> "hash", sigAlg |-> "hmac",
      private |-> "present"],
     [type |-> "symcipher", algorithm |-> "other", scheme |-> "null", sigAlg |-> "other",
      private |-> "absent"],
     [type |-> "other", algorithm |-> "xor", scheme |-> "null", sigAlg |-> "ecdsa",
      private |-> "present"]}
=============================================================================
