------------------------------- MODULE TpmLink -------------------------------
(***************************************************************************)
(* What the link to the TPM promises the command layer: commands are asked *)
(* one after the other; each is executed once or not at all, in their      *)
(* order, and the call of a command returns the whole answer to that       *)
(* command or fails.  A command whose call has failed may still be         *)
(* executed.  Command n is the n-th asked.                                 *)
(***************************************************************************)
EXTENDS Naturals, Sequences

VARIABLES asked,     \* commands so far
          executed,  \* the commands executed, in order
          results    \* of each call that has returned: its command, or 0 if it failed

Init == asked = 0 /\ executed = << >> /\ results = << >>

Ask ==
    /\ asked = Len(results) /\ asked' = asked + 1
    /\ UNCHANGED << executed, results >>

Execute ==
    /\ \E n \in 1..asked :
          /\ \A k \in DOMAIN executed : executed[k] < n
          /\ executed' = Append(executed, n)
    /\ UNCHANGED << asked, results >>

Answer ==
    /\ asked = Len(results) + 1
    /\ \E k \in DOMAIN executed : executed[k] = asked
    /\ results' = Append(results, asked)
    /\ UNCHANGED << asked, executed >>

Fail ==
    /\ asked = Len(results) + 1
    /\ results' = Append(results, 0)
    /\ UNCHANGED << asked, executed >>

Next == Ask \/ Execute \/ Answer \/ Fail

Spec == Init /\ [][Next]_<< asked, executed, results >>
=============================================================================
