--------------------------- MODULE MessageChannel ---------------------------
(***************************************************************************)
(* What one direction of the encrypted connection promises its user when   *)
(* messages stay apart: a message arrives whole and at most once, in the   *)
(* order in which messages were sent, or it does not arrive.  Message n is *)
(* the n-th sent; 0 stands for one that arrives without any text.          *)
(***************************************************************************)
EXTENDS Integers, Sequences

VARIABLES sent,     \* messages sent
          got       \* the messages delivered, in order

Init == sent = 0 /\ got = << >>

Send == sent' = sent + 1 /\ UNCHANGED got

\* A message behind the last one delivered; those between are lost.
Deliver ==
    /\ \E n \in 1 .. sent :
          /\ \A i \in DOMAIN got : got[i] < n
          /\ got' = Append(got, n)
    /\ UNCHANGED sent

\* A message without text: which one, its user cannot tell, but it is one of those sent.
DeliverEmpty ==
    /\ Len(got) < sent
    /\ got' = Append(got, 0)
    /\ UNCHANGED sent

Next == Send \/ Deliver \/ DeliverEmpty

Spec == Init /\ [][Next]_<< sent, got >>
=============================================================================
