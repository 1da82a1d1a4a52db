------------------------- MODULE KeyExchangeProofs -------------------------
(***************************************************************************)
(* Proofs about KeyExchange.  The argument for NoOldKey: a server gets     *)
(* beyond accept() on the crypto port only with a connection that waited   *)
(* there, hence was made since this server started; the application that   *)
(* made it had no key then, and a response that it or a later boot gets    *)
(* comes from this server.  So while such a connection waits, or has been  *)
(* accepted, every key of the application is this server's (Agreement).    *)
(* For UndisturbedKeysAgree, at the end, the exchange with the server that *)
(* is running is followed stage by stage (Progress).                       *)
(***************************************************************************)
EXTENDS KeyExchange, SequenceTheorems, TLAPS

Part == [key : Nat, good : BOOLEAN]

Links == [port : {"none", "crypto", "data"}, to : Nat,
          state : {"none", "syn", "est"}, end : {"open", "fin", "rst"},
          up : Seq({"ek", "srk"}), down : Seq(Part)]

Types ==
    /\ pc \in {"off", "start", "kxCreate", "kxConnect", "kxWait", "kxWrite", "kxRead",
               "kxDecrypt", "kxStore", "kxClose", "create", "connect", "wait", "up", "exit"}
    /\ spc \in {"down", "data", "crypto", "recv", "reply", "accept", "serve"}
    /\ boot \in Nat /\ server \in Nat
    /\ plain \in 0 .. server /\ hStoredKey \in 0 .. server
    /\ conn \in 0 .. boot /\ peer \in 0 .. boot
    /\ backlog \in [Ports -> Seq(1 .. boot)]

\* The connection, and what is read from it.
Streams ==
    /\ link \in Links
    /\ buffer \in Seq(Part)
    /\ Len(buffer) + Len(link.down) <= 2
    /\ \A i \in 1 .. Len(buffer) : buffer[i].key \in 0 .. server
    /\ \A i \in 1 .. Len(link.down) : link.down[i].key \in 0 .. server

\* A connection to the crypto port has brought nothing as long as it is open, and
\* the application has no key before it reads from one.
Unread ==
    /\ link.port = "crypto" /\ link.end = "open" => buffer = << >> /\ link.down = << >>
    /\ pc \in {"start", "kxCreate", "kxConnect", "kxWait", "kxWrite"}
       => buffer = << >> /\ plain = 0 /\ hStoredKey = 0
    /\ link.state = "syn" /\ link.port = "crypto" => pc = "kxWait"
    /\ link.state = "syn" => link.down = << >> /\ "CONN_EST" \notin pending
    /\ pc # "off" \/ link.state # "none" => boot # 0

\* A connection has come to this server's crypto port.
Visited == spc \in {"recv", "reply", "accept", "serve"} \/ backlog["crypto"] # << >>

Agreement ==
    Visited =>
    /\ plain \in {0, server} /\ hStoredKey \in {0, server}
    /\ \A i \in 1 .. Len(buffer) : buffer[i].key = server
    /\ \A i \in 1 .. Len(link.down) : link.down[i].key = server

IInv == Types /\ Streams /\ Unread /\ Agreement

-----------------------------------------------------------------------------
(* Facts about the data.                                                   *)

LEMMA NoLinkFacts ==
    /\ NoLink \in Links
    /\ NoLink.port = "none" /\ NoLink.state = "none" /\ NoLink.end = "open"
    /\ NoLink.up = << >> /\ NoLink.down = << >> /\ Len(NoLink.down) = 0
  BY DEF NoLink, Links

\* What is read has the keys of what was there.
LEMMA Taking ==
    ASSUME NEW s \in Seq(Part), NEW t \in Seq(Part), NEW n \in 1 .. Len(t)
    PROVE  /\ s \o SubSeq(t, 1, n) \in Seq(Part)
           /\ SubSeq(t, n + 1, Len(t)) \in Seq(Part)
           /\ Len(s \o SubSeq(t, 1, n)) = Len(s) + n
           /\ Len(SubSeq(t, n + 1, Len(t))) = Len(t) - n
           /\ \A i \in 1 .. Len(s) : (s \o SubSeq(t, 1, n))[i] = s[i]
           /\ \A i \in 1 .. n : (s \o SubSeq(t, 1, n))[Len(s) + i] = t[i]
           /\ \A i \in 1 .. Len(t) - n : SubSeq(t, n + 1, Len(t))[i] = t[n + i]
  OBVIOUS

LEMMA KeysTaken ==
    ASSUME NEW s \in Seq(Part), NEW t \in Seq(Part), NEW n \in 1 .. Len(t), NEW K,
           \A i \in 1 .. Len(s) : s[i].key \in K, \A i \in 1 .. Len(t) : t[i].key \in K
    PROVE  /\ \A i \in 1 .. Len(s \o SubSeq(t, 1, n)) : (s \o SubSeq(t, 1, n))[i].key \in K
           /\ \A i \in 1 .. Len(SubSeq(t, n + 1, Len(t))) :
                 SubSeq(t, n + 1, Len(t))[i].key \in K
<1> DEFINE u == s \o SubSeq(t, 1, n)
           v == SubSeq(t, n + 1, Len(t))
<1>1. /\ Len(u) = Len(s) + n /\ Len(v) = Len(t) - n
      /\ \A i \in 1 .. Len(s) : u[i] = s[i]
      /\ \A i \in 1 .. n : u[Len(s) + i] = t[i]
      /\ \A i \in 1 .. Len(t) - n : v[i] = t[n + i]
  BY Taking
<1>2. Len(s) \in Nat /\ Len(t) \in Nat
  OBVIOUS
<1> HIDE DEF u, v
<1>3. ASSUME NEW i \in 1 .. Len(u)
      PROVE  u[i].key \in K
  <2>1. CASE i \in 1 .. Len(s)
    BY <1>1, <2>1
  <2>2. CASE i \notin 1 .. Len(s)
    <3>1. PICK j \in 1 .. n : i = Len(s) + j
      <4>1. i - Len(s) \in 1 .. n /\ i = Len(s) + (i - Len(s))
        BY <1>1, <1>2, <2>2
      <4> QED
        BY <4>1
    <3>2. u[i] = t[j] /\ j \in 1 .. Len(t)
      BY <1>1, <1>2, <3>1
    <3> QED
      BY <3>2
  <2> QED
    BY <2>1, <2>2
<1>4. ASSUME NEW i \in 1 .. Len(v)
      PROVE  v[i].key \in K
  <2>1. i \in 1 .. Len(t) - n /\ n + i \in 1 .. Len(t)
    BY <1>1, <1>2
  <2> QED
    BY <1>1, <2>1
<1> QED
  BY <1>3, <1>4 DEF u, v

LEMMA ResponseFacts ==
    ASSUME NEW k \in Nat, NEW keys
    PROVE  /\ Response(k, keys) \in Seq(Part) /\ Len(Response(k, keys)) = 2
           /\ \A i \in 1 .. 2 : Response(k, keys)[i].key = k
  BY DEF Response, Part

\* The connections that wait are those of boots, however many there will be.
LEMMA Waiting ==
    ASSUME NEW n \in Nat, NEW s \in Seq(1 .. n)
    PROVE  /\ s \in Seq(1 .. n + 1)
           /\ n # 0 => Append(s, n) \in Seq(1 .. n) /\ Append(s, n) # << >>
           /\ s # << >> => Head(s) \in 1 .. n /\ Tail(s) \in Seq(1 .. n)
<1>1. s \in Seq(1 .. n + 1)
  <2>1. 1 .. n \subseteq 1 .. n + 1
    OBVIOUS
  <2> QED
    BY <2>1, SeqMonotonic
<1>2. n # 0 => Append(s, n) \in Seq(1 .. n) /\ Append(s, n) # << >>
  BY SMTT(30)
<1>3. s # << >> => Head(s) \in 1 .. n /\ Tail(s) \in Seq(1 .. n)
  OBVIOUS
<1> QED
  BY <1>1, <1>2, <1>3

-----------------------------------------------------------------------------
(* The invariant.                                                          *)

LEMMA InitEstablishes == Init => IInv
  BY NoLinkFacts DEF Links, Init, IInv, Types, Streams, Unread, Agreement, Visited, Ports

Early == {"start", "kxCreate", "kxConnect", "kxWait", "kxWrite"}
Places == {"off", "start", "kxCreate", "kxConnect", "kxWait", "kxWrite", "kxRead",
           "kxDecrypt", "kxStore", "kxClose", "create", "connect", "wait", "up", "exit"}

\* Steps that only go to another place.
LEMMA QuietSteps ==
    ASSUME IInv, pc' \in Places, pc' \in Early => pc \in Early,
           pc = "kxWait" => pc' = pc \/ link.state # "syn", pc # "off",
           UNCHANGED << buffer, plain, hStoredKey, link, boot, python >>,
           pending' \in {pending, {}}
    PROVE  IInv'
<1>1. Types'
  BY DEF IInv, Types, python, Places
<1>2. Streams'
  BY DEF IInv, Streams, python
<1>3. Unread'
  BY DEF IInv, Unread, python, Early
<1>4. Agreement'
  BY DEF IInv, Agreement, Visited, python
<1> QED
  BY <1>1, <1>2, <1>3, <1>4 DEF IInv

LEMMA SwitchPreserves ==
    ASSUME IInv, SwitchOn \/ SwitchOff
    PROVE  IInv'
<1>1. /\ link' = NoLink /\ boot' \in {boot, boot + 1}
      /\ pc' \in {"start", "off"} /\ UNCHANGED python /\ pending' = {}
      /\ \/ buffer' = << >> /\ plain' = 0 /\ hStoredKey' = 0
         \/ pc' = "off" /\ UNCHANGED << buffer, plain, hStoredKey >>
  BY DEF SwitchOn, SwitchOff
<1>2. Types'
  <2>1. backlog' \in [Ports -> Seq(1 .. boot')]
    <3>1. \A p \in Ports : backlog[p] \in Seq(1 .. boot')
      BY <1>1, Waiting DEF IInv, Types
    <3> QED
      BY <1>1, <3>1 DEF IInv, Types, python
  <2> QED
    BY <1>1, <2>1 DEF IInv, Types, python
<1>3. Streams'
  <2>1. /\ buffer' \in Seq(Part) /\ Len(buffer') \in 0 .. 2 /\ server' = server
        /\ \A i \in 1 .. Len(buffer') : buffer'[i].key \in 0 .. server
    <3>1. Len(buffer) \in Nat /\ Len(link.down) \in Nat
      BY DEF IInv, Streams, Links
    <3>2. buffer' = << >> \/ buffer' = buffer
      BY <1>1
    <3>3. CASE buffer' = << >>
      BY <1>1, <3>3 DEF python
    <3>4. CASE buffer' = buffer
      <4>1. Len(buffer) + Len(link.down) <= 2
        BY DEF IInv, Streams
      <4>2. \A a, b \in Nat : a + b <= 2 => a \in 0 .. 2
        OBVIOUS
      <4> QED
        BY <1>1, <3>1, <3>4, <4>1, <4>2 DEF IInv, Streams, python
    <3> QED
      BY <3>2, <3>3, <3>4
  <2>2. link' \in Links /\ link'.down = << >>
    BY <1>1, NoLinkFacts
  <2> QED
    BY <2>1, <2>2 DEF Streams
<1>4. Unread'
  <2>1. boot' # 0 \/ (pc' = "off" /\ link'.state = "none")
    BY <1>1, NoLinkFacts DEF SwitchOn, SwitchOff, IInv, Types
  <2> QED
    BY <1>1, <2>1, NoLinkFacts DEF IInv, Unread
<1>5. Agreement'
  BY <1>1, NoLinkFacts DEF IInv, Agreement, Visited, Types, python
<1> QED
  BY <1>2, <1>3, <1>4, <1>5 DEF IInv

LEMMA ConnectPreserves ==
    ASSUME IInv,
           \/ ConnectSocket("kxConnect", "crypto", "kxWait")
           \/ ConnectSocket("connect", "data", "wait")
    PROVE  IInv'
<1>1. CASE GiveUp /\ UNCHANGED << net, python >> /\ pc \in {"kxConnect", "connect"}
  BY <1>1, QuietSteps DEF GiveUp, net, python, Places, Early
<1>2. CASE /\ UNCHANGED << boot, buffer, plain, hStoredKey, python >>
           /\ link'.state = "syn" /\ link'.end = "open" /\ link'.down = << >>
           /\ pending' = {}
           /\ link' \in Links
           /\ \/ pc = "kxConnect" /\ pc' = "kxWait" /\ link'.port = "crypto"
              \/ pc = "connect" /\ pc' = "wait" /\ link'.port = "data"
  <2>1. Types'
    BY <1>2 DEF IInv, Types, python
  <2>2. Streams'
    BY <1>2 DEF IInv, Streams, python
  <2>3. Unread'
    BY <1>2 DEF IInv, Unread, python
  <2>4. Agreement'
    BY <1>2 DEF IInv, Agreement, Visited, python
  <2> QED
    BY <2>1, <2>2, <2>3, <2>4 DEF IInv
<1> QED
  BY <1>1, <1>2, NoLinkFacts DEF ConnectSocket, NoLink, Links

LEMMA WaitPreserves ==
    ASSUME IInv, WaitForConnection("kxWait", "kxWrite") \/ WaitForConnection("wait", "up")
    PROVE  IInv'
<1>1. CASE /\ UNCHANGED << boot, buffer, plain, hStoredKey, link, python >>
           /\ pending' = {} /\ "CONN_EST" \in pending
           /\ \/ pc = "kxWait" /\ pc' = "kxWrite"
              \/ pc = "wait" /\ pc' = "up"
  <2>1. link.state # "syn"
    BY <1>1 DEF IInv, Unread
  <2> QED
    BY <1>1, <2>1, QuietSteps DEF Places, Early
<1>2. CASE /\ UNCHANGED << boot, buffer, plain, hStoredKey, python >>
           /\ pc' = "exit" /\ link' = NoLink /\ pending' = {} /\ pc # "off"
  <2>1. Types'
    BY <1>2 DEF IInv, Types, python
  <2>2. Streams'
    BY <1>2, NoLinkFacts DEF IInv, Streams, python
  <2>3. Unread'
    BY <1>2, NoLinkFacts DEF IInv, Unread
  <2>4. Agreement'
    BY <1>2, NoLinkFacts DEF IInv, Agreement, Visited, python
  <2> QED
    BY <2>1, <2>2, <2>3, <2>4 DEF IInv
<1> QED
  BY <1>1, <1>2 DEF WaitForConnection, GiveUp

\* StartExchange, CreateSocket, StoreKey failing: nothing but pc changes.
LEMMA CreatePreserves ==
    ASSUME IInv,
           \/ StartExchange
           \/ CreateSocket("kxCreate", "kxConnect")
           \/ CreateSocket("create", "connect")
    PROVE  IInv'
<1>1. /\ UNCHANGED << buffer, plain, hStoredKey, link, pending, boot, python >>
      /\ pc \in {"start", "kxCreate", "create"}
      /\ pc' \in {"kxCreate", "kxConnect", "connect", "exit"}
      /\ pc = "create" => pc' \in {"connect", "exit"}
  BY DEF StartExchange, CreateSocket, GiveUp, net
<1> QED
  BY <1>1, QuietSteps DEF Places, Early

LEMMA SendPreserves ==
    ASSUME IInv, SendPublicKeys
    PROVE  IInv'
<1>1. CASE UNCHANGED link
  BY <1>1, QuietSteps DEF SendPublicKeys, GiveUp, Places, Early
<1>2. CASE \E keys \in {<< "ek", "srk" >>, << "ek" >>} :
              /\ link' = [link EXCEPT !.up = keys] /\ pc = "kxWrite" /\ pc' = "kxRead"
              /\ UNCHANGED << buffer, plain, hStoredKey, pending, boot, python >>
  <2>1. PICK keys \in {<< "ek", "srk" >>, << "ek" >>} : link' = [link EXCEPT !.up = keys]
    BY <1>2
  <2>2. keys \in Seq({"ek", "srk"})
    <3>1. << "ek", "srk" >> \in Seq({"ek", "srk"})
      OBVIOUS
    <3>2. << "ek" >> \in Seq({"ek", "srk"})
      OBVIOUS
    <3> QED
      BY <3>1, <3>2
  <2>3. Types'
    BY <1>2 DEF IInv, Types, python
  <2>4. link' \in Links /\ link'.down = link.down
    BY <2>1, <2>2 DEF IInv, Streams, Links
  <2>5. Streams'
    BY <1>2, <2>4 DEF IInv, Streams, python
  <2>6. Unread'
    BY <1>2, <2>1 DEF IInv, Unread, Streams, Links
  <2>7. Agreement'
    BY <1>2, <2>4 DEF IInv, Agreement, Visited, python
  <2> QED
    BY <2>3, <2>5, <2>6, <2>7 DEF IInv
<1> QED
  BY <1>1, <1>2 DEF SendPublicKeys, GiveUp, Public

LEMMA ReadPreserves ==
    ASSUME IInv, ReadResponse
    PROVE  IInv'
<1>1. CASE UNCHANGED << buffer, link >>
  BY <1>1, QuietSteps DEF ReadResponse, Places, Early
<1>2. CASE /\ \E n \in 1 .. Len(link.down) :
                /\ buffer' = buffer \o SubSeq(link.down, 1, n)
                /\ link' = [link EXCEPT !.down = SubSeq(link.down, n + 1, Len(link.down))]
           /\ pc = "kxRead"
           /\ UNCHANGED << pc, boot, plain, hStoredKey, pending, python >>
  <2>0. PICK s, t : s = buffer /\ t = link.down
    OBVIOUS
  <2>1. PICK n \in 1 .. Len(t) :
              /\ buffer' = s \o SubSeq(t, 1, n)
              /\ link' = [link EXCEPT !.down = SubSeq(t, n + 1, Len(t))]
    BY <1>2, <2>0
  <2>2. s \in Seq(Part) /\ t \in Seq(Part) /\ link \in Links
    BY <2>0 DEF IInv, Streams, Links
  <2>3. /\ link' \in Links /\ link'.down = SubSeq(t, n + 1, Len(t))
        /\ link'.port = link.port /\ link'.state = link.state /\ link'.end = link.end
    BY <2>1, <2>2, <2>0, Taking DEF Links
  <2>4. /\ buffer' \in Seq(Part) /\ Len(buffer') = Len(s) + n
        /\ Len(link'.down) = Len(t) - n
    BY <2>1, <2>2, <2>3, Taking
  <2>5. ASSUME NEW K,
               \A i \in 1 .. Len(s) : s[i].key \in K, \A i \in 1 .. Len(t) : t[i].key \in K
        PROVE  /\ \A i \in 1 .. Len(buffer') : buffer'[i].key \in K
               /\ \A i \in 1 .. Len(link'.down) : link'.down[i].key \in K
    <3>1. PICK u, v : u = buffer' /\ v = link'.down
      OBVIOUS
    <3>2. u = s \o SubSeq(t, 1, n) /\ v = SubSeq(t, n + 1, Len(t))
      BY <2>1, <2>3, <3>1
    <3>3. /\ \A i \in 1 .. Len(u) : u[i].key \in K
          /\ \A i \in 1 .. Len(v) : v[i].key \in K
      BY <2>2, <2>5, <3>2, KeysTaken
    <3> QED
      BY <3>1, <3>3
  <2>6. Types'
    BY <1>2 DEF IInv, Types, python
  <2>7. Streams'
    <3>1. /\ \A i \in 1 .. Len(s) : s[i].key \in 0 .. server
          /\ \A i \in 1 .. Len(t) : t[i].key \in 0 .. server
          /\ Len(s) + Len(t) <= 2
      BY <2>0 DEF IInv, Streams
    <3>2. PICK K : K = 0 .. server
      OBVIOUS
    <3>3. /\ \A i \in 1 .. Len(buffer') : buffer'[i].key \in K
          /\ \A i \in 1 .. Len(link'.down) : link'.down[i].key \in K
      BY <2>5, <3>1, <3>2
    <3>4. Len(buffer') + Len(link'.down) <= 2 /\ server' = server
      BY <1>2, <2>2, <2>4, <3>1 DEF python
    <3> QED
      BY <2>3, <2>4, <3>2, <3>3, <3>4 DEF Streams
  <2>8. Unread'
    <3>1. ~ (link.port = "crypto" /\ link.end = "open") /\ link.state # "syn"
      BY <2>0, <2>1, <2>2 DEF IInv, Unread
    <3> QED
      BY <1>2, <2>3, <3>1 DEF IInv, Unread
  <2>9. Agreement'
    <3>1. SUFFICES ASSUME Visited'
                   PROVE  /\ plain' \in {0, server'} /\ hStoredKey' \in {0, server'}
                          /\ \A i \in 1 .. Len(buffer') : buffer'[i].key = server'
                          /\ \A i \in 1 .. Len(link'.down) : link'.down[i].key = server'
      BY DEF Agreement
    <3>2. server' = server /\ Visited
      BY <1>2, <3>1 DEF Visited, python
    <3>3. PICK K : K = {server}
      OBVIOUS
    <3>4. /\ \A i \in 1 .. Len(s) : s[i].key \in K
          /\ \A i \in 1 .. Len(t) : t[i].key \in K
      BY <2>0, <3>2, <3>3 DEF IInv, Agreement
    <3>5. /\ \A i \in 1 .. Len(buffer') : buffer'[i].key \in K
          /\ \A i \in 1 .. Len(link'.down) : link'.down[i].key \in K
      BY <2>5, <3>4
    <3> QED
      BY <1>2, <3>2, <3>3, <3>5 DEF IInv, Agreement
  <2> QED
    BY <2>6, <2>8, <2>9, <2>7 DEF IInv
<1> QED
  BY <1>1, <1>2 DEF ReadResponse

LEMMA DecryptPreserves ==
    ASSUME IInv, Decrypt
    PROVE  IInv'
<1>1. /\ pc = "kxDecrypt" /\ pc' = "kxStore"
      /\ UNCHANGED << boot, buffer, hStoredKey, link, pending, python >>
      /\ plain' = 0 \/ (Len(buffer) = 2 /\ plain' = buffer[1].key)
  BY DEF Decrypt, net
<1>2. ASSUME Len(buffer) = 2
      PROVE  buffer[1].key \in 0 .. server
  <2>1. 1 \in 1 .. Len(buffer)
    BY <1>2
  <2> QED
    BY <2>1 DEF IInv, Streams
<1>3. Types'
  BY <1>1, <1>2 DEF IInv, Types, python
<1>4. Streams'
  BY <1>1 DEF IInv, Streams, python
<1>5. Unread'
  BY <1>1 DEF IInv, Unread
<1>6. Agreement'
  BY <1>1 DEF IInv, Agreement, Visited, python
<1> QED
  BY <1>3, <1>4, <1>5, <1>6 DEF IInv

LEMMA StorePreserves ==
    ASSUME IInv, StoreKey
    PROVE  IInv'
<1>1. /\ pc = "kxStore" /\ pc' \in {"kxClose", "exit"}
      /\ UNCHANGED << boot, buffer, plain, link, pending, python >>
      /\ hStoredKey' \in {hStoredKey, plain}
  BY DEF StoreKey, GiveUp, net
<1>2. Types'
  BY <1>1 DEF IInv, Types, python
<1>3. Streams'
  BY <1>1 DEF IInv, Streams, python
<1>4. Unread'
  BY <1>1 DEF IInv, Unread
<1>5. Agreement'
  BY <1>1 DEF IInv, Agreement, Visited, python
<1> QED
  BY <1>2, <1>3, <1>4, <1>5 DEF IInv

LEMMA ClosePreserves ==
    ASSUME IInv, CloseExchange
    PROVE  IInv'
<1>1. /\ pc = "kxClose" /\ pc' = "create" /\ link' = NoLink /\ pending' = {}
      /\ UNCHANGED << boot, buffer, plain, hStoredKey, python >>
  BY DEF CloseExchange
<1>2. Types'
  BY <1>1 DEF IInv, Types, python
<1>3. Streams'
  BY <1>1, NoLinkFacts DEF IInv, Streams, python
<1>4. Unread'
  BY <1>1, NoLinkFacts DEF IInv, Unread
<1>5. Agreement'
  BY <1>1, NoLinkFacts DEF IInv, Agreement, Visited, python
<1> QED
  BY <1>2, <1>3, <1>4, <1>5 DEF IInv

LEMMA DeliverPreserves ==
    ASSUME IInv, Deliver
    PROVE  IInv'
<1>1. /\ link.state = "syn" /\ link \in Links /\ link.down = << >> /\ boot # 0
      /\ UNCHANGED << pc, boot, buffer, plain, hStoredKey, spc, server, conn, peer >>
  BY DEF Deliver, app, IInv, Unread, Streams
<1>2. CASE /\ link' = [link EXCEPT !.state = "est", !.to = server]
           /\ backlog' = [backlog EXCEPT ![link.port] = Append(@, boot)]
           /\ link.port \in Ports
  <2>1. /\ link' \in Links /\ link'.down = link.down /\ link'.state = "est"
        /\ link'.port = link.port /\ link'.end = link.end
    BY <1>1, <1>2 DEF IInv, Types, Links
  <2>2. Types'
    <3>1. Append(backlog[link.port], boot) \in Seq(1 .. boot)
      BY <1>1, <1>2, Waiting DEF IInv, Types
    <3>2. backlog' \in [Ports -> Seq(1 .. boot)]
      BY <1>2, <3>1 DEF IInv, Types
    <3> QED
      BY <1>1, <3>2 DEF IInv, Types
  <2>3. Streams'
    BY <1>1, <2>1 DEF IInv, Streams
  <2>4. Unread'
    BY <1>1, <2>1 DEF IInv, Unread
  <2>5. Agreement'
    <3>1. CASE link.port = "crypto"
      BY <1>1, <2>1, <3>1 DEF IInv, Unread, Agreement
    <3>2. CASE link.port = "data"
      <4>1. backlog'["crypto"] = backlog["crypto"]
        BY <1>2, <3>2 DEF IInv, Types, Ports
      <4> QED
        BY <1>1, <2>1, <4>1 DEF IInv, Agreement, Visited
    <3> QED
      BY <1>2, <3>1, <3>2 DEF Ports
  <2> QED
    BY <2>2, <2>3, <2>4, <2>5 DEF IInv
<1>3. CASE link' = NoLink /\ UNCHANGED backlog
  <2>1. Types'
    BY <1>1, <1>3 DEF IInv, Types
  <2>2. Streams'
    BY <1>1, <1>3, NoLinkFacts DEF IInv, Streams
  <2>3. Unread'
    BY <1>1, <1>3, NoLinkFacts DEF IInv, Unread
  <2>4. Agreement'
    BY <1>1, <1>3, NoLinkFacts DEF IInv, Agreement, Visited
  <2> QED
    BY <2>1, <2>2, <2>3, <2>4 DEF IInv
<1>4. Listening \subseteq Ports
  BY DEF Listening, Ports
<1> QED
  BY <1>2, <1>3, <1>4 DEF Deliver

\* What the server's side does to a connection without sending anything.
LEMMA EndPreserves ==
    ASSUME IInv, UNCHANGED << pc, boot, buffer, plain, hStoredKey, server, backlog >>,
           Visited' => Visited,
           NEW end \in {"open", "fin", "rst"}, link' = [link EXCEPT !.end = end],
           link.state # "syn", end = "open" => link.end = "open",
           spc' \in {"down", "data", "crypto", "recv", "reply", "accept", "serve"},
           conn' \in 0 .. boot, peer' \in 0 .. boot
    PROVE  IInv'
<1>1. /\ link' \in Links /\ link'.down = link.down /\ link'.state = link.state
      /\ link'.port = link.port /\ link'.end = end
  BY DEF IInv, Streams, Links
<1>2. Types'
  BY DEF IInv, Types
<1>3. Streams'
  BY <1>1 DEF IInv, Streams
<1>4. Unread'
  BY <1>1 DEF IInv, Unread
<1>5. Agreement'
  BY <1>1 DEF IInv, Agreement
<1> QED
  BY <1>2, <1>3, <1>4, <1>5 DEF IInv

\* Steps of the server's side that leave the connection alone.
LEMMA OwnSteps ==
    ASSUME IInv, UNCHANGED << pc, boot, buffer, plain, hStoredKey, server, link, pending >>,
           backlog' \in [Ports -> Seq(1 .. boot)], Visited' => Visited,
           spc' \in {"down", "data", "crypto", "recv", "reply", "accept", "serve"},
           conn' \in 0 .. boot, peer' \in 0 .. boot
    PROVE  IInv'
<1>1. Types'
  BY DEF IInv, Types
<1>2. Streams'
  BY DEF IInv, Streams
<1>3. Unread'
  BY DEF IInv, Unread
<1>4. Agreement'
  BY DEF IInv, Agreement
<1> QED
  BY <1>1, <1>2, <1>3, <1>4 DEF IInv

LEMMA DiePreserves ==
    ASSUME IInv, Die, UNCHANGED app
    PROVE  IInv'
<1>1. /\ spc' = "down" /\ UNCHANGED << server, backlog, conn, peer >>
      /\ UNCHANGED << pc, boot, buffer, plain, hStoredKey >>
      /\ (Visited' => Visited) /\ conn' \in 0 .. boot /\ peer' \in 0 .. boot
  BY DEF Die, Visited, app, IInv, Types
<1>2. CASE Connected
  <2>1. PICK e \in {"fin", "rst"} :
           link' = [link EXCEPT !.end = IF @ = "open" THEN e ELSE @]
    BY <1>2 DEF Die
  <2>2. link \in Links /\ link.state # "syn"
    BY <1>2 DEF Connected, IInv, Streams
  <2>3. CASE link.end = "open"
    <3>1. link' = [link EXCEPT !.end = e]
      BY <2>1, <2>2, <2>3 DEF Links
    <3> QED
      BY <1>1, <2>2, <3>1, EndPreserves
  <2>4. CASE link.end # "open"
    <3>1. PICK f \in {"fin", "rst"} : f = link.end
      BY <2>2, <2>4 DEF Links
    <3>2. link' = [link EXCEPT !.end = f]
      BY <2>1, <2>2, <2>4, <3>1 DEF Links
    <3> QED
      BY <1>1, <2>2, <3>2, EndPreserves
  <2> QED
    BY <2>3, <2>4
<1>3. CASE ~ Connected
  <2>1. UNCHANGED << link, pending >> /\ backlog' \in [Ports -> Seq(1 .. boot)]
    BY <1>1, <1>3 DEF Die, net, IInv, Types
  <2> QED
    BY <1>1, <2>1, OwnSteps
<1> QED
  BY <1>2, <1>3
LEMMA BreakPreserves ==
    ASSUME IInv, Break
    PROVE  IInv'
<1>1. /\ link' = [link EXCEPT !.end = "rst"] /\ link.state # "syn"
      /\ UNCHANGED << pc, boot, buffer, plain, hStoredKey, spc, server, backlog, conn, peer >>
  BY DEF Break, app, python
<1>2. (Visited' => Visited) /\ conn' \in 0 .. boot /\ peer' \in 0 .. boot
      /\ spc' \in {"down", "data", "crypto", "recv", "reply", "accept", "serve"}
  BY <1>1 DEF Visited, IInv, Types
<1> QED
  BY <1>1, <1>2, EndPreserves

LEMMA StartServerPreserves ==
    ASSUME IInv, StartServer
    PROVE  IInv'
<1>1. /\ spc' = "data" /\ server' = server + 1 /\ backlog' = [p \in Ports |-> << >>]
      /\ conn' = 0 /\ peer' = 0
      /\ UNCHANGED << pc, boot, buffer, plain, hStoredKey, link, pending >>
  BY DEF StartServer, app, net
<1>2. Types'
  BY <1>1 DEF IInv, Types
<1>3. Streams'
  BY <1>1 DEF IInv, Streams, Types
<1>4. Unread'
  BY <1>1 DEF IInv, Unread
<1>5. Agreement'
  BY <1>1 DEF Agreement, Visited, Ports
<1> QED
  BY <1>2, <1>3, <1>4, <1>5 DEF IInv

LEMMA ListenPreserves ==
    ASSUME IInv, ListenCrypto
    PROVE  IInv'
<1>1. /\ UNCHANGED << pc, boot, buffer, plain, hStoredKey, server, link, pending >>
      /\ spc' = "crypto" /\ UNCHANGED << backlog, conn, peer >>
  BY DEF ListenCrypto, app, net
<1>2. /\ backlog' \in [Ports -> Seq(1 .. boot)] /\ (Visited' => Visited)
      /\ conn' \in 0 .. boot /\ peer' \in 0 .. boot
  BY <1>1 DEF IInv, Types, Visited
<1> QED
  BY <1>1, <1>2, OwnSteps

LEMMA AcceptPreserves ==
    ASSUME IInv, AcceptCrypto \/ AcceptData
    PROVE  IInv'
<1>1. PICK p \in Ports :
         /\ backlog[p] # << >> /\ backlog' = [backlog EXCEPT ![p] = Tail(@)]
         /\ conn' \in {conn, Head(backlog[p])} /\ peer' \in {peer, Head(backlog[p])}
         /\ UNCHANGED << pc, boot, buffer, plain, hStoredKey, server, link, pending >>
         /\ spc' \in {"recv", "serve"}
         /\ p = "crypto" \/ spc = "accept"
  <2>1. CASE AcceptCrypto
    <3>1. /\ backlog["crypto"] # << >>
          /\ backlog' = [backlog EXCEPT !["crypto"] = Tail(@)]
          /\ conn' = Head(backlog["crypto"]) /\ peer' = peer /\ spc' = "recv"
          /\ UNCHANGED << pc, boot, buffer, plain, hStoredKey, server, link, pending >>
      BY <2>1 DEF AcceptCrypto, app, net
    <3> QED
      BY <3>1 DEF Ports
  <2>2. CASE AcceptData
    <3>1. /\ backlog["data"] # << >> /\ spc = "accept"
          /\ backlog' = [backlog EXCEPT !["data"] = Tail(@)]
          /\ peer' = Head(backlog["data"]) /\ conn' = conn /\ spc' = "serve"
          /\ UNCHANGED << pc, boot, buffer, plain, hStoredKey, server, link, pending >>
      BY <2>2 DEF AcceptData, app, net
    <3> QED
      BY <3>1 DEF Ports
  <2> QED
    BY <2>1, <2>2
<1>2. Head(backlog[p]) \in 1 .. boot /\ Tail(backlog[p]) \in Seq(1 .. boot)
  BY <1>1, Waiting DEF IInv, Types
<1>3. /\ backlog' \in [Ports -> Seq(1 .. boot)]
      /\ conn' \in 0 .. boot /\ peer' \in 0 .. boot
  BY <1>1, <1>2 DEF IInv, Types
<1>4. Visited
  BY <1>1 DEF Visited
<1> QED
  BY <1>1, <1>3, <1>4, OwnSteps

LEMMA ReceivePreserves ==
    ASSUME IInv, Receive
    PROVE  IInv'
<1>1. CASE Die
  BY <1>1, DiePreserves DEF Receive
<1>2. CASE /\ spc = "recv" /\ spc' = "reply"
           /\ \E n \in 1 .. Len(link.up) :
                 link' = [link EXCEPT !.up = SubSeq(@, n + 1, Len(@))]
           /\ UNCHANGED << pc, boot, buffer, plain, hStoredKey, pending, server, backlog,
                           conn, peer >>
  <2>1. PICK n \in 1 .. Len(link.up) : link' = [link EXCEPT !.up = SubSeq(@, n + 1, Len(@))]
    BY <1>2
  <2>2. PICK up \in Seq({"ek", "srk"}) : up = link.up
    BY DEF IInv, Streams, Links
  <2>3. n \in 1 .. Len(up) /\ SubSeq(up, n + 1, Len(up)) \in Seq({"ek", "srk"})
    BY <2>1, <2>2
  <2>4. /\ link' \in Links /\ link'.down = link.down /\ link'.state = link.state
        /\ link'.port = link.port /\ link'.end = link.end
    BY <2>1, <2>2, <2>3 DEF IInv, Streams, Links
  <2>5. Types'
    BY <1>2 DEF IInv, Types
  <2>6. Streams'
    BY <1>2, <2>4 DEF IInv, Streams
  <2>7. Unread'
    BY <1>2, <2>4 DEF IInv, Unread
  <2>8. Agreement'
    BY <1>2, <2>4 DEF IInv, Agreement, Visited
  <2> QED
    BY <2>5, <2>6, <2>7, <2>8 DEF IInv
<1> QED
  BY <1>1, <1>2 DEF Receive, app

LEMMA ReplyPreserves ==
    ASSUME IInv, Reply
    PROVE  IInv'
<1>1. CASE Die
  BY <1>1, DiePreserves DEF Reply
<1> DEFINE Rest == /\ spc = "reply" /\ spc' = "accept"
                   /\ UNCHANGED << pc, boot, buffer, plain, hStoredKey, server, backlog,
                                   conn, peer >>
<1>2. CASE Rest /\ OnCrypto /\ link.end = "open" /\ conn = boot
           /\ link' = [link EXCEPT !.down = Response(server, data), !.end = "fin"]
  <2>1. /\ link \in Links /\ link.state = "est" /\ link.port = "crypto"
        /\ server \in Nat /\ buffer = << >>
    BY <1>2 DEF OnCrypto, Connected, IInv, Streams, Unread, Types
  <2>2. PICK r : r = Response(server, data)
    OBVIOUS
  <2>3. r \in Seq(Part) /\ Len(r) = 2 /\ \A i \in 1 .. 2 : r[i].key = server
    BY <2>1, <2>2, ResponseFacts
  <2>4. /\ link' \in Links /\ link'.down = r /\ link'.state = "est"
        /\ link'.port = "crypto" /\ link'.end = "fin"
    BY <1>2, <2>1, <2>2, <2>3 DEF Links
  <2>5. Types'
    BY <1>2 DEF IInv, Types
  <2>6. Streams'
    <3>1. buffer' = << >> /\ server' = server
      BY <1>2, <2>1
    <3>2. \A i \in 1 .. Len(link'.down) : link'.down[i].key \in 0 .. server'
      <4>1. \A i \in 1 .. Len(r) : r[i].key \in 0 .. server
        BY <2>1, <2>3
      <4> QED
        BY <2>4, <3>1, <4>1
    <3>3. Len(buffer') = 0 /\ Len(link'.down) = 2
      BY <2>3, <2>4, <3>1
    <3> QED
      BY <2>4, <3>1, <3>2, <3>3 DEF Streams
  <2>7. Unread'
    BY <1>2, <2>4 DEF IInv, Unread
  <2>8. Agreement'
    BY <1>2, <2>1, <2>3, <2>4 DEF IInv, Agreement, Visited
  <2> QED
    BY <2>5, <2>6, <2>7, <2>8 DEF IInv
<1>3. CASE Rest /\ OnCrypto /\ link' = [link EXCEPT !.end = "rst"]
  <2>1. /\ link.state # "syn" /\ conn' \in 0 .. boot /\ peer' \in 0 .. boot
        /\ (Visited' => Visited) /\ spc' = "accept"
    BY <1>3 DEF OnCrypto, Connected, IInv, Types, Visited
  <2> QED
    BY <1>3, <2>1, EndPreserves
<1>4. CASE Rest /\ UNCHANGED << link, pending >>
  <2>1. /\ backlog' \in [Ports -> Seq(1 .. boot)]
        /\ conn' \in 0 .. boot /\ peer' \in 0 .. boot
        /\ (Visited' => Visited) /\ spc' = "accept"
    BY <1>4 DEF IInv, Types, Visited
  <2> QED
    BY <1>4, <2>1, OwnSteps
<1> QED
  BY <1>1, <1>2, <1>3, <1>4 DEF Reply, app, net

LEMMA StutterPreserves ==
    ASSUME IInv, UNCHANGED vars
    PROVE  IInv'
  BY DEF IInv, Types, Streams, Unread, Agreement, Visited, vars, app, net, python

\* Every reachable state, whatever is restarted and whatever fails, satisfies the
\* invariant.
THEOREM Invariance == Spec => []IInv
<1>1. Init => IInv
  BY InitEstablishes
<1>2. IInv /\ [Next]_vars => IInv'
  <2> SUFFICES ASSUME IInv, [Next]_vars PROVE IInv'
    OBVIOUS
  <2>1. CASE SwitchOn \/ SwitchOff
    BY <2>1, SwitchPreserves
  <2>2. CASE App
    BY <2>2, CreatePreserves, ConnectPreserves, WaitPreserves, SendPreserves, ReadPreserves,
       DecryptPreserves, StorePreserves, ClosePreserves DEF App
  <2>3. CASE Deliver \/ Break
    BY <2>3, DeliverPreserves, BreakPreserves
  <2>4. CASE StartServer \/ Kill
    BY <2>4, StartServerPreserves, DiePreserves DEF Kill
  <2>5. CASE Python
    BY <2>5, ListenPreserves, AcceptPreserves, ReceivePreserves, ReplyPreserves DEF Python
  <2>6. CASE UNCHANGED vars
    BY <2>6, StutterPreserves
  <2> QED
    BY <2>1, <2>2, <2>3, <2>4, <2>5, <2>6 DEF Next
<1> QED
  BY <1>1, <1>2, PTL DEF Spec

\* TypeOK of KeyExchange: however the response is cut up by the network, exchange_keys
\* never reads more than fits into its buffer.
THEOREM TypeCorrect == Spec => []TypeOK
<1>1. IInv => TypeOK
  <2> SUFFICES ASSUME IInv PROVE TypeOK
    OBVIOUS
  <2>1. Len(buffer) \in Nat /\ Len(link.down) \in Nat
    BY DEF IInv, Streams, Links
  <2>2. Len(buffer) <= 2
    BY <2>1 DEF IInv, Streams
  <2> QED
    BY <2>2 DEF IInv, Types, TypeOK
<1> QED
  BY <1>1, Invariance, PTL

\* NoOldKey of KeyExchange: after any restarts of both sides and any failures, a key
\* that came through exchange_keys is the one of the server that serves the channel.
THEOREM NoOldKeyUsed == Spec => []NoOldKey
<1>1. IInv => NoOldKey
  BY DEF IInv, Agreement, Visited, NoOldKey, Channel
<1> QED
  BY <1>1, Invariance, PTL

-----------------------------------------------------------------------------
(* UndisturbedKeysAgree.  The application makes one connection to a crypto *)
(* port.  When nothing fails, a server that has seen it either dies, and a *)
(* later server sees none, or follows it step by step to its response,     *)
(* which is then read whole.                                               *)

Syn == link.state = "syn" =>
           link.end = "open" /\ link.up = << >> /\ pc \in {"kxWait", "wait"}

\* Nothing failed, and this is the application's first boot.
Undisturbed == faults = 0 /\ boot = 1 /\ pc \notin {"off", "exit"}

\* How far the exchange with the running server has come.
Asked ==
    /\ OnCrypto /\ link.end = "open"
    /\ \/ pc \in {"kxWait", "kxWrite"} /\ link.up = << >>
       \/ pc = "kxRead" /\ link.up = Public

Received ==
    /\ OnCrypto /\ link.end = "open" /\ pc = "kxRead"
    /\ conn = boot /\ data = Public

Answered ==
    \/ /\ pc = "kxRead" /\ OnCrypto /\ link.end = "fin"
       /\ buffer \o link.down = Response(server, Public)
    \/ pc = "kxDecrypt" /\ buffer = Response(server, Public)
    \/ pc = "kxStore" /\ plain = server
    \/ pc \in {"kxClose", "create", "connect", "wait", "up"} /\ hStoredKey = server

Stage ==
    \/ ~ Visited
    \/ spc = "down"
    \/ spc \in {"crypto", "recv"} /\ Asked
    \/ spc = "reply" /\ Received
    \/ spc \in {"accept", "serve"} /\ Answered

Progress == Undisturbed => Stage

LEMMA NothingLost ==
    ASSUME NEW s \in Seq(Part), NEW t \in Seq(Part), NEW n \in 1 .. Len(t)
    PROVE  (s \o SubSeq(t, 1, n)) \o SubSeq(t, n + 1, Len(t)) = s \o t
<1> DEFINE u == s \o SubSeq(t, 1, n)
           v == SubSeq(t, n + 1, Len(t))
<1>1. /\ u \in Seq(Part) /\ v \in Seq(Part)
      /\ Len(u) = Len(s) + n /\ Len(v) = Len(t) - n
      /\ \A i \in 1 .. Len(s) : u[i] = s[i]
      /\ \A i \in 1 .. n : u[Len(s) + i] = t[i]
      /\ \A i \in 1 .. Len(t) - n : v[i] = t[n + i]
  BY Taking
<1>2. Len(s) \in Nat /\ Len(t) \in Nat
  OBVIOUS
<1> HIDE DEF u, v
<1>3. /\ u \o v \in Seq(Part) /\ Len(u \o v) = Len(u) + Len(v)
      /\ \A i \in 1 .. Len(u) + Len(v) :
            (u \o v)[i] = IF i <= Len(u) THEN u[i] ELSE v[i - Len(u)]
      /\ s \o t \in Seq(Part) /\ Len(s \o t) = Len(s) + Len(t)
      /\ \A i \in 1 .. Len(s) + Len(t) :
            (s \o t)[i] = IF i <= Len(s) THEN s[i] ELSE t[i - Len(s)]
  BY <1>1, ConcatProperties
<1>4. ASSUME NEW i \in 1 .. Len(s) + Len(t)
      PROVE  (u \o v)[i] = (s \o t)[i]
  <2>0. Len(u) + Len(v) = Len(s) + Len(t)
    BY <1>1, <1>2
  <2>1. CASE i <= Len(s)
    BY <1>1, <1>2, <1>3, <2>0, <2>1
  <2>2. CASE Len(s) < i /\ i <= Len(s) + n
    <3>1. PICK j \in 1 .. n : i = Len(s) + j
      <4>1. i - Len(s) \in 1 .. n /\ i = Len(s) + (i - Len(s))
        BY <1>2, <2>2
      <4> QED
        BY <4>1
    <3>2. i <= Len(u) /\ (u \o v)[i] = u[Len(s) + j]
      BY <1>1, <1>2, <1>3, <2>0, <2>2, <3>1
    <3>3. (s \o t)[i] = t[j]
      BY <1>2, <1>3, <2>2, <3>1
    <3> QED
      BY <1>1, <3>2, <3>3
  <2>3. CASE Len(s) + n < i
    <3>1. PICK j \in 1 .. Len(t) - n : i = Len(u) + j
      <4>1. i - Len(u) \in 1 .. Len(t) - n /\ i = Len(u) + (i - Len(u))
        BY <1>1, <1>2, <2>3
      <4> QED
        BY <4>1
    <3>2. (u \o v)[i] = v[j]
      <4>1. i \in 1 .. Len(u) + Len(v)
        BY <2>0
      <4>2. ~ (i <= Len(u)) /\ i - Len(u) = j
        BY <1>1, <1>2, <2>3, <3>1
      <4>3. (u \o v)[i] = IF i <= Len(u) THEN u[i] ELSE v[i - Len(u)]
        BY <1>3, <4>1
      <4> QED
        BY <4>2, <4>3
    <3>3. (s \o t)[i] = t[n + j]
      BY <1>1, <1>2, <1>3, <2>3, <3>1
    <3> QED
      BY <1>1, <3>2, <3>3
  <2>4. i <= Len(s) \/ (Len(s) < i /\ i <= Len(s) + n) \/ Len(s) + n < i
    <3>1. \A a, b, c \in Nat : a <= b \/ (b < a /\ a <= b + c) \/ b + c < a
      OBVIOUS
    <3> QED
      BY <1>2, <3>1
  <2> QED
    BY <2>1, <2>2, <2>3, <2>4
<1>5. u \o v = s \o t
  <2>1. Len(u \o v) = Len(s \o t)
    BY <1>1, <1>2, <1>3
  <2>2. \A i \in 1 .. Len(u \o v) : (u \o v)[i] = (s \o t)[i]
    BY <1>3, <1>4, <2>1
  <2> QED
    BY ONLY <1>3, <2>1, <2>2, SeqEqual
<1> QED
  BY <1>5 DEF u, v

LEMMA FaultsCount ==
    ASSUME faults \in Nat, [Next]_vars
    PROVE  faults' \in {faults, faults + 1}
<1>1. CASE SwitchOn \/ SwitchOff
  BY <1>1 DEF SwitchOn, SwitchOff
<1>2. CASE App
  BY <1>2 DEF App, StartExchange, CreateSocket, ConnectSocket, WaitForConnection,
     SendPublicKeys, ReadResponse, Decrypt, StoreKey, CloseExchange, Fails
<1>3. CASE Deliver \/ Break \/ StartServer \/ Kill
  BY <1>3 DEF Deliver, Break, StartServer, Kill, Fails
<1>4. CASE Python
  BY <1>4 DEF Python, ListenCrypto, AcceptCrypto, Receive, Reply, AcceptData, Fails
<1>5. CASE UNCHANGED vars
  BY <1>5 DEF vars
<1> QED
  BY <1>1, <1>2, <1>3, <1>4, <1>5 DEF Next

\* A connection that is made is new, and the application waits for it.
LEMMA SynKept ==
    ASSUME IInv, Syn, [Next]_vars
    PROVE  Syn'
<1> USE DEF Syn
<1>1. CASE SwitchOn \/ SwitchOff
  BY <1>1, NoLinkFacts DEF SwitchOn, SwitchOff
<1>2. CASE App
  <2>1. CASE ConnectSocket("kxConnect", "crypto", "kxWait")
    BY <2>1, NoLinkFacts DEF ConnectSocket, NoLink, GiveUp, net
  <2>2. CASE ConnectSocket("connect", "data", "wait")
    BY <2>2, NoLinkFacts DEF ConnectSocket, NoLink, GiveUp, net
  <2>3. CASE SendPublicKeys
    <3>1. link.state # "syn"
      BY <2>3 DEF SendPublicKeys
    <3> QED
      BY <2>3, <3>1 DEF SendPublicKeys, IInv, Streams, Links
  <2>4. CASE ReadResponse
    <3>1. link.state # "syn"
      BY <2>4 DEF ReadResponse
    <3> QED
      BY <2>4, <3>1 DEF ReadResponse, IInv, Streams, Links
  <2>5. CASE WaitForConnection("kxWait", "kxWrite") \/ WaitForConnection("wait", "up")
    <3>1. "CONN_EST" \in pending => link.state # "syn"
      BY DEF IInv, Unread
    <3> QED
      BY <2>5, <3>1, NoLinkFacts DEF WaitForConnection, GiveUp
  <2>6. CASE /\ pc \notin {"kxWait", "wait"}
             /\ link' \in {link, NoLink}
    BY <2>6, NoLinkFacts
  <2> QED
    BY <1>2, <2>1, <2>2, <2>3, <2>4, <2>5, <2>6
    DEF App, StartExchange, CreateSocket, Decrypt, StoreKey, CloseExchange, net
<1>3. CASE Deliver
  BY <1>3, NoLinkFacts DEF Deliver, app, IInv, Streams, Links
<1>4. CASE link.state = "est" /\ link'.state = "est"
  BY <1>4
<1>5. CASE UNCHANGED << link, pc >>
  BY <1>5
<1>6. CASE Break \/ Kill \/ Receive \/ Reply
  <2>1. Connected => link.state = "est"
    BY DEF Connected
  <2>2. link \in Links
    BY DEF IInv, Streams
  <2>3. CASE Break
    BY <1>4, <2>1, <2>2, <2>3 DEF Break, Links
  <2>4. CASE Die /\ UNCHANGED app
    <3>1. CASE Connected
      BY <1>4, <2>1, <2>2, <2>4, <3>1 DEF Die, Links
    <3>2. CASE ~ Connected
      BY <1>5, <2>4, <3>2 DEF Die, app, net
    <3> QED
      BY <3>1, <3>2
  <2>5. CASE Receive
    <3>1. CASE \E n \in 1 .. Len(link.up) :
                  link' = [link EXCEPT !.up = SubSeq(@, n + 1, Len(@))]
      BY <1>4, <2>1, <2>2, <2>5, <3>1 DEF Receive, OnCrypto, Links
    <3> QED
      BY <2>4, <2>5, <3>1 DEF Receive
  <2>6. CASE Reply
    <3>1. CASE OnCrypto /\ link.end = "open" /\ ~ UNCHANGED net
      BY <1>4, <2>1, <2>2, <2>6, <3>1 DEF Reply, OnCrypto, Links
    <3> QED
      BY <1>5, <2>4, <2>6, <3>1 DEF Reply, app, net
  <2> QED
    BY <1>6, <2>3, <2>4, <2>5, <2>6 DEF Kill
<1>7. CASE StartServer \/ ListenCrypto \/ AcceptCrypto \/ AcceptData \/ UNCHANGED vars
  BY <1>5, <1>7 DEF StartServer, ListenCrypto, AcceptCrypto, AcceptData, app, net, vars
<1> QED
  BY <1>1, <1>2, <1>3, <1>6, <1>7 DEF Next, Python

\* From here on, the steps between two undisturbed states.
LEMMA NoFault ==
    ASSUME faults \in Nat, faults' \in {faults, faults + 1}, Undisturbed'
    PROVE  faults = 0 /\ faults' = faults /\ ~ Fails
  BY DEF Undisturbed, Fails

\* The application switched on for the first time meets servers that nobody visited.
LEMMA SwitchProgresses ==
    ASSUME IInv, SwitchOn \/ SwitchOff, boot = 0 => ~ Visited
    PROVE  Progress'
<1>1. CASE SwitchOff
  BY <1>1 DEF SwitchOff, Progress, Undisturbed
<1>2. CASE SwitchOn
  <2>1. SUFFICES ASSUME Undisturbed' PROVE ~ Visited'
    BY DEF Progress, Stage
  <2>2. boot = 0
    BY <1>2, <2>1 DEF SwitchOn, Undisturbed, IInv, Types
  <2> QED
    BY <1>2, <2>2 DEF SwitchOn, Visited, python
<1> QED
  BY <1>1, <1>2

\* The steps of the application.
LEMMA AppProgresses ==
    ASSUME IInv, Syn, Progress, App, faults \in Nat
    PROVE  Progress'
<1>1. SUFFICES ASSUME Undisturbed' PROVE Stage'
  BY DEF Progress
<1>2. faults' \in {faults, faults + 1} /\ boot' = boot /\ UNCHANGED python
      /\ pc \notin {"off", "exit"}
  BY DEF App, StartExchange, CreateSocket, ConnectSocket, WaitForConnection, GiveUp,
     SendPublicKeys, ReadResponse, Decrypt, StoreKey, CloseExchange, Fails
<1>3. ~ Fails /\ ~ GiveUp /\ Stage
  BY <1>1, <1>2, NoFault DEF GiveUp, Undisturbed, Progress
<1>4. (Visited' <=> Visited) /\ spc' = spc /\ server' = server /\ conn' = conn
      /\ data' = data
  BY <1>2 DEF Visited, python
<1>5. SUFFICES ASSUME Visited, spc # "down" PROVE Stage'
  BY <1>4 DEF Stage
<1>6. \/ spc \in {"crypto", "recv"} /\ Asked
      \/ spc = "reply" /\ Received
      \/ spc \in {"accept", "serve"} /\ Answered
  BY <1>3, <1>5 DEF Stage
<1>7. Asked => Asked'
  <2> SUFFICES ASSUME Asked PROVE Asked'
    OBVIOUS
  <2>1. /\ link \in Links /\ link.end = "open" /\ link.down = << >> /\ OnCrypto
        /\ link.port = "crypto"
    BY DEF Asked, OnCrypto, IInv, Streams, Unread
  <2>2. CASE pc = "kxWait" /\ link.up = << >>
    <3>1. WaitForConnection("kxWait", "kxWrite")
      BY <2>2 DEF App, StartExchange, CreateSocket, ConnectSocket, WaitForConnection,
         SendPublicKeys, ReadResponse, Decrypt, StoreKey, CloseExchange
    <3>2. pc' = "kxWrite" /\ link' = link
      BY <1>3, <3>1 DEF WaitForConnection
    <3> QED
      BY <1>4, <2>1, <2>2, <3>2 DEF Asked, OnCrypto, Connected
  <2>3. CASE pc = "kxWrite" /\ link.up = << >>
    <3>1. SendPublicKeys
      BY <2>3 DEF App, StartExchange, CreateSocket, ConnectSocket, WaitForConnection,
         SendPublicKeys, ReadResponse, Decrypt, StoreKey, CloseExchange
    <3>2. pc' = "kxRead" /\ link' = [link EXCEPT !.up = Public]
      BY <1>3, <3>1 DEF SendPublicKeys
    <3> QED
      BY <1>4, <2>1, <3>2 DEF Asked, OnCrypto, Connected, Links
  <2>4. CASE pc = "kxRead" /\ link.up = Public
    <3>1. ReadResponse
      BY <2>4 DEF App, StartExchange, CreateSocket, ConnectSocket, WaitForConnection,
         SendPublicKeys, ReadResponse, Decrypt, StoreKey, CloseExchange
    <3>2. ~ Ended /\ Len(link.down) = 0
      BY <2>1 DEF Ended
    <3> QED
      BY <3>1, <3>2 DEF ReadResponse
  <2> QED
    BY <2>2, <2>3, <2>4 DEF Asked
<1>8. ~ Received
  <2> SUFFICES ASSUME Received PROVE FALSE
    OBVIOUS
  <2>1. link.end = "open" /\ link.down = << >> /\ pc = "kxRead"
    BY DEF Received, OnCrypto, IInv, Unread
  <2>2. ReadResponse
    BY <2>1 DEF App, StartExchange, CreateSocket, ConnectSocket, WaitForConnection,
       SendPublicKeys, ReadResponse, Decrypt, StoreKey, CloseExchange
  <2>3. ~ Ended /\ Len(link.down) = 0
    BY <2>1 DEF Ended
  <2> QED
    BY <2>2, <2>3 DEF ReadResponse
<1>9. Answered => Answered'
  <2> SUFFICES ASSUME Answered PROVE Answered'
    OBVIOUS
  <2> DEFINE whole == Response(server, Public)
  <2>1. whole' = whole
    BY <1>4 DEF Response, Public
  <2>2. server \in Nat /\ buffer \in Seq(Part) /\ link \in Links /\ link.down \in Seq(Part)
    BY DEF IInv, Types, Streams, Links
  <2>3. CASE pc = "kxRead" /\ OnCrypto /\ link.end = "fin" /\ buffer \o link.down = whole
    <3>1. ReadResponse
      BY <2>3 DEF App, StartExchange, CreateSocket, ConnectSocket, WaitForConnection,
         SendPublicKeys, ReadResponse, Decrypt, StoreKey, CloseExchange
    <3>2. CASE pc' = pc
      <4> HIDE DEF whole
      <4>1. PICK t : t = link.down
        OBVIOUS
      <4>2. PICK n \in 1 .. Len(t) :
               /\ buffer' = buffer \o SubSeq(t, 1, n)
               /\ link' = [link EXCEPT !.down = SubSeq(t, n + 1, Len(t))]
        BY <2>3, <3>1, <3>2, <4>1 DEF ReadResponse
      <4>3. /\ link'.down = SubSeq(t, n + 1, Len(t)) /\ link'.end = "fin"
            /\ link'.port = link.port /\ link'.state = link.state /\ link'.to = link.to
        BY <2>2, <2>3, <4>2 DEF Links
      <4>4. buffer' \o link'.down = whole
        <5>1. PICK b : b = buffer
          OBVIOUS
        <5>2. b \in Seq(Part) /\ t \in Seq(Part)
          BY <2>2, <4>1, <5>1
        <5>3. (b \o SubSeq(t, 1, n)) \o SubSeq(t, n + 1, Len(t)) = b \o t
          BY ONLY <5>2, n \in 1 .. Len(t), NothingLost
        <5> QED
          BY <2>3, <4>1, <4>2, <4>3, <5>1, <5>3
      <4> QED
        BY <1>4, <2>1, <2>3, <3>2, <4>3, <4>4 DEF Answered, OnCrypto, Connected, whole
    <3>3. CASE pc' # pc
      <4>1. link.down = << >> /\ pc' = "kxDecrypt" /\ buffer' = buffer
        BY <2>3, <3>1, <3>3 DEF ReadResponse, Ended
      <4>2. buffer \o << >> = buffer
        BY <2>2
      <4> QED
        BY <2>1, <2>3, <4>1, <4>2 DEF Answered
    <3> QED
      BY <3>2, <3>3
  <2>4. CASE pc = "kxDecrypt" /\ buffer = whole
    <3>1. Decrypt
      BY <2>4 DEF App, StartExchange, CreateSocket, ConnectSocket, WaitForConnection,
         SendPublicKeys, ReadResponse, Decrypt, StoreKey, CloseExchange
    <3>2. Len(whole) = 2 /\ whole[1].good /\ whole[1].key = server
      BY DEF Response
    <3>3. pc' = "kxStore" /\ plain' = server
      BY <1>3, <2>4, <3>1, <3>2 DEF Decrypt
    <3> QED
      BY <1>4, <3>3 DEF Answered
  <2>5. CASE pc = "kxStore" /\ plain = server
    <3>1. StoreKey
      BY <2>5 DEF App, StartExchange, CreateSocket, ConnectSocket, WaitForConnection,
         SendPublicKeys, ReadResponse, Decrypt, StoreKey, CloseExchange
    <3>2. pc' = "kxClose" /\ hStoredKey' = server
      BY <1>3, <2>5, <3>1 DEF StoreKey
    <3> QED
      BY <1>4, <3>2 DEF Answered
  <2>6. CASE pc \in {"kxClose", "create", "connect", "wait", "up"} /\ hStoredKey = server
    <3>1. hStoredKey' = hStoredKey /\ pc' \in {"create", "connect", "wait", "up"}
      BY <1>3, <2>6 DEF App, StartExchange, CreateSocket, ConnectSocket, WaitForConnection,
         SendPublicKeys, ReadResponse, Decrypt, StoreKey, CloseExchange
    <3> QED
      BY <1>4, <2>6, <3>1 DEF Answered
  <2> QED
    BY <2>3, <2>4, <2>5, <2>6 DEF Answered
<1> QED
  BY <1>4, <1>6, <1>7, <1>8, <1>9 DEF Stage

\* The network.
LEMMA DeliverProgresses ==
    ASSUME IInv, Syn, Progress, Deliver
    PROVE  Progress'
<1>1. SUFFICES ASSUME Undisturbed' PROVE Stage'
  BY DEF Progress
<1>2. /\ UNCHANGED << app, spc, server, conn, data, faults >> /\ link.state = "syn"
      /\ Undisturbed /\ Stage
  BY <1>1 DEF Deliver, app, Undisturbed, Progress
<1>3. CASE spc = "down" \/ (spc \in {"accept", "serve"} /\ Answered)
  <2>1. Answered => Answered'
    <3>1. ~ OnCrypto
      BY <1>2 DEF OnCrypto, Connected
    <3> QED
      BY <1>2, <3>1 DEF Answered, app, Response
  <2> QED
    BY <1>2, <1>3, <2>1 DEF Stage
<1>4. CASE ~ Visited
  <2>1. CASE link.port \in Listening /\ link.port = "crypto"
    <3>1. spc = "crypto"
      BY <1>4, <2>1 DEF Listening, Visited
    <3>2. link' = [link EXCEPT !.state = "est", !.to = server]
      BY <2>1 DEF Deliver
    <3>3. /\ link'.end = "open" /\ link'.up = << >> /\ pc = "kxWait" /\ link'.port = "crypto"
          /\ link'.state = "est" /\ link'.to = server
      BY <1>2, <2>1, <3>2 DEF Syn, IInv, Streams, Unread, Links
    <3> QED
      BY <1>2, <3>1, <3>3 DEF Stage, Asked, OnCrypto, Connected, app
  <2>2. CASE ~ (link.port \in Listening /\ link.port = "crypto")
    <3>1. backlog'["crypto"] = backlog["crypto"]
      <4>1. Listening \subseteq Ports /\ "crypto" \in Ports
        BY DEF Listening, Ports
      <4> QED
        BY <2>2, <4>1 DEF Deliver, IInv, Types
    <3> QED
      BY <1>2, <1>4, <3>1 DEF Stage, Visited
  <2> QED
    BY <2>1, <2>2
<1>5. ~ Asked /\ ~ Received
  BY <1>2 DEF Asked, Received, OnCrypto, Connected
<1> QED
  BY <1>2, <1>3, <1>4, <1>5 DEF Stage

LEMMA BreakProgresses ==
    ASSUME faults \in Nat, Break
    PROVE  Progress'
  BY NoFault DEF Break, Progress, Fails, Undisturbed

\* A server that dies is out of it; the one that is started next has seen nobody.
LEMMA EndProgresses ==
    ASSUME spc' = "down" \/ StartServer
    PROVE  Progress'
<1>1. CASE spc' = "down"
  BY <1>1 DEF Progress, Stage
<1>2. CASE StartServer
  BY <1>2 DEF StartServer, Progress, Stage, Visited, Ports
<1> QED
  BY <1>1, <1>2

LEMMA AcceptProgresses ==
    ASSUME IInv, Progress, ListenCrypto \/ AcceptCrypto \/ AcceptData
    PROVE  Progress'
<1>1. SUFFICES ASSUME Undisturbed' PROVE Stage'
  BY DEF Progress
<1>2. UNCHANGED << app, net, server, data, faults >> /\ Undisturbed /\ Stage
  BY <1>1 DEF ListenCrypto, AcceptCrypto, AcceptData, app, Undisturbed, Progress
<1>3. CASE ListenCrypto
  BY <1>2, <1>3 DEF ListenCrypto, Stage, Visited
<1>4. CASE AcceptCrypto
  <2>1. Visited /\ spc = "crypto" /\ spc' = "recv"
    BY <1>4 DEF AcceptCrypto, Visited
  <2>2. Asked
    BY <1>2, <2>1 DEF Stage
  <2>3. Asked'
    BY <1>2, <2>2 DEF Asked, OnCrypto, Connected, app, net
  <2> QED
    BY <2>1, <2>3 DEF Stage
<1>5. CASE AcceptData
  <2>1. Visited /\ spc = "accept" /\ spc' = "serve"
    BY <1>5 DEF AcceptData, Visited
  <2>2. Answered
    BY <1>2, <2>1 DEF Stage
  <2>3. Answered'
    BY <1>2, <2>2 DEF Answered, OnCrypto, Connected, app, net, Response
  <2> QED
    BY <2>1, <2>3 DEF Stage
<1> QED
  BY <1>3, <1>4, <1>5

\* The server receives both public keys at once, and answers the boot that sent them.
LEMMA ReceiveProgresses ==
    ASSUME IInv, Progress, Receive, faults \in Nat, faults' \in {faults, faults + 1}
    PROVE  Progress'
<1>1. SUFFICES ASSUME Undisturbed', spc' # "down" PROVE Stage'
  BY EndProgresses DEF Progress, Stage
<1>2. UNCHANGED app /\ spc = "recv" /\ conn = boot /\ OnCrypto /\ ~ Fails /\ ~ Die
  BY <1>1, NoFault DEF Receive, Die
<1>3. Undisturbed /\ Asked
  <2>1. Undisturbed
    BY <1>1, <1>2, NoFault DEF Undisturbed, app
  <2> QED
    BY <1>2, <2>1 DEF Progress, Stage, Visited
<1>4. PICK n \in 1 .. Len(link.up) :
         /\ data' = SubSeq(link.up, 1, n) /\ n = Len(link.up)
         /\ link' = [link EXCEPT !.up = SubSeq(@, n + 1, Len(@))]
         /\ spc' = "reply" /\ UNCHANGED << pending, server, backlog, conn, peer >>
  BY <1>2 DEF Receive
<1>5. link.up = Public /\ pc = "kxRead" /\ link.end = "open"
  <2>1. Len(<< >>) = 0 /\ \A m \in 1 .. 0 : FALSE
    OBVIOUS
  <2> QED
    BY <1>3, <1>4, <2>1 DEF Asked
<1>6. data' = Public
  <2>1. \A u \in Seq({"ek", "srk"}) : SubSeq(u, 1, Len(u)) = u
    OBVIOUS
  <2>2. Public \in Seq({"ek", "srk"})
    BY <1>5 DEF IInv, Streams, Links
  <2> QED
    BY <1>4, <1>5, <2>1, <2>2
<1>7. /\ link'.end = link.end /\ link'.state = link.state /\ link'.to = link.to
      /\ link'.port = link.port
  BY <1>4 DEF IInv, Streams, Links
<1> QED
  BY <1>2, <1>4, <1>5, <1>6, <1>7 DEF Stage, Received, OnCrypto, Connected, app

LEMMA ReplyProgresses ==
    ASSUME IInv, Progress, Reply
    PROVE  Progress'
<1>1. SUFFICES ASSUME Undisturbed', spc' # "down" PROVE Stage'
  BY EndProgresses DEF Progress, Stage
<1>2. UNCHANGED << app, data, faults >> /\ spc = "reply" /\ ~ Die /\ Undisturbed
  BY <1>1 DEF Reply, Die, Undisturbed, app
<1>3. Received
  BY <1>2 DEF Progress, Stage, Visited
<1>4. /\ spc' = "accept" /\ server' = server
      /\ link' = [link EXCEPT !.down = Response(server, data), !.end = "fin"]
  BY <1>2, <1>3 DEF Reply, Received
<1>5. /\ pc' = "kxRead" /\ buffer' = << >> /\ data = Public /\ OnCrypto
  BY <1>2, <1>3 DEF Received, OnCrypto, IInv, Unread, app
<1>6. /\ link'.down = Response(server, Public) /\ link'.end = "fin"
      /\ link'.state = link.state /\ link'.to = link.to /\ link'.port = link.port
  BY <1>4, <1>5 DEF IInv, Streams, Links
<1>7. buffer' \o link'.down = Response(server', Public)
  <2>1. PICK r \in Seq(Part) : r = Response(server, Public)
    BY ResponseFacts DEF IInv, Types
  <2>2. << >> \o r = r
    OBVIOUS
  <2> QED
    BY <1>4, <1>5, <1>6, <2>1, <2>2
<1> QED
  BY <1>4, <1>5, <1>6, <1>7 DEF Stage, Answered, OnCrypto, Connected

KInv == IInv /\ faults \in Nat /\ (boot = 0 => ~ Visited) /\ Syn /\ Progress

\* Nobody has visited a server before the application was switched on.
LEMMA UnbootedKept ==
    ASSUME IInv, IInv', boot = 0 => ~ Visited, [Next]_vars, boot' = 0
    PROVE  ~ Visited'
<1>1. backlog'["crypto"] = << >>
  <2>1. backlog'["crypto"] \in Seq(1 .. 0)
    BY DEF IInv, Types, Ports
  <2> QED
    BY <2>1
<1>2. boot = 0 /\ ~ Visited
  <2>1. boot' \in {boot, boot + 1} /\ boot \in Nat
    BY DEF Next, SwitchOn, SwitchOff, App, StartExchange, CreateSocket, ConnectSocket,
       WaitForConnection, SendPublicKeys, ReadResponse, Decrypt, StoreKey, CloseExchange,
       GiveUp, Deliver, Break, StartServer, Kill, Python, ListenCrypto, AcceptCrypto,
       Receive, Reply, AcceptData, app, vars, IInv, Types
  <2> QED
    BY <2>1
<1>3. spc' \in {"down", "data", "crypto"}
  <2>1. spc \in {"down", "data", "crypto"} /\ backlog["crypto"] = << >>
    BY <1>2 DEF IInv, Types, Visited
  <2>2. spc' \in {spc, "down", "data", "crypto"}
    BY <2>1 DEF Next, SwitchOn, SwitchOff, App, StartExchange, CreateSocket, ConnectSocket,
       WaitForConnection, SendPublicKeys, ReadResponse, Decrypt, StoreKey, CloseExchange,
       Deliver, Break, StartServer, Kill, Die, Python, ListenCrypto, AcceptCrypto,
       Receive, Reply, AcceptData, python, vars
  <2> QED
    BY <2>1, <2>2
<1> QED
  BY <1>1, <1>3 DEF Visited

LEMMA ProgressKept ==
    ASSUME KInv, [Next]_vars, faults' \in {faults, faults + 1}
    PROVE  Progress'
<1>1. IInv /\ Syn /\ Progress /\ faults \in Nat /\ (boot = 0 => ~ Visited)
  BY DEF KInv
<1>2. CASE SwitchOn \/ SwitchOff
  BY <1>1, <1>2, SwitchProgresses
<1>3. CASE App
  BY <1>1, <1>3, AppProgresses
<1>4. CASE Deliver \/ Break
  BY <1>1, <1>4, DeliverProgresses, BreakProgresses
<1>5. CASE StartServer \/ Kill
  BY <1>5, EndProgresses DEF Kill, Die
<1>6. CASE ListenCrypto \/ AcceptCrypto \/ AcceptData
  BY <1>1, <1>6, AcceptProgresses
<1>7. CASE Receive \/ Reply
  BY <1>1, <1>7, ReceiveProgresses, ReplyProgresses
<1>8. CASE UNCHANGED vars
  BY <1>1, <1>8 DEF vars, app, net, python, Progress, Stage, Undisturbed, Visited, Asked,
     Received, Answered, OnCrypto, Connected, Response
<1> QED
  BY <1>2, <1>3, <1>4, <1>5, <1>6, <1>7, <1>8 DEF Next, Python

\* UndisturbedKeysAgree of KeyExchange: however often start_server is killed and
\* started again, at whatever point of the exchange, a channel of an application that
\* was booted once is with the server whose K_sym it has, unless something failed.
THEOREM UndisturbedKeysDoAgree == Spec => []UndisturbedKeysAgree
<1>1. Init => KInv
  <2> SUFFICES ASSUME Init PROVE KInv
    OBVIOUS
  <2>1. faults \in Nat /\ (boot = 0 => ~ Visited) /\ Syn /\ Progress
    BY NoLinkFacts DEF Init, Visited, Ports, Syn, Progress, Undisturbed
  <2> QED
    BY <2>1, InitEstablishes DEF KInv
<1>2. IInv /\ IInv' /\ KInv /\ [Next]_vars => KInv'
  <2> SUFFICES ASSUME IInv, IInv', KInv, [Next]_vars PROVE KInv'
    OBVIOUS
  <2>1. faults' \in {faults, faults + 1} /\ faults' \in Nat
    BY FaultsCount DEF KInv
  <2>2. boot' = 0 => ~ Visited'
    BY UnbootedKept DEF KInv
  <2>3. Syn' /\ Progress'
    BY <2>1, SynKept, ProgressKept DEF KInv
  <2> QED
    BY <2>1, <2>2, <2>3 DEF KInv
<1>3. KInv => UndisturbedKeysAgree
  BY DEF KInv, Progress, Stage, Undisturbed, Visited, Answered, UndisturbedKeysAgree, Channel
<1> QED
  BY <1>1, <1>2, <1>3, Invariance, PTL DEF Spec
=============================================================================
