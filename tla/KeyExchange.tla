---------------------------- MODULE KeyExchange ----------------------------
(***************************************************************************)
(* How the two sides agree on a key and open their channel: the calls      *)
(* create and connect of the component SecureCommunication, the first of   *)
(* which runs exchange_keys() (SecureCommunication.c), and start_server()  *)
(* of the Python client with setup_crypto_config() (communication.py,      *)
(* secureClient.py).  Each side can be restarted, and the network between  *)
(* them, the TPM and the stack can fail.                                   *)
(*                                                                         *)
(* The application makes one TCP connection at a time: link.  TCP keeps    *)
(* the order of the bytes and loses none while both ends live, but a read  *)
(* returns any part of what has arrived.  A boot of the application is     *)
(* known by its number, and so is a start of the server; the K_sym that    *)
(* the n-th server generates is n.  Key 0 is what 32 bytes of anything     *)
(* else are.                                                               *)
(*                                                                         *)
(* Data: the public keys are the parts "ek" and "srk" of a stream, and the *)
(* response is two parts that decrypt to its key when both are there.      *)
(*                                                                         *)
(* Bounds: MaxBoots, MaxServers, and MaxFaults failures of the network,    *)
(* the TPM or the stack.                                                   *)
(***************************************************************************)
EXTENDS Integers, Sequences

CONSTANTS MaxBoots, MaxServers, MaxFaults

ASSUME ExchangeAssumption ==
    MaxBoots \in Nat /\ MaxServers \in Nat /\ MaxFaults \in Nat

VARIABLES pc, boot,
          socket,         \* the stack's one socket is in use
          pending,        \* the events the stack holds for it
          link,
          buffer,         \* what exchange_keys has read
          plain,          \* the key in the dataport of the crypto interface
          hStoredKey,     \* the key behind this handle
          spc, server,
          backlog,        \* connections that wait for accept(), by port
          conn,           \* the boot that is connected on the crypto port
          data,           \* what setup_crypto_config has received
          peer,           \* the boot whose connection start_server returned
          imported,       \* EK_hash.txt holds the hash of this TPM's cEK
          faults

app     == << pc, boot, socket, buffer, plain, hStoredKey >>
net     == << link, pending >>
python  == << spc, server, backlog, conn, data, peer >>
vars    == << app, net, python, imported, faults >>

Ports  == {"crypto", "data"}
NoLink == [port |-> "none", to |-> 0, state |-> "none", end |-> "open",
           up |-> << >>, down |-> << >>]
Public == << "ek", "srk" >>

\* Slip: the K_sym that is encrypted is the one from before.
ResponseOfBefore(k, keys) ==
    LET c == [key |-> k - 1, good |-> keys = Public] IN << c, c >>

\* The response: K_sym encrypted with the public keys received, in two parts.
Response(k, keys) == LET c == [key |-> k, good |-> keys = Public] IN << c, c >>

Init ==
    /\ pc = "off" /\ boot = 0 /\ socket = FALSE /\ pending = {} /\ link = NoLink
    /\ buffer = << >> /\ plain = 0 /\ hStoredKey = 0
    /\ spc = "down" /\ server = 0 /\ backlog = [p \in Ports |-> << >>]
    /\ conn = 0 /\ data = << >> /\ peer = 0
    /\ imported \in BOOLEAN /\ faults = 0

Fails == faults < MaxFaults /\ faults' = faults + 1

\* The component or the application gives up; nothing but a reboot helps.
GiveUp == pc' = "exit" /\ UNCHANGED << boot, buffer, plain, hStoredKey >>

\* The application's connection is one to this server; to its crypto port.
Connected == link.state = "est" /\ link.to = server
OnCrypto  == Connected /\ link.port = "crypto"

-----------------------------------------------------------------------------
(* The application's machine.                                              *)

SwitchOn ==
    /\ pc = "off" /\ boot < MaxBoots
    /\ boot' = boot + 1 /\ pc' = "start"
    /\ socket' = FALSE /\ buffer' = << >> /\ plain' = 0 /\ hStoredKey' = 0
    /\ link' = NoLink /\ pending' = {}
    /\ UNCHANGED << python, imported, faults >>

\* The power goes: the server's side of a connection hears nothing of it.
SwitchOff ==
    /\ pc # "off" /\ boot < MaxBoots
    /\ pc' = "off" /\ link' = NoLink /\ pending' = {}
    /\ UNCHANGED << boot, socket, buffer, plain, hStoredKey, python, imported, faults >>

\* secureCommunication_rpc_socket_create with is_initialized = 0: exchange_keys
\* gets the two public keys and waits for the network stack.
StartExchange ==
    /\ pc = "start"
    /\ \/ pc' = "kxCreate" /\ UNCHANGED << boot, buffer, plain, hStoredKey, faults >>
       \/ Fails /\ GiveUp
    /\ UNCHANGED << socket, net, python, imported >>

\* OS_Socket_create, in exchange_keys and for the client.  There is one socket.
CreateSocket(at, next) ==
    /\ pc = at
    /\ \/ /\ ~ socket /\ socket' = TRUE /\ pc' = next
          /\ UNCHANGED << boot, buffer, plain, hStoredKey, faults >>
       \/ socket /\ GiveUp /\ UNCHANGED << socket, faults >>
       \/ Fails /\ GiveUp /\ UNCHANGED socket
    /\ UNCHANGED << net, python, imported >>

\* OS_Socket_connect returns before the connection is there.  When it fails the
\* socket is closed.
ConnectSocket(at, port, next) ==
    /\ pc = at
    /\ \/ /\ link' = [NoLink EXCEPT !.port = port, !.state = "syn"]
          /\ pending' = {} /\ pc' = next
          /\ UNCHANGED << boot, socket, buffer, plain, hStoredKey, faults >>
       \/ Fails /\ GiveUp /\ socket' = FALSE /\ UNCHANGED net
    /\ UNCHANGED << python, imported >>

\* waitForConnectionEstablished.  The bits of the mask are looked at in this order:
\* FIN, CONN_EST, CLOSE, ERROR.
WaitForConnection(at, next) ==
    /\ pc = at /\ pending # {} /\ pending' = {}
    /\ IF "FIN" \notin pending /\ "CONN_EST" \in pending
       THEN /\ pc' = next
            /\ UNCHANGED << boot, socket, buffer, plain, hStoredKey, link >>
       ELSE GiveUp /\ socket' = FALSE /\ link' = NoLink
    /\ UNCHANGED << python, imported, faults >>

\* The public keys are written.  The stack may take only the first of them: the
\* count it returns is not looked at.  A write that fails ends the exchange, and
\* leaves the socket.
SendPublicKeys ==
    /\ pc = "kxWrite"
    /\ \/ /\ link.end # "rst" /\ pc' = "kxRead"
          /\ \/ link' = [link EXCEPT !.up = Public] /\ UNCHANGED faults
             \/ link' = [link EXCEPT !.up = << "ek" >>] /\ Fails
          /\ UNCHANGED << boot, buffer, plain, hStoredKey >>
       \/ link.end = "rst" /\ GiveUp /\ UNCHANGED << link, faults >>
    /\ UNCHANGED << socket, pending, python, imported >>

\* OS_Socket_read returns no data and no OS_ERROR_TRY_AGAIN; a reset may cost what
\* has not been read.
Ended == link.end = "rst" \/ (link.end = "fin" /\ link.down = << >>)

\* Slip: one read is taken for all.
ReadOnce ==
    /\ pc = "kxRead"
    /\ \/ \E n \in 1 .. Len(link.down) :
             buffer' = SubSeq(link.down, 1, n) /\ UNCHANGED link
       \/ /\ Ended
          /\ UNCHANGED << buffer, link >>
    /\ pc' = "kxDecrypt"
    /\ UNCHANGED << boot, socket, plain, hStoredKey, pending, python, imported, faults >>

\* The reading loop: it goes on until the connection is closed or fails.  While
\* there is nothing to read it tries again, which changes nothing.
ReadResponse ==
    /\ pc = "kxRead"
    /\ \/ \E n \in 1 .. Len(link.down) :
             /\ buffer' = buffer \o SubSeq(link.down, 1, n)
             /\ link' = [link EXCEPT !.down = SubSeq(link.down, n + 1, Len(link.down))]
             /\ UNCHANGED pc
       \/ /\ Ended
          /\ pc' = "kxDecrypt" /\ UNCHANGED << buffer, link >>
    /\ UNCHANGED << boot, socket, plain, hStoredKey, pending, python, imported, faults >>

\* decrypt_RSA_OAEP with cEK and then with cSRK; neither result is looked at.
Decrypt ==
    /\ pc = "kxDecrypt" /\ pc' = "kxStore"
    /\ \/ /\ plain' = IF Len(buffer) = 2 /\ buffer[1].good THEN buffer[1].key ELSE 0
          /\ UNCHANGED faults
       \/ plain' = 0 /\ Fails
    /\ UNCHANGED << boot, socket, buffer, hStoredKey, net, python, imported >>

\* keystore.storeKey(32).  When it fails, exchange_keys returns -1 and the program
\* ends.
StoreKey ==
    /\ pc = "kxStore"
    /\ \/ /\ hStoredKey' = plain /\ pc' = "kxClose"
          /\ UNCHANGED << boot, buffer, plain, faults >>
       \/ Fails /\ GiveUp
    /\ UNCHANGED << socket, net, python, imported >>

\* Slip: the socket of the exchange is not closed.
CloseExchangeNot ==
    /\ pc = "kxClose" /\ pc' = "create"
    /\ UNCHANGED << boot, socket, buffer, plain, hStoredKey, net, python, imported, faults >>

\* OS_Socket_close, whose failure is only logged; is_initialized is set.
CloseExchange ==
    /\ pc = "kxClose" /\ pc' = "create"
    /\ \/ socket' = FALSE /\ UNCHANGED faults
       \/ Fails /\ UNCHANGED socket
    /\ link' = NoLink /\ pending' = {}
    /\ UNCHANGED << boot, buffer, plain, hStoredKey, python, imported >>

App ==
    \/ StartExchange
    \/ CreateSocket("kxCreate", "kxConnect")
    \/ ConnectSocket("kxConnect", "crypto", "kxWait")
    \/ WaitForConnection("kxWait", "kxWrite")
    \/ SendPublicKeys \/ ReadResponse \/ Decrypt \/ StoreKey \/ CloseExchange
    \/ CreateSocket("create", "connect")
    \/ ConnectSocket("connect", "data", "wait")
    \/ WaitForConnection("wait", "up")

-----------------------------------------------------------------------------
(* TCP.                                                                    *)

\* The ports on which the server's machine takes connections.
Listening ==
    CASE spc \in {"data", "accept", "serve"} -> {"data"}
      [] spc \in {"crypto", "recv", "reply"} -> Ports
      [] OTHER -> {}

\* The connection is made by the server's machine, accept() or not; or refused.
Deliver ==
    /\ link.state = "syn"
    /\ IF link.port \in Listening
       THEN /\ link' = [link EXCEPT !.state = "est", !.to = server]
            /\ pending' = pending \union {"CONN_EST"}
            /\ backlog' = [backlog EXCEPT ![link.port] = Append(@, boot)]
       ELSE /\ link' = NoLink /\ pending' = pending \union {"FIN"}
            /\ UNCHANGED backlog
    /\ UNCHANGED << app, spc, server, conn, data, peer, imported, faults >>

\* The network breaks the connection.
Break ==
    /\ link.state = "est" /\ link.end = "open" /\ Fails
    /\ link' = [link EXCEPT !.end = "rst"]
    /\ pending' = pending \union {"ERROR"}
    /\ UNCHANGED << app, python, imported >>

-----------------------------------------------------------------------------
(* The Python side.                                                        *)

\* start_server binds its port and listens on it.
StartServer ==
    /\ spc = "down" /\ server < MaxServers
    /\ spc' = "data" /\ server' = server + 1
    /\ backlog' = [p \in Ports |-> << >>]
    /\ conn' = 0 /\ data' = << >> /\ peer' = 0
    /\ UNCHANGED << app, net, imported, faults >>

\* setup_crypto_config listens on the crypto port.
ListenCrypto ==
    /\ spc = "data" /\ spc' = "crypto"
    /\ UNCHANGED << app, net, server, backlog, conn, data, peer, imported, faults >>

AcceptCrypto ==
    /\ spc = "crypto" /\ backlog["crypto"] # << >>
    /\ conn' = Head(backlog["crypto"])
    /\ backlog' = [backlog EXCEPT !["crypto"] = Tail(@)]
    /\ spc' = "recv"
    /\ UNCHANGED << app, net, server, data, peer, imported, faults >>

\* The process ends: with an exception, with exit(1), or because it is killed.  Its
\* connections are closed by the system.
Die ==
    /\ spc' = "down"
    /\ IF Connected
       THEN \E end \in {"fin", "rst"} :
               /\ link' = [link EXCEPT !.end = IF @ = "open" THEN end ELSE @]
               /\ pending' = pending \union {"CLOSE"}
       ELSE UNCHANGED net
    /\ UNCHANGED << server, backlog, conn, peer >>

\* conn.recv(1024), once, and what is done with it.  That the keys arrive in two
\* pieces, although they fit into one segment, counts as a failure of the network.
\* A cEK whose hash is not the imported one ends the program; an incomplete cSRK
\* raises an exception, or makes another key.
Receive ==
    /\ spc = "recv" /\ conn = boot /\ OnCrypto
    /\ \/ /\ link.end # "rst"
          /\ \E n \in 1 .. Len(link.up) :
                /\ data' = SubSeq(link.up, 1, n)
                /\ IF n = Len(link.up) THEN UNCHANGED faults ELSE Fails
                /\ \/ /\ imported /\ spc' = "reply"
                      /\ link' = [link EXCEPT !.up = SubSeq(@, n + 1, Len(@))]
                      /\ UNCHANGED << pending, server, backlog, conn, peer >>
                   \/ (~ imported \/ data' # Public) /\ Die
       \/ link.end = "rst" /\ Die /\ UNCHANGED << data, faults >>
    /\ UNCHANGED << app, imported >>

\* Slip: the connection stays open after the response.
ReplyKeepOpen ==
    /\ spc = "reply" /\ spc' = "accept"
    /\ link' = IF conn = boot /\ OnCrypto
               THEN [link EXCEPT !.down = Response(server, data)] ELSE link
    /\ UNCHANGED << app, pending, server, backlog, conn, data, peer, imported, faults >>

\* K_sym is generated, encrypted and sent; then the connection and the crypto port
\* are closed, which resets a connection that waits for accept() there.  A response
\* to a peer that is gone is lost without an error; one on a broken connection may
\* raise an exception.
Reply ==
    /\ spc = "reply"
    /\ \/ /\ spc' = "accept"
          /\ IF OnCrypto /\ link.end = "open"
             THEN /\ link' = IF conn = boot
                             THEN [link EXCEPT !.down = Response(server, data),
                                               !.end = "fin"]
                             ELSE [link EXCEPT !.end = "rst"]
                  /\ pending' = pending \union {"CLOSE"}
             ELSE UNCHANGED net
          /\ UNCHANGED << server, backlog, conn, peer >>
       \/ conn = boot /\ OnCrypto /\ link.end = "rst" /\ Die
    /\ UNCHANGED << app, data, imported, faults >>

\* server_socket.accept(): the oldest connection.
AcceptData ==
    /\ spc = "accept" /\ backlog["data"] # << >>
    /\ peer' = Head(backlog["data"]) /\ spc' = "serve"
    /\ backlog' = [backlog EXCEPT !["data"] = Tail(@)]
    /\ UNCHANGED << app, net, server, conn, data, imported, faults >>

Kill ==
    /\ spc # "down" /\ server < MaxServers /\ Die
    /\ UNCHANGED << app, data, imported, faults >>

Python == ListenCrypto \/ AcceptCrypto \/ Receive \/ Reply \/ AcceptData

Next ==
    \/ SwitchOn \/ SwitchOff \/ App \/ Deliver \/ Break
    \/ StartServer \/ Kill \/ Python

\* Both programs run on, and TCP delivers.  Nobody has to switch anything on.
Spec == Init /\ [][Next]_vars /\ WF_vars(App) /\ WF_vars(Deliver) /\ WF_vars(Python)

-----------------------------------------------------------------------------
(* What must hold.                                                         *)

\* Type of the state: no more is read than the response, and the connections that
\* wait for accept() are those of boots.
TypeOK ==
    /\ pc \in {"off", "start", "kxCreate", "kxConnect", "kxWait", "kxWrite", "kxRead",
               "kxDecrypt", "kxStore", "kxClose", "create", "connect", "wait", "up", "exit"}
    /\ spc \in {"down", "data", "crypto", "recv", "reply", "accept", "serve"}
    /\ Len(buffer) <= 2 /\ plain \in 0 .. server /\ hStoredKey \in 0 .. server
    /\ backlog \in [Ports -> Seq(1 .. boot)]
    /\ conn \in 0 .. boot /\ peer \in 0 .. boot

\* The channel: an application that is up, and the server that serves its connection.
Channel == pc = "up" /\ spc = "serve" /\ peer = boot /\ Connected /\ link.port = "data"

\* After any restarts of both sides and any failures, a key that came through the
\* exchange is never used with a server that has another one.
NoOldKey == Channel /\ hStoredKey # 0 => hStoredKey = server

\* However often the server is started again, the two ends of a channel have a
\* common key, unless something failed or the application was rebooted.
UndisturbedKeysAgree == Channel /\ faults = 0 /\ boot = 1 => hStoredKey = server

\* conn.recv(1024) waits, with no timeout, for a boot that is no more.
WaitsForDeadBoot == spc = "recv" /\ conn # boot

\* Whatever fails and however often either side is restarted, an exchange that began
\* comes to an end: with the connection of the client, with the component or the
\* application giving up (exit(1) in exchange_keys leaves the caller without an answer),
\* or with the machine.  There is one exception: the server may wait for ever for an
\* earlier boot of the application, and then the exchange hangs with it.
ExchangeEnds ==
    pc = "start" ~> (pc \in {"off", "up", "exit"} \/ []WaitsForDeadBoot)

\* When nothing fails, the exchange leads to a channel with a common key.
ChannelComesUp == pc = "start" ~> Channel
=============================================================================
