-------------------------------- MODULE Server --------------------------------
(***************************************************************************)
(* EthernetClient (core/communication/ethernet_client.py) in the two modes *)
(* that are not a TCP client: tcp_server, where devices connect to the     *)
(* gateway, and udp.                                                       *)
(*                                                                         *)
(* A server has one thread that accepts and one per connection.  They and  *)
(* disconnect() share _clients, keyed by the peer's address, without a     *)
(* lock.  What arrives is counted and dropped, and send_and_receive()      *)
(* answers None in both modes: no point is ever read.                      *)
(***************************************************************************)
EXTENDS Integers, FiniteSets

CONSTANTS
  Addresses,       \* addresses that peers connect from
  MaxConnections,  \* max_connections of the configuration
  MaxAccepts       \* bound: connections ever

ASSUME ServerAssumption == {MaxConnections, MaxAccepts} \subseteq Nat

VARIABLES
  mode,      \* _mode, fixed: "tcp_server" or "udp"
  server,    \* _state and, while it is "listening" or "connected", _sock
  serving,   \* _running
  acceptor,  \* _accept_loop: 0 it waits, -1 it has ended, or the connection it has accepted
  from,      \* of each connection: the address it came from
  link,      \* of each connection: what has become of it
  clients,   \* _clients: of each address, the connection, or 0
  reader,    \* of each connection: whether _client_receive_loop runs
  datagrams, \* udp: whether the receive thread runs
  point,     \* what the collector got when it asked last
  cut        \* history: connections whose entry was removed for another of the same address

serverVars == <<mode, server, serving, acceptor, from, link, clients, reader, datagrams, point, cut>>

Accepted == 1 .. MaxAccepts
Waits == 0
Ended == -1
Kept == {a \in Addresses : clients[a] # 0}
Unused == {c \in Accepted : link[c] = "none"}
IsNext(c) == c \in Unused /\ \A d \in Unused : c <= d

ServerInit ==
  /\ mode \in {"tcp_server", "udp"}
  /\ server = "disconnected" /\ serving = FALSE /\ acceptor = Ended /\ datagrams = FALSE
  /\ from \in {[c \in Accepted |-> a] : a \in Addresses}
  /\ link = [c \in Accepted |-> "none"] /\ reader = [c \in Accepted |-> FALSE]
  /\ clients = [a \in Addresses |-> 0]
  /\ point = "none" /\ cut = {}

-----------------------------------------------------------------------------
\* The device is started: the port may be in use.  There is no reconnecting in these modes.
StartServer ==
  /\ mode = "tcp_server" /\ server \in {"disconnected", "error"}
  /\ \/ server' = "listening" /\ serving' = TRUE /\ acceptor' = Waits
     \/ server' = "error" /\ UNCHANGED <<serving, acceptor>>
  /\ UNCHANGED <<mode, from, link, clients, reader, datagrams, point, cut>>

ConnectUdp ==
  /\ mode = "udp" /\ server \in {"disconnected", "error"}
  /\ \/ server' = "connected" /\ serving' = TRUE /\ datagrams' = TRUE
     \/ server' = "error" /\ UNCHANGED <<serving, datagrams>>
  /\ UNCHANGED <<mode, acceptor, from, link, clients, reader, point, cut>>

\* A point is asked for.
AsksPassive ==
  /\ server \in {"listening", "connected"}
  /\ point' = "failed"
  /\ UNCHANGED <<mode, server, serving, acceptor, from, link, clients, reader, datagrams, cut>>

-----------------------------------------------------------------------------
(* _accept_loop.  It may be waiting in select() when the server is stopped. *)

AcceptsPeer(c) ==
  /\ acceptor = Waits /\ server = "listening"
  /\ link[c] = "queued"
  /\ acceptor' = c /\ link' = [link EXCEPT ![c] = "open"]
  /\ UNCHANGED <<mode, server, serving, from, clients, reader, datagrams, point, cut>>

\* The connection enters the table, in place of an earlier one from its address, or is closed
\* when the table is full.
Keeps ==
  /\ acceptor \in Accepted
  /\ IF Cardinality(Kept) >= MaxConnections
     THEN link' = [link EXCEPT ![acceptor] = "closed"] /\ UNCHANGED <<clients, reader>>
     ELSE /\ clients' = [clients EXCEPT ![from[acceptor]] = acceptor]
          /\ reader' = [reader EXCEPT ![acceptor] = TRUE]
          /\ UNCHANGED link
  /\ acceptor' = Waits
  /\ UNCHANGED <<mode, server, serving, from, datagrams, point, cut>>

AcceptorEnds ==
  /\ acceptor = Waits /\ (~serving \/ server # "listening")
  /\ acceptor' = Ended
  /\ UNCHANGED <<mode, server, serving, from, link, clients, reader, datagrams, point, cut>>

-----------------------------------------------------------------------------
(* _client_receive_loop of connection c.                                   *)

\* The connection is closed, and the entry of its address removed, whichever connection that is
\* of by now.
Drops(c) ==
  /\ link' = [link EXCEPT ![c] = "closed"]
  /\ clients' = [clients EXCEPT ![from[c]] = 0]
  /\ cut' = IF clients[from[c]] \in {0, c} THEN cut ELSE cut \cup {clients[from[c]]}

\* The peer has closed, or recv() raises.
ReaderCloses(c) ==
  /\ reader[c] /\ link[c] \in {"fin", "broken"}
  /\ reader' = [reader EXCEPT ![c] = FALSE]
  /\ Drops(c)
  /\ UNCHANGED <<mode, server, serving, acceptor, from, datagrams, point>>

\* The client is stopped, the address is not in the table, or the socket is closed already.
\* (A socket that nothing refers to any more is closed by the interpreter, which is left out.)
ReaderEnds(c) ==
  /\ reader[c] /\ (~serving \/ clients[from[c]] = 0 \/ link[c] = "closed")
  /\ reader' = [reader EXCEPT ![c] = FALSE]
  /\ UNCHANGED <<mode, server, serving, acceptor, from, link, clients, datagrams, point, cut>>

\* The receive thread of udp: an error makes it wait and go on.
DatagramsEnd ==
  /\ datagrams /\ ~serving /\ datagrams' = FALSE
  /\ UNCHANGED <<mode, server, serving, acceptor, from, link, clients, reader, point, cut>>

-----------------------------------------------------------------------------
\* disconnect() closes what is in the table, then empties the table and closes its socket,
\* and with it the connections no one has accepted.
DisconnectBegins ==
  /\ server \in {"listening", "connected"} /\ serving
  /\ serving' = FALSE
  /\ link' = [c \in Accepted |-> IF clients[from[c]] = c THEN "closed" ELSE link[c]]
  /\ UNCHANGED <<mode, server, acceptor, from, clients, reader, datagrams, point, cut>>

DisconnectEnds ==
  /\ server \in {"listening", "connected"} /\ ~serving
  /\ server' = "removed"
  /\ clients' = [a \in Addresses |-> 0]
  /\ link' = [c \in Accepted |-> IF link[c] = "queued" THEN "closed" ELSE link[c]]
  /\ UNCHANGED <<mode, serving, acceptor, from, reader, datagrams, point, cut>>

\* The peers: one connects from an address once its last connection from there is over.
PeerConnects ==
  /\ server = "listening"
  /\ \E c \in Accepted, a \in Addresses :
       /\ IsNext(c) /\ \A d \in Accepted : from[d] = a => link[d] \notin {"queued", "open"}
       /\ from' = [from EXCEPT ![c] = a] /\ link' = [link EXCEPT ![c] = "queued"]
  /\ UNCHANGED <<mode, server, serving, acceptor, clients, reader, datagrams, point, cut>>

PeerEnds(c) ==
  /\ link[c] = "open"
  /\ \E how \in {"fin", "broken"} : link' = [link EXCEPT ![c] = how]
  /\ UNCHANGED <<mode, server, serving, acceptor, from, clients, reader, datagrams, point, cut>>

Serves(c) == AcceptsPeer(c) \/ ReaderCloses(c) \/ ReaderEnds(c)
ServerThreads == Keeps \/ AcceptorEnds \/ DatagramsEnd \/ DisconnectEnds \/ \E c \in Accepted : Serves(c)
ServerStep ==
  StartServer \/ ConnectUdp \/ AsksPassive \/ DisconnectBegins \/ ServerThreads
    \/ PeerConnects \/ \E c \in Accepted : PeerEnds(c)

-----------------------------------------------------------------------------
\* While the server runs, a connection that is open is served: it is the one being accepted, or
\* it is in the table and has its thread, unless its entry was removed for an older connection
\* of the same address (ethernet_client.py:513, :524).  No entry outlives the thread of its
\* connection, so the table never fills up with dead ones.
ConnectionsAreServed ==
  /\ Cardinality(Kept) <= MaxConnections
  /\ \A c \in Accepted :
       LET tabled == clients[from[c]] = c
       IN /\ serving /\ link[c] = "open" => c = acceptor \/ (tabled /\ reader[c]) \/ c \in cut
          /\ serving /\ tabled => reader[c]

=============================================================================
