------------------------------ MODULE Transport ------------------------------
(***************************************************************************)
(* The connection of one device to the field: SerialClient (core/          *)
(* communication/serial_client.py) and EthernetClient (ethernet_client.py) *)
(* as a TCP client, with the managers that own them.                       *)
(*                                                                         *)
(* connect() is called by the Qt thread (a device is started) and by the   *)
(* reconnect thread; each TCP connection has a receive thread.  They share *)
(* _state, _running and _sock without a lock.  A step lasts from one wait  *)
(* (a dial, a select, a sleep) to the next, and is cut where a second      *)
(* thread can tell.  The peer and the line are external.                   *)
(***************************************************************************)
EXTENDS Integers, FiniteSets

CONSTANTS
  Kinds,      \* the transports to look at, with the protocol spoken over them
  MaxSocks,   \* bound: sockets (or open ports) at a time
  MaxLosses,  \* bound: connections that the peer ends
  MaxTimes    \* a serial reconnect_max_times other than 0, which is no limit

ASSUME TransportAssumption ==
  /\ Kinds \subseteq {"rtu", "custom", "tcp", "rtu_over_tcp"}
  /\ MaxSocks \in Nat \ {0} /\ MaxLosses \in Nat /\ MaxTimes \in Nat \ {0}

VARIABLES
  kind,     \* the configured protocol, which decides the transport
  limit,    \* the configured reconnect_max_times of a serial line
  state,    \* _state
  running,  \* _running
  sock,     \* _sock or _serial, 0 for None
  tries,    \* _reconnect_attempts, as far as a limit is set
  line,     \* per socket: what has become of it
  peer,     \* the device: "up" or "down"
  dial,     \* per thread: the socket it is connecting, 0 for none
  loop,     \* the reconnect thread
  rx,       \* per socket: the receive thread started with it
  sending,  \* a caller has found the client connected and is about to send
  phase,    \* the device: "new", "started", "removing" or "removed"
  left,     \* history: a thread was about to reconnect when it was removed
  losses,   \* number of connections the peer has ended
  lastLoss  \* history: how the last one was ended

conn == <<state, running, sock, tries, line, dial, loop, rx>>
history == <<phase, left, losses, lastLoss>>
config == <<kind, limit>>
tvars == <<config, conn, peer, history>>

Socks == 1 .. MaxSocks
Threads == {"app", "loop"}
Serial == kind \in {"rtu", "custom"}

ConnectionState == {"disconnected", "connecting", "connected", "reconnecting", "error"}

TransportTypeOK ==
  /\ kind \in Kinds /\ limit \in {0, MaxTimes} /\ (~Serial => limit = 0)
  /\ state \in ConnectionState /\ running \in BOOLEAN
  /\ sock \in {0} \cup Socks /\ tries \in 0 .. MaxTimes
  /\ line \in [Socks -> {"none", "open", "fin", "broken"}]
  /\ peer \in {"up", "down"}
  /\ dial \in [Threads -> {0} \cup Socks]
  /\ loop \in {"none", "check", "sleep", "dial", "ending"}
  /\ rx \in [Socks -> {"none", "loop", "closed", "failed"}] /\ sending \in BOOLEAN
  /\ phase \in {"new", "started", "removing", "removed"} /\ left \in BOOLEAN
  /\ losses \in 0 .. MaxLosses /\ lastLoss \in {"none", "fin", "broken"}

TransportInit ==
  /\ kind \in Kinds /\ limit \in (IF Serial THEN {0, MaxTimes} ELSE {0})
  /\ state = "disconnected" /\ running = FALSE /\ sock = 0 /\ tries = 0
  /\ line = [s \in Socks |-> "none"]
  /\ peer \in {"up", "down"}
  /\ dial = [t \in Threads |-> 0] /\ loop = "none" /\ rx = [s \in Socks |-> "none"]
  /\ sending = FALSE /\ phase = "new" /\ left = FALSE /\ losses = 0 /\ lastLoss = "none"

IsConnected == state = "connected" /\ sock # 0

-----------------------------------------------------------------------------
(* connect(), in thread t.                                                 *)

\* A number for a new socket: one whose socket and receive thread are gone.
FreeSocks == {s \in Socks : line[s] = "none" /\ rx[s] = "none" /\ s # sock
                            /\ \A t \in Threads : dial[t] # s}
IsFresh(s) == s \in FreeSocks /\ \A f \in FreeSocks : s <= f

Closed(s) == [q \in Socks |-> IF q = s THEN "none" ELSE line[q]]

\* Before it is connected the new socket replaces the one in _sock, which is
\* closed as nothing refers to it any more.
NewSocket(t) ==
  /\ state' = "connecting"
  /\ line' = Closed(sock)
  /\ \E s \in Socks : IsFresh(s) /\ sock' = s /\ dial' = [dial EXCEPT ![t] = s]

Dials(t) == state # "connected" /\ NewSocket(t)

\* _start_reconnect(): not a second thread while one is alive.
StartReconnect(moved) == loop' = IF moved = "none" THEN "check" ELSE moved

\* A TCP connect() that finds _sock None again after disconnect() fails; one
\* whose socket another thread has replaced reports CONNECTED all the same.
DialSucceeds(t) ==
  /\ dial[t] # 0 /\ peer = "up" /\ (Serial \/ sock # 0)
  /\ line' = IF dial[t] = sock THEN [line EXCEPT ![sock] = "open"] ELSE line
  /\ rx' = IF Serial THEN rx ELSE [rx EXCEPT ![dial[t]] = "loop"]
  /\ state' = "connected" /\ running' = TRUE /\ tries' = 0
  /\ loop' = IF t = "loop" THEN "ending" ELSE loop
  /\ dial' = [dial EXCEPT ![t] = 0]
  /\ UNCHANGED <<config, sock, peer, history>>

\* Mutant: a connect() that fails in the reconnect thread ends it.
DialEndsLoop(t) ==
  /\ dial[t] # 0 /\ (peer = "down" \/ (~Serial /\ sock = 0))
  /\ state' = "error"
  /\ loop' = IF t = "loop" \/ loop = "none" THEN "none" ELSE loop
  /\ dial' = [dial EXCEPT ![t] = 0]
  /\ UNCHANGED <<config, running, sock, tries, line, peer, rx, history>>

\* The reconnect loop goes on: over TCP it tests again, a serial one sleeps first.
DialFails(t) ==
  /\ dial[t] # 0 /\ (peer = "down" \/ (~Serial /\ sock = 0))
  /\ state' = "error"
  /\ StartReconnect(IF t = "loop" THEN (IF Serial THEN "sleep" ELSE "check") ELSE loop)
  /\ dial' = [dial EXCEPT ![t] = 0]
  /\ UNCHANGED <<config, running, sock, tries, line, peer, rx, history>>

\* The device is started: DeviceCollector._connect().
Connect ==
  /\ dial["app"] = 0 /\ phase \in {"new", "started"}
  /\ Dials("app")
  /\ phase' = "started"
  /\ UNCHANGED <<config, running, tries, peer, loop, rx, left, losses, lastLoss>>

\* The device is removed: remove_client() calls disconnect().  _running is cleared
\* some steps before the socket is closed.
Disconnecting ==
  /\ phase = "started" /\ dial["app"] = 0
  /\ phase' = "removing" /\ running' = FALSE /\ tries' = 0
  /\ UNCHANGED <<config, state, sock, line, peer, dial, loop, rx, left, losses, lastLoss>>

\* The reconnect thread is alive or will be: someone connects, has seen the connection
\* end, or sends over a socket that is taken from under it.
AboutToReconnect ==
  loop # "none" \/ (\E t \in Threads : dial[t] # 0) \/ (\E s \in Socks : rx[s] \in {"closed", "failed"})
  \/ sending

Disconnect ==
  /\ phase = "removing"
  /\ phase' = "removed" /\ left' = AboutToReconnect
  /\ state' = "disconnected" /\ line' = Closed(sock) /\ sock' = 0
  /\ UNCHANGED <<config, running, tries, peer, dial, loop, rx, losses, lastLoss>>

-----------------------------------------------------------------------------
(* The reconnect thread: _reconnect_loop().                                *)

LoopEnds ==
  /\ \/ (loop = "ending" \/ (loop = "check" /\ running)) /\ state' = state
     \/ loop = "check" /\ ~running /\ limit > 0 /\ tries = limit /\ state' = "error"
  /\ loop' = "none"
  /\ UNCHANGED <<config, running, sock, tries, line, peer, dial, rx, history>>

Tried == IF limit = 0 THEN 0 ELSE tries + 1

\* Over TCP the thread sleeps before it connects, on a serial line after it.
LoopWaits ==
  /\ loop = "check" /\ ~running /\ ~Serial
  /\ loop' = "sleep" /\ state' = "reconnecting" /\ tries' = Tried
  /\ UNCHANGED <<config, running, sock, line, peer, dial, rx, history>>

LoopSlept ==
  /\ Serial /\ loop = "sleep" /\ loop' = "check"
  /\ UNCHANGED <<config, state, running, sock, tries, line, peer, dial, rx, history>>

\* RECONNECTING is replaced by CONNECTING at once, so a serial loop dials even
\* if another thread has connected meanwhile.
LoopDials ==
  /\ \/ ~Serial /\ loop = "sleep" /\ Dials("loop") /\ UNCHANGED tries
     \/ /\ Serial /\ loop = "check" /\ ~running
        /\ limit > 0 => tries < limit
        /\ NewSocket("loop") /\ tries' = Tried
  /\ loop' = "dial"
  /\ UNCHANGED <<config, running, peer, rx, history>>

LoopFindsConnected ==
  /\ ~Serial /\ loop = "sleep" /\ state = "connected"
  /\ loop' = "ending"
  /\ UNCHANGED <<config, state, running, sock, tries, line, peer, dial, rx, history>>

-----------------------------------------------------------------------------
(* The receive thread r of a TCP connection: _receive_loop().  It works on  *)
(* whatever socket is in _sock, also one that came after its own.           *)

\* recv() returns nothing: the peer has closed.  _running stays set.
RxSeesClose(r) ==
  /\ rx[r] = "loop" /\ running /\ sock # 0 /\ line[sock] = "fin"
  /\ line' = Closed(sock) /\ sock' = 0 /\ state' = "disconnected"
  /\ rx' = [rx EXCEPT ![r] = "closed"]
  /\ UNCHANGED <<config, running, tries, peer, dial, loop, history>>

RxReconnects(r) ==
  /\ rx[r] = "closed"
  /\ rx' = [rx EXCEPT ![r] = "none"]
  /\ StartReconnect(loop)
  /\ UNCHANGED <<config, state, running, sock, tries, line, peer, dial, history>>

\* recv() raises.
RxFails(r) ==
  /\ rx[r] = "loop" /\ running /\ sock # 0 /\ line[sock] = "broken"
  /\ rx' = [rx EXCEPT ![r] = "failed"]
  /\ UNCHANGED <<config, state, running, sock, tries, line, peer, dial, loop, history>>

\* What the handler of a reset and a send() that fails have in common.
GiveUpConnection ==
  /\ running' = FALSE /\ state' = "disconnected"
  /\ line' = Closed(sock) /\ sock' = 0
  /\ StartReconnect(loop)

RxGivesUp(r) ==
  /\ rx[r] = "failed"
  /\ GiveUpConnection
  /\ rx' = [rx EXCEPT ![r] = "none"]
  /\ UNCHANGED <<config, tries, peer, dial, history>>

\* Mutant: a socket that is gone is taken for a connection that is lost.
RxReconnectsAtEnd(r) ==
  /\ rx[r] = "loop" /\ (~running \/ sock = 0)
  /\ rx' = [rx EXCEPT ![r] = "none"]
  /\ StartReconnect(loop)
  /\ UNCHANGED <<config, state, running, sock, tries, line, peer, dial, history>>

RxEnds(r) ==
  /\ rx[r] = "loop" /\ (~running \/ sock = 0)
  /\ rx' = [rx EXCEPT ![r] = "none"]
  /\ UNCHANGED <<config, state, running, sock, tries, line, peer, dial, loop, history>>

-----------------------------------------------------------------------------
(* The environment.                                                        *)

PeerChanges ==
  /\ peer' = IF peer = "up" THEN "down" ELSE "up"
  /\ UNCHANGED <<config, conn, history>>

\* The peer closes or resets a connection; a port is unplugged.
ConnectionLost ==
  /\ losses < MaxLosses /\ losses' = losses + 1
  /\ \E s \in Socks, how \in (IF Serial THEN {"broken"} ELSE {"fin", "broken"}) :
       /\ line[s] = "open"
       /\ line' = [line EXCEPT ![s] = how]
       /\ lastLoss' = how
  /\ UNCHANGED <<config, state, running, sock, tries, peer, dial, loop, rx, phase, left>>

Dialed(t) == DialSucceeds(t) \/ DialFails(t)

LoopStep ==
  Dialed("loop") \/ LoopEnds \/ LoopWaits \/ LoopSlept \/ LoopDials \/ LoopFindsConnected

=============================================================================
