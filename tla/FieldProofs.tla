----------------------------- MODULE FieldProofs -----------------------------
(***************************************************************************)
(* Theorems about the clients of the field, for every set of transports,   *)
(* sockets, callers, slaves and addresses, and every number of requests,   *)
(* losses and connections.                                                 *)
(***************************************************************************)
EXTENDS Field, FiniteSetTheorems, TLAPS

-----------------------------------------------------------------------------
(* The connection: whatever a caller does is, for it, one of its own       *)
(* steps.                                                                  *)

\* A request finds a connection, is sent over it, or finds it broken.
LetsThrough == IsConnected /\ sending' = TRUE /\ UNCHANGED tvars
Sent == sending /\ sending' = FALSE /\ UNCHANGED tvars
BreaksOff ==
  /\ sending /\ sending' = FALSE
  /\ UNCHANGED <<config, tries, peer, dial, rx, history>>
  /\ IF Serial THEN SerialSendFails ELSE GiveUpConnection

ConnectionStep ==
  \/ Dialed("app") \/ LoopStep \/ Connect \/ Disconnecting \/ Disconnect \/ PeerChanges \/ ConnectionLost
  \/ \E r \in Socks : RxSeesClose(r) \/ RxReconnects(r) \/ RxFails(r) \/ RxGivesUp(r) \/ RxEnds(r)

TransportNext ==
  \/ ConnectionStep /\ sending' = sending
  \/ LetsThrough \/ Sent \/ BreaksOff

LEMMA CallersStep == ASSUME NEW c \in Callers, CallerStep(c) PROVE [TransportNext]_<<tvars, sending>>
<1>1. CASE Asks(c) \/ AskFails(c)
  BY <1>1 DEF Asks, AskFails, FindsConnected, LetsThrough, TransportNext
<1>2. CASE Reads(c) \/ TimesOut(c)
  BY <1>2 DEF Reads, ReadsFrame, ReadsRaw, ReadsPort, TakesAnswer, TimesOut
<1>3. CASE SendFails(c)  BY <1>3 DEF SendFails, BreaksOff, TransportNext
<1>4. CASE Sends(c)  BY <1>4 DEF Sends, Sent, TransportNext
<1> QED  BY <1>1, <1>2, <1>3, <1>4 DEF CallerStep, Proceeds

LEMMA TransportStep == [FieldNext]_<<side, vars, serverVars>> => [TransportNext]_<<tvars, sending>>
<1> SUFFICES ASSUME [FieldNext]_<<side, vars, serverVars>> PROVE [TransportNext]_<<tvars, sending>>
  OBVIOUS
<1>1. CASE UNCHANGED vars  BY <1>1 DEF vars, xvars
<1>2. CASE Next
  <2>1. CASE AppThread \/ LoopThread \/ Others
    BY <2>1 DEF AppThread, LoopThread, Others, Moves, TransportNext, ConnectionStep
  <2>2. ASSUME NEW r \in Socks, RxThread(r) PROVE [TransportNext]_<<tvars, sending>>
    BY <2>2 DEF RxThread, RxStep, Moves, TransportNext, ConnectionStep
  <2>3. ASSUME NEW r \in Socks, Drain(r) PROVE [TransportNext]_<<tvars, sending>>  BY <2>3 DEF Drain
  <2>4. ASSUME NEW n \in Requests, Answer(n) PROVE [TransportNext]_<<tvars, sending>>
    BY <2>4 DEF Answer
  <2> QED  BY <1>2, <2>1, <2>2, <2>3, <2>4, CallersStep DEF Next
<1> QED  BY <1>1, <1>2 DEF FieldNext

LEMMA TransportTypeStep == TransportTypeOK /\ [TransportNext]_<<tvars, sending>> => TransportTypeOK'
<1> SUFFICES ASSUME TransportTypeOK, [TransportNext]_<<tvars, sending>> PROVE TransportTypeOK'  OBVIOUS
<1> USE DEF TransportTypeOK, config, conn, history, ConnectionState
<1>a. MaxTimes \in Nat /\ MaxTimes > 0 /\ MaxLosses \in Nat /\ MaxSocks \in Nat
  BY TransportAssumption
<1>b. Closed(sock) \in [Socks -> {"none", "open", "fin", "broken"}]  BY DEF Closed
<1>c. \A t \in Threads, s \in Socks \cup {0} : [dial EXCEPT ![t] = s] \in [Threads -> {0} \cup Socks]
  OBVIOUS
<1>d. \A r \in Socks, x \in {"none", "loop", "closed", "failed"} :
        [rx EXCEPT ![r] = x] \in [Socks -> {"none", "loop", "closed", "failed"}]
  OBVIOUS
<1>e. \A r \in Socks, x \in {"none", "open", "fin", "broken"} :
        [line EXCEPT ![r] = x] \in [Socks -> {"none", "open", "fin", "broken"}]
  OBVIOUS
<1>f. "app" \in Threads /\ "loop" \in Threads  BY DEF Threads
<1>g. ASSUME NEW t \in Threads, NewSocket(t)
      PROVE  /\ state' = "connecting" /\ sock' \in Socks
             /\ line' \in [Socks -> {"none", "open", "fin", "broken"}]
             /\ dial' \in [Threads -> {0} \cup Socks]
  BY <1>b, <1>c, <1>g DEF NewSocket
<1>h. ASSUME GiveUpConnection
      PROVE  /\ running' \in BOOLEAN /\ state' \in ConnectionState /\ sock' \in {0} \cup Socks
             /\ line' \in [Socks -> {"none", "open", "fin", "broken"}]
             /\ loop' \in {"none", "check", "sleep", "dial", "ending"}
  BY <1>b, <1>h DEF GiveUpConnection, StartReconnect
<1>i. Tried \in 0 .. MaxTimes \/ ~(limit > 0 => tries < limit)  BY <1>a DEF Tried
<1>j. ~Serial => Tried \in 0 .. MaxTimes  BY <1>a DEF Tried
<1>1. ASSUME NEW t \in Threads, DialSucceeds(t), sending' = sending PROVE TransportTypeOK'
  <2>1. UNCHANGED <<config, sock, peer, history>>  BY <1>1 DEF DialSucceeds
  <2>2. /\ state' = "connected" /\ running' = TRUE /\ tries' = 0
        /\ loop' \in {"ending", loop} /\ dial' = [dial EXCEPT ![t] = 0]
        /\ dial[t] \in Socks
    BY <1>1 DEF DialSucceeds
  <2>3. line' \in [Socks -> {"none", "open", "fin", "broken"}]
    <3>1. line' = line \/ (sock \in Socks /\ line' = [line EXCEPT ![sock] = "open"])
      BY <1>1, <2>2 DEF DialSucceeds
    <3> QED  BY <1>e, <3>1
  <2>4. rx' \in [Socks -> {"none", "loop", "closed", "failed"}]
    <3>1. rx' = rx \/ rx' = [rx EXCEPT ![dial[t]] = "loop"]  BY <1>1 DEF DialSucceeds
    <3> QED  BY <1>d, <2>2, <3>1
  <2>5. sending' \in BOOLEAN  BY <1>1
  <2> QED  BY <1>a, <1>c, <2>1, <2>2, <2>3, <2>4, <2>5 DEF Serial
<1>2. ASSUME NEW t \in Threads, DialFails(t), sending' = sending PROVE TransportTypeOK'
  <2>1. UNCHANGED <<config, running, sock, tries, line, peer, rx, history>> /\ state' = "error"
        /\ loop' \in {"none", "check", "sleep", "dial", "ending"} /\ dial' = [dial EXCEPT ![t] = 0]
    BY <1>2 DEF DialFails, StartReconnect
  <2>2. sending' \in BOOLEAN  BY <1>2
  <2> QED  BY <1>c, <2>1, <2>2 DEF Serial
<1>3. CASE (LoopEnds \/ LoopWaits \/ LoopSlept \/ LoopFindsConnected) /\ sending' = sending
  <2>0. sending' = sending  BY <1>3
  <2>1. CASE LoopEnds \/ LoopSlept \/ LoopFindsConnected
    <3>1. /\ UNCHANGED <<config, running, sock, tries, line, peer, dial, rx, history>>
          /\ state' \in ConnectionState /\ loop' \in {"none", "check", "ending"}
      BY <2>1 DEF LoopEnds, LoopSlept, LoopFindsConnected
    <3> QED  BY <2>0, <3>1 DEF Serial
  <2>2. CASE LoopWaits
    <3>1. tries' = Tried /\ ~Serial  BY <2>2 DEF LoopWaits
    <3>2. tries' \in 0 .. MaxTimes  BY <1>j, <3>1
    <3>3. /\ UNCHANGED <<config, running, sock, line, peer, dial, rx, history>>
          /\ state' = "reconnecting" /\ loop' = "sleep"
      BY <2>2 DEF LoopWaits
    <3> QED  BY <2>0, <3>2, <3>3 DEF Serial
  <2> QED  BY <1>3, <2>1, <2>2
<1>4. CASE LoopDials /\ sending' = sending
  <2>1. NewSocket("loop") /\ loop' = "dial" /\ UNCHANGED <<config, running, peer, rx, history>>
        /\ tries' \in {tries, Tried} /\ (tries' = tries \/ (limit > 0 => tries < limit))
    BY <1>4 DEF LoopDials, Dials
  <2> QED  BY <1>4, <1>f, <1>g, <1>i, <2>1 DEF Serial
<1>5. CASE Connect /\ sending' = sending
  <2>1. NewSocket("app") /\ phase' = "started"
        /\ UNCHANGED <<config, running, tries, peer, loop, rx, left, losses, lastLoss>>
    BY <1>5 DEF Connect, Dials
  <2> QED  BY <1>5, <1>f, <1>g, <2>1 DEF Serial
<1>6. CASE (Disconnecting \/ Disconnect) /\ sending' = sending
  <2>1. left' \in BOOLEAN /\ running' \in BOOLEAN /\ phase' \in {"new", "started", "removing", "removed"}
    BY <1>6 DEF Disconnecting, Disconnect, AboutToReconnect
  <2>2. /\ tries' \in {0, tries} /\ state' \in {state, "disconnected"} /\ sock' \in {sock, 0}
        /\ line' \in {line, Closed(sock)}
        /\ UNCHANGED <<config, peer, dial, loop, rx, losses, lastLoss>>
    BY <1>6 DEF Disconnecting, Disconnect
  <2>3. line' \in [Socks -> {"none", "open", "fin", "broken"}]  BY <2>2, <1>b
  <2>4. /\ kind' \in Kinds /\ limit' \in {0, MaxTimes} /\ (~Serial => limit = 0)'
        /\ sock' \in {0} \cup Socks /\ tries' \in 0 .. MaxTimes
    BY <1>a, <2>2 DEF Serial
  <2>5. /\ peer' \in {"up", "down"} /\ dial' \in [Threads -> {0} \cup Socks]
        /\ loop' \in {"none", "check", "sleep", "dial", "ending"}
        /\ rx' \in [Socks -> {"none", "loop", "closed", "failed"}] /\ sending' \in BOOLEAN
        /\ losses' \in 0 .. MaxLosses /\ lastLoss' \in {"none", "fin", "broken"}
        /\ state' \in ConnectionState
    BY <1>6, <2>2
  <2> QED  BY <2>1, <2>3, <2>4, <2>5
<1>7. CASE PeerChanges /\ sending' = sending  BY <1>7 DEF PeerChanges, Serial
<1>8. CASE ConnectionLost /\ sending' = sending
  <2>1. PICK s \in Socks, how \in {"fin", "broken"} :
          line' = [line EXCEPT ![s] = how] /\ lastLoss' = how
    BY <1>8 DEF ConnectionLost
  <2>2. losses' \in 0 .. MaxLosses  BY <1>8, <1>a DEF ConnectionLost
  <2> QED  BY <1>8, <1>e, <2>1, <2>2 DEF ConnectionLost, Serial
<1>9. CASE BreaksOff
  <2>1. CASE Serial
    <3>1. UNCHANGED tvars /\ sending' \in BOOLEAN
      BY <1>9, <2>1 DEF BreaksOff, SerialSendFails, tvars
    <3> QED  BY <3>1 DEF tvars, Serial
  <2>2. CASE ~Serial  BY <1>9, <1>h, <2>2 DEF BreaksOff, Serial
  <2> QED  BY <2>1, <2>2
<1>10. ASSUME NEW r \in Socks, RxSeesClose(r) \/ RxReconnects(r) \/ RxFails(r) \/ RxEnds(r),
             sending' = sending PROVE TransportTypeOK'
  <2>0. sending' = sending  BY <1>10
  <2>1. CASE RxSeesClose(r)  BY <1>b, <1>d, <2>0, <2>1 DEF RxSeesClose, Serial
  <2>2. CASE RxFails(r) \/ RxEnds(r)  BY <1>d, <2>0, <2>2 DEF RxFails, RxEnds, Serial
  <2>3. CASE RxReconnects(r)
    <3>1. loop' \in {"none", "check", "sleep", "dial", "ending"}
      BY <2>3 DEF RxReconnects, StartReconnect
    <3> QED  BY <1>d, <2>0, <2>3, <3>1 DEF RxReconnects, Serial
  <2> QED  BY <1>10, <2>1, <2>2, <2>3
<1>11. ASSUME NEW r \in Socks, RxGivesUp(r), sending' = sending PROVE TransportTypeOK'
  BY <1>11, <1>d, <1>h DEF RxGivesUp, Serial
<1>12. CASE UNCHANGED <<tvars, sending>> \/ LetsThrough \/ Sent
  <2>1. UNCHANGED tvars /\ sending' \in BOOLEAN  BY <1>12 DEF LetsThrough, Sent
  <2> QED  BY <2>1 DEF tvars, Serial
<1> QED
  BY <1>1, <1>2, <1>3, <1>4, <1>5, <1>6, <1>7, <1>8, <1>9, <1>10, <1>11, <1>12, <1>f
  DEF TransportNext, ConnectionStep, LoopStep, Dialed

LEMMA TransportTypeInit == FieldInit => TransportTypeOK
<1> SUFFICES ASSUME TransportInit PROVE TransportTypeOK  BY DEF FieldInit, Init
<1>1. MaxTimes \in Nat /\ MaxLosses \in Nat  BY TransportAssumption
<1>2. limit \in {0, MaxTimes} /\ (~Serial => limit = 0)  BY DEF TransportInit
<1>3. 0 \in 0 .. MaxTimes /\ 0 \in 0 .. MaxLosses  BY <1>1
<1>4. /\ line \in [Socks -> {"none", "open", "fin", "broken"}]
      /\ rx \in [Socks -> {"none", "loop", "closed", "failed"}] /\ dial \in [Threads -> {0} \cup Socks]
  BY DEF TransportInit
<1> QED  BY <1>2, <1>3, <1>4 DEF TransportInit, TransportTypeOK, ConnectionState

-----------------------------------------------------------------------------
(* A device that was removed while nothing was about to reconnect.         *)

\* There is no socket, nothing dials, has failed or is being sent: only the ends of
\* threads are left.
ZombieInv ==
  phase = "removed" /\ ~left =>
    /\ sock = 0 /\ state # "connected" /\ loop = "none" /\ ~sending
    /\ \A t \in Threads : dial[t] = 0
    /\ \A s \in Socks : rx[s] \notin {"closed", "failed"}

LEMMA ZombieStep == TransportTypeOK /\ ZombieInv /\ [TransportNext]_<<tvars, sending>> => ZombieInv'
<1> SUFFICES ASSUME TransportTypeOK, ZombieInv, [TransportNext]_<<tvars, sending>>,
                    phase' = "removed", ~left'
             PROVE  /\ sock' = 0 /\ state' # "connected" /\ loop' = "none" /\ ~sending'
                    /\ \A t \in Threads : dial'[t] = 0
                    /\ \A s \in Socks : rx'[s] \notin {"closed", "failed"}
  BY DEF ZombieInv
<1>1. CASE Disconnect /\ sending' = sending
  BY <1>1 DEF Disconnect, AboutToReconnect, TransportTypeOK
<1>2. CASE Connect \/ Disconnecting  BY <1>2 DEF Connect, Disconnecting
<1>3. CASE ~(Disconnect /\ sending' = sending) /\ ~Connect /\ ~Disconnecting
  <2>1. phase = "removed" /\ ~left
    BY <1>3 DEF TransportNext, ConnectionStep, LoopStep, Dialed, DialSucceeds, DialFails, LoopEnds, LoopWaits,
       LoopSlept, LoopDials, LoopFindsConnected, RxSeesClose, RxReconnects, RxFails, RxGivesUp, RxEnds,
       PeerChanges, ConnectionLost, LetsThrough, Sent, BreaksOff, history, tvars
  <2>2. /\ sock = 0 /\ state # "connected" /\ loop = "none" /\ ~sending
        /\ \A t \in Threads : dial[t] = 0
        /\ \A s \in Socks : rx[s] \notin {"closed", "failed"}
    BY <2>1 DEF ZombieInv
  <2>3. CASE (\E r \in Socks : RxEnds(r)) /\ sending' = sending
    BY <2>2, <2>3 DEF RxEnds, TransportTypeOK
  <2>4. CASE \/ (PeerChanges \/ ConnectionLost) /\ sending' = sending
             \/ UNCHANGED <<tvars, sending>>
    BY <2>2, <2>4 DEF PeerChanges, ConnectionLost, conn, tvars
  <2>5. ~LoopStep /\ ~Dialed("app")
    BY <2>2 DEF LoopStep, Dialed, DialSucceeds, DialFails, LoopEnds, LoopWaits, LoopSlept, LoopDials,
       LoopFindsConnected, Threads
  <2>6. \A r \in Socks : ~RxSeesClose(r) /\ ~RxReconnects(r) /\ ~RxFails(r) /\ ~RxGivesUp(r)
    BY <2>2 DEF RxSeesClose, RxReconnects, RxFails, RxGivesUp
  <2>7. ~LetsThrough /\ ~Sent /\ ~BreaksOff
    BY <2>2 DEF LetsThrough, IsConnected, Sent, BreaksOff
  <2> QED  BY <1>3, <2>3, <2>4, <2>5, <2>6, <2>7 DEF TransportNext, ConnectionStep
<1> QED  BY <1>1, <1>2, <1>3

LEMMA TransportAlways == FieldSpec => [](TransportTypeOK /\ ZombieInv)
<1>1. FieldInit => TransportTypeOK /\ ZombieInv
  BY TransportTypeInit DEF FieldInit, Init, TransportInit, ZombieInv
<1> QED  BY <1>1, TransportStep, TransportTypeStep, ZombieStep, PTL DEF FieldSpec

-----------------------------------------------------------------------------
(* The server.                                                             *)

\* Connections in the table are from their address, were accepted, and are not the one
\* the acceptor holds; of each address at most one is queued or open, and none while the
\* acceptor holds one of it.
ServerInv ==
  /\ acceptor \in {Waits, Ended} \cup Accepted
  /\ from \in [Accepted -> Addresses] /\ clients \in [Addresses -> {0} \cup Accepted]
  /\ link \in [Accepted -> {"none", "queued", "open", "fin", "broken", "closed"}]
  /\ reader \in [Accepted -> BOOLEAN] /\ serving \in BOOLEAN
  /\ cut \subseteq Accepted
  /\ server \in {"disconnected", "error"} =>
       /\ ~serving /\ acceptor = Ended
       /\ \A c \in Accepted : link[c] = "none" /\ \A a \in Addresses : clients[a] = 0
  /\ \A a \in Addresses : clients[a] # 0 => from[clients[a]] = a
  /\ \A c \in Accepted :
       /\ link[c] \in {"none", "queued"} => ~reader[c] /\ clients[from[c]] # c
       /\ c = acceptor => link[c] \in {"open", "fin", "broken"} /\ ~reader[c] /\ clients[from[c]] # c
       /\ serving /\ clients[from[c]] = c => link[c] # "closed" /\ reader[c]
       /\ serving /\ link[c] = "open" => c = acceptor \/ clients[from[c]] = c \/ c \in cut
  /\ \A c, d \in Accepted :
       c # d /\ from[c] = from[d] =>
         /\ link[c] \notin {"queued", "open"} \/ link[d] \notin {"queued", "open"}
         /\ c = acceptor => link[d] # "open"

TableInv == IsFiniteSet(Kept) /\ Cardinality(Kept) <= MaxConnections

LEMMA ServerStepped == [FieldNext]_<<side, vars, serverVars>> => [ServerStep]_serverVars
BY DEF FieldNext

LEMMA ServerStart == FieldInit => ServerInv /\ TableInv
<1> SUFFICES ASSUME ServerInit PROVE ServerInv /\ TableInv  BY DEF FieldInit
<1>1. PICK home \in Addresses : from = [c \in Accepted |-> home]  BY DEF ServerInit
<1>2. Kept = {}  BY DEF ServerInit, Kept
<1>3. IsFiniteSet(Kept) /\ Cardinality(Kept) = 0  BY <1>2, FS_EmptySet
<1>4. 0 \notin Accepted /\ Ended \notin Accepted  BY DEF Accepted, Ended
<1>5. MaxConnections \in Nat  BY ServerAssumption
<1>6. ServerInv
  <2>1. /\ from \in [Accepted -> Addresses] /\ clients \in [Addresses -> {0} \cup Accepted]
        /\ link \in [Accepted -> {"none", "queued", "open", "fin", "broken", "closed"}]
        /\ reader \in [Accepted -> BOOLEAN]
    BY <1>1 DEF ServerInit
  <2>2. /\ \A c \in Accepted : link[c] = "none" /\ reader[c] = FALSE
        /\ \A a \in Addresses : clients[a] = 0
        /\ acceptor = Ended /\ serving = FALSE /\ cut = {}
    BY DEF ServerInit
  <2>3. \A c \in Accepted : clients[from[c]] = 0 /\ c # 0 /\ c # acceptor  BY <1>4, <2>1, <2>2
  <2>4. \A c \in Accepted :
          /\ link[c] \in {"none", "queued"} => ~reader[c] /\ clients[from[c]] # c
          /\ c = acceptor => link[c] \in {"open", "fin", "broken"} /\ ~reader[c] /\ clients[from[c]] # c
          /\ serving /\ clients[from[c]] = c => link[c] # "closed" /\ reader[c]
          /\ serving /\ link[c] = "open" => c = acceptor \/ clients[from[c]] = c \/ c \in cut
    BY <2>2, <2>3
  <2>5. \A c, d \in Accepted :
          c # d /\ from[c] = from[d] =>
            /\ link[c] \notin {"queued", "open"} \/ link[d] \notin {"queued", "open"}
            /\ c = acceptor => link[d] # "open"
    BY <2>2
  <2> QED  BY <2>1, <2>2, <2>4, <2>5 DEF ServerInv
<1> QED  BY <1>3, <1>5, <1>6 DEF TableInv

LEMMA ServerInvStep == ServerInv /\ [ServerStep]_serverVars => ServerInv'
<1> SUFFICES ASSUME ServerInv, [ServerStep]_serverVars PROVE ServerInv'  OBVIOUS
<1> USE DEF ServerInv
<1>a. 0 \notin Accepted /\ Waits \notin Accepted /\ Ended \notin Accepted  BY DEF Accepted, Waits, Ended
<1>1. CASE StartServer \/ ConnectUdp
  <2>1. /\ \A c \in Accepted : link[c] = "none"
        /\ \A a \in Addresses : clients[a] = 0
        /\ acceptor = Ended /\ serving = FALSE
    BY <1>1 DEF StartServer, ConnectUdp
  <2>2. UNCHANGED <<from, link, clients, reader, cut>>  BY <1>1 DEF StartServer, ConnectUdp
  <2>3. CASE server' = "error" /\ serving' = serving /\ acceptor' = acceptor
    BY <1>a, <2>1, <2>2, <2>3
  <2>4. CASE server' \in {"listening", "connected"} /\ serving' = TRUE /\ acceptor' \in {Waits, Ended}
    BY <1>a, <2>1, <2>2, <2>4
  <2>5. CASE StartServer
    <3>1. \/ server' = "listening" /\ serving' = TRUE /\ acceptor' = Waits
          \/ server' = "error" /\ serving' = serving /\ acceptor' = acceptor
      BY <2>5 DEF StartServer
    <3> QED  BY <2>3, <2>4, <3>1
  <2>6. CASE ConnectUdp
    <3>1. /\ \/ server' = "connected" /\ serving' = TRUE
             \/ server' = "error" /\ serving' = serving
          /\ acceptor' = acceptor
      BY <2>6 DEF ConnectUdp
    <3> QED  BY <2>1, <2>3, <2>4, <3>1
  <2> QED  BY <1>1, <2>5, <2>6
<1>2. CASE AsksPassive \/ DatagramsEnd \/ UNCHANGED serverVars
  BY <1>2 DEF AsksPassive, DatagramsEnd, serverVars
<1>3. ASSUME NEW c \in Accepted, AcceptsPeer(c) PROVE ServerInv'
  BY <1>3, <1>a DEF AcceptsPeer
<1>4. CASE Keeps
  <2>1. /\ acceptor \in Accepted /\ acceptor' = Waits
        /\ link[acceptor] \in {"open", "fin", "broken"} /\ ~reader[acceptor]
        /\ clients[from[acceptor]] # acceptor /\ server \notin {"disconnected", "error"}
        /\ UNCHANGED <<server, serving, from, cut>>
    BY <1>4, <1>a DEF Keeps
  <2>2. CASE link' = [link EXCEPT ![acceptor] = "closed"] /\ UNCHANGED <<clients, reader>>
    BY <1>a, <2>1, <2>2
  <2>3. CASE /\ clients' = [clients EXCEPT ![from[acceptor]] = acceptor]
             /\ reader' = [reader EXCEPT ![acceptor] = TRUE]
             /\ UNCHANGED link
    BY <1>a, <2>1, <2>3
  <2> QED  BY <1>4, <2>2, <2>3 DEF Keeps
<1>5. CASE AcceptorEnds
  BY <1>5, <1>a DEF AcceptorEnds
<1>6. ASSUME NEW c \in Accepted, ReaderCloses(c) PROVE ServerInv'
  BY <1>6, <1>a DEF ReaderCloses, Drops
<1>7. ASSUME NEW c \in Accepted, ReaderEnds(c) PROVE ServerInv'
  BY <1>7, <1>a DEF ReaderEnds
<1>8. CASE DisconnectBegins
  BY <1>8, <1>a DEF DisconnectBegins
<1>9. CASE DisconnectEnds
  BY <1>9, <1>a DEF DisconnectEnds
<1>10. CASE PeerConnects
  BY <1>10, <1>a DEF PeerConnects, IsNext, Unused
<1>11. ASSUME NEW c \in Accepted, PeerEnds(c) PROVE ServerInv'
  BY <1>11, <1>a DEF PeerEnds
<1> QED
  BY <1>1, <1>2, <1>3, <1>4, <1>5, <1>6, <1>7, <1>8, <1>9, <1>10, <1>11
  DEF ServerStep, ServerThreads, Serves

\* The table grows by one entry, when it is not full, or becomes smaller.
LEMMA TableStep == ServerInv /\ TableInv /\ [ServerStep]_serverVars => TableInv'
<1> SUFFICES ASSUME ServerInv, TableInv, [ServerStep]_serverVars PROVE TableInv'  OBVIOUS
<1>0. MaxConnections \in Nat  BY ServerAssumption
<1>1. Cardinality(Kept) \in Nat  BY FS_CardinalityType DEF TableInv
<1>2. CASE Kept' \subseteq Kept
  BY <1>0, <1>1, <1>2, FS_Subset, FS_CardinalityType DEF TableInv
<1>3. CASE Keeps
  <2>1. CASE clients' = clients
    <3>1. Kept' = Kept  BY <2>1 DEF Kept
    <3> QED  BY <1>2, <3>1
  <2>2. CASE ~(Cardinality(Kept) >= MaxConnections)
    <3>1. from[acceptor] \in Addresses /\ acceptor \in Accepted /\ acceptor # 0
          /\ clients' = [clients EXCEPT ![from[acceptor]] = acceptor]
      BY <1>3, <2>2 DEF Keeps, ServerInv, Accepted
    <3>2. Kept' = Kept \cup {from[acceptor]}
      <4>1. \A a \in Addresses : clients'[a] # 0 <=> clients[a] # 0 \/ a = from[acceptor]
        BY <3>1 DEF ServerInv
      <4> QED  BY <3>1, <4>1 DEF Kept
    <3>3. IsFiniteSet(Kept') /\ Cardinality(Kept') <= Cardinality(Kept) + 1
      <4> DEFINE K == Kept
                 a == from[acceptor]
      <4>1. IsFiniteSet(K) /\ Cardinality(K) \in Nat  BY <1>1 DEF TableInv
      <4> HIDE DEF K, a
      <4>2. IsFiniteSet(K \cup {a}) /\ Cardinality(K \cup {a}) <= Cardinality(K) + 1
        BY <4>1, FS_AddElement
      <4> QED  BY <3>2, <4>2 DEF K, a
    <3>4. Cardinality(Kept') \in Nat  BY <3>3, FS_CardinalityType
    <3> QED  BY <1>0, <1>1, <2>2, <3>3, <3>4 DEF TableInv
  <2> QED  BY <1>3, <2>1, <2>2 DEF Keeps
<1>4. CASE ~Keeps
  <2>1. \A a \in Addresses : clients'[a] # 0 => clients[a] # 0
    BY <1>4 DEF ServerStep, ServerThreads, Serves, StartServer, ConnectUdp, AsksPassive, DisconnectBegins,
       DisconnectEnds, AcceptorEnds, DatagramsEnd, AcceptsPeer, ReaderCloses, ReaderEnds, Drops,
       PeerConnects, PeerEnds, ServerInv, serverVars
  <2> QED  BY <1>2, <2>1 DEF Kept
<1> QED  BY <1>3, <1>4

\* A client that was disconnected connects again only by a thread that was about to when it was, or
\* by a request that was being sent,
\* and every open connection to the gateway is served (ethernet_client.py:399, :468).
THEOREM ConnectionsAreCaused == FieldSpec => []ConnectionsHaveACause
<1>1. TransportTypeOK /\ ZombieInv => ZombieHasACause
  BY DEF TransportTypeOK, ZombieInv, ZombieHasACause
<1>2. ServerInv /\ TableInv => ConnectionsAreServed
  BY DEF ServerInv, TableInv, ConnectionsAreServed
<1>3. FieldSpec => [](ServerInv /\ TableInv)
  BY ServerStart, ServerStepped, ServerInvStep, TableStep, PTL DEF FieldSpec
<1> QED  BY <1>1, <1>2, <1>3, TransportAlways, PTL DEF ConnectionsHaveACause

-----------------------------------------------------------------------------
(* The exchanges.                                                          *)

\* What the exchange with the connection leaves of the answers on their way.
KeptOrLost == UNCHANGED <<due, inbox>> \/ (due' = {} /\ inbox' = <<>>)

ExchangeTypeOK ==
  /\ kind \in Kinds
  /\ holder \in {"nobody"} \cup Callers
  /\ asked \in Seq(Slaves) /\ Len(asked) <= MaxRequests
  /\ result \in [Requests -> {Open, Failed} \cup Requests]
  /\ due \subseteq 1 .. Len(asked)
  /\ inbox \in Seq({Damaged} \cup Requests)

\* A request has been sent and is waited for.
Waiting == holder # "nobody" /\ ~sending

\* Only the last request may be open, and it is while its caller waits.  What is on its way,
\* asked for or received, was asked for and no request has taken it; what is still due has not
\* been received.
LastIsOpen ==
  /\ \A n \in Requests : n > Current => result[n] = Open
  /\ \A n \in 1 .. Current : result[n] = Open <=> Waiting /\ n = Current
  /\ Waiting => Current > 0

NotTaken(m) == \A n \in Requests : result[n] # m

DueIsFresh == \A m \in due : NotTaken(m)

InboxIsFresh ==
  \A i \in 1 .. Len(inbox) : inbox[i] # Damaged =>
    inbox[i] \in 1 .. Current /\ inbox[i] \notin due /\ NotTaken(inbox[i])

AnswersInv == LastIsOpen /\ DueIsFresh /\ InboxIsFresh /\ AnswersAreOwnOrLate

\* What a request reads is its failure, or the first frame that was received, whole.
LEMMA ParsedWhat ==
  ASSUME ExchangeTypeOK, NEW n \in Requests
  PROVE  \/ Parsed(n, inbox) = Failed
         \/ 1 \in 1 .. Len(inbox) /\ inbox[1] # Damaged /\ Parsed(n, inbox) = inbox[1]
<1>1. CASE ~(inbox # <<>> /\ (kind = "tcp" \/ Len(inbox) = 1) /\ Accepts(n, Head(inbox)))
  BY <1>1 DEF Parsed
<1>2. CASE inbox # <<>> /\ (kind = "tcp" \/ Len(inbox) = 1) /\ Accepts(n, Head(inbox))
  <2>1. Parsed(n, inbox) = Head(inbox)  BY <1>2 DEF Parsed
  <2>2. Head(inbox) = inbox[1] /\ 1 \in 1 .. Len(inbox)  BY <1>2 DEF ExchangeTypeOK
  <2>3. kind \in {"rtu", "custom", "tcp", "rtu_over_tcp"}
    BY TransportAssumption DEF ExchangeTypeOK
  <2>4. Head(inbox) # Damaged
    <3>1. CASE kind \in {"rtu", "rtu_over_tcp"}  BY <1>2, <3>1 DEF Accepts, RtuAccepts
    <3>2. CASE kind = "tcp"  BY <1>2, <3>2 DEF Accepts, TcpAccepts
    <3>3. CASE kind = "custom"  BY <1>2, <3>3 DEF Accepts, CustomAccepts
    <3> QED  BY <2>3, <3>1, <3>2, <3>3
  <2> QED  BY <2>1, <2>2, <2>4
<1> QED  BY <1>1, <1>2

\* What is not taken stays so when a request fails.
LEMMA FailureTakesNothing ==
  ASSUME ExchangeTypeOK, NEW r \in Requests, result' = [result EXCEPT ![r] = Failed]
  PROVE  /\ result' \in [Requests -> {Open, Failed} \cup Requests]
         /\ \A m \in Requests : NotTaken(m) => NotTaken(m)'
         /\ result[r] = Open /\ AnswersAreOwnOrLate => AnswersAreOwnOrLate'
<1>1. /\ result' \in [Requests -> {Open, Failed} \cup Requests]
      /\ \A n \in Requests \ {r} : result'[n] = result[n]
      /\ result'[r] = Failed
  BY DEF ExchangeTypeOK
<1>2. Failed \notin Requests /\ Failed # Open /\ Open \notin Requests  BY DEF Failed, Open, Requests
<1>3. \A m, n \in Requests : result'[n] = m => result[n] = m  BY <1>1, <1>2
<1>4. \A m \in Requests : NotTaken(m) => NotTaken(m)'  BY <1>3 DEF NotTaken
<1>5. ASSUME result[r] = Open, AnswersAreOwnOrLate PROVE AnswersAreOwnOrLate'
  <2>1. ASSUME NEW n \in Requests, NEW m \in Requests, result'[n] = m, m # n
        PROVE  m < n /\ \E k \in 1 .. m : result'[k] = Failed
    <3>1. result[n] = m  BY <1>3, <2>1
    <3>2. m < n  BY <1>5, <2>1, <3>1 DEF AnswersAreOwnOrLate
    <3>3. PICK k \in 1 .. m : result[k] = Failed  BY <1>5, <2>1, <3>1 DEF AnswersAreOwnOrLate
    <3>4. k \in Requests  BY <3>3, ExchangeAssumption DEF Requests
    <3>5. result'[k] = Failed  BY <1>1, <3>3, <3>4
    <3> QED  BY <3>2, <3>5
  <2>2. ASSUME NEW n \in Requests, NEW m \in Requests, result'[n] \in Requests, result'[n] = result'[m]
        PROVE  n = m
    <3>1. result[n] = result'[n] /\ result[m] = result'[m]  BY <1>3, <2>2
    <3> QED  BY <1>5, <2>2, <3>1 DEF AnswersAreOwnOrLate
  <2> QED  BY <2>1, <2>2 DEF AnswersAreOwnOrLate
<1> QED  BY <1>1, <1>4, <1>5

\* Another request, which its caller waits for or which fails at once.
LEMMA AskStep ==
  ASSUME ExchangeTypeOK, AnswersInv, NewRequest, ~Waiting, kind' = kind,
         NEW c \in Callers,
         \/ /\ result' = result /\ holder' = c /\ sending' = FALSE
            /\ due' \in {due, due \cup {Current + 1}} /\ inbox' \in {inbox, <<>>}
         \/ /\ result' = [result EXCEPT ![Current + 1] = Failed] /\ holder' = "nobody"
            /\ KeptOrLost
  PROVE  ExchangeTypeOK' /\ AnswersInv'
<1>a. MaxRequests \in Nat /\ "nobody" \notin Callers  BY ExchangeAssumption
<1>b. Current \in Nat /\ Current + 1 \in Requests
  BY <1>a DEF NewRequest, ExchangeTypeOK, Current, Requests
<1>c. asked' \in Seq(Slaves) /\ Len(asked') = Len(asked) + 1 /\ Len(asked') <= MaxRequests
  BY <1>a DEF NewRequest, ExchangeTypeOK, Current
<1>d. Current' = Current + 1  BY <1>c DEF Current
<1>e. /\ \A n \in 1 .. Current : result[n] # Open
      /\ \A n \in Requests : n > Current => result[n] = Open
  BY DEF AnswersInv, LastIsOpen
<1>f. due \subseteq 1 .. Current /\ inbox \in Seq({Damaged} \cup Requests)
  BY DEF ExchangeTypeOK, Current
<1>g. due \subseteq Requests /\ 1 .. Current \subseteq Requests
  BY <1>a, <1>f DEF ExchangeTypeOK, Current, Requests
<1>h. <<>> \in Seq({Damaged} \cup Requests)  OBVIOUS
<1>1. CASE /\ result' = result /\ holder' = c /\ sending' = FALSE
           /\ due' \in {due, due \cup {Current + 1}} /\ inbox' \in {inbox, <<>>}
  <2>1. due' \subseteq 1 .. Current'  BY <1>1, <1>b, <1>d, <1>f
  <2>2. ExchangeTypeOK'
    BY <1>1, <1>c, <1>f, <1>h, <2>1 DEF ExchangeTypeOK, Current
  <2>3. NotTaken(Current + 1)
    <3> SUFFICES ASSUME NEW n \in Requests, result[n] = Current + 1 PROVE FALSE  BY DEF NotTaken
    <3>1. result[n] # Open  BY <1>b DEF Open
    <3>2. n <= Current  BY <1>b, <1>e, <3>1 DEF Requests
    <3> QED  BY <1>b, <3>2 DEF AnswersInv, AnswersAreOwnOrLate, Requests
  <2>4. AnswersAreOwnOrLate'  BY <1>1 DEF AnswersInv, AnswersAreOwnOrLate
  <2>5. LastIsOpen'
    <3>1. \A n \in Requests : n > Current' => result'[n] = Open  BY <1>1, <1>b, <1>d, <1>e DEF Requests
    <3>2. \A n \in 1 .. Current' : result'[n] = Open <=> Waiting' /\ n = Current'
      BY <1>1, <1>a, <1>b, <1>d, <1>e DEF Waiting
    <3> QED  BY <1>b, <1>d, <3>1, <3>2 DEF LastIsOpen
  <2>6. \A m : NotTaken(m)' <=> NotTaken(m)  BY <1>1 DEF NotTaken
  <2>7. DueIsFresh'  BY <1>1, <2>3, <2>6 DEF AnswersInv, DueIsFresh
  <2>8. InboxIsFresh'
    <3>1. CASE inbox' = <<>>  BY <3>1 DEF InboxIsFresh
    <3>2. CASE inbox' = inbox
      <4> SUFFICES ASSUME NEW i \in 1 .. Len(inbox), NEW m, m = inbox[i], m # Damaged
                   PROVE  m \in 1 .. Current' /\ m \notin due' /\ NotTaken(m)'
        BY <3>2 DEF InboxIsFresh, NotTaken
      <4>1. m \in 1 .. Current /\ m \notin due /\ NotTaken(m)
        BY DEF AnswersInv, InboxIsFresh
      <4>2. m # Current + 1  BY <1>b, <4>1
      <4> QED  BY <1>1, <1>b, <1>d, <2>6, <4>1, <4>2
    <3> QED  BY <1>1, <3>1, <3>2
  <2> QED  BY <2>2, <2>4, <2>5, <2>7, <2>8 DEF AnswersInv
<1>2. CASE /\ result' = [result EXCEPT ![Current + 1] = Failed] /\ holder' = "nobody"
           /\ KeptOrLost
  <2>0. /\ \A n \in Requests \ {Current + 1} : result'[n] = result[n]
        /\ result'[Current + 1] = Failed
    BY <1>2, <1>b DEF ExchangeTypeOK
  <2>1. /\ result' \in [Requests -> {Open, Failed} \cup Requests]
        /\ \A m \in Requests : NotTaken(m) => NotTaken(m)'
        /\ AnswersAreOwnOrLate'
    <3>1. result[Current + 1] = Open  BY <1>b, <1>e
    <3> QED  BY <1>2, <1>b, <3>1, FailureTakesNothing DEF AnswersInv
  <2>2. due' \subseteq 1 .. Current' /\ inbox' \in Seq({Damaged} \cup Requests)
    <3>1. CASE UNCHANGED <<due, inbox>>  BY <1>b, <1>d, <1>f, <3>1
    <3>2. CASE due' = {} /\ inbox' = <<>>  BY <1>h, <3>2
    <3> QED  BY <1>2, <3>1, <3>2 DEF KeptOrLost
  <2>3. ExchangeTypeOK'  BY <1>2, <1>c, <2>1, <2>2 DEF ExchangeTypeOK, Current
  <2>4. LastIsOpen'
    <3>1. \A n \in Requests : n > Current' => result'[n] = Open  BY <1>b, <1>d, <1>e, <2>0 DEF Requests
    <3>2. \A n \in 1 .. Current' : result'[n] # Open
      <4> SUFFICES ASSUME NEW n \in 1 .. Current' PROVE result'[n] # Open  OBVIOUS
      <4>1. CASE n = Current + 1  BY <2>0, <4>1 DEF Failed, Open
      <4>2. CASE n # Current + 1
        <5>1. n \in 1 .. Current  BY <1>b, <1>d, <4>2
        <5> QED  BY <1>e, <1>g, <2>0, <4>2, <5>1
      <4> QED  BY <4>1, <4>2
    <3> QED  BY <1>2, <3>1, <3>2 DEF LastIsOpen, Waiting
  <2>5. DueIsFresh'  BY <1>2, <1>g, <2>1 DEF AnswersInv, DueIsFresh, KeptOrLost
  <2>6. InboxIsFresh'
    <3>1. CASE inbox' = <<>>  BY <3>1 DEF InboxIsFresh
    <3>2. CASE inbox' = inbox /\ due' = due
      <4> SUFFICES ASSUME NEW i \in 1 .. Len(inbox), NEW m, m = inbox[i], m # Damaged
                   PROVE  m \in 1 .. Current' /\ m \notin due /\ NotTaken(m)'
        BY <3>2 DEF InboxIsFresh, NotTaken
      <4>1. m \in 1 .. Current /\ m \notin due /\ NotTaken(m)
        BY DEF AnswersInv, InboxIsFresh
      <4> QED  BY <1>b, <1>d, <1>g, <2>1, <4>1
    <3> QED  BY <1>2, <3>1, <3>2 DEF KeptOrLost
  <2> QED  BY <2>1, <2>3, <2>4, <2>5, <2>6 DEF AnswersInv
<1> QED  BY <1>1, <1>2

\* A caller is let through and has sent nothing yet.
LEMMA ThroughStep ==
  ASSUME ExchangeTypeOK, AnswersInv, kind' = kind, holder = "nobody", NEW c \in Callers, holder' = c,
         sending' = TRUE, UNCHANGED <<asked, result, due, inbox>>
  PROVE  ExchangeTypeOK' /\ AnswersInv'
<1>1. ExchangeTypeOK' /\ Current' = Current  BY DEF ExchangeTypeOK, Current
<1>2. ~Waiting /\ ~Waiting'  BY DEF Waiting
<1>3. LastIsOpen'  BY <1>1, <1>2 DEF AnswersInv, LastIsOpen
<1>4. DueIsFresh' /\ InboxIsFresh' /\ AnswersAreOwnOrLate'
  BY <1>1 DEF AnswersInv, DueIsFresh, InboxIsFresh, NotTaken, AnswersAreOwnOrLate
<1> QED  BY <1>1, <1>3, <1>4 DEF AnswersInv

\* The caller that waited takes what there is.
LEMMA TakeStep ==
  ASSUME ExchangeTypeOK, AnswersInv, kind' = kind, Waiting, holder' = "nobody",
         asked' = asked, due' = due, inbox' \in {inbox, <<>>},
         \/ result' = [result EXCEPT ![Current] = Parsed(Current, inbox)] /\ inbox' = <<>>
         \/ result' = [result EXCEPT ![Current] = Failed]
  PROVE  ExchangeTypeOK' /\ AnswersInv'
<1>a. MaxRequests \in Nat  BY ExchangeAssumption
<1>b. /\ Current \in Nat /\ Current' = Current /\ Current \in Requests
      /\ result[Current] = Open /\ Current > 0
  BY <1>a DEF ExchangeTypeOK, AnswersInv, LastIsOpen, Current, Requests
<1>c. /\ \A n \in 1 .. Current : n # Current => result[n] # Open
      /\ \A n \in Requests : n > Current => result[n] = Open
  BY DEF AnswersInv, LastIsOpen
<1>d. due \subseteq 1 .. Current /\ inbox \in Seq({Damaged} \cup Requests)
  BY DEF ExchangeTypeOK, Current
<1>e. due \subseteq Requests /\ 1 .. Current \subseteq Requests
  BY <1>a, <1>d DEF ExchangeTypeOK, Current, Requests
<1>f. Failed \notin Requests /\ Failed # Open /\ Open \notin Requests  BY DEF Failed, Open, Requests
<1>g. <<>> \in Seq({Damaged} \cup Requests)  OBVIOUS
<1>1. CASE result' = [result EXCEPT ![Current] = Failed]
  <2>1. /\ result' \in [Requests -> {Open, Failed} \cup Requests]
        /\ \A m \in Requests : NotTaken(m) => NotTaken(m)'
        /\ AnswersAreOwnOrLate'
    BY <1>1, <1>b, FailureTakesNothing DEF AnswersInv
  <2>2. ExchangeTypeOK'  BY <1>d, <1>g, <2>1 DEF ExchangeTypeOK, Current
  <2>3. LastIsOpen'
    <3>1. /\ \A n \in Requests \ {Current} : result'[n] = result[n]
          /\ result'[Current] = Failed
      BY <1>1, <1>b DEF ExchangeTypeOK
    <3>2. \A n \in Requests : n > Current => result'[n] = Open  BY <1>b, <1>c, <3>1
    <3>3. \A n \in 1 .. Current : result'[n] # Open  BY <1>c, <1>e, <1>f, <3>1
    <3> QED  BY <1>b, <3>2, <3>3 DEF LastIsOpen, Waiting
  <2>4. DueIsFresh'  BY <1>e, <2>1 DEF AnswersInv, DueIsFresh
  <2>5. InboxIsFresh'
    <3>1. CASE inbox' = <<>>  BY <3>1 DEF InboxIsFresh
    <3>2. CASE inbox' = inbox
      <4> SUFFICES ASSUME NEW i \in 1 .. Len(inbox), NEW m, m = inbox[i], m # Damaged
                   PROVE  m \in 1 .. Current' /\ m \notin due /\ NotTaken(m)'
        BY <3>2 DEF InboxIsFresh, NotTaken
      <4>1. m \in 1 .. Current /\ m \notin due /\ NotTaken(m)
        BY DEF AnswersInv, InboxIsFresh
      <4> QED  BY <1>b, <1>e, <2>1, <4>1
    <3> QED  BY <3>1, <3>2
  <2> QED  BY <2>1, <2>2, <2>3, <2>4, <2>5 DEF AnswersInv
<1>2. CASE inbox' = <<>> /\ NotTaken(inbox[1]) /\ inbox[1] \in 1 .. Current /\ inbox[1] \notin due
           /\ result' = [result EXCEPT ![Current] = inbox[1]]
  <2> DEFINE f == inbox[1]
  <2>1. f \in Requests /\ f <= Current /\ f \notin due /\ f # Open  BY <1>2, <1>b, <1>e, <1>f
  <2>2. \A n \in Requests : result[n] # f  BY <1>2 DEF NotTaken
  <2>3. result' = [result EXCEPT ![Current] = f] /\ inbox' = <<>>  BY <1>2
  <2> HIDE DEF f
  <2>4. /\ \A n \in Requests \ {Current} : result'[n] = result[n]
        /\ result'[Current] = f
        /\ result' \in [Requests -> {Open, Failed} \cup Requests]
    BY <1>b, <2>1, <2>3 DEF ExchangeTypeOK
  <2>5. ExchangeTypeOK'  BY <1>d, <1>g, <2>3, <2>4 DEF ExchangeTypeOK, Current
  <2>6. LastIsOpen'
    <3>1. \A n \in Requests : n > Current => result'[n] = Open  BY <1>b, <1>c, <2>4
    <3>2. \A n \in 1 .. Current : result'[n] # Open  BY <1>c, <1>e, <2>1, <2>4
    <3> QED  BY <1>b, <3>1, <3>2 DEF LastIsOpen, Waiting
  <2>7. DueIsFresh'
    <3>1. \A m \in due, n \in Requests : result'[n] # m
      BY <2>1, <2>4 DEF AnswersInv, DueIsFresh, NotTaken
    <3> QED  BY <3>1 DEF DueIsFresh, NotTaken
  <2>8. InboxIsFresh'  BY <2>3 DEF InboxIsFresh
  <2>9. \A k \in Requests : result[k] = Failed => result'[k] = Failed  BY <1>b, <1>f, <2>4
  <2>10. AnswersAreOwnOrLate'
    <3>1. ASSUME NEW n \in Requests, NEW m \in Requests, result'[n] = m, m # n
          PROVE  m < n /\ \E k \in 1 .. m : result'[k] = Failed
      <4>0. \A k \in 1 .. m : k \in Requests  BY <1>a DEF Requests
      <4>1. CASE n # Current
        <5>1. result[n] = m  BY <2>4, <3>1, <4>1
        <5>2. m < n /\ \E k \in 1 .. m : result[k] = Failed
          BY <3>1, <5>1 DEF AnswersInv, AnswersAreOwnOrLate
        <5> QED  BY <2>9, <4>0, <5>2
      <4>2. CASE n = Current
        <5>1. m = f /\ m < n /\ m \in 1 .. Current /\ m # Current
          BY <1>b, <2>1, <2>4, <3>1, <4>2 DEF Requests
        <5>2. result[m] # Open  BY <1>c, <5>1
        <5>3. CASE result[m] = Failed
          <6>1. m \in 1 .. m  BY DEF Requests
          <6> QED  BY <2>9, <5>1, <5>3, <6>1
        <5>4. CASE result[m] # Failed
          <6>1. result[m] \in Requests /\ result[m] # m
            BY <2>2, <5>1, <5>2, <5>4 DEF ExchangeTypeOK
          <6>2. result[m] < m /\ \E k \in 1 .. result[m] : result[k] = Failed
            BY <6>1 DEF AnswersInv, AnswersAreOwnOrLate
          <6>3. 1 .. result[m] \subseteq 1 .. m  BY <1>a, <6>1, <6>2 DEF Requests
          <6> QED  BY <2>9, <4>0, <5>1, <6>2, <6>3
        <5> QED  BY <5>3, <5>4
      <4> QED  BY <4>1, <4>2
    <3>2. ASSUME NEW n \in Requests, NEW m \in Requests, result'[n] \in Requests, result'[n] = result'[m]
          PROVE  n = m
      <4>1. CASE n # Current /\ m # Current
        BY <2>4, <3>2, <4>1 DEF AnswersInv, AnswersAreOwnOrLate
      <4>2. CASE n = Current \/ m = Current
        BY <2>2, <2>4, <3>2, <4>2
      <4> QED  BY <4>1, <4>2
    <3> QED  BY <3>1, <3>2 DEF AnswersAreOwnOrLate
  <2> QED  BY <2>5, <2>6, <2>7, <2>8, <2>10 DEF AnswersInv
<1>3. CASE result' = [result EXCEPT ![Current] = Parsed(Current, inbox)] /\ inbox' = <<>>
  <2>1. CASE Parsed(Current, inbox) = Failed  BY <1>1, <1>3, <2>1
  <2>2. CASE 1 \in 1 .. Len(inbox) /\ inbox[1] # Damaged /\ Parsed(Current, inbox) = inbox[1]
    BY <1>2, <1>3, <2>2 DEF AnswersInv, InboxIsFresh
  <2> QED  BY <1>b, <2>1, <2>2, ParsedWhat
<1> QED  BY <1>1, <1>3

\* What is on its way is lost, as a whole, or what was received is thrown away.
LEMMA QuietStep ==
  ASSUME ExchangeTypeOK, AnswersInv, kind' = kind, UNCHANGED <<sending, holder, asked, result>>,
         KeptOrLost \/ (due' = due /\ inbox' = <<>>)
  PROVE  ExchangeTypeOK' /\ AnswersInv'
<1>1. due' \in {due, {}} /\ inbox' \in {inbox, <<>>}  BY DEF KeptOrLost
<1>2. <<>> \in Seq({Damaged} \cup Requests)  OBVIOUS
<1>3. ExchangeTypeOK'  BY <1>1, <1>2 DEF ExchangeTypeOK
<1>4. Current' = Current  BY DEF Current
<1>5. LastIsOpen' /\ AnswersAreOwnOrLate'
  BY <1>4 DEF AnswersInv, LastIsOpen, Waiting, AnswersAreOwnOrLate
<1>6. DueIsFresh'  BY <1>1 DEF AnswersInv, DueIsFresh, NotTaken
<1>7. InboxIsFresh'
  <2>1. CASE inbox' = <<>>  BY <2>1 DEF InboxIsFresh
  <2>2. CASE inbox' = inbox
    BY <1>1, <1>4, <2>2 DEF AnswersInv, InboxIsFresh, NotTaken
  <2> QED  BY <1>1, <2>1, <2>2
<1> QED  BY <1>3, <1>5, <1>6, <1>7 DEF AnswersInv

LEMMA AnswerStep ==
  ASSUME ExchangeTypeOK, AnswersInv, NEW n \in Requests, Answer(n)
  PROVE  ExchangeTypeOK' /\ AnswersInv'
<1>a. MaxRequests \in Nat  BY ExchangeAssumption
<1>1. PICK f \in {n, Damaged} : inbox' = Append(inbox, f)  BY DEF Answer
<1>2. /\ n \in due /\ due' = due \ {n} /\ kind' = kind
      /\ sending' = sending /\ holder' = holder /\ asked' = asked /\ result' = result
  BY DEF Answer, tvars, config
<1>3. inbox \in Seq({Damaged} \cup Requests) /\ n \in 1 .. Current
  BY <1>2 DEF ExchangeTypeOK, Current
<1>4. /\ inbox' \in Seq({Damaged} \cup Requests) /\ Len(inbox') = Len(inbox) + 1
      /\ inbox'[Len(inbox) + 1] = f
      /\ \A i \in 1 .. Len(inbox) : inbox'[i] = inbox[i]
  BY <1>1, <1>3
<1>5. ExchangeTypeOK'  BY <1>2, <1>4 DEF ExchangeTypeOK
<1>6. Current' = Current  BY <1>2 DEF Current
<1>7. LastIsOpen' /\ AnswersAreOwnOrLate'
  BY <1>2, <1>6 DEF AnswersInv, LastIsOpen, Waiting, AnswersAreOwnOrLate
<1>8. DueIsFresh'  BY <1>2 DEF AnswersInv, DueIsFresh, NotTaken
<1>9. InboxIsFresh'
  <2> SUFFICES ASSUME NEW i \in 1 .. Len(inbox'), NEW m, m = inbox'[i], m # Damaged
               PROVE  m \in 1 .. Current /\ m \notin due' /\ NotTaken(m)
    BY <1>2, <1>6 DEF InboxIsFresh, NotTaken
  <2>1. CASE i = Len(inbox) + 1
    <3>1. m = n  BY <1>4, <2>1
    <3> QED  BY <1>2, <1>3, <3>1 DEF AnswersInv, DueIsFresh
  <2>2. CASE i # Len(inbox) + 1
    <3>1. i \in 1 .. Len(inbox)  BY <1>3, <1>4, <2>2
    <3>2. m = inbox[i]  BY <1>4, <3>1
    <3> QED  BY <1>2, <3>1, <3>2 DEF AnswersInv, InboxIsFresh
  <2> QED  BY <2>1, <2>2
<1> QED  BY <1>5, <1>7, <1>8, <1>9 DEF AnswersInv

LEMMA KindStays == [TransportNext]_<<tvars, sending>> => kind' = kind
BY DEF TransportNext, ConnectionStep, LoopStep, Dialed, DialSucceeds, DialFails, LoopEnds, LoopWaits,
   LoopSlept, LoopDials, LoopFindsConnected, RxSeesClose, RxReconnects, RxFails, RxGivesUp, RxEnds, Connect, Disconnecting,
   Disconnect, PeerChanges, ConnectionLost, LetsThrough, Sent, BreaksOff, config, tvars

LEMMA ExchangeStep ==
  ExchangeTypeOK /\ AnswersInv /\ [FieldNext]_<<side, vars, serverVars>> => ExchangeTypeOK' /\ AnswersInv'
<1> SUFFICES ASSUME ExchangeTypeOK, AnswersInv, [FieldNext]_<<side, vars, serverVars>>
             PROVE  ExchangeTypeOK' /\ AnswersInv'
  OBVIOUS
<1>a. kind' = kind  BY TransportStep, KindStays
<1>b. "nobody" \notin Callers  BY ExchangeAssumption
<1>c. Flushed => KeptOrLost  BY DEF Flushed, KeptOrLost
<1>1. CASE UNCHANGED vars  BY <1>1, <1>a, QuietStep DEF vars, xvars, KeptOrLost
<1>2. ASSUME NEW c \in Callers, CallerStep(c) PROVE ExchangeTypeOK' /\ AnswersInv'
  <2>1. CASE Asks(c)
    <3>1. /\ holder = "nobody" /\ holder' = c /\ sending' = TRUE
          /\ UNCHANGED <<asked, result, due, inbox>>
      BY <2>1 DEF Asks, LockFree, FindsConnected
    <3> QED  BY <1>a, <3>1, ThroughStep
  <2>2. CASE AskFails(c)
    <3>1. /\ NewRequest /\ ~Waiting /\ holder' = "nobody"
          /\ result' = [result EXCEPT ![Current + 1] = Failed] /\ KeptOrLost
      BY <2>2 DEF AskFails, LockFree, Waiting, KeptOrLost
    <3> QED  BY <1>a, <3>1, AskStep
  <2>3. CASE SendFails(c)
    <3>1. /\ NewRequest /\ ~Waiting /\ holder' = "nobody"
          /\ result' = [result EXCEPT ![Current + 1] = Failed] /\ KeptOrLost
      BY <1>c, <2>3 DEF SendFails, Waiting
    <3> QED  BY <1>a, <3>1, AskStep
  <2>4. CASE Sends(c)
    <3>1. /\ NewRequest /\ ~Waiting /\ result' = result /\ holder' = c /\ sending' = FALSE
          /\ due' \in {due, due \cup {Current + 1}} /\ inbox' \in {inbox, <<>>}
      BY <2>4 DEF Sends, Waiting
    <3> QED  BY <1>a, <3>1, AskStep
  <2>5. CASE Reads(c)
    <3>1. TakesAnswer(c)  BY <2>5 DEF Reads, ReadsFrame, ReadsRaw, ReadsPort
    <3>2. /\ Waiting /\ holder' = "nobody" /\ asked' = asked /\ due' = due /\ inbox' = <<>>
          /\ result' = [result EXCEPT ![Current] = Parsed(Current, inbox)]
      BY <1>b, <3>1 DEF TakesAnswer, Waiting
    <3> QED  BY <1>a, <3>2, TakeStep
  <2>6. CASE TimesOut(c)
    <3>1. /\ Waiting /\ holder' = "nobody" /\ asked' = asked /\ due' = due /\ inbox' = inbox
          /\ result' = [result EXCEPT ![Current] = Failed]
      BY <1>b, <2>6 DEF TimesOut, Waiting
    <3> QED  BY <1>a, <3>1, TakeStep
  <2> QED  BY <1>2, <2>1, <2>2, <2>3, <2>4, <2>5, <2>6 DEF CallerStep, Proceeds
<1>3. ASSUME NEW r \in Socks, RxThread(r) \/ Drain(r) PROVE ExchangeTypeOK' /\ AnswersInv'
  <2>1. UNCHANGED <<sending, holder, asked, result>> /\ (KeptOrLost \/ (due' = due /\ inbox' = <<>>))
    BY <1>3, <1>c DEF RxThread, Moves, Drain
  <2> QED  BY <1>a, <2>1, QuietStep
<1>4. CASE AppThread \/ LoopThread \/ Others
  <2>1. UNCHANGED <<sending, holder, asked, result>> /\ KeptOrLost
    BY <1>4, <1>c DEF AppThread, LoopThread, Others, Moves
  <2> QED  BY <1>a, <2>1, QuietStep
<1> QED  BY <1>1, <1>2, <1>3, <1>4, AnswerStep DEF FieldNext, Next

LEMMA ExchangeInit == FieldInit => ExchangeTypeOK /\ AnswersInv
<1> SUFFICES ASSUME Init PROVE ExchangeTypeOK /\ AnswersInv  BY DEF FieldInit
<1>1. /\ kind \in Kinds /\ holder = "nobody" /\ asked = <<>> /\ due = {} /\ inbox = <<>>
      /\ result = [r \in Requests |-> Open]
  BY DEF Init, TransportInit
<1>2. Current = 0 /\ Len(inbox) = 0 /\ MaxRequests \in Nat  BY <1>1, ExchangeAssumption DEF Current
<1>3. ExchangeTypeOK  BY <1>1, <1>2 DEF ExchangeTypeOK
<1>4. Open \notin Requests  BY DEF Open, Requests
<1>5. LastIsOpen /\ DueIsFresh /\ InboxIsFresh
  BY <1>1, <1>2 DEF LastIsOpen, Waiting, DueIsFresh, InboxIsFresh
<1>6. AnswersAreOwnOrLate  BY <1>1, <1>4 DEF AnswersAreOwnOrLate
<1> QED  BY <1>3, <1>5, <1>6 DEF AnswersInv

LEMMA ExchangeAlways == FieldSpec => [](ExchangeTypeOK /\ AnswersInv)
BY ExchangeInit, ExchangeStep, PTL DEF FieldSpec

\* The connection and the exchanges over it have their types (ethernet_client.py:49, serial_client.py:36).
THEOREM FieldTypeCorrect == FieldSpec => []TypeOK
<1>1. TransportTypeOK /\ ExchangeTypeOK => TypeOK  BY DEF ExchangeTypeOK, TypeOK
<1> QED  BY <1>1, TransportAlways, ExchangeAlways, PTL

\* No answer is used twice, and one that was meant for another request only if it was late
\* (ethernet_client.py:280).
THEOREM AnswersAreNotMixedUp == FieldSpec => []AnswersAreOwnOrLate
<1>1. AnswersInv => AnswersAreOwnOrLate  BY DEF AnswersInv
<1> QED  BY <1>1, ExchangeAlways, PTL

=============================================================================
