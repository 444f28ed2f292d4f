------------------------------ MODULE Exchange ------------------------------
(***************************************************************************)
(* Reading a point: DeviceCollector._collect_point() (core/collector/      *)
(* collector.py), the protocol classes (core/protocols) and the request /  *)
(* response methods of the clients, over a connection that may break.      *)
(*                                                                         *)
(* The collector thread and the Qt thread (trigger_once) ask; the clients  *)
(* let one exchange be under way at a time.  Requests are numbered, a      *)
(* frame is the number of the request it answers, and an answer may come   *)
(* when nobody waits for it any more.  Modbus TCP stops reading at the     *)
(* first whole frame; the RTU framings read until the timeout.             *)
(***************************************************************************)
EXTENDS Transport, Sequences

CONSTANTS
  Callers,      \* threads that read points
  Slaves,       \* slave ids behind the line
  MaxRequests   \* bound: requests ever sent

ASSUME ExchangeAssumption == MaxRequests \in Nat /\ Slaves # {} /\ "nobody" \notin Callers

VARIABLES
  holder,   \* who holds _io_lock or _send_recv_lock, "nobody" if it is free
  asked,    \* the slave of every request so far, in order
  result,   \* per request: Open, Failed, or the request whose answer it took
  due,      \* requests that the device may still answer
  inbox     \* answers received and not read, oldest first; 0 for a damaged one

xvars == <<sending, holder, asked, result, due, inbox>>
vars == <<tvars, xvars>>

Requests == 1 .. MaxRequests
Damaged == 0
Open == 0
Failed == -1

TypeOK ==
  /\ TransportTypeOK
  /\ holder \in {"nobody"} \cup Callers
  /\ asked \in Seq(Slaves) /\ Len(asked) <= MaxRequests
  /\ result \in [Requests -> {Open, Failed} \cup Requests]
  /\ due \subseteq 1 .. Len(asked)
  /\ inbox \in Seq({Damaged} \cup Requests)

Init ==
  /\ TransportInit
  /\ holder = "nobody" /\ asked = <<>> /\ due = {} /\ inbox = <<>>
  /\ result = [r \in Requests |-> Open]

-----------------------------------------------------------------------------
(* What the protocols make of a frame.                                     *)

Slave(r) == asked[r]

\* Modbus RTU, and RTU over TCP, test the CRC and the slave; the function code
\* and the length are taken from the answer.
RtuAccepts(n, f) == f # Damaged /\ Slave(f) = Slave(n)

\* Modbus TCP looks at neither the transaction nor the unit.
TcpAccepts(n, f) == f # Damaged

\* A custom protocol has a checksum at most.
CustomAccepts(n, f) == f # Damaged

Accepts(n, f) ==
  CASE kind \in {"rtu", "rtu_over_tcp"} -> RtuAccepts(n, f)
    [] kind = "tcp" -> TcpAccepts(n, f)
    [] kind = "custom" -> CustomAccepts(n, f)

\* The result of request n when `frames` were read: two frames in one buffer fail
\* their checksum, but Modbus TCP takes the first.
Parsed(n, frames) ==
  IF frames # <<>> /\ (kind = "tcp" \/ Len(frames) = 1) /\ Accepts(n, Head(frames))
  THEN Head(frames) ELSE Failed

-----------------------------------------------------------------------------
(* The callers: build_read_command() and the client's send and receive.    *)

Current == Len(asked)

\* What reaches a socket that is closed is lost.
Flushed == IF sock' = sock \/ Serial THEN UNCHANGED <<due, inbox>> ELSE due' = {} /\ inbox' = <<>>

\* The lock of the exchanges; a receive thread keeps it while it gives a socket up.
LockFree == holder = "nobody" /\ \A r \in Socks : rx[r] # "closed"

\* A collector has its client from the start of the device to its removal.
MayAsk == phase \in {"started", "removing"} /\ Current < MaxRequests

NewRequest ==
  /\ Current < MaxRequests
  /\ \E s \in Slaves : asked' = Append(asked, s)

\* is_connected is tested, and the socket used some steps later.
FindsConnected(c) ==
  /\ MayAsk /\ IsConnected
  /\ holder' = c /\ sending' = TRUE
  /\ UNCHANGED <<tvars, asked, result, due, inbox>>

\* Mutant: the exchange does not take the lock.
AsksUnlocked(c) ==
  /\ holder # c /\ ~sending
  /\ FindsConnected(c)

Asks(c) ==
  /\ LockFree
  /\ FindsConnected(c)

\* Not connected: the point fails without a request on the line.
AskFails(c) ==
  /\ LockFree /\ MayAsk /\ ~IsConnected
  /\ NewRequest
  /\ result' = [result EXCEPT ![Current + 1] = Failed]
  /\ UNCHANGED <<tvars, sending, holder, due, inbox>>

Writable == sock # 0 /\ line[sock] \in {"open", "fin"}

Sends(c) ==
  /\ holder = c /\ sending /\ Writable
  /\ NewRequest
  /\ sending' = FALSE
  /\ due' = IF line[sock] = "open" THEN due \cup {Current + 1} ELSE due
  /\ inbox' = IF Serial THEN <<>> ELSE inbox
  /\ UNCHANGED <<tvars, holder, result>>

\* The line is gone, or the socket: a serial client counts the error, a TCP client
\* starts to reconnect, whoever has closed the socket.
SerialSendFails == UNCHANGED <<state, running, line, sock, loop>>

SendFails(c) ==
  /\ holder = c /\ sending /\ ~Writable
  /\ NewRequest
  /\ sending' = FALSE /\ holder' = "nobody"
  /\ result' = [result EXCEPT ![Current + 1] = Failed]
  /\ IF Serial THEN SerialSendFails ELSE GiveUpConnection
  /\ Flushed
  /\ UNCHANGED <<config, tries, peer, dial, rx, history>>

\* The wait for the answer is over: what was read is parsed, the lock is free again.
TakesAnswer(c) ==
  /\ holder = c /\ ~sending /\ holder' = "nobody"
  /\ result' = [result EXCEPT ![Current] = Parsed(Current, inbox)]
  /\ inbox' = <<>>
  /\ UNCHANGED <<tvars, sending, asked, due>>

\* A whole frame ends the wait over Modbus TCP; the others wait out the timeout, and
\* over TCP the receive may also end early because the connection does.
ReadsFrame(c) == kind = "tcp" /\ inbox # <<>> /\ TakesAnswer(c)
ReadsRaw(c) == kind = "rtu_over_tcp" /\ TakesAnswer(c)
ReadsPort(c) == Serial /\ TakesAnswer(c)
Reads(c) == ReadsFrame(c) \/ ReadsRaw(c) \/ ReadsPort(c)

TimesOut(c) ==
  /\ holder = c /\ ~sending /\ holder' = "nobody"
  /\ kind = "tcp" /\ inbox = <<>>
  /\ result' = [result EXCEPT ![Current] = Failed]
  /\ UNCHANGED <<tvars, sending, asked, due, inbox>>

\* The receive thread throws away what comes while no exchange is under way.
Drain(r) ==
  /\ rx[r] = "loop" /\ running /\ sock # 0 /\ LockFree
  /\ inbox # <<>> /\ inbox' = <<>>
  /\ UNCHANGED <<tvars, sending, holder, asked, result, due>>

-----------------------------------------------------------------------------
(* The device answers a request at any time or never; noise hits a serial  *)
(* line.                                                                   *)

Answer(n) ==
  /\ n \in due /\ due' = due \ {n}
  /\ \E f \in (IF Serial THEN {n, Damaged} ELSE {n}) : inbox' = Append(inbox, f)
  /\ UNCHANGED <<tvars, sending, holder, asked, result>>

\* The receive thread needs the lock to look at the socket.
RxStep(r) ==
  \/ LockFree /\ (RxSeesClose(r) \/ RxFails(r))
  \/ RxReconnects(r) \/ RxGivesUp(r) \/ RxEnds(r)

Moves(Step) == Step /\ Flushed /\ UNCHANGED <<sending, holder, asked, result>>

AppThread == Moves(Dialed("app"))
LoopThread == Moves(LoopStep)
RxThread(r) == Moves(RxStep(r))
Others == Moves(Connect \/ Disconnecting \/ Disconnect \/ PeerChanges \/ ConnectionLost)

Proceeds(c) == Sends(c) \/ SendFails(c) \/ Reads(c) \/ TimesOut(c)

CallerStep(c) == Asks(c) \/ AskFails(c) \/ Proceeds(c)

Next ==
  \/ AppThread \/ LoopThread \/ Others
  \/ \E c \in Callers : CallerStep(c)
  \/ \E r \in Socks : RxThread(r) \/ Drain(r)
  \/ \E n \in Requests : Answer(n)

Spec == Init /\ [][Next]_vars

\* The threads run, an exchange ends; the user, the device and the line are free.
Fairness ==
  /\ WF_vars(AppThread) /\ WF_vars(LoopThread)
  /\ \A r \in Socks : WF_vars(RxThread(r))
  /\ WF_vars(\E c \in Callers : Proceeds(c))

FairSpec == Spec /\ Fairness

-----------------------------------------------------------------------------
(* Properties.                                                             *)

\* A value read for one request comes from the answer to an earlier one only if that
\* one, or one before it, had been given up: two callers never get each other's answer,
\* and no answer is used twice.
AnswersAreOwnOrLate ==
  \A n, m \in Requests :
    /\ result[n] = m /\ m # n => m < n /\ \E k \in 1 .. m : result[k] = Failed
    /\ result[n] \in Requests /\ result[n] = result[m] => n = m

\* A device that was removed is connected again only if, when it was removed, a thread
\* was about to reconnect or a request had been let through and not been sent (then its
\* sendall() fails and reconnects): a receive thread alone never does.
ZombieHasACause == phase = "removed" /\ state = "connected" => left

\* Two threads that connect at a time can leave the client in ERROR over a socket
\* that works; a connection that breaks while the reconnect thread is ending finds
\* it alive and starts no other.  Both are excluded here.
OneDials == ~(dial["app"] # 0 /\ dial["loop"] # 0)
NotOvertaken == loop = "ending" => \A s \in Socks : line[s] # "broken" /\ rx[s] # "failed"

\* With a device that stays up and started, the client ends up connected and
\* stays so, after any reset, refused connection or failed send; not after
\* an orderly close or, on a serial line, after a loss.
Recovers ==
  [](OneDials /\ NotOvertaken) /\ <>[](peer = "up" /\ phase = "started")
    => \/ <>[]IsConnected
       \/ <>[](lastLoss = "fin") \/ <>[](Serial /\ lastLoss = "broken")
       \/ limit > 0

\* README: the gateway reconnects by itself.  Leaving out the two races above,
\* it does not after an orderly close of the peer.
AutoReconnect ==
  [](OneDials /\ NotOvertaken) /\ <>[](peer = "up" /\ phase = "started" /\ dial["app"] = 0)
    => <>[](IsConnected /\ line[sock] = "open")

=============================================================================
