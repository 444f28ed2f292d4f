------------------------------ MODULE MqttLink ------------------------------
(***************************************************************************)
(* The connection of one device to its broker: class MqttClient of         *)
(* core/mqtt/mqtt_client.py, driven by MqttManager.connect_device() and    *)
(* disconnect_device().                                                    *)
(*                                                                         *)
(* _state and _client are shared, without a lock, by the application       *)
(* thread, by any number of reconnect threads (_reconnect_loop) and by the *)
(* network thread of each paho client, which runs the callbacks.  connect()*)
(* blocks for up to five seconds and is cut here where another thread can  *)
(* matter.  The paho client and the broker are external: a client that     *)
(* loses its connection calls on_disconnect and dials again by itself,     *)
(* until loop_stop().                                                      *)
(***************************************************************************)
EXTENDS Integers, FiniteSets

CONSTANTS
  MaxClients,   \* bound: paho clients alive at a time
  MaxLoops,     \* bound: reconnect threads alive at a time
  SlowConnack   \* may a reachable broker answer later than wait_timeout?

ASSUME LinkAssumption ==
  /\ MaxClients \in Nat \ {0}
  /\ MaxLoops \in Nat
  /\ SlowConnack \in BOOLEAN

VARIABLES
  state,    \* _state
  client,   \* _client: the paho client in use, 0 for None
  net,      \* per paho client: its connection and its network thread
  pc,       \* per thread: where it is; thread 0 is the application
  wanted,   \* the application's last call was connect_device()
  broker    \* the broker: "up", "down" or "refusing"

linkVars == <<state, client, net, pc, wanted, broker>>

App == 0
Loops == 1 .. MaxLoops
Threads == {App} \cup Loops
Clients == 1 .. MaxClients

MqttState == {"disconnected", "connecting", "connected", "reconnecting", "error"}

\* "dialed": CONNECT sent; "dropped", "refused": on_disconnect is due;
\* "notified": inside on_disconnect; "lost": paho is about to dial again.
NetState == {"none", "new", "dialed", "up", "dropped", "refused", "notified", "lost"}
InCallback == {"dropped", "refused", "notified"}

ConnectPC == {"enter", "cleanup", "create", "dial", "poll"}
AppPC == {"idle", "failed", "stopping"} \cup ConnectPC
LoopPC == {"none", "check", "sleep"} \cup ConnectPC

LinkTypeOK ==
  /\ state \in MqttState
  /\ client \in {0} \cup Clients
  /\ net \in [Clients -> NetState]
  /\ pc \in [Threads -> AppPC \cup LoopPC]
  /\ pc[App] \in AppPC /\ \A l \in Loops : pc[l] \in LoopPC
  /\ wanted \in BOOLEAN
  /\ broker \in {"up", "down", "refusing"}

LinkInit ==
  /\ state = "disconnected"
  /\ client = 0
  /\ net = [p \in Clients |-> "none"]
  /\ pc = [t \in Threads |-> IF t = App THEN "idle" ELSE "none"]
  /\ wanted = FALSE
  /\ broker = "down"

-----------------------------------------------------------------------------
(* connect(), in thread t.                                                 *)

Goto(t, from, to) == pc[t] = from /\ pc' = [pc EXCEPT ![t] = to]

\* connect() returns: to connect_device(), which schedules a reconnect after a
\* failure, or to the loop, which ends after a success and tests again else.
Returns(t, from, ok) ==
  Goto(t, from, IF t = App THEN (IF ok THEN "idle" ELSE "failed")
                           ELSE (IF ok THEN "none" ELSE "check"))

AlreadyConnected(t) ==
  /\ state = "connected"
  /\ Returns(t, "enter", TRUE)
  /\ UNCHANGED <<state, client, net, wanted, broker>>

ConnectEnter(t) ==
  /\ state # "connected"
  /\ Goto(t, "enter", "cleanup")
  /\ UNCHANGED <<state, client, net, wanted, broker>>

\* _cleanup_old_client(): loop_stop() joins the network thread, so it waits for
\* a callback that is running; afterwards the old client is silent.
CleanedUp ==
  /\ client # 0 => net[client] \notin InCallback
  /\ net' = [p \in Clients |-> IF p = client THEN "none" ELSE net[p]]

Cleanup(t) ==
  /\ Goto(t, "cleanup", "create")
  /\ CleanedUp
  /\ client' = 0
  /\ UNCHANGED <<state, wanted, broker>>

\* A client that another connect() has put in _client meanwhile is replaced: it
\* is gone if its network thread has not been started, and left running else.
Create(t) ==
  /\ Goto(t, "create", "dial")
  /\ state' = "connecting"
  /\ \E p \in Clients :
       /\ net[p] = "none"
       /\ \A q \in Clients : net[q] = "none" => p <= q
       /\ client' = p
       /\ net' = [q \in Clients |-> IF q = p THEN "new"
                                    ELSE IF net[q] = "new" THEN "none" ELSE net[q]]
  /\ UNCHANGED <<wanted, broker>>

\* self._client.connect() and loop_start(), on whatever client is in _client by
\* now; an unreachable broker, like a _client that is None again, raises.
Dial(t) ==
  /\ client # 0 /\ broker # "down"
  /\ Goto(t, "dial", "poll")
  /\ net' = [net EXCEPT ![client] = IF @ \in InCallback THEN @ ELSE "dialed"]
  /\ UNCHANGED <<state, client, wanted, broker>>

DialRaises(t) ==
  /\ client = 0 \/ broker = "down"
  /\ Returns(t, "dial", FALSE)
  /\ state' = "error"
  /\ UNCHANGED <<client, net, wanted, broker>>

\* The poll loop finds CONNECTED.  The self-test then publishes through
\* _client, which raises if another thread has just set it to None.
PollConnected(t) ==
  /\ state = "connected"
  /\ Returns(t, "poll", client # 0)
  /\ state' = IF client = 0 THEN "error" ELSE state
  /\ UNCHANGED <<client, net, wanted, broker>>

PollError(t) ==
  /\ state = "error"
  /\ Returns(t, "poll", FALSE)
  /\ UNCHANGED <<state, client, net, wanted, broker>>

\* The deadline passes after the last look at _state, whatever it is by now;
\* not, unless SlowConnack, while a broker that is up is about to answer.
AnswerDue ==
  broker = "up" /\ client # 0 /\ (net[client] = "dialed" \/ state = "connected")

PollTimeout(t) ==
  /\ SlowConnack \/ ~AnswerDue
  /\ Returns(t, "poll", FALSE)
  /\ state' = "error"
  /\ UNCHANGED <<client, net, wanted, broker>>

Connecting(t) == pc[t] \in ConnectPC

ConnectStep(t) ==
  \/ AlreadyConnected(t) \/ ConnectEnter(t) \/ Cleanup(t) \/ Create(t)
  \/ Dial(t) \/ DialRaises(t) \/ PollConnected(t) \/ PollError(t) \/ PollTimeout(t)

-----------------------------------------------------------------------------
(* The reconnect threads.                                                  *)

\* _schedule_reconnect(), with what it does to the threads other than those in
\* `moved`.  (A thread between the test and the assignment would only start one
\* more loop, as a later call does as well.)
ScheduleReconnect(moved) ==
  IF state = "reconnecting"
  THEN state' = state /\ pc' = moved
  ELSE /\ state' = "reconnecting"
       /\ \E l \in Loops :
            /\ pc[l] = "none"
            /\ \A k \in Loops : pc[k] = "none" => l <= k
            /\ pc' = [moved EXCEPT ![l] = "check"]

\* Bound: a failure is let in only while a reconnect thread is left for it.
RoomForALoop ==
  Cardinality({l \in Loops : pc[l] = "none"}) >
    Cardinality({p \in Clients : net[p] \in InCallback}) + (IF pc[App] = "idle" THEN 0 ELSE 1)

\* auto_reconnect, which the loop tests first, is on: nothing sets it off while it runs.
LoopGoesOn(l) ==
  /\ state \in {"reconnecting", "error"}
  /\ Goto(l, "check", "sleep")
  /\ UNCHANGED <<state, client, net, wanted, broker>>

\* Mutants: the loop gives up after an attempt that failed; after one whatever
\* the state.
LoopEndsOnError(l) ==
  /\ state # "reconnecting"
  /\ Goto(l, "check", "none")
  /\ UNCHANGED <<state, client, net, wanted, broker>>

LoopEndsAnyway(l) ==
  /\ Goto(l, "check", "none")
  /\ UNCHANGED <<state, client, net, wanted, broker>>

LoopEnds(l) ==
  /\ state \notin {"reconnecting", "error"}
  /\ Goto(l, "check", "none")
  /\ UNCHANGED <<state, client, net, wanted, broker>>

\* After the backoff delay: RECONNECTING, whatever happened meanwhile.
LoopWakes(l) ==
  /\ Goto(l, "sleep", "enter")
  /\ state' = "reconnecting"
  /\ UNCHANGED <<client, net, wanted, broker>>

-----------------------------------------------------------------------------
(* The application: MqttManager.connect_device and disconnect_device.      *)

ConnectDevice ==
  /\ RoomForALoop
  /\ Goto(App, "idle", "enter")
  /\ wanted' = TRUE
  /\ UNCHANGED <<state, client, net, broker>>

ConnectDeviceFailed ==
  /\ pc[App] = "failed"
  /\ ScheduleReconnect([pc EXCEPT ![App] = "idle"])
  /\ UNCHANGED <<client, net, wanted, broker>>

\* disconnect(): the clean-up, then DISCONNECTED; a reconnect thread may act
\* between the two.
DisconnectDevice ==
  /\ Goto(App, "idle", "stopping")
  /\ wanted' = FALSE
  /\ CleanedUp
  /\ client' = 0
  /\ UNCHANGED <<state, broker>>

DisconnectReturns ==
  /\ Goto(App, "stopping", "idle")
  /\ state' = "disconnected"
  /\ UNCHANGED <<client, net, wanted, broker>>

-----------------------------------------------------------------------------
(* The network thread of paho client p, with the callbacks it runs.        *)

OnConnect(p) ==
  /\ net[p] = "dialed" /\ broker = "up"
  /\ net' = [net EXCEPT ![p] = "up"]
  /\ state' = "connected"
  /\ UNCHANGED <<client, pc, wanted, broker>>

OnConnectRefused(p) ==
  /\ net[p] = "dialed" /\ broker = "refusing"
  /\ RoomForALoop
  /\ net' = [net EXCEPT ![p] = "refused"]
  /\ state' = "error"
  /\ UNCHANGED <<client, pc, wanted, broker>>

ConnectionLost(p) ==
  /\ net[p] \in {"dialed", "up"} /\ broker # "up"
  /\ RoomForALoop
  /\ net' = [net EXCEPT ![p] = "dropped"]
  /\ UNCHANGED <<state, client, pc, wanted, broker>>

\* on_disconnect with rc # 0, up to the call of _schedule_reconnect().
OnDisconnect(p) ==
  /\ net[p] \in {"dropped", "refused"}
  /\ net' = [net EXCEPT ![p] = "notified"]
  /\ state' = "disconnected"
  /\ UNCHANGED <<client, pc, wanted, broker>>

OnDisconnectReconnects(p) ==
  /\ net[p] = "notified"
  /\ net' = [net EXCEPT ![p] = "lost"]
  /\ ScheduleReconnect(pc)
  /\ UNCHANGED <<client, wanted, broker>>

\* paho's own reconnection.
PahoRedials(p) ==
  /\ net[p] = "lost" /\ broker # "down"
  /\ net' = [net EXCEPT ![p] = "dialed"]
  /\ UNCHANGED <<state, client, pc, wanted, broker>>

NetworkStep(p) ==
  \/ OnConnect(p) \/ OnConnectRefused(p) \/ ConnectionLost(p)
  \/ OnDisconnect(p) \/ OnDisconnectReconnects(p) \/ PahoRedials(p)

BrokerChanges ==
  /\ \E b \in {"up", "down", "refusing"} : b # broker /\ broker' = b
  /\ UNCHANGED <<state, client, net, pc, wanted>>

LoopStep(l) == LoopGoesOn(l) \/ LoopEnds(l) \/ LoopWakes(l)

LinkNext ==
  \/ ConnectDevice \/ ConnectDeviceFailed \/ DisconnectDevice \/ DisconnectReturns
  \/ \E t \in Threads : ConnectStep(t)
  \/ \E l \in Loops : LoopStep(l)
  \/ \E p \in Clients : NetworkStep(p)
  \/ BrokerChanges

LinkSpec == LinkInit /\ [][LinkNext]_linkVars

\* Every thread that can run does.  A broker that is up answers.
Fairness ==
  /\ \A t \in Threads : WF_linkVars(ConnectStep(t))
  /\ \A l \in Loops : WF_linkVars(LoopStep(l))
  /\ \A p \in Clients : WF_linkVars(NetworkStep(p))
  /\ WF_linkVars(ConnectDeviceFailed) /\ WF_linkVars(DisconnectReturns)

LinkFairSpec == LinkSpec /\ Fairness

-----------------------------------------------------------------------------
(* Properties.                                                             *)

\* RECONNECTING always means that a reconnect thread is at work: the early
\* return of _schedule_reconnect() relies on it.
ReconnectingHasALoop ==
  state = "reconnecting" => \E l \in Loops : pc[l] # "none"

\* With a broker that stays up and answers in time, and a device that stays
\* wanted, the link ends up connected, through the client in use, and remains so,
\* however many reconnect threads earlier outages have left behind.  The code has
\* no lock to keep two threads out of connect(): it is assumed here.
OneConnects == Cardinality({t \in Threads : Connecting(t)}) <= 1

InUse == state = "connected" /\ client # 0 /\ net[client] = "up"

Quiet == broker = "up" /\ wanted /\ pc[App] = "idle"

LinkRecovers == []OneConnects /\ <>[]Quiet => <>[]InUse

=============================================================================
