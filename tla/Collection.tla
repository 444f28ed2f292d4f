----------------------------- MODULE Collection -----------------------------
(***************************************************************************)
(* The collection of one device: DeviceManager (device/device_manager.py), *)
(* CollectorManager and DeviceCollector (core/collector/collector.py).     *)
(*                                                                         *)
(* The Qt thread carries out the user's operations one after the other;    *)
(* start, stop, update and remove are cut where the collector threads can  *)
(* tell.  Every start makes a new DeviceCollector, and its thread never    *)
(* ends: it waits on _running_event, sweeps all points, hands the results  *)
(* to the callbacks and rests.  Collectors are numbered as they are made;  *)
(* the login and the permissions of the user are taken as given.           *)
(***************************************************************************)
EXTENDS Integers, FiniteSets

CONSTANTS
  MaxCollectors,   \* bound: collectors ever made
  Interval,        \* interval_ms, in ticks
  Modes            \* the modes the user switches between

ASSUME CollectionAssumption ==
  /\ MaxCollectors \in Nat
  /\ Interval \in Nat
  /\ Modes \subseteq {"timer", "trigger", "manual", "continuous"}
  /\ "timer" \in Modes

VARIABLES
  configured,  \* the device is in config_manager.devices
  enabled,     \* its `enabled`
  cfgMode,     \* its collect.mode
  runtime,     \* _runtime_status of DeviceManager
  ui,          \* the operation of the Qt thread, and what is left of it
  made,        \* number of collectors made so far
  current,     \* the collector in _collectors, 0 for none
  status,      \* per collector: _status
  event,       \* per collector: _running_event
  client,      \* per collector: its serial or Ethernet client is not None
  mode,        \* per collector: _mode
  pc,          \* per collector: where its thread is, "none" before its start
  age,         \* per collector: ticks since the sweep began, up to Interval
  replaced     \* history: collectors that add_device() replaced while they ran

manager == <<configured, enabled, cfgMode, runtime, ui>>
collectors == <<made, current, status, event, client, mode, replaced>>
threads == <<pc, age>>
vars == <<manager, collectors, threads>>

Collectors == 1 .. MaxCollectors

TypeOK ==
  /\ configured \in BOOLEAN /\ enabled \in BOOLEAN /\ cfgMode \in Modes
  /\ runtime \in {"offline", "collecting", "error", "disabled"}
  /\ ui \in [at: {"idle", "stop", "then", "start"},
             next: {"none", "update", "restart", "remove"}]
  /\ made \in 0 .. MaxCollectors
  /\ current \in 0 .. made
  /\ status \in [Collectors -> {"stopped", "running", "paused"}]
  /\ event \in [Collectors -> BOOLEAN] /\ client \in [Collectors -> BOOLEAN]
  /\ mode \in [Collectors -> Modes]
  /\ pc \in [Collectors -> {"none", "wait", "sweep", "deliver", "rest"}]
  /\ age \in [Collectors -> 0 .. Interval]
  /\ replaced \subseteq 1 .. made

Init ==
  /\ configured = TRUE /\ enabled = TRUE /\ cfgMode = "timer"
  /\ runtime = "offline"
  /\ ui = [at |-> "idle", next |-> "none"]
  /\ made = 0 /\ current = 0
  /\ status = [c \in Collectors |-> "stopped"]
  /\ event = [c \in Collectors |-> FALSE]
  /\ client = [c \in Collectors |-> FALSE]
  /\ mode = [c \in Collectors |-> "timer"]
  /\ pc = [c \in Collectors |-> "none"]
  /\ age = [c \in Collectors |-> 0]
  /\ replaced = {}

-----------------------------------------------------------------------------
(* The operations of the Qt thread.                                        *)

Idle == ui.at = "idle"
Ui(at, next) == ui' = [at |-> at, next |-> next]

\* start_device() and _start_device() up to connect_device(): a new collector
\* takes the place of whichever is there.
MakeCollector ==
  /\ made < MaxCollectors
  /\ made' = made + 1
  /\ current' = made + 1
  /\ replaced' = IF current # 0 /\ event[current] THEN replaced \cup {current} ELSE replaced
  /\ UNCHANGED <<status, event, client, mode>>

StartDevice ==
  /\ Idle /\ configured /\ enabled
  /\ MakeCollector
  /\ Ui("start", "none")
  /\ UNCHANGED <<configured, enabled, cfgMode, runtime, threads>>

StartDisabled ==
  /\ Idle /\ ~(configured /\ enabled)
  /\ runtime # "disabled"
  /\ runtime' = "disabled"
  /\ UNCHANGED <<configured, enabled, cfgMode, ui, collectors, threads>>

\* The rest of _start_device() when the collector connects: DeviceCollector.start().
CollectorStarts ==
  /\ ui.at = "start" /\ Ui("idle", "none")
  /\ status' = [status EXCEPT ![current] = "running"]
  /\ event' = [event EXCEPT ![current] = TRUE]
  /\ client' = [client EXCEPT ![current] = TRUE]
  /\ mode' = [mode EXCEPT ![current] = cfgMode]
  /\ pc' = [pc EXCEPT ![current] = "wait"]
  /\ runtime' = "collecting"
  /\ UNCHANGED <<configured, enabled, cfgMode, made, current, replaced, age>>

\* _connect() may have set the client that did not connect.
LeavesItsClient ==
  /\ client' \in {client, [client EXCEPT ![current] = TRUE]}
  /\ UNCHANGED <<made, current, status, event, mode, replaced>>

\* Mutant: the runtime status is left as it was.
CollectorFailsSilently ==
  /\ ui.at = "start" /\ Ui("idle", "none")
  /\ LeavesItsClient
  /\ UNCHANGED <<configured, enabled, cfgMode, runtime, threads>>

\* It does not connect.
CollectorFails ==
  /\ ui.at = "start" /\ Ui("idle", "none")
  /\ runtime' = "error"
  /\ LeavesItsClient
  /\ UNCHANGED <<configured, enabled, cfgMode, threads>>

\* stop_device(), first of update_device() and remove_device() too: the event and
\* the status of the collector, then its client and the runtime status.
Stop(next) ==
  /\ Idle
  /\ IF current = 0 THEN UNCHANGED <<status, event>>
     ELSE /\ status' = [status EXCEPT ![current] = "stopped"]
          /\ event' = [event EXCEPT ![current] = FALSE]
  /\ Ui("stop", next)
  /\ UNCHANGED <<configured, enabled, cfgMode, runtime, made, current, client, mode,
                 replaced, threads>>

StopReturns ==
  /\ ui.at = "stop"
  /\ client' = IF current = 0 THEN client ELSE [client EXCEPT ![current] = FALSE]
  /\ runtime' = "offline"
  /\ Ui(IF ui.next = "none" THEN "idle" ELSE "then", ui.next)
  /\ UNCHANGED <<configured, enabled, cfgMode, made, current, status, event, mode,
                 replaced, threads>>

StopDevice == Stop("none")

\* update_device(): was_running is read before the stop.
UpdateDevice ==
  /\ configured
  /\ Stop(IF runtime = "collecting" THEN "restart" ELSE "update")

\* The new configuration; the device is started again if it was running.
Updated ==
  /\ ui.at = "then" /\ ui.next \in {"restart", "update"}
  /\ \E on \in BOOLEAN, m \in Modes :
       /\ enabled' = on /\ cfgMode' = m
       /\ IF ui.next = "update"
          THEN Ui("idle", "none") /\ UNCHANGED <<runtime, collectors>>
          ELSE IF on THEN Ui("start", "none") /\ MakeCollector /\ UNCHANGED runtime
          ELSE Ui("idle", "none") /\ runtime' = "disabled" /\ UNCHANGED collectors
  /\ UNCHANGED <<configured, threads>>

\* Mutant: the device is removed without being stopped.
RemoveUnstopped ==
  /\ Idle /\ configured
  /\ Ui("then", "remove")
  /\ UNCHANGED <<configured, enabled, cfgMode, runtime, collectors, threads>>

RemoveDevice == configured /\ Stop("remove")

\* The collector and the configuration go.
Removed ==
  /\ ui.at = "then" /\ ui.next = "remove"
  /\ Ui("idle", "none")
  /\ configured' = FALSE
  /\ current' = 0
  /\ UNCHANGED <<enabled, cfgMode, runtime, made, status, event, client, mode,
                 replaced, threads>>

AddDevice ==
  /\ Idle /\ ~configured
  /\ configured' = TRUE
  /\ runtime' = "offline"
  /\ \E on \in BOOLEAN, m \in Modes : enabled' = on /\ cfgMode' = m
  /\ UNCHANGED <<ui, collectors, threads>>

\* switch_device_mode() also writes the device's configuration.
SwitchMode(m) ==
  /\ Idle /\ current # 0
  /\ mode[current] # m
  /\ mode' = [mode EXCEPT ![current] = m]
  /\ cfgMode' = m
  /\ UNCHANGED <<configured, enabled, runtime, ui, made, current, status, event,
                 client, replaced, threads>>

\* pause_device() and resume_device().
Pause ==
  /\ Idle /\ current # 0
  /\ status[current] = "running"
  /\ status' = [status EXCEPT ![current] = "paused"]
  /\ event' = [event EXCEPT ![current] = FALSE]
  /\ UNCHANGED <<manager, made, current, client, mode, replaced, threads>>

\* Mutant: a collector that was stopped can be resumed.
ResumeAnyway ==
  /\ Idle /\ current # 0
  /\ status[current] # "running"
  /\ status' = [status EXCEPT ![current] = "running"]
  /\ event' = [event EXCEPT ![current] = TRUE]
  /\ UNCHANGED <<manager, made, current, client, mode, replaced, threads>>

Resume ==
  /\ Idle /\ current # 0
  /\ status[current] = "paused"
  /\ status' = [status EXCEPT ![current] = "running"]
  /\ event' = [event EXCEPT ![current] = TRUE]
  /\ UNCHANGED <<manager, made, current, client, mode, replaced, threads>>

UiStep == CollectorStarts \/ CollectorFails \/ StopReturns \/ Updated \/ Removed

UserStep ==
  \/ StartDevice \/ StartDisabled \/ StopDevice \/ UpdateDevice \/ RemoveDevice
  \/ AddDevice \/ Pause \/ Resume \/ \E m \in Modes : SwitchMode(m)

-----------------------------------------------------------------------------
(* The thread of collector c: _collect_loop().                             *)

Goto(c, from, to) == pc[c] = from /\ pc' = [pc EXCEPT ![c] = to]

Wakes(c) ==
  /\ Goto(c, "wait", "sweep")
  /\ event[c]
  /\ age' = [age EXCEPT ![c] = 0]
  /\ UNCHANGED <<manager, collectors>>

\* _collect_all_points(): points that fail, for want of an answer or a client,
\* are results like the others.
Sweeps(c) ==
  /\ Goto(c, "sweep", "deliver")
  /\ UNCHANGED <<manager, collectors, age>>

\* The callbacks, whether the collector has been stopped meanwhile or not.
Delivers(c) ==
  /\ Goto(c, "deliver", "rest")
  /\ UNCHANGED <<manager, collectors, age>>

\* Mutant: an exception ends the thread.
LoopDies(c) ==
  /\ Goto(c, "sweep", "none") \/ Goto(c, "deliver", "none")
  /\ UNCHANGED <<manager, collectors, age>>

\* An exception, as of the pipeline, drops what is left of the sweep.
LoopRaises(c) ==
  /\ Goto(c, "sweep", "wait") \/ Goto(c, "deliver", "wait")
  /\ UNCHANGED <<manager, collectors, age>>

\* Mutant: the rest has no time limit.
RestsForEver(c) ==
  /\ Goto(c, "rest", "wait")
  /\ mode[c] = "continuous" \/ event[c]
  /\ UNCHANGED <<manager, collectors, age>>

\* _running_event.wait(interval) returns at once while the event is set, and after
\* the interval when it is not; a continuous collector does not wait.
Rests(c) ==
  /\ Goto(c, "rest", "wait")
  /\ mode[c] = "continuous" \/ event[c] \/ age[c] = Interval
  /\ UNCHANGED <<manager, collectors, age>>

CollectorStep(c) == Wakes(c) \/ Sweeps(c) \/ Delivers(c) \/ LoopRaises(c) \/ Rests(c)

Tick ==
  /\ \E c \in Collectors : pc[c] # "none" /\ age[c] < Interval
  /\ age' = [c \in Collectors |-> IF pc[c] # "none" /\ age[c] < Interval
                                  THEN age[c] + 1 ELSE age[c]]
  /\ UNCHANGED <<manager, collectors, pc>>

Next == UserStep \/ UiStep \/ Tick \/ \E c \in Collectors : CollectorStep(c)

Spec == Init /\ [][Next]_vars

\* The threads run and time passes; the user does what he likes.
FairSpec ==
  /\ Spec
  /\ WF_vars(UiStep) /\ WF_vars(Tick)
  /\ \A c \in Collectors : WF_vars(CollectorStep(c))

-----------------------------------------------------------------------------
(* Properties.                                                             *)

\* The only way to lose control of a running collector is to start the device
\* again while it runs; no stop, pause, update or removal leaves one behind.
OrphansAreRestarts ==
  \A c \in Collectors : event[c] => c = current \/ c \in replaced

\* What the user is shown as COLLECTING is: the current collector has a thread and
\* was not stopped, even if an update or a failed start came between.
CollectingIsTrue ==
  runtime = "collecting" /\ Idle =>
    current # 0 /\ pc[current] # "none" /\ status[current] # "stopped"

\* A collector that is let run has the client it reads through, whatever pauses,
\* stops and restarts came between.
RunningHasAClient == \A c \in Collectors : event[c] => client[c]

\* A collector that stays stopped ends its last sweep and comes to rest, though
\* its client was taken away in the middle of it.
StoppedComesToRest ==
  \A c \in Collectors : <>[](~event[c]) => <>[](pc[c] \in {"none", "wait"})

\* One that is let run goes on collecting, whatever its sweeps run into.
KeepsCollecting ==
  \A c \in Collectors : <>[](event[c]) => []<>(pc[c] = "sweep")

=============================================================================
