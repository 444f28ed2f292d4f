----------------------------- MODULE MonitorPage -----------------------------
(***************************************************************************)
(* The monitor page (ui/pages/monitor_page.py): a device is chosen in a    *)
(* box, its data and status are shown, and buttons start it, stop it, read *)
(* it once and change its mode.                                            *)
(*                                                                         *)
(* All of it is on the Qt thread, with a timer that shows the device again *)
(* and one that fills the box again while its signals are blocked.  Devices *)
(* come and go meanwhile (device page, import), and collectors read.       *)
(***************************************************************************)
EXTENDS Integers, FiniteSets

CONSTANTS
  Machines,     \* devices
  MaxMonitored  \* bound: what the user does on this page and others

ASSUME MonitorPageAssumption == MaxMonitored \in Nat /\ "none" \notin Machines

NoMachine == "none"
Modes == {"timer", "trigger", "manual", "continuous"}
Offered == {"timer", "continuous"}     \* the items of _mode_combo
Readings == {"waiting", "value", "failed"}

VARIABLES
  configured,  \* config_manager.devices
  collectors,  \* devices that have a collector
  modeOf,      \* of each device: the mode of its collector
  latestOf,    \* of each device: the latest reading of its collector
  boxed,       \* the items of _device_combo
  picked,      \* and the current one
  info,        \* the device whose name and address are shown
  panel,       \* the device whose status and readings are shown, and the reading
  modeBox,     \* what _mode_combo shows
  touched,     \* history: the mode was changed since it was last shown
  monitored    \* bound: gestures so far

backend == <<configured, collectors, modeOf, latestOf>>
monitorVars == <<backend, boxed, picked, info, panel, modeBox, touched, monitored>>

Does == monitored < MaxMonitored /\ monitored' = monitored + 1

LatestOf(d) == IF d \in collectors' THEN latestOf'[d] ELSE "waiting"
\* get_device_mode: a device that was never started counts as timed.
ModeOf(d) == IF d \in collectors' THEN modeOf'[d] ELSE "timer"

-----------------------------------------------------------------------------
\* _refresh_monitor for device d.  The name of a device that is gone is not replaced;
RefreshMonitor(d) ==
  IF d = NoMachine THEN info' = NoMachine /\ panel' = [dev |-> NoMachine, reads |-> "waiting"]
  ELSE /\ info' = IF d \in configured' THEN d ELSE info
       /\ panel' = [dev |-> d, reads |-> IF d \in configured' THEN LatestOf(d) ELSE "waiting"]

\* _sync_mode_combo: a mode that the box does not offer leaves it as it is.
SyncModeCombo(d) ==
  /\ modeBox' = IF d # NoMachine /\ ModeOf(d) \in Offered THEN ModeOf(d) ELSE modeBox
  /\ touched' = IF d = NoMachine THEN touched ELSE FALSE

TicksMonitor ==
  /\ UNCHANGED <<backend, boxed, picked, modeBox, touched, monitored>>
  /\ RefreshMonitor(picked)

\* _refresh_device_list: the device stays chosen if it is still there.
Refills ==
  /\ boxed' = configured /\ picked' = IF picked \in configured THEN picked ELSE NoMachine
  /\ UNCHANGED <<backend, monitored>>
  /\ RefreshMonitor(picked') /\ SyncModeCombo(picked')

Picks(d) ==
  /\ Does /\ d \in (boxed \cup {NoMachine}) \ {picked} /\ picked' = d
  /\ UNCHANGED <<backend, boxed>>
  /\ RefreshMonitor(d) /\ SyncModeCombo(d)

\* _start_device, _stop_device and _manual_trigger: a device that cannot be started, or a user
\* who may not, changes nothing; a new collector has the mode of the one before.
Starts ==
  /\ Does /\ picked # NoMachine
  /\ \/ picked \in configured /\ collectors' = collectors \cup {picked}
        /\ latestOf' = [latestOf EXCEPT ![picked] = "waiting"] /\ touched' = TRUE
     \/ UNCHANGED <<collectors, latestOf, touched>>
  /\ UNCHANGED <<configured, modeOf, boxed, picked, modeBox>>
  /\ RefreshMonitor(picked)

Stops ==
  /\ Does /\ picked # NoMachine
  /\ UNCHANGED <<backend, boxed, picked, modeBox, touched>>
  /\ RefreshMonitor(picked)

TriggersOnce ==
  /\ Does /\ picked # NoMachine
  /\ \/ picked \in collectors /\ \E r \in {"value", "failed"} : latestOf' = [latestOf EXCEPT ![picked] = r]
     \/ UNCHANGED latestOf
  /\ UNCHANGED <<configured, collectors, modeOf, boxed, picked, modeBox, touched>>
  /\ RefreshMonitor(picked)

\* _on_mode_changed: choosing what the box shows already is no change.
SwitchesMode(m) ==
  /\ Does /\ m # modeBox /\ modeBox' = m
  /\ modeOf' = IF picked \in collectors THEN [modeOf EXCEPT ![picked] = m] ELSE modeOf
  /\ touched' = (touched \/ picked \notin collectors)
  /\ UNCHANGED <<configured, collectors, latestOf, boxed, picked, info, panel>>

-----------------------------------------------------------------------------
\* The collector threads; the other pages add, change and remove devices.
Collects(d) ==
  /\ d \in collectors /\ \E r \in {"value", "failed"} : latestOf' = [latestOf EXCEPT ![d] = r]
  /\ UNCHANGED <<configured, collectors, modeOf, boxed, picked, info, panel, modeBox, touched, monitored>>

Removes(d) ==
  /\ Does /\ d \in configured
  /\ configured' = configured \ {d} /\ collectors' = collectors \ {d}
  /\ touched' = (touched \/ d = picked)
  /\ UNCHANGED <<modeOf, latestOf, boxed, picked, info, panel, modeBox>>

Configures(d) ==
  /\ Does /\ configured' = configured \cup {d} /\ collectors' = collectors \ {d}
  /\ \E m \in Modes : modeOf' = [modeOf EXCEPT ![d] = m]
  /\ touched' = (touched \/ d = picked)
  /\ UNCHANGED <<latestOf, boxed, picked, info, panel, modeBox>>

MonitorInit ==
  /\ configured = Machines /\ collectors = {} /\ modeOf \in [Machines -> Modes]
  /\ latestOf = [d \in Machines |-> "waiting"]
  /\ boxed = Machines /\ picked = NoMachine /\ info = NoMachine
  /\ panel = [dev |-> NoMachine, reads |-> "waiting"] /\ modeBox = "timer"
  /\ touched = FALSE /\ monitored = 0

MonitorStep ==
  \/ TicksMonitor \/ Refills \/ Starts \/ Stops \/ TriggersOnce
  \/ \E d \in Machines \cup {NoMachine} : Picks(d)
  \/ \E m \in Offered : SwitchesMode(m)
  \/ \E d \in Machines : Collects(d) \/ Removes(d) \/ Configures(d)

-----------------------------------------------------------------------------
\* The device the buttons act on is the one whose data and name the page shows, though the box
\* is filled again every three seconds without a signal: the name may be of another device only
\* when the chosen one was removed (monitor_page.py:156-172, 192-195).  The mode shown is the
\* mode of that device unless it was changed elsewhere since, or is one the box does not offer
\* (monitor_page.py:138-146).
ButtonsActOnTheShown ==
  /\ panel.dev = picked
  /\ picked \in configured \cup {NoMachine} => info = picked \/ touched
  /\ picked \in collectors /\ modeOf[picked] \in Offered /\ ~touched => modeBox = modeOf[picked]

=============================================================================
