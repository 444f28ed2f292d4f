------------------------------ MODULE Runtime ------------------------------
(***************************************************************************)
(* The life of the process: main.py, GatewayRuntime (core/runtime),        *)
(* Watchdog (utils/watchdog.py), the start and stop of the management API  *)
(* (core/api/server.py) and of the retention thread (core/storage/         *)
(* database.py), and the settings page that reconfigures them.             *)
(*                                                                         *)
(* Three kinds of threads: the Qt thread, the watchdog's checkers, and the *)
(* retention threads ("keepers").  The Qt thread and every checker may run *)
(* cleanup(); `at` is where each of them is in it.                         *)
(***************************************************************************)
EXTENDS Integers, FiniteSets

CONSTANTS
  Devices,     \* configured devices
  Checkers,    \* bound: watchdog threads ever started
  Keepers,     \* bound: retention threads ever started
  Timeout      \* heartbeat_timeout, in units of the wait for one device

ASSUME RuntimeAssumption ==
  /\ Timeout \in Nat \ {0} /\ "qt" \notin Checkers /\ "none" \notin Keepers
  /\ IsFiniteSet(Devices) /\ IsFiniteSet(Checkers) /\ IsFiniteSet(Keepers)

VARIABLES
  qt,          \* what the Qt thread does
  alive,       \* the process runs
  runtime,     \* main.runtime is set
  started, stopped,   \* _started, _stopped
  api,         \* "off", "serving" (not yet stored), "stored", "taken" by a stop()
  toStart,     \* devices start_all() has still to start
  collecting,  \* devices whose collector runs
  worker,      \* the upload worker runs
  at,          \* thread -> its place in cleanup(), "-" when it is not there
  dog,         \* checker -> "new", "asleep", "ended"
  watching,    \* Watchdog._enabled and _running, which change together
  silence,     \* time since the last heartbeat
  keeper,      \* keeper -> "new", "busy" (deleting), "waits", "ended"
  current,     \* the keeper in _maintenance_thread, "none" if there is none
  stopKeeping, \* _maintenance_stop is set
  log          \* history: see InitLog

shut == <<runtime, started, stopped, at>>
services == <<api, collecting, worker>>
watchdog == <<dog, watching, silence>>
maintenance == <<keeper, current, stopKeeping>>
vars == <<qt, alive, toStart, shut, services, watchdog, maintenance, log>>

Cleaners == {"qt"} \cup Checkers

\* failed: services whose stop raised.  met: two threads were in cleanup() at a time,
\* or it met the start of the devices or a change of the settings.  twice: the watchdog was enabled again before an
\* older checker had ended.  outlived: a keeper was still deleting when the wait for it
\* ended.  slow: devices that made the Qt thread wait since the last heartbeat.
InitLog == [failed |-> {}, met |-> FALSE, twice |-> FALSE, outlived |-> FALSE,
            slow |-> 0, hung |-> FALSE, falseAlarm |-> FALSE, restarts |-> 0]

Init ==
  /\ qt = "boot" /\ alive = TRUE /\ runtime = FALSE /\ started = FALSE /\ stopped = FALSE
  /\ api = "off" /\ toStart = {} /\ collecting = {} /\ worker = FALSE
  /\ at = [t \in Cleaners |-> "-"]
  /\ dog = [c \in Checkers |-> "new"] /\ watching = FALSE
  /\ silence = Timeout + 1
  /\ keeper = [k \in Keepers |-> "new"] /\ current = "none" /\ stopKeeping = FALSE
  /\ log = InitLog

Places == {"-", "check", "enter", "api", "devices", "cache", "db", "clear", "raise", "out"}

TypeOK ==
  /\ qt \in {"boot", "api", "window", "collect", "loop", "hung", "dead", "closing", "exit"}
  /\ alive \in BOOLEAN /\ runtime \in BOOLEAN /\ started \in BOOLEAN /\ stopped \in BOOLEAN
  /\ worker \in BOOLEAN /\ watching \in BOOLEAN /\ stopKeeping \in BOOLEAN
  /\ api \in {"off", "serving", "stored", "taken"}
  /\ toStart \subseteq Devices /\ collecting \subseteq Devices
  /\ at \in [Cleaners -> Places]
  /\ dog \in [Checkers -> {"new", "asleep", "ended"}]
  /\ silence \in Nat
  /\ keeper \in [Keepers -> {"new", "busy", "waits", "ended"}]
  /\ current \in {"none"} \cup Keepers
  /\ log \in [failed : SUBSET {"api", "devices"}, met : BOOLEAN, twice : BOOLEAN,
              outlived : BOOLEAN, slow : Nat, hung : BOOLEAN, falseAlarm : BOOLEAN,
              restarts : Nat]

-----------------------------------------------------------------------------
(* The retention thread.                                                   *)

Fresh(threads) == {i \in DOMAIN threads : threads[i] = "new"}
Lives(k) == keeper[k] \in {"busy", "waits"}

\* start_maintenance(): not while the current thread lives; it starts to delete at once.
StartMaintenance(ks, cur, stop) ==
  IF cur # "none" /\ ks[cur] \in {"busy", "waits"}
  THEN keeper' = ks /\ current' = cur /\ stopKeeping' = stop
  ELSE /\ Fresh(ks) # {} /\ current' = (CHOOSE k \in Fresh(ks) : TRUE)
       /\ keeper' = [ks EXCEPT ![current'] = "busy"] /\ stopKeeping' = FALSE

\* stop_maintenance(): the thread ends at the event, unless it is deleting and the
\* join gives up on it.  Outlived is a thread that goes on.
Waited(cur) == [k \in Keepers |-> IF k = cur /\ Lives(k) THEN "ended" ELSE keeper[k]]
GivenUp(cur) == cur # "none" /\ keeper[cur] = "busy"

StopMaintenance ==
  /\ stopKeeping' = TRUE /\ current' = "none"
  /\ \/ keeper' = Waited(current) /\ UNCHANGED log
     \/ GivenUp(current) /\ keeper' = keeper /\ log' = [log EXCEPT !.outlived = TRUE]

\* Mutant: saving the settings does not wait for the thread, and revives it.
SaveSettingsAtOnce ==
  /\ qt = "loop" /\ \E k \in Keepers : keeper[k] = "new"
  /\ StartMaintenance(keeper, "none", TRUE)
  /\ UNCHANGED <<qt, alive, toStart, shut, services, watchdog, log>>

\* _save_settings(): stop, then start with the new number of days; 0 days is no thread.
SaveSettings ==
  /\ qt = "loop"
  /\ \E outlives \in BOOLEAN, days \in BOOLEAN :
       /\ outlives => GivenUp(current)
       /\ log' = [log EXCEPT !.outlived = @ \/ outlives,
                             !.met = @ \/ \E t \in Checkers : at[t] # "-"]
       /\ LET ks == IF outlives THEN keeper ELSE Waited(current)
          IN IF days THEN StartMaintenance(ks, "none", TRUE)
             ELSE keeper' = ks /\ current' = "none" /\ stopKeeping' = TRUE
  /\ UNCHANGED <<qt, alive, toStart, shut, services, watchdog>>

\* One turn of _maintenance_loop().
KeeperStep(k) ==
  /\ \/ keeper[k] = "busy" /\ keeper' = [keeper EXCEPT ![k] = IF stopKeeping THEN "ended" ELSE "waits"]
     \/ keeper[k] = "waits" /\ keeper' = [keeper EXCEPT ![k] = IF stopKeeping THEN "ended" ELSE "busy"]
  /\ UNCHANGED <<qt, alive, toStart, shut, services, watchdog, current, stopKeeping, log>>

-----------------------------------------------------------------------------
(* main(): after the login, the services, the window, the watchdog and the *)
(* devices, each by the Qt thread.                                         *)

ToCleanup(t, place) == at' = [at EXCEPT ![t] = place]

\* start() sets its flags, then starts the retention thread if data is to expire.
RuntimeStart ==
  /\ qt = "boot" /\ runtime' = TRUE /\ started' = TRUE /\ stopped' = FALSE
  /\ StartMaintenance(keeper, current, stopKeeping) \/ UNCHANGED maintenance
  /\ qt' = "api"
  /\ UNCHANGED <<alive, toStart, at, services, watchdog, log>>

\* _start_api(): a server that cannot start leaves the window without the API.
StartApi ==
  /\ qt = "api" /\ api = "off"
  /\ \/ api' = "serving" /\ UNCHANGED qt
     \/ api' = "off" /\ qt' = "window"
  /\ UNCHANGED <<alive, toStart, shut, collecting, worker, watchdog, maintenance, log>>

StoreApi ==
  /\ qt = "api" /\ api = "serving"
  /\ api' = "stored" /\ qt' = "window"
  /\ UNCHANGED <<alive, toStart, shut, collecting, worker, watchdog, maintenance, log>>

\* Any other exception: start() calls stop(), main() exits and atexit cleans up again.
StartFails ==
  /\ qt = "api" /\ api = "off"
  /\ qt' = "closing" /\ ToCleanup("qt", "enter")
  /\ UNCHANGED <<alive, toStart, runtime, started, stopped, services, watchdog, maintenance, log>>

\* enable(): a new heartbeat, and a thread unless _running is still set.
NewChecker ==
  /\ Fresh(dog) # {}
  /\ dog' = [dog EXCEPT ![CHOOSE c \in Fresh(dog) : TRUE] = "asleep"]

Beat == [log EXCEPT !.slow = 0, !.twice = @ \/ (~watching /\ \E c \in Checkers : dog[c] = "asleep")]

\* Mutant: the heartbeat is the one before the login.
EnabledStale ==
  /\ watching' = TRUE /\ UNCHANGED silence /\ log' = Beat
  /\ IF watching THEN UNCHANGED dog ELSE NewChecker

\* Mutant: every call starts a thread.
EnabledAgain ==
  /\ watching' = TRUE /\ silence' = 0 /\ log' = Beat
  /\ NewChecker

\* Mutant: the thread is started once only.
EnabledOnce ==
  /\ watching' = TRUE /\ silence' = 0 /\ log' = Beat
  /\ IF Fresh(dog) # Checkers THEN UNCHANGED dog ELSE NewChecker

Enabled ==
  /\ watching' = TRUE /\ silence' = 0 /\ log' = Beat
  /\ IF watching THEN UNCHANGED dog ELSE NewChecker

StartWatchdog ==
  /\ qt = "window" /\ Enabled
  /\ qt' = "collect"
  /\ toStart' \in {{}, Devices}
  /\ UNCHANGED <<alive, shut, services, maintenance>>

\* start_collection() of a runtime that was stopped meanwhile raises, and main() ends.
CollectionRefused ==
  /\ qt = "collect" /\ (~runtime \/ ~started \/ stopped) /\ collecting = {}
  /\ qt' = "exit" /\ toStart' = {} /\ ToCleanup("qt", "check")
  /\ UNCHANGED <<alive, runtime, started, stopped, services, watchdog, maintenance, log>>

\* start_all(): one device after the other, each may block this thread for a while.
StartDevice(d) ==
  /\ qt = "collect" /\ d \in toStart
  /\ toStart = Devices => runtime /\ started /\ ~stopped
  /\ toStart' = toStart \ {d}
  /\ collecting' = collecting \cup {d} /\ worker' = TRUE
  /\ \E wait \in {0, 1} : silence' = silence + wait /\ log' = [log EXCEPT
       !.slow = @ + wait, !.met = @ \/ \E t \in Checkers : at[t] # "-"]
  /\ UNCHANGED <<qt, alive, shut, api, dog, watching, maintenance>>

AllStarted ==
  /\ qt = "collect" /\ toStart = {} /\ qt' = "loop"
  /\ UNCHANGED <<alive, toStart, shut, services, watchdog, maintenance, log>>

-----------------------------------------------------------------------------
(* The event loop: the heartbeat, the settings page, the end.              *)

Feed ==
  /\ qt = "loop" /\ silence' = 0 /\ log' = [log EXCEPT !.slow = 0]
  /\ UNCHANGED <<qt, alive, toStart, shut, services, dog, watching, maintenance>>

Toggle ==
  /\ qt = "loop"
  /\ \/ Enabled
     \/ watching' = FALSE /\ UNCHANGED <<dog, silence, log>>
  /\ UNCHANGED <<qt, alive, toStart, shut, services, maintenance>>

\* The Qt thread is busy for longer than the watchdog allows, or for good.
Hang ==
  /\ qt = "loop" /\ qt' \in {"hung", "dead"} /\ silence' = Timeout + 1
  /\ log' = [log EXCEPT !.hung = TRUE]
  /\ UNCHANGED <<alive, toStart, shut, services, dog, watching, maintenance>>

Resume ==
  /\ qt = "hung" /\ qt' = "loop"
  /\ UNCHANGED <<alive, toStart, shut, services, watchdog, maintenance, log>>

\* device_manager.stop_all(): collectors, then the worker, then the connections.
StopAll == collecting' = {} /\ worker' = FALSE

\* The user closes the window; main()'s finally runs cleanup().
Close ==
  /\ qt = "loop" /\ StopAll
  /\ qt' = "closing" /\ ToCleanup("qt", "check")
  /\ UNCHANGED <<alive, toStart, runtime, started, stopped, api, watchdog, maintenance, log>>

-----------------------------------------------------------------------------
(* cleanup() and GatewayRuntime.stop(), by any thread.                     *)

Overlap(t) == log.met \/ (\E u \in Cleaners \ {t} : at[u] # "-") \/ qt = "collect"

\* `if runtime:` and `runtime.stop()` read the global twice; the AttributeError in
\* between is caught.
CleanupBegins(t) ==
  /\ at[t] = "check"
  /\ ToCleanup(t, IF runtime THEN "enter" ELSE "out")
  /\ log' = [log EXCEPT !.met = Overlap(t)]
  /\ UNCHANGED <<qt, alive, toStart, runtime, started, stopped, services, watchdog, maintenance>>

\* Under the lock the first stop() takes the API server, another one returns.
StopEnters(t) ==
  /\ at[t] = "enter"
  /\ IF ~runtime \/ stopped
     THEN ToCleanup(t, IF runtime THEN "clear" ELSE "out") /\ UNCHANGED <<stopped, api>>
     ELSE /\ stopped' = TRUE /\ ToCleanup(t, "api")
          /\ api' = IF api = "stored" THEN "taken" ELSE api
  /\ UNCHANGED <<qt, alive, toStart, runtime, started, collecting, worker, watchdog, maintenance, log>>

After(place) == CASE place = "api" -> "devices" [] place = "devices" -> "cache"
                  [] place = "cache" -> "db"    [] place = "db" -> "clear"

\* The effect of each of the four actions; one that raises does no more than it did.
Stops(t) ==
  \/ /\ at[t] = "api"
     /\ \/ api' = (IF api = "taken" THEN "off" ELSE api) /\ UNCHANGED log
        \/ api = "taken" /\ UNCHANGED api /\ log' = [log EXCEPT !.failed = @ \cup {"api"}]
     /\ UNCHANGED <<collecting, worker, maintenance>>
  \/ /\ at[t] = "devices"
     /\ \/ StopAll /\ UNCHANGED log
        \/ UNCHANGED <<collecting, worker>> /\ log' = [log EXCEPT !.failed = @ \cup {"devices"}]
     /\ UNCHANGED <<api, maintenance>>
  \/ at[t] = "cache" /\ worker' = FALSE /\ UNCHANGED <<api, collecting, maintenance, log>>
  \/ at[t] = "db" /\ StopMaintenance /\ UNCHANGED services

\* Mutant: the first exception ends the loop.
StopStepGivesUp(t) ==
  /\ at[t] \in {"api", "devices", "cache", "db"} /\ Stops(t)
  /\ ToCleanup(t, IF log'.failed # {} THEN "out" ELSE After(at[t]))
  /\ UNCHANGED <<qt, alive, toStart, runtime, started, stopped, watchdog>>

\* With errors stop() raises at its end, and cleanup() keeps the runtime.
StopStep(t) ==
  /\ at[t] \in {"api", "devices", "cache", "db"} /\ Stops(t)
  /\ ToCleanup(t, IF at[t] = "db" /\ log.failed # {} THEN "out" ELSE After(at[t]))
  /\ UNCHANGED <<qt, alive, toStart, runtime, started, stopped, watchdog>>

Cleared(t) ==
  /\ at[t] = "clear" /\ runtime' = FALSE /\ ToCleanup(t, "out")
  /\ UNCHANGED <<qt, alive, toStart, started, stopped, services, watchdog, maintenance, log>>

\* sys.exit() leads to the cleanup() of atexit, and that to the end of the process.
QtExits ==
  /\ at["qt"] = "out"
  /\ IF qt = "closing" THEN qt' = "exit" /\ ToCleanup("qt", "check") /\ UNCHANGED alive
     ELSE alive' = FALSE /\ UNCHANGED <<qt, at>>
  /\ UNCHANGED <<toStart, runtime, started, stopped, services, watchdog, maintenance, log>>

-----------------------------------------------------------------------------
(* The watchdog's checkers.                                                *)

Silent == silence > Timeout

\* A checker wakes up: it ends, sleeps again, or restarts the application.
Wakes(c) ==
  /\ dog[c] = "asleep" /\ at[c] = "-"
  /\ dog' = [dog EXCEPT ![c] = IF watching THEN "asleep" ELSE "ended"]
  /\ IF watching /\ Silent
     THEN ToCleanup(c, "check") /\
          log' = [log EXCEPT !.falseAlarm = @ \/ (~log.hung /\ log.slow <= Timeout)]
     ELSE UNCHANGED <<at, log>>
  /\ UNCHANGED <<qt, alive, toStart, runtime, started, stopped, services,
                 watching, silence, maintenance>>

\* A new process, if it can be started, and os._exit().
Spawns(c) ==
  /\ at[c] = "out" /\ ToCleanup(c, "raise")
  /\ \E n \in {0, 1} : log' = [log EXCEPT !.restarts = @ + n]
  /\ UNCHANGED <<qt, alive, toStart, runtime, started, stopped, services, watchdog, maintenance>>

DogExits(c) ==
  /\ at[c] = "raise" /\ alive' = FALSE
  /\ UNCHANGED <<qt, toStart, shut, services, watchdog, maintenance, log>>

-----------------------------------------------------------------------------
CleanupStep(t) == CleanupBegins(t) \/ StopEnters(t) \/ StopStep(t) \/ Cleared(t)

Startup ==
  \/ RuntimeStart \/ StartApi \/ StoreApi \/ StartFails \/ StartWatchdog
  \/ CollectionRefused \/ AllStarted \/ \E d \in Devices : StartDevice(d)

QtStep == Startup \/ CleanupStep("qt") \/ QtExits

User == Feed \/ Toggle \/ SaveSettings \/ Hang \/ Resume \/ Close

CheckerStep(c) == Wakes(c) \/ CleanupStep(c) \/ Spawns(c) \/ DogExits(c)

Next == alive /\
  ( \/ QtStep \/ User
    \/ \E c \in Checkers : CheckerStep(c)
    \/ \E k \in Keepers : KeeperStep(k) )

Spec == Init /\ [][Next]_vars

\* The watchdog's threads run, whatever the Qt thread does.
FairSpec == Spec /\ \A c \in Checkers : WF_vars(alive /\ CheckerStep(c))

-----------------------------------------------------------------------------
(* Properties.                                                             *)

\* The process never ends with a service running whose stop did not fail, unless two
\* threads cleaned up at a time or a restart met the start of the devices or a change
\* of the settings: a second stop() returns before the first has ended.
ExitIsClean ==
  ~alive => \/ log.met
            \/ /\ api # "off" => "api" \in log.failed
               /\ collecting # {} => "devices" \in log.failed
               /\ ~worker /\ current = "none" /\ stopKeeping

\* Only a Qt thread that hangs, or that waits for more devices in a row than the
\* timeout allows, makes the watchdog restart the application.
NoFalseAlarm == ~log.falseAlarm

\* One restart starts one process, unless the watchdog was disabled and enabled
\* within one check interval and two checkers run.
OneRestart == log.restarts > 1 => log.twice

\* After the settings were saved, a thread with the old retention period goes on only
\* if it was deleting for longer than the wait for it.
OldKeeperHasACause ==
  \A k \in Keepers : Lives(k) /\ k # current => log.outlived

\* A Qt thread that never comes back, with the watchdog on, ends in a restart.
HungIsRestarted == (qt = "dead" /\ watching) ~> ~alive

=============================================================================
