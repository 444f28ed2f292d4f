--------------------------- MODULE RuntimeProofs ---------------------------
(***************************************************************************)
(* Theorems about the life of the process, for every set of devices,       *)
(* checkers and retention threads and every heartbeat timeout.             *)
(***************************************************************************)
EXTENDS Runtime, TLAPS

Log == [failed : SUBSET {"api", "devices"}, met : BOOLEAN, twice : BOOLEAN,
        outlived : BOOLEAN, slow : Nat, hung : BOOLEAN, falseAlarm : BOOLEAN,
        restarts : Nat]

\* The parts of the type invariant.
QtOK ==
  /\ qt \in {"boot", "api", "window", "collect", "loop", "hung", "dead", "closing", "exit"}
  /\ alive \in BOOLEAN /\ toStart \subseteq Devices

ShutOK ==
  /\ runtime \in BOOLEAN /\ started \in BOOLEAN /\ stopped \in BOOLEAN
  /\ at \in [Cleaners -> Places]

ServicesOK ==
  /\ api \in {"off", "serving", "stored", "taken"}
  /\ collecting \subseteq Devices /\ worker \in BOOLEAN

WatchdogOK ==
  /\ dog \in [Checkers -> {"new", "asleep", "ended"}]
  /\ watching \in BOOLEAN /\ silence \in Nat

KeepersOK ==
  /\ keeper \in [Keepers -> {"new", "busy", "waits", "ended"}]
  /\ current \in {"none"} \cup Keepers /\ stopKeeping \in BOOLEAN

LEMMA TypeParts ==
  TypeOK <=> QtOK /\ ShutOK /\ ServicesOK /\ WatchdogOK /\ KeepersOK /\ log \in Log
BY Zenon DEF TypeOK, QtOK, ShutOK, ServicesOK, WatchdogOK, KeepersOK, Log

LEMMA QtStepOK == QtOK /\ [Next]_vars => QtOK'
<1> SUFFICES ASSUME QtOK, [Next]_vars PROVE QtOK'  OBVIOUS
<1> USE DEF QtOK
<1>1. qt' \in {"boot", "api", "window", "collect", "loop", "hung", "dead", "closing", "exit"}
  BY DEF Next, QtStep, Startup, RuntimeStart, StartApi, StoreApi, StartFails, StartWatchdog,
     CollectionRefused, AllStarted, StartDevice, CleanupStep, CleanupBegins, StopEnters,
     StopStep, Cleared, QtExits, User, Feed, Toggle, SaveSettings, Hang, Resume, Close,
     CheckerStep, Wakes, Spawns, DogExits, KeeperStep, vars
<1>2. toStart' \subseteq Devices
  BY DEF Next, QtStep, Startup, RuntimeStart, StartApi, StoreApi, StartFails, StartWatchdog,
     CollectionRefused, AllStarted, StartDevice, CleanupStep, CleanupBegins, StopEnters,
     StopStep, Cleared, QtExits, User, Feed, Toggle, SaveSettings, Hang, Resume, Close,
     CheckerStep, Wakes, Spawns, DogExits, KeeperStep, vars
<1>3. alive' \in BOOLEAN
  BY Zenon DEF Next, QtStep, Startup, RuntimeStart, StartApi, StoreApi, StartFails, StartWatchdog,
     CollectionRefused, AllStarted, StartDevice, CleanupStep, CleanupBegins, StopEnters,
     StopStep, Cleared, QtExits, User, Feed, Toggle, SaveSettings, Hang, Resume, Close,
     CheckerStep, Wakes, Spawns, DogExits, KeeperStep, vars
<1> QED  BY <1>1, <1>2, <1>3

\* What the helpers of the steps leave: a retention thread started, or waited for.
LEMMA StartMaintenanceOK ==
  ASSUME NEW ks \in [Keepers -> {"new", "busy", "waits", "ended"}],
         NEW cur \in {"none"} \cup Keepers, NEW stop \in BOOLEAN,
         StartMaintenance(ks, cur, stop)
  PROVE  KeepersOK'
<1>1. CASE cur # "none" /\ ks[cur] \in {"busy", "waits"}
  BY <1>1 DEF StartMaintenance, KeepersOK
<1>2. CASE ~(cur # "none" /\ ks[cur] \in {"busy", "waits"})
  <2>1. Fresh(ks) # {} /\ current' = (CHOOSE k \in Fresh(ks) : TRUE)
    BY <1>2 DEF StartMaintenance
  <2>2. current' \in Keepers  BY <2>1 DEF Fresh
  <2>3. keeper' = [ks EXCEPT ![current'] = "busy"] /\ stopKeeping' = FALSE
    BY <1>2 DEF StartMaintenance
  <2> QED  BY <2>2, <2>3 DEF KeepersOK
<1> QED  BY <1>1, <1>2

LEMMA WaitedOK ==
  ASSUME KeepersOK, NEW cur
  PROVE  Waited(cur) \in [Keepers -> {"new", "busy", "waits", "ended"}]
BY DEF KeepersOK, Waited

LEMMA KeepersStepOK == KeepersOK /\ [Next]_vars => KeepersOK'
<1> SUFFICES ASSUME KeepersOK, [Next]_vars PROVE KeepersOK'  OBVIOUS
<1>1. CASE UNCHANGED maintenance
  BY <1>1 DEF KeepersOK, maintenance
<1>2. CASE RuntimeStart
  BY <1>2, StartMaintenanceOK, <1>1 DEF RuntimeStart, KeepersOK
<1>3. CASE SaveSettings
  <2>1. PICK outlives \in BOOLEAN, days \in BOOLEAN :
          LET ks == IF outlives THEN keeper ELSE Waited(current)
          IN IF days THEN StartMaintenance(ks, "none", TRUE)
             ELSE keeper' = ks /\ current' = "none" /\ stopKeeping' = TRUE
    BY <1>3 DEF SaveSettings
  <2> DEFINE ks == IF outlives THEN keeper ELSE Waited(current)
  <2>2. ks \in [Keepers -> {"new", "busy", "waits", "ended"}]
    BY WaitedOK DEF KeepersOK
  <2> HIDE DEF ks
  <2>3. CASE days
    <3>1. StartMaintenance(ks, "none", TRUE)  BY <2>1, <2>3 DEF ks
    <3> QED  BY <3>1, <2>2, StartMaintenanceOK
  <2>4. CASE ~days
    <3>1. keeper' = ks /\ current' = "none" /\ stopKeeping' = TRUE  BY <2>1, <2>4 DEF ks
    <3> QED  BY <3>1, <2>2 DEF KeepersOK
  <2> QED  BY <2>3, <2>4
<1>4. ASSUME NEW t \in Cleaners, StopStep(t) PROVE KeepersOK'
  <2>1. CASE StopMaintenance
    BY <2>1, WaitedOK DEF StopMaintenance, KeepersOK
  <2> QED  BY <2>1, <1>4, <1>1 DEF StopStep, Stops
<1>5. ASSUME NEW k \in Keepers, KeeperStep(k) PROVE KeepersOK'
  BY <1>5 DEF KeeperStep, KeepersOK
<1> QED
  BY <1>1, <1>2, <1>3, <1>4, <1>5 DEF Cleaners, vars, Next, QtStep, Startup, StartApi, StoreApi, StartFails, StartWatchdog,
     CollectionRefused, AllStarted, StartDevice, User, Feed, Toggle, Hang, Resume, Close,
     CleanupStep, CleanupBegins, StopEnters, Cleared, QtExits, CheckerStep, Wakes, Spawns, DogExits,
     maintenance

LEMMA ShutStepOK == ShutOK /\ [Next]_vars => ShutOK'
<1> SUFFICES ASSUME ShutOK, [Next]_vars PROVE ShutOK'  OBVIOUS
<1>1. CASE UNCHANGED shut
  BY <1>1 DEF ShutOK, shut
<1>2. ASSUME NEW t \in Cleaners, CleanupStep(t) PROVE ShutOK'
  BY <1>2 DEF ShutOK, Places, CleanupStep, CleanupBegins, StopEnters, StopStep, Cleared,
     ToCleanup, After
<1>3. CASE QtExits \/ StartFails \/ CollectionRefused \/ Close \/ RuntimeStart
  BY <1>3 DEF ShutOK, Places, Cleaners, QtExits, StartFails, CollectionRefused, Close,
     RuntimeStart, ToCleanup
<1>4. ASSUME NEW c \in Checkers, Wakes(c) \/ Spawns(c) PROVE ShutOK'
  BY <1>4 DEF ShutOK, Places, Cleaners, Wakes, Spawns, ToCleanup
<1> QED
  BY <1>1, <1>2, <1>3, <1>4 DEF Cleaners, vars, Next, QtStep, Startup, StartApi, StoreApi,
     StartWatchdog, AllStarted, StartDevice, User, Feed, Toggle, SaveSettings, Hang, Resume,
     CheckerStep, DogExits, KeeperStep, shut

LEMMA ServicesStepOK == ServicesOK /\ [Next]_vars => ServicesOK'
<1> SUFFICES ASSUME ServicesOK, [Next]_vars PROVE ServicesOK'  OBVIOUS
<1>1. CASE UNCHANGED services
  BY <1>1 DEF ServicesOK, services
<1>2. ASSUME NEW t \in Cleaners, StopEnters(t) \/ StopStep(t) PROVE ServicesOK'
  BY <1>2 DEF ServicesOK, services, StopEnters, StopStep, Stops, StopAll
<1>3. CASE StartApi \/ StoreApi \/ Close
  BY <1>3 DEF ServicesOK, StartApi, StoreApi, Close, StopAll
<1>4. ASSUME NEW d \in Devices, StartDevice(d) PROVE ServicesOK'
  BY <1>4 DEF ServicesOK, StartDevice
<1> QED
  BY <1>1, <1>2, <1>3, <1>4 DEF Cleaners, vars, Next, QtStep, Startup, RuntimeStart, StartFails,
     StartWatchdog, CollectionRefused, AllStarted, User, Feed, Toggle, SaveSettings, Hang, Resume,
     CleanupStep, CleanupBegins, Cleared, QtExits, CheckerStep, Wakes, Spawns, DogExits,
     KeeperStep, services

LEMMA EnabledOK == WatchdogOK /\ Enabled => WatchdogOK'
<1> SUFFICES ASSUME WatchdogOK, Enabled PROVE WatchdogOK'  OBVIOUS
<1>1. watching' \in BOOLEAN /\ silence' \in Nat  BY DEF Enabled
<1>2. dog' = dog \/ NewChecker
  BY Zenon DEF Enabled
<1>3. dog' \in [Checkers -> {"new", "asleep", "ended"}]
  BY <1>2 DEF WatchdogOK, NewChecker, Fresh
<1> QED  BY <1>1, <1>3 DEF WatchdogOK

LEMMA WatchdogStepOK == WatchdogOK /\ [Next]_vars => WatchdogOK'
<1> SUFFICES ASSUME WatchdogOK, [Next]_vars PROVE WatchdogOK'  OBVIOUS
<1> USE RuntimeAssumption
<1>1. CASE UNCHANGED watchdog
  BY <1>1 DEF WatchdogOK, watchdog
<1>2. CASE Enabled
  BY <1>2, EnabledOK
<1>3. CASE Toggle \/ Feed \/ Hang
  <2>1. CASE Toggle  BY <1>2, <2>1 DEF WatchdogOK, Toggle
  <2>2. CASE Feed \/ Hang
    <3>1. watching' = watching /\ dog' = dog /\ silence' \in Nat
      BY <2>2, RuntimeAssumption DEF Feed, Hang
    <3> QED  BY <3>1 DEF WatchdogOK
  <2> QED  BY <1>3, <2>1, <2>2
<1>4. ASSUME NEW d \in Devices, StartDevice(d) PROVE WatchdogOK'
  BY <1>4 DEF WatchdogOK, StartDevice
<1>5. ASSUME NEW c \in Checkers, Wakes(c) PROVE WatchdogOK'
  BY <1>5 DEF WatchdogOK, Wakes
<1> QED
  BY <1>1, <1>2, <1>3, <1>4, <1>5 DEF Cleaners, vars, Next, QtStep, Startup, RuntimeStart, StartApi,
     StoreApi, StartFails, StartWatchdog, CollectionRefused, AllStarted, User, SaveSettings,
     Resume, Close, CleanupStep, CleanupBegins, StopEnters, StopStep, Cleared, QtExits,
     CheckerStep, Spawns, DogExits, KeeperStep, watchdog

\* The entries of the history a step may write.
LEMMA LogUpdates ==
  ASSUME NEW g \in Log, NEW b \in BOOLEAN, NEW c \in BOOLEAN, NEW n \in Nat,
         NEW f \in SUBSET {"api", "devices"}
  PROVE  /\ [g EXCEPT !.failed = f] \in Log
         /\ [g EXCEPT !.met = b] \in Log
         /\ [g EXCEPT !.slow = n, !.twice = b] \in Log
         /\ [g EXCEPT !.slow = n, !.met = b] \in Log
         /\ [g EXCEPT !.outlived = c, !.met = b] \in Log
         /\ [g EXCEPT !.outlived = b] \in Log
         /\ [g EXCEPT !.slow = n] \in Log
         /\ [g EXCEPT !.hung = b] \in Log
         /\ [g EXCEPT !.falseAlarm = b] \in Log
         /\ [g EXCEPT !.restarts = n] \in Log
<1>1. [g EXCEPT !.failed = f] \in Log  BY DEF Log
<1>2. [g EXCEPT !.met = b] \in Log  BY DEF Log
<1>3. [g EXCEPT !.slow = n, !.twice = b] \in Log  BY DEF Log
<1>4. [g EXCEPT !.slow = n, !.met = b] \in Log  BY DEF Log
<1>5. [g EXCEPT !.outlived = c, !.met = b] \in Log  BY DEF Log
<1>6. [g EXCEPT !.outlived = b] \in Log  BY DEF Log
<1>7. [g EXCEPT !.slow = n] \in Log  BY DEF Log
<1>8. [g EXCEPT !.hung = b] \in Log  BY DEF Log
<1>9. [g EXCEPT !.falseAlarm = b] \in Log  BY DEF Log
<1>10. [g EXCEPT !.restarts = n] \in Log  BY DEF Log
<1> QED  BY <1>1, <1>2, <1>3, <1>4, <1>5, <1>6, <1>7, <1>8, <1>9, <1>10

LEMMA LogStepOK == log \in Log /\ [Next]_vars => log' \in Log
<1> SUFFICES ASSUME log \in Log, [Next]_vars PROVE log' \in Log  OBVIOUS
<1>1. CASE UNCHANGED log
  BY <1>1
<1>2. CASE Enabled
  <2> DEFINE b == log.twice \/ (~watching /\ \E c \in Checkers : dog[c] = "asleep")
  <2>1. log' = [log EXCEPT !.slow = 0, !.twice = b]  BY <1>2 DEF Enabled, Beat
  <2>2. b \in BOOLEAN  OBVIOUS
  <2> HIDE DEF b
  <2> QED  BY <2>1, <2>2, LogUpdates
<1>3. CASE Feed \/ Hang
  <2>1. log' = [log EXCEPT !.slow = 0] \/ log' = [log EXCEPT !.hung = TRUE]
    BY <1>3 DEF Feed, Hang
  <2> QED  BY <2>1, LogUpdates
<1>4. CASE SaveSettings
  <2>1. PICK outlives \in BOOLEAN : log' = [log EXCEPT !.outlived = @ \/ outlives,
                                                  !.met = @ \/ \E t \in Checkers : at[t] # "-"]
    BY <1>4 DEF SaveSettings
  <2> DEFINE c == log.outlived \/ outlives
             b == log.met \/ \E t \in Checkers : at[t] # "-"
  <2>2. log' = [log EXCEPT !.outlived = c, !.met = b]  BY <2>1
  <2>3. b \in BOOLEAN /\ c \in BOOLEAN  OBVIOUS
  <2> HIDE DEF b, c
  <2> QED  BY <2>2, <2>3, LogUpdates
<1>5. ASSUME NEW d \in Devices, StartDevice(d) PROVE log' \in Log
  <2>1. PICK wait \in {0, 1} : log' = [log EXCEPT !.slow = @ + wait,
                                              !.met = @ \/ \E t \in Checkers : at[t] # "-"]
    BY <1>5 DEF StartDevice
  <2> DEFINE n == log.slow + wait
             b == log.met \/ \E t \in Checkers : at[t] # "-"
  <2>2. log' = [log EXCEPT !.slow = n, !.met = b]  BY <2>1
  <2>3. b \in BOOLEAN /\ n \in Nat  BY DEF Log
  <2> HIDE DEF b, n
  <2> QED  BY <2>2, <2>3, LogUpdates
<1>6. ASSUME NEW t \in Cleaners, CleanupBegins(t) PROVE log' \in Log
  <2>1. log' = [log EXCEPT !.met = Overlap(t)]  BY <1>6 DEF CleanupBegins
  <2>2. Overlap(t) \in BOOLEAN  BY DEF Overlap
  <2> QED  BY <2>1, <2>2, LogUpdates
<1>7. ASSUME NEW t \in Cleaners, StopStep(t) PROVE log' \in Log
  <2>1. CASE log' = log  BY <2>1
  <2>2. CASE log' = [log EXCEPT !.outlived = TRUE]  BY <2>2, LogUpdates
  <2>3. ASSUME NEW x \in {"api", "devices"}, log' = [log EXCEPT !.failed = @ \cup {x}]
        PROVE  log' \in Log
    <3>1. log.failed \cup {x} \in SUBSET {"api", "devices"}  BY DEF Log
    <3> QED  BY <2>3, <3>1, LogUpdates
  <2> QED  BY <1>7, <2>1, <2>2, <2>3 DEF StopStep, Stops, StopMaintenance
<1>8. ASSUME NEW c \in Checkers, Wakes(c) PROVE log' \in Log
  <2> DEFINE b == log.falseAlarm \/ (~log.hung /\ log.slow <= Timeout)
  <2>1. log' = log \/ log' = [log EXCEPT !.falseAlarm = b]  BY <1>8 DEF Wakes
  <2>2. b \in BOOLEAN  OBVIOUS
  <2> HIDE DEF b
  <2> QED  BY <2>1, <2>2, LogUpdates
<1>9. ASSUME NEW c \in Checkers, Spawns(c) PROVE log' \in Log
  <2>1. PICK n \in {0, 1} : log' = [log EXCEPT !.restarts = @ + n]  BY <1>9 DEF Spawns
  <2>2. log.restarts + n \in Nat  BY DEF Log
  <2> QED  BY <2>1, <2>2, LogUpdates
<1> QED
  BY <1>1, <1>2, <1>3, <1>4, <1>5, <1>6, <1>7, <1>8, <1>9
  DEF Cleaners, vars, Next, QtStep, Startup, RuntimeStart, StartApi,
     StoreApi, StartFails, StartWatchdog, CollectionRefused, AllStarted, User, Toggle,
     Resume, Close, CleanupStep, StopEnters, Cleared, QtExits, CheckerStep, DogExits, KeeperStep

\* Every variable keeps its type.
THEOREM TypeCorrect == Spec => []TypeOK
<1>1. Init => TypeOK
  <2> SUFFICES ASSUME Init PROVE TypeOK  OBVIOUS
  <2>1. log \in Log  BY DEF Init, InitLog, Log
  <2>2. QtOK /\ ShutOK /\ ServicesOK /\ KeepersOK
    BY DEF Init, QtOK, ShutOK, ServicesOK, KeepersOK, Places
  <2>3. WatchdogOK
    <3>1. silence \in Nat  BY RuntimeAssumption DEF Init
    <3>2. dog \in [Checkers -> {"new", "asleep", "ended"}] /\ watching \in BOOLEAN
      BY DEF Init
    <3> QED  BY <3>1, <3>2 DEF WatchdogOK
  <2> QED  BY <2>1, <2>2, <2>3, TypeParts
<1>2. TypeOK /\ [Next]_vars => TypeOK'
  <2> SUFFICES ASSUME TypeOK, [Next]_vars PROVE TypeOK'  OBVIOUS
  <2>1. QtOK' /\ ShutOK' /\ ServicesOK' /\ WatchdogOK' /\ KeepersOK' /\ log' \in Log
    BY TypeParts, QtStepOK, ShutStepOK, ServicesStepOK, WatchdogStepOK, KeepersStepOK, LogStepOK
  <2> QED  BY <2>1, Zenon DEF TypeOK, QtOK, ShutOK, ServicesOK, WatchdogOK, KeepersOK, Log
<1> QED  BY <1>1, <1>2, PTL DEF Spec

-----------------------------------------------------------------------------
(* The watchdog.                                                           *)

\* While the watchdog watches a thread that did not hang, the silence is that of the
\* devices the thread waited for.
AlarmInv ==
  /\ ~log.falseAlarm
  /\ watching /\ ~log.hung => silence <= log.slow

LEMMA AlarmStep == TypeOK /\ AlarmInv /\ [Next]_vars => AlarmInv'
<1> SUFFICES ASSUME TypeOK, AlarmInv, [Next]_vars PROVE AlarmInv'  OBVIOUS
<1>0. log \in Log /\ silence \in Nat /\ Timeout \in Nat
  BY RuntimeAssumption DEF TypeOK, Log
<1>1. CASE UNCHANGED <<watching, silence, log>>
  BY <1>1 DEF AlarmInv
<1>2. CASE Enabled
  <2>1. watching' = TRUE /\ silence' = 0 /\ log' = Beat  BY <1>2 DEF Enabled
  <2>2. log'.slow = 0 /\ log'.falseAlarm = log.falseAlarm  BY <1>0, <2>1 DEF Log, Beat
  <2> QED  BY <2>1, <2>2 DEF AlarmInv
<1>3. CASE Toggle
  <2>1. CASE watching' = FALSE /\ UNCHANGED <<dog, silence, log>>  BY <2>1 DEF AlarmInv
  <2> QED  BY <1>2, <1>3, <2>1 DEF Toggle
<1>4. CASE Feed
  <2>1. log'.slow = 0 /\ log'.falseAlarm = log.falseAlarm  BY <1>0, <1>4 DEF Log, Feed
  <2> QED  BY <1>4, <2>1 DEF AlarmInv, Feed
<1>5. CASE Hang
  <2>1. log'.hung /\ log'.falseAlarm = log.falseAlarm  BY <1>0, <1>5 DEF Log, Hang
  <2> QED  BY <2>1 DEF AlarmInv
<1>6. ASSUME NEW d \in Devices, StartDevice(d) PROVE AlarmInv'
  <2>1. PICK wait \in {0, 1} :
          /\ silence' = silence + wait
          /\ log' = [log EXCEPT !.slow = @ + wait,
                                !.met = @ \/ \E t \in Checkers : at[t] # "-"]
    BY <1>6 DEF StartDevice
  <2>2. /\ log'.slow = log.slow + wait /\ log.slow \in Nat
        /\ log'.falseAlarm = log.falseAlarm /\ log'.hung = log.hung
    BY <1>0, <2>1 DEF Log
  <2>3. watching' = watching  BY <1>6 DEF StartDevice
  <2> QED  BY <1>0, <2>1, <2>2, <2>3 DEF AlarmInv
<1>7. ASSUME watching' = watching, silence' = silence,
             \/ SaveSettings
             \/ \E t \in Cleaners : CleanupBegins(t) \/ StopStep(t)
             \/ \E c \in Checkers : Spawns(c)
      PROVE  AlarmInv'
  <2>1. /\ log'.slow = log.slow /\ log'.hung = log.hung
        /\ log'.falseAlarm = log.falseAlarm
    BY <1>0, <1>7 DEF Log, SaveSettings, CleanupBegins, StopStep, Stops, StopMaintenance, Spawns
  <2> QED  BY <1>7, <2>1 DEF AlarmInv
<1>8. ASSUME NEW c \in Checkers, Wakes(c) PROVE AlarmInv'
  <2>1. watching' = watching /\ silence' = silence  BY <1>8 DEF Wakes
  <2>2. CASE log' = log  BY <2>1, <2>2 DEF AlarmInv
  <2>3. CASE watching /\ Silent
    <3>1. log.hung \/ Timeout < log.slow
      BY <1>0, <2>3 DEF AlarmInv, Silent, Log
    <3>2. ~(~log.hung /\ log.slow <= Timeout)  BY <1>0, <3>1 DEF Log
    <3>3. log' = [log EXCEPT !.falseAlarm = @ \/ (~log.hung /\ log.slow <= Timeout)]
      BY <1>8, <2>3 DEF Wakes
    <3>4. /\ log'.slow = log.slow /\ log'.hung = log.hung
          /\ log'.falseAlarm <=> log.falseAlarm \/ (~log.hung /\ log.slow <= Timeout)
      BY <1>0, <3>3 DEF Log
    <3> QED  BY <2>1, <3>2, <3>4 DEF AlarmInv
  <2> QED  BY <1>8, <2>2, <2>3 DEF Wakes
<1> QED
  BY <1>1, <1>2, <1>3, <1>4, <1>5, <1>6, <1>7, <1>8
  DEF Cleaners, vars, Next, QtStep, Startup, RuntimeStart, StartApi, StoreApi, StartFails,
     StartWatchdog, CollectionRefused, AllStarted, User, SaveSettings, Resume, Close,
     CleanupStep, CleanupBegins, StopEnters, StopStep, Cleared, QtExits, CheckerStep, Spawns,
     DogExits, KeeperStep, watchdog

\* The watchdog restarts the application only after the Qt thread hung or waited for
\* more devices in a row than the timeout allows (watchdog.py:73).
THEOREM NoRestartWithoutCause == Spec => []NoFalseAlarm
<1>1. Init => AlarmInv  BY DEF Init, InitLog, AlarmInv
<1>2. AlarmInv => NoFalseAlarm  BY DEF AlarmInv, NoFalseAlarm
<1> QED  BY <1>1, <1>2, AlarmStep, TypeCorrect, PTL DEF Spec

\* One checker at a time is awake unless the watchdog was enabled twice, and the one
\* that started a process stays where it is.
RestartInv ==
  /\ \A c \in Checkers : at[c] # "-" => dog[c] = "asleep"
  /\ ~log.twice =>
       /\ \A c, d \in Checkers : dog[c] = "asleep" /\ dog[d] = "asleep" => c = d
       /\ log.restarts # 0 => log.restarts = 1 /\ \E c \in Checkers : at[c] = "raise"

LEMMA RestartStep == TypeOK /\ RestartInv /\ [Next]_vars => RestartInv'
<1> SUFFICES ASSUME TypeOK, RestartInv, [Next]_vars PROVE RestartInv'  OBVIOUS
<1>0. /\ log \in Log /\ at \in [Cleaners -> Places]
      /\ dog \in [Checkers -> {"new", "asleep", "ended"}]
      /\ "qt" \notin Checkers
  BY RuntimeAssumption DEF TypeOK, Log
<1> DEFINE SameLog == log'.twice = log.twice /\ log'.restarts = log.restarts
<1>1. ASSUME SameLog, dog' = dog, \A c \in Checkers : at'[c] = at[c] PROVE RestartInv'
  BY <1>1 DEF RestartInv
<1>2. CASE Enabled /\ at' = at
  <2>1. /\ log'.restarts = log.restarts /\ log.twice \in BOOLEAN
        /\ log'.twice <=> log.twice \/ (~watching /\ \E c \in Checkers : dog[c] = "asleep")
    BY <1>0, <1>2 DEF Log, Enabled, Beat
  <2>2. CASE watching
    <3>1. dog' = dog  BY <1>2, <2>2 DEF Enabled
    <3>2. log'.twice <=> log.twice  BY <2>1, <2>2
    <3> QED  BY <1>2, <2>1, <3>1, <3>2 DEF RestartInv
  <2>3. CASE ~watching
    <3>1. NewChecker  BY <1>2, <2>3 DEF Enabled
    <3>2. PICK n \in Checkers : dog[n] = "new" /\ dog' = [dog EXCEPT ![n] = "asleep"]
      BY <1>0, <3>1 DEF NewChecker, Fresh
    <3>3. \A c \in Checkers : dog'[c] = IF c = n THEN "asleep" ELSE dog[c]
      BY <1>0, <3>2
    <3>4. ~log'.twice => ~log.twice /\ \A c \in Checkers : dog[c] # "asleep"
      BY <2>1, <2>3
    <3> QED  BY <1>2, <2>1, <3>3, <3>4 DEF RestartInv
  <2> QED  BY <2>2, <2>3
<1>3. ASSUME NEW t \in Cleaners, CleanupStep(t) PROVE RestartInv'
  <2>1. SameLog
    BY <1>0, <1>3 DEF Log, CleanupStep, CleanupBegins, StopEnters, StopStep, Stops,
       StopMaintenance, Cleared
  <2>2. dog' = dog
    BY <1>3 DEF CleanupStep, CleanupBegins, StopEnters, StopStep, Cleared, watchdog
  <2>3. PICK p \in Places : at' = [at EXCEPT ![t] = p]
    BY <1>3 DEF CleanupStep, CleanupBegins, StopEnters, StopStep, Cleared, ToCleanup, After, Places
  <2>4. at[t] # "-" /\ at[t] # "raise"
    BY <1>3 DEF CleanupStep, CleanupBegins, StopEnters, StopStep, Cleared
  <2>5. \A c \in Checkers : /\ at'[c] # "-" => at[c] # "-"
                            /\ at[c] = "raise" => at'[c] = "raise"
    BY <1>0, <2>3, <2>4 DEF Cleaners
  <2> QED  BY <2>1, <2>2, <2>5 DEF RestartInv
<1>4. ASSUME NEW c \in Checkers, Wakes(c) PROVE RestartInv'
  <2>1. SameLog  BY <1>0, <1>4 DEF Log, Wakes
  <2>2. dog[c] = "asleep" /\ at[c] = "-"  BY <1>4 DEF Wakes
  <2>3. dog' = [dog EXCEPT ![c] = IF watching THEN "asleep" ELSE "ended"]  BY <1>4 DEF Wakes
  <2>4. at' = at \/ (watching /\ at' = [at EXCEPT ![c] = "check"])  BY <1>4 DEF Wakes, ToCleanup
  <2>5. \A d \in Checkers : /\ d # c => at'[d] = at[d] /\ dog'[d] = dog[d]
                            /\ at'[c] # "-" => dog'[c] = "asleep"
                            /\ dog'[d] = "asleep" => dog[d] = "asleep"
    BY <1>0, <2>2, <2>3, <2>4 DEF Cleaners
  <2> QED  BY <2>1, <2>2, <2>5 DEF RestartInv
<1>5. ASSUME NEW c \in Checkers, Spawns(c) PROVE RestartInv'
  <2>1. PICK n \in {0, 1} : log' = [log EXCEPT !.restarts = @ + n]  BY <1>5 DEF Spawns
  <2>2. log'.twice = log.twice /\ log'.restarts = log.restarts + n /\ log.restarts \in Nat
    BY <1>0, <2>1 DEF Log
  <2>3. at[c] = "out" /\ at' = [at EXCEPT ![c] = "raise"] /\ dog' = dog
    BY <1>5 DEF Spawns, ToCleanup, watchdog
  <2>4. at'[c] = "raise" /\ \A d \in Checkers : d # c => at'[d] = at[d]
    BY <1>0, <2>3 DEF Cleaners
  <2>5. ASSUME ~log.twice PROVE log.restarts = 0
    <3>1. SUFFICES ASSUME NEW d \in Checkers, at[d] = "raise" PROVE FALSE
      BY <2>5 DEF RestartInv
    <3>2. dog[c] = "asleep" /\ dog[d] = "asleep"  BY <2>3, <3>1 DEF RestartInv
    <3> QED  BY <2>3, <2>5, <3>1, <3>2 DEF RestartInv
  <2>6. dog[c] = "asleep"  BY <2>3 DEF RestartInv
  <2> QED  BY <2>2, <2>3, <2>4, <2>5, <2>6 DEF RestartInv
<1>6. CASE Feed \/ Hang \/ SaveSettings \/ \E d \in Devices : StartDevice(d)
  <2>1. SameLog  BY <1>0, <1>6 DEF Log, Feed, Hang, SaveSettings, StartDevice
  <2>2. dog' = dog /\ at' = at
    BY <1>6 DEF Feed, Hang, SaveSettings, StartDevice, shut, watchdog
  <2> HIDE DEF SameLog
  <2> QED  BY <1>1, <2>1, <2>2
<1>7. CASE QtExits \/ StartFails \/ CollectionRefused \/ Close
  <2>1. log' = log /\ dog' = dog
    BY <1>7 DEF QtExits, StartFails, CollectionRefused, Close, watchdog
  <2>2. at' = at \/ \E p \in Places : at' = [at EXCEPT !["qt"] = p]
    BY <1>7 DEF QtExits, StartFails, CollectionRefused, Close, ToCleanup, Places
  <2>3. \A c \in Checkers : at'[c] = at[c]  BY <1>0, <2>2 DEF Cleaners
  <2> QED  BY <1>1, <2>1, <2>3
<1>8. CASE UNCHANGED <<log, dog, at>>
  BY <1>1, <1>8
<1> HIDE DEF SameLog
<1> QED
  BY <1>2, <1>3, <1>4, <1>5, <1>6, <1>7, <1>8
  DEF Cleaners, vars, Next, QtStep, Startup, RuntimeStart, StartApi, StoreApi, StartWatchdog,
     AllStarted, User, Toggle, Resume, CheckerStep, DogExits, KeeperStep, watchdog, shut

\* One restart starts one process, unless two checkers run (watchdog.py:46).
THEOREM RestartsOnce == Spec => []OneRestart
<1>1. Init => RestartInv
  BY DEF Init, InitLog, RestartInv, Cleaners
<1>2. TypeOK /\ RestartInv => OneRestart
  <2> SUFFICES ASSUME TypeOK, RestartInv PROVE OneRestart  OBVIOUS
  <2>1. log.restarts \in Nat  BY DEF TypeOK
  <2> QED  BY <2>1 DEF RestartInv, OneRestart
<1> QED  BY <1>1, <1>2, RestartStep, TypeCorrect, PTL DEF Spec

-----------------------------------------------------------------------------
(* The retention thread.                                                   *)

LEMMA CauseStep == TypeOK /\ OldKeeperHasACause /\ [Next]_vars => OldKeeperHasACause'
<1> SUFFICES ASSUME TypeOK, OldKeeperHasACause, [Next]_vars PROVE OldKeeperHasACause'  OBVIOUS
<1>0. log \in Log /\ KeepersOK /\ "none" \notin Keepers
  BY TypeParts, RuntimeAssumption
<1>1. ASSUME keeper' = keeper, current' = current, log.outlived => log'.outlived
      PROVE  OldKeeperHasACause'
  BY <1>1 DEF OldKeeperHasACause, Lives
<1>2. CASE StopMaintenance
  <2>1. CASE keeper' = Waited(current) /\ UNCHANGED log
    BY <2>1 DEF OldKeeperHasACause, Lives, Waited
  <2>2. CASE GivenUp(current) /\ keeper' = keeper /\ log' = [log EXCEPT !.outlived = TRUE]
    <3>1. log'.outlived  BY <1>0, <2>2 DEF Log
    <3> QED  BY <3>1 DEF OldKeeperHasACause
  <2> QED  BY <1>2, <2>1, <2>2 DEF StopMaintenance
\* A thread is started when the current one is dead, or there is none.
<1>3. ASSUME NEW ks \in [Keepers -> {"new", "busy", "waits", "ended"}],
             NEW cur \in {"none"} \cup Keepers, NEW stop,
             StartMaintenance(ks, cur, stop),
             \A k \in Keepers : ks[k] \in {"busy", "waits"} /\ k # cur => log'.outlived
      PROVE  OldKeeperHasACause'
  <2>1. CASE cur # "none" /\ ks[cur] \in {"busy", "waits"}
    BY <1>3, <2>1 DEF StartMaintenance, OldKeeperHasACause, Lives
  <2>2. CASE ~(cur # "none" /\ ks[cur] \in {"busy", "waits"})
    <3>1. keeper' = [ks EXCEPT ![current'] = "busy"]  BY <1>3, <2>2 DEF StartMaintenance
    <3>2. \A k \in Keepers : Lives(k)' /\ k # current' => ks[k] \in {"busy", "waits"} /\ k # cur
      BY <1>0, <1>3, <2>2, <3>1 DEF Lives
    <3> QED  BY <1>3, <3>2 DEF OldKeeperHasACause
  <2> QED  BY <2>1, <2>2
<1>4. CASE RuntimeStart
  <2>1. log' = log  BY <1>4 DEF RuntimeStart
  <2>2. CASE StartMaintenance(keeper, current, stopKeeping)
    BY <1>0, <1>3, <2>1, <2>2 DEF KeepersOK, OldKeeperHasACause, Lives
  <2> QED  BY <1>1, <1>4, <2>1, <2>2 DEF RuntimeStart, maintenance
<1>5. CASE SaveSettings
  <2>1. PICK outlives \in BOOLEAN, days \in BOOLEAN :
       /\ outlives => GivenUp(current)
       /\ log' = [log EXCEPT !.outlived = @ \/ outlives,
                             !.met = @ \/ \E t \in Checkers : at[t] # "-"]
       /\ LET ks == IF outlives THEN keeper ELSE Waited(current)
          IN IF days THEN StartMaintenance(ks, "none", TRUE)
             ELSE keeper' = ks /\ current' = "none" /\ stopKeeping' = TRUE
    BY <1>5 DEF SaveSettings
  <2>2. log'.outlived <=> log.outlived \/ outlives  BY <1>0, <2>1 DEF Log
  <2> DEFINE ks == IF outlives THEN keeper ELSE Waited(current)
  <2>3. \A k \in Keepers : ks[k] \in {"busy", "waits"} => log'.outlived
    BY <1>0, <2>2 DEF OldKeeperHasACause, Waited, Lives, KeepersOK
  <2>4. ks \in [Keepers -> {"new", "busy", "waits", "ended"}]  BY <1>0, WaitedOK DEF KeepersOK
  <2>5. CASE days
    <3>1. StartMaintenance(ks, "none", TRUE)  BY <2>1, <2>5
    <3> HIDE DEF ks
    <3> QED  BY <1>3, <2>3, <2>4, <3>1
  <2>6. CASE ~days
    <3>1. keeper' = ks  BY <2>1, <2>6
    <3> HIDE DEF ks
    <3> QED  BY <2>3, <3>1 DEF OldKeeperHasACause, Lives
  <2> QED  BY <2>5, <2>6
<1>6. ASSUME NEW k \in Keepers, KeeperStep(k) PROVE OldKeeperHasACause'
  <2>1. current' = current /\ log' = log  BY <1>6 DEF KeeperStep
  <2>2. \A j \in Keepers : Lives(j)' => Lives(j)  BY <1>0, <1>6 DEF KeeperStep, Lives, KeepersOK
  <2> QED  BY <2>1, <2>2 DEF OldKeeperHasACause
<1>7. ASSUME NEW t \in Cleaners, StopStep(t) PROVE OldKeeperHasACause'
  <2>1. CASE StopMaintenance  BY <1>2, <2>1
  <2>2. CASE keeper' = keeper /\ current' = current /\ (log.outlived => log'.outlived)
    BY <1>1, <2>2
  <2> QED  BY <1>0, <1>7, <2>1, <2>2 DEF StopStep, Stops, maintenance, Log
<1>8. CASE UNCHANGED maintenance
  <2>1. log.outlived => log'.outlived
    BY <1>0, <1>8 DEF Log, vars, Next, QtStep, Startup, RuntimeStart, StartApi, StoreApi, StartFails,
       StartWatchdog, CollectionRefused, AllStarted, StartDevice, User, Feed, Toggle, Hang,
       SaveSettings, Resume, Close, CleanupStep, CleanupBegins, StopEnters, StopStep, Stops,
       StopMaintenance, Cleared, QtExits, CheckerStep, Wakes, Spawns, DogExits, KeeperStep,
       Enabled, Beat
  <2> QED  BY <1>1, <1>8, <2>1 DEF maintenance
<1> QED
  BY <1>4, <1>5, <1>6, <1>7, <1>8
  DEF Cleaners, vars, Next, QtStep, Startup, StartApi, StoreApi, StartFails, StartWatchdog,
     CollectionRefused, AllStarted, StartDevice, User, Feed, Toggle, Hang, Resume, Close,
     CleanupStep, CleanupBegins, StopEnters, Cleared, QtExits, CheckerStep, Wakes, Spawns, DogExits,
     maintenance

\* Only a thread that was deleting for longer than the wait for it goes on with the old
\* number of days (database.py:347).
THEOREM OldKeepersHaveACause == Spec => []OldKeeperHasACause
<1>1. Init => OldKeeperHasACause  BY DEF Init, OldKeeperHasACause, Lives
<1> QED  BY <1>1, CauseStep, TypeCorrect, PTL DEF Spec

-----------------------------------------------------------------------------
(* The end of the process.                                                 *)

Inner == Places \ {"-", "check"}
Stopping == {"api", "devices", "cache", "db"}

\* Where the threads can be, whatever has met: the checkers exist once the window does,
\* the Qt thread cleans up at its end, and beyond `enter` the runtime is stopped.
LifeInv ==
  /\ \A c \in Checkers : at[c] # "-" => dog[c] = "asleep"
  /\ qt \in {"boot", "api", "window"} => ~stopped /\ \A c \in Checkers : dog[c] = "new"
  /\ at["qt"] # "-" => qt \in {"closing", "exit"}
  /\ qt # "api" => api # "serving"
  /\ qt # "boot" /\ ~runtime => stopped
  /\ \A t \in Cleaners : at[t] \in Inner \ {"enter"} => stopped

ApiStopped == api # "off" => "api" \in log.failed
DevicesStopped == collecting # {} => "devices" \in log.failed
Clean == ApiStopped /\ DevicesStopped /\ ~worker /\ current = "none" /\ stopKeeping

\* While nothing has met, one thread at most is inside the cleanup; at each place of it
\* what comes before is stopped, and after it everything is.
CleanInv ==
  /\ \A t, u \in Cleaners : at[t] \in Inner /\ at[u] \in Inner => t = u
  /\ qt = "collect" => ~stopped /\ \A t \in Cleaners : at[t] \notin Inner
  /\ qt \in {"loop", "hung", "dead"} /\ stopped => \E c \in Checkers : at[c] \in Inner
  /\ \A t \in Cleaners : /\ at[t] = "api" => api \in {"off", "taken"}
                         /\ at[t] \in {"devices", "cache", "db"} => ApiStopped
                         /\ at[t] \in {"cache", "db"} => DevicesStopped
                         /\ at[t] = "db" => ~worker
  /\ stopped /\ (\A t \in Cleaners : at[t] \notin Stopping) => Clean
  /\ ~alive => Clean

ExitInv == ~log.met => CleanInv

\* Nothing that met is forgotten.
LEMMA MetGrows == log \in Log /\ [Next]_vars /\ log.met => log'.met
<1> SUFFICES ASSUME log \in Log, [Next]_vars, log.met PROVE log'.met  OBVIOUS
<1>1. CASE log' = log  BY <1>1
<1>2. CASE Enabled \/ Feed \/ Hang \/ SaveSettings \/ \E d \in Devices : StartDevice(d)
  BY <1>2 DEF Log, Enabled, Beat, Feed, Hang, SaveSettings, StartDevice
<1>3. ASSUME NEW t \in Cleaners, CleanupBegins(t) \/ StopStep(t) PROVE log'.met
  BY <1>3 DEF Log, CleanupBegins, Overlap, StopStep, Stops, StopMaintenance
<1>4. ASSUME NEW c \in Checkers, Wakes(c) \/ Spawns(c) PROVE log'.met
  BY <1>4 DEF Log, Wakes, Spawns
<1> QED
  BY <1>1, <1>2, <1>3, <1>4 DEF Cleaners, vars, Next, QtStep, Startup, RuntimeStart, StartApi,
     StoreApi, StartFails, StartWatchdog, CollectionRefused, AllStarted, User, Toggle,
     Resume, Close, CleanupStep, StopEnters, Cleared, QtExits, CheckerStep, DogExits, KeeperStep

\* A thread that moves leaves the others where they are.
LEMMA Moved ==
  ASSUME ShutOK, NEW t \in Cleaners, NEW p, ToCleanup(t, p)
  PROVE  \A u \in Cleaners : at'[u] = IF u = t THEN p ELSE at[u]
BY DEF ShutOK, ToCleanup

LEMMA LifeStep == TypeOK /\ LifeInv /\ [Next]_vars => LifeInv'
<1> SUFFICES ASSUME TypeOK, LifeInv, [Next]_vars PROVE LifeInv'  OBVIOUS
<1>0. /\ ShutOK /\ ServicesOK /\ WatchdogOK /\ "qt" \notin Checkers /\ "qt" \in Cleaners
      /\ \A c \in Checkers : c \in Cleaners /\ c # "qt"
  BY TypeParts, RuntimeAssumption DEF Cleaners
<1> USE <1>0 DEF Inner, Places
<1>1. CASE UNCHANGED <<qt, runtime, stopped, at, api, dog>>
  BY <1>1 DEF LifeInv
<1>2. CASE RuntimeStart
  BY <1>2 DEF RuntimeStart, LifeInv, services, watchdog, Cleaners
<1>3. CASE StartApi \/ StoreApi
  BY <1>3 DEF StartApi, StoreApi, LifeInv, shut, watchdog
<1>4. CASE StartFails \/ CollectionRefused \/ Close
  <2>1. PICK p \in {"enter", "check"} : ToCleanup("qt", p)
    BY <1>4 DEF StartFails, CollectionRefused, Close
  <2>2. \A u \in Cleaners : at'[u] = IF u = "qt" THEN p ELSE at[u]  BY <2>1, Moved
  <2>3. /\ runtime' = runtime /\ stopped' = stopped /\ api' = api /\ dog' = dog
        /\ qt' \in {"closing", "exit"} /\ qt # "boot" /\ (p = "enter" => qt = "api" /\ api = "off")
    BY <1>4, <2>1, <2>2 DEF StartFails, CollectionRefused, Close, ToCleanup, ShutOK, services, watchdog
  <2>4. api # "serving"  BY <1>4 DEF StartFails, CollectionRefused, Close, LifeInv
  <2> QED  BY <2>2, <2>3, <2>4 DEF LifeInv
<1>5. CASE Enabled /\ UNCHANGED <<runtime, stopped, at, api>> /\ qt' \in {"collect", "loop"}
                  /\ qt \in {"window", "loop"}
  <2>1. \A c \in Checkers : dog[c] = "asleep" => dog'[c] = "asleep"
    BY <1>5 DEF Enabled, NewChecker, Fresh, WatchdogOK
  <2> QED  BY <1>5, <2>1 DEF LifeInv
<1>6. ASSUME qt' \in {"loop", "hung", "dead", "collect"}, qt \in {"loop", "hung", "dead", "collect"},
             UNCHANGED <<runtime, stopped, at, api, dog>>
      PROVE  LifeInv'
  BY <1>6 DEF LifeInv
<1>7. ASSUME NEW t \in Cleaners, CleanupStep(t) PROVE LifeInv'
  <2>1. PICK p \in Inner : ToCleanup(t, p)
    BY <1>7 DEF CleanupStep, CleanupBegins, StopEnters, StopStep, Cleared, After
  <2>2. \A u \in Cleaners : at'[u] = IF u = t THEN p ELSE at[u]  BY <2>1, Moved
  <2>3. qt' = qt /\ dog' = dog /\ at[t] # "-"
    BY <1>7 DEF CleanupStep, CleanupBegins, StopEnters, StopStep, Cleared, watchdog
  <2>4. qt \notin {"boot", "api", "window"}  BY <2>3 DEF LifeInv, Cleaners
  <2>5. api' # "serving" /\ (stopped => stopped')
    BY <1>7, <2>4 DEF CleanupStep, CleanupBegins, StopEnters, StopStep, Stops, Cleared, LifeInv, services
  <2>6. p # "enter" => stopped'
    <3>1. CASE CleanupBegins(t)
      <4>1. stopped' = stopped /\ at'[t] = IF runtime THEN "enter" ELSE "out"
        BY <3>1, Moved DEF CleanupBegins
      <4> QED  BY <2>2, <2>4, <4>1 DEF LifeInv
    <3>2. CASE StopEnters(t)
      BY <2>4, <3>2 DEF StopEnters, LifeInv
    <3>3. CASE StopStep(t) \/ Cleared(t)
      <4>1. stopped' = stopped /\ at[t] \in Inner \ {"enter"}  BY <3>3 DEF StopStep, Cleared
      <4> QED  BY <4>1 DEF LifeInv
    <3> QED  BY <1>7, <3>1, <3>2, <3>3 DEF CleanupStep
  <2>7. ~runtime' => stopped'
    BY <1>7, <2>4 DEF CleanupStep, CleanupBegins, StopEnters, StopStep, Cleared, LifeInv
  <2> QED  BY <2>2, <2>3, <2>4, <2>5, <2>6, <2>7 DEF LifeInv
<1>8. CASE QtExits
  <2>1. /\ UNCHANGED <<runtime, stopped, api, dog>>
        /\ at["qt"] = "out" /\ qt \in {"closing", "exit"} /\ qt' \in {"closing", "exit"}
    BY <1>8 DEF QtExits, services, watchdog, LifeInv
  <2>2. at' = at \/ ToCleanup("qt", "check")  BY <1>8 DEF QtExits
  <2>3. \A u \in Cleaners : at'[u] = at[u] \/ (u = "qt" /\ at'[u] = "check")
    BY <2>2, Moved
  <2> QED  BY <2>1, <2>3 DEF LifeInv
<1>9. ASSUME NEW c \in Checkers, Wakes(c) \/ Spawns(c) PROVE LifeInv'
  <2>1. /\ UNCHANGED <<qt, runtime, stopped, api>>
        /\ dog[c] = "asleep" /\ \A d \in Checkers : d # c => dog'[d] = dog[d]
    BY <1>9 DEF Wakes, Spawns, services, watchdog, LifeInv, WatchdogOK
  <2>2. at' = at \/ ToCleanup(c, "check") \/ (at[c] = "out" /\ ToCleanup(c, "raise"))
    BY <1>9 DEF Wakes, Spawns
  <2>3. \A u \in Cleaners :
          at'[u] = at[u] \/ (u = c /\ (at'[u] = "check" \/ (at[c] = "out" /\ at'[u] = "raise")))
    <3>0. c \in Cleaners /\ ShutOK  BY <1>0
    <3>1. CASE ToCleanup(c, "check")
      <4>1. \A u \in Cleaners : at'[u] = IF u = c THEN "check" ELSE at[u]  BY <3>0, <3>1, Moved
      <4> QED  BY <4>1
    <3>2. CASE at[c] = "out" /\ ToCleanup(c, "raise")
      <4>1. \A u \in Cleaners : at'[u] = IF u = c THEN "raise" ELSE at[u]  BY <3>0, <3>2, Moved
      <4> QED  BY <3>2, <4>1
    <3>3. CASE at' = at  BY <3>3
    <3> QED  BY <2>2, <3>1, <3>2, <3>3
  <2>4. at'[c] # "-" => dog'[c] = "asleep"
    <3>1. CASE Spawns(c)  BY <2>1, <3>1 DEF Spawns, watchdog
    <3>2. CASE Wakes(c) /\ watching
      <4>1. dog' = [dog EXCEPT ![c] = "asleep"]  BY <3>2 DEF Wakes
      <4> QED  BY <4>1 DEF WatchdogOK
    <3>3. CASE Wakes(c) /\ ~watching
      BY <3>3 DEF Wakes
    <3> QED  BY <1>9, <3>1, <3>2, <3>3
  <2>5. qt \notin {"boot", "api", "window"}  BY <2>1 DEF LifeInv
  <2> QED  BY <2>1, <2>3, <2>4, <2>5 DEF LifeInv
<1> QED
  BY <1>1, <1>2, <1>3, <1>4, <1>5, <1>6, <1>7, <1>8, <1>9
  DEF vars, Next, QtStep, Startup, StartWatchdog, AllStarted, StartDevice, User, Feed, Toggle,
     SaveSettings, Hang, Resume, CheckerStep, DogExits, KeeperStep, shut, services, watchdog, Cleaners

LEMMA ExitStep == TypeOK /\ LifeInv /\ ExitInv /\ Next => ExitInv'
<1> SUFFICES ASSUME TypeOK, LifeInv, ExitInv, Next, ~log'.met PROVE CleanInv'
  BY DEF ExitInv
<1>0. /\ ShutOK /\ ServicesOK /\ "qt" \notin Checkers /\ "qt" \in Cleaners /\ log \in Log
      /\ \A c \in Checkers : c \in Cleaners /\ c # "qt"
  BY TypeParts, RuntimeAssumption DEF Cleaners
<1>1. CleanInv  BY <1>0, MetGrows DEF ExitInv
<1>a. alive  BY DEF Next
<1> USE <1>0, <1>1 DEF Inner, Places, Stopping, ApiStopped, DevicesStopped, Clean
<1> DEFINE Kept == UNCHANGED <<api, collecting, worker, current, stopKeeping>> /\ log'.failed = log.failed
\* Before the window there is nothing to clean up.
<1>2. ASSUME qt \in {"boot", "api", "window"}, at' = at, ~stopped', alive' = alive,
             qt' \in {"api", "window", "collect"}
      PROVE  CleanInv'
  <2>1. \A t \in Cleaners : at[t] = "-"  BY <1>2 DEF LifeInv, Cleaners
  <2> QED  BY <1>a, <1>2, <2>1 DEF CleanInv
<1>3. CASE RuntimeStart \/ StartApi \/ StoreApi \/ StartWatchdog
  <2>1. qt \in {"boot", "api", "window"} /\ at' = at /\ ~stopped' /\ alive' = alive
    BY <1>3 DEF RuntimeStart, StartApi, StoreApi, StartWatchdog, shut, LifeInv
  <2>2. qt' \in {"api", "window", "collect"}
    BY <1>3 DEF RuntimeStart, StartApi, StoreApi, StartWatchdog
  <2> QED  BY <1>2, <2>1, <2>2
<1>4. ASSUME alive' = alive, qt = "collect", stopped' = stopped, at' = at, qt' \in {"collect", "loop"}
      PROVE  CleanInv'
  BY <1>a, <1>4 DEF CleanInv
<1>5. CASE StartFails \/ CollectionRefused
  <2>1. PICK p \in {"enter", "check"} : ToCleanup("qt", p)
    BY <1>5 DEF StartFails, CollectionRefused
  <2>2. \A u \in Cleaners : at'[u] = IF u = "qt" THEN p ELSE at[u]  BY <2>1, Moved
  <2>3. qt' \in {"closing", "exit"} /\ ~stopped' /\ \A t \in Cleaners : t # "qt" => at[t] \notin Inner
    BY <1>5 DEF StartFails, CollectionRefused, LifeInv, CleanInv, Cleaners
  <2>4. alive' = alive
    BY <1>5 DEF StartFails, CollectionRefused
  <2> QED  BY <1>a, <2>2, <2>3, <2>4 DEF CleanInv
\* Nothing the invariant speaks of changes.
<1>6. ASSUME Kept, alive' = alive, stopped' = stopped, at' = at,
             qt' = qt \/ {qt, qt'} \subseteq {"loop", "hung", "dead"}
      PROVE  CleanInv'
  BY <1>6 DEF CleanInv
<1>7. CASE SaveSettings
  <2>1. \A c \in Checkers : at[c] = "-"
    BY <1>7 DEF SaveSettings, Log
  <2>2. /\ qt = "loop" /\ qt' = qt /\ stopped' = stopped /\ at' = at /\ alive' = alive
    BY <1>7 DEF SaveSettings, shut
  <2>3. at["qt"] = "-"  BY <2>2 DEF LifeInv
  <2>4. ~stopped /\ \A t \in Cleaners : at[t] = "-"  BY <2>1, <2>2, <2>3 DEF CleanInv, Cleaners
  <2> QED  BY <1>a, <2>2, <2>4 DEF CleanInv
<1>8. CASE Close
  <2>1. \A u \in Cleaners : at'[u] = IF u = "qt" THEN "check" ELSE at[u]
    BY <1>8, Moved DEF Close
  <2>2. at["qt"] = "-"  BY <1>8 DEF Close, LifeInv
  <2>3. /\ UNCHANGED <<api, current, stopKeeping, log, alive, stopped>>
        /\ collecting' = {} /\ ~worker' /\ qt' = "closing"
    BY <1>8 DEF Close, StopAll, maintenance
  <2> QED  BY <2>1, <2>2, <2>3 DEF CleanInv
<1>9. ASSUME NEW t \in Cleaners, CleanupBegins(t) PROVE CleanInv'
  <2>1. ~Overlap(t)  BY <1>9 DEF CleanupBegins, Log
  <2>2. qt # "collect" /\ \A u \in Cleaners : u # t => at[u] = "-"  BY <2>1 DEF Overlap
  <2>3. PICK p \in {"enter", "out"} : ToCleanup(t, p)  BY <1>9 DEF CleanupBegins
  <2>4. \A u \in Cleaners : at'[u] = IF u = t THEN p ELSE at[u]  BY <2>3, Moved
  <2>5. Kept /\ qt' = qt /\ alive' = alive /\ stopped' = stopped /\ at[t] = "check"
    BY <1>9 DEF CleanupBegins, services, maintenance, Log
  <2> QED  BY <2>2, <2>4, <2>5 DEF CleanInv
<1>10. ASSUME NEW t \in Cleaners, StopEnters(t) PROVE CleanInv'
  <2>1. /\ at[t] = "enter" /\ qt' = qt /\ alive' = alive /\ log' = log
        /\ UNCHANGED <<collecting, worker, current, stopKeeping>>
    BY <1>10 DEF StopEnters, maintenance
  <2>2. qt \notin {"boot", "api", "window", "collect"} /\ api # "serving"
    BY <2>1 DEF LifeInv, CleanInv, Cleaners
  <2>3. \A u \in Cleaners : u # t => at[u] \notin Inner  BY <2>1 DEF CleanInv
  <2>4. CASE ~runtime \/ stopped
    <3>1. stopped /\ stopped' = stopped /\ api' = api  BY <1>10, <2>2, <2>4 DEF StopEnters, LifeInv
    <3>2. PICK p \in {"clear", "out"} : ToCleanup(t, p)  BY <1>10, <2>4 DEF StopEnters
    <3>3. \A u \in Cleaners : at'[u] = IF u = t THEN p ELSE at[u]  BY <3>2, Moved
    <3>4. Clean  BY <2>1, <2>3, <3>1 DEF CleanInv
    <3> QED  BY <1>a, <2>1, <2>2, <2>3, <3>1, <3>3, <3>4 DEF CleanInv
  <2>5. CASE ~(~runtime \/ stopped)
    <3>1. stopped' = TRUE /\ ToCleanup(t, "api") /\ api' \in {"off", "taken"}
      BY <1>10, <2>2, <2>5 DEF StopEnters, ServicesOK
    <3>2. \A u \in Cleaners : at'[u] = IF u = t THEN "api" ELSE at[u]  BY <3>1, Moved
    <3>3. t = "qt" => qt \in {"closing", "exit"}  BY <2>1 DEF LifeInv
    <3> QED  BY <1>a, <2>1, <2>2, <2>3, <3>1, <3>2, <3>3 DEF CleanInv, Cleaners
  <2> QED  BY <2>4, <2>5
<1>11. ASSUME NEW t \in Cleaners, StopStep(t) PROVE CleanInv'
  <2>1. /\ at[t] \in Stopping /\ qt' = qt /\ alive' = alive /\ stopped' = stopped /\ Stops(t)
    BY <1>11 DEF StopStep
  <2>2. PICK p \in {"devices", "cache", "db", "clear", "out"} :
          ToCleanup(t, p) /\ (at[t] # "db" => p = After(at[t])) /\ (at[t] = "db" => p \in {"clear", "out"})
    BY <1>11, <2>1 DEF StopStep, After
  <2>3. \A u \in Cleaners : at'[u] = IF u = t THEN p ELSE at[u]  BY <2>2, Moved
  <2>4. qt # "collect" /\ \A u \in Cleaners : u # t => at[u] \notin Inner
    BY <2>1 DEF CleanInv
  <2>5. /\ qt \in {"loop", "hung", "dead"} => \E c \in Checkers : at'[c] \in Inner
    <3>1. t = "qt" => qt \in {"closing", "exit"}  BY <2>1 DEF LifeInv
    <3> QED  BY <1>a, <2>1, <2>2, <2>3, <3>1 DEF Cleaners
  <2>6. CASE at[t] = "api"
    <3>1. ApiStopped'  BY <2>1, <2>6 DEF Stops, Log, CleanInv
    <3>2. p = "devices"  BY <2>2, <2>6 DEF After
    <3> QED  BY <1>a, <2>1, <2>3, <2>4, <2>5, <3>1, <3>2 DEF CleanInv
  <2>7. CASE at[t] = "devices"
    <3>1. ApiStopped' /\ DevicesStopped'  BY <2>1, <2>7 DEF Stops, StopAll, Log, CleanInv
    <3>2. p = "cache"  BY <2>2, <2>7 DEF After
    <3> QED  BY <1>a, <2>1, <2>3, <2>4, <2>5, <3>1, <3>2 DEF CleanInv
  <2>8. CASE at[t] = "cache"
    <3>1. ApiStopped' /\ DevicesStopped' /\ ~worker'  BY <2>1, <2>8 DEF Stops, Log, CleanInv
    <3>2. p = "db"  BY <2>2, <2>8 DEF After
    <3> QED  BY <1>a, <2>1, <2>3, <2>4, <2>5, <3>1, <3>2 DEF CleanInv
  <2>9. CASE at[t] = "db"
    <3>1. /\ api' = api /\ collecting' = collecting /\ worker' = worker
          /\ current' = "none" /\ stopKeeping' = TRUE /\ log'.failed = log.failed
      BY <2>1, <2>9 DEF Stops, StopMaintenance, services, Log
    <3>2. Clean'  BY <2>1, <2>9, <3>1 DEF CleanInv
    <3>3. p \in {"clear", "out"}  BY <2>2, <2>9
    <3> QED  BY <1>a, <2>1, <2>3, <2>4, <2>5, <3>2, <3>3 DEF CleanInv
  <2> QED  BY <2>1, <2>6, <2>7, <2>8, <2>9
<1>12. ASSUME NEW t \in Cleaners, NEW p \in {"out", "raise"}, ToCleanup(t, p), at[t] \in {"clear", "out"},
              Kept, alive' = alive, stopped' = stopped, qt' = qt
       PROVE  CleanInv'
  <2>1. \A u \in Cleaners : at'[u] = IF u = t THEN p ELSE at[u]  BY <1>12, Moved
  <2>2. \A u \in Cleaners : (at[u] \in Inner <=> at'[u] \in Inner) /\ (at[u] \in Stopping <=> at'[u] \in Stopping)
    BY <1>12, <2>1
  <2>3. \A u \in Cleaners : at'[u] \in Stopping => at'[u] = at[u]  BY <1>12, <2>1
  <2> QED  BY <1>12, <2>2, <2>3 DEF CleanInv
\* The end: whoever ends it has been inside, alone.
<1>13. ASSUME NEW t \in Cleaners, at[t] \in {"out", "raise"} PROVE stopped /\ Clean
  <2>1. stopped  BY <1>13 DEF LifeInv
  <2>2. \A u \in Cleaners : at[u] \notin Stopping  BY <1>13 DEF CleanInv
  <2> QED  BY <2>1, <2>2 DEF CleanInv
<1>14. CASE QtExits
  <2>1. at["qt"] = "out" /\ Kept /\ stopped' = stopped
    BY <1>14 DEF QtExits, services, maintenance
  <2>2. stopped /\ Clean  BY <1>13, <2>1
  <2>3. qt \in {"closing", "exit"} /\ qt' \in {"closing", "exit"}  BY <1>14, <2>1 DEF QtExits, LifeInv
  <2>4. at' = at \/ ToCleanup("qt", "check")  BY <1>14 DEF QtExits
  <2>5. \A u \in Cleaners : at'[u] = at[u] \/ at'[u] = "check"  BY <2>4, Moved
  <2> QED  BY <2>1, <2>2, <2>3, <2>5 DEF CleanInv
<1>15. ASSUME NEW c \in Checkers, DogExits(c) PROVE CleanInv'
  <2>1. at[c] = "raise" /\ Kept /\ stopped' = stopped /\ qt' = qt /\ at' = at
    BY <1>15 DEF DogExits, shut, services, maintenance
  <2>2. stopped /\ Clean  BY <1>13, <2>1
  <2> QED  BY <2>1, <2>2 DEF CleanInv
<1>16. ASSUME NEW c \in Checkers, Wakes(c) PROVE CleanInv'
  <2>1. Kept /\ alive' = alive /\ stopped' = stopped /\ qt' = qt /\ at[c] = "-"
    BY <1>16 DEF Wakes, services, maintenance, Log
  <2>2. at' = at \/ ToCleanup(c, "check")  BY <1>16 DEF Wakes
  <2>3. \A u \in Cleaners : at'[u] = at[u] \/ (u = c /\ at'[u] = "check")  BY <2>2, Moved
  <2> QED  BY <2>1, <2>3 DEF CleanInv
<1>17. ASSUME NEW c \in Checkers, Spawns(c) PROVE CleanInv'
  <2>1. Kept /\ alive' = alive /\ stopped' = stopped /\ qt' = qt /\ at[c] = "out" /\ ToCleanup(c, "raise")
    BY <1>17 DEF Spawns, services, maintenance, Log
  <2> QED  BY <1>12, <2>1
<1>18. ASSUME NEW t \in Cleaners, Cleared(t) PROVE CleanInv'
  <2>1. Kept /\ alive' = alive /\ stopped' = stopped /\ qt' = qt /\ at[t] = "clear" /\ ToCleanup(t, "out")
    BY <1>18 DEF Cleared, services, maintenance
  <2> QED  BY <1>12, <2>1
<1>19. CASE AllStarted \/ \E d \in Devices : StartDevice(d)
  <2>1. alive' = alive /\ qt = "collect" /\ stopped' = stopped /\ at' = at /\ qt' \in {"collect", "loop"}
    BY <1>19 DEF AllStarted, StartDevice, shut
  <2> QED  BY <1>4, <2>1
<1>20. CASE Feed \/ Toggle \/ Hang \/ Resume \/ (\E k \in Keepers : KeeperStep(k))
  <2>1. UNCHANGED <<api, collecting, worker, current, stopKeeping, alive, stopped, at>>
    BY <1>20 DEF Feed, Toggle, Hang, Resume, KeeperStep, shut, services, maintenance
  <2>2. log'.failed = log.failed
    BY <1>20 DEF Feed, Toggle, Hang, Resume, KeeperStep, Log, Enabled, Beat
  <2>3. qt' = qt \/ {qt, qt'} \subseteq {"loop", "hung", "dead"}
    BY <1>20 DEF Feed, Toggle, Hang, Resume, KeeperStep
  <2> QED  BY <1>6, <2>1, <2>2, <2>3
<1> HIDE <1>0, <1>1 DEF Inner, Places, Stopping, ApiStopped, DevicesStopped, Clean, Kept
<1> QED
  BY <1>0, <1>3, <1>5, <1>7, <1>8, <1>9, <1>10, <1>11, <1>14, <1>15, <1>16, <1>17, <1>18, <1>19, <1>20
  DEF Next, QtStep, Startup, CleanupStep, User, CheckerStep, Cleaners

\* The process never ends with a service running whose stop did not fail, unless two
\* threads cleaned up at a time or a restart met the start or the settings (main.py:44).
THEOREM ExitsClean == Spec => []ExitIsClean
<1>1. Init => LifeInv /\ ExitInv
  BY DEF Init, InitLog, LifeInv, ExitInv, CleanInv, Inner, Cleaners
<1>2. ExitInv => ExitIsClean
  BY DEF ExitInv, CleanInv, Clean, ApiStopped, DevicesStopped, ExitIsClean
<1>3. TypeOK /\ LifeInv /\ ExitInv /\ [Next]_vars => ExitInv'
  <2>1. ExitInv /\ UNCHANGED vars => ExitInv'
    BY DEF ExitInv, CleanInv, Clean, ApiStopped, DevicesStopped, vars, shut, services, maintenance
  <2> QED  BY <2>1, ExitStep
<1> QED  BY <1>1, <1>2, <1>3, LifeStep, TypeCorrect, PTL DEF Spec

=============================================================================
