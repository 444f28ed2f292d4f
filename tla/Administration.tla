--------------------------- MODULE Administration ---------------------------
(***************************************************************************)
(* What the user changes, and what a restart finds: ConfigManager          *)
(* (config/config_manager.py) with the secrets of core/security/           *)
(* encryption.py, the operations of DeviceManager (device/                 *)
(* device_manager.py), and the device and settings pages, over Accounts.   *)
(*                                                                         *)
(* A configuration file is opened for writing, which empties it, and then  *)
(* written; the process may end in between.  A password in memory or in a  *)
(* file is its value with the keys it is encrypted under.                  *)
(***************************************************************************)
EXTENDS Accounts, FiniteSets, SequencesExt

CONSTANTS
  Devices,      \* device ids
  MaxChanges    \* bound: changes of accounts and configuration, and failed logins

VARIABLES
  app,        \* app_config: "default" or "set"
  devices,    \* _devices: id -> [ver, pw]
  appFile, devFile,   \* the files: "absent", "torn" or "whole", with what they hold
  saving,     \* files still to write, in order
  opened,     \* the first of them is open and empty
  key,        \* the encryption key of this run of the process
  running,    \* devices whose collector in the table runs
  live,       \* devices whose collector in the table works on the object in _devices
  orphans,    \* devices with a collector that runs and is no longer in the table
  wanted,     \* history: the devices as the user had them saved
  switched,   \* history: devices whose mode was switched since they were saved or read
  wantedApp,  \* history: app_config as the user left it
  changes,    \* bound counter: changes made and logins failed
  cause       \* history: see NoCause

memory == <<app, devices>>
files == <<appFile, devFile, saving, opened>>
collecting == <<running, live, orphans>>
history == <<wanted, switched, wantedApp, changes, cause>>
vars == <<accounts, memory, files, key, collecting, history>>

\* torn: the process ended while a file was empty.  half: an import or an edit failed in
\* the middle.  rekeyed: it was started with another key.  redacted: an export without
\* its secrets was imported.  replaced: an import or a restore put other devices in place
\* since the process started.
NoCause == [torn |-> FALSE, half |-> FALSE, rekeyed |-> FALSE, redacted |-> FALSE, replaced |-> FALSE]

Keys == {"k1", "k2"}
Plain(text) == [text |-> text, under |-> <<>>]
Empty == [d \in {} |-> [ver |-> 0, pw |-> Plain("")]]
Absent == [state |-> "absent", devices |-> Empty, app |-> "default"]
Torn == [state |-> "torn", devices |-> Empty, app |-> "default"]

With(f, d, c) == [e \in DOMAIN f \cup {d} |-> IF e = d THEN c ELSE f[e]]
Without(f, d) == [e \in DOMAIN f \ {d} |-> f[e]]

Init ==
  /\ AccountsInit
  /\ app = "default" /\ devices = Empty /\ appFile = Absent /\ devFile = Absent
  /\ saving = <<>> /\ opened = FALSE /\ key = "k1"
  /\ running = {} /\ live = {} /\ orphans = {}
  /\ wanted = Empty /\ switched = {} /\ wantedApp = "default" /\ changes = 0 /\ cause = NoCause

-----------------------------------------------------------------------------
(* encrypt_secret(), decrypt_secret(), and the two conversions that use them. *)

\* Neither "" nor the mark of a redacted export is encrypted.
Encrypted(pw) ==
  IF pw.text = "s" THEN [pw EXCEPT !.under = Append(@, key)] ELSE pw

\* One layer comes off; under another key the secret is lost.
Decrypted(pw, k) ==
  IF pw.under = <<>> THEN pw
  ELSE IF Last(pw.under) = k THEN [pw EXCEPT !.under = Front(@)] ELSE Plain("")

Protected(f) == [d \in DOMAIN f |-> [f[d] EXCEPT !.pw = Encrypted(@)]]

\* Mutant: the secrets stay as they are in the file.
DecryptedNever(f, k) == f

DecryptedAll(f, k) == [d \in DOMAIN f |-> [f[d] EXCEPT !.pw = Decrypted(@, k)]]

-----------------------------------------------------------------------------
(* Saving, by the thread of the user, who waits for it.                    *)

Counted == changes < MaxChanges /\ changes' = changes + 1
Idle == phase = "up" /\ saving = <<>>

OpenFile ==
  /\ saving # <<>> /\ ~opened /\ opened' = TRUE
  /\ IF Head(saving) = "app" THEN appFile' = Torn /\ UNCHANGED devFile
     ELSE devFile' = Torn /\ UNCHANGED appFile
  /\ UNCHANGED <<accounts, memory, saving, key, collecting, history>>

WriteFile ==
  /\ opened /\ opened' = FALSE /\ saving' = Tail(saving)
  /\ IF Head(saving) = "app"
     THEN appFile' = [state |-> "whole", devices |-> Empty, app |-> app] /\ UNCHANGED devFile
     ELSE devFile' = [state |-> "whole", devices |-> Protected(devices), app |-> "default"]
          /\ UNCHANGED appFile
  /\ UNCHANGED <<accounts, memory, key, collecting, history>>

-----------------------------------------------------------------------------
(* Start and end of the process.                                           *)

NoneCollects == running' = {} /\ live' = {} /\ orphans' = {}

\* _load(): what is absent or cannot be read is the default.  The settings page saves
\* app_config at once when its log level is not the one the page begins with.
Boot ==
  /\ Boots
  /\ key' \in Keys
  /\ app' = (IF appFile.state = "whole" THEN appFile.app ELSE "default")
  /\ devices' = (IF devFile.state = "whole" THEN DecryptedAll(devFile.devices, key') ELSE Empty)
  /\ saving' = <<>> /\ opened' = FALSE /\ NoneCollects /\ switched' = {}
  /\ cause' = [cause EXCEPT !.rekeyed = @ \/ key' # key, !.replaced = FALSE]
  /\ UNCHANGED <<appFile, devFile, wanted, wantedApp, changes>>

Login ==
  /\ \/ (\E n \in Names : LoginSucceeds(n) \/ LoginRefused(n)) /\ UNCHANGED changes
     \/ \E n \in Names : LoginFails(n) /\ Counted
  /\ saving' \in IF phase' = "up" THEN {<<>>, <<"app">>} ELSE {<<>>}
  /\ UNCHANGED <<memory, appFile, devFile, opened, key, collecting, wanted, switched,
                 wantedApp, cause>>

End ==
  /\ Ends
  /\ cause' = [cause EXCEPT !.torn = @ \/ opened \/ saving # <<>>]
  /\ saving' = <<>> /\ opened' = FALSE /\ NoneCollects
  /\ UNCHANGED <<memory, appFile, devFile, key, wanted, switched, wantedApp, changes>>

-----------------------------------------------------------------------------
(* Operations on devices.  Each asks for its permission first.             *)

Counts == Idle /\ Counted

\* Mutant: the change stays in memory.
ChangesDevicesUnsaved(new) ==
  /\ devices' = new /\ wanted' = new /\ switched' = {}
  /\ saving' = <<>>
  /\ UNCHANGED <<phase, left, users, userFile, tries, app, appFile, devFile, opened, key, wantedApp>>

ChangesDevices(new) ==
  /\ devices' = new /\ wanted' = new /\ switched' = {}
  /\ saving' = <<"devices">>
  /\ UNCHANGED <<phase, left, users, userFile, tries, app, appFile, devFile, opened, key, wantedApp>>

AddDevice(d) ==
  /\ Counts /\ Allowed("modify_config")
  /\ d \notin DOMAIN devices
  /\ ChangesDevices(With(devices, d, [ver |-> 0, pw |-> Plain("s")]))
  /\ UNCHANGED <<collecting, cause>>

\* Mutant: the device is not stopped.
RemoveDeviceRunning(d) ==
  /\ Counts /\ Allowed("modify_config")
  /\ d \in DOMAIN devices
  /\ ChangesDevices(Without(devices, d))
  /\ UNCHANGED <<collecting, cause>>

\* stop_device() first, whatever comes of the rest.  It stops the collector in the table,
\* and no other.
RemoveDevice(d) ==
  /\ Counts /\ Allowed("modify_config")
  /\ d \in DOMAIN devices
  /\ running' = running \ {d} /\ live' = live \ {d}
  /\ ChangesDevices(Without(devices, d))
  /\ UNCHANGED <<orphans, cause>>

\* _save_config() of the device page writes into the live device, then update_device()
\* stops it, saves, and starts a new collector if it ran.
UpdateDevice(d) ==
  /\ Counts /\ Allowed("modify_config")
  /\ d \in DOMAIN devices
  /\ ChangesDevices([devices EXCEPT ![d].ver = changes'])
  /\ running' \in {running, running \ {d}}
  /\ live' \in IF d \in running THEN {live, live \cup {d}} ELSE {live}
  /\ d \in running' => d \in live'
  /\ UNCHANGED <<orphans, cause>>

\* A field that is no number raises in the middle: the live device keeps what was
\* written so far, and nothing is saved.
UpdateBreaks(d) ==
  /\ Counts /\ Allowed("modify_config")
  /\ d \in DOMAIN devices
  /\ devices' = [devices EXCEPT ![d].ver = changes']
  /\ cause' = [cause EXCEPT !.half = TRUE]
  /\ UNCHANGED <<phase, left, users, userFile, tries, app, files, key, collecting, wanted, switched,
                 wantedApp>>

\* A new collector takes the place of the one in the table, which goes on if it runs, and
\* starts or, without a connection, does not.
StartDevice(d) ==
  /\ Idle /\ Allowed("control_device")
  /\ d \in DOMAIN devices
  /\ running' \in {running \cup {d}, running \ {d}}
  /\ live' = live \cup {d}
  /\ orphans' = orphans \cup (running \cap {d})
  /\ UNCHANGED <<phase, left, users, userFile, tries, memory, files, key, history>>

StopDevice(d) ==
  /\ Idle /\ Allowed("control_device")
  /\ d \in running /\ running' = running \ {d}
  /\ UNCHANGED <<phase, left, users, userFile, tries, memory, files, key, live, orphans, history>>

\* switch_device_mode() of the monitor page asks for nothing.  It changes the object the
\* collector works on, and saves nothing.
SwitchMode(d) ==
  /\ Counts
  /\ d \in live \cap DOMAIN devices
  /\ devices' = [devices EXCEPT ![d].ver = changes']
  /\ switched' = switched \cup {d}
  /\ UNCHANGED <<accounts, app, files, key, collecting, wanted, wantedApp, cause>>

-----------------------------------------------------------------------------
(* The settings page.                                                      *)

\* The app_config in memory changes, and is saved, twice in a row; the devices are not.
SaveSettings ==
  /\ Counts /\ Allowed("system_settings")
  /\ app' = "set" /\ wantedApp' = "set" /\ saving' = <<"app">>
  /\ UNCHANGED <<phase, left, users, userFile, tries, devices, appFile, devFile, opened, key,
                 collecting, wanted, switched, cause>>

\* A start password that is refused leaves the others in memory, and saves nothing.
SaveSettingsRefused ==
  /\ Counts /\ Allowed("system_settings")
  /\ app' = "set"
  /\ UNCHANGED <<phase, left, users, userFile, tries, devices, files, key, collecting, wanted,
                 switched, wantedApp, cause>>

RestoreDefaults ==
  /\ Counts /\ Allowed("system_settings")
  /\ app' = "default" /\ wantedApp' = "default"
  /\ devices' = Empty /\ wanted' = Empty /\ switched' = {} /\ live' = {}
  /\ cause' = [cause EXCEPT !.replaced = TRUE]
  /\ saving' = <<"app", "devices">>
  /\ UNCHANGED <<phase, left, users, userFile, tries, appFile, devFile, opened, key, running, orphans>>

\* A redacted password is replaced by the one of the device in place, if there is one.
Imported(d, text) ==
  [ver |-> changes', pw |-> IF text = "<redacted>" /\ d \in DOMAIN devices
                            THEN devices[d].pw ELSE Plain(text)]

\* import_config(): all of the file, or only its first devices when one is malformed;
\* then the exception leaves memory as it is and saves nothing.
Import ==
  /\ Counts /\ Allowed("system_settings")
  /\ \E D \in SUBSET Devices, text \in {"s", "<redacted>"}, breaks \in BOOLEAN :
       LET new == [d \in D |-> Imported(d, text)] IN
       /\ app' = "set" /\ devices' = IF breaks THEN new ELSE DecryptedAll(new, key)
       /\ cause' = [cause EXCEPT !.replaced = TRUE, !.half = @ \/ breaks,
                                 !.redacted = @ \/ text = "<redacted>"]
       /\ IF breaks THEN UNCHANGED <<wanted, wantedApp, saving>>
          ELSE wanted' = new /\ wantedApp' = "set" /\ saving' = <<"app", "devices">>
  /\ switched' = {} /\ live' = {}
  /\ UNCHANGED <<phase, left, users, userFile, tries, appFile, devFile, opened, key, running, orphans>>

\* set_level() of the log pages asks for nothing and saves app_config.
SetLevel ==
  /\ Counts
  /\ saving' = <<"app">>
  /\ UNCHANGED <<accounts, memory, appFile, devFile, opened, key, collecting, wanted, switched,
                 wantedApp, cause>>

-----------------------------------------------------------------------------
Sessions ==
  /\ saving = <<>>
  /\ \/ \E n \in Names : RemoveUser(n) /\ Counted
     \/ \E n \in Names, r \in DOMAIN Roles : AddUser(n, r) /\ Counted
     \/ (Refused \/ Logout \/ \E n \in Names : ChangePassword(n)) /\ UNCHANGED changes
  /\ UNCHANGED <<memory, files, key, collecting, wanted, switched, wantedApp, cause>>

Tick == saving = <<>> /\ Passes /\ UNCHANGED <<memory, files, key, collecting, history>>

Operations ==
  \/ SaveSettings \/ SaveSettingsRefused \/ RestoreDefaults \/ Import \/ SetLevel
  \/ \E d \in Devices :
       \/ AddDevice(d) \/ RemoveDevice(d) \/ UpdateDevice(d) \/ UpdateBreaks(d)
       \/ StartDevice(d) \/ StopDevice(d) \/ SwitchMode(d)

Next == Boot \/ Login \/ End \/ Sessions \/ Tick \/ Operations \/ OpenFile \/ WriteFile

Spec == Init /\ [][Next]_vars

-----------------------------------------------------------------------------
(* Properties.                                                             *)

\* When nothing is being saved, a restart finds the devices and the settings that the
\* user saved, and the devices the process works with, unless the process ended while it
\* saved, or an import or an edit broke off.  Only a mode switched on the monitor page is
\* lost, until something else saves the devices.
NothingIsLost ==
  phase = "up" /\ saving = <<>> /\ ~cause.torn /\ ~cause.half =>
    /\ DOMAIN devFile.devices = DOMAIN wanted /\ DOMAIN devices = DOMAIN wanted
    /\ \A d \in DOMAIN wanted : devFile.devices[d].ver = wanted[d].ver
    /\ \A d \in DOMAIN devices \ switched : devFile.devices[d].ver = devices[d].ver
    /\ wantedApp = "set" => appFile.app = "set"

\* The password a device connects with is the one the user gave, encrypted once in the
\* file and plain in memory after any number of saves and restarts, unless the key was
\* changed, a redacted export was imported, or the devices were lost or half imported.
SecretsSurvive ==
  /\ \A d \in DOMAIN devFile.devices :
       LET pw == devFile.devices[d].pw IN pw.text = "s" => Len(pw.under) = 1
  /\ \A d \in DOMAIN devices \cap DOMAIN wanted :
       cause.rekeyed \/ cause.redacted \/ cause.torn \/ cause.half \/ devices[d].pw = wanted[d].pw

\* What is collected is a configured device, under the configuration in force.  There are
\* two exceptions.  An import or a restore of the settings stops no collector.  And a
\* collector that a start of a running device left behind goes on when that device is
\* stopped, changed or removed.
RunningIsConfigured ==
  \A d \in running \cup orphans :
    d \in DOMAIN devices \cap live \/ cause.replaced \/ d \in orphans \ running

=============================================================================
