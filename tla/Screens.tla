------------------------------- MODULE Screens -------------------------------
(***************************************************************************)
(* What the gateway shows: its history of readings, its live pages, the    *)
(* page a device is run from, its log, what it hears from a broker, and    *)
(* its status in a browser.  They share no state, so each is observed by   *)
(* itself.                                                                 *)
(***************************************************************************)
EXTENDS Records, Pages, MonitorPage, LogPage, DebugPage, WebMonitor

VARIABLE view

screens == <<recordsVars, pagesVars, monitorVars, logVars, debugVars, webVars>>

\* What is not observed starts in one way only.
ScreensInit ==
  /\ view \in {"records", "pages", "monitor", "log", "debug", "web"}
  /\ RecordsInit /\ PagesInit /\ MonitorInit /\ LogInit /\ DebugInit /\ WebInit
  /\ view = "records" \/ size = CHOOSE n \in PageSizes : TRUE
  /\ view = "pages" \/ page["dash"].dev = CHOOSE d \in Sources : TRUE
  /\ view = "monitor" \/ modeOf = [d \in Machines |-> "timer"]
  /\ view = "web" \/ (up /\ token)

ScreensNext ==
  /\ UNCHANGED view
  /\ view # "records" => UNCHANGED recordsVars
  /\ view # "pages" => UNCHANGED pagesVars
  /\ view # "monitor" => UNCHANGED monitorVars
  /\ view # "log" => UNCHANGED logVars
  /\ view # "debug" => UNCHANGED debugVars
  /\ view # "web" => UNCHANGED webVars
  /\ \/ view = "records" /\ RecordsStep
     \/ view = "pages" /\ PagesStep
     \/ view = "monitor" /\ MonitorStep
     \/ view = "log" /\ LogStep
     \/ view = "debug" /\ DebugStep
     \/ view = "web" /\ WebStep

\* The timers of the Qt thread and of the browser fire again and again, a thread that has
\* begun to hand a reading over goes on, and a request is answered or refused.
ScreensSpec ==
  /\ ScreensInit /\ [][ScreensNext]_<<view, screens>>
  /\ WF_<<pagesVars>>(view = "pages" /\ Timers)
  /\ WF_<<pagesVars>>(view = "pages" /\ \E d \in Sources : Feeds(d))
  /\ WF_<<webVars>>(view = "web" /\ Timer)
  /\ WF_<<webVars>>(view = "web" /\ OldestHandled)

\* Entries of the log and messages of the debug page are shown once, or for a named reason not
\* at all (log_page.py:83-101, mqtt_debug_page.py:272-282).
ShownOnceOrLate == EntriesShownOnce /\ MessagesShownOnce

\* What is shown is true of what the user has chosen: the readings on a live page and the device
\* the buttons act on (dashboard_page.py:334, monitor_page.py:156), the subscriptions on the
\* label (mqtt_debug_page.py:244).
ShownIsTrue == PagesAreOfTheDevice /\ ButtonsActOnTheShown /\ LabelIsTrue

\* MonitorTellsTheTruth of WebMonitor, where the browser is what is observed (app.js:91-104).
MonitorCatchesUp == view = "web" => MonitorTellsTheTruth

=============================================================================
