-------------------------------- MODULE Pages --------------------------------
(***************************************************************************)
(* The live pages: the curves and the table of ui/pages/dashboard_page.py  *)
(* ("dash") and the cards of ui/pages/visualization_page.py ("viz"), which *)
(* MainWindow._on_data_received (ui/main_window.py) feeds.                 *)
(*                                                                         *)
(* The thread of each collector looks at the device and the points a page  *)
(* shows, then stores the reading.  The Qt thread changes device and       *)
(* points, and timers take what was stored and show it.  No lock is taken: *)
(* the page may change between the look and the store, and the store goes  *)
(* to the container the thread has read, which a timer may have taken.     *)
(* Of what waits for a point only the latest is ever shown.                *)
(***************************************************************************)
EXTENDS Integers, FiniteSets

CONSTANTS
  Sources,      \* the devices: each has a collector thread
  PointNames,   \* the points of every device
  MaxSamples,   \* bound: readings of a device
  MaxGestures   \* bound: what the user does

ASSUME PagesAssumption ==
  {MaxSamples, MaxGestures} \subseteq Nat /\ "none" \notin Sources

PageNames == {"dash", "viz"}
None == [dev |-> "none", n |-> 0]
Nothing == [p \in PointNames |-> None]

VARIABLES
  feeder,   \* the collector threads: [pc, n (readings so far), point, box (the container read)]
  page,     \* of each page: [dev, points, paused, box (which container is in use)]
  pending,  \* _pending_data and _pending: what waits to be shown
  buffers,  \* _data_buffers of the dashboard: the end of each curve
  taken,    \* what a timer has taken
  shown,    \* the end of each curve, and each card
  rows,     \* the table of the dashboard
  qt,       \* what the Qt thread is doing: "idle", or showing ("dash", "viz")
  chosen,   \* or filling in the selection of a page: <<page, points>>
  gestures, \* bound: gestures so far
  strays,   \* history: readings whose page was changed between look and store
  missed,   \* history: readings stored in a container taken already
  newest    \* history: what was stored last since the page was changed

pagesVars == <<feeder, page, pending, buffers, taken, shown, rows, qt, chosen, gestures, strays, missed, newest>>

Sample(d) == [dev |-> d, n |-> feeder[d].n]
Point(d) == feeder[d].point
Goes(d, pc) == feeder' = [feeder EXCEPT ![d].pc = pc]
Wanted(pg, d) == page[pg].dev = d /\ Point(d) \in page[pg].points

-----------------------------------------------------------------------------
\* A reading arrives; _on_data_received calls the dashboard first.
Arrives(d) ==
  /\ feeder[d].pc = "idle" /\ feeder[d].n < MaxSamples
  /\ \E p \in PointNames :
       feeder' = [feeder EXCEPT ![d].pc = "dash", ![d].n = @ + 1, ![d].point = p]
  /\ UNCHANGED <<page, pending, buffers, taken, shown, rows, qt, chosen, gestures, strays, missed, newest>>

\* DashboardPage.feed_data.
LooksAtDash(d) ==
  /\ feeder[d].pc = "dash"
  /\ Goes(d, IF Wanted("dash", d) THEN "buffer" ELSE "viz")
  /\ UNCHANGED <<page, pending, buffers, taken, shown, rows, qt, chosen, gestures, strays, missed, newest>>
FeedsBuffer(d) ==
  /\ feeder[d].pc = "buffer"
  /\ buffers' = [buffers EXCEPT ![d][Point(d)] = Sample(d)]
  /\ newest' = IF Wanted("dash", d) THEN [newest EXCEPT !["dash"][Point(d)] = Sample(d)] ELSE newest
  /\ feeder' = [feeder EXCEPT ![d].pc = "list", ![d].box = page["dash"].box]
  /\ UNCHANGED <<page, pending, taken, shown, rows, qt, chosen, gestures, strays, missed>>

\* The store itself, in the container the thread has read: the one in use, the one a timer is
\* showing, or one that nobody looks at any more.
Stores(pg, d) ==
  /\ CASE feeder[d].box = page[pg].box ->
            pending' = [pending EXCEPT ![pg][Point(d)] = Sample(d)] /\ UNCHANGED <<taken, missed>>
       [] feeder[d].box # page[pg].box /\ qt = pg ->
            taken' = [taken EXCEPT ![Point(d)] = Sample(d)] /\ UNCHANGED <<pending, missed>>
       [] OTHER -> missed' = missed \cup {Sample(d)} /\ UNCHANGED <<pending, taken>>
  /\ strays' = IF page[pg].dev = d THEN strays ELSE strays \cup {Sample(d)}
FeedsList(d) ==
  /\ feeder[d].pc = "list"
  /\ Stores("dash", d)
  /\ Goes(d, "viz")
  /\ UNCHANGED <<page, buffers, shown, rows, qt, chosen, gestures, newest>>

\* VisualizationPage.feed_data.
LooksAtViz(d) ==
  /\ feeder[d].pc = "viz"
  /\ feeder' = [feeder EXCEPT ![d].pc = IF Wanted("viz", d) THEN "store" ELSE "idle",
                              ![d].box = page["viz"].box]
  /\ UNCHANGED <<page, pending, buffers, taken, shown, rows, qt, chosen, gestures, strays, missed, newest>>
\* Mutant: a reading does not replace one that waits.
FeedsVizUnlessWaiting(d) ==
  /\ feeder[d].pc = "store"
  /\ IF pending["viz"][Point(d)] = None THEN Stores("viz", d) ELSE UNCHANGED <<pending, taken, missed, strays>>
  /\ newest' = IF Wanted("viz", d) THEN [newest EXCEPT !["viz"][Point(d)] = Sample(d)] ELSE newest
  /\ Goes(d, "idle")
  /\ UNCHANGED <<page, buffers, shown, rows, qt, chosen, gestures>>
FeedsViz(d) ==
  /\ feeder[d].pc = "store"
  /\ Stores("viz", d)
  /\ newest' = IF Wanted("viz", d) THEN [newest EXCEPT !["viz"][Point(d)] = Sample(d)] ELSE newest
  /\ Goes(d, "idle")
  /\ UNCHANGED <<page, buffers, shown, rows, qt, chosen, gestures>>

Feeds(d) ==
  LooksAtDash(d) \/ FeedsBuffer(d) \/ FeedsList(d) \/ LooksAtViz(d) \/ FeedsViz(d)

-----------------------------------------------------------------------------
\* The timers: _flush_data and _flush take the container away, unless the page is paused,
Takes(pg) ==
  /\ qt = "idle" /\ chosen = <<>>
  /\ ~page[pg].paused /\ pending[pg] # Nothing
  /\ taken' = pending[pg] /\ pending' = [pending EXCEPT ![pg] = Nothing]
  /\ page' = [page EXCEPT ![pg].box = @ + 1]
  /\ qt' = pg
  /\ UNCHANGED <<feeder, buffers, shown, rows, chosen, gestures, strays, missed, newest>>

\* then _update_curves draws each curve from its buffer, _update_table the rows that came,
Curves(points) == [p \in PointNames |-> IF p \in points THEN buffers[page["dash"].dev][p] ELSE None]
ShowsDash ==
  /\ qt = "dash" /\ qt' = "idle"
  /\ shown' = [shown EXCEPT !["dash"] = Curves(page["dash"].points)]
  /\ rows' = [p \in PointNames |-> IF p \in page["dash"].points THEN taken[p] ELSE None]
  /\ taken' = Nothing
  /\ UNCHANGED <<feeder, page, pending, buffers, chosen, gestures, strays, missed, newest>>

\* and each card is given its value.  Of two points, one that comes first during the walk would
\* end it with an error; the walk is one step here.
ShowsViz ==
  /\ qt = "viz" /\ qt' = "idle"
  /\ shown' = [shown EXCEPT !["viz"] =
                 [p \in PointNames |-> IF p \in page["viz"].points /\ taken[p] # None THEN taken[p] ELSE @[p]]]
  /\ taken' = Nothing
  /\ UNCHANGED <<feeder, page, pending, buffers, rows, chosen, gestures, strays, missed, newest>>

-----------------------------------------------------------------------------
\* The user.
Gesture == qt = "idle" /\ chosen = <<>> /\ gestures < MaxGestures /\ gestures' = gestures + 1

\* _on_device_changed of the dashboard: all is cleared, and no point is selected, for an item
\* is told so before it is in the list, which has no effect;
\* Mutant: what waits is not cleared.
DashChangesDeviceOnly(d) ==
  /\ Gesture /\ page["dash"].dev # d
  /\ page' = [page EXCEPT !["dash"].dev = d, !["dash"].points = {}]
  /\ buffers' = [s \in Sources |-> Nothing]
  /\ shown' = [shown EXCEPT !["dash"] = Nothing] /\ rows' = Nothing
  /\ newest' = [newest EXCEPT !["dash"] = Nothing]
  /\ UNCHANGED <<feeder, pending, taken, qt, chosen, strays, missed>>
DashChangesDevice(d) ==
  /\ Gesture /\ page["dash"].dev # d
  /\ page' = [page EXCEPT !["dash"].dev = d, !["dash"].points = {}]
  /\ buffers' = [s \in Sources |-> Nothing] /\ pending' = [pending EXCEPT !["dash"] = Nothing]
  /\ shown' = [shown EXCEPT !["dash"] = Nothing] /\ rows' = Nothing
  /\ newest' = [newest EXCEPT !["dash"] = Nothing]
  /\ UNCHANGED <<feeder, taken, qt, chosen, strays, missed>>

\* that of the cards: the same.
VizChangesDevice(d) ==
  /\ Gesture /\ page["viz"].dev # d
  /\ page' = [page EXCEPT !["viz"].dev = d, !["viz"].points = {}]
  /\ pending' = [pending EXCEPT !["viz"] = Nothing]
  /\ shown' = [shown EXCEPT !["viz"] = Nothing]
  /\ newest' = [newest EXCEPT !["viz"] = Nothing]
  /\ UNCHANGED <<feeder, buffers, taken, rows, qt, chosen, strays, missed>>

\* _on_point_selection_changed: the points are emptied, then filled in; the dashboard draws its
\* curves again from the buffers, the cards are new ones.
Selects(pg) ==
  /\ Gesture
  /\ \E ps \in SUBSET PointNames \ {page[pg].points} : chosen' = <<pg, ps>>
  /\ page' = [page EXCEPT ![pg].points = {}]
  /\ UNCHANGED <<feeder, pending, buffers, taken, shown, rows, qt, strays, missed, newest>>
FillsDash ==
  /\ chosen # <<>> /\ chosen[1] = "dash" /\ chosen' = <<>>
  /\ page' = [page EXCEPT !["dash"].points = chosen[2]]
  /\ shown' = [shown EXCEPT !["dash"] = Curves(chosen[2])]
  /\ newest' = [newest EXCEPT !["dash"] = [p \in PointNames |-> IF p \in chosen[2] THEN @[p] ELSE None]]
  /\ UNCHANGED <<feeder, pending, buffers, taken, rows, qt, gestures, strays, missed>>
FillsViz ==
  /\ chosen # <<>> /\ chosen[1] = "viz" /\ chosen' = <<>>
  /\ page' = [page EXCEPT !["viz"].points = chosen[2]]
  /\ shown' = [shown EXCEPT !["viz"] = Nothing]
  /\ newest' = [newest EXCEPT !["viz"] = Nothing]
  /\ UNCHANGED <<feeder, pending, buffers, taken, rows, qt, gestures, strays, missed>>

\* _toggle_pause, and _clear_chart.
Pauses(pg) ==
  /\ Gesture
  /\ page' = [page EXCEPT ![pg].paused = ~@]
  /\ UNCHANGED <<feeder, pending, buffers, taken, shown, rows, qt, chosen, strays, missed, newest>>
ClearsChart ==
  /\ Gesture
  /\ buffers' = [s \in Sources |-> Nothing] /\ pending' = [pending EXCEPT !["dash"] = Nothing]
  /\ shown' = [shown EXCEPT !["dash"] = Nothing] /\ newest' = [newest EXCEPT !["dash"] = Nothing]
  /\ UNCHANGED <<feeder, page, taken, rows, qt, chosen, strays, missed>>

PagesInit ==
  /\ feeder = [d \in Sources |-> [pc |-> "idle", n |-> 0, point |-> CHOOSE p \in PointNames : TRUE, box |-> 0]]
  /\ \E d \in Sources : page = [pg \in PageNames |-> [dev |-> d, points |-> PointNames, paused |-> FALSE, box |-> 0]]
  /\ pending = [pg \in PageNames |-> Nothing] /\ buffers = [d \in Sources |-> Nothing]
  /\ taken = Nothing /\ shown = [pg \in PageNames |-> Nothing] /\ rows = Nothing
  /\ qt = "idle" /\ chosen = <<>> /\ gestures = 0
  /\ strays = {} /\ missed = {} /\ newest = [pg \in PageNames |-> Nothing]

Timers == (\E pg \in PageNames : Takes(pg)) \/ ShowsDash \/ ShowsViz \/ FillsDash \/ FillsViz
Gestures ==
  \/ \E d \in Sources : DashChangesDevice(d) \/ VizChangesDevice(d)
  \/ \E pg \in PageNames : Selects(pg) \/ Pauses(pg)
  \/ ClearsChart
PagesStep == (\E d \in Sources : Arrives(d) \/ Feeds(d)) \/ Timers \/ Gestures

-----------------------------------------------------------------------------
\* What a page shows under the name of a point is of the device the user has chosen, though
\* devices have points of the same name: a reading of another device gets there only when the
\* device was changed between feed_data's look and its store (dashboard_page.py:334,
\* visualization_page.py:582).
PagesAreOfTheDevice ==
  \A p \in PointNames :
    /\ \A pg \in PageNames : shown[pg][p] = None \/ shown[pg][p].dev = page[pg].dev \/ shown[pg][p] \in strays
    /\ rows[p] = None \/ rows[p].dev = page["dash"].dev \/ rows[p] \in strays

\* Once the readings stop, curves and cards come to show the latest that was stored for them,
\* unless the page is paused, the store met a container a timer had just taken away, or a
\* reading of the device shown before came after it: nothing that waits is left behind
\* (dashboard_page.py:349, visualization_page.py:591).
LatestIsShown ==
  <>[](\A pg \in PageNames, p \in PointNames :
         newest[pg][p] \in {None, shown[pg][p]} \cup missed
           \/ shown[pg][p] \in strays \/ page[pg].paused)

=============================================================================
