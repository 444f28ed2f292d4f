----------------------------- MODULE WebMonitor -----------------------------
(***************************************************************************)
(* The management API (core/api/server.py) and the page of web/app.js that *)
(* reads it.                                                               *)
(*                                                                         *)
(* The page asks for the status every five seconds and when its button is  *)
(* pressed or its token changed; it neither waits for one answer before it *)
(* asks again nor drops an answer that another has overtaken.  The server  *)
(* answers each request in a thread of its own, and takes two snapshots of *)
(* the gateway for one answer, for the lists and then for the totals, each *)
(* from the provider of the devices and then from that of the cache.       *)
(***************************************************************************)
EXTENDS Integers, Sequences

CONSTANTS
  Secured,     \* whether the service has a token
  MaxOpen,     \* bound: requests under way
  MaxChanges   \* bound: changes of the gateway, of a provider, of the token, of the service

ASSUME WebMonitorAssumption == MaxOpen \in Nat \ {0} /\ MaxChanges \in Nat /\ Secured \in BOOLEAN

VARIABLES
  gateway,   \* what devices and cache are like: the number of changes so far
  failing,   \* halves of the gateway whose provider raises
  up,        \* the service runs
  token,     \* the token in the page is the right one
  open,      \* requests under way, in the order they were sent: [token, served, read (so far)]
  screen,    \* what the page shows: [ok, lists, totals]
  changes    \* bound: changes so far

webVars == <<gateway, failing, up, token, open, screen, changes>>

Halves == {"devices", "cache"}
ReadInOrder == <<"devices", "cache", "devices", "cache">>
Empty == -1

\* GatewayApiServer.authorized: a service without a token is local and open.
Authorized(r) == Secured => r.token
WithoutRequest(i) == SubSeq(open, 1, i - 1) \o SubSeq(open, i + 1, Len(open))

\* refresh(): fetch, by the timer or by the user.
Refresh ==
  /\ Len(open) < MaxOpen
  /\ open' = Append(open, [token |-> token, served |-> FALSE, read |-> <<>>])
  /\ UNCHANGED <<gateway, failing, up, token, screen, changes>>
\* Mutant: the timer stops at an error.
TimerUntilError == Refresh /\ screen.ok
Timer == Refresh

\* do_GET: refused, or served by status_payload;
Serves(i) ==
  /\ up /\ ~open[i].served /\ Authorized(open[i])
  /\ open' = [open EXCEPT ![i].served = TRUE]
  /\ UNCHANGED <<gateway, failing, up, token, screen, changes>>
Refused(i) ==
  /\ up => ~open[i].served /\ ~Authorized(open[i])
  /\ screen' = [screen EXCEPT !.ok = FALSE] /\ open' = WithoutRequest(i)
  /\ UNCHANGED <<gateway, failing, up, token, changes>>

\* _snapshot, for status_payload and again for health_payload: what raises is empty;
Reads(i) ==
  /\ open[i].served /\ Len(open[i].read) < Len(ReadInOrder)
  /\ LET half == ReadInOrder[Len(open[i].read) + 1]
     IN open' = [open EXCEPT ![i].read = Append(@, IF half \in failing THEN Empty ELSE gateway)]
  /\ UNCHANGED <<gateway, failing, up, token, screen, changes>>

\* render() shows the answer when it comes.
Answers(i) ==
  /\ Len(open[i].read) = Len(ReadInOrder)
  /\ LET read == open[i].read
     IN screen' = [ok |-> TRUE, lists |-> [devices |-> read[1], cache |-> read[2]],
                   totals |-> [devices |-> read[3], cache |-> read[4]]]
  /\ open' = WithoutRequest(i)
  /\ UNCHANGED <<gateway, failing, up, token, changes>>

Changes ==
  /\ changes < MaxChanges /\ changes' = changes + 1
  /\ \/ gateway' = gateway + 1 /\ UNCHANGED <<failing, up, token>>
     \/ failing' \in SUBSET Halves \ {failing} /\ UNCHANGED <<gateway, up, token>>
     \/ up' = ~up /\ UNCHANGED <<gateway, failing, token>>
     \/ token' = ~token /\ UNCHANGED <<gateway, failing, up>>
  /\ UNCHANGED <<open, screen>>

WebInit ==
  /\ gateway = 0 /\ failing = {} /\ up \in BOOLEAN /\ token \in BOOLEAN /\ open = <<>>
  /\ LET shown == [h \in Halves |-> gateway] IN screen = [ok |-> TRUE, lists |-> shown, totals |-> shown]
  /\ changes = 0

HandlesAt(i) == Serves(i) \/ Refused(i) \/ Reads(i) \/ Answers(i)
Handles == \E i \in DOMAIN open : HandlesAt(i)
OldestHandled == open # <<>> /\ HandlesAt(1)
WebStep == Timer \/ Handles \/ Changes

-----------------------------------------------------------------------------
\* When the gateway stops changing, the page comes to show it as it is, lists and totals, or
\* that it cannot be read, whatever answers overtook each other, whatever was read while it
\* changed and whatever error came before (app.js:91-104, server.py:206-213).  Excepted is a
\* half whose provider raises: the page shows it empty, under "running normally"
\* (server.py:181-188, app.js:81).
MonitorTellsTheTruth ==
  <>[](IF up /\ (Secured => token)
       THEN screen.ok /\ \A h \in Halves \ failing : screen.lists[h] = gateway /\ screen.totals[h] = gateway
       ELSE ~screen.ok)

=============================================================================
