-------------------------- MODULE CollectionProofs --------------------------
(***************************************************************************)
(* Theorems about collecting: the collectors of a device (Collection.tla), *)
(* for any number of them, any interval and any modes; and the way of a    *)
(* reading from the device to MQTT (Processing.tla), for every pipeline,   *)
(* every number of points, readings and rounds, every window and every     *)
(* value.  The two share no state, and the second part uses nothing of the *)
(* first.                                                                  *)
(***************************************************************************)
EXTENDS Collection, Processing, FiniteSetTheorems, SequenceTheorems, TLAPS

-----------------------------------------------------------------------------
(* The collectors.                                                         *)


\* The flags of a collector go together: _running_event is set exactly while the
\* status is running, and only a stopped collector is without client or thread.
FlagsInv ==
  \A c \in Collectors :
    /\ event[c] <=> status[c] = "running"
    /\ status[c] # "stopped" => client[c] /\ pc[c] # "none"

\* What the Qt thread knows in the middle of an operation.
UiInv ==
  /\ ui.at \in {"stop", "then"} /\ current # 0 => status[current] = "stopped"
  /\ ui.at = "start" => current # 0
  /\ ui.at = "then" => runtime = "offline"

CollectionInv == TypeOK /\ FlagsInv /\ UiInv /\ OrphansAreRestarts /\ CollectingIsTrue

LEMMA InitInv ==
  ASSUME Init
  PROVE  CollectionInv
<1> USE CollectionAssumption DEF Init
<1>1. TypeOK  BY DEF TypeOK, Collectors
<1>2. FlagsInv /\ UiInv  BY DEF FlagsInv, UiInv
<1>3. OrphansAreRestarts /\ CollectingIsTrue
  BY DEF OrphansAreRestarts, CollectingIsTrue
<1> QED  BY <1>1, <1>2, <1>3 DEF CollectionInv

\* A new collector is one of Collectors, and its number was not used before.
LEMMA MakeType ==
  ASSUME TypeOK, MakeCollector
  PROVE  /\ made' \in 1 .. MaxCollectors /\ current' = made' /\ current' \in Collectors
         /\ replaced' \subseteq 1 .. made'
         /\ replaced \subseteq replaced'
         /\ current # 0 /\ event[current] => current \in replaced'
<1>1. made \in Nat /\ made + 1 \in 1 .. MaxCollectors
  BY CollectionAssumption DEF TypeOK, MakeCollector
<1>2. current # 0 /\ event[current] => current \in 1 .. made
  BY DEF TypeOK
<1>3. replaced \subseteq 1 .. made + 1 /\ 1 .. made \subseteq 1 .. made + 1
  BY <1>1 DEF TypeOK
<1> QED  BY <1>1, <1>2, <1>3 DEF MakeCollector, Collectors

UiRecord == [at: {"idle", "stop", "then", "start"},
             next: {"none", "update", "restart", "remove"}]

LEMMA TypePreserved ==
  ASSUME TypeOK, UiInv, [Next]_vars
  PROVE  TypeOK'
<1> USE DEF manager, collectors, threads
<1>0. current \in Collectors \cup {0}
  BY CollectionAssumption DEF TypeOK, Collectors
<1>1. ASSUME StartDevice  PROVE TypeOK'
  BY <1>1, MakeType DEF StartDevice, MakeCollector, Ui, TypeOK
<1>2. ASSUME StartDisabled  PROVE TypeOK'
  BY <1>2 DEF StartDisabled, TypeOK
<1>3. ASSUME NEW next \in {"none", "update", "restart", "remove"}, Stop(next)
      PROVE TypeOK'
  BY <1>0, <1>3 DEF Stop, Ui, TypeOK
<1>4. ASSUME AddDevice  PROVE TypeOK'
  BY <1>4 DEF AddDevice, TypeOK
<1>5. ASSUME Pause \/ Resume  PROVE TypeOK'
  BY <1>0, <1>5 DEF Pause, Resume, TypeOK
<1>6. ASSUME NEW m \in Modes, SwitchMode(m)  PROVE TypeOK'
  BY <1>0, <1>6 DEF SwitchMode, TypeOK
<1>7. ASSUME CollectorStarts  PROVE TypeOK'
  BY <1>0, <1>7 DEF CollectorStarts, Ui, TypeOK
<1>8. ASSUME CollectorFails  PROVE TypeOK'
  BY <1>8 DEF CollectorFails, LeavesItsClient, Ui, TypeOK
<1>9. ASSUME StopReturns  PROVE TypeOK'
  <2>1. client' \in [Collectors -> BOOLEAN]  BY <1>9 DEF StopReturns, TypeOK
  <2>2. ui' \in UiRecord  BY <1>9 DEF StopReturns, Ui, TypeOK, UiRecord
  <2> QED  BY <1>9, <2>1, <2>2 DEF StopReturns, TypeOK, UiRecord
<1>10. ASSUME Updated  PROVE TypeOK'
  <2>1. ui' \in UiRecord  BY <1>10 DEF Updated, Ui, UiRecord
  <2>2. enabled' \in BOOLEAN /\ cfgMode' \in Modes /\ runtime' \in {runtime, "disabled"}
    BY <1>10 DEF Updated
  <2>3. UNCHANGED <<configured, threads>>  BY <1>10 DEF Updated
  <2>4. MakeCollector \/ UNCHANGED collectors  BY <1>10 DEF Updated
  <2>5. CASE MakeCollector
    <3>1. made' \in 0 .. MaxCollectors /\ current' \in 0 .. made' /\ replaced' \subseteq 1 .. made'
      BY <2>5, MakeType
    <3> QED  BY <2>1, <2>2, <2>3, <2>5, <3>1 DEF MakeCollector, TypeOK, UiRecord
  <2>6. CASE UNCHANGED collectors
    BY <2>1, <2>2, <2>3, <2>6 DEF TypeOK, UiRecord
  <2> QED  BY <2>4, <2>5, <2>6
<1>11. ASSUME Removed  PROVE TypeOK'
  <2>1. ui' \in UiRecord  BY <1>11 DEF Removed, Ui, UiRecord
  <2>2. current' = 0 /\ made' = made /\ made \in Nat /\ 0 \in 0 .. made
    BY <1>11, CollectionAssumption DEF Removed, TypeOK
  <2> QED  BY <1>11, <2>1, <2>2 DEF Removed, TypeOK, UiRecord
<1>12. ASSUME Tick  PROVE TypeOK'
  <2>1. \A c \in Collectors : age[c] \in 0 .. Interval /\ (age[c] < Interval => age[c] + 1 \in 0 .. Interval)
    BY CollectionAssumption DEF TypeOK
  <2>2. age' \in [Collectors -> 0 .. Interval]  BY <1>12, <2>1 DEF Tick
  <2> QED  BY <1>12, <2>2 DEF Tick, TypeOK
<1>13. ASSUME NEW c \in Collectors, CollectorStep(c)  PROVE TypeOK'
  <2>1. UNCHANGED <<manager, collectors>>
    BY <1>13 DEF CollectorStep, Wakes, Sweeps, Delivers, LoopRaises, Rests
  <2>2. pc' \in [Collectors -> {"none", "wait", "sweep", "deliver", "rest"}]
    BY <1>13 DEF CollectorStep, Wakes, Sweeps, Delivers, LoopRaises, Rests, Goto, TypeOK
  <2>3. 0 \in 0 .. Interval  BY CollectionAssumption
  <2>4. age' \in [Collectors -> 0 .. Interval]
    BY <1>13, <2>3 DEF CollectorStep, Wakes, Sweeps, Delivers, LoopRaises, Rests, TypeOK
  <2> QED  BY <2>1, <2>2, <2>4 DEF TypeOK
<1>14. ASSUME UNCHANGED vars  PROVE TypeOK'
  BY <1>14 DEF vars, TypeOK
<1> QED
  BY <1>1, <1>2, <1>3, <1>4, <1>5, <1>6, <1>7, <1>8, <1>9, <1>10, <1>11, <1>12, <1>13, <1>14
  DEF Next, UserStep, UiStep, StopDevice, UpdateDevice, RemoveDevice

-----------------------------------------------------------------------------
(* The rest of the invariant.                                              *)

Rest == FlagsInv /\ UiInv /\ OrphansAreRestarts /\ CollectingIsTrue

LEMMA UserPreserves ==
  ASSUME CollectionInv, UserStep
  PROVE  Rest'
<1> USE DEF manager, collectors, threads, CollectionInv, Rest
<1>0. current \in Collectors \cup {0}
  BY CollectionAssumption DEF TypeOK, Collectors
<1>1. ASSUME StartDevice  PROVE Rest'
  <2>1. /\ current' \in Collectors /\ current' # 0
        /\ replaced \subseteq replaced'
        /\ current # 0 /\ event[current] => current \in replaced'
    BY <1>1, MakeType DEF StartDevice, Collectors
  <2>2. UNCHANGED <<status, event, client, pc>> /\ ui'.at = "start"
    BY <1>1 DEF StartDevice, MakeCollector, Ui
  <2>3. FlagsInv' /\ UiInv'  BY <2>1, <2>2 DEF FlagsInv, UiInv
  <2>4. OrphansAreRestarts'
    BY <2>1, <2>2, CollectionAssumption DEF OrphansAreRestarts, Collectors
  <2>5. CollectingIsTrue'  BY <2>2 DEF CollectingIsTrue, Idle
  <2> QED  BY <2>3, <2>4, <2>5
<1>2. ASSUME StartDisabled  PROVE Rest'
  BY <1>2 DEF StartDisabled, FlagsInv, UiInv, OrphansAreRestarts, CollectingIsTrue, Idle
<1>3. ASSUME NEW next \in {"none", "update", "restart", "remove"}, Stop(next)
      PROVE Rest'
  <2>1. /\ ui'.at = "stop" /\ UNCHANGED <<current, client, pc, replaced>>
        /\ current # 0 => status'[current] = "stopped" /\ ~event'[current]
        /\ \A c \in Collectors : c # current => status'[c] = status[c] /\ event'[c] = event[c]
    BY <1>0, <1>3 DEF Stop, Ui, TypeOK
  <2>2. FlagsInv'
    BY <2>1, CollectionAssumption DEF FlagsInv, Collectors
  <2>3. UiInv' /\ CollectingIsTrue'  BY <2>1 DEF UiInv, CollectingIsTrue, Idle
  <2>4. OrphansAreRestarts'
    BY <2>1, CollectionAssumption DEF OrphansAreRestarts, Collectors
  <2> QED  BY <2>2, <2>3, <2>4
<1>4. ASSUME AddDevice  PROVE Rest'
  BY <1>4 DEF AddDevice, FlagsInv, UiInv, OrphansAreRestarts, CollectingIsTrue, Idle
<1>5. ASSUME Pause \/ Resume  PROVE Rest'
  <2>1. /\ current \in Collectors /\ status[current] # "stopped"
        /\ UNCHANGED <<runtime, ui, current, client, pc, replaced>>
        /\ status'[current] # "stopped" /\ (event'[current] <=> status'[current] = "running")
        /\ \A c \in Collectors : c # current => status'[c] = status[c] /\ event'[c] = event[c]
        /\ Idle
    BY <1>0, <1>5 DEF Pause, Resume, TypeOK
  <2>2. FlagsInv'  BY <2>1 DEF FlagsInv
  <2>3. UiInv' /\ CollectingIsTrue'
    BY <2>1 DEF UiInv, CollectingIsTrue, Idle
  <2>4. OrphansAreRestarts'  BY <2>1 DEF OrphansAreRestarts
  <2> QED  BY <2>2, <2>3, <2>4
<1>6. ASSUME NEW m \in Modes, SwitchMode(m)  PROVE Rest'
  BY <1>6 DEF SwitchMode, FlagsInv, UiInv, OrphansAreRestarts, CollectingIsTrue, Idle
<1> QED
  BY <1>1, <1>2, <1>3, <1>4, <1>5, <1>6
  DEF UserStep, StopDevice, UpdateDevice, RemoveDevice

LEMMA UiPreserves ==
  ASSUME CollectionInv, UiStep
  PROVE  Rest'
<1> USE DEF manager, collectors, threads, CollectionInv, Rest
<1>0. current \in Collectors \cup {0}
  BY CollectionAssumption DEF TypeOK, Collectors
<1>1. ASSUME CollectorStarts  PROVE Rest'
  <2>1. current \in Collectors  BY <1>0, <1>1 DEF CollectorStarts, UiInv
  <2>2. /\ status'[current] = "running" /\ event'[current] = TRUE
        /\ client'[current] = TRUE /\ pc'[current] = "wait"
        /\ \A c \in Collectors : c # current =>
             /\ status'[c] = status[c] /\ event'[c] = event[c]
             /\ client'[c] = client[c] /\ pc'[c] = pc[c]
        /\ ui'.at = "idle" /\ UNCHANGED <<current, replaced>>
    BY <2>1, <1>1 DEF CollectorStarts, Ui, TypeOK
  <2>3. FlagsInv'  BY <2>2 DEF FlagsInv
  <2>4. UiInv'  BY <2>2 DEF UiInv
  <2>5. OrphansAreRestarts'  BY <2>2 DEF OrphansAreRestarts
  <2>6. CollectingIsTrue'
    BY <2>1, <2>2, CollectionAssumption DEF CollectingIsTrue, Collectors
  <2> QED  BY <2>3, <2>4, <2>5, <2>6
<1>2. ASSUME CollectorFails  PROVE Rest'
  <2>1. /\ UNCHANGED <<status, event, pc, current, replaced>> /\ ui'.at = "idle" /\ runtime' = "error"
        /\ \A c \in Collectors : client[c] => client'[c]
    BY <1>2 DEF CollectorFails, LeavesItsClient, Ui, TypeOK
  <2>2. FlagsInv'  BY <2>1 DEF FlagsInv
  <2>3. UiInv'  BY <2>1 DEF UiInv
  <2> QED  BY <2>1, <2>2, <2>3 DEF OrphansAreRestarts, CollectingIsTrue
<1>3. ASSUME StopReturns  PROVE Rest'
  <2>1. /\ UNCHANGED <<current, status, event, pc, replaced>>
        /\ runtime' = "offline" /\ ui'.at \in {"idle", "then"}
        /\ current # 0 => status[current] = "stopped"
        /\ \A c \in Collectors : c # current => client'[c] = client[c]
    BY <1>0, <1>3 DEF StopReturns, Ui, UiInv, TypeOK
  <2>2. FlagsInv'
    BY <2>1, CollectionAssumption DEF FlagsInv, Collectors
  <2>3. UiInv' /\ OrphansAreRestarts' /\ CollectingIsTrue'
    BY <2>1 DEF UiInv, OrphansAreRestarts, CollectingIsTrue
  <2> QED  BY <2>2, <2>3
<1>4. ASSUME Updated  PROVE Rest'
  <2>1. CASE MakeCollector /\ ui'.at = "start"
    <3>1. /\ current' \in Collectors /\ current' # 0
          /\ replaced \subseteq replaced'
          /\ current # 0 /\ event[current] => current \in replaced'
      BY <2>1, MakeType DEF Collectors
    <3>2. UNCHANGED <<status, event, client, pc>>
      BY <1>4, <2>1 DEF Updated, MakeCollector
    <3>3. FlagsInv' /\ UiInv'  BY <2>1, <3>1, <3>2 DEF FlagsInv, UiInv
    <3>4. OrphansAreRestarts'
      BY <3>1, <3>2, CollectionAssumption DEF OrphansAreRestarts, Collectors
    <3>5. CollectingIsTrue'  BY <2>1 DEF CollectingIsTrue, Idle
    <3> QED  BY <3>3, <3>4, <3>5
  <2>2. CASE UNCHANGED collectors /\ ui'.at = "idle" /\ runtime' \in {runtime, "disabled"}
    <3>1. UNCHANGED <<status, event, client, pc, current, replaced>> /\ runtime' # "collecting"
      BY <1>4, <2>2 DEF Updated, UiInv
    <3> QED  BY <2>2, <3>1 DEF FlagsInv, UiInv, OrphansAreRestarts, CollectingIsTrue
  <2> QED  BY <1>4, <2>1, <2>2 DEF Updated, Ui
<1>5. ASSUME Removed  PROVE Rest'
  <2>1. /\ current' = 0 /\ UNCHANGED <<status, event, client, pc, replaced, runtime>>
        /\ runtime = "offline" /\ ui'.at = "idle"
        /\ current # 0 => ~event[current]
    BY <1>0, <1>5 DEF Removed, Ui, UiInv, FlagsInv
  <2> QED  BY <2>1 DEF FlagsInv, UiInv, OrphansAreRestarts, CollectingIsTrue
<1> QED  BY <1>1, <1>2, <1>3, <1>4, <1>5 DEF UiStep

\* The collectors' threads change none of the flags and do not end.
LEMMA ThreadsPreserve ==
  ASSUME CollectionInv, Tick \/ (\E c \in Collectors : CollectorStep(c)) \/ UNCHANGED vars
  PROVE  Rest'
<1> USE DEF manager, collectors, threads, CollectionInv, Rest
<1>0. current \in Collectors \cup {0}
  BY CollectionAssumption DEF TypeOK, Collectors
<1>1. UNCHANGED <<runtime, ui, current, status, event, client, replaced>>
  BY DEF Tick, CollectorStep, Wakes, Sweeps, Delivers, LoopRaises, Rests, vars
<1>2. \A c \in Collectors : pc[c] # "none" => pc'[c] # "none"
  BY DEF Tick, CollectorStep, Wakes, Sweeps, Delivers, LoopRaises, Rests, Goto, TypeOK, vars
<1>3. FlagsInv'  BY <1>1, <1>2 DEF FlagsInv
<1>4. UiInv' /\ OrphansAreRestarts'  BY <1>1 DEF UiInv, OrphansAreRestarts
<1>5. CollectingIsTrue'  BY <1>0, <1>1, <1>2 DEF CollectingIsTrue, Idle
<1> QED  BY <1>3, <1>4, <1>5

-----------------------------------------------------------------------------
(* The theorems.                                                           *)

\* The invariant holds in every reachable state.
THEOREM CollectionInvariant == Spec => []CollectionInv
<1>1. Init => CollectionInv  BY InitInv
<1>2. CollectionInv /\ [Next]_vars => CollectionInv'
  BY TypePreserved, UserPreserves, UiPreserves, ThreadsPreserve DEF CollectionInv, Rest, Next
<1> QED  BY <1>1, <1>2, PTL DEF Spec

\* The state of manager and collectors keeps its types.
THEOREM CollectionTypeCorrect == Spec => []TypeOK
<1>1. CollectionInv => TypeOK  BY DEF CollectionInv
<1> QED  BY <1>1, CollectionInvariant, PTL

\* Control of a running collector is lost in no other way than by starting its
\* device again: stop, pause, update and removal never leave one behind.
THEOREM OnlyRestartsOrphan == Spec => []OrphansAreRestarts
<1>1. CollectionInv => OrphansAreRestarts  BY DEF CollectionInv
<1> QED  BY <1>1, CollectionInvariant, PTL

\* A device that is shown as COLLECTING has a collector with a thread that was not
\* stopped, whatever updates, failed starts and removals came before.
THEOREM CollectingIsNoLie == Spec => []CollectingIsTrue
<1>1. CollectionInv => CollectingIsTrue  BY DEF CollectionInv
<1> QED  BY <1>1, CollectionInvariant, PTL

\* A collector that is let run has its client, even one that was replaced.
THEOREM RunningKeepsItsClient == Spec => []RunningHasAClient
<1>1. CollectionInv => RunningHasAClient
  BY DEF CollectionInv, FlagsInv, RunningHasAClient
<1> QED  BY <1>1, CollectionInvariant, PTL

-----------------------------------------------------------------------------
(* Processing: types, and what a step does to a round.                     *)


Results == [point : Names, val : Int, of : SUBSET Nat]
Fates == {"inside", "lost", "rejected", "left"}
Round ==
  [pc : {"idle", "rule", "half", "clear", "out", "batch"}, ids : Seq(Nat), at : Nat, rule : Nat, runs : Nat,
   cur : Results \cup {Nothing}, seen : Int, batch : Seq([id : Nat, res : Results])]

PipeTyped ==
  /\ {last, uploaded} \subseteq [Names -> Int]
  /\ buffers \in [Names -> Seq(Results)]
  /\ window \in [open : BOOLEAN, held : Seq(Results)]

LedgerTyped ==
  /\ readings \in Seq([point : Names, val : Values])
  /\ fate \in Seq(Fates) /\ Len(fate) = Len(readings)
  /\ result \in Seq(Results \cup {Nothing}) /\ Len(result) = Len(readings)
  /\ offers \in Seq(Nat) /\ Len(offers) = Len(readings)
  /\ left \in [Names -> Int]
  /\ stored \subseteq 1 .. Len(readings)
  /\ overlapped \in BOOLEAN

\* A round has the ids of the points enabled, in the order they were read; a thread without
\* a round has forgotten everything about its last.
Busy(t) == th[t].pc # "idle"
RoundsTyped ==
  /\ th \in [Threads -> Round]
  /\ \A t \in Threads :
       IF Busy(t)
       THEN /\ Len(th[t].ids) = setup.points /\ th[t].at \in 1 .. Len(th[t].ids)
            /\ th[t].cur \in Results
            /\ \A i \in 1 .. Len(th[t].ids) : th[t].ids[i] \in 1 .. Len(readings)
            /\ \A i, j \in 1 .. Len(th[t].ids) : i < j => th[t].ids[i] < th[t].ids[j]
            /\ th[t].pc = "batch" => th[t].at = Len(th[t].ids)
       ELSE th[t] = NoRound

Typed == setup \in Setups /\ {batching, present} \subseteq BOOLEAN /\ PipeTyped /\ LedgerTyped /\ RoundsTyped

\* What a setup has of rules, points and values.
LEMMA SetupTyped ==
  ASSUME setup \in Setups
  PROVE  /\ setup \in Setup /\ setup.points \in 1 .. Len(Points) /\ Len(Points) \in Nat
         /\ setup.rules \in Seq(Rule)
         /\ \A i \in 1 .. Len(Points) : Points[i] \in Names
         /\ setup.values \subseteq Values
BY ProcessingAssumption, LenProperties, ElementOfSeq DEF Setup

\* Values are integers, the null and the text among them.
LEMMA ValuesTyped == Values \subseteq Int /\ Null \in Int /\ Text \in Int
BY ProcessingAssumption DEF Values, Null, Text

\* A thread without a round is of the type of the rounds.
LEMMA NoRoundTyped == NoRound \in Round
BY ValuesTyped, EmptySeq DEF NoRound, Round

\* A set of natural numbers has a least element, a finite set of numbers a greatest.
LEMMA LeastOf ==
  ASSUME NEW T \in SUBSET Nat, T # {}
  PROVE  \E n \in T : \A m \in T : n <= m
<1> DEFINE less == {ss \in Nat \X Nat : ss[1] < ss[2]}
<1>1. IsWellFoundedOn(less, Nat)  BY NatLessThanWellFounded DEF OpToRel
<1>2. PICK n \in T : \A m \in T : ~(<<m, n>> \in less)
  <2> HIDE DEF less
  <2> QED  BY <1>1, WFMin
<1>3. ASSUME NEW m \in T PROVE n <= m
  <2>1. n \in Nat /\ m \in Nat /\ <<m, n>> \notin less  BY <1>2
  <2>2. ~(m < n)  BY <2>1
  <2> QED  BY <2>1, <2>2
<1> QED  BY <1>3

\* The greatest of a finite set of values is one of them.
LEMMA MaxTyped ==
  ASSUME NEW S \in SUBSET Int, IsFiniteSet(S), S # {}
  PROVE  Max(S) \in S /\ \A x \in S : Max(S) >= x
<1> DEFINE above(x) == {y \in S : y > x}
           c(x) == Cardinality(above(x))
           ranks == {c(x) : x \in S}
<1>1. \A x \in S : IsFiniteSet(above(x)) /\ c(x) \in Nat
  BY FS_Subset, FS_CardinalityType
<1>2. ranks \subseteq Nat /\ ranks # {}  BY <1>1
<1>3. PICK n \in ranks : \A m \in ranks : n <= m
  <2> HIDE DEF ranks
  <2> QED  BY <1>2, LeastOf
<1>4. PICK x \in S : n = c(x)  BY <1>3
<1>5. ASSUME NEW y \in S PROVE ~(y > x)
  <2>1. c(y) \in Nat /\ c(x) \in Nat /\ c(x) <= c(y)  BY <1>1, <1>3, <1>4
  <2>2. CASE y > x
    <3>1. above(y) \subseteq above(x)
      <4> SUFFICES ASSUME NEW z \in S, z > y PROVE z > x  OBVIOUS
      <4>1. x \in Int /\ y \in Int /\ z \in Int  OBVIOUS
      <4> QED  BY <2>2, <4>1
    <3>2. y \in above(x) /\ y \notin above(y)
      <4>1. y \in Int  OBVIOUS
      <4> QED  BY <2>2, <4>1
    <3>3. c(y) <= c(x) /\ (c(x) = c(y) => above(x) = above(y))
      <4> HIDE DEF above
      <4> QED  BY <1>1, <3>1, FS_Subset
    <3> QED  BY <2>1, <3>2, <3>3
  <2> QED  BY <2>2
<1>6. \A y \in S : x >= y  BY <1>5
<1> QED  BY <1>6 DEF Max

LEMMA ValuesOfFinite ==
  ASSUME NEW s \in Seq(Results), NEW S \in SUBSET {o.val : o \in Range(s)}
  PROVE  IsFiniteSet(S) /\ S \subseteq Int
<1> DEFINE n == Len(s)
           f == [i \in 1 .. n |-> s[i].val]
           all == {o.val : o \in Range(s)}
<1>1. n \in Nat /\ DOMAIN s = 1 .. n /\ \A i \in 1 .. n : s[i] \in Results
  BY LenProperties, ElementOfSeq
<1>2. \A x \in all : \E i \in 1 .. n : f[i] = x  BY <1>1 DEF Range
<1>3. \A i \in 1 .. n : f[i] \in all  BY <1>1 DEF Range
<1>4. f \in Surjection(1 .. n, all)  BY <1>2, <1>3 DEF Surjection
<1>5. IsFiniteSet(all)  BY <1>1, <1>4, FS_NatSurjection DEF ExistsSurjection
<1>6. all \subseteq Int  BY <1>1, <1>3, <1>2 DEF Results
<1> QED  BY <1>5, <1>6, FS_Subset

\* What a rule may come to: a result, nothing, or an exception.
Outcomes == Results \cup {Nothing, Raised}

LEMMA MinOfTwo == \A v, w \in Int : Min({v, w}) \in Int
<1> SUFFICES ASSUME NEW v \in Int, NEW w \in Int PROVE Min({v, w}) \in Int  OBVIOUS
<1>1. \E x \in {v, w} : \A y \in {v, w} : x <= y
  <2>1. v <= w \/ w <= v  OBVIOUS
  <2> QED  BY <2>1
<1> QED  BY <1>1 DEF Min

\* A rule without a memory lets out a result, nothing, or raises.
LEMMA StatelessTyped ==
  ASSUME NEW o \in Results, NEW kind
  PROVE  Stateless(kind, o) \in Outcomes
<1> USE DEF Outcomes, Results, WithValue
<1>1. Limit \in Int /\ o.val \in Int  BY ProcessingAssumption
<1>2. Converted(o) \in Outcomes  BY <1>1, MinOfTwo DEF Converted, Clamped
<1>3. Computed(o) \in Outcomes  BY <1>1, ValuesTyped DEF Computed, Sum
<1>4. NullFiltered(o) \in Outcomes /\ ThresholdFiltered(o) \in Outcomes /\ o \in Outcomes
  BY DEF NullFiltered, ThresholdFiltered
<1>5. Encrypted(o) \in Outcomes  BY ValuesTyped DEF Encrypted
<1> QED  BY <1>2, <1>3, <1>4, <1>5 DEF Stateless

\* So does a filter with a memory,
LEMMA FilteredTyped ==
  ASSUME NEW o \in Results, NEW kind, NEW before
  PROVE  Filtered(kind, o, before) \in Outcomes
BY DEF Filtered, Outcomes

\* an aggregate of a buffer,
LEMMA AggregatedTyped ==
  ASSUME NEW o \in Results, NEW s \in Seq(Results)
  PROVE  Aggregated(s, o) \in Outcomes
<1> DEFINE numbers == {b.val : b \in Numeric(s)}
<1>1. CASE Len(s) < Window \/ Numeric(s) = {}  BY <1>1 DEF Aggregated, Outcomes
<1>2. CASE ~(Len(s) < Window \/ Numeric(s) = {})
  <2>1. numbers \subseteq {b.val : b \in Range(s)} /\ numbers # {}  BY <1>2 DEF Numeric
  <2>2. Max(numbers) \in Int
    <3> HIDE DEF numbers
    <3> QED  BY <2>1, ValuesOfFinite, MaxTyped
  <2>3. Len(s) \in Nat /\ Len(s) # 0 /\ \A i \in 1 .. Len(s) : s[i] \in Results
    BY <1>2, LenProperties, ElementOfSeq, ProcessingAssumption
  <2>4. s[Len(s)] \in Results  BY <2>3
  <2>5. UNION {b.of : b \in Range(s)} \in SUBSET Nat
    <3>1. \A b \in Range(s) : b \in Results  BY <2>3, LenProperties DEF Range
    <3> QED  BY <3>1 DEF Results
  <2>6. [s[Len(s)] EXCEPT !.val = Max(numbers), !.of = UNION {b.of : b \in Range(s)}] \in Results
    <3> HIDE DEF numbers
    <3> QED  BY <2>2, <2>4, <2>5 DEF Results
  <2> QED  BY <2>6 DEF Aggregated, Outcomes, Last
<1> QED  BY <1>1, <1>2

\* and a fusion of the valid ones of a sequence.
LEMMA FusedTyped ==
  ASSUME NEW o \in Results, NEW s \in Seq(Results)
  PROVE  Fused(s, o) \in Outcomes
<1>1. \A i \in Valid(s) : s[i] \in Results  BY LenProperties, ElementOfSeq DEF Valid
<1> QED  BY <1>1 DEF Fused, Outcomes

\* So does execute(), which catches what a rule raises where the policy is to go on.
LEMMA CaughtTyped ==
  ASSUME NEW o \in Results, NEW rule, NEW x \in Outcomes
  PROVE  Caught(rule, x, o) \in Results \cup {Nothing}
BY DEF Caught, Outcomes

\* What a step in the pipeline does to the round of the thread: the reading goes on through
\* the rules, is rejected or let out, or the round fails.
Stays(t) ==
  /\ \E me \in Round :
       /\ th' = [th EXCEPT ![t] = me]
       /\ me.pc \in {"rule", "half", "clear"} /\ me.cur \in Results
       /\ me.ids = th[t].ids /\ me.at = th[t].at /\ me.batch = th[t].batch
  /\ UNCHANGED ledger

Moves(t) ==
  /\ th[t].pc \in {"rule", "half", "clear"} /\ UNCHANGED <<setup, batching, present, used>>
  /\ \/ Stays(t)
     \/ Rejects(t) /\ UNCHANGED <<readings, stored, offers, excuse, overlapped>>
     \/ Fails(t)
     \/ \E o \in Results : LetsOut(t, o) /\ UNCHANGED <<readings, stored, offers, excuse, overlapped>>

\* What After does to a round.
LEMMA AfterIs ==
  ASSUME Typed, NEW t \in Threads, th[t].pc \in {"rule", "half"}, NEW o \in Results \cup {Nothing}, After(t, o)
  PROVE  /\ UNCHANGED <<readings, stored, offers, excuse, overlapped>>
         /\ IF ~IsResult(o) /\ RuleOf(t).abort /\ th[t].runs = 0 THEN Rejects(t)
            ELSE /\ UNCHANGED <<fate, result, left>>
                 /\ \E me \in Round :
                      /\ th' = [th EXCEPT ![t] = me] /\ me.pc = "rule" /\ me.seen = Null
                      /\ me.ids = th[t].ids /\ me.at = th[t].at /\ me.batch = th[t].batch
                      /\ me.cur = IF IsResult(o) THEN o ELSE th[t].cur
                      /\ \/ me.rule = th[t].rule + 1 /\ me.runs = 0
                         \/ me.rule = th[t].rule /\ me.runs = th[t].runs + 1 /\ th[t].runs < RuleOf(t).loops
<1> DEFINE m == [th[t] EXCEPT !.pc = "rule", !.cur = IF IsResult(o) THEN o ELSE @, !.seen = Null]
           more == m.runs < RuleOf(t).loops /\ (m.runs = 0 \/ IsResult(o))
           on == IF more THEN [m EXCEPT !.runs = @ + 1] ELSE [m EXCEPT !.rule = @ + 1, !.runs = 0]
<1>1. th[t] \in Round /\ th[t].cur \in Results  BY DEF Typed, RoundsTyped, Busy
<1>2. IsResult(o) => o \in Results
  <2>1. Nothing.of = {}  BY DEF Nothing
  <2> QED  BY <2>1 DEF IsResult
<1>3. m \in Round /\ m.pc = "rule" /\ m.seen = Null /\ m.ids = th[t].ids /\ m.at = th[t].at
      /\ m.batch = th[t].batch /\ m.rule = th[t].rule /\ m.runs = th[t].runs
      /\ m.cur = IF IsResult(o) THEN o ELSE th[t].cur
  BY <1>1, <1>2, ValuesTyped DEF Round
<1> HIDE DEF m
<1>4. on \in Round /\ on.pc = "rule" /\ on.seen = Null /\ on.ids = m.ids /\ on.at = m.at
      /\ on.batch = m.batch /\ on.cur = m.cur
      /\ \/ on.rule = m.rule + 1 /\ on.runs = 0
         \/ on.rule = m.rule /\ on.runs = m.runs + 1 /\ m.runs < RuleOf(t).loops
  <2>1. m.runs + 1 \in Nat /\ m.rule + 1 \in Nat  BY <1>3 DEF Round
  <2>2. CASE more
    <3>1. on = [m EXCEPT !.runs = @ + 1]  BY <2>2
    <3> HIDE DEF on, more
    <3>2. on \in Round /\ on.runs = m.runs + 1 /\ on.rule = m.rule  BY <1>3, <2>1, <3>1 DEF Round
    <3>3. m.runs < RuleOf(t).loops  BY <2>2 DEF more
    <3> QED  BY <1>3, <3>1, <3>2, <3>3 DEF Round
  <2>3. CASE ~more
    <3>1. on = [m EXCEPT !.rule = @ + 1, !.runs = 0]  BY <2>3
    <3> HIDE DEF on, more
    <3>2. on \in Round /\ on.runs = 0 /\ on.rule = m.rule + 1  BY <1>3, <2>1, <3>1 DEF Round
    <3> QED  BY <1>3, <3>1, <3>2 DEF Round
  <2> QED  BY <2>2, <2>3
<1>5. UNCHANGED <<readings, stored, offers, excuse, overlapped>>  BY DEF After
<1>6. CASE ~IsResult(o) /\ RuleOf(t).abort /\ th[t].runs = 0
  <2>1. m.runs = 0  BY <1>3, <1>6
  <2> QED  BY <1>5, <1>6, <2>1 DEF After, m
<1>7. CASE ~(~IsResult(o) /\ RuleOf(t).abort /\ th[t].runs = 0)
  <2>1. ~(~IsResult(o) /\ RuleOf(t).abort /\ m.runs = 0)  BY <1>3, <1>7
  <2>2. th' = [th EXCEPT ![t] = on] /\ UNCHANGED <<fate, result, left>>  BY <2>1 DEF After, m
  <2> HIDE DEF on
  <2>3. /\ th' = [th EXCEPT ![t] = on] /\ on.pc = "rule" /\ on.seen = Null
        /\ on.ids = th[t].ids /\ on.at = th[t].at /\ on.batch = th[t].batch
        /\ on.cur = IF IsResult(o) THEN o ELSE th[t].cur
        /\ \/ on.rule = th[t].rule + 1 /\ on.runs = 0
           \/ on.rule = th[t].rule /\ on.runs = th[t].runs + 1 /\ th[t].runs < RuleOf(t).loops
    BY <1>3, <1>4, <2>2
  <2> QED  BY <1>4, <1>5, <1>7, <2>2, <2>3
<1> QED  BY <1>6, <1>7

\* The round after a rule: it stays, goes on by one rule, or is out of the pipeline.
LEMMA AfterMoves ==
  ASSUME Typed, NEW t \in Threads, th[t].pc \in {"rule", "half"}, NEW o \in Results \cup {Nothing},
         After(t, o)
  PROVE  \/ Stays(t)
         \/ Rejects(t) /\ UNCHANGED <<readings, stored, offers, excuse, overlapped>>
<1>1. th[t].cur \in Results /\ (IsResult(o) => o \in Results)
  <2>1. Nothing.of = {}  BY DEF Nothing
  <2>2. IsResult(o) => o \in Results  BY <2>1 DEF IsResult
  <2> QED  BY <2>2 DEF Typed, RoundsTyped, Busy
<1>2. CASE ~IsResult(o) /\ RuleOf(t).abort /\ th[t].runs = 0  BY <1>2, AfterIs
<1>3. CASE ~(~IsResult(o) /\ RuleOf(t).abort /\ th[t].runs = 0)
  <2>1. UNCHANGED ledger  BY <1>3, AfterIs DEF ledger
  <2>2. PICK me \in Round :
          /\ th' = [th EXCEPT ![t] = me] /\ me.pc = "rule"
          /\ me.ids = th[t].ids /\ me.at = th[t].at /\ me.batch = th[t].batch
          /\ me.cur = IF IsResult(o) THEN o ELSE th[t].cur
    BY <1>3, AfterIs
  <2> QED  BY <1>1, <2>1, <2>2 DEF Stays
<1> QED  BY <1>2, <1>3

\* A buffer that is trimmed is a suffix of what it was.
LEMMA TrimmedTyped ==
  ASSUME NEW s \in Seq(Results), NEW n \in Nat
  PROVE  Trimmed(s, n) \in Seq(Results)
<1>1. Len(s) \in Nat /\ (s = <<>> => Len(s) = 0)  BY LenProperties
<1>2. CASE Len(s) > n  BY <1>1, <1>2, HeadTailProperties DEF Trimmed
<1> QED  BY <1>2 DEF Trimmed

\* The result of a window is a result.
LEMMA WindowResultTyped ==
  ASSUME PipeTyped, window.held # <<>>
  PROVE  WindowResult \in Results
<1> DEFINE s == window.held
           p == FirstPoint
           vals == {h.val : h \in OfPoint(p)}
<1>1. s \in Seq(Results) /\ Len(s) \in Nat \ {0} /\ \A i \in 1 .. Len(s) : s[i] \in Results
  BY LenProperties, ElementOfSeq, EmptySeq DEF PipeTyped
<1>2. s[1] \in Results /\ s[1] \in Range(s) /\ p = s[1].point  BY <1>1, LenProperties DEF Range, FirstPoint
<1>3. s[1] \in OfPoint(p) /\ p \in Names  BY <1>2 DEF OfPoint, Results
<1>4. Max(vals) \in Int
  <2>1. vals \subseteq {h.val : h \in Range(s)} /\ vals # {}  BY <1>3 DEF OfPoint
  <2> HIDE DEF vals
  <2> QED  BY <1>1, <2>1, ValuesOfFinite, MaxTyped
<1>5. UNION {h.of : h \in OfPoint(p)} \in SUBSET Nat
  <2>1. \A h \in OfPoint(p) : h \in Results  BY <1>1, LenProperties DEF OfPoint, Range
  <2> QED  BY <2>1 DEF Results
<1> HIDE DEF vals
<1> QED  BY <1>3, <1>4, <1>5 DEF WindowResult, Results, vals

\* It holds a finite number of points.
LEMMA HeldTyped ==
  ASSUME PipeTyped
  PROVE  PointsHeld \in Int
<1> DEFINE s == window.held
           n == Len(s)
           f == [i \in 1 .. n |-> s[i].point]
           all == {h.point : h \in Range(s)}
<1>1. n \in Nat /\ DOMAIN s = 1 .. n  BY LenProperties DEF PipeTyped
<1>2. \A x \in all : \E i \in 1 .. n : f[i] = x  BY <1>1 DEF Range
<1>3. \A i \in 1 .. n : f[i] \in all  BY <1>1 DEF Range
<1>4. f \in Surjection(1 .. n, all)  BY <1>2, <1>3 DEF Surjection
<1>5. IsFiniteSet(all)  BY <1>1, <1>4, FS_NatSurjection DEF ExistsSurjection
<1>6. Cardinality(all) \in Nat
  <2> HIDE DEF all
  <2> QED  BY <1>5, FS_CardinalityType
<1> QED  BY <1>6 DEF PointsHeld

\* What a step in the pipeline does to the round, and the types it keeps.
LEMMA PipelineMoves ==
  ASSUME Typed, NEW t \in Threads, InPipeline(t)
  PROVE  Moves(t) /\ PipeTyped'
<1> DEFINE o == th[t].cur
<1>1. th[t] \in Round /\ (Busy(t) => th[t].cur \in Results) /\ PipeTyped
      /\ UNCHANGED <<setup, batching, present, used>>
  BY DEF Typed, RoundsTyped, InPipeline
<1>2. CASE SkipsRule(t)
  <2> DEFINE me == [th[t] EXCEPT !.rule = @ + 1]
  <2>1. th' = [th EXCEPT ![t] = me] /\ UNCHANGED ledger /\ UNCHANGED pipe /\ th[t].pc = "rule"
    BY <1>2 DEF SkipsRule, InRule
  <2>2. th[t].rule + 1 \in Nat /\ o \in Results  BY <1>1, <2>1 DEF Round, Busy
  <2>3. me \in Round /\ me.pc = "rule" /\ me.cur \in Results
        /\ me.ids = th[t].ids /\ me.at = th[t].at /\ me.batch = th[t].batch
    BY <1>1, <2>1, <2>2 DEF Round
  <2> HIDE DEF me
  <2> QED  BY <1>1, <2>1, <2>3 DEF Moves, Stays, PipeTyped, pipe
<1>3. CASE ConditionRaises(t)
  BY <1>1, <1>3 DEF ConditionRaises, InRule, Moves, PipeTyped, pipe
<1>4. CASE RunsStateless(t)
  <2>1. th[t].pc = "rule" /\ UNCHANGED pipe /\ o \in Results
        /\ After(t, Caught(RuleOf(t), Stateless(RuleOf(t).kind, o), o))
    BY <1>1, <1>4 DEF RunsStateless, Executes, InRule, Busy
  <2>2. Caught(RuleOf(t), Stateless(RuleOf(t).kind, o), o) \in Results \cup {Nothing}
    BY <2>1, StatelessTyped, CaughtTyped
  <2> QED  BY <1>1, <2>1, <2>2, AfterMoves DEF Moves, PipeTyped, pipe
<1>5. CASE ReadsMemory(t)
  <2> DEFINE me == [th[t] EXCEPT !.pc = "half", !.seen = last[o.point]]
  <2>1. th' = [th EXCEPT ![t] = me] /\ UNCHANGED ledger /\ UNCHANGED pipe /\ th[t].pc = "rule"
    BY <1>5 DEF ReadsMemory, Executes, InRule
  <2>2. last[o.point] \in Int /\ o \in Results  BY <1>1, <2>1 DEF Results, Busy, PipeTyped
  <2>3. me \in Round /\ me.pc = "half" /\ me.cur \in Results
        /\ me.ids = th[t].ids /\ me.at = th[t].at /\ me.batch = th[t].batch
    BY <1>1, <2>1, <2>2 DEF Round
  <2> HIDE DEF me
  <2> QED  BY <1>1, <2>1, <2>3 DEF Moves, Stays, PipeTyped, pipe
<1>6. CASE WritesMemory(t)
  <2> DEFINE x == Filtered(RuleOf(t).kind, o, th[t].seen)
  <2>1. th[t].pc = "half" /\ o \in Results /\ After(t, Caught(RuleOf(t), x, o))
        /\ last' = (IF IsResult(x) THEN [last EXCEPT ![x.point] = x.val] ELSE last)
        /\ UNCHANGED <<buffers, window, uploaded>>
    BY <1>1, <1>6 DEF WritesMemory, Busy
  <2>2. x \in Outcomes  BY <2>1, FilteredTyped
  <2> HIDE DEF x
  <2>3. Caught(RuleOf(t), x, o) \in Results \cup {Nothing}  BY <2>1, <2>2, CaughtTyped
  <2>4. IsResult(x) => x \in Results
    <3>1. Nothing.of = {} /\ Raised.of = {}  BY DEF Nothing, Raised
    <3> QED  BY <2>2, <3>1 DEF IsResult, Outcomes
  <2>5. last' \in [Names -> Int]  BY <1>1, <2>1, <2>4 DEF PipeTyped, Results
  <2> QED  BY <1>1, <2>1, <2>3, <2>5, AfterMoves DEF Moves, PipeTyped
<1>7. CASE Appends(t)
  <2> DEFINE me == [th[t] EXCEPT !.pc = "half"]
  <2>1. th' = [th EXCEPT ![t] = me] /\ UNCHANGED ledger /\ UNCHANGED <<last, window, uploaded>>
        /\ th[t].pc = "rule" /\ buffers' = [buffers EXCEPT ![o.point] = Append(@, o)]
    BY <1>7 DEF Appends, Executes, InRule
  <2>2. o \in Results /\ o.point \in Names  BY <1>1, <2>1 DEF Results, Busy
  <2>3. me \in Round /\ me.pc = "half" /\ me.cur \in Results
        /\ me.ids = th[t].ids /\ me.at = th[t].at /\ me.batch = th[t].batch
    BY <1>1, <2>1, <2>2 DEF Round
  <2>4. Append(buffers[o.point], o) \in Seq(Results)  BY <1>1, <2>2, AppendProperties DEF PipeTyped
  <2>5. buffers' \in [Names -> Seq(Results)]  BY <1>1, <2>1, <2>4 DEF PipeTyped
  <2> HIDE DEF me
  <2> QED  BY <1>1, <2>1, <2>3, <2>5 DEF Moves, Stays, PipeTyped
<1>8. CASE LooksAtBuffer(t)
  <2> DEFINE kind == RuleOf(t).kind
             b == Trimmed(buffers[o.point], SizeOf(kind))
             x == IF kind = "aggregate" THEN Aggregated(b, o) ELSE Fused(b, o)
             one == Len(b) > 1 /\ Cardinality(Valid(b)) = 1
  <2>1. th[t].pc = "half" /\ o \in Results /\ After(t, Caught(RuleOf(t), x, o))
        /\ buffers' = [buffers EXCEPT ![o.point] = IF kind = "fusion" /\ one THEN <<>> ELSE b]
        /\ UNCHANGED <<last, window, uploaded>>
    BY <1>1, <1>8 DEF LooksAtBuffer, Busy
  <2>2. SizeOf(kind) \in Nat  BY ProcessingAssumption DEF SizeOf, FusionSize
  <2>3. b \in Seq(Results)  BY <1>1, <2>1, <2>2, TrimmedTyped DEF PipeTyped, Results
  <2> HIDE DEF b, one
  <2>4. x \in Outcomes  BY <2>1, <2>3, AggregatedTyped, FusedTyped
  <2>5. <<>> \in Seq(Results)  BY EmptySeq
  <2>6. buffers' \in [Names -> Seq(Results)]  BY <1>1, <2>1, <2>3, <2>5 DEF PipeTyped
  <2> HIDE DEF x
  <2>7. Caught(RuleOf(t), x, o) \in Results \cup {Nothing}  BY <2>1, <2>4, CaughtTyped
  <2> QED  BY <1>1, <2>1, <2>6, <2>7, AfterMoves DEF Moves, PipeTyped
<1>9. CASE Leaves(t)
  BY <1>1, <1>9 DEF Leaves, Moves, PipeTyped, pipe, Busy
<1>10. CASE ReadsUploaded(t)
  <2> DEFINE me == [th[t] EXCEPT !.pc = "half", !.seen = uploaded[o.point]]
  <2>1. th' = [th EXCEPT ![t] = me] /\ UNCHANGED ledger /\ UNCHANGED pipe /\ th[t].pc = "rule"
    BY <1>10 DEF ReadsUploaded
  <2>2. uploaded[o.point] \in Int /\ o \in Results  BY <1>1, <2>1 DEF Results, Busy, PipeTyped
  <2>3. me \in Round /\ me.pc = "half" /\ me.cur \in Results
        /\ me.ids = th[t].ids /\ me.at = th[t].at /\ me.batch = th[t].batch
    BY <1>1, <2>1, <2>2 DEF Round
  <2> HIDE DEF me
  <2> QED  BY <1>1, <2>1, <2>3 DEF Moves, Stays, PipeTyped, pipe
<1>11. CASE RunsDefault(t)
  <2> DEFINE before == th[t].seen
             feeds == setup.aggregating /\ ~FilterStops(o, before)
  <2>1. th[t].pc = "half" /\ o \in Results  BY <1>1, <1>11 DEF RunsDefault, Busy
  <2>2. CASE FilterRaises(o, before)
    BY <1>1, <1>11, <2>1, <2>2 DEF RunsDefault, Moves, PipeTyped, pipe
  <2>3. CASE ~FilterRaises(o, before)
    <3>1. PICK due \in BOOLEAN :
            /\ uploaded' = IF setup.filtering /\ ~FilterStops(o, before)
                           THEN [uploaded EXCEPT ![o.point] = o.val] ELSE uploaded
            /\ IF feeds /\ Closes(due)
               THEN /\ th' = [th EXCEPT ![t].pc = "clear", ![t].cur = WindowResult, ![t].seen = PointsHeld]
                    /\ UNCHANGED <<window, fate, result, left>>
               ELSE /\ IF feeds THEN Adds(o) ELSE UNCHANGED window
                    /\ LetsOut(t, o)
            /\ UNCHANGED <<last, buffers, readings, stored, offers, excuse, overlapped>>
      BY <1>11, <2>3 DEF RunsDefault
    <3>2. uploaded' \in [Names -> Int]  BY <1>1, <2>1, <3>1 DEF PipeTyped, Results
    <3> HIDE DEF feeds, before
    <3>3. CASE feeds /\ Closes(due)
      <4> DEFINE me == [th[t] EXCEPT !.pc = "clear", !.cur = WindowResult, !.seen = PointsHeld]
      <4>1. th' = [th EXCEPT ![t] = me] /\ UNCHANGED ledger /\ UNCHANGED window
        BY <3>1, <3>3 DEF ledger
      <4>2. WindowResult \in Results /\ PointsHeld \in Int
        BY <1>1, <3>3, WindowResultTyped, HeldTyped DEF Closes
      <4>3. me \in Round /\ me.pc = "clear" /\ me.cur \in Results
            /\ me.ids = th[t].ids /\ me.at = th[t].at /\ me.batch = th[t].batch
        BY <1>1, <4>2 DEF Round
      <4> HIDE DEF me
      <4> QED  BY <1>1, <2>1, <3>1, <3>2, <4>1, <4>3 DEF Moves, Stays, PipeTyped
    <3>4. CASE ~(feeds /\ Closes(due))
      <4>1. window' \in [open : BOOLEAN, held : Seq(Results)]
        <5>1. Append(window.held, o) \in Seq(Results) /\ window.held \in Seq(Results)
          BY <1>1, <2>1, AppendProperties DEF PipeTyped
        <5>2. window' = window \/ Adds(o)  BY <3>1, <3>4
        <5>3. CASE window' = window  BY <1>1, <5>3 DEF PipeTyped
        <5>4. CASE Adds(o)
          <6>1. PICK s \in Seq(Results) : window' = [open |-> TRUE, held |-> s]
            BY <5>1, <5>4 DEF Adds
          <6> QED  BY <6>1
        <5> QED  BY <5>2, <5>3, <5>4
      <4> QED  BY <1>1, <2>1, <3>1, <3>2, <3>4, <4>1 DEF Moves, PipeTyped
    <3> QED  BY <3>3, <3>4
  <2> QED  BY <2>2, <2>3
<1>12. CASE Clears(t)
  <2>1. th[t].pc = "clear" /\ o \in Results /\ LetsOut(t, o)
        /\ window' = [open |-> TRUE, held |-> <<>>]
        /\ UNCHANGED <<last, buffers, uploaded, readings, stored, offers, excuse, overlapped>>
    BY <1>1, <1>12 DEF Clears, Busy
  <2>2. <<>> \in Seq(Results)  BY EmptySeq
  <2> QED  BY <1>1, <2>1, <2>2 DEF Moves, PipeTyped
<1>13. CASE WindowRaises(t)
  BY <1>1, <1>13 DEF WindowRaises, Moves, PipeTyped, pipe
<1> QED  BY <1>2, <1>3, <1>4, <1>5, <1>6, <1>7, <1>8, <1>9, <1>10, <1>11, <1>12, <1>13 DEF InPipeline

\* A function on 1 .. n is a sequence.
LEMMA FunctionIsSeq ==
  ASSUME NEW S, NEW n \in Nat, NEW f \in [1 .. n -> S]
  PROVE  f \in Seq(S) /\ Len(f) = n
<1>1. f \in Seq(S)  BY SeqDef
<1>2. Len(f) \in Nat /\ 1 .. Len(f) = 1 .. n  BY <1>1, LenProperties
<1> QED  BY <1>1, <1>2

\* The reading a round begins with, or goes on to.
Taken(rs, i, id) == [point |-> Points[i], val |-> rs[id].val, of |-> {id}]

\* A round in order, with so many readings: what RoundsTyped says of a busy thread.
InOrder(me, k) ==
  /\ me \in Round /\ Len(me.ids) = setup.points /\ me.at \in 1 .. Len(me.ids) /\ me.cur \in Results
  /\ \A i \in 1 .. Len(me.ids) : me.ids[i] \in 1 .. k
  /\ \A i, j \in 1 .. Len(me.ids) : i < j => me.ids[i] < me.ids[j]

\* A round has its ids in the order in which they were read.
LEMMA BusyInOrder ==
  ASSUME Typed, NEW t \in Threads, Busy(t)
  PROVE  InOrder(th[t], Len(readings)) /\ Id(t) \in 1 .. Len(readings)
BY DEF Typed, RoundsTyped, InOrder, Id

\* A round goes on to its next point, at the first rule, or to its batch after the last.
LEMMA NextPointIs ==
  ASSUME Typed, NEW me, InOrder(me, Len(readings))
  PROVE  LET n == NextPoint(me)
         IN /\ n \in Round /\ n.cur \in Results /\ n.ids = me.ids /\ n.batch = me.batch
            /\ \/ n.pc = "batch" /\ n.at = me.at /\ me.at = Len(me.ids)
               \/ /\ n.pc = "rule" /\ n.at = me.at + 1 /\ n.at \in 1 .. Len(me.ids)
                  /\ n.cur = Taken(readings, n.at, n.ids[n.at]) /\ n.rule = 1 /\ n.runs = 0
<1> DEFINE n == NextPoint(me)
<1>1. me \in Round /\ me.at \in 1 .. Len(me.ids) /\ Len(me.ids) = setup.points /\ me.cur \in Results
  BY DEF InOrder
<1>2. CASE me.at = Len(me.ids)
  <2>1. n = [me EXCEPT !.pc = "batch"]  BY <1>2 DEF NextPoint
  <2> QED  BY <1>1, <1>2, <2>1 DEF Round
<1>3. CASE me.at # Len(me.ids)
  <2> DEFINE k == me.at + 1
             c == Taken(readings, k, me.ids[k])
  <2>1. k \in 1 .. Len(me.ids) /\ k \in Nat  BY <1>1, <1>3, SetupTyped DEF Typed, Setup
  <2>2. me.ids[k] \in 1 .. Len(readings) /\ me.ids[k] \in Nat  BY <2>1 DEF InOrder
  <2>3. readings[me.ids[k]].val \in Int
    <3>1. readings[me.ids[k]] \in [point : Names, val : Values]  BY <2>2, ElementOfSeq DEF Typed, LedgerTyped
    <3> QED  BY <3>1, ValuesTyped
  <2>4. Points[k] \in Names  BY <1>1, <2>1, SetupTyped DEF Typed
  <2>5. c \in Results  BY <2>2, <2>3, <2>4 DEF Results, Taken
  <2>6. n = [me EXCEPT !.pc = "rule", !.at = k, !.rule = 1, !.runs = 0, !.seen = Null, !.cur = c]
    BY <1>3 DEF NextPoint, Taken
  <2> HIDE DEF c
  <2>7. n \in Round
    <3>1. n = [pc |-> "rule", ids |-> me.ids, at |-> k, rule |-> 1, runs |-> 0, cur |-> c, seen |-> Null,
               batch |-> me.batch]
      BY <1>1, <2>6 DEF Round
    <3>2. me.ids \in Seq(Nat) /\ me.batch \in Seq([id : Nat, res : Results])  BY <1>1 DEF Round
    <3> QED  BY <2>1, <2>5, <3>1, <3>2, ValuesTyped DEF Round
  <2>8. n.pc = "rule" /\ n.at = k /\ n.cur = c /\ n.rule = 1 /\ n.runs = 0 /\ n.ids = me.ids /\ n.batch = me.batch
    BY <1>1, <2>6 DEF Round
  <2> QED  BY <2>1, <2>5, <2>7, <2>8 DEF c
<1> QED  BY <1>2, <1>3

\* The round that begins with the readings after the first k, and what begins with it.
NewRound(rs, k) ==
  [NoRound EXCEPT !.pc = "rule", !.ids = [i \in 1 .. setup.points |-> k + i], !.cur = Taken(rs, 1, k + 1)]

\* The ledgers when a round's readings are added to them.
LEMMA Extended ==
  ASSUME NEW S, NEW s \in Seq(S), NEW n \in Nat, NEW f \in [1 .. n -> S]
  PROVE  /\ s \o f \in Seq(S) /\ Len(s) \in Nat /\ Len(s \o f) = Len(s) + n
         /\ \A i \in 1 .. Len(s) : (s \o f)[i] = s[i]
         /\ \A i \in 1 .. n : (s \o f)[Len(s) + i] = f[i]
<1>1. f \in Seq(S) /\ Len(f) = n /\ Len(s) \in Nat  BY FunctionIsSeq, LenProperties
<1>2. \A i \in 1 .. Len(s) + n : (s \o f)[i] = IF i <= Len(s) THEN s[i] ELSE f[i - Len(s)]
  BY <1>1, ConcatProperties
<1>3. ASSUME NEW i \in 1 .. n PROVE (s \o f)[Len(s) + i] = f[i]
  <2>1. Len(s) + i \in 1 .. Len(s) + n /\ ~(Len(s) + i <= Len(s)) /\ (Len(s) + i) - Len(s) = i  BY <1>1
  <2> QED  BY <1>2, <2>1
<1>4. \A i \in 1 .. Len(s) : (s \o f)[i] = s[i]  BY <1>1, <1>2
<1> QED  BY <1>1, <1>3, <1>4, ConcatProperties

LEMMA BeginIs ==
  ASSUME Typed, NEW t \in Threads, Begin(t)
  PROVE  LET k == Len(readings)
             n == setup.points
         IN /\ LedgerTyped' /\ Len(readings)' = k + n /\ k \in Nat /\ n \in Nat /\ n >= 1
            /\ th[t].pc = "idle" /\ UNCHANGED <<setup, batching, present, pipe, left, stored>>
            /\ excuse' = IF present THEN excuse ELSE [excuse EXCEPT !.settings = @ \cup k + 1 .. k + n]
            /\ \A i \in 1 .. k : /\ readings'[i] = readings[i] /\ fate'[i] = fate[i]
                                /\ result'[i] = result[i] /\ offers'[i] = offers[i]
            /\ \A i \in k + 1 .. k + n : result'[i] = Nothing /\ offers'[i] = 0
            /\ \/ /\ th' = th /\ overlapped' = overlapped
                  /\ \A i \in k + 1 .. k + n : fate'[i] = "lost"
               \/ /\ th' = [th EXCEPT ![t] = NewRound(readings', k)]
                  /\ InOrder(NewRound(readings', k), k + n) /\ NewRound(readings', k).pc = "rule"
                  /\ overlapped' = (overlapped \/ \E u \in Threads \ {t} : Busy(u))
                  /\ \A i \in k + 1 .. k + n : fate'[i] = "inside"
<1> DEFINE k == Len(readings)
           n == setup.points
<1> USE DEF Typed
<1>1. n \in Nat /\ n >= 1 /\ k \in Nat /\ n \in 1 .. Len(Points) /\ setup.values \subseteq Values
      /\ \A i \in 1 .. n : Points[i] \in Names
  BY SetupTyped, LenProperties DEF LedgerTyped
<1>2. PICK vals \in [1 .. n -> setup.values] :
        LET ids == [i \in 1 .. n |-> k + i]
            fails == setup.limits /\ Text \in Range(vals)
        IN /\ readings' = readings \o [i \in 1 .. n |-> [point |-> Points[i], val |-> vals[i]]]
           /\ fate' = fate \o [i \in 1 .. n |-> IF fails THEN "lost" ELSE "inside"]
           /\ result' = result \o [i \in 1 .. n |-> Nothing]
           /\ offers' = offers \o [i \in 1 .. n |-> 0]
           /\ th' = IF fails THEN th
                    ELSE [th EXCEPT ![t] = [NoRound EXCEPT
                           !.pc = "rule", !.ids = ids,
                           !.cur = [point |-> Points[1], val |-> vals[1], of |-> {ids[1]}]]]
           /\ overlapped' = (overlapped \/ (~fails /\ \E u \in Threads \ {t} : th[u].pc # "idle"))
           /\ excuse' = IF present THEN excuse ELSE [excuse EXCEPT !.settings = @ \cup Range(ids)]
  BY DEF Begin
<1> DEFINE fails == setup.limits /\ Text \in Range(vals)
           rs == [i \in 1 .. n |-> [point |-> Points[i], val |-> vals[i]]]
           fs == [i \in 1 .. n |-> IF fails THEN "lost" ELSE "inside"]
<1>3. /\ UNCHANGED <<setup, batching, present, pipe, left, stored>> /\ th[t].pc = "idle"
      /\ excuse' = IF present THEN excuse ELSE [excuse EXCEPT !.settings = @ \cup k + 1 .. k + n]
  <2> DEFINE ids == [i \in 1 .. n |-> k + i]
  <2>1. \A j \in k + 1 .. k + n : j - k \in 1 .. n /\ ids[j - k] = j  BY <1>1
  <2>2. \A i \in 1 .. n : ids[i] \in k + 1 .. k + n  BY <1>1
  <2>3. Range(ids) = k + 1 .. k + n  BY <2>1, <2>2 DEF Range
  <2> HIDE DEF ids, k, n
  <2>4. excuse' = IF present THEN excuse ELSE [excuse EXCEPT !.settings = @ \cup Range(ids)]
    BY <1>2 DEF ids, k, n
  <2> QED  BY <2>3, <2>4 DEF Begin
<1>4. rs \in [1 .. n -> [point : Names, val : Values]] /\ fs \in [1 .. n -> Fates]
      /\ [i \in 1 .. n |-> Nothing] \in [1 .. n -> Results \cup {Nothing}]
      /\ [i \in 1 .. n |-> 0] \in [1 .. n -> Nat]
  BY <1>1 DEF Fates
<1>5. /\ readings \in Seq([point : Names, val : Values]) /\ fate \in Seq(Fates) /\ Len(fate) = k
      /\ result \in Seq(Results \cup {Nothing}) /\ Len(result) = k
      /\ offers \in Seq(Nat) /\ Len(offers) = k
  BY DEF LedgerTyped
<1>6. /\ readings' \in Seq([point : Names, val : Values]) /\ Len(readings') = k + n
      /\ \A i \in 1 .. k : readings'[i] = readings[i]
      /\ \A i \in 1 .. n : readings'[k + i] = rs[i]
  <2> DEFINE R == [point : Names, val : Values]
  <2>1. readings \in Seq(R) /\ rs \in [1 .. n -> R]  BY <1>4, <1>5
  <2> HIDE DEF rs, R
  <2>2. /\ readings \o rs \in Seq(R) /\ Len(readings \o rs) = k + n
        /\ \A i \in 1 .. k : (readings \o rs)[i] = readings[i]
        /\ \A i \in 1 .. n : (readings \o rs)[k + i] = rs[i]
    <3>1. n \in Nat  BY <1>1
    <3> HIDE DEF n, fails, fs, Typed
    <3>2. readings \o rs \in Seq(R) /\ Len(readings \o rs) = Len(readings) + n  BY <2>1, <3>1, Extended
    <3>3. \A i \in 1 .. Len(readings) : (readings \o rs)[i] = readings[i]  BY <2>1, <3>1, Extended
    <3>4. \A i \in 1 .. n : (readings \o rs)[Len(readings) + i] = rs[i]  BY <2>1, <3>1, Extended
    <3> QED  BY <3>2, <3>3, <3>4
  <2>3. readings' = readings \o rs  BY <1>2 DEF rs
  <2> QED  BY <2>2, <2>3 DEF R
<1>7. /\ fate' \in Seq(Fates) /\ Len(fate') = k + n
      /\ \A i \in 1 .. k : fate'[i] = fate[i]
      /\ \A i \in 1 .. n : fate'[k + i] = fs[i]
  BY <1>1, <1>2, <1>4, <1>5, Extended
<1>8. /\ result' \in Seq(Results \cup {Nothing}) /\ Len(result') = k + n
      /\ \A i \in 1 .. k : result'[i] = result[i]
      /\ \A i \in 1 .. n : result'[k + i] = Nothing
  BY <1>1, <1>2, <1>4, <1>5, Extended
<1>9. /\ offers' \in Seq(Nat) /\ Len(offers') = k + n
      /\ \A i \in 1 .. k : offers'[i] = offers[i]
      /\ \A i \in 1 .. n : offers'[k + i] = 0
  BY <1>1, <1>2, <1>4, <1>5, Extended
<1>10. \A i \in k + 1 .. k + n : i - k \in 1 .. n /\ i = k + (i - k)  BY <1>1
<1>11. \A i \in k + 1 .. k + n : result'[i] = Nothing /\ offers'[i] = 0 /\ fate'[i] = IF fails THEN "lost" ELSE "inside"
  <2> HIDE DEF fails
  <2> QED  BY <1>7, <1>8, <1>9, <1>10
<1>12. LedgerTyped'
  <2>1. left' \in [Names -> Int] /\ stored' \subseteq 1 .. k + n /\ overlapped' \in BOOLEAN
    BY <1>1, <1>2, <1>3 DEF LedgerTyped
  <2> QED  BY <1>6, <1>7, <1>8, <1>9, <2>1 DEF LedgerTyped
<1>13. CASE fails
  <2> HIDE DEF fails
  <2>1. th' = th /\ overlapped' = overlapped  BY <1>2, <1>13 DEF fails, LedgerTyped
  <2> QED  BY <1>1, <1>3, <1>6, <1>7, <1>8, <1>9, <1>11, <1>12, <1>13, <2>1
<1>14. CASE ~fails
  <2> DEFINE me == NewRound(readings', k)
             ids == [i \in 1 .. n |-> k + i]
             c == Taken(readings', 1, k + 1)
  <2>1. c = [point |-> Points[1], val |-> vals[1], of |-> {ids[1]}]
    <3>1. 1 \in 1 .. n /\ ids[1] = k + 1  BY <1>1
    <3>2. readings'[k + 1] = rs[1] /\ rs[1].val = vals[1]  BY <1>6, <3>1
    <3> QED  BY <3>1, <3>2 DEF Taken
  <2>2. th' = [th EXCEPT ![t] = me] /\ me = [NoRound EXCEPT !.pc = "rule", !.ids = ids, !.cur = c]
    BY <1>2, <1>3, <1>14, <2>1 DEF NewRound
  <2>3. c \in Results
    <3>1. 1 \in 1 .. n /\ ids[1] \in Nat  BY <1>1
    <3>2. vals[1] \in Values /\ Points[1] \in Names  BY <1>1, <3>1
    <3> HIDE DEF c
    <3> QED  BY <2>1, <3>1, <3>2, ValuesTyped DEF Results
  <2>4. ids \in Seq(Nat) /\ Len(ids) = n
    <3>1. n \in Nat /\ ids \in [1 .. n -> Nat]  BY <1>1
    <3> HIDE DEF n, ids, c, me, Typed
    <3> QED  BY <3>1, FunctionIsSeq
  <2> HIDE DEF c, me
  <2>5. me = [pc |-> "rule", ids |-> ids, at |-> 1, rule |-> 1, runs |-> 0, cur |-> c, seen |-> Null, batch |-> <<>>]
    BY <2>2 DEF NoRound
  <2>6. me \in Round
    <3>1. <<>> \in Seq([id : Nat, res : Results])  BY EmptySeq
    <3> HIDE DEF ids
    <3> QED  BY <2>3, <2>4, <2>5, <3>1, ValuesTyped DEF Round
  <2>7. InOrder(NewRound(readings', k), k + n)
    <3>1. me.ids = ids /\ me.at = 1 /\ me.cur = c /\ me.pc = "rule"  BY <2>5
    <3>2. \A i \in 1 .. n : ids[i] \in 1 .. k + n  BY <1>1
    <3>3. \A i, j \in 1 .. n : i < j => ids[i] < ids[j]  BY <1>1
    <3> HIDE DEF ids
    <3> QED  BY <1>1, <1>3, <1>6, <2>3, <2>4, <2>6, <3>1, <3>2, <3>3 DEF InOrder, me
  <2>8. overlapped' = (overlapped \/ \E u \in Threads \ {t} : Busy(u))  BY <1>2, <1>14 DEF Busy
  <2>9. NewRound(readings', k).pc = "rule"  BY <2>5 DEF me
  <2> HIDE DEF fails
  <2> QED  BY <1>1, <1>3, <1>6, <1>7, <1>8, <1>9, <1>11, <1>12, <1>14, <2>2, <2>7, <2>8, <2>9 DEF me
<1> QED  BY <1>13, <1>14

LEMMA BeginPoints ==
  ASSUME Typed, NEW t \in Threads, Begin(t)
  PROVE  \A i \in 1 .. setup.points : readings'[Len(readings) + i].point = Points[i]
<1> DEFINE n == setup.points
           R == [point : Names, val : Values]
<1>1. PICK vals \in [1 .. n -> setup.values] :
        readings' = readings \o [i \in 1 .. n |-> [point |-> Points[i], val |-> vals[i]]]
  BY DEF Begin
<1> DEFINE rs == [i \in 1 .. n |-> [point |-> Points[i], val |-> vals[i]]]
<1>2. readings \in Seq(R) /\ rs \in [1 .. n -> R] /\ n \in Nat
  <2>1. n \in 1 .. Len(Points) /\ Len(Points) \in Nat /\ \A i \in 1 .. n : Points[i] \in Names /\ vals[i] \in Values
    BY SetupTyped DEF Typed
  <2> QED  BY <2>1 DEF Typed, LedgerTyped
<1>3. \A i \in 1 .. n : rs[i].point = Points[i]  OBVIOUS
<1> HIDE DEF R, rs
<1>4. \A i \in 1 .. n : (readings \o rs)[Len(readings) + i] = rs[i]  BY <1>2, Extended
<1> QED  BY <1>1, <1>3, <1>4 DEF rs

\* A step of one round keeps the types of the rounds when it keeps that round's own,
LEMMA RoundsKept ==
  ASSUME Typed, NEW t \in Threads, NEW me, th' = [th EXCEPT ![t] = me], setup' = setup,
         Len(readings') \in Nat, Len(readings') >= Len(readings),
         \/ me = NoRound
         \/ /\ me.pc # "idle" /\ InOrder(me, Len(readings'))
            /\ me.pc = "batch" => me.at = Len(me.ids)
  PROVE  RoundsTyped'
<1>1. me \in Round  BY NoRoundTyped DEF InOrder
<1>2. th' \in [Threads -> Round] /\ th'[t] = me /\ \A u \in Threads \ {t} : th'[u] = th[u]
  BY <1>1 DEF Typed, RoundsTyped
<1>3. ASSUME NEW u \in Threads, u # t, th[u].pc # "idle"
      PROVE  \A i \in 1 .. Len(th[u].ids) : th[u].ids[i] \in 1 .. Len(readings')
  <2>1. Len(readings) \in Nat  BY LenProperties DEF Typed, LedgerTyped
  <2> QED  BY <1>3, <2>1 DEF Typed, RoundsTyped, Busy
<1>4. ASSUME NEW u \in Threads, u # t
      PROVE  IF Busy(u)' THEN /\ Len(th'[u].ids) = setup'.points /\ th'[u].at \in 1 .. Len(th'[u].ids)
                              /\ th'[u].cur \in Results
                              /\ \A i \in 1 .. Len(th'[u].ids) : th'[u].ids[i] \in 1 .. Len(readings')
                              /\ \A i, j \in 1 .. Len(th'[u].ids) : i < j => th'[u].ids[i] < th'[u].ids[j]
                              /\ th'[u].pc = "batch" => th'[u].at = Len(th'[u].ids)
             ELSE th'[u] = NoRound
  BY <1>2, <1>3, <1>4 DEF Typed, RoundsTyped, Busy
<1>5. CASE me = NoRound
  <2>1. ~Busy(t)' /\ th'[t] = NoRound  BY <1>2, <1>5 DEF Busy, NoRound
  <2> QED  BY <1>2, <1>4, <2>1 DEF RoundsTyped
<1>6. CASE me # NoRound
  <2>1. Busy(t)'  BY <1>2, <1>6 DEF Busy
  <2> QED  BY <1>2, <1>4, <1>6, <2>1 DEF RoundsTyped, InOrder
<1> QED  BY <1>5, <1>6

\* and so it does when the readings are the same.
LEMMA RoundsStay ==
  ASSUME Typed, NEW t \in Threads, NEW me, th' = [th EXCEPT ![t] = me], setup' = setup, readings' = readings,
         \/ me = NoRound
         \/ /\ me.pc # "idle" /\ InOrder(me, Len(readings))
            /\ me.pc = "batch" => me.at = Len(me.ids)
  PROVE  RoundsTyped'
<1>1. Len(readings) \in Nat  BY LenProperties DEF Typed, LedgerTyped
<1>2. Len(readings') \in Nat /\ Len(readings') >= Len(readings)  BY <1>1
<1>3. \/ me = NoRound
      \/ me.pc # "idle" /\ InOrder(me, Len(readings')) /\ (me.pc = "batch" => me.at = Len(me.ids))
  OBVIOUS
<1> QED  BY <1>2, <1>3, RoundsKept

\* The history of what the pipeline did, with an entry changed.
LEMMA EntryChanged ==
  ASSUME Typed, NEW t \in Threads, Busy(t)
  PROVE  /\ \A f \in Fates : /\ [fate EXCEPT ![Id(t)] = f] \in Seq(Fates)
                            /\ Len([fate EXCEPT ![Id(t)] = f]) = Len(readings)
         /\ \A o \in Results : /\ [result EXCEPT ![Id(t)] = o] \in Seq(Results \cup {Nothing})
                              /\ Len([result EXCEPT ![Id(t)] = o]) = Len(readings)
         /\ \A n \in Nat : /\ [offers EXCEPT ![Id(t)] = n] \in Seq(Nat)
                          /\ Len([offers EXCEPT ![Id(t)] = n]) = Len(readings)
<1>1. Id(t) \in 1 .. Len(readings)  BY BusyInOrder
<1>2. /\ fate \in Seq(Fates) /\ Len(fate) = Len(readings)
      /\ result \in Seq(Results \cup {Nothing}) /\ Len(result) = Len(readings)
      /\ offers \in Seq(Nat) /\ Len(offers) = Len(readings)
  BY DEF Typed, LedgerTyped
<1> QED  BY <1>1, <1>2, ExceptSeq

\* The pipeline keeps the types.
LEMMA MovesTyped ==
  ASSUME Typed, NEW t \in Threads, Moves(t), PipeTyped'
  PROVE  Typed'
<1>1. /\ Busy(t) /\ InOrder(th[t], Len(readings)) /\ Len(readings) \in Nat /\ Id(t) \in 1 .. Len(readings)
      /\ readings' = readings /\ setup' = setup /\ batching' = batching /\ present' = present
  BY BusyInOrder, LenProperties DEF Moves, Busy, Typed, LedgerTyped, Stays, Rejects, Fails, LetsOut, ledger
<1>2. CASE Stays(t)
  <2>1. PICK me \in Round :
          /\ th' = [th EXCEPT ![t] = me]
          /\ me.pc \in {"rule", "half", "clear"} /\ me.cur \in Results
          /\ me.ids = th[t].ids /\ me.at = th[t].at
    BY <1>2 DEF Stays
  <2>2. InOrder(me, Len(readings))  BY <1>1, <2>1 DEF InOrder
  <2>3. RoundsTyped'  BY <1>1, <2>1, <2>2, RoundsStay
  <2>4. LedgerTyped'  BY <1>2 DEF Typed, LedgerTyped, Stays, ledger
  <2> QED  BY <1>1, <2>3, <2>4 DEF Typed
<1>3. CASE Rejects(t) /\ UNCHANGED <<readings, stored, offers, excuse, overlapped>>
  <2> DEFINE me == NextPoint(th[t])
  <2>1. th' = [th EXCEPT ![t] = me] /\ fate' = [fate EXCEPT ![Id(t)] = "rejected"]
        /\ UNCHANGED <<result, left, readings, stored, offers, overlapped>>
    <3>1. th[t] \in Round /\ t \in DOMAIN th  BY DEF Typed, RoundsTyped
    <3> QED  BY <1>3, <3>1 DEF Rejects
  <2>2. InOrder(me, Len(readings)) /\ me.pc # "idle" /\ (me.pc = "batch" => me.at = Len(me.ids))
    BY <1>1, NextPointIs DEF InOrder
  <2> HIDE DEF me
  <2>3. RoundsTyped'  BY <1>1, <2>1, <2>2, RoundsStay
  <2>4. LedgerTyped'  BY <1>1, <2>1, EntryChanged DEF Typed, LedgerTyped, Fates
  <2> QED  BY <1>1, <2>3, <2>4 DEF Typed
<1>4. CASE Fails(t)
  <2>1. th' = [th EXCEPT ![t] = NoRound] /\ UNCHANGED <<result, left, readings, stored, offers, overlapped>>
    BY <1>4 DEF Fails
  <2>2. RoundsTyped'  BY <1>1, <2>1, RoundsStay
  <2>3. fate' \in Seq(Fates) /\ Len(fate') = Len(readings)
    <3>1. DOMAIN fate = 1 .. Len(readings) /\ \A i \in 1 .. Len(readings) : fate[i] \in Fates
      BY LenProperties, ElementOfSeq DEF Typed, LedgerTyped
    <3>2. fate' \in [1 .. Len(readings) -> Fates]  BY <1>4, <3>1 DEF Fails, Fates
    <3> QED  BY <1>1, <3>2, FunctionIsSeq
  <2>4. LedgerTyped'  BY <1>1, <2>1, <2>3 DEF Typed, LedgerTyped
  <2> QED  BY <1>1, <2>2, <2>4 DEF Typed
<1>5. ASSUME NEW o \in Results, LetsOut(t, o), UNCHANGED <<readings, stored, offers, excuse, overlapped>>
      PROVE  Typed'
  <2> DEFINE me == [th[t] EXCEPT !.pc = "out", !.cur = o]
  <2>1. th' = [th EXCEPT ![t] = me]  BY <1>5 DEF LetsOut, Typed, RoundsTyped
  <2>2. InOrder(me, Len(readings)) /\ me.pc = "out"  BY <1>1, <1>5 DEF InOrder, Round
  <2> HIDE DEF me
  <2>3. RoundsTyped'  BY <1>1, <2>1, <2>2, RoundsStay
  <2>4. left' \in [Names -> Int]  BY <1>5 DEF LetsOut, Typed, LedgerTyped, Results
  <2>5. LedgerTyped'  BY <1>1, <1>5, <2>4, EntryChanged DEF Typed, LedgerTyped, LetsOut, Fates
  <2> QED  BY <1>1, <2>3, <2>5 DEF Typed
<1> QED  BY <1>2, <1>3, <1>4, <1>5 DEF Moves

LEMMA OnDataIs ==
  ASSUME Typed, NEW t \in Threads, OnData(t)
  PROVE  /\ th[t].pc = "out" /\ Busy(t) /\ InOrder(th[t], Len(readings)) /\ Id(t) \in 1 .. Len(readings)
         /\ UNCHANGED <<setup, batching, present, pipe, readings, fate, result, left, overlapped>>
         /\ \E me \in Round, refused, stops \in BOOLEAN :
              /\ th' = [th EXCEPT ![t] = me] /\ InOrder(me, Len(readings)) /\ me.ids = th[t].ids
              /\ me.batch = Append(th[t].batch, [id |-> Id(t), res |-> th[t].cur])
              /\ \/ me.pc = "batch" /\ me.at = th[t].at /\ me.at = Len(me.ids)
                 \/ /\ me.pc = "rule" /\ me.at = th[t].at + 1
                    /\ me.cur = Taken(readings, me.at, me.ids[me.at]) /\ me.rule = 1 /\ me.runs = 0
              /\ stored' = IF refused THEN stored ELSE stored \cup {Id(t)}
              /\ offers' = IF refused \/ batching \/ ~present \/ stops THEN offers ELSE [offers EXCEPT ![Id(t)] = @ + 1]
              /\ excuse' = IF stops /\ ~batching /\ present THEN [excuse EXCEPT !.filter = @ \cup {Id(t)}] ELSE excuse
<1> DEFINE o == th[t].cur
           x == Batched(th[t], Id(t))
           me == NextPoint(x)
<1>1. th[t].pc = "out" /\ Busy(t) /\ th[t] \in Round /\ th \in [Threads -> Round]
      /\ UNCHANGED <<setup, batching, present, pipe, readings, fate, result, left, overlapped>>
  BY DEF OnData, Busy, Typed, RoundsTyped
<1>2. InOrder(th[t], Len(readings)) /\ Id(t) \in 1 .. Len(readings)  BY <1>1, BusyInOrder
<1>3. [id |-> Id(t), res |-> o] \in [id : Nat, res : Results]  BY <1>2 DEF InOrder
<1>4. Append(th[t].batch, [id |-> Id(t), res |-> o]) \in Seq([id : Nat, res : Results])
  <2> DEFINE R == [id : Nat, res : Results]
             e == [id |-> Id(t), res |-> o]
  <2>1. th[t].batch \in Seq(R) /\ e \in R  BY <1>1, <1>3 DEF Round
  <2> HIDE DEF R, e
  <2>2. Append(th[t].batch, e) \in Seq(R)  BY <2>1, AppendProperties
  <2> QED  BY <2>2 DEF R, e
<1>5. x \in Round /\ x.ids = th[t].ids /\ x.at = th[t].at /\ x.cur = o
      /\ x.batch = Append(th[t].batch, [id |-> Id(t), res |-> o])
  BY <1>1, <1>4 DEF Round, Batched
<1> HIDE DEF x
<1>6. InOrder(x, Len(readings))  BY <1>2, <1>5 DEF InOrder
<1>7. /\ me \in Round /\ me.cur \in Results /\ me.ids = x.ids /\ me.batch = x.batch
      /\ \/ me.pc = "batch" /\ me.at = x.at /\ x.at = Len(x.ids)
         \/ /\ me.pc = "rule" /\ me.at = x.at + 1 /\ me.at \in 1 .. Len(x.ids)
            /\ me.cur = Taken(readings, me.at, me.ids[me.at]) /\ me.rule = 1 /\ me.runs = 0
  BY <1>6, NextPointIs
<1> HIDE DEF me
<1>8. InOrder(me, Len(readings))  BY <1>6, <1>7 DEF InOrder
<1>9. \E refused, stops \in BOOLEAN :
        /\ th' = [th EXCEPT ![t] = me]
        /\ stored' = IF refused THEN stored ELSE stored \cup {Id(t)}
        /\ offers' = IF refused \/ batching \/ ~present \/ stops THEN offers ELSE [offers EXCEPT ![Id(t)] = @ + 1]
        /\ excuse' = IF stops /\ ~batching /\ present THEN [excuse EXCEPT !.filter = @ \cup {Id(t)}] ELSE excuse
  <2> DEFINE stops == FilterStops(o, Null)
  <2>1. stops \in BOOLEAN  BY DEF FilterStops
  <2>2. th' = [th EXCEPT ![t] = me]
    <3>1. th' = [th EXCEPT ![t] = NextPoint(Batched(@, Id(t)))]  BY DEF OnData
    <3> QED  BY <1>1, <3>1 DEF me, x
  <2>3. PICK refused \in BOOLEAN :
          /\ stored' = IF refused THEN stored ELSE stored \cup {Id(t)}
          /\ offers' = IF refused \/ batching \/ ~present \/ stops THEN offers ELSE [offers EXCEPT ![Id(t)] = @ + 1]
          /\ excuse' = IF stops /\ ~batching /\ present THEN [excuse EXCEPT !.filter = @ \cup {Id(t)}] ELSE excuse
    BY DEF OnData
  <2> HIDE DEF stops
  <2> QED  BY <2>1, <2>2, <2>3
<1> QED  BY <1>1, <1>2, <1>5, <1>7, <1>8, <1>9

LEMMA OnBatchIs ==
  ASSUME Typed, NEW t \in Threads, OnBatch(t)
  PROVE  /\ th[t].pc = "batch" /\ th' = [th EXCEPT ![t] = NoRound]
         /\ UNCHANGED <<setup, batching, present, pipe, readings, fate, result, left, stored, overlapped>>
         /\ \E sent \in SUBSET Nat :
              LET ids == {b.id : b \in Range(th[t].batch)}
              IN /\ offers' = [id \in 1 .. Len(readings) |-> offers[id] + (IF id \in sent THEN 1 ELSE 0)]
                 /\ sent \subseteq ids
                 /\ ~present \/ ~batching => sent = {} /\ excuse' = excuse
                 /\ present /\ batching =>
                                \/ excuse' = [excuse EXCEPT !.batch = @ \cup ids]
                                \/ excuse' = [excuse EXCEPT !.filter = @ \cup (ids \ sent)]
<1> DEFINE s == th[t].batch
           ids == {b.id : b \in Range(s)}
           raises == BatchRaises(s)
           sent == IF ~present \/ ~batching \/ raises THEN {} ELSE Uploaded(s)
<1>1. s \in Seq([id : Nat, res : Results])  BY DEF Typed, RoundsTyped, Round
<1>2. DOMAIN s = 1 .. Len(s) /\ \A i \in 1 .. Len(s) : s[i].id \in Nat
  <2> DEFINE R == [id : Nat, res : Results]
  <2>1. \A x \in R : x.id \in Nat  OBVIOUS
  <2> HIDE DEF R
  <2>2. DOMAIN s = 1 .. Len(s) /\ \A i \in 1 .. Len(s) : s[i] \in R  BY <1>1, LenProperties, ElementOfSeq DEF R
  <2> QED  BY <2>1, <2>2
<1>3. Uploaded(s) \subseteq ids /\ ids \subseteq Nat  BY <1>2 DEF Uploaded, Range
<1>4. DOMAIN offers = 1 .. Len(readings)  BY LenProperties DEF Typed, LedgerTyped
<1>5. /\ th[t].pc = "batch" /\ th' = [th EXCEPT ![t] = NoRound]
      /\ UNCHANGED <<setup, batching, present, pipe, readings, fate, result, left, stored, overlapped>>
      /\ offers' = [id \in 1 .. Len(readings) |-> offers[id] + (IF id \in sent THEN 1 ELSE 0)]
      /\ excuse' = IF ~present \/ ~batching THEN excuse
                   ELSE IF raises THEN [excuse EXCEPT !.batch = @ \cup ids]
                   ELSE [excuse EXCEPT !.filter = @ \cup (ids \ sent)]
  BY <1>4 DEF OnBatch
<1>6. sent \in SUBSET Nat /\ sent \subseteq ids /\ (~present \/ ~batching => sent = {})  BY <1>3
<1> HIDE DEF sent, ids, raises
<1>7. ~present \/ ~batching => excuse' = excuse  BY <1>5
<1>8. present /\ batching =>
                  \/ excuse' = [excuse EXCEPT !.batch = @ \cup ids]
                  \/ excuse' = [excuse EXCEPT !.filter = @ \cup (ids \ sent)]
  BY <1>5
<1> QED  BY <1>5, <1>6, <1>7, <1>8 DEF ids

\* The initial state is typed.
LEMMA TypedStart == ASSUME ProcessingInit PROVE Typed
<1> USE DEF ProcessingInit
<1>1. PipeTyped
  <2>1. Blank \in [Names -> Int]  BY ValuesTyped DEF Blank
  <2>2. <<>> \in Seq(Results)  BY EmptySeq
  <2> QED  BY <2>1, <2>2 DEF PipeTyped
<1>2. LedgerTyped
  <2>1. Blank \in [Names -> Int]  BY ValuesTyped DEF Blank
  <2>2. \A S : <<>> \in Seq(S) /\ Len(<<>>) = 0  BY EmptySeq
  <2> QED  BY <2>1, <2>2 DEF LedgerTyped
<1>3. RoundsTyped  BY NoRoundTyped DEF RoundsTyped, Busy, NoRound
<1> QED  BY <1>1, <1>2, <1>3 DEF Typed

\* Every step keeps the types.
LEMMA TypedStep ==
  ASSUME Typed, [ProcessingNext]_processingVars
  PROVE  Typed'
<1>0. Len(readings) \in Nat  BY LenProperties DEF Typed, LedgerTyped
<1>1. ASSUME NEW t \in Threads, Begin(t) PROVE Typed'
  <2>1. LedgerTyped' /\ UNCHANGED <<setup, batching, present, pipe>> /\ Len(readings') \in Nat /\ Len(readings') >= Len(readings)
    BY <1>1, BeginIs
  <2>2. PipeTyped'  BY <2>1 DEF Typed, PipeTyped, pipe
  <2>3. CASE th' = th
    <3>1. th' = [th EXCEPT ![t] = NoRound]
      <4>1. th[t] = NoRound  BY <1>1, BeginIs DEF Typed, RoundsTyped, Busy
      <4> QED  BY <2>3, <4>1 DEF Typed, RoundsTyped
    <3>2. RoundsTyped'  BY <2>1, <3>1, RoundsKept
    <3> QED  BY <2>1, <2>2, <3>2 DEF Typed
  <2>4. CASE th' # th
    <3> DEFINE me == NewRound(readings', Len(readings))
    <3>1. th' = [th EXCEPT ![t] = me] /\ InOrder(me, Len(readings')) /\ me.pc = "rule"
      BY <1>1, <2>4, BeginIs
    <3> HIDE DEF me
    <3>2. RoundsTyped'  BY <2>1, <3>1, RoundsKept
    <3> QED  BY <2>1, <2>2, <3>2 DEF Typed
  <2> QED  BY <2>3, <2>4
<1>2. ASSUME NEW t \in Threads, InPipeline(t) PROVE Typed'
  BY <1>2, PipelineMoves, MovesTyped
<1>3. ASSUME NEW t \in Threads, OnData(t) PROVE Typed'
  <2>1. /\ Busy(t) /\ Id(t) \in 1 .. Len(readings)
        /\ UNCHANGED <<setup, batching, present, pipe, readings, fate, result, left, overlapped>>
    BY <1>3, OnDataIs
  <2>2. PICK me \in Round, refused \in BOOLEAN, stops \in BOOLEAN :
          /\ th' = [th EXCEPT ![t] = me] /\ InOrder(me, Len(readings)) /\ me.ids = th[t].ids
          /\ (me.pc = "batch" /\ me.at = Len(me.ids)) \/ me.pc = "rule"
          /\ stored' = IF refused THEN stored ELSE stored \cup {Id(t)}
          /\ offers' = IF refused \/ batching \/ ~present \/ stops THEN offers ELSE [offers EXCEPT ![Id(t)] = @ + 1]
    BY <1>3, OnDataIs
  <2>3. RoundsTyped'  BY <2>1, <2>2, RoundsStay
  <2>4. PipeTyped'  BY <2>1 DEF Typed, PipeTyped, pipe
  <2>5. offers[Id(t)] + 1 \in Nat  BY <2>1, ElementOfSeq DEF Typed, LedgerTyped
  <2>6. offers' \in Seq(Nat) /\ Len(offers') = Len(readings)
    BY <2>1, <2>2, <2>5, EntryChanged DEF Typed, LedgerTyped
  <2>7. stored' \subseteq 1 .. Len(readings)  BY <2>1, <2>2 DEF Typed, LedgerTyped
  <2>8. LedgerTyped'  BY <2>1, <2>6, <2>7 DEF Typed, LedgerTyped
  <2> QED  BY <2>1, <2>3, <2>4, <2>8 DEF Typed
<1>4. ASSUME NEW t \in Threads, OnBatch(t) PROVE Typed'
  <2>1. /\ th' = [th EXCEPT ![t] = NoRound]
        /\ UNCHANGED <<setup, batching, present, pipe, readings, fate, result, left, stored, overlapped>>
    BY <1>4, OnBatchIs
  <2>2. PICK sent \in SUBSET Nat :
          offers' = [id \in 1 .. Len(readings) |-> offers[id] + (IF id \in sent THEN 1 ELSE 0)]
    BY <1>4, OnBatchIs
  <2>3. offers' \in Seq(Nat) /\ Len(offers') = Len(readings)
    <3>1. \A id \in 1 .. Len(readings) : offers[id] \in Nat  BY ElementOfSeq DEF Typed, LedgerTyped
    <3>2. offers' \in [1 .. Len(readings) -> Nat]  BY <2>2, <3>1
    <3> QED  BY <1>0, <3>2, FunctionIsSeq
  <2>4. RoundsTyped'  BY <2>1, RoundsStay
  <2>5. PipeTyped'  BY <2>1 DEF Typed, PipeTyped, pipe
  <2>6. LedgerTyped'  BY <2>1, <2>3 DEF Typed, LedgerTyped
  <2> QED  BY <2>1, <2>4, <2>5, <2>6 DEF Typed
<1>5. CASE SwitchesBatching
  BY <1>5 DEF SwitchesBatching, Typed, PipeTyped, LedgerTyped, RoundsTyped, Busy, pipe
<1>6. CASE RemovesDevice
  BY <1>6 DEF RemovesDevice, Typed, PipeTyped, LedgerTyped, RoundsTyped, Busy, pipe
<1>7. CASE UNCHANGED processingVars
  BY <1>7 DEF processingVars, Typed, PipeTyped, LedgerTyped, RoundsTyped, Busy, pipe, ledger
<1> QED  BY <1>1, <1>2, <1>3, <1>4, <1>5, <1>6, <1>7 DEF ProcessingNext

-----------------------------------------------------------------------------
(* Every reading stored is offered once: the account of a round.           *)


\* The account of OfferedOnce: what a round has not come to is neither stored nor offered;
\* what it has come to and stored is in its batch, offered already where each result is
\* published at once and not yet where the batch is, unless it is excused, as every round is of a device that is gone.
Excuses == excuse.round \cup excuse.batch \cup excuse.filter \cup excuse.settings
Ids(me) == {me.ids[i] : i \in 1 .. Len(me.ids)}
BatchIds(me) == {b.id : b \in Range(me.batch)}
Account(me, kept, offered, excused, wait) ==
  /\ BatchIds(me) \subseteq Ids(me)
  /\ \A i \in 1 .. Len(me.ids) :
       LET id == me.ids[i]
       IN IF i < me.at \/ me.pc = "batch"
          THEN id \in kept /\ id \notin excused => id \in BatchIds(me) /\ offered[id] = IF wait THEN 0 ELSE 1
          ELSE id \notin kept /\ id \notin BatchIds(me) /\ offered[id] = 0

Accounted ==
  /\ excuse \in [round : SUBSET Nat, batch : SUBSET Nat, filter : SUBSET Nat, settings : SUBSET Nat]
  /\ \A t \in Threads : Account(th[t], stored, offers, Excuses, batching)
  /\ \A t, u \in Threads : t # u => Ids(th[t]) \cap Ids(th[u]) = {}
  /\ ~present => \A t \in Threads : Ids(th[t]) \subseteq Excuses
  /\ \A id \in stored : (\A t \in Threads : id \notin Ids(th[t])) => offers[id] = 1 \/ id \in Excuses

\* The ids of a round are of readings, and none where there is no round.
LEMMA IdsTyped ==
  ASSUME Typed, NEW t \in Threads
  PROVE  /\ Ids(th[t]) = Range(th[t].ids) /\ Ids(th[t]) \subseteq 1 .. Len(readings)
         /\ Len(readings) \in Nat
         /\ Busy(t) => Id(t) \in Ids(th[t])
<1>1. th[t] \in Round /\ Len(readings) \in Nat  BY LenProperties DEF Typed, RoundsTyped, LedgerTyped
<1>2. DOMAIN th[t].ids = 1 .. Len(th[t].ids)  BY <1>1, LenProperties DEF Round
<1>3. CASE Busy(t)  BY <1>1, <1>2, <1>3 DEF Typed, RoundsTyped, Ids, Range, Id
<1>4. CASE ~Busy(t)
  <2>1. Len(th[t].ids) = 0  BY <1>4, EmptySeq DEF Typed, RoundsTyped, NoRound
  <2> QED  BY <1>1, <1>2, <1>4, <2>1 DEF Ids, Range
<1> QED  BY <1>3, <1>4

\* The ids of a batch that one result is appended to.
LEMMA BatchIdsAppend ==
  ASSUME NEW s \in Seq([id : Nat, res : Results]), NEW e \in [id : Nat, res : Results]
  PROVE  {b.id : b \in Range(Append(s, e))} = {b.id : b \in Range(s)} \cup {e.id}
<1> DEFINE R == [id : Nat, res : Results]
           n == Len(s)
           z == Append(s, e)
<1>1. s \in Seq(R) /\ e \in R  OBVIOUS
<1> HIDE DEF R
<1>2. n \in Nat /\ DOMAIN s = 1 .. n /\ DOMAIN z = 1 .. n + 1 /\ z[n + 1] = e /\ \A i \in 1 .. n : z[i] = s[i]
  <2>1. z \in Seq(R) /\ Len(z) = n + 1 /\ (\A i \in 1 .. n : z[i] = s[i]) /\ z[n + 1] = e
    BY <1>1, AppendProperties
  <2> HIDE DEF z
  <2> QED  BY <1>1, <2>1, LenProperties
<1> HIDE DEF z, n
<1>3. Range(z) = Range(s) \cup {e}
  <2>1. n + 1 \in 1 .. n + 1 /\ 1 .. n \subseteq 1 .. n + 1 /\ \A i \in 1 .. n + 1 : i \in 1 .. n \/ i = n + 1
    BY <1>2
  <2> QED  BY <1>2, <2>1 DEF Range
<1>4. {b.id : b \in Range(z)} = {b.id : b \in Range(s)} \cup {e.id}  BY <1>3
<1> QED  BY <1>4 DEF z

\* A step of the thread t, after which its round is `me`.
LEMMA AccountedKept ==
  ASSUME Typed, Accounted, NEW t \in Threads, NEW me \in Round, th' = [th EXCEPT ![t] = me],
         batching' = batching, present' = present, ~present => Ids(me) \subseteq Excuses',
         excuse' \in [round : SUBSET Nat, batch : SUBSET Nat, filter : SUBSET Nat, settings : SUBSET Nat],
         Excuses \subseteq Excuses',
         \A id \in 1 .. Len(readings) : id \notin Ids(th[t]) => offers'[id] = offers[id],
         stored \subseteq stored', stored' \subseteq stored \cup Ids(th[t]),
         \A id \in Ids(me) : id \in Ids(th[t]) \/ id \notin 1 .. Len(readings),
         \A id \in Ids(th[t]) : id \notin Ids(me) /\ id \in stored' => offers'[id] = 1 \/ id \in Excuses',
         Account(me, stored', offers', Excuses', batching)
  PROVE  Accounted'
<1>1. th'[t] = me /\ \A u \in Threads \ {t} : th'[u] = th[u]  BY DEF Typed, RoundsTyped
<1>2. ASSUME NEW w \in Round, Account(w, stored, offers, Excuses, batching),
             Ids(w) \cap Ids(th[t]) = {}, Ids(w) \subseteq 1 .. Len(readings)
      PROVE  Account(w, stored', offers', Excuses', batching)
  <2>1. \A i \in 1 .. Len(w.ids) : w.ids[i] \in Ids(w)  BY DEF Ids
  <2> QED  BY <1>2, <2>1 DEF Account
<1>3. ASSUME NEW u \in Threads, u # t PROVE Account(th[u], stored', offers', Excuses', batching)
  <2>1. Ids(th[u]) \cap Ids(th[t]) = {} /\ Account(th[u], stored, offers, Excuses, batching)
    BY <1>3 DEF Accounted
  <2>2. th[u] \in Round /\ Ids(th[u]) \subseteq 1 .. Len(readings)  BY IdsTyped DEF Typed, RoundsTyped
  <2> QED  BY <1>2, <2>1, <2>2
<1>4. \A u \in Threads : Account(th'[u], stored', offers', Excuses', batching')
  BY <1>1, <1>3
<1>5. ASSUME NEW u \in Threads, u # t PROVE Ids(me) \cap Ids(th[u]) = {}
  BY <1>5, IdsTyped DEF Accounted
<1>6. \A v, u \in Threads : v # u => Ids(th'[v]) \cap Ids(th'[u]) = {}
  BY <1>1, <1>5 DEF Accounted
<1>7. ASSUME NEW id \in stored', \A u \in Threads : id \notin Ids(th'[u]) PROVE offers'[id] = 1 \/ id \in Excuses'
  <2>1. CASE id \in Ids(th[t])  BY <1>1, <1>7, <2>1
  <2>2. CASE id \notin Ids(th[t])
    <3>1. id \in stored /\ id \in 1 .. Len(readings)  BY <2>2 DEF Typed, LedgerTyped
    <3>2. \A u \in Threads : id \notin Ids(th[u])  BY <1>1, <1>7, <2>2
    <3> QED  BY <2>2, <3>1, <3>2 DEF Accounted
  <2> QED  BY <2>1, <2>2
<1>8. ~present' => \A u \in Threads : Ids(th'[u]) \subseteq Excuses'  BY <1>1 DEF Accounted
<1> QED  BY <1>4, <1>6, <1>7, <1>8 DEF Accounted

\* What Account says of one place of the round.
LEMMA AccountAt ==
  ASSUME Typed, Accounted, NEW t \in Threads, th[t].pc \notin {"idle", "batch"}
  PROVE  /\ Id(t) \notin stored /\ Id(t) \notin BatchIds(th[t]) /\ offers[Id(t)] = 0
         /\ th[t] \in Round /\ th[t].at \in 1 .. Len(th[t].ids)
<1>1. th[t] \in Round /\ th[t].at \in 1 .. Len(th[t].ids) /\ Busy(t)  BY DEF Typed, RoundsTyped, Busy
<1>2. Account(th[t], stored, offers, Excuses, batching)  BY DEF Accounted
<1>3. ~(th[t].at < th[t].at)  BY <1>1
<1> QED  BY <1>1, <1>2, <1>3 DEF Account, Id

\* A round goes on with what it had, or with its next place.
LEMMA AccountMoves ==
  ASSUME Typed, Accounted, NEW t \in Threads, th[t].pc \notin {"idle", "batch"}, NEW me \in Round,
         me.ids = th[t].ids, me.batch = th[t].batch,
         \/ me.at = th[t].at
         \/ me.at = th[t].at + 1
  PROVE  Account(me, stored, offers, Excuses, batching)
<1>1. Account(th[t], stored, offers, Excuses, batching)  BY DEF Accounted
<1>2. Id(t) \notin stored /\ Id(t) = me.ids[th[t].at]
  BY AccountAt DEF Id
<1>3. BatchIds(me) = BatchIds(th[t]) /\ Ids(me) = Ids(th[t])  BY DEF BatchIds, Ids
<1>4. ASSUME NEW i \in 1 .. Len(me.ids)
      PROVE  IF i < me.at \/ me.pc = "batch"
             THEN me.ids[i] \in stored /\ me.ids[i] \notin Excuses =>
                    me.ids[i] \in BatchIds(me) /\ offers[me.ids[i]] = IF batching THEN 0 ELSE 1
             ELSE me.ids[i] \notin stored /\ me.ids[i] \notin BatchIds(me) /\ offers[me.ids[i]] = 0
  <2>1. th[t].at \in Nat /\ me.at \in Nat /\ i \in Nat  BY DEF Round, Typed, RoundsTyped
  <2>2. CASE i < th[t].at
    <3>1. i < me.at  BY <2>1, <2>2
    <3> QED  BY <1>1, <1>3, <2>2, <3>1 DEF Account
  <2>3. CASE i = th[t].at  BY <1>1, <1>2, <1>3, <2>1, <2>3 DEF Account
  <2>4. CASE i > th[t].at  BY <1>1, <1>3, <2>1, <2>4 DEF Account
  <2> QED  BY <2>1, <2>2, <2>3, <2>4
<1>5. BatchIds(me) \subseteq Ids(me)  BY <1>1, <1>3 DEF Account
<1> QED  BY <1>4, <1>5 DEF Account

\* No step takes an excuse back.
LEMMA ExcusesGrow ==
  ASSUME NEW m \in SUBSET Nat,
         excuse \in [round : SUBSET Nat, batch : SUBSET Nat, filter : SUBSET Nat, settings : SUBSET Nat],
         \/ excuse' = excuse \/ excuse' = [excuse EXCEPT !.round = @ \cup m]
         \/ excuse' = [excuse EXCEPT !.batch = @ \cup m] \/ excuse' = [excuse EXCEPT !.filter = @ \cup m]
         \/ excuse' = [excuse EXCEPT !.settings = @ \cup m]
  PROVE  /\ excuse' \in [round : SUBSET Nat, batch : SUBSET Nat, filter : SUBSET Nat, settings : SUBSET Nat]
         /\ Excuses \subseteq Excuses' /\ (excuse' = excuse \/ m \subseteq Excuses')
<1>1. CASE excuse' = excuse  BY <1>1 DEF Excuses
<1>2. CASE excuse' = [excuse EXCEPT !.round = @ \cup m]  BY <1>2 DEF Excuses
<1>3. CASE excuse' = [excuse EXCEPT !.batch = @ \cup m]  BY <1>3 DEF Excuses
<1>4. CASE excuse' = [excuse EXCEPT !.filter = @ \cup m]  BY <1>4 DEF Excuses
<1>5. CASE excuse' = [excuse EXCEPT !.settings = @ \cup m]  BY <1>5 DEF Excuses
<1> QED  BY <1>1, <1>2, <1>3, <1>4, <1>5

\* A thread without a round has no ids and nothing to account for.
LEMMA NoRoundAccount ==
  ASSUME NEW kept, NEW offered, NEW excused, NEW wait
  PROVE  NoRound \in Round /\ Ids(NoRound) = {} /\ Account(NoRound, kept, offered, excused, wait)
<1>1. NoRound.ids = <<>> /\ NoRound.batch = <<>> /\ Len(<<>>) = 0  BY EmptySeq DEF NoRound
<1>2. DOMAIN <<>> = {}  OBVIOUS
<1>3. Ids(NoRound) = {} /\ BatchIds(NoRound) = {}  BY <1>1, <1>2 DEF Ids, BatchIds, Range
<1> QED  BY <1>1, <1>3, NoRoundTyped DEF Account

\* The pipeline keeps the accounts: it neither stores nor offers.
LEMMA AccountedMoves ==
  ASSUME Typed, Accounted, NEW t \in Threads, Moves(t)
  PROVE  Accounted'
<1>1. /\ th[t].pc \notin {"idle", "batch"} /\ batching' = batching /\ present' = present /\ Busy(t)
      /\ ~present => Ids(th[t]) \subseteq Excuses
      /\ excuse \in [round : SUBSET Nat, batch : SUBSET Nat, filter : SUBSET Nat, settings : SUBSET Nat]
      /\ th[t] \in Round /\ Ids(th[t]) \subseteq 1 .. Len(readings)
  BY IdsTyped DEF Moves, Busy, Accounted, Typed, RoundsTyped
<1>2. ASSUME NEW me \in Round, th' = [th EXCEPT ![t] = me], me.ids = th[t].ids, me.batch = th[t].batch,
             me.at = th[t].at \/ me.at = th[t].at + 1, UNCHANGED <<stored, offers, excuse>>
      PROVE  Accounted'
  <2>1. Account(me, stored, offers, Excuses, batching)  BY <1>1, <1>2, AccountMoves
  <2>2. Ids(me) = Ids(th[t]) /\ Excuses' = Excuses  BY <1>2 DEF Ids, Excuses
  <2> QED  BY <1>1, <1>2, <2>1, <2>2, AccountedKept
<1>3. CASE Stays(t)  BY <1>2, <1>3 DEF Stays, ledger
<1>4. CASE Rejects(t) /\ UNCHANGED <<readings, stored, offers, excuse, overlapped>>
  <2>1. th' = [th EXCEPT ![t] = NextPoint(th[t])]  BY <1>4 DEF Rejects, Typed, RoundsTyped
  <2>2. PICK me \in Round : me = NextPoint(th[t]) /\ me.ids = th[t].ids /\ me.batch = th[t].batch
                            /\ (me.at = th[t].at \/ me.at = th[t].at + 1)
    BY <1>1, BusyInOrder, NextPointIs
  <2> QED  BY <1>2, <1>4, <2>1, <2>2
<1>5. CASE Fails(t)
  <2>1. /\ excuse' = [excuse EXCEPT !.round = @ \cup Ids(th[t])] /\ th' = [th EXCEPT ![t] = NoRound]
        /\ UNCHANGED <<stored, offers>>
    BY <1>5, IdsTyped DEF Fails
  <2>2. Ids(th[t]) \in SUBSET Nat  BY <1>1
  <2>3. /\ excuse' \in [round : SUBSET Nat, batch : SUBSET Nat, filter : SUBSET Nat, settings : SUBSET Nat]
        /\ Excuses \subseteq Excuses' /\ Ids(th[t]) \subseteq Excuses'
    <3>1. excuse' = excuse => Ids(th[t]) \subseteq Excuses'  BY <1>1, <2>1 DEF Excuses
    <3> QED  BY <1>1, <2>1, <2>2, <3>1, ExcusesGrow
  <2> QED  BY <1>1, <2>1, <2>3, NoRoundAccount, AccountedKept
<1>6. ASSUME NEW o \in Results, LetsOut(t, o), UNCHANGED <<readings, stored, offers, excuse, overlapped>>
      PROVE  Accounted'
  <2>1. PICK me \in Round : me = [th[t] EXCEPT !.pc = "out", !.cur = o]  BY <1>1 DEF Round
  <2>2. th' = [th EXCEPT ![t] = me]  BY <1>6, <2>1 DEF LetsOut, Typed, RoundsTyped
  <2>3. me.ids = th[t].ids /\ me.batch = th[t].batch /\ me.at = th[t].at  BY <1>1, <2>1 DEF Round
  <2> QED  BY <1>2, <1>6, <2>2, <2>3
<1> QED  BY <1>3, <1>4, <1>5, <1>6 DEF Moves

\* _on_collect_data keeps the accounts: the result is stored, batched and offered, or excused.
LEMMA AccountedOnData ==
  ASSUME Typed, Accounted, NEW t \in Threads, OnData(t)
  PROVE  Accounted'
<1> DEFINE id == Id(t)
<1>1. /\ th[t].pc = "out" /\ Busy(t) /\ id \in 1 .. Len(readings)
      /\ batching' = batching /\ present' = present
      /\ ~present => Ids(th[t]) \subseteq Excuses
      /\ th[t] \in Round /\ id \in Nat
      /\ excuse \in [round : SUBSET Nat, batch : SUBSET Nat, filter : SUBSET Nat, settings : SUBSET Nat]
  <2>1. /\ th[t].pc = "out" /\ Busy(t) /\ id \in 1 .. Len(readings)
        /\ batching' = batching /\ present' = present
    BY OnDataIs
  <2>2. th[t] \in Round /\ id \in Nat  BY <2>1 DEF Typed, RoundsTyped
  <2> HIDE DEF id
  <2> QED  BY <2>1, <2>2 DEF Accounted
<1>2. PICK me \in Round, refused \in BOOLEAN, stops \in BOOLEAN :
        /\ th' = [th EXCEPT ![t] = me] /\ me.ids = th[t].ids
        /\ me.batch = Append(th[t].batch, [id |-> id, res |-> th[t].cur])
        /\ \/ me.pc = "batch" /\ me.at = th[t].at /\ me.at = Len(me.ids)
           \/ me.pc = "rule" /\ me.at = th[t].at + 1
        /\ stored' = IF refused THEN stored ELSE stored \cup {id}
        /\ offers' = IF refused \/ batching \/ ~present \/ stops THEN offers ELSE [offers EXCEPT ![id] = @ + 1]
        /\ excuse' = IF stops /\ ~batching /\ present THEN [excuse EXCEPT !.filter = @ \cup {id}] ELSE excuse
  BY OnDataIs
<1>3. id \notin stored /\ id \notin BatchIds(th[t]) /\ offers[id] = 0 /\ th[t].at \in 1 .. Len(th[t].ids)
      /\ id \in Ids(th[t]) /\ DOMAIN offers = 1 .. Len(readings)
  BY <1>1, AccountAt, IdsTyped, LenProperties DEF Typed, LedgerTyped
<1>4. /\ excuse' \in [round : SUBSET Nat, batch : SUBSET Nat, filter : SUBSET Nat, settings : SUBSET Nat]
      /\ Excuses \subseteq Excuses' /\ (excuse' = excuse \/ id \in Excuses')
  <2>1. {id} \in SUBSET Nat  BY <1>1
  <2>2. excuse' = excuse \/ excuse' = [excuse EXCEPT !.filter = @ \cup {id}]  BY <1>2
  <2> HIDE DEF id
  <2> QED  BY <1>1, <2>1, <2>2, ExcusesGrow
<1>5. BatchIds(me) = BatchIds(th[t]) \cup {id}
  <2> DEFINE R == [id : Nat, res : Results]
             e == [id |-> id, res |-> th[t].cur]
  <2>1. th[t].batch \in Seq(R) /\ e \in R /\ e.id = id  BY <1>1 DEF Round, Typed, RoundsTyped
  <2>2. {b.id : b \in Range(Append(th[t].batch, e))} = {b.id : b \in Range(th[t].batch)} \cup {id}
    <3> HIDE DEF e
    <3> QED  BY <2>1, BatchIdsAppend
  <2> QED  BY <1>2, <2>2 DEF BatchIds
<1>6. id \in stored' /\ id \notin Excuses' => offers'[id] = IF batching THEN 0 ELSE 1
  <2>1. CASE refused  BY <1>2, <1>3, <2>1
  <2>2. CASE batching  BY <1>2, <1>3, <2>2
  <2>5. CASE ~present  BY <1>1, <1>3, <1>4, <2>5
  <2>3. CASE ~refused /\ ~batching /\ stops /\ present
    <3>1. excuse' = [excuse EXCEPT !.filter = @ \cup {id}]  BY <1>2, <2>3
    <3>2. id \in Excuses'  BY <1>1, <3>1 DEF Excuses
    <3> QED  BY <3>2
  <2>4. CASE ~refused /\ ~batching /\ ~stops /\ present
    <3>1. offers' = [offers EXCEPT ![id] = @ + 1]  BY <1>2, <2>4
    <3>2. offers'[id] = 1  BY <1>1, <1>3, <3>1
    <3> QED  BY <2>4, <3>2
  <2> QED  BY <2>1, <2>2, <2>3, <2>4, <2>5
<1>7. \A k \in 1 .. Len(readings) : k # id => offers'[k] = offers[k] /\ (k \in stored' <=> k \in stored)
  BY <1>2, <1>3
<1>8. Ids(me) = Ids(th[t]) /\ Account(th[t], stored, offers, Excuses, batching) /\ BatchIds(th[t]) \subseteq Ids(th[t])
  <2>1. Ids(me) = Ids(th[t])  BY <1>2 DEF Ids
  <2>2. Account(th[t], stored, offers, Excuses, batching)  BY DEF Accounted
  <2> QED  BY <2>1, <2>2 DEF Account
<1>9. ASSUME NEW i \in 1 .. Len(me.ids)
      PROVE  IF i < me.at \/ me.pc = "batch"
             THEN me.ids[i] \in stored' /\ me.ids[i] \notin Excuses' =>
                    me.ids[i] \in BatchIds(me) /\ offers'[me.ids[i]] = IF batching THEN 0 ELSE 1
             ELSE me.ids[i] \notin stored' /\ me.ids[i] \notin BatchIds(me) /\ offers'[me.ids[i]] = 0
  <2>1. th[t].at \in Nat /\ me.at \in Nat /\ i \in Nat /\ me.ids[th[t].at] = id /\ i \in 1 .. Len(th[t].ids)
    BY <1>2 DEF Round, Typed, RoundsTyped, Id
  <2>2. i = th[t].at => i < me.at \/ me.pc = "batch"  BY <1>2, <2>1
  <2>3. CASE i = th[t].at  BY <1>5, <1>6, <2>1, <2>2, <2>3
  <2>4. CASE i # th[t].at
    <3>1. me.ids[i] # id /\ me.ids[i] \in 1 .. Len(readings)
      <4>1. \A j, k \in 1 .. Len(th[t].ids) : j < k => th[t].ids[j] < th[t].ids[k]
        BY <1>1 DEF Typed, RoundsTyped
      <4>2. \A j \in 1 .. Len(th[t].ids) : th[t].ids[j] \in 1 .. Len(readings)
        BY <1>1 DEF Typed, RoundsTyped
      <4>3. i < th[t].at \/ th[t].at < i  BY <2>1, <2>4
      <4>4. th[t].ids[i] < id \/ id < th[t].ids[i]  BY <1>3, <2>1, <4>1, <4>3 DEF Id
      <4>5. th[t].ids[i] \in Nat  BY <2>1, <4>2
      <4> QED  BY <1>1, <1>2, <2>1, <4>2, <4>4, <4>5
    <3>2. offers'[me.ids[i]] = offers[me.ids[i]] /\ (me.ids[i] \in stored' <=> me.ids[i] \in stored)
      BY <1>7, <3>1
    <3>3. me.ids[i] \in BatchIds(me) <=> me.ids[i] \in BatchIds(th[t])  BY <1>5, <3>1
    <3>4. i < me.at \/ me.pc = "batch" => i < th[t].at \/ i > th[t].at  BY <2>1, <2>4
    <3>5. CASE i < th[t].at
      <4>1. me.ids[i] \in stored /\ me.ids[i] \notin Excuses =>
              me.ids[i] \in BatchIds(th[t]) /\ offers[me.ids[i]] = IF batching THEN 0 ELSE 1
        BY <1>2, <1>8, <2>1, <3>5 DEF Account
      <4>2. i < me.at \/ me.pc = "batch"  BY <1>2, <2>1, <3>5
      <4> QED  BY <1>4, <3>2, <3>3, <4>1, <4>2
    <3>6. CASE th[t].at < i
      <4>1. me.ids[i] \notin stored /\ me.ids[i] \notin BatchIds(th[t]) /\ offers[me.ids[i]] = 0
        BY <1>1, <1>2, <1>8, <2>1, <3>6 DEF Account
      <4> QED  BY <3>2, <3>3, <4>1
    <3> QED  BY <2>1, <2>4, <3>5, <3>6
  <2> QED  BY <2>3, <2>4
<1>10. Account(me, stored', offers', Excuses', batching)
  <2>1. BatchIds(me) \subseteq Ids(me)  BY <1>3, <1>5, <1>8
  <2> QED  BY <1>9, <2>1 DEF Account
<1>11. stored \subseteq stored' /\ stored' \subseteq stored \cup Ids(th[t])
  <2>1. stored' = stored \/ stored' = stored \cup {id}  BY <1>2
  <2> QED  BY <1>3, <2>1
<1>12. \A k \in 1 .. Len(readings) : k \notin Ids(th[t]) => offers'[k] = offers[k]  BY <1>3, <1>7
<1>13. th' = [th EXCEPT ![t] = me]  BY <1>2
<1> HIDE DEF id
<1> QED  BY <1>1, <1>4, <1>8, <1>10, <1>11, <1>12, <1>13, AccountedKept

\* _on_collect_batch closes the account of its round: what it stored is offered, or excused.
LEMMA AccountedOnBatch ==
  ASSUME Typed, Accounted, NEW t \in Threads, OnBatch(t)
  PROVE  Accounted'
<1> DEFINE mine == BatchIds(th[t])
<1>1. /\ th[t].pc = "batch" /\ th' = [th EXCEPT ![t] = NoRound]
      /\ batching' = batching /\ present' = present /\ stored' = stored
  BY OnBatchIs
<1>2. PICK sent \in SUBSET Nat :
        /\ offers' = [id \in 1 .. Len(readings) |-> offers[id] + (IF id \in sent THEN 1 ELSE 0)]
        /\ sent \subseteq mine
        /\ ~present \/ ~batching => sent = {} /\ excuse' = excuse
        /\ present /\ batching =>
                       \/ excuse' = [excuse EXCEPT !.batch = @ \cup mine]
                       \/ excuse' = [excuse EXCEPT !.filter = @ \cup (mine \ sent)]
  BY OnBatchIs DEF BatchIds
<1>3. /\ excuse \in [round : SUBSET Nat, batch : SUBSET Nat, filter : SUBSET Nat, settings : SUBSET Nat]
      /\ Account(th[t], stored, offers, Excuses, batching)
      /\ ~present => Ids(th[t]) \subseteq Excuses
  BY DEF Accounted
<1>4. mine \subseteq Ids(th[t]) /\ Ids(th[t]) \subseteq 1 .. Len(readings) /\ Len(readings) \in Nat
  BY <1>3, IdsTyped DEF Account
<1> HIDE DEF mine
<1>5. mine \in SUBSET Nat /\ mine \ sent \in SUBSET Nat  BY <1>4
<1>6. /\ excuse' \in [round : SUBSET Nat, batch : SUBSET Nat, filter : SUBSET Nat, settings : SUBSET Nat]
      /\ Excuses \subseteq Excuses'
      /\ present /\ batching => mine \ sent \subseteq Excuses'
  <2>1. CASE ~present \/ ~batching  BY <1>2, <1>3, <2>1, ExcusesGrow
  <2>2. CASE present /\ batching /\ excuse' = [excuse EXCEPT !.batch = @ \cup mine]
    <3>1. mine \subseteq Excuses'  BY <1>3, <2>2 DEF Excuses
    <3> QED  BY <1>3, <1>5, <2>2, <3>1, ExcusesGrow
  <2>3. CASE present /\ batching /\ excuse' = [excuse EXCEPT !.filter = @ \cup (mine \ sent)]
    <3>1. mine \ sent \subseteq Excuses'  BY <1>3, <2>3 DEF Excuses
    <3> QED  BY <1>3, <1>5, <2>3, <3>1, ExcusesGrow
  <2> QED  BY <1>2, <2>1, <2>2, <2>3
<1>7. \A id \in 1 .. Len(readings) : offers[id] \in Nat  BY ElementOfSeq DEF Typed, LedgerTyped
<1>8. \A id \in 1 .. Len(readings) : id \notin Ids(th[t]) => offers'[id] = offers[id]
  BY <1>2, <1>4, <1>7
<1>9. ASSUME NEW id \in Ids(th[t]), id \in stored, id \notin Excuses' PROVE offers'[id] = 1
  <2>1. PICK i \in 1 .. Len(th[t].ids) : id = th[t].ids[i]  BY DEF Ids
  <2>2. id \in mine /\ offers[id] = IF batching THEN 0 ELSE 1
    BY <1>1, <1>3, <1>6, <1>9, <2>1 DEF Account, mine
  <2>3. id \in 1 .. Len(readings) /\ offers'[id] = offers[id] + (IF id \in sent THEN 1 ELSE 0)
    BY <1>2, <1>4
  <2>4. present  BY <1>3, <1>6, <1>9
  <2>5. id \in sent <=> batching  BY <1>2, <1>6, <1>9, <2>2, <2>4
  <2> QED  BY <2>2, <2>3, <2>5
<1> QED  BY <1>1, <1>6, <1>8, <1>9, NoRoundAccount, AccountedKept

\* A round begins with readings that are new to the ledger.
LEMMA AccountedBegin ==
  ASSUME Typed, Accounted, NEW t \in Threads, Begin(t)
  PROVE  Accounted'
<1> DEFINE k == Len(readings)
           n == setup.points
<1>1. /\ k \in Nat /\ n \in Nat /\ n >= 1 /\ th[t].pc = "idle" /\ Len(offers') = k + n
      /\ UNCHANGED <<setup, batching, present, stored>>
      /\ excuse' = IF present THEN excuse ELSE [excuse EXCEPT !.settings = @ \cup k + 1 .. k + n]
      /\ \A i \in 1 .. k : offers'[i] = offers[i]
      /\ \A i \in k + 1 .. k + n : offers'[i] = 0
  BY BeginIs DEF LedgerTyped
<1>2. th[t] = NoRound  BY <1>1 DEF Typed, RoundsTyped, Busy
<1>3. /\ Excuses \subseteq Excuses' /\ stored \subseteq 1 .. k
      /\ excuse' \in [round : SUBSET Nat, batch : SUBSET Nat, filter : SUBSET Nat, settings : SUBSET Nat]
      /\ ~present => k + 1 .. k + n \subseteq Excuses'
  <2>1. /\ stored \subseteq 1 .. k
        /\ excuse \in [round : SUBSET Nat, batch : SUBSET Nat, filter : SUBSET Nat, settings : SUBSET Nat]
    BY DEF Accounted, Typed, LedgerTyped
  <2>2. k + 1 .. k + n \in SUBSET Nat  BY <1>1
  <2>3. ~present => excuse' = [excuse EXCEPT !.settings = @ \cup k + 1 .. k + n]  BY <1>1
  <2>4. present => excuse' = excuse  BY <1>1
  <2> HIDE DEF k, n
  <2>5. ~present => k + 1 .. k + n \subseteq Excuses'  BY <2>1, <2>3 DEF Excuses
  <2> QED  BY <2>1, <2>2, <2>3, <2>4, <2>5, ExcusesGrow
<1>4. CASE th' = th
  <2>1. th' = [th EXCEPT ![t] = NoRound]  BY <1>2, <1>4 DEF Typed, RoundsTyped
  <2>2. NoRound \in Round /\ Ids(NoRound) = {} /\ Account(NoRound, stored', offers', Excuses', batching)
    BY NoRoundAccount
  <2>3. Ids(th[t]) = {}  BY <1>2, <2>2
  <2> QED  BY <1>1, <1>3, <2>1, <2>2, <2>3, AccountedKept
<1>5. CASE th' # th
  <2>1. PICK me : me = NewRound(readings', k)  OBVIOUS
  <2>2. th' = [th EXCEPT ![t] = me] /\ me \in Round  BY <1>5, <2>1, BeginIs DEF InOrder
  <2>3. me.ids = [i \in 1 .. n |-> k + i] /\ me.at = 1 /\ me.pc = "rule" /\ me.batch = <<>>
    BY <2>1 DEF NewRound, NoRound
  <2>4. Len(me.ids) = n  BY <2>1, <1>5, BeginIs DEF InOrder
  <2>5. \A i \in 1 .. n : me.ids[i] \in k + 1 .. k + n  BY <1>1, <2>3
  <2>6. BatchIds(me) = {}
    <3>1. DOMAIN <<>> = {}  OBVIOUS
    <3> QED  BY <2>3, <3>1 DEF BatchIds, Range
  <2>7. Account(me, stored', offers', Excuses', batching)
    <3>1. \A i \in 1 .. n : me.ids[i] \notin stored' /\ offers'[me.ids[i]] = 0 /\ ~(i < 1)
      BY <1>1, <1>3, <2>5
    <3> QED  BY <2>3, <2>4, <2>6, <3>1 DEF Account
  <2>8. \A id \in Ids(me) : id \notin 1 .. k  BY <1>1, <2>4, <2>5 DEF Ids
  <2>9. Ids(th[t]) = {} /\ Ids(me) \subseteq k + 1 .. k + n  BY <1>2, <2>4, <2>5, NoRoundAccount DEF Ids
  <2> QED  BY <1>1, <1>3, <2>2, <2>7, <2>8, <2>9, AccountedKept
<1> QED  BY <1>4, <1>5

\* A change of the settings, or the end of the device, excuses the readings of every round
\* that is under way.
LEMMA AccountedSettings ==
  ASSUME Typed, Accounted, SwitchesBatching \/ RemovesDevice
  PROVE  Accounted'
<1> DEFINE all == UNION {Range(th[t].ids) : t \in Threads}
<1>1. /\ excuse' = [excuse EXCEPT !.settings = @ \cup all] /\ UNCHANGED <<th, stored, offers>>
  BY DEF SwitchesBatching, RemovesDevice
<1>2. \A t \in Threads : Ids(th[t]) = Range(th[t].ids) /\ Ids(th[t]) \subseteq 1 .. Len(readings)
  BY IdsTyped
<1>3. all \in SUBSET Nat /\ \A t \in Threads : Ids(th[t]) \subseteq all  BY <1>2
<1> HIDE DEF all
<1>4. excuse \in [round : SUBSET Nat, batch : SUBSET Nat, filter : SUBSET Nat, settings : SUBSET Nat]
  BY DEF Accounted
<1>5. /\ excuse' \in [round : SUBSET Nat, batch : SUBSET Nat, filter : SUBSET Nat, settings : SUBSET Nat]
      /\ Excuses \subseteq Excuses' /\ all \subseteq Excuses'
  <2>1. all \subseteq Excuses'  BY <1>1, <1>4 DEF Excuses
  <2> QED  BY <1>1, <1>3, <1>4, <2>1, ExcusesGrow
<1>6. ASSUME NEW t \in Threads PROVE Account(th[t], stored, offers, Excuses', batching')
  <2>1. Account(th[t], stored, offers, Excuses, batching)  BY DEF Accounted
  <2>2. \A i \in 1 .. Len(th[t].ids) : th[t].ids[i] \in Excuses'  BY <1>3, <1>5 DEF Ids
  <2> QED  BY <2>1, <2>2 DEF Account
<1>7. \A t \in Threads : Ids(th[t]) \subseteq Excuses'  BY <1>3, <1>5
<1> QED  BY <1>1, <1>5, <1>6, <1>7 DEF Accounted

\* Nothing is read yet.
LEMMA AccountedStart == ASSUME ProcessingInit PROVE Accounted
<1>1. \A t \in Threads : th[t] = NoRound  BY DEF ProcessingInit
<1>2. stored = {} /\ present = TRUE /\ excuse = [round |-> {}, batch |-> {}, filter |-> {}, settings |-> {}]  BY DEF ProcessingInit
<1> QED  BY <1>1, <1>2, NoRoundAccount DEF Accounted

\* Every step keeps the accounts.
LEMMA AccountedStep ==
  ASSUME Typed, Accounted, [ProcessingNext]_processingVars
  PROVE  Accounted'
<1>1. CASE UNCHANGED processingVars
  BY <1>1 DEF processingVars, ledger, Accounted, Excuses
<1> QED  BY <1>1, PipelineMoves, AccountedMoves, AccountedOnData, AccountedOnBatch, AccountedBegin, AccountedSettings
     DEF ProcessingNext

\* OfferedOnce, from the account of every round.
LEMMA AccountedOffers == ASSUME Typed, Accounted PROVE OfferedOnce
<1> SUFFICES ASSUME NEW id \in stored, Gone(id) PROVE offers[id] = 1 \/ id \in Excuses
  BY DEF OfferedOnce, Excuses
<1>1. \A t \in Threads : id \notin Ids(th[t])  BY IdsTyped DEF Gone
<1> QED  BY <1>1 DEF Accounted

\* The state of rounds, pipeline and ledgers keeps its types: a round has the ids of the
\* points in the order they were read, and a rule never leaves what the next cannot take.
THEOREM ReadingsAreTyped == ProcessingSpec => []Typed
<1> QED  BY TypedStart, TypedStep, PTL DEF ProcessingSpec

\* A reading with its record in the database is handed to MQTT exactly once when its round is
\* over, whatever the rules, unless its filter, its round, its batch, a change of
\* batch_publish or the removal of the device excuses it: _on_collect_data and
\* _on_collect_batch never both publish it.
THEOREM ReadingsAreOfferedOnce == ProcessingSpec => []OfferedOnce
<1>1. ProcessingInit => Typed /\ Accounted  BY TypedStart, AccountedStart
<1>2. Typed /\ Accounted /\ [ProcessingNext]_processingVars => (Typed /\ Accounted)'
  BY TypedStep, AccountedStep
<1>3. Typed /\ Accounted => OfferedOnce  BY AccountedOffers
<1> QED  BY <1>1, <1>2, <1>3, PTL DEF ProcessingSpec

-----------------------------------------------------------------------------
(* The places of the readings: what is inside the pipeline is ahead in     *)
(* some round.                                                             *)


\* The places of a round that the pipeline has not finished, and what is in front of it.
Ahead(me) ==
  {me.ids[i] : i \in {j \in 1 .. Len(me.ids) : j > me.at \/ (j = me.at /\ me.pc \in {"rule", "half", "clear"})}}
Places(me, rs) == \A i \in 1 .. Len(me.ids) : rs[me.ids[i]].point = Points[i]
AtTheFront(me, f) ==
  \A id \in DOMAIN f : f[id] \in {"rejected", "left"} =>
    id < me.ids[me.at] \/ (id = me.ids[me.at] /\ me.pc \in {"out", "batch"})

\* The readings inside the pipeline are those some round has not come to the end of; while
\* no two rounds overlap, the pipeline takes the readings in their order.
Placed ==
  /\ \A t \in Threads : Places(th[t], readings)
  /\ \A t \in Threads : \A id \in Ahead(th[t]) : fate[id] = "inside"
  /\ \A id \in DOMAIN fate : fate[id] = "inside" => \E t \in Threads : id \in Ahead(th[t])
  /\ ~overlapped =>
       /\ \A t, u \in Threads : Busy(t) /\ Busy(u) => t = u
       /\ \A t \in Threads : Busy(t) => AtTheFront(th[t], fate)

\* What is ahead in a round is among its ids, and is read; a thread without a round has none.
LEMMA AheadIs ==
  ASSUME Typed, NEW t \in Threads
  PROVE  /\ Ahead(th[t]) \subseteq Ids(th[t]) /\ Ahead(th[t]) \subseteq DOMAIN fate
         /\ DOMAIN fate = 1 .. Len(readings)
         /\ ~Busy(t) => Ahead(th[t]) = {}
<1>1. DOMAIN fate = 1 .. Len(readings)  BY LenProperties DEF Typed, LedgerTyped
<1>2. Ahead(th[t]) \subseteq Ids(th[t]) /\ Ids(th[t]) \subseteq 1 .. Len(readings)
  BY IdsTyped DEF Ahead, Ids
<1>3. CASE ~Busy(t)
  <2>1. Ids(th[t]) = {}  BY <1>3, NoRoundAccount DEF Typed, RoundsTyped
  <2> QED  BY <1>1, <1>2, <2>1
<1> QED  BY <1>1, <1>2, <1>3

\* A step of one round keeps the places when what it takes from its readings ahead are
\* exactly those that come to an end.
LEMMA PlacedKept ==
  ASSUME Typed, Accounted, Placed, NEW t \in Threads, NEW me \in Round, th' = [th EXCEPT ![t] = me],
         Busy(t), overlapped' = overlapped, readings' = readings, DOMAIN fate' = DOMAIN fate,
         \A id \in DOMAIN fate : id \notin Ahead(th[t]) => fate'[id] = fate[id],
         \A id \in Ahead(th[t]) : fate'[id] = "inside" <=> id \in Ahead(me),
         Ahead(me) \subseteq Ahead(th[t]), Places(me, readings),
         \/ me.pc = "idle"
         \/ ~overlapped => AtTheFront(me, fate')
  PROVE  Placed'
<1>1. th'[t] = me /\ \A u \in Threads \ {t} : th'[u] = th[u]  BY DEF Typed, RoundsTyped
<1>2. \A u \in Threads : Places(th'[u], readings')  BY <1>1 DEF Placed
<1>3. ASSUME NEW u \in Threads, u # t PROVE Ahead(th[u]) \cap Ahead(th[t]) = {}
  BY <1>3, AheadIs DEF Accounted
<1>4. ASSUME NEW u \in Threads, NEW id \in Ahead(th'[u]) PROVE fate'[id] = "inside"
  <2>1. CASE u = t  BY <1>1, <1>4, <2>1
  <2>2. CASE u # t  BY <1>1, <1>3, <1>4, <2>2, AheadIs DEF Placed
  <2> QED  BY <2>1, <2>2
<1>5. ASSUME NEW id \in DOMAIN fate, fate'[id] = "inside" PROVE \E u \in Threads : id \in Ahead(th'[u])
  <2>1. CASE id \in Ahead(th[t])  BY <1>1, <1>5, <2>1
  <2>2. CASE id \notin Ahead(th[t])
    <3>1. PICK u \in Threads : id \in Ahead(th[u])  BY <1>5, <2>2 DEF Placed
    <3> QED  BY <1>1, <2>2, <3>1
  <2> QED  BY <2>1, <2>2
<1>6. ASSUME ~overlapped
      PROVE  /\ \A v, u \in Threads : th'[v].pc # "idle" /\ th'[u].pc # "idle" => v = u
             /\ \A u \in Threads : th'[u].pc # "idle" => AtTheFront(th'[u], fate')
  <2>1. \A u \in Threads : th'[u].pc # "idle" => u = t  BY <1>1, <1>6 DEF Placed, Busy
  <2> QED  BY <1>1, <1>6, <2>1
<1> QED  BY <1>2, <1>4, <1>5, <1>6 DEF Placed, Busy

\* What is ahead when a round goes on: at the same place, out of the pipeline, to its next.
LEMMA AheadMoves ==
  ASSUME Typed, NEW t \in Threads, Busy(t), NEW me \in Round, me.ids = th[t].ids
  PROVE  /\ me.at = th[t].at /\ th[t].pc \in {"rule", "half", "clear"} /\ me.pc \in {"rule", "half", "clear"} => Ahead(me) = Ahead(th[t])
         /\ th[t].pc \in {"rule", "half", "clear"} => Id(t) \in Ahead(th[t])
         /\ th[t].pc \in {"rule", "half", "clear"} /\
            \/ me.at = th[t].at /\ me.pc \in {"out"}
            \/ me.at = th[t].at /\ me.pc = "batch" /\ me.at = Len(me.ids)
            \/ me.at = th[t].at + 1 /\ me.pc = "rule"
            => Ahead(me) = Ahead(th[t]) \ {Id(t)}
         /\ th[t].pc = "out" /\
            \/ me.at = th[t].at /\ me.pc = "batch"
            \/ me.at = th[t].at + 1 /\ me.pc = "rule"
            => Ahead(me) = Ahead(th[t])
         /\ th[t].pc = "batch" => Ahead(th[t]) = {}
<1> DEFINE s == th[t].ids
           n == Len(s)
           a == th[t].at
<1>1. /\ n \in Nat /\ a \in 1 .. n /\ me.at \in Nat
      /\ \A i, j \in 1 .. n : i < j => s[i] < s[j]
      /\ \A i \in 1 .. n : s[i] \in Nat
      /\ th[t].pc = "batch" => a = n
  BY ZenonT(60), LenProperties, IdsTyped DEF Typed, RoundsTyped, Round
<1>2. \A i, j \in 1 .. n : i # j => s[i] # s[j]
  <2> HIDE DEF s, n, a
  <2> QED  BY <1>1
<1>3. Id(t) = s[a] /\ Ahead(th[t]) = {s[i] : i \in {j \in 1 .. n : j > a \/ (j = a /\ th[t].pc \in {"rule", "half", "clear"})}}
      /\ Ahead(me) = {s[i] : i \in {j \in 1 .. n : j > me.at \/ (j = me.at /\ me.pc \in {"rule", "half", "clear"})}}
  BY DEF Id, Ahead
<1> DEFINE p == th[t].pc
<1> HIDE DEF s, n, a, p
<1>4. me.at = a /\ p \in {"rule", "half", "clear"} /\ me.pc \in {"rule", "half", "clear"} => Ahead(me) = Ahead(th[t])
  BY <1>3 DEF p
<1>5. p \in {"rule", "half", "clear"} => Id(t) \in Ahead(th[t])  BY <1>1, <1>3 DEF p
<1> DEFINE later == {s[i] : i \in {j \in 1 .. n : j > a}}
<1>6. p \notin {"rule", "half", "clear"} => Ahead(th[t]) = later  BY <1>3 DEF p
<1>7. p \in {"rule", "half", "clear"} => later = Ahead(th[t]) \ {Id(t)}
  <2>1. \A j \in 1 .. n : j > a => s[j] # s[a]  BY <1>1, <1>2
  <2>2. \A j \in 1 .. n : j > a \/ j = a <=> (j > a /\ j # a) \/ j = a  BY <1>1
  <2> QED  BY <1>3, <2>1, <2>2 DEF p
<1>8. \/ me.at = a /\ me.pc \in {"out", "batch"}
      \/ me.at = a + 1 /\ me.pc = "rule"
      => Ahead(me) = later
  <2>1. me.at = a /\ me.pc \in {"out", "batch"} => Ahead(me) = later  BY <1>3
  <2>2. CASE me.at = a + 1 /\ me.pc = "rule"
    <3>1. \A j \in 1 .. n : j > a <=> j > me.at \/ (j = me.at /\ me.pc \in {"rule", "half", "clear"})  BY <1>1, <2>2
    <3> QED  BY <1>3, <3>1
  <2> QED  BY <2>1, <2>2
<1>9. p = "batch" => Ahead(th[t]) = {}
  <2>1. p = "batch" => later = {}  BY <1>1 DEF p, n, s, a
  <2> QED  BY <1>6, <2>1
<1> QED  BY <1>4, <1>5, <1>6, <1>7, <1>8, <1>9 DEF p, a

\* The pipeline keeps the places.
LEMMA PlacedMoves ==
  ASSUME Typed, Accounted, Placed, NEW t \in Threads, Moves(t)
  PROVE  Placed'
<1>1. /\ th[t].pc \in {"rule", "half", "clear"} /\ Busy(t) /\ th[t] \in Round /\ Id(t) \in Ahead(th[t])
      /\ Places(th[t], readings) /\ Id(t) \in DOMAIN fate /\ DOMAIN fate = 1 .. Len(readings)
      /\ readings' = readings /\ overlapped' = overlapped
  <2>1. th[t].pc \in {"rule", "half", "clear"} /\ Busy(t) /\ th[t] \in Round /\ Places(th[t], readings)
    BY DEF Moves, Busy, Placed, Typed, RoundsTyped
  <2>2. readings' = readings /\ overlapped' = overlapped
    BY DEF Moves, Stays, Fails, ledger
  <2> QED  BY <2>1, <2>2, AheadMoves, AheadIs
<1>2. ~overlapped => AtTheFront(th[t], fate)  BY <1>1 DEF Placed
<1>3. CASE Stays(t)
  <2>1. PICK me \in Round :
          /\ th' = [th EXCEPT ![t] = me]
          /\ me.pc \in {"rule", "half", "clear"} /\ me.ids = th[t].ids /\ me.at = th[t].at
    BY <1>3 DEF Stays
  <2>2. fate' = fate  BY <1>3 DEF Stays, ledger
  <2>3. Ahead(me) = Ahead(th[t]) /\ \A id \in Ahead(th[t]) : fate[id] = "inside"  BY <1>1, <2>1, AheadMoves DEF Placed
  <2>4. Places(me, readings)  BY <1>1, <2>1 DEF Places
  <2>5. ~overlapped => AtTheFront(me, fate)  BY <1>1, <1>2, <2>1 DEF AtTheFront
  <2> QED  BY <1>1, <2>1, <2>2, <2>3, <2>4, <2>5, PlacedKept
<1>4. ASSUME NEW me \in Round, NEW x \in {"rejected", "left"}, th' = [th EXCEPT ![t] = me],
             fate' = [fate EXCEPT ![Id(t)] = x], me.ids = th[t].ids,
             \/ me.at = th[t].at /\ me.pc = "out"
             \/ me.at = th[t].at /\ me.pc = "batch" /\ me.at = Len(me.ids)
             \/ me.at = th[t].at + 1 /\ me.at \in 1 .. Len(me.ids) /\ me.pc = "rule"
      PROVE  Placed'
  <2>1. Ahead(me) = Ahead(th[t]) \ {Id(t)}  BY <1>1, <1>4, AheadMoves
  <2>2. \A id \in Ahead(th[t]) : fate'[id] = "inside" <=> id \in Ahead(me)
    BY <1>1, <1>4, <2>1, AheadIs DEF Placed
  <2>3. \A id \in DOMAIN fate : id \notin Ahead(th[t]) => fate'[id] = fate[id]  BY <1>1, <1>4
  <2>4. Places(me, readings)  BY <1>1, <1>4 DEF Places
  <2>5. ASSUME ~overlapped PROVE AtTheFront(me, fate')
    <3>1. AtTheFront(th[t], fate)  BY <1>2, <2>5
    <3>2. ASSUME NEW id \in DOMAIN fate, fate'[id] \in {"rejected", "left"} PROVE id < Id(t) \/ id = Id(t)
      BY <1>1, <1>4, <3>1, <3>2 DEF AtTheFront, Id
    <3>3. \A i, j \in 1 .. Len(th[t].ids) : i < j => th[t].ids[i] < th[t].ids[j]
      BY <1>1 DEF Typed, RoundsTyped
    <3>4. th[t].at \in 1 .. Len(th[t].ids)  BY <1>1 DEF Typed, RoundsTyped
    <3>5. CASE me.at = th[t].at  BY <1>4, <3>2, <3>5 DEF AtTheFront, Id
    <3>6. CASE me.at = th[t].at + 1 /\ me.at \in 1 .. Len(me.ids)
      <4>1. th[t].at < me.at  BY <3>4, <3>6
      <4>2. Id(t) < me.ids[me.at]  BY <1>4, <3>3, <3>4, <3>6, <4>1 DEF Id
      <4>3. me.ids[me.at] \in 1 .. Len(readings)  BY <1>1, <1>4, <3>6 DEF Typed, RoundsTyped
      <4>4. ASSUME NEW id \in DOMAIN fate, fate'[id] \in {"rejected", "left"} PROVE id < me.ids[me.at]
        <5>1. id < Id(t) \/ id = Id(t)  BY <3>2, <4>4
        <5> QED  BY <1>1, <4>2, <4>3, <5>1
      <4> QED  BY <1>4, <4>4 DEF AtTheFront
    <3> QED  BY <1>4, <3>5, <3>6
  <2> QED  BY <1>1, <1>4, <2>1, <2>2, <2>3, <2>4, <2>5, PlacedKept
<1>5. CASE Rejects(t) /\ UNCHANGED <<readings, stored, offers, excuse, overlapped>>
  <2>1. th' = [th EXCEPT ![t] = NextPoint(th[t])] /\ fate' = [fate EXCEPT ![Id(t)] = "rejected"]
    BY <1>5 DEF Rejects, Typed, RoundsTyped
  <2>2. InOrder(th[t], Len(readings))  BY <1>1, BusyInOrder
  <2>3. PICK me \in Round :
          /\ me = NextPoint(th[t]) /\ me.ids = th[t].ids
          /\ \/ me.at = th[t].at /\ me.pc = "batch" /\ me.at = Len(me.ids)
             \/ me.at = th[t].at + 1 /\ me.at \in 1 .. Len(me.ids) /\ me.pc = "rule"
    BY <2>2, NextPointIs
  <2> QED  BY <1>4, <2>1, <2>3
<1>6. CASE Fails(t)
  <2>1. /\ fate' = [id \in DOMAIN fate |-> IF id \in Ahead(th[t]) THEN "lost" ELSE fate[id]]
        /\ th' = [th EXCEPT ![t] = NoRound]
    <3> DEFINE gone == {th[t].ids[i] : i \in th[t].at .. Len(th[t].ids)}
    <3>1. gone = Ahead(th[t])
      <4>1. th[t].at \in 1 .. Len(th[t].ids) /\ Len(th[t].ids) \in Nat  BY <1>1, LenProperties DEF Typed, RoundsTyped, Round
      <4>2. th[t].at .. Len(th[t].ids) = {j \in 1 .. Len(th[t].ids) : j > th[t].at \/ j = th[t].at}  BY <4>1
      <4> QED  BY <1>1, <4>2 DEF Ahead
    <3>2. fate' = [id \in DOMAIN fate |-> IF id \in gone THEN "lost" ELSE fate[id]]
      BY <1>6 DEF Fails
    <3> QED  BY <1>6, <3>1, <3>2 DEF Fails
  <2>2. NoRound \in Round /\ Ahead(NoRound) = {} /\ Places(NoRound, readings) /\ NoRound.pc = "idle"
    <3>1. NoRound.ids = <<>> /\ Len(<<>>) = 0 /\ NoRound.pc = "idle"  BY EmptySeq DEF NoRound
    <3> QED  BY <3>1, NoRoundTyped DEF Ahead, Places
  <2> QED  BY <1>1, <2>1, <2>2, AheadIs, PlacedKept
<1>7. ASSUME NEW o \in Results, LetsOut(t, o) PROVE Placed'
  <2>1. PICK me \in Round : me = [th[t] EXCEPT !.pc = "out", !.cur = o]  BY <1>1 DEF Round
  <2>2. th' = [th EXCEPT ![t] = me] /\ fate' = [fate EXCEPT ![Id(t)] = "left"]
    BY <1>7, <2>1 DEF LetsOut, Typed, RoundsTyped
  <2>3. me.ids = th[t].ids /\ me.at = th[t].at /\ me.pc = "out"  BY <1>1, <2>1 DEF Round
  <2> QED  BY <1>4, <2>2, <2>3
<1> QED  BY <1>3, <1>5, <1>6, <1>7 DEF Moves

\* A thread without a round has nothing ahead.
LEMMA NoRoundPlaced ==
  NoRound \in Round /\ Ahead(NoRound) = {} /\ NoRound.pc = "idle" /\ \A rs : Places(NoRound, rs)
<1>1. NoRound.ids = <<>> /\ Len(<<>>) = 0 /\ NoRound.pc = "idle"  BY EmptySeq DEF NoRound
<1> QED  BY <1>1, NoRoundTyped DEF Ahead, Places

\* _on_collect_data keeps the places: the reading it takes has left the pipeline.
LEMMA PlacedOnData ==
  ASSUME Typed, Accounted, Placed, NEW t \in Threads, OnData(t)
  PROVE  Placed'
<1>1. /\ th[t].pc = "out" /\ Busy(t) /\ Id(t) \in 1 .. Len(readings)
      /\ readings' = readings /\ fate' = fate /\ overlapped' = overlapped
  BY OnDataIs
<1>2. PICK me \in Round :
        /\ th' = [th EXCEPT ![t] = me] /\ InOrder(me, Len(readings)) /\ me.ids = th[t].ids
        /\ \/ me.pc = "batch" /\ me.at = th[t].at
           \/ me.pc = "rule" /\ me.at = th[t].at + 1
  BY OnDataIs
<1>3. Ahead(me) = Ahead(th[t])  BY <1>1, <1>2, AheadMoves
<1>4. Places(me, readings)  BY <1>2 DEF Placed, Places
<1>5. ASSUME ~overlapped PROVE AtTheFront(me, fate)
  <2>1. AtTheFront(th[t], fate)  BY <1>1, <1>5 DEF Placed
  <2>2. CASE me.at = th[t].at
    <3>1. th[t].at \in Nat  BY DEF Typed, RoundsTyped, Round
    <3>2. me.pc = "batch"  BY <1>2, <2>2, <3>1
    <3> QED  BY <1>1, <1>2, <2>1, <2>2, <3>2 DEF AtTheFront
  <2>3. CASE me.pc = "rule" /\ me.at = th[t].at + 1
    <3>1. th[t].at \in 1 .. Len(th[t].ids) /\ me.at \in 1 .. Len(th[t].ids)
          /\ \A i, j \in 1 .. Len(th[t].ids) : i < j => th[t].ids[i] < th[t].ids[j]
      BY <1>1, <1>2 DEF Typed, RoundsTyped, InOrder
    <3>2. th[t].ids[th[t].at] < me.ids[me.at]
      <4>1. th[t].at < me.at  BY <2>3, <3>1
      <4> QED  BY <1>2, <3>1, <4>1
    <3>3. th[t].ids[th[t].at] \in Nat /\ me.ids[me.at] \in Nat /\ DOMAIN fate = 1 .. Len(readings)
      <4>1. \A i \in 1 .. Len(th[t].ids) : th[t].ids[i] \in 1 .. Len(readings)  BY <1>1 DEF Typed, RoundsTyped
      <4>2. Len(readings) \in Nat /\ DOMAIN fate = 1 .. Len(readings)  BY AheadIs, LenProperties DEF Typed, LedgerTyped
      <4> QED  BY <1>2, <3>1, <4>1, <4>2
    <3>4. ASSUME NEW id \in DOMAIN fate, fate[id] \in {"rejected", "left"} PROVE id < me.ids[me.at]
      <4>1. id < th[t].ids[th[t].at] \/ id = th[t].ids[th[t].at]  BY <2>1, <3>4 DEF AtTheFront
      <4> QED  BY <3>2, <3>3, <4>1
    <3> QED  BY <3>4 DEF AtTheFront
  <2> QED  BY <1>2, <2>2, <2>3
<1>6. \A id \in Ahead(th[t]) : fate[id] = "inside"  BY DEF Placed
<1> QED  BY <1>1, <1>2, <1>3, <1>4, <1>5, <1>6, PlacedKept

\* _on_collect_batch keeps the places: its round has nothing ahead.
LEMMA PlacedOnBatch ==
  ASSUME Typed, Accounted, Placed, NEW t \in Threads, OnBatch(t)
  PROVE  Placed'
<1>1. /\ th[t].pc = "batch" /\ Busy(t) /\ th' = [th EXCEPT ![t] = NoRound]
      /\ readings' = readings /\ fate' = fate /\ overlapped' = overlapped
  BY OnBatchIs DEF Busy
<1>2. Ahead(th[t]) = {}
  <2>1. th[t] \in Round  BY DEF Typed, RoundsTyped
  <2> QED  BY <1>1, <2>1, AheadMoves
<1> QED  BY <1>1, <1>2, NoRoundPlaced, PlacedKept

\* The readings of a new round are behind all that came before.
LEMMA PlacedBegin ==
  ASSUME Typed, Accounted, Placed, NEW t \in Threads, Begin(t)
  PROVE  Placed'
<1> DEFINE k == Len(readings)
           n == setup.points
<1>1. /\ k \in Nat /\ n \in Nat /\ n >= 1 /\ th[t].pc = "idle" /\ setup' = setup
      /\ Len(fate') = k + n /\ DOMAIN fate' = 1 .. k + n /\ DOMAIN fate = 1 .. k
      /\ \A i \in 1 .. k : readings'[i] = readings[i] /\ fate'[i] = fate[i]
  <2>1. /\ k \in Nat /\ n \in Nat /\ n >= 1 /\ th[t].pc = "idle" /\ setup' = setup /\ LedgerTyped'
        /\ \A i \in 1 .. k : readings'[i] = readings[i] /\ fate'[i] = fate[i]
        /\ Len(readings') = k + n
    BY BeginIs
  <2>2. Len(fate') = k + n /\ fate' \in Seq(Fates)  BY <2>1 DEF LedgerTyped
  <2>3. DOMAIN fate' = 1 .. k + n  BY <2>2, LenProperties
  <2> QED  BY <2>1, <2>2, <2>3, AheadIs
<1>2. ASSUME NEW u \in Threads PROVE Places(th[u], readings') /\ Ahead(th[u]) \subseteq 1 .. k
                                    /\ \A id \in Ahead(th[u]) : fate'[id] = "inside"
  <2>1. \A i \in 1 .. Len(th[u].ids) : th[u].ids[i] \in 1 .. k  BY IdsTyped DEF Ids
  <2>2. Places(th[u], readings')  BY <1>1, <2>1 DEF Placed, Places
  <2> QED  BY <1>1, <2>2, AheadIs DEF Placed
<1>3. CASE th' = th
  <2>1. overlapped' = overlapped /\ \A i \in k + 1 .. k + n : fate'[i] = "lost"
    <3>1. \/ th' = th /\ overlapped' = overlapped /\ \A i \in k + 1 .. k + n : fate'[i] = "lost"
          \/ th' = [th EXCEPT ![t] = NewRound(readings', k)] /\ NewRound(readings', k).pc = "rule"
      BY BeginIs
    <3>2. th # [th EXCEPT ![t] = NewRound(readings', k)] \/ NewRound(readings', k).pc # "rule"
      BY <1>1 DEF Typed, RoundsTyped
    <3> QED  BY <1>3, <3>1, <3>2
  <2>2. \A id \in DOMAIN fate' : id \in DOMAIN fate \/ id \in k + 1 .. k + n  BY <1>1
  <2>3. \A id \in DOMAIN fate' : fate'[id] = "inside" => \E u \in Threads : id \in Ahead(th'[u])
    BY <1>1, <1>3, <2>1, <2>2 DEF Placed
  <2>4. ~overlapped => \A u \in Threads : Busy(u) => AtTheFront(th[u], fate')
    BY <1>1, <2>1, <2>2 DEF Placed, AtTheFront
  <2> QED  BY <1>2, <1>3, <2>1, <2>3, <2>4 DEF Placed, Busy
<1>4. CASE th' # th
  <2>1. PICK me : me = NewRound(readings', k)  OBVIOUS
  <2>2. /\ th' = [th EXCEPT ![t] = me] /\ InOrder(me, k + n)
        /\ overlapped' = (overlapped \/ \E u \in Threads \ {t} : Busy(u))
        /\ \A i \in k + 1 .. k + n : fate'[i] = "inside"
    BY <1>4, <2>1, BeginIs
  <2>3. me.ids = [i \in 1 .. n |-> k + i] /\ me.at = 1 /\ me.pc = "rule"
    BY <2>1 DEF NewRound, NoRound
  <2>4. Len(me.ids) = n  BY <2>2 DEF InOrder
  <2>5. Ahead(me) = k + 1 .. k + n
    <3>1. \A j \in 1 .. n : j > 1 \/ j = 1  BY <1>1
    <3>2. Ahead(me) = {me.ids[i] : i \in 1 .. n}  BY <2>3, <2>4, <3>1 DEF Ahead
    <3>3. \A i \in 1 .. n : me.ids[i] \in k + 1 .. k + n  BY <1>1, <2>3
    <3>4. \A z \in k + 1 .. k + n : z - k \in 1 .. n /\ z = me.ids[z - k]  BY <1>1, <2>3
    <3> QED  BY <3>2, <3>3, <3>4
  <2>6. th'[t] = me /\ \A u \in Threads \ {t} : th'[u] = th[u]  BY <2>2 DEF Typed, RoundsTyped
  <2>7. Places(me, readings')  BY <2>3, <2>4, BeginPoints DEF Places
  <2>8. \A id \in DOMAIN fate' : id \in 1 .. k \/ id \in Ahead(me)  BY <1>1, <2>5
  <2>9. \A id \in DOMAIN fate' : fate'[id] = "inside" => \E u \in Threads : id \in Ahead(th'[u])
    <3> SUFFICES ASSUME NEW id \in 1 .. k, fate'[id] = "inside" PROVE \E u \in Threads : id \in Ahead(th'[u])
      BY <2>6, <2>8
    <3>1. PICK u \in Threads : id \in Ahead(th[u])  BY <1>1 DEF Placed
    <3>2. u # t  BY <1>1, <3>1, AheadIs DEF Busy
    <3> QED  BY <2>6, <3>1, <3>2
  <2>10. \A u \in Threads : Places(th'[u], readings') /\ \A id \in Ahead(th'[u]) : fate'[id] = "inside"
    BY <1>2, <2>2, <2>5, <2>6, <2>7
  <2>11. AtTheFront(me, fate')
    <3> SUFFICES ASSUME NEW id \in DOMAIN fate', fate'[id] \in {"rejected", "left"} PROVE id < me.ids[me.at]
      BY DEF AtTheFront
    <3>1. id \in 1 .. k  BY <2>2, <2>5, <2>8
    <3>2. me.ids[me.at] = k + 1  BY <1>1, <2>3
    <3> QED  BY <1>1, <3>1, <3>2
  <2>12. ~overlapped' =>
           /\ \A v, u \in Threads : th'[v].pc # "idle" /\ th'[u].pc # "idle" => v = u
           /\ \A u \in Threads : th'[u].pc # "idle" => AtTheFront(th'[u], fate')
    <3> SUFFICES ASSUME ~overlapped'
                 PROVE  /\ \A v, u \in Threads : th'[v].pc # "idle" /\ th'[u].pc # "idle" => v = u
                        /\ \A u \in Threads : th'[u].pc # "idle" => AtTheFront(th'[u], fate')
      OBVIOUS
    <3>1. \A u \in Threads : th'[u].pc # "idle" => u = t  BY <2>2, <2>6 DEF Busy
    <3> QED  BY <2>6, <2>11, <3>1
  <2> QED  BY <2>9, <2>10, <2>12 DEF Placed, Busy
<1> QED  BY <1>3, <1>4

\* Nothing is inside the pipeline yet.
LEMMA PlacedStart == ASSUME ProcessingInit PROVE Placed
<1>1. \A t \in Threads : th[t] = NoRound  BY DEF ProcessingInit
<1>2. fate = <<>> /\ DOMAIN <<>> = {}  BY DEF ProcessingInit
<1> QED  BY <1>1, <1>2, NoRoundPlaced DEF Placed, Busy

\* Every step keeps the places.
LEMMA PlacedStep ==
  ASSUME Typed, Accounted, Placed, [ProcessingNext]_processingVars
  PROVE  Placed'
<1>1. CASE UNCHANGED processingVars  BY <1>1 DEF processingVars, ledger, Placed, Busy
<1>2. CASE SwitchesBatching \/ RemovesDevice  BY <1>2 DEF SwitchesBatching, RemovesDevice, Placed, Busy
<1> QED  BY <1>1, <1>2, PipelineMoves, PlacedMoves, PlacedOnData, PlacedOnBatch, PlacedBegin DEF ProcessingNext

-----------------------------------------------------------------------------
(* A reading comes to the first rule as it was read.                       *)


\* A round at the first rule has the reading as it was read; one rule alone is gone through
\* once, and where the pipeline is disabled none is.
Reading(rs, id) == [point |-> rs[id].point, val |-> rs[id].val, of |-> {id}]
FreshRound(me, rs, lone, on) ==
  me.pc \in {"rule", "half", "clear"} =>
    /\ me.rule >= 1
    /\ me.rule = 1 /\ me.runs = 0 /\ me.pc # "clear" => me.cur = Reading(rs, me.ids[me.at])
    /\ lone => me.runs = 0 /\ me.rule \in {1, 2} /\ (me.pc = "half" => me.rule = 1)
    /\ on => me.pc # "clear"
    /\ ~on => me.runs = 0 /\ me.rule = 1
Fresh == \A t \in Threads : FreshRound(th[t], readings, LoneRule, setup.enabled)

\* Whether there is one rule alone depends on the setup only.
LEMMA LoneRuleKept ==
  ASSUME setup' = setup
  PROVE  (LoneRule <=> LoneRule') /\ setup'.enabled = setup.enabled
BY DEF LoneRule

\* A step of one round keeps Fresh when it keeps that round's own.
LEMMA FreshKept ==
  ASSUME Typed, Fresh, NEW t \in Threads, NEW me, th' = [th EXCEPT ![t] = me], setup' = setup,
         \A id \in 1 .. Len(readings) : readings'[id] = readings[id],
         FreshRound(me, readings', LoneRule, setup.enabled)
  PROVE  Fresh'
<1>1. th'[t] = me /\ \A u \in Threads \ {t} : th'[u] = th[u]  BY DEF Typed, RoundsTyped
<1>2. ASSUME NEW u \in Threads, u # t PROVE FreshRound(th[u], readings', LoneRule, setup.enabled)
  <2>1. FreshRound(th[u], readings, LoneRule, setup.enabled)  BY DEF Fresh
  <2>2. th[u].pc \in {"rule", "half", "clear"} => th[u].ids[th[u].at] \in 1 .. Len(readings)
    BY DEF Typed, RoundsTyped, Busy
  <2> QED  BY <2>1, <2>2 DEF FreshRound, Reading
<1>3. \A u \in Threads : FreshRound(th'[u], readings', LoneRule, setup.enabled)  BY <1>1, <1>2
<1>4. (LoneRule <=> LoneRule') /\ setup'.enabled = setup.enabled  BY LoneRuleKept
<1>5. ASSUME NEW u \in Threads PROVE FreshRound(th'[u], readings', LoneRule', setup'.enabled)
  BY <1>3, <1>4 DEF FreshRound
<1> QED  BY <1>5 DEF Fresh

\* Fresh depends on rounds, setup and readings only.
LEMMA FreshSame ==
  ASSUME Fresh, UNCHANGED <<th, setup, readings>>
  PROVE  Fresh'
<1>1. (LoneRule <=> LoneRule') /\ setup'.enabled = setup.enabled  BY LoneRuleKept
<1>2. ASSUME NEW u \in Threads PROVE FreshRound(th'[u], readings', LoneRule', setup'.enabled)
  <2>1. FreshRound(th[u], readings, LoneRule, setup.enabled)  BY DEF Fresh
  <2>2. th'[u] = th[u] /\ readings' = readings  OBVIOUS
  <2> QED  BY <1>1, <2>1, <2>2 DEF FreshRound
<1> QED  BY <1>2 DEF Fresh

\* The next point begins with its reading.
LEMMA NextIsFresh ==
  ASSUME Typed, Placed, NEW t \in Threads, Busy(t), NEW me, InOrder(me, Len(readings)), me.ids = th[t].ids
  PROVE  FreshRound(NextPoint(me), readings, LoneRule, setup.enabled)
<1>1. PICK n : n = NextPoint(me)  OBVIOUS
<1>2. /\ n.ids = me.ids
      /\ \/ n.pc = "batch"
         \/ /\ n.pc = "rule" /\ n.at \in 1 .. Len(me.ids)
            /\ n.cur = Taken(readings, n.at, n.ids[n.at]) /\ n.rule = 1 /\ n.runs = 0
  BY <1>1, NextPointIs
<1>3. Places(me, readings)  BY DEF Placed, Places
<1>4. n.pc = "rule" => n.cur = Reading(readings, n.ids[n.at])  BY <1>2, <1>3 DEF Places, Taken, Reading
<1> QED  BY <1>1, <1>2, <1>4 DEF FreshRound

\* A round with one more result in its batch is in order.
LEMMA BatchedInOrder ==
  ASSUME Typed, NEW t \in Threads, OnData(t)
  PROVE  InOrder(Batched(th[t], Id(t)), Len(readings)) /\ Batched(th[t], Id(t)).ids = th[t].ids
<1> DEFINE R == [id : Nat, res : Results]
           e == [id |-> Id(t), res |-> th[t].cur]
<1>1. InOrder(th[t], Len(readings)) /\ Id(t) \in 1 .. Len(readings)  BY OnDataIs
<1>2. th[t].batch \in Seq(R) /\ e \in R /\ th[t] \in Round  BY <1>1 DEF InOrder, Round
<1> HIDE DEF e, R
<1>3. Append(th[t].batch, e) \in Seq(R)  BY <1>2, AppendProperties
<1>4. Batched(th[t], Id(t)) = [th[t] EXCEPT !.batch = Append(@, e)]  BY DEF Batched, e
<1> QED  BY <1>1, <1>2, <1>3, <1>4 DEF InOrder, Round, R

\* A round whose reading was rejected goes on with a fresh one.
LEMMA FreshRejected ==
  ASSUME Typed, Placed, Fresh, NEW t \in Threads, Busy(t), Rejects(t), UNCHANGED <<setup, readings>>
  PROVE  Fresh'
<1>1. th' = [th EXCEPT ![t] = NextPoint(th[t])]  BY DEF Rejects, Typed, RoundsTyped
<1>2. FreshRound(NextPoint(th[t]), readings, LoneRule, setup.enabled)  BY BusyInOrder, NextIsFresh
<1>3. PICK me : me = NextPoint(th[t])  OBVIOUS
<1> QED  BY <1>1, <1>2, <1>3, FreshKept

\* A rule of a pipeline leaves a fresh round: it stays, goes on by one rule, or ends.
LEMMA FreshAfter ==
  ASSUME Typed, Placed, Fresh, NEW t \in Threads, th[t].pc \in {"rule", "half"}, NEW o \in Results \cup {Nothing},
         After(t, o), setup' = setup, setup.enabled, LoneRule => th[t].rule = 1
  PROVE  Fresh'
<1>1. FreshRound(th[t], readings, LoneRule, setup.enabled) /\ th[t] \in Round /\ readings' = readings /\ Busy(t)
  BY AfterIs DEF Fresh, Typed, RoundsTyped, Busy
<1>2. CASE Rejects(t)  BY <1>1, <1>2, FreshRejected
<1>3. CASE ~Rejects(t)
  <2>1. PICK me \in Round :
          /\ th' = [th EXCEPT ![t] = me] /\ me.pc = "rule"
          /\ \/ me.rule = th[t].rule + 1 /\ me.runs = 0
             \/ me.rule = th[t].rule /\ me.runs = th[t].runs + 1 /\ th[t].runs < RuleOf(t).loops
    BY <1>3, AfterIs
  <2>2. th[t].rule \in Nat /\ th[t].runs \in Nat /\ th[t].rule >= 1  BY <1>1 DEF Round, FreshRound
  <2>3. LoneRule => RuleOf(t).loops = 0 /\ th[t].runs = 0 /\ th[t].rule = 1  BY <1>1 DEF FreshRound, LoneRule, RuleOf
  <2>4. FreshRound(me, readings', LoneRule, setup.enabled)
    <3>1. me.rule >= 1 /\ ~(me.rule = 1 /\ me.runs = 0)  BY <2>1, <2>2
    <3>2. LoneRule => me.runs = 0 /\ me.rule = 2  BY <2>1, <2>3
    <3> QED  BY <2>1, <3>1, <3>2 DEF FreshRound
  <2> QED  BY <1>1, <2>1, <2>4, FreshKept
<1> QED  BY <1>2, <1>3

\* A lone rule is executed as the first and is not skipped.
LEMMA LoneExecution ==
  ASSUME Typed, Fresh, NEW t \in Threads, LoneRule
  PROVE  /\ InRule(t) => th[t].rule = 1 /\ th[t].runs = 0 /\ ~Skips(t) /\ ~SkipRaises(t)
                         /\ RuleOf(t) = setup.rules[1]
         /\ th[t].pc = "half" => th[t].rule = 1 /\ th[t].runs = 0 /\ RuleOf(t) = setup.rules[1]
<1>1. FreshRound(th[t], readings, LoneRule, setup.enabled)  BY DEF Fresh
<1>2. InRule(t) => th[t].rule \in {1, 2} /\ th[t].rule <= 1 /\ th[t].runs = 0
  BY <1>1 DEF FreshRound, InRule, LoneRule
<1> QED  BY <1>1, <1>2 DEF FreshRound, Skips, SkipRaises, RuleOf, LoneRule

\* Neither marker of a rule that gave nothing is a result.
LEMMA RaisedIsNoResult == ~IsResult(Nothing) /\ ~IsResult(Raised)
BY DEF IsResult, Nothing, Raised

\* The pipeline keeps Fresh.
LEMMA FreshPipeline ==
  ASSUME Typed, Placed, Fresh, NEW t \in Threads, InPipeline(t)
  PROVE  Fresh'
<1> DEFINE o == th[t].cur
<1>1. /\ th[t] \in Round /\ FreshRound(th[t], readings, LoneRule, setup.enabled) /\ setup' = setup
      /\ readings' = readings /\ (Busy(t) => o \in Results) /\ PipeTyped
  BY PipelineMoves DEF Typed, RoundsTyped, Fresh, InPipeline, Moves, Stays, Fails, ledger
<1>2. CASE SkipsRule(t)
  <2> DEFINE me == [th[t] EXCEPT !.rule = @ + 1]
  <2>1. th' = [th EXCEPT ![t] = me] /\ th[t].pc = "rule" /\ ~LoneRule /\ setup.enabled
    BY <1>2, LoneExecution DEF SkipsRule, InRule
  <2>2. th[t].rule \in Nat /\ th[t].rule >= 1  BY <1>1, <2>1 DEF Round, FreshRound
  <2>3. me.pc = "rule" /\ me.rule = th[t].rule + 1  BY <1>1, <2>1 DEF Round
  <2> HIDE DEF me
  <2>4. FreshRound(me, readings, LoneRule, setup.enabled)
    <3>1. me.rule >= 1 /\ me.rule # 1  BY <2>2, <2>3
    <3> QED  BY <2>1, <2>3, <3>1 DEF FreshRound
  <2>5. PICK x : x = me  OBVIOUS
  <2> QED  BY <1>1, <2>1, <2>4, <2>5, FreshKept
<1>3. CASE ConditionRaises(t)
  <2>1. th' = [th EXCEPT ![t] = NoRound]  BY <1>3 DEF ConditionRaises, Fails
  <2>2. FreshRound(NoRound, readings, LoneRule, setup.enabled)  BY NoRoundPlaced DEF FreshRound
  <2> QED  BY <1>1, <2>1, <2>2, FreshKept
<1>4. CASE RunsStateless(t)
  <2>1. th[t].pc = "rule" /\ o \in Results /\ setup.enabled /\ (LoneRule => th[t].rule = 1)
        /\ After(t, Caught(RuleOf(t), Stateless(RuleOf(t).kind, o), o))
    BY <1>1, <1>4, LoneExecution DEF RunsStateless, Executes, InRule, Busy
  <2>2. Caught(RuleOf(t), Stateless(RuleOf(t).kind, o), o) \in Results \cup {Nothing}
    BY <2>1, StatelessTyped, CaughtTyped
  <2> QED  BY <1>1, <2>1, <2>2, FreshAfter
<1>5. CASE ReadsMemory(t)
  <2> DEFINE me == [th[t] EXCEPT !.pc = "half", !.seen = last[o.point]]
  <2>1. th' = [th EXCEPT ![t] = me] /\ th[t].pc = "rule" /\ setup.enabled /\ (LoneRule => th[t].rule = 1)
    BY <1>5, LoneExecution DEF ReadsMemory, Executes, InRule
  <2>2. me.pc = "half" /\ me.rule = th[t].rule /\ me.runs = th[t].runs /\ me.cur = o /\ me.ids = th[t].ids /\ me.at = th[t].at
    BY <1>1 DEF Round
  <2> HIDE DEF me
  <2>3. FreshRound(me, readings, LoneRule, setup.enabled)  BY <1>1, <2>1, <2>2 DEF FreshRound
  <2>4. PICK x : x = me  OBVIOUS
  <2> QED  BY <1>1, <2>1, <2>3, <2>4, FreshKept
<1>6. CASE Appends(t)
  <2> DEFINE me == [th[t] EXCEPT !.pc = "half"]
  <2>1. th' = [th EXCEPT ![t] = me] /\ th[t].pc = "rule" /\ setup.enabled /\ (LoneRule => th[t].rule = 1)
    BY <1>6, LoneExecution DEF Appends, Executes, InRule
  <2>2. me.pc = "half" /\ me.rule = th[t].rule /\ me.runs = th[t].runs /\ me.cur = o /\ me.ids = th[t].ids /\ me.at = th[t].at
    BY <1>1 DEF Round
  <2> HIDE DEF me
  <2>3. FreshRound(me, readings, LoneRule, setup.enabled)  BY <1>1, <2>1, <2>2 DEF FreshRound
  <2>4. PICK x : x = me  OBVIOUS
  <2> QED  BY <1>1, <2>1, <2>3, <2>4, FreshKept
<1>7. CASE WritesMemory(t) \/ LooksAtBuffer(t)
  <2>1. th[t].pc = "half" /\ o \in Results /\ setup.enabled /\ (LoneRule => th[t].rule = 1)
    BY <1>1, <1>7, LoneExecution DEF WritesMemory, LooksAtBuffer, Busy, FreshRound
  <2>2. \E x \in Results \cup {Nothing} : After(t, x)
    <3>1. CASE WritesMemory(t)
      <4>1. Caught(RuleOf(t), Filtered(RuleOf(t).kind, o, th[t].seen), o) \in Results \cup {Nothing}
        BY <2>1, FilteredTyped, CaughtTyped
      <4> QED  BY <3>1, <4>1 DEF WritesMemory
    <3>2. CASE LooksAtBuffer(t)
      <4> DEFINE b == Trimmed(buffers[o.point], SizeOf(RuleOf(t).kind))
                 x == IF RuleOf(t).kind = "aggregate" THEN Aggregated(b, o) ELSE Fused(b, o)
      <4>1. After(t, Caught(RuleOf(t), x, o))  BY <3>2 DEF LooksAtBuffer
      <4>2. SizeOf(RuleOf(t).kind) \in Nat  BY ProcessingAssumption DEF SizeOf, FusionSize
      <4>3. b \in Seq(Results)  BY <1>1, <2>1, <4>2, TrimmedTyped DEF PipeTyped, Results
      <4> HIDE DEF b
      <4>4. x \in Outcomes  BY <2>1, <4>3, AggregatedTyped, FusedTyped
      <4> HIDE DEF x
      <4>5. Caught(RuleOf(t), x, o) \in Results \cup {Nothing}  BY <2>1, <4>4, CaughtTyped
      <4> QED  BY <4>1, <4>5
    <3> QED  BY <1>7, <3>1, <3>2
  <2> QED  BY <1>1, <2>1, <2>2, FreshAfter
<1>8. CASE ReadsUploaded(t)
  <2> DEFINE me == [th[t] EXCEPT !.pc = "half", !.seen = uploaded[o.point]]
  <2>1. th' = [th EXCEPT ![t] = me] /\ th[t].pc = "rule" /\ ~setup.enabled /\ ~LoneRule
    BY <1>8 DEF ReadsUploaded, LoneRule
  <2>2. me.pc = "half" /\ me.rule = th[t].rule /\ me.runs = th[t].runs /\ me.cur = o /\ me.ids = th[t].ids /\ me.at = th[t].at
    BY <1>1 DEF Round
  <2> HIDE DEF me
  <2>3. FreshRound(me, readings, LoneRule, setup.enabled)  BY <1>1, <2>1, <2>2 DEF FreshRound
  <2>4. PICK x : x = me  OBVIOUS
  <2> QED  BY <1>1, <2>1, <2>3, <2>4, FreshKept
<1>9. ASSUME RunsDefault(t), ~Fails(t), \A x : ~LetsOut(t, x) PROVE Fresh'
  <2> DEFINE me == [th[t] EXCEPT !.pc = "clear", !.cur = WindowResult, !.seen = PointsHeld]
  <2>1. th' = [th EXCEPT ![t] = me] /\ th[t].pc = "half" /\ ~setup.enabled /\ ~LoneRule
    BY <1>9 DEF RunsDefault, LoneRule
  <2>2. me.pc = "clear" /\ me.rule = th[t].rule /\ me.runs = th[t].runs  BY <1>1 DEF Round
  <2> HIDE DEF me
  <2>3. FreshRound(me, readings, LoneRule, setup.enabled)  BY <1>1, <2>1, <2>2 DEF FreshRound
  <2>4. PICK x : x = me  OBVIOUS
  <2> QED  BY <1>1, <2>1, <2>3, <2>4, FreshKept
<1>10. ASSUME Fails(t) \/ \E x : LetsOut(t, x) PROVE Fresh'
  <2>1. (\E x : LetsOut(t, x)) \/ Fails(t)  BY <1>10
  <2>2. \E me : th' = [th EXCEPT ![t] = me] /\ me.pc \in {"idle", "out"}
    <3>1. CASE Fails(t)  BY <3>1, NoRoundPlaced DEF Fails
    <3>2. ASSUME NEW x, LetsOut(t, x) PROVE \E me : th' = [th EXCEPT ![t] = me] /\ me.pc \in {"idle", "out"}
      <4>1. PICK me : me = [th[t] EXCEPT !.pc = "out", !.cur = x]  OBVIOUS
      <4>2. th' = [th EXCEPT ![t] = me] /\ me.pc = "out"  BY <1>1, <3>2, <4>1 DEF LetsOut, Typed, RoundsTyped, Round
      <4> QED  BY <4>2
    <3> QED  BY <2>1, <3>1, <3>2
  <2>3. PICK me : th' = [th EXCEPT ![t] = me] /\ me.pc \in {"idle", "out"}  BY <2>2
  <2>4. FreshRound(me, readings, LoneRule, setup.enabled)  BY <2>3 DEF FreshRound
  <2> QED  BY <1>1, <2>3, <2>4, FreshKept
<1> QED  BY <1>2, <1>3, <1>4, <1>5, <1>6, <1>7, <1>8, <1>9, <1>10 DEF InPipeline, Leaves, Clears, WindowRaises

\* There is no round yet.
LEMMA FreshStart == ASSUME ProcessingInit PROVE Fresh
<1>1. \A t \in Threads : th[t] = NoRound  BY DEF ProcessingInit
<1> QED  BY <1>1, NoRoundPlaced DEF Fresh, FreshRound

\* Every step keeps Fresh.
LEMMA FreshStep ==
  ASSUME Typed, Placed, Fresh, [ProcessingNext]_processingVars
  PROVE  Fresh'
<1>1. ASSUME NEW t \in Threads, Begin(t) PROVE Fresh'
  <2> DEFINE k == Len(readings)
  <2>1. setup' = setup /\ \A id \in 1 .. k : readings'[id] = readings[id]  BY <1>1, BeginIs
  <2>2. CASE th' = th
    <3>1. th' = [th EXCEPT ![t] = th[t]]  BY <2>2 DEF Typed, RoundsTyped
    <3>2. FreshRound(th[t], readings', LoneRule, setup.enabled)
      BY <1>1 DEF FreshRound, Begin
    <3>3. PICK me : me = th[t]  OBVIOUS
    <3> QED  BY <2>1, <3>1, <3>2, <3>3, FreshKept
  <2>3. CASE th' # th
    <3>1. PICK me : me = NewRound(readings', k)  OBVIOUS
    <3>2. th' = [th EXCEPT ![t] = me] /\ InOrder(me, k + setup.points) /\ me.pc = "rule"
      BY <1>1, <2>3, <3>1, BeginIs
    <3>3. me.ids = [i \in 1 .. setup.points |-> k + i] /\ me.at = 1 /\ me.rule = 1 /\ me.runs = 0
          /\ me.cur = Taken(readings', 1, k + 1)
      BY <3>1 DEF NewRound, NoRound
    <3>4. me.ids[1] = k + 1 /\ readings'[k + 1].point = Points[1]
      <4>1. setup.points \in Nat /\ setup.points >= 1 /\ k \in Nat  BY <1>1, BeginIs
      <4>2. 1 \in 1 .. setup.points  BY <4>1
      <4> QED  BY <1>1, <3>3, <4>2, BeginPoints
    <3>5. me.cur = Reading(readings', me.ids[me.at])  BY <3>3, <3>4 DEF Taken, Reading
    <3>6. setup.enabled \in BOOLEAN  BY SetupTyped DEF Typed, Setup
    <3>7. FreshRound(me, readings', LoneRule, setup.enabled)  BY <3>2, <3>3, <3>5 DEF FreshRound
    <3> QED  BY <2>1, <3>2, <3>7, FreshKept
  <2> QED  BY <2>2, <2>3
<1>2. ASSUME NEW t \in Threads, OnData(t) PROVE Fresh'
  <2>1. readings' = readings /\ setup' = setup /\ Busy(t) /\ th[t].pc = "out"  BY <1>2, OnDataIs
  <2>2. th' = [th EXCEPT ![t] = NextPoint(Batched(@, Id(t)))]  BY <1>2 DEF OnData
  <2>3. th' = [th EXCEPT ![t] = NextPoint(Batched(th[t], Id(t)))]  BY <2>2 DEF Typed, RoundsTyped
  <2>4. InOrder(Batched(th[t], Id(t)), Len(readings)) /\ Batched(th[t], Id(t)).ids = th[t].ids
    BY <1>2, BatchedInOrder
  <2>5. FreshRound(NextPoint(Batched(th[t], Id(t))), readings, LoneRule, setup.enabled)
    BY <2>1, <2>4, NextIsFresh
  <2>6. PICK me : me = NextPoint(Batched(th[t], Id(t)))  OBVIOUS
  <2> QED  BY <2>1, <2>3, <2>5, <2>6, FreshKept
<1>3. ASSUME NEW t \in Threads, OnBatch(t) PROVE Fresh'
  <2>1. th' = [th EXCEPT ![t] = NoRound] /\ setup' = setup /\ readings' = readings  BY <1>3, OnBatchIs
  <2>2. FreshRound(NoRound, readings, LoneRule, setup.enabled)  BY NoRoundPlaced DEF FreshRound
  <2> QED  BY <2>1, <2>2, FreshKept
<1>4. CASE SwitchesBatching \/ RemovesDevice
  <2>1. th' = th /\ setup' = setup /\ readings' = readings  BY <1>4 DEF SwitchesBatching, RemovesDevice
  <2> QED  BY <2>1, FreshSame
<1>5. CASE UNCHANGED processingVars
  <2>1. th' = th /\ setup' = setup /\ readings' = readings  BY <1>5 DEF processingVars, ledger
  <2> QED  BY <2>1, FreshSame
<1> QED  BY <1>1, <1>2, <1>3, <1>4, <1>5, FreshPipeline DEF ProcessingNext

-----------------------------------------------------------------------------
(* A lone filter drops exactly the repetitions.                            *)


\* What a filter drops: what repeats the value before, and what cannot be compared with it.
Dropped(kind, v, before) == Repeats(kind, v, before) \/ Incomparable(kind, v, before)

\* What a filter with a memory makes of a value is what these say of it.
LEMMA FilteredRepeats ==
  ASSUME NEW o \in Results, NEW before \in Int, NEW kind \in {"duplicate", "change"}
  PROVE  IF Dropped(kind, o.val, before) THEN Filtered(kind, o, before) \in {Nothing, Raised}
                                         ELSE Filtered(kind, o, before) = o
<1> USE DEF Dropped, Incomparable
<1>1. CASE kind = "duplicate"  BY <1>1 DEF Repeats, Filtered
<1>2. CASE kind = "change"
  <2>1. o.val \in Int /\ Percent * before \in Int  BY ProcessingAssumption DEF Results
  <2> DEFINE v == o.val
             c == Percent * before
  <2>2. v \in Int /\ c \in Int  BY <2>1
  <2>3. TooClose(v, before) <=> (before - v) * 100 < c /\ (v - before) * 100 < c
    <3>1. TooClose(v, before) <=> (IF v > before THEN v - before ELSE before - v) * 100 < c
      BY DEF TooClose, Distance
    <3> HIDE DEF c, v
    <3>2. CASE v > before  BY <2>2, <3>1, <3>2
    <3>3. CASE ~(v > before)  BY <2>2, <3>1, <3>3
    <3> QED  BY <3>2, <3>3
  <2>4. kind # "duplicate"  BY <1>2
  <2> QED  BY <2>3, <2>4 DEF Repeats, Filtered
<1> QED  BY <1>1, <1>2

\* A lone filter remembers the value that left last; and, between letting a value pass and
\* its leaving, that value.
LoneFilter == LoneRule /\ setup.rules[1].kind \in {"duplicate", "change"} /\ setup.rules[1].abort
RoundFilters(me, rs, memory, before, kind) ==
  /\ me.pc = "half" => me.seen = before[me.cur.point]
  /\ IF me.pc = "rule" /\ me.rule = 2
     THEN /\ me.cur = Reading(rs, me.ids[me.at])
          /\ memory = [before EXCEPT ![me.cur.point] = me.cur.val]
          /\ ~Dropped(kind, me.cur.val, before[me.cur.point])
     ELSE memory = before
Filters ==
  LoneFilter /\ ~overlapped =>
    /\ \A t \in Threads : Busy(t) => RoundFilters(th[t], readings, last, left, setup.rules[1].kind)
    /\ (\A t \in Threads : ~Busy(t)) => last = left

\* The body of DropsExactlyRepeats.
DropsStep ==
  \A id \in DOMAIN fate :
    LoneRule /\ setup.rules[1].kind \in {"duplicate", "change"} /\ setup.rules[1].abort
      /\ ~overlapped /\ fate[id] = "inside" /\ fate'[id] \in {"rejected", "left"}
    => (fate'[id] = "rejected" <=> Dropped(setup.rules[1].kind, readings[id].val, left[readings[id].point]))

\* A step of one round keeps Filters when it does so for that round.
LEMMA FiltersKept ==
  ASSUME Typed, Placed, NEW t \in Threads, Busy(t), NEW me, th' = [th EXCEPT ![t] = me], setup' = setup,
         overlapped' = overlapped,
         LoneFilter /\ ~overlapped =>
           IF me.pc = "idle" THEN last' = left'
           ELSE RoundFilters(me, readings', last', left', setup.rules[1].kind)
  PROVE  Filters'
<1> SUFFICES ASSUME LoneFilter', ~overlapped'
             PROVE  /\ \A u \in Threads : th'[u].pc # "idle" =>
                         RoundFilters(th'[u], readings', last', left', setup'.rules[1].kind)
                    /\ (\A u \in Threads : ~(th'[u].pc # "idle")) => last' = left'
  BY DEF Filters, Busy
<1>1. LoneFilter /\ ~overlapped  BY DEF LoneFilter, LoneRule
<1>2. th'[t] = me /\ \A u \in Threads \ {t} : th'[u] = th[u] /\ th[u].pc = "idle"
  BY <1>1 DEF Typed, RoundsTyped, Placed, Busy
<1>3. \A u \in Threads : th'[u].pc # "idle" => u = t  BY <1>2
<1> QED  BY <1>1, <1>2, <1>3

\* The pipeline keeps Filters, and drops a reading only where DropsExactlyRepeats says so.
LEMMA FiltersMoves ==
  ASSUME Typed, Placed, Fresh, Filters, NEW t \in Threads, InPipeline(t)
  PROVE  Filters' /\ DropsStep
<1> DEFINE o == th[t].cur
           kind == setup.rules[1].kind
<1>1. /\ th[t] \in Round /\ th[t].pc \in {"rule", "half", "clear"} /\ Busy(t) /\ o \in Results /\ setup' = setup
      /\ readings' = readings /\ overlapped' = overlapped
      /\ FreshRound(th[t], readings, LoneRule, setup.enabled)
      /\ InOrder(th[t], Len(readings)) /\ Id(t) \in 1 .. Len(readings) /\ left \in [Names -> Int]
      /\ DOMAIN fate = 1 .. Len(readings) /\ o.point \in Names
  <2>1. th[t].pc \in {"rule", "half", "clear"} /\ setup' = setup /\ readings' = readings /\ overlapped' = overlapped
    BY PipelineMoves DEF Moves, Stays, Fails, ledger
  <2>2. Busy(t)  BY <2>1 DEF Busy
  <2> QED  BY <2>1, <2>2, BusyInOrder, AheadIs DEF Typed, RoundsTyped, Fresh, LedgerTyped, InOrder, Results
<1>2. \E me : th' = [th EXCEPT ![t] = me]
  <2>1. Moves(t)  BY PipelineMoves
  <2> QED  BY <2>1, <1>1 DEF Moves, Stays, Rejects, Fails, LetsOut
<1>3. CASE ~(LoneFilter /\ ~overlapped)
  <2>1. DropsStep  BY <1>3 DEF DropsStep, LoneFilter
  <2>2. Filters'  BY <1>1, <1>2, <1>3, FiltersKept
  <2> QED  BY <2>1, <2>2
<1>4. CASE LoneFilter /\ ~overlapped
  <2>1. /\ LoneRule /\ kind \in {"duplicate", "change"} /\ setup.rules[1].abort /\ ~overlapped
        /\ RoundFilters(th[t], readings, last, left, kind)
    BY <1>1, <1>4 DEF LoneFilter, Filters
  <2>2. setup.enabled  BY <2>1 DEF LoneRule
  <2>3. CASE ReadsMemory(t)
    <3>1. PICK me : me = [th[t] EXCEPT !.pc = "half", !.seen = last[o.point]]  OBVIOUS
    <3>2. th' = [th EXCEPT ![t] = me] /\ th[t].pc = "rule" /\ th[t].rule = 1 /\ UNCHANGED pipe /\ UNCHANGED ledger
      <4>1. th' = [th EXCEPT ![t] = [th[t] EXCEPT !.pc = "half", !.seen = last[o.point]]]  BY <2>3 DEF ReadsMemory
      <4>2. th[t].pc = "rule" /\ th[t].rule = 1  BY <2>1, <2>3, LoneExecution DEF ReadsMemory, Executes, InRule
      <4> QED  BY <2>3, <3>1, <4>1, <4>2 DEF ReadsMemory
    <3>3. me.pc = "half" /\ me.seen = last[o.point] /\ me.cur = o  BY <1>1, <3>1 DEF Round
    <3>4. last = left /\ last' = last /\ left' = left /\ fate' = fate
      BY <2>1, <3>2 DEF RoundFilters, pipe, ledger
    <3>5. RoundFilters(me, readings', last', left', kind)  BY <3>3, <3>4 DEF RoundFilters
    <3>6. DropsStep  BY <3>4 DEF DropsStep
    <3> QED  BY <1>1, <3>2, <3>3, <3>5, <3>6, FiltersKept
  <2>4. CASE WritesMemory(t)
    <3> DEFINE id == Id(t)
               x == Filtered(kind, o, th[t].seen)
               before == left[o.point]
    <3>1. th[t].pc = "half" /\ th[t].rule = 1 /\ th[t].runs = 0 /\ RuleOf(t) = setup.rules[1]
      BY <2>1, <2>4, LoneExecution DEF WritesMemory
    <3>2. o = Reading(readings, id) /\ th[t].seen = before /\ last = left /\ before \in Int
      BY <1>1, <2>1, <3>1 DEF FreshRound, RoundFilters, Id
    <3>3. o.of # {} /\ o.val = readings[id].val /\ o.point = readings[id].point  BY <3>2 DEF Reading
    <3>4. /\ last' = (IF IsResult(x) THEN [last EXCEPT ![x.point] = x.val] ELSE last)
          /\ After(t, Caught(setup.rules[1], x, o))
      BY <2>4, <3>1 DEF WritesMemory
    <3>5. CASE Dropped(kind, o.val, before)
      <4>1. x \in {Nothing, Raised}  BY <1>1, <2>1, <3>2, <3>5, FilteredRepeats
      <4> HIDE DEF x
      <4>2. Caught(setup.rules[1], x, o) = Nothing /\ ~IsResult(x) /\ ~IsResult(Nothing)
        BY <2>1, <4>1, RaisedIsNoResult DEF Caught
      <4>3. After(t, Nothing) /\ last' = last  BY <3>4, <4>2
      <4>4. Rejects(t)  BY <1>1, <2>1, <3>1, <4>2, <4>3, AfterIs
      <4>5. th' = [th EXCEPT ![t] = NextPoint(th[t])] /\ fate' = [fate EXCEPT ![id] = "rejected"] /\ left' = left
        BY <4>4 DEF Rejects, Typed, RoundsTyped
      <4>6. PICK me : /\ me = NextPoint(th[t])
                      /\ me.pc = "batch" \/ (me.pc = "rule" /\ me.rule = 1)
        BY <1>1, NextPointIs
      <4>7. RoundFilters(me, readings', last', left', kind)  BY <3>2, <4>3, <4>5, <4>6 DEF RoundFilters
      <4>8. DropsStep
        <5>1. \A i \in DOMAIN fate : i # id => fate'[i] = fate[i]  BY <4>5
        <5>2. fate'[id] = "rejected"  BY <1>1, <4>5
        <5> HIDE DEF id
        <5> QED  BY <3>3, <3>5, <5>1, <5>2 DEF DropsStep
      <4> QED  BY <1>1, <4>5, <4>6, <4>7, <4>8, FiltersKept
    <3>6. CASE ~Dropped(kind, o.val, before)
      <4>1. x = o  BY <1>1, <2>1, <3>2, <3>6, FilteredRepeats
      <4>2. IsResult(o) /\ o # Raised  BY <3>3, RaisedIsNoResult DEF IsResult
      <4>3. Caught(setup.rules[1], x, o) = o /\ last' = [last EXCEPT ![o.point] = o.val]
        <5> HIDE DEF x
        <5> QED  BY <3>4, <4>1, <4>2 DEF Caught
      <4>4. After(t, o)  BY <3>4, <4>3
      <4>5. PICK me \in Round :
              /\ th' = [th EXCEPT ![t] = me] /\ me.pc = "rule" /\ me.cur = o
              /\ me.ids = th[t].ids /\ me.at = th[t].at
              /\ \/ me.rule = th[t].rule + 1 /\ me.runs = 0
                 \/ th[t].runs < RuleOf(t).loops
        BY <1>1, <3>1, <4>2, <4>4, AfterIs
      <4>6. me.rule = 2  BY <2>1, <3>1, <4>5 DEF LoneRule
      <4>7. UNCHANGED <<fate, left>>  BY <1>1, <3>1, <4>2, <4>4, AfterIs
      <4>8. RoundFilters(me, readings', last', left', kind)
        BY <1>1, <3>2, <3>6, <4>3, <4>5, <4>6, <4>7 DEF RoundFilters, Id
      <4>9. DropsStep  BY <4>7 DEF DropsStep
      <4> QED  BY <1>1, <4>5, <4>8, <4>9, FiltersKept
    <3> QED  BY <3>5, <3>6
  <2>5. CASE Leaves(t)
    <3> DEFINE id == Id(t)
    <3>1. th[t].pc = "rule" /\ th[t].rule > Len(setup.rules) /\ LetsOut(t, o) /\ UNCHANGED pipe
      BY <2>5 DEF Leaves
    <3>2. th[t].rule = 2  BY <1>1, <2>1, <3>1 DEF FreshRound, LoneRule
    <3>3. /\ o = Reading(readings, id) /\ last = [left EXCEPT ![o.point] = o.val]
          /\ ~Dropped(kind, o.val, left[o.point])
      BY <2>1, <3>1, <3>2 DEF RoundFilters, Id
    <3>4. o.val = readings[id].val /\ o.point = readings[id].point  BY <3>3 DEF Reading
    <3>5. PICK me : me = [th[t] EXCEPT !.pc = "out", !.cur = o]  OBVIOUS
    <3>6. /\ th' = [th EXCEPT ![t] = me] /\ me.pc = "out" /\ fate' = [fate EXCEPT ![id] = "left"]
          /\ last' = left'
      BY <1>1, <3>1, <3>3, <3>5 DEF LetsOut, Typed, RoundsTyped, Round, pipe
    <3>7. RoundFilters(me, readings', last', left', kind)  BY <3>6 DEF RoundFilters
    <3>8. DropsStep
      <4>1. \A i \in DOMAIN fate : i # id => fate'[i] = fate[i]  BY <3>6
      <4>2. fate'[id] = "left"  BY <1>1, <3>6
      <4> HIDE DEF id
      <4> QED  BY <3>3, <3>4, <4>1, <4>2 DEF DropsStep
    <3> QED  BY <1>1, <3>6, <3>7, <3>8, FiltersKept
  <2>6. /\ ~SkipsRule(t) /\ ~ConditionRaises(t) /\ ~RunsStateless(t) /\ ~Appends(t) /\ ~LooksAtBuffer(t)
        /\ ~ReadsUploaded(t) /\ ~RunsDefault(t) /\ ~Clears(t) /\ ~WindowRaises(t)
    BY <2>1, <2>2, LoneExecution
       DEF ReadsUploaded, Clears, WindowRaises, SkipsRule, ConditionRaises, RunsStateless, Appends, LooksAtBuffer, RunsDefault, Executes
  <2> QED  BY <2>3, <2>4, <2>5, <2>6 DEF InPipeline
<1> QED  BY <1>3, <1>4

\* Nothing has left the pipeline and the memories are blank.
LEMMA FiltersStart == ASSUME ProcessingInit PROVE Filters
<1>1. \A t \in Threads : th[t] = NoRound  BY DEF ProcessingInit
<1>2. last = left  BY DEF ProcessingInit
<1> QED  BY <1>1, <1>2, NoRoundPlaced DEF Filters, Busy

\* Every step keeps Filters, and is one that DropsExactlyRepeats allows.
LEMMA FiltersStep ==
  ASSUME Typed, Placed, Fresh, Filters, [ProcessingNext]_processingVars
  PROVE  Filters' /\ DropsStep
<1>1. ASSUME NEW t \in Threads, Begin(t) PROVE Filters' /\ DropsStep
  <2> DEFINE k == Len(readings)
  <2>1. /\ setup' = setup /\ pipe' = pipe /\ left' = left /\ DOMAIN fate = 1 .. k
        /\ \A i \in 1 .. k : readings'[i] = readings[i] /\ fate'[i] = fate[i]
    BY <1>1, BeginIs, AheadIs
  <2>2. DropsStep  BY <2>1 DEF DropsStep
  <2>3. th[t].pc = "idle" /\ (overlapped => overlapped')  BY <1>1, BeginIs
  <2>4. SUFFICES ASSUME LoneFilter', ~overlapped'
                 PROVE  /\ \A u \in Threads : th'[u].pc # "idle" =>
                             RoundFilters(th'[u], readings', last', left', setup'.rules[1].kind)
                        /\ (\A u \in Threads : ~(th'[u].pc # "idle")) => last' = left'
    BY <2>2 DEF Filters, Busy
  <2>5. LoneFilter /\ ~overlapped  BY <2>1, <2>3, <2>4 DEF LoneFilter, LoneRule
  <2>6. last' = last  BY <2>1 DEF pipe
  <2>7. CASE th' = th
    <3>1. ASSUME NEW u \in Threads, th[u].pc # "idle"
          PROVE  RoundFilters(th[u], readings', last', left', setup.rules[1].kind)
      <4>1. RoundFilters(th[u], readings, last, left, setup.rules[1].kind)  BY <2>5, <3>1 DEF Filters, Busy
      <4>2. th[u].ids[th[u].at] \in 1 .. k  BY <3>1, BusyInOrder DEF Busy, Id
      <4> QED  BY <2>1, <2>6, <4>1, <4>2 DEF RoundFilters, Reading
    <3> QED  BY <2>1, <2>5, <2>6, <2>7, <3>1 DEF Filters, Busy
  <2>8. CASE th' # th
    <3>1. PICK me : me = NewRound(readings', k)  OBVIOUS
    <3>2. /\ th' = [th EXCEPT ![t] = me] /\ me.pc = "rule"
          /\ overlapped' = (overlapped \/ \E u \in Threads \ {t} : Busy(u))
      BY <1>1, <2>8, <3>1, BeginIs
    <3>3. me.rule = 1  BY <3>1 DEF NewRound, NoRound
    <3>4. th'[t] = me /\ \A u \in Threads \ {t} : th'[u] = th[u] /\ ~Busy(u)
      BY <2>4, <3>2 DEF Typed, RoundsTyped
    <3>5. last = left  BY <2>3, <2>5, <3>4 DEF Filters, Busy
    <3>6. RoundFilters(me, readings', last', left', setup.rules[1].kind)
      BY <2>1, <2>6, <3>2, <3>3, <3>5 DEF RoundFilters
    <3>7. \A u \in Threads : th'[u].pc # "idle" => u = t  BY <3>4 DEF Busy
    <3> QED  BY <2>1, <2>6, <3>4, <3>5, <3>6, <3>7
  <2> QED  BY <2>7, <2>8
<1>2. ASSUME NEW t \in Threads, OnData(t) PROVE Filters' /\ DropsStep
  <2>1. /\ th[t].pc = "out" /\ Busy(t)
        /\ UNCHANGED <<setup, batching, present, pipe, readings, fate, result, left, overlapped>>
    BY <1>2, OnDataIs
  <2>2. PICK me \in Round :
          th' = [th EXCEPT ![t] = me] /\ (me.pc = "batch" \/ (me.pc = "rule" /\ me.rule = 1))
    BY <1>2, OnDataIs
  <2>3. DropsStep  BY <2>1 DEF DropsStep
  <2>4. LoneFilter /\ ~overlapped => last = left  BY <2>1 DEF Filters, RoundFilters
  <2>5. LoneFilter /\ ~overlapped => RoundFilters(me, readings', last', left', setup.rules[1].kind)
    BY <2>1, <2>2, <2>4 DEF RoundFilters, pipe
  <2> QED  BY <2>1, <2>2, <2>3, <2>5, FiltersKept
<1>3. ASSUME NEW t \in Threads, OnBatch(t) PROVE Filters' /\ DropsStep
  <2>1. /\ th[t].pc = "batch" /\ Busy(t) /\ th' = [th EXCEPT ![t] = NoRound]
        /\ UNCHANGED <<setup, batching, present, pipe, readings, fate, result, left, stored, overlapped>>
    BY <1>3, OnBatchIs DEF Busy
  <2>2. DropsStep  BY <2>1 DEF DropsStep
  <2>3. LoneFilter /\ ~overlapped => last' = left'  BY <2>1 DEF Filters, RoundFilters, pipe
  <2> QED  BY <2>1, <2>2, <2>3, NoRoundPlaced, FiltersKept
<1>4. CASE UNCHANGED <<th, setup, pipe, ledger>> \/ SwitchesBatching \/ RemovesDevice
  <2>1. UNCHANGED <<th, setup, last, left, readings, overlapped, fate>>
    BY <1>4 DEF SwitchesBatching, RemovesDevice, pipe, ledger
  <2>2. DropsStep  BY <2>1 DEF DropsStep
  <2>3. LoneFilter' = LoneFilter  BY <2>1 DEF LoneFilter, LoneRule
  <2>4. Filters'
    <3>1. SUFFICES ASSUME LoneFilter', ~overlapped'
                   PROVE  /\ \A u \in Threads : th'[u].pc # "idle" =>
                               RoundFilters(th'[u], readings', last', left', setup'.rules[1].kind)
                          /\ (\A u \in Threads : ~(th'[u].pc # "idle")) => last' = left'
      BY DEF Filters, Busy
    <3>2. LoneFilter /\ ~overlapped  BY <2>1, <2>3, <3>1
    <3> QED  BY <2>1, <3>2 DEF Filters, Busy
  <2> QED  BY <2>2, <2>4
<1>5. CASE UNCHANGED processingVars  BY <1>4, <1>5 DEF processingVars
<1> QED  BY <1>1, <1>2, <1>3, <1>4, <1>5, FiltersMoves DEF ProcessingNext

\* A lone filter of repetitions or of small changes drops exactly what repeats the value of
\* the point that left last, and what cannot be compared with it, for every course of
\* values: what Pipeline's _filter_last_ of a
\* point holds is what the pipeline let out, as long as one round at a time is in it.
THEOREM FilterDropsExactlyRepeats == ProcessingSpec => DropsExactlyRepeats
<1>1. ProcessingInit => Typed /\ Accounted /\ Placed /\ Fresh /\ Filters
  BY TypedStart, AccountedStart, PlacedStart, FreshStart, FiltersStart
<1>2. Typed /\ Accounted /\ Placed /\ Fresh /\ Filters /\ [ProcessingNext]_processingVars
      => (Typed /\ Accounted /\ Placed /\ Fresh /\ Filters)'
  BY TypedStep, AccountedStep, PlacedStep, FreshStep, FiltersStep
<1>3. Typed /\ Placed /\ Fresh /\ Filters /\ [ProcessingNext]_processingVars
      => [\A id \in DOMAIN fate :
            LoneRule /\ setup.rules[1].kind \in {"duplicate", "change"} /\ setup.rules[1].abort
              /\ ~overlapped /\ fate[id] = "inside" /\ fate'[id] \in {"rejected", "left"}
            => LET kind == setup.rules[1].kind
                   v == readings[id].val
                   before == left[readings[id].point]
               IN fate'[id] = "rejected" <=> Repeats(kind, v, before) \/ Incomparable(kind, v, before)]_processingVars
  BY FiltersStep DEF DropsStep, Dropped
<1> QED  BY <1>1, <1>2, <1>3, PTL DEF ProcessingSpec, DropsExactlyRepeats

-----------------------------------------------------------------------------
(* A buffer that is appended to and trimmed tracks the readings that came  *)
(* last.                                                                   *)


\* The buffer b holds the readings of P that came last, Window of them if there are so many.
Tracks(b, P, rs, cap) ==
  /\ Len(b) <= cap
  /\ \E f \in [1 .. Len(b) -> P] :
       /\ \A m \in 1 .. Len(b) : b[m] = Reading(rs, f[m])
       /\ \A m, n \in 1 .. Len(b) : m < n => f[m] < f[n]
       /\ \A i \in P : (\E m \in 1 .. Len(b) : f[m] = i)
                       \/ (Len(b) >= Window /\ \A m \in 1 .. Len(b) : i < f[m])

\* A buffer that tracks readings still does when their records are the same.
LEMMA TracksSame ==
  ASSUME NEW b, NEW P, NEW rs, NEW rz, NEW cap, Tracks(b, P, rs, cap),
         \A i \in P : rz[i] = rs[i]
  PROVE  Tracks(b, P, rz, cap)
BY DEF Tracks, Reading

\* A reading later than all is appended.
LEMMA TracksAppended ==
  ASSUME NEW b \in Seq(Results), NEW P \in SUBSET Nat, NEW rs, NEW id \in Nat, Reading(rs, id) \in Results,
         Tracks(b, P, rs, Window),
         \A i \in P : i < id
  PROVE  Tracks(Append(b, Reading(rs, id)), P \cup {id}, rs, Window + 1)
<1> DEFINE n == Len(b)
           z == Append(b, Reading(rs, id))
<1>1. /\ n \in Nat /\ Window \in Nat /\ Len(z) = n + 1 /\ (\A m \in 1 .. n : z[m] = b[m]) /\ z[n + 1] = Reading(rs, id)
  BY ProcessingAssumption, LenProperties, AppendProperties
<1> HIDE DEF z
<1>2. PICK f \in [1 .. n -> P] :
       /\ \A m \in 1 .. n : b[m] = Reading(rs, f[m])
       /\ \A m, k \in 1 .. n : m < k => f[m] < f[k]
       /\ \A i \in P : (\E m \in 1 .. n : f[m] = i) \/ (n >= Window /\ \A m \in 1 .. n : i < f[m])
  BY DEF Tracks
<1>3. n <= Window  BY DEF Tracks
<1> HIDE DEF n
<1> DEFINE g == [m \in 1 .. n + 1 |-> IF m = n + 1 THEN id ELSE f[m]]
<1>4. \A m \in 1 .. n + 1 : m = n + 1 \/ (m \in 1 .. n /\ m # n + 1)  BY <1>1
<1>5. g \in [1 .. n + 1 -> P \cup {id}] /\ g[n + 1] = id /\ \A m \in 1 .. n : g[m] = f[m]
  BY <1>1, <1>2, <1>4
<1> HIDE DEF g
<1>6. \A m \in 1 .. n + 1 : z[m] = Reading(rs, g[m])  BY <1>1, <1>2, <1>4, <1>5
<1>7. ASSUME NEW m \in 1 .. n + 1, NEW k \in 1 .. n + 1, m < k PROVE g[m] < g[k]
  <2>1. m \in 1 .. n  BY <1>1, <1>4, <1>7
  <2>2. CASE k = n + 1  BY <1>2, <1>5, <2>1, <2>2
  <2>3. CASE k \in 1 .. n  BY <1>2, <1>5, <1>7, <2>1, <2>3
  <2> QED  BY <1>4, <2>2, <2>3
<1>8. ASSUME NEW i \in P \cup {id}
      PROVE  (\E m \in 1 .. n + 1 : g[m] = i) \/ (n + 1 >= Window /\ \A m \in 1 .. n + 1 : i < g[m])
  <2>1. CASE i = id  BY <1>1, <1>5, <2>1
  <2>2. CASE i \in P /\ \E m \in 1 .. n : f[m] = i
    <3>1. PICK m \in 1 .. n : f[m] = i  BY <2>2
    <3>2. m \in 1 .. n + 1  BY <1>1
    <3> QED  BY <1>5, <3>1, <3>2
  <2>3. CASE i \in P /\ ~\E m \in 1 .. n : f[m] = i
    <3>1. n >= Window /\ \A m \in 1 .. n : i < f[m]  BY <1>2, <2>3
    <3>2. \A m \in 1 .. n + 1 : i < g[m]  BY <1>4, <1>5, <2>3, <3>1
    <3> QED  BY <1>1, <3>1, <3>2
  <2> QED  BY <2>1, <2>2, <2>3
<1>9. n + 1 <= Window + 1  BY <1>1, <1>3
<1>10. Tracks(z, P \cup {id}, rs, Window + 1)  BY <1>1, <1>5, <1>6, <1>7, <1>8, <1>9 DEF Tracks, n
<1> QED  BY <1>10 DEF z

\* The oldest of Window + 1 readings is dropped.
LEMMA TracksTrimmed ==
  ASSUME NEW b \in Seq(Results), NEW P \in SUBSET Nat, NEW rs, Tracks(b, P, rs, Window + 1)
  PROVE  Tracks(Trimmed(b, Window), P, rs, Window)
<1> DEFINE n == Len(b)
           z == Tail(b)
<1>1. n \in Nat /\ Window \in Nat \ {0} /\ n <= Window + 1  BY ProcessingAssumption, LenProperties DEF Tracks
<1>2. CASE ~(n > Window)
  <2>1. Trimmed(b, Window) = b /\ n <= Window  BY <1>1, <1>2 DEF Trimmed
  <2> QED  BY <2>1 DEF Tracks
<1>3. CASE n > Window
  <2>1. Trimmed(b, Window) = z  BY <1>3 DEF Trimmed
  <2>2. n = Window + 1 /\ b # <<>>  BY <1>1, <1>3, EmptySeq
  <2>3. Len(z) = Window /\ \A m \in 1 .. Window : z[m] = b[m + 1]
    <3>1. Len(z) = n - 1 /\ \A m \in 1 .. Len(z) : z[m] = b[m + 1]  BY <2>2, HeadTailProperties
    <3> QED  BY <1>1, <2>2, <3>1
  <2> HIDE DEF z
  <2>4. PICK f \in [1 .. n -> P] :
         /\ \A m \in 1 .. n : b[m] = Reading(rs, f[m])
         /\ \A m, k \in 1 .. n : m < k => f[m] < f[k]
         /\ \A i \in P : (\E m \in 1 .. n : f[m] = i) \/ (n >= Window /\ \A m \in 1 .. n : i < f[m])
    BY DEF Tracks
  <2> HIDE DEF n
  <2> DEFINE g == [m \in 1 .. Window |-> f[m + 1]]
  <2>5. \A m \in 1 .. Window : m + 1 \in 1 .. n /\ m \in 1 .. n /\ 1 < m + 1  BY <1>1, <2>2
  <2>6. g \in [1 .. Window -> P] /\ \A m \in 1 .. Window : g[m] = f[m + 1]  BY <2>4, <2>5
  <2> HIDE DEF g
  <2>7. \A m \in 1 .. Window : z[m] = Reading(rs, g[m])  BY <2>3, <2>4, <2>5, <2>6
  <2>8. ASSUME NEW m \in 1 .. Window, NEW k \in 1 .. Window, m < k PROVE g[m] < g[k]
    <3>1. m + 1 < k + 1  BY <1>1, <2>8
    <3> QED  BY <2>4, <2>5, <2>6, <3>1
  <2>9. ASSUME NEW i \in P
        PROVE  (\E m \in 1 .. Window : g[m] = i) \/ \A m \in 1 .. Window : i < g[m]
    <3>1. CASE \E m \in 1 .. n : f[m] = i
      <4>1. PICK m \in 1 .. n : f[m] = i  BY <3>1
      <4>2. CASE m = 1
        <5>1. 1 \in 1 .. n  BY <1>1, <2>2
        <5> QED  BY <2>4, <2>5, <2>6, <4>1, <4>2, <5>1
      <4>3. CASE m # 1
        <5>1. m - 1 \in 1 .. Window /\ (m - 1) + 1 = m  BY <1>1, <2>2, <4>3
        <5> QED  BY <2>6, <4>1, <5>1
      <4> QED  BY <4>2, <4>3
    <3>2. CASE ~\E m \in 1 .. n : f[m] = i
      <4>1. \A m \in 1 .. n : i < f[m]  BY <2>4, <3>2
      <4> QED  BY <2>5, <2>6, <4>1
    <3> QED  BY <3>1, <3>2
  <2>10. Len(z) = Window /\ Window <= Window /\ Window >= Window  BY <1>1, <2>3
  <2>11. \E h \in [1 .. Window -> P] :
           /\ \A m \in 1 .. Window : z[m] = Reading(rs, h[m])
           /\ \A m, k \in 1 .. Window : m < k => h[m] < h[k]
           /\ \A i \in P : (\E m \in 1 .. Window : h[m] = i)
                           \/ (Window >= Window /\ \A m \in 1 .. Window : i < h[m])
    BY <2>6, <2>7, <2>8, <2>9, <2>10
  <2>12. Tracks(z, P, rs, Window)  BY <2>10, <2>11 DEF Tracks
  <2> QED  BY <2>1, <2>12
<1> QED  BY <1>2, <1>3

\* What it holds are then the readings of P that fewer than Window of P came after.
Latest(P) == {i \in P : Cardinality({j \in P : j > i}) < Window}
\* A buffer of Window readings holds exactly the last Window of them.
LEMMA TracksRecent ==
  ASSUME NEW b \in Seq(Results), NEW P \in SUBSET Nat, IsFiniteSet(P), NEW rs, Tracks(b, P, rs, Window)
  PROVE  /\ Cardinality(Latest(P)) = Len(b)
         /\ \A m \in 1 .. Len(b) : \E i \in Latest(P) : b[m] = Reading(rs, i)
         /\ \A i \in Latest(P) : \E m \in 1 .. Len(b) : b[m] = Reading(rs, i)
<1> DEFINE n == Len(b)
           R == Latest(P)
<1>1. n \in Nat /\ Window \in Nat /\ n <= Window  BY ProcessingAssumption, LenProperties DEF Tracks
<1>2. PICK f \in [1 .. n -> P] :
       /\ \A m \in 1 .. n : b[m] = Reading(rs, f[m])
       /\ \A m, k \in 1 .. n : m < k => f[m] < f[k]
       /\ \A i \in P : (\E m \in 1 .. n : f[m] = i) \/ (n >= Window /\ \A m \in 1 .. n : i < f[m])
  BY DEF Tracks
<1> HIDE DEF n
<1> DEFINE Q == {f[m] : m \in 1 .. n}
<1>3. Q \subseteq P /\ IsFiniteSet(Q)  BY <1>2, FS_Subset
<1>4. Cardinality(Q) = n
  <2>1. IsFiniteSet(1 .. n) /\ Cardinality(1 .. n) = n  BY <1>1, FS_Interval
  <2>2. f \in Surjection(1 .. n, Q)  BY <1>2 DEF Surjection
  <2>3. Cardinality(Q) <= n  BY <2>1, <2>2, FS_Surjection
  <2> DEFINE g == [q \in Q |-> CHOOSE m \in 1 .. n : f[m] = q]
  <2>4. \A q \in Q : g[q] \in 1 .. n /\ f[g[q]] = q  OBVIOUS
  <2>5. ASSUME NEW m \in 1 .. n PROVE f[m] \in Q /\ g[f[m]] = m
    <3>1. f[m] \in Q  OBVIOUS
    <3> DEFINE k == g[f[m]]
    <3>2. k \in 1 .. n /\ f[k] = f[m]  BY <2>4, <3>1
    <3> HIDE DEF k, g, Q
    <3>3. f[k] \in Nat /\ f[m] \in Nat  BY <1>2, <3>2
    <3>4. ~(k < m) /\ ~(m < k)  BY <1>2, <3>2, <3>3
    <3>5. k = m  BY <1>1, <3>2, <3>4
    <3> QED  BY <3>1, <3>5 DEF k
  <2>6. g \in Surjection(Q, 1 .. n)
    <3>1. g \in [Q -> 1 .. n]  BY <2>4
    <3> HIDE DEF g, Q
    <3> QED  BY <2>5, <3>1 DEF Surjection
  <2>7. n <= Cardinality(Q)
    <3> HIDE DEF g, Q
    <3> QED  BY <1>3, <2>1, <2>6, FS_Surjection
  <2>8. Cardinality(Q) \in Nat  BY <1>3, FS_CardinalityType
  <2> HIDE DEF Q
  <2> QED  BY <1>1, <2>3, <2>7, <2>8
<1>5. ASSUME NEW i \in P PROVE i \in Q <=> Cardinality({j \in P : j > i}) < Window
  <2> DEFINE later == {j \in P : j > i}
  <2>1. IsFiniteSet(later) /\ Cardinality(later) \in Nat  BY FS_Subset, FS_CardinalityType
  <2>2. i \in Nat /\ \A q \in Q : q \in Nat  BY <1>3
  <2>3. CASE i \in Q
    <3>1. PICK m \in 1 .. n : f[m] = i  BY <2>3
    <3>2. ASSUME NEW j \in later PROVE j \in Q
      <4>1. j \in P /\ j > i /\ j \in Nat  OBVIOUS
      <4>2. ~(j < f[m])  BY <2>2, <3>1, <4>1
      <4> QED  BY <1>2, <4>1, <4>2
    <3>3. later \subseteq Q  BY <3>2
    <3>7. i \notin later  BY <2>2
    <3> HIDE DEF later, Q
    <3>4. Cardinality(later) <= n /\ later # Q  BY <1>3, <1>4, <2>3, <3>3, <3>7, FS_Subset
    <3>5. Cardinality(later) # n  BY <1>3, <1>4, <3>3, <3>4, FS_Subset
    <3>6. Cardinality(later) < Window  BY <1>1, <2>1, <3>4, <3>5
    <3> QED  BY <2>3, <3>6 DEF later
  <2>4. CASE i \notin Q
    <3>1. n >= Window /\ \A m \in 1 .. n : i < f[m]  BY <1>2, <2>4
    <3>2. Q \subseteq later
      <4> SUFFICES ASSUME NEW m \in 1 .. n PROVE f[m] \in later  OBVIOUS
      <4>1. f[m] \in P /\ f[m] \in Nat  BY <1>2
      <4> QED  BY <2>2, <3>1, <4>1
    <3> HIDE DEF later, Q
    <3>3. n <= Cardinality(later)  BY <1>3, <1>4, <2>1, <3>2, FS_Subset
    <3>4. ~(Cardinality(later) < Window)  BY <1>1, <2>1, <3>1, <3>3
    <3> QED  BY <2>4, <3>4 DEF later
  <2> QED  BY <2>3, <2>4
<1>6. R = Q
  <2>1. \A i \in P : i \in Q <=> i \in R  BY <1>5 DEF Latest
  <2> HIDE DEF Q
  <2>2. R \subseteq P  BY DEF Latest
  <2> HIDE DEF R
  <2> QED  BY <1>3, <2>1, <2>2
<1>7. \A m \in 1 .. n : \E i \in Q : b[m] = Reading(rs, i)  BY <1>2
<1>8. \A i \in Q : \E m \in 1 .. n : b[m] = Reading(rs, i)  BY <1>2
<1> HIDE DEF Q, R
<1> QED  BY <1>3, <1>4, <1>6, <1>7, <1>8 DEF R, n

-----------------------------------------------------------------------------
(* What a lone aggregate rule lets out is the aggregate of those.          *)


\* What AggregateIsRecent says of one reading, for any course of the readings and outcome o.
Same(rs, f, id) == {i \in 1 .. id : rs[i].point = rs[id].point /\ f[i] # "lost"}
IsAggregate(rs, R, id, o) ==
  LET vals == {rs[i].val : i \in R}
  IN IF Cardinality(R) < Window \/ Text \in vals \/ vals = {Null}
     THEN o = Reading(rs, id)
     ELSE o.of = R /\ o.val = Max(vals \ {Null})
RightFor(rs, f, id, o) == IsAggregate(rs, Latest(Same(rs, f, id)), id, o)

\* The readings of p that came to the end of the pipeline, and those of ids: what the buffer
\* of p was fed.
Fed(rs, f, ids, p) == {i \in DOMAIN f : rs[i].point = p /\ (f[i] \in {"rejected", "left"} \/ i \in ids)}
InBuffer(me) == IF me.pc = "half" \/ (me.pc = "rule" /\ me.rule = 2) THEN {me.ids[me.at]} ELSE {}

\* The buffers of a lone aggregate rule track what they were fed, one longer between the
\* append and the trim; and what is on its way out is right.
LoneAggregate == LoneRule /\ setup.rules[1].kind = "aggregate"
RoundBuffers(me, rs, f, bs) ==
  /\ \A p \in Names : Tracks(bs[p], Fed(rs, f, InBuffer(me), p), rs,
                             IF me.pc = "half" /\ p = me.cur.point THEN Window + 1 ELSE Window)
  /\ me.pc = "rule" /\ me.rule = 2 => RightFor(rs, f, me.ids[me.at], me.cur)
OutRight(rs, f, res) == \A id \in DOMAIN f : f[id] = "left" => RightFor(rs, f, id, res[id])
Buffered ==
  LoneAggregate /\ ~overlapped =>
    /\ \A t \in Threads : (\A u \in Threads \ {t} : ~Busy(u)) => RoundBuffers(th[t], readings, fate, buffers)
    /\ OutRight(readings, fate, result)

LEMMA BufferedAggregates == Buffered => AggregateIsRecent
<1> SUFFICES ASSUME Buffered, LoneRule, setup.rules[1].kind = "aggregate", ~overlapped,
                    NEW id \in DOMAIN fate, fate[id] = "left"
             PROVE  LET vals == {readings[i].val : i \in Recent(id)}
                    IN IF Cardinality(Recent(id)) < Window \/ Text \in vals \/ vals = {Null}
                       THEN result[id] = [point |-> readings[id].point, val |-> readings[id].val, of |-> {id}]
                       ELSE result[id].of = Recent(id) /\ result[id].val = Max(vals \ {Null})
  BY DEF AggregateIsRecent
<1>1. RightFor(readings, fate, id, result[id])  BY DEF Buffered, LoneAggregate, OutRight
<1>2. Latest(Same(readings, fate, id)) = Recent(id)  BY DEF Latest, Same, Recent
<1>3. IsAggregate(readings, Recent(id), id, result[id])  BY <1>1, <1>2 DEF RightFor
<1> QED  BY <1>3 DEF IsAggregate, Reading

\* RightFor depends on the course of the earlier readings only.
LEMMA RightForSame ==
  ASSUME NEW rs, NEW rz, NEW f, NEW g, NEW id \in Nat \ {0}, NEW o,
         \A i \in 1 .. id : rz[i] = rs[i] /\ (g[i] = "lost" <=> f[i] = "lost"),
         RightFor(rs, f, id, o)
  PROVE  RightFor(rz, g, id, o)
<1>1. id \in 1 .. id  OBVIOUS
<1>2. Same(rz, g, id) = Same(rs, f, id)  BY <1>1 DEF Same
<1> DEFINE R == Latest(Same(rs, f, id))
<1>3. \A i \in R : rz[i] = rs[i]  BY DEF Latest, Same
<1>4. IsAggregate(rs, R, id, o)  BY DEF RightFor
<1> HIDE DEF R
<1>5. {rz[i].val : i \in R} = {rs[i].val : i \in R}  BY <1>3
<1>6. Reading(rz, id) = Reading(rs, id)  BY <1>1 DEF Reading
<1>7. IsAggregate(rz, R, id, o)  BY <1>4, <1>5, <1>6 DEF IsAggregate
<1> QED  BY <1>2, <1>7 DEF RightFor, R

\* What Aggregated makes of a buffer that holds the readings of R.
LEMMA AggregatedIs ==
  ASSUME NEW b \in Seq(Results), NEW rs, NEW R, NEW id, Cardinality(R) = Len(b),
         \A m \in 1 .. Len(b) : \E i \in R : b[m] = Reading(rs, i),
         \A i \in R : \E m \in 1 .. Len(b) : b[m] = Reading(rs, i)
  PROVE  \/ Aggregated(b, Reading(rs, id)) = Raised /\ \E i \in R : rs[i].val = Text
         \/ /\ IsResult(Aggregated(b, Reading(rs, id)))
            /\ IsAggregate(rs, R, id, Aggregated(b, Reading(rs, id)))
<1> DEFINE n == Len(b)
           vals == {rs[i].val : i \in R}
           o == Reading(rs, id)
           x == Aggregated(b, o)
           whole == [Last(b) EXCEPT !.val = Max({h.val : h \in Numeric(b)}), !.of = UNION {h.of : h \in Range(b)}]
<1>1. n \in Nat /\ DOMAIN b = 1 .. n /\ Window \in Nat \ {0} /\ \A m \in 1 .. n : b[m] \in Results
  BY ProcessingAssumption, LenProperties, ElementOfSeq
<1>2. Range(b) = {Reading(rs, i) : i \in R}  BY <1>1 DEF Range
<1>3. \A i \in R : Reading(rs, i).val = rs[i].val /\ Reading(rs, i).of = {i}  BY DEF Reading
<1>4. Numeric(b) = {h \in Range(b) : h.val # Null}  BY DEF Numeric
<1>5. {h.val : h \in Numeric(b)} = vals \ {Null}  BY <1>2, <1>3, <1>4
<1>6. (\E h \in Range(b) : h.val = Text) <=> Text \in vals  BY <1>2, <1>3
<1>7. UNION {h.of : h \in Range(b)} = R  BY <1>2, <1>3
<1>8. Numeric(b) = {} <=> vals \subseteq {Null}
  <2>1. Numeric(b) = {} <=> \A i \in R : Reading(rs, i).val = Null  BY <1>2, <1>4
  <2> QED  BY <1>3, <2>1
<1>9. IsResult(o)  BY DEF IsResult, Reading
<1>10. x = IF n < Window \/ Numeric(b) = {} THEN o
           ELSE IF \E h \in Range(b) : h.val = Text THEN Raised ELSE whole
  BY DEF Aggregated
<1>11. CASE n < Window  BY <1>9, <1>10, <1>11 DEF IsAggregate
<1>12. CASE ~(n < Window) /\ Numeric(b) = {}
  <2>1. x = o  BY <1>10, <1>12
  <2>2. b[1] \in Range(b)  BY <1>1, <1>12 DEF Range
  <2>3. vals # {}  BY ZenonT(60), <1>2, <2>2
  <2>4. vals = {Null}  BY <1>8, <1>12, <2>3
  <2> HIDE DEF x, o, vals
  <2> QED  BY <1>9, <2>1, <2>4 DEF IsAggregate, vals, o, x
<1>13. CASE ~(n < Window) /\ Numeric(b) # {} /\ Text \in vals  BY <1>6, <1>10, <1>13
<1>14. CASE ~(n < Window) /\ Numeric(b) # {} /\ Text \notin vals
  <2>1. x = whole  BY <1>6, <1>10, <1>14
  <2>2. b[n] \in Results /\ Last(b) = b[n]  BY <1>1, <1>14 DEF Last
  <2>3. whole.val = Max({h.val : h \in Numeric(b)}) /\ whole.of = UNION {h.of : h \in Range(b)}
    BY <2>2 DEF Results
  <2>4. whole.val = Max(vals \ {Null}) /\ whole.of = R  BY <1>5, <1>7, <2>3
  <2>5. R # {}  BY <1>3, <1>8, <1>14
  <2> HIDE DEF whole, x, vals
  <2>6. ~(Cardinality(R) < Window \/ Text \in vals \/ vals = {Null})  BY <1>8, <1>14
  <2>7. x.of = R /\ x.val = Max(vals \ {Null})  BY <2>1, <2>4
  <2>8. IsAggregate(rs, R, id, x)  BY <2>6, <2>7 DEF IsAggregate, vals
  <2> QED  BY <2>5, <2>7, <2>8 DEF IsResult, x
<1> QED  BY <1>11, <1>12, <1>13, <1>14

\* What a buffer was fed is a finite set of readings.
LEMMA FedTyped ==
  ASSUME Typed, NEW ids, NEW p
  PROVE  /\ DOMAIN fate = 1 .. Len(readings) /\ Len(readings) \in Nat
         /\ Fed(readings, fate, ids, p) \in SUBSET Nat /\ IsFiniteSet(Fed(readings, fate, ids, p))
         /\ Fed(readings, fate, ids, p) \subseteq 1 .. Len(readings)
<1>1. DOMAIN fate = 1 .. Len(readings) /\ Len(readings) \in Nat
  BY LenProperties DEF Typed, LedgerTyped
<1>2. Fed(readings, fate, ids, p) \subseteq 1 .. Len(readings)  BY <1>1 DEF Fed
<1>3. IsFiniteSet(1 .. Len(readings))  BY <1>1, FS_Interval
<1>4. IsFiniteSet(Fed(readings, fate, ids, p))  BY <1>2, <1>3, FS_Subset
<1>5. 1 .. Len(readings) \subseteq Nat  BY <1>1
<1> QED  BY <1>1, <1>2, <1>4, <1>5

\* A step of one round keeps Buffered when it does so for that round.
LEMMA BufferedKept ==
  ASSUME Typed, Placed, NEW t \in Threads, Busy(t), NEW me, th' = [th EXCEPT ![t] = me], setup' = setup,
         overlapped' = overlapped, me.pc # "idle" \/ me = NoRound,
         LoneAggregate /\ ~overlapped =>
           RoundBuffers(me, readings', fate', buffers') /\ OutRight(readings', fate', result')
  PROVE  Buffered'
<1> SUFFICES ASSUME LoneAggregate', ~overlapped'
             PROVE  /\ \A v \in Threads : (\A u \in Threads \ {v} : ~(th'[u].pc # "idle")) =>
                         RoundBuffers(th'[v], readings', fate', buffers')
                    /\ OutRight(readings', fate', result')
  BY DEF Buffered, Busy
<1>1. LoneAggregate /\ ~overlapped  BY DEF LoneAggregate, LoneRule
<1>2. th'[t] = me /\ \A u \in Threads \ {t} : th'[u] = th[u] /\ ~Busy(u)
  BY <1>1 DEF Typed, RoundsTyped, Placed
<1>3. \A u \in Threads \ {t} : th'[u] = NoRound  BY <1>2 DEF Typed, RoundsTyped
<1>4. \A v \in Threads : (\A u \in Threads \ {v} : ~(th'[u].pc # "idle")) => th'[v] = me
  BY <1>2, <1>3
<1> QED  BY <1>1, <1>4

\* The readings in front of one in the pipeline, and the reading itself, are those its
\* buffer was fed.
LEMMA FedIsSame ==
  ASSUME Typed, Placed, ~overlapped, NEW t \in Threads, th[t].pc \in {"rule", "half"}
  PROVE  /\ \A p \in Names : \A i \in Fed(readings, fate, {}, p) : i < Id(t)
         /\ Fed(readings, fate, {Id(t)}, readings[Id(t)].point) = Same(readings, fate, Id(t))
<1> DEFINE id == Id(t)
           p == readings[id].point
<1>1. Busy(t) /\ \A u \in Threads : Busy(u) => u = t  BY DEF Busy, Placed
<1>2. /\ DOMAIN fate = 1 .. Len(readings) /\ Len(readings) \in Nat /\ id \in 1 .. Len(readings)
      /\ InOrder(th[t], Len(readings))
  BY <1>1, AheadIs, BusyInOrder, LenProperties DEF Typed, LedgerTyped
<1>3. \A i \in DOMAIN fate : fate[i] \in {"rejected", "left"} => i < id
  BY <1>1 DEF Placed, AtTheFront, Id
<1>4. id \in Ahead(th[t]) /\ fate[id] = "inside"
  BY <1>1, <1>2, AheadMoves DEF Placed, InOrder
<1>5. ASSUME NEW i \in Ahead(th[t]) PROVE i >= id
  <2>1. PICK j \in 1 .. Len(th[t].ids) : i = th[t].ids[j] /\ (j > th[t].at \/ j = th[t].at)
    BY <1>5 DEF Ahead
  <2>2. i = id \/ id < i  BY <1>2, <2>1 DEF InOrder, Id
  <2>3. i \in 1 .. Len(readings)  BY <1>2, <2>1 DEF InOrder
  <2> QED  BY <1>2, <2>2, <2>3
<1>6. ASSUME NEW i \in 1 .. id, fate[i] = "inside" PROVE i = id
  <2>1. i \in DOMAIN fate  BY <1>2
  <2>2. PICK u \in Threads : i \in Ahead(th[u])  BY <1>6, <2>1 DEF Placed
  <2>3. u = t  BY <1>1, <2>2, AheadIs
  <2> QED  BY <1>2, <1>5, <2>2, <2>3
<1>7. \A i \in 1 .. id : i \in DOMAIN fate /\ fate[i] \in Fates
  BY <1>2, ElementOfSeq DEF Typed, LedgerTyped
<1>8. ASSUME NEW i \in Same(readings, fate, id) PROVE i \in Fed(readings, fate, {id}, p)
  <2>1. i \in 1 .. id /\ readings[i].point = p /\ fate[i] # "lost"  BY DEF Same
  <2>2. fate[i] = "inside" \/ fate[i] \in {"rejected", "left"}  BY <1>7, <2>1 DEF Fates
  <2> QED  BY <1>6, <1>7, <2>1, <2>2 DEF Fed
<1>9. ASSUME NEW i \in Fed(readings, fate, {id}, p) PROVE i \in Same(readings, fate, id)
  <2>1. i \in DOMAIN fate /\ readings[i].point = p /\ (fate[i] \in {"rejected", "left"} \/ i = id)  BY DEF Fed
  <2>2. i \in 1 .. id  BY <1>2, <1>3, <2>1
  <2>3. fate[i] # "lost"  BY <1>4, <2>1
  <2> QED  BY <2>1, <2>2, <2>3 DEF Same
<1>10. \A q : \A i \in Fed(readings, fate, {}, q) : i < id  BY <1>3 DEF Fed
<1> HIDE DEF id
<1> QED  BY <1>8, <1>9, <1>10 DEF id

\* A reading that comes to the end of the pipeline is fed still.
LEMMA FedAtEnd ==
  ASSUME Typed, NEW id \in DOMAIN fate, NEW f \in {"rejected", "left"}, NEW p
  PROVE  Fed(readings, [fate EXCEPT ![id] = f], {}, p) = Fed(readings, fate, {id}, p)
BY DEF Fed

\* A reading that leaves with what RightFor asks keeps OutRight.
LEMMA OutRightAtEnd ==
  ASSUME Typed, OutRight(readings, fate, result), NEW id \in DOMAIN fate, fate[id] = "inside",
         NEW f \in {"rejected", "left"}, NEW res, \A i \in DOMAIN fate : i # id => res[i] = result[i],
         f = "left" => RightFor(readings, fate, id, res[id])
  PROVE  OutRight(readings, [fate EXCEPT ![id] = f], res)
<1> DEFINE g == [fate EXCEPT ![id] = f]
<1>1. DOMAIN fate = 1 .. Len(readings) /\ Len(readings) \in Nat
  BY LenProperties DEF Typed, LedgerTyped
<1>2. DOMAIN g = DOMAIN fate /\ g[id] = f /\ \A i \in DOMAIN fate : i # id => g[i] = fate[i]
  OBVIOUS
<1> HIDE DEF g
<1>3. \A i \in DOMAIN fate : g[i] = "lost" <=> fate[i] = "lost"  BY <1>2
<1>4. ASSUME NEW i \in DOMAIN fate, g[i] = "left" PROVE RightFor(readings, g, i, res[i])
  <2>1. RightFor(readings, fate, i, res[i])  BY <1>2, <1>4 DEF OutRight
  <2>2. i \in Nat \ {0} /\ \A j \in 1 .. i : j \in DOMAIN fate  BY <1>1
  <2>3. \A j \in 1 .. i : g[j] = "lost" <=> fate[j] = "lost"  BY <1>3, <2>2
  <2> QED  BY <2>1, <2>2, <2>3, RightForSame
<1>5. OutRight(readings, g, res)  BY <1>2, <1>4 DEF OutRight
<1> QED  BY <1>5 DEF g

\* What the pipeline does with a reading once its buffer is trimmed.
LEMMA BufferedAtEnd ==
  ASSUME Typed, NEW id \in DOMAIN fate, NEW f \in {"rejected", "left"}, NEW me, InBuffer(me) = {},
         me.pc # "half", ~(me.pc = "rule" /\ me.rule = 2), NEW bs,
         \A p \in Names : Tracks(bs[p], Fed(readings, fate, {id}, p), readings, Window)
  PROVE  RoundBuffers(me, readings, [fate EXCEPT ![id] = f], bs)
BY FedAtEnd DEF RoundBuffers

\* The pipeline keeps Buffered: the append, the aggregate and the trimming.
LEMMA BufferedMoves ==
  ASSUME Typed, Placed, Fresh, Buffered, NEW t \in Threads, InPipeline(t)
  PROVE  Buffered'
<1> DEFINE o == th[t].cur
           id == Id(t)
           p == o.point
<1>1. /\ th[t] \in Round /\ th[t].pc \in {"rule", "half", "clear"} /\ Busy(t) /\ o \in Results /\ setup' = setup
      /\ readings' = readings /\ overlapped' = overlapped
      /\ FreshRound(th[t], readings, LoneRule, setup.enabled)
      /\ InOrder(th[t], Len(readings)) /\ id \in 1 .. Len(readings)
      /\ DOMAIN fate = 1 .. Len(readings) /\ DOMAIN result = 1 .. Len(readings) /\ p \in Names
  <2>1. th[t].pc \in {"rule", "half", "clear"} /\ setup' = setup /\ readings' = readings /\ overlapped' = overlapped
    BY PipelineMoves DEF Moves, Stays, Fails, ledger
  <2>2. Busy(t)  BY <2>1 DEF Busy
  <2> QED  BY <2>1, <2>2, BusyInOrder, AheadIs, LenProperties
           DEF Typed, RoundsTyped, Fresh, LedgerTyped, InOrder, Results
<1>2. CASE ~(LoneAggregate /\ ~overlapped)
  BY <1>1, <1>2 DEF Buffered, LoneAggregate, LoneRule
<1>3. CASE LoneAggregate /\ ~overlapped
  <2>1. /\ LoneRule /\ setup.rules[1].kind = "aggregate" /\ ~overlapped /\ setup.enabled
        /\ \A u \in Threads \ {t} : ~Busy(u)
    BY <1>1, <1>3 DEF LoneAggregate, LoneRule, Placed
  <2>2. RoundBuffers(th[t], readings, fate, buffers) /\ OutRight(readings, fate, result)
    BY <1>3, <2>1 DEF Buffered
  <2>3. fate[id] = "inside"  BY <1>1, AheadMoves DEF Placed, InOrder
  <2>4. CASE Appends(t)
    <3>1. th[t].pc = "rule" /\ th[t].rule = 1 /\ th[t].runs = 0
      BY <2>1, <2>4, LoneExecution DEF Appends, Executes, InRule
    <3>2. o = Reading(readings, id)  BY <1>1, <3>1 DEF FreshRound, Id
    <3>3. p = readings[id].point  BY <3>2 DEF Reading
    <3>4. PICK me : me = [th[t] EXCEPT !.pc = "half"]  OBVIOUS
    <3>5. /\ th' = [th EXCEPT ![t] = me] /\ UNCHANGED ledger
          /\ buffers' = [buffers EXCEPT ![p] = Append(buffers[p], o)]
      BY <2>4, <3>4 DEF Appends, Typed, RoundsTyped
    <3>6. me.pc = "half" /\ me.cur = o /\ me.ids = th[t].ids /\ me.at = th[t].at  BY <1>1, <3>4 DEF Round
    <3>7. InBuffer(me) = {id} /\ InBuffer(th[t]) = {}  BY <3>1, <3>6 DEF InBuffer, Id
    <3>8. ASSUME NEW q \in Names
          PROVE  Tracks(buffers'[q], Fed(readings, fate, {id}, q), readings, IF q = p THEN Window + 1 ELSE Window)
      <4> DEFINE P == Fed(readings, fate, {}, q)
      <4>1. Tracks(buffers[q], P, readings, Window)  BY <2>2, <3>1, <3>7 DEF RoundBuffers
      <4>2. P \in SUBSET Nat /\ \A i \in P : i < id  BY <1>1, <2>1, <3>1, FedTyped, FedIsSame
      <4>3. buffers \in [Names -> Seq(Results)]  BY DEF Typed, PipeTyped
      <4>4. CASE q = p
        <5>1. Fed(readings, fate, {id}, q) = P \cup {id}  BY <1>1, <3>3, <4>4 DEF Fed
        <5>2. buffers'[q] = Append(buffers[q], Reading(readings, id))  BY <3>2, <3>5, <4>3, <4>4
        <5>3. buffers[q] \in Seq(Results) /\ Reading(readings, id) \in Results /\ id \in Nat
          BY <1>1, <3>2, <4>3
        <5> HIDE DEF P, id, p
        <5> QED  BY <4>1, <4>2, <4>4, <5>1, <5>2, <5>3, TracksAppended
      <4>5. CASE q # p
        <5>1. Fed(readings, fate, {id}, q) = P  BY <3>3, <4>5 DEF Fed
        <5>2. buffers'[q] = buffers[q]  BY <3>5, <4>3, <4>5
        <5> HIDE DEF P, p
        <5> QED  BY <4>1, <4>5, <5>1, <5>2
      <4> QED  BY <4>4, <4>5
    <3>9. RoundBuffers(me, readings', fate', buffers')  BY <3>5, <3>6, <3>7, <3>8 DEF RoundBuffers, ledger
    <3>10. OutRight(readings', fate', result')  BY <2>2, <3>5 DEF ledger
    <3> QED  BY <1>1, <3>5, <3>6, <3>9, <3>10, BufferedKept
  <2>5. CASE LooksAtBuffer(t)
    <3>1. th[t].pc = "half" /\ th[t].rule = 1 /\ th[t].runs = 0 /\ RuleOf(t) = setup.rules[1]
      BY <2>1, <2>5, LoneExecution DEF LooksAtBuffer
    <3>2. o = Reading(readings, id) /\ InBuffer(th[t]) = {id}  BY <1>1, <3>1 DEF FreshRound, Id, InBuffer
    <3>3. p = readings[id].point  BY <3>2 DEF Reading
    <3> DEFINE b == Trimmed(buffers[p], Window)
               x == Aggregated(b, o)
               y == Caught(setup.rules[1], x, o)
               R == Latest(Same(readings, fate, id))
    <3>4. SizeOf("aggregate") = Window /\ Window \in Nat  BY ProcessingAssumption DEF SizeOf
    <3>5. buffers' = [buffers EXCEPT ![p] = b] /\ After(t, y)
      BY <2>1, <2>5, <3>1, <3>4 DEF LooksAtBuffer
    <3>6. buffers \in [Names -> Seq(Results)] /\ buffers[p] \in Seq(Results) /\ b \in Seq(Results)
      BY <1>1, <3>4, TrimmedTyped DEF Typed, PipeTyped
    <3>7. ASSUME NEW q \in Names PROVE Tracks(buffers'[q], Fed(readings, fate, {id}, q), readings, Window)
      <4> DEFINE P == Fed(readings, fate, {id}, q)
      <4>1. Tracks(buffers[q], P, readings, IF q = p THEN Window + 1 ELSE Window)
        BY <2>2, <3>1, <3>2 DEF RoundBuffers
      <4>2. P \in SUBSET Nat  BY FedTyped
      <4>3. CASE q = p
        <5>1. buffers'[q] = b  BY <3>5, <3>6, <4>3
        <5>2. Tracks(buffers[q], P, readings, Window + 1)  BY <4>1, <4>3
        <5>3. buffers[q] \in Seq(Results) /\ b = Trimmed(buffers[q], Window)  BY <3>6, <4>3
        <5> HIDE DEF P, b
        <5>4. Tracks(Trimmed(buffers[q], Window), P, readings, Window)  BY <4>2, <5>2, <5>3, TracksTrimmed
        <5> QED  BY <5>1, <5>3, <5>4 DEF P
      <4>4. CASE q # p  BY <3>5, <3>6, <4>1, <4>4
      <4> QED  BY <4>3, <4>4
    <3>8. \/ x = Raised /\ RightFor(readings, fate, id, o)
          \/ IsResult(x) /\ RightFor(readings, fate, id, x)
      <4> DEFINE P == Fed(readings, fate, {id}, p)
      <4>1. P = Same(readings, fate, id) /\ P \in SUBSET Nat /\ IsFiniteSet(P)
        BY <1>1, <2>1, <3>1, <3>3, FedIsSame, FedTyped
      <4>2. Tracks(b, P, readings, Window)  BY <1>1, <3>5, <3>6, <3>7
      <4>3. R = Latest(P)  BY <4>1
      <4> HIDE DEF P, b, R
      <4>4. /\ Cardinality(R) = Len(b)
            /\ \A m \in 1 .. Len(b) : \E i \in R : b[m] = Reading(readings, i)
            /\ \A i \in R : \E m \in 1 .. Len(b) : b[m] = Reading(readings, i)
        BY <3>6, <4>1, <4>2, <4>3, TracksRecent
      <4>5. \/ x = Raised /\ \E i \in R : readings[i].val = Text
            \/ IsResult(x) /\ IsAggregate(readings, R, id, x)
        <5> HIDE DEF id
        <5> QED  BY <3>2, <3>6, <4>4, AggregatedIs
      <4> HIDE DEF x
      <4>6. (\E i \in R : readings[i].val = Text) => IsAggregate(readings, R, id, o)  BY <3>2 DEF IsAggregate
      <4> QED  BY <4>5, <4>6 DEF RightFor, R
    <3>9. IsResult(o) /\ o # Raised
      <4>1. o.of # {}  BY <3>2 DEF Reading
      <4> QED  BY <4>1, RaisedIsNoResult DEF IsResult
    <3>10. \/ y = Nothing /\ setup.rules[1].abort
           \/ IsResult(y) /\ y \in Results /\ RightFor(readings, fate, id, y)
      <4>1. x \in Outcomes  BY <1>1, <3>6, AggregatedTyped
      <4> HIDE DEF x
      <4>2. y \in Results \cup {Nothing}  BY <1>1, <4>1, CaughtTyped
      <4>3. CASE x = Raised
        <5>1. (y = Nothing /\ setup.rules[1].abort) \/ y = o  BY <4>3 DEF Caught
        <5> QED  BY <1>1, <3>8, <3>9, <4>3, <5>1, RaisedIsNoResult
      <4>4. CASE x # Raised
        <5>1. y = x  BY <4>4 DEF Caught
        <5> QED  BY <3>8, <4>2, <4>4, <5>1, RaisedIsNoResult
      <4> QED  BY <4>3, <4>4
    <3> HIDE DEF x, y, R, b
    <3>11. CASE y = Nothing /\ setup.rules[1].abort
      <4>1. Rejects(t)  BY <1>1, <3>1, <3>5, <3>11, AfterIs, RaisedIsNoResult
      <4>2. th' = [th EXCEPT ![t] = NextPoint(th[t])] /\ fate' = [fate EXCEPT ![id] = "rejected"] /\ result' = result
        BY <4>1 DEF Rejects, Typed, RoundsTyped
      <4>3. PICK me : me = NextPoint(th[t]) /\ (me.pc = "batch" \/ (me.pc = "rule" /\ me.rule = 1))
        BY <1>1, NextPointIs
      <4>4. InBuffer(me) = {} /\ me.pc # "half" /\ ~(me.pc = "rule" /\ me.rule = 2)  BY <4>3 DEF InBuffer
      <4>5. RoundBuffers(me, readings, [fate EXCEPT ![id] = "rejected"], buffers')
        BY <1>1, <3>7, <4>4, BufferedAtEnd
      <4>6. OutRight(readings, [fate EXCEPT ![id] = "rejected"], result)
        BY <1>1, <2>2, <2>3, OutRightAtEnd
      <4> QED  BY <1>1, <4>2, <4>3, <4>5, <4>6, BufferedKept
    <3>12. CASE IsResult(y) /\ y \in Results /\ RightFor(readings, fate, id, y)
      <4>1. After(t, y)  BY <3>5
      <4>2. UNCHANGED <<fate, result>>  BY <1>1, <3>1, <3>12, <4>1, AfterIs
      <4>3. PICK me \in Round :
              /\ th' = [th EXCEPT ![t] = me] /\ me.pc = "rule" /\ me.cur = y
              /\ me.ids = th[t].ids /\ me.at = th[t].at
              /\ \/ me.rule = th[t].rule + 1 /\ me.runs = 0
                 \/ th[t].runs < RuleOf(t).loops
        BY <1>1, <3>1, <3>12, <4>1, AfterIs
      <4>4. me.rule = 2  BY <2>1, <3>1, <4>3 DEF LoneRule
      <4>5. InBuffer(me) = {id} /\ me.ids[me.at] = id  BY <4>3, <4>4 DEF InBuffer, Id
      <4>6. RoundBuffers(me, readings', fate', buffers')
        BY <1>1, <3>7, <3>12, <4>2, <4>3, <4>5 DEF RoundBuffers
      <4>7. OutRight(readings', fate', result')  BY <1>1, <2>2, <4>2
      <4> QED  BY <1>1, <4>3, <4>6, <4>7, BufferedKept
    <3> QED  BY <3>10, <3>11, <3>12
  <2>6. CASE Leaves(t)
    <3>1. th[t].pc = "rule" /\ th[t].rule > Len(setup.rules) /\ LetsOut(t, o) /\ UNCHANGED pipe
      BY <2>6 DEF Leaves
    <3>2. th[t].rule = 2  BY <1>1, <2>1, <3>1 DEF FreshRound, LoneRule
    <3>3. InBuffer(th[t]) = {id} /\ RightFor(readings, fate, id, o)
      BY <2>2, <3>1, <3>2 DEF InBuffer, Id, RoundBuffers
    <3>4. PICK me : me = [th[t] EXCEPT !.pc = "out", !.cur = o]  OBVIOUS
    <3>5. /\ th' = [th EXCEPT ![t] = me] /\ me.pc = "out" /\ fate' = [fate EXCEPT ![id] = "left"]
          /\ result' = [result EXCEPT ![id] = o] /\ buffers' = buffers
      BY <1>1, <3>1, <3>4 DEF LetsOut, Typed, RoundsTyped, Round, pipe
    <3>6. \A q \in Names : Tracks(buffers[q], Fed(readings, fate, {id}, q), readings, Window)
      BY <2>2, <3>1, <3>3 DEF RoundBuffers
    <3>7. InBuffer(me) = {} /\ me.pc # "half" /\ ~(me.pc = "rule" /\ me.rule = 2)  BY <3>5 DEF InBuffer
    <3>8. RoundBuffers(me, readings, [fate EXCEPT ![id] = "left"], buffers)
      BY <1>1, <3>6, <3>7, BufferedAtEnd
    <3>9. /\ \A i \in DOMAIN fate : i # id => result'[i] = result[i]
          /\ result'[id] = o
      BY <1>1, <3>5
    <3>10. OutRight(readings, [fate EXCEPT ![id] = "left"], result')
      BY <1>1, <2>2, <2>3, <3>3, <3>9, OutRightAtEnd
    <3> QED  BY <1>1, <3>5, <3>8, <3>10, BufferedKept
  <2>7. /\ ~SkipsRule(t) /\ ~ConditionRaises(t) /\ ~RunsStateless(t) /\ ~ReadsMemory(t) /\ ~WritesMemory(t)
        /\ ~ReadsUploaded(t) /\ ~RunsDefault(t) /\ ~Clears(t) /\ ~WindowRaises(t)
    BY <2>1, LoneExecution
       DEF SkipsRule, ConditionRaises, RunsStateless, ReadsMemory, WritesMemory, ReadsUploaded,
           RunsDefault, Clears, WindowRaises, Executes
  <2> QED  BY <2>4, <2>5, <2>6, <2>7 DEF InPipeline
<1> QED  BY <1>2, <1>3

\* The buffers are empty.
LEMMA BufferedStart == ASSUME ProcessingInit PROVE Buffered
<1>1. /\ fate = <<>> /\ result = <<>> /\ readings = <<>> /\ \A t \in Threads : th[t] = NoRound
      /\ \A p \in Names : buffers[p] = <<>>
  BY DEF ProcessingInit
<1>2. DOMAIN fate = {}  BY <1>1
<1>3. InBuffer(NoRound) = {} /\ NoRound.pc = "idle"  BY DEF InBuffer, NoRound
<1>4. \A p : Fed(readings, fate, {}, p) = {}  BY <1>2 DEF Fed
<1>5. Len(<<>>) = 0 /\ Window \in Nat  BY ProcessingAssumption
<1>6. Tracks(<<>>, {}, readings, Window)
  <2>1. [m \in 1 .. 0 |-> 0] \in [1 .. 0 -> {}] /\ 1 .. 0 = {}  OBVIOUS
  <2>2. 0 <= Window  BY <1>5
  <2> QED  BY <1>5, <2>1, <2>2, Zenon DEF Tracks
<1>7. RoundBuffers(NoRound, readings, fate, buffers)  BY <1>1, <1>3, <1>4, <1>6 DEF RoundBuffers
<1>8. OutRight(readings, fate, result)  BY <1>2 DEF OutRight
<1> QED  BY <1>1, <1>7, <1>8 DEF Buffered

\* Readings that begin change nothing of what the buffers track.
LEMMA BufferedBegins ==
  ASSUME Typed, NEW rs, NEW f, NEW res, NEW k, k = Len(readings), NEW n \in Nat, DOMAIN f = 1 .. n, k <= n,
         \A i \in 1 .. k : rs[i] = readings[i] /\ f[i] = fate[i] /\ res[i] = result[i],
         \A i \in 1 .. n : i \notin 1 .. k => f[i] \in {"lost", "inside"}
  PROVE  /\ OutRight(readings, fate, result) => OutRight(rs, f, res)
         /\ \A me : (me.pc \in {"rule", "half"} => me.ids[me.at] \in 1 .. k) /\ RoundBuffers(me, readings, fate, buffers)
                   => RoundBuffers(me, rs, f, buffers)
<1>1. DOMAIN fate = 1 .. k /\ k \in Nat  BY FedTyped
<1>2. ASSUME NEW id \in 1 .. k, NEW o, RightFor(readings, fate, id, o) PROVE RightFor(rs, f, id, o)
  <2>1. id \in Nat \ {0} /\ \A i \in 1 .. id : i \in 1 .. k  BY <1>1
  <2>2. \A i \in 1 .. id : rs[i] = readings[i] /\ (f[i] = "lost" <=> fate[i] = "lost")  BY <2>1
  <2> QED  BY <1>2, <2>1, <2>2, RightForSame
<1>3. OutRight(readings, fate, result) => OutRight(rs, f, res)
  <2> SUFFICES ASSUME OutRight(readings, fate, result), NEW id \in 1 .. n, f[id] = "left"
               PROVE  RightFor(rs, f, id, res[id])
    BY DEF OutRight
  <2>1. id \in 1 .. k  OBVIOUS
  <2>2. RightFor(readings, fate, id, res[id])  BY <1>1, <2>1 DEF OutRight
  <2> QED  BY <1>2, <2>1, <2>2
<1>4. ASSUME NEW me, me.pc \in {"rule", "half"} => me.ids[me.at] \in 1 .. k, RoundBuffers(me, readings, fate, buffers)
      PROVE  RoundBuffers(me, rs, f, buffers)
  <2>1. InBuffer(me) \subseteq 1 .. k  BY <1>4 DEF InBuffer
  <2>2. ASSUME NEW p \in Names, NEW cap, Tracks(buffers[p], Fed(readings, fate, InBuffer(me), p), readings, cap)
        PROVE  Tracks(buffers[p], Fed(rs, f, InBuffer(me), p), rs, cap)
    <3>1. \A i \in 1 .. k : i \in 1 .. n  BY <1>1
    <3>2. Fed(rs, f, InBuffer(me), p) = Fed(readings, fate, InBuffer(me), p)  BY <1>1, <2>1, <3>1 DEF Fed
    <3>3. \A i \in Fed(readings, fate, InBuffer(me), p) : rs[i] = readings[i]  BY <1>1 DEF Fed
    <3> QED  BY <2>2, <3>2, <3>3, TracksSame
  <2>3. me.pc = "rule" /\ me.rule = 2 => RightFor(rs, f, me.ids[me.at], me.cur)
    BY <1>2, <1>4 DEF RoundBuffers
  <2> QED  BY <1>4, <2>2, <2>3 DEF RoundBuffers
<1> QED  BY <1>3, <1>4

\* Every step keeps Buffered.
LEMMA BufferedStep ==
  ASSUME Typed, Placed, Fresh, Buffered, [ProcessingNext]_processingVars
  PROVE  Buffered'
<1>1. ASSUME NEW t \in Threads, Begin(t) PROVE Buffered'
  <2> DEFINE k == Len(readings)
             n == setup.points
  <2>1. /\ setup' = setup /\ pipe' = pipe /\ k \in Nat /\ n \in Nat /\ LedgerTyped' /\ Len(readings)' = k + n
        /\ \A i \in 1 .. k : readings'[i] = readings[i] /\ fate'[i] = fate[i] /\ result'[i] = result[i]
    BY <1>1, BeginIs
  <2>2. \A i \in k + 1 .. k + n : fate'[i] \in {"lost", "inside"}  BY <1>1, BeginIs
  <2>3. th[t].pc = "idle" /\ (overlapped => overlapped') /\ buffers' = buffers  BY <1>1, <2>1, BeginIs DEF pipe
  <2>4. SUFFICES ASSUME LoneAggregate', ~overlapped'
                 PROVE  /\ \A v \in Threads : (\A u \in Threads \ {v} : ~(th'[u].pc # "idle")) =>
                             RoundBuffers(th'[v], readings', fate', buffers')
                        /\ OutRight(readings', fate', result')
    BY DEF Buffered, Busy
  <2>5. LoneAggregate /\ ~overlapped  BY <2>1, <2>3, <2>4 DEF LoneAggregate, LoneRule
  <2>6. DOMAIN fate' = 1 .. k + n /\ k + n \in Nat /\ k <= k + n
    <3>1. Len(readings') = k + n /\ Len(fate') = Len(readings') /\ fate' \in Seq(Fates)  BY <2>1 DEF LedgerTyped
    <3> QED  BY <2>1, <3>1, LenProperties
  <2>7. \A i \in 1 .. k + n : i \notin 1 .. k => fate'[i] \in {"lost", "inside"}
    <3>1. \A i \in 1 .. k + n : i \notin 1 .. k => i \in k + 1 .. k + n  BY <2>1
    <3> QED  BY <2>2, <3>1
  <2>8. /\ OutRight(readings, fate, result) => OutRight(readings', fate', result')
        /\ \A me : (me.pc \in {"rule", "half"} => me.ids[me.at] \in 1 .. k) /\ RoundBuffers(me, readings, fate, buffers)
                  => RoundBuffers(me, readings', fate', buffers)
    BY <2>1, <2>6, <2>7, BufferedBegins
  <2>9. OutRight(readings', fate', result')  BY <2>5, <2>8 DEF Buffered
  <2>10. CASE th' = th
    <3>1. ASSUME NEW v \in Threads, \A u \in Threads \ {v} : ~(th[u].pc # "idle")
          PROVE  RoundBuffers(th[v], readings', fate', buffers)
      <4>1. RoundBuffers(th[v], readings, fate, buffers)  BY <2>5, <3>1 DEF Buffered, Busy
      <4>2. th[v].pc \in {"rule", "half"} => th[v].ids[th[v].at] \in 1 .. k  BY BusyInOrder DEF Busy, Id
      <4> QED  BY <2>8, <4>1, <4>2
    <3> QED  BY <2>3, <2>9, <2>10, <3>1
  <2>11. CASE th' # th
    <3>1. PICK me : me = NewRound(readings', k)  OBVIOUS
    <3>2. /\ th' = [th EXCEPT ![t] = me] /\ me.pc = "rule"
          /\ overlapped' = (overlapped \/ \E u \in Threads \ {t} : Busy(u))
      BY <1>1, <2>11, <3>1, BeginIs
    <3>3. me.rule = 1  BY <3>1 DEF NewRound, NoRound
    <3>4. th'[t] = me /\ \A u \in Threads \ {t} : th'[u] = th[u] /\ ~Busy(u)
      BY <2>4, <3>2 DEF Typed, RoundsTyped
    <3>5. th[t] = NoRound /\ NoRound.pc = "idle"  BY <2>3, NoRoundPlaced DEF Typed, RoundsTyped, Busy
    <3>6. RoundBuffers(NoRound, readings, fate, buffers)  BY <2>5, <3>4, <3>5 DEF Buffered
    <3>7. RoundBuffers(NoRound, readings', fate', buffers)  BY <2>8, <3>5, <3>6
    <3>8. InBuffer(me) = {} /\ InBuffer(NoRound) = {}  BY <3>2, <3>3, <3>5 DEF InBuffer
    <3>9. RoundBuffers(me, readings', fate', buffers)  BY <3>2, <3>3, <3>5, <3>7, <3>8 DEF RoundBuffers
    <3>10. \A v \in Threads : (\A u \in Threads \ {v} : ~(th'[u].pc # "idle")) => v = t  BY <3>2, <3>4
    <3> QED  BY <2>3, <2>9, <3>4, <3>9, <3>10
  <2> QED  BY <2>10, <2>11
<1>2. ASSUME NEW t \in Threads, NEW me, Busy(t), th' = [th EXCEPT ![t] = me], InBuffer(me) = {},
             th[t].pc \in {"out", "batch"}, me = NoRound \/ me.pc = "batch" \/ (me.pc = "rule" /\ me.rule = 1),
             UNCHANGED <<setup, buffers, readings, fate, result, overlapped>>
      PROVE  Buffered'
  <2>1. InBuffer(th[t]) = {}  BY <1>2 DEF InBuffer
  <2>2. me.pc # "half" /\ ~(me.pc = "rule" /\ me.rule = 2) /\ (me.pc # "idle" \/ me = NoRound)
    BY <1>2, NoRoundPlaced
  <2>3. ASSUME LoneAggregate, ~overlapped
        PROVE  RoundBuffers(me, readings', fate', buffers') /\ OutRight(readings', fate', result')
    <3>1. RoundBuffers(th[t], readings, fate, buffers) /\ OutRight(readings, fate, result)
      BY <1>2, <2>3 DEF Buffered, Placed
    <3> QED  BY <1>2, <2>1, <2>2, <3>1 DEF RoundBuffers
  <2> QED  BY <1>2, <2>2, <2>3, BufferedKept
<1>3. ASSUME NEW t \in Threads, OnData(t) PROVE Buffered'
  <2>1. /\ th[t].pc = "out" /\ Busy(t)
        /\ UNCHANGED <<setup, batching, present, pipe, readings, fate, result, left, overlapped>>
    BY <1>3, OnDataIs
  <2>2. PICK me \in Round :
          th' = [th EXCEPT ![t] = me] /\ (me.pc = "batch" \/ (me.pc = "rule" /\ me.rule = 1))
    BY <1>3, OnDataIs
  <2>3. InBuffer(me) = {}  BY <2>2 DEF InBuffer
  <2> QED  BY <1>2, <2>1, <2>2, <2>3 DEF pipe
<1>4. ASSUME NEW t \in Threads, OnBatch(t) PROVE Buffered'
  <2>1. /\ th[t].pc = "batch" /\ Busy(t) /\ th' = [th EXCEPT ![t] = NoRound]
        /\ UNCHANGED <<setup, batching, present, pipe, readings, fate, result, left, stored, overlapped>>
    BY <1>4, OnBatchIs DEF Busy
  <2>2. InBuffer(NoRound) = {}  BY NoRoundPlaced DEF InBuffer
  <2> QED  BY <1>2, <2>1, <2>2 DEF pipe
<1>5. CASE UNCHANGED <<th, setup, pipe, ledger>> \/ SwitchesBatching \/ RemovesDevice
  <2>1. UNCHANGED <<th, setup, buffers, readings, overlapped, fate, result>>
    BY <1>5 DEF SwitchesBatching, RemovesDevice, pipe, ledger
  <2>2. LoneAggregate' = LoneAggregate  BY <2>1 DEF LoneAggregate, LoneRule
  <2>3. SUFFICES ASSUME LoneAggregate', ~overlapped'
                 PROVE  /\ \A v \in Threads : (\A u \in Threads \ {v} : ~(th'[u].pc # "idle")) =>
                             RoundBuffers(th'[v], readings', fate', buffers')
                        /\ OutRight(readings', fate', result')
    BY DEF Buffered, Busy
  <2>4. LoneAggregate /\ ~overlapped  BY <2>1, <2>2, <2>3
  <2> QED  BY <2>1, <2>4 DEF Buffered, Busy
<1>6. CASE UNCHANGED processingVars  BY <1>5, <1>6 DEF processingVars
<1> QED  BY <1>1, <1>3, <1>4, <1>5, <1>6, BufferedMoves DEF ProcessingNext

-----------------------------------------------------------------------------
(* The windows of the default path part the readings.                      *)


\* What WindowsPartition says, for any course of the readings, and what it needs of the
\* readings held: they left as themselves, and no window has them.
Closing(f, res) == {id \in DOMAIN f : f[id] = "left" /\ res[id].of # {id}}
HeldWell(held, rs, f, res) ==
  \A m \in 1 .. Len(held) : \E i \in DOMAIN f :
    /\ held[m] = Reading(rs, i) /\ f[i] = "left" /\ res[i].of = {i} /\ rs[i].val >= 0
    /\ \A a \in Closing(f, res) : i \notin res[a].of
ClosedWell(f, res) ==
  /\ \A id \in DOMAIN f : f[id] # "rejected"
  /\ \A a, b \in Closing(f, res) : a # b => res[a].of \cap res[b].of = {}
  /\ \A a \in Closing(f, res) : \A i \in res[a].of : i \in DOMAIN f /\ f[i] = "left"

\* In order, a window has every number of its point since the window before it, and what is
\* held is every number since the last window.
Since(a, rs, f, res) ==
  {i \in 1 .. a - 1 : /\ rs[i].point = res[a].point /\ rs[i].val >= 0 /\ f[i] = "left"
                      /\ \A b \in Closing(f, res) : b < a => b < i}
InTurn(held, rs, f, res, on) ==
  /\ \A a \in Closing(f, res) : res[a].of = Since(a, rs, f, res)
  /\ \A m \in 1 .. Len(held), i \in DOMAIN f, b \in Closing(f, res) : held[m] = Reading(rs, i) => b < i
  /\ on => \A i \in DOMAIN f :
             f[i] = "left" /\ rs[i].val >= 0 /\ (\A b \in Closing(f, res) : b < i)
             => \E m \in 1 .. Len(held) : held[m] = Reading(rs, i)
\* A thread alone in the aggregator that is about to clear the window has its result.
Due(me) == setup.aggregating /\ window.held # <<>> /\ me.cur = WindowResult
Windowed ==
  ~setup.enabled =>
    /\ \A id \in DOMAIN fate : fate[id] # "rejected"
    /\ ~overlapped =>
         /\ HeldWell(window.held, readings, fate, result) /\ ClosedWell(fate, result)
         /\ \A t \in Threads : th[t].pc = "clear" => Due(th[t])
         /\ ~setup.filtering => InTurn(window.held, readings, fate, result, setup.aggregating)

LEMMA WindowedPartition == Windowed => WindowsPartition
<1> SUFFICES ASSUME Windowed, ~setup.enabled PROVE WindowsPartition  BY DEF WindowsPartition
<1>1. Closing(fate, result) = Closers  BY DEF Closing, Closers
<1>2. \A id \in DOMAIN fate : fate[id] # "rejected"  BY DEF Windowed
<1>3. ASSUME ~overlapped
      PROVE  \A a, b \in Closers : a # b => result[a].of \cap result[b].of = {}
  BY <1>1, <1>3 DEF Windowed, ClosedWell
<1>4. ASSUME NEW a \in Closers, ~overlapped, ~setup.filtering
      PROVE  result[a].of = {i \in 1 .. a - 1 :
               /\ readings[i].point = result[a].point /\ readings[i].val >= 0 /\ fate[i] = "left"
               /\ \A b \in Closers : b < a => b < i}
  BY <1>1, <1>4 DEF Windowed, InTurn, Since
<1> QED  BY <1>2, <1>3, <1>4 DEF WindowsPartition

\* A record names its reading.
LEMMA ReadingsDiffer ==
  ASSUME NEW rs, NEW rz, NEW i, NEW j, Reading(rz, i) = Reading(rs, j)
  PROVE  i = j
<1>1. Reading(rz, i).of = {i} /\ Reading(rs, j).of = {j}  BY DEF Reading
<1> QED  BY <1>1

\* Nothing of this changes while no reading leaves the pipeline,
LEMMA WindowsSame ==
  ASSUME NEW held, NEW rs, NEW rz, NEW f, NEW g, NEW res, NEW rez, DOMAIN f \subseteq DOMAIN g, DOMAIN f \subseteq Nat,
         \A i \in DOMAIN f, j \in Nat : j < i /\ j # 0 => j \in DOMAIN f,
         \A i \in DOMAIN f : rz[i] = rs[i] /\ rez[i] = res[i] /\ (g[i] = "left" <=> f[i] = "left"),
         \A i \in DOMAIN g : i \notin DOMAIN f => g[i] # "left",
         \A i \in DOMAIN g : g[i] = "rejected" => i \in DOMAIN f /\ f[i] = "rejected"
  PROVE  /\ HeldWell(held, rs, f, res) => HeldWell(held, rz, g, rez)
         /\ ClosedWell(f, res) => ClosedWell(g, rez)
         /\ \A on \in BOOLEAN : HeldWell(held, rs, f, res) /\ InTurn(held, rs, f, res, on)
                               => InTurn(held, rz, g, rez, on)
<1>1. Closing(g, rez) = Closing(f, res) /\ Closing(f, res) \subseteq DOMAIN f  BY DEF Closing
<1>2. \A i \in DOMAIN f : Reading(rz, i) = Reading(rs, i)  BY DEF Reading
<1>3. HeldWell(held, rs, f, res) => HeldWell(held, rz, g, rez)
  <2> SUFFICES ASSUME HeldWell(held, rs, f, res), NEW m \in 1 .. Len(held)
               PROVE  \E i \in DOMAIN g :
                        /\ held[m] = Reading(rz, i) /\ g[i] = "left" /\ rez[i].of = {i} /\ rz[i].val >= 0
                        /\ \A a \in Closing(g, rez) : i \notin rez[a].of
    BY DEF HeldWell
  <2>1. PICK i \in DOMAIN f :
          /\ held[m] = Reading(rs, i) /\ f[i] = "left" /\ res[i].of = {i} /\ rs[i].val >= 0
          /\ \A a \in Closing(f, res) : i \notin res[a].of
    BY DEF HeldWell
  <2> QED  BY <1>1, <1>2, <2>1
<1>4. ClosedWell(f, res) => ClosedWell(g, rez)
  <2> SUFFICES ASSUME ClosedWell(f, res) PROVE ClosedWell(g, rez)  OBVIOUS
  <2>1. \A a \in Closing(f, res) : rez[a] = res[a]  BY <1>1
  <2>2. \A id \in DOMAIN g : g[id] # "rejected"  BY DEF ClosedWell
  <2>3. \A a, b \in Closing(f, res) : a # b => rez[a].of \cap rez[b].of = {}  BY <2>1 DEF ClosedWell
  <2>4. \A a \in Closing(f, res) : \A i \in rez[a].of : i \in DOMAIN g /\ g[i] = "left"  BY <2>1 DEF ClosedWell
  <2> QED  BY <1>1, <2>2, <2>3, <2>4 DEF ClosedWell
<1>5. ASSUME NEW on \in BOOLEAN, HeldWell(held, rs, f, res), InTurn(held, rs, f, res, on)
      PROVE  InTurn(held, rz, g, rez, on)
  <2>1. ASSUME NEW a \in Closing(f, res) PROVE rez[a].of = Since(a, rz, g, rez)
    <3>1. a \in DOMAIN f /\ a \in Nat  BY <1>1
    <3>2. \A i \in 1 .. a - 1 : i \in DOMAIN f  BY <3>1
    <3>3. Since(a, rz, g, rez) = Since(a, rs, f, res)  BY <1>1, <3>1, <3>2 DEF Since
    <3> QED  BY <1>5, <3>1, <3>3 DEF InTurn
  <2>2. ASSUME NEW m \in 1 .. Len(held), NEW i \in DOMAIN g, NEW b \in Closing(f, res), held[m] = Reading(rz, i)
        PROVE  b < i
    <3>1. PICK j \in DOMAIN f : held[m] = Reading(rs, j)  BY <1>5 DEF HeldWell
    <3>2. Reading(rz, i) = Reading(rs, j)  BY <2>2, <3>1
    <3>3. i = j  BY <3>2, ReadingsDiffer
    <3> QED  BY <1>5, <3>1, <3>3 DEF InTurn
  <2>3. ASSUME on, NEW i \in DOMAIN g, g[i] = "left", rz[i].val >= 0, \A b \in Closing(f, res) : b < i
        PROVE  \E m \in 1 .. Len(held) : held[m] = Reading(rz, i)
    <3>1. i \in DOMAIN f /\ f[i] = "left" /\ rs[i].val >= 0  BY <2>3
    <3>2. \E m \in 1 .. Len(held) : held[m] = Reading(rs, i)  BY <1>5, <2>3, <3>1 DEF InTurn
    <3> QED  BY <1>2, <3>1, <3>2
  <2> QED  BY <1>1, <2>1, <2>2, <2>3 DEF InTurn
<1> QED  BY <1>3, <1>4, <1>5

\* A reading leaves as itself, and is held if it is fed and a number;
LeavesAsItself(held, z, rs, f, g, res, rez, id, fed) ==
  /\ f[id] = "inside" /\ g = [f EXCEPT ![id] = "left"] /\ rez = [res EXCEPT ![id] = Reading(rs, id)]
  /\ z = IF fed /\ rs[id].val >= 0 THEN Append(held, Reading(rs, id)) ELSE held
\* A reading that leaves as itself is held, or is none a window counts.
LEMMA WindowsLet ==
  ASSUME NEW held \in Seq(Results), NEW z, NEW rs, NEW f, NEW g, NEW res, NEW rez, NEW id \in DOMAIN f,
         NEW fed \in BOOLEAN, LeavesAsItself(held, z, rs, f, g, res, rez, id, fed),
         DOMAIN f \subseteq Nat, \A i \in DOMAIN f, j \in Nat : j < i /\ j # 0 => j \in DOMAIN f,
         DOMAIN f \subseteq DOMAIN res, Reading(rs, id) \in Results,
         HeldWell(held, rs, f, res), ClosedWell(f, res)
  PROVE  /\ HeldWell(z, rs, g, rez)
         /\ ClosedWell(g, rez)
         /\ \A on : InTurn(held, rs, f, res, on) /\ (on => fed) /\ (\A i \in DOMAIN f : f[i] = "left" => i < id)
                   => InTurn(z, rs, g, rez, on)
<1> USE DEF LeavesAsItself
<1>1. /\ DOMAIN g = DOMAIN f /\ g[id] = "left" /\ rez[id].of = {id}
      /\ \A i \in DOMAIN f : i # id => g[i] = f[i] /\ rez[i] = res[i]
  BY DEF Reading
<1>2. Closing(g, rez) = Closing(f, res) /\ Closing(f, res) \subseteq DOMAIN f /\ id \notin Closing(f, res)
  BY <1>1 DEF Closing
<1>3. \A a \in Closing(f, res) : rez[a] = res[a]  BY <1>1, <1>2
<1>4. /\ Len(held) \in Nat /\ Len(z) \in Nat
      /\ \A m \in 1 .. Len(held) : m \in 1 .. Len(z) /\ z[m] = held[m]
      /\ \A m \in 1 .. Len(z) : m \in 1 .. Len(held) \/ (z[m] = Reading(rs, id) /\ rs[id].val >= 0)
      /\ fed /\ rs[id].val >= 0 => \E m \in 1 .. Len(z) : z[m] = Reading(rs, id)
  <2>1. Len(held) \in Nat  BY LenProperties
  <2>2. CASE ~(fed /\ rs[id].val >= 0)  BY <2>1, <2>2
  <2>3. CASE fed /\ rs[id].val >= 0
    <3>1. /\ Len(z) = Len(held) + 1 /\ z[Len(held) + 1] = Reading(rs, id)
          /\ \A m \in 1 .. Len(held) : z[m] = held[m]
      BY <2>1, <2>3, AppendProperties
    <3>2. Len(held) + 1 \in 1 .. Len(z) /\ \A m \in 1 .. Len(z) : m \in 1 .. Len(held) \/ m = Len(held) + 1
      BY <2>1, <3>1
    <3> QED  BY <2>1, <2>3, <3>1, <3>2
  <2> QED  BY <2>2, <2>3
<1>5. HeldWell(z, rs, g, rez)
  <2> SUFFICES ASSUME NEW m \in 1 .. Len(z)
               PROVE  \E i \in DOMAIN g :
                        /\ z[m] = Reading(rs, i) /\ g[i] = "left" /\ rez[i].of = {i} /\ rs[i].val >= 0
                        /\ \A a \in Closing(g, rez) : i \notin rez[a].of
    BY DEF HeldWell
  <2>1. CASE m \in 1 .. Len(held)
    <3>1. PICK i \in DOMAIN f :
            /\ held[m] = Reading(rs, i) /\ f[i] = "left" /\ res[i].of = {i} /\ rs[i].val >= 0
            /\ \A a \in Closing(f, res) : i \notin res[a].of
      BY <2>1 DEF HeldWell
    <3>2. i # id  BY <3>1
    <3> QED  BY <1>1, <1>2, <1>3, <1>4, <2>1, <3>1, <3>2
  <2>2. CASE z[m] = Reading(rs, id) /\ rs[id].val >= 0
    <3>1. \A a \in Closing(f, res) : id \notin res[a].of  BY DEF ClosedWell
    <3> QED  BY <1>1, <1>2, <1>3, <2>2, <3>1
  <2> QED  BY <1>4, <2>1, <2>2
<1>6. ClosedWell(g, rez)
  <2>1. \A i \in DOMAIN g : g[i] # "rejected"  BY <1>1 DEF ClosedWell
  <2>2. \A a, b \in Closing(f, res) : a # b => rez[a].of \cap rez[b].of = {}  BY <1>3 DEF ClosedWell
  <2>3. \A a \in Closing(f, res) : \A i \in rez[a].of : i \in DOMAIN g /\ g[i] = "left"
    BY <1>1, <1>3 DEF ClosedWell
  <2> QED  BY <1>2, <2>1, <2>2, <2>3 DEF ClosedWell
<1>7. ASSUME NEW on, InTurn(held, rs, f, res, on), on => fed,
             \A i \in DOMAIN f : f[i] = "left" => i < id
      PROVE  InTurn(z, rs, g, rez, on)
  <2>1. ASSUME NEW a \in Closing(f, res) PROVE rez[a].of = Since(a, rs, g, rez)
    <3>1. a \in DOMAIN f /\ a \in Nat /\ id \in Nat /\ a < id  BY <1>2, <1>7 DEF Closing
    <3>2. \A i \in 1 .. a - 1 : i \in DOMAIN f /\ i # id  BY <3>1
    <3>3. Since(a, rs, g, rez) = Since(a, rs, f, res)  BY <1>1, <1>2, <1>3, <3>1, <3>2 DEF Since
    <3> QED  BY <1>3, <1>7, <3>3 DEF InTurn
  <2>2. ASSUME NEW m \in 1 .. Len(z), NEW i \in DOMAIN g, NEW b \in Closing(f, res), z[m] = Reading(rs, i)
        PROVE  b < i
    <3>1. CASE m \in 1 .. Len(held)  BY <1>1, <1>4, <1>7, <2>2, <3>1 DEF InTurn
    <3>2. CASE z[m] = Reading(rs, id)
      <4>1. i = id  BY <2>2, <3>2, ReadingsDiffer
      <4> QED  BY <1>7, <4>1 DEF Closing
    <3> QED  BY <1>4, <3>1, <3>2
  <2>3. ASSUME on, NEW i \in DOMAIN g, g[i] = "left", rs[i].val >= 0, \A b \in Closing(f, res) : b < i
        PROVE  \E m \in 1 .. Len(z) : z[m] = Reading(rs, i)
    <3>1. CASE i = id  BY <1>4, <1>7, <2>3, <3>1
    <3>2. CASE i # id
      <4>1. PICK m \in 1 .. Len(held) : held[m] = Reading(rs, i)  BY <1>1, <1>7, <2>3, <3>2 DEF InTurn
      <4> QED  BY <1>4, <4>1
    <3> QED  BY <3>1, <3>2
  <2> QED  BY <1>2, <2>1, <2>2, <2>3 DEF InTurn
<1> QED  BY <1>5, <1>6, <1>7

\* or it closes the window, and the aggregate of the point that was held first leaves.
LEMMA WindowsClose ==
  ASSUME NEW held \in Seq(Results), held # <<>>, NEW rs, NEW f, NEW g, NEW res, NEW rez, NEW id \in DOMAIN f,
         DOMAIN f \subseteq Nat \ {0}, \A i \in DOMAIN f, j \in Nat : j < i /\ j # 0 => j \in DOMAIN f,
         f[id] = "inside", g = [f EXCEPT ![id] = "left"],
         DOMAIN f \subseteq DOMAIN res, NEW o, rez = [res EXCEPT ![id] = o],
         o.point = held[1].point,
         o.of = UNION {h.of : h \in {x \in Range(held) : x.point = o.point}},
         HeldWell(held, rs, f, res), ClosedWell(f, res)
  PROVE  /\ HeldWell(<<>>, rs, g, rez) /\ ClosedWell(g, rez)
         /\ InTurn(held, rs, f, res, TRUE) /\ (\A i \in DOMAIN f : f[i] = "left" => i < id)
            => InTurn(<<>>, rs, g, rez, TRUE)
<1>1. /\ DOMAIN g = DOMAIN f /\ g[id] = "left" /\ rez[id] = o
      /\ \A i \in DOMAIN f : i # id => g[i] = f[i] /\ rez[i] = res[i]
  OBVIOUS
<1>2. /\ Len(held) \in Nat /\ DOMAIN held = 1 .. Len(held) /\ 1 \in 1 .. Len(held)
      /\ Len(<<>>) = 0 /\ 1 .. 0 = {}
  BY LenProperties, EmptySeq
<1>3. ASSUME NEW i
      PROVE  i \in o.of <=> i \in DOMAIN f /\ rs[i].point = o.point /\ \E m \in 1 .. Len(held) : held[m] = Reading(rs, i)
  <2>1. i \in o.of <=> \E m \in 1 .. Len(held) : held[m].point = o.point /\ i \in held[m].of
    BY <1>2 DEF Range
  <2>2. ASSUME NEW m \in 1 .. Len(held), held[m].point = o.point, i \in held[m].of
        PROVE  i \in DOMAIN f /\ rs[i].point = o.point /\ held[m] = Reading(rs, i)
    <3>1. PICK j \in DOMAIN f : held[m] = Reading(rs, j)  BY DEF HeldWell
    <3>2. held[m].of = {j} /\ held[m].point = rs[j].point  BY <3>1 DEF Reading
    <3> QED  BY <2>2, <3>1, <3>2
  <2>3. ASSUME NEW m \in 1 .. Len(held), held[m] = Reading(rs, i), rs[i].point = o.point
        PROVE  held[m].point = o.point /\ i \in held[m].of
    BY <2>3 DEF Reading
  <2> QED  BY <2>1, <2>2, <2>3
<1>4. ASSUME NEW i \in o.of
      PROVE  i \in DOMAIN f /\ f[i] = "left" /\ i # id /\ rs[i].val >= 0 /\ \A a \in Closing(f, res) : i \notin res[a].of
  <2>1. PICK m \in 1 .. Len(held) : held[m] = Reading(rs, i)  BY <1>3
  <2>2. PICK j \in DOMAIN f :
          /\ held[m] = Reading(rs, j) /\ f[j] = "left" /\ rs[j].val >= 0
          /\ \A a \in Closing(f, res) : j \notin res[a].of
    BY DEF HeldWell
  <2>3. i = j  BY <2>1, <2>2, ReadingsDiffer
  <2> QED  BY <2>2, <2>3
<1>5. o.of # {id}  BY <1>4
<1>6. Closing(g, rez) = Closing(f, res) \cup {id} /\ Closing(f, res) \subseteq DOMAIN f /\ id \notin Closing(f, res)
  BY <1>1, <1>5 DEF Closing
<1>7. \A a \in Closing(f, res) : rez[a] = res[a]  BY <1>1, <1>6
<1>8. HeldWell(<<>>, rs, g, rez)  BY <1>2 DEF HeldWell
<1>9. ClosedWell(g, rez)
  <2>1. \A i \in DOMAIN g : g[i] # "rejected"  BY <1>1 DEF ClosedWell
  <2>2. ASSUME NEW a \in Closing(g, rez), NEW b \in Closing(g, rez), a # b PROVE rez[a].of \cap rez[b].of = {}
    <3>1. CASE a = id  BY <1>1, <1>4, <1>6, <1>7, <2>2, <3>1
    <3>2. CASE b = id  BY <1>1, <1>4, <1>6, <1>7, <2>2, <3>2
    <3>3. CASE a # id /\ b # id  BY <1>6, <1>7, <2>2, <3>3 DEF ClosedWell
    <3> QED  BY <3>1, <3>2, <3>3
  <2>3. ASSUME NEW a \in Closing(g, rez), NEW i \in rez[a].of PROVE i \in DOMAIN g /\ g[i] = "left"
    <3>1. CASE a = id  BY <1>1, <1>4, <3>1
    <3>2. CASE a # id  BY <1>1, <1>6, <1>7, <3>2 DEF ClosedWell
    <3> QED  BY <3>1, <3>2
  <2> QED  BY <2>1, <2>2, <2>3 DEF ClosedWell
<1>10. ASSUME InTurn(held, rs, f, res, TRUE), \A i \in DOMAIN f : f[i] = "left" => i < id
       PROVE  InTurn(<<>>, rs, g, rez, TRUE)
  <2>1. \A a \in Closing(f, res) : a \in Nat /\ a < id /\ id \in Nat  BY <1>6, <1>10 DEF Closing
  <2>2. ASSUME NEW a \in Closing(f, res) PROVE rez[a].of = Since(a, rs, g, rez)
    <3>1. ~(id < a)  BY <2>1
    <3>2. \A i \in 1 .. a - 1 : i \in DOMAIN f /\ i # id  BY <1>6, <2>1
    <3>3. \A i \in 1 .. a - 1 : g[i] = "left" <=> f[i] = "left"  BY <1>1, <3>2
    <3>4. Since(a, rs, g, rez) = Since(a, rs, f, res)  BY <1>6, <1>7, <3>1, <3>3 DEF Since
    <3> QED  BY <1>7, <1>10, <3>4 DEF InTurn
  <2>3. rez[id].of = Since(id, rs, g, rez)
    <3>1. ASSUME NEW i \in o.of PROVE i \in Since(id, rs, g, rez)
      <4>1. i \in DOMAIN f /\ rs[i].point = o.point /\ \E m \in 1 .. Len(held) : held[m] = Reading(rs, i)  BY <1>3
      <4>2. f[i] = "left" /\ i # id /\ rs[i].val >= 0 /\ i < id  BY <1>4, <1>10
      <4>3. \A b \in Closing(f, res) : b < i  BY <1>10, <4>1 DEF InTurn
      <4>4. i \in 1 .. id - 1  BY <4>1, <4>2
      <4>5. ~(id < id) /\ g[i] = "left"  BY <1>1, <4>1, <4>2
      <4> QED  BY <1>1, <1>6, <4>1, <4>2, <4>3, <4>4, <4>5 DEF Since
    <3>2. ASSUME NEW i \in Since(id, rs, g, rez) PROVE i \in o.of
      <4>1. /\ i \in 1 .. id - 1 /\ rs[i].point = o.point /\ rs[i].val >= 0 /\ g[i] = "left"
            /\ \A b \in Closing(f, res) : b < i
        BY <1>1, <1>6, <2>1 DEF Since
      <4>2. i \in Nat /\ i < id /\ i # 0 /\ id \in Nat  BY <4>1
      <4>3. i # id /\ f[i] = "left" /\ i \in DOMAIN f  BY <1>1, <4>1, <4>2
      <4>4. \E m \in 1 .. Len(held) : held[m] = Reading(rs, i)  BY <1>10, <4>1, <4>3 DEF InTurn
      <4> QED  BY <1>3, <4>1, <4>3, <4>4
    <3> QED  BY <1>1, <3>1, <3>2
  <2>4. ASSUME NEW i \in DOMAIN g, g[i] = "left", \A b \in Closing(g, rez) : b < i PROVE FALSE
    <3>1. id < i /\ i \in Nat /\ id \in Nat  BY <1>1, <1>6, <2>4
    <3>2. i # id  BY <3>1
    <3>3. i < id  BY <1>1, <1>10, <2>4, <3>2
    <3> QED  BY <3>1, <3>3
  <2> QED  BY <1>2, <1>6, <2>2, <2>3, <2>4 DEF InTurn
<1> QED  BY <1>8, <1>9, <1>10

\* Every reading has a fate.
LEMMA FateDomain ==
  ASSUME Typed
  PROVE  /\ DOMAIN fate = 1 .. Len(readings) /\ DOMAIN result = DOMAIN fate /\ DOMAIN fate \subseteq Nat \ {0}
         /\ \A i \in DOMAIN fate, j \in Nat : j < i /\ j # 0 => j \in DOMAIN fate
         /\ window.held \in Seq(Results) /\ setup.aggregating \in BOOLEAN
<1>1. DOMAIN fate = 1 .. Len(readings) /\ DOMAIN result = 1 .. Len(readings) /\ Len(readings) \in Nat
  BY LenProperties DEF Typed, LedgerTyped
<1>2. window.held \in Seq(Results) /\ setup.aggregating \in BOOLEAN
  BY SetupTyped DEF Typed, PipeTyped, Setup
<1> QED  BY <1>1, <1>2

\* The step keeps the windows well where the readings of before kept what they were, and a
\* thread that comes to clear the window has its result.
LEMMA WindowedKept ==
  ASSUME Typed, Windowed, setup' = setup, window' = window, overlapped => overlapped',
         DOMAIN fate \subseteq DOMAIN fate',
         \A i \in DOMAIN fate : readings'[i] = readings[i] /\ result'[i] = result[i],
         \A i \in DOMAIN fate : fate'[i] = "left" <=> fate[i] = "left",
         \A i \in DOMAIN fate : fate'[i] = "rejected" => fate[i] = "rejected",
         \A i \in DOMAIN fate' : i \notin DOMAIN fate => fate'[i] \in {"lost", "inside"},
         \A u \in Threads : th'[u].pc = "clear" =>
           (th[u].pc = "clear" /\ th'[u].cur = th[u].cur) \/ Due(th'[u])
  PROVE  Windowed'
<1> SUFFICES ASSUME ~setup.enabled
             PROVE  /\ \A id \in DOMAIN fate' : fate'[id] # "rejected"
                    /\ ~overlapped' =>
                         /\ HeldWell(window.held, readings', fate', result') /\ ClosedWell(fate', result')
                         /\ \A t \in Threads : th'[t].pc = "clear" => Due(th'[t])
                         /\ ~setup.filtering => InTurn(window.held, readings', fate', result', setup.aggregating)
  BY DEF Windowed, Due, WindowResult, FirstPoint, OfPoint
<1>1. /\ \A id \in DOMAIN fate : fate[id] # "rejected"
      /\ ~overlapped =>
           /\ HeldWell(window.held, readings, fate, result) /\ ClosedWell(fate, result)
           /\ \A t \in Threads : th[t].pc = "clear" => Due(th[t])
           /\ ~setup.filtering => InTurn(window.held, readings, fate, result, setup.aggregating)
  BY DEF Windowed
<1>2. DOMAIN fate \subseteq Nat /\ setup.aggregating \in BOOLEAN
      /\ \A i \in DOMAIN fate, j \in Nat : j < i /\ j # 0 => j \in DOMAIN fate
  BY FateDomain
<1>3. PICK rz, g, rez : rz = readings' /\ g = fate' /\ rez = result'  OBVIOUS
<1>4. DOMAIN fate \subseteq DOMAIN g  BY <1>3
<1>5. \A i \in DOMAIN g : i \notin DOMAIN fate => g[i] # "left"  BY <1>3
<1>6. \A i \in DOMAIN g : g[i] = "rejected" => i \in DOMAIN fate /\ fate[i] = "rejected"  BY <1>3
<1>7. \A i \in DOMAIN fate : rz[i] = readings[i] /\ rez[i] = result[i] /\ (g[i] = "left" <=> fate[i] = "left")
  BY <1>3
<1>8. /\ HeldWell(window.held, readings, fate, result) => HeldWell(window.held, rz, g, rez)
      /\ ClosedWell(fate, result) => ClosedWell(g, rez)
      /\ \A on \in BOOLEAN :
           HeldWell(window.held, readings, fate, result) /\ InTurn(window.held, readings, fate, result, on)
           => InTurn(window.held, rz, g, rez, on)
  <2>1. PICK rs, f, res, held : rs = readings /\ f = fate /\ res = result /\ held = window.held  OBVIOUS
  <2>2. /\ HeldWell(held, rs, f, res) => HeldWell(held, rz, g, rez)
        /\ ClosedWell(f, res) => ClosedWell(g, rez)
        /\ \A on \in BOOLEAN : HeldWell(held, rs, f, res) /\ InTurn(held, rs, f, res, on) => InTurn(held, rz, g, rez, on)
    <3>1. DOMAIN f \subseteq DOMAIN g /\ DOMAIN f \subseteq Nat
          /\ \A i \in DOMAIN f, j \in Nat : j < i /\ j # 0 => j \in DOMAIN f
      BY <1>2, <1>4, <2>1
    <3>2. \A i \in DOMAIN f : rz[i] = rs[i] /\ rez[i] = res[i] /\ (g[i] = "left" <=> f[i] = "left")
      BY <1>7, <2>1
    <3>3. \A i \in DOMAIN g : (i \notin DOMAIN f => g[i] # "left") /\ (g[i] = "rejected" => i \in DOMAIN f /\ f[i] = "rejected")
      BY <1>5, <1>6, <2>1
    <3> QED  BY <3>1, <3>2, <3>3, WindowsSame, SMTT(60)
  <2> QED  BY <2>1, <2>2
<1>9. \A id \in DOMAIN fate' : fate'[id] # "rejected"  BY <1>1, <1>3, <1>6
<1>10. ~overlapped => \A t \in Threads : th'[t].pc = "clear" => Due(th'[t])  BY <1>1 DEF Due
<1> QED  BY <1>1, <1>2, <1>3, <1>8, <1>9, <1>10

\* The readings of a round that ends early were inside.
LEMMA WindowedFails ==
  ASSUME Typed, Placed, Windowed, NEW t \in Threads, Fails(t), th[t].pc \in {"rule", "half", "clear"},
         setup' = setup, window' = window
  PROVE  Windowed'
<1> DEFINE gone == {th[t].ids[i] : i \in th[t].at .. Len(th[t].ids)}
<1>1. th[t] \in Round /\ Busy(t) /\ InOrder(th[t], Len(readings)) /\ th' = [th EXCEPT ![t] = NoRound]
  BY BusyInOrder DEF Typed, RoundsTyped, Busy, Fails
<1>2. /\ fate' = [i \in DOMAIN fate |-> IF i \in gone THEN "lost" ELSE fate[i]]
      /\ UNCHANGED <<readings, result, overlapped>>
  BY DEF Fails
<1>3. \A i \in gone : fate[i] = "inside"
  <2>1. \A i \in th[t].at .. Len(th[t].ids) : i \in 1 .. Len(th[t].ids) /\ (i > th[t].at \/ i = th[t].at)
    BY <1>1, LenProperties DEF InOrder, Round
  <2>2. gone \subseteq Ahead(th[t])  BY <2>1 DEF Ahead
  <2> QED  BY <2>2 DEF Placed
<1> HIDE DEF gone
<1>4. \A i \in DOMAIN fate : (fate'[i] = "left" <=> fate[i] = "left") /\ (fate'[i] = "rejected" => fate[i] = "rejected")
  BY <1>2, <1>3
<1>5. \A u \in Threads : th'[u].pc = "clear" => th'[u] = th[u]
  BY <1>1 DEF Typed, RoundsTyped, NoRound
<1> QED  BY <1>2, <1>4, <1>5, WindowedKept

\* The pipeline keeps Windowed.
LEMMA WindowedMoves ==
  ASSUME Typed, Placed, Fresh, Windowed, NEW t \in Threads, InPipeline(t)
  PROVE  Windowed'
<1> DEFINE o == th[t].cur
           id == Id(t)
           held == window.held
           on == setup.aggregating
<1>1. /\ th[t] \in Round /\ th[t].pc \in {"rule", "half", "clear"} /\ Busy(t) /\ o \in Results /\ setup' = setup
      /\ readings' = readings /\ overlapped' = overlapped /\ th \in [Threads -> Round]
      /\ FreshRound(th[t], readings, LoneRule, setup.enabled)
      /\ InOrder(th[t], Len(readings)) /\ id \in DOMAIN fate
  <2>1. th[t].pc \in {"rule", "half", "clear"} /\ setup' = setup /\ readings' = readings /\ overlapped' = overlapped
    BY PipelineMoves DEF Moves, Stays, Fails, ledger
  <2>2. Busy(t)  BY <2>1 DEF Busy
  <2> QED  BY <2>1, <2>2, BusyInOrder, FateDomain DEF Typed, RoundsTyped, Fresh, InOrder
<1>2. CASE setup.enabled  BY <1>1, <1>2 DEF Windowed
<1>3. CASE ~setup.enabled
  <2>1. /\ th[t].pc # "clear" => o = Reading(readings, id)
        /\ \A i \in DOMAIN fate : fate[i] # "rejected"
    BY <1>1, <1>3 DEF FreshRound, Id, Windowed
  <2>2. ReadsUploaded(t) \/ RunsDefault(t) \/ Clears(t) \/ WindowRaises(t)
    BY <1>3 DEF InPipeline, SkipsRule, ConditionRaises, RunsStateless, ReadsMemory, WritesMemory,
                Appends, LooksAtBuffer, Leaves, Executes, InRule
  <2>3. fate[id] = "inside"  BY <1>1, AheadMoves DEF Placed, InOrder
  <2>4. ~overlapped => /\ \A i \in DOMAIN fate : fate[i] = "left" => i < id
                       /\ \A u \in Threads \ {t} : th[u].pc = "idle"
    BY <1>1 DEF Placed, AtTheFront, Id, Busy
  <2>5. ~overlapped => /\ HeldWell(held, readings, fate, result) /\ ClosedWell(fate, result)
                       /\ th[t].pc = "clear" => Due(th[t])
                       /\ ~setup.filtering => InTurn(held, readings, fate, result, on)
    BY <1>3 DEF Windowed
  <2>6. /\ DOMAIN fate \subseteq Nat /\ DOMAIN fate \subseteq Nat \ {0} /\ DOMAIN fate \subseteq DOMAIN result
        /\ \A i \in DOMAIN fate, j \in Nat : j < i /\ j # 0 => j \in DOMAIN fate
        /\ held \in Seq(Results) /\ on \in BOOLEAN
    BY FateDomain
  <2>7. CASE ReadsUploaded(t)
    <3>1. UNCHANGED <<window, fate, result>> /\ \A u \in Threads : th'[u].pc = "clear" => th'[u] = th[u]
      BY <1>1, <2>7 DEF ReadsUploaded, pipe, ledger
    <3> QED  BY <1>1, <3>1, WindowedKept
  <2>8. CASE Fails(t) /\ window' = window  BY <1>1, <2>8, WindowedFails
  <2>9. CASE RunsDefault(t) /\ ~FilterRaises(o, th[t].seen)
    <3> DEFINE feeds == on /\ ~FilterStops(o, th[t].seen)
    <3>1. PICK due \in BOOLEAN :
            IF feeds /\ Closes(due)
            THEN /\ th' = [th EXCEPT ![t].pc = "clear", ![t].cur = WindowResult, ![t].seen = PointsHeld]
                 /\ UNCHANGED <<window, fate, result>>
            ELSE /\ IF feeds THEN Adds(o) ELSE UNCHANGED window
                 /\ LetsOut(t, o)
      BY <2>9 DEF RunsDefault
    <3>2. th[t].pc = "half"  BY <2>9 DEF RunsDefault
    <3>3. CASE feeds /\ Closes(due)
      <4>1. th'[t].cur = WindowResult /\ \A u \in Threads \ {t} : th'[u] = th[u]
        BY <1>1, <3>1, <3>3 DEF Round
      <4>2. Due(th'[t])  BY <3>3, <4>1 DEF Due, Closes
      <4>3. UNCHANGED <<window, fate, result>>  BY <3>1, <3>3
      <4> QED  BY <1>1, <4>1, <4>2, <4>3, WindowedKept
    <3>4. CASE ~(feeds /\ Closes(due))
      <4>1. LetsOut(t, o) /\ IF feeds THEN Adds(o) ELSE UNCHANGED window  BY <3>1, <3>4
      <4>2. /\ fate' = [fate EXCEPT ![id] = "left"] /\ o = Reading(readings, id)
            /\ result' = [result EXCEPT ![id] = Reading(readings, id)]
            /\ th' = [th EXCEPT ![t].pc = "out", ![t].cur = o]
        BY <2>1, <3>2, <4>1 DEF LetsOut
      <4>3. \A i \in DOMAIN fate' : fate'[i] # "rejected"  BY <2>1, <4>2
      <4>4. ~overlapped => \A u \in Threads : th'[u].pc # "clear"  BY <1>1, <2>4, <4>2 DEF Round
      <4>5. SUFFICES ASSUME ~overlapped
                     PROVE  /\ HeldWell(window'.held, readings, fate', result') /\ ClosedWell(fate', result')
                            /\ ~setup.filtering => InTurn(window'.held, readings, fate', result', on)
        BY <1>1, <4>3, <4>4 DEF Windowed
      <4>6. o.val = readings[id].val  BY <4>2 DEF Reading
      <4>7. window'.held = IF feeds /\ readings[id].val >= 0 THEN Append(held, Reading(readings, id)) ELSE held
        <5>1. CASE feeds
          <6>1. window' = [open |-> TRUE, held |-> IF o.val >= 0 THEN Append(held, o) ELSE held]
            BY <4>1, <5>1 DEF Adds
          <6> QED  BY <4>2, <4>6, <5>1, <6>1
        <5>2. CASE ~feeds  BY <4>1, <5>2
        <5> QED  BY <5>1, <5>2
      <4>8. Reading(readings, id) \in Results  BY <1>1, <4>2
      <4>9. on /\ ~setup.filtering => feeds  BY DEF FilterStops
      <4>10. PICK fed \in BOOLEAN : fed = feeds  BY <2>6
      <4>11. PICK z, g, rez : z = window'.held /\ g = fate' /\ rez = result'  OBVIOUS
      <4> HIDE DEF held, id, o, on, feeds
      <4>12. LeavesAsItself(held, z, readings, fate, g, result, rez, id, fed)
        BY <2>3, <4>2, <4>7, <4>10, <4>11 DEF LeavesAsItself
      <4>13. /\ HeldWell(z, readings, g, rez) /\ ClosedWell(g, rez)
             /\ \A x : InTurn(held, readings, fate, result, x) /\ (x => fed) /\ (\A i \in DOMAIN fate : fate[i] = "left" => i < id)
                     => InTurn(z, readings, g, rez, x)
        <5>1. id \in DOMAIN fate /\ fed \in BOOLEAN /\ held \in Seq(Results)  BY <1>1, <2>6, <4>10
        <5>2. HeldWell(held, readings, fate, result) /\ ClosedWell(fate, result)  BY <2>5, <4>5
        <5> QED  BY <2>6, <4>8, <4>12, <5>1, <5>2, WindowsLet, SMTT(60)
      <4>14. ASSUME ~setup.filtering PROVE InTurn(z, readings, g, rez, on)
        BY <2>4, <2>5, <4>5, <4>9, <4>10, <4>13, <4>14
      <4> QED  BY <4>11, <4>13, <4>14
    <3> QED  BY <3>3, <3>4
  <2>10. CASE Clears(t)
    <3>1. /\ th[t].pc = "clear" /\ LetsOut(t, o) /\ window' = [open |-> TRUE, held |-> <<>>]
          /\ fate' = [fate EXCEPT ![id] = "left"] /\ result' = [result EXCEPT ![id] = o]
          /\ th' = [th EXCEPT ![t].pc = "out", ![t].cur = o]
      BY <2>10 DEF Clears, LetsOut
    <3>2. \A i \in DOMAIN fate' : fate'[i] # "rejected"  BY <2>1, <3>1
    <3>3. ~overlapped => \A u \in Threads : th'[u].pc # "clear"  BY <1>1, <2>4, <3>1 DEF Round
    <3>4. SUFFICES ASSUME ~overlapped
                   PROVE  /\ HeldWell(window'.held, readings, fate', result') /\ ClosedWell(fate', result')
                          /\ ~setup.filtering => InTurn(window'.held, readings, fate', result', on)
      BY <1>1, <3>2, <3>3 DEF Windowed
    <3>5. on = TRUE /\ held # <<>> /\ o = WindowResult  BY <2>5, <2>6, <3>1, <3>4 DEF Due
    <3>6. o.point = held[1].point /\ o.of = UNION {h.of : h \in {x \in Range(held) : x.point = o.point}}
      BY <3>5 DEF WindowResult, FirstPoint, OfPoint
    <3>7. window'.held = <<>>  BY <3>1
    <3> HIDE DEF held, id, o, on
    <3>8. /\ HeldWell(<<>>, readings, fate', result') /\ ClosedWell(fate', result')
          /\ InTurn(held, readings, fate, result, TRUE) /\ (\A i \in DOMAIN fate : fate[i] = "left" => i < id)
             => InTurn(<<>>, readings, fate', result', TRUE)
      BY <1>1, <2>3, <2>5, <2>6, <3>1, <3>4, <3>5, <3>6, WindowsClose
    <3> QED  BY <2>4, <2>5, <3>4, <3>5, <3>7, <3>8
  <2>11. WindowRaises(t) \/ (RunsDefault(t) /\ FilterRaises(o, th[t].seen)) => Fails(t) /\ window' = window
    BY DEF RunsDefault, WindowRaises, pipe
  <2> QED  BY <2>2, <2>7, <2>8, <2>9, <2>10, <2>11
<1> QED  BY <1>2, <1>3

\* No window is open and nothing is held.
LEMMA WindowedStart == ASSUME ProcessingInit PROVE Windowed
<1>1. fate = <<>> /\ window.held = <<>>  BY DEF ProcessingInit
<1>2. DOMAIN fate = {} /\ Len(window.held) = 0 /\ 1 .. 0 = {}  BY <1>1
<1>3. Closing(fate, result) = {}  BY <1>2 DEF Closing
<1>4. \A t \in Threads : th[t].pc = "idle"  BY DEF ProcessingInit, NoRound
<1> QED  BY <1>2, <1>3, <1>4 DEF Windowed, HeldWell, ClosedWell, InTurn

\* Every step keeps Windowed.
LEMMA WindowedStep ==
  ASSUME Typed, Placed, Fresh, Windowed, [ProcessingNext]_processingVars
  PROVE  Windowed'
<1>1. ASSUME NEW t \in Threads, Begin(t) PROVE Windowed'
  <2> DEFINE k == Len(readings)
             n == setup.points
  <2>1. /\ setup' = setup /\ pipe' = pipe /\ k \in Nat /\ n \in Nat /\ LedgerTyped' /\ Len(readings)' = k + n
        /\ \A i \in 1 .. k : readings'[i] = readings[i] /\ fate'[i] = fate[i] /\ result'[i] = result[i]
    BY <1>1, BeginIs
  <2>2. \A i \in k + 1 .. k + n : fate'[i] \in {"lost", "inside"}  BY <1>1, BeginIs
  <2>3. overlapped => overlapped'  BY <1>1, BeginIs
  <2>4. DOMAIN fate = 1 .. k /\ DOMAIN fate' = 1 .. k + n
    <3>1. Len(readings') = k + n /\ Len(fate') = Len(readings') /\ fate' \in Seq(Fates)  BY <2>1 DEF LedgerTyped
    <3> QED  BY <3>1, FateDomain, LenProperties
  <2>5. DOMAIN fate \subseteq DOMAIN fate' /\ \A i \in DOMAIN fate' : i \notin DOMAIN fate => i \in k + 1 .. k + n
    BY <2>1, <2>4
  <2>6. \A u \in Threads : th'[u].pc = "clear" => th'[u] = th[u]
    BY <1>1, BeginIs DEF Typed, RoundsTyped
  <2> QED  BY <2>1, <2>2, <2>3, <2>4, <2>5, <2>6, WindowedKept DEF pipe
<1>2. CASE /\ UNCHANGED <<setup, window, readings, fate, result, overlapped>>
           /\ \A u \in Threads : th'[u].pc = "clear" => th'[u] = th[u]
  BY <1>2, WindowedKept
<1>3. ASSUME NEW t \in Threads, OnData(t) PROVE Windowed'
  <2>1. /\ UNCHANGED <<setup, window, readings, fate, result, overlapped>>
        /\ \E me \in Round : th' = [th EXCEPT ![t] = me] /\ me.pc \in {"batch", "rule"}
    BY <1>3, OnDataIs DEF pipe
  <2> QED  BY <1>2, <2>1 DEF Typed, RoundsTyped
<1>4. ASSUME NEW t \in Threads, OnBatch(t) PROVE Windowed'
  <2>1. UNCHANGED <<setup, window, readings, fate, result, overlapped>> /\ th' = [th EXCEPT ![t] = NoRound]
    BY <1>4, OnBatchIs DEF pipe
  <2> QED  BY <1>2, <2>1 DEF Typed, RoundsTyped, NoRound
<1>5. CASE SwitchesBatching \/ RemovesDevice  BY <1>2, <1>5 DEF SwitchesBatching, RemovesDevice, pipe
<1>6. CASE UNCHANGED processingVars  BY <1>2, <1>6 DEF processingVars, pipe, ledger
<1> QED  BY <1>1, <1>3, <1>4, <1>5, <1>6, WindowedMoves DEF ProcessingNext

\* For every window size, a lone aggregate rule aggregates exactly the last Window readings
\* of the point, whatever was appended to and trimmed from its buffer; and the windows of
\* DataAggregator, while no two threads are in it, share no reading and miss no number of
\* the point they give.
THEOREM ReadingsAreAggregatedWhole == ProcessingSpec => []AggregatesAreWhole
<1> DEFINE Inv == Typed /\ Accounted /\ Placed /\ Fresh /\ Buffered /\ Windowed
<1>1. ProcessingInit => Inv
  BY TypedStart, AccountedStart, PlacedStart, FreshStart, BufferedStart, WindowedStart
<1>2. Inv /\ [ProcessingNext]_processingVars => Inv'
  BY TypedStep, AccountedStep, PlacedStep, FreshStep, BufferedStep, WindowedStep
<1>3. Inv => AggregatesAreWhole  BY BufferedAggregates, WindowedPartition DEF AggregatesAreWhole
<1> QED  BY <1>1, <1>2, <1>3, PTL DEF ProcessingSpec

=============================================================================
