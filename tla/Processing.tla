----------------------------- MODULE Processing -----------------------------
(***************************************************************************)
(* What happens to a reading between the device and MQTT: Pipeline         *)
(* (core/processor/pipeline.py), the rounds of DeviceCollector             *)
(* (core/collector/collector.py) and the callbacks of DeviceManager        *)
(* (device/device_manager.py), with the filter, the aggregator and the     *)
(* fusion they use.                                                        *)
(*                                                                         *)
(* A device has one pipeline and two threads that may be in it at once:    *)
(* its collector's, and the Qt thread when the user triggers a collection. *)
(* The pipeline keeps state between readings without a lock: the value a   *)
(* filter let through last, a buffer per point, an open window.            *)
(*                                                                         *)
(* Counted are the messages that carry the readings of a round.  A user    *)
(* who asks for all points to be uploaded (force_upload_all_points) sends  *)
(* the latest values once more, in a message of its own, which is left out *)
(* as it touches none of this state.                                       *)
(***************************************************************************)
EXTENDS Integers, Sequences, SequencesExt, FiniteSetsExt

CONSTANTS
  Points,      \* a sequence: the points of the device, by priority
  Numbers,     \* the numbers a point may read
  Limit,       \* the upper bound of threshold rules and of the clamping conversion
  Window,      \* window_size of an aggregate rule
  Percent,     \* the least change, in percent, of a change rule and of DataFilter
  Setups,      \* the configurations: see Setup
  MaxEvents,   \* bound: how many of the events of `used` there are
  MaxRounds    \* bound: rounds in a behaviour, for each number of points

Null == -1     \* None: the reading failed
Text == -2     \* a value that is no number
Values == Numbers \cup {Null, Text}
Names == Range(Points)

\* A rule: its stage or filter type, whether it has the condition "value > 0", on_fail =
\* 'abort', and loop_max.  The rules of a disabled pipeline play no part.
Rule == [kind : {"convert", "compute", "null", "threshold", "encrypt", "transform",
                 "duplicate", "change", "aggregate", "fusion"},
         positive : BOOLEAN, abort : BOOLEAN, loops : 0 .. 1]
Setup == [enabled : BOOLEAN, rules : Seq(Rule),
          points : 1 .. Len(Points),    \* how many of the points are enabled
          values : SUBSET Values,       \* what they may read
          limits : BOOLEAN,             \* the points have alarm limits
          filtering : BOOLEAN,          \* enable_filter: nulls and small changes are not uploaded
          aggregating : BOOLEAN]        \* data_aggregate.enabled

ASSUME ProcessingAssumption ==
  /\ Points \in Seq(Names)
  /\ Numbers \subseteq Nat /\ {Limit, Percent} \subseteq Nat /\ Window \in Nat \ {0}
  /\ MaxRounds \in [1 .. Len(Points) -> Nat]
  /\ Setups \subseteq Setup

Threads == {"loop", "manual"}

VARIABLES
  setup,      \* the configuration, fixed
  batching,   \* app_config.batch_publish
  present, \* ConfigManager knows the device
  last,       \* _lua_context['_filter_last_' + point]: the memory of the filters
  buffers,    \* _fusion_buffers, of aggregation and of fusion
  window,     \* DataAggregator: whether it is open, and what it holds
  uploaded,   \* DataFilter._last_values of the pipeline
  th,         \* the rounds under way
  readings,   \* history: the readings taken, numbered
  fate,       \* history: what the pipeline did with each
  result,     \* history: what came out of it
  left,       \* history: the value of each point that left the pipeline last
  stored,     \* history: the readings with a record in the database
  offers,     \* history: how often each was handed to MQTT
  excuse,     \* history: why a stored reading may not be handed over exactly once
  overlapped, \* history: two rounds were under way at once
  used        \* bound: what happens once: a manual round, a refusal, a change of batch_publish, the removal

pipe == <<last, buffers, window, uploaded>>
ledger == <<readings, fate, result, left, stored, offers, excuse, overlapped>>
processingVars == <<setup, batching, present, pipe, th, ledger, used>>

Once(what) == what \notin used /\ Cardinality(used) < MaxEvents /\ used' = used \cup {what}

-----------------------------------------------------------------------------
\* A result on its way: its point, its value, and the readings its value is made of.
Nothing == [point |-> "", val |-> Null, of |-> {}]
Raised == [point |-> "", val |-> Text, of |-> {}]
IsResult(o) == o.of # {}
WithValue(o, v) == [o EXCEPT !.val = v]

NoRound == [pc |-> "idle", ids |-> <<>>, at |-> 1, rule |-> 1, runs |-> 0,
         cur |-> Nothing, seen |-> Null, batch |-> <<>>]

Id(t) == th[t].ids[th[t].at]
RuleOf(t) == setup.rules[th[t].rule]
Numeric(os) == {o \in Range(os) : o.val # Null}
DistanceSigned(a, b) == a - b
Distance(a, b) == IF a > b THEN a - b ELSE b - a
TooClose(v, before) == Distance(v, before) * 100 < Percent * before

\* DataConverter.convert() with 'clamp', DataComputation.compute() with 'add': float() of a
\* text raises in the one, gives None in the other, which changes nothing.
Clamped(v) == Min({v, Limit})
Converted(o) ==
  IF o.val = Null THEN o ELSE IF o.val = Text THEN Raised ELSE WithValue(o, Clamped(o.val))
Sum(v) == IF v < 0 THEN Null ELSE v + 1
Computed(o) == IF Sum(o.val) = Null THEN o ELSE WithValue(o, Sum(o.val))

\* The 'null' and 'threshold' filters, and the encryption of a value.
NullFiltered(o) == IF o.val = Null THEN Nothing ELSE o
ThresholdFiltered(o) == IF o.val = Text THEN Raised ELSE IF o.val > Limit THEN Nothing ELSE o
Encrypted(o) == IF o.val = Null THEN o ELSE WithValue(o, Text)

\* The rules that keep no state.
Stateless(kind, o) ==
  CASE kind = "convert" -> Converted(o)
    [] kind = "compute" -> Computed(o)
    [] kind = "null" -> NullFiltered(o)
    [] kind = "threshold" -> ThresholdFiltered(o)
    [] kind = "encrypt" -> Encrypted(o)
    [] OTHER -> o

\* The 'duplicate' and 'change' filters, from the value they remember.
Filtered(kind, o, before) ==
  IF kind = "duplicate" THEN IF o.val = before THEN Nothing ELSE o
  ELSE IF before \in {Null, 0} THEN o
  ELSE IF o.val < 0 \/ before = Text THEN Raised
  ELSE IF TooClose(o.val, before) THEN Nothing ELSE o

\* _handle_aggregate with wait_full off and method 'max', once the result is in the
\* buffer: the value is of the whole window, a text in the window raises.
Aggregated(buffer, o) ==
  IF Len(buffer) < Window \/ Numeric(buffer) = {} THEN o
  ELSE IF \E b \in Range(buffer) : b.val = Text THEN Raised
  ELSE [Last(buffer) EXCEPT !.val = Max({b.val : b \in Numeric(buffer)}),
                            !.of = UNION {b.of : b \in Range(buffer)}]

\* _handle_fusion, complementary, with the functions of SensorFusion: they name a variable
\* that does not exist as soon as two values are there; one value alone is the result.
FusionSize == 5
Valid(buffer) == {i \in DOMAIN buffer : buffer[i].val # Null}
Fused(buffer, o) ==
  IF Len(buffer) < 2 \/ Valid(buffer) = {} THEN o
  ELSE IF Cardinality(Valid(buffer)) > 1 THEN Raised
  ELSE buffer[CHOOSE i \in Valid(buffer) : TRUE]

\* A rule that raises gives None where it aborts and its input elsewhere (_execute_rule).
Caught(rule, o, input) == IF o = Raised THEN IF rule.abort THEN Nothing ELSE input ELSE o

-----------------------------------------------------------------------------
\* DataFilter.should_upload with the memory `before`.
FilterRaises(o, before) ==
  setup.filtering /\ o.val # Null /\ before \notin {Null, 0} /\ Text \in {o.val, before}
FilterStops(o, before) ==
  setup.filtering /\ (o.val = Null \/ (before \notin {Null, 0} /\ o.val >= 0 /\ TooClose(o.val, before)))
Remembers(memory, o) ==
  IF setup.filtering /\ ~FilterStops(o, memory[o.point]) THEN [memory EXCEPT ![o.point] = o.val] ELSE memory

Blank == [p \in Names |-> Null]
\* _on_collect_batch makes one new filter for the whole batch: what it remembers after so
\* many of the results,
Memory(batch) ==
  LET after[n \in 0 .. Len(batch)] ==
        IF n = 0 THEN Blank ELSE Remembers(after[n - 1], batch[n].res)
  IN after
Before(batch, i) == Memory(batch)[i - 1][batch[i].res.point]
\* whether it raises on one of them, and which it lets through.
BatchRaises(batch) == \E i \in DOMAIN batch : FilterRaises(batch[i].res, Before(batch, i))
Uploaded(batch) ==
  {batch[i].id : i \in {j \in DOMAIN batch : ~FilterStops(batch[j].res, Before(batch, j))}}

-----------------------------------------------------------------------------
\* DataAggregator.feed: `due` says that window_seconds have gone since the window opened.
\* _window_data is a dict: the point that came first gives the result, the others are lost.
FirstPoint == window.held[1].point
OfPoint(p) == {h \in Range(window.held) : h.point = p}
PointsHeld == Cardinality({h.point : h \in Range(window.held)})
Closes(due) == window.open /\ due /\ window.held # <<>>
WindowResult ==
  [point |-> FirstPoint, val |-> Max({h.val : h \in OfPoint(FirstPoint)}),
   of |-> UNION {h.of : h \in OfPoint(FirstPoint)}]

Adds(o) == window' = [open |-> TRUE, held |-> IF o.val >= 0 THEN Append(window.held, o) ELSE window.held]

-----------------------------------------------------------------------------
\* A round of _collect_loop, or trigger_once: all points are read before the first is
\* processed.  A text raises where it meets an alarm limit, outside the try of
\* _collect_point, and the round is over.  A device that is removed has no collector to
\* trigger, but one that its second start left behind collects on.
Begin(t) ==
  /\ th[t].pc = "idle" /\ (present \/ t = "loop")
  /\ Len(readings) < setup.points * MaxRounds[setup.points]
  /\ \E vals \in [1 .. setup.points -> setup.values] :
       LET ids == [i \in 1 .. setup.points |-> Len(readings) + i]
           fails == setup.limits /\ Text \in Range(vals)
       IN /\ readings' = readings \o [i \in 1 .. setup.points |-> [point |-> Points[i], val |-> vals[i]]]
          /\ fate' = fate \o [i \in 1 .. setup.points |-> IF fails THEN "lost" ELSE "inside"]
          /\ result' = result \o [i \in 1 .. setup.points |-> Nothing]
          /\ offers' = offers \o [i \in 1 .. setup.points |-> 0]
          /\ th' = IF fails THEN th
                   ELSE [th EXCEPT ![t] = [NoRound EXCEPT
                          !.pc = "rule", !.ids = ids,
                          !.cur = [point |-> Points[1], val |-> vals[1], of |-> {ids[1]}]]]
          /\ excuse' = IF present THEN excuse ELSE [excuse EXCEPT !.settings = @ \cup Range(ids)]
          /\ overlapped' = (overlapped \/ (~fails /\ \E u \in Threads \ {t} : th[u].pc # "idle"))
  /\ IF t = "manual" THEN Once("manual") ELSE UNCHANGED used
  /\ UNCHANGED <<setup, batching, present, pipe, left, stored>>

\* The next point of the round, or its end.
NextPoint(me) ==
  IF me.at = Len(me.ids) THEN [me EXCEPT !.pc = "batch"]
  ELSE [me EXCEPT !.pc = "rule", !.at = @ + 1, !.rule = 1, !.runs = 0, !.seen = Null,
          !.cur = [point |-> Points[me.at + 1], val |-> readings[me.ids[me.at + 1]].val,
                   of |-> {me.ids[me.at + 1]}]]

\* process() is done with a reading: it returns None, or a result for the callbacks.
Rejects(t) ==
  /\ fate' = [fate EXCEPT ![Id(t)] = "rejected"]
  /\ th' = [th EXCEPT ![t] = NextPoint(@)]
  /\ UNCHANGED <<result, left>>

LetsOut(t, o) ==
  /\ fate' = [fate EXCEPT ![Id(t)] = "left"]
  /\ result' = [result EXCEPT ![Id(t)] = o]
  /\ left' = [left EXCEPT ![o.point] = o.val]
  /\ th' = [th EXCEPT ![t].pc = "out", ![t].cur = o]

\* What raises out of process(), or out of the collection, ends the round: the readings
\* not yet processed are lost, those already stored never come to the batch callback.
Fails(t) ==
  LET gone == {th[t].ids[i] : i \in th[t].at .. Len(th[t].ids)}
  IN /\ fate' = [id \in DOMAIN fate |-> IF id \in gone THEN "lost" ELSE fate[id]]
     /\ excuse' = [excuse EXCEPT !.round = @ \cup Range(th[t].ids)]
     /\ th' = [th EXCEPT ![t] = NoRound]
     /\ UNCHANGED <<readings, result, left, stored, offers, overlapped>>

\* After one execution of a rule with the outcome o: a loop goes on while it gives results.
After(t, o) ==
  LET rule == RuleOf(t)
      me == [th[t] EXCEPT !.pc = "rule", !.cur = IF IsResult(o) THEN o ELSE @, !.seen = Null]
  IN /\ IF ~IsResult(o) /\ rule.abort /\ me.runs = 0 THEN Rejects(t)
        ELSE /\ th' = [th EXCEPT ![t] =
                   IF me.runs < rule.loops /\ (me.runs = 0 \/ IsResult(o))
                   THEN [me EXCEPT !.runs = @ + 1]
                   ELSE [me EXCEPT !.rule = @ + 1, !.runs = 0]]
             /\ UNCHANGED <<fate, result, left>>
     /\ UNCHANGED <<readings, stored, offers, excuse, overlapped>>

InRule(t) == setup.enabled /\ th[t].pc = "rule" /\ th[t].rule <= Len(setup.rules)
Skips(t) == RuleOf(t).positive /\ th[t].runs = 0 /\ th[t].cur.val <= 0 /\ th[t].cur.val # Text
SkipRaises(t) == RuleOf(t).positive /\ th[t].runs = 0 /\ th[t].cur.val = Text

\* should_skip(): float() of a text raises, outside the try of _execute_rule.
SkipsRule(t) ==
  /\ InRule(t) /\ Skips(t)
  /\ th' = [th EXCEPT ![t].rule = @ + 1]
  /\ UNCHANGED <<pipe, ledger>>

ConditionRaises(t) == InRule(t) /\ SkipRaises(t) /\ Fails(t) /\ UNCHANGED pipe

Executes(t) == InRule(t) /\ ~Skips(t) /\ ~SkipRaises(t)

RunsStateless(t) ==
  /\ Executes(t) /\ RuleOf(t).kind \notin {"duplicate", "change", "aggregate", "fusion"}
  /\ After(t, Caught(RuleOf(t), Stateless(RuleOf(t).kind, th[t].cur), th[t].cur))
  /\ UNCHANGED pipe

\* The filters with a memory read it, and write it if the value passes.
ReadsMemory(t) ==
  /\ Executes(t) /\ RuleOf(t).kind \in {"duplicate", "change"}
  /\ th' = [th EXCEPT ![t].pc = "half", ![t].seen = last[th[t].cur.point]]
  /\ UNCHANGED <<pipe, ledger>>

WritesMemory(t) ==
  /\ setup.enabled /\ th[t].pc = "half" /\ RuleOf(t).kind \in {"duplicate", "change"}
  /\ LET o == Filtered(RuleOf(t).kind, th[t].cur, th[t].seen)
     IN /\ last' = IF IsResult(o) THEN [last EXCEPT ![o.point] = o.val] ELSE last
        /\ After(t, Caught(RuleOf(t), o, th[t].cur))
  /\ UNCHANGED <<buffers, window, uploaded>>

\* Aggregation and fusion share the buffer of the point: they append, then trim and look.
Appends(t) ==
  /\ Executes(t) /\ RuleOf(t).kind \in {"aggregate", "fusion"}
  /\ buffers' = [buffers EXCEPT ![th[t].cur.point] = Append(@, th[t].cur)]
  /\ th' = [th EXCEPT ![t].pc = "half"]
  /\ UNCHANGED <<last, window, uploaded, ledger>>

SizeOf(kind) == IF kind = "aggregate" THEN Window ELSE FusionSize
TrimmedLate(buffer, size) == IF Len(buffer) > size + 1 THEN Tail(buffer) ELSE buffer
Trimmed(buffer, size) == IF Len(buffer) > size THEN Tail(buffer) ELSE buffer

LooksAtBuffer(t) ==
  /\ setup.enabled /\ th[t].pc = "half" /\ RuleOf(t).kind \in {"aggregate", "fusion"}
  /\ LET kind == RuleOf(t).kind
         p == th[t].cur.point
         buffer == Trimmed(buffers[p], SizeOf(kind))
         o == IF kind = "aggregate" THEN Aggregated(buffer, th[t].cur) ELSE Fused(buffer, th[t].cur)
         one == Len(buffer) > 1 /\ Cardinality(Valid(buffer)) = 1
     IN /\ buffers' = [buffers EXCEPT ![p] = IF kind = "fusion" /\ one THEN <<>> ELSE buffer]
        /\ After(t, Caught(RuleOf(t), o, th[t].cur))
  /\ UNCHANGED <<last, window, uploaded>>

\* process() has gone through the rules.
Leaves(t) ==
  /\ setup.enabled /\ th[t].pc = "rule" /\ th[t].rule > Len(setup.rules)
  /\ LetsOut(t, th[t].cur)
  /\ UNCHANGED <<pipe, readings, stored, offers, excuse, overlapped>>

\* _process_default(), when the pipeline is disabled.  What DataFilter stops is not fed to
\* the aggregator, and where the aggregator has nothing to give the reading goes on.  The
\* filter reads its memory,
ReadsUploaded(t) ==
  /\ ~setup.enabled /\ th[t].pc = "rule"
  /\ th' = [th EXCEPT ![t].pc = "half", ![t].seen = uploaded[th[t].cur.point]]
  /\ UNCHANGED <<pipe, ledger>>

\* decides and writes it; the aggregator keeps the value, or computes what a window that is
\* due gives, which stays as it is while its points are gone through,
RunsDefault(t) ==
  /\ ~setup.enabled /\ th[t].pc = "half"
  /\ LET o == th[t].cur
         before == th[t].seen
         feeds == setup.aggregating /\ ~FilterStops(o, before)
     IN IF FilterRaises(o, before) THEN Fails(t) /\ UNCHANGED pipe
        ELSE \E due \in BOOLEAN :
          /\ due => feeds /\ window.open
          /\ uploaded' = IF setup.filtering /\ ~FilterStops(o, before)
                         THEN [uploaded EXCEPT ![o.point] = o.val] ELSE uploaded
          /\ IF feeds /\ Closes(due)
             THEN /\ th' = [th EXCEPT ![t].pc = "clear", ![t].cur = WindowResult, ![t].seen = PointsHeld]
                  /\ UNCHANGED <<window, fate, result, left>>
             ELSE /\ IF feeds THEN Adds(o) ELSE UNCHANGED window
                  /\ LetsOut(t, o)
          /\ UNCHANGED <<last, buffers, readings, stored, offers, excuse, overlapped>>

\* and is then cleared.
Clears(t) ==
  /\ ~setup.enabled /\ th[t].pc = "clear"
  /\ window' = [open |-> TRUE, held |-> <<>>]
  /\ LetsOut(t, th[t].cur)
  /\ UNCHANGED <<last, buffers, uploaded, readings, stored, offers, excuse, overlapped>>

\* A dict whose size another thread has changed in the meantime raises.
WindowRaises(t) ==
  /\ ~setup.enabled /\ th[t].pc = "clear" /\ PointsHeld # th[t].seen
  /\ Fails(t)
  /\ UNCHANGED pipe

-----------------------------------------------------------------------------
\* The result in the batch of its round.
Batched(me, id) == [me EXCEPT !.batch = Append(@, [id |-> id, res |-> me.cur])]

\* _on_collect_data: the record is inserted; without batch_publish the result is published
\* at once.  _publish_single makes a new DataFilter, which remembers nothing.  A text that
\* still has its alarm limits raises before the insertion, the database may refuse it, and
\* the collector drops the exception.  Of a device that is gone nothing is published.
OnData(t) ==
  /\ th[t].pc = "out"
  /\ LET o == th[t].cur
         raises == o.val = Text /\ setup.limits
         stops == FilterStops(o, Null)
     IN \E refused \in BOOLEAN :
          /\ IF refused /\ ~raises THEN Once("refusal") ELSE UNCHANGED used
          /\ raises => refused
          /\ th' = [th EXCEPT ![t] = NextPoint(Batched(@, Id(t)))]
          /\ stored' = IF refused THEN stored ELSE stored \cup {Id(t)}
          /\ offers' = IF refused \/ batching \/ ~present \/ stops THEN offers ELSE [offers EXCEPT ![Id(t)] = @ + 1]
          /\ excuse' = IF stops /\ ~batching /\ present THEN [excuse EXCEPT !.filter = @ \cup {Id(t)}] ELSE excuse
  /\ UNCHANGED <<setup, batching, present, pipe, readings, fate, result, left, overlapped>>

\* Mutant: the batch is published whatever batch_publish says.
OnBatchAlways(t) ==
  /\ th[t].pc = "batch"
  /\ LET ids == {b.id : b \in Range(th[t].batch)}
         raises == BatchRaises(th[t].batch)
         sent == IF ~present \/ raises THEN {} ELSE Uploaded(th[t].batch)
     IN /\ offers' = [id \in DOMAIN offers |-> offers[id] + (IF id \in sent THEN 1 ELSE 0)]
        /\ excuse' = IF ~present \/ ~batching THEN excuse
                     ELSE IF raises THEN [excuse EXCEPT !.batch = @ \cup ids]
                     ELSE [excuse EXCEPT !.filter = @ \cup (ids \ sent)]
  /\ th' = [th EXCEPT ![t] = NoRound]
  /\ UNCHANGED <<setup, batching, present, pipe, readings, fate, result, left, stored, overlapped, used>>

\* _on_collect_batch, at the end of a round: what the filter raises on loses the batch.
OnBatch(t) ==
  /\ th[t].pc = "batch"
  /\ LET ids == {b.id : b \in Range(th[t].batch)}
         raises == BatchRaises(th[t].batch)
         sent == IF ~present \/ ~batching \/ raises THEN {} ELSE Uploaded(th[t].batch)
     IN /\ offers' = [id \in DOMAIN offers |-> offers[id] + (IF id \in sent THEN 1 ELSE 0)]
        /\ excuse' = IF ~present \/ ~batching THEN excuse
                     ELSE IF raises THEN [excuse EXCEPT !.batch = @ \cup ids]
                     ELSE [excuse EXCEPT !.filter = @ \cup (ids \ sent)]
  /\ th' = [th EXCEPT ![t] = NoRound]
  /\ UNCHANGED <<setup, batching, present, pipe, readings, fate, result, left, stored, overlapped, used>>

\* The settings page saves batch_publish, in the middle of any rounds.
SwitchesBatching ==
  /\ Once("switch")
  /\ batching' = ~batching
  /\ excuse' = [excuse EXCEPT !.settings = @ \cup UNION {Range(th[t].ids) : t \in Threads}]
  /\ UNCHANGED <<setup, present, pipe, th, readings, fate, result, left, stored, offers, overlapped>>

\* The user removes the device, in the middle of a round of its collector: stop() clears
\* the event of the thread and waits for no round to end.
RemovesDevice ==
  /\ present /\ th["manual"].pc = "idle" /\ Once("remove")
  /\ present' = FALSE
  /\ excuse' = [excuse EXCEPT !.settings = @ \cup UNION {Range(th[t].ids) : t \in Threads}]
  /\ UNCHANGED <<setup, batching, pipe, th, readings, fate, result, left, stored, offers, overlapped>>

InPipeline(t) ==
  /\ \/ SkipsRule(t) \/ ConditionRaises(t) \/ RunsStateless(t) \/ ReadsMemory(t) \/ WritesMemory(t)
     \/ Appends(t) \/ LooksAtBuffer(t) \/ Leaves(t)
     \/ ReadsUploaded(t) \/ RunsDefault(t) \/ Clears(t) \/ WindowRaises(t)
  /\ UNCHANGED <<setup, batching, present, used>>

ProcessingNext ==
  \/ \E t \in Threads : Begin(t) \/ InPipeline(t) \/ OnData(t) \/ OnBatch(t)
  \/ SwitchesBatching \/ RemovesDevice

ProcessingInit ==
  /\ setup \in Setups /\ batching \in BOOLEAN /\ present = TRUE
  /\ last = Blank /\ uploaded = Blank
  /\ buffers = [p \in Names |-> <<>>]
  /\ window = [open |-> FALSE, held |-> <<>>]
  /\ th = [t \in Threads |-> NoRound]
  /\ readings = <<>> /\ fate = <<>> /\ result = <<>> /\ offers = <<>>
  /\ left = Blank /\ stored = {} /\ overlapped = FALSE /\ used = {}
  /\ excuse = [round |-> {}, batch |-> {}, filter |-> {}, settings |-> {}]

ProcessingSpec == ProcessingInit /\ [][ProcessingNext]_processingVars

-----------------------------------------------------------------------------
Gone(id) == \A t \in Threads : id \notin Range(th[t].ids)
LoneRule == setup.enabled /\ Len(setup.rules) = 1 /\ ~setup.rules[1].positive /\ setup.rules[1].loops = 0

\* A lone filter of repetitions or of small changes drops exactly what repeats the value
\* of the point that left the pipeline last: it neither lets a repetition out nor keeps a
\* change back, with one exception.  A change rule computes with floats, so a failed reading
\* or a text that follows a number other than 0 raises and is dropped (on_fail 'abort'),
\* and once a text is what left last, being the first value of the point or the first after
\* a 0, every later reading of the point is dropped, whatever it is (pipeline.py:260).  Two
\* such filters in one pipeline share their memory (pipeline.py:252, :257), and then it does
\* not hold; nor does it when two threads are in the pipeline.
Repeats(kind, v, before) ==
  IF kind = "duplicate" THEN v = before
  ELSE /\ before \notin {Null, 0}
       /\ (before - v) * 100 < Percent * before /\ (v - before) * 100 < Percent * before
Incomparable(kind, v, before) ==
  kind = "change" /\ before \notin {Null, 0} /\ (v < 0 \/ before = Text)
DropsExactlyRepeats ==
  [][\A id \in DOMAIN fate :
       LoneRule /\ setup.rules[1].kind \in {"duplicate", "change"} /\ setup.rules[1].abort
         /\ ~overlapped /\ fate[id] = "inside" /\ fate'[id] \in {"rejected", "left"}
       => LET kind == setup.rules[1].kind
              v == readings[id].val
              before == left[readings[id].point]
          IN fate'[id] = "rejected" <=> Repeats(kind, v, before) \/ Incomparable(kind, v, before)]_processingVars

\* What a lone aggregate rule lets out is the aggregate of exactly the last Window readings
\* of the point, a failed one counting as a place and not as a value; and it is the reading
\* itself until there are that many, and while one of them is a text.
Recent(id) ==
  LET same == {i \in 1 .. id : readings[i].point = readings[id].point /\ fate[i] # "lost"}
  IN {i \in same : Cardinality({j \in same : j > i}) < Window}
AggregateIsRecent ==
  LoneRule /\ setup.rules[1].kind = "aggregate" /\ ~overlapped =>
    \A id \in DOMAIN fate : fate[id] = "left" =>
      LET vals == {readings[i].val : i \in Recent(id)}
      IN IF Cardinality(Recent(id)) < Window \/ Text \in vals \/ vals = {Null}
         THEN result[id] = [point |-> readings[id].point, val |-> readings[id].val, of |-> {id}]
         ELSE result[id].of = Recent(id) /\ result[id].val = Max(vals \ {Null})

\* The aggregator of the default path: no reading is in two aggregates, an aggregate is of
\* one point and misses no number of it since the window before it, and every reading but
\* the one that closes a window leaves as itself.  Two threads in the aggregator break it,
\* which has no lock: both may close the same window, and what one adds while the other
\* computes is cleared unread.
Closers == {id \in DOMAIN fate : fate[id] = "left" /\ result[id].of # {id}}
WindowsPartition ==
  ~setup.enabled =>
    /\ \A id \in DOMAIN fate : fate[id] # "rejected"
    /\ ~overlapped =>
         /\ \A a, b \in Closers : a # b => result[a].of \cap result[b].of = {}
         /\ \A a \in Closers : ~setup.filtering =>
              result[a].of = {i \in 1 .. a - 1 :
                  /\ readings[i].point = result[a].point /\ readings[i].val >= 0 /\ fate[i] = "left"
                  /\ \A b \in Closers : b < a => b < i}

AggregatesAreWhole == AggregateIsRecent /\ WindowsPartition

\* A reading that has its record in the database is handed to MQTT exactly once, unless the
\* upload filter stops it, its round or its batch raises, or the settings change while its
\* round is under way: batch_publish, which _on_collect_data and _on_collect_batch read each
\* for itself, or the device, which is looked up by each and may be removed.
OfferedOnce ==
  \A id \in stored : Gone(id) =>
    offers[id] = 1 \/ id \in excuse.round \cup excuse.batch \cup excuse.filter \cup excuse.settings
=============================================================================
