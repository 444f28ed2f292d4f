---------------------------- MODULE UploadCache ----------------------------
(***************************************************************************)
(* The offline retry queue of the gateway: class CacheManager of           *)
(* core/storage/cache_manager.py and its table upload_cache.               *)
(*                                                                         *)
(* Three kinds of threads meet here.  Callers of cache_data() add rows;    *)
(* the upload worker (_upload_loop) reads due rows, hands them to the      *)
(* device's upload callback and then deletes them or books a failed        *)
(* attempt; the application registers devices, clears the cache and starts *)
(* and stops the worker.  Every statement that runs under db._lock is one  *)
(* action, and so is every block under _state_lock; whatever a thread read *)
(* in an earlier block is kept in that thread's own variables, so it can   *)
(* be stale when it is used.                                               *)
(*                                                                         *)
(* Time is counted in ticks.  A row carries its age and what is left of    *)
(* its backoff instead of absolute timestamps; with a monotone clock the   *)
(* order "timestamp, id" is the order of the ids.                          *)
(***************************************************************************)
EXTENDS Integers, FiniteSets, Functions

CONSTANTS
  Devices,        \* device ids
  Configs,        \* the CacheConfig values a device may be registered with
  NoConfig,       \* "device not registered"
  Callers,        \* threads that call cache_data()
  NoCall,         \* the caller is outside cache_data()
  MaxWorkers,     \* bound: upload threads ever started
  MaxRows,        \* bound: rows ever inserted
  MaxFaults,      \* bound: database errors and process crashes
  BatchLimit,     \* rows handed to the callback at once (100 in the code)
  AgeCap          \* ages saturate here, beyond every max_hours

CacheConfig == [max_records: Nat, max_hours: Nat, overwrite_oldest: BOOLEAN,
                max_retries: Nat, retry_backoff: Nat, max_backoff: Nat]

ASSUME ConfigAssumption ==
  /\ Configs \subseteq CacheConfig
  /\ NoConfig \notin Configs
  /\ AgeCap \in Nat
  /\ \A c \in Configs : c.max_hours < AgeCap

ASSUME BoundAssumption ==
  /\ MaxWorkers \in Nat /\ MaxRows \in Nat /\ MaxFaults \in Nat
  /\ BatchLimit \in Nat \ {0}
  /\ NoCall \notin [dev: Devices, config: Configs]

Workers == 1 .. MaxWorkers
WorkerPC == {"none", "wait", "purge", "select", "device", "callback", "settle", "done"}

VARIABLES
  rows,       \* the table: row id -> row
  lastId,     \* sqlite_sequence of the AUTOINCREMENT key
  configs,    \* _configs (and _upload_callbacks, set and removed with it)
  call,       \* per caller: the cache_data() call under way
  running,    \* _running
  stopEvent,  \* _stop_event
  thread,     \* the worker in _upload_thread, 0 for None
  joining,    \* the worker a stop_upload_worker() is joining, 0 for none
  outlived,   \* history: workers of this process that outlived their join
  spawned,    \* number of workers started so far
  pc,         \* per worker: where it stands in _upload_loop
  plan,       \* per worker: its copy of _configs
  todo,       \* per worker: devices left in this cycle
  config,     \* per worker: the config read for the current batch
  batch,      \* per worker: the records read for the current batch
  success,    \* per worker: what the callback returned
  faults,     \* database errors and crashes so far
  accepted,   \* history: number of messages cache_data() has accepted
  delivered,  \* history: messages of batches whose callback returned True
  dropped     \* history: messages expired, overwritten or cleared

threadVars == <<pc, plan, todo, config, batch, success, faults>>
controlVars == <<running, stopEvent, thread, joining, outlived, spawned>>
historyVars == <<accepted, delivered, dropped>>
vars == <<rows, lastId, configs, call, controlVars, threadVars, historyVars>>

Messages == 1 .. MaxRows
Row == [dev: Devices, msg: Messages, age: 0 .. AgeCap, retry_count: Nat,
        wait: Nat, dead_letter: BOOLEAN]
Record == [msg: Messages, retry_count: Nat]
Call == [dev: Devices, config: Configs]

NoBatch == [i \in {} |-> NoConfig]
NoPlan == [d \in Devices |-> NoConfig]

RowsOK == /\ DOMAIN rows \subseteq 1 .. MaxRows
          /\ rows \in [DOMAIN rows -> Row]

ControlOK ==
  /\ lastId \in 0 .. MaxRows
  /\ configs \in [Devices -> Configs \cup {NoConfig}]
  /\ call \in [Callers -> Call \cup {NoCall}]
  /\ running \in BOOLEAN /\ stopEvent \in BOOLEAN
  /\ thread \in 0 .. MaxWorkers /\ joining \in 0 .. MaxWorkers
  /\ outlived \subseteq Workers /\ spawned \in 0 .. MaxWorkers

ThreadOK ==
  /\ pc \in [Workers -> WorkerPC]
  /\ plan \in [Workers -> [Devices -> Configs \cup {NoConfig}]]
  /\ todo \in [Workers -> SUBSET Devices]
  /\ config \in [Workers -> Configs \cup {NoConfig}]
  /\ \A w \in Workers : pc[w] \in {"callback", "settle"} => config[w] \in Configs
  /\ success \in [Workers -> BOOLEAN]
  /\ faults \in 0 .. MaxFaults

IsBatch(b) == /\ DOMAIN b \subseteq 1 .. MaxRows
              /\ b \in [DOMAIN b -> Record]

BatchOK == /\ batch = [w \in Workers |-> batch[w]]
           /\ \A w \in Workers : IsBatch(batch[w])

HistoryOK ==
  /\ accepted \in 0 .. MaxRows
  /\ delivered \subseteq Messages /\ dropped \subseteq Messages

TypeOK == RowsOK /\ ControlOK /\ ThreadOK /\ BatchOK /\ HistoryOK

Init ==
  /\ rows = [i \in {} |-> NoConfig]
  /\ lastId = 0
  /\ configs = [d \in Devices |-> NoConfig]
  /\ call = [c \in Callers |-> NoCall]
  /\ running = FALSE /\ stopEvent = FALSE
  /\ thread = 0 /\ joining = 0 /\ outlived = {} /\ spawned = 0
  /\ pc = [w \in Workers |-> "none"]
  /\ plan = [w \in Workers |-> NoPlan]
  /\ todo = [w \in Workers |-> {}]
  /\ config = [w \in Workers |-> NoConfig]
  /\ batch = [w \in Workers |-> NoBatch]
  /\ success = [w \in Workers |-> FALSE]
  /\ faults = 0
  /\ accepted = 0 /\ delivered = {} /\ dropped = {}

-----------------------------------------------------------------------------
(* The table.                                                              *)

RowsOf(d) == {i \in DOMAIN rows : rows[i].dev = d}
MessagesOf(ids) == {rows[i].msg : i \in ids}

\* The rows _delete_expired removes: max_hours <= 0 keeps them for ever.
Expired(d, cfg) ==
  {i \in RowsOf(d) : cfg.max_hours > 0 /\ rows[i].age > cfg.max_hours}

\* S holds the n oldest rows of T (all of T when there are fewer): the rows
\* that ORDER BY timestamp ASC, id ASC LIMIT n returns.
IsOldest(S, T, n) ==
  /\ S \subseteq T
  /\ Cardinality(S) = (IF n < Cardinality(T) THEN n ELSE Cardinality(T))
  /\ \A i \in S, j \in T \ S : i < j

Due(i) == ~rows[i].dead_letter /\ rows[i].wait = 0

\* Mutant: a key without AUTOINCREMENT reuses the ids of deleted rows.
NextRowIdReused ==
  CHOOSE n \in 1 .. MaxRows :
    /\ \A i \in DOMAIN rows : i < n
    /\ n = 1 \/ n - 1 \in DOMAIN rows

NextRowId == lastId + 1

\* 2 ** min(retry_count - 1, 12)
Doubling == <<1, 2, 4, 8, 16, 32, 64, 128, 256, 512, 1024, 2048, 4096>>

\* The delay _record_failure computes.  base_delay is at least 0.1 s, which is
\* one tick at least, and max_delay is at least base_delay.
Backoff(cfg, retry_count) ==
  LET base == IF cfg.retry_backoff > 1 THEN cfg.retry_backoff ELSE 1
      cap == IF cfg.max_backoff > base THEN cfg.max_backoff ELSE base
      delay == base * Doubling[IF retry_count < 13 THEN retry_count ELSE 13]
  IN IF delay < cap THEN delay ELSE cap

RetryBudget(cfg) == IF cfg.max_retries > 1 THEN cfg.max_retries ELSE 1

-----------------------------------------------------------------------------
(* Registration and the callers of cache_data().                           *)

\* register_device(): also how a changed CacheConfig reaches the cache.
RegisterDevice(d, cfg) ==
  /\ configs[d] # cfg
  /\ configs' = [configs EXCEPT ![d] = cfg]
  /\ UNCHANGED <<rows, lastId, call, controlVars, threadVars, historyVars>>

UnregisterDevice(d) ==
  /\ configs[d] # NoConfig
  /\ configs' = [configs EXCEPT ![d] = NoConfig]
  /\ UNCHANGED <<rows, lastId, call, controlVars, threadVars, historyVars>>

\* cache_data() up to the release of _state_lock.  For an unregistered device
\* it returns False there and nothing has changed.
CacheBegin(c, d) ==
  /\ call[c] = NoCall
  /\ configs[d] # NoConfig
  /\ call' = [call EXCEPT ![c] = [dev |-> d, config |-> configs[d]]]
  /\ UNCHANGED <<rows, lastId, configs, controlVars, threadVars, historyVars>>

\* The rows of the call's device that are left after _delete_expired.
KeptRows(c) == RowsOf(call[c].dev) \ Expired(call[c].dev, call[c].config)

\* Mutant: off by one in "count < max_records".
IsFullOffByOne(c) == Cardinality(KeptRows(c)) > call[c].config.max_records

IsFull(c) == Cardinality(KeptRows(c)) >= call[c].config.max_records

\* What _enforce_cache_limit deletes before the insert, when it lets it happen.
\* (Its first DELETE, of rows with uploaded = 1, never finds any: no statement
\* of the program sets that column.)
MakesRoom(c, evicted) ==
  IF IsFull(c)
  THEN /\ call[c].config.overwrite_oldest
       /\ IsOldest(evicted, KeptRows(c),
                   Cardinality(KeptRows(c)) - call[c].config.max_records + 1)
  ELSE evicted = {}

\* cache_data() under db._lock: purge, make room, insert, commit.
CacheStore(c) ==
  /\ call[c] # NoCall
  /\ accepted < MaxRows
  /\ \E evicted \in SUBSET KeptRows(c) :
       LET gone == Expired(call[c].dev, call[c].config) \cup evicted
           new == [dev |-> call[c].dev, msg |-> accepted + 1, age |-> 0,
                   retry_count |-> 0, wait |-> 0, dead_letter |-> FALSE]
           id == NextRowId
       IN /\ MakesRoom(c, evicted)
          /\ rows' = [i \in (DOMAIN rows \ gone) \cup {id} |->
                        IF i = id THEN new ELSE rows[i]]
          /\ lastId' = id
          /\ dropped' = dropped \cup MessagesOf(gone)
  /\ accepted' = accepted + 1
  /\ call' = [call EXCEPT ![c] = NoCall]
  /\ UNCHANGED <<configs, controlVars, threadVars, delivered>>

\* The same when the cache is full and full_strategy is not overwrite_oldest:
\* the purge is committed and the new data refused.
CacheReject(c) ==
  /\ call[c] # NoCall
  /\ IsFull(c)
  /\ ~call[c].config.overwrite_oldest
  /\ LET gone == Expired(call[c].dev, call[c].config)
     IN /\ rows' = Restrict(rows, DOMAIN rows \ gone)
        /\ dropped' = dropped \cup MessagesOf(gone)
  /\ call' = [call EXCEPT ![c] = NoCall]
  /\ UNCHANGED <<lastId, configs, controlVars, threadVars,
                 accepted, delivered>>

\* The database raises instead: nothing is stored, and publish() gives the message up.
CacheError(c) ==
  /\ call[c] # NoCall
  /\ faults < MaxFaults
  /\ faults' = faults + 1
  /\ call' = [call EXCEPT ![c] = NoCall]
  /\ UNCHANGED <<rows, lastId, configs, controlVars, pc, plan, todo, config, batch, success,
                 historyVars>>

\* clear_cache(): of one device, or of all of them.
ClearCache(devs) ==
  LET gone == {i \in DOMAIN rows : rows[i].dev \in devs}
  IN /\ gone # {}
     /\ rows' = Restrict(rows, DOMAIN rows \ gone)
     /\ dropped' = dropped \cup MessagesOf(gone)
     /\ UNCHANGED <<lastId, configs, call, controlVars, threadVars,
                    accepted, delivered>>

-----------------------------------------------------------------------------
(* Starting and stopping the worker.                                       *)

StartWorker ==
  /\ ~running
  /\ joining = 0
  /\ spawned < MaxWorkers
  /\ running' = TRUE
  /\ stopEvent' = FALSE
  /\ spawned' = spawned + 1
  /\ thread' = spawned + 1
  /\ pc' = [pc EXCEPT ![spawned + 1] = "wait"]
  /\ UNCHANGED <<rows, lastId, configs, call, joining, outlived, plan, todo,
                 config, batch, success, faults, historyVars>>

\* Mutant: the stop does not wait for the worker.
StopWorkerNoJoin ==
  /\ running
  /\ running' = FALSE
  /\ stopEvent' = TRUE
  /\ thread' = 0
  /\ UNCHANGED <<rows, lastId, configs, call, joining, outlived, spawned,
                 threadVars, historyVars>>

\* stop_upload_worker() under _state_lock.
StopWorker ==
  /\ joining = 0
  /\ running
  /\ running' = FALSE
  /\ stopEvent' = TRUE
  /\ joining' = thread
  /\ thread' = 0
  /\ UNCHANGED <<rows, lastId, configs, call, outlived, spawned, threadVars,
                 historyVars>>

\* thread.join(timeout) returns: the worker has ended, or the timeout is over
\* while it is still at work (in a callback that publishes, say).
JoinReturns ==
  /\ joining # 0
  /\ joining' = 0
  /\ outlived' = IF pc[joining] = "done" THEN outlived ELSE outlived \cup {joining}
  /\ UNCHANGED <<rows, lastId, configs, call, running, stopEvent, thread,
                 spawned, threadVars, historyVars>>

-----------------------------------------------------------------------------
(* The worker: _upload_loop, _process_cached_data and _record_failure.     *)

\* A worker's variables are emptied where it stops using them.
ForgetBatch(w) ==
  /\ config' = [config EXCEPT ![w] = NoConfig]
  /\ batch' = [batch EXCEPT ![w] = NoBatch]
  /\ success' = [success EXCEPT ![w] = FALSE]

Goto(w, from, to) ==
  /\ pc[w] = from
  /\ pc' = [pc EXCEPT ![w] = to]

\* The loop test after a wait, and the copy of _configs under _state_lock.
BeginCycle(w) ==
  /\ ~stopEvent
  /\ Goto(w, "wait", "purge")
  /\ plan' = [plan EXCEPT ![w] = configs]
  /\ UNCHANGED <<rows, lastId, configs, call, controlVars, todo, config, batch,
                 success, faults, historyVars>>

EndLoop(w) ==
  /\ stopEvent
  /\ Goto(w, "wait", "done")
  /\ UNCHANGED <<rows, lastId, configs, call, controlVars, plan, todo, config,
                 batch, success, faults, historyVars>>

\* The purges of all devices of the copied _configs.  Each is a transaction of
\* its own; they are one step because each concerns its own device's rows.
PurgeExpired(w) ==
  LET gone == UNION {Expired(d, plan[w][d]) :
                       d \in {e \in Devices : plan[w][e] # NoConfig}}
  IN /\ Goto(w, "purge", "select")
     /\ rows' = Restrict(rows, DOMAIN rows \ gone)
     /\ dropped' = dropped \cup MessagesOf(gone)
     /\ plan' = [plan EXCEPT ![w] = NoPlan]
     /\ UNCHANGED <<lastId, configs, call, controlVars, todo, config, batch,
                    success, faults, accepted, delivered>>

SelectDevices(w) ==
  /\ Goto(w, "select", "device")
  /\ todo' = [todo EXCEPT ![w] = {rows[i].dev : i \in {j \in DOMAIN rows : Due(j)}}]
  /\ UNCHANGED <<rows, lastId, configs, call, controlVars, plan, config, batch,
                 success, faults, historyVars>>

\* Next device of the cycle, which is registered: read its config and, without
\* db._lock, up to BatchLimit of its due rows.
ReadBatch(w, d) ==
  /\ pc[w] = "device"
  /\ d \in todo[w]
  /\ configs[d] # NoConfig
  /\ \E ids \in SUBSET {i \in RowsOf(d) : Due(i)} :
       /\ IsOldest(ids, {i \in RowsOf(d) : Due(i)}, BatchLimit)
       /\ batch' = [batch EXCEPT ![w] =
            [i \in ids |-> [msg |-> rows[i].msg, retry_count |-> rows[i].retry_count]]]
       /\ IF ids = {} THEN UNCHANGED <<pc, config>>
          ELSE /\ pc' = [pc EXCEPT ![w] = "callback"]
               /\ config' = [config EXCEPT ![w] = configs[d]]
  /\ todo' = [todo EXCEPT ![w] = @ \ {d}]
  /\ UNCHANGED <<rows, lastId, configs, call, controlVars, plan, success,
                 faults, historyVars>>

\* Next device of the cycle, which has no callback.
SkipDevice(w, d) ==
  /\ pc[w] = "device"
  /\ d \in todo[w]
  /\ configs[d] = NoConfig
  /\ todo' = [todo EXCEPT ![w] = @ \ {d}]
  /\ UNCHANGED <<rows, lastId, configs, call, controlVars, pc, plan, config,
                 batch, success, faults, historyVars>>

EndCycle(w) ==
  /\ todo[w] = {}
  /\ Goto(w, "device", "wait")
  /\ UNCHANGED <<rows, lastId, configs, call, controlVars, plan, todo, config,
                 batch, success, faults, historyVars>>

\* The upload callback, outside every lock: True, or False or an exception.
Upload(w) ==
  LET msgs == {batch[w][i].msg : i \in DOMAIN batch[w]}
  IN /\ Goto(w, "callback", "settle")
     /\ \E ok \in BOOLEAN :
          /\ success' = [success EXCEPT ![w] = ok]
          /\ delivered' = IF ok THEN delivered \cup msgs ELSE delivered
     /\ UNCHANGED <<rows, lastId, configs, call, controlVars, plan, todo, config,
                    batch, faults, accepted, dropped>>

\* Success: delete the batch by its ids.
DeleteUploaded(w) ==
  /\ success[w]
  /\ Goto(w, "settle", "device")
  /\ rows' = Restrict(rows, DOMAIN rows \ DOMAIN batch[w])
  /\ ForgetBatch(w)
  /\ UNCHANGED <<lastId, configs, call, controlVars, plan, todo, faults,
                 historyVars>>

\* What a failed attempt leaves of row i when it brings the count to n.
Failed(i, cfg, n) ==
  [rows[i] EXCEPT !.retry_count = n, !.wait = Backoff(cfg, n),
                  !.dead_letter = n >= RetryBudget(cfg)]

\* _record_failure(): the new counts come from the records read for the batch.
RecordFailure(w) ==
  /\ ~success[w]
  /\ Goto(w, "settle", "device")
  /\ rows' = [i \in DOMAIN rows |->
       IF i \in DOMAIN batch[w]
       THEN Failed(i, config[w], batch[w][i].retry_count + 1)
       ELSE rows[i]]
  /\ ForgetBatch(w)
  /\ UNCHANGED <<lastId, configs, call, controlVars, plan, todo, faults,
                 historyVars>>

\* The process dies and starts again: what was committed is still there, the
\* threads and everything they held are gone, nothing is registered or running.
Crash ==
  /\ faults < MaxFaults
  /\ faults' = faults + 1
  /\ configs' = NoPlan
  /\ call' = [c \in Callers |-> NoCall]
  /\ running' = FALSE /\ stopEvent' = FALSE
  /\ thread' = 0 /\ joining' = 0 /\ outlived' = {}
  /\ pc' = [w \in Workers |-> IF pc[w] = "none" THEN "none" ELSE "done"]
  /\ plan' = [w \in Workers |-> NoPlan]
  /\ todo' = [w \in Workers |-> {}]
  /\ config' = [w \in Workers |-> NoConfig]
  /\ batch' = [w \in Workers |-> NoBatch]
  /\ success' = [w \in Workers |-> FALSE]
  /\ UNCHANGED <<rows, lastId, spawned, historyVars>>

\* Mutant: it ends the thread.
DbErrorEndsLoop(w) ==
  /\ pc[w] \in {"purge", "select", "device", "settle"}
  /\ faults < MaxFaults
  /\ faults' = faults + 1
  /\ pc' = [pc EXCEPT ![w] = "done"]
  /\ plan' = [plan EXCEPT ![w] = NoPlan]
  /\ todo' = [todo EXCEPT ![w] = {}]
  /\ ForgetBatch(w)
  /\ UNCHANGED <<rows, lastId, configs, call, controlVars, historyVars>>

\* A database error in any of the worker's statements: _upload_loop logs it and
\* waits for the next cycle.
DbError(w) ==
  /\ pc[w] \in {"purge", "select", "device", "settle"}
  /\ faults < MaxFaults
  /\ faults' = faults + 1
  /\ pc' = [pc EXCEPT ![w] = "wait"]
  /\ plan' = [plan EXCEPT ![w] = NoPlan]
  /\ todo' = [todo EXCEPT ![w] = {}]
  /\ ForgetBatch(w)
  /\ UNCHANGED <<rows, lastId, configs, call, controlVars, historyVars>>

WorkerStep(w) ==
  \/ BeginCycle(w) \/ EndLoop(w) \/ PurgeExpired(w) \/ SelectDevices(w)
  \/ \E d \in Devices : ReadBatch(w, d) \/ SkipDevice(w, d)
  \/ EndCycle(w) \/ Upload(w) \/ DeleteUploaded(w) \/ RecordFailure(w)

-----------------------------------------------------------------------------
\* Time passes: rows grow older and their backoff runs down.
Tick ==
  /\ rows' = [i \in DOMAIN rows |->
       [rows[i] EXCEPT !.age = IF @ < AgeCap THEN @ + 1 ELSE @,
                       !.wait = IF @ > 0 THEN @ - 1 ELSE 0]]
  /\ UNCHANGED <<lastId, configs, call, controlVars, threadVars, historyVars>>

Next ==
  \/ \E d \in Devices : UnregisterDevice(d) \/ ClearCache({d})
  \/ \E d \in Devices, cfg \in Configs : RegisterDevice(d, cfg)
  \/ ClearCache(Devices)
  \/ \E c \in Callers, d \in Devices : CacheBegin(c, d)
  \/ \E c \in Callers : CacheStore(c) \/ CacheReject(c) \/ CacheError(c)
  \/ StartWorker \/ StopWorker \/ JoinReturns
  \/ \E w \in Workers : WorkerStep(w) \/ DbError(w)
  \/ Crash
  \/ Tick

Spec == Init /\ [][Next]_vars

\* Threads that can run do run, and time passes.  Nothing obliges the
\* application to register, cache, clear, start or stop.
Fairness ==
  /\ \A w \in Workers : WF_vars(WorkerStep(w))
  /\ WF_vars(Tick)

FairSpec == Spec /\ Fairness

-----------------------------------------------------------------------------
(* Properties.                                                             *)

\* Whatever interleaving of callers, registrations, clears and uploads, a
\* device never holds more rows than the largest cache it was ever given (one
\* row when that is zero): _enforce_cache_limit counts, evicts and admits in
\* one transaction, with a config that may be stale by then.
CapacityBound ==
  \A d \in Devices : RowsOf(d) # {} =>
    \E cfg \in Configs :
      Cardinality(RowsOf(d)) <= (IF cfg.max_records > 1 THEN cfg.max_records ELSE 1)

\* Every message cache_data() has accepted is still in the table, or its upload
\* callback returned True, or it expired, was overwritten or was cleared.  The
\* worker deletes by ids it read earlier, so this needs ids that are not reused.
NoSilentLoss ==
  \A m \in 1 .. accepted :
    m \in MessagesOf(DOMAIN rows) \cup delivered \cup dropped

Active(w) == pc[w] \notin {"none", "done"}

\* One upload worker at a time, across stops and restarts: two are at work only
\* after one of them outlived the join of its stop, which forgets it and lets
\* the next start clear the stop event for both.
OneActiveWorker ==
  \A v, w \in Workers : Active(v) /\ Active(w) /\ v # w => outlived \cap {v, w} # {}

\* A dead letter stays one for as long as its row exists: what a worker writes
\* from an older reading of the row revives it only if some worker has outlived
\* its join in this process.
DeadLetterIsFinal ==
  [][\A i \in DOMAIN rows \cap DOMAIN rows' :
       rows[i].dead_letter => rows'[i].dead_letter \/ outlived # {}]_vars

\* No endless retrying: while the worker runs and the row's device stays
\* registered, a row is uploaded, becomes a dead letter or is removed.
Pending(i) == i \in DOMAIN rows /\ ~rows[i].dead_letter
Served(i) == running /\ (i \in DOMAIN rows => configs[rows[i].dev] # NoConfig)
NoEndlessRetry == \A i \in 1 .. MaxRows : <>[]Served(i) => []<>~Pending(i)

=============================================================================
