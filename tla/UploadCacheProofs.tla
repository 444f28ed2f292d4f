------------------------- MODULE UploadCacheProofs -------------------------
(***************************************************************************)
(* Theorems about the offline retry queue, for every set of devices,       *)
(* configurations and callers and every bound.                             *)
(***************************************************************************)
EXTENDS UploadCache, FiniteSetTheorems, TLAPS

USE DEF Workers, Messages, Row, Record, Call, CacheConfig, NoPlan, NoBatch

\* Backoff is a number of ticks, whatever the config and the attempt.
LEMMA BackoffType ==
  ASSUME NEW cfg \in CacheConfig, NEW n \in Nat \ {0}
  PROVE  Backoff(cfg, n) \in Nat
<1> DEFINE base == IF cfg.retry_backoff > 1 THEN cfg.retry_backoff ELSE 1
           k == IF n < 13 THEN n ELSE 13
<1>1. base \in Nat /\ k \in 1 .. 13  OBVIOUS
<1>2. Doubling[k] \in Nat  BY <1>1 DEF Doubling
<1> HIDE DEF base, k
<1>3. base * Doubling[k] \in Nat  BY <1>1, <1>2
<1> QED  BY <1>1, <1>3 DEF Backoff, base, k

\* Ids and messages are handed out together and never twice: a row, or a
\* record a worker has read, with id i holds message i.
IdInv ==
  /\ lastId = accepted
  /\ \A i \in DOMAIN rows : i <= lastId /\ rows[i].msg = i
  /\ \A w \in Workers : \A i \in DOMAIN batch[w] :
       i <= lastId /\ batch[w][i].msg = i

LEMMA InitType == Init => TypeOK /\ IdInv
<1> SUFFICES ASSUME Init PROVE TypeOK /\ IdInv  OBVIOUS
<1> USE ConfigAssumption, BoundAssumption DEF Init
<1>1. RowsOK  BY DEF RowsOK
<1>2. ControlOK
  <2>1. running \in BOOLEAN /\ stopEvent \in BOOLEAN  BY Zenon
  <2> QED  BY <2>1 DEF ControlOK
<1>3. ThreadOK  BY DEF ThreadOK, WorkerPC
<1>4. BatchOK
  <2>1. batch = [w \in Workers |-> batch[w]]  OBVIOUS
  <2>2. \A w \in Workers : IsBatch(batch[w])  BY DEF IsBatch
  <2> QED  BY <2>1, <2>2 DEF BatchOK
<1>5. HistoryOK  BY DEF HistoryOK
<1>6. IdInv  BY DEF IdInv
<1> QED  BY <1>1, <1>2, <1>3, <1>4, <1>5, <1>6 DEF TypeOK

\* The parts of the type invariant, each under the steps that touch it.
LEMMA ControlStep == TypeOK /\ IdInv /\ [Next]_vars => ControlOK'
<1> SUFFICES ASSUME TypeOK, IdInv, [Next]_vars PROVE ControlOK'  OBVIOUS
<1> USE ConfigAssumption, BoundAssumption DEF TypeOK, ControlOK, controlVars
<1>1. CASE \E d \in Devices : UnregisterDevice(d)  BY <1>1 DEF UnregisterDevice
<1>2. CASE \E d \in Devices, cfg \in Configs : RegisterDevice(d, cfg)
  BY <1>2 DEF RegisterDevice
<1>3. CASE \E devs \in SUBSET Devices : ClearCache(devs)  BY <1>3 DEF ClearCache
<1>4. CASE \E c \in Callers, d \in Devices : CacheBegin(c, d)  BY <1>4 DEF CacheBegin
<1>5. CASE \E c \in Callers : CacheStore(c)
  BY <1>5 DEF CacheStore, HistoryOK, IdInv, NextRowId
<1>6. CASE \E c \in Callers : CacheReject(c) \/ CacheError(c)
  BY <1>6 DEF CacheReject, CacheError
<1>7. CASE StartWorker \/ StopWorker \/ JoinReturns
  <2>1. running' \in BOOLEAN /\ stopEvent' \in BOOLEAN
    BY <1>7, Zenon DEF StartWorker, StopWorker, JoinReturns
  <2>2. /\ thread' \in 0 .. MaxWorkers /\ joining' \in 0 .. MaxWorkers
        /\ spawned' \in 0 .. MaxWorkers
    BY <1>7 DEF StartWorker, StopWorker, JoinReturns
  <2>4. outlived' \subseteq Workers
    <3>1. CASE StartWorker \/ StopWorker  BY <3>1 DEF StartWorker, StopWorker
    <3>2. CASE JoinReturns
      <4>1. joining \in Workers  BY <3>2 DEF JoinReturns
      <4> QED  BY <3>2, <4>1 DEF JoinReturns
    <3> QED  BY <1>7, <3>1, <3>2
  <2>3. UNCHANGED <<lastId, configs, call>>
    BY <1>7 DEF StartWorker, StopWorker, JoinReturns
  <2> QED  BY <2>1, <2>2, <2>3, <2>4
<1>8. CASE \E w \in Workers : WorkerStep(w) \/ DbError(w)
  BY <1>8 DEF WorkerStep, BeginCycle, EndLoop, PurgeExpired, SelectDevices, ReadBatch,
       SkipDevice, EndCycle, Upload, DeleteUploaded, RecordFailure, DbError
<1>9. CASE Crash
  <2>1. running' \in BOOLEAN /\ stopEvent' \in BOOLEAN  BY <1>9, Zenon DEF Crash
  <2>2. thread' = 0 /\ joining' = 0 /\ outlived' = {}  BY <1>9 DEF Crash
  <2>3. UNCHANGED <<lastId, spawned>>  BY <1>9 DEF Crash
  <2>4. configs' = NoPlan /\ call' = [c \in Callers |-> NoCall]  BY <1>9 DEF Crash
  <2> QED  BY <2>1, <2>2, <2>3, <2>4
<1>10. CASE Tick \/ UNCHANGED vars  BY <1>10 DEF Tick, vars
<1> QED
  BY <1>1, <1>2, <1>3, <1>4, <1>5, <1>6, <1>7, <1>8, <1>9, <1>10 DEF Next

LEMMA ThreadStep == TypeOK /\ [Next]_vars => ThreadOK'
<1> SUFFICES ASSUME TypeOK, [Next]_vars PROVE ThreadOK'  OBVIOUS
<1> USE ConfigAssumption, BoundAssumption DEF TypeOK, ThreadOK, WorkerPC, threadVars
<1>1. CASE \/ \E d \in Devices : UnregisterDevice(d) \/ (\E cfg \in Configs : RegisterDevice(d, cfg))
           \/ \E devs \in SUBSET Devices : ClearCache(devs)
           \/ \E c \in Callers : (\E d \in Devices : CacheBegin(c, d)) \/ CacheStore(c) \/ CacheReject(c)
           \/ StopWorker \/ JoinReturns \/ Tick \/ UNCHANGED vars
  BY <1>1 DEF UnregisterDevice, RegisterDevice, ClearCache, CacheBegin, CacheStore,
       CacheReject, StopWorker, JoinReturns, Tick, vars
<1>2. CASE StartWorker  BY <1>2 DEF StartWorker
<1>5. CASE \E c \in Callers : CacheError(c)
  BY <1>5 DEF CacheError
<1>3. ASSUME NEW w \in Workers, WorkerStep(w) \/ DbError(w) PROVE ThreadOK'
  <2> USE DEF ControlOK
  <2>1. CASE BeginCycle(w)  BY <2>1 DEF BeginCycle, Goto
  <2>2. CASE EndLoop(w)  BY <2>2 DEF EndLoop, Goto
  <2>3. CASE PurgeExpired(w)  BY <2>3 DEF PurgeExpired, Goto
  <2>4. CASE SelectDevices(w)  BY <2>4 DEF SelectDevices, Goto, RowsOK
  <2>5. ASSUME NEW d \in Devices, ReadBatch(w, d) PROVE ThreadOK'
    <3>1. configs[d] \in Configs  BY <2>5 DEF ReadBatch
    <3>2. todo' \in [Workers -> SUBSET Devices]  BY <2>5 DEF ReadBatch
    <3>3. PICK ids \in SUBSET {i \in RowsOf(d) : Due(i)} :
            IF ids = {} THEN UNCHANGED <<pc, config>>
            ELSE /\ pc' = [pc EXCEPT ![w] = "callback"]
                 /\ config' = [config EXCEPT ![w] = configs[d]]
      BY <2>5 DEF ReadBatch
    <3>4. pc' \in [Workers -> WorkerPC] /\ config' \in [Workers -> Configs \cup {NoConfig}]
      BY <3>1, <3>3
    <3>5. \A v \in Workers : pc'[v] \in {"callback", "settle"} => config'[v] \in Configs
      BY <3>1, <3>3
    <3>6. UNCHANGED <<plan, success, faults>>  BY <2>5 DEF ReadBatch
    <3> QED  BY <3>2, <3>4, <3>5, <3>6
  <2>6. ASSUME NEW d \in Devices, SkipDevice(w, d) PROVE ThreadOK'
    BY <2>6 DEF SkipDevice
  <2>7. CASE EndCycle(w)  BY <2>7 DEF EndCycle, Goto
  <2>8. CASE Upload(w)  BY <2>8 DEF Upload, Goto
  <2>9. CASE DeleteUploaded(w)  BY <2>9 DEF DeleteUploaded, Goto, ForgetBatch
  <2>10. CASE RecordFailure(w)  BY <2>10 DEF RecordFailure, Goto, ForgetBatch
  <2>11. CASE DbError(w)  BY <2>11 DEF DbError, ForgetBatch
  <2> QED
    BY <1>3, <2>1, <2>2, <2>3, <2>4, <2>5, <2>6, <2>7, <2>8, <2>9, <2>10, <2>11
    DEF WorkerStep
<1>4. CASE Crash  BY <1>4 DEF Crash
<1> QED  BY <1>1, <1>2, <1>3, <1>4, <1>5 DEF Next

LEMMA BatchStep == TypeOK /\ [Next]_vars => BatchOK'
<1> SUFFICES ASSUME TypeOK, [Next]_vars PROVE BatchOK'  OBVIOUS
<1> USE DEF TypeOK, BatchOK
<1>1. CASE UNCHANGED batch  BY <1>1 DEF IsBatch
<1>2. ASSUME NEW w \in Workers, NEW b, IsBatch(b), batch' = [batch EXCEPT ![w] = b]
      PROVE  BatchOK'
  BY <1>2 DEF IsBatch
<1>3. IsBatch(NoBatch)  BY DEF IsBatch
<1>4. ASSUME NEW w \in Workers, NEW d \in Devices, ReadBatch(w, d) PROVE BatchOK'
  <2>1. PICK ids \in SUBSET {i \in RowsOf(d) : Due(i)} :
          batch' = [batch EXCEPT ![w] =
            [i \in ids |-> [msg |-> rows[i].msg, retry_count |-> rows[i].retry_count]]]
    BY <1>4 DEF ReadBatch
  <2>2. IsBatch([i \in ids |-> [msg |-> rows[i].msg, retry_count |-> rows[i].retry_count]])
    BY DEF IsBatch, RowsOf, RowsOK
  <2> QED  BY <1>2, <2>1, <2>2
<1>5. ASSUME NEW w \in Workers, DeleteUploaded(w) \/ RecordFailure(w) \/ DbError(w)
      PROVE  BatchOK'
  BY <1>2, <1>3, <1>5 DEF DeleteUploaded, RecordFailure, DbError, ForgetBatch
<1>6. CASE Crash  BY <1>3, <1>6 DEF Crash, IsBatch
<1>7. ASSUME NEW w \in Workers,
             \/ BeginCycle(w) \/ EndLoop(w) \/ PurgeExpired(w) \/ SelectDevices(w)
             \/ (\E d \in Devices : SkipDevice(w, d)) \/ EndCycle(w) \/ Upload(w)
      PROVE  BatchOK'
  BY <1>1, <1>7 DEF BeginCycle, EndLoop, PurgeExpired, SelectDevices, SkipDevice,
       EndCycle, Upload
<1>8. CASE \/ \E d \in Devices : UnregisterDevice(d) \/ (\E cfg \in Configs : RegisterDevice(d, cfg))
           \/ \E devs \in SUBSET Devices : ClearCache(devs)
           \/ \E c \in Callers : (\E d \in Devices : CacheBegin(c, d)) \/ CacheStore(c) \/ CacheReject(c) \/ CacheError(c)
           \/ StartWorker \/ StopWorker \/ JoinReturns \/ Tick \/ UNCHANGED vars
  BY <1>1, <1>8 DEF UnregisterDevice, RegisterDevice, ClearCache, CacheBegin, CacheError, CacheStore,
       CacheReject, StartWorker, StopWorker, JoinReturns, Tick, vars, threadVars
<1> QED
  BY <1>4, <1>5, <1>6, <1>7, <1>8 DEF Next, WorkerStep

\* Removing rows keeps the table well-typed.
LEMMA RestrictRows ==
  ASSUME RowsOK, NEW S, rows' = Restrict(rows, DOMAIN rows \ S) PROVE RowsOK'
BY DEF RowsOK, Restrict

LEMMA RowsStep == TypeOK /\ IdInv /\ [Next]_vars => RowsOK'
<1> SUFFICES ASSUME TypeOK, IdInv, [Next]_vars PROVE RowsOK'  OBVIOUS
<1> USE ConfigAssumption, BoundAssumption DEF TypeOK
<1>1. CASE UNCHANGED rows  BY <1>1 DEF RowsOK
<1>2. CASE \E devs \in SUBSET Devices : ClearCache(devs)
  BY <1>2, RestrictRows DEF ClearCache
<1>3. ASSUME NEW c \in Callers, CacheStore(c) PROVE RowsOK'
  <2>1. accepted < MaxRows /\ call[c] \in Call
    BY <1>3 DEF CacheStore, ControlOK
  <2>2. lastId + 1 \in 1 .. MaxRows /\ accepted + 1 \in Messages
    BY <2>1 DEF IdInv, ControlOK
  <2> DEFINE new == [dev |-> call[c].dev, msg |-> accepted + 1, age |-> 0,
                     retry_count |-> 0, wait |-> 0, dead_letter |-> FALSE]
  <2>3. new \in Row  BY <2>1, <2>2
  <2>4. PICK gone : rows' = [i \in (DOMAIN rows \ gone) \cup {lastId + 1} |->
                               IF i = lastId + 1 THEN new ELSE rows[i]]
    BY <1>3 DEF CacheStore, NextRowId
  <2> HIDE DEF new
  <2> QED  BY <2>2, <2>3, <2>4 DEF RowsOK
<1>4. CASE \E c \in Callers : CacheReject(c)
  BY <1>4, RestrictRows DEF CacheReject
<1>5. CASE \E w \in Workers : PurgeExpired(w)
  BY <1>5, RestrictRows DEF PurgeExpired
<1>6. CASE \E w \in Workers : DeleteUploaded(w)
  BY <1>6, RestrictRows DEF DeleteUploaded
<1>7. ASSUME NEW w \in Workers, RecordFailure(w) PROVE RowsOK'
  <2>1. config[w] \in CacheConfig  BY <1>7 DEF RecordFailure, Goto, ThreadOK
  <2>2. ASSUME NEW i \in DOMAIN rows, i \in DOMAIN batch[w]
        PROVE  Failed(i, config[w], batch[w][i].retry_count + 1) \in Row
    <3>1. batch[w][i].retry_count + 1 \in Nat \ {0}
      BY <2>2 DEF BatchOK, IsBatch
    <3>2. Backoff(config[w], batch[w][i].retry_count + 1) \in Nat
      BY <2>1, <3>1, BackoffType
    <3>3. (batch[w][i].retry_count + 1 >= RetryBudget(config[w])) \in BOOLEAN
      OBVIOUS
    <3> QED  BY <3>1, <3>2, <3>3 DEF Failed, RowsOK
  <2>3. rows' = [i \in DOMAIN rows |->
                   IF i \in DOMAIN batch[w]
                   THEN Failed(i, config[w], batch[w][i].retry_count + 1) ELSE rows[i]]
    BY <1>7 DEF RecordFailure
  <2> QED  BY <2>2, <2>3 DEF RowsOK
<1>8. CASE Tick
  <2> DEFINE aged(i) == [rows[i] EXCEPT !.age = IF @ < AgeCap THEN @ + 1 ELSE @,
                                        !.wait = IF @ > 0 THEN @ - 1 ELSE 0]
  <2>1. ASSUME NEW i \in DOMAIN rows PROVE aged(i) \in Row
    <3>1. rows[i] \in Row  BY DEF RowsOK
    <3>2. (IF rows[i].age < AgeCap THEN rows[i].age + 1 ELSE rows[i].age) \in 0 .. AgeCap
      BY <3>1
    <3>3. (IF rows[i].wait > 0 THEN rows[i].wait - 1 ELSE 0) \in Nat  BY <3>1
    <3> QED  BY <3>1, <3>2, <3>3
  <2>2. rows' = [i \in DOMAIN rows |-> aged(i)]  BY <1>8 DEF Tick
  <2> HIDE DEF aged
  <2> QED  BY <2>1, <2>2 DEF RowsOK
<1>9. CASE \E w \in Workers :
             \/ BeginCycle(w) \/ EndLoop(w) \/ SelectDevices(w)
             \/ (\E d \in Devices : ReadBatch(w, d) \/ SkipDevice(w, d))
             \/ EndCycle(w) \/ Upload(w) \/ DbError(w)
  BY <1>1, <1>9 DEF BeginCycle, EndLoop, SelectDevices, ReadBatch, SkipDevice,
       EndCycle, Upload, DbError
<1>10. CASE \/ \E d \in Devices : UnregisterDevice(d) \/ (\E cfg \in Configs : RegisterDevice(d, cfg))
            \/ \E c \in Callers, d \in Devices : CacheBegin(c, d)
            \/ \E c \in Callers : CacheError(c)
            \/ StartWorker \/ StopWorker \/ JoinReturns \/ Crash \/ UNCHANGED vars
  BY <1>1, <1>10 DEF UnregisterDevice, RegisterDevice, CacheBegin, CacheError, StartWorker,
       StopWorker, JoinReturns, Crash, vars
<1> QED
  BY <1>2, <1>3, <1>4, <1>5, <1>6, <1>7, <1>8, <1>9, <1>10 DEF Next, WorkerStep

LEMMA HistoryStep == TypeOK /\ [Next]_vars => HistoryOK'
<1> SUFFICES ASSUME TypeOK, [Next]_vars PROVE HistoryOK'  OBVIOUS
<1> USE BoundAssumption DEF TypeOK, HistoryOK, historyVars
<1>1. \A S \in SUBSET DOMAIN rows : MessagesOf(S) \subseteq Messages
  BY DEF RowsOK, MessagesOf
<1>2. CASE \E devs \in SUBSET Devices : ClearCache(devs)
  BY <1>1, <1>2 DEF ClearCache
<1>3. ASSUME NEW c \in Callers, CacheStore(c) PROVE HistoryOK'
  <2>1. PICK gone : /\ gone \subseteq DOMAIN rows
                    /\ dropped' = dropped \cup MessagesOf(gone)
    <3>1. \A evicted \in SUBSET KeptRows(c) :
            Expired(call[c].dev, call[c].config) \cup evicted \subseteq DOMAIN rows
      BY DEF KeptRows, Expired, RowsOf
    <3> QED  BY <1>3, <3>1 DEF CacheStore
  <2>2. accepted' \in 0 .. MaxRows /\ UNCHANGED delivered
    BY <1>3 DEF CacheStore
  <2> QED  BY <1>1, <2>1, <2>2
<1>4. CASE \E c \in Callers : CacheReject(c)
  BY <1>1, <1>4 DEF CacheReject, Expired, RowsOf
<1>5. ASSUME NEW w \in Workers, PurgeExpired(w) PROVE HistoryOK'
  <2>1. UNION {Expired(d, plan[w][d]) : d \in {e \in Devices : plan[w][e] # NoConfig}}
          \subseteq DOMAIN rows
    BY DEF Expired, RowsOf
  <2> QED  BY <1>1, <1>5, <2>1 DEF PurgeExpired
<1>6. ASSUME NEW w \in Workers, Upload(w) PROVE HistoryOK'
  <2>1. {batch[w][i].msg : i \in DOMAIN batch[w]} \subseteq Messages
    BY DEF BatchOK, IsBatch
  <2> QED  BY <1>6, <2>1 DEF Upload
<1>7. CASE \E w \in Workers :
             \/ BeginCycle(w) \/ EndLoop(w) \/ SelectDevices(w)
             \/ (\E d \in Devices : ReadBatch(w, d) \/ SkipDevice(w, d))
             \/ EndCycle(w) \/ DeleteUploaded(w) \/ RecordFailure(w) \/ DbError(w)
  BY <1>7 DEF BeginCycle, EndLoop, SelectDevices, ReadBatch, SkipDevice, EndCycle,
       DeleteUploaded, RecordFailure, DbError
<1>8. CASE \/ \E d \in Devices : UnregisterDevice(d) \/ (\E cfg \in Configs : RegisterDevice(d, cfg))
           \/ \E c \in Callers, d \in Devices : CacheBegin(c, d)
           \/ \E c \in Callers : CacheError(c)
           \/ StartWorker \/ StopWorker \/ JoinReturns \/ Crash \/ Tick \/ UNCHANGED vars
  BY <1>8 DEF UnregisterDevice, RegisterDevice, CacheBegin, CacheError, StartWorker, StopWorker,
       JoinReturns, Crash, Tick, vars
<1> QED
  BY <1>2, <1>3, <1>4, <1>5, <1>6, <1>7, <1>8 DEF Next, WorkerStep

\* Ids stay fresh: a stale record a worker holds never names another message.
LEMMA IdStep == TypeOK /\ IdInv /\ [Next]_vars => IdInv'
<1> SUFFICES ASSUME TypeOK, IdInv, [Next]_vars PROVE IdInv'  OBVIOUS
<1> USE DEF IdInv
<1>1. ASSUME NEW S, rows' = Restrict(rows, DOMAIN rows \ S),
             UNCHANGED <<lastId, accepted>>,
             \A w \in Workers : batch'[w] = batch[w] \/ batch'[w] = NoBatch
      PROVE  IdInv'
  BY <1>1 DEF Restrict
<1>2. ASSUME UNCHANGED <<lastId, accepted>>,
             DOMAIN rows' = DOMAIN rows,
             \A i \in DOMAIN rows : rows'[i].msg = rows[i].msg,
             \A w \in Workers : batch'[w] = batch[w] \/ batch'[w] = NoBatch
      PROVE  IdInv'
  BY <1>2
<1>3. CASE \E devs \in SUBSET Devices : ClearCache(devs)
  BY <1>1, <1>3 DEF ClearCache, threadVars
<1>4. ASSUME NEW c \in Callers, CacheStore(c) PROVE IdInv'
  <2>1. UNCHANGED batch  BY <1>4 DEF CacheStore, threadVars
  <2>2. lastId' = lastId + 1 /\ accepted' = accepted + 1
    BY <1>4 DEF CacheStore, NextRowId
  <2> DEFINE new == [dev |-> call[c].dev, msg |-> accepted + 1, age |-> 0,
                     retry_count |-> 0, wait |-> 0, dead_letter |-> FALSE]
  <2>3. new.msg = accepted + 1  OBVIOUS
  <2>6. PICK gone :
          rows' = [i \in (DOMAIN rows \ gone) \cup {lastId + 1} |->
                     IF i = lastId + 1 THEN new ELSE rows[i]]
    BY <1>4 DEF CacheStore, NextRowId
  <2> HIDE DEF new
  <2>4. \A i \in DOMAIN rows' : i <= lastId' /\ rows'[i].msg = i
    BY <2>2, <2>3, <2>6 DEF RowsOK, TypeOK, ControlOK
  <2>5. \A w \in Workers : \A i \in DOMAIN batch[w] : i <= lastId'
    BY <2>2 DEF TypeOK, ControlOK, BatchOK, IsBatch
  <2> QED  BY <2>1, <2>2, <2>4, <2>5
<1>5. CASE \E c \in Callers : CacheReject(c)
  BY <1>1, <1>5 DEF CacheReject, threadVars
<1>6. CASE \E w \in Workers : PurgeExpired(w)
  BY <1>1, <1>6 DEF PurgeExpired
<1>7. ASSUME NEW w \in Workers, NEW d \in Devices, ReadBatch(w, d) PROVE IdInv'
  <2>1. PICK ids \in SUBSET {i \in RowsOf(d) : Due(i)} :
          batch' = [batch EXCEPT ![w] =
            [i \in ids |-> [msg |-> rows[i].msg, retry_count |-> rows[i].retry_count]]]
    BY <1>7 DEF ReadBatch
  <2>2. ids \subseteq DOMAIN rows  BY DEF RowsOf
  <2>3. UNCHANGED <<rows, lastId, accepted>>  BY <1>7 DEF ReadBatch, historyVars
  <2>4. \A v \in Workers : v # w => batch'[v] = batch[v]
    BY <2>1 DEF TypeOK, BatchOK
  <2>5. batch'[w] = [i \in ids |-> [msg |-> rows[i].msg, retry_count |-> rows[i].retry_count]]
    BY <2>1 DEF TypeOK, BatchOK
  <2> QED  BY <2>2, <2>3, <2>4, <2>5
<1>8. ASSUME NEW w \in Workers, DeleteUploaded(w) PROVE IdInv'
  <2>1. \A v \in Workers : batch'[v] = batch[v] \/ batch'[v] = NoBatch
    BY <1>8 DEF DeleteUploaded, ForgetBatch, TypeOK, BatchOK
  <2> QED  BY <1>1, <1>8, <2>1 DEF DeleteUploaded, historyVars
<1>9. ASSUME NEW w \in Workers, RecordFailure(w) PROVE IdInv'
  <2>1. \A v \in Workers : batch'[v] = batch[v] \/ batch'[v] = NoBatch
    BY <1>9 DEF RecordFailure, ForgetBatch, TypeOK, BatchOK
  <2>2. DOMAIN rows' = DOMAIN rows  BY <1>9 DEF RecordFailure
  <2>3. ASSUME NEW i \in DOMAIN rows PROVE rows'[i].msg = rows[i].msg
    <3>1. rows[i] \in Row  BY DEF TypeOK, RowsOK
    <3>2. \A n : Failed(i, config[w], n).msg = rows[i].msg  BY <3>1 DEF Failed
    <3>3. \/ rows'[i] = rows[i]
          \/ rows'[i] = Failed(i, config[w], batch[w][i].retry_count + 1)
      BY <1>9 DEF RecordFailure
    <3> QED  BY <3>2, <3>3
  <2> QED  BY <1>2, <1>9, <2>1, <2>2, <2>3 DEF RecordFailure, historyVars
<1>10. CASE Tick
  <2>1. DOMAIN rows' = DOMAIN rows  BY <1>10 DEF Tick
  <2>2. ASSUME NEW i \in DOMAIN rows PROVE rows'[i].msg = rows[i].msg
    <3>1. rows[i] \in Row  BY DEF TypeOK, RowsOK
    <3>2. \A a, b : [rows[i] EXCEPT !.age = a, !.wait = b].msg = rows[i].msg  BY <3>1
    <3>3. \E a, b : rows'[i] = [rows[i] EXCEPT !.age = a, !.wait = b]
      BY <1>10 DEF Tick
    <3> QED  BY <3>2, <3>3
  <2> QED  BY <1>2, <1>10, <2>1, <2>2 DEF Tick, threadVars, historyVars
<1>11. ASSUME NEW w \in Workers, DbError(w) PROVE IdInv'
  <2>1. \A v \in Workers : batch'[v] = batch[v] \/ batch'[v] = NoBatch
    BY <1>11 DEF DbError, ForgetBatch, TypeOK, BatchOK
  <2> QED  BY <1>2, <1>11, <2>1 DEF DbError, historyVars
<1>12. CASE Crash
  BY <1>2, <1>12 DEF Crash, historyVars
<1>13. CASE \E w \in Workers :
             \/ BeginCycle(w) \/ EndLoop(w) \/ SelectDevices(w)
             \/ (\E d \in Devices : SkipDevice(w, d))
             \/ EndCycle(w) \/ Upload(w)
  BY <1>2, <1>13 DEF BeginCycle, EndLoop, SelectDevices, SkipDevice, EndCycle, Upload,
       historyVars
<1>14. CASE \/ \E d \in Devices : UnregisterDevice(d) \/ (\E cfg \in Configs : RegisterDevice(d, cfg))
            \/ \E c \in Callers, d \in Devices : CacheBegin(c, d)
            \/ \E c \in Callers : CacheError(c)
            \/ StartWorker \/ StopWorker \/ JoinReturns \/ UNCHANGED vars
  BY <1>2, <1>14 DEF UnregisterDevice, RegisterDevice, CacheBegin, CacheError, StartWorker,
       StopWorker, JoinReturns, vars, historyVars, threadVars
<1> QED
  BY <1>3, <1>4, <1>5, <1>6, <1>7, <1>8, <1>9, <1>10, <1>11, <1>12, <1>13, <1>14
  DEF Next, WorkerStep

\* The table, its ids and every thread's variables keep their types.
THEOREM TypeCorrect == Spec => []TypeOK
<1>1. Init => TypeOK /\ IdInv  BY InitType
<1>2. TypeOK /\ IdInv /\ [Next]_vars => (TypeOK /\ IdInv)'
  BY RowsStep, ControlStep, ThreadStep, BatchStep, HistoryStep, IdStep DEF TypeOK
<1> QED  BY <1>1, <1>2, PTL DEF Spec

\* What was read for a batch whose callback returned True counts as delivered.
SettleInv ==
  \A w \in Workers : pc[w] = "settle" /\ success[w] =>
    \A i \in DOMAIN batch[w] : batch[w][i].msg \in delivered

LossInv == TypeOK /\ IdInv /\ SettleInv /\ NoSilentLoss

LEMMA SettleStep == LossInv /\ [Next]_vars => SettleInv'
<1> SUFFICES ASSUME LossInv, [Next]_vars PROVE SettleInv'  OBVIOUS
<1> USE DEF LossInv, SettleInv, TypeOK
<1>1. ASSUME UNCHANGED <<pc, success, batch, delivered>> PROVE SettleInv'
  BY <1>1
<1>2. ASSUME NEW w \in Workers, pc'[w] # "settle", delivered \subseteq delivered',
             \A v \in Workers : v # w => /\ pc'[v] = pc[v] /\ success'[v] = success[v]
                                        /\ batch'[v] = batch[v]
      PROVE  SettleInv'
  BY <1>2
<1>3. CASE StartWorker
  BY <1>3 DEF StartWorker, historyVars, ControlOK, ThreadOK
<1>4. ASSUME NEW w \in Workers,
             \/ BeginCycle(w) \/ EndLoop(w) \/ PurgeExpired(w) \/ SelectDevices(w)
             \/ EndCycle(w)
      PROVE  SettleInv'
  BY <1>2, <1>4 DEF BeginCycle, EndLoop, PurgeExpired, SelectDevices, EndCycle, Goto,
       historyVars, ThreadOK
<1>5. ASSUME NEW w \in Workers, NEW d \in Devices, ReadBatch(w, d) \/ SkipDevice(w, d)
      PROVE  SettleInv'
  <2>1. pc'[w] # "settle" /\ \A v \in Workers : v # w => pc'[v] = pc[v]
    BY <1>5 DEF ReadBatch, SkipDevice, ThreadOK
  <2>2. \A v \in Workers : v # w => success'[v] = success[v] /\ batch'[v] = batch[v]
    BY <1>5 DEF ReadBatch, SkipDevice, BatchOK
  <2>3. delivered' = delivered  BY <1>5 DEF ReadBatch, SkipDevice, historyVars
  <2> QED  BY <1>2, <2>1, <2>2, <2>3
<1>6. ASSUME NEW w \in Workers, Upload(w) PROVE SettleInv'
  <2>1. PICK ok \in BOOLEAN :
          /\ success' = [success EXCEPT ![w] = ok]
          /\ delivered' = IF ok THEN delivered \cup {batch[w][i].msg : i \in DOMAIN batch[w]}
                               ELSE delivered
    BY <1>6 DEF Upload
  <2>2. UNCHANGED batch /\ pc' = [pc EXCEPT ![w] = "settle"]
    BY <1>6 DEF Upload, Goto
  <2>3. delivered \subseteq delivered'  BY <2>1
  <2>4. success'[w] => \A i \in DOMAIN batch[w] : batch[w][i].msg \in delivered'
    BY <2>1 DEF ThreadOK
  <2>5. \A v \in Workers : v # w => pc'[v] = pc[v] /\ success'[v] = success[v]
    BY <2>1, <2>2 DEF ThreadOK
  <2> QED  BY <2>2, <2>3, <2>4, <2>5
<1>7. ASSUME NEW w \in Workers, DeleteUploaded(w) \/ RecordFailure(w) \/ DbError(w)
      PROVE  SettleInv'
  <2>1. pc'[w] # "settle" /\ \A v \in Workers : v # w => pc'[v] = pc[v]
    BY <1>7 DEF DeleteUploaded, RecordFailure, DbError, Goto, ThreadOK
  <2>2. \A v \in Workers : v # w => success'[v] = success[v] /\ batch'[v] = batch[v]
    BY <1>7 DEF DeleteUploaded, RecordFailure, DbError, ForgetBatch, BatchOK, ThreadOK
  <2>3. delivered' = delivered
    BY <1>7 DEF DeleteUploaded, RecordFailure, DbError, historyVars
  <2> QED  BY <1>2, <2>1, <2>2, <2>3
<1>8. CASE Crash  BY <1>8 DEF Crash
<1>9. CASE \/ \E d \in Devices : UnregisterDevice(d) \/ (\E cfg \in Configs : RegisterDevice(d, cfg))
           \/ \E devs \in SUBSET Devices : ClearCache(devs)
           \/ \E c \in Callers : (\E d \in Devices : CacheBegin(c, d)) \/ CacheStore(c) \/ CacheReject(c) \/ CacheError(c)
           \/ StopWorker \/ JoinReturns \/ Tick \/ UNCHANGED vars
  BY <1>1, <1>9 DEF UnregisterDevice, RegisterDevice, ClearCache, CacheBegin, CacheError, CacheStore,
       CacheReject, StopWorker, JoinReturns, Tick, vars, threadVars, historyVars
<1> QED
  BY <1>3, <1>4, <1>5, <1>6, <1>7, <1>8, <1>9 DEF Next, WorkerStep

\* Every way a row leaves the table is accounted for.
LEMMA LossStep == LossInv /\ [Next]_vars => NoSilentLoss'
<1> SUFFICES ASSUME LossInv, [Next]_vars PROVE NoSilentLoss'  OBVIOUS
<1> USE DEF LossInv, NoSilentLoss
<1>1. ASSUME accepted' = accepted, delivered \subseteq delivered', dropped \subseteq dropped',
             \A i \in DOMAIN rows :
               \/ i \in DOMAIN rows' /\ rows'[i].msg = rows[i].msg
               \/ rows[i].msg \in delivered' \cup dropped'
      PROVE  NoSilentLoss'
  BY <1>1 DEF MessagesOf
<1>2. ASSUME NEW S, rows' = Restrict(rows, DOMAIN rows \ S),
             dropped' = dropped \cup MessagesOf(S),
             UNCHANGED <<accepted, delivered>>
      PROVE  NoSilentLoss'
  BY <1>1, <1>2 DEF Restrict, MessagesOf
<1>3. CASE \E devs \in SUBSET Devices : ClearCache(devs)  BY <1>2, <1>3 DEF ClearCache
<1>4. ASSUME NEW c \in Callers, CacheStore(c) PROVE NoSilentLoss'
  <2> DEFINE new == [dev |-> call[c].dev, msg |-> accepted + 1, age |-> 0,
                     retry_count |-> 0, wait |-> 0, dead_letter |-> FALSE]
  <2>1. PICK gone :
          /\ rows' = [i \in (DOMAIN rows \ gone) \cup {lastId + 1} |->
                        IF i = lastId + 1 THEN new ELSE rows[i]]
          /\ dropped' = dropped \cup MessagesOf(gone)
    BY <1>4 DEF CacheStore, NextRowId
  <2>2. new.msg = accepted + 1  OBVIOUS
  <2> HIDE DEF new
  <2>3. accepted' = accepted + 1 /\ delivered' = delivered
    BY <1>4 DEF CacheStore
  <2>4. lastId + 1 \in DOMAIN rows' /\ rows'[lastId + 1].msg = accepted + 1
    BY <2>1, <2>2
  <2>5. \A i \in DOMAIN rows : i # lastId + 1
    BY DEF IdInv, TypeOK, RowsOK, ControlOK
  <2>6. \A i \in DOMAIN rows \ gone : i \in DOMAIN rows' /\ rows'[i] = rows[i]
    BY <2>1, <2>5
  <2>7. ASSUME NEW m \in 1 .. accepted
        PROVE  m \in MessagesOf(DOMAIN rows)' \cup delivered' \cup dropped'
    BY <2>1, <2>3, <2>6 DEF MessagesOf
  <2>8. accepted + 1 \in MessagesOf(DOMAIN rows)'  BY <2>4 DEF MessagesOf
  <2>9. \A m \in 1 .. accepted' : m \in 1 .. accepted \/ m = accepted + 1
    BY <2>3 DEF TypeOK, HistoryOK
  <2> QED  BY <2>7, <2>8, <2>9
<1>5. CASE \E c \in Callers : CacheReject(c)  BY <1>2, <1>5 DEF CacheReject
<1>6. CASE \E w \in Workers : PurgeExpired(w)  BY <1>2, <1>6 DEF PurgeExpired
<1>7. ASSUME NEW w \in Workers, DeleteUploaded(w) PROVE NoSilentLoss'
  <2>1. rows' = Restrict(rows, DOMAIN rows \ DOMAIN batch[w])
    BY <1>7 DEF DeleteUploaded
  <2>2. \A i \in DOMAIN rows : i \in DOMAIN batch[w] => rows[i].msg \in delivered
    BY <1>7 DEF DeleteUploaded, Goto, IdInv, SettleInv
  <2>3. UNCHANGED <<accepted, delivered, dropped>>
    BY <1>7 DEF DeleteUploaded, historyVars
  <2>4. \A i \in DOMAIN rows \ DOMAIN batch[w] : i \in DOMAIN rows' /\ rows'[i] = rows[i]
    BY <2>1 DEF Restrict
  <2> QED  BY <1>1, <2>2, <2>3, <2>4
<1>8. CASE Tick \/ \E w \in Workers : RecordFailure(w)
  <2>1. IdInv'  BY IdStep
  <2>2. DOMAIN rows' = DOMAIN rows  BY <1>8 DEF Tick, RecordFailure
  <2>3. UNCHANGED <<accepted, delivered, dropped>>
    BY <1>8 DEF Tick, RecordFailure, historyVars
  <2> QED  BY <1>1, <2>1, <2>2, <2>3 DEF IdInv
<1>9. ASSUME NEW w \in Workers, Upload(w) PROVE NoSilentLoss'
  <2>1. delivered \subseteq delivered'  BY <1>9 DEF Upload
  <2> QED  BY <1>1, <1>9, <2>1 DEF Upload
<1>10. CASE \E w \in Workers :
             \/ BeginCycle(w) \/ EndLoop(w) \/ SelectDevices(w)
             \/ (\E d \in Devices : ReadBatch(w, d) \/ SkipDevice(w, d))
             \/ EndCycle(w) \/ DbError(w)
  BY <1>1, <1>10 DEF BeginCycle, EndLoop, SelectDevices, ReadBatch, SkipDevice,
       EndCycle, DbError, historyVars
<1>11. CASE \/ \E d \in Devices : UnregisterDevice(d) \/ (\E cfg \in Configs : RegisterDevice(d, cfg))
            \/ \E c \in Callers, d \in Devices : CacheBegin(c, d)
            \/ \E c \in Callers : CacheError(c)
            \/ StartWorker \/ StopWorker \/ JoinReturns \/ Crash \/ UNCHANGED vars
  BY <1>1, <1>11 DEF UnregisterDevice, RegisterDevice, CacheBegin, CacheError, StartWorker,
       StopWorker, JoinReturns, Crash, vars, historyVars
<1> QED
  BY <1>3, <1>4, <1>5, <1>6, <1>7, <1>8, <1>9, <1>10, <1>11 DEF Next, WorkerStep

\* No message the cache has accepted disappears unaccounted for, however stale
\* the ids are that a worker deletes by and however many workers there are.
THEOREM NothingSilentlyLost == Spec => []NoSilentLoss
<1>1. Init => LossInv
  BY InitType DEF LossInv, SettleInv, NoSilentLoss, Init
<1>2. LossInv /\ [Next]_vars => LossInv'
  BY SettleStep, LossStep, RowsStep, ControlStep, ThreadStep, BatchStep, HistoryStep,
     IdStep DEF LossInv, TypeOK
<1>3. LossInv => NoSilentLoss  BY DEF LossInv
<1> QED  BY <1>1, <1>2, <1>3, PTL DEF Spec

LEMMA RowsOfFinite ==
  ASSUME TypeOK, NEW d PROVE IsFiniteSet(RowsOf(d))
<1>1. RowsOf(d) \subseteq 1 .. MaxRows  BY DEF TypeOK, RowsOK, RowsOf
<1>2. IsFiniteSet(1 .. MaxRows)  BY BoundAssumption, FS_Interval
<1> QED  BY <1>1, <1>2, FS_Subset

\* Admission arithmetic: after the eviction there is room for one more row.
LEMMA RoomIsMade ==
  ASSUME TypeOK, NEW c \in Callers, call[c] \in Call,
         NEW evicted \in SUBSET KeptRows(c), MakesRoom(c, evicted)
  PROVE  Cardinality(KeptRows(c) \ evicted) + 1
           <= (IF call[c].config.max_records > 1 THEN call[c].config.max_records ELSE 1)
<1> DEFINE kept == KeptRows(c)
           max == call[c].config.max_records
<1>1. IsFiniteSet(kept)
  BY RowsOfFinite, FS_Subset DEF KeptRows
<1>2. max \in Nat /\ Cardinality(kept) \in Nat
  BY <1>1, FS_CardinalityType, ConfigAssumption
<1>3. Cardinality(kept \ evicted) = Cardinality(kept) - Cardinality(evicted)
  <2>1. kept \cap evicted = evicted  OBVIOUS
  <2> QED  BY <1>1, <2>1, FS_Difference
<1>4. CASE ~IsFull(c)
  <2>1. evicted = {}  BY <1>4 DEF MakesRoom
  <2>2. Cardinality(kept) < max  BY <1>2, <1>4 DEF IsFull
  <2>3. kept \ evicted = kept  BY <2>1
  <2> HIDE DEF kept, max
  <2> QED  BY <1>2, <2>2, <2>3 DEF kept, max
<1>5. CASE IsFull(c)
  <2>1. Cardinality(evicted) = (IF Cardinality(kept) - max + 1 < Cardinality(kept)
                                THEN Cardinality(kept) - max + 1 ELSE Cardinality(kept))
    BY <1>5 DEF MakesRoom, IsOldest
  <2> HIDE DEF kept, max
  <2>2. Cardinality(kept \ evicted) + 1 <= (IF max > 1 THEN max ELSE 1)
    BY <1>2, <1>3, <2>1
  <2> QED  BY <2>2 DEF kept, max
<1> QED  BY <1>4, <1>5

LEMMA CapacityStep == TypeOK /\ CapacityBound /\ [Next]_vars => CapacityBound'
<1> SUFFICES ASSUME TypeOK, CapacityBound, [Next]_vars,
                    NEW d \in Devices, RowsOf(d)' # {}
             PROVE  \E cfg \in Configs : Cardinality(RowsOf(d)')
                      <= (IF cfg.max_records > 1 THEN cfg.max_records ELSE 1)
  BY DEF CapacityBound
<1> DEFINE Goal == \E cfg \in Configs : Cardinality(RowsOf(d)')
                      <= (IF cfg.max_records > 1 THEN cfg.max_records ELSE 1)
<1>1. ASSUME RowsOf(d)' \subseteq RowsOf(d) PROVE Goal
  <2>1. RowsOf(d) # {}  BY <1>1
  <2>2. Cardinality(RowsOf(d)') <= Cardinality(RowsOf(d))
    BY <1>1, RowsOfFinite, FS_Subset
  <2>3. Cardinality(RowsOf(d)) \in Nat /\ Cardinality(RowsOf(d)') \in Nat
    BY <1>1, RowsOfFinite, FS_Subset, FS_CardinalityType
  <2>4. PICK cfg \in Configs : Cardinality(RowsOf(d))
                      <= (IF cfg.max_records > 1 THEN cfg.max_records ELSE 1)
    BY <2>1 DEF CapacityBound
  <2>5. cfg.max_records \in Nat  BY ConfigAssumption
  <2> QED  BY <2>2, <2>3, <2>4, <2>5
<1>2. ASSUME NEW S, rows' = Restrict(rows, DOMAIN rows \ S) PROVE Goal
  BY <1>1, <1>2 DEF Restrict, RowsOf
<1>3. ASSUME UNCHANGED rows PROVE Goal  BY <1>1, <1>3 DEF RowsOf
<1>4. CASE \E devs \in SUBSET Devices : ClearCache(devs)  BY <1>2, <1>4 DEF ClearCache
<1>5. ASSUME NEW c \in Callers, CacheStore(c) PROVE Goal
  <2>1. call[c] \in Call  BY <1>5 DEF CacheStore, TypeOK, ControlOK
  <2> DEFINE new == [dev |-> call[c].dev, msg |-> accepted + 1, age |-> 0,
                     retry_count |-> 0, wait |-> 0, dead_letter |-> FALSE]
             expired == Expired(call[c].dev, call[c].config)
  <2>2. PICK evicted \in SUBSET KeptRows(c) :
          /\ MakesRoom(c, evicted)
          /\ rows' = [i \in (DOMAIN rows \ (expired \cup evicted)) \cup {lastId + 1} |->
                        IF i = lastId + 1 THEN new ELSE rows[i]]
    BY <1>5 DEF CacheStore, NextRowId
  <2>3. new.dev = call[c].dev  OBVIOUS
  <2> HIDE DEF new
  <2>4. CASE d # call[c].dev
    <3>1. RowsOf(d)' \subseteq RowsOf(d)  BY <2>2, <2>3, <2>4 DEF RowsOf
    <3> QED  BY <1>1, <3>1
  <2>5. CASE d = call[c].dev
    <3>1. RowsOf(d)' \subseteq (KeptRows(c) \ evicted) \cup {lastId + 1}
      BY <2>2, <2>3, <2>5 DEF RowsOf, KeptRows
    <3>2. IsFiniteSet(KeptRows(c) \ evicted)
      BY RowsOfFinite, FS_Subset DEF KeptRows
    <3>3. /\ IsFiniteSet((KeptRows(c) \ evicted) \cup {lastId + 1})
          /\ Cardinality((KeptRows(c) \ evicted) \cup {lastId + 1})
               <= Cardinality(KeptRows(c) \ evicted) + 1
          /\ Cardinality(KeptRows(c) \ evicted) \in Nat
      <4> DEFINE S == KeptRows(c) \ evicted
      <4>1. Cardinality(S) \in Nat  BY <3>2, FS_CardinalityType
      <4>2. /\ IsFiniteSet(S \cup {lastId + 1})
            /\ Cardinality(S \cup {lastId + 1}) =
                 IF lastId + 1 \in S THEN Cardinality(S) ELSE Cardinality(S) + 1
        BY <3>2, FS_AddElement
      <4> HIDE DEF S
      <4>3. Cardinality(S \cup {lastId + 1}) <= Cardinality(S) + 1  BY <4>1, <4>2
      <4> QED  BY <4>1, <4>2, <4>3 DEF S
    <3>4. Cardinality(RowsOf(d)') <= Cardinality((KeptRows(c) \ evicted) \cup {lastId + 1})
      BY <3>1, <3>3, FS_Subset
    <3>5. /\ Cardinality(RowsOf(d)') \in Nat
          /\ Cardinality((KeptRows(c) \ evicted) \cup {lastId + 1}) \in Nat
      BY <3>1, <3>3, FS_Subset, FS_CardinalityType
    <3>6. Cardinality(KeptRows(c) \ evicted) + 1
           <= (IF call[c].config.max_records > 1 THEN call[c].config.max_records ELSE 1)
      BY <2>1, <2>2, RoomIsMade
    <3>7. call[c].config \in Configs /\ call[c].config.max_records \in Nat
      BY <2>1, ConfigAssumption
    <3>8. Cardinality(RowsOf(d)')
           <= (IF call[c].config.max_records > 1 THEN call[c].config.max_records ELSE 1)
      BY <3>3, <3>4, <3>5, <3>6, <3>7
    <3> QED  BY <3>7, <3>8
  <2> QED  BY <2>4, <2>5
<1>6. CASE \E c \in Callers : CacheReject(c)  BY <1>2, <1>6 DEF CacheReject
<1>7. CASE \E w \in Workers : PurgeExpired(w)  BY <1>2, <1>7 DEF PurgeExpired
<1>8. CASE \E w \in Workers : DeleteUploaded(w)  BY <1>2, <1>8 DEF DeleteUploaded
<1>9. ASSUME DOMAIN rows' = DOMAIN rows, \A i \in DOMAIN rows : rows'[i].dev = rows[i].dev
      PROVE  Goal
  BY <1>1, <1>9 DEF RowsOf
<1>10. ASSUME NEW w \in Workers, RecordFailure(w) PROVE Goal
  <2>1. DOMAIN rows' = DOMAIN rows  BY <1>10 DEF RecordFailure
  <2>2. ASSUME NEW i \in DOMAIN rows PROVE rows'[i].dev = rows[i].dev
    <3>1. rows[i] \in Row  BY DEF TypeOK, RowsOK
    <3>2. \A n : Failed(i, config[w], n).dev = rows[i].dev  BY <3>1 DEF Failed
    <3>3. \/ rows'[i] = rows[i]
          \/ rows'[i] = Failed(i, config[w], batch[w][i].retry_count + 1)
      BY <1>10 DEF RecordFailure
    <3> QED  BY <3>2, <3>3
  <2> QED  BY <1>9, <2>1, <2>2
<1>11. CASE Tick
  <2>1. DOMAIN rows' = DOMAIN rows  BY <1>11 DEF Tick
  <2>2. ASSUME NEW i \in DOMAIN rows PROVE rows'[i].dev = rows[i].dev
    <3>1. rows[i] \in Row  BY DEF TypeOK, RowsOK
    <3>2. \A a, b : [rows[i] EXCEPT !.age = a, !.wait = b].dev = rows[i].dev  BY <3>1
    <3>3. \E a, b : rows'[i] = [rows[i] EXCEPT !.age = a, !.wait = b]
      BY <1>11 DEF Tick
    <3> QED  BY <3>2, <3>3
  <2> QED  BY <1>9, <2>1, <2>2
<1>12. CASE \E w \in Workers :
             \/ BeginCycle(w) \/ EndLoop(w) \/ SelectDevices(w)
             \/ (\E e \in Devices : ReadBatch(w, e) \/ SkipDevice(w, e))
             \/ EndCycle(w) \/ Upload(w) \/ DbError(w)
  BY <1>3, <1>12 DEF BeginCycle, EndLoop, SelectDevices, ReadBatch, SkipDevice,
       EndCycle, Upload, DbError
<1>13. CASE \/ \E e \in Devices : UnregisterDevice(e) \/ (\E cfg \in Configs : RegisterDevice(e, cfg))
            \/ \E c \in Callers, e \in Devices : CacheBegin(c, e)
            \/ \E c \in Callers : CacheError(c)
            \/ StartWorker \/ StopWorker \/ JoinReturns \/ Crash \/ UNCHANGED vars
  BY <1>3, <1>13 DEF UnregisterDevice, RegisterDevice, CacheBegin, CacheError, StartWorker,
       StopWorker, JoinReturns, Crash, vars
<1> QED
  BY <1>4, <1>5, <1>6, <1>7, <1>8, <1>10, <1>11, <1>12, <1>13 DEF Next, WorkerStep

\* No device's cache outgrows the largest max_records it was ever given.
THEOREM CapacityKept == Spec => []CapacityBound
<1>1. Init => CapacityBound  BY DEF Init, CapacityBound, RowsOf
<1>2. CapacityBound /\ TypeOK /\ [Next]_vars => CapacityBound'  BY CapacityStep
<1> QED  BY <1>1, <1>2, TypeCorrect, PTL DEF Spec

\* The workers the application still knows of are the one in _upload_thread and
\* the one it is joining, and there are never both.
WorkersInv ==
  /\ thread <= spawned /\ joining <= spawned
  /\ ~running => thread = 0
  /\ thread = 0 \/ joining = 0
  /\ \A w \in Workers : w > spawned => pc[w] = "none" /\ batch[w] = NoBatch
  /\ \A w \in Workers : Active(w) => w \in outlived \/ w = thread \/ w = joining

LEMMA WorkersStep == TypeOK /\ WorkersInv /\ [Next]_vars => WorkersInv'
<1> SUFFICES ASSUME TypeOK, WorkersInv, [Next]_vars PROVE WorkersInv'  OBVIOUS
<1> USE BoundAssumption DEF TypeOK, ControlOK, ThreadOK, BatchOK, Active
<1>1. ASSUME UNCHANGED controlVars,
             \A w \in Workers : \/ pc'[w] = pc[w] /\ batch'[w] = batch[w]
                                \/ w <= spawned /\ (pc[w] \in {"none", "done"} => pc'[w] = pc[w])
      PROVE  WorkersInv'
  <2>1. UNCHANGED <<thread, joining, outlived, spawned>> /\ (running' <=> running)
    BY <1>1, Zenon DEF controlVars
  <2>2. \A w \in Workers : w > spawned => pc'[w] = "none" /\ batch'[w] = NoBatch
    <3>1. \A w \in Workers : w > spawned => ~(w <= spawned)  OBVIOUS
    <3> QED  BY <1>1, <3>1 DEF WorkersInv
  <2>3. \A w \in Workers : Active(w)' => Active(w)
    BY <1>1
  <2> QED  BY <2>1, <2>2, <2>3 DEF WorkersInv
<1>2. ASSUME NEW w \in Workers, WorkerStep(w) \/ DbError(w) PROVE WorkersInv'
  <2>1. Active(w)
    BY <1>2 DEF WorkerStep, BeginCycle, EndLoop, PurgeExpired, SelectDevices, ReadBatch,
         SkipDevice, EndCycle, Upload, DeleteUploaded, RecordFailure, DbError, Goto
  <2>2. w <= spawned  BY <2>1 DEF WorkersInv
  <2>3. UNCHANGED controlVars
    BY <1>2 DEF WorkerStep, BeginCycle, EndLoop, PurgeExpired, SelectDevices, ReadBatch,
         SkipDevice, EndCycle, Upload, DeleteUploaded, RecordFailure, DbError
  <2>4. \A v \in Workers : v # w => pc'[v] = pc[v]
    BY <1>2 DEF WorkerStep, BeginCycle, EndLoop, PurgeExpired, SelectDevices, ReadBatch,
         SkipDevice, EndCycle, Upload, DeleteUploaded, RecordFailure, DbError, Goto
  <2>5. \A v \in Workers : v # w => batch'[v] = batch[v]
    BY <1>2 DEF WorkerStep, BeginCycle, EndLoop, PurgeExpired, SelectDevices, ReadBatch,
         SkipDevice, EndCycle, Upload, DeleteUploaded, RecordFailure, DbError, ForgetBatch
  <2> QED  BY <1>1, <2>1, <2>2, <2>3, <2>4, <2>5
<1>3. CASE StartWorker
  <2>1. spawned + 1 \in Workers /\ pc' = [pc EXCEPT ![spawned + 1] = "wait"]
    BY <1>3 DEF StartWorker
  <2>2. UNCHANGED <<batch, outlived, joining>> /\ spawned' = spawned + 1
        /\ thread' = spawned + 1 /\ running' = TRUE
    BY <1>3, Zenon DEF StartWorker
  <2>3. joining = 0 /\ thread = 0  BY <1>3 DEF StartWorker, WorkersInv
  <2> QED  BY <2>1, <2>2, <2>3 DEF WorkersInv
<1>4. CASE StopWorker
  BY <1>4 DEF StopWorker, WorkersInv, threadVars
<1>5. CASE JoinReturns
  BY <1>5 DEF JoinReturns, WorkersInv, threadVars
<1>6. CASE Crash
  <2>1. \A w \in Workers : pc'[w] \in {"none", "done"} /\ batch'[w] = NoBatch
                         /\ (pc[w] = "none" => pc'[w] = "none")
    BY <1>6 DEF Crash
  <2>2. running' = FALSE /\ thread' = 0 /\ joining' = 0 /\ spawned' = spawned
    BY <1>6 DEF Crash
  <2> QED  BY <2>1, <2>2 DEF WorkersInv
<1>7. CASE \/ \E d \in Devices : UnregisterDevice(d) \/ (\E cfg \in Configs : RegisterDevice(d, cfg))
           \/ \E devs \in SUBSET Devices : ClearCache(devs)
           \/ \E c \in Callers : (\E d \in Devices : CacheBegin(c, d)) \/ CacheStore(c) \/ CacheReject(c) \/ CacheError(c)
           \/ Tick \/ UNCHANGED vars
  BY <1>1, <1>7 DEF UnregisterDevice, RegisterDevice, ClearCache, CacheBegin, CacheError, CacheStore,
       CacheReject, Tick, vars, threadVars
<1> QED  BY <1>2, <1>3, <1>4, <1>5, <1>6, <1>7 DEF Next

LEMMA WorkersInit == Init => WorkersInv
BY BoundAssumption DEF Init, WorkersInv, Active

\* Two workers are at work only if one of them outlived the join of its stop.
THEOREM WorkersOutliveOnlyJoins == Spec => []OneActiveWorker
<1>1. WorkersInv => OneActiveWorker
  <2> SUFFICES ASSUME WorkersInv, NEW v \in Workers, NEW w \in Workers,
                      Active(v), Active(w), v # w
               PROVE  outlived \cap {v, w} # {}
    BY DEF OneActiveWorker
  <2>1. v \in outlived \/ w \in outlived \/ (v \in {thread, joining} /\ w \in {thread, joining})
    BY DEF WorkersInv
  <2>2. thread = 0 \/ joining = 0  BY DEF WorkersInv
  <2> QED  BY <2>1, <2>2
<1> QED  BY <1>1, WorkersInit, WorkersStep, TypeCorrect, PTL DEF Spec

\* While no worker has outlived its join, no worker at work holds the record of a
\* row that has become a dead letter since.
FreshInv ==
  outlived = {} => \A w \in Workers : Active(w) =>
    \A i \in DOMAIN batch[w] : i \in DOMAIN rows => ~rows[i].dead_letter

DeadInv == TypeOK /\ IdInv /\ WorkersInv /\ FreshInv

LEMMA FreshStep == DeadInv /\ [Next]_vars => FreshInv'
<1> SUFFICES ASSUME DeadInv, [Next]_vars PROVE FreshInv'  OBVIOUS
<1> USE DEF DeadInv, TypeOK
<1>1. ASSUME outlived' = outlived,
             \A w \in Workers : \/ batch'[w] = NoBatch
                                \/ batch'[w] = batch[w] /\ (Active(w)' => Active(w)),
             \A i \in DOMAIN rows' : IF i \in DOMAIN rows
                                     THEN rows'[i].dead_letter = rows[i].dead_letter
                                     ELSE ~rows'[i].dead_letter
      PROVE  FreshInv'
  BY <1>1 DEF FreshInv, Active
<1>2. ASSUME NEW w \in Workers, RecordFailure(w) PROVE FreshInv'
  <2>1. Active(w) /\ outlived' = outlived /\ DOMAIN rows' = DOMAIN rows
    BY <1>2 DEF RecordFailure, Goto, Active, controlVars
  <2>2. batch'[w] = NoBatch /\ \A v \in Workers : v # w => batch'[v] = batch[v]
    BY <1>2 DEF RecordFailure, ForgetBatch, BatchOK
  <2>3. \A v \in Workers : v # w => pc'[v] = pc[v]
    BY <1>2 DEF RecordFailure, Goto, ThreadOK
  <2>4. outlived = {} => \A v \in Workers : v # w => ~Active(v)
    <3>1. Active(w) => w \in outlived \/ w = thread \/ w = joining  BY DEF WorkersInv
    <3>2. \A v \in Workers : Active(v) => v \in outlived \/ v = thread \/ v = joining
      BY DEF WorkersInv
    <3>3. thread = 0 \/ joining = 0  BY DEF WorkersInv
    <3> QED  BY <2>1, <3>1, <3>2, <3>3
  <2> QED  BY <2>1, <2>2, <2>3, <2>4 DEF FreshInv, Active
<1>3. ASSUME NEW w \in Workers, NEW d \in Devices, ReadBatch(w, d) PROVE FreshInv'
  <2>1. PICK ids \in SUBSET {i \in RowsOf(d) : Due(i)} :
          batch' = [batch EXCEPT ![w] =
            [i \in ids |-> [msg |-> rows[i].msg, retry_count |-> rows[i].retry_count]]]
    BY <1>3 DEF ReadBatch
  <2>2. \A v \in Workers : v # w => batch'[v] = batch[v] /\ pc'[v] = pc[v]
    BY <1>3 DEF ReadBatch, BatchOK, ThreadOK
  <2>3. \A i \in DOMAIN batch'[w] : ~rows[i].dead_letter
    BY <2>1 DEF Due, BatchOK
  <2>4. UNCHANGED <<rows, outlived>>  BY <1>3 DEF ReadBatch, controlVars
  <2> QED  BY <2>2, <2>3, <2>4 DEF FreshInv, Active
<1>4. ASSUME NEW S, rows' = Restrict(rows, DOMAIN rows \ S), outlived' = outlived,
             \A w \in Workers : \/ batch'[w] = NoBatch
                                \/ batch'[w] = batch[w] /\ (Active(w)' => Active(w))
      PROVE  FreshInv'
  BY <1>1, <1>4 DEF Restrict
<1>5. ASSUME NEW c \in Callers, CacheStore(c) PROVE FreshInv'
  <2> DEFINE new == [dev |-> call[c].dev, msg |-> accepted + 1, age |-> 0,
                     retry_count |-> 0, wait |-> 0, dead_letter |-> FALSE]
  <2>1. PICK gone : rows' = [i \in (DOMAIN rows \ gone) \cup {lastId + 1} |->
                               IF i = lastId + 1 THEN new ELSE rows[i]]
    BY <1>5 DEF CacheStore, NextRowId
  <2>2. ~new.dead_letter  OBVIOUS
  <2> HIDE DEF new
  <2>3. \A i \in DOMAIN rows : i # lastId + 1  BY DEF IdInv, RowsOK, ControlOK
  <2>4. UNCHANGED <<outlived, batch, pc>>  BY <1>5 DEF CacheStore, controlVars, threadVars
  <2> QED  BY <1>1, <2>1, <2>2, <2>3, <2>4 DEF Active
<1>6. ASSUME NEW w \in Workers, PurgeExpired(w) PROVE FreshInv'
  <2>1. \A v \in Workers : Active(v)' => Active(v)
    BY <1>6 DEF PurgeExpired, Goto, Active, ThreadOK
  <2>2. UNCHANGED <<batch, outlived>>  BY <1>6 DEF PurgeExpired, controlVars
  <2> QED  BY <1>4, <1>6, <2>1, <2>2 DEF PurgeExpired
<1>7. ASSUME NEW w \in Workers, DeleteUploaded(w) PROVE FreshInv'
  <2>1. \A v \in Workers : Active(v)' => Active(v)
    BY <1>7 DEF DeleteUploaded, Goto, Active, ThreadOK
  <2>2. \A v \in Workers : batch'[v] = batch[v] \/ batch'[v] = NoBatch
    BY <1>7 DEF DeleteUploaded, ForgetBatch, BatchOK
  <2>3. outlived' = outlived  BY <1>7 DEF DeleteUploaded, controlVars
  <2> QED  BY <1>4, <1>7, <2>1, <2>2, <2>3 DEF DeleteUploaded
<1>8. ASSUME NEW w \in Workers,
             \/ BeginCycle(w) \/ EndLoop(w) \/ SelectDevices(w) \/ DbError(w)
             \/ (\E d \in Devices : SkipDevice(w, d)) \/ EndCycle(w) \/ Upload(w)
      PROVE  FreshInv'
  <2>1. \A v \in Workers : Active(v)' => Active(v)
    BY <1>8 DEF BeginCycle, EndLoop, SelectDevices, DbError, SkipDevice, EndCycle, Upload,
         Goto, Active, ThreadOK
  <2>2. \A v \in Workers : batch'[v] = batch[v] \/ batch'[v] = NoBatch
    BY <1>8 DEF BeginCycle, EndLoop, SelectDevices, DbError, SkipDevice, EndCycle, Upload,
         ForgetBatch, BatchOK
  <2>3. UNCHANGED <<rows, outlived>>
    BY <1>8 DEF BeginCycle, EndLoop, SelectDevices, DbError, SkipDevice, EndCycle, Upload,
         controlVars
  <2> QED  BY <1>1, <2>1, <2>2, <2>3
<1>9. CASE StartWorker
  <2>1. spawned + 1 \in Workers /\ batch[spawned + 1] = NoBatch
    BY <1>9, BoundAssumption DEF StartWorker, WorkersInv, ControlOK
  <2>2. \A v \in Workers : v # spawned + 1 => pc'[v] = pc[v]
    BY <1>9 DEF StartWorker, ThreadOK
  <2>3. UNCHANGED <<rows, batch, outlived>>  BY <1>9 DEF StartWorker
  <2> QED  BY <1>1, <2>1, <2>2, <2>3 DEF Active
<1>10. CASE JoinReturns
  <2>1. outlived \subseteq outlived' /\ UNCHANGED <<rows, batch, pc>>
    BY <1>10 DEF JoinReturns, threadVars
  <2> QED  BY <2>1 DEF FreshInv, Active
<1>11. CASE Crash
  BY <1>11 DEF Crash, FreshInv, Active
<1>12. CASE Tick
  <2>1. DOMAIN rows' = DOMAIN rows  BY <1>12 DEF Tick
  <2>2. ASSUME NEW i \in DOMAIN rows PROVE rows'[i].dead_letter = rows[i].dead_letter
    <3>1. rows[i] \in Row  BY DEF RowsOK
    <3>2. \A a, b : [rows[i] EXCEPT !.age = a, !.wait = b].dead_letter = rows[i].dead_letter
      BY <3>1
    <3>3. \E a, b : rows'[i] = [rows[i] EXCEPT !.age = a, !.wait = b]
      BY <1>12 DEF Tick
    <3> QED  BY <3>2, <3>3
  <2>3. UNCHANGED <<outlived, batch, pc>>  BY <1>12 DEF Tick, controlVars, threadVars
  <2> QED  BY <1>1, <2>1, <2>2, <2>3 DEF Active
<1>13. CASE \/ \E devs \in SUBSET Devices : ClearCache(devs)
            \/ \E c \in Callers : CacheReject(c)
  <2>1. UNCHANGED <<outlived, batch, pc>>
    BY <1>13 DEF ClearCache, CacheReject, controlVars, threadVars
  <2>2. \E S : rows' = Restrict(rows, DOMAIN rows \ S)
    BY <1>13 DEF ClearCache, CacheReject
  <2> QED  BY <1>4, <2>1, <2>2 DEF Active
<1>14. CASE \/ \E d \in Devices : UnregisterDevice(d) \/ (\E cfg \in Configs : RegisterDevice(d, cfg))
            \/ \E c \in Callers, d \in Devices : CacheBegin(c, d)
            \/ \E c \in Callers : CacheError(c)
            \/ StopWorker \/ UNCHANGED vars
  <2>1. UNCHANGED <<rows, outlived, batch, pc>>
    BY <1>14 DEF UnregisterDevice, RegisterDevice, CacheBegin, CacheError, StopWorker, controlVars,
         threadVars, vars
  <2> QED  BY <1>1, <2>1 DEF Active
<1> QED
  BY <1>2, <1>3, <1>5, <1>6, <1>7, <1>8, <1>9, <1>10, <1>11, <1>12, <1>13, <1>14
  DEF Next, WorkerStep

LEMMA DeadStays ==
  DeadInv /\ [Next]_vars =>
    \A i \in DOMAIN rows \cap DOMAIN rows' :
      rows[i].dead_letter => rows'[i].dead_letter \/ outlived # {}
<1> SUFFICES ASSUME DeadInv, [Next]_vars,
                    NEW i \in DOMAIN rows \cap DOMAIN rows', rows[i].dead_letter
             PROVE  rows'[i].dead_letter \/ outlived # {}
  OBVIOUS
<1> USE DEF DeadInv, TypeOK
<1>1. ASSUME NEW S, rows' = Restrict(rows, DOMAIN rows \ S) PROVE rows'[i] = rows[i]
  BY <1>1 DEF Restrict
<1>2. ASSUME NEW w \in Workers, RecordFailure(w) PROVE rows'[i].dead_letter \/ outlived # {}
  <2>1. i \in DOMAIN batch[w] => outlived # {}
    BY <1>2 DEF RecordFailure, Goto, FreshInv, Active
  <2>2. i \notin DOMAIN batch[w] => rows'[i] = rows[i]
    BY <1>2 DEF RecordFailure
  <2> QED  BY <2>1, <2>2
<1>3. ASSUME NEW c \in Callers, CacheStore(c) PROVE rows'[i] = rows[i]
  <2>1. i # lastId + 1  BY DEF IdInv, RowsOK, ControlOK
  <2> QED  BY <1>3, <2>1 DEF CacheStore, NextRowId
<1>4. CASE Tick
  <2>1. rows[i] \in Row  BY DEF RowsOK
  <2>2. \A a, b : [rows[i] EXCEPT !.age = a, !.wait = b].dead_letter = rows[i].dead_letter
    BY <2>1
  <2>3. \E a, b : rows'[i] = [rows[i] EXCEPT !.age = a, !.wait = b]
    BY <1>4 DEF Tick
  <2> QED  BY <2>2, <2>3
<1>5. CASE \/ \E devs \in SUBSET Devices : ClearCache(devs)
           \/ \E c \in Callers : CacheReject(c)
           \/ \E w \in Workers : PurgeExpired(w) \/ DeleteUploaded(w)
  <2>1. \E S : rows' = Restrict(rows, DOMAIN rows \ S)
    BY <1>5 DEF ClearCache, CacheReject, PurgeExpired, DeleteUploaded
  <2> QED  BY <1>1, <2>1
<1>6. CASE \E w \in Workers :
             \/ BeginCycle(w) \/ EndLoop(w) \/ SelectDevices(w)
             \/ (\E d \in Devices : ReadBatch(w, d) \/ SkipDevice(w, d))
             \/ EndCycle(w) \/ Upload(w) \/ DbError(w)
  BY <1>6 DEF BeginCycle, EndLoop, SelectDevices, ReadBatch, SkipDevice, EndCycle,
       Upload, DbError
<1>7. CASE \/ \E d \in Devices : UnregisterDevice(d) \/ (\E cfg \in Configs : RegisterDevice(d, cfg))
           \/ \E c \in Callers, d \in Devices : CacheBegin(c, d)
           \/ \E c \in Callers : CacheError(c)
           \/ StartWorker \/ StopWorker \/ JoinReturns \/ Crash \/ UNCHANGED vars
  BY <1>7 DEF UnregisterDevice, RegisterDevice, CacheBegin, CacheError, StartWorker, StopWorker,
       JoinReturns, Crash, vars
<1> QED  BY <1>2, <1>3, <1>4, <1>5, <1>6, <1>7 DEF Next, WorkerStep

\* A dead letter is revived, if ever, only once a worker has outlived its join:
\* the sole worker at work never holds the record of a dead row.
THEOREM DeadLettersStayDead == Spec => DeadLetterIsFinal
<1>1. Init => DeadInv
  BY InitType, WorkersInit DEF DeadInv, FreshInv, Init
<1>2. DeadInv /\ [Next]_vars => DeadInv'
  BY FreshStep, WorkersStep, RowsStep, ControlStep, ThreadStep, BatchStep, HistoryStep,
     IdStep DEF DeadInv, TypeOK
<1>3. DeadInv /\ [Next]_vars =>
        [\A i \in DOMAIN rows \cap DOMAIN rows' :
           rows[i].dead_letter => rows'[i].dead_letter \/ outlived # {}]_vars
  BY DeadStays
<1> QED  BY <1>1, <1>2, <1>3, PTL DEF Spec, DeadLetterIsFinal

=============================================================================
