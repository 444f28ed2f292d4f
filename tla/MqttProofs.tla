----------------------------- MODULE MqttProofs -----------------------------
(***************************************************************************)
(* Proofs about the way of a message to a broker (Delivery), for every     *)
(* number of publishers, messages, retries and faults, with and without a  *)
(* backup broker; and about the connection it takes (MqttLink), for any    *)
(* number of reconnect threads and paho clients: its state stays in its    *)
(* types, and RECONNECTING always comes with a live reconnect thread.      *)
(***************************************************************************)
EXTENDS Delivery, MqttLink, TLAPS

-----------------------------------------------------------------------------
(* The messages.                                                           *)

Accepted == 1 .. accepted

\* Only accepted messages are anywhere, and a publisher holds one exactly while
\* it is in publish(), which no other holds or has stored before.
PublishersInv ==
  /\ queued \cup cached \cup received \cup stored \cup discarded \subseteq Accepted
  /\ cached \subseteq stored
  /\ \A p \in Publishers :
       /\ pub[p].msg \in {0} \cup Accepted
       /\ pub[p].at = "idle" <=> pub[p].msg = 0
       /\ pub[p].at \in {"begin", "send", "cache"} => pub[p].msg \notin stored
       /\ \A q \in Publishers : pub[p].msg = pub[q].msg /\ pub[p].at # "idle" => p = q

\* What the worker has read is still stored, below its last retry; what it has
\* handed over without a failure has gone into the client's queue.
WorkerInv ==
  /\ worker.at = "idle" => worker = WorkerIdle
  /\ worker.batch \subseteq cached \ DeadLetters
  /\ worker.ok => worker.batch \ worker.left \subseteq queued \cup received \cup discarded

\* How often the worker, and the publisher, can have handed message m over.
ByWorker(m) ==
  IF m \in cached THEN retry[m] + (IF m \in worker.batch \ worker.left THEN 1 ELSE 0)
  ELSE IF m \in stored THEN MaxRetries ELSE 0

ByPublisher(m) ==
  IF \E p \in Publishers : pub[p].msg = m /\ pub[p].at \in {"begin", "send"} THEN 0
  ELSE IF \E p \in Publishers : pub[p].msg = m THEN 1
  ELSE IF HasBackup THEN 2 ELSE 1

Budget(m) == IF m > accepted THEN faults ELSE ByWorker(m) + ByPublisher(m) + faults

HandOverInv == \A m \in Messages : handed[m] <= Budget(m)

-----------------------------------------------------------------------------
(* Types.                                                                  *)

PubRecord == [at: {"idle", "begin", "send", "cache", "backup"}, msg: {0} \cup Messages]
WorkerRecord == [at: {"idle", "check", "send"}, batch: SUBSET Messages,
                 left: SUBSET Messages, ok: BOOLEAN]

\* A step of publish() leaves the publisher's record a record.
LEMMA StepType ==
  ASSUME TypeOK, NEW p \in Publishers, NEW from,
         NEW to \in {"idle", "begin", "send", "cache", "backup"}, Step(p, from, to)
  PROVE  pub' \in [Publishers -> PubRecord]
<1>1. pub \in [Publishers -> PubRecord]  BY DEF TypeOK, PubRecord
<1>2. PubIdle \in PubRecord  BY DEF PubIdle, PubRecord
<1>3. [pub[p] EXCEPT !.at = to] \in PubRecord  BY <1>1 DEF PubRecord
<1> QED  BY <1>1, <1>2, <1>3 DEF Step

\* Handing a message over, with whatever result, keeps queue and counters typed.
LEMMA HandOverType ==
  ASSUME TypeOK, NEW m \in Messages, HandOverSucceeds(m) \/ HandOverFails(m)
  PROVE  queued' \subseteq Messages /\ handed' \in [Messages -> Nat]
BY DEF TypeOK, HandOverSucceeds, HandOverFails, Taken

\* Every action of a publisher keeps the types.
LEMMA PublisherType ==
  ASSUME TypeOK, NEW p \in Publishers,
         Publish(p) \/ CacheFails(p) \/ PublisherStep(p),
         pub[p].at # "idle" => pub[p].msg \in Messages
  PROVE  TypeOK'
<1> USE DeliveryAssumption DEF history, places
<1>1. CASE Publish(p)
  <2>1. accepted + 1 \in Messages /\ accepted' \in 0 .. MaxMessages
    BY <1>1 DEF Publish, TypeOK, Messages
  <2>2. pub' \in [Publishers -> PubRecord]  BY <1>1, <2>1 DEF Publish, TypeOK, PubRecord
  <2> QED  BY <1>1, <2>1, <2>2 DEF Publish, TypeOK, PubRecord
<1>2. CASE CacheFails(p)
  <2>1. pub' \in [Publishers -> PubRecord]  BY <1>2, StepType DEF CacheFails
  <2>2. pub[p].msg \in Messages  BY <1>2 DEF CacheFails, Step
  <2> QED  BY <1>2, <2>1, <2>2 DEF CacheFails, TypeOK, PubRecord
<1>3. CASE PublishTests(p)
  <2>1. pub' \in [Publishers -> PubRecord]  BY <1>3, StepType DEF PublishTests
  <2> QED  BY <1>3, <2>1 DEF PublishTests, TypeOK, PubRecord
<1>4. CASE PublishSends(p)
  <2>1. pub' \in [Publishers -> PubRecord]  BY <1>4, StepType DEF PublishSends
  <2>2. pub[p].msg \in Messages  BY <1>4 DEF PublishSends, Step
  <2>3. queued' \subseteq Messages /\ handed' \in [Messages -> Nat]
    BY <1>4, <2>2, HandOverType DEF PublishSends
  <2> QED  BY <1>4, <2>1, <2>3 DEF PublishSends, TypeOK, PubRecord
<1>5. CASE PublishCaches(p)
  <2>1. pub' \in [Publishers -> PubRecord]  BY <1>5, StepType DEF PublishCaches
  <2>2. pub[p].msg \in Messages  BY <1>5 DEF PublishCaches, Step
  <2> QED  BY <1>5, <2>1, <2>2 DEF PublishCaches, TypeOK, PubRecord
<1>6. CASE BackupSends(p)
  <2>1. pub' \in [Publishers -> PubRecord]  BY <1>6, StepType DEF BackupSends
  <2>2. pub[p].msg \in Messages  BY <1>6 DEF BackupSends, Step
  <2>3. handed' \in [Messages -> Nat]  BY <1>6, <2>2 DEF BackupSends, TypeOK
  <2> QED  BY <1>6, <2>1, <2>2, <2>3 DEF BackupSends, TypeOK, PubRecord
<1>7. CASE BackupSkipped(p)
  <2>1. pub' \in [Publishers -> PubRecord]  BY <1>7, StepType DEF BackupSkipped
  <2> QED  BY <1>7, <2>1 DEF BackupSkipped, TypeOK, PubRecord
<1> QED  BY <1>1, <1>2, <1>3, <1>4, <1>5, <1>6, <1>7 DEF PublisherStep

\* Every action of the worker keeps the types, given what it knows of its batch.
LEMMA WorkerType ==
  ASSUME TypeOK, WorkerInv, WorkerStep
  PROVE  TypeOK'
<1> USE DeliveryAssumption DEF history, places
<1>1. CASE WorkerReads
  <2>1. worker' \in WorkerRecord /\ worker'.left \subseteq worker'.batch
    BY <1>1 DEF WorkerReads, TypeOK, WorkerRecord
  <2> QED  BY <1>1, <2>1 DEF WorkerReads, TypeOK, WorkerRecord
<1>2. CASE WorkerTests
  <2>1. worker \in WorkerRecord /\ worker.left \subseteq worker.batch
    BY DEF TypeOK, WorkerRecord
  <2>2. worker' \in WorkerRecord /\ worker'.left \subseteq worker'.batch
    BY <1>2, <2>1 DEF WorkerTests, WorkerRecord
  <2> QED  BY <1>2, <2>2 DEF WorkerTests, TypeOK, WorkerRecord
<1>3. CASE WorkerSends
  <2>1. queued' \subseteq Messages /\ handed' \in [Messages -> Nat]
    BY <1>3, HandOverType DEF WorkerSends, TypeOK
  <2>2. worker \in WorkerRecord /\ worker.left \subseteq worker.batch
    BY DEF TypeOK, WorkerRecord
  <2>3. worker' \in WorkerRecord /\ worker'.left \subseteq worker'.batch
    BY <1>3, <2>2 DEF WorkerSends, WorkerRecord
  <2> QED  BY <1>3, <2>1, <2>3 DEF WorkerSends, TypeOK, WorkerRecord
<1>4. CASE WorkerDeletes
  BY <1>4 DEF WorkerDeletes, TypeOK, WorkerIdle
<1>5. CASE WorkerRecordsFailure
  <2>1. \A m \in worker.batch : retry[m] \in Nat /\ retry[m] < MaxRetries
    BY DEF WorkerInv, DeadLetters, TypeOK
  <2>2. retry' \in [Messages -> 0 .. MaxRetries]
    BY <1>5, <2>1 DEF WorkerRecordsFailure, TypeOK
  <2> QED  BY <1>5, <2>2 DEF WorkerRecordsFailure, TypeOK, WorkerIdle
<1> QED  BY <1>1, <1>2, <1>3, <1>4, <1>5 DEF WorkerStep

\* So do the link, the broker and a crash.
LinkStep ==
  LinkBreaks \/ LinkNoticed \/ LinkReconnects \/ CreateClient

LEMMA EnvironmentType ==
  ASSUME TypeOK,
         \/ LinkStep \/ ReplaceClient \/ Crash \/ WorkerFails
         \/ \E m \in Messages : BrokerReceives(m) \/ PubAck(m)
  PROVE  TypeOK'
<1> USE DeliveryAssumption DEF history, places
<1>1. CASE LinkStep
  BY <1>1 DEF LinkStep, LinkBreaks, LinkNoticed, LinkReconnects, CreateClient, LinkMoves,
              TypeOK, Link
<1>2. CASE ReplaceClient
  BY <1>2 DEF ReplaceClient, TypeOK, Link
<1>3. CASE Crash
  <2>1. InHand \ {0} \subseteq Messages  BY DEF InHand, TypeOK
  <2>2. pub' \in [Publishers -> PubRecord]  BY <1>3 DEF Crash, PubIdle, PubRecord
  <2>3. worker' \in WorkerRecord /\ worker'.left \subseteq worker'.batch
    BY <1>3 DEF Crash, WorkerIdle, WorkerRecord
  <2>4. (discarded \cup queued \cup (InHand \ {0})) \subseteq Messages
    BY <2>1 DEF TypeOK
  <2>5. faults' \in 0 .. MaxFaults  BY <1>3 DEF Crash, TypeOK
  <2> QED  BY <1>3, <2>2, <2>3, <2>4, <2>5 DEF Crash, TypeOK, Link, WorkerRecord, PubRecord
<1>4. CASE \E m \in Messages : BrokerReceives(m) \/ PubAck(m)
  BY <1>4 DEF BrokerReceives, PubAck, TypeOK
<1>5. CASE WorkerFails
  BY <1>5 DEF WorkerFails, WorkerIdle, TypeOK
<1> QED  BY <1>1, <1>2, <1>3, <1>4, <1>5

\* Next, with the steps of the environment and the system regrouped by actor.
LEMMA Actors ==
  ASSUME [Next]_vars
  PROVE  \/ \E p \in Publishers : Publish(p) \/ CacheFails(p) \/ PublisherStep(p)
         \/ WorkerStep
         \/ LinkStep \/ ReplaceClient \/ Crash \/ WorkerFails
         \/ \E m \in Messages : BrokerReceives(m) \/ PubAck(m)
         \/ UNCHANGED vars
BY DEF Next, Environment, System, BrokerStep, LinkStep

-----------------------------------------------------------------------------
(* Who holds which message.                                                *)

\* What a publisher's step must do for PublishersInv to go on holding.
LEMMA StepOwner ==
  ASSUME TypeOK, PublishersInv, NEW p \in Publishers, NEW from, NEW to,
         from # "idle", Step(p, from, to), accepted' = accepted,
         queued' \cup cached' \cup received' \cup stored' \cup discarded' \subseteq Accepted,
         cached' \subseteq stored',
         stored' \subseteq stored \cup {pub[p].msg},
         to \in {"begin", "send", "cache"} => stored' = stored /\ from \in {"begin", "send", "cache"}
  PROVE  PublishersInv'
<1>1. pub[p].at = from /\ pub[p].msg \in Accepted
  BY DEF Step, PublishersInv
<1>2. \A q \in Publishers : q # p => pub'[q] = pub[q] /\ pub[q].msg # pub[p].msg
  BY <1>1 DEF Step, TypeOK, PublishersInv
<1>3. IF to = "idle" THEN pub'[p] = PubIdle
      ELSE pub'[p].msg = pub[p].msg /\ pub'[p].at = to
  BY DEF Step, TypeOK
<1>4. 0 \notin Accepted  BY DEF Accepted, TypeOK
<1>5. ASSUME NEW q \in Publishers
      PROVE  /\ pub'[q].msg \in {0} \cup Accepted
             /\ pub'[q].at = "idle" <=> pub'[q].msg = 0
             /\ pub'[q].at \in {"begin", "send", "cache"} => pub'[q].msg \notin stored'
  <2>1. CASE q = p
    BY <2>1, <1>1, <1>3, <1>4 DEF PubIdle, PublishersInv
  <2>2. CASE q # p
    BY <2>2, <1>2 DEF PublishersInv
  <2> QED  BY <2>1, <2>2
<1>6. ASSUME NEW q \in Publishers, NEW r \in Publishers,
             pub'[q].msg = pub'[r].msg, pub'[q].at # "idle"
      PROVE  q = r
  <2>1. pub'[q].msg # 0 /\ pub'[r].at # "idle"  BY <1>5, <1>6
  <2>2. pub'[q].msg = pub[q].msg /\ pub'[r].msg = pub[r].msg
    BY <1>2, <1>3, <2>1, <1>6 DEF PubIdle
  <2>3. pub[q].at # "idle"  BY <2>1, <2>2 DEF PublishersInv
  <2> QED  BY <2>2, <2>3, <1>6 DEF PublishersInv
<1>7. Accepted' = Accepted  BY DEF Accepted
<1> QED  BY <1>5, <1>6, <1>7 DEF PublishersInv

LEMMA PublishersPreserved ==
  ASSUME TypeOK, PublishersInv, WorkerInv, [Next]_vars
  PROVE  PublishersInv'
<1> USE DEF history, places
<1>1. ASSUME NEW p \in Publishers, Publish(p)  PROVE PublishersInv'
  <2>1. Accepted' = Accepted \cup {accepted + 1} /\ accepted + 1 \notin {0} \cup Accepted
    BY <1>1 DEF Publish, Accepted, TypeOK
  <2>2. /\ pub'[p] = [at |-> "begin", msg |-> accepted + 1]
        /\ \A q \in Publishers : q # p => pub'[q] = pub[q]
    BY <1>1 DEF Publish, TypeOK
  <2>3. \A q \in Publishers : pub[q].msg \in {0} \cup Accepted  BY DEF PublishersInv
  <2>4. UNCHANGED <<queued, cached, received, stored, discarded>>  BY <1>1 DEF Publish
  <2>5. \A q \in Publishers :
          /\ pub'[q].msg \in {0} \cup Accepted'
          /\ pub'[q].at = "idle" <=> pub'[q].msg = 0
          /\ pub'[q].at \in {"begin", "send", "cache"} => pub'[q].msg \notin stored'
    BY <2>1, <2>2, <2>3, <2>4 DEF PublishersInv
  <2>6. \A q, r \in Publishers : pub'[q].msg = pub'[r].msg /\ pub'[q].at # "idle" => q = r
    BY <2>1, <2>2, <2>3 DEF PublishersInv
  <2> QED  BY <2>1, <2>4, <2>5, <2>6 DEF PublishersInv
<1>2. ASSUME NEW p \in Publishers, CacheFails(p) \/ PublisherStep(p)  PROVE PublishersInv'
  <2>0. pub[p].at # "idle"
    BY <1>2 DEF CacheFails, PublisherStep, PublishTests, PublishSends, PublishCaches,
                BackupSends, BackupSkipped, Step
  <2>1. pub[p].msg \in Accepted  BY <2>0 DEF PublishersInv
  <2>2. CASE CacheFails(p)
    BY <2>1, <2>2, StepOwner DEF CacheFails, PublishersInv
  <2>3. CASE PublishTests(p)
    BY <2>1, <2>3, StepOwner DEF PublishTests, PublishersInv
  <2>4. CASE PublishSends(p)
    <3>1. queued' \subseteq Accepted
      BY <2>1, <2>4 DEF PublishSends, HandOverSucceeds, HandOverFails, Taken, PublishersInv
    <3> QED  BY <3>1, <2>1, <2>4, StepOwner DEF PublishSends, PublishersInv
  <2>5. CASE PublishCaches(p)
    BY <2>1, <2>5, StepOwner DEF PublishCaches, PublishersInv
  <2>6. CASE BackupSends(p)
    BY <2>1, <2>6, StepOwner DEF BackupSends, PublishersInv
  <2>7. CASE BackupSkipped(p)
    BY <2>1, <2>7, StepOwner DEF BackupSkipped, PublishersInv
  <2> QED  BY <1>2, <2>2, <2>3, <2>4, <2>5, <2>6, <2>7 DEF PublisherStep
\* The other steps leave the publishers alone and move no message they hold.
<1>3. ASSUME accepted' = accepted, pub' = pub, stored' = stored, cached' \subseteq cached,
             queued' \cup received' \cup discarded' \subseteq Accepted
      PROVE  PublishersInv'
  <2>1. Accepted' = Accepted  BY <1>3 DEF Accepted
  <2> QED  BY <1>3, <2>1 DEF PublishersInv
<1>4. CASE WorkerStep
  <2>1. worker.batch \subseteq Accepted  BY DEF WorkerInv, PublishersInv
  <2>2. worker.left \subseteq worker.batch  BY DEF TypeOK
  <2>3. CASE WorkerReads \/ WorkerTests \/ WorkerDeletes \/ WorkerRecordsFailure
    BY <1>3, <2>3 DEF WorkerReads, WorkerTests, WorkerDeletes, WorkerRecordsFailure,
                      PublishersInv
  <2>4. CASE WorkerSends
    BY <1>3, <2>1, <2>2, <2>4 DEF WorkerSends, HandOverSucceeds, HandOverFails, Taken,
                                  PublishersInv
  <2> QED  BY <1>4, <2>3, <2>4 DEF WorkerStep
<1>5. CASE LinkStep \/ ReplaceClient
  BY <1>3, <1>5 DEF LinkStep, LinkBreaks, LinkNoticed, LinkReconnects, CreateClient,
                    LinkMoves, ReplaceClient, PublishersInv
<1>6. CASE \E m \in Messages : BrokerReceives(m) \/ PubAck(m)
  BY <1>3, <1>6 DEF BrokerReceives, PubAck, PublishersInv
<1>7. CASE Crash
  <2>1. Accepted' = Accepted  BY <1>7 DEF Crash, Accepted
  <2>2. \A p \in Publishers : pub'[p] = PubIdle  BY <1>7 DEF Crash
  <2>3. InHand \ {0} \subseteq Accepted  BY DEF InHand, PublishersInv
  <2>4. queued' = {} /\ discarded' = discarded \cup queued \cup (InHand \ {0})
        /\ UNCHANGED <<cached, received, stored>>
    BY <1>7 DEF Crash
  <2> QED  BY <2>1, <2>2, <2>3, <2>4 DEF PubIdle, PublishersInv
<1>8. CASE WorkerFails \/ UNCHANGED vars
  BY <1>3, <1>8 DEF WorkerFails, vars, PublishersInv
<1> QED  BY Actors, <1>1, <1>2, <1>4, <1>5, <1>6, <1>7, <1>8

-----------------------------------------------------------------------------
(* What the worker knows.                                                  *)

LEMMA WorkerPreserved ==
  ASSUME TypeOK, WorkerInv, [Next]_vars
  PROVE  WorkerInv'
<1> USE DEF history, places
\* A step of the others takes nothing from the table, and takes from the client's
\* queue only what is received or discarded.
<1>1. ASSUME worker' = worker, retry' = retry, cached \subseteq cached',
             queued \cup received \cup discarded \subseteq queued' \cup received' \cup discarded'
      PROVE  WorkerInv'
  <2>1. worker.batch \subseteq cached' \ DeadLetters'
    BY <1>1 DEF WorkerInv, DeadLetters
  <2> QED  BY <1>1, <2>1 DEF WorkerInv, WorkerIdle
<1>2. CASE \E p \in Publishers : Publish(p) \/ CacheFails(p) \/ PublisherStep(p)
  BY <1>1, <1>2 DEF Publish, CacheFails, PublisherStep, PublishTests, PublishSends,
       PublishCaches, BackupSends, BackupSkipped, HandOverSucceeds, HandOverFails, Taken
<1>3. CASE LinkStep \/ ReplaceClient
  BY <1>1, <1>3 DEF LinkStep, LinkBreaks, LinkNoticed, LinkReconnects, CreateClient,
                    LinkMoves, ReplaceClient
<1>4. CASE \E m \in Messages : BrokerReceives(m) \/ PubAck(m)
  BY <1>1, <1>4 DEF BrokerReceives, PubAck
<1>5. CASE WorkerStep
  <2>1. CASE WorkerReads
    <3>1. PICK due \in (SUBSET (cached \ DeadLetters)) \ {{}} :
            worker' = [at |-> "check", batch |-> due, left |-> due, ok |-> TRUE]
      BY <2>1 DEF WorkerReads
    <3>2. DeadLetters' = DeadLetters /\ cached' = cached
      BY <2>1 DEF WorkerReads, DeadLetters
    <3> QED  BY <3>1, <3>2 DEF WorkerInv
  <2>2. CASE WorkerTests
    <3>1. DeadLetters' = DeadLetters /\ UNCHANGED <<cached, queued, received, discarded>>
      BY <2>2 DEF WorkerTests, DeadLetters
    <3>2. /\ worker'.at # "idle" /\ worker'.batch = worker.batch
          /\ worker'.ok => worker.ok /\ worker'.left = worker.left
      BY <2>2 DEF WorkerTests, TypeOK
    <3> QED  BY <3>1, <3>2 DEF WorkerInv
  <2>3. CASE WorkerSends
    <3>1. PICK m \in worker.left, good \in BOOLEAN :
            /\ IF good THEN HandOverSucceeds(m) ELSE HandOverFails(m)
            /\ worker' = [worker EXCEPT !.at = "check", !.left = @ \ {m}, !.ok = @ /\ good]
      BY <2>3 DEF WorkerSends
    <3>2. DeadLetters' = DeadLetters /\ UNCHANGED <<cached, received, discarded>>
      BY <2>3 DEF WorkerSends, DeadLetters
    <3>3. /\ worker'.at = "check" /\ worker'.batch = worker.batch
          /\ worker'.left = worker.left \ {m} /\ worker'.ok = (worker.ok /\ good)
      BY <3>1 DEF TypeOK
    <3>4. queued \subseteq queued' /\ (good => m \in queued')
      BY <3>1 DEF HandOverSucceeds, HandOverFails, Taken
    <3> QED  BY <3>2, <3>3, <3>4 DEF WorkerInv
  <2>4. CASE WorkerDeletes \/ WorkerRecordsFailure
    BY <2>4 DEF WorkerDeletes, WorkerRecordsFailure, WorkerIdle, WorkerInv
  <2> QED  BY <1>5, <2>1, <2>2, <2>3, <2>4 DEF WorkerStep
<1>6. CASE Crash \/ WorkerFails
  BY <1>6 DEF Crash, WorkerFails, WorkerIdle, WorkerInv
<1>7. CASE UNCHANGED vars
  BY <1>1, <1>7 DEF vars
<1> QED  BY Actors, <1>2, <1>3, <1>4, <1>5, <1>6, <1>7

-----------------------------------------------------------------------------
(* Where messages are, and how they get from one place to another.         *)

\* Every place but the publishers' hands, and the causes of a loss.
Elsewhere == queued \cup cached \cup received \cup discarded

\* LossHasACause, without the detour over the status; and what _try_backup() may
\* rely on when it gives up.
KeptInv ==
  /\ Accepted \subseteq Elsewhere \cup InHand
  /\ \A p \in Publishers : pub[p].at = "backup" => pub[p].msg \in Elsewhere

LEMMA KeptIsLossHasACause ==
  ASSUME TypeOK, KeptInv
  PROVE  LossHasACause
<1> SUFFICES ASSUME NEW m \in Messages, status[m] = "lost"  PROVE m \in discarded
  BY DEF LossHasACause
<1>1. m \notin received /\ m \notin Held /\ ~(m > accepted)  BY DEF status
<1>2. m \in Accepted  BY <1>1 DEF Messages, Accepted, TypeOK
<1> QED  BY <1>1, <1>2 DEF KeptInv, Elsewhere, Held

\* No step takes a message out of all those places.
LEMMA ElsewhereGrows ==
  ASSUME TypeOK, WorkerInv, [Next]_vars
  PROVE  Elsewhere \subseteq Elsewhere'
<1> USE DEF history, places
<1>1. CASE \E p \in Publishers : Publish(p) \/ CacheFails(p) \/ PublisherStep(p)
  BY <1>1 DEF Publish, CacheFails, PublisherStep, PublishTests, PublishSends, PublishCaches,
       BackupSends, BackupSkipped, HandOverSucceeds, HandOverFails, Taken, Elsewhere
<1>2. CASE WorkerStep
  <2>1. CASE WorkerReads \/ WorkerTests \/ WorkerRecordsFailure
    BY <2>1 DEF WorkerReads, WorkerTests, WorkerRecordsFailure, Elsewhere
  <2>2. CASE WorkerSends
    BY <2>2 DEF WorkerSends, HandOverSucceeds, HandOverFails, Taken, Elsewhere
  <2>3. CASE WorkerDeletes
    <3>1. worker.batch \subseteq queued \cup received \cup discarded
      BY <2>3 DEF WorkerDeletes, WorkerInv
    <3> QED  BY <2>3, <3>1 DEF WorkerDeletes, Elsewhere
  <2> QED  BY <1>2, <2>1, <2>2, <2>3 DEF WorkerStep
<1>3. CASE LinkStep \/ ReplaceClient \/ Crash \/ WorkerFails
  BY <1>3 DEF LinkStep, LinkBreaks, LinkNoticed, LinkReconnects, CreateClient, LinkMoves,
              ReplaceClient, Crash, WorkerFails, Elsewhere
<1>4. CASE \E m \in Messages : BrokerReceives(m) \/ PubAck(m)
  BY <1>4 DEF BrokerReceives, PubAck, Elsewhere
<1>5. CASE UNCHANGED vars
  BY <1>5 DEF vars, Elsewhere
<1> QED  BY Actors, <1>1, <1>2, <1>3, <1>4, <1>5

\* A publisher takes part in the hands of all, and lets go of its message only
\* when it becomes idle.
LEMMA InHandStep ==
  ASSUME TypeOK, NEW p \in Publishers, NEW from, NEW to, Step(p, from, to)
  PROVE  /\ InHand \subseteq InHand' \cup {pub[p].msg}
         /\ to # "idle" => InHand' = InHand
         /\ InHand' \subseteq InHand \cup {0}
<1>1. \A q \in Publishers : q # p => pub'[q] = pub[q]  BY DEF Step, TypeOK
<1>2. pub'[p].msg = IF to = "idle" THEN 0 ELSE pub[p].msg
  BY DEF Step, TypeOK, PubIdle
<1>3. pub[p].msg \in InHand  BY DEF InHand
<1>4. \A q \in Publishers : pub'[q].msg \in InHand \cup {0}
  BY <1>1, <1>2 DEF InHand
<1>5. \A q \in Publishers : pub[q].msg \in InHand' \cup {pub[p].msg}
  BY <1>1 DEF InHand
<1>6. to # "idle" => \A q \in Publishers : pub'[q].msg = pub[q].msg
  BY <1>1, <1>2
<1> QED  BY <1>4, <1>5, <1>6 DEF InHand

LEMMA InHandPublish ==
  ASSUME TypeOK, PublishersInv, NEW p \in Publishers, Publish(p)
  PROVE  /\ InHand \ {0} \subseteq InHand'
         /\ accepted + 1 \in InHand'
         /\ InHand' \subseteq InHand \cup {accepted + 1}
<1>1. /\ pub'[p].msg = accepted + 1 /\ pub[p].msg = 0
      /\ \A q \in Publishers : q # p => pub'[q] = pub[q]
  BY DEF Publish, TypeOK, PublishersInv
<1>2. \A q \in Publishers : pub'[q].msg \in InHand \cup {accepted + 1}
  BY <1>1 DEF InHand
<1>3. \A q \in Publishers : pub[q].msg \in InHand' \cup {0}
  BY <1>1 DEF InHand
<1> QED  BY <1>1, <1>2, <1>3 DEF InHand

\* No step takes a message out of the publishers' hands without putting it
\* somewhere else.
LEMMA InHandKept ==
  ASSUME TypeOK, PublishersInv, WorkerInv, KeptInv, [Next]_vars
  PROVE  InHand \ {0} \subseteq InHand' \cup Elsewhere'
<1> USE DEF history, places
<1>0. ASSUME pub' = pub  PROVE InHand' = InHand
  BY <1>0 DEF InHand
<1>1. ASSUME NEW p \in Publishers, Publish(p)
      PROVE  InHand \ {0} \subseteq InHand'
  BY <1>1, InHandPublish
<1>2. ASSUME NEW p \in Publishers, CacheFails(p) \/ PublisherStep(p)
      PROVE  InHand \subseteq InHand' \cup Elsewhere'
  <2>1. CASE CacheFails(p)
    BY <2>1, InHandStep DEF CacheFails, Elsewhere
  <2>2. CASE PublishTests(p)
    BY <2>2, InHandStep DEF PublishTests
  <2>3. CASE PublishSends(p)
    BY <2>3, InHandStep DEF PublishSends, HandOverSucceeds, Taken, Elsewhere
  <2>4. CASE PublishCaches(p)
    BY <2>4, InHandStep DEF PublishCaches
  <2>5. CASE BackupSends(p)
    BY <2>5, InHandStep DEF BackupSends, Elsewhere
  <2>6. CASE BackupSkipped(p)
    <3>1. pub[p].msg \in Elsewhere  BY <2>6 DEF BackupSkipped, Step, KeptInv
    <3>2. pub[p].msg \in Elsewhere'  BY <3>1, ElsewhereGrows
    <3> QED  BY <2>6, <3>2, InHandStep DEF BackupSkipped
  <2> QED  BY <1>2, <2>1, <2>2, <2>3, <2>4, <2>5, <2>6 DEF PublisherStep
<1>3. CASE WorkerStep
  BY <1>0, <1>3 DEF WorkerStep, WorkerReads, WorkerTests, WorkerSends, WorkerDeletes,
                    WorkerRecordsFailure
<1>4. CASE LinkStep \/ ReplaceClient \/ WorkerFails
  BY <1>0, <1>4 DEF LinkStep, LinkBreaks, LinkNoticed, LinkReconnects, CreateClient,
                    LinkMoves, ReplaceClient, WorkerFails
<1>5. CASE Crash
  BY <1>5 DEF Crash, Elsewhere
<1>6. CASE \E m \in Messages : BrokerReceives(m) \/ PubAck(m)
  BY <1>0, <1>6 DEF BrokerReceives, PubAck
<1>7. CASE UNCHANGED vars
  BY <1>0, <1>7 DEF vars
<1> QED  BY Actors, <1>1, <1>2, <1>3, <1>4, <1>5, <1>6, <1>7

LEMMA KeptPreserved ==
  ASSUME TypeOK, PublishersInv, WorkerInv, KeptInv, [Next]_vars
  PROVE  KeptInv'
<1> USE DEF history, places
<1>1. Elsewhere \subseteq Elsewhere'  BY ElsewhereGrows
<1>2. InHand \ {0} \subseteq InHand' \cup Elsewhere'  BY InHandKept
<1>3. Accepted' \subseteq Elsewhere' \cup InHand'
  <2>1. ASSUME NEW p \in Publishers, Publish(p)  PROVE Accepted' = Accepted \cup {accepted + 1}
    <3>1. accepted \in Nat /\ accepted' = accepted + 1  BY <2>1 DEF Publish, TypeOK
    <3> QED  BY <3>1 DEF Accepted
  <2>2. 0 \notin Accepted  BY DEF Accepted, TypeOK
  <2>3. CASE \E p \in Publishers : Publish(p)
    <3>1. PICK p \in Publishers : Publish(p)  BY <2>3
    <3>2. Accepted' = Accepted \cup {accepted + 1}  BY <2>1, <3>1
    <3>3. accepted + 1 \in InHand'  BY <3>1, InHandPublish
    <3> QED  BY <2>2, <3>2, <3>3, <1>1, <1>2 DEF KeptInv
  <2>4. CASE ~\E p \in Publishers : Publish(p)
    <3>1. accepted' = accepted
      <4>1. CASE \E p \in Publishers : CacheFails(p) \/ PublisherStep(p)
        BY <4>1 DEF CacheFails, PublisherStep, PublishTests, PublishSends, PublishCaches,
                    BackupSends, BackupSkipped
      <4>2. CASE WorkerStep
        BY <4>2 DEF WorkerStep, WorkerReads, WorkerTests, WorkerSends, WorkerDeletes,
                    WorkerRecordsFailure
      <4>3. CASE LinkStep \/ ReplaceClient \/ Crash \/ WorkerFails
        BY <4>3 DEF LinkStep, LinkBreaks, LinkNoticed, LinkReconnects, CreateClient,
                    LinkMoves, ReplaceClient, Crash, WorkerFails
      <4>4. CASE \E m \in Messages : BrokerReceives(m) \/ PubAck(m)
        BY <4>4 DEF BrokerReceives, PubAck
      <4> QED  BY <2>4, <4>1, <4>2, <4>3, <4>4, Actors DEF vars
    <3> QED  BY <3>1, <2>2, <1>1, <1>2 DEF KeptInv, Accepted
  <2> QED  BY <2>3, <2>4
\* Only the two outcomes of cache_data() lead to _try_backup().
<1>4. ASSUME NEW p \in Publishers, pub'[p].at = "backup"  PROVE pub'[p].msg \in Elsewhere'
  <2>1. CASE pub'[p] = pub[p]
    BY <1>1, <1>4, <2>1 DEF KeptInv
  <2>2. CASE pub'[p] # pub[p]
    <3>1. PICK q \in Publishers : Publish(q) \/ CacheFails(q) \/ PublisherStep(q)
      <4>1. pub' # pub  BY <2>2
      <4>2. ~WorkerStep
        BY <4>1 DEF WorkerStep, WorkerReads, WorkerTests, WorkerSends, WorkerDeletes,
                    WorkerRecordsFailure
      <4>3. ~(LinkStep \/ ReplaceClient \/ WorkerFails)
        BY <4>1 DEF LinkStep, LinkBreaks, LinkNoticed, LinkReconnects, CreateClient,
                    LinkMoves, ReplaceClient, WorkerFails
      <4>4. ~Crash  BY <1>4 DEF Crash, PubIdle
      <4>5. ~\E m \in Messages : BrokerReceives(m) \/ PubAck(m)
        BY <4>1 DEF BrokerReceives, PubAck
      <4> QED  BY <4>1, <4>2, <4>3, <4>4, <4>5, Actors DEF vars
    <3>2. \A from, to : Step(q, from, to) =>
            /\ q = p /\ to = "backup" /\ pub'[p].msg = pub[p].msg
      BY <1>4, <2>2 DEF Step, TypeOK, PubIdle
    <3>3. CASE Publish(q)
      BY <1>4, <2>2, <3>3 DEF Publish, TypeOK
    <3>4. CASE CacheFails(q)
      BY <3>2, <3>4 DEF CacheFails, Elsewhere
    <3>5. CASE PublishCaches(q)
      BY <3>2, <3>5 DEF PublishCaches, Elsewhere
    <3>6. CASE PublishTests(q) \/ PublishSends(q) \/ BackupSends(q) \/ BackupSkipped(q)
      BY <3>2, <3>6 DEF PublishTests, PublishSends, BackupSends, BackupSkipped
    <3> QED  BY <3>1, <3>3, <3>4, <3>5, <3>6 DEF PublisherStep
  <2> QED  BY <2>1, <2>2
<1> QED  BY <1>3, <1>4 DEF KeptInv

\* Everything is new at the start, and nothing moves by itself.
LEMMA InitInv ==
  ASSUME Init
  PROVE  TypeOK /\ PublishersInv /\ WorkerInv /\ KeptInv
<1> USE DeliveryAssumption DEF Init
<1>1. TypeOK
  <2>1. pub \in [Publishers -> PubRecord]  BY DEF PubIdle, PubRecord
  <2>2. worker \in WorkerRecord /\ worker.left \subseteq worker.batch
    BY DEF WorkerIdle, WorkerRecord
  <2>3. retry \in [Messages -> 0 .. MaxRetries] /\ handed \in [Messages -> Nat]
    OBVIOUS
  <2>4. accepted \in 0 .. MaxMessages /\ faults \in 0 .. MaxFaults  OBVIOUS
  <2> HIDE DEF Init
  <2>5. /\ link = "gone" /\ usingBackup = FALSE
        /\ queued = {} /\ cached = {} /\ received = {} /\ stored = {} /\ discarded = {}
    BY DEF Init
  <2> QED  BY <2>1, <2>2, <2>3, <2>4, <2>5 DEF TypeOK, Link, PubRecord, WorkerRecord
<1>2. PublishersInv  BY DEF PublishersInv, PubIdle
<1>3. WorkerInv  BY DEF WorkerInv, WorkerIdle
<1>4. KeptInv  BY DEF KeptInv, Accepted, PubIdle
<1> QED  BY <1>1, <1>2, <1>3, <1>4

LEMMA TypePreserved ==
  ASSUME TypeOK, PublishersInv, WorkerInv, [Next]_vars
  PROVE  TypeOK'
<1>1. CASE \E p \in Publishers : Publish(p) \/ CacheFails(p) \/ PublisherStep(p)
  <2>1. \A p \in Publishers : pub[p].at # "idle" => pub[p].msg \in Messages
    BY DEF PublishersInv, TypeOK
  <2> QED  BY <1>1, <2>1, PublisherType
<1>2. CASE WorkerStep  BY <1>2, WorkerType
<1>3. CASE LinkStep \/ ReplaceClient \/ Crash \/ WorkerFails
           \/ \E m \in Messages : BrokerReceives(m) \/ PubAck(m)
  BY <1>3, EnvironmentType
<1>4. CASE UNCHANGED vars
  BY <1>4 DEF vars, history, places, TypeOK
<1> QED  BY Actors, <1>1, <1>2, <1>3, <1>4

-----------------------------------------------------------------------------
(* The theorems.                                                           *)

DeliveryInv == TypeOK /\ PublishersInv /\ WorkerInv /\ KeptInv

\* The invariant holds in every reachable state.
THEOREM DeliveryInvariant == Spec => []DeliveryInv
<1>1. Init => DeliveryInv  BY InitInv DEF DeliveryInv
<1>2. DeliveryInv /\ [Next]_vars => DeliveryInv'
  BY TypePreserved, PublishersPreserved, WorkerPreserved, KeptPreserved DEF DeliveryInv
<1> QED  BY <1>1, <1>2, PTL DEF Spec

\* The upload path's state keeps its types: the counters in particular stay within
\* max_retries, though the worker counts on from what it read before the callback.
THEOREM DeliveryTypeCorrect == Spec => []TypeOK
<1>1. DeliveryInv => TypeOK  BY DEF DeliveryInv
<1> QED  BY <1>1, DeliveryInvariant, PTL

\* publish(), the worker and the upload callback never let go of a message: one
\* that is lost was in a replaced client, refused by the cache, or in a crash.
THEOREM LossesHaveACause == Spec => []LossHasACause
<1>1. DeliveryInv => LossHasACause  BY KeptIsLossHasACause DEF DeliveryInv
<1> QED  BY <1>1, DeliveryInvariant, PTL

-----------------------------------------------------------------------------
(* Delivery implements MessageLife.                                        *)

\* Messages are taken over one at a time, one at a time arrives, and no step puts
\* a message back that had left all queues.
Takes ==
  /\ accepted' = accepted + 1 /\ accepted < MaxMessages /\ received' = received
  /\ Held \ {0} \subseteq Held' /\ accepted + 1 \in Held'
  /\ Held' \subseteq Held \cup {0, accepted + 1}

Receives ==
  \E m \in Messages \cap Held :
    /\ accepted' = accepted /\ received' = received \cup {m}
    /\ Held \ {0} \subseteq Held' \cup {m} /\ Held' \subseteq Held \cup {0}

LosesOrStays ==
  accepted' = accepted /\ received' = received /\ Held' \subseteq Held \cup {0}

LEMMA PublisherMoves ==
  ASSUME DeliveryInv, NEW p \in Publishers, Publish(p) \/ CacheFails(p) \/ PublisherStep(p)
  PROVE  Takes \/ Receives \/ LosesOrStays
<1> USE DEF history, places, Held
<1>0. pub[p].msg \in InHand  BY DEF InHand
<1>1. CASE Publish(p)
  BY <1>1, InHandPublish DEF DeliveryInv, Publish, Takes
<1>2. CASE CacheFails(p)
  BY <1>2, InHandStep DEF DeliveryInv, CacheFails, LosesOrStays
<1>3. CASE PublishTests(p) \/ BackupSkipped(p)
  BY <1>3, InHandStep DEF DeliveryInv, PublishTests, BackupSkipped, LosesOrStays
<1>4. CASE PublishSends(p)
  <2>1. queued' \subseteq queued \cup {pub[p].msg}
    BY <1>4 DEF PublishSends, HandOverSucceeds, HandOverFails, Taken
  <2>2. InHand' \subseteq InHand \cup {0}
    BY <1>4, InHandStep DEF DeliveryInv, PublishSends
  <2> QED  BY <1>0, <1>4, <2>1, <2>2 DEF PublishSends, LosesOrStays
<1>5. CASE PublishCaches(p)
  BY <1>0, <1>5, InHandStep DEF DeliveryInv, PublishCaches, LosesOrStays
<1>6. CASE BackupSends(p)
  <2>1. pub[p].msg \in Messages
    BY <1>6 DEF BackupSends, Step, DeliveryInv, TypeOK, PublishersInv
  <2>2. InHand \subseteq InHand' \cup {pub[p].msg} /\ InHand' \subseteq InHand \cup {0}
    BY <1>6, InHandStep DEF DeliveryInv, BackupSends
  <2> QED  BY <1>0, <1>6, <2>1, <2>2 DEF BackupSends, Receives
<1> QED  BY <1>1, <1>2, <1>3, <1>4, <1>5, <1>6 DEF PublisherStep

LEMMA OthersMove ==
  ASSUME DeliveryInv, [Next]_vars,
         ~\E p \in Publishers : Publish(p) \/ CacheFails(p) \/ PublisherStep(p)
  PROVE  Receives \/ LosesOrStays
<1> USE DEF history, places, Held
<1>0. ASSUME pub' = pub  PROVE InHand' = InHand
  BY <1>0 DEF InHand
<1>1. CASE WorkerReads \/ WorkerTests \/ WorkerDeletes \/ WorkerRecordsFailure
  BY <1>0, <1>1 DEF WorkerReads, WorkerTests, WorkerDeletes, WorkerRecordsFailure, LosesOrStays
<1>2. CASE WorkerSends
  <2>1. worker.left \subseteq cached  BY DEF DeliveryInv, TypeOK, WorkerInv
  <2> QED  BY <1>0, <1>2, <2>1 DEF WorkerSends, HandOverSucceeds, HandOverFails, Taken,
                                   LosesOrStays
<1>3. CASE LinkStep \/ ReplaceClient \/ WorkerFails
  BY <1>0, <1>3 DEF LinkStep, LinkBreaks, LinkNoticed, LinkReconnects, CreateClient,
                    LinkMoves, ReplaceClient, WorkerFails, LosesOrStays
<1>4. CASE Crash
  <2>1. InHand' \subseteq {0}  BY <1>4 DEF Crash, InHand, PubIdle
  <2> QED  BY <1>4, <2>1 DEF Crash, LosesOrStays
<1>5. ASSUME NEW m \in Messages, BrokerReceives(m)  PROVE Receives
  BY <1>0, <1>5 DEF BrokerReceives, Receives
<1>6. ASSUME NEW m \in Messages, PubAck(m)  PROVE LosesOrStays
  BY <1>0, <1>6 DEF PubAck, LosesOrStays
<1>7. CASE UNCHANGED vars
  BY <1>0, <1>7 DEF vars, LosesOrStays
<1> QED  BY Actors, <1>1, <1>2, <1>3, <1>4, <1>5, <1>6, <1>7 DEF WorkerStep

LEMMA HeldIsAccepted ==
  ASSUME PublishersInv
  PROVE  Held \subseteq {0} \cup Accepted
BY DEF PublishersInv, Held, InHand

LEMMA TakenIsAMessage ==
  ASSUME DeliveryInv, Takes
  PROVE  accepted \in Nat /\ accepted + 1 \in Messages
<1>1. accepted \in 0 .. MaxMessages  BY DEF DeliveryInv, TypeOK
<1> QED  BY <1>1, DeliveryAssumption DEF Takes, Messages

\* The three ways, as steps of MessageLife.
LEMMA TakesRefine ==
  ASSUME DeliveryInv, Takes
  PROVE  Life!Take(accepted + 1)
<1> DEFINE n == accepted + 1
<1>1. accepted \in Nat /\ n \in Messages /\ \A k \in Messages : k \in Nat /\ k # 0
  BY TakenIsAMessage DEF Messages
<1>2. n \notin received /\ n \notin Held
  BY <1>1, HeldIsAccepted DEF DeliveryInv, PublishersInv, Accepted
<1>3. status[n] = "new"  BY <1>1, <1>2 DEF status
<1>4. \A k \in Messages : k < n => status[k] # "new"  BY <1>1 DEF status
<1>5. \A k \in Messages \ {n} : k \in Held' <=> k \in Held
  BY <1>1 DEF Takes
<1>6. \A k \in Messages \ {n} : k > accepted' <=> k > accepted
  BY <1>1 DEF Takes
<1>7. \A k \in Messages : status'[k] = IF k = n THEN "held" ELSE status[k]
  BY <1>1, <1>2, <1>5, <1>6 DEF status, Takes
<1>8. status' = [status EXCEPT ![n] = "held"]
  BY <1>7 DEF status
<1> QED  BY <1>3, <1>4, <1>8 DEF Life!Take, Life!Messages, Messages

LEMMA ReceivesRefine ==
  ASSUME DeliveryInv, Receives
  PROVE  (\E m \in Messages : Life!Arrive(m)) \/ UNCHANGED status
<1>1. PICK m \in Messages \cap Held :
        /\ accepted' = accepted /\ received' = received \cup {m}
        /\ Held \ {0} \subseteq Held' \cup {m} /\ Held' \subseteq Held \cup {0}
  BY DEF Receives
<1>2. 0 \notin Messages  BY DEF Messages
<1>3. \A k \in Messages \ {m} : k \in Held' <=> k \in Held  BY <1>1, <1>2
<1>4. \A k \in Messages : status'[k] = IF k = m THEN "received" ELSE status[k]
  BY <1>1, <1>3 DEF status
<1>5. CASE m \in received
  <2>1. status[m] = "received"  BY <1>5 DEF status
  <2>2. \A k \in Messages : status'[k] = status[k]  BY <1>4, <2>1
  <2> QED  BY <2>2 DEF status
<1>6. CASE m \notin received
  <2>1. status[m] = "held"  BY <1>1, <1>6 DEF status
  <2>2. status' = [status EXCEPT ![m] = "received"]  BY <1>4 DEF status
  <2> QED  BY <2>1, <2>2 DEF Life!Arrive
<1> QED  BY <1>5, <1>6

LEMMA LosesRefine ==
  ASSUME DeliveryInv, LosesOrStays
  PROVE  (\E gone \in SUBSET Messages : Life!Lose(gone)) \/ UNCHANGED status
<1> DEFINE gone == {k \in Messages : status[k] = "held" /\ status'[k] = "lost"}
<1>1. 0 \notin Messages  BY DEF Messages
<1>2. \A k \in Messages : k > accepted => k \notin Held
  BY <1>1, HeldIsAccepted DEF DeliveryInv, TypeOK, Accepted, Messages
<1>3. \A k \in Messages : status'[k] = IF k \in gone THEN "lost" ELSE status[k]
  BY <1>1, <1>2 DEF status, LosesOrStays
<1>4. status' = [k \in Messages |-> IF k \in gone THEN "lost" ELSE status[k]]
  BY <1>3 DEF status
<1>5. CASE gone = {}
  BY <1>4, <1>5 DEF status
<1>6. CASE gone # {}
  BY <1>4, <1>6 DEF Life!Lose, Life!Messages, Messages
<1> QED  BY <1>5, <1>6

\* The queue, the worker and the clients implement the promise of MessageLife:
\* received and lost are final, and only messages that are held get there.
THEOREM DeliveryImplementsLife == Spec => LifeSpec
<1>1. Init => Life!Init
  <2> SUFFICES ASSUME Init  PROVE Life!Init  OBVIOUS
  <2>1. \A k \in Messages : status[k] = "new"
    BY DEF status, Init, Held, InHand, PubIdle, Messages
  <2> QED  BY <2>1 DEF Life!Init, Life!Messages, Messages, status
<1>2. DeliveryInv /\ [Next]_vars => [Life!Next]_status
  <2> SUFFICES ASSUME DeliveryInv, [Next]_vars  PROVE Life!Next \/ UNCHANGED status
    OBVIOUS
  <2>1. Takes \/ Receives \/ LosesOrStays
    BY PublisherMoves, OthersMove
  <2>2. accepted + 1 \in Messages \/ ~Takes
    BY TakenIsAMessage
  <2> QED
    BY <2>1, <2>2, TakesRefine, ReceivesRefine, LosesRefine
    DEF Life!Next, Life!Messages, Messages
<1> QED  BY <1>1, <1>2, DeliveryInvariant, PTL DEF Spec, LifeSpec, Life!Spec

-----------------------------------------------------------------------------
(* How often a message is handed over.                                     *)

LEMMA BudgetType ==
  ASSUME TypeOK, NEW m \in Messages
  PROVE  /\ ByWorker(m) \in Nat /\ ByPublisher(m) \in 0 .. 2 /\ Budget(m) \in Nat
         /\ handed[m] \in Nat
<1>1. retry[m] \in Nat /\ handed[m] \in Nat /\ faults \in Nat /\ accepted \in Nat
  BY DEF TypeOK
<1>2. ByWorker(m) \in Nat  BY <1>1, DeliveryAssumption DEF ByWorker
<1>3. ByPublisher(m) \in 0 .. 2  BY DEF ByPublisher
<1> QED  BY <1>1, <1>2, <1>3 DEF Budget

LEMMA BudgetTypeNext ==
  ASSUME TypeOK', NEW m \in Messages
  PROVE  Budget(m)' \in Nat /\ handed'[m] \in Nat
<1>1. retry'[m] \in Nat /\ handed'[m] \in Nat /\ faults' \in Nat /\ accepted' \in Nat
  BY DEF TypeOK
<1>2. ByWorker(m)' \in Nat  BY <1>1, DeliveryAssumption DEF ByWorker
<1>3. ByPublisher(m)' \in Nat  BY DEF ByPublisher
<1> QED  BY <1>1, <1>2, <1>3 DEF Budget

\* A message that nobody holds is past its publisher; one that is held by p is
\* held by nobody else.
LEMMA HolderPhase ==
  ASSUME TypeOK, PublishersInv, NEW p \in Publishers, pub[p].at # "idle"
  PROVE  ByPublisher(pub[p].msg) = IF pub[p].at \in {"begin", "send"} THEN 0 ELSE 1
BY DEF PublishersInv, ByPublisher

\* What a step of publish() leaves to its publisher.
LEMMA StepBudget ==
  ASSUME TypeOK, PublishersInv, NEW p \in Publishers, NEW from, NEW to,
         Step(p, from, to), from # "idle",
         to \in {"begin", "send"} => from \in {"begin", "send"},
         NEW m \in Messages
  PROVE  /\ ByPublisher(m)' >= ByPublisher(m)
         /\ m = pub[p].msg /\ from = "send" /\ to \notin {"begin", "send"} =>
              ByPublisher(m)' >= ByPublisher(m) + 1
         /\ m = pub[p].msg /\ HasBackup /\ from = "backup" /\ to = "idle" =>
              ByPublisher(m)' >= ByPublisher(m) + 1
<1>1. \A q \in Publishers : q # p => pub'[q] = pub[q] /\ pub[q].msg # pub[p].msg
  BY DEF Step, TypeOK, PublishersInv
<1>2. pub[p].at = from /\ pub[p].msg # 0  BY DEF Step, PublishersInv
<1>3. IF to = "idle" THEN pub'[p] = PubIdle
      ELSE pub'[p].msg = pub[p].msg /\ pub'[p].at = to
  BY DEF Step, TypeOK
<1>4. m # 0  BY DEF Messages
<1>5. CASE m # pub[p].msg
  <2>1. pub'[p].msg # m  BY <1>3, <1>4, <1>5 DEF PubIdle
  <2>2. ByPublisher(m)' = ByPublisher(m)
    BY <1>1, <1>5, <2>1 DEF ByPublisher
  <2>3. ByPublisher(m) \in 0 .. 2  BY BudgetType
  <2> QED  BY <1>5, <2>2, <2>3
<1>6. CASE m = pub[p].msg
  <2>1. ByPublisher(m) = IF from \in {"begin", "send"} THEN 0 ELSE 1
    BY <1>2, <1>6, HolderPhase
  <2>2. \A q \in Publishers : pub'[q].msg = m => q = p /\ to # "idle" /\ pub'[q].at = to
    BY <1>1, <1>3, <1>4, <1>6 DEF PubIdle
  <2>3. CASE to = "idle"
    <3>1. ByPublisher(m)' = IF HasBackup THEN 2 ELSE 1
      BY <2>2, <2>3 DEF ByPublisher
    <3> QED  BY <2>1, <2>3, <3>1
  <2>4. CASE to # "idle"
    <3>1. pub'[p].msg = m  BY <1>3, <1>6, <2>4
    <3>2. ByPublisher(m)' = IF to \in {"begin", "send"} THEN 0 ELSE 1
      BY <2>2, <2>4, <3>1 DEF ByPublisher
    <3> QED  BY <2>1, <2>4, <3>2
  <2> QED  BY <2>3, <2>4
<1> QED  BY <1>5, <1>6

\* A step stays within the budget if it raises it by what it hands over.
LEMMA WithinBudget ==
  ASSUME TypeOK, TypeOK', HandOverInv,
         \A m \in Messages : handed'[m] - handed[m] <= Budget(m)' - Budget(m)
  PROVE  HandOverInv'
<1> SUFFICES ASSUME NEW m \in Messages  PROVE handed'[m] <= Budget(m)'
  BY DEF HandOverInv
<1>1. handed[m] <= Budget(m)  BY DEF HandOverInv
<1>2. handed[m] \in Nat /\ Budget(m) \in Nat  BY BudgetType
<1>3. handed'[m] \in Nat /\ Budget(m)' \in Nat  BY BudgetTypeNext
<1> QED  BY <1>1, <1>2, <1>3

LEMMA PublisherBudget ==
  ASSUME DeliveryInv, NEW p \in Publishers, Publish(p) \/ CacheFails(p) \/ PublisherStep(p),
         NEW m \in Messages
  PROVE  handed'[m] - handed[m] <= Budget(m)' - Budget(m)
<1> USE DEF history, places
<1>0. /\ ByWorker(m) \in Nat /\ ByPublisher(m) \in 0 .. 2 /\ Budget(m) \in Nat
      /\ handed[m] \in Nat /\ faults \in Nat /\ accepted \in Nat
      /\ retry[m] \in Nat
  BY BudgetType DEF DeliveryInv, TypeOK
<1>1. CASE Publish(p)
  <2>1. /\ accepted' = accepted + 1
        /\ pub'[p] = [at |-> "begin", msg |-> accepted + 1] /\ pub[p].msg = 0
        /\ \A q \in Publishers : q # p => pub'[q] = pub[q]
        /\ UNCHANGED <<cached, stored, retry, worker, handed, faults>>
    BY <1>1 DEF Publish, DeliveryInv, TypeOK, PublishersInv
  <2>2. m # 0  BY DEF Messages
  <2>3. ByWorker(m)' = ByWorker(m)  BY <2>1 DEF ByWorker
  <2>4. CASE m = accepted + 1
    <3>1. m \notin cached /\ m \notin stored
      BY <1>0, <2>4 DEF DeliveryInv, PublishersInv, Accepted
    <3>2. ByWorker(m) = 0  BY <3>1 DEF ByWorker
    <3>3. ByPublisher(m)' = 0  BY <2>1, <2>4 DEF ByPublisher
    <3>4. m \in Nat /\ m > accepted /\ ~(m > accepted')  BY <1>0, <2>1, <2>4
    <3>5. Budget(m) = faults  BY <3>4 DEF Budget
    <3>6. Budget(m)' = faults
      BY <1>0, <2>1, <2>3, <3>2, <3>3, <3>4 DEF Budget
    <3> QED  BY <1>0, <2>1, <3>5, <3>6
  <2>5. CASE m # accepted + 1
    <3>1. ByPublisher(m)' = ByPublisher(m)
      BY <2>1, <2>2, <2>5 DEF ByPublisher
    <3>2. m \in Nat /\ (m > accepted' <=> m > accepted)
      BY <1>0, <2>1, <2>5 DEF Messages
    <3> QED  BY <1>0, <2>1, <2>3, <3>1, <3>2 DEF Budget
  <2> QED  BY <2>4, <2>5
<1>2. CASE CacheFails(p) \/ PublisherStep(p)
  <2>0. pub[p].at # "idle" /\ accepted' = accepted /\ worker' = worker /\ retry' = retry
    BY <1>2 DEF CacheFails, PublisherStep, PublishTests, PublishSends, PublishCaches,
                BackupSends, BackupSkipped, Step
  <2>1. pub[p].msg \in Accepted /\ pub[p].msg \in Messages
    BY <2>0 DEF DeliveryInv, TypeOK, PublishersInv
  <2>2. m = pub[p].msg => ~(m > accepted)
    BY <1>0, <2>1 DEF Accepted
  \* Neither adds to what the worker has done.
  <2>3. ASSUME UNCHANGED <<cached, stored>>  PROVE ByWorker(m)' = ByWorker(m)
    BY <2>0, <2>3 DEF ByWorker
  <2>4. ASSUME ByWorker(m)' >= ByWorker(m), ByWorker(m)' \in Nat, faults' \in Nat,
               ByPublisher(m)' \in Nat,
               ByPublisher(m)' >= ByPublisher(m), faults' >= faults,
               \/ handed'[m] = handed[m]
               \/ /\ handed'[m] = handed[m] + 1 /\ m = pub[p].msg
                  /\ ByPublisher(m)' >= ByPublisher(m) + 1
        PROVE  handed'[m] - handed[m] <= Budget(m)' - Budget(m)
    BY <1>0, <2>0, <2>2, <2>4 DEF Budget
  <2>5. ByPublisher(m)' \in Nat  BY DEF ByPublisher
  <2>6. CASE CacheFails(p)
    <3>1. ByPublisher(m)' >= ByPublisher(m)
      BY <2>6, StepBudget DEF DeliveryInv, CacheFails
    <3>2. UNCHANGED <<cached, stored, handed>> /\ faults' = faults + 1
      BY <2>6 DEF CacheFails
    <3> QED  BY <1>0, <2>3, <2>4, <2>5, <3>1, <3>2
  <2>7. CASE PublishTests(p) \/ BackupSkipped(p)
    <3>1. ByPublisher(m)' >= ByPublisher(m)
      BY <2>7, StepBudget DEF DeliveryInv, PublishTests, BackupSkipped
    <3>2. UNCHANGED <<cached, stored, handed, faults>>
      BY <2>7 DEF PublishTests, BackupSkipped
    <3> QED  BY <1>0, <2>3, <2>4, <2>5, <3>1, <3>2
  <2>8. CASE PublishSends(p)
    <3>1. /\ ByPublisher(m)' >= ByPublisher(m)
          /\ m = pub[p].msg => ByPublisher(m)' >= ByPublisher(m) + 1
      BY <2>8, StepBudget DEF DeliveryInv, PublishSends
    <3>2. UNCHANGED <<cached, stored, faults>>
      BY <2>8 DEF PublishSends
    <3>3. handed'[m] = handed[m] \/ (handed'[m] = handed[m] + 1 /\ m = pub[p].msg)
      BY <2>8, <2>1 DEF PublishSends, HandOverSucceeds, HandOverFails, Taken, DeliveryInv, TypeOK
    <3> QED  BY <1>0, <2>3, <2>4, <2>5, <3>1, <3>2, <3>3
  <2>9. CASE PublishCaches(p)
    <3>1. ByPublisher(m)' >= ByPublisher(m)
      BY <2>9, StepBudget DEF DeliveryInv, PublishCaches
    <3>2. /\ UNCHANGED <<handed, faults>>
          /\ cached' = cached \cup {pub[p].msg} /\ stored' = stored \cup {pub[p].msg}
          /\ pub[p].msg \notin stored /\ cached \subseteq stored
      BY <2>9 DEF PublishCaches, Step, DeliveryInv, PublishersInv
    <3>3. ByWorker(m)' >= ByWorker(m) /\ ByWorker(m)' \in Nat
      <4>1. CASE m = pub[p].msg
        <5>1. ByWorker(m) = 0  BY <3>2, <4>1 DEF ByWorker
        <5>2. ByWorker(m)' \in Nat
          BY <1>0, <2>0, <3>2, <4>1 DEF ByWorker
        <5> QED  BY <5>1, <5>2
      <4>2. CASE m # pub[p].msg
        <5>1. ByWorker(m)' = ByWorker(m)  BY <2>0, <3>2, <4>2 DEF ByWorker
        <5> QED  BY <1>0, <5>1
      <4> QED  BY <4>1, <4>2
    <3> QED  BY <1>0, <2>4, <2>5, <3>1, <3>2, <3>3
  <2>10. CASE BackupSends(p)
    <3>1. /\ ByPublisher(m)' >= ByPublisher(m)
          /\ m = pub[p].msg => ByPublisher(m)' >= ByPublisher(m) + 1
      BY <2>10, StepBudget DEF DeliveryInv, BackupSends
    <3>2. UNCHANGED <<cached, stored, faults>>
      BY <2>10 DEF BackupSends
    <3>3. handed'[m] = handed[m] \/ (handed'[m] = handed[m] + 1 /\ m = pub[p].msg)
      BY <2>10, <2>1 DEF BackupSends, DeliveryInv, TypeOK
    <3> QED  BY <1>0, <2>3, <2>4, <2>5, <3>1, <3>2, <3>3
  <2> QED  BY <1>2, <2>6, <2>7, <2>8, <2>9, <2>10 DEF PublisherStep
<1> QED  BY <1>1, <1>2

LEMMA WorkerBudget ==
  ASSUME DeliveryInv, WorkerStep, NEW m \in Messages
  PROVE  handed'[m] - handed[m] <= Budget(m)' - Budget(m)
<1> USE DEF history, places
<1>0. /\ ByWorker(m) \in Nat /\ ByPublisher(m) \in 0 .. 2 /\ Budget(m) \in Nat
      /\ handed[m] \in Nat /\ faults \in Nat /\ accepted \in Nat /\ retry[m] \in Nat
  BY BudgetType DEF DeliveryInv, TypeOK
<1>1. UNCHANGED <<pub, accepted, stored, faults>>
  BY DEF WorkerStep, WorkerReads, WorkerTests, WorkerSends, WorkerDeletes,
         WorkerRecordsFailure
<1>2. ByPublisher(m)' = ByPublisher(m)  BY <1>1 DEF ByPublisher
<1>3. m \in cached => m \in stored /\ ~(m > accepted)
  BY <1>0 DEF DeliveryInv, PublishersInv, Accepted
<1>4. m \in worker.batch => m \in cached /\ retry[m] < MaxRetries
  <2>1. retry[m] \in 0 .. MaxRetries /\ MaxRetries \in Nat
    BY DeliveryAssumption DEF DeliveryInv, TypeOK
  <2> QED  BY <2>1 DEF DeliveryInv, WorkerInv, DeadLetters
<1>5. MaxRetries \in Nat  BY DeliveryAssumption
\* It is enough to look at what the worker's share does.
<1>6. ASSUME ByWorker(m)' \in Nat,
             \/ handed'[m] = handed[m] /\ ByWorker(m)' >= ByWorker(m)
             \/ /\ handed'[m] = handed[m] + 1 /\ m \in cached
                /\ ByWorker(m)' >= ByWorker(m) + 1
      PROVE  handed'[m] - handed[m] <= Budget(m)' - Budget(m)
  <2>1. CASE m > accepted
    <3>1. Budget(m)' = faults' /\ Budget(m) = faults /\ m > accepted'
      BY <1>1, <2>1 DEF Budget
    <3> QED  BY <1>0, <1>1, <1>3, <1>6, <2>1, <3>1
  <2>2. CASE ~(m > accepted)
    <3>1. /\ Budget(m)' = ByWorker(m)' + ByPublisher(m)' + faults'
          /\ Budget(m) = ByWorker(m) + ByPublisher(m) + faults
      BY <1>1, <2>2 DEF Budget
    <3> QED  BY <1>0, <1>1, <1>2, <1>6, <3>1
  <2> QED  BY <2>1, <2>2
<1>7. CASE WorkerReads
  <2>1. worker.batch \ worker.left = {} /\ worker'.batch \ worker'.left = {}
    BY <1>7 DEF WorkerReads, DeliveryInv, WorkerInv, WorkerIdle
  <2>2. UNCHANGED <<cached, retry, handed>>  BY <1>7 DEF WorkerReads
  <2>3. ByWorker(m)' = ByWorker(m)  BY <1>1, <2>1, <2>2 DEF ByWorker
  <2> QED  BY <1>0, <1>6, <2>2, <2>3
<1>8. CASE WorkerTests
  <2>1. worker'.batch = worker.batch /\ worker'.left \subseteq worker.left
    BY <1>8 DEF WorkerTests, DeliveryInv, TypeOK
  <2>2. UNCHANGED <<cached, retry, handed>>  BY <1>8 DEF WorkerTests
  <2>3. ByWorker(m)' \in Nat /\ ByWorker(m)' >= ByWorker(m)
    BY <1>0, <1>1, <1>5, <2>1, <2>2 DEF ByWorker
  <2> QED  BY <1>0, <1>6, <2>2, <2>3
<1>9. CASE WorkerSends
  <2>1. PICK k \in worker.left, good \in BOOLEAN :
          /\ IF good THEN HandOverSucceeds(k) ELSE HandOverFails(k)
          /\ worker' = [worker EXCEPT !.at = "check", !.left = @ \ {k}, !.ok = @ /\ good]
    BY <1>9 DEF WorkerSends
  <2>2. worker'.batch = worker.batch /\ worker'.left = worker.left \ {k}
    BY <2>1 DEF DeliveryInv, TypeOK
  <2>3. k \in worker.batch /\ worker.left \subseteq worker.batch
    BY DEF DeliveryInv, TypeOK
  <2>4. UNCHANGED <<cached, retry>>  BY <1>9 DEF WorkerSends
  <2>5. handed'[m] = handed[m] \/ (handed'[m] = handed[m] + 1 /\ m = k)
    BY <2>1 DEF HandOverSucceeds, HandOverFails, Taken, DeliveryInv, TypeOK
  <2>6. CASE m = k
    <3>1. ByWorker(m) = retry[m]  BY <1>0, <1>4, <2>3, <2>6 DEF ByWorker
    <3>2. ByWorker(m)' = retry[m] + 1
      BY <1>4, <2>2, <2>3, <2>4, <2>6 DEF ByWorker
    <3> QED  BY <1>0, <1>4, <1>6, <2>3, <2>5, <2>6, <3>1, <3>2
  <2>7. CASE m # k
    <3>1. ByWorker(m)' = ByWorker(m)
      BY <1>1, <2>2, <2>4, <2>7 DEF ByWorker
    <3> QED  BY <1>0, <1>6, <2>5, <2>7, <3>1
  <2> QED  BY <2>6, <2>7
<1>10. CASE WorkerDeletes
  <2>1. cached' = cached \ worker.batch /\ UNCHANGED <<retry, handed>>
        /\ worker'.batch = {}
    BY <1>10 DEF WorkerDeletes, WorkerIdle
  <2>2. CASE m \in worker.batch
    <3>1. ByWorker(m)' = MaxRetries
      BY <1>1, <1>3, <1>4, <2>1, <2>2 DEF ByWorker
    <3>2. ByWorker(m) <= MaxRetries
      BY <1>0, <1>4, <1>5, <2>2 DEF ByWorker
    <3> QED  BY <1>0, <1>5, <1>6, <2>1, <3>1, <3>2
  <2>3. CASE m \notin worker.batch
    <3>1. ByWorker(m)' = ByWorker(m)
      BY <1>1, <2>1, <2>3 DEF ByWorker
    <3> QED  BY <1>0, <1>6, <2>1, <3>1
  <2> QED  BY <2>2, <2>3
<1>11. CASE WorkerRecordsFailure
  <2>1. /\ UNCHANGED <<cached, handed>> /\ worker'.batch = {} /\ worker.left = {}
        /\ retry'[m] = IF m \in worker.batch THEN retry[m] + 1 ELSE retry[m]
    BY <1>11 DEF WorkerRecordsFailure, WorkerIdle
  <2>2. ByWorker(m)' \in Nat /\ ByWorker(m)' >= ByWorker(m)
    BY <1>0, <1>1, <1>4, <1>5, <2>1 DEF ByWorker
  <2> QED  BY <1>0, <1>6, <2>1, <2>2
<1> QED  BY <1>7, <1>8, <1>9, <1>10, <1>11 DEF WorkerStep

LEMMA EnvironmentBudget ==
  ASSUME DeliveryInv, NEW m \in Messages,
         \/ LinkStep \/ ReplaceClient \/ Crash \/ WorkerFails \/ UNCHANGED vars
         \/ \E k \in Messages : BrokerReceives(k) \/ PubAck(k)
  PROVE  handed'[m] - handed[m] <= Budget(m)' - Budget(m)
<1> USE DEF history, places
<1>0. /\ ByWorker(m) \in Nat /\ ByPublisher(m) \in 0 .. 2 /\ Budget(m) \in Nat
      /\ handed[m] \in Nat /\ faults \in Nat /\ accepted \in Nat /\ retry[m] \in Nat
      /\ MaxRetries \in Nat
  BY BudgetType, DeliveryAssumption DEF DeliveryInv, TypeOK
<1>1. CASE Crash
  <2>1. /\ UNCHANGED <<accepted, cached, stored, retry, handed>>
        /\ faults' = faults + 1 /\ worker'.batch = {}
        /\ \A p \in Publishers : pub'[p].msg = 0
    BY <1>1 DEF Crash, WorkerIdle, PubIdle
  <2>2. ByWorker(m)' \in Nat /\ ByWorker(m)' + 1 >= ByWorker(m)
    BY <1>0, <2>1 DEF ByWorker
  <2>3. m # 0  BY DEF Messages
  <2>4. ByPublisher(m)' = IF HasBackup THEN 2 ELSE 1
    BY <2>1, <2>3 DEF ByPublisher
  <2>5. ByPublisher(m) <= IF HasBackup THEN 2 ELSE 1
    BY DEF ByPublisher
  <2>6. ByPublisher(m)' \in Nat /\ ByPublisher(m)' >= ByPublisher(m)
    BY <1>0, <2>4, <2>5
  <2> QED  BY <1>0, <2>1, <2>2, <2>6 DEF Budget
<1>2. CASE LinkStep \/ ReplaceClient \/ UNCHANGED vars
           \/ \E k \in Messages : BrokerReceives(k) \/ PubAck(k)
  <2>1. UNCHANGED <<accepted, cached, stored, retry, handed, faults, worker, pub>>
    BY <1>2 DEF LinkStep, LinkBreaks, LinkNoticed, LinkReconnects, CreateClient, LinkMoves,
                ReplaceClient, BrokerReceives, PubAck, vars
  <2>2. Budget(m)' = Budget(m)
    BY <2>1 DEF Budget, ByWorker, ByPublisher
  <2> QED  BY <1>0, <2>1, <2>2
\* What a batch that failed has been handed over for once more is the fault's.
<1>3. CASE WorkerFails
  <2>1. /\ UNCHANGED <<accepted, cached, stored, retry, handed, pub>>
        /\ faults' = faults + 1 /\ worker'.batch = {}
    BY <1>3 DEF WorkerFails, WorkerIdle
  <2>2. ByWorker(m)' \in Nat /\ ByWorker(m)' + 1 >= ByWorker(m)
    BY <1>0, <2>1 DEF ByWorker
  <2>3. ByPublisher(m)' = ByPublisher(m)  BY <2>1 DEF ByPublisher
  <2> QED  BY <1>0, <2>1, <2>2, <2>3 DEF Budget
<1> QED  BY <1>1, <1>2, <1>3

\* However batches fail in part, whoever times out and whatever is sent twice: the
\* number of times a message is handed over is bounded by max_retries, the two
\* direct attempts and the faults.
THEOREM HandOversAreBounded == Spec => []HandOversBounded
<1>1. Init => HandOverInv
  <2> SUFFICES ASSUME Init, NEW m \in Messages  PROVE handed[m] <= Budget(m)
    BY DEF HandOverInv
  <2>1. accepted = 0 /\ faults = 0 /\ handed[m] = 0  BY DEF Init
  <2>2. m > accepted  BY <2>1 DEF Messages
  <2> QED  BY <2>1, <2>2 DEF Budget
<1>2. DeliveryInv /\ DeliveryInv' /\ HandOverInv /\ [Next]_vars => HandOverInv'
  BY Actors, PublisherBudget, WorkerBudget, EnvironmentBudget, WithinBudget DEF DeliveryInv
<1>3. DeliveryInv /\ HandOverInv => HandOversBounded
  <2> SUFFICES ASSUME DeliveryInv, HandOverInv, NEW m \in Messages
               PROVE handed[m] <= MaxRetries + 1 + (IF HasBackup THEN 1 ELSE 0) + faults
    BY DEF HandOversBounded
  <2>1. /\ ByWorker(m) \in Nat /\ ByPublisher(m) \in 0 .. 2 /\ Budget(m) \in Nat
        /\ handed[m] \in Nat /\ faults \in Nat /\ retry[m] \in 0 .. MaxRetries
        /\ MaxRetries \in Nat
    BY BudgetType, DeliveryAssumption DEF DeliveryInv, TypeOK
  <2>2. m \in worker.batch => retry[m] < MaxRetries
    BY <2>1 DEF DeliveryInv, WorkerInv, DeadLetters
  <2>3. ByWorker(m) <= MaxRetries  BY <2>1, <2>2 DEF ByWorker
  <2>4. ByPublisher(m) <= IF HasBackup THEN 2 ELSE 1  BY DEF ByPublisher
  <2>5. handed[m] <= Budget(m)  BY DEF HandOverInv
  <2> QED  BY <2>1, <2>3, <2>4, <2>5 DEF Budget
<1> QED  BY <1>1, <1>2, <1>3, DeliveryInvariant, PTL DEF Spec

-----------------------------------------------------------------------------
(* The connection.                                                         *)

AnyPC == AppPC \cup LoopPC

\* The two halves of LinkTypeOK.
PlacesOK ==
  /\ pc \in [Threads -> AnyPC]
  /\ pc[App] \in AppPC /\ \A l \in Loops : pc[l] \in LoopPC

RestOK ==
  /\ state \in MqttState
  /\ client \in {0} \cup Clients
  /\ net \in [Clients -> NetState]
  /\ wanted \in BOOLEAN
  /\ broker \in {"up", "down", "refusing"}

LEMMA TypeHalves == LinkTypeOK <=> PlacesOK /\ RestOK
BY DEF LinkTypeOK, PlacesOK, RestOK, AnyPC

\* App is no loop, so a step of one leaves the other's place alone.
LEMMA ThreadsApart == App \notin Loops /\ App \in Threads /\ Loops \subseteq Threads
BY DEF App, Loops, Threads

\* A thread moves to a place it may be in.
LEMMA MoveType ==
  ASSUME LinkTypeOK, NEW t \in Threads, NEW from, NEW to, Goto(t, from, to),
         IF t = App THEN to \in AppPC ELSE to \in LoopPC
  PROVE  PlacesOK'
<1>1. pc \in [Threads -> AnyPC] /\ pc[App] \in AppPC /\ \A l \in Loops : pc[l] \in LoopPC
  BY DEF LinkTypeOK, AnyPC
<1>2. pc' = [pc EXCEPT ![t] = to] /\ to \in AnyPC
  BY DEF Goto, AnyPC
<1>3. pc' \in [Threads -> AnyPC]
  BY <1>1, <1>2
<1>4. pc'[App] \in AppPC
  BY <1>1, <1>2, ThreadsApart
<1>5. \A l \in Loops : pc'[l] \in LoopPC
  BY <1>1, <1>2, ThreadsApart
<1> QED BY <1>3, <1>4, <1>5 DEF PlacesOK

\* connect() returns to a place its caller has.
LEMMA ReturnType ==
  ASSUME LinkTypeOK, NEW t \in Threads, NEW from, NEW ok, Returns(t, from, ok)
  PROVE  PlacesOK'
<1> DEFINE to == IF t = App THEN (IF ok THEN "idle" ELSE "failed")
                            ELSE (IF ok THEN "none" ELSE "check")
<1>1. IF t = App THEN to \in AppPC ELSE to \in LoopPC
  BY DEF AppPC, LoopPC
<1>2. Goto(t, from, to)
  BY DEF Returns
<1>3. t \in Threads
  OBVIOUS
<1> HIDE DEF to
<1> QED BY <1>1, <1>2, <1>3, MoveType

\* A reconnect thread is started only in a free place.
LEMMA ScheduleType ==
  ASSUME LinkTypeOK, NEW moved \in [Threads -> AnyPC],
         moved[App] \in AppPC, \A l \in Loops : moved[l] \in LoopPC,
         ScheduleReconnect(moved)
  PROVE  state' \in MqttState /\ PlacesOK'
<1>1. CASE state = "reconnecting"
  BY <1>1 DEF ScheduleReconnect, MqttState, PlacesOK
<1>2. CASE state # "reconnecting"
  <2>1. PICK l \in Loops : pc' = [moved EXCEPT ![l] = "check"]
    BY <1>2 DEF ScheduleReconnect
  <2>2. "check" \in LoopPC /\ "check" \in AnyPC
    BY DEF LoopPC, AnyPC
  <2>3. state' \in MqttState
    BY <1>2 DEF ScheduleReconnect, MqttState
  <2> QED BY <2>1, <2>2, <2>3, ThreadsApart DEF PlacesOK
<1> QED BY <1>1, <1>2

\* Type correctness, one step at a time.
LEMMA InitType == LinkInit => LinkTypeOK
<1> SUFFICES ASSUME LinkInit PROVE LinkTypeOK
  OBVIOUS
<1>1. \A t \in Threads : pc[t] = IF t = App THEN "idle" ELSE "none"
  BY DEF LinkInit
<1>2. pc \in [Threads -> AppPC \cup LoopPC] /\ pc[App] \in AppPC
  BY ThreadsApart DEF LinkInit, AppPC, LoopPC
<1>3. \A l \in Loops : pc[l] \in LoopPC
  BY <1>1, ThreadsApart DEF LoopPC
<1> QED BY <1>2, <1>3 DEF LinkInit, LinkTypeOK, MqttState, NetState

LEMMA ConnectType ==
  ASSUME LinkTypeOK, NEW t \in Threads, ConnectStep(t)
  PROVE  PlacesOK' /\ RestOK'
<1>0. RestOK
  BY DEF LinkTypeOK, RestOK
<1>a. ConnectPC \subseteq AppPC /\ ConnectPC \subseteq LoopPC
  BY DEF AppPC, LoopPC
<1>1. CASE AlreadyConnected(t)
  <2>1. PlacesOK'
    BY <1>1, ReturnType DEF AlreadyConnected
  <2>2. RestOK'
    BY <1>0, <1>1 DEF RestOK, AlreadyConnected
  <2> QED BY <2>1, <2>2
<1>2. CASE ConnectEnter(t)
  <2>1. PlacesOK'
    BY <1>2, <1>a, MoveType DEF ConnectEnter, ConnectPC
  <2>2. RestOK'
    BY <1>0, <1>2 DEF RestOK, ConnectEnter
  <2> QED BY <2>1, <2>2
<1>3. CASE Cleanup(t)
  <2>1. PlacesOK'
    BY <1>3, <1>a, MoveType DEF Cleanup, ConnectPC
  <2>2. RestOK'
    BY <1>0, <1>3 DEF RestOK, Cleanup, CleanedUp, NetState
  <2> QED BY <2>1, <2>2
<1>4. CASE Create(t)
  <2>1. PlacesOK'
    BY <1>4, <1>a, MoveType DEF Create, ConnectPC
  <2>2. RestOK'
    BY <1>0, <1>4 DEF RestOK, Create, NetState, MqttState
  <2> QED BY <2>1, <2>2
<1>5. CASE Dial(t)
  <2>1. PlacesOK'
    BY <1>5, <1>a, MoveType DEF Dial, ConnectPC
  <2>2. RestOK'
    BY <1>0, <1>5 DEF RestOK, Dial, NetState
  <2> QED BY <2>1, <2>2
<1>6. CASE DialRaises(t)
  <2>1. PlacesOK'
    BY <1>6, ReturnType DEF DialRaises
  <2>2. RestOK'
    BY <1>0, <1>6 DEF RestOK, DialRaises, MqttState
  <2> QED BY <2>1, <2>2
<1>7. CASE PollConnected(t)
  <2>1. PlacesOK'
    <3>1. Returns(t, "poll", client # 0)
      BY <1>7 DEF PollConnected
    <3> QED BY <3>1, ReturnType
  <2>2. RestOK'
    BY <1>0, <1>7 DEF RestOK, PollConnected, MqttState
  <2> QED BY <2>1, <2>2
<1>8. CASE PollError(t)
  <2>1. PlacesOK'
    BY <1>8, ReturnType DEF PollError
  <2>2. RestOK'
    BY <1>0, <1>8 DEF RestOK, PollError
  <2> QED BY <2>1, <2>2
<1>9. CASE PollTimeout(t)
  <2>1. PlacesOK'
    BY <1>9, ReturnType DEF PollTimeout
  <2>2. RestOK'
    BY <1>0, <1>9 DEF RestOK, PollTimeout, MqttState
  <2> QED BY <2>1, <2>2
<1> QED BY <1>1, <1>2, <1>3, <1>4, <1>5, <1>6, <1>7, <1>8, <1>9 DEF ConnectStep

LEMMA LoopType ==
  ASSUME LinkTypeOK, NEW l \in Loops, LoopStep(l)
  PROVE  PlacesOK' /\ RestOK'
<1>0. RestOK /\ l \in Threads /\ l # App
  BY ThreadsApart DEF LinkTypeOK, RestOK
<1>1. CASE LoopGoesOn(l)
  <2>1. PlacesOK'
    BY <1>0, <1>1, MoveType DEF LoopGoesOn, LoopPC
  <2>2. RestOK'
    BY <1>0, <1>1 DEF RestOK, LoopGoesOn
  <2> QED BY <2>1, <2>2
<1>2. CASE LoopEnds(l)
  <2>1. PlacesOK'
    BY <1>0, <1>2, MoveType DEF LoopEnds, LoopPC
  <2>2. RestOK'
    BY <1>0, <1>2 DEF RestOK, LoopEnds
  <2> QED BY <2>1, <2>2
<1>3. CASE LoopWakes(l)
  <2>1. PlacesOK'
    BY <1>0, <1>3, MoveType DEF LoopWakes, LoopPC, ConnectPC
  <2>2. RestOK'
    BY <1>0, <1>3 DEF RestOK, LoopWakes, MqttState
  <2> QED BY <2>1, <2>2
<1> QED BY <1>1, <1>2, <1>3 DEF LoopStep

AppStep == ConnectDevice \/ ConnectDeviceFailed \/ DisconnectDevice \/ DisconnectReturns

LEMMA AppType ==
  ASSUME LinkTypeOK, AppStep
  PROVE  PlacesOK' /\ RestOK'
<1>0. RestOK /\ PlacesOK
  BY TypeHalves
<1>1. CASE ConnectDevice
  <2>1. PlacesOK'
    BY <1>1, ThreadsApart, MoveType DEF ConnectDevice, AppPC, ConnectPC
  <2>2. RestOK'
    BY <1>0, <1>1 DEF RestOK, ConnectDevice
  <2> QED BY <2>1, <2>2
<1>2. CASE ConnectDeviceFailed
  <2> DEFINE moved == [pc EXCEPT ![App] = "idle"]
  <2>1. /\ moved \in [Threads -> AnyPC]
        /\ moved[App] \in AppPC /\ \A l \in Loops : moved[l] \in LoopPC
    BY <1>0, ThreadsApart DEF PlacesOK, AnyPC, AppPC
  <2>2. ScheduleReconnect(moved)
    BY <1>2 DEF ConnectDeviceFailed
  <2> HIDE DEF moved
  <2>3. state' \in MqttState /\ PlacesOK'
    BY <2>1, <2>2, ScheduleType
  <2>4. RestOK'
    BY <1>0, <1>2, <2>3 DEF RestOK, ConnectDeviceFailed
  <2> QED BY <2>3, <2>4
<1>3. CASE DisconnectDevice
  <2>1. PlacesOK'
    BY <1>3, ThreadsApart, MoveType DEF DisconnectDevice, AppPC
  <2>2. RestOK'
    BY <1>0, <1>3 DEF RestOK, DisconnectDevice, CleanedUp, NetState
  <2> QED BY <2>1, <2>2
<1>4. CASE DisconnectReturns
  <2>1. PlacesOK'
    BY <1>4, ThreadsApart, MoveType DEF DisconnectReturns, AppPC
  <2>2. RestOK'
    BY <1>0, <1>4 DEF RestOK, DisconnectReturns, MqttState
  <2> QED BY <2>1, <2>2
<1> QED BY <1>1, <1>2, <1>3, <1>4 DEF AppStep

LEMMA NetworkType ==
  ASSUME LinkTypeOK, NEW p \in Clients, NetworkStep(p)
  PROVE  PlacesOK' /\ RestOK'
<1>0. RestOK /\ PlacesOK
  BY TypeHalves
<1>1. CASE OnDisconnectReconnects(p)
  <2>1. /\ pc \in [Threads -> AnyPC]
        /\ pc[App] \in AppPC /\ \A l \in Loops : pc[l] \in LoopPC
    BY <1>0 DEF PlacesOK
  <2>2. ScheduleReconnect(pc)
    BY <1>1 DEF OnDisconnectReconnects
  <2>3. state' \in MqttState /\ PlacesOK'
    BY <2>1, <2>2, ScheduleType
  <2>4. RestOK'
    BY <1>0, <1>1, <2>3 DEF RestOK, OnDisconnectReconnects, NetState
  <2> QED BY <2>3, <2>4
<1>2. CASE OnConnect(p) \/ OnConnectRefused(p) \/ ConnectionLost(p) \/ OnDisconnect(p) \/ PahoRedials(p)
  <2>1. pc' = pc
    BY <1>2 DEF OnConnect, OnConnectRefused, ConnectionLost, OnDisconnect, PahoRedials
  <2>2. PlacesOK'
    BY <1>0, <2>1 DEF PlacesOK
  <2>3. RestOK'
    BY <1>0, <1>2 DEF RestOK, OnConnect, OnConnectRefused, ConnectionLost, OnDisconnect,
      PahoRedials, NetState, MqttState
  <2> QED BY <2>2, <2>3
<1> QED BY <1>1, <1>2 DEF NetworkStep

\* The state of a link stays in its types: in particular the application's
\* thread never gets into the reconnect loop.
THEOREM LinkTypeCorrect == LinkSpec => []LinkTypeOK
<1>1. LinkTypeOK /\ [LinkNext]_linkVars => LinkTypeOK'
  <2> SUFFICES ASSUME LinkTypeOK, [LinkNext]_linkVars PROVE PlacesOK' /\ RestOK'
    BY TypeHalves DEF LinkTypeOK, PlacesOK, RestOK, AnyPC
  <2>0. PlacesOK /\ RestOK
    BY TypeHalves
  <2>1. CASE AppStep
    BY <2>1, AppType
  <2>2. CASE \E t \in Threads : ConnectStep(t)
    BY <2>2, ConnectType
  <2>3. CASE \E l \in Loops : LoopStep(l)
    BY <2>3, LoopType
  <2>4. CASE \E p \in Clients : NetworkStep(p)
    BY <2>4, NetworkType
  <2>5. CASE BrokerChanges
    BY <2>0, <2>5 DEF BrokerChanges, PlacesOK, RestOK
  <2>6. CASE UNCHANGED linkVars
    BY <2>0, <2>6 DEF linkVars, PlacesOK, RestOK
  <2> QED BY <2>1, <2>2, <2>3, <2>4, <2>5, <2>6 DEF LinkNext, AppStep
<1> QED BY <1>1, InitType, PTL DEF LinkSpec

-----------------------------------------------------------------------------

\* A thread that moves and is no loop that ends leaves the loops running.
LEMMA StillALoop ==
  ASSUME LinkTypeOK, ReconnectingHasALoop, NEW t \in Threads, NEW from, NEW to,
         Goto(t, from, to), to # "none" \/ t = App, state' = state
  PROVE  ReconnectingHasALoop'
<1> SUFFICES ASSUME state' = "reconnecting" PROVE \E l \in Loops : pc'[l] # "none"
  BY DEF ReconnectingHasALoop
<1>1. PICK l \in Loops : pc[l] # "none"
  BY DEF ReconnectingHasALoop
<1>2. pc' = [pc EXCEPT ![t] = to] /\ pc \in [Threads -> AnyPC]
  BY DEF Goto, LinkTypeOK, AnyPC
<1>3. pc'[l] # "none"
  BY <1>1, <1>2, ThreadsApart
<1> QED BY <1>3

\* _schedule_reconnect() leaves a reconnect thread at work.
LEMMA ScheduledHasALoop ==
  ASSUME ReconnectingHasALoop, NEW moved \in [Threads -> AnyPC],
         \A l \in Loops : moved[l] = pc[l], ScheduleReconnect(moved)
  PROVE  ReconnectingHasALoop'
<1>1. CASE state = "reconnecting"
  <2>1. PICK l \in Loops : pc[l] # "none"
    BY <1>1 DEF ReconnectingHasALoop
  <2>2. pc'[l] # "none"
    BY <1>1, <2>1 DEF ScheduleReconnect
  <2> QED BY <2>2 DEF ReconnectingHasALoop
<1>2. CASE state # "reconnecting"
  <2>1. PICK l \in Loops : pc' = [moved EXCEPT ![l] = "check"]
    BY <1>2 DEF ScheduleReconnect
  <2>2. pc'[l] # "none"
    BY <2>1, ThreadsApart
  <2> QED BY <2>2 DEF ReconnectingHasALoop
<1> QED BY <1>1, <1>2

\* The early return of _schedule_reconnect() is safe: as long as the state is
\* RECONNECTING there is a reconnect thread that has not ended.
THEOREM ReconnectingIsManned == LinkSpec => []ReconnectingHasALoop
<1>1. LinkInit => ReconnectingHasALoop
  BY DEF LinkInit, ReconnectingHasALoop
<1>2. LinkTypeOK /\ ReconnectingHasALoop /\ [LinkNext]_linkVars => ReconnectingHasALoop'
  <2> SUFFICES ASSUME LinkTypeOK, ReconnectingHasALoop, [LinkNext]_linkVars PROVE ReconnectingHasALoop'
    OBVIOUS
  <2>0. pc \in [Threads -> AnyPC]
    BY DEF LinkTypeOK, AnyPC
  <2>1. CASE ConnectDevice
    BY <2>1, ThreadsApart, StillALoop DEF ConnectDevice
  <2>2. CASE ConnectDeviceFailed
    <3> DEFINE moved == [pc EXCEPT ![App] = "idle"]
    <3>1. moved \in [Threads -> AnyPC] /\ \A l \in Loops : moved[l] = pc[l]
      BY <2>0, ThreadsApart DEF AnyPC, AppPC
    <3>2. ScheduleReconnect(moved)
      BY <2>2 DEF ConnectDeviceFailed
    <3> HIDE DEF moved
    <3> QED BY <3>1, <3>2, ScheduledHasALoop
  <2>3. CASE DisconnectDevice
    BY <2>3, ThreadsApart, StillALoop DEF DisconnectDevice
  <2>4. CASE DisconnectReturns
    BY <2>4 DEF DisconnectReturns, ReconnectingHasALoop
  <2>5. ASSUME NEW t \in Threads, ConnectStep(t) PROVE ReconnectingHasALoop'
    <3>1. CASE AlreadyConnected(t)
      BY <3>1 DEF AlreadyConnected, ReconnectingHasALoop
    <3>2. CASE ConnectEnter(t)
      BY <3>2, StillALoop DEF ConnectEnter
    <3>3. CASE Cleanup(t)
      BY <3>3, StillALoop DEF Cleanup
    <3>4. CASE Create(t)
      BY <3>4 DEF Create, ReconnectingHasALoop
    <3>5. CASE Dial(t)
      BY <3>5, StillALoop DEF Dial
    <3>6. CASE DialRaises(t)
      BY <3>6 DEF DialRaises, ReconnectingHasALoop
    <3>7. CASE PollConnected(t)
      BY <3>7 DEF PollConnected, ReconnectingHasALoop
    <3>8. CASE PollError(t)
      BY <3>8 DEF PollError, ReconnectingHasALoop
    <3>9. CASE PollTimeout(t)
      BY <3>9 DEF PollTimeout, ReconnectingHasALoop
    <3> QED BY <2>5, <3>1, <3>2, <3>3, <3>4, <3>5, <3>6, <3>7, <3>8, <3>9 DEF ConnectStep
  <2>6. ASSUME NEW l \in Loops, LoopStep(l) PROVE ReconnectingHasALoop'
    <3>1. CASE LoopGoesOn(l)
      BY <3>1, ThreadsApart, StillALoop DEF LoopGoesOn
    <3>2. CASE LoopEnds(l)
      BY <3>2 DEF LoopEnds, ReconnectingHasALoop
    <3>3. CASE LoopWakes(l)
      <4>1. pc'[l] # "none"
        BY <2>0, <3>3, ThreadsApart DEF LoopWakes, Goto
      <4> QED BY <4>1 DEF ReconnectingHasALoop
    <3> QED BY <2>6, <3>1, <3>2, <3>3 DEF LoopStep
  <2>7. ASSUME NEW p \in Clients, NetworkStep(p) PROVE ReconnectingHasALoop'
    <3>1. CASE OnDisconnectReconnects(p)
      BY <2>0, <3>1, ScheduledHasALoop DEF OnDisconnectReconnects
    <3>2. CASE OnConnect(p) \/ OnConnectRefused(p) \/ OnDisconnect(p)
      BY <3>2 DEF OnConnect, OnConnectRefused, OnDisconnect, ReconnectingHasALoop
    <3>3. CASE ConnectionLost(p) \/ PahoRedials(p)
      BY <3>3 DEF ConnectionLost, PahoRedials, ReconnectingHasALoop
    <3> QED BY <2>7, <3>1, <3>2, <3>3 DEF NetworkStep
  <2>8. CASE BrokerChanges \/ UNCHANGED linkVars
    BY <2>8 DEF BrokerChanges, linkVars, ReconnectingHasALoop
  <2> QED BY <2>1, <2>2, <2>3, <2>4, <2>5, <2>6, <2>7, <2>8 DEF LinkNext
<1> QED BY <1>1, <1>2, LinkTypeCorrect, PTL DEF LinkSpec

=============================================================================
