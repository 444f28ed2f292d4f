------------------------------ MODULE Delivery ------------------------------
(***************************************************************************)
(* The way of one device's messages to the broker: MqttManager.publish()   *)
(* and MqttClient.publish() of core/mqtt/mqtt_client.py, the retry queue   *)
(* of core/storage/cache_manager.py with its worker and upload callback,   *)
(* and the paho client between them and the broker.                        *)
(*                                                                         *)
(* The parts are reduced to what decides where a message is: of the link   *)
(* (MqttLink.tla) whether the client has a socket and whether the state is *)
(* CONNECTED, of the retry queue (UploadCache.tla) which messages it holds *)
(* and how often each has failed.  Messages are numbered as they are       *)
(* published, with QoS 1.  paho and the broker are external: the client    *)
(* queues what it is given and sends it again after its own reconnections  *)
(* until the PUBACK; it is all forgotten with the client object.           *)
(***************************************************************************)
EXTENDS Integers, FiniteSets

CONSTANTS
  Publishers,    \* collector, API and UI threads that publish
  MaxMessages,   \* bound: messages ever published
  MaxRetries,    \* max_retries of the device's CacheConfig
  MaxFaults,     \* bound: refused or failed insertions, errors of the database, and crashes
  HasBackup      \* a backup broker is configured

ASSUME DeliveryAssumption ==
  /\ MaxMessages \in Nat
  /\ MaxRetries \in Nat \ {0}
  /\ MaxFaults \in Nat
  /\ HasBackup \in BOOLEAN

VARIABLES
  link,        \* the client in use and the state, see Link
  queued,      \* messages the client in use holds until their PUBACK
  cached,      \* messages in the retry queue
  retry,       \* per message: failed attempts of the worker (retry_count)
  pub,         \* per publisher: where it is in publish(), with which message
  worker,      \* the worker: where it is, with which batch
  accepted,    \* number of messages publish() has been called with
  received,    \* messages the broker, or the backup broker, has received
  stored,      \* history: messages that have been in the retry queue
  handed,      \* per message: times it was handed to a paho client
  usingBackup, \* _using_backup
  discarded,   \* history: messages that went with a client, an error or a crash
  faults       \* faults so far

places == <<queued, cached, retry>>
history == <<accepted, received, stored, handed, discarded, faults>>
vars == <<link, places, pub, worker, usingBackup, history>>

Messages == 1 .. MaxMessages

\* "up": CONNECTED, with a socket; "broken": the socket is gone, on_disconnect
\* has not run yet; "down": not CONNECTED; "gone": not CONNECTED, no client.
Link == {"up", "broken", "down", "gone"}
IsConnected == link \in {"up", "broken"}

PubIdle == [at |-> "idle", msg |-> 0]
WorkerIdle == [at |-> "idle", batch |-> {}, left |-> {}, ok |-> TRUE]

TypeOK ==
  /\ link \in Link
  /\ queued \subseteq Messages /\ cached \subseteq Messages
  /\ retry \in [Messages -> 0 .. MaxRetries]
  /\ pub \in [Publishers -> [at: {"idle", "begin", "send", "cache", "backup"},
                             msg: {0} \cup Messages]]
  /\ worker \in [at: {"idle", "check", "send"}, batch: SUBSET Messages,
                 left: SUBSET Messages, ok: BOOLEAN]
  /\ worker.left \subseteq worker.batch
  /\ accepted \in 0 .. MaxMessages
  /\ received \subseteq Messages /\ stored \subseteq Messages /\ discarded \subseteq Messages
  /\ handed \in [Messages -> Nat]
  /\ usingBackup \in BOOLEAN
  /\ faults \in 0 .. MaxFaults

Init ==
  /\ link = "gone"
  /\ queued = {} /\ cached = {}
  /\ retry = [m \in Messages |-> 0]
  /\ pub = [p \in Publishers |-> PubIdle]
  /\ worker = WorkerIdle
  /\ accepted = 0
  /\ received = {} /\ stored = {} /\ discarded = {}
  /\ handed = [m \in Messages |-> 0]
  /\ usingBackup = FALSE
  /\ faults = 0

InHand == {pub[p].msg : p \in Publishers}

-----------------------------------------------------------------------------
(* self._client.publish(m): paho keeps m, but reports a failure when it has *)
(* no socket; and it is an exception when _client has become None.         *)

Taken(m) ==
  /\ queued' = queued \cup {m}
  /\ handed' = [handed EXCEPT ![m] = @ + 1]

\* rc SUCCESS: also while a new connection is not acknowledged yet.
HandOverSucceeds(m) == link \in {"up", "down"} /\ Taken(m)

HandOverFails(m) ==
  \/ link \in {"broken", "down"} /\ Taken(m)
  \/ link = "gone" /\ UNCHANGED <<queued, handed>>

-----------------------------------------------------------------------------
(* MqttManager.publish(), in the thread of publisher p.                    *)

Step(p, from, to) ==
  /\ pub[p].at = from
  /\ pub' = [pub EXCEPT ![p] = IF to = "idle" THEN PubIdle ELSE [@ EXCEPT !.at = to]]

Publish(p) ==
  /\ pub[p].at = "idle"
  /\ accepted < MaxMessages
  /\ accepted' = accepted + 1
  /\ pub' = [pub EXCEPT ![p] = [at |-> "begin", msg |-> accepted + 1]]
  /\ UNCHANGED <<link, places, worker, usingBackup, received, stored, handed,
                 discarded, faults>>

\* The test of is_connected.
PublishTests(p) ==
  /\ Step(p, "begin", IF IsConnected THEN "send" ELSE "cache")
  /\ UNCHANGED <<link, places, worker, usingBackup, history>>

PublishSends(p) ==
  /\ \/ Step(p, "send", "idle") /\ HandOverSucceeds(pub[p].msg)
     \/ Step(p, "send", "cache") /\ HandOverFails(pub[p].msg)
  /\ UNCHANGED <<link, cached, retry, worker, usingBackup, accepted, received,
                 stored, discarded, faults>>

\* Mutant: what paho reports as failed is not cached.
PublishCachesNothing(p) ==
  /\ Step(p, "cache", "backup")
  /\ UNCHANGED <<link, places, worker, usingBackup, history>>

\* cache_data() after a failure.
PublishCaches(p) ==
  /\ Step(p, "cache", "backup")
  /\ cached' = cached \cup {pub[p].msg}
  /\ stored' = stored \cup {pub[p].msg}
  /\ UNCHANGED <<link, queued, retry, worker, usingBackup, accepted, received,
                 handed, discarded, faults>>

\* cache_data() is refused by a full cache, or raises.
CacheFails(p) ==
  /\ faults < MaxFaults
  /\ Step(p, "cache", "backup") \/ Step(p, "cache", "idle")
  /\ discarded' = discarded \cup {pub[p].msg}
  /\ faults' = faults + 1
  /\ UNCHANGED <<link, places, worker, usingBackup, accepted, received, stored, handed>>

\* _try_backup(): a connection of its own, whose end waits for what is queued.
BackupSends(p) ==
  /\ HasBackup /\ ~usingBackup
  /\ Step(p, "backup", "idle")
  /\ received' = received \cup {pub[p].msg}
  /\ handed' = [handed EXCEPT ![pub[p].msg] = @ + 1]
  /\ usingBackup' = TRUE
  /\ UNCHANGED <<link, places, worker, accepted, stored, discarded, faults>>

\* No backup, it has been used before, or it cannot be reached.
BackupSkipped(p) ==
  /\ Step(p, "backup", "idle")
  /\ UNCHANGED <<link, places, worker, usingBackup, history>>

PublisherStep(p) ==
  \/ PublishTests(p) \/ PublishSends(p) \/ PublishCaches(p)
  \/ BackupSends(p) \/ BackupSkipped(p)

-----------------------------------------------------------------------------
(* The upload worker with _cache_upload_callback.                          *)

DeadLetters == {m \in cached : retry[m] = MaxRetries}

\* Mutants: a row that has failed once is never due again; the batch is taken
\* out of the table before it is sent.
WorkerReadsOnce ==
  /\ worker.at = "idle"
  /\ \E due \in (SUBSET {m \in cached : retry[m] = 0}) \ {{}} :
       worker' = [at |-> "check", batch |-> due, left |-> due, ok |-> TRUE]
  /\ UNCHANGED <<link, places, pub, usingBackup, history>>

WorkerPops ==
  /\ worker.at = "idle"
  /\ \E due \in (SUBSET (cached \ DeadLetters)) \ {{}} :
       /\ worker' = [at |-> "check", batch |-> due, left |-> due, ok |-> TRUE]
       /\ cached' = cached \ due
  /\ UNCHANGED <<link, queued, retry, pub, usingBackup, history>>

\* The rows that are due: which ones depends on their backoff.
WorkerReads ==
  /\ worker.at = "idle"
  /\ \E due \in (SUBSET (cached \ DeadLetters)) \ {{}} :
       worker' = [at |-> "check", batch |-> due, left |-> due, ok |-> TRUE]
  /\ UNCHANGED <<link, places, pub, usingBackup, history>>

\* publish() of the next record tests is_connected, and then sends.  (The test
\* of the callback itself is the first of these.)  Records come in the order in
\* which the publishers happened to store them.
WorkerTests ==
  /\ worker.at = "check"
  /\ \E m \in worker.left :
       worker' = IF IsConnected THEN [worker EXCEPT !.at = "send"]
                 ELSE [worker EXCEPT !.left = @ \ {m}, !.ok = FALSE]
  /\ UNCHANGED <<link, places, pub, usingBackup, history>>

WorkerSends ==
  /\ worker.at = "send"
  /\ \E m \in worker.left, success \in BOOLEAN :
       /\ IF success THEN HandOverSucceeds(m) ELSE HandOverFails(m)
       /\ worker' = [worker EXCEPT !.at = "check", !.left = @ \ {m},
                                   !.ok = @ /\ success]
  /\ UNCHANGED <<link, cached, retry, pub, usingBackup, accepted, received,
                 stored, discarded, faults>>

\* The batch is deleted when all of it was handed over, and has failed else.
WorkerDeletes ==
  /\ worker.at = "check" /\ worker.left = {} /\ worker.ok
  /\ cached' = cached \ worker.batch
  /\ worker' = WorkerIdle
  /\ UNCHANGED <<link, queued, retry, pub, usingBackup, history>>

\* Mutant: the attempt is not counted.
WorkerForgetsFailure ==
  /\ worker.at = "check" /\ worker.left = {} /\ ~worker.ok
  /\ worker' = WorkerIdle
  /\ UNCHANGED <<link, places, pub, usingBackup, history>>

WorkerRecordsFailure ==
  /\ worker.at = "check" /\ worker.left = {} /\ ~worker.ok
  /\ retry' = [m \in Messages |-> IF m \in worker.batch THEN retry[m] + 1 ELSE retry[m]]
  /\ worker' = WorkerIdle
  /\ UNCHANGED <<link, queued, cached, pub, usingBackup, history>>

\* The database raises in the DELETE or the UPDATE, and the loop goes on: the batch stays in
\* the table as it was, whatever has been handed over, and comes again uncounted.
WorkerFails ==
  /\ faults < MaxFaults
  /\ worker.at = "check" /\ worker.left = {}
  /\ worker' = WorkerIdle
  /\ faults' = faults + 1
  /\ UNCHANGED <<link, places, pub, usingBackup, accepted, received, stored, handed, discarded>>

WorkerStep ==
  \/ WorkerReads \/ WorkerTests \/ WorkerSends \/ WorkerDeletes \/ WorkerRecordsFailure

-----------------------------------------------------------------------------
(* The link and the broker.                                                *)

\* The broker receives a queued message, perhaps once more.
BrokerReceives(m) ==
  /\ link = "up" /\ m \in queued
  /\ received' = received \cup {m}
  /\ UNCHANGED <<link, places, pub, worker, usingBackup, accepted, stored,
                 handed, discarded, faults>>

\* Its PUBACK arrives.
PubAck(m) ==
  /\ link = "up" /\ m \in queued \cap received
  /\ queued' = queued \ {m}
  /\ UNCHANGED <<link, cached, retry, pub, worker, usingBackup, history>>

BrokerStep == \E m \in Messages : BrokerReceives(m) \/ PubAck(m)

\* The socket goes, on_disconnect runs, paho's own reconnection comes about.
LinkMoves(from, to) ==
  /\ link = from /\ link' = to
  /\ UNCHANGED <<places, pub, worker, usingBackup, history>>

LinkBreaks == LinkMoves("up", "broken")
LinkNoticed == LinkMoves("broken", "down")
LinkReconnects == LinkMoves("down", "up")

\* _cleanup_old_client(), in connect() of a reconnect thread (which may wake
\* with the link up again) or in disconnect(): the queue goes with the client.
ReplaceClient ==
  /\ link # "gone"
  /\ link' = "gone"
  /\ queued' = {}
  /\ discarded' = discarded \cup queued
  /\ UNCHANGED <<cached, retry, pub, worker, usingBackup, accepted, received,
                 stored, handed, faults>>

\* connect() creates the next one.
CreateClient == LinkMoves("gone", "down")

\* The process ends and starts again: only the database is left.
Crash ==
  /\ faults < MaxFaults
  /\ link' = "gone"
  /\ queued' = {}
  /\ pub' = [p \in Publishers |-> PubIdle]
  /\ worker' = WorkerIdle
  /\ usingBackup' = FALSE
  /\ discarded' = discarded \cup queued \cup (InHand \ {0})
  /\ faults' = faults + 1
  /\ UNCHANGED <<cached, retry, accepted, received, stored, handed>>

Environment ==
  \/ LinkBreaks \/ ReplaceClient \/ Crash \/ WorkerFails
  \/ \E p \in Publishers : Publish(p) \/ CacheFails(p)

System ==
  \/ \E p \in Publishers : PublisherStep(p)
  \/ WorkerStep
  \/ BrokerStep
  \/ LinkNoticed \/ LinkReconnects \/ CreateClient

Next == Environment \/ System

Spec == Init /\ [][Next]_vars

\* The gateway's threads go on, and so does a broker that is connected.
FairSpec ==
  /\ Spec
  /\ \A p \in Publishers : WF_vars(PublisherStep(p))
  /\ WF_vars(WorkerStep)
  /\ WF_vars(BrokerStep)

-----------------------------------------------------------------------------
(* Properties.                                                             *)

Held == queued \cup cached \cup InHand

\* What the path promises about each message (MessageLife.tla).
status ==
  [m \in Messages |-> IF m \in received THEN "received"
                      ELSE IF m \in Held THEN "held"
                      ELSE IF m > accepted THEN "new" ELSE "lost"]

Life == INSTANCE MessageLife WITH MaxMessages <- MaxMessages, status <- status

\* Delivery implements it: no message is resurrected or forgotten on the way.
LifeSpec == Life!Spec

\* A message gets lost in no other way than in the queue of a paho client that
\* was replaced, in a cache that did not take it, or in a crash: every path
\* through publish(), the worker and the callback keeps it somewhere.
LossHasACause == \A m \in Messages : status[m] = "lost" => m \in discarded

\* However often a batch is sent again because one of its messages failed, a
\* message is handed over at most once by its publisher, once to the backup
\* broker, max_retries times by the worker, and once more per crash and per error
\* that keeps the worker from noting what it has done (cache_manager.py:125, :172, :199).
HandOversBounded ==
  \A m \in Messages : handed[m] <= MaxRetries + 1 + (IF HasBackup THEN 1 ELSE 0) + faults

\* When the link stays up, every message arrives, unless it was discarded or has
\* become a dead letter.
Arrives ==
  \A m \in Messages :
    <>[](link = "up") =>
      []<>(m <= accepted => m \in received \cup discarded \cup DeadLetters)

\* At-least-once delivery of what the retry queue has stored: it is not lost.
AtLeastOnce == \A m \in stored : status[m] # "lost"

=============================================================================
