--------------------------- MODULE MCUploadCache ---------------------------
(* Configuration for TLC: a small cache that overwrites its oldest row and  *)
(* expires, and one that refuses new rows and keeps its own for ever; the   *)
(* device may be given the other one while it holds a row.                  *)
EXTENDS UploadCache

CONSTANT Second   \* a caller that is at work before the last worker starts

Overwriting == [max_records |-> 1, max_hours |-> 1, overwrite_oldest |-> TRUE,
                max_retries |-> 2, retry_backoff |-> 0, max_backoff |-> 1]
Refusing == [max_records |-> 1, max_hours |-> 0, overwrite_oldest |-> FALSE,
             max_retries |-> 1, retry_backoff |-> 1, max_backoff |-> 1]

MCConfigs == {Overwriting, Refusing}

\* Bound: when the last worker starts, the second caller and the refusing cache
\* are gone, and the database fails no more while the first worker is at work.
\* It keeps cache_data(), RegisterDevice, StartWorker and errors from a step, and
\* no worker's step and no Tick, which are all that has fairness.
InBudget ==
  spawned = MaxWorkers =>
    /\ pc[1] # "done" => faults = 0
    /\ call[Second] = NoCall
    /\ \A d \in Devices : configs[d] # Refusing

StaysInBudget == InBudget'
=============================================================================
