--------------------------- MODULE SamplingClient ---------------------------
(***************************************************************************)
(* The sampling client (crates/daser/src/client.rs) with the local         *)
(* database it shares with the confidence RPC (crates/das-rpc).            *)
(*                                                                         *)
(* sample_block runs as a task per block.  A task fetches its samples,     *)
(* locks the database to save the confidence, and locks it again to note   *)
(* the block as processed; tasks of different blocks interleave.           *)
(***************************************************************************)
EXTENDS Integers, Sequences, FiniteSets

CONSTANTS
    MaxBlock    \* bound: the highest block of the chain

ASSUME ClientAssumption == MaxBlock \in Nat

VARIABLES
    header,         \* block -> what its header carries
    task,           \* block -> where its sample_block stands
    confidence,     \* block -> the confidence record in the database
    last_processed, \* LATEST_PROCESSED_BLOCK_KEY in the database, 0 when absent
    last_at_record, \* LAST_AT_KEY in the database, 0 when absent
    sampled         \* history: blocks whose sample_block has succeeded

clientVars == <<header, task, confidence, last_processed, last_at_record, sampled>>

Block == 1..MaxBlock

\* "blobs": commitments that can be extended; "empty": no commitments; "odd": a
\* number of commitments that cannot be extended.
Header == {"empty", "blobs", "odd"}
Stage == {"idle", "sampling", "saved"}
Reliability == {"none", "available", "unavailable"}

-----------------------------------------------------------------------------
\* sample_block is called for the blocks bs.
start_tasks(bs) == task' = [b \in Block |-> IF b \in bs THEN "sampling" ELSE task[b]]

\* Wrong variant: the block is processed before its samples are fetched.
save_confidence_late(b, result) == UNCHANGED confidence

save_confidence(b, result) ==
    confidence' = [confidence EXCEPT ![b] = result]

\* The samples of a block with blobs are fetched and its confidence is saved.
sample(b, result) ==
    /\ task[b] = "sampling" /\ header[b] = "blobs"
    /\ save_confidence(b, result)
    /\ task' = [task EXCEPT ![b] = "saved"]
    /\ UNCHANGED <<header, last_processed, last_at_record, sampled>>

\* A header whose commitments cannot be extended: sample_block returns the error.
sample_failed(b) ==
    /\ task[b] = "sampling" /\ header[b] = "odd"
    /\ task' = [task EXCEPT ![b] = "idle"]
    /\ UNCHANGED <<header, confidence, last_processed, last_at_record, sampled>>

\* Compares with one record and writes the other.
set_last_at(b) ==
    last_processed' = IF last_at_record = 0 \/ b > last_at_record
                        THEN b ELSE last_processed

\* The end of sample_block; a block without blobs comes here at once.
finish_sampling(b) ==
    /\ \/ task[b] = "saved"
       \/ task[b] = "sampling" /\ header[b] = "empty"
    /\ set_last_at(b)
    /\ sampled' = sampled \cup {b}
    /\ task' = [task EXCEPT ![b] = "idle"]
    /\ UNCHANGED <<header, confidence, last_at_record>>

task_step(b) ==
    \/ \E result \in {"available", "unavailable"} : sample(b, result)
    \/ sample_failed(b)
    \/ finish_sampling(b)

last_at == last_at_record

\* The answer of the RPC, as the set of the values it holds: {} stands for None.
is_available(b) == {confidence[b] = "available"}

client_idle == \A b \in Block : task[b] = "idle"

ClientInit ==
    /\ header \in [Block -> Header]
    /\ task = [b \in Block |-> "idle"]
    /\ confidence = [b \in Block |-> "none"]
    /\ last_processed = 0
    /\ last_at_record = 0
    /\ sampled = {}

-----------------------------------------------------------------------------
(* Correctness *)

\* The database records and the tasks keep their types.
ClientTypeOK ==
    /\ header \in [Block -> Header]
    /\ task \in [Block -> Stage]
    /\ confidence \in [Block -> Reliability]
    /\ last_processed \in 0..MaxBlock
    /\ last_at_record \in 0..MaxBlock
    /\ sampled \subseteq Block

\* Whoever reads a block as processed finds its confidence, in whatever order the
\* tasks end: the block named by the RPC `last` was sampled (sample_block saves the
\* confidence before set_last_at).
ProcessedHasConfidence ==
    \A b \in sampled \cup {last_processed} :
        b > 0 /\ header[b] = "blobs" => confidence[b] # "none"

-----------------------------------------------------------------------------
(* What the comments of the code say *)

\* "Returns the last block number sampled": last_at is the highest block whose
\* sampling has ended, when no task is running.
LastAtIsLastSampled ==
    client_idle => \A b \in sampled : b <= last_at

\* set_last_at writes only when "last > current_last": the block noted as processed
\* never goes back.
LastProcessedAdvances == [][last_processed' >= last_processed]_clientVars

\* "If the block is not in the database, returns `None`" (is_available).
UnknownIsNone == \A b \in Block : confidence[b] = "none" => is_available(b) = {}
=============================================================================
