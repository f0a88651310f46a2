---------------------------- MODULE SamplingLoop ----------------------------
(***************************************************************************)
(* The finality branch of the node's listener (crates/daser/src/           *)
(* tx_pool_handler.rs) around the sampling client.  The listener handles   *)
(* one notification at a time: it starts the tasks of a range of blocks    *)
(* and waits for all of them.  It can be restarted at any point; only the  *)
(* database survives.                                                      *)
(***************************************************************************)
EXTENDS SamplingClient

CONSTANTS
    BLOCK_SAMPLE_LIMIT, \* blocks of a single call
    MaxRestarts         \* bound: restarts of the node

ASSUME LoopAssumption ==
    BLOCK_SAMPLE_LIMIT \in Nat \ {0} /\ MaxRestarts \in Nat

VARIABLES
    finalized,      \* the highest finalised block
    notifications,  \* finality notifications the listener has not taken yet
    restarts        \* restarts so far

loopVars == <<finalized, notifications, restarts>>
vars == <<clientVars, loopVars>>

min(a, b) == IF a < b THEN a ELSE b
max(a, b) == IF a > b THEN a ELSE b

\* Finality may jump over blocks; only the highest one is notified.
finalize(n) ==
    /\ n > finalized
    /\ finalized' = n
    /\ notifications' = Append(notifications, n)
    /\ UNCHANGED <<clientVars, restarts>>

\* Wrong variant: the range of one call is not limited.
to_block_unlimited(n) == n

\* Wrong variant: the larger of the two ends is taken.
to_block_max(n) == max(n, last_at + BLOCK_SAMPLE_LIMIT)

to_block(n) == min(n, max(last_at + BLOCK_SAMPLE_LIMIT, BLOCK_SAMPLE_LIMIT))

\* Wrong variant: one block too late.
blocks_to_sample_late(n) == {b \in Block : last_at + 1 < b /\ b < to_block(n)}

\* The blocks after last_at and before to_block.
blocks_to_sample(n) == {b \in Block : last_at < b /\ b < to_block(n)}

handle_finality ==
    /\ client_idle
    /\ notifications # <<>>
    /\ notifications' = Tail(notifications)
    /\ start_tasks(blocks_to_sample(Head(notifications)))
    /\ UNCHANGED <<header, confidence, last_processed, last_at_record, sampled,
                   finalized, restarts>>

\* The node stops and starts again: tasks and notifications are gone.  The chain
\* goes on for ever, so under the bound a restart leaves a block to be finalised.
restart ==
    /\ restarts < MaxRestarts
    /\ finalized < MaxBlock
    /\ restarts' = restarts + 1
    /\ task' = [b \in Block |-> "idle"]
    /\ notifications' = <<>>
    /\ UNCHANGED <<header, confidence, last_processed, last_at_record, sampled, finalized>>

LoopInit ==
    /\ ClientInit
    /\ finalized = 0
    /\ notifications = <<>>
    /\ restarts = 0

sampling_step(b) == task_step(b) /\ UNCHANGED loopVars

LoopNext ==
    \/ \E n \in Block : finalize(n)
    \/ handle_finality
    \/ \E b \in Block : sampling_step(b)
    \/ restart

\* The executor polls the listener and its tasks, fetches end with a value or a
\* timeout, and finality goes on.
LoopSpec ==
    /\ LoopInit
    /\ [][LoopNext]_vars
    /\ WF_vars(handle_finality)
    /\ \A b \in Block : WF_vars(sampling_step(b)) /\ WF_vars(finalize(b))

-----------------------------------------------------------------------------
(* Correctness *)

\* "The maximum number of blocks that can be processed in a single call": the
\* listener never has more tasks running, however far finality jumps.
TasksBounded == Cardinality({b \in Block : task[b] # "idle"}) < BLOCK_SAMPLE_LIMIT

\* Only blocks below the finalised one are sampled, also after a restart.
SampledIsFinal == \A b \in Block : task[b] # "idle" \/ b \in sampled => b < finalized

\* The blocks of the first range that can be sampled are sampled, whatever the
\* order in which their tasks end and whenever the node restarts.
FirstBlocksSampled ==
    \A b \in Block :
        b < BLOCK_SAMPLE_LIMIT /\ b < MaxBlock /\ header[b] # "odd" ~> b \in sampled

\* "Sample blocks after finalization to determine block data availability": a block
\* below the finalised one that can be sampled is sampled at last.
FinalBlocksSampled ==
    \A b \in Block : b < finalized /\ header[b] # "odd" ~> b \in sampled
=============================================================================
