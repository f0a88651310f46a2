----------------------------- MODULE LightClient -----------------------------
(***************************************************************************)
(* The light client (light/src): it follows the finalised headers, sends   *)
(* each to a message channel and then samples it, one header at a time.    *)
(* main keeps the receiver of the channel and never reads it.  When the    *)
(* subscription ends the program ends; it can be stopped and started at    *)
(* any point, and only the database survives.                              *)
(***************************************************************************)
EXTENDS SamplingClient

CONSTANTS
    ChannelCapacity,    \* messages the channel holds
    MaxRestarts         \* bound: restarts of the program

ASSUME LightAssumption == ChannelCapacity \in Nat \ {0} /\ MaxRestarts \in Nat

VARIABLES
    feed,       \* where finalized_headers stands
    head,       \* the header it handles, 0 when none
    next_head,  \* the next block of the subscription
    finalized,  \* the highest block the subscription is known to have reached
    channel,    \* messages in the channel
    restarts    \* restarts so far

feedVars == <<feed, head, next_head, finalized, channel, restarts>>
vars == <<clientVars, feedVars>>

Feed == {"waiting", "sending", "sampling", "closed"}

advance ==
    /\ next_head' = next_head + 1
    /\ finalized' = next_head

receive ==
    /\ feed = "waiting" /\ next_head <= MaxBlock
    /\ feed' = "sending"
    /\ head' = next_head
    /\ advance
    /\ UNCHANGED <<clientVars, channel, restarts>>

\* An item of the subscription is an error: it is logged and its block is lost.
receive_error ==
    /\ feed = "waiting" /\ next_head <= MaxBlock
    /\ advance
    /\ UNCHANGED <<clientVars, feed, head, channel, restarts>>

has_room == channel < ChannelCapacity

\* The send ends when there is room; then the header is sampled.
send_message ==
    /\ feed = "sending" /\ has_room
    /\ feed' = "sampling"
    /\ channel' = channel + 1
    /\ start_tasks({head})
    /\ UNCHANGED <<header, confidence, last_processed, last_at_record, sampled,
                   head, next_head, finalized, restarts>>

\* Wrong variant: the next header is taken while this one is still sampled.
feed_after_spawned == "waiting"

\* The loop goes on when sample_block has returned.
feed_after == IF task'[head] = "idle" THEN "waiting" ELSE feed

sample_head(b) ==
    /\ task_step(b)
    /\ feed' = feed_after
    /\ UNCHANGED <<head, next_head, finalized, channel, restarts>>

\* The subscription ends: the error is sent and the program ends.
disconnect ==
    /\ feed = "waiting"
    /\ feed' = "closed"
    /\ UNCHANGED <<clientVars, head, next_head, finalized, channel, restarts>>

\* The program starts again.  The subscription starts at the last finalised block,
\* which is the one seen last or some later one.
restart ==
    /\ restarts < MaxRestarts
    /\ restarts' = restarts + 1
    /\ feed' = "waiting" /\ head' = 0 /\ channel' = 0
    /\ \E n \in Block : n >= finalized /\ next_head' = n /\ finalized' = n
    /\ task' = [b \in Block |-> "idle"]
    /\ UNCHANGED <<header, confidence, last_processed, last_at_record, sampled>>

LightInit ==
    /\ ClientInit
    /\ feed = "waiting" /\ head = 0 /\ channel = 0
    /\ next_head = 1 /\ finalized = 0
    /\ restarts = 0

LightNext ==
    \/ receive
    \/ receive_error
    \/ send_message
    \/ \E b \in Block : sample_head(b)
    \/ disconnect
    \/ restart

\* tokio polls the task: what it can do it does at last.
LightSpec ==
    /\ LightInit
    /\ [][LightNext]_vars
    /\ WF_vars(receive) /\ WF_vars(send_message)
    /\ \A b \in Block : WF_vars(sample_head(b))

-----------------------------------------------------------------------------
(* Correctness *)

\* The state of the feed and of the client keep their types; the channel stays
\* within its capacity.
LightTypeOK ==
    /\ ClientTypeOK
    /\ feed \in Feed
    /\ head \in 0..MaxBlock
    /\ next_head \in 1..(MaxBlock + 1)
    /\ finalized \in 0..MaxBlock
    /\ channel \in 0..ChannelCapacity
    /\ restarts \in 0..MaxRestarts

\* Although set_last_at compares with the wrong record, the block the RPC `last`
\* names is the highest one ever sampled, over lost headers and restarts, because
\* finalized_headers waits for sample_block before it takes the next header.
LastIsHighestSampled ==
    /\ last_processed > 0 => last_processed \in sampled
    /\ \A b \in sampled : b <= last_processed

\* "Subscribes to finalized block headers and processes them by sending them to a
\* message channel and sampling them": a header that was received, and that can be
\* sampled, is sampled when the program is not stopped.
HeadersSampled ==
    \A b \in Block :
        feed = "sending" /\ head = b /\ header[b] # "odd" /\ restarts = MaxRestarts
            ~> b \in sampled
=============================================================================
