--------------------------- MODULE OffchainReport ---------------------------
(***************************************************************************)
(* Validators' off-chain workers (crates/pallet-melo-store) composed with  *)
(* the chain of MeloStore.  A node keeps the results of its sampling and,  *)
(* per authority index, the status of its last report in local storage     *)
(* that survives a crash.  After a block is imported the node runs a       *)
(* worker on the state of that block; workers take their time, so the      *)
(* chain and other workers of the node move on between their steps.        *)
(***************************************************************************)
EXTENDS MeloStore, FiniteSetsExt

CONSTANTS
    Node,       \* the validator nodes
    Holds,      \* node -> the session keys in its keystore
    MaxRuns     \* bound: worker runs of a node

ASSUME OffchainAssumption ==
    Holds \in [Node -> SUBSET Authority] /\ MaxRuns \in Nat

VARIABLES
    confidence, \* node -> blob key -> what sampling found
    report_lock,\* node -> authority index -> ReportStatus
    workers,    \* the workers that are running
    runs,       \* node -> workers started so far
    pool,       \* the reports in the transaction pool
    found,      \* history: block, blob index -> authorities that found it missing
    lost        \* history: <<block, authority index, how>> of reports that came to nothing

localVars == <<confidence, report_lock, workers, runs>>
logVars   == <<found, lost>>
offchainVars == <<localVars, pool, logVars>>
vars == <<storeVars, offchainVars>>

BlobKeys == (0..MaxAppId) \X (1..MaxU32)
ReportStatus == [at_block: Blocks, sent_at: Blocks]
\* What a node without a status behaves like: at_block 0 is never reported.
NoStatus == [at_block |-> 0, sent_at |-> 0]

-----------------------------------------------------------------------------
(* Sampling results of a node, kept under (app_id, nonce) *)

\* Sampling a transaction that enters the node's pool overwrites the record of its key.
sample_application(n, key, result) ==
    /\ confidence' = [confidence EXCEPT ![n][key] = result]
    /\ UNCHANGED <<storeVars, report_lock, workers, runs, pool, logVars>>

blob_confidence(n, b, i) ==
    LET m == Metadata[b][i + 1] IN confidence[n][<<m.app_id, m.nonce>>]

blob_indexes(b) == {i \in Indexes : i < Len(Metadata[b])}

\* Wrong variant: a blob nobody has sampled yet counts as unavailable.
get_unavailability_apps_unsampled(n, b) ==
    {i \in blob_indexes(b) : blob_confidence(n, b, i) # "available"}

\* Blobs that were sampled and found unavailable; unknown ones are left out.
get_unavailability_apps(n, b) ==
    {i \in blob_indexes(b) : blob_confidence(n, b, i) = "unavailable"}

-----------------------------------------------------------------------------
(* The worker *)

local_authority_keys(n) == {i \in AuthIndex : i < Len(Keys) /\ Keys[i + 1] \in Holds[n]}

\* The worker of node n on the block imported last; it sees that block's state.
\* It runs again when another block of this height becomes the best one.
offchain_worker(n) ==
    /\ phase = "closed" /\ block_number > 0
    /\ runs[n] < MaxRuns
    /\ LET index_set == get_unavailability_apps(n, block_number)
           todo == local_authority_keys(n)
       IN  workers' = IF index_set = {} \/ todo = {} THEN workers
                        ELSE workers \cup {[node |-> n, run |-> runs[n] + 1,
                               at_block |-> block_number, keys |-> Keys,
                               validators_len |-> Len(Keys),
                               index_set |-> index_set, todo |-> todo,
                               locked |-> FALSE]}
    /\ found' = [found EXCEPT ![block_number] = [i \in Indexes |->
          IF i \in blob_indexes(block_number)
             /\ blob_confidence(n, block_number, i) = "unavailable"
            THEN @[i] \cup Holds[n] ELSE @[i]]]
    /\ runs' = [runs EXCEPT ![n] = @ + 1]
    /\ UNCHANGED <<storeVars, confidence, report_lock, pool, lost>>

authority_index(w) == Min(w.todo)

\* Wrong variant: a worker with no authority left does not end.
advance_endless(w) ==
    workers' = (workers \ {w}) \cup
        {[w EXCEPT !.todo = @ \ {authority_index(w)}, !.locked = FALSE]}

\* Wrong variant: the worker ends after its first authority.
advance_once(w) == workers' = workers \ {w}

\* The worker goes on with its next local authority.
advance(w) ==
    LET rest == w.todo \ {authority_index(w)}
        others == workers \ {w}
    IN  workers' = IF rest = {} THEN others
                     ELSE others \cup {[w EXCEPT !.todo = rest, !.locked = FALSE]}

is_recent(status, at_block, now) ==
    status.at_block = at_block /\ status.sent_at + DELAY_CHECK_THRESHOLD > now

\* with_report_lock up to the closure: one atomic compare-and-set.
acquire_report_lock(w) ==
    /\ ~w.locked
    /\ ~is_recent(report_lock[w.node][authority_index(w)], w.at_block, w.at_block)
    /\ report_lock' = [report_lock EXCEPT ![w.node][authority_index(w)] =
          [at_block |-> w.at_block, sent_at |-> w.at_block]]
    /\ workers' = (workers \ {w}) \cup {[w EXCEPT !.locked = TRUE]}
    /\ UNCHANGED <<storeVars, confidence, runs, pool, logVars>>

\* The blobs that the report of authority i on block b names, wherever it has got to.
reported(b, i) ==
    {k \in Indexes :
        \/ i \in UnavailableVote[b][k]
        \/ \E r \in pool : r.at_block = b /\ r.authority_index = i /\ k \in r.index_set
        \/ \E w \in workers : w.at_block = b /\ w.locked
                             /\ authority_index(w) = i /\ k \in w.index_set}

\* WaitingForInclusion.  A run that found more than the report the node is waiting
\* for gets no second one.
skip_report(w) ==
    LET b == w.at_block
        ai == authority_index(w)
    IN  /\ ~w.locked
        /\ is_recent(report_lock[w.node][ai], b, b)
        /\ lost' = IF w.index_set \subseteq reported(b, ai) THEN lost
                     ELSE lost \cup {<<b, ai, "late">>}
        /\ advance(w)
        /\ UNCHANGED <<storeVars, confidence, report_lock, runs, pool, found>>

\* FailedToAcquireLock: another worker of the node changed the status between
\* the read and the write.
lock_contended(w) ==
    /\ ~w.locked
    /\ \E v \in workers \ {w} : v.node = w.node
    /\ lost' = lost \cup {<<w.at_block, authority_index(w), "dropped">>}
    /\ advance(w)
    /\ UNCHANGED <<storeVars, confidence, report_lock, runs, pool, found>>

submit_report(w) ==
    LET ai == authority_index(w)
    IN  /\ w.locked
        /\ pool' = pool \cup {[at_block |-> w.at_block, authority_index |-> ai,
                               index_set |-> w.index_set,
                               validators_len |-> w.validators_len,
                               signer |-> w.keys[ai + 1]]}
        /\ advance(w)
        /\ UNCHANGED <<storeVars, confidence, report_lock, runs, found, lost>>

\* Wrong variant: the status is kept when the report could not be sent.
release_report_lock_kept(w) == UNCHANGED report_lock

release_report_lock(w) ==
    report_lock' = [report_lock EXCEPT ![w.node][authority_index(w)] =
        [at_block |-> w.at_block, sent_at |-> 0]]

\* FailedSigning or SubmitTransaction
submit_report_failed(w) ==
    /\ w.locked
    /\ release_report_lock(w)
    /\ lost' = lost \cup {<<w.at_block, authority_index(w), "failed">>}
    /\ advance(w)
    /\ UNCHANGED <<storeVars, confidence, runs, pool, found>>

\* A crash ends the workers of a node; its local storage stays.
crash(n) ==
    /\ \E w \in workers : w.node = n
    /\ workers' = {w \in workers : w.node # n}
    /\ lost' = lost \cup {x \in Blocks \X AuthIndex \X {"dropped"} :
          \E w \in workers : w.node = n /\ x[1] = w.at_block /\ x[2] \in w.todo}
    /\ UNCHANGED <<storeVars, confidence, report_lock, runs, pool, found>>

-----------------------------------------------------------------------------
(* The transaction pool and the chain *)

include_report(r) ==
    /\ report(r)
    /\ pool' = pool \ {r}
    /\ UNCHANGED <<localVars, logVars>>

\* A report that is invalid or fails when applied, or that the pool drops.
drop_report(r) ==
    /\ pool' = pool \ {r}
    /\ lost' = lost \cup {<<r.at_block, r.authority_index, "dropped">>}
    /\ UNCHANGED <<storeVars, localVars, found>>

OffchainInit ==
    /\ Init
    /\ confidence = [n \in Node |-> [k \in BlobKeys |-> "none"]]
    /\ report_lock = [n \in Node |-> [i \in AuthIndex |-> NoStatus]]
    /\ workers = {}
    /\ runs = [n \in Node |-> 0]
    /\ pool = {}
    /\ found = [b \in Blocks |-> [i \in Indexes |-> {}]]
    /\ lost = {}

chain_step ==
    /\ \/ initialize_block
       \/ \E keys \in SessionKeys : on_new_session(keys)
       \/ \E p \in SidecarMetadata : submit_data(p)
       \/ register_app
       \/ \E i \in AuthIndex : on_disabled(i)
       \/ finalize_block
    /\ UNCHANGED <<localVars, pool, logVars>>

OffchainNext ==
    \/ chain_step
    \/ \E n \in Node : offchain_worker(n) \/ crash(n)
    \/ \E n \in Node, k \in BlobKeys, result \in {"available", "unavailable"} :
          sample_application(n, k, result)
    \/ \E w \in workers :
          \/ acquire_report_lock(w)
          \/ skip_report(w)
          \/ lock_contended(w)
          \/ submit_report(w)
          \/ submit_report_failed(w)
    \/ \E r \in pool : include_report(r) \/ drop_report(r)

OffchainSpec == OffchainInit /\ [][OffchainNext]_vars

-----------------------------------------------------------------------------
(* Correctness *)

\* The local storage, the running workers and the pool keep their types; a worker
\* that is running has an authority left to report for.
OffchainTypeOK ==
    /\ confidence \in [Node -> [BlobKeys -> {"none", "available", "unavailable"}]]
    /\ report_lock \in [Node -> [AuthIndex -> ReportStatus]]
    /\ \A w \in workers : w.node \in Node /\ w.todo # {} /\ w.todo \subseteq AuthIndex
    /\ runs \in [Node -> 0..MaxRuns]
    /\ pool \subseteq UnavailableDataReport

\* The keys have stood still since block b was opened, and b can be reported.
steady(b) == in_report_window(b) /\ b >= keys_since

\* A blob becomes unavailable only when the validators that hold more than half
\* of the keys sampled it and found it missing: neither the lock, nor retries and
\* late workers, nor the pool make a vote out of anything else.
BackedByFindings ==
    \A b \in Blocks : steady(b) =>
        \A k \in DOMAIN Metadata[b] :
            ~Metadata[b][k].is_available =>
                2 * Cardinality(found[b][k - 1] \cap ToSet(Keys)) > Len(Keys)

\* "Report already sent. Waiting for inclusion.": a status that makes the node
\* wait stands for a report that is being sent, is in the pool, has been counted,
\* or was lost on its way (with_report_lock, failures and crashes included).
WaitingIsJustified ==
    \A n \in Node, i \in AuthIndex :
        LET b == report_lock[n][i].at_block
        IN  /\ b > 0 /\ steady(b)
            /\ is_recent(report_lock[n][i], b, b)
            => \/ \E w \in workers : w.node = n /\ w.at_block = b /\ w.locked
                                     /\ authority_index(w) = i
               \/ \E r \in pool : r.at_block = b /\ r.authority_index = i
               \/ \E k \in Indexes : i \in UnavailableVote[b][k]
               \/ <<b, i, "dropped">> \in lost

\* The workers on block b have ended, none of them with an error or with findings
\* that came after its report, and the reports they sent have been applied.
settled(b) ==
    /\ phase = "open" /\ b + 1 = block_number /\ b > 0 /\ keys_since <= b
    /\ ~\E w \in workers : w.at_block = b
    /\ ~\E r \in pool : r.at_block = b
    /\ ~\E x \in lost : x[1] = b

\* When the validators' reports on a block went through, every blob that the
\* holders of more than half of the keys found missing is unavailable before the
\* header that commits to the block is sealed.
FindingsTakeEffect ==
    \A b \in Blocks : settled(b) =>
        \A k \in DOMAIN Metadata[b] :
            2 * Cardinality(found[b][k - 1] \cap ToSet(Keys)) > Len(Keys)
                => ~Metadata[b][k].is_available
=============================================================================
