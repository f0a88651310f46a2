--------------------------- MODULE OffchainProofs ---------------------------
(* Theorems about OffchainReport, for every value of its constants. *)
EXTENDS OffchainReport, MeloStoreProofs, WellFoundedInduction

\* A worker between two of its steps: it has an authority left to report for, and
\* every such authority has a key in the list the worker read.
Worker == [node: Node, run: Nat, at_block: Blocks, keys: Seq(Authority),
           validators_len: 0..Cardinality(Authority), index_set: SUBSET Indexes,
           todo: SUBSET AuthIndex, locked: BOOLEAN]

WorkerOK(w) ==
    /\ w \in Worker
    /\ w.todo # {}
    /\ \A i \in w.todo : i < Len(w.keys)

\* A report is well formed because the worker that made it was; the length of the
\* key list fits because a session never has more validators than there are keys.
OffchainInv ==
    /\ TypeOK
    /\ validators <= Cardinality(Authority)
    /\ \A w \in workers : WorkerOK(w)
    /\ OffchainTypeOK

-----------------------------------------------------------------------------
LEMMA LeastExists ==
    ASSUME NEW S \in SUBSET Nat, S # {}
    PROVE  Min(S) \in S
<1> DEFINE R == OpToRel(<, Nat)
<1>1. IsWellFoundedOn(R, Nat)
  BY NatLessThanWellFounded
<1> HIDE DEF R
<1>2. PICK x \in S : \A y \in S : ~(<<y, x>> \in R)
  BY <1>1, WFMin
<1>3. ASSUME NEW y \in S PROVE x <= y
  <2>1. ~(y < x)
    BY <1>2 DEF R, OpToRel
  <2> QED
    BY <2>1
<1> QED
  BY <1>3 DEF Min

LEMMA NextAuthority ==
    ASSUME NEW w, WorkerOK(w)
    PROVE  /\ authority_index(w) \in w.todo
           /\ w.keys[authority_index(w) + 1] \in Authority
<1>1. w.todo \in SUBSET Nat /\ w.todo # {} /\ w.keys \in Seq(Authority)
  BY DEF WorkerOK, Worker, AuthIndex
<1>2. authority_index(w) \in w.todo
  BY <1>1, LeastExists DEF authority_index
<1>3. authority_index(w) \in Nat /\ authority_index(w) < Len(w.keys) /\ Len(w.keys) \in Nat
  BY <1>1, <1>2, LenProperties DEF WorkerOK
<1>4. authority_index(w) + 1 \in 1..Len(w.keys)
  BY <1>3
<1> QED
  BY <1>1, <1>2, <1>4, ElementOfSeq

\* A key list of a session has no key twice, so it is no longer than the keys are many.
LEMMA SessionLength ==
    ASSUME NEW ks \in SessionKeys
    PROVE  Len(ks) <= Cardinality(Authority)
<1>1. ks \in Seq(Authority) /\ IsInjective(ks) /\ IsFiniteSet(Authority)
  BY StoreAssumption
<1>2. ks \in [1..Len(ks) -> Authority] /\ Len(ks) \in Nat
  BY <1>1, LenProperties
<1>3. ks \in Injection(1..Len(ks), Authority)
  BY <1>1, <1>2 DEF Injection
<1>4. Cardinality(1..Len(ks)) <= Cardinality(Authority)
  BY <1>1, <1>3, FS_Injection
<1>5. Cardinality(1..Len(ks)) = Len(ks)
  <2>1. 1 \in Int /\ Len(ks) \in Int
    BY <1>2
  <2>2. Cardinality(1..Len(ks)) = IF 1 > Len(ks) THEN 0 ELSE Len(ks) - 1 + 1
    BY <2>1, FS_Interval
  <2> QED
    BY <1>2, <2>2
<1> QED
  BY <1>4, <1>5

\* Every report in the pool is one that MeloStore may be handed.
LEMMA OffchainStepsAreStoreSteps ==
    ASSUME OffchainInv, [OffchainNext]_vars
    PROVE  [Next]_storeVars
<1>1. ASSUME chain_step PROVE Next
  BY <1>1 DEF chain_step, Next
<1>2. ASSUME NEW r \in pool, include_report(r) PROVE Next
  <2>1. r \in UnavailableDataReport
    BY DEF OffchainInv, OffchainTypeOK
  <2> QED
    BY <1>2, <2>1 DEF include_report, Next
<1>3. ASSUME NEW n \in Node, offchain_worker(n) \/ crash(n) PROVE UNCHANGED storeVars
  BY <1>3 DEF offchain_worker, crash
<1>4. ASSUME NEW n, NEW k, NEW result, sample_application(n, k, result)
      PROVE  UNCHANGED storeVars
  BY <1>4 DEF sample_application
<1>5. ASSUME NEW w, \/ acquire_report_lock(w) \/ skip_report(w) \/ lock_contended(w)
                    \/ submit_report(w) \/ submit_report_failed(w)
      PROVE  UNCHANGED storeVars
  BY <1>5 DEF acquire_report_lock, skip_report, lock_contended, submit_report,
              submit_report_failed
<1>6. ASSUME NEW r, drop_report(r) PROVE UNCHANGED storeVars
  BY <1>6 DEF drop_report
<1> QED
  BY <1>1, <1>2, <1>3, <1>4, <1>5, <1>6 DEF OffchainNext, vars

LEMMA OffchainInitially == OffchainInit => OffchainInv
<1> SUFFICES ASSUME OffchainInit PROVE OffchainInv
  OBVIOUS
<1>1. TypeOK
  BY TypeInit DEF OffchainInit
<1>2. validators <= Cardinality(Authority)
  BY SessionLength DEF OffchainInit, Init
<1>3. NoStatus \in ReportStatus
  BY StoreAssumption DEF NoStatus, ReportStatus, Blocks
<1>4. OffchainTypeOK
  BY <1>3, OffchainAssumption DEF OffchainInit, OffchainTypeOK
<1> QED
  BY <1>1, <1>2, <1>4 DEF OffchainInv, OffchainInit

\* What each step has to keep besides TypeOK.
LocalOK ==
    /\ validators <= Cardinality(Authority)
    /\ \A w \in workers : WorkerOK(w)
    /\ OffchainTypeOK

\* The worker goes on with the authorities that are left, or ends.
LEMMA AdvanceKeeps ==
    ASSUME \A v \in workers : WorkerOK(v), NEW w \in workers, advance(w)
    PROVE  (\A v \in workers : WorkerOK(v))'
<1> DEFINE rest == w.todo \ {authority_index(w)}
           next == [w EXCEPT !.todo = rest, !.locked = FALSE]
<1>1. WorkerOK(w)
  OBVIOUS
<1>2. rest # {} => WorkerOK(next)
  BY <1>1 DEF WorkerOK, Worker
<1>3. workers' = IF rest = {} THEN workers \ {w} ELSE (workers \ {w}) \cup {next}
  BY DEF advance
<1> HIDE DEF rest, next
<1>4. \A v \in workers' : WorkerOK(v)
  BY <1>2, <1>3
<1> QED
  BY <1>4 DEF WorkerOK, Worker

LEMMA WorkerStarts ==
    ASSUME OffchainInv, NEW n \in Node, offchain_worker(n)
    PROVE  LocalOK'
<1> DEFINE index_set == get_unavailability_apps(n, block_number)
           todo == local_authority_keys(n)
           new == [node |-> n, run |-> runs[n] + 1, at_block |-> block_number,
                   keys |-> Keys, validators_len |-> Len(Keys),
                   index_set |-> index_set, todo |-> todo, locked |-> FALSE]
<1>1. index_set \in SUBSET Indexes /\ todo \in SUBSET AuthIndex
      /\ \A i \in todo : i < Len(Keys)
  BY DEF get_unavailability_apps, blob_indexes, local_authority_keys
<1>2. runs \in [Node -> 0..MaxRuns] /\ runs[n] \in 0..MaxRuns
  BY DEF OffchainInv, OffchainTypeOK
<1>3. block_number \in Blocks /\ Keys \in Seq(Authority) /\ Len(Keys) \in Nat
      /\ Len(Keys) \in 0..Cardinality(Authority)
  <2>1. Cardinality(Authority) \in Nat
    BY StoreAssumption, FS_CardinalityType
  <2> QED
    BY <2>1, LenProperties DEF OffchainInv, TypeOK
<1>4. /\ workers' = IF index_set = {} \/ todo = {} THEN workers ELSE workers \cup {new}
      /\ runs' = [runs EXCEPT ![n] = runs[n] + 1] /\ runs[n] < MaxRuns
      /\ UNCHANGED <<storeVars, confidence, report_lock, pool>>
  BY DEF offchain_worker
<1>5. todo # {} => WorkerOK(new)
  <2>1. runs[n] + 1 \in Nat
    BY <1>2, OffchainAssumption
  <2> HIDE DEF index_set, todo
  <2> QED
    BY <1>1, <1>3, <2>1 DEF WorkerOK, Worker
<1> HIDE DEF index_set, todo, new
<1>6. \A w \in workers' : WorkerOK(w)
  BY <1>4, <1>5 DEF OffchainInv
<1>7. runs' \in [Node -> 0..MaxRuns]
  BY <1>2, <1>4, OffchainAssumption
<1>8. /\ validators' <= Cardinality(Authority)
      /\ UNCHANGED <<confidence, report_lock, pool>>
  BY <1>4 DEF OffchainInv, storeVars, keyVars
<1> QED
  BY <1>6, <1>7, <1>8 DEF LocalOK, OffchainInv, OffchainTypeOK, WorkerOK, Worker

LEMMA LockAcquired ==
    ASSUME OffchainInv, NEW w \in workers, acquire_report_lock(w)
    PROVE  LocalOK'
<1> DEFINE status == [at_block |-> w.at_block, sent_at |-> w.at_block]
<1>1. WorkerOK(w)
  BY DEF OffchainInv
<1>2. authority_index(w) \in AuthIndex /\ w.node \in Node /\ status \in ReportStatus
  BY <1>1, NextAuthority DEF WorkerOK, Worker, ReportStatus
<1>3. WorkerOK([w EXCEPT !.locked = TRUE])
  BY <1>1 DEF WorkerOK, Worker
<1>4. /\ report_lock' = [report_lock EXCEPT ![w.node][authority_index(w)] = status]
      /\ workers' = (workers \ {w}) \cup {[w EXCEPT !.locked = TRUE]}
      /\ UNCHANGED <<storeVars, confidence, runs, pool>>
  BY DEF acquire_report_lock
<1> HIDE DEF status
<1>5. \A v \in workers' : WorkerOK(v)
  BY <1>3, <1>4 DEF OffchainInv
<1>6. report_lock' \in [Node -> [AuthIndex -> ReportStatus]]
  BY <1>2, <1>4 DEF OffchainInv, OffchainTypeOK
<1>7. /\ validators' <= Cardinality(Authority)
      /\ UNCHANGED <<confidence, runs, pool>>
  BY <1>4 DEF OffchainInv, storeVars, keyVars
<1> QED
  BY <1>5, <1>6, <1>7 DEF LocalOK, OffchainInv, OffchainTypeOK, WorkerOK, Worker

LEMMA WorkerGoesOn ==
    ASSUME OffchainInv, NEW w \in workers,
           skip_report(w) \/ lock_contended(w) \/ submit_report(w) \/ submit_report_failed(w)
    PROVE  LocalOK'
<1>1. WorkerOK(w) /\ \A v \in workers : WorkerOK(v)
  BY DEF OffchainInv
<1>2. authority_index(w) \in AuthIndex /\ w.keys[authority_index(w) + 1] \in Authority
      /\ w.node \in Node /\ w.at_block \in Blocks
      /\ w.index_set \in SUBSET Indexes /\ w.validators_len \in 0..Cardinality(Authority)
  BY <1>1, NextAuthority DEF WorkerOK, Worker
<1>3. advance(w) /\ UNCHANGED <<storeVars, confidence, runs>>
  BY DEF skip_report, lock_contended, submit_report, submit_report_failed
<1>4. (\A v \in workers : WorkerOK(v))'
  BY <1>1, <1>3, AdvanceKeeps
<1>5. report_lock' \in [Node -> [AuthIndex -> ReportStatus]]
  <2> DEFINE status == [at_block |-> w.at_block, sent_at |-> 0]
  <2>1. status \in ReportStatus
    BY <1>2, StoreAssumption DEF ReportStatus, Blocks
  <2>2. \/ UNCHANGED report_lock
        \/ report_lock' = [report_lock EXCEPT ![w.node][authority_index(w)] = status]
    BY DEF skip_report, lock_contended, submit_report, submit_report_failed,
           release_report_lock
  <2> HIDE DEF status
  <2>3. report_lock \in [Node -> [AuthIndex -> ReportStatus]]
    BY DEF OffchainInv, OffchainTypeOK
  <2>4. [report_lock EXCEPT ![w.node][authority_index(w)] = status]
            \in [Node -> [AuthIndex -> ReportStatus]]
    BY <1>2, <2>1, <2>3
  <2> QED
    BY <2>2, <2>3, <2>4
<1>6. pool' \subseteq UnavailableDataReport
  <2> DEFINE r == [at_block |-> w.at_block, authority_index |-> authority_index(w),
                   index_set |-> w.index_set, validators_len |-> w.validators_len,
                   signer |-> w.keys[authority_index(w) + 1]]
  <2>1. r \in UnavailableDataReport
    BY <1>2 DEF UnavailableDataReport
  <2>2. submit_report(w) => pool' = pool \cup {r}
    BY DEF submit_report
  <2>3. ~submit_report(w) => pool' = pool
    BY DEF skip_report, lock_contended, submit_report_failed
  <2> HIDE DEF r
  <2> QED
    BY <2>1, <2>2, <2>3 DEF OffchainInv, OffchainTypeOK
<1>7. validators' <= Cardinality(Authority) /\ UNCHANGED <<confidence, runs>>
  BY <1>3 DEF OffchainInv, storeVars, keyVars
<1> QED
  BY <1>4, <1>5, <1>6, <1>7 DEF LocalOK, OffchainInv, OffchainTypeOK, WorkerOK, Worker

LEMMA ChainMoves ==
    ASSUME OffchainInv, chain_step
    PROVE  LocalOK'
<1>1. validators' <= Cardinality(Authority)
  <2>1. ASSUME NEW keys \in SessionKeys, on_new_session(keys)
        PROVE  validators' <= Cardinality(Authority)
    BY <2>1, SessionLength DEF on_new_session
  <2>2. ASSUME initialize_block \/ (\E p \in SidecarMetadata : submit_data(p)) \/ register_app
               \/ (\E i \in AuthIndex : on_disabled(i)) \/ finalize_block
        PROVE  validators' = validators
    BY <2>2 DEF initialize_block, submit_data, register_app, on_disabled, finalize_block, keyVars
  <2> QED
    BY <2>1, <2>2 DEF chain_step, OffchainInv
<1>2. UNCHANGED <<localVars, pool>>
  BY DEF chain_step
<1> QED
  BY <1>1, <1>2 DEF localVars, LocalOK, OffchainInv, OffchainTypeOK, WorkerOK, Worker

LEMMA OffchainStep == OffchainInv /\ [OffchainNext]_vars => OffchainInv'
<1> SUFFICES ASSUME OffchainInv, [OffchainNext]_vars PROVE OffchainInv'
  OBVIOUS
<1>1. TypeOK'
  BY OffchainStepsAreStoreSteps, TypeStep DEF OffchainInv
<1>2. ASSUME chain_step PROVE LocalOK'
  BY <1>2, ChainMoves
<1>3. ASSUME NEW n \in Node, offchain_worker(n) PROVE LocalOK'
  BY <1>3, WorkerStarts
<1>4. ASSUME NEW n \in Node, crash(n) PROVE LocalOK'
  BY <1>4 DEF crash, LocalOK, OffchainInv, OffchainTypeOK, storeVars, keyVars, WorkerOK, Worker
<1>5. ASSUME NEW n \in Node, NEW k \in BlobKeys, NEW result \in {"available", "unavailable"},
             sample_application(n, k, result)
      PROVE  LocalOK'
  <2>1. confidence' \in [Node -> [BlobKeys -> {"none", "available", "unavailable"}]]
    BY <1>5 DEF sample_application, OffchainInv, OffchainTypeOK
  <2> QED
    BY <1>5, <2>1 DEF sample_application, LocalOK, OffchainInv, OffchainTypeOK,
                      storeVars, keyVars, WorkerOK, Worker
<1>6. ASSUME NEW w \in workers, acquire_report_lock(w) PROVE LocalOK'
  BY <1>6, LockAcquired
<1>7. ASSUME NEW w \in workers,
             skip_report(w) \/ lock_contended(w) \/ submit_report(w) \/ submit_report_failed(w)
      PROVE  LocalOK'
  BY <1>7, WorkerGoesOn
<1>8. ASSUME NEW r \in pool, include_report(r) PROVE LocalOK'
  BY <1>8 DEF include_report, report, localVars, keyVars, LocalOK, OffchainInv,
              OffchainTypeOK, WorkerOK, Worker
<1>9. ASSUME NEW r \in pool, drop_report(r) PROVE LocalOK'
  BY <1>9 DEF drop_report, localVars, storeVars, keyVars, LocalOK, OffchainInv,
              OffchainTypeOK, WorkerOK, Worker
<1>10. ASSUME UNCHANGED vars PROVE LocalOK'
  BY <1>10 DEF vars, storeVars, keyVars, offchainVars, localVars, LocalOK, OffchainInv,
               OffchainTypeOK, WorkerOK, Worker
<1>11. LocalOK'
  BY <1>2, <1>3, <1>4, <1>5, <1>6, <1>7, <1>8, <1>9, <1>10 DEF OffchainNext
<1> QED
  BY <1>1, <1>11 DEF OffchainInv, LocalOK

\* Worker runs, crashes and the pool keep the types of a node's local storage, and a
\* running worker always has an authority left.
THEOREM OffchainTypeCorrect == OffchainSpec => []OffchainTypeOK
<1>1. OffchainInv => OffchainTypeOK
  BY DEF OffchainInv
<1> QED
  BY <1>1, OffchainInitially, OffchainStep, PTL DEF OffchainSpec

\* Whatever the workers of all nodes do, crash or leave in the pool, the chain they
\* report to is one that MeloStore describes, so its theorems hold for it.
THEOREM ReportsKeepStore == OffchainSpec => Spec
<1>1. OffchainInit => Init
  BY DEF OffchainInit
<1>2. OffchainInv /\ [OffchainNext]_vars => [Next]_storeVars
  BY OffchainStepsAreStoreSteps
<1> QED
  BY <1>1, <1>2, OffchainInitially, OffchainStep, PTL DEF OffchainSpec, Spec

-----------------------------------------------------------------------------
(* Every vote comes from a finding *)

\* The authorities a worker reports for have found missing what it reports.
WorkerFound(w) ==
    \A i \in w.index_set, a \in w.todo : w.keys[a + 1] \in found[w.at_block][i]

PoolFound == \A r \in pool : \A i \in r.index_set : r.signer \in found[r.at_block][i]

SignersFound == \A b \in Blocks, i \in Indexes : signers[b][i] \subseteq found[b][i]

FoundInv ==
    /\ OffchainInv
    /\ found \in [Blocks -> [Indexes -> SUBSET Authority]]
    /\ \A w \in workers : WorkerFound(w)
    /\ PoolFound
    /\ SignersFound

\* Where no finding is taken back and no signer is new, all stays backed.
LEMMA FoundKept ==
    ASSUME FoundInv, UNCHANGED found,
           \A w \in workers' : w \in workers \/ WorkerFound(w),
           \A r \in pool' : r \in pool \/ \A i \in r.index_set : r.signer \in found[r.at_block][i],
           \A b \in Blocks, i \in Indexes : signers'[b][i] \subseteq found[b][i]
    PROVE  /\ found' \in [Blocks -> [Indexes -> SUBSET Authority]]
           /\ (\A w \in workers : WorkerFound(w))' /\ PoolFound' /\ SignersFound'
BY DEF FoundInv, WorkerFound, PoolFound, SignersFound

\* The worker that goes on reports the same blobs for fewer authorities.
LEMMA AdvanceFound ==
    ASSUME FoundInv, NEW w \in workers, advance(w), NEW v \in workers'
    PROVE  v \in workers \/ WorkerFound(v)
<1> DEFINE rest == w.todo \ {authority_index(w)}
           next == [w EXCEPT !.todo = rest, !.locked = FALSE]
<1>1. WorkerFound(w) /\ w \in Worker
  BY DEF FoundInv, OffchainInv, WorkerOK
<1>2. /\ next.index_set = w.index_set /\ next.keys = w.keys /\ next.at_block = w.at_block
      /\ next.todo = rest
  BY <1>1 DEF Worker
<1>3. v \in workers \/ v = next
  BY DEF advance
<1> HIDE DEF next
<1>4. WorkerFound(next)
  BY <1>1, <1>2 DEF WorkerFound
<1> QED
  BY <1>3, <1>4

\* The worker reads its findings and notes them.
LEMMA StartFound ==
    ASSUME FoundInv, NEW n \in Node, offchain_worker(n)
    PROVE  /\ found' \in [Blocks -> [Indexes -> SUBSET Authority]]
           /\ (\A w \in workers : WorkerFound(w))' /\ PoolFound' /\ SignersFound'
<1> DEFINE index_set == get_unavailability_apps(n, block_number)
           todo == local_authority_keys(n)
           new == [node |-> n, run |-> runs[n] + 1, at_block |-> block_number,
                   keys |-> Keys, validators_len |-> Len(Keys),
                   index_set |-> index_set, todo |-> todo, locked |-> FALSE]
<1>1. /\ block_number \in Blocks /\ found \in [Blocks -> [Indexes -> SUBSET Authority]]
      /\ Holds[n] \in SUBSET Authority
  BY OffchainAssumption DEF FoundInv, OffchainInv, TypeOK
<1>2. /\ found' = [found EXCEPT ![block_number] = [i \in Indexes |->
            IF i \in blob_indexes(block_number)
               /\ blob_confidence(n, block_number, i) = "unavailable"
              THEN @[i] \cup Holds[n] ELSE @[i]]]
      /\ workers' = IF index_set = {} \/ todo = {} THEN workers ELSE workers \cup {new}
      /\ UNCHANGED <<storeVars, pool>>
  BY DEF offchain_worker
<1>3. found' \in [Blocks -> [Indexes -> SUBSET Authority]]
  BY <1>1, <1>2
<1>4. \A b \in Blocks, i \in Indexes : found[b][i] \subseteq found'[b][i]
  BY <1>1, <1>2
<1>5. \A i \in index_set : i \in Indexes /\ Holds[n] \subseteq found'[block_number][i]
  BY <1>1, <1>2 DEF get_unavailability_apps, blob_indexes
<1>6. \A a \in todo : Keys[a + 1] \in Holds[n]
  BY DEF local_authority_keys
<1>7. new.index_set = index_set /\ new.todo = todo /\ new.keys = Keys
      /\ new.at_block = block_number
  OBVIOUS
<1> HIDE DEF index_set, todo, new
<1>8. \A i \in new.index_set, a \in new.todo : new.keys[a + 1] \in found'[new.at_block][i]
  BY <1>5, <1>6, <1>7
<1>9. ASSUME NEW w \in workers, NEW i \in w.index_set, NEW a \in w.todo
      PROVE  w.keys[a + 1] \in found'[w.at_block][i]
  <2>1. w.at_block \in Blocks /\ i \in Indexes
    BY DEF FoundInv, OffchainInv, WorkerOK, Worker
  <2>2. w.keys[a + 1] \in found[w.at_block][i]
    BY DEF FoundInv, WorkerFound
  <2> QED
    BY <1>4, <2>1, <2>2
<1>10. (\A w \in workers : WorkerFound(w))'
  BY <1>2, <1>8, <1>9 DEF WorkerFound
<1>11. PoolFound'
  <2>1. \A r \in pool : r.at_block \in Blocks /\ r.index_set \subseteq Indexes
    BY DEF FoundInv, OffchainInv, OffchainTypeOK, UnavailableDataReport
  <2> QED
    BY <1>2, <1>4, <2>1 DEF FoundInv, PoolFound
<1>12. SignersFound'
  BY <1>2, <1>4 DEF FoundInv, SignersFound, storeVars, voteVars
<1> QED
  BY <1>3, <1>10, <1>11, <1>12

\* The chain clears signers and adds none by itself.
LEMMA ChainFound ==
    ASSUME FoundInv, chain_step, NEW b \in Blocks, NEW i \in Indexes
    PROVE  signers'[b][i] \subseteq found[b][i]
<1>1. signers[b][i] \subseteq found[b][i] /\ signers \in [Blocks -> [Indexes -> SUBSET Authority]]
  BY DEF FoundInv, SignersFound, OffchainInv, TypeOK
<1>2. ASSUME finalize_block PROVE signers'[b][i] \subseteq signers[b][i]
  <2>1. CASE DELAY_CHECK_THRESHOLD + 1 >= block_number
    BY <1>2, <2>1 DEF finalize_block, on_finalize, voteVars
  <2>2. CASE ~(DELAY_CHECK_THRESHOLD + 1 >= block_number)
    <3>1. PICK kept \in SUBSET Indexes : clear_prefix(kept)
      BY <1>2, <2>2 DEF finalize_block, on_finalize
    <3> QED
      BY <1>1, <3>1 DEF clear_prefix
  <2> QED
    BY <2>1, <2>2
<1>3. ASSUME ~finalize_block PROVE signers' = signers
  BY <1>3 DEF chain_step, initialize_block, on_new_session, open_block, submit_data,
              register_app, on_disabled, voteVars
<1> QED
  BY <1>1, <1>2, <1>3

LEMMA FoundStep == FoundInv /\ [OffchainNext]_vars => FoundInv'
<1> SUFFICES ASSUME FoundInv, [OffchainNext]_vars PROVE FoundInv'
  OBVIOUS
<1> DEFINE Goal == /\ found' \in [Blocks -> [Indexes -> SUBSET Authority]]
                   /\ (\A w \in workers : WorkerFound(w))' /\ PoolFound' /\ SignersFound'
<1>1. OffchainInv'
  BY OffchainStep DEF FoundInv
<1>2. \A b \in Blocks, i \in Indexes : signers[b][i] \subseteq found[b][i]
  BY DEF FoundInv, SignersFound
<1>3. ASSUME UNCHANGED <<found, workers, pool, signers>> PROVE Goal
  BY <1>2, <1>3, FoundKept
<1>4. ASSUME chain_step PROVE Goal
  <2>1. UNCHANGED <<workers, pool, found>>
    BY <1>4 DEF chain_step, localVars, logVars
  <2>2. \A b \in Blocks, i \in Indexes : signers'[b][i] \subseteq found[b][i]
    BY <1>4, ChainFound
  <2> QED
    BY <2>1, <2>2, FoundKept
<1>5. ASSUME NEW n \in Node, offchain_worker(n) PROVE Goal
  BY <1>5, StartFound
<1>6. ASSUME NEW n \in Node, crash(n) PROVE Goal
  <2>1. workers' \subseteq workers /\ UNCHANGED <<found, pool, signers>>
    BY <1>6 DEF crash, storeVars, voteVars
  <2> QED
    BY <1>2, <2>1, FoundKept
<1>7. ASSUME NEW n, NEW k, NEW result, sample_application(n, k, result) PROVE Goal
  BY <1>3, <1>7 DEF sample_application, storeVars, voteVars, logVars
<1>8. ASSUME NEW w \in workers, acquire_report_lock(w) PROVE Goal
  <2> DEFINE v == [w EXCEPT !.locked = TRUE]
  <2>1. w \in Worker /\ WorkerFound(w)
    BY DEF FoundInv, OffchainInv, WorkerOK
  <2>2. v.index_set = w.index_set /\ v.keys = w.keys /\ v.at_block = w.at_block /\ v.todo = w.todo
    BY <2>1 DEF Worker
  <2>3. workers' = (workers \ {w}) \cup {v} /\ UNCHANGED <<found, pool, signers>>
    BY <1>8 DEF acquire_report_lock, storeVars, voteVars, logVars
  <2> HIDE DEF v
  <2>4. WorkerFound(v)
    BY <2>1, <2>2 DEF WorkerFound
  <2> QED
    BY <1>2, <2>3, <2>4, FoundKept
<1>9. ASSUME NEW w \in workers, skip_report(w) \/ lock_contended(w) \/ submit_report_failed(w)
      PROVE  Goal
  <2>1. advance(w) /\ UNCHANGED <<found, pool, signers>>
    BY <1>9 DEF skip_report, lock_contended, submit_report_failed, storeVars, voteVars
  <2>2. \A v \in workers' : v \in workers \/ WorkerFound(v)
    BY <2>1, AdvanceFound
  <2> QED
    BY <1>2, <2>1, <2>2, FoundKept
<1>10. ASSUME NEW w \in workers, submit_report(w) PROVE Goal
  <2> DEFINE r == [at_block |-> w.at_block, authority_index |-> authority_index(w),
                   index_set |-> w.index_set, validators_len |-> w.validators_len,
                   signer |-> w.keys[authority_index(w) + 1]]
  <2>1. advance(w) /\ pool' = pool \cup {r} /\ UNCHANGED <<found, signers>>
    BY <1>10 DEF submit_report, storeVars, voteVars
  <2>2. r.index_set = w.index_set /\ r.at_block = w.at_block
        /\ r.signer = w.keys[authority_index(w) + 1]
    OBVIOUS
  <2> HIDE DEF r
  <2>3. WorkerFound(w) /\ authority_index(w) \in w.todo
    BY NextAuthority DEF FoundInv, OffchainInv
  <2>4. \A i \in r.index_set : r.signer \in found[r.at_block][i]
    BY <2>2, <2>3 DEF WorkerFound
  <2>5. \A v \in workers' : v \in workers \/ WorkerFound(v)
    BY <2>1, AdvanceFound
  <2> QED
    BY <1>2, <2>1, <2>4, <2>5, FoundKept
<1>11. ASSUME NEW r \in pool, include_report(r) PROVE Goal
  <2>1. /\ r \in UnavailableDataReport /\ r.at_block \in Blocks
        /\ \A i \in r.index_set : r.signer \in found[r.at_block][i]
        /\ signers \in [Blocks -> [Indexes -> SUBSET Authority]]
    BY DEF FoundInv, OffchainInv, OffchainTypeOK, PoolFound, UnavailableDataReport, TypeOK
  <2>2. /\ pool' \subseteq pool /\ UNCHANGED <<workers, found>>
        /\ signers' = [signers EXCEPT ![r.at_block] =
              [i \in Indexes |-> IF i \in r.index_set THEN @[i] \cup {r.signer} ELSE @[i]]]
    BY <1>11 DEF include_report, report, localVars, logVars
  <2>3. \A b \in Blocks, i \in Indexes : signers'[b][i] \subseteq found[b][i]
    BY <1>2, <2>1, <2>2
  <2> QED
    BY <2>2, <2>3, FoundKept
<1>12. ASSUME NEW r \in pool, drop_report(r) PROVE Goal
  <2>1. pool' \subseteq pool /\ UNCHANGED <<workers, found, signers>>
    BY <1>12 DEF drop_report, storeVars, voteVars, localVars
  <2> QED
    BY <1>2, <2>1, FoundKept
<1>13. ASSUME UNCHANGED vars PROVE Goal
  BY <1>3, <1>13 DEF vars, storeVars, voteVars, offchainVars, localVars, logVars
<1>14. Goal
  BY <1>4, <1>5, <1>6, <1>7, <1>8, <1>9, <1>10, <1>11, <1>12, <1>13 DEF OffchainNext
<1> QED
  BY <1>1, <1>14 DEF FoundInv

\* With the majority behind a flag, and a finding behind every vote.
LEMMA FindingsBack == FoundInv /\ MajorityBacked => BackedByFindings
<1> SUFFICES ASSUME FoundInv, MajorityBacked, NEW b \in Blocks, steady(b),
                    NEW k \in DOMAIN Metadata[b], ~Metadata[b][k].is_available
             PROVE  2 * Cardinality(found[b][k - 1] \cap ToSet(Keys)) > Len(Keys)
  BY DEF BackedByFindings
<1> DEFINE S == signers[b][k - 1] \cap ToSet(Keys)
           F == found[b][k - 1] \cap ToSet(Keys)
<1>1. 2 * Cardinality(S) > Len(Keys)
  BY DEF MajorityBacked, steady
<1>2. TypeOK /\ Len(Keys) \in Nat
  BY LenProperties DEF FoundInv, OffchainInv, TypeOK
<1>3. k - 1 \in Indexes
  BY <1>2, LenProperties, StoreAssumption DEF TypeOK, Indexes
<1>4. F \in SUBSET Authority /\ S \in SUBSET F
  BY <1>3 DEF FoundInv, SignersFound
<1>5. IsFiniteSet(F)
  BY <1>4, StoreAssumption, FS_Subset
<1>6. Cardinality(S) <= Cardinality(F) /\ Cardinality(S) \in Nat /\ Cardinality(F) \in Nat
  BY <1>4, <1>5, FS_Subset, FS_CardinalityType
<1> HIDE DEF S, F
<1>7. 2 * Cardinality(F) > Len(Keys)
  BY <1>1, <1>2, <1>6
<1> QED
  BY <1>7 DEF F

\* For any number of nodes, keys, worker runs and crashes, a blob becomes unavailable only
\* when the holders of more than half of the keys found it missing: MajoritiesDecide
\* through ReportsKeepStore, and a finding behind every vote (get_unavailability_apps,
\* with_report_lock, report).
THEOREM DropsAreBacked == OffchainSpec => []BackedByFindings
<1>1. OffchainInit => FoundInv
  <2>1. OffchainInit => OffchainInv
    BY OffchainInitially
  <2> QED
    BY <2>1 DEF OffchainInit, Init, FoundInv, PoolFound, SignersFound
<1>2. OffchainSpec => []FoundInv
  BY <1>1, FoundStep, PTL DEF OffchainSpec
<1>3. OffchainSpec => []MajorityBacked
  BY ReportsKeepStore, MajoritiesDecide, PTL
<1> QED
  BY <1>2, <1>3, FindingsBack, PTL

-----------------------------------------------------------------------------
(* A status that makes a node wait stands for something *)

\* Workers and statuses are about blocks that exist.
InThePast ==
    /\ \A w \in workers : w.at_block <= block_number
    /\ \A n \in Node, i \in AuthIndex : report_lock[n][i].at_block <= block_number

\* What node n waits for: its report on block b for authority i, wherever it has got to.
Awaited(n, i, b) ==
    \/ \E w \in workers : w.node = n /\ w.at_block = b /\ w.locked /\ authority_index(w) = i
    \/ \E r \in pool : r.at_block = b /\ r.authority_index = i
    \/ \E k \in Indexes : i \in UnavailableVote[b][k]
    \/ <<b, i, "dropped">> \in lost

\* The status makes the node wait for a report on its block.
waits(s) == s.at_block > 0 /\ s.sent_at + DELAY_CHECK_THRESHOLD > s.at_block

WaitInv ==
    /\ OffchainInv
    /\ InThePast
    /\ \A n \in Node, i \in AuthIndex, b \in Blocks :
          report_lock[n][i].at_block = b /\ waits(report_lock[n][i]) /\ in_report_window(b)
              => Awaited(n, i, b)

\* What a step owes to the status of node n for authority i.
Kept(n, i) ==
    \A b \in Blocks : report_lock'[n][i].at_block = b =>
        /\ b <= block_number'
        /\ \/ ~waits(report_lock'[n][i])
           \/ Awaited(n, i, b)'
           \/ /\ report_lock'[n][i] = report_lock[n][i]
              /\ Awaited(n, i, b) /\ in_report_window(b)' => Awaited(n, i, b)'

LEMMA WaitKept ==
    ASSUME WaitInv, OffchainInv', block_number' >= block_number,
           \A w \in workers' : w.at_block <= block_number',
           \A n \in Node, i \in AuthIndex : Kept(n, i)
    PROVE  WaitInv'
<1>1. block_number \in Nat /\ block_number' \in Nat
  BY StoreAssumption DEF WaitInv, OffchainInv, TypeOK, Blocks
<1>2. ASSUME NEW n \in Node, NEW i \in AuthIndex, NEW b \in Blocks,
             report_lock'[n][i].at_block = b, waits(report_lock'[n][i]), in_report_window(b)'
      PROVE  Awaited(n, i, b)'
  <2>1. CASE report_lock'[n][i] = report_lock[n][i]
    <3>1. b \in Nat /\ b <= block_number
      BY <1>2, <2>1, StoreAssumption DEF WaitInv, InThePast, Blocks
    <3>2. in_report_window(b)
      BY <1>1, <1>2, <3>1 DEF in_report_window, DELAY_CHECK_THRESHOLD
    <3>3. Awaited(n, i, b)
      BY <1>2, <2>1, <3>2 DEF WaitInv
    <3> QED
      BY <1>2, <3>3 DEF Kept
  <2> QED
    BY <1>2, <2>1 DEF Kept
<1>3. \A n \in Node, i \in AuthIndex : report_lock'[n][i].at_block \in Blocks
  BY DEF OffchainInv, OffchainTypeOK, ReportStatus
<1>4. InThePast'
  BY <1>3 DEF InThePast, Kept
<1> QED
  BY <1>2, <1>4 DEF WaitInv, waits

LEMMA LockIsPast ==
    ASSUME WaitInv, NEW n \in Node, NEW i \in AuthIndex
    PROVE  report_lock[n][i].at_block <= block_number /\ report_lock[n][i].at_block \in Blocks
BY DEF WaitInv, InThePast, OffchainInv, OffchainTypeOK, ReportStatus

\* A worker's own step: the others are where they were.
LEMMA AdvanceOthers ==
    ASSUME WaitInv, NEW w \in workers, advance(w)
    PROVE  /\ \A v \in workers : v # w => v \in workers'
           /\ \A v \in workers' : v.at_block <= block_number
<1> DEFINE next == [w EXCEPT !.todo = w.todo \ {authority_index(w)}, !.locked = FALSE]
<1>1. w \in Worker
  BY DEF WaitInv, OffchainInv, WorkerOK
<1>2. next.at_block = w.at_block
  BY <1>1 DEF Worker
<1>3. \A v \in workers' : v \in workers \/ v = next
  BY DEF advance
<1>4. \A v \in workers : v # w => v \in workers'
  BY DEF advance
<1> HIDE DEF next
<1> QED
  BY <1>2, <1>3, <1>4 DEF WaitInv, InThePast

LEMMA WaitInitially == OffchainInit => WaitInv
<1> SUFFICES ASSUME OffchainInit PROVE WaitInv
  OBVIOUS
<1>1. block_number = 0 /\ workers = {}
      /\ \A n \in Node, i \in AuthIndex : report_lock[n][i] = NoStatus
  BY DEF OffchainInit, Init
<1>2. OffchainInv
  BY OffchainInitially
<1> QED
  BY <1>1, <1>2 DEF WaitInv, InThePast, NoStatus, waits

LEMMA WaitStep == WaitInv /\ [OffchainNext]_vars => WaitInv'
<1> SUFFICES ASSUME WaitInv, [OffchainNext]_vars PROVE WaitInv'
  OBVIOUS
<1>1. OffchainInv' /\ OffchainInv
  BY OffchainStep DEF WaitInv
<1>2. /\ block_number \in Nat
      /\ \A w \in workers : WorkerOK(w) /\ w.at_block <= block_number
      /\ report_lock \in [Node -> [AuthIndex -> ReportStatus]]
  <2>1. block_number \in Nat
    BY <1>1, StoreAssumption DEF OffchainInv, TypeOK, Blocks
  <2>2. report_lock \in [Node -> [AuthIndex -> ReportStatus]]
    BY <1>1 DEF OffchainInv, OffchainTypeOK
  <2>3. \A w \in workers : WorkerOK(w) /\ w.at_block <= block_number
    BY <1>1 DEF OffchainInv, WaitInv, InThePast
  <2> QED
    BY <2>1, <2>2, <2>3
<1>3. \A n \in Node, i \in AuthIndex :
         report_lock[n][i].at_block <= block_number /\ report_lock[n][i].at_block \in Blocks
  BY LockIsPast
<1>4. ASSUME UNCHANGED <<block_number, workers, report_lock, pool, UnavailableVote, lost>>
      PROVE  WaitInv'
  BY <1>1, <1>4 DEF WaitInv, InThePast, in_report_window, Awaited
<1>5. ASSUME chain_step PROVE WaitInv'
  <2>1. UNCHANGED <<report_lock, workers, pool, lost>>
    BY <1>5 DEF chain_step, localVars, logVars
  <2>2. block_number' \in {block_number, block_number + 1}
    BY <1>5 DEF chain_step, initialize_block, on_new_session, open_block, submit_data,
                register_app, on_disabled, finalize_block, chainVars
  <2>3. ASSUME NEW b \in Blocks, in_report_window(b)', b <= block_number
        PROVE  UnavailableVote'[b] = UnavailableVote[b]
    <3>1. CASE UNCHANGED UnavailableVote
      BY <3>1
    <3>2. CASE finalize_block
      <4>1. block_number' = block_number /\ b + 1 >= block_number /\ b \in Nat
        BY <2>3, <3>2, StoreAssumption
           DEF finalize_block, in_report_window, DELAY_CHECK_THRESHOLD, Blocks
      <4>2. CASE DELAY_CHECK_THRESHOLD + 1 >= block_number
        BY <3>2, <4>2 DEF finalize_block, on_finalize, voteVars
      <4>3. CASE ~(DELAY_CHECK_THRESHOLD + 1 >= block_number)
        <5>1. PICK kept \in SUBSET Indexes : clear_prefix(kept)
          BY <3>2, <4>3 DEF finalize_block, on_finalize
        <5>2. expired_block # b
          BY <1>2, <4>1 DEF expired_block, DELAY_CHECK_THRESHOLD
        <5> QED
          BY <1>1, <5>1, <5>2 DEF clear_prefix, OffchainInv, TypeOK
      <4> QED
        BY <4>2, <4>3
    <3> QED
      BY <1>5, <3>1, <3>2 DEF chain_step, initialize_block, on_new_session, open_block, submit_data,
                              register_app, on_disabled, voteVars
  <2>4. ASSUME NEW n \in Node, NEW i \in AuthIndex PROVE Kept(n, i)
    <3> SUFFICES ASSUME NEW b \in Blocks, report_lock[n][i].at_block = b
                 PROVE  /\ b <= block_number'
                        /\ Awaited(n, i, b) /\ in_report_window(b)' => Awaited(n, i, b)'
      BY <2>1 DEF Kept
    <3>1. b <= block_number /\ b \in Nat
      BY <1>3, StoreAssumption DEF Blocks
    <3>2. in_report_window(b)' => UnavailableVote'[b] = UnavailableVote[b]
      BY <2>3, <3>1
    <3>3. b <= block_number'
      BY <1>2, <2>2, <3>1
    <3> QED
      BY <2>1, <3>2, <3>3 DEF Awaited
  <2>5. block_number' >= block_number /\ \A w \in workers' : w.at_block <= block_number'
    <3>1. \A w \in workers : w.at_block \in Nat
      BY <1>2, StoreAssumption DEF WorkerOK, Worker, Blocks
    <3> QED
      BY <1>2, <2>1, <2>2, <3>1
  <2> QED
    BY <1>1, <2>4, <2>5, WaitKept
<1>6. ASSUME NEW n \in Node, offchain_worker(n) PROVE WaitInv'
  <2>1. UNCHANGED <<block_number, UnavailableVote, report_lock, pool, lost>> /\ workers \subseteq workers'
    BY <1>6 DEF offchain_worker, storeVars, chainVars, voteVars
  <2>2. \A w \in workers' : w.at_block <= block_number'
    <3>1. \A w \in workers' : w \in workers \/ w.at_block = block_number
      BY <1>6 DEF offchain_worker
    <3> QED
      BY <1>2, <2>1, <3>1
  <2>3. \A m \in Node, i \in AuthIndex : Kept(m, i)
    BY <1>3, <2>1 DEF Kept, Awaited
  <2> QED
    BY <1>1, <1>2, <2>1, <2>2, <2>3, WaitKept
<1>7. ASSUME NEW n \in Node, crash(n) PROVE WaitInv'
  <2>1. /\ UNCHANGED <<block_number, UnavailableVote, report_lock, pool>>
        /\ workers' = {w \in workers : w.node # n}
        /\ lost \subseteq lost'
        /\ \A w \in workers : w.node = n => \A i \in w.todo : <<w.at_block, i, "dropped">> \in lost'
    <3>1. \A w \in workers : w.at_block \in Blocks /\ w.todo \subseteq AuthIndex
      BY <1>2 DEF WorkerOK, Worker
    <3> QED
      BY <1>7, <3>1 DEF crash, storeVars, chainVars, voteVars
  <2>2. \A w \in workers : authority_index(w) \in w.todo
    BY <1>2, NextAuthority
  <2>3. \A m \in Node, i \in AuthIndex : Kept(m, i)
    BY <1>3, <2>1, <2>2 DEF Kept, Awaited
  <2> QED
    BY <1>1, <1>2, <2>1, <2>3, WaitKept
<1>8. ASSUME NEW n, NEW k, NEW result, sample_application(n, k, result) PROVE WaitInv'
  BY <1>4, <1>8 DEF sample_application, storeVars, chainVars, voteVars, logVars
<1>9. ASSUME NEW w \in workers, acquire_report_lock(w) PROVE WaitInv'
  <2> DEFINE v == [w EXCEPT !.locked = TRUE]
             ai == authority_index(w)
  <2>1. w \in Worker /\ w.node \in Node /\ ai \in AuthIndex /\ ~w.locked
    BY <1>2, <1>9, NextAuthority DEF WorkerOK, Worker, acquire_report_lock
  <2>2. v.node = w.node /\ v.at_block = w.at_block /\ v.locked /\ authority_index(v) = ai
    BY <2>1 DEF Worker, authority_index
  <2>3. /\ UNCHANGED <<block_number, UnavailableVote, pool, lost>>
        /\ workers' = (workers \ {w}) \cup {v}
        /\ report_lock' = [report_lock EXCEPT ![w.node][ai] =
              [at_block |-> w.at_block, sent_at |-> w.at_block]]
    BY <1>9 DEF acquire_report_lock, storeVars, chainVars, voteVars, logVars
  <2> HIDE DEF v, ai
  <2>4. ASSUME NEW m \in Node, NEW i \in AuthIndex PROVE Kept(m, i)
    <3>1. CASE m = w.node /\ i = ai
      <4>1. report_lock'[m][i].at_block = w.at_block
        BY <1>2, <2>1, <2>3, <3>1
      <4>2. Awaited(m, i, w.at_block)'
        BY <2>2, <2>3, <3>1 DEF Awaited, authority_index
      <4> QED
        BY <1>2, <2>3, <4>1, <4>2 DEF Kept
    <3>2. CASE ~(m = w.node /\ i = ai)
      <4>1. report_lock'[m][i] = report_lock[m][i]
        BY <1>2, <2>1, <2>3, <3>2
      <4>2. \A u \in workers : u.locked => u \in workers'
        BY <2>1, <2>3
      <4> QED
        BY <1>3, <2>3, <4>1, <4>2 DEF Kept, Awaited
    <3> QED
      BY <3>1, <3>2
  <2>5. \A u \in workers' : u.at_block <= block_number'
    BY <1>2, <2>2, <2>3
  <2> QED
    BY <1>1, <1>2, <2>3, <2>4, <2>5, WaitKept
<1>10. ASSUME NEW w \in workers, skip_report(w) \/ lock_contended(w) PROVE WaitInv'
  <2>1. /\ UNCHANGED <<block_number, UnavailableVote, report_lock, pool>>
        /\ lost \subseteq lost' /\ advance(w) /\ ~w.locked
    BY <1>10 DEF skip_report, lock_contended, storeVars, chainVars, voteVars
  <2>2. \A v \in workers : v.locked => v \in workers'
    BY <2>1, AdvanceOthers
  <2>3. \A m \in Node, i \in AuthIndex : Kept(m, i)
    BY <1>3, <2>1, <2>2 DEF Kept, Awaited
  <2> QED
    BY <1>1, <1>2, <2>1, <2>3, WaitKept, AdvanceOthers
<1>11. ASSUME NEW w \in workers, submit_report(w) PROVE WaitInv'
  <2> DEFINE r == [at_block |-> w.at_block, authority_index |-> authority_index(w),
                   index_set |-> w.index_set, validators_len |-> w.validators_len,
                   signer |-> w.keys[authority_index(w) + 1]]
  <2>1. /\ UNCHANGED <<block_number, UnavailableVote, report_lock, lost>>
        /\ pool' = pool \cup {r} /\ advance(w)
        /\ r.at_block = w.at_block /\ r.authority_index = authority_index(w)
    BY <1>11 DEF submit_report, storeVars, chainVars, voteVars
  <2> HIDE DEF r
  <2>2. \A v \in workers : v # w => v \in workers'
    BY <2>1, AdvanceOthers
  <2>3. \A m \in Node, i \in AuthIndex : Kept(m, i)
    BY <1>3, <2>1, <2>2 DEF Kept, Awaited
  <2> QED
    BY <1>1, <1>2, <2>1, <2>3, WaitKept, AdvanceOthers
<1>12. ASSUME NEW w \in workers, submit_report_failed(w) PROVE WaitInv'
  <2> DEFINE ai == authority_index(w)
             status == [at_block |-> w.at_block, sent_at |-> 0]
  <2>1. w.node \in Node /\ ai \in AuthIndex /\ w.at_block \in Nat
    BY <1>2, NextAuthority, StoreAssumption DEF WorkerOK, Worker, Blocks
  <2>2. /\ UNCHANGED <<block_number, UnavailableVote, pool>>
        /\ lost \subseteq lost' /\ advance(w)
        /\ report_lock' = [report_lock EXCEPT ![w.node][ai] = status]
    BY <1>12 DEF submit_report_failed, release_report_lock, storeVars, chainVars, voteVars
  <2>3. \A v \in workers : v # w => v \in workers'
    BY <2>2, AdvanceOthers
  <2>4. ~waits(status) /\ status.at_block <= block_number
    BY <1>2, <2>1 DEF waits, DELAY_CHECK_THRESHOLD
  <2> HIDE DEF status
  <2>5. ASSUME NEW m \in Node, NEW i \in AuthIndex PROVE Kept(m, i)
    <3>1. CASE m = w.node /\ i = ai
      <4>1. report_lock'[m][i] = status
        BY <1>2, <2>1, <2>2, <3>1
      <4> QED
        BY <2>2, <2>4, <4>1 DEF Kept
    <3>2. CASE ~(m = w.node /\ i = ai)
      <4>1. report_lock'[m][i] = report_lock[m][i]
        BY <1>2, <2>1, <2>2, <3>2
      <4>2. \A u \in workers : u.node = m /\ authority_index(u) = i => u \in workers'
        BY <2>3, <3>2
      <4> QED
        BY <1>3, <2>2, <4>1, <4>2 DEF Kept, Awaited
    <3> QED
      BY <3>1, <3>2
  <2> QED
    BY <1>1, <1>2, <2>2, <2>5, WaitKept, AdvanceOthers
<1>13. ASSUME NEW r \in pool, include_report(r) PROVE WaitInv'
  <2>1. /\ UNCHANGED <<block_number, workers, report_lock, lost>> /\ pool' = pool \ {r}
        /\ r.index_set # {} /\ r.index_set \subseteq Indexes /\ r.at_block \in Blocks
        /\ UnavailableVote' = [UnavailableVote EXCEPT ![r.at_block] =
              [i \in Indexes |-> IF i \in r.index_set
                                   THEN @[i] \cup {r.authority_index} ELSE @[i]]]
    BY <1>1, <1>13 DEF include_report, report, report_accepted, localVars, logVars, chainVars,
                       OffchainInv, OffchainTypeOK, UnavailableDataReport
  <2>2. \A b \in Blocks, k \in Indexes : UnavailableVote[b][k] \subseteq UnavailableVote'[b][k]
    BY <1>1, <2>1 DEF OffchainInv, TypeOK
  <2>3. \E k \in Indexes : r.authority_index \in UnavailableVote'[r.at_block][k]
    BY <1>1, <2>1 DEF OffchainInv, TypeOK
  <2>4. \A m \in Node, i \in AuthIndex : Kept(m, i)
    BY <1>3, <2>1, <2>2, <2>3 DEF Kept, Awaited
  <2> QED
    BY <1>1, <1>2, <2>1, <2>4, WaitKept
<1>14. ASSUME NEW r \in pool, drop_report(r) PROVE WaitInv'
  <2>1. /\ UNCHANGED <<block_number, UnavailableVote, workers, report_lock>> /\ pool' = pool \ {r}
        /\ lost' = lost \cup {<<r.at_block, r.authority_index, "dropped">>}
    BY <1>14 DEF drop_report, storeVars, chainVars, voteVars, localVars
  <2>2. \A m \in Node, i \in AuthIndex : Kept(m, i)
    BY <1>3, <2>1 DEF Kept, Awaited
  <2> QED
    BY <1>1, <1>2, <2>1, <2>2, WaitKept
<1>15. ASSUME UNCHANGED vars PROVE WaitInv'
  BY <1>4, <1>15 DEF vars, storeVars, chainVars, voteVars, offchainVars, localVars, logVars
<1> QED
  BY <1>5, <1>6, <1>7, <1>8, <1>9, <1>10, <1>11, <1>12, <1>13, <1>14, <1>15 DEF OffchainNext

\* "Report already sent. Waiting for inclusion." is never said in vain: whatever
\* workers of a node race each other, fail or crash (with_report_lock), a status that
\* makes the node wait stands for a report on its way, counted, or lost with a crash
\* or by the pool.
THEOREM WaitsForAReport == OffchainSpec => []WaitingIsJustified
<1>1. WaitInv => WaitingIsJustified
  <2> SUFFICES ASSUME WaitInv, NEW n \in Node, NEW i \in AuthIndex,
                      NEW b, b = report_lock[n][i].at_block, b > 0, steady(b),
                      is_recent(report_lock[n][i], b, b)
               PROVE  Awaited(n, i, b)
    BY DEF WaitingIsJustified, Awaited
  <2>1. b \in Blocks
    BY LockIsPast
  <2> QED
    BY <2>1 DEF WaitInv, waits, steady, is_recent
<1> QED
  BY <1>1, WaitInitially, WaitStep, PTL DEF OffchainSpec

-----------------------------------------------------------------------------
(* Findings take effect *)

\* Workers and reports on a block whose keys stood still carry the keys of now.
KeysKnown ==
    /\ \A w \in workers : w.at_block >= keys_since => w.keys = Keys
    /\ \A r \in pool :
          /\ r.at_block <= block_number
          /\ r.at_block >= keys_since =>
                r.authority_index < Len(Keys) /\ Keys[r.authority_index + 1] = r.signer

\* No block is found missing before it is there.
FoundInThePast ==
    \A b \in Blocks, i \in Indexes : found[b][i] # {} => b <= block_number

\* Authority a's finding that blob i of block b is missing has been counted, is on its
\* way, or something was lost on the way.
UnderWay(b, i, a) ==
    \/ a \in signers[b][i]
    \/ \E r \in pool : r.at_block = b /\ r.signer = a /\ i \in r.index_set
    \/ \E w \in workers : \E p \in w.todo :
          w.at_block = b /\ w.keys[p + 1] = a /\ i \in w.index_set
    \/ \E x \in lost : x[1] = b

NoneForgotten ==
    \A b \in Blocks, i \in Indexes, a \in Authority :
        steady(b) /\ a \in found[b][i] /\ (\E p \in 1..Len(Keys) : Keys[p] = a)
            => UnderWay(b, i, a)

EffectInv ==
    /\ WaitInv /\ FoundInv /\ MajorityInv
    /\ KeysKnown
    /\ FoundInThePast
    /\ NoneForgotten

\* Votes and signers of a block whose keys stood still are the same positions.
LEMMA VoterSigned ==
    ASSUME MajorityInv, NEW b \in Blocks, NEW i \in Indexes, Counted(b),
           NEW p \in UnavailableVote[b][i]
    PROVE  p < Len(Keys) /\ Keys[p + 1] \in signers[b][i]
<1> DEFINE V == UnavailableVote[b][i]
           S == signers[b][i]
           P == {a \in V : a < Len(Keys) /\ Keys[a + 1] \in S}
           f == [a \in P |-> Keys[a + 1]]
<1>1. /\ \A s \in S : \E a \in V : a < Len(Keys) /\ Keys[a + 1] = s
      /\ Cardinality(S) = Cardinality(V)
  BY DEF MajorityInv, VotesSigned
<1>2. IsFiniteSet(V) /\ IsFiniteSet(S) /\ Cardinality(V) \in Nat
  BY FiniteVotes DEF MajorityInv, HeaderInv
<1>3. P \in SUBSET V
  OBVIOUS
<1>4. IsFiniteSet(P) /\ Cardinality(P) <= Cardinality(V) /\ Cardinality(P) \in Nat
      /\ (Cardinality(V) = Cardinality(P) => V = P)
  BY <1>2, <1>3, FS_Subset, FS_CardinalityType
<1>5. f \in Surjection(P, S)
  BY <1>1 DEF Surjection
<1>6. Cardinality(S) <= Cardinality(P)
  BY <1>4, <1>5, FS_Surjection
<1>7. V = P
  BY <1>1, <1>2, <1>4, <1>6
<1> QED
  BY <1>7

\* Where findings, signers and keys stand still and nothing that is under way gets
\* lost unnoticed, nothing is forgotten.
LEMMA NotForgotten ==
    ASSUME EffectInv, UNCHANGED <<found, Keys, keys_since, block_number>>,
           \A b \in Blocks, i \in Indexes : \A a :
              steady(b) /\ UnderWay(b, i, a) => UnderWay(b, i, a)'
    PROVE  NoneForgotten'
BY DEF EffectInv, NoneForgotten, steady, in_report_window

LEMMA KeysStayKnown ==
    ASSUME EffectInv, UNCHANGED <<Keys, keys_since, block_number>>,
           \A w \in workers' : w \in workers \/ \E v \in workers :
              w.at_block = v.at_block /\ w.keys = v.keys,
           pool' \subseteq pool
    PROVE  KeysKnown'
BY DEF EffectInv, KeysKnown

\* The worker that goes on has the same findings for the authorities left.
LEMMA AdvanceUnderWay ==
    ASSUME EffectInv, NEW w \in workers, advance(w)
    PROVE  /\ \A v \in workers' : v \in workers \/ (v.at_block = w.at_block /\ v.keys = w.keys)
           /\ \A v \in workers : \A p \in v.todo : v # w \/ p # authority_index(w) =>
                \E u \in workers' : /\ p \in u.todo /\ u.at_block = v.at_block
                                    /\ u.keys = v.keys /\ u.index_set = v.index_set
<1> DEFINE rest == w.todo \ {authority_index(w)}
           next == [w EXCEPT !.todo = rest, !.locked = FALSE]
<1>1. w \in Worker
  BY DEF EffectInv, WaitInv, OffchainInv, WorkerOK
<1>2. next.at_block = w.at_block /\ next.keys = w.keys /\ next.index_set = w.index_set
      /\ next.todo = rest
  BY <1>1 DEF Worker
<1>3. workers' = IF rest = {} THEN workers \ {w} ELSE (workers \ {w}) \cup {next}
  BY DEF advance
<1> HIDE DEF next
<1>4. \A v \in workers' : v \in workers \/ (v.at_block = w.at_block /\ v.keys = w.keys)
  BY <1>2, <1>3
<1>5. ASSUME NEW v \in workers, NEW p \in v.todo, v # w \/ p # authority_index(w)
      PROVE  \E u \in workers' : /\ p \in u.todo /\ u.at_block = v.at_block
                                 /\ u.keys = v.keys /\ u.index_set = v.index_set
  BY <1>2, <1>3, <1>5
<1> QED
  BY <1>4, <1>5

\* A worker that leaves an authority out because its report was sent: what it found is
\* in that report, or the run is noted as late.
LEMMA SkipUnderWay ==
    ASSUME EffectInv, NEW w \in workers, skip_report(w),
           NEW b \in Blocks, NEW i \in Indexes, NEW a, steady(b), UnderWay(b, i, a)
    PROVE  UnderWay(b, i, a)'
<1> DEFINE ai == authority_index(w)
<1>1. /\ advance(w) /\ ~w.locked /\ UNCHANGED <<signers, pool, UnavailableVote>>
      /\ lost' = IF w.index_set \subseteq reported(w.at_block, ai) THEN lost
                   ELSE lost \cup {<<w.at_block, ai, "late">>}
  BY DEF skip_report, storeVars, voteVars
<1>2. CASE a \in signers[b][i] \/ (\E r \in pool : r.at_block = b /\ r.signer = a /\ i \in r.index_set)
           \/ (\E x \in lost : x[1] = b)
  BY <1>1, <1>2 DEF UnderWay
<1>3. ASSUME NEW v \in workers, NEW p \in v.todo,
             v.at_block = b, v.keys[p + 1] = a, i \in v.index_set
      PROVE  UnderWay(b, i, a)'
  <2>1. CASE v # w \/ p # ai
    BY <1>1, <1>3, <2>1, AdvanceUnderWay DEF UnderWay
  <2>2. CASE v = w /\ p = ai
    <3>1. CASE ~(w.index_set \subseteq reported(b, ai))
      <4>1. <<b, ai, "late">> \in lost'
        BY <1>1, <1>3, <2>2, <3>1
      <4> QED
        BY <4>1 DEF UnderWay
    <3>2. CASE i \in reported(b, ai)
      <4>1. b >= keys_since /\ w.keys = Keys /\ a = Keys[ai + 1] /\ Counted(b)
        BY <1>3, <2>2 DEF steady, EffectInv, KeysKnown, Counted
      <4>2. CASE ai \in UnavailableVote[b][i]
        <5>1. a \in signers[b][i]
          BY <4>1, <4>2, VoterSigned DEF EffectInv
        <5> QED
          BY <1>1, <5>1 DEF UnderWay
      <4>3. ASSUME NEW r \in pool, r.at_block = b, r.authority_index = ai, i \in r.index_set
            PROVE  UnderWay(b, i, a)'
        <5>1. r.signer = a
          BY <4>1, <4>3 DEF EffectInv, KeysKnown
        <5> QED
          BY <1>1, <4>3, <5>1 DEF UnderWay
      <4>4. ASSUME NEW u \in workers, u.at_block = b, u.locked, authority_index(u) = ai,
                   i \in u.index_set
            PROVE  UnderWay(b, i, a)'
        <5>1. u # w /\ u \in workers' /\ ai \in u.todo /\ u.keys = Keys
          BY <1>1, <4>1, <4>4, AdvanceOthers, NextAuthority
             DEF EffectInv, KeysKnown, WaitInv, OffchainInv
        <5> QED
          BY <4>1, <4>4, <5>1 DEF UnderWay
      <4> QED
        BY <3>2, <4>2, <4>3, <4>4 DEF reported
    <3> QED
      BY <1>3, <2>2, <3>1, <3>2
  <2> QED
    BY <2>1, <2>2
<1> QED
  BY <1>2, <1>3 DEF UnderWay

\* The three parts of EffectInv that the other invariants do not have.
Effects == KeysKnown /\ FoundInThePast /\ NoneForgotten

LEMMA EffectTypes ==
    ASSUME EffectInv
    PROVE  /\ TypeOK /\ block_number \in Nat /\ keys_since \in Nat /\ MaxBlock \in Nat
           /\ Keys \in Seq(Authority) /\ Len(Keys) \in Nat /\ Len(Keys) <= Cardinality(Authority)
           /\ \A w \in workers : WorkerOK(w) /\ w.at_block \in Nat /\ w.at_block <= block_number
           /\ \A r \in pool : r \in UnavailableDataReport /\ r.at_block \in Nat
<1>1. OffchainInv /\ TypeOK /\ InThePast
  BY DEF EffectInv, WaitInv, OffchainInv
<1>2. block_number \in Nat /\ keys_since \in Nat /\ MaxBlock \in Nat
  BY <1>1, StoreAssumption DEF TypeOK, Blocks
<1>3. Keys \in Seq(Authority) /\ Len(Keys) \in Nat /\ Len(Keys) <= Cardinality(Authority)
  <2>1. Cardinality(Authority) \in Nat
    BY StoreAssumption, FS_CardinalityType
  <2> QED
    BY <1>1, <2>1, LenProperties DEF TypeOK, OffchainInv
<1>4. \A w \in workers : WorkerOK(w) /\ w.at_block \in Nat /\ w.at_block <= block_number
  BY <1>1, <1>2 DEF OffchainInv, InThePast, WorkerOK, Worker, Blocks
<1>5. \A r \in pool : r \in UnavailableDataReport /\ r.at_block \in Nat
  BY <1>1, <1>2 DEF OffchainInv, OffchainTypeOK, UnavailableDataReport, Blocks
<1> QED
  BY <1>1, <1>2, <1>3, <1>4, <1>5

\* The worker that starts has an authority for every key of its node.
LEMMA StartEffect ==
    ASSUME EffectInv, NEW n \in Node, offchain_worker(n)
    PROVE  Effects'
<1> DEFINE index_set == get_unavailability_apps(n, block_number)
           todo == local_authority_keys(n)
           new == [node |-> n, run |-> runs[n] + 1, at_block |-> block_number,
                   keys |-> Keys, validators_len |-> Len(Keys),
                   index_set |-> index_set, todo |-> todo, locked |-> FALSE]
<1>1. /\ block_number \in Nat /\ block_number \in Blocks /\ Len(Keys) \in Nat
      /\ Len(Keys) <= Cardinality(Authority)
      /\ found \in [Blocks -> [Indexes -> SUBSET Authority]]
  BY EffectTypes DEF EffectInv, FoundInv, TypeOK
<1>2. /\ found' = [found EXCEPT ![block_number] = [i \in Indexes |->
            IF i \in blob_indexes(block_number)
               /\ blob_confidence(n, block_number, i) = "unavailable"
              THEN @[i] \cup Holds[n] ELSE @[i]]]
      /\ workers' = IF index_set = {} \/ todo = {} THEN workers ELSE workers \cup {new}
      /\ UNCHANGED <<storeVars, pool, lost>>
  BY DEF offchain_worker
<1>3. new.index_set = index_set /\ new.todo = todo /\ new.keys = Keys
      /\ new.at_block = block_number
  OBVIOUS
<1>4. \A b \in Blocks, i \in Indexes : \A a \in found'[b][i] :
          a \in found[b][i] \/ (b = block_number /\ i \in index_set /\ a \in Holds[n])
  BY <1>1, <1>2 DEF get_unavailability_apps
<1>5. \A p \in 1..Len(Keys) : Keys[p] \in Holds[n] => p - 1 \in todo
  <2>1. \A p \in 1..Len(Keys) : p - 1 \in AuthIndex /\ p - 1 < Len(Keys) /\ (p - 1) + 1 = p
    <3>1. Cardinality(Authority) \in Nat
      BY StoreAssumption, FS_CardinalityType
    <3> QED
      BY <1>1, <3>1 DEF AuthIndex
  <2> QED
    BY <2>1 DEF local_authority_keys
<1> HIDE DEF index_set, todo, new
<1>6. UNCHANGED <<block_number, Keys, keys_since, signers>>
  BY <1>2 DEF storeVars, chainVars, keyVars, voteVars
<1>7. KeysKnown'
  BY <1>2, <1>3, <1>6 DEF EffectInv, KeysKnown
<1>8. FoundInThePast'
  <2>1. \A b \in Blocks, i \in Indexes : found'[b][i] # {} => found[b][i] # {} \/ b = block_number
    BY <1>4
  <2>2. \A b \in Blocks, i \in Indexes : found[b][i] # {} => b <= block_number
    BY DEF EffectInv, FoundInThePast
  <2>3. block_number <= block_number /\ block_number' = block_number
    BY <1>1, <1>6
  <2> QED
    BY <2>1, <2>2, <2>3 DEF FoundInThePast
<1>9. ASSUME NEW b \in Blocks, NEW i \in Indexes, NEW a \in Authority, steady(b)',
             NEW p \in 1..Len(Keys), Keys[p] = a, a \in found'[b][i]
      PROVE  UnderWay(b, i, a)'
  <2>1. CASE a \in found[b][i]
    <3>1. steady(b)
      BY <1>6, <1>9 DEF steady, in_report_window
    <3>2. UnderWay(b, i, a)
      BY <1>9, <2>1, <3>1 DEF EffectInv, NoneForgotten
    <3> QED
      BY <1>2, <1>6, <3>2 DEF UnderWay
  <2>2. CASE b = block_number /\ i \in index_set /\ a \in Holds[n]
    <3>1. new \in workers' /\ p - 1 \in new.todo /\ new.keys[(p - 1) + 1] = a
      BY <1>1, <1>2, <1>3, <1>5, <1>9, <2>2
    <3> QED
      BY <1>3, <1>6, <2>2, <3>1 DEF UnderWay
  <2> QED
    BY <1>4, <1>9, <2>1, <2>2
<1>10. NoneForgotten'
  BY <1>6, <1>9 DEF NoneForgotten
<1> QED
  BY <1>7, <1>8, <1>10 DEF Effects

\* A block that is opened has no findings, and a change of keys starts the count anew.
LEMMA ChainEffect ==
    ASSUME EffectInv, chain_step
    PROVE  Effects'
<1>1. /\ TypeOK /\ block_number \in Nat /\ keys_since \in Nat
      /\ \A w \in workers : w.at_block \in Nat /\ w.at_block <= block_number
      /\ \A r \in pool : r.at_block \in Nat /\ r.at_block <= block_number
  BY EffectTypes DEF EffectInv, KeysKnown
<1>2. UNCHANGED <<workers, pool, found, lost>>
  BY DEF chain_step, localVars, logVars
<1>3. block_number' \in {block_number, block_number + 1}
  BY DEF chain_step, initialize_block, on_new_session, open_block, submit_data,
         register_app, on_disabled, finalize_block, chainVars
<1>4. \/ UNCHANGED <<Keys, keys_since>>
      \/ keys_since' = block_number + 1 /\ block_number' \in {block_number, block_number + 1}
  BY DEF chain_step, initialize_block, on_new_session, open_block, submit_data,
         register_app, on_disabled, finalize_block, keyVars, chainVars
<1>5. KeysKnown'
  <2>1. CASE UNCHANGED <<Keys, keys_since>>
    BY <1>1, <1>2, <1>3, <2>1 DEF EffectInv, KeysKnown
  <2>2. CASE keys_since' = block_number + 1
    BY <1>1, <1>2, <1>3, <2>2 DEF KeysKnown
  <2> QED
    BY <1>4, <2>1, <2>2
<1>6. FoundInThePast'
  <2>1. \A b \in Blocks : b \in Nat
    BY StoreAssumption DEF Blocks
  <2> QED
    BY <1>1, <1>2, <1>3, <2>1 DEF EffectInv, FoundInThePast
<1>7. ASSUME NEW b \in Blocks, NEW i \in Indexes, NEW a \in Authority, steady(b)',
             NEW p \in 1..Len(Keys'), Keys'[p] = a, a \in found'[b][i]
      PROVE  UnderWay(b, i, a)'
  <2>1. b \in Nat /\ b <= block_number
    BY <1>2, <1>7, StoreAssumption DEF EffectInv, FoundInThePast, Blocks
  <2>2. UNCHANGED <<Keys, keys_since>>
    <3>1. ~(keys_since' = block_number + 1)
      BY <1>1, <1>7, <2>1 DEF steady
    <3> QED
      BY <1>4, <3>1
  <2>3. steady(b)
    BY <1>1, <1>3, <1>7, <2>1, <2>2 DEF steady, in_report_window, DELAY_CHECK_THRESHOLD
  <2>4. UnderWay(b, i, a)
    BY <1>2, <1>7, <2>2, <2>3 DEF EffectInv, NoneForgotten
  <2>5. signers'[b] = signers[b]
    <3>1. CASE UNCHANGED signers
      BY <3>1
    <3>2. CASE finalize_block
      <4>1. block_number' = block_number /\ b + 1 >= block_number
        BY <1>7, <3>2 DEF finalize_block, steady, in_report_window, DELAY_CHECK_THRESHOLD
      <4>2. CASE DELAY_CHECK_THRESHOLD + 1 >= block_number
        BY <3>2, <4>2 DEF finalize_block, on_finalize, voteVars
      <4>3. CASE ~(DELAY_CHECK_THRESHOLD + 1 >= block_number)
        <5>1. PICK kept \in SUBSET Indexes : clear_prefix(kept)
          BY <3>2, <4>3 DEF finalize_block, on_finalize
        <5>2. expired_block # b
          BY <1>1, <2>1, <4>1 DEF expired_block, DELAY_CHECK_THRESHOLD
        <5> QED
          BY <1>1, <5>1, <5>2 DEF clear_prefix, TypeOK
      <4> QED
        BY <4>2, <4>3
    <3> QED
      BY <3>1, <3>2 DEF chain_step, initialize_block, on_new_session, open_block, submit_data,
                        register_app, on_disabled, voteVars
  <2> QED
    BY <1>2, <2>2, <2>4, <2>5 DEF UnderWay
<1>8. NoneForgotten'
  BY <1>7 DEF NoneForgotten
<1> QED
  BY <1>5, <1>6, <1>8 DEF Effects

LEMMA EffectStep == EffectInv /\ [OffchainNext]_vars => EffectInv'
<1> SUFFICES ASSUME EffectInv, [OffchainNext]_vars PROVE EffectInv'
  OBVIOUS
<1>1. WaitInv' /\ FoundInv'
  BY WaitStep, FoundStep DEF EffectInv
<1>2. MajorityInv'
  BY OffchainStepsAreStoreSteps, MajorityStep DEF EffectInv, WaitInv
<1>3. \A w \in workers : WorkerOK(w) /\ authority_index(w) \in w.todo
  BY EffectTypes, NextAuthority
<1>4. ASSUME UNCHANGED <<block_number, Keys, keys_since, found>>,
             \A w \in workers' : w \in workers \/ \E v \in workers :
                w.at_block = v.at_block /\ w.keys = v.keys,
             pool' \subseteq pool,
             \A b \in Blocks, i \in Indexes : \A a :
                steady(b) /\ UnderWay(b, i, a) => UnderWay(b, i, a)'
      PROVE  Effects'
  BY <1>4, KeysStayKnown, NotForgotten DEF Effects, EffectInv, FoundInThePast
<1>5. ASSUME NEW n \in Node, crash(n) PROVE Effects'
  <2>1. /\ UNCHANGED <<block_number, Keys, keys_since, found, signers, pool>>
        /\ workers' = {w \in workers : w.node # n}
        /\ lost \subseteq lost'
    BY <1>5 DEF crash, storeVars, chainVars, voteVars, keyVars
  <2>2. \A w \in workers : w.node = n => \E x \in lost' : x[1] = w.at_block
    <3> SUFFICES ASSUME NEW w \in workers, w.node = n
                 PROVE  \E x \in lost' : x[1] = w.at_block
      OBVIOUS
    <3> DEFINE x == <<w.at_block, authority_index(w), "dropped">>
    <3>1. x \in Blocks \X AuthIndex \X {"dropped"} /\ authority_index(w) \in w.todo
      BY <1>3 DEF WorkerOK, Worker
    <3>2. x \in lost'
      BY <1>5, <3>1 DEF crash
    <3> QED
      BY <3>2
  <2>3. \A b \in Blocks, i \in Indexes : \A a : UnderWay(b, i, a) => UnderWay(b, i, a)'
    BY <2>1, <2>2 DEF UnderWay
  <2> QED
    BY <1>4, <2>1, <2>3
<1>6. ASSUME NEW n, NEW k, NEW result, sample_application(n, k, result) PROVE Effects'
  <2>1. UNCHANGED <<block_number, Keys, keys_since, found, signers, pool, workers, lost>>
    BY <1>6 DEF sample_application, storeVars, chainVars, voteVars, keyVars, logVars
  <2> QED
    BY <1>4, <2>1 DEF UnderWay
<1>7. ASSUME NEW w \in workers, acquire_report_lock(w) PROVE Effects'
  <2> DEFINE v == [w EXCEPT !.locked = TRUE]
  <2>1. w \in Worker
    BY <1>3 DEF WorkerOK
  <2>2. v.at_block = w.at_block /\ v.keys = w.keys /\ v.index_set = w.index_set /\ v.todo = w.todo
    BY <2>1 DEF Worker
  <2>3. /\ UNCHANGED <<block_number, Keys, keys_since, found, signers, pool, lost>>
        /\ workers' = (workers \ {w}) \cup {v}
    BY <1>7 DEF acquire_report_lock, storeVars, chainVars, voteVars, keyVars, logVars
  <2> HIDE DEF v
  <2>4. \A b \in Blocks, i \in Indexes : \A a : UnderWay(b, i, a) => UnderWay(b, i, a)'
    BY <2>2, <2>3 DEF UnderWay
  <2> QED
    BY <1>4, <2>2, <2>3, <2>4
<1>8. ASSUME NEW w \in workers, skip_report(w) PROVE Effects'
  <2>1. UNCHANGED <<block_number, Keys, keys_since, found, pool>> /\ advance(w)
    BY <1>8 DEF skip_report, storeVars, chainVars, keyVars
  <2>2. \A b \in Blocks, i \in Indexes : \A a :
            steady(b) /\ UnderWay(b, i, a) => UnderWay(b, i, a)'
    BY <1>8, SkipUnderWay
  <2> QED
    BY <1>4, <2>1, <2>2, AdvanceUnderWay
<1>9. ASSUME NEW w \in workers, lock_contended(w) \/ submit_report_failed(w) PROVE Effects'
  <2>1. /\ UNCHANGED <<block_number, Keys, keys_since, found, signers, pool>> /\ advance(w)
        /\ \E x : lost' = lost \cup {x} /\ x[1] = w.at_block
    <3>1. UNCHANGED <<block_number, Keys, keys_since, found, signers, pool>> /\ advance(w)
      BY <1>9 DEF lock_contended, submit_report_failed, storeVars, chainVars, voteVars, keyVars
    <3>2. PICK how : lost' = lost \cup {<<w.at_block, authority_index(w), how>>}
      BY <1>9 DEF lock_contended, submit_report_failed
    <3> DEFINE x == <<w.at_block, authority_index(w), how>>
    <3>3. x[1] = w.at_block /\ lost' = lost \cup {x}
      BY <3>2
    <3> HIDE DEF x
    <3> QED
      BY <3>1, <3>3
  <2>2. \A b \in Blocks, i \in Indexes : \A a : UnderWay(b, i, a) => UnderWay(b, i, a)'
    BY <2>1, AdvanceUnderWay DEF UnderWay
  <2> QED
    BY <1>4, <2>1, <2>2, AdvanceUnderWay
<1>10. ASSUME NEW w \in workers, submit_report(w) PROVE Effects'
  <2> DEFINE ai == authority_index(w)
             r == [at_block |-> w.at_block, authority_index |-> ai,
                   index_set |-> w.index_set, validators_len |-> w.validators_len,
                   signer |-> w.keys[ai + 1]]
  <2>1. /\ UNCHANGED <<block_number, Keys, keys_since, found, signers, lost>> /\ advance(w)
        /\ pool' = pool \cup {r}
    BY <1>10 DEF submit_report, storeVars, chainVars, voteVars, keyVars
  <2>2. /\ r.at_block = w.at_block /\ r.index_set = w.index_set /\ r.authority_index = ai
        /\ r.signer = w.keys[ai + 1]
    OBVIOUS
  <2> HIDE DEF r
  <2>3. \A b \in Blocks, i \in Indexes : \A a : UnderWay(b, i, a) => UnderWay(b, i, a)'
    <3> SUFFICES ASSUME NEW b \in Blocks, NEW i \in Indexes, NEW a, UnderWay(b, i, a)
                 PROVE  UnderWay(b, i, a)'
      OBVIOUS
    <3>1. ASSUME NEW v \in workers, NEW p \in v.todo, v.at_block = b, v.keys[p + 1] = a,
                 i \in v.index_set
          PROVE  UnderWay(b, i, a)'
      <4>1. CASE v # w \/ p # ai
        BY <2>1, <3>1, <4>1, AdvanceUnderWay DEF UnderWay
      <4>2. CASE v = w /\ p = ai
        BY <2>1, <2>2, <3>1, <4>2 DEF UnderWay
      <4> QED
        BY <4>1, <4>2
    <3> QED
      BY <2>1, <3>1 DEF UnderWay
  <2>4. KeysKnown'
    <3>1. ai \in w.todo /\ ai < Len(w.keys) /\ w.at_block <= block_number
      BY <1>3, EffectTypes DEF WorkerOK
    <3>2. w.at_block >= keys_since => w.keys = Keys
      BY DEF EffectInv, KeysKnown
    <3>3. \A v \in workers' : v.at_block >= keys_since => v.keys = Keys
      BY <2>1, <3>2, AdvanceUnderWay DEF EffectInv, KeysKnown
    <3> QED
      BY <2>1, <2>2, <3>1, <3>2, <3>3 DEF EffectInv, KeysKnown
  <2>5. FoundInThePast'
    BY <2>1 DEF EffectInv, FoundInThePast
  <2> QED
    BY <2>1, <2>3, <2>4, <2>5, NotForgotten DEF Effects
<1>11. ASSUME NEW r \in pool, include_report(r) PROVE Effects'
  <2>1. /\ r.at_block \in Blocks /\ r.index_set \subseteq Indexes
        /\ signers \in [Blocks -> [Indexes -> SUBSET Authority]]
    BY EffectTypes DEF UnavailableDataReport, TypeOK
  <2>2. /\ pool' = pool \ {r}
        /\ UNCHANGED <<block_number, Keys, keys_since, found, workers, lost>>
        /\ signers' = [signers EXCEPT ![r.at_block] =
              [i \in Indexes |-> IF i \in r.index_set THEN @[i] \cup {r.signer} ELSE @[i]]]
    BY <1>11 DEF include_report, report, localVars, logVars, chainVars, keyVars
  <2>3. /\ \A b \in Blocks, i \in Indexes : signers[b][i] \subseteq signers'[b][i]
        /\ \A i \in r.index_set : r.signer \in signers'[r.at_block][i]
    BY <2>1, <2>2
  <2>4. \A b \in Blocks, i \in Indexes : \A a : UnderWay(b, i, a) => UnderWay(b, i, a)'
    BY <2>2, <2>3, ZenonT(30) DEF UnderWay
  <2> QED
    BY <1>4, <2>2, <2>4
<1>12. ASSUME NEW r \in pool, drop_report(r) PROVE Effects'
  <2>1. /\ pool' = pool \ {r}
        /\ UNCHANGED <<block_number, Keys, keys_since, found, signers, workers>>
        /\ \E x : lost' = lost \cup {x} /\ x[1] = r.at_block
    <3>1. /\ pool' = pool \ {r}
          /\ UNCHANGED <<block_number, Keys, keys_since, found, signers, workers>>
      BY <1>12 DEF drop_report, storeVars, chainVars, voteVars, keyVars, localVars
    <3> DEFINE x == <<r.at_block, r.authority_index, "dropped">>
    <3>2. x[1] = r.at_block /\ lost' = lost \cup {x}
      BY <1>12 DEF drop_report
    <3> HIDE DEF x
    <3> QED
      BY <3>1, <3>2
  <2>2. \A b \in Blocks, i \in Indexes : \A a : UnderWay(b, i, a) => UnderWay(b, i, a)'
    BY <2>1 DEF UnderWay
  <2> QED
    BY <1>4, <2>1, <2>2
<1>13. ASSUME UNCHANGED vars PROVE Effects'
  <2>1. UNCHANGED <<block_number, Keys, keys_since, found, signers, pool, workers, lost>>
    BY <1>13 DEF vars, storeVars, chainVars, voteVars, keyVars, offchainVars, localVars, logVars
  <2> QED
    BY <1>4, <2>1 DEF UnderWay
<1>14. Effects'
  BY <1>5, <1>6, <1>7, <1>8, <1>9, <1>10, <1>11, <1>12, <1>13, ChainEffect, StartEffect
     DEF OffchainNext
<1> QED
  BY <1>1, <1>2, <1>14 DEF EffectInv, Effects

\* Nothing is under way any more, so that every finding is a vote.
LEMMA EffectFollows == EffectInv => FindingsTakeEffect
<1> SUFFICES ASSUME EffectInv, NEW b \in Blocks, settled(b), NEW k \in DOMAIN Metadata[b],
                    2 * Cardinality(found[b][k - 1] \cap ToSet(Keys)) > Len(Keys)
             PROVE  ~Metadata[b][k].is_available
  BY DEF FindingsTakeEffect
<1> DEFINE S == signers[b][k - 1] \cap ToSet(Keys)
           F == found[b][k - 1] \cap ToSet(Keys)
<1>1. TypeOK /\ Len(Keys) \in Nat /\ DOMAIN Keys = 1..Len(Keys) /\ block_number \in Nat
  BY EffectTypes, LenProperties
<1>2. k - 1 \in Indexes
  BY <1>1, LenProperties, StoreAssumption DEF TypeOK, Indexes
<1>3. b \in Nat /\ steady(b) /\ in_report_window(b) /\ b >= keys_since
  <2>1. b \in Nat
    BY StoreAssumption DEF Blocks
  <2> QED
    BY <1>1, <2>1, EffectTypes DEF settled, steady, in_report_window, DELAY_CHECK_THRESHOLD
<1>4. F \subseteq S
  <2> SUFFICES ASSUME NEW a \in F PROVE a \in signers[b][k - 1]
    OBVIOUS
  <2>1. a \in Authority /\ \E p \in 1..Len(Keys) : Keys[p] = a
    BY <1>1, <1>2 DEF ToSet, EffectInv, FoundInv
  <2>2. UnderWay(b, k - 1, a)
    BY <1>2, <1>3, <2>1 DEF EffectInv, NoneForgotten
  <2> QED
    BY <2>2 DEF UnderWay, settled
<1>5. S \in SUBSET Authority
  BY <1>1, <1>2 DEF TypeOK
<1>6. IsFiniteSet(S)
  BY <1>5, StoreAssumption, FS_Subset
<1>7. Cardinality(F) <= Cardinality(S) /\ Cardinality(S) \in Nat /\ Cardinality(F) \in Nat
  BY <1>4, <1>6, FS_Subset, FS_CardinalityType
<1> HIDE DEF S, F
<1>8. 2 * Cardinality(S) > Len(Keys)
  <2>1. 2 * Cardinality(F) > Len(Keys)
    BY DEF F
  <2> QED
    BY <1>1, <1>7, <2>1
<1> QED
  BY <1>3, <1>8, MajorityFollows DEF S, EffectInv, MajorityBacked

\* When the workers on a block have ended and what they sent has been applied, a blob
\* that the holders of more than half of the keys found missing is unavailable before
\* the header over the block is sealed: with_report_lock makes no worker wait for a
\* report that says less than it found, without the run being noted as late.
THEOREM FindingsCount == OffchainSpec => []FindingsTakeEffect
<1>1. OffchainInit => EffectInv
  <2> SUFFICES ASSUME OffchainInit PROVE EffectInv
    OBVIOUS
  <2>1. WaitInv
    BY WaitInitially
  <2>2. FoundInv /\ MajorityInv
    BY OffchainInitially, MajorityInit
       DEF OffchainInit, Init, FoundInv, PoolFound, SignersFound
  <2> QED
    BY <2>1, <2>2 DEF OffchainInit, EffectInv, KeysKnown, FoundInThePast, NoneForgotten
<1> QED
  BY <1>1, EffectStep, EffectFollows, PTL DEF OffchainSpec
=============================================================================
