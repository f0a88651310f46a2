---------------------------- MODULE ClientProofs ----------------------------
(***************************************************************************)
(* Proofs about the client programs: the light client for chains, channels *)
(* and numbers of restarts of any size, the farmer for hashes, blobs and   *)
(* chains of any size, the SQLite store for any number of tasks, keys and  *)
(* values that share one connection, and the submission of blobs for any   *)
(* number of submissions and retries.                                      *)
(***************************************************************************)
EXTENDS Clients, SubmitBlob, FiniteSetTheorems, SequenceTheorems, WellFoundedInduction,
        NaturalsInduction, TLAPS

-----------------------------------------------------------------------------
(* The light client *)

\* One header at a time is handled, the last one of the subscription.
OneHead ==
    /\ next_head >= finalized
    /\ feed \in {"sending", "sampling"} => head \in Block /\ head = finalized
    /\ \A b \in Block : task[b] # "idle" => feed = "sampling" /\ b = head

\* Nothing writes the record that set_last_at compares with, so every header that has
\* been sampled is noted; none of them is above the subscription.
Noted ==
    /\ last_at_record = 0
    /\ last_processed \in sampled \cup {0}
    /\ \A b \in sampled : b <= last_processed /\ b <= finalized

\* A header that is noted, or is about to be, has its confidence saved.
Saved ==
    \A b \in Block :
        /\ task[b] = "saved" => confidence[b] # "none"
        /\ b \in sampled /\ header[b] = "blobs" => confidence[b] # "none"

LightInv == LightTypeOK /\ OneHead /\ Noted /\ Saved

-----------------------------------------------------------------------------
LEMMA LightInitially == LightInit => LightInv
BY ClientAssumption, LightAssumption
   DEF LightInit, ClientInit, LightInv, LightTypeOK, ClientTypeOK, OneHead, Noted, Saved,
       Header, Stage, Reliability, Feed

\* The subscription moves on and leaves the client alone.
LEMMA FeedKeeps ==
    ASSUME LightInv, receive \/ receive_error \/ disconnect
    PROVE  LightInv'
<1>1. next_head \in Nat /\ finalized \in Nat /\ MaxBlock \in Nat
  BY ClientAssumption DEF LightInv, LightTypeOK
<1>2. UNCHANGED clientVars /\ \A b \in Block : task[b] = "idle"
  BY DEF receive, receive_error, disconnect, LightInv, OneHead
<1>3. finalized' \in 0..MaxBlock /\ finalized' >= finalized /\ next_head' \in 1..(MaxBlock + 1)
      /\ next_head' >= finalized'
  BY <1>1 DEF receive, receive_error, disconnect, advance, LightInv, LightTypeOK, OneHead
<1>4. LightTypeOK'
  BY <1>1, <1>2, <1>3 DEF receive, receive_error, disconnect, advance, LightInv, LightTypeOK,
     ClientTypeOK, clientVars, Feed
<1>5. OneHead'
  BY <1>1, <1>2, <1>3 DEF receive, receive_error, disconnect, advance, OneHead, clientVars,
     LightInv, LightTypeOK, Block
<1>6. Noted' /\ Saved'
  <2>1. \A b \in sampled : b \in Nat /\ b <= finalized
    BY <1>1 DEF LightInv, LightTypeOK, ClientTypeOK, Noted, Block
  <2>2. \A b \in sampled : b <= finalized'
    BY <1>1, <1>3, <2>1
  <2>. QED BY <1>2, <2>2 DEF LightInv, Noted, Saved, clientVars
<1>. QED BY <1>4, <1>5, <1>6 DEF LightInv

\* The message is sent and the header's task starts.
LEMMA SendKeeps ==
    ASSUME LightInv, send_message
    PROVE  LightInv'
<1>1. /\ task' = [b \in Block |-> IF b \in {head} THEN "sampling" ELSE task[b]]
      /\ channel' = channel + 1 /\ channel < ChannelCapacity
      /\ feed = "sending" /\ feed' = "sampling"
      /\ UNCHANGED <<header, confidence, last_processed, last_at_record, sampled,
                     head, next_head, finalized, restarts>>
  BY DEF send_message, start_tasks, has_room
<1>2. head \in Block /\ head = finalized /\ \A b \in Block : task[b] = "idle"
  BY <1>1 DEF LightInv, OneHead
<1>3. LightTypeOK'
  BY <1>1, LightAssumption DEF LightInv, LightTypeOK, ClientTypeOK, Feed, Stage
<1>4. OneHead'
  BY <1>1, <1>2 DEF LightInv, OneHead
<1>5. Noted' /\ Saved'
  BY <1>1, <1>2 DEF LightInv, Noted, Saved
<1>. QED BY <1>3, <1>4, <1>5 DEF LightInv

\* A step of the header's task.
LEMMA SampleKeeps ==
    ASSUME LightInv, NEW b \in Block, sample_head(b)
    PROVE  LightInv'
<1>1. /\ task[b] # "idle" /\ feed = "sampling" /\ b = head /\ b = finalized
      /\ \A c \in Block : c # b => task[c] = "idle"
  BY DEF sample_head, task_step, sample, sample_failed, finish_sampling, LightInv, OneHead
<1>2. /\ feed' = IF task'[b] = "idle" THEN "waiting" ELSE feed
      /\ UNCHANGED <<head, next_head, finalized, channel, restarts>>
  BY <1>1 DEF sample_head, feed_after
<1>3. /\ \E st \in {"saved", "idle"} : task' = [task EXCEPT ![b] = st]
      /\ UNCHANGED <<header, last_at_record>>
  BY DEF sample_head, task_step, sample, sample_failed, finish_sampling
<1>4. OneHead'
  BY <1>1, <1>2, <1>3 DEF LightInv, LightTypeOK, ClientTypeOK, OneHead
<1>5. b \in Nat /\ last_processed \in Nat /\ MaxBlock \in Nat /\ b <= MaxBlock
  BY ClientAssumption DEF Block, LightInv, LightTypeOK, ClientTypeOK
<1>6. ASSUME NEW result \in {"available", "unavailable"}, sample(b, result)
      PROVE  LightTypeOK' /\ Noted' /\ Saved'
  <2>1. /\ confidence' = [confidence EXCEPT ![b] = result]
        /\ UNCHANGED <<header, last_processed, last_at_record, sampled>>
    BY <1>6 DEF sample, save_confidence
  <2>2. LightTypeOK'
    BY <1>2, <1>3, <2>1 DEF LightInv, LightTypeOK, ClientTypeOK, Stage, Reliability, Feed
  <2>3. Saved'
    BY <1>1, <1>3, <2>1 DEF LightInv, LightTypeOK, ClientTypeOK, Saved
  <2>4. Noted'
    BY <1>2, <2>1 DEF LightInv, Noted
  <2>. QED BY <2>2, <2>3, <2>4
<1>7. ASSUME sample_failed(b) PROVE LightTypeOK' /\ Noted' /\ Saved'
  <2>1. LightTypeOK'
    BY <1>2, <1>7 DEF sample_failed, LightInv, LightTypeOK, ClientTypeOK, Stage, Feed
  <2>2. Noted'
    BY <1>2, <1>7 DEF sample_failed, LightInv, Noted
  <2>3. Saved'
    BY <1>7 DEF sample_failed, LightInv, LightTypeOK, ClientTypeOK, Saved
  <2>. QED BY <2>1, <2>2, <2>3
<1>8. ASSUME finish_sampling(b) PROVE LightTypeOK' /\ Noted' /\ Saved'
  <2>1. last_processed' = b /\ sampled' = sampled \cup {b}
        /\ UNCHANGED <<header, confidence, last_at_record>>
    BY <1>8 DEF finish_sampling, set_last_at, LightInv, Noted
  <2>2. LightTypeOK'
    BY <1>2, <1>3, <1>5, <2>1 DEF LightInv, LightTypeOK, ClientTypeOK, Stage, Feed
  <2>3. \A c \in sampled' : c <= b
    BY <1>1, <1>5, <2>1 DEF LightInv, Noted
  <2>4. Noted'
    BY <1>1, <1>2, <2>1, <2>3 DEF LightInv, Noted
  <2>5. header[b] = "blobs" => confidence[b] # "none"
    BY <1>8 DEF finish_sampling, LightInv, Saved
  <2>6. task'[b] = "idle" /\ \A c \in Block : c # b => task'[c] = task[c]
    BY <1>8 DEF finish_sampling, LightInv, LightTypeOK, ClientTypeOK
  <2>7. Saved'
    BY <2>1, <2>5, <2>6 DEF LightInv, Saved
  <2>. QED BY <2>2, <2>4, <2>7
<1>. QED BY <1>4, <1>6, <1>7, <1>8 DEF LightInv, sample_head, task_step

\* The program starts again with what is in the database.
LEMMA RestartKeeps ==
    ASSUME LightInv, restart
    PROVE  LightInv'
<1>1. PICK n \in Block : n >= finalized /\ next_head' = n /\ finalized' = n
  BY DEF restart
<1>2. /\ task' = [b \in Block |-> "idle"]
      /\ feed' = "waiting" /\ head' = 0 /\ channel' = 0
      /\ restarts < MaxRestarts /\ restarts' = restarts + 1
      /\ UNCHANGED <<header, confidence, last_processed, last_at_record, sampled>>
  BY DEF restart
<1>3. LightTypeOK'
  BY <1>1, <1>2, ClientAssumption, LightAssumption
     DEF LightInv, LightTypeOK, ClientTypeOK, Stage, Feed, Block
<1>4. n \in Nat /\ finalized \in Nat /\ \A b \in sampled : b \in Nat
  BY ClientAssumption DEF Block, LightInv, LightTypeOK, ClientTypeOK
<1>5. \A b \in sampled : b <= n
  BY <1>1, <1>4 DEF LightInv, Noted
<1>6. OneHead'
  BY <1>1, <1>2, <1>4 DEF OneHead
<1>7. Noted' /\ Saved'
  BY <1>1, <1>2, <1>5 DEF LightInv, Noted, Saved
<1>. QED BY <1>3, <1>6, <1>7 DEF LightInv

\* The invariant is inductive.
THEOREM LightInvariant == LightSpec => []LightInv
<1>1. LightInv /\ [LightNext]_vars => LightInv'
  <2>. SUFFICES ASSUME LightInv, [LightNext]_vars PROVE LightInv'
    OBVIOUS
  <2>1. CASE UNCHANGED vars
    BY <2>1 DEF vars, clientVars, feedVars, LightInv, LightTypeOK, ClientTypeOK, OneHead, Noted, Saved
  <2>. QED BY <2>1, FeedKeeps, SendKeeps, SampleKeeps, RestartKeeps DEF LightNext
<1>. QED BY <1>1, LightInitially, PTL DEF LightSpec

\* The RPC `last` names the highest header the light client has sampled, for any chain,
\* any headers lost and any restarts (set_last_at, finalized_headers).
THEOREM LastIsHighest == LightSpec => []LastIsHighestSampled
<1>1. LightInv => LastIsHighestSampled
  BY DEF LightInv, LightTypeOK, ClientTypeOK, Noted, LastIsHighestSampled
<1>. QED BY <1>1, LightInvariant, PTL

\* Also in the light client the block noted as processed has its confidence saved
\* (sample_block).
THEOREM LightProcessedIsSaved == LightSpec => []ProcessedHasConfidence
<1>1. LightInv => ProcessedHasConfidence
  BY DEF LightInv, LightTypeOK, ClientTypeOK, Noted, Saved, ProcessedHasConfidence
<1>. QED BY <1>1, LightInvariant, PTL

-----------------------------------------------------------------------------
(* The farmer *)

\* Claims have numbers of their own, and every claim in the pool that is not waited for
\* was left there by a restart.
FlightInv ==
    /\ claims \in Nat /\ farm_restarts \in Nat
    /\ claim_pool \subseteq 1..claims
    /\ watched \in 0..claims
    /\ farm # "watching" => watched = 0
    /\ Cardinality(claim_pool \ {watched}) <= farm_restarts

\* The database is held from the saving of the pieces to the end of the claims.
LockHeldByClaims == db_locked <=> farm \in {"claiming", "watching"}

\* Where a header is saved the database is free.
DatabaseFree == farm = "saving" => ~db_locked

-----------------------------------------------------------------------------
LEMMA Finite == FlightInv => IsFiniteSet(claim_pool)
<1>1. claims \in Nat => IsFiniteSet(1..claims)
  BY FS_Interval
<1>. QED BY <1>1, FS_Subset DEF FlightInv

\* Claims that leave the pool leave fewer behind.
LEMMA FewerClaims ==
    ASSUME FlightInv, claim_pool' \subseteq claim_pool,
           UNCHANGED <<claims, farm_restarts, watched, farm>>
    PROVE  FlightInv'
<1>1. IsFiniteSet(claim_pool \ {watched}) /\ claim_pool' \ {watched} \subseteq claim_pool \ {watched}
  BY Finite, FS_Subset
<1>2. /\ Cardinality(claim_pool' \ {watched}) <= Cardinality(claim_pool \ {watched})
      /\ Cardinality(claim_pool' \ {watched}) \in Nat
      /\ Cardinality(claim_pool \ {watched}) \in Nat
  BY <1>1, FS_Subset, FS_CardinalityType
<1>. QED BY <1>2 DEF FlightInv

LEMMA FlightStep == FlightInv /\ [FarmNext]_farmVars => FlightInv'
<1>. SUFFICES ASSUME FlightInv, [FarmNext]_farmVars PROVE FlightInv'
  OBVIOUS
<1>1. CASE settle
  BY <1>1, FewerClaims DEF settle, new_block, drop_tx, loopState
<1>2. CASE receive_best \/ receive_best_error \/ send_header \/ fetch \/ save_and_find
  BY <1>2 DEF FlightInv, receive_best, receive_best_error, send_header, fetch, fetch_error,
              fetch_abort, fetched, save_and_find, chainState
<1>3. CASE submit_claim
  <2>1. /\ claims' = claims + 1 /\ watched = 0 /\ watched' = claims'
        /\ claim_pool' = claim_pool \cup {claims'} /\ farm_restarts' = farm_restarts
        /\ farm' = "watching"
    BY <1>3 DEF submit_claim, FlightInv
  <2>2. claim_pool \subseteq 1..claims /\ claims \in Nat
    BY DEF FlightInv
  <2>3. claim_pool' \ {watched'} = claim_pool \ {watched}
    BY <2>1, <2>2
  <2>. QED BY <2>1, <2>2, <2>3 DEF FlightInv
<1>4. CASE submit_claim_error \/ header_done \/ disconnect_best
  BY <1>4 DEF FlightInv, submit_claim_error, header_done, disconnect_best, chainState
<1>5. CASE wait_for_finalized
  <2>1. claim_pool' \ {watched'} = claim_pool \ {watched}
    BY <1>5 DEF wait_for_finalized, claim_ended, chainState, FlightInv
  <2>2. /\ watched' = 0 /\ farm' = "claiming" /\ claim_pool' = claim_pool
        /\ claims' = claims /\ farm_restarts' = farm_restarts
    BY <1>5 DEF wait_for_finalized, chainState
  <2>. QED BY <2>1, <2>2 DEF FlightInv
<1>6. CASE farm_restart
  <2>1. IsFiniteSet(claim_pool) /\ IsFiniteSet(claim_pool \ {watched})
    BY Finite, FS_Subset
  <2>2. /\ Cardinality(claim_pool) <= Cardinality(claim_pool \ {watched}) + 1
        /\ Cardinality(claim_pool) \in Nat /\ Cardinality(claim_pool \ {watched}) \in Nat
    BY <2>1, FS_RemoveElement, FS_CardinalityType
  <2>3. claim_pool' \ {watched'} = claim_pool
    BY <1>6 DEF farm_restart, chainState, FlightInv
  <2>4. /\ farm_restarts' = farm_restarts + 1 /\ watched' = 0 /\ farm' = "waiting"
        /\ claims' = claims /\ claim_pool' = claim_pool
    BY <1>6 DEF farm_restart, chainState
  <2>5. Cardinality(claim_pool' \ {watched'}) <= farm_restarts'
    BY <2>2, <2>3, <2>4 DEF FlightInv
  <2>. QED BY <2>4, <2>5 DEF FlightInv
<1>7. CASE UNCHANGED farmVars
  BY <1>7 DEF FlightInv, farmVars, loopState, chainState
<1>. QED BY <1>1, <1>2, <1>3, <1>4, <1>5, <1>6, <1>7 DEF FarmNext, claim_step

\* For any number of solutions, blocks and restarts, the farmer has one claim in the pool
\* for each start of the program: it waits for the end of a claim before the next one
\* (claims of the farmer's event_handler).
THEOREM ClaimsOneByOne == FarmSpec => []OneClaimInFlight
<1>1. FarmInit => FlightInv
  <2>1. {} \ {0} = {} /\ Cardinality({}) = 0
    BY FS_EmptySet
  <2>. QED BY <2>1 DEF FarmInit, FlightInv
<1>2. FlightInv => OneClaimInFlight
  <2>. SUFFICES ASSUME FlightInv PROVE OneClaimInFlight
    OBVIOUS
  <2>1. IsFiniteSet(claim_pool) /\ IsFiniteSet(claim_pool \ {watched})
    BY Finite, FS_Subset
  <2>2. /\ Cardinality(claim_pool) <= Cardinality(claim_pool \ {watched}) + 1
        /\ Cardinality(claim_pool) \in Nat /\ Cardinality(claim_pool \ {watched}) \in Nat
    BY <2>1, FS_RemoveElement, FS_CardinalityType
  <2>. QED BY <2>2 DEF FlightInv, OneClaimInFlight
<1>. QED BY <1>1, <1>2, FlightStep, PTL DEF FarmSpec

LEMMA LockStep == LockHeldByClaims /\ [FarmNext]_farmVars => LockHeldByClaims'
<1>. SUFFICES ASSUME LockHeldByClaims, [FarmNext]_farmVars PROVE LockHeldByClaims'
  OBVIOUS
<1>. USE DEF LockHeldByClaims
<1>1. CASE settle
  BY <1>1 DEF settle, new_block, drop_tx, loopState
<1>2. CASE receive_best \/ receive_best_error \/ send_header
  BY <1>2 DEF receive_best, receive_best_error, send_header
<1>3. CASE fetch
  BY <1>3 DEF fetch, fetch_error, fetch_abort, fetched
<1>4. CASE save_and_find
  BY <1>4 DEF save_and_find
<1>5. CASE claim_step
  BY <1>5 DEF claim_step, submit_claim, submit_claim_error, wait_for_finalized, header_done, unlocked
<1>6. CASE disconnect_best \/ farm_restart
  BY <1>6 DEF disconnect_best, farm_restart
<1>7. CASE UNCHANGED farmVars
  BY <1>7 DEF farmVars, loopState
<1>. QED BY <1>1, <1>2, <1>3, <1>4, <1>5, <1>6, <1>7 DEF FarmNext

\* The loop never waits for itself: it holds the database while it waits for the end of
\* its claims, and comes to the next header with the database free (event_handler).
THEOREM NeverLocksItselfOut == FarmSpec => []DatabaseFree
<1>1. FarmInit => LockHeldByClaims
  BY DEF FarmInit, LockHeldByClaims
<1>2. LockHeldByClaims => DatabaseFree
  BY DEF LockHeldByClaims, DatabaseFree
<1>. QED BY <1>1, <1>2, LockStep, PTL DEF FarmSpec

-----------------------------------------------------------------------------
(* The indices the farmer selects and the chain accepts *)

\* Induction, over a set that stands for the property.
LEMMA InductionOnSet ==
    ASSUME NEW S, 0 \in S, \A n \in Nat : n \in S => n + 1 \in S
    PROVE  Nat \subseteq S
<1> DEFINE R == OpToRel(<, Nat)  T == Nat \ S
<1> SUFFICES ASSUME T # {} PROVE FALSE
  OBVIOUS
<1>1. IsWellFoundedOn(R, Nat)
  BY NatLessThanWellFounded
<1> HIDE DEF R
<1>2. T \subseteq Nat
  OBVIOUS
<1>3. PICK x \in T : \A y \in T : ~(<<y, x>> \in R)
  BY <1>1, <1>2, WFMin
<1>4. x \in Nat /\ x # 0 /\ x - 1 \in Nat /\ x - 1 < x /\ (x - 1) + 1 = x
  BY <1>3
<1>5. x - 1 \in T
  BY <1>3, <1>4
<1> QED
  BY <1>3, <1>4, <1>5 DEF R, OpToRel

LEMMA AppendToSet ==
    ASSUME NEW T, NEW s \in Seq(T), NEW e \in T
    PROVE  Append(s, e) \in Seq(T) /\ \A x : x \in ToSet(Append(s, e)) <=> x \in ToSet(s) \/ x = e
<1>1. /\ Append(s, e) \in Seq(T) /\ Len(Append(s, e)) = Len(s) + 1
      /\ \A i \in 1..Len(s) : Append(s, e)[i] = s[i]
      /\ Append(s, e)[Len(s) + 1] = e
  BY AppendProperties
<1>2. /\ Len(s) \in Nat /\ DOMAIN s = 1..Len(s)
      /\ DOMAIN Append(s, e) = 1..(Len(s) + 1)
  BY <1>1, LenProperties
<1> QED
  BY <1>1, <1>2 DEF ToSet

\* select_indices returns the indices whose bits are set, and no others.
LEMMA SelectIndices ==
    ASSUME NEW hash, NEW start \in Nat, NEW end \in Nat, NEW n,
           ~(n = 0 \/ n > HashBits \/ start >= end \/ end > HashBits)
    PROVE  \A i : i \in ToSet(select_indices(hash, start, end, n)) <=>
                     i \in start..(end - 1) /\ all_ones(hash_to_bitvec(hash), i, n)
<1> DEFINE bits == hash_to_bitvec(hash)
           next(s, k) == IF all_ones(bits, start + k - 1, n) THEN Append(s, start + k - 1) ELSE s
           Sel(m, f) == f = [k \in 0..m |->
                               IF k = 0 THEN <<>>
                               ELSE IF all_ones(hash_to_bitvec(hash), start + k - 1, n)
                                 THEN Append(f[k - 1], start + k - 1)
                               ELSE f[k - 1]]
           S == {m \in Nat : \E f : Sel(m, f)}
<1>1. 0 \in S
  <2>1. Sel(0, [k \in 0..0 |-> <<>>])
    OBVIOUS
  <2> QED
    BY <2>1
<1>2. ASSUME NEW m, NEW f
      PROVE  Sel(m, f) <=> f = [k \in 0..m |-> IF k = 0 THEN <<>> ELSE next(f[k - 1], k)]
  OBVIOUS
<1> HIDE DEF Sel, next
<1>3. ASSUME NEW m \in Nat, NEW f, Sel(m, f)
      PROVE  f[0] = <<>> /\ \A k \in 1..m : f[k] = next(f[k - 1], k)
  <2>1. \A k \in 0..m : f[k] = IF k = 0 THEN <<>> ELSE next(f[k - 1], k)
    BY <1>2, <1>3
  <2> QED
    BY <1>3, <2>1
<1>4. ASSUME NEW m \in Nat, m \in S PROVE m + 1 \in S
  <2>1. PICK f : Sel(m, f)
    BY <1>4
  <2>2. f[0] = <<>> /\ \A k \in 1..m : f[k] = next(f[k - 1], k)
    BY <1>3, <1>4, <2>1
  <2> DEFINE g == [k \in 0..(m + 1) |-> IF k <= m THEN f[k] ELSE next(f[m], m + 1)]
  <2>3. g[0] = <<>> /\ \A k \in 0..m : g[k] = f[k]
    BY <1>4, <2>2
  <2>4. ASSUME NEW k \in 1..(m + 1) PROVE g[k] = next(g[k - 1], k)
    <3>1. k - 1 \in 0..m
      BY <1>4, <2>4
    <3>2. g[k - 1] = f[k - 1]
      BY <2>3, <3>1
    <3>3. CASE k <= m
      BY <1>4, <2>2, <2>3, <2>4, <3>2, <3>3
    <3>4. CASE k = m + 1
      BY <1>4, <3>2, <3>4
    <3> QED
      BY <1>4, <2>4, <3>3, <3>4
  <2>5. g = [k \in 0..(m + 1) |-> g[k]]
    OBVIOUS
  <2> HIDE DEF g
  <2>6. \A k \in 0..(m + 1) : g[k] = IF k = 0 THEN <<>> ELSE next(g[k - 1], k)
    BY <1>4, <2>3, <2>4
  <2>7. g = [k \in 0..(m + 1) |-> IF k = 0 THEN <<>> ELSE next(g[k - 1], k)]
    BY <2>5, <2>6
  <2>8. Sel(m + 1, g)
    BY <1>2, <2>7
  <2> QED
    BY <1>4, <2>8
<1>5. end - start \in Nat
  BY FarmAssumption DEF HashBits
<1>6. end - start \in S
  <2> HIDE DEF S
  <2> QED
    BY <1>1, <1>4, <1>5, InductionOnSet
<1>7. PICK f : Sel(end - start, f) /\ select_indices(hash, start, end, n) = f[end - start]
  BY <1>6, Zenon DEF select_indices, Sel
<1>8. f[0] = <<>> /\ \A k \in 1..(end - start) : f[k] = next(f[k - 1], k)
  BY <1>3, <1>5, <1>7
<1> DEFINE Good(s, k) == s \in Seq(Nat) /\ \A i : i \in ToSet(s) <=>
                            i \in start..(start + k - 1) /\ all_ones(bits, i, n)
           Q == {k \in Nat : k <= end - start => Good(f[k], k)}
<1>9. 0 \in Q
  <2>1. ToSet(<<>>) = {} /\ <<>> \in Seq(Nat)
    BY EmptySeq DEF ToSet
  <2>2. start..(start + 0 - 1) = {}
    OBVIOUS
  <2>3. Good(f[0], 0)
    BY <1>8, <2>1, <2>2
  <2> HIDE DEF Good
  <2> QED
    BY <2>3
<1>10. ASSUME NEW k \in Nat, k \in Q PROVE k + 1 \in Q
  <2> SUFFICES ASSUME k + 1 <= end - start PROVE Good(f[k + 1], k + 1)
    BY DEF Good
  <2>1. Good(f[k], k) /\ k + 1 \in 1..(end - start) /\ (k + 1) - 1 = k
    BY <1>5, <1>10
  <2> DEFINE x == start + k
  <2>2. /\ x \in Nat /\ start + (k + 1) - 1 = x
        /\ \A i : i \in start..(start + (k + 1) - 1) <=> i \in start..(start + k - 1) \/ i = x
    OBVIOUS
  <2> HIDE DEF x, bits
  <2>3. f[k + 1] = IF all_ones(bits, x, n) THEN Append(f[k], x) ELSE f[k]
    BY <1>8, <2>1, <2>2 DEF next
  <2>4. CASE all_ones(bits, x, n)
    <3>1. f[k + 1] = Append(f[k], x)
      BY <2>3, <2>4
    <3>2. f[k + 1] \in Seq(Nat) /\ \A i : i \in ToSet(f[k + 1]) <=> i \in ToSet(f[k]) \/ i = x
      BY <2>1, <2>2, <3>1, AppendToSet
    <3> QED
      BY <2>1, <2>2, <2>4, <3>2
  <2>5. CASE ~all_ones(bits, x, n)
    BY <2>1, <2>2, <2>3, <2>5
  <2> QED
    BY <2>4, <2>5
<1>11. end - start \in Q
  <2> HIDE DEF Q
  <2> QED
    BY <1>5, <1>9, <1>10, InductionOnSet
<1>12. start + (end - start) - 1 = end - 1
  OBVIOUS
<1> QED
  BY <1>7, <1>11, <1>12

\* Division by the width of a byte.
LEMMA BytePlaces ==
    ASSUME NEW b \in Nat \ {0}, NEW q \in Nat, NEW r \in Nat, r < b
    PROVE  (q * b + r) \div b = q /\ (q * b + r) % b = r
OBVIOUS

LEMMA ByteOf ==
    ASSUME NEW b \in Nat \ {0}, NEW m \in Nat, NEW i \in 0..(m * b - 1)
    PROVE  /\ i \div b \in Nat /\ i \div b < m /\ i % b \in Nat /\ i % b < b
           /\ i = (i \div b) * b + (i % b)
OBVIOUS

\* An index and its mirror image are in one byte, at places counted from its two ends.
LEMMA Mirrors ==
    ASSUME NEW i \in 0..(HashBits - 1)
    PROVE  /\ mirror(i) \in Nat /\ mirror(i) < HashBytes * ByteBits
           /\ mirror(i) \div ByteBits = i \div ByteBits /\ i \div ByteBits < HashBytes
           /\ mirror(i) % ByteBits = ByteBits - 1 - (i % ByteBits)
<1> DEFINE q == i \div ByteBits  r == i % ByteBits  s == ByteBits - 1 - r
<1>1. ByteBits \in Nat \ {0} /\ HashBytes \in Nat
  BY FarmAssumption
<1>2. i \in 0..(HashBytes * ByteBits - 1)
  BY DEF HashBits
<1>3. q \in Nat /\ q < HashBytes /\ r \in Nat /\ r < ByteBits
  BY <1>1, <1>2, ByteOf
<1> HIDE DEF q, r
<1>4. s \in Nat /\ s < ByteBits
  BY <1>1, <1>3
<1>5. mirror(i) = q * ByteBits + s
  BY DEF mirror, q, r
<1> HIDE DEF s
<1>6. mirror(i) \div ByteBits = q /\ mirror(i) % ByteBits = s
  BY <1>1, <1>3, <1>4, <1>5, BytePlaces
<1>7. mirror(i) \in Nat /\ mirror(i) < HashBytes * ByteBits
  <2>1. q * ByteBits \in Nat /\ (q + 1) * ByteBits = q * ByteBits + ByteBits
    BY <1>1, <1>3
  <2>2. (q + 1) * ByteBits <= HashBytes * ByteBits
    BY <1>1, <1>3
  <2> QED
    BY <1>1, <1>3, <1>4, <1>5, <2>1, <2>2
<1> QED
  BY <1>3, <1>6, <1>7 DEF q, r, s

\* The farmer selects an index exactly when the chain accepts its mirror image in the
\* byte, for bytes and hashes of any width (select_indices, is_index_valid).
THEOREM SelectionIsMirrored == FarmSpec => []SelectionMirrorsValidation
<1>1. SelectionMirrorsValidation
  <2> SUFFICES ASSUME NEW h \in farm_data, NEW i \in 0..(HashBits - 1)
               PROVE  i \in ToSet(select_indices(h.hash, 0, HashBits, 1))
                        <=> is_index_valid(h.hash, mirror(i), HashBytes, 1)
    BY DEF SelectionMirrorsValidation
  <2> DEFINE chosen == h.hash[i \div ByteBits][ByteBits - 1 - (i % ByteBits)]
  <2>1. HashBits \in Nat /\ HashBits >= 1 /\ HashBits = HashBytes * ByteBits
    BY FarmAssumption DEF HashBits
  <2>2. all_ones(hash_to_bitvec(h.hash), i, 1) <=> chosen
    <3>1. (i + 0) % HashBits = i
      BY <2>1
    <3>2. hash_to_bitvec(h.hash)[i] = chosen
      BY DEF hash_to_bitvec
    <3>3. 0..(1 - 1) = {0}
      OBVIOUS
    <3> HIDE DEF chosen
    <3> QED
      BY <3>1, <3>2, <3>3 DEF all_ones
  <2>3. i \in ToSet(select_indices(h.hash, 0, HashBits, 1)) <=> chosen
    <3>1. i \in ToSet(select_indices(h.hash, 0, HashBits, 1)) <=>
             i \in 0..(HashBits - 1) /\ all_ones(hash_to_bitvec(h.hash), i, 1)
      BY <2>1, SelectIndices
    <3> HIDE DEF chosen
    <3> QED
      BY <2>2, <3>1
  <2>4. is_index_valid(h.hash, mirror(i), HashBytes, 1) <=> chosen
    <3> DEFINE k == mirror(i)
    <3>1. /\ k \in Nat /\ k < HashBytes * ByteBits
          /\ k \div ByteBits = i \div ByteBits /\ i \div ByteBits < HashBytes
          /\ k % ByteBits = ByteBits - 1 - (i % ByteBits)
      BY Mirrors
    <3> HIDE DEF k
    <3>2. k + 0 = k /\ k + 1 <= HashBytes * ByteBits /\ 0..(1 - 1) = {0}
      BY <2>1, <3>1
    <3>3. is_index_valid(h.hash, k, HashBytes, 1) <=>
            h.hash[k \div ByteBits][k % ByteBits]
      BY <3>1, <3>2 DEF is_index_valid
    <3> QED
      BY <3>1, <3>3 DEF k
  <2> QED
    BY <2>3, <2>4
<1> QED
  BY <1>1, PTL

-----------------------------------------------------------------------------
(* The SQLite store *)

\* The tasks belong to one program.
OneProgram == \A t, u \in Task : conn_of[t] = conn_of[u]

StoreTypeOK ==
    /\ calling \in [Task -> Kv!Operation \cup {Kv!NoOperation}]
    /\ step \in [Task -> Step]
    /\ returned \in [Task -> Value \cup {NoValue, "unit", "panic", "true", "false"}]
    /\ table \in [Key -> Value \cup {NoValue}]
    /\ conn \in [Connection -> Task \cup {NoTask}]

\* A task is in an operation exactly when it is not idle, and holds the mutex from
\* its first statement on.
Holding ==
    \A t \in Task :
        /\ step[t] = "idle" <=> calling[t] = Kv!NoOperation
        /\ step[t] \in {"statement", "write"} => conn[conn_of[t]] = t

\* What compare_and_set has compared still holds when it writes.
ComparedHolds ==
    \A t \in Task : step[t] = "write" =>
        /\ calling[t].op = "compare_and_set"
        /\ table[calling[t].key] = calling[t].old

StoreInv == StoreTypeOK /\ Holding /\ ComparedHolds

-----------------------------------------------------------------------------
LEMMA OperationShape ==
    \A o \in Kv!Operation :
        /\ o # Kv!NoOperation
        /\ o.key \in Key
        /\ o.op \in {"set", "compare_and_set"} => o.new \in Value
BY DEF Kv!Operation, Kv!NoOperation

\* A task that is not idle is in an operation.
LEMMA BusyOperation ==
    ASSUME StoreInv, NEW t \in Task, step[t] # "idle"
    PROVE  calling[t] \in Kv!Operation /\ calling[t] # Kv!NoOperation
BY DEF StoreInv, StoreTypeOK, Holding

LEMMA InitStore == SqliteInit => StoreInv
BY DEF SqliteInit, StoreInv, StoreTypeOK, Holding, ComparedHolds, Step

\* The end of an operation keeps all but the table in order.
LEMMA ReturnKeeps ==
    ASSUME StoreInv, NEW t \in Task, NEW r, return(t, r), OneProgram,
           r \in Value \cup {NoValue, "unit", "panic", "true", "false"},
           step[t] \in {"statement", "write"},
           table' \in [Key -> Value \cup {NoValue}]
    PROVE  StoreInv'
<1>1. conn_of[t] \in Connection /\ conn[conn_of[t]] = t
  BY SqliteAssumption DEF StoreInv, Holding
<1>2. \A u \in Task \ {t} : step[u] \notin {"statement", "write"}
  BY <1>1 DEF StoreInv, Holding, OneProgram
<1>3. StoreTypeOK'
  BY DEF StoreInv, StoreTypeOK, return, Step
<1>4. \A u \in Task \ {t} : step'[u] = step[u] /\ calling'[u] = calling[u]
  BY DEF StoreInv, StoreTypeOK, return
<1>5. step'[t] = "idle" /\ calling'[t] = Kv!NoOperation
  BY DEF StoreInv, StoreTypeOK, return
<1>6. Holding'
  BY <1>2, <1>4, <1>5 DEF StoreInv, Holding
<1>7. ComparedHolds'
  BY <1>2, <1>4, <1>5 DEF ComparedHolds
<1>. QED BY <1>3, <1>6, <1>7 DEF StoreInv

LEMMA StoreStep == ASSUME OneProgram PROVE StoreInv /\ [SqliteNext]_sqliteVars => StoreInv'
<1>. SUFFICES ASSUME StoreInv, [SqliteNext]_sqliteVars PROVE StoreInv'
  OBVIOUS
<1>. DEFINE Content == Value \cup {NoValue}
            Answer == Content \cup {"unit", "panic", "true", "false"}
<1>1. ASSUME NEW t \in Task, call(t) PROVE StoreInv'
  <2>1. PICK o \in Kv!Operation : calling' = [calling EXCEPT ![t] = o]
    BY <1>1 DEF call
  <2>2. o # Kv!NoOperation
    BY OperationShape
  <2>3. StoreTypeOK'
    BY <1>1, <2>1 DEF call, StoreInv, StoreTypeOK, Step
  <2>4. Holding'
    BY <1>1, <2>1, <2>2 DEF call, StoreInv, StoreTypeOK, Holding
  <2>5. ComparedHolds'
    BY <1>1, <2>1 DEF call, StoreInv, StoreTypeOK, ComparedHolds
  <2>. QED BY <2>3, <2>4, <2>5 DEF StoreInv
<1>2. ASSUME NEW t \in Task, lock(t) PROVE StoreInv'
  <2>1. conn_of[t] \in Connection /\ conn[conn_of[t]] = NoTask /\ NoTask \notin Task
    BY <1>2, SqliteAssumption DEF lock, may_lock
  <2>2. \A u \in Task : step[u] \notin {"statement", "write"}
    BY <2>1 DEF StoreInv, Holding, OneProgram
  <2>3. StoreTypeOK'
    BY <1>2 DEF lock, StoreInv, StoreTypeOK, Step
  <2>4. Holding'
    BY <1>2, <2>1, <2>2 DEF lock, StoreInv, StoreTypeOK, Holding
  <2>5. ComparedHolds'
    BY <1>2, <2>2 DEF lock, StoreInv, StoreTypeOK, ComparedHolds
  <2>. QED BY <2>3, <2>4, <2>5 DEF StoreInv
<1>3. ASSUME NEW t \in Task, lock_poisoned(t) PROVE StoreInv'
  <2>1. StoreTypeOK'
    BY <1>3 DEF lock_poisoned, StoreInv, StoreTypeOK, Step
  <2>2. Holding'
    BY <1>3 DEF lock_poisoned, StoreInv, StoreTypeOK, Holding
  <2>3. ComparedHolds'
    BY <1>3 DEF lock_poisoned, StoreInv, StoreTypeOK, ComparedHolds
  <2>. QED BY <2>1, <2>2, <2>3 DEF StoreInv
<1>4. ASSUME NEW t \in Task, step[t] \in {"statement", "write"}, fail(t) PROVE StoreInv'
  <2>1. return(t, "panic") /\ table' \in [Key -> Content]
    BY <1>4 DEF fail, StoreInv, StoreTypeOK
  <2>. QED BY <1>4, <2>1, ReturnKeeps
<1>5. ASSUME NEW t \in Task, statement(t) PROVE StoreInv'
  <2>1. step[t] = "statement" /\ calling[t].key \in Key
        /\ (calling[t].op \in {"set", "compare_and_set"} => calling[t].new \in Value)
    BY <1>5, BusyOperation, OperationShape DEF statement
  <2>2. CASE get(t, calling[t])
    <3>1. return(t, table[calling[t].key]) /\ table[calling[t].key] \in Content
          /\ table' \in [Key -> Content]
      BY <2>1, <2>2 DEF get, StoreInv, StoreTypeOK
    <3>2. table[calling[t].key] \in Answer
      BY <3>1
    <3>. QED BY <2>1, <3>1, <3>2, ReturnKeeps
  <2>3. CASE contains(t, calling[t])
    <3>1. (return(t, "true") \/ return(t, "false")) /\ table' \in [Key -> Content]
      BY <2>3 DEF contains, StoreInv, StoreTypeOK
    <3>. QED BY <2>1, <3>1, ReturnKeeps
  <2>4. CASE set(t, calling[t])
    <3>1. return(t, "unit") /\ table' \in [Key -> Content]
      BY <2>1, <2>4 DEF set, StoreInv, StoreTypeOK
    <3>. QED BY <2>1, <3>1, ReturnKeeps
  <2>5. CASE remove(t, calling[t])
    <3>1. return(t, "unit") /\ table' \in [Key -> Content]
      BY <2>1, <2>5 DEF remove, StoreInv, StoreTypeOK
    <3>. QED BY <2>1, <3>1, ReturnKeeps
  <2>6. ASSUME compare(t, calling[t]), table[calling[t].key] = calling[t].old PROVE StoreInv'
    <3>1. /\ calling[t].op = "compare_and_set"
          /\ step' = [step EXCEPT ![t] = "write"]
          /\ UNCHANGED <<table, calling, returned, conn, poisoned>>
      BY <2>6 DEF compare
    <3>2. StoreTypeOK'
      BY <3>1 DEF StoreInv, StoreTypeOK, Step
    <3>3. Holding'
      BY <2>1, <3>1 DEF StoreInv, StoreTypeOK, Holding
    <3>4. ComparedHolds'
      BY <2>6, <3>1 DEF StoreInv, StoreTypeOK, ComparedHolds
    <3>. QED BY <3>2, <3>3, <3>4 DEF StoreInv
  <2>7. ASSUME compare(t, calling[t]), table[calling[t].key] # calling[t].old PROVE StoreInv'
    <3>1. return(t, "false") /\ table' \in [Key -> Content]
      BY <2>7 DEF compare, StoreInv, StoreTypeOK
    <3>. QED BY <2>1, <3>1, ReturnKeeps
  <2>. QED BY <1>4, <1>5, <2>1, <2>2, <2>3, <2>4, <2>5, <2>6, <2>7 DEF statement
<1>6. ASSUME NEW t \in Task, write(t) PROVE StoreInv'
  <2>1. step[t] = "write" /\ calling[t].key \in Key /\ calling[t].new \in Value
    BY <1>6, BusyOperation, OperationShape DEF write, StoreInv, ComparedHolds
  <2>2. CASE fail(t)
    BY <1>4, <2>1, <2>2
  <2>3. ASSUME return(t, "true"), table' = [table EXCEPT ![calling[t].key] = calling[t].new]
        PROVE  StoreInv'
    <3>1. table' \in [Key -> Content]
      BY <2>1, <2>3 DEF StoreInv, StoreTypeOK
    <3>. QED BY <2>1, <2>3, <3>1, ReturnKeeps
  <2>. QED BY <1>6, <2>2, <2>3 DEF write, insert
<1>7. CASE UNCHANGED sqliteVars
  BY <1>7 DEF sqliteVars, StoreInv, StoreTypeOK, Holding, ComparedHolds
<1>. QED BY <1>1, <1>2, <1>3, <1>5, <1>6, <1>7 DEF SqliteNext

\* Every step of SQLite is one of the abstract store, or changes nothing of it.
LEMMA StepImplemented ==
    ASSUME StoreInv, [SqliteNext]_sqliteVars
    PROVE  [Kv!KvNext]_Kv!kvVars
<1>. SUFFICES ASSUME NEW t \in Task,
                     call(t) \/ lock(t) \/ lock_poisoned(t) \/ statement(t) \/ write(t)
              PROVE  Kv!Call(t) \/ Kv!Perform(t) \/ Kv!Panic(t) \/ UNCHANGED Kv!kvVars
  BY DEF SqliteNext, sqliteVars, Kv!KvNext, Kv!kvVars
<1>1. CASE call(t)
  BY <1>1 DEF call, Kv!Call, StoreInv, Holding
<1>2. CASE lock(t)
  BY <1>2 DEF lock, Kv!kvVars
<1>3. CASE lock_poisoned(t)
  BY <1>3, BusyOperation DEF lock_poisoned, Kv!Panic
<1>4. ASSUME fail(t), step[t] # "idle" PROVE Kv!Panic(t)
  BY <1>4, BusyOperation DEF fail, return, Kv!Panic
<1>5. CASE statement(t)
  <2>1. step[t] = "statement" /\ calling[t] # Kv!NoOperation
    BY <1>5, BusyOperation DEF statement
  <2>. USE DEF Kv!Perform, Kv!after, Kv!writes, Kv!answer, Kv!bool, return
  <2>2. CASE get(t, calling[t])
    BY <2>1, <2>2 DEF get
  <2>3. CASE contains(t, calling[t])
    BY <2>1, <2>3 DEF contains
  <2>4. CASE set(t, calling[t])
    BY <2>1, <2>4 DEF set
  <2>5. CASE remove(t, calling[t])
    BY <2>1, <2>5 DEF remove
  <2>6. CASE compare(t, calling[t])
    BY <2>1, <2>6 DEF compare, Kv!kvVars
  <2>. QED BY <1>4, <1>5, <2>1, <2>2, <2>3, <2>4, <2>5, <2>6 DEF statement
<1>6. CASE write(t)
  <2>1. /\ step[t] = "write" /\ calling[t] # Kv!NoOperation
        /\ calling[t].op = "compare_and_set" /\ table[calling[t].key] = calling[t].old
    BY <1>6, BusyOperation DEF write, StoreInv, ComparedHolds
  <2>2. CASE fail(t)
    BY <1>4, <2>1, <2>2
  <2>3. CASE /\ return(t, "true") /\ table' = [table EXCEPT ![calling[t].key] = calling[t].new]
    BY <2>1, <2>3 DEF Kv!Perform, Kv!after, Kv!writes, Kv!answer, Kv!bool, return
  <2>. QED BY <1>6, <2>2, <2>3 DEF write, insert
<1>. QED BY <1>1, <1>2, <1>3, <1>5, <1>6

\* The operations of sqlite.rs are atomic for the tasks of one program, whatever they
\* are, however they interleave and whichever statements fail: the two statements of
\* compare_and_set are one step of the trait DasKv.
THEOREM SqliteImplementsKv == ASSUME OneProgram PROVE SqliteSpec => KvImplemented
<1>1. SqliteInit => Kv!KvInit
  BY DEF SqliteInit, Kv!KvInit
<1>2. StoreInv /\ [SqliteNext]_sqliteVars => StoreInv'
  BY StoreStep
<1>3. StoreInv /\ [SqliteNext]_sqliteVars => [Kv!KvNext]_Kv!kvVars
  BY StepImplemented
<1>. QED BY <1>1, <1>2, <1>3, InitStore, PTL DEF SqliteSpec, KvImplemented, Kv!KvSpec

-----------------------------------------------------------------------------
(* Submissions *)

\* A call that reads a nonce keeps it until the next call and has no answer yet; data
\* that is being put has verified, what is submitted and verified has been tried to be
\* put, and without an error it was.
CallInOrder(s) ==
    /\ stage[s] # "idle" => nonce[s] \in Nonce /\ response[s] = "none"
    /\ response[s] = "ok" => nonce[s] \in Nonce
    /\ stage[s] = "putting" => bytes[s] = "good"
    /\ stage[s] = "submitting" /\ bytes[s] = "good" => put[<<s, nonce[s]>>] # "none"
    /\ stage[s] = "submitting" /\ ~err[s] =>
          bytes[s] = "good" /\ put[<<s, nonce[s]>>] \in {"put", "dropped"}

CallsInOrder == \A s \in Submission : CallInOrder(s)

\* Nonces on chain, without counting.
OnePerNonce ==
    /\ \A t, u \in accepted : t[2] = u[2] /\ t[3] = u[3] => t = u
    /\ \A t \in accepted : t[2] <= Nonces[t[3]]
    /\ \A a \in AppIds, n \in Nonce :
          n <= Nonces[a] => \E t \in accepted : t[2] = n /\ t[3] = a

SubmitInv ==
    SubmitTypeOK /\ CallsInOrder /\ PutBeforePool /\ ErrorsAnswered /\ RecordsVerified /\ OnePerNonce

-----------------------------------------------------------------------------
LEMMA NonceNat == Nonce \subseteq Nat /\ 0 \notin Nonce
<1>1. Cardinality(Submission) * MaxTries \in Nat
  <2>1. Cardinality(Submission) \in Nat
    BY FS_CardinalityType, SubmitAssumption
  <2>. QED BY <2>1, SubmitAssumption
<1>. QED BY <1>1 DEF Nonce

LEMMA InitInv == SubmitInit => SubmitInv
<1>. SUFFICES ASSUME SubmitInit PROVE SubmitInv
  OBVIOUS
<1>1. SubmitTypeOK
  BY SubmitAssumption DEF SubmitInit, SubmitTypeOK, CallStage, Response, PutResult, AppIds
<1>2. CallsInOrder /\ ErrorsAnswered
  BY DEF SubmitInit, CallsInOrder, CallInOrder, ErrorsAnswered
<1>3. PutBeforePool /\ RecordsVerified
  BY DEF SubmitInit, PutBeforePool, RecordsVerified
<1>4. OnePerNonce
  BY NonceNat DEF SubmitInit, OnePerNonce
<1>. QED BY <1>1, <1>2, <1>3, <1>4 DEF SubmitInv

LEMMA TypeStep == SubmitTypeOK /\ CallsInOrder /\ [SubmitNext]_submitVars => SubmitTypeOK'
<1>. SUFFICES ASSUME SubmitTypeOK, CallsInOrder, [SubmitNext]_submitVars PROVE SubmitTypeOK'
  OBVIOUS
<1>1. ASSUME NEW s \in Submission, begin(s) PROVE SubmitTypeOK'
  BY <1>1 DEF begin, next_nonce, SubmitTypeOK, CallStage, Response, netVars, chainVars
<1>2. ASSUME NEW s \in Submission, verify_bytes(s) PROVE SubmitTypeOK'
  BY <1>2 DEF verify_bytes, after_verify, SubmitTypeOK, CallStage, netVars, chainVars
<1>3. ASSUME NEW s \in Submission, put_bytes(s) PROVE SubmitTypeOK'
  <2>1. nonce[s] \in Nonce /\ <<app[s], nonce[s]>> \in AppIds \X Nonce
    BY <1>3 DEF put_bytes, CallsInOrder, CallInOrder, SubmitTypeOK
  <2>2. PICK result \in {"put", "dropped", "error"} :
          /\ put' = [put EXCEPT ![<<s, nonce[s]>>] = result]
          /\ records' = IF result = "put" THEN [records EXCEPT ![<<app[s], nonce[s]>>] = s] ELSE records
          /\ err' = [err EXCEPT ![s] = result = "error"]
    BY <1>3 DEF put_bytes
  <2>3. records' \in [AppIds \X Nonce -> Submission \cup {NoData}]
    BY <2>1, <2>2 DEF SubmitTypeOK
  <2>4. put' \in [Tx -> PutResult]
    BY <2>2 DEF SubmitTypeOK, PutResult
  <2>5. err' \in [Submission -> BOOLEAN]
    BY <2>2 DEF SubmitTypeOK
  <2>. QED BY <1>3, <2>3, <2>4, <2>5 DEF put_bytes, SubmitTypeOK, CallStage, chainVars
<1>4. ASSUME NEW s \in Submission, submit_one(s) PROVE SubmitTypeOK'
  <2>1. pool' \subseteq Tx
    BY <1>4 DEF submit_one, SubmitTypeOK, Tx, CallsInOrder, CallInOrder
  <2>2. response' \in [Submission -> Response]
    BY <1>4 DEF submit_one, answer, SubmitTypeOK, Response
  <2>. QED BY <1>4, <2>1, <2>2 DEF submit_one, SubmitTypeOK, CallStage, netVars, chainVars
<1>5. ASSUME NEW t \in Tx, sample_application(t) PROVE SubmitTypeOK'
  BY <1>5 DEF sample_application, SubmitTypeOK, callVars, netVars, chainVars
<1>6. ASSUME NEW t \in Tx, submit_data(t) PROVE SubmitTypeOK'
  <2>1. accepted' \subseteq Blob
    BY <1>6 DEF submit_data, SubmitTypeOK, chainVars, Tx, Blob
  <2>2. AppId' \in AppIds /\ Nonces' \in [AppIds -> Nonce \cup {0}]
    BY <1>6 DEF submit_data, SubmitTypeOK, chainVars, Tx
  <2>. QED BY <1>6, <2>1, <2>2 DEF submit_data, SubmitTypeOK, callVars, netVars
<1>7. CASE register_app
  <2>1. AppId' \in AppIds
    BY <1>7, SubmitAssumption DEF register_app, SubmitTypeOK, AppIds
  <2>. QED BY <1>7, <2>1 DEF register_app, SubmitTypeOK, callVars, netVars
<1>8. CASE UNCHANGED submitVars
  BY <1>8 DEF submitVars, SubmitTypeOK, callVars, netVars, chainVars
<1>. QED BY <1>1, <1>2, <1>3, <1>4, <1>5, <1>6, <1>7, <1>8 DEF SubmitNext

\* A put changes the records and the history of its own submission only.
LEMMA PutBytes ==
    ASSUME SubmitInv, NEW s \in Submission, put_bytes(s)
    PROVE  /\ nonce[s] \in Nonce /\ bytes[s] = "good" /\ response[s] = "none"
           /\ \A t \in Tx : t # <<s, nonce[s]>> => put'[t] = put[t]
           /\ put'[<<s, nonce[s]>>] # "none"
           /\ ~err'[s] => put'[<<s, nonce[s]>>] \in {"put", "dropped"}
           /\ \A r \in Submission : r # s => err'[r] = err[r]
           /\ \A a \in AppIds, n \in Nonce :
                 \/ records'[<<a, n>>] = records[<<a, n>>]
                 \/ a = app[s] /\ n = nonce[s] /\ records'[<<a, n>>] = s
<1>1. nonce[s] \in Nonce /\ bytes[s] = "good" /\ response[s] = "none"
  BY DEF put_bytes, SubmitInv, CallsInOrder, CallInOrder
<1>2. PICK result \in {"put", "dropped", "error"} :
        /\ put' = [put EXCEPT ![<<s, nonce[s]>>] = result]
        /\ records' = IF result = "put" THEN [records EXCEPT ![<<app[s], nonce[s]>>] = s] ELSE records
        /\ err' = [err EXCEPT ![s] = result = "error"]
  BY DEF put_bytes
<1>3. <<s, nonce[s]>> \in Tx /\ put \in [Tx -> PutResult] /\ err \in [Submission -> BOOLEAN]
      /\ records \in [AppIds \X Nonce -> Submission \cup {NoData}]
  BY <1>1 DEF SubmitInv, SubmitTypeOK, Tx
<1>4. put'[<<s, nonce[s]>>] = result /\ (err'[s] <=> result = "error")
  BY <1>2, <1>3
<1>5. \A t \in Tx : t # <<s, nonce[s]>> => put'[t] = put[t]
  BY <1>2, <1>3
<1>6. \A r \in Submission : r # s => err'[r] = err[r]
  BY <1>2, <1>3
<1>7. ASSUME NEW a \in AppIds, NEW n \in Nonce
      PROVE  \/ records'[<<a, n>>] = records[<<a, n>>]
             \/ a = app[s] /\ n = nonce[s] /\ records'[<<a, n>>] = s
  <2>. DEFINE k == <<a, n>>  l == <<app[s], nonce[s]>>
  <2>1. k \in AppIds \X Nonce /\ (k = l => a = app[s] /\ n = nonce[s])
    OBVIOUS
  <2>. HIDE DEF k, l
  <2>2. records' = IF result = "put" THEN [records EXCEPT ![l] = s] ELSE records
    BY <1>2 DEF l
  <2>3. CASE result = "put"
    <3>1. records' = [records EXCEPT ![l] = s]
      BY <2>2, <2>3
    <3>2. records'[k] = IF k = l THEN s ELSE records[k]
      BY <1>3, <2>1, <3>1
    <3>. QED BY <2>1, <3>2 DEF k
  <2>4. CASE result # "put"
    BY <2>2, <2>4
  <2>. QED BY <2>3, <2>4
<1>. QED BY <1>1, <1>4, <1>5, <1>6, <1>7

LEMMA CallsStep == SubmitInv /\ [SubmitNext]_submitVars => CallsInOrder'
<1>. SUFFICES ASSUME SubmitInv, [SubmitNext]_submitVars, NEW r \in Submission PROVE CallInOrder(r)'
  BY DEF CallsInOrder
<1>0. CallInOrder(r) /\ SubmitTypeOK
  BY DEF SubmitInv, CallsInOrder
<1>1. ASSUME NEW s \in Submission, begin(s) PROVE CallInOrder(r)'
  BY <1>0, <1>1 DEF begin, next_nonce, netVars, SubmitTypeOK, CallInOrder, CallStage
<1>2. ASSUME NEW s \in Submission, verify_bytes(s) PROVE CallInOrder(r)'
  <2>1. UNCHANGED <<bytes, nonce, response, put>>
    BY <1>2 DEF verify_bytes, netVars
  <2>2. CASE r = s
    <3>1. stage'[r] = after_verify(r) /\ err'[r] = ~verified(r) /\ stage[r] = "verifying"
      BY <1>0, <1>2, <2>2 DEF verify_bytes, SubmitTypeOK
    <3>2. stage'[r] = "submitting" => ~(bytes[r] = "good") /\ err'[r]
      BY <3>1 DEF after_verify, verified
    <3>3. stage'[r] = "putting" => bytes[r] = "good"
      BY <3>1 DEF after_verify, verified
    <3>. QED BY <1>0, <2>1, <3>1, <3>2, <3>3 DEF CallInOrder
  <2>3. CASE r # s
    <3>1. stage'[r] = stage[r] /\ err'[r] = err[r]
      BY <1>0, <1>2, <2>3 DEF verify_bytes, SubmitTypeOK
    <3>. QED BY <1>0, <2>1, <3>1 DEF CallInOrder
  <2>. QED BY <2>2, <2>3
<1>3. ASSUME NEW s \in Submission, put_bytes(s) PROVE CallInOrder(r)'
  <2>1. stage' = [stage EXCEPT ![s] = "submitting"] /\ UNCHANGED <<bytes, nonce, response>>
    BY <1>3 DEF put_bytes
  <2>2. CASE r = s
    <3>1. /\ nonce[s] \in Nonce /\ bytes[s] = "good" /\ response[s] = "none"
          /\ put'[<<s, nonce[s]>>] # "none"
          /\ ~err'[s] => put'[<<s, nonce[s]>>] \in {"put", "dropped"}
      BY <1>3, PutBytes
    <3>2. stage'[s] = "submitting"
      BY <1>0, <2>1 DEF SubmitTypeOK
    <3>. QED BY <2>1, <2>2, <3>1, <3>2 DEF CallInOrder
  <2>3. CASE r # s
    <3>1. stage'[r] = stage[r]
      BY <1>0, <2>1, <2>3 DEF SubmitTypeOK
    <3>2. /\ \A t \in Tx : t # <<s, nonce[s]>> => put'[t] = put[t]
          /\ err'[r] = err[r]
      BY <1>3, <2>3, PutBytes
    <3>3. nonce[r] \in Nonce => put'[<<r, nonce[r]>>] = put[<<r, nonce[r]>>]
      BY <2>3, <3>2 DEF Tx
    <3>. QED BY <1>0, <2>1, <3>1, <3>2, <3>3 DEF CallInOrder
  <2>. QED BY <2>2, <2>3
<1>4. ASSUME NEW s \in Submission, submit_one(s) PROVE CallInOrder(r)'
  BY <1>0, <1>4 DEF submit_one, netVars, SubmitTypeOK, CallInOrder, CallStage
<1>5. CASE \E t \in Tx : sample_application(t) \/ submit_data(t)
  BY <1>0, <1>5 DEF sample_application, submit_data, callVars, netVars, CallInOrder
<1>6. CASE register_app \/ UNCHANGED submitVars
  BY <1>0, <1>6 DEF register_app, submitVars, callVars, netVars, CallInOrder
<1>. QED BY <1>1, <1>2, <1>3, <1>4, <1>5, <1>6 DEF SubmitNext

LEMMA PutStep == SubmitInv /\ [SubmitNext]_submitVars => PutBeforePool'
<1>. SUFFICES ASSUME SubmitInv, [SubmitNext]_submitVars PROVE PutBeforePool'
  OBVIOUS
<1>1. CASE \E s \in Submission : begin(s) \/ verify_bytes(s)
  BY <1>1 DEF begin, verify_bytes, netVars, chainVars, SubmitInv, PutBeforePool
<1>2. ASSUME NEW s \in Submission, put_bytes(s) PROVE PutBeforePool'
  <2>1. UNCHANGED <<pool, accepted, bytes>>
    BY <1>2 DEF put_bytes, chainVars
  <2>2. \A t \in Tx : put[t] # "none" => put'[t] # "none"
    BY <1>2, PutBytes
  <2>3. \A t \in accepted : <<t[1], t[2]>> \in Tx
    BY DEF SubmitInv, SubmitTypeOK, Blob, Tx
  <2>4. \A t \in pool : t \in Tx
    BY DEF SubmitInv, SubmitTypeOK
  <2>. QED BY <2>1, <2>2, <2>3, <2>4 DEF SubmitInv, PutBeforePool
<1>3. ASSUME NEW s \in Submission, submit_one(s) PROVE PutBeforePool'
  <2>1. bytes[s] = "good" => put[<<s, nonce[s]>>] # "none"
    BY <1>3 DEF submit_one, SubmitInv, CallsInOrder, CallInOrder
  <2>. QED BY <1>3, <2>1 DEF submit_one, netVars, chainVars, SubmitInv, PutBeforePool
<1>4. ASSUME NEW t \in Tx, submit_data(t) PROVE PutBeforePool'
  <2>1. \A u \in accepted' : u \in accepted \/ u = <<t[1], t[2], AppId>>
    BY <1>4 DEF submit_data, chainVars
  <2>2. t \in pool /\ pool' \subseteq pool /\ UNCHANGED <<bytes, put>>
    BY <1>4 DEF submit_data, callVars, netVars
  <2>3. bytes[t[1]] = "good" => put[<<t[1], t[2]>>] # "none"
    BY <2>2 DEF SubmitInv, PutBeforePool, Tx
  <2>. QED BY <2>1, <2>2, <2>3 DEF SubmitInv, PutBeforePool
<1>5. CASE (\E t \in Tx : sample_application(t)) \/ register_app \/ UNCHANGED submitVars
  BY <1>5 DEF sample_application, register_app, submitVars, callVars, netVars, chainVars,
              SubmitInv, PutBeforePool
<1>. QED BY <1>1, <1>2, <1>3, <1>4, <1>5 DEF SubmitNext

LEMMA ErrorsStep == SubmitInv /\ [SubmitNext]_submitVars => ErrorsAnswered'
<1>. SUFFICES ASSUME SubmitInv, [SubmitNext]_submitVars, NEW r \in Submission, response'[r] = "ok"
              PROVE  bytes'[r] = "good" /\ put'[<<r, nonce'[r]>>] \in {"put", "dropped"}
  BY DEF ErrorsAnswered
<1>1. CASE \E s \in Submission : begin(s)
  BY <1>1 DEF begin, netVars, SubmitInv, SubmitTypeOK, ErrorsAnswered
<1>2. CASE \E s \in Submission : verify_bytes(s)
  BY <1>2 DEF verify_bytes, netVars, SubmitInv, ErrorsAnswered
<1>3. ASSUME NEW s \in Submission, put_bytes(s)
      PROVE  bytes'[r] = "good" /\ put'[<<r, nonce'[r]>>] \in {"put", "dropped"}
  <2>1. UNCHANGED <<bytes, nonce, response>>
    BY <1>3 DEF put_bytes
  <2>2. r # s
    BY <1>3, <2>1, PutBytes
  <2>3. bytes[r] = "good" /\ put[<<r, nonce[r]>>] \in {"put", "dropped"}
    BY <2>1 DEF SubmitInv, ErrorsAnswered
  <2>4. nonce[r] \in Nonce
    BY <2>1 DEF SubmitInv, CallsInOrder, CallInOrder
  <2>5. \A t \in Tx : t # <<s, nonce[s]>> => put'[t] = put[t]
    BY <1>3, PutBytes
  <2>6. <<r, nonce[r]>> \in Tx /\ <<r, nonce[r]>> # <<s, nonce[s]>>
    BY <2>2, <2>4 DEF Tx
  <2>. QED BY <2>1, <2>3, <2>5, <2>6
<1>4. ASSUME NEW s \in Submission, submit_one(s)
      PROVE  bytes'[r] = "good" /\ put'[<<r, nonce'[r]>>] \in {"put", "dropped"}
  <2>1. UNCHANGED <<bytes, nonce, put>>
    BY <1>4 DEF submit_one, netVars
  <2>2. CASE r = s
    <3>1. ~err[s] /\ stage[s] = "submitting"
      BY <1>4, <2>2 DEF submit_one, answer, SubmitInv, SubmitTypeOK
    <3>. QED BY <2>1, <2>2, <3>1 DEF SubmitInv, CallsInOrder, CallInOrder
  <2>3. CASE r # s
    BY <1>4, <2>1, <2>3 DEF submit_one, SubmitInv, SubmitTypeOK, ErrorsAnswered
  <2>. QED BY <2>2, <2>3
<1>5. CASE (\E t \in Tx : sample_application(t) \/ submit_data(t)) \/ register_app \/ UNCHANGED submitVars
  BY <1>5 DEF sample_application, submit_data, register_app, submitVars, callVars, netVars,
              SubmitInv, ErrorsAnswered
<1>. QED BY <1>1, <1>2, <1>3, <1>4, <1>5 DEF SubmitNext

LEMMA RecordsStep == SubmitInv /\ [SubmitNext]_submitVars => RecordsVerified'
<1>. SUFFICES ASSUME SubmitInv, [SubmitNext]_submitVars, NEW a \in AppIds, NEW n \in Nonce,
                     records'[<<a, n>>] # NoData
              PROVE  /\ bytes'[records'[<<a, n>>]] = "good" /\ app'[records'[<<a, n>>]] = a
                     /\ put'[<<records'[<<a, n>>], n>>] # "none"
  BY DEF RecordsVerified
<1>1. CASE UNCHANGED <<records, put, bytes, app>>
  BY <1>1 DEF SubmitInv, RecordsVerified
<1>2. ASSUME NEW s \in Submission, put_bytes(s)
      PROVE  /\ bytes'[records'[<<a, n>>]] = "good" /\ app'[records'[<<a, n>>]] = a
             /\ put'[<<records'[<<a, n>>], n>>] # "none"
  <2>1. UNCHANGED <<app, bytes>>
    BY <1>2 DEF put_bytes
  <2>2. CASE records'[<<a, n>>] = records[<<a, n>>]
    <3>1. /\ bytes[records[<<a, n>>]] = "good" /\ app[records[<<a, n>>]] = a
          /\ put[<<records[<<a, n>>], n>>] # "none"
      BY <2>2 DEF SubmitInv, RecordsVerified
    <3>2. records[<<a, n>>] \in Submission
      BY <2>2 DEF SubmitInv, SubmitTypeOK
    <3>3. put'[<<records[<<a, n>>], n>>] # "none"
      <4>1. \A t \in Tx : put[t] # "none" => put'[t] # "none"
        BY <1>2, PutBytes
      <4>. QED BY <3>1, <3>2, <4>1 DEF Tx
    <3>. QED BY <2>1, <2>2, <3>1, <3>3
  <2>3. CASE a = app[s] /\ n = nonce[s] /\ records'[<<a, n>>] = s
    <3>1. bytes[s] = "good" /\ put'[<<s, nonce[s]>>] # "none"
      BY <1>2, PutBytes
    <3>. QED BY <2>1, <2>3, <3>1
  <2>4. \/ records'[<<a, n>>] = records[<<a, n>>]
        \/ a = app[s] /\ n = nonce[s] /\ records'[<<a, n>>] = s
    BY <1>2, PutBytes
  <2>. QED BY <2>2, <2>3, <2>4
<1>. QED BY <1>1, <1>2 DEF SubmitNext, begin, verify_bytes, submit_one, sample_application,
            submit_data, register_app, submitVars, callVars, netVars

LEMMA NonceStep == SubmitInv /\ [SubmitNext]_submitVars => OnePerNonce'
<1>. SUFFICES ASSUME SubmitInv, [SubmitNext]_submitVars PROVE OnePerNonce'
  OBVIOUS
<1>1. CASE UNCHANGED <<Nonces, accepted>>
  BY <1>1 DEF OnePerNonce, SubmitInv
<1>2. ASSUME NEW t \in Tx, submit_data(t), ~UNCHANGED <<Nonces, accepted>> PROVE OnePerNonce'
  <2>. DEFINE new == <<t[1], t[2], AppId>>
  <2>1. /\ t[2] = Nonces[AppId] + 1 /\ Nonces' = [Nonces EXCEPT ![AppId] = t[2]]
        /\ accepted' = accepted \cup {new}
    BY <1>2 DEF submit_data, nonce_valid, chainVars
  <2>2. AppId \in AppIds /\ Nonces \in [AppIds -> Nonce \cup {0}] /\ t[2] \in Nonce
    BY DEF SubmitInv, SubmitTypeOK, Tx
  <2>3. \A a \in AppIds : Nonces[a] \in Nat
    <3>1. Nonce \cup {0} \subseteq Nat
      BY NonceNat
    <3>. QED BY <2>2, <3>1
  <2>4. \A u \in accepted : u[2] \in Nat /\ u[3] \in AppIds /\ u[2] <= Nonces[u[3]]
    BY NonceNat DEF SubmitInv, SubmitTypeOK, OnePerNonce, Blob
  <2>5. new[2] = Nonces[AppId] + 1 /\ new[3] = AppId
    BY <2>1
  <2>6. /\ Nonces'[AppId] = Nonces[AppId] + 1
        /\ \A a \in AppIds : a # AppId => Nonces'[a] = Nonces[a]
    BY <2>1, <2>2
  <2>. HIDE DEF new
  <2>7. \A u, w \in accepted' : u[2] = w[2] /\ u[3] = w[3] => u = w
    <3>1. \A u, w \in accepted : u[2] = w[2] /\ u[3] = w[3] => u = w
      BY DEF SubmitInv, OnePerNonce
    <3>2. \A u \in accepted : ~(u[2] = new[2] /\ u[3] = new[3])
      BY <2>2, <2>3, <2>4, <2>5
    <3>. QED BY <2>1, <3>1, <3>2
  <2>8. \A u \in accepted' : u[2] <= Nonces'[u[3]]
    <3>1. ASSUME NEW u \in accepted PROVE u[2] <= Nonces'[u[3]]
      <4>1. CASE u[3] = AppId
        BY <2>2, <2>3, <2>4, <2>6, <4>1
      <4>2. CASE u[3] # AppId
        BY <2>4, <2>6, <4>2
      <4>. QED BY <4>1, <4>2
    <3>2. new[2] <= Nonces'[new[3]]
      BY <2>2, <2>3, <2>5, <2>6
    <3>. QED BY <2>1, <3>1, <3>2
  <2>9. ASSUME NEW a \in AppIds, NEW n \in Nonce, n <= Nonces'[a]
        PROVE  \E u \in accepted' : u[2] = n /\ u[3] = a
    <3>1. n \in Nat
      BY NonceNat
    <3>2. CASE n <= Nonces[a]
      BY <3>2, <2>1 DEF SubmitInv, OnePerNonce
    <3>3. CASE ~(n <= Nonces[a])
      <4>1. a = AppId /\ n = Nonces[AppId] + 1
        BY <2>2, <2>3, <2>6, <2>9, <3>1, <3>3
      <4>. QED BY <2>1, <2>5, <4>1
    <3>. QED BY <3>2, <3>3
  <2>. QED BY <2>7, <2>8, <2>9 DEF OnePerNonce
<1>. QED BY <1>1, <1>2 DEF SubmitNext, submitVars, begin, verify_bytes, put_bytes, submit_one,
            sample_application, register_app, chainVars

\* The invariant is inductive.
THEOREM SubmitInvariant == SubmitSpec => []SubmitInv
<1>1. SubmitInv /\ [SubmitNext]_submitVars => SubmitInv'
  BY TypeStep, CallsStep, PutStep, ErrorsStep, RecordsStep, NonceStep DEF SubmitInv
<1>. QED BY InitInv, <1>1, PTL DEF SubmitSpec

LEMMA OneEach == SubmitInv => NoncesOfCounter
<1>. SUFFICES ASSUME SubmitInv, NEW a \in AppIds, NEW n \in Nonce
              PROVE Cardinality({t \in accepted : t[3] = a /\ t[2] = n})
                      = IF n <= Nonces[a] THEN 1 ELSE 0
  BY DEF NoncesOfCounter
<1>. DEFINE S == {t \in accepted : t[3] = a /\ t[2] = n}
<1>1. CASE n <= Nonces[a]
  <2>1. PICK t \in accepted : t[2] = n /\ t[3] = a
    BY <1>1 DEF SubmitInv, OnePerNonce
  <2>2. S = {t}
    BY <2>1 DEF SubmitInv, OnePerNonce
  <2>3. Cardinality({t}) = 1
    BY FS_Singleton
  <2>. QED BY <1>1, <2>2, <2>3
<1>2. CASE ~(n <= Nonces[a])
  <2>1. S = {}
    BY <1>2 DEF SubmitInv, OnePerNonce
  <2>2. Cardinality({}) = 0
    BY FS_EmptySet
  <2>. QED BY <1>2, <2>1, <2>2
<1>. QED BY <1>1, <1>2

\* However submissions and retries interleave, a put was tried for what enters the pool
\* unless it never verified (submit_blob_tx).
THEOREM PutComesFirst == SubmitSpec => []PutBeforePool
BY SubmitInvariant, PTL DEF SubmitInv

\* Plain success is answered only for verified data whose put gave no error (err_msg in
\* submit_blob_tx), over all retries of all submissions.
THEOREM SuccessIsPlain == SubmitSpec => []ErrorsAnswered
BY SubmitInvariant, PTL DEF SubmitInv

\* Whatever the network holds under an application and a nonce was verified for that
\* application (verify_bytes in submit_blob_tx).
THEOREM HeldIsVerified == SubmitSpec => []RecordsVerified
BY SubmitInvariant, PTL DEF SubmitInv

\* The blobs accepted under one counter, that of the application registered last, have
\* consecutive nonces, one each, however many submissions read the same one and however
\* many applications they are of (submit_data).
THEOREM OneBlobPerCounter == SubmitSpec => []NoncesOfCounter
BY SubmitInvariant, OneEach, PTL
=============================================================================
