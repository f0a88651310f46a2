--------------------------- MODULE SamplingProofs ---------------------------
(* Theorems about SamplingLoop, which samples blocks, and DataMatrix, the data that
   is sampled, for every value of their constants. *)
EXTENDS SamplingLoop, DataMatrix, SequenceTheorems, FiniteSetTheorems, WellFoundedInduction,
        NaturalsInduction, TLAPS

\* Nothing writes the record that last_at reads, so it stays 0 and every range ends
\* before BLOCK_SAMPLE_LIMIT; a task that has saved has its confidence; the block
\* noted as processed is one whose task has ended; a notification names a block
\* that is final.
LoopInv ==
    /\ ClientTypeOK
    /\ finalized \in 0..MaxBlock
    /\ notifications \in Seq(1..finalized)
    /\ last_at_record = 0
    /\ last_processed \in sampled \cup {0}
    /\ \A b \in Block :
        /\ task[b] = "saved" => confidence[b] # "none"
        /\ b \in sampled /\ header[b] = "blobs" => confidence[b] # "none"
        /\ task[b] # "idle" => b < BLOCK_SAMPLE_LIMIT
        /\ task[b] # "idle" \/ b \in sampled => b < finalized

LEMMA LoopInitially == LoopInit => LoopInv
BY ClientAssumption DEF LoopInit, ClientInit, LoopInv, ClientTypeOK, Header, Stage, Reliability

LEMMA FinalizeKeeps ==
    ASSUME LoopInv, NEW n \in Block, finalize(n)
    PROVE  LoopInv'
<1>1. finalized' = n /\ n \in 1..n /\ n \in 0..MaxBlock /\ finalized < n
  BY ClientAssumption DEF finalize, Block
<1>2. notifications \in Seq(1..n)
  <2>1. notifications \in Seq(1..finalized) /\ finalized \in Nat
    BY ClientAssumption DEF LoopInv
  <2>2. ASSUME NEW i \in 1..Len(notifications) PROVE notifications[i] \in 1..n
    <3>1. notifications[i] \in 1..finalized
      BY <2>1, ElementOfSeq
    <3> QED
      BY <1>1, <2>1, <3>1
  <2>3. notifications \in [1..Len(notifications) -> 1..n] /\ Len(notifications) \in Nat
    BY <2>1, <2>2, LenProperties
  <2> QED
    BY <2>3, SeqDef
<1>3. notifications' \in Seq(1..n)
  BY <1>1, <1>2, AppendProperties DEF finalize
<1>4. UNCHANGED clientVars
  BY DEF finalize
<1> QED
  BY <1>1, <1>3, <1>4, ClientAssumption DEF LoopInv, ClientTypeOK, clientVars, Block

LEMMA HandleKeeps ==
    ASSUME LoopInv, handle_finality
    PROVE  LoopInv'
<1> DEFINE n == Head(notifications)
<1>1. n \in 1..finalized /\ notifications' \in Seq(1..finalized)
  BY HeadTailProperties DEF LoopInv, handle_finality
<1>2. /\ task' = [b \in Block |-> IF b \in blocks_to_sample(n) THEN "sampling" ELSE task[b]]
      /\ \A b \in Block : task[b] = "idle"
      /\ UNCHANGED <<header, confidence, last_processed, last_at_record, sampled, finalized>>
  BY DEF handle_finality, start_tasks, client_idle
<1>3. \A b \in blocks_to_sample(n) : b < BLOCK_SAMPLE_LIMIT /\ b < finalized
  <2>1. last_at = 0 /\ BLOCK_SAMPLE_LIMIT \in Nat /\ finalized \in Nat
    BY ClientAssumption, LoopAssumption DEF LoopInv, last_at
  <2>2. to_block(n) <= BLOCK_SAMPLE_LIMIT /\ to_block(n) <= finalized /\ to_block(n) \in Nat
    BY <1>1, <2>1 DEF to_block, min, max
  <2> QED
    BY <2>1, <2>2 DEF blocks_to_sample, Block
<1> HIDE DEF n
<1>4. task' \in [Block -> Stage]
  BY <1>2 DEF LoopInv, ClientTypeOK, Stage
<1> QED
  BY <1>1, <1>2, <1>3, <1>4 DEF LoopInv, ClientTypeOK

LEMMA TaskKeeps ==
    ASSUME LoopInv, NEW b \in Block, sampling_step(b)
    PROVE  LoopInv'
<1> USE DEF LoopInv, ClientTypeOK, Stage, Reliability
<1>1. UNCHANGED <<header, last_at_record, finalized, notifications>>
  BY DEF sampling_step, task_step, sample, sample_failed, finish_sampling, loopVars
<1>2. ASSUME NEW result \in {"available", "unavailable"}, sample(b, result) PROVE LoopInv'
  BY <1>1, <1>2 DEF sample, save_confidence
<1>3. ASSUME sample_failed(b) PROVE LoopInv'
  BY <1>1, <1>3 DEF sample_failed
<1>4. ASSUME finish_sampling(b) PROVE LoopInv'
  <2>1. b < finalized /\ (header[b] = "blobs" => confidence[b] # "none")
    BY <1>4 DEF finish_sampling
  <2>2. last_processed' = b /\ b \in 0..MaxBlock
    BY <1>4, ClientAssumption DEF finish_sampling, set_last_at, Block
  <2> QED
    BY <1>1, <1>4, <2>1, <2>2 DEF finish_sampling
<1> QED
  BY <1>2, <1>3, <1>4 DEF sampling_step, task_step

LEMMA LoopStep == LoopInv /\ [LoopNext]_vars => LoopInv'
<1> SUFFICES ASSUME LoopInv, [LoopNext]_vars PROVE LoopInv'
  OBVIOUS
<1>1. ASSUME restart PROVE LoopInv'
  BY <1>1 DEF restart, LoopInv, ClientTypeOK, Stage
<1>2. ASSUME UNCHANGED vars PROVE LoopInv'
  BY <1>2 DEF vars, clientVars, loopVars, LoopInv, ClientTypeOK
<1> QED
  BY <1>1, <1>2, FinalizeKeeps, HandleKeeps, TaskKeeps DEF LoopNext

\* A block that counts as processed has its confidence, however tasks interleave and
\* whenever the node restarts (sample_block, set_last_at).
THEOREM ProcessedIsSaved == LoopSpec => []ProcessedHasConfidence
<1>1. LoopInv => ProcessedHasConfidence
  BY ClientAssumption DEF LoopInv, ClientTypeOK, ProcessedHasConfidence, Block
<1> QED
  BY <1>1, LoopInitially, LoopStep, PTL DEF LoopSpec

\* One call of the listener never has as many tasks as BLOCK_SAMPLE_LIMIT.
THEOREM CallsAreBounded == LoopSpec => []TasksBounded
<1>1. LoopInv => TasksBounded
  <2> SUFFICES ASSUME LoopInv PROVE TasksBounded
    OBVIOUS
  <2> DEFINE running == {b \in Block : task[b] # "idle"}
             range == 1..(BLOCK_SAMPLE_LIMIT - 1)
  <2>1. 1 \in Int /\ BLOCK_SAMPLE_LIMIT - 1 \in Int /\ BLOCK_SAMPLE_LIMIT >= 1
    BY LoopAssumption
  <2>2. IsFiniteSet(range)
        /\ Cardinality(range) = IF 1 > BLOCK_SAMPLE_LIMIT - 1 THEN 0
                                  ELSE (BLOCK_SAMPLE_LIMIT - 1) - 1 + 1
    BY <2>1, FS_Interval
  <2>3. running \in SUBSET range
    BY ClientAssumption, LoopAssumption DEF LoopInv, Block
  <2> HIDE DEF running, range
  <2>4. IsFiniteSet(running) /\ Cardinality(running) <= Cardinality(range)
    BY <2>2, <2>3, FS_Subset
  <2>5. Cardinality(running) \in Nat
    BY <2>4, FS_CardinalityType
  <2>6. Cardinality(running) < BLOCK_SAMPLE_LIMIT
    BY <2>1, <2>2, <2>4, <2>5, LoopAssumption
  <2> QED
    BY <2>6 DEF running, TasksBounded
<1> QED
  BY <1>1, LoopInitially, LoopStep, PTL DEF LoopSpec

\* Only blocks below the finalised one are sampled, also after a restart.
THEOREM SamplesAreFinal == LoopSpec => []SampledIsFinal
<1>1. LoopInv => SampledIsFinal
  BY DEF LoopInv, SampledIsFinal
<1> QED
  BY <1>1, LoopInitially, LoopStep, PTL DEF LoopSpec

-----------------------------------------------------------------------------
(* The data of a block *)

\* Induction, over a set that stands for the property.
LEMMA InductionOnSet ==
    ASSUME NEW S, 0 \in S, \A n \in Nat : n \in S => n + 1 \in S
    PROVE  Nat \subseteq S
<1> DEFINE R == OpToRel(<, Nat)  T == Nat \ S
<1> SUFFICES ASSUME T # {} PROVE FALSE
  OBVIOUS
<1>1. IsWellFoundedOn(R, Nat)
  BY NatLessThanWellFounded
<1> HIDE DEF R
<1>2. T \subseteq Nat
  OBVIOUS
<1>3. PICK x \in T : \A y \in T : ~(<<y, x>> \in R)
  BY <1>1, <1>2, WFMin
<1>4. x \in Nat /\ x # 0 /\ x - 1 \in Nat /\ x - 1 < x /\ (x - 1) + 1 = x
  BY <1>3
<1>5. x - 1 \in T
  BY <1>3, <1>4
<1> QED
  BY <1>3, <1>4, <1>5 DEF R, OpToRel

\* The counts of submissions.
Counts == UNION {[1..n -> 1..MaxCount] : n \in 1..MaxApps}

LEMMA CountsAreSeqs ==
    ASSUME NEW c \in Counts
    PROVE  Len(c) \in Nat \ {0} /\ c \in Seq(1..MaxCount) /\ \A i \in 1..Len(c) : c[i] \in Nat \ {0}
<1>1. PICK n \in 1..MaxApps : c \in [1..n -> 1..MaxCount]
  BY DEF Counts
<1>2. n \in Nat \ {0} /\ MaxCount \in Nat
  BY MatrixAssumption
<1>3. c \in Seq(1..MaxCount) /\ Len(c) = n
  BY <1>1, <1>2
<1> QED
  BY <1>1, <1>2, <1>3

\* What the recursion of rows_before computes.
LEMMA RowsBefore ==
    ASSUME NEW c \in Counts
    PROVE  /\ rows_before(c, 1) = 0
           /\ \A i \in 1..Len(c) : rows_before(c, i + 1) = rows_before(c, i) + c[i]
<1> DEFINE Sum(m, f) == f = [n \in 0..m |-> IF n = 0 THEN 0 ELSE f[n - 1] + c[n]]
           S == {m \in Nat : \E f : Sum(m, f)}
<1>1. 0 \in S
  <2>1. Sum(0, [n \in 0..0 |-> 0])
    OBVIOUS
  <2> QED
    BY <2>1
<1>2. ASSUME NEW m \in Nat, m \in S PROVE m + 1 \in S
  <2>1. PICK f : Sum(m, f)
    BY <1>2
  <2> DEFINE g == [n \in 0..(m + 1) |-> IF n <= m THEN f[n] ELSE f[m] + c[m + 1]]
  <2>2. f[0] = 0 /\ \A n \in 1..m : f[n] = f[n - 1] + c[n]
    BY <1>2, <2>1
  <2>3. g[0] = 0 /\ \A n \in 0..m : g[n] = f[n]
    BY <1>2, <2>2
  <2>4. ASSUME NEW n \in 1..(m + 1) PROVE g[n] = g[n - 1] + c[n]
    <3>1. g[n - 1] = f[n - 1]
      BY <1>2, <2>3, <2>4
    <3>2. CASE n <= m
      BY <1>2, <2>2, <2>3, <2>4, <3>1, <3>2
    <3>3. CASE n = m + 1
      BY <1>2, <3>1, <3>3
    <3> QED
      BY <1>2, <2>4, <3>2, <3>3
  <2>5. g = [n \in 0..(m + 1) |-> g[n]]
    OBVIOUS
  <2> HIDE DEF g
  <2>6. \A n \in 0..(m + 1) : g[n] = IF n = 0 THEN 0 ELSE g[n - 1] + c[n]
    BY <1>2, <2>3, <2>4
  <2>7. Sum(m + 1, g)
    BY <2>5, <2>6
  <2> QED
    BY <1>2, <2>7
<1>3. Len(c) \in S /\ Len(c) \in Nat
  <2>1. Len(c) \in Nat
    BY CountsAreSeqs
  <2> HIDE DEF S
  <2> QED
    BY <1>1, <1>2, <2>1, InductionOnSet
<1>4. PICK f : Sum(Len(c), f) /\ \A i : rows_before(c, i) = f[i - 1]
  BY <1>3, Zenon DEF rows_before
<1>5. f[0] = 0 /\ \A n \in 1..Len(c) : f[n] = f[n - 1] + c[n]
  BY <1>3, <1>4
<1>6. \A i : rows_before(c, i) = f[i - 1]
  BY <1>4
<1> HIDE DEF Sum
<1>7. rows_before(c, 1) = 0
  <2>1. 1 - 1 = 0
    OBVIOUS
  <2> QED
    BY <1>5, <1>6, <2>1
<1>8. ASSUME NEW i \in 1..Len(c) PROVE rows_before(c, i + 1) = rows_before(c, i) + c[i]
  <2>1. (i + 1) - 1 = i
    OBVIOUS
  <2> QED
    BY <1>5, <1>6, <2>1
<1> QED
  BY <1>7, <1>8

\* Rows are numbered on and on: those of a submission are behind those of the ones before.
LEMMA RowsGrow ==
    ASSUME NEW c \in Counts
    PROVE  /\ \A i \in 1..(Len(c) + 1) : rows_before(c, i) \in Nat
           /\ \A i \in 1..Len(c), j \in 1..(Len(c) + 1) :
                 i < j => rows_before(c, i) + c[i] <= rows_before(c, j)
<1> DEFINE m == Len(c)
           b(i) == rows_before(c, i)
           Good(j) == /\ b(j) \in Nat
                      /\ \A i \in 1..m : i < j => b(i) \in Nat /\ b(i) + c[i] <= b(j)
           S == {n \in Nat : n <= m => Good(n + 1)}
<1>1. m \in Nat /\ \A i \in 1..m : c[i] \in Nat
  BY CountsAreSeqs
<1>2. b(1) = 0 /\ \A i \in 1..m : b(i + 1) = b(i) + c[i]
  BY RowsBefore
<1> HIDE DEF b, m
<1>3. 0 \in S
  BY <1>1, <1>2
<1>4. ASSUME NEW n \in Nat, n \in S PROVE n + 1 \in S
  <2> SUFFICES ASSUME n + 1 <= m PROVE Good(n + 2)
    OBVIOUS
  <2>1. n + 1 \in 1..m /\ n <= m /\ (n + 1) + 1 = n + 2
    BY <1>1
  <2>2. Good(n + 1)
    BY <1>4, <2>1
  <2>3. b(n + 2) = b(n + 1) + c[n + 1] /\ c[n + 1] \in Nat /\ b(n + 1) \in Nat
    BY <1>1, <1>2, <2>1, <2>2
  <2>4. ASSUME NEW i \in 1..m, i < n + 2 PROVE b(i) \in Nat /\ b(i) + c[i] <= b(n + 2)
    <3>1. CASE i = n + 1
      BY <2>3, <3>1
    <3>2. CASE i < n + 1
      <4>1. b(i) \in Nat /\ b(i) + c[i] <= b(n + 1) /\ c[i] \in Nat
        BY <1>1, <2>2, <2>4, <3>2
      <4> QED
        BY <2>3, <4>1
    <3> QED
      BY <2>4, <3>1, <3>2
  <2> QED
    BY <2>3, <2>4
<1>5. Nat \subseteq S
  <2> HIDE DEF S
  <2> QED
    BY <1>3, <1>4, InductionOnSet
<1>6. ASSUME NEW j \in 1..(m + 1) PROVE Good(j)
  <2>1. j - 1 \in Nat /\ j - 1 <= m /\ (j - 1) + 1 = j
    BY <1>1
  <2> QED
    BY <1>5, <2>1
<1> QED
  BY <1>6 DEF b, m

\* A record is that of a segment of a submission or of parity, under its own key; the
\* proof of parity may be wrong.
Genuine(c, key, v) ==
    \/ \E i \in 1..Len(c) : \E x \in Col, y \in 0..(c[i] - 1) :
          key = sample_key(i, x, y) /\ v = segment(rows_before(c, i) + y, x)
    \/ \E x \in Col, y \in rows_before(c, Len(c) + 1)..(2 * rows_before(c, Len(c) + 1) - 1) :
          key = sample_key_from_block(x, y) /\ \E at : v = <<y, x, at>>

MatrixInv ==
    /\ app_lookup \in Counts
    /\ \A key \in DOMAIN records : Genuine(app_lookup, key, records[key])

\* Putting genuine records keeps records genuine.
LEMMA PutValues ==
    ASSUME NEW c, NEW pairs, put_values(pairs), \A p \in pairs : Genuine(c, p[1], p[2]),
           \A key \in DOMAIN records : Genuine(c, key, records[key])
    PROVE  \A key \in DOMAIN records' : Genuine(c, key, records'[key])
<1> DEFINE keys == {p[1] : p \in pairs}
<1>1. records' = [key \in keys \cup DOMAIN records |->
                    IF key \in keys THEN (CHOOSE p \in pairs : p[1] = key)[2] ELSE records[key]]
  BY DEF put_values
<1> HIDE DEF keys
<1>2. ASSUME NEW key \in DOMAIN records' PROVE Genuine(c, key, records'[key])
  <2>1. CASE key \in keys
    <3> DEFINE p == CHOOSE q \in pairs : q[1] = key
    <3>1. p \in pairs /\ p[1] = key
      BY <2>1 DEF keys
    <3>2. records'[key] = p[2]
      BY <1>1, <2>1
    <3> HIDE DEF p
    <3> QED
      BY <3>1, <3>2
  <2>2. CASE key \notin keys
    <3>1. key \in DOMAIN records /\ records'[key] = records[key]
      BY <1>1, <1>2, <2>2
    <3> QED
      BY <3>1
  <2> QED
    BY <2>1, <2>2
<1> QED
  BY <1>2

\* The records of the network are genuine in every reachable state.
LEMMA MatrixInitInv == MatrixInit => MatrixInv
BY DEF MatrixInit, MatrixInv, Counts

LEMMA MatrixStep == MatrixInv /\ [MatrixNext]_matrixVars => MatrixInv'
<1> SUFFICES ASSUME MatrixInv, [MatrixNext]_matrixVars PROVE MatrixInv'
  OBVIOUS
<1>1. app_lookup \in Counts /\ \A key \in DOMAIN records : Genuine(app_lookup, key, records[key])
  BY DEF MatrixInv
<1>2. CASE UNCHANGED matrixVars
  BY <1>2 DEF matrixVars, MatrixInv
<1>3. ASSUME NEW i \in App, put_bytes(i) PROVE MatrixInv'
  <2> DEFINE pairs == {<<sample_key(i, x, y), segment(start_at(i) + y, x)>> :
                          x \in Col, y \in 0..(app_lookup[i] - 1)}
  <2>1. put_values(pairs) /\ app_lookup' = app_lookup
    BY <1>3 DEF put_bytes
  <2>2. ASSUME NEW p \in pairs PROVE Genuine(app_lookup, p[1], p[2])
    <3>1. PICK x \in Col, y \in 0..(app_lookup[i] - 1) :
             p = <<sample_key(i, x, y), segment(start_at(i) + y, x)>>
      OBVIOUS
    <3>2. p[1] = sample_key(i, x, y) /\ p[2] = segment(rows_before(app_lookup, i) + y, x)
      BY <3>1 DEF start_at
    <3>3. i \in 1..Len(app_lookup)
      BY DEF App
    <3> QED
      BY <3>2, <3>3 DEF Genuine
  <2> HIDE DEF pairs
  <2>3. \A key \in DOMAIN records' : Genuine(app_lookup, key, records'[key])
    BY <1>1, <2>1, <2>2, PutValues
  <2> QED
    BY <1>1, <2>1, <2>3 DEF MatrixInv
<1>4. ASSUME NEW k \in DOMAIN records, lose(k) PROVE MatrixInv'
  BY <1>1, <1>4 DEF lose, MatrixInv
<1>5. CASE new_best_block
  <2> DEFINE pairs == UNION {extend_segments_col(fetch_block, x) : x \in Col}
  <2>1. put_values(pairs) /\ app_lookup' = app_lookup
    BY <1>5 DEF new_best_block
  <2>2. ASSUME NEW p \in pairs PROVE Genuine(app_lookup, p[1], p[2])
    <3>1. PICK x \in Col, i \in Row : \E at :
             p = <<sample_key_from_block(x, extension_row(i)), <<rows + i, x, at>>>>
      BY DEF extend_segments_col
    <3> DEFINE r == rows_before(app_lookup, Len(app_lookup) + 1)  y == r + i
    <3>2. rows = r
      BY DEF rows, start_at
    <3>3. r \in Nat
      <4>1. Len(app_lookup) + 1 \in 1..(Len(app_lookup) + 1)
        BY <1>1, CountsAreSeqs
      <4> QED
        BY <1>1, <4>1, RowsGrow
    <3>4. p[1] = sample_key_from_block(x, y) /\ \E at : p[2] = <<y, x, at>>
      BY <3>1, <3>2 DEF extension_row
    <3> HIDE DEF r
    <3>5. y \in r..(2 * r - 1)
      BY <3>2, <3>3 DEF Row
    <3> HIDE DEF y
    <3> QED
      BY <3>4, <3>5 DEF Genuine, r
  <2> HIDE DEF pairs
  <2>3. \A key \in DOMAIN records' : Genuine(app_lookup, key, records'[key])
    BY <1>1, <2>1, <2>2, PutValues
  <2> QED
    BY <1>1, <2>1, <2>3 DEF MatrixInv
<1> QED
  BY <1>2, <1>3, <1>4, <1>5 DEF MatrixNext

\* What the records of a submission are.
LEMMA Held ==
    ASSUME MatrixInv
    PROVE  \A i, x, y : sample_key(i, x, y) \in DOMAIN records =>
                 /\ i \in App /\ x \in Col /\ y \in 0..(app_lookup[i] - 1)
                 /\ records[sample_key(i, x, y)] = segment(start_at(i) + y, x)
<1>1. app_lookup \in Counts /\ \A key \in DOMAIN records : Genuine(app_lookup, key, records[key])
  BY DEF MatrixInv
<1>2. ASSUME NEW i, NEW x, NEW y, sample_key(i, x, y) \in DOMAIN records
      PROVE  /\ i \in App /\ x \in Col /\ y \in 0..(app_lookup[i] - 1)
             /\ records[sample_key(i, x, y)] = segment(start_at(i) + y, x)
  <2>1. Genuine(app_lookup, sample_key(i, x, y), records[sample_key(i, x, y)])
    BY <1>1, <1>2
  <2>2. \A u, v : sample_key(i, x, y) # sample_key_from_block(u, v)
    BY DEF sample_key, sample_key_from_block
  <2>3. \A j, u, v : sample_key(i, x, y) = sample_key(j, u, v) => i = j /\ x = u /\ y = v
    BY DEF sample_key
  <2>4. PICK j \in 1..Len(app_lookup) : \E u \in Col, v \in 0..(app_lookup[j] - 1) :
          /\ sample_key(i, x, y) = sample_key(j, u, v)
          /\ records[sample_key(i, x, y)] = segment(rows_before(app_lookup, j) + v, u)
    BY <2>1, <2>2 DEF Genuine
  <2> QED
    BY <2>3, <2>4 DEF App, start_at
<1> QED
  BY <1>2

\* Sampling a submission finds exactly its segments that are held (app sample keys take
\* the row inside the submission), for every layout of the block.
THEOREM AppSamplesAreFound == MatrixSpec => []AppSamplesFound
<1>1. MatrixInv => AppSamplesFound
  <2> SUFFICES ASSUME MatrixInv, NEW i \in App, NEW x \in Col, NEW y \in 0..(app_lookup[i] - 1)
               PROVE  app_sample_found(i, x, y) <=> sample_key(i, x, y) \in DOMAIN records
    BY DEF AppSamplesFound
  <2> DEFINE key == sample_key(i, x, y)
             seg == segment(start_at(i) + y, x)
  <2>1. None # seg
    BY DEF None, segment
  <2>2. app_sample_found(i, x, y) <=> value(key) = seg
    BY DEF app_sample_found, app_sample_key, verify_values
  <2>3. key \in DOMAIN records => records[key] = seg
    BY Held
  <2> HIDE DEF key, seg
  <2>4. value(key) = seg <=> key \in DOMAIN records
    BY <2>1, <2>3 DEF value
  <2> QED
    BY <2>2, <2>4 DEF key
<1> QED
  BY <1>1, MatrixInitInv, MatrixStep, PTL DEF MatrixSpec

LEMMA Columns == IsFiniteSet(Col) /\ \A X \in SUBSET Col : IsFiniteSet(X) /\ Cardinality(X) \in Nat
<1>1. IsFiniteSet(Col)
  BY MatrixAssumption, FS_Interval DEF Col
<1> QED
  BY <1>1, FS_Subset, FS_CardinalityType

\* Rows of different submissions are different.
LEMMA SameRow ==
    ASSUME NEW c \in Counts, NEW i \in 1..Len(c), NEW j \in 1..Len(c),
           NEW y \in 0..(c[i] - 1), NEW z \in 0..(c[j] - 1),
           rows_before(c, i) + y = rows_before(c, j) + z
    PROVE  i = j /\ y = z
<1>1. Len(c) \in Nat /\ c[i] \in Nat /\ c[j] \in Nat
  BY CountsAreSeqs
<1>2. i \in 1..(Len(c) + 1) /\ j \in 1..(Len(c) + 1)
  BY <1>1
<1>3. rows_before(c, i) \in Nat /\ rows_before(c, j) \in Nat
  BY <1>2, RowsGrow
<1>4. /\ i < j => rows_before(c, i) + c[i] <= rows_before(c, j)
      /\ j < i => rows_before(c, j) + c[j] <= rows_before(c, i)
  BY <1>2, RowsGrow
<1> QED
  BY <1>1, <1>3, <1>4, SMTT(30)

\* The rows of a submission are rows of the block.
LEMMA RowsOfSubmissions ==
    ASSUME NEW c \in Counts, NEW i \in 1..Len(c), NEW y \in 0..(c[i] - 1)
    PROVE  rows_before(c, i) + y \in 0..(rows_before(c, Len(c) + 1) - 1)
<1>1. Len(c) \in Nat /\ c[i] \in Nat
  BY CountsAreSeqs
<1>2. i \in 1..(Len(c) + 1) /\ Len(c) + 1 \in 1..(Len(c) + 1) /\ i < Len(c) + 1
  BY <1>1
<1>3. /\ rows_before(c, i) \in Nat /\ rows_before(c, Len(c) + 1) \in Nat
      /\ rows_before(c, i) + c[i] <= rows_before(c, Len(c) + 1)
  BY <1>2, RowsGrow
<1> QED
  BY <1>1, <1>3

\* A segment found for a row of the block is held under the key of its submission.
LEMMA FoundIsHeld ==
    ASSUME MatrixInv, NEW i \in App, NEW y \in 0..(app_lookup[i] - 1), NEW x \in Col,
           NEW n \in 0..(rows * Segments - 1), block_values[n] = segment(start_at(i) + y, x)
    PROVE  sample_key(i, x, y) \in DOMAIN records
<1>1. PICK j, a, b : prepare_keys[n] = sample_key(j, a, b)
  BY DEF prepare_keys
<1>2. block_values[n] = value(sample_key(j, a, b))
  BY <1>1 DEF block_values
<1> DEFINE seg == segment(start_at(i) + y, x)
<1>3. None # seg /\ block_values[n] = seg
  BY DEF None, segment
<1> HIDE DEF seg
<1>4. sample_key(j, a, b) \in DOMAIN records /\ records[sample_key(j, a, b)] = seg
  BY <1>2, <1>3 DEF value
<1>5. /\ j \in App /\ a \in Col /\ b \in 0..(app_lookup[j] - 1)
      /\ records[sample_key(j, a, b)] = segment(start_at(j) + b, a)
  BY <1>4, Held
<1>6. a = x /\ start_at(j) + b = start_at(i) + y
  BY <1>4, <1>5 DEF seg, segment
<1>7. i = j /\ y = b
  BY <1>5, <1>6, SameRow DEF MatrixInv, App, start_at
<1> QED
  BY <1>4, <1>6, <1>7

\* When fetch_block calls a block available, half of each row of each submission is held.
THEOREM AvailableBlocksAreRecoverable == MatrixSpec => []AvailableIsRecoverable
<1>1. MatrixInv => AvailableIsRecoverable
  <2> SUFFICES ASSUME MatrixInv, fetch_block_available, NEW i \in App,
                      NEW y \in 0..(app_lookup[i] - 1)
               PROVE  2 * Cardinality({x \in Col : sample_key(i, x, y) \in DOMAIN records})
                        >= Segments
    BY DEF AvailableIsRecoverable
  <2> DEFINE z == start_at(i) + y
             segs == row_segments(block_values, z, z)
             X == {x \in Col : segs[x] # None}
             H == {x \in Col : sample_key(i, x, y) \in DOMAIN records}
  <2>1. z \in Row
    BY RowsOfSubmissions DEF MatrixInv, App, Row, rows, start_at
  <2>2. Cardinality(X) >= Segments \div 2
    BY <2>1 DEF fetch_block_available, row_ok, row_available, some_count
  <2>3. ASSUME NEW x \in X PROVE x \in H
    <3> DEFINE n == z * Segments + x
    <3>1. segs[x] = IF verify_values(block_values[n], z, x)
                      THEN [x |-> x, y |-> z, content |-> block_values[n]] ELSE None
      BY DEF row_segments
    <3>2. block_values[n] = segment(z, x)
      BY <3>1 DEF verify_values
    <3>3. n \in 0..(rows * Segments - 1)
      <4>1. z \in Nat /\ z + 1 <= rows /\ rows \in Nat /\ Segments \in Nat /\ x \in 0..(Segments - 1)
        <5>1. rows \in Nat
          <6>1. Len(app_lookup) + 1 \in 1..(Len(app_lookup) + 1)
            BY CountsAreSeqs DEF MatrixInv
          <6> QED
            BY <6>1, RowsGrow DEF MatrixInv, rows, start_at
        <5> QED
          BY <2>1, <5>1, MatrixAssumption DEF Row, Col
      <4> HIDE DEF z
      <4>2. (z + 1) * Segments <= rows * Segments /\ z * Segments \in Nat
        BY <4>1
      <4>3. (z + 1) * Segments = z * Segments + Segments
        BY <4>1
      <4> QED
        BY <4>1, <4>2, <4>3
    <3> QED
      BY <3>2, <3>3, FoundIsHeld
  <2>4. Cardinality(X) <= Cardinality(H) /\ Cardinality(X) \in Nat /\ Cardinality(H) \in Nat
    <3>1. X \subseteq H /\ H \subseteq Col /\ X \subseteq Col
      BY <2>3
    <3> HIDE DEF X, H
    <3> QED
      BY <3>1, Columns, FS_Subset
  <2> HIDE DEF X, H
  <2>5. 2 * Cardinality(H) >= Segments
    BY <2>2, <2>4, MatrixAssumption
  <2> QED
    BY <2>5 DEF H
<1> QED
  BY <1>1, MatrixInitInv, MatrixStep, PTL DEF MatrixSpec

\* With one blob each, submissions and rows are numbered alike.
LEMMA SingleRows ==
    ASSUME NEW c \in Counts, \A i \in 1..Len(c) : c[i] = 1
    PROVE  \A i \in 1..(Len(c) + 1) : rows_before(c, i) = i - 1
<1> DEFINE S == {n \in Nat : n <= Len(c) => rows_before(c, n + 1) = n}
<1>1. Len(c) \in Nat
  BY CountsAreSeqs
<1>2. 0 \in S
  BY RowsBefore
<1>3. ASSUME NEW n \in Nat, n \in S PROVE n + 1 \in S
  <2> SUFFICES ASSUME n + 1 <= Len(c) PROVE rows_before(c, (n + 1) + 1) = n + 1
    OBVIOUS
  <2>1. n + 1 \in 1..Len(c) /\ n <= Len(c)
    BY <1>1
  <2>2. rows_before(c, (n + 1) + 1) = rows_before(c, n + 1) + c[n + 1] /\ c[n + 1] = 1
    BY <2>1, RowsBefore
  <2> QED
    BY <1>3, <2>1, <2>2
<1>4. Nat \subseteq S
  <2> HIDE DEF S
  <2> QED
    BY <1>2, <1>3, InductionOnSet
<1>5. ASSUME NEW i \in 1..(Len(c) + 1) PROVE rows_before(c, i) = i - 1
  <2>1. i - 1 \in S /\ i - 1 <= Len(c) /\ (i - 1) + 1 = i
    BY <1>1, <1>4
  <2> QED
    BY <2>1
<1> QED
  BY <1>5

\* In rows of one length, the row of a place is found by division.
LEMMA PlaceInRow ==
    ASSUME NEW w \in Nat, NEW y \in Nat, NEW z \in Nat, NEW x \in 0..(w - 1),
           z * w <= y * w + x, y * w + x < z * w + w
    PROVE  z = y
<1>1. CASE z < y
  <2>1. (z + 1) * w <= y * w
    BY <1>1
  <2>2. (z + 1) * w = z * w + w /\ y * w \in Nat /\ z * w \in Nat
    OBVIOUS
  <2> QED
    BY <2>1, <2>2
<1>2. CASE y < z
  <2>1. (y + 1) * w <= z * w
    BY <1>2
  <2>2. (y + 1) * w = y * w + w /\ y * w \in Nat /\ z * w \in Nat
    OBVIOUS
  <2> QED
    BY <2>1, <2>2
<1> QED
  BY <1>1, <1>2

\* The keys of single blobs are in the order in which values are taken for rows.
LEMMA SingleKeys ==
    ASSUME MatrixInv, \A i \in App : app_lookup[i] = 1, NEW y \in Row, NEW x \in Col
    PROVE  /\ y + 1 \in App /\ start_at(y + 1) = y
           /\ y * Segments + x \in 0..(rows * Segments - 1)
           /\ prepare_keys[y * Segments + x] = sample_key(y + 1, x, 0)
<1> DEFINE m == Len(app_lookup)
           n == y * Segments + x
           At(j) == start_at(j) * Segments <= n
                      /\ n < start_at(j) * Segments + app_lookup[j] * Segments
<1>1. /\ m \in Nat /\ Segments \in Nat /\ x \in 0..(Segments - 1) /\ App = 1..m
      /\ \A j \in App : app_lookup[j] = 1
  BY CountsAreSeqs, MatrixAssumption DEF MatrixInv, App, Col
<1>2. \A j \in 1..(m + 1) : start_at(j) = j - 1
  BY SingleRows DEF MatrixInv, App, start_at
<1>3. rows = m
  <2>1. m + 1 \in 1..(m + 1) /\ (m + 1) - 1 = m
    BY <1>1
  <2> QED
    BY <1>2, <2>1 DEF rows
<1>4. y \in Nat /\ y < m /\ y + 1 \in App /\ start_at(y + 1) = y
  <2>1. y \in 0..(m - 1)
    BY <1>3 DEF Row
  <2>2. y + 1 \in 1..(m + 1) /\ (y + 1) - 1 = y /\ y + 1 \in 1..m
    BY <1>1, <2>1
  <2> QED
    BY <1>1, <1>2, <2>1, <2>2
<1>5. n \in 0..(rows * Segments - 1)
  <2>1. (y + 1) * Segments <= m * Segments /\ y * Segments \in Nat
    BY <1>1, <1>4
  <2>2. (y + 1) * Segments = y * Segments + Segments
    BY <1>1, <1>4
  <2> QED
    BY <1>1, <1>3, <2>1, <2>2
<1>6. At(y + 1)
  <2>1. y * Segments \in Nat /\ 1 * Segments = Segments /\ app_lookup[y + 1] = 1
    BY <1>1, <1>4
  <2> QED
    BY <1>1, <1>4, <2>1
<1>7. ASSUME NEW j \in App, At(j) PROVE j = y + 1
  <2>1. j \in 1..(m + 1) /\ j - 1 \in Nat /\ app_lookup[j] = 1 /\ 1 * Segments = Segments
    BY <1>1
  <2>2. start_at(j) = j - 1
    BY <1>2, <2>1
  <2> DEFINE z == j - 1
  <2>3. z * Segments <= y * Segments + x /\ y * Segments + x < z * Segments + Segments
    BY <1>7, <2>1, <2>2
  <2> HIDE DEF z
  <2>4. z \in Nat
    BY <2>1 DEF z
  <2>5. z = y
    BY <1>1, <1>4, <2>3, <2>4, PlaceInRow
  <2> QED
    BY <2>1, <2>5 DEF z
<1>8. (CHOOSE j \in App : At(j)) = y + 1
  BY <1>4, <1>6, <1>7
<1>9. prepare_keys[n] =
         LET i == CHOOSE j \in App : At(j)
         IN  sample_key(i, (n - start_at(i) * Segments) \div app_lookup[i],
                           (n - start_at(i) * Segments) % app_lookup[i])
  BY <1>5 DEF prepare_keys
<1>10. prepare_keys[n] = sample_key(y + 1, (n - y * Segments) \div 1, (n - y * Segments) % 1)
  BY <1>1, <1>4, <1>8, <1>9
<1>11. n - y * Segments = x /\ x \div 1 = x /\ x % 1 = 0
  BY <1>1, <1>4
<1> QED
  BY <1>4, <1>5, <1>10, <1>11

\* What is found for a place of a block of single blobs is what is held.
LEMMA SingleFound ==
    ASSUME MatrixInv, \A i \in App : app_lookup[i] = 1, NEW y \in Row, NEW x \in Col
    PROVE  row_segments(block_values, y, y)[x] =
              IF sample_key(y + 1, x, 0) \in DOMAIN records
                THEN [x |-> x, y |-> y, content |-> segment(y, x)] ELSE None
<1> DEFINE n == y * Segments + x
           key == sample_key(y + 1, x, 0)
<1>1. /\ y + 1 \in App /\ start_at(y + 1) = y /\ n \in 0..(rows * Segments - 1)
      /\ prepare_keys[n] = key
  BY SingleKeys
<1>2. block_values[n] = value(key)
  BY <1>1 DEF block_values
<1>3. row_segments(block_values, y, y)[x] =
         IF value(key) = segment(y, x)
           THEN [x |-> x, y |-> y, content |-> value(key)] ELSE None
  BY <1>2 DEF row_segments, verify_values
<1>4. y + 0 = y
  <2>1. y \in Int
    BY DEF Row
  <2> QED
    BY <2>1
<1>5. key \in DOMAIN records => value(key) = segment(y, x)
  BY <1>1, <1>4, Held DEF value
<1>6. key \notin DOMAIN records => value(key) = None
  BY DEF value
<1>7. None # segment(y, x)
  BY DEF None, segment
<1> HIDE DEF key
<1> QED
  BY <1>3, <1>5, <1>6, <1>7 DEF key

\* fetch_block finds a block of single blobs available whenever half of each is held.
THEOREM SingleBlobsAreAvailable == MatrixSpec => []SingleBlobsAvailable
<1>1. MatrixInv => SingleBlobsAvailable
  <2> SUFFICES ASSUME MatrixInv, \A i \in App : app_lookup[i] = 1,
                      \A i \in App : 2 * Cardinality({x \in Col : sample_key(i, x, 0) \in DOMAIN records})
                                        >= Segments,
                      NEW y \in Row
               PROVE  row_ok(block_values, y, y)
    BY DEF SingleBlobsAvailable, fetch_block_available
  <2> DEFINE segs == row_segments(block_values, y, y)
             X == {x \in Col : segs[x] # None}
             H == {x \in Col : sample_key(y + 1, x, 0) \in DOMAIN records}
  <2>1. 2 * Cardinality(H) >= Segments
    <3>1. 0 \in Col
      BY MatrixAssumption DEF Col
    <3> QED
      BY <3>1, SingleKeys
  <2>2. ASSUME NEW x \in H PROVE x \in X
    <3>1. segs[x] = [x |-> x, y |-> y, content |-> segment(y, x)]
      BY SingleFound
    <3>2. segs[x] # None
      BY <3>1 DEF None
    <3> QED
      BY <3>2
  <2>3. Cardinality(H) <= Cardinality(X) /\ Cardinality(X) \in Nat /\ Cardinality(H) \in Nat
    <3>1. H \subseteq X /\ H \subseteq Col /\ X \subseteq Col
      BY <2>2
    <3> HIDE DEF X, H
    <3> QED
      BY <3>1, Columns, FS_Subset
  <2> HIDE DEF H
  <2>4. Cardinality(X) >= Segments \div 2 /\ 2 * Cardinality(X) >= Segments
    <3> HIDE DEF X
    <3> QED
      BY <2>1, <2>3, MatrixAssumption
  <2>5. some_count(segs) >= Segments \div 2 /\ 2 * some_count(segs) >= Segments
    BY <2>4 DEF some_count
  <2> HIDE DEF segs
  <2>6. row_available(segs) /\ recovery_ok(segs)
    BY <2>5, MatrixAssumption DEF row_available, recovery_ok
  <2> QED
    BY <2>6 DEF row_ok, segs
<1> QED
  BY <1>1, MatrixInitInv, MatrixStep, PTL DEF MatrixSpec

-----------------------------------------------------------------------------
(* The parity of a block *)

\* The point of a published proof is that of its column, the point of a recovered one is
\* that of the first column.
LEMMA Points ==
    ASSUME NEW x \in Col
    PROVE  get_kzg_index(SEGMENTS_PER_BLOB, x) = x /\ get_kzg_index(Segments, x) = 0
<1>1. x \in Nat /\ Segments \in Nat /\ Segments > 0
  BY MatrixAssumption DEF Col
<1>2. 2 * SEGMENTS_PER_BLOB = Segments
  BY MatrixAssumption DEF SEGMENTS_PER_BLOB
<1>3. Segments \div Segments = 1 /\ Segments \div (2 * Segments) = 0
  BY <1>1
<1> HIDE DEF SEGMENTS_PER_BLOB
<1>4. get_kzg_index(SEGMENTS_PER_BLOB, x) = x * 1
  BY <1>2, <1>3 DEF get_kzg_index
<1>5. get_kzg_index(Segments, x) = x * 0
  BY <1>3 DEF get_kzg_index
<1> QED
  BY <1>1, <1>4, <1>5

LEMMA RowsNat == ASSUME MatrixInv PROVE rows \in Nat /\ rows > 0
<1> DEFINE m == Len(app_lookup)
<1>1. app_lookup \in Counts /\ m \in Nat \ {0} /\ app_lookup[1] \in Nat \ {0}
  BY CountsAreSeqs DEF MatrixInv
<1>2. 1 \in 1..m /\ 1 \in 1..(m + 1) /\ m + 1 \in 1..(m + 1) /\ 1 < m + 1
  BY <1>1
<1>3. /\ rows_before(app_lookup, 1) \in Nat /\ rows_before(app_lookup, m + 1) \in Nat
      /\ rows_before(app_lookup, 1) + app_lookup[1] <= rows_before(app_lookup, m + 1)
  BY <1>1, <1>2, RowsGrow
<1> QED
  BY <1>1, <1>3 DEF rows, start_at

\* Where the proofs of a fetched block of single blobs open their rows.
LEMMA FetchedPoint ==
    ASSUME MatrixInv, \A i \in App : app_lookup[i] = 1, fetch_block_available,
           NEW y \in Row, NEW x \in Col
    PROVE  fetch_block[y][x].content[3] =
              IF sample_key(y + 1, x, 0) \in DOMAIN records THEN x ELSE 0
<1> DEFINE segs == row_segments(block_values, y, y)
           held == sample_key(y + 1, x, 0) \in DOMAIN records
<1>1. fetch_block[y] = rows_values_handler(block_values, y, y)
  <2>1. \A q \in 0..(y - 1) : q \in Row
    BY RowsNat DEF Row
  <2> QED
    BY <2>1 DEF fetch_block, fetch_block_available
<1>2. segs[x] = IF held THEN [x |-> x, y |-> y, content |-> segment(y, x)] ELSE None
  BY SingleFound
<1>3. row_available(segs) /\ (needs_recovery(segs) => recovery_ok(segs))
  BY DEF fetch_block_available, row_ok
<1>4. fetch_block[y] = IF needs_recovery(segs) /\ recovery_ok(segs)
                         THEN recovery(segs, y, y) ELSE segs
  BY <1>1 DEF rows_values_handler
<1> HIDE DEF segs
<1>5. CASE held
  <2>1. segs[x] = [x |-> x, y |-> y, content |-> segment(y, x)]
    BY <1>2, <1>5
  <2>2. segs[x] # None
    BY <2>1 DEF None
  <2>3. fetch_block[y][x] = segs[x]
    BY <1>4, <2>2 DEF recovery
  <2>4. fetch_block[y][x].content = segment(y, x)
    BY <2>1, <2>3
  <2>5. segment(y, x)[3] = x
    BY Points DEF segment
  <2> QED
    BY <1>5, <2>4, <2>5
<1>6. CASE ~held
  <2>1. segs[x] = None
    BY <1>2, <1>6
  <2>2. some_count(segs) < Segments
    <3> DEFINE X == {k \in Col : segs[k] # None}
    <3>1. X \subseteq Col /\ X # Col
      BY <2>1
    <3>2. IsFiniteSet(Col) /\ Cardinality(Col) = Segments /\ Segments \in Nat
      BY MatrixAssumption, FS_Interval DEF Col
    <3> HIDE DEF X
    <3>3. Cardinality(X) < Segments
      BY <3>1, <3>2, FS_Subset, FS_CardinalityType
    <3> QED
      BY <3>3 DEF some_count, X
  <2>3. needs_recovery(segs) /\ recovery_ok(segs)
    BY <1>3, <2>2 DEF needs_recovery
  <2>4. fetch_block[y][x] = [x |-> x, y |-> y, content |-> <<y, x, get_kzg_index(Segments, x)>>]
    BY <1>4, <2>1, <2>3 DEF recovery
  <2>5. fetch_block[y][x].content[3] = get_kzg_index(Segments, x)
    BY <2>4
  <2> QED
    BY <1>6, <2>5, Points
<1> QED
  BY <1>5, <1>6

\* A column of single blobs is extended with proofs at its own point exactly if it is
\* the first one or held as a whole.
LEMMA ExtendedPoint ==
    ASSUME MatrixInv, \A i \in App : app_lookup[i] = 1, fetch_block_available, NEW x \in Col
    PROVE  extended_proof([y \in Row |-> fetch_block[y][x].content[3]]) = x
             <=> x = 0 \/ \A i \in App : sample_key(i, x, 0) \in DOMAIN records
<1> DEFINE col == [y \in Row |-> fetch_block[y][x].content[3]]
           held(i) == sample_key(i, x, 0) \in DOMAIN records
<1>1. \A y \in Row : col[y] = IF held(y + 1) THEN x ELSE 0
  BY FetchedPoint
<1>2. x \in Nat /\ rows \in Nat /\ rows > 0
  BY RowsNat DEF Col
<1>3. 0 \in Row
  BY <1>2 DEF Row
<1>4. (\A i \in App : held(i)) <=> \A y \in Row : held(y + 1)
  <2>1. App = 1..rows
    <3>1. Len(app_lookup) \in Nat /\ Len(app_lookup) + 1 \in 1..(Len(app_lookup) + 1)
      BY CountsAreSeqs DEF MatrixInv
    <3>2. rows = (Len(app_lookup) + 1) - 1
      BY <3>1, SingleRows DEF MatrixInv, App, rows, start_at
    <3> QED
      BY <3>1, <3>2 DEF App
  <2>2. \A i \in 1..rows : i - 1 \in Row /\ (i - 1) + 1 = i
    BY <1>2 DEF Row
  <2>3. \A y \in Row : y + 1 \in 1..rows
    BY <1>2 DEF Row
  <2> HIDE DEF held
  <2> QED
    BY <2>1, <2>2, <2>3
<1> HIDE DEF col, held
<1>5. CASE x = 0
  <2>1. \A y \in Row : col[y] = 0
    BY <1>1, <1>5
  <2> QED
    BY <1>3, <1>5, <2>1 DEF extended_proof, col
<1>6. CASE x # 0 /\ \A y \in Row : held(y + 1)
  <2>1. \A y \in Row : col[y] = x
    BY <1>1, <1>6
  <2>2. extended_proof(col) = x
    BY <1>3, <2>1 DEF extended_proof
  <2> QED
    BY <1>4, <1>6, <2>2 DEF col, held
<1>7. ASSUME x # 0, NEW y \in Row, ~held(y + 1)
      PROVE  extended_proof(col) # x /\ ~(\A i \in App : held(i))
  <2>1. col[y] = 0
    BY <1>1, <1>7
  <2>2. extended_proof(col) = x => col[0] = x /\ col[y] = col[0]
    BY <1>2 DEF extended_proof, Mixed
  <2> QED
    BY <1>4, <1>7, <2>1, <2>2
<1> QED
  BY <1>4, <1>5, <1>6, <1>7 DEF col, held

\* A step that changes a record of parity is an extension of the block.
LEMMA ParityPut ==
    ASSUME MatrixInv, [MatrixNext]_matrixVars, NEW x \in Col, NEW y \in Nat,
           sample_key_from_block(x, y) \in DOMAIN records',
           records'[sample_key_from_block(x, y)] # value(sample_key_from_block(x, y))
    PROVE  /\ fetch_block_available
           /\ records'[sample_key_from_block(x, y)] =
                 <<y, x, extended_proof([r \in Row |-> fetch_block[r][x].content[3]])>>
<1> DEFINE key == sample_key_from_block(x, y)
<1>1. \A i, u, v : key # sample_key(i, u, v)
  BY DEF sample_key, sample_key_from_block
<1>2. \A u, v : key = sample_key_from_block(u, v) => x = u /\ y = v
  BY DEF sample_key_from_block
<1>3. key \in DOMAIN records' /\ records'[key] # value(key)
  OBVIOUS
<1>4. CASE UNCHANGED matrixVars
  BY <1>3, <1>4 DEF matrixVars, value
<1>5. ASSUME NEW i \in App, put_bytes(i) PROVE FALSE
  <2> DEFINE pairs == {<<sample_key(i, u, v), segment(start_at(i) + v, u)>> :
                          u \in Col, v \in 0..(app_lookup[i] - 1)}
             keys == {p[1] : p \in pairs}
  <2>1. records' = [k \in keys \cup DOMAIN records |->
                      IF k \in keys THEN (CHOOSE p \in pairs : p[1] = k)[2] ELSE records[k]]
    BY <1>5 DEF put_bytes, put_values
  <2>2. key \notin keys
    BY <1>1
  <2> HIDE DEF keys, key, pairs
  <2> QED
    BY <1>3, <2>1, <2>2 DEF value
<1>6. ASSUME NEW k \in DOMAIN records, lose(k) PROVE FALSE
  <2> HIDE DEF key
  <2> QED
    BY <1>3, <1>6 DEF lose, value
<1>7. CASE new_best_block
  <2> DEFINE pairs == UNION {extend_segments_col(fetch_block, u) : u \in Col}
             keys == {p[1] : p \in pairs}
             at(u) == extended_proof([r \in Row |-> fetch_block[r][u].content[3]])
  <2>1. records' = [k \in keys \cup DOMAIN records |->
                      IF k \in keys THEN (CHOOSE p \in pairs : p[1] = k)[2] ELSE records[k]]
    BY <1>7 DEF new_best_block, put_values
  <2>2. ASSUME NEW p \in pairs, p[1] = key PROVE p[2] = <<y, x, at(x)>>
    <3>1. PICK u \in Col, i \in Row :
             p = <<sample_key_from_block(u, extension_row(i)), <<rows + i, u, at(u)>>>>
      BY DEF extend_segments_col
    <3> HIDE DEF at, key, pairs
    <3>2. x = u /\ y = rows + i
      BY <1>2, <2>2, <3>1 DEF extension_row
    <3> QED
      BY <3>1, <3>2
  <2> HIDE DEF pairs, at, key
  <2>3. key \in keys
    <3> HIDE DEF keys
    <3> QED
      BY <1>3, <2>1 DEF value
  <2>4. PICK q \in pairs : q[1] = key
    BY <2>3
  <2>5. LET p == CHOOSE p \in pairs : p[1] = key IN p \in pairs /\ p[1] = key
    BY <2>4
  <2>6. records'[key] = (CHOOSE p \in pairs : p[1] = key)[2]
    <3> HIDE DEF keys
    <3> QED
      BY <2>1, <2>3
  <2>7. records'[key] = <<y, x, at(x)>>
    BY <2>2, <2>5, <2>6
  <2> QED
    BY <1>7, <2>7 DEF new_best_block, at, key
<1> QED
  BY <1>4, <1>5, <1>6, <1>7 DEF MatrixNext

\* Parity that is put for a block of single blobs verifies exactly where no proof of its
\* column was made by recovery, or in the first column, however many segments a row has.
THEOREM ParityVerifies == MatrixSpec => ParityOfHeldColumnsVerifies
<1> DEFINE Right == (\A i \in App : app_lookup[i] = 1) =>
              \A x \in Col, y \in rows..(2 * rows - 1) :
                LET key == sample_key_from_block(x, y) IN
                    key \in DOMAIN records' /\ records'[key] # value(key) =>
                        (verify_values(records'[key], y, x) <=>
                            x = 0 \/ \A i \in App : sample_key(i, x, 0) \in DOMAIN records)
<1>1. MatrixInv /\ [MatrixNext]_matrixVars => [Right]_matrixVars
  <2> SUFFICES ASSUME MatrixInv, [MatrixNext]_matrixVars, \A i \in App : app_lookup[i] = 1,
                      NEW x \in Col, NEW y \in rows..(2 * rows - 1),
                      sample_key_from_block(x, y) \in DOMAIN records',
                      records'[sample_key_from_block(x, y)] # value(sample_key_from_block(x, y))
               PROVE  verify_values(records'[sample_key_from_block(x, y)], y, x) <=>
                        x = 0 \/ \A i \in App : sample_key(i, x, 0) \in DOMAIN records
    OBVIOUS
  <2> DEFINE at == extended_proof([r \in Row |-> fetch_block[r][x].content[3]])
  <2>1. y \in Nat
    BY RowsNat
  <2>2. fetch_block_available /\ records'[sample_key_from_block(x, y)] = <<y, x, at>>
    BY <2>1, ParityPut
  <2>3. segment(y, x) = <<y, x, x>>
    BY Points DEF segment
  <2>4. at = x <=> x = 0 \/ \A i \in App : sample_key(i, x, 0) \in DOMAIN records
    BY <2>2, ExtendedPoint
  <2> HIDE DEF at
  <2>5. <<y, x, at>> = <<y, x, x>> <=> at = x
    OBVIOUS
  <2> QED
    BY <2>2, <2>3, <2>4, <2>5 DEF verify_values
<1>2. MatrixSpec => []MatrixInv
  BY MatrixInitInv, MatrixStep, PTL DEF MatrixSpec
<1>3. MatrixSpec => [][Right]_matrixVars
  BY <1>1, <1>2, PTL DEF MatrixSpec
<1> QED
  BY <1>3 DEF ParityOfHeldColumnsVerifies
=============================================================================
