-------------------------- MODULE MeloStoreProofs --------------------------
(* Theorems about MeloStore, for every value of its constants. *)
EXTENDS MeloStore, SequenceTheorems, FiniteSetTheorems, TLAPS

\* The reports a block accepts change the availability flags of its blobs and
\* nothing else (report, handle_vote).
LEMMA ReportKeepsBlobs ==
    ASSUME TypeOK, NEW r \in UnavailableDataReport, report(r)
    PROVE  /\ Metadata' \in [Blocks -> Seq(BlobMetadata)]
           /\ \A b \in Blocks : /\ Len(Metadata'[b]) = Len(Metadata[b])
                                /\ b # r.at_block => Metadata'[b] = Metadata[b]
<1> DEFINE old == Metadata[r.at_block]
           new == [k \in DOMAIN old |-> IF k - 1 \in r.index_set
                                          THEN handle_vote(r, k - 1, old[k]) ELSE old[k]]
<1>1. r.at_block \in Blocks /\ old \in Seq(BlobMetadata)
  BY DEF UnavailableDataReport, TypeOK
<1>2. Metadata' = [Metadata EXCEPT ![r.at_block] = new]
  BY DEF report, report_accepted
<1>3. ASSUME NEW k \in DOMAIN old
      PROVE  new[k] \in BlobMetadata
  <2>1. old[k] \in BlobMetadata
    BY <1>1, <1>3, ElementOfSeq, LenProperties
  <2> QED
    BY <2>1 DEF handle_vote, BlobMetadata
<1>4. new \in Seq(BlobMetadata) /\ Len(new) = Len(old)
  <2>1. DOMAIN old = 1..Len(old) /\ Len(old) \in Nat
    BY <1>1, LenProperties
  <2>2. new \in [1..Len(old) -> BlobMetadata]
    BY <1>3, <2>1
  <2> QED
    BY <2>1, <2>2, IsASeq, LenProperties
<1> QED
  BY <1>1, <1>2, <1>4 DEF TypeOK

\* What Vec::remove leaves of a list: the later elements move down by one.
LEMMA RemoveAtProperties ==
    ASSUME NEW S, NEW s \in Seq(S), NEW j \in 1..Len(s)
    PROVE  /\ RemoveAt(s, j) \in Seq(S)
           /\ Len(RemoveAt(s, j)) = Len(s) - 1
           /\ \A k \in 1..(Len(s) - 1) :
                 RemoveAt(s, j)[k] = IF k < j THEN s[k] ELSE s[k + 1]
<1> DEFINE front == SubSeq(s, 1, j - 1)
           back  == SubSeq(s, j + 1, Len(s))
<1>1. Len(s) \in Nat /\ \A k \in 1..Len(s) : s[k] \in S
  BY LenProperties, ElementOfSeq
<1>2. /\ front \in Seq(S) /\ Len(front) = j - 1
      /\ \A k \in 1..(j - 1) : front[k] = s[k]
  <2>1. j - 1 \in Int /\ \A k \in 1..(j - 1) : s[k] \in S
    BY <1>1
  <2> QED
    BY <1>1, <2>1, SubSeqProperties
<1>3. /\ back \in Seq(S) /\ Len(back) = Len(s) - j
      /\ \A k \in 1..(Len(s) - j) : back[k] = s[j + k]
  <2>1. j + 1 \in Int /\ \A k \in (j + 1)..Len(s) : s[k] \in S
    BY <1>1
  <2> HIDE DEF front
  <2>2. /\ back \in Seq(S)
        /\ Len(back) = IF j + 1 <= Len(s) THEN Len(s) - (j + 1) + 1 ELSE 0
        /\ \A k \in 1..(Len(s) - (j + 1) + 1) : back[k] = s[(j + 1) + k - 1]
    BY <1>1, <2>1, SubSeqProperties
  <2> HIDE DEF back
  <2> QED
    BY <1>1, <2>2
<1>4. RemoveAt(s, j) = front \o back
  BY DEF RemoveAt
<1> HIDE DEF front, back
<1>5. /\ front \o back \in Seq(S)
      /\ Len(front \o back) = Len(front) + Len(back)
      /\ \A k \in 1..(Len(front) + Len(back)) :
            (front \o back)[k] = IF k <= Len(front) THEN front[k] ELSE back[k - Len(front)]
  BY <1>2, <1>3, ConcatProperties
<1>6. ASSUME NEW k \in 1..(Len(s) - 1)
      PROVE  (front \o back)[k] = IF k < j THEN s[k] ELSE s[k + 1]
  <2>1. (front \o back)[k] = IF k <= j - 1 THEN front[k] ELSE back[k - (j - 1)]
    BY <1>1, <1>2, <1>3, <1>5
  <2>2. CASE k < j
    BY <1>1, <1>2, <2>1, <2>2
  <2>3. CASE k >= j
    <3>1. k - (j - 1) \in 1..(Len(s) - j) /\ j + (k - (j - 1)) = k + 1
      BY <1>1, <2>3
    <3>2. (front \o back)[k] = back[k - (j - 1)]
      BY <1>1, <2>1, <2>3
    <3>3. back[k - (j - 1)] = s[j + (k - (j - 1))]
      BY <1>3, <3>1
    <3>4. ~(k < j)
      BY <1>1, <2>3
    <3> QED
      BY <3>1, <3>2, <3>3, <3>4
  <2>4. k < j \/ k >= j
    BY <1>1
  <2> QED
    BY <2>2, <2>3, <2>4
<1> QED
  BY <1>1, <1>2, <1>3, <1>4, <1>5, <1>6

LEMMA TypeInit == Init => TypeOK
<1> SUFFICES ASSUME Init PROVE TypeOK
  OBVIOUS
<1>1. Keys \in Seq(Authority)
  BY StoreAssumption DEF Init
<1>2. <<>> \in Seq(BlobMetadata) /\ Len(<<>>) = 0
  OBVIOUS
<1> QED
  BY <1>1, <1>2, StoreAssumption, LenProperties
     DEF Init, TypeOK, Blocks, Indexes, AuthIndex

LEMMA TypeStep == TypeOK /\ [Next]_storeVars => TypeOK'
<1> SUFFICES ASSUME TypeOK, [Next]_storeVars PROVE TypeOK'
  OBVIOUS
<1> USE StoreAssumption
<1>1. CASE initialize_block
  BY <1>1 DEF initialize_block, open_block, TypeOK, Blocks, blobVars, voteVars, keyVars
<1>2. ASSUME NEW keys \in SessionKeys, on_new_session(keys) PROVE TypeOK'
  <2>1. keys \in Seq(Authority) /\ Len(keys) \in Nat
    BY LenProperties
  <2>2. block_number' \in Blocks /\ keys_since' \in 0..(MaxBlock + 1)
    BY <1>2 DEF on_new_session, open_block, TypeOK, Blocks
  <2> QED
    BY <1>2, <2>1, <2>2, SMTT(30) DEF on_new_session, open_block, TypeOK, blobVars, voteVars
<1>3. ASSUME NEW p \in SidecarMetadata, submit_data(p) PROVE TypeOK'
  <2> DEFINE m == [app_id |-> p.app_id, nonce |-> p.nonce,
                   commitments |-> p.commitments, is_available |-> TRUE]
  <2>1. m \in BlobMetadata
    BY DEF SidecarMetadata, BlobMetadata
  <2>2. block_number \in Blocks /\ Metadata[block_number] \in Seq(BlobMetadata)
    BY DEF TypeOK
  <2>3. /\ Append(Metadata[block_number], m) \in Seq(BlobMetadata)
        /\ Len(Append(Metadata[block_number], m)) = Len(Metadata[block_number]) + 1
    BY <2>1, <2>2, AppendProperties
  <2>4. /\ Metadata' = [Metadata EXCEPT ![block_number] = Append(@, m)]
        /\ Len(Metadata[block_number]) < MaxKeys
    BY <1>3 DEF submit_data, try_push
  <2>5. /\ Metadata' \in [Blocks -> Seq(BlobMetadata)]
        /\ \A b \in Blocks : Len(Metadata'[b]) <= MaxKeys
    BY <2>2, <2>3, <2>4, LenProperties DEF TypeOK
  <2>6. Nonces' \in [0..MaxAppId -> 0..MaxU32]
    BY <1>3, SMTT(30) DEF submit_data, TypeOK, SidecarMetadata
  <2> QED
    BY <1>3, <2>5, <2>6 DEF submit_data, TypeOK, chainVars, voteVars, keyVars
<1>4. CASE register_app
  BY <1>4 DEF register_app, TypeOK, chainVars, voteVars, keyVars
<1>5. ASSUME NEW r \in UnavailableDataReport, report(r) PROVE TypeOK'
  <2>1. /\ r.at_block \in Blocks /\ r.authority_index \in AuthIndex
        /\ r.signer \in Authority
    BY DEF UnavailableDataReport
  <2>2. UnavailableVote' \in [Blocks -> [Indexes -> SUBSET AuthIndex]]
    BY <1>5, <2>1 DEF report, report_accepted, TypeOK
  <2>3. signers' \in [Blocks -> [Indexes -> SUBSET Authority]]
    BY <1>5, <2>1 DEF report, report_accepted, TypeOK
  <2> QED
    BY <1>5, <2>2, <2>3, ReportKeepsBlobs DEF report, report_accepted, TypeOK, chainVars, keyVars
<1>6. ASSUME NEW i \in AuthIndex, on_disabled(i) PROVE TypeOK'
  <2>1. /\ Keys \in Seq(Authority) /\ Len(Keys) \in Nat
        /\ i \in Int /\ 0 <= i /\ i < Len(Keys)
    BY <1>6, LenProperties DEF on_disabled, TypeOK, AuthIndex
  <2>2. RemoveAt(Keys, i + 1) \in Seq(Authority)
        /\ Len(RemoveAt(Keys, i + 1)) = Len(Keys) - 1
    <3>1. i + 1 \in 1..Len(Keys)
      BY <2>1
    <3> QED
      BY <2>1, <3>1, RemoveAtProperties
  <2>3. keys_since' \in 0..(MaxBlock + 1)
    BY <1>6 DEF on_disabled, TypeOK, Blocks
  <2> QED
    BY <1>6, <2>1, <2>2, <2>3 DEF on_disabled, TypeOK, chainVars, blobVars, voteVars
<1>7. CASE finalize_block
  <2>1. /\ UnavailableVote' \in [Blocks -> [Indexes -> SUBSET AuthIndex]]
        /\ signers' \in [Blocks -> [Indexes -> SUBSET Authority]]
    <3>1. CASE DELAY_CHECK_THRESHOLD + 1 >= block_number
      BY <1>7, <3>1 DEF finalize_block, on_finalize, voteVars, TypeOK
    <3>2. CASE ~(DELAY_CHECK_THRESHOLD + 1 >= block_number)
      <4>1. PICK kept \in SUBSET Indexes : clear_prefix(kept)
        BY <1>7, <3>2 DEF finalize_block, on_finalize
      <4>2. expired_block \in Blocks
        BY <3>2 DEF expired_block, DELAY_CHECK_THRESHOLD, TypeOK, Blocks
      <4> QED
        BY <4>1, <4>2 DEF clear_prefix, TypeOK
    <3> QED
      BY <3>1, <3>2
  <2>2. DOMAIN headers' = Blocks
    BY <1>7 DEF finalize_block, TypeOK
  <2> QED
    BY <1>7, <2>1, <2>2 DEF finalize_block, TypeOK, blobVars, keyVars
<1>8. CASE UNCHANGED storeVars
  BY <1>8 DEF storeVars, chainVars, blobVars, voteVars, keyVars, TypeOK
<1> QED
  BY <1>1, <1>2, <1>3, <1>4, <1>5, <1>6, <1>7, <1>8 DEF Next

\* Every state of the pallet has well-typed storage within its bounds.
THEOREM TypeCorrect == Spec => []TypeOK
BY TypeInit, TypeStep, PTL DEF Spec

-----------------------------------------------------------------------------
\* A header only depends on the metadata of the block before it.
LEMMA ExtensionDepends ==
    ASSUME TypeOK, NEW n \in Blocks,
           n > DELAY_CHECK_THRESHOLD
              => Metadata'[n - DELAY_CHECK_THRESHOLD] = Metadata[n - DELAY_CHECK_THRESHOLD]
    PROVE  HeaderExtension(n)' = HeaderExtension(n)
BY DEF HeaderExtension, DELAY_CHECK_THRESHOLD, Blocks

LEMMA HeaderInit == Init => HeaderInv
<1> SUFFICES ASSUME Init PROVE HeaderInv
  OBVIOUS
<1>1. TypeOK
  BY TypeInit
<1>2. BlobsInThePast /\ VotesOnBlobs /\ HeaderFinal /\ VotesExpire
  BY DEF Init, BlobsInThePast, VotesOnBlobs, HeaderFinal, VotesExpire, last_closed
<1> QED
  BY <1>1, <1>2 DEF HeaderInv

\* Opening a block adds nothing to it and seals nothing.
LEMMA OpenBlockInv ==
    ASSUME HeaderInv, open_block
    PROVE  BlobsInThePast' /\ VotesOnBlobs' /\ HeaderFinal' /\ VotesExpire'
<1> USE StoreAssumption DEF DELAY_CHECK_THRESHOLD
<1>1. /\ TypeOK /\ BlobsInThePast /\ VotesOnBlobs /\ HeaderFinal /\ VotesExpire
      /\ block_number' = block_number + 1 /\ block_number \in Nat
      /\ Metadata' = Metadata /\ UnavailableVote' = UnavailableVote
      /\ headers' = headers /\ phase = "closed" /\ phase' = "open"
      /\ last_closed = block_number /\ last_closed' = block_number
  BY DEF HeaderInv, open_block, blobVars, voteVars, TypeOK, Blocks, last_closed
<1>2. BlobsInThePast'
  BY <1>1 DEF BlobsInThePast, Blocks
<1>3. VotesOnBlobs'
  BY <1>1 DEF VotesOnBlobs
<1>4. HeaderFinal'
  BY <1>1, ExtensionDepends DEF HeaderFinal, TypeOK, Blocks
<1>5. VotesExpire'
  BY <1>1 DEF VotesExpire, Blocks
<1> QED
  BY <1>2, <1>3, <1>4, <1>5

LEMMA SubmitInv ==
    ASSUME HeaderInv, NEW p \in SidecarMetadata, submit_data(p)
    PROVE  BlobsInThePast' /\ VotesOnBlobs' /\ HeaderFinal' /\ VotesExpire'
<1> USE StoreAssumption DEF DELAY_CHECK_THRESHOLD
<1>1. /\ TypeOK /\ BlobsInThePast /\ VotesOnBlobs /\ HeaderFinal /\ VotesExpire
      /\ block_number' = block_number /\ block_number \in Blocks
      /\ UnavailableVote' = UnavailableVote
      /\ headers' = headers /\ phase = "open" /\ phase' = "open"
      /\ last_closed = block_number - 1 /\ last_closed' = block_number - 1
  BY DEF HeaderInv, submit_data, chainVars, voteVars, TypeOK, last_closed
<1>2. \A b \in Blocks : /\ b # block_number => Metadata'[b] = Metadata[b]
                        /\ Len(Metadata[b]) \in Nat /\ Len(Metadata'[b]) >= Len(Metadata[b])
  <2> DEFINE m == [app_id |-> p.app_id, nonce |-> p.nonce,
                   commitments |-> p.commitments, is_available |-> TRUE]
  <2>1. Metadata' = [Metadata EXCEPT ![block_number] = Append(@, m)]
    BY DEF submit_data, try_push
  <2> HIDE DEF m
  <2>2. \A b \in Blocks : Metadata[b] \in Seq(BlobMetadata) /\ Len(Metadata[b]) \in Nat
    BY <1>1, LenProperties DEF TypeOK
  <2>3. Len(Append(Metadata[block_number], m)) = Len(Metadata[block_number]) + 1
    BY <1>1, <2>2
  <2> QED
    BY <1>1, <2>1, <2>2, <2>3 DEF TypeOK
<1>3. BlobsInThePast'
  BY <1>1, <1>2 DEF BlobsInThePast, Blocks
<1>4. VotesOnBlobs'
  BY <1>1, <1>2 DEF VotesOnBlobs, Indexes
<1>5. HeaderFinal'
  BY <1>1, <1>2, ExtensionDepends DEF HeaderFinal, Blocks
<1>6. VotesExpire'
  BY <1>1, <1>2 DEF VotesExpire, Blocks
<1> QED
  BY <1>3, <1>4, <1>5, <1>6

LEMMA ReportInv ==
    ASSUME HeaderInv, NEW r \in UnavailableDataReport, report(r)
    PROVE  BlobsInThePast' /\ VotesOnBlobs' /\ HeaderFinal' /\ VotesExpire'
<1> USE StoreAssumption DEF DELAY_CHECK_THRESHOLD
<1>1. /\ TypeOK /\ BlobsInThePast /\ VotesOnBlobs /\ HeaderFinal /\ VotesExpire
      /\ block_number' = block_number /\ block_number \in Blocks
      /\ headers' = headers /\ phase = "open" /\ phase' = "open"
      /\ last_closed = block_number - 1 /\ last_closed' = block_number - 1
  BY DEF HeaderInv, report, report_accepted, chainVars, TypeOK, last_closed
<1>2. /\ r.at_block \in Blocks
      /\ r.at_block <= block_number /\ r.at_block + 1 >= block_number
      /\ \A i \in r.index_set : i < Len(Metadata[r.at_block])
  BY DEF report, report_accepted, in_report_window, vote_accepted, UnavailableDataReport
<1>3. \A b \in Blocks : /\ b # r.at_block => Metadata'[b] = Metadata[b]
                        /\ Len(Metadata[b]) \in Nat /\ Len(Metadata'[b]) = Len(Metadata[b])
                        /\ Metadata[b] = <<>> <=> Metadata'[b] = <<>>
  <2>1. \A b \in Blocks : /\ Metadata[b] \in Seq(BlobMetadata)
                          /\ Metadata'[b] \in Seq(BlobMetadata)
    BY <1>1, ReportKeepsBlobs DEF TypeOK
  <2>2. \A b \in Blocks : /\ Len(Metadata[b]) \in Nat
                          /\ Metadata[b] = <<>> <=> Len(Metadata[b]) = 0
                          /\ Metadata'[b] = <<>> <=> Len(Metadata'[b]) = 0
    BY <2>1, LenProperties, EmptySeq
  <2> QED
    BY <1>1, <2>2, ReportKeepsBlobs
<1>4. \A b \in Blocks, i \in Indexes :
         UnavailableVote'[b][i] # {} =>
            UnavailableVote[b][i] # {} \/ (b = r.at_block /\ i \in r.index_set)
  BY <1>1, <1>2 DEF report, report_accepted, TypeOK
<1>5. BlobsInThePast'
  BY <1>1, <1>3 DEF BlobsInThePast, Blocks
<1>6. VotesOnBlobs'
  BY <1>1, <1>2, <1>3, <1>4 DEF VotesOnBlobs
<1>7. HeaderFinal'
  BY <1>1, <1>2, <1>3, ExtensionDepends DEF HeaderFinal, Blocks
<1>8. VotesExpire'
  <2>1. ASSUME NEW b \in Blocks, NEW i \in Indexes,
               UnavailableVote'[b][i] # {}, Len(Metadata'[b]) <= MaxBlobNum
        PROVE  b <= block_number /\ b >= block_number - 1 - 1
    <3>1. CASE UnavailableVote[b][i] # {}
      BY <1>1, <1>3, <2>1, <3>1 DEF VotesExpire
    <3>2. CASE b = r.at_block
      BY <1>1, <1>2, <3>2 DEF Blocks
    <3> QED
      BY <1>4, <2>1, <3>1, <3>2
  <2> QED
    BY <1>1, <2>1 DEF VotesExpire
<1> QED
  BY <1>5, <1>6, <1>7, <1>8

\* When the block has no more blobs than clear_prefix removes, nothing is kept.
LEMMA NothingKept ==
    ASSUME HeaderInv, expired_block \in Blocks,
           Len(Metadata[expired_block]) <= MaxBlobNum,
           NEW kept \in SUBSET Indexes, clear_prefix(kept)
    PROVE  kept = {}
<1> USE StoreAssumption
<1> DEFINE n == Len(Metadata[expired_block])
           votes == {i \in Indexes : UnavailableVote[expired_block][i] # {}}
<1>1. n \in Nat
  BY LenProperties DEF HeaderInv, TypeOK
<1>2. votes \in SUBSET (0..(n - 1))
  BY <1>1 DEF HeaderInv, VotesOnBlobs, Indexes
<1>3. IsFiniteSet(0..(n - 1)) /\ Cardinality(0..(n - 1)) <= n
  <2> HIDE DEF n
  <2>1. 0 \in Int /\ n - 1 \in Int
    BY <1>1
  <2>2. /\ IsFiniteSet(0..(n - 1))
        /\ Cardinality(0..(n - 1)) = IF 0 > n - 1 THEN 0 ELSE n - 1 - 0 + 1
    BY <2>1, FS_Interval
  <2> QED
    BY <1>1, <2>2
<1>4. IsFiniteSet(votes) /\ Cardinality(votes) \in Nat /\ Cardinality(votes) <= n
  BY <1>1, <1>2, <1>3, FS_Subset, FS_CardinalityType
<1>5. kept \in SUBSET votes /\ Cardinality(kept) = 0
  BY <1>1, <1>4 DEF clear_prefix
<1> QED
  BY <1>4, <1>5, FS_Subset, FS_EmptySet

LEMMA FinalizeInv ==
    ASSUME HeaderInv, finalize_block
    PROVE  BlobsInThePast' /\ VotesOnBlobs' /\ HeaderFinal' /\ VotesExpire'
<1> USE StoreAssumption DEF DELAY_CHECK_THRESHOLD
<1>1. /\ TypeOK /\ BlobsInThePast /\ VotesOnBlobs /\ HeaderFinal /\ VotesExpire
      /\ block_number' = block_number /\ block_number \in Blocks /\ block_number > 0
      /\ Metadata' = Metadata
      /\ headers' = [headers EXCEPT ![block_number] = HeaderExtension(block_number)]
      /\ phase = "open" /\ phase' = "closed"
      /\ last_closed = block_number - 1 /\ last_closed' = block_number
  BY DEF HeaderInv, finalize_block, last, blobVars, TypeOK, last_closed, BlobsInThePast
<1>2. /\ \A b \in Blocks, i \in Indexes :
            UnavailableVote'[b][i] # {} => UnavailableVote[b][i] # {}
      /\ \A b \in Blocks, i \in Indexes :
            /\ b = block_number - 2
            /\ Len(Metadata[b]) <= MaxBlobNum
            => UnavailableVote'[b][i] = {}
  <2>1. CASE 2 >= block_number
    <3>1. UnavailableVote' = UnavailableVote
      BY <2>1 DEF finalize_block, on_finalize, voteVars
    <3>2. ASSUME NEW b \in Blocks, NEW i \in Indexes, b = block_number - 2
          PROVE  UnavailableVote[b][i] = {}
      <4>1. Metadata[b] = <<>>
        BY <1>1, <2>1, <3>2 DEF BlobsInThePast, Blocks
      <4>2. ~(i < Len(Metadata[b]))
        BY <4>1 DEF Indexes
      <4> QED
        BY <1>1, <4>2 DEF VotesOnBlobs
    <3> QED
      BY <3>1, <3>2
  <2>2. CASE ~(2 >= block_number)
    <3>1. PICK kept \in SUBSET Indexes : clear_prefix(kept)
      BY <2>2 DEF finalize_block, on_finalize
    <3>2. expired_block = block_number - 2 /\ expired_block \in Blocks
      BY <1>1, <2>2 DEF expired_block, Blocks
    <3>3. UnavailableVote' = [UnavailableVote EXCEPT ![expired_block] =
              [i \in Indexes |-> IF i \in kept THEN @[i] ELSE {}]]
      BY <3>1 DEF clear_prefix
    <3>4. Len(Metadata[expired_block]) <= MaxBlobNum => kept = {}
      BY <3>1, <3>2, NothingKept
    <3> QED
      BY <1>1, <3>2, <3>3, <3>4 DEF TypeOK
  <2> QED
    BY <2>1, <2>2
<1>3. BlobsInThePast'
  BY <1>1 DEF BlobsInThePast
<1>4. VotesOnBlobs'
  BY <1>1, <1>2 DEF VotesOnBlobs
<1>5. HeaderFinal'
  BY <1>1, ExtensionDepends DEF HeaderFinal, TypeOK, Blocks
<1>6. VotesExpire'
  BY <1>1, <1>2 DEF VotesExpire, Blocks
<1> QED
  BY <1>3, <1>4, <1>5, <1>6

LEMMA HeaderStep == HeaderInv /\ [Next]_storeVars => HeaderInv'
<1> SUFFICES ASSUME HeaderInv, [Next]_storeVars PROVE HeaderInv'
  OBVIOUS
<1> DEFINE Goal == BlobsInThePast' /\ VotesOnBlobs' /\ HeaderFinal' /\ VotesExpire'
<1>1. TypeOK'
  BY TypeStep DEF HeaderInv
<1>2. ASSUME open_block PROVE Goal
  BY <1>2, OpenBlockInv
<1>3. ASSUME UNCHANGED <<block_number, phase, headers, Metadata, UnavailableVote>>
      PROVE  Goal
  <2>1. \A n \in Blocks : HeaderExtension(n)' = HeaderExtension(n)
    BY <1>3, ExtensionDepends DEF HeaderInv
  <2>2. BlobsInThePast' /\ VotesOnBlobs' /\ VotesExpire'
    BY <1>3 DEF HeaderInv, BlobsInThePast, VotesOnBlobs, VotesExpire, last_closed
  <2>3. HeaderFinal'
    BY <1>3, <2>1, StoreAssumption
       DEF HeaderInv, HeaderFinal, last_closed, TypeOK, Blocks
  <2> QED
    BY <2>2, <2>3
<1>4. ASSUME initialize_block PROVE Goal
  BY <1>2, <1>4 DEF initialize_block
<1>5. ASSUME NEW keys \in SessionKeys, on_new_session(keys) PROVE Goal
  BY <1>2, <1>5 DEF on_new_session
<1>6. ASSUME NEW p \in SidecarMetadata, submit_data(p) PROVE Goal
  BY <1>6, SubmitInv
<1>7. ASSUME register_app PROVE Goal
  BY <1>3, <1>7 DEF register_app, chainVars, voteVars
<1>8. ASSUME NEW r \in UnavailableDataReport, report(r) PROVE Goal
  BY <1>8, ReportInv
<1>9. ASSUME NEW i \in AuthIndex, on_disabled(i) PROVE Goal
  BY <1>3, <1>9 DEF on_disabled, chainVars, blobVars, voteVars
<1>10. ASSUME finalize_block PROVE Goal
  BY <1>10, FinalizeInv
<1>11. ASSUME UNCHANGED storeVars PROVE Goal
  BY <1>3, <1>11 DEF storeVars, chainVars, blobVars, voteVars
<1>12. Goal
  BY <1>4, <1>5, <1>6, <1>7, <1>8, <1>9, <1>10, <1>11 DEF Next
<1> QED
  BY <1>1, <1>12 DEF HeaderInv

\* A sealed header never disagrees with the blobs that are available in the
\* block it commits to: report's window closes before last() reads the block.
THEOREM HeadersAreFinal == Spec => []HeaderFinal
<1>1. HeaderInv => HeaderFinal
  BY DEF HeaderInv
<1> QED
  BY <1>1, HeaderInit, HeaderStep, PTL DEF Spec

\* The votes on a block outlive its report window only when the block has more
\* blobs than on_finalize removes in one go.
THEOREM VotesAreCleared == Spec => []VotesExpire
<1>1. HeaderInv => VotesExpire
  BY DEF HeaderInv
<1> QED
  BY <1>1, HeaderInit, HeaderStep, PTL DEF Spec

-----------------------------------------------------------------------------
(* Majorities *)

\* Where reports are still open and saw one list of keys, votes and signers grow
\* together.
Counted(b) == in_report_window(b) /\ b >= keys_since

\* Each signer's key stands at a position that voted, and there are as many of the
\* ones as of the others.
VotesSigned ==
    \A b \in Blocks, i \in Indexes : Counted(b) =>
        /\ \A s \in signers[b][i] : \E a \in UnavailableVote[b][i] :
              a < Len(Keys) /\ Keys[a + 1] = s
        /\ Cardinality(signers[b][i]) = Cardinality(UnavailableVote[b][i])

\* The flag of a blob follows the number of positions that voted.
FlagsFollowVotes ==
    \A b \in Blocks : Counted(b) =>
        \A k \in DOMAIN Metadata[b] :
            ~Metadata[b][k].is_available
                <=> Cardinality(UnavailableVote[b][k - 1]) > Len(Keys) \div 2

NoSignersWithoutVotes ==
    \A b \in Blocks, i \in Indexes : UnavailableVote[b][i] = {} => signers[b][i] = {}

MajorityInv ==
    /\ HeaderInv
    /\ IsInjective(Keys)
    /\ NoSignersWithoutVotes
    /\ VotesSigned
    /\ FlagsFollowVotes

LEMMA FiniteVotes ==
    ASSUME TypeOK, NEW b \in Blocks, NEW i \in Indexes
    PROVE  /\ IsFiniteSet(UnavailableVote[b][i]) /\ IsFiniteSet(signers[b][i])
           /\ Cardinality(UnavailableVote[b][i]) \in Nat
<1>1. UnavailableVote[b][i] \in SUBSET AuthIndex /\ signers[b][i] \in SUBSET Authority
  BY DEF TypeOK
<1>2. Cardinality(Authority) \in Nat
  BY StoreAssumption, FS_CardinalityType
<1>3. IsFiniteSet(AuthIndex)
  BY <1>2, FS_Interval DEF AuthIndex
<1> QED
  BY <1>1, <1>3, StoreAssumption, FS_Subset, FS_CardinalityType

LEMMA MajorityInit == Init => MajorityInv
<1> SUFFICES ASSUME Init PROVE MajorityInv
  OBVIOUS
<1>1. HeaderInv
  BY HeaderInit
<1>2. IsInjective(Keys) /\ NoSignersWithoutVotes
  BY StoreAssumption DEF Init, NoSignersWithoutVotes
<1>3. VotesSigned
  BY DEF Init, VotesSigned
<1>4. FlagsFollowVotes
  BY DEF Init, FlagsFollowVotes
<1> QED
  BY <1>1, <1>2, <1>3, <1>4 DEF MajorityInv

\* Opening a block: the block that enters the window has neither blobs nor votes.
LEMMA OpenMajority ==
    ASSUME MajorityInv, open_block,
           \/ Keys' = Keys /\ keys_since' = keys_since
           \/ IsInjective(Keys') /\ keys_since' = block_number'
    PROVE  IsInjective(Keys') /\ NoSignersWithoutVotes' /\ VotesSigned' /\ FlagsFollowVotes'
<1> USE StoreAssumption DEF DELAY_CHECK_THRESHOLD
<1>1. /\ TypeOK /\ BlobsInThePast /\ VotesOnBlobs /\ NoSignersWithoutVotes
      /\ VotesSigned /\ FlagsFollowVotes /\ IsInjective(Keys)
      /\ block_number' = block_number + 1 /\ block_number \in Nat
      /\ Metadata' = Metadata /\ UnavailableVote' = UnavailableVote /\ signers' = signers
  BY DEF MajorityInv, HeaderInv, open_block, blobVars, voteVars, TypeOK, Blocks
<1>2. ASSUME NEW b \in Blocks, b = block_number'
      PROVE  Metadata[b] = <<>> /\ \A i \in Indexes : UnavailableVote[b][i] = {} /\ signers[b][i] = {}
  <2>1. Metadata[b] = <<>>
    BY <1>1, <1>2 DEF BlobsInThePast
  <2>2. \A i \in Indexes : UnavailableVote[b][i] = {}
    BY <1>1, <2>1 DEF VotesOnBlobs, Indexes
  <2> QED
    BY <1>1, <2>1, <2>2 DEF NoSignersWithoutVotes
<1>3. ASSUME NEW b \in Blocks, Counted(b)', b # block_number'
      PROVE  Counted(b) /\ Keys' = Keys
  BY <1>1, <1>3 DEF Counted, in_report_window, Blocks, TypeOK
<1>4. VotesSigned'
  <2>1. ASSUME NEW b \in Blocks, NEW i \in Indexes, Counted(b)'
        PROVE  /\ \A s \in signers[b][i] : \E a \in UnavailableVote[b][i] :
                    a < Len(Keys') /\ Keys'[a + 1] = s
               /\ Cardinality(signers[b][i]) = Cardinality(UnavailableVote[b][i])
    <3>1. CASE b = block_number'
      BY <1>2, <3>1
    <3>2. CASE b # block_number'
      BY <1>1, <1>3, <2>1, <3>2 DEF VotesSigned
    <3> QED
      BY <3>1, <3>2
  <2> QED
    BY <1>1, <2>1 DEF VotesSigned
<1>5. FlagsFollowVotes'
  BY <1>1, <1>2, <1>3 DEF FlagsFollowVotes
<1> QED
  BY <1>1, <1>4, <1>5 DEF NoSignersWithoutVotes

\* A new blob is available and has no votes.
LEMMA SubmitMajority ==
    ASSUME MajorityInv, NEW p \in SidecarMetadata, submit_data(p)
    PROVE  IsInjective(Keys') /\ NoSignersWithoutVotes' /\ VotesSigned' /\ FlagsFollowVotes'
<1> USE StoreAssumption
<1>1. /\ TypeOK /\ VotesOnBlobs /\ NoSignersWithoutVotes
      /\ VotesSigned /\ FlagsFollowVotes /\ IsInjective(Keys)
      /\ block_number' = block_number /\ block_number \in Blocks
      /\ UnavailableVote' = UnavailableVote /\ signers' = signers
      /\ Keys' = Keys /\ keys_since' = keys_since
  BY DEF MajorityInv, HeaderInv, submit_data, chainVars, voteVars, keyVars, TypeOK
<1>2. \A b \in Blocks : Counted(b)' <=> Counted(b)
  BY <1>1 DEF Counted, in_report_window
<1> DEFINE m == [app_id |-> p.app_id, nonce |-> p.nonce,
                 commitments |-> p.commitments, is_available |-> TRUE]
           old == Metadata[block_number]
<1>3. /\ Metadata' = [Metadata EXCEPT ![block_number] = Append(@, m)]
      /\ Len(old) < MaxKeys /\ m.is_available
  BY DEF submit_data, try_push
<1> HIDE DEF m
<1>4. old \in Seq(BlobMetadata) /\ Len(old) \in Nat /\ DOMAIN old = 1..Len(old)
  BY <1>1, LenProperties DEF TypeOK
<1>5. /\ DOMAIN Append(old, m) = 1..(Len(old) + 1)
      /\ Append(old, m)[Len(old) + 1] = m
      /\ \A k \in 1..Len(old) : Append(old, m)[k] = old[k]
  BY <1>4
<1>6. UnavailableVote[block_number][Len(old)] = {}
  BY <1>1, <1>3, <1>4 DEF VotesOnBlobs, Indexes
<1>7. ~(Cardinality(UnavailableVote[block_number][Len(old)]) > Len(Keys) \div 2)
  <2>1. Len(Keys) \in Nat
    BY <1>1, LenProperties DEF TypeOK
  <2>2. Cardinality({}) = 0
    BY FS_EmptySet
  <2> QED
    BY <1>6, <2>1, <2>2
<1>8. ASSUME NEW b \in Blocks, Counted(b), NEW k \in DOMAIN Metadata'[b]
      PROVE  ~Metadata'[b][k].is_available
                <=> Cardinality(UnavailableVote[b][k - 1]) > Len(Keys) \div 2
  <2>1. CASE b # block_number
    BY <1>1, <1>3, <1>8, <2>1 DEF FlagsFollowVotes, TypeOK
  <2>2. ASSUME b = block_number, k \in 1..Len(old) PROVE Metadata'[b][k] = old[k] /\ k \in DOMAIN old
    BY <1>1, <1>3, <1>4, <1>5, <2>2 DEF TypeOK
  <2>3. ASSUME b = block_number, k = Len(old) + 1
        PROVE  Metadata'[b][k] = m /\ k - 1 = Len(old)
    BY <1>1, <1>3, <1>4, <1>5, <2>3 DEF TypeOK
  <2>4. b = block_number => k \in 1..Len(old) \/ k = Len(old) + 1
    BY <1>1, <1>3, <1>4, <1>5, <1>8 DEF TypeOK
  <2>5. CASE b = block_number /\ k \in 1..Len(old)
    BY <1>1, <1>8, <2>2, <2>5 DEF FlagsFollowVotes
  <2>6. CASE b = block_number /\ k = Len(old) + 1
    BY <1>3, <1>7, <2>3, <2>6
  <2> QED
    BY <2>1, <2>4, <2>5, <2>6
<1>9. FlagsFollowVotes'
  BY <1>1, <1>2, <1>8 DEF FlagsFollowVotes
<1>10. VotesSigned' /\ NoSignersWithoutVotes'
  BY <1>1, <1>2 DEF VotesSigned, NoSignersWithoutVotes
<1> QED
  BY <1>1, <1>9, <1>10

\* A report adds one position and one key to each blob it names, both new, and sets
\* the flag when they are more than half.
LEMMA ReportMajority ==
    ASSUME MajorityInv, NEW r \in UnavailableDataReport, report(r)
    PROVE  IsInjective(Keys') /\ NoSignersWithoutVotes' /\ VotesSigned' /\ FlagsFollowVotes'
<1> DEFINE now == r.at_block
           idx == r.authority_index
<1>1. /\ TypeOK /\ NoSignersWithoutVotes /\ VotesSigned /\ FlagsFollowVotes
      /\ IsInjective(Keys) /\ Keys \in Seq(Authority) /\ Len(Keys) \in Nat
      /\ DOMAIN Keys = 1..Len(Keys)
      /\ block_number' = block_number /\ Keys' = Keys /\ keys_since' = keys_since
  BY LenProperties DEF MajorityInv, HeaderInv, report, chainVars, keyVars, TypeOK
<1>2. \A b \in Blocks : Counted(b)' <=> Counted(b)
  BY <1>1 DEF Counted, in_report_window
<1>3. /\ now \in Blocks /\ idx \in Nat /\ idx < Len(Keys) /\ Keys[idx + 1] = r.signer
      /\ \A i \in r.index_set : idx \notin UnavailableVote[now][i]
      /\ r.index_set \subseteq Indexes
  BY DEF report, report_accepted, validate_unsigned, vote_accepted, UnavailableDataReport,
         AuthIndex
<1>4. \A b \in Blocks, i \in Indexes :
        /\ UnavailableVote'[b][i] = IF b = now /\ i \in r.index_set
                                      THEN UnavailableVote[b][i] \cup {idx}
                                      ELSE UnavailableVote[b][i]
        /\ signers'[b][i] = IF b = now /\ i \in r.index_set
                              THEN signers[b][i] \cup {r.signer} ELSE signers[b][i]
  BY <1>1, <1>3 DEF report, TypeOK
<1> HIDE DEF now, idx
<1>5. NoSignersWithoutVotes'
  BY <1>1, <1>4, ZenonT(30) DEF NoSignersWithoutVotes
<1>6. ASSUME NEW b \in Blocks, NEW i \in Indexes, Counted(b), b = now, i \in r.index_set
      PROVE  /\ \A s \in signers'[b][i] : \E a \in UnavailableVote'[b][i] :
                  a < Len(Keys) /\ Keys[a + 1] = s
             /\ Cardinality(signers'[b][i]) = Cardinality(UnavailableVote'[b][i])
             /\ Cardinality(UnavailableVote'[b][i]) = Cardinality(UnavailableVote[b][i]) + 1
  <2>1. /\ UnavailableVote'[b][i] = UnavailableVote[b][i] \cup {idx}
        /\ signers'[b][i] = signers[b][i] \cup {r.signer}
        /\ idx \notin UnavailableVote[b][i]
    BY <1>3, <1>4, <1>6
  <2>2. /\ \A s \in signers[b][i] : \E a \in UnavailableVote[b][i] :
              a < Len(Keys) /\ Keys[a + 1] = s
        /\ Cardinality(signers[b][i]) = Cardinality(UnavailableVote[b][i])
    BY <1>1, <1>6 DEF VotesSigned
  <2>3. r.signer \notin signers[b][i]
    <3>1. SUFFICES ASSUME NEW a \in UnavailableVote[b][i], a < Len(Keys), Keys[a + 1] = r.signer
                   PROVE  FALSE
      BY <2>2
    <3>2. a \in Nat
      BY <1>1 DEF TypeOK, AuthIndex
    <3>3. a + 1 \in DOMAIN Keys /\ idx + 1 \in DOMAIN Keys /\ Keys[a + 1] = Keys[idx + 1]
      BY <1>1, <1>3, <3>1, <3>2
    <3>4. a + 1 = idx + 1
      BY <1>1, <3>3 DEF IsInjective
    <3> QED
      BY <1>3, <2>1, <3>2, <3>4
  <2>4. IsFiniteSet(UnavailableVote[b][i]) /\ IsFiniteSet(signers[b][i])
    BY <1>1, FiniteVotes
  <2>5. /\ Cardinality(UnavailableVote[b][i] \cup {idx}) = Cardinality(UnavailableVote[b][i]) + 1
        /\ Cardinality(signers[b][i] \cup {r.signer}) = Cardinality(signers[b][i]) + 1
    BY <2>1, <2>3, <2>4, FS_AddElement
  <2> QED
    BY <1>3, <2>1, <2>2, <2>5
<1>7. VotesSigned'
  <2>1. ASSUME NEW b \in Blocks, NEW i \in Indexes, Counted(b)
        PROVE  /\ \A s \in signers'[b][i] : \E a \in UnavailableVote'[b][i] :
                    a < Len(Keys) /\ Keys[a + 1] = s
               /\ Cardinality(signers'[b][i]) = Cardinality(UnavailableVote'[b][i])
    <3>1. CASE b = now /\ i \in r.index_set
      BY <1>6, <2>1, <3>1
    <3>2. CASE ~(b = now /\ i \in r.index_set)
      <4>1. UnavailableVote'[b][i] = UnavailableVote[b][i] /\ signers'[b][i] = signers[b][i]
        BY <1>4, <3>2
      <4> QED
        BY <1>1, <2>1, <4>1 DEF VotesSigned
    <3> QED
      BY <3>1, <3>2
  <2> QED
    BY <1>1, <1>2, <2>1 DEF VotesSigned
<1>8. FlagsFollowVotes'
  <2>1. ASSUME NEW b \in Blocks, Counted(b), NEW k \in DOMAIN Metadata'[b]
        PROVE  ~Metadata'[b][k].is_available
                  <=> Cardinality(UnavailableVote'[b][k - 1]) > Len(Keys) \div 2
    <3>1. /\ Metadata[b] \in Seq(BlobMetadata) /\ Len(Metadata[b]) \in Nat
          /\ Len(Metadata[b]) <= MaxKeys /\ DOMAIN Metadata[b] = 1..Len(Metadata[b])
      BY <1>1, LenProperties DEF TypeOK
    <3>2. DOMAIN Metadata'[b] = DOMAIN Metadata[b]
      BY <1>1, <3>1, ReportKeepsBlobs, LenProperties
    <3>3. k \in Nat /\ k - 1 \in Indexes /\ k \in DOMAIN Metadata[b]
          /\ Metadata[b][k] \in BlobMetadata
      BY <2>1, <3>1, <3>2, ElementOfSeq, StoreAssumption DEF Indexes
    <3>4. ~Metadata[b][k].is_available
             <=> Cardinality(UnavailableVote[b][k - 1]) > Len(Keys) \div 2
      BY <1>1, <2>1, <3>3 DEF FlagsFollowVotes
    <3>5. ASSUME b = now, k - 1 \in r.index_set
          PROVE  Metadata'[b][k] = IF Cardinality(UnavailableVote[b][k - 1]) + 1 > Len(Keys) \div 2
                                     THEN [Metadata[b][k] EXCEPT !.is_available = FALSE]
                                     ELSE Metadata[b][k]
      BY <1>1, <1>3, <3>3, <3>5 DEF report, handle_vote, exceeds_threshold, TypeOK, now
    <3>6. ASSUME ~(b = now /\ k - 1 \in r.index_set)
          PROVE  Metadata'[b][k] = Metadata[b][k]
      BY <1>1, <1>3, <3>3, <3>6 DEF report, TypeOK, now
    <3>7. CASE b = now /\ k - 1 \in r.index_set
      <4>1. Cardinality(UnavailableVote'[b][k - 1]) = Cardinality(UnavailableVote[b][k - 1]) + 1
            /\ Cardinality(UnavailableVote[b][k - 1]) \in Nat /\ Len(Keys) \div 2 \in Nat
        BY <1>1, <1>6, <2>1, <3>3, <3>7, FiniteVotes
      <4>2. CASE Cardinality(UnavailableVote[b][k - 1]) + 1 > Len(Keys) \div 2
        <5>1. Metadata'[b][k].is_available = FALSE
          BY <3>3, <3>5, <3>7, <4>2 DEF BlobMetadata
        <5> QED
          BY <4>1, <4>2, <5>1
      <4>3. CASE ~(Cardinality(UnavailableVote[b][k - 1]) + 1 > Len(Keys) \div 2)
        <5>1. Metadata'[b][k] = Metadata[b][k]
          BY <3>5, <3>7, <4>3
        <5>2. ~(Cardinality(UnavailableVote[b][k - 1]) > Len(Keys) \div 2)
          BY <4>1, <4>3
        <5> QED
          BY <3>4, <4>1, <4>3, <5>1, <5>2
      <4> QED
        BY <4>2, <4>3
    <3>8. CASE ~(b = now /\ k - 1 \in r.index_set)
      <4>1. UnavailableVote'[b][k - 1] = UnavailableVote[b][k - 1]
        BY <1>4, <3>3, <3>8
      <4> QED
        BY <3>4, <3>6, <3>8, <4>1
    <3> QED
      BY <3>7, <3>8
  <2> QED
    BY <1>1, <1>2, <2>1 DEF FlagsFollowVotes
<1> QED
  BY <1>1, <1>5, <1>7, <1>8

\* Removing a key leaves no block of the window with its keys unchanged.
LEMMA DisableMajority ==
    ASSUME MajorityInv, NEW i \in AuthIndex, on_disabled(i)
    PROVE  IsInjective(Keys') /\ NoSignersWithoutVotes' /\ VotesSigned' /\ FlagsFollowVotes'
<1>1. /\ TypeOK /\ NoSignersWithoutVotes /\ IsInjective(Keys)
      /\ Keys \in Seq(Authority) /\ Len(Keys) \in Nat /\ DOMAIN Keys = 1..Len(Keys)
      /\ block_number' = block_number /\ block_number \in Nat
      /\ keys_since' = block_number + 1
      /\ UnavailableVote' = UnavailableVote /\ signers' = signers
  BY LenProperties, StoreAssumption
     DEF MajorityInv, HeaderInv, on_disabled, chainVars, voteVars, TypeOK, Blocks
<1>2. \A b \in Blocks : ~Counted(b)'
  BY <1>1, StoreAssumption DEF Counted, in_report_window, Blocks
<1>3. IsInjective(Keys')
  <2>1. i + 1 \in 1..Len(Keys) /\ i \in Nat
    BY <1>1, StoreAssumption, FS_CardinalityType DEF on_disabled, AuthIndex
  <2>2. /\ Keys' \in Seq(Authority) /\ Len(Keys') = Len(Keys) - 1
        /\ \A k \in 1..(Len(Keys) - 1) :
              Keys'[k] = IF k < i + 1 THEN Keys[k] ELSE Keys[k + 1]
    BY <1>1, <2>1, RemoveAtProperties DEF on_disabled
  <2>3. DOMAIN Keys' = 1..(Len(Keys) - 1)
    BY <2>2, LenProperties
  <2>4. ASSUME NEW x \in 1..(Len(Keys) - 1), NEW y \in 1..(Len(Keys) - 1), Keys'[x] = Keys'[y]
        PROVE  x = y
    <3> DEFINE at(k) == IF k < i + 1 THEN k ELSE k + 1
    <3>1. at(x) \in DOMAIN Keys /\ at(y) \in DOMAIN Keys
      BY <1>1, <2>1
    <3>2. Keys[at(x)] = Keys[at(y)]
      BY <2>2, <2>4
    <3>3. at(x) = at(y)
      BY <1>1, <3>1, <3>2 DEF IsInjective
    <3> QED
      BY <1>1, <2>1, <3>3
  <2> QED
    BY <2>3, <2>4 DEF IsInjective
<1> QED
  BY <1>1, <1>2, <1>3 DEF NoSignersWithoutVotes, VotesSigned, FlagsFollowVotes

\* What on_finalize clears is no longer in the window.
LEMMA FinalizeMajority ==
    ASSUME MajorityInv, finalize_block
    PROVE  IsInjective(Keys') /\ NoSignersWithoutVotes' /\ VotesSigned' /\ FlagsFollowVotes'
<1> USE StoreAssumption DEF DELAY_CHECK_THRESHOLD
<1>1. /\ TypeOK /\ NoSignersWithoutVotes /\ VotesSigned /\ FlagsFollowVotes
      /\ IsInjective(Keys) /\ block_number' = block_number /\ block_number \in Nat
      /\ Keys' = Keys /\ keys_since' = keys_since /\ Metadata' = Metadata
  BY DEF MajorityInv, HeaderInv, finalize_block, blobVars, keyVars, TypeOK, Blocks
<1>2. \A b \in Blocks : Counted(b)' <=> Counted(b)
  BY <1>1 DEF Counted, in_report_window
<1>3. /\ \A b \in Blocks : b # block_number - 2 =>
            UnavailableVote'[b] = UnavailableVote[b] /\ signers'[b] = signers[b]
      /\ NoSignersWithoutVotes'
  <2>1. CASE 2 >= block_number
    BY <1>1, <2>1 DEF finalize_block, on_finalize, voteVars, NoSignersWithoutVotes
  <2>2. CASE ~(2 >= block_number)
    <3>1. PICK kept \in SUBSET Indexes : clear_prefix(kept)
      BY <2>2 DEF finalize_block, on_finalize
    <3>2. expired_block = block_number - 2 /\ expired_block \in Blocks
      BY <1>1, <2>2 DEF expired_block, TypeOK, Blocks
    <3>3. /\ UnavailableVote' = [UnavailableVote EXCEPT ![expired_block] =
                [i \in Indexes |-> IF i \in kept THEN @[i] ELSE {}]]
          /\ signers' = [signers EXCEPT ![expired_block] =
                [i \in Indexes |-> IF i \in kept THEN @[i] ELSE {}]]
      BY <3>1 DEF clear_prefix
    <3> QED
      BY <1>1, <3>2, <3>3 DEF TypeOK, NoSignersWithoutVotes
  <2> QED
    BY <2>1, <2>2
<1>4. \A b \in Blocks : Counted(b) => b # block_number - 2
  BY <1>1 DEF Counted, in_report_window, Blocks
<1>5. VotesSigned'
  <2>1. ASSUME NEW b \in Blocks, NEW i \in Indexes, Counted(b)
        PROVE  /\ \A s \in signers'[b][i] : \E a \in UnavailableVote'[b][i] :
                    a < Len(Keys) /\ Keys[a + 1] = s
               /\ Cardinality(signers'[b][i]) = Cardinality(UnavailableVote'[b][i])
    <3>1. UnavailableVote'[b][i] = UnavailableVote[b][i] /\ signers'[b][i] = signers[b][i]
      BY <1>3, <1>4, <2>1
    <3> QED
      BY <1>1, <2>1, <3>1 DEF VotesSigned
  <2> QED
    BY <1>1, <1>2, <2>1 DEF VotesSigned
<1>6. FlagsFollowVotes'
  BY <1>1, <1>2, <1>3, <1>4 DEF FlagsFollowVotes
<1> QED
  BY <1>1, <1>3, <1>5, <1>6

LEMMA MajorityStep == MajorityInv /\ [Next]_storeVars => MajorityInv'
<1> SUFFICES ASSUME MajorityInv, [Next]_storeVars PROVE MajorityInv'
  OBVIOUS
<1> DEFINE Goal == IsInjective(Keys') /\ NoSignersWithoutVotes' /\ VotesSigned' /\ FlagsFollowVotes'
<1>1. HeaderInv'
  BY HeaderStep DEF MajorityInv
<1>2. ASSUME UNCHANGED <<block_number, Metadata, UnavailableVote, Keys, signers, keys_since>>
      PROVE  Goal
  BY <1>2 DEF MajorityInv, NoSignersWithoutVotes, VotesSigned, FlagsFollowVotes, Counted,
              in_report_window
<1>3. ASSUME initialize_block PROVE Goal
  BY <1>3, OpenMajority DEF initialize_block, keyVars
<1>4. ASSUME NEW keys \in SessionKeys, on_new_session(keys) PROVE Goal
  BY <1>4, OpenMajority, StoreAssumption DEF on_new_session
<1>5. ASSUME NEW p \in SidecarMetadata, submit_data(p) PROVE Goal
  BY <1>5, SubmitMajority
<1>6. ASSUME register_app PROVE Goal
  BY <1>2, <1>6 DEF register_app, chainVars, voteVars, keyVars
<1>7. ASSUME NEW r \in UnavailableDataReport, report(r) PROVE Goal
  BY <1>7, ReportMajority
<1>8. ASSUME NEW i \in AuthIndex, on_disabled(i) PROVE Goal
  BY <1>8, DisableMajority
<1>9. ASSUME finalize_block PROVE Goal
  BY <1>9, FinalizeMajority
<1>10. ASSUME UNCHANGED storeVars PROVE Goal
  BY <1>2, <1>10 DEF storeVars, chainVars, blobVars, voteVars, keyVars
<1>11. Goal
  BY <1>3, <1>4, <1>5, <1>6, <1>7, <1>8, <1>9, <1>10 DEF Next
<1> QED
  BY <1>1, <1>11 DEF MajorityInv

LEMMA MajorityFollows == MajorityInv => MajorityBacked
<1> SUFFICES ASSUME MajorityInv, NEW b \in Blocks, in_report_window(b), b >= keys_since,
                    NEW k \in DOMAIN Metadata[b]
             PROVE  ~Metadata[b][k].is_available
                       <=> 2 * Cardinality(signers[b][k - 1] \cap ToSet(Keys)) > Len(Keys)
  BY DEF MajorityBacked
<1>1. /\ TypeOK /\ VotesSigned /\ FlagsFollowVotes /\ Counted(b)
      /\ Len(Keys) \in Nat /\ DOMAIN Keys = 1..Len(Keys)
  BY LenProperties DEF MajorityInv, HeaderInv, TypeOK, Counted
<1>2. k \in Nat /\ k - 1 \in Indexes
  BY <1>1, LenProperties, StoreAssumption DEF TypeOK, Indexes
<1>3. signers[b][k - 1] \cap ToSet(Keys) = signers[b][k - 1]
  <2>1. ASSUME NEW s \in signers[b][k - 1] PROVE s \in ToSet(Keys)
    <3>1. PICK a \in UnavailableVote[b][k - 1] : a < Len(Keys) /\ Keys[a + 1] = s
      BY <1>1, <1>2 DEF VotesSigned
    <3>2. a \in Nat
      BY <1>1, <1>2 DEF TypeOK, AuthIndex
    <3>3. a + 1 \in DOMAIN Keys
      BY <1>1, <3>1, <3>2
    <3> QED
      BY <3>1, <3>3 DEF ToSet
  <2> QED
    BY <2>1
<1>4. /\ Cardinality(signers[b][k - 1]) = Cardinality(UnavailableVote[b][k - 1])
      /\ Cardinality(UnavailableVote[b][k - 1]) \in Nat
  BY <1>1, <1>2, FiniteVotes DEF VotesSigned
<1>5. ~Metadata[b][k].is_available
         <=> Cardinality(UnavailableVote[b][k - 1]) > Len(Keys) \div 2
  BY <1>1 DEF FlagsFollowVotes
<1>6. \A c, l \in Nat : c > l \div 2 <=> 2 * c > l
  OBVIOUS
<1> QED
  BY <1>1, <1>3, <1>4, <1>5, <1>6

\* While a block can be reported and its keys stand still, a blob is unavailable exactly
\* when more than half of the keys have reported it, for any number of validators,
\* sessions, reports and blobs (handle_vote, on_disabled, on_new_session).
THEOREM MajoritiesDecide == Spec => []MajorityBacked
BY MajorityInit, MajorityStep, MajorityFollows, PTL DEF Spec

-----------------------------------------------------------------------------
(* What a step may do to the blobs *)

\* MetadataGrows, of one step.
BlobsGrow ==
    \A b \in Blocks :
        /\ \A k \in DOMAIN Metadata[b] :
              LET m == Metadata[b][k]  n == Metadata'[b][k]
              IN  \/ n = m
                  \/ n = [m EXCEPT !.is_available = FALSE] /\ b > last_closed - 1
        /\ Len(Metadata'[b]) > Len(Metadata[b]) => b = block_number

LEMMA ReportGrows ==
    ASSUME TypeOK, NEW r \in UnavailableDataReport, report(r)
    PROVE  BlobsGrow
<1>1. /\ r.at_block \in Blocks /\ block_number \in Blocks /\ phase = "open"
      /\ r.at_block + 1 >= block_number
  BY DEF TypeOK, report, report_accepted, in_report_window, UnavailableDataReport,
         DELAY_CHECK_THRESHOLD
<1>2. r.at_block > last_closed - 1
  BY <1>1, StoreAssumption DEF last_closed, Blocks
<1>3. ASSUME NEW b \in Blocks, NEW k \in DOMAIN Metadata[b]
      PROVE  \/ Metadata'[b][k] = Metadata[b][k]
             \/ /\ Metadata'[b][k] = [Metadata[b][k] EXCEPT !.is_available = FALSE]
                /\ b > last_closed - 1
  BY <1>1, <1>2 DEF report, handle_vote, TypeOK
<1>4. \A b \in Blocks : Len(Metadata[b]) \in Nat /\ Len(Metadata'[b]) = Len(Metadata[b])
  BY ReportKeepsBlobs, LenProperties DEF TypeOK
<1>5. \A b \in Blocks : ~(Len(Metadata'[b]) > Len(Metadata[b]))
  BY <1>4
<1> QED
  BY <1>3, <1>5 DEF BlobsGrow

LEMMA SubmitGrows ==
    ASSUME TypeOK, NEW p \in SidecarMetadata, submit_data(p)
    PROVE  BlobsGrow
<1> DEFINE m == [app_id |-> p.app_id, nonce |-> p.nonce,
                 commitments |-> p.commitments, is_available |-> TRUE]
<1>1. /\ block_number \in Blocks
      /\ Metadata' = [Metadata EXCEPT ![block_number] = Append(@, m)]
  BY DEF TypeOK, submit_data, try_push
<1> HIDE DEF m
<1>2. \A b \in Blocks : Metadata[b] \in Seq(BlobMetadata) /\ Len(Metadata[b]) \in Nat
                        /\ DOMAIN Metadata[b] = 1..Len(Metadata[b])
  BY LenProperties DEF TypeOK
<1>3. \A k \in 1..Len(Metadata[block_number]) :
         Append(Metadata[block_number], m)[k] = Metadata[block_number][k]
  BY <1>1, <1>2
<1>4. \A b \in Blocks : \A k \in DOMAIN Metadata[b] : Metadata'[b][k] = Metadata[b][k]
  BY <1>1, <1>2, <1>3 DEF TypeOK
<1>5. \A b \in Blocks : b # block_number => Metadata'[b] = Metadata[b]
  BY <1>1 DEF TypeOK
<1> QED
  BY <1>2, <1>4, <1>5 DEF BlobsGrow

\* Blobs are only added to the open block, and only turn from available to unavailable
\* while they can be reported, in every step of every chain (submit_data, report).
THEOREM BlobsOnlyGrow == Spec => MetadataGrows
<1>1. TypeOK /\ [Next]_storeVars => [BlobsGrow]_storeVars
  <2> SUFFICES ASSUME TypeOK, Next PROVE BlobsGrow
    OBVIOUS
  <2>1. ASSUME Metadata' = Metadata PROVE BlobsGrow
    <3>1. \A b \in Blocks : Len(Metadata[b]) \in Nat
      BY LenProperties DEF TypeOK
    <3> QED
      BY <2>1, <3>1 DEF BlobsGrow
  <2>2. \/ Metadata' = Metadata
        \/ \E p \in SidecarMetadata : submit_data(p)
        \/ \E r \in UnavailableDataReport : report(r)
    BY DEF Next, initialize_block, on_new_session, open_block, register_app, on_disabled,
           finalize_block, blobVars
  <2> QED
    BY <2>1, <2>2, ReportGrows, SubmitGrows
<1> QED
  BY <1>1, TypeCorrect, PTL DEF Spec, MetadataGrows, BlobsGrow
=============================================================================
