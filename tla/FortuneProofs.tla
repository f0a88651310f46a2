--------------------------- MODULE FortuneProofs ---------------------------
(* Theorems about FarmersFortune, for every value of its constants. *)
EXTENDS FarmersFortune, MeloStoreProofs

LEMMA FortuneStepsAreStoreSteps == [FortuneNext]_allVars => [Next]_storeVars
BY DEF FortuneNext, allVars, claim

\* A claim leaves the store pallet's own state alone: with farmers claiming, the
\* chain is still one that MeloStore describes, so its theorems hold for it.
THEOREM ClaimsKeepStore == FortuneSpec => Spec
<1>1. FortuneInit => Init
  BY DEF FortuneInit
<1> QED
  BY <1>1, FortuneStepsAreStoreSteps, PTL DEF FortuneSpec, Spec

-----------------------------------------------------------------------------
(* Rewards *)

\* The blocks a farmer claimed in.
claimed(a) == {b \in Blocks : a \in ToSet(ClaimantsForBlock[b])}

\* What a farmer was paid is a count of blocks, so the types of both sides belong to
\* the invariant; TypeOK puts the block a claim is entered under among the blocks.
ClaimInv ==
    /\ TypeOK
    /\ ClaimantsForBlock \in [Blocks -> Seq(Account)]
    /\ balance \in [Account -> Nat]
    /\ RewardsMatchClaims

LEMMA BlocksFinite ==
    ASSUME NEW S \in SUBSET Blocks
    PROVE  IsFiniteSet(S) /\ Cardinality(S) \in Nat
<1>1. 0 \in Int /\ MaxBlock \in Int
  BY StoreAssumption
<1>2. IsFiniteSet(Blocks)
  BY <1>1, FS_Interval DEF Blocks
<1>3. IsFiniteSet(S)
  BY <1>2, FS_Subset
<1> QED
  BY <1>3, FS_CardinalityType

\* The elements of a list after one is appended.
LEMMA AppendToSet ==
    ASSUME NEW S, NEW s \in Seq(S), NEW e \in S
    PROVE  ToSet(Append(s, e)) = ToSet(s) \cup {e}
<1> DEFINE t == Append(s, e)
<1>1. /\ DOMAIN s = 1..Len(s) /\ Len(s) \in Nat
      /\ t \in Seq(S) /\ DOMAIN t = 1..(Len(s) + 1)
      /\ \A i \in 1..Len(s) : t[i] = s[i]
      /\ t[Len(s) + 1] = e
  BY AppendProperties, LenProperties
<1> HIDE DEF t
<1>2. ASSUME NEW x \in ToSet(t) PROVE x \in ToSet(s) \cup {e}
  <2>1. PICK i \in 1..(Len(s) + 1) : x = t[i]
    BY <1>1 DEF ToSet
  <2> QED
    BY <1>1, <2>1 DEF ToSet
<1>3. ASSUME NEW x \in ToSet(s) \cup {e} PROVE x \in ToSet(t)
  <2>1. Len(s) + 1 \in DOMAIN t /\ \A i \in DOMAIN s : i \in DOMAIN t
    BY <1>1
  <2> QED
    BY <1>1, <2>1 DEF ToSet
<1>4. ToSet(t) = ToSet(s) \cup {e}
  BY <1>2, <1>3
<1> QED
  BY <1>4 DEF t

LEMMA ClaimInit == FortuneInit => ClaimInv
<1> SUFFICES ASSUME FortuneInit PROVE ClaimInv
  OBVIOUS
<1>1. TypeOK
  BY TypeInit DEF FortuneInit
<1>2. /\ ClaimantsForBlock \in [Blocks -> Seq(Account)]
      /\ balance \in [Account -> Nat]
  BY DEF FortuneInit
<1>3. ASSUME NEW a \in Account
      PROVE  balance[a] = RewardAmount * Cardinality(claimed(a))
  <2>1. claimed(a) = {}
    BY DEF claimed, FortuneInit, ToSet
  <2>2. Cardinality(claimed(a)) = 0
    BY <2>1, FS_EmptySet
  <2> QED
    BY <2>2, FortuneAssumption DEF FortuneInit
<1> QED
  BY <1>1, <1>2, <1>3 DEF ClaimInv, RewardsMatchClaims, claimed

LEMMA ClaimPreserves ==
    ASSUME ClaimInv, NEW who \in Account, NEW y \in 0..MaxRow,
           NEW left \in Cell, NEW right \in Cell, claim(who, y, left, right)
    PROVE  /\ ClaimantsForBlock' \in [Blocks -> Seq(Account)]
           /\ balance' \in [Account -> Nat]
           /\ RewardsMatchClaims'
<1> DEFINE now == ClaimantsForBlock[block_number]
<1>1. /\ block_number \in Blocks /\ now \in Seq(Account)
      /\ ClaimantsForBlock \in [Blocks -> Seq(Account)]
      /\ balance \in [Account -> Nat]
  BY DEF ClaimInv, TypeOK
<1>2. /\ who \notin ToSet(now)
      /\ ClaimantsForBlock' = [ClaimantsForBlock EXCEPT ![block_number] = Append(now, who)]
      /\ balance' = [balance EXCEPT ![who] = balance[who] + RewardAmount]
  BY DEF claim, may_claim
<1>3. Append(now, who) \in Seq(Account) /\ ToSet(Append(now, who)) = ToSet(now) \cup {who}
  BY <1>1, AppendProperties, AppendToSet
<1> HIDE DEF now
<1>4. ClaimantsForBlock' \in [Blocks -> Seq(Account)] /\ balance' \in [Account -> Nat]
  BY <1>1, <1>2, <1>3, FortuneAssumption
<1>5. claimed(who)' = claimed(who) \cup {block_number} /\ block_number \notin claimed(who)
  BY <1>1, <1>2, <1>3 DEF claimed, now
<1>6. \A a \in Account : a # who => claimed(a)' = claimed(a)
  BY <1>1, <1>2, <1>3 DEF claimed, now
<1>7. \A a \in Account : balance[a] = RewardAmount * Cardinality(claimed(a))
  BY DEF ClaimInv, RewardsMatchClaims, claimed
<1>8. ASSUME NEW a \in Account
      PROVE  balance'[a] = RewardAmount * Cardinality(claimed(a)')
  <2>1. CASE a # who
    BY <1>1, <1>2, <1>6, <1>7, <2>1
  <2>2. CASE a = who
    <3>1. IsFiniteSet(claimed(who)) /\ Cardinality(claimed(who)) \in Nat
      BY BlocksFinite DEF claimed
    <3>2. Cardinality(claimed(who)') = Cardinality(claimed(who)) + 1
      BY <1>5, <3>1, FS_AddElement
    <3>3. balance'[who] = RewardAmount * Cardinality(claimed(who)) + RewardAmount
      BY <1>1, <1>2, <1>7
    <3> QED
      BY <2>2, <3>1, <3>2, <3>3, FortuneAssumption
  <2> QED
    BY <2>1, <2>2
<1> QED
  BY <1>4, <1>8 DEF RewardsMatchClaims, claimed

LEMMA ClaimStep == ClaimInv /\ [FortuneNext]_allVars => ClaimInv'
<1> SUFFICES ASSUME ClaimInv, [FortuneNext]_allVars PROVE ClaimInv'
  OBVIOUS
<1>1. TypeOK'
  BY FortuneStepsAreStoreSteps, TypeStep DEF ClaimInv
<1>2. ASSUME UNCHANGED fortuneVars PROVE ClaimInv'
  BY <1>1, <1>2 DEF ClaimInv, fortuneVars, RewardsMatchClaims
<1>3. ASSUME NEW who \in Account, NEW y \in 0..MaxRow,
             NEW left \in Cell, NEW right \in Cell, claim(who, y, left, right)
      PROVE  ClaimInv'
  BY <1>1, <1>3, ClaimPreserves DEF ClaimInv
<1> QED
  BY <1>2, <1>3 DEF FortuneNext, allVars

\* A farmer is paid one reward for each block it claimed in, and for nothing else:
\* may_claim refuses a second claim in a block, and no other call pays.
THEOREM RewardsCounted == FortuneSpec => []RewardsMatchClaims
<1>1. ClaimInv => RewardsMatchClaims
  BY DEF ClaimInv
<1> QED
  BY <1>1, ClaimInit, ClaimStep, PTL DEF FortuneSpec

-----------------------------------------------------------------------------
(* Stored lists *)

\* Lists are entered for blocks, in blocks of the past; HeaderInv says what the sealed
\* headers hold.
ListInv ==
    /\ HeaderInv
    /\ CommitmentsExt = [b \in Blocks |-> CommitmentsExt[b]]
    /\ \A b \in Blocks : cached_at[b] \in Blocks /\ cached_at[b] <= block_number
    /\ StoredListsMatchHeaders

\* A step changes no header that is sealed and no blob that a sealed header is about.
LEMMA SealedStays ==
    ASSUME HeaderInv, [Next]_storeVars
    PROVE  /\ block_number' >= block_number
           /\ \A n \in Blocks : n < block_number => headers'[n] = headers[n]
           /\ \A b \in Blocks : b < last_closed => Metadata'[b] = Metadata[b]
<1> DEFINE Stays == /\ block_number' >= block_number
                    /\ \A n \in Blocks : n < block_number => headers'[n] = headers[n]
                    /\ \A b \in Blocks : b < last_closed => Metadata'[b] = Metadata[b]
<1>1. /\ block_number \in Nat /\ DOMAIN headers = Blocks
      /\ \A b \in Blocks : b \in Nat
  BY StoreAssumption DEF HeaderInv, TypeOK, Blocks
<1>2. ASSUME UNCHANGED <<headers, Metadata>>,
             block_number' = block_number \/ block_number' = block_number + 1
      PROVE  Stays
  BY <1>1, <1>2
<1>3. ASSUME NEW p \in SidecarMetadata, submit_data(p) PROVE Stays
  BY <1>1, <1>3 DEF submit_data, try_push, chainVars, last_closed, HeaderInv, TypeOK
<1>4. ASSUME NEW r \in UnavailableDataReport, report(r) PROVE Stays
  <2>1. phase = "open" /\ r.at_block + 1 >= block_number /\ r.at_block \in Nat
    BY <1>1, <1>4 DEF report, report_accepted, in_report_window, DELAY_CHECK_THRESHOLD,
                      UnavailableDataReport
  <2>2. \A b \in Blocks : b # r.at_block => Metadata'[b] = Metadata[b]
    BY <1>4 DEF report, HeaderInv, TypeOK
  <2>3. UNCHANGED <<block_number, headers>>
    BY <1>4 DEF report, chainVars
  <2>4. \A b \in Blocks : b < last_closed => b # r.at_block
    BY <1>1, <2>1 DEF last_closed
  <2> QED
    BY <1>1, <2>2, <2>3, <2>4
<1>5. ASSUME finalize_block PROVE Stays
  <2>1. /\ headers' = [headers EXCEPT ![block_number] = last]
        /\ UNCHANGED <<block_number, Metadata>>
    BY <1>5 DEF finalize_block, blobVars
  <2> QED
    BY <1>1, <2>1
<1>6. CASE UNCHANGED storeVars
  BY <1>2, <1>6 DEF storeVars, chainVars, blobVars
<1>7. CASE Next
  BY <1>2, <1>3, <1>4, <1>5, <1>7
     DEF Next, initialize_block, on_new_session, open_block, register_app, on_disabled,
         chainVars, blobVars
<1> QED
  BY <1>6, <1>7

\* What one question can do to the lists.
LEMMA LookupStores ==
    ASSUME NEW ext, ext = [b \in Blocks |-> ext[b]], NEW c
    PROVE  /\ lookup(ext, c) = [b \in Blocks |-> lookup(ext, c)[b]]
           /\ \A b \in Blocks :
                 \/ lookup(ext, c)[b] = ext[b]
                 \/ is_past(b) /\ lookup(ext, c)[b] = extended(b)
<1> DEFINE new == [ext EXCEPT ![c.block] = extended(c.block)]
<1>1. CASE ~stores_list(ext, c.block, c.y)
  BY <1>1 DEF lookup, after_lookup
<1>2. CASE stores_list(ext, c.block, c.y)
  <2>1. lookup(ext, c) = new
    BY <1>2 DEF lookup, after_lookup
  <2>2. is_past(c.block)
    BY <1>2 DEF stores_list
  <2>3. /\ new = [b \in Blocks |-> new[b]]
        /\ \A b \in Blocks : new[b] = IF b = c.block THEN extended(b) ELSE ext[b]
    OBVIOUS
  <2> HIDE DEF new
  <2> QED
    BY <2>1, <2>2, <2>3
<1> QED
  BY <1>1, <1>2

\* The list stored for a block is the extension of what the sealed header lists.
LEMMA ExtendsHeader ==
    ASSUME HeaderInv, NEW b \in Blocks, b + DELAY_CHECK_THRESHOLD < block_number
    PROVE  extended(b) = extend_fs_g1(headers[b + DELAY_CHECK_THRESHOLD].commitments)
<1>1. /\ b \in Nat /\ block_number \in Nat /\ b + 1 \in Nat
      /\ b + 1 >= 1 /\ b + 1 <= last_closed
  BY StoreAssumption DEF HeaderInv, TypeOK, Blocks, last_closed, DELAY_CHECK_THRESHOLD
<1>2. headers[b + 1] = HeaderExtension(b + 1)
  BY <1>1 DEF HeaderInv, HeaderFinal, last_closed
<1>3. CASE b > 0
  <2>1. HeaderExtension(b + 1).commitments = get_commitments(Metadata[b])
    BY <1>1, <1>3 DEF HeaderExtension, get_commitments_and_app_lookups, DELAY_CHECK_THRESHOLD
  <2> QED
    BY <1>2, <2>1 DEF extended, DELAY_CHECK_THRESHOLD
<1>4. CASE b = 0
  <2>1. Metadata[b] = <<>>
    BY <1>4 DEF HeaderInv, BlobsInThePast
  <2>2. get_commitments(<<>>) = <<>>
    BY DEF get_commitments, FlattenSeq
  <2>3. HeaderExtension(b + 1).commitments = <<>>
    BY <1>4 DEF HeaderExtension, EmptyExtension, DELAY_CHECK_THRESHOLD
  <2> QED
    BY <1>2, <2>1, <2>2, <2>3 DEF extended, DELAY_CHECK_THRESHOLD
<1> QED
  BY <1>1, <1>3, <1>4

LEMMA ListStep == ListInv /\ [FortuneNext]_allVars => ListInv'
<1> SUFFICES ASSUME ListInv, [FortuneNext]_allVars PROVE ListInv'
  OBVIOUS
<1>1. HeaderInv /\ HeaderInv' /\ [Next]_storeVars
  BY FortuneStepsAreStoreSteps, HeaderStep DEF ListInv
<1>2. /\ block_number \in Nat /\ block_number \in Blocks /\ block_number' \in Nat
      /\ \A b \in Blocks : b \in Nat /\ cached_at[b] \in Nat
  <2>1. Blocks \subseteq Nat
    BY StoreAssumption DEF Blocks
  <2>2. block_number \in Blocks /\ block_number' \in Blocks
    BY <1>1 DEF HeaderInv, TypeOK
  <2> QED
    BY <2>1, <2>2 DEF ListInv
<1>3. ASSUME UNCHANGED fortuneVars PROVE ListInv'
  <2>1. block_number' >= block_number
        /\ \A n \in Blocks : n < block_number => headers'[n] = headers[n]
    BY <1>1, SealedStays
  <2>2. UNCHANGED <<CommitmentsExt, cached_at>>
    BY <1>3 DEF fortuneVars
  <2>3. \A b \in Blocks : cached_at[b] <= block_number'
    BY <1>2, <2>1 DEF ListInv
  <2>4. ASSUME NEW b \in Blocks, CommitmentsExt[b] # <<>>, cached_at[b] > b + 1
        PROVE  CommitmentsExt[b] = extend_fs_g1(headers'[b + 1].commitments)
    <3>1. b + 1 < block_number /\ b + 1 \in Blocks
      BY <1>2, <2>4, StoreAssumption DEF ListInv, Blocks
    <3> QED
      BY <2>1, <2>4, <3>1 DEF ListInv, StoredListsMatchHeaders, DELAY_CHECK_THRESHOLD
  <2> QED
    BY <1>1, <2>2, <2>3, <2>4 DEF ListInv, StoredListsMatchHeaders, DELAY_CHECK_THRESHOLD
<1>4. ASSUME NEW who \in Account, NEW y \in 0..MaxRow,
             NEW left \in Cell, NEW right \in Cell, claim(who, y, left, right)
      PROVE  ListInv'
  <2> DEFINE pre == [block |-> block_number - 1, y |-> y]
             one == lookup(CommitmentsExt, pre)
             two == lookup(one, left)
  <2>1. /\ CommitmentsExt' = lookup(lookup(lookup(CommitmentsExt, pre), left), right)
        /\ cached_at' = [b \in Blocks |->
              IF CommitmentsExt'[b] # CommitmentsExt[b] THEN block_number ELSE cached_at[b]]
        /\ UNCHANGED storeVars
    BY <1>4 DEF claim
  <2> HIDE DEF pre
  <2>2. CommitmentsExt = [b \in Blocks |-> CommitmentsExt[b]]
    BY DEF ListInv
  <2>3. one = [b \in Blocks |-> one[b]]
        /\ \A b \in Blocks : \/ one[b] = CommitmentsExt[b]
                             \/ is_past(b) /\ one[b] = extended(b)
    BY <2>2, LookupStores
  <2> HIDE DEF one
  <2>4. two = [b \in Blocks |-> two[b]]
        /\ \A b \in Blocks : \/ two[b] = one[b]
                             \/ is_past(b) /\ two[b] = extended(b)
    BY <2>3, LookupStores
  <2>5. CommitmentsExt' = lookup(two, right)
    BY <2>1 DEF one, two
  <2> HIDE DEF two
  <2>6. CommitmentsExt' = [b \in Blocks |-> CommitmentsExt'[b]]
        /\ \A b \in Blocks : \/ CommitmentsExt'[b] = two[b]
                             \/ is_past(b) /\ CommitmentsExt'[b] = extended(b)
    BY <2>5, <2>4, LookupStores
  <2>7. \A b \in Blocks : \/ CommitmentsExt'[b] = CommitmentsExt[b]
                          \/ CommitmentsExt'[b] = extended(b)
    BY <2>3, <2>4, <2>6
  <2>8. UNCHANGED <<block_number, headers>>
    BY <2>1 DEF storeVars, chainVars
  <2>9. \A b \in Blocks : cached_at'[b] \in Blocks /\ cached_at'[b] <= block_number
    BY <1>2, <2>1 DEF ListInv
  <2>10. ASSUME NEW b \in Blocks, CommitmentsExt'[b] # <<>>, cached_at'[b] > b + 1
        PROVE  CommitmentsExt'[b] = extend_fs_g1(headers[b + 1].commitments)
    <3>1. CASE CommitmentsExt'[b] = CommitmentsExt[b]
      <4>1. cached_at'[b] = cached_at[b]
        BY <2>1, <3>1
      <4> QED
        BY <2>10, <3>1, <4>1 DEF ListInv, StoredListsMatchHeaders, DELAY_CHECK_THRESHOLD
    <3>2. CASE CommitmentsExt'[b] # CommitmentsExt[b]
      <4>1. cached_at'[b] = block_number /\ CommitmentsExt'[b] = extended(b)
        BY <2>1, <2>7, <3>2
      <4> QED
        BY <1>1, <2>10, <4>1, ExtendsHeader DEF DELAY_CHECK_THRESHOLD
    <3> QED
      BY <3>1, <3>2
  <2> QED
    BY <1>1, <2>6, <2>8, <2>9, <2>10 DEF ListInv, StoredListsMatchHeaders, DELAY_CHECK_THRESHOLD
<1> QED
  BY <1>3, <1>4 DEF FortuneNext, allVars

LEMMA ListInit == FortuneInit => ListInv
<1> SUFFICES ASSUME FortuneInit PROVE ListInv
  OBVIOUS
<1>1. HeaderInv
  BY HeaderInit DEF FortuneInit
<1>2. 0 \in Blocks /\ block_number = 0
  BY StoreAssumption DEF Blocks, FortuneInit, Init
<1> QED
  BY <1>1, <1>2 DEF FortuneInit, ListInv, StoredListsMatchHeaders

\* A list that a claim stores after the block's header was sealed is the extension of what
\* that header commits to, and remains so, whatever blobs were reported (commitments,
\* report, finalize_block).
THEOREM StoredListsAgree == FortuneSpec => []StoredListsMatchHeaders
<1>1. ListInv => StoredListsMatchHeaders
  BY DEF ListInv
<1> QED
  BY <1>1, ListInit, ListStep, PTL DEF FortuneSpec

-----------------------------------------------------------------------------
(* Answers *)

\* AnswersStable, of one step.
AnswersStay ==
    \A b \in 1..(last_closed - DELAY_CHECK_THRESHOLD), y \in 0..MaxRow :
        CommitmentsExt'[b] = CommitmentsExt[b]
          => commitments(CommitmentsExt, b, y)' = commitments(CommitmentsExt, b, y)

LEMMA AnswersStep == ListInv /\ [FortuneNext]_allVars => [AnswersStay]_allVars
<1> SUFFICES ASSUME ListInv, [FortuneNext]_allVars,
                    NEW b \in 1..(last_closed - DELAY_CHECK_THRESHOLD), NEW y \in 0..MaxRow,
                    CommitmentsExt'[b] = CommitmentsExt[b]
             PROVE  commitments(CommitmentsExt, b, y)' = commitments(CommitmentsExt, b, y)
  BY DEF AnswersStay
<1>1. HeaderInv /\ HeaderInv' /\ [Next]_storeVars /\ ListInv'
  BY FortuneStepsAreStoreSteps, HeaderStep, ListStep DEF ListInv
<1>2. /\ b \in Blocks /\ b \in Nat /\ b < last_closed /\ b <= block_number - 1
      /\ block_number \in Nat /\ block_number' \in Nat /\ last_closed \in Int
  <2>1. /\ Blocks = 0..MaxBlock /\ MaxBlock \in Nat
        /\ block_number \in Blocks /\ block_number' \in Blocks
    BY <1>1, StoreAssumption DEF HeaderInv, TypeOK, Blocks
  <2>2. last_closed \in Int /\ last_closed <= block_number
    BY <2>1 DEF last_closed
  <2>3. b \in 1..(last_closed - 1)
    BY DEF DELAY_CHECK_THRESHOLD
  <2> QED
    BY <2>1, <2>2, <2>3
<1>3. Metadata'[b] = Metadata[b] /\ block_number' >= block_number
  BY <1>1, <1>2, SealedStays
<1>4. is_past(b) /\ is_past(b)'
  <2>1. \A n, m \in Nat : b <= n - 1 /\ m >= n => b <= m - 1
    BY <1>2
  <2>2. b <= block_number' - 1
    BY <1>2, <1>3, <2>1
  <2> QED
    BY <1>2, <2>2 DEF is_past, DELAY_CHECK_THRESHOLD
<1>5. extended(b)' = extended(b)
  BY <1>3 DEF extended
<1>6. stores_list(CommitmentsExt, b, y)' <=> stores_list(CommitmentsExt, b, y)
  BY <1>3, <1>4, <1>5 DEF stores_list
<1>7. after_lookup(CommitmentsExt, b, y)[b]' = after_lookup(CommitmentsExt, b, y)[b]
  <2>1. /\ CommitmentsExt = [c \in Blocks |-> CommitmentsExt[c]]
        /\ CommitmentsExt' = [c \in Blocks |-> CommitmentsExt'[c]]
    BY <1>1 DEF ListInv
  <2> QED
    BY <1>2, <1>5, <1>6, <2>1 DEF after_lookup
<1>8. known_rows(CommitmentsExt, b, y)' = known_rows(CommitmentsExt, b, y)
  BY <1>3, <1>7 DEF known_rows
<1> QED
  BY <1>4, <1>8 DEF commitments

\* Once the header over a block is sealed, what the chain answers about one of its rows
\* does not change, unless the block's list is stored by a claim (commitments, report).
THEOREM AnswersAreStable == FortuneSpec => AnswersStable
<1>1. FortuneSpec => []ListInv
  BY ListInit, ListStep, PTL DEF FortuneSpec
<1> QED
  BY <1>1, AnswersStep, PTL DEF FortuneSpec, AnswersStable, AnswersStay
=============================================================================
