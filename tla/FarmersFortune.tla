--------------------------- MODULE FarmersFortune ---------------------------
(***************************************************************************)
(* Farmers' claims (crates/pallet-farmers-fortune) on the chain of         *)
(* MeloStore, with the list of extended commitments that a claim may store *)
(* in pallet-melo-store (CommitmentFromPosition).                          *)
(*                                                                         *)
(* A claim shows three cells: one of the block before (the pre-cell) and   *)
(* two of any earlier blocks.  A cell stands for its block and its row;    *)
(* what Solution::verify computes from hashes is left open, so every cell  *)
(* whose commitment is found can be part of a valid solution.              *)
(***************************************************************************)
EXTENDS MeloStore, FiniteSetsExt

CONSTANTS
    Account,                \* the farmers
    MaxClaimantsPerBlock,   \* T::MaxClaimantsPerBlock
    RewardAmount,           \* T::RewardAmount
    MaxRow                  \* bound: rows a cell can name

ASSUME FortuneAssumption ==
    MaxClaimantsPerBlock \in Nat /\ RewardAmount \in Nat /\ MaxRow \in Nat

VARIABLES
    CommitmentsExt,     \* block -> extended commitments; <<>> while there is none
    ClaimantsForBlock,  \* block -> the farmers that claimed in it
    balance,            \* farmer -> what it was paid
    cached_at           \* history: block -> block in which its list was stored

fortuneVars == <<CommitmentsExt, ClaimantsForBlock, balance, cached_at>>
allVars == <<storeVars, fortuneVars>>

Cell == [block: Blocks, y: 0..MaxRow]

-----------------------------------------------------------------------------
(* Extended commitments *)

\* The commitment of the i-th parity row that extends the rows of list.
Parity(list, i) == <<list, i>>

is_power_of_two(n) == \E k \in 0..n : n = 2^k

\* Originals and parity alternate.  The FFT takes lengths that are powers of two.
extend_fs_g1(list) ==
    IF is_power_of_two(Len(list))
      THEN [j \in 1..(2 * Len(list)) |->
              IF j % 2 = 1 THEN list[(j + 1) \div 2] ELSE Parity(list, j \div 2)]
      ELSE <<>>

\* Originals first, then parity: the order of the rows in the network.
extend_and_reorder_elements(list) ==
    IF is_power_of_two(Len(list))
      THEN list \o [j \in 1..Len(list) |-> Parity(list, j)]
      ELSE <<>>

\* Wrong variant: blobs that were reported are extended too.
extended_unfiltered(b) ==
    extend_fs_g1(FlattenSeq([k \in DOMAIN Metadata[b] |-> Metadata[b][k].commitments]))

extended(b) == extend_fs_g1(get_commitments(Metadata[b]))

\* Blocks whose commitments can be asked for.
is_past(b) == b <= block_number - DELAY_CHECK_THRESHOLD

\* Asking for row y of block b stores the extended list: y is a parity row, and the
\* list fits its bound.
stores_list(ext, b, y) ==
    /\ is_past(b)
    /\ ext[b] = <<>>
    /\ y >= Len(get_commitments(Metadata[b]))
    /\ y < Len(extended(b))
    /\ Len(extended(b)) <= MaxBlobNum

\* CommitmentsExt after the question.
after_lookup(ext, b, y) ==
    IF stores_list(ext, b, y) THEN [ext EXCEPT ![b] = extended(b)] ELSE ext

\* The rows the answer is taken from.
known_rows(ext, b, y) ==
    IF after_lookup(ext, b, y)[b] = <<>>
      THEN get_commitments(Metadata[b]) ELSE after_lookup(ext, b, y)[b]

\* The answer: no commitment or one.
commitments(ext, b, y) ==
    {known_rows(ext, b, y)[k] : k \in {j \in {y + 1} :
        is_past(b) /\ j <= Len(known_rows(ext, b, y))}}

-----------------------------------------------------------------------------
(* Claims *)

\* Wrong variant: a farmer may claim again in the same block.
may_claim_again(who) == Len(ClaimantsForBlock[block_number]) < MaxClaimantsPerBlock

may_claim(who) ==
    /\ Len(ClaimantsForBlock[block_number]) < MaxClaimantsPerBlock
    /\ who \notin ToSet(ClaimantsForBlock[block_number])

lookup(ext, c) == after_lookup(ext, c.block, c.y)

\* The commitment of each cell is found, after the lookups before it.
all_found(pre, left, right) ==
    LET found(ext, c) == commitments(ext, c.block, c.y) # {}
    IN  /\ found(CommitmentsExt, pre)
        /\ found(lookup(CommitmentsExt, pre), left)
        /\ found(lookup(lookup(CommitmentsExt, pre), left), right)

claim(who, pre_y, left, right) ==
    LET pre == [block |-> block_number - 1, y |-> pre_y]
    IN  /\ phase = "open"
        /\ may_claim(who)
        /\ all_found(pre, left, right)
        /\ CommitmentsExt' = lookup(lookup(lookup(CommitmentsExt, pre), left), right)
        /\ cached_at' = [b \in Blocks |->
              IF CommitmentsExt'[b] # CommitmentsExt[b] THEN block_number ELSE cached_at[b]]
        /\ ClaimantsForBlock' = [ClaimantsForBlock EXCEPT ![block_number] = Append(@, who)]
        /\ balance' = [balance EXCEPT ![who] = @ + RewardAmount]
        /\ UNCHANGED storeVars

FortuneInit ==
    /\ Init
    /\ CommitmentsExt = [b \in Blocks |-> <<>>]
    /\ ClaimantsForBlock = [b \in Blocks |-> <<>>]
    /\ balance = [a \in Account |-> 0]
    /\ cached_at = [b \in Blocks |-> 0]

FortuneNext ==
    \/ Next /\ UNCHANGED fortuneVars
    \/ \E who \in Account, y \in 0..MaxRow, left, right \in Cell : claim(who, y, left, right)

FortuneSpec == FortuneInit /\ [][FortuneNext]_allVars

-----------------------------------------------------------------------------
(* Correctness *)

\* Every reward stands for one block in which the farmer claimed, and no farmer is
\* paid twice for a block, however claims, reports and blocks interleave (claim).
RewardsMatchClaims ==
    \A a \in Account :
        balance[a] = RewardAmount *
            Cardinality({b \in Blocks : a \in ToSet(ClaimantsForBlock[b])})

\* A list that was stored after the header over the block had been sealed is the
\* extension of the commitments in that header, and stays it.
StoredListsMatchHeaders ==
    \A b \in Blocks :
        CommitmentsExt[b] # <<>> /\ cached_at[b] > b + DELAY_CHECK_THRESHOLD
            => CommitmentsExt[b] = extend_fs_g1(headers[b + DELAY_CHECK_THRESHOLD].commitments)

\* What the chain answers about a row of a block whose header is sealed does not
\* change, as long as the block's list is neither stored nor replaced.
AnswersStable ==
    [][\A b \in 1..(last_closed - DELAY_CHECK_THRESHOLD), y \in 0..MaxRow :
          CommitmentsExt'[b] = CommitmentsExt[b]
            => commitments(CommitmentsExt, b, y)' = commitments(CommitmentsExt, b, y)]_allVars

-----------------------------------------------------------------------------
(* What the comments of the code say *)

\* "Stores the extended commitments, filtering out invalid data": once the header
\* over a block is sealed, a stored list holds nothing but what it commits to.
StoredListsFiltered ==
    \A b \in 0..(last_closed - DELAY_CHECK_THRESHOLD) :
        CommitmentsExt[b] # <<>>
            => CommitmentsExt[b] = extend_fs_g1(headers[b + DELAY_CHECK_THRESHOLD].commitments)

\* "It returns a result that interleaves the original data with parity data, so
\* column extensions need to be handled separately": the commitment of a row is
\* the one of the row with that number in the network.
RowsInNetworkOrder ==
    \A b \in 1..(block_number - 1), y \in 0..MaxRow :
        LET rows == extend_and_reorder_elements(get_commitments(Metadata[b]))
        IN  y < Len(rows) => commitments(CommitmentsExt, b, y) \subseteq {rows[y + 1]}

\* "Claim a reward for providing a valid solution": the farmer files the cells it
\* fetched for the header of block n under n (event_handler, process_segments), and
\* claim finds the commitment in that header when it asks for row y of block n.
FarmersCellsFound ==
    \A n \in 1..last_closed, y \in 0..MaxRow :
        y < Len(headers[n].commitments) /\ is_past(n)
            => headers[n].commitments[y + 1] \in commitments(CommitmentsExt, n, y)
=============================================================================
