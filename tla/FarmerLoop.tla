----------------------------- MODULE FarmerLoop -----------------------------
(***************************************************************************)
(* The farmer's loop (farmer/src) with the bit arithmetic of               *)
(* proof-of-space: it follows the best blocks, sends each header with data *)
(* to a channel that nobody reads, fetches the rows and columns that the   *)
(* hash selects, saves them, and claims its solutions one after the other, *)
(* each until it is final, with the database locked.                       *)
(*                                                                         *)
(* The hash of a block, combined with the farmer's id, is a free choice    *)
(* when its header is received.  Which cells pass check_pre_cell and find  *)
(* a pair is free too.  What the chain makes of a claim does not change    *)
(* what the loop does next and is left out: see FarmersFortune.            *)
(***************************************************************************)
EXTENDS Integers, Sequences, FiniteSets, SequencesExt

CONSTANTS
    ByteBits, HashBytes,    \* a hash has HashBytes bytes of ByteBits bits
    Segments,               \* SEGMENTS_PER_BLOB
    SegmentSize,            \* field elements of a segment
    MaxWidth,               \* roots of unity of the KZG settings
    RowCounts,              \* numbers of commitments a header may have
    FarmCapacity,           \* messages the channel holds
    MaxSolutions,           \* bound: solutions of a header
    MaxBest,                \* bound: best blocks
    MaxClaims,              \* bound: claims submitted
    MaxFarmRestarts         \* bound: restarts of the program

ASSUME FarmAssumption ==
    /\ {ByteBits, HashBytes, Segments, SegmentSize, MaxWidth, FarmCapacity} \subseteq Nat \ {0}
    /\ {MaxSolutions, MaxBest, MaxClaims, MaxFarmRestarts} \subseteq Nat
    /\ RowCounts \subseteq Nat

VARIABLES
    farm,           \* where the loop stands
    farm_data,      \* what is left to use of the header: {}, or its rows and hash
    farm_next,      \* the next block of the subscription
    farm_channel,   \* messages in the channel
    solutions,      \* number of solutions still to claim
    db_locked,      \* the loop holds the database
    watched,        \* the claim whose end it waits for, 0 when none
    claims,         \* claims submitted so far
    claim_pool,     \* the farmer's claims in the transaction pool
    best,           \* the best block of the chain
    farm_restarts   \* restarts so far

loopState == <<farm, farm_data, farm_next, farm_channel, solutions, db_locked, watched>>
chainState == <<claim_pool, best>>
farmVars == <<loopState, chainState, claims, farm_restarts>>

-----------------------------------------------------------------------------
(* Bits of a hash *)

ExtendedSegments == 2 * Segments
HashBits == HashBytes * ByteBits

\* Byte -> place in the byte, counted from its lowest bit -> bit.
Hash == [0..(HashBytes - 1) -> [0..(ByteBits - 1) -> BOOLEAN]]

\* The bits of a byte from the highest to the lowest.
hash_to_bitvec(hash) ==
    [i \in 0..(HashBits - 1) |-> hash[i \div ByteBits][ByteBits - 1 - (i % ByteBits)]]

\* The n bits from i are set, the hash taken as a ring.
all_ones(bits, i, n) == \A j \in 0..(n - 1) : bits[(i + j) % HashBits]

\* The indices from start to end, without end, whose n bits are set.
select_indices(hash, start, end, n) ==
    LET bits == hash_to_bitvec(hash)
        indices[k \in 0..(end - start)] ==
            IF k = 0 THEN <<>>
            ELSE IF all_ones(bits, start + k - 1, n) THEN Append(indices[k - 1], start + k - 1)
            ELSE indices[k - 1]
    IN  IF n = 0 \/ n > HashBits \/ start >= end \/ end > HashBits
          THEN <<>> ELSE indices[end - start]

\* Wrong variant: the byte of the index is always the first one.
is_index_valid_first(hash, index, max_index, n) ==
    /\ index + n <= max_index * ByteBits
    /\ \A offset \in 0..(n - 1) : hash[0][(index + offset) % ByteBits]

\* The n bits from index, of each byte from the lowest to the highest.
is_index_valid(hash, index, max_index, n) ==
    /\ index < max_index * ByteBits
    /\ index + n <= max_index * ByteBits
    /\ \A offset \in 0..(n - 1) :
        /\ (index + offset) \div ByteBits < HashBytes
        /\ hash[(index + offset) \div ByteBits][(index + offset) % ByteBits]

-----------------------------------------------------------------------------
(* The position of a segment in the domain of its proof *)

bit(v, k) == (v \div 2^k) % 2

\* The value in reverse, in the bits that length takes.
reverse_bits_limited(length, value) ==
    LET width == CHOOSE w \in 1..length : 2^(w - 1) <= length /\ length < 2^w
    IN  CHOOSE r \in 0..(2^width - 1) :
            \A k \in 0..(width - 1) : bit(r, k) = bit(value, width - 1 - k)

get_kzg_index(chunk_count, chunk_index, chunk_size) ==
    reverse_bits_limited(chunk_count, chunk_index)
        * (MaxWidth \div (2 * chunk_size * chunk_count))

\* A proof is made for the position with SEGMENTS_PER_BLOB; it verifies there.
verify(x, chunk_count) ==
    get_kzg_index(chunk_count, x, SegmentSize) = get_kzg_index(Segments, x, SegmentSize)

\* The check of the farmer's first cell counts the extended segments.
verify_kzg_proof(x) == verify(x, ExtendedSegments)

-----------------------------------------------------------------------------
(* What a header leads to *)

row_inds(h) == select_indices(h.hash, 0, 2 * h.rows, 1)
col_inds(h) == select_indices(h.hash, 0, ExtendedSegments, 1)

\* The commitments are extended first, which takes a power of two of them.
extendable(h) == \E k \in 0..h.rows : h.rows = 2^k

\* Segments are checked at their place in the answer: the k-th row that was asked for
\* passes when it is row k.
rows_in_place(inds) == {k \in 0..(Len(inds) - 1) : inds[k + 1] = k}

\* The answer is cut into pieces of two columns; the first of the k-th piece passes when
\* it is column k.
cols_in_place(inds) == {k \in 0..(Len(inds) - 1) : 2 * k < Len(inds) /\ inds[2 * k + 1] = k}

\* A cell of a row is known by its column, a cell of a column by its row.
cells(h) ==
    {[x |-> x, piece_index |-> x] : x \in
        IF rows_in_place(row_inds(h)) = {} THEN {} ELSE 0..(ExtendedSegments - 1)}
    \cup
    {[x |-> x, piece_index |-> y] : x \in cols_in_place(col_inds(h)), y \in 0..(2 * h.rows - 1)}

-----------------------------------------------------------------------------
(* The chain *)

\* A block takes some of the claims in the pool.
new_block ==
    /\ best < MaxBest
    /\ best' = best + 1
    /\ \E included \in SUBSET claim_pool : claim_pool' = claim_pool \ included
    /\ UNCHANGED <<loopState, claims, farm_restarts>>

\* The pool drops a claim: it is invalid, or its time is over.
drop_tx ==
    /\ \E c \in claim_pool : claim_pool' = claim_pool \ {c}
    /\ UNCHANGED <<loopState, best, claims, farm_restarts>>

-----------------------------------------------------------------------------
(* The loop *)

\* Headers without data are left.
receive_best ==
    /\ farm = "waiting" /\ farm_next <= best
    /\ farm_next' = farm_next + 1
    /\ \E rows \in RowCounts, hash \in Hash :
        \/ rows = 0 /\ UNCHANGED <<farm, farm_data>>
        \/ rows > 0 /\ farm' = "sending" /\ farm_data' = {[rows |-> rows, hash |-> hash]}
    /\ UNCHANGED <<farm_channel, solutions, db_locked, watched, chainState, claims, farm_restarts>>

receive_best_error ==
    /\ farm = "waiting" /\ farm_next <= best
    /\ farm_next' = farm_next + 1
    /\ UNCHANGED <<farm, farm_data, farm_channel, solutions, db_locked, watched,
                   chainState, claims, farm_restarts>>

send_header ==
    /\ farm = "sending" /\ farm_channel < FarmCapacity
    /\ farm_channel' = farm_channel + 1
    /\ farm' = "fetching"
    /\ UNCHANGED <<farm_data, farm_next, solutions, db_locked, watched, chainState, claims,
                   farm_restarts>>

\* The header is left.
fetch_error ==
    /\ farm = "fetching"
    /\ farm' = "waiting" /\ farm_data' = {}
    /\ UNCHANGED <<farm_next, farm_channel, solutions, db_locked, watched, chainState, claims,
                   farm_restarts>>

\* The values of a second column have no commitment: the task panics, both channels
\* close and the program ends.
fetch_abort ==
    /\ farm = "fetching"
    /\ \E h \in farm_data : extendable(h) /\ Len(col_inds(h)) > 1
    /\ farm' = "closed" /\ farm_data' = {}
    /\ UNCHANGED <<farm_next, farm_channel, solutions, db_locked, watched, chainState, claims,
                   farm_restarts>>

fetched ==
    /\ farm = "fetching"
    /\ \A h \in farm_data : extendable(h)
    /\ farm' = "saving"
    /\ UNCHANGED <<farm_data, farm_next, farm_channel, solutions, db_locked, watched,
                   chainState, claims, farm_restarts>>

\* The pieces are saved and the solutions of each cell looked up.
save_and_find ==
    /\ farm = "saving" /\ ~db_locked
    /\ db_locked' = TRUE
    /\ solutions' \in 0..MaxSolutions
    /\ solutions' > 0 => \E h \in farm_data : cells(h) # {}
    /\ farm' = "claiming" /\ farm_data' = {}
    /\ UNCHANGED <<farm_next, farm_channel, watched, chainState, claims, farm_restarts>>

submit_claim ==
    /\ farm = "claiming" /\ solutions > 0 /\ claims < MaxClaims
    /\ claims' = claims + 1
    /\ claim_pool' = claim_pool \cup {claims'}
    /\ solutions' = solutions - 1
    /\ watched' = claims'
    /\ farm' = "watching"
    /\ UNCHANGED <<farm_data, farm_next, farm_channel, db_locked, best,
                   farm_restarts>>

submit_claim_error ==
    /\ farm = "claiming" /\ solutions > 0
    /\ solutions' = solutions - 1
    /\ UNCHANGED <<farm, farm_data, farm_next, farm_channel, db_locked, watched,
                   chainState, claims, farm_restarts>>

\* Wrong variant: submitting the claim is enough.
claim_ended_submitted == TRUE

\* The claim is final, failed or dropped; a claim in a block, which is not retracted
\* here, counts as ended.
claim_ended == watched \notin claim_pool

wait_for_finalized ==
    /\ farm = "watching" /\ claim_ended
    /\ farm' = "claiming" /\ watched' = 0
    /\ UNCHANGED <<farm_data, farm_next, farm_channel, solutions, db_locked, chainState,
                   claims, farm_restarts>>

\* Wrong variant: the guard lives on.
unlocked_kept == UNCHANGED db_locked

\* The guard goes out of scope.
unlocked == db_locked' = FALSE

header_done ==
    /\ farm = "claiming" /\ solutions = 0
    /\ unlocked
    /\ farm' = "waiting"
    /\ UNCHANGED <<farm_data, farm_next, farm_channel, solutions, watched, chainState, claims,
                   farm_restarts>>

disconnect_best ==
    /\ farm = "waiting"
    /\ farm' = "closed"
    /\ UNCHANGED <<farm_data, farm_next, farm_channel, solutions, db_locked, watched,
                   chainState, claims, farm_restarts>>

\* The program is stopped, or has ended, and starts at the best block.
farm_restart ==
    /\ farm_restarts < MaxFarmRestarts
    /\ farm_restarts' = farm_restarts + 1
    /\ farm' = "waiting" /\ farm_next' = best /\ farm_channel' = 0
    /\ farm_data' = {}
    /\ solutions' = 0 /\ db_locked' = FALSE /\ watched' = 0
    /\ UNCHANGED <<chainState, claims>>

FarmInit ==
    /\ farm = "waiting" /\ farm_data = {} /\ farm_next = 1 /\ farm_channel = 0
    /\ solutions = 0 /\ db_locked = FALSE /\ watched = 0 /\ claims = 0
    /\ claim_pool = {} /\ best = 1
    /\ farm_restarts = 0

fetch == fetch_error \/ fetch_abort \/ fetched
claim_step == submit_claim \/ submit_claim_error \/ wait_for_finalized \/ header_done
settle == new_block \/ drop_tx

FarmNext ==
    \/ settle
    \/ receive_best \/ receive_best_error
    \/ send_header
    \/ fetch
    \/ save_and_find
    \/ claim_step
    \/ disconnect_best \/ farm_restart

\* tokio polls the task, requests end with a value or a timeout, and a claim is
\* included or dropped in the end.
FarmFairness == WF_farmVars(send_header) /\ WF_farmVars(fetch)
                /\ WF_farmVars(save_and_find) /\ WF_farmVars(claim_step) /\ WF_farmVars(settle)

FarmSpec == FarmInit /\ [][FarmNext]_farmVars /\ FarmFairness

-----------------------------------------------------------------------------
(* Correctness *)

\* A header that still has room in the channel is done with: the loop gets back to
\* the subscription although it holds the database while it waits for its claims,
\* or the program has ended.
EarlyHeadersFinish ==
    farm = "sending" /\ farm_channel < FarmCapacity ~> farm \in {"waiting", "closed"}

\* The farmer has one claim on its way, however many solutions it finds: those of a
\* header are claimed one after the other, each until it has ended.  Only a restart, which
\* comes back to the best block, adds one (claims of the farmer's event_handler).
OneClaimInFlight == Cardinality(claim_pool) <= 1 + farm_restarts

\* The index with the same place counted from the other end of its byte.
mirror(i) == (i \div ByteBits) * ByteBits + (ByteBits - 1 - (i % ByteBits))

\* The farmer selects an index exactly when the chain accepts its mirror image in the
\* byte: select_indices and is_index_valid count bits from different ends.
SelectionMirrorsValidation ==
    \A h \in farm_data, i \in 0..(HashBits - 1) :
        i \in ToSet(select_indices(h.hash, 0, HashBits, 1))
            <=> is_index_valid(h.hash, mirror(i), HashBytes, 1)

-----------------------------------------------------------------------------
(* What the comments of the code say *)

\* "Checks if the index is valid based on the XORed hash of farmer ID and block hash",
\* the hash that select_indices selects by: what is selected is valid.
SelectedIsValid ==
    \A h \in farm_data : \A i \in ToSet(col_inds(h)) : is_index_valid(h.hash, i, HashBytes, 1)

\* "Verifies the KZG proof for this pre-cell's segment of data": a proof that is right
\* verifies, whatever the column of the segment.
PreCellsVerify == \A x \in 0..(ExtendedSegments - 1) : verify_kzg_proof(x)

\* Every header that was received is handled.
HeadersHandled == farm = "sending" ~> farm \in {"waiting", "closed"}

\* The rows that the hash selects are fetched when the network holds them.
SelectedRowsFetched ==
    \A h \in farm_data : rows_in_place(row_inds(h)) = 0..(Len(row_inds(h)) - 1)
=============================================================================
