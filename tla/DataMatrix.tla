----------------------------- MODULE DataMatrix -----------------------------
(***************************************************************************)
(* The data of one block as the network holds it (crates/daser/network.rs, *)
(* tx_pool_handler.rs; keys and samples from core-primitives; extension    *)
(* and recovery from melo-erasure-coding).                                 *)
(*                                                                         *)
(* Every blob is a row of segments, half of them parity.  The rows of the  *)
(* block are those of its submissions one after the other, and as many     *)
(* parity rows below them.  The segments of a submission are kept under    *)
(* the submission's key and the row inside it, those of parity rows under  *)
(* the block and the row in the block.  A segment is its row in the block, *)
(* its column and the point at which its proof opens the row; a commitment *)
(* is the number of its row.  The data of two places differ.               *)
(***************************************************************************)
EXTENDS Integers, Sequences, FiniteSets

CONSTANTS
    Segments,       \* EXTENDED_SEGMENTS_PER_BLOB
    MaxApps,        \* bound: submissions in the block
    MaxCount,       \* bound: blobs of a submission
    MaxLost         \* bound: records that get lost

is_power_of_two(n) == \E e \in 0..n : n = 2 ^ e

ASSUME MatrixAssumption ==
    /\ Segments \in Nat \ {0} /\ Segments % 2 = 0 /\ is_power_of_two(Segments)
    /\ MaxApps \in Nat \ {0} /\ MaxCount \in Nat \ {0} /\ MaxLost \in Nat

VARIABLES
    app_lookup, \* the counts of the block's submissions, in the header's order
    records,    \* the records of the network: a function from keys to segments
    lost        \* records lost so far

matrixVars == <<app_lookup, records, lost>>

Col == 0..(Segments - 1)
App == 1..Len(app_lookup)

\* The rows before submission i of a block with these counts.
rows_before(counts, i) ==
    LET before[n \in 0..Len(counts)] == IF n = 0 THEN 0 ELSE before[n - 1] + counts[n]
    IN  before[i - 1]

start_at(i) == rows_before(app_lookup, i)

rows == start_at(Len(app_lookup) + 1)
Row == 0..(rows - 1)
ExtRow == 0..(2 * rows - 1)

\* The submission that row `at` belongs to, and the row inside it.
get_lookup(at) ==
    LET i == CHOOSE j \in App : start_at(j) <= at /\ at < start_at(j) + app_lookup[j]
    IN  <<i, at - start_at(i)>>

sample_key(i, x, y) == <<"app", i, x, y>>
sample_key_from_block(x, y) == <<"block", 0, x, y>>

None == <<>>
value(key) == IF key \in DOMAIN records THEN records[key] ELSE None

\* The point at which chunk x of chunk_count is opened.  The roots of unity are as many
\* as a row has elements after extension; the reversal of bits, which keeps 0 and tells
\* chunks apart, is left out.
get_kzg_index(chunk_count, x) == x * (Segments \div (2 * chunk_count))

SEGMENTS_PER_BLOB == Segments \div 2

\* A segment as it is published and as samplers expect it.
segment(row, x) == <<row, x, get_kzg_index(SEGMENTS_PER_BLOB, x)>>

\* Wrong variant: any segment will do.
verify_values_any(v, commitment, x) == v # None

\* A proof holds for its own row, at the point of its own column.
verify_values(v, commitment, x) == v = segment(commitment, x)

-----------------------------------------------------------------------------
(* Commitments *)

\* Originals and parity alternate.
extend_fs_g1(y) == IF y % 2 = 0 THEN y \div 2 ELSE rows + y \div 2

\* Originals first, as the rows are numbered.
extend_and_reorder_elements(y) == y

-----------------------------------------------------------------------------
(* Fetching *)

\* A chunk of values taken for row y; half of a row is enough to recover it.
row_segments(values, y, commitment) ==
    [x \in Col |-> IF verify_values(values[y * Segments + x], commitment, x)
                     THEN [x |-> x, y |-> y, content |-> values[y * Segments + x]]
                     ELSE None]

some_count(segments) == Cardinality({x \in Col : segments[x] # None})

\* Wrong variant: half of the row is not enough.
row_available_more(segments) == some_count(segments) > Segments \div 2

row_available(segments) == some_count(segments) >= Segments \div 2

\* Recovery keeps the segments that are there.  The others get their data back, and a
\* proof made with the number of segments of the extended row.
recovery(segments, y, commitment) ==
    [x \in Col |-> IF segments[x] # None THEN segments[x]
                   ELSE [x |-> x, y |-> y,
                         content |-> <<commitment, x, get_kzg_index(Segments, x)>>]]

\* Otherwise it is an error.
recovery_ok(segments) ==
    is_power_of_two(Segments) /\ 2 * some_count(segments) >= Segments

needs_recovery(segments) == row_available(segments) /\ some_count(segments) < Segments

rows_values_handler(values, y, commitment) ==
    LET segments == row_segments(values, y, commitment) IN
        IF needs_recovery(segments) /\ recovery_ok(segments)
          THEN recovery(segments, y, commitment) ELSE segments

row_ok(values, y, commitment) ==
    LET segments == row_segments(values, y, commitment) IN
        row_available(segments) /\ (needs_recovery(segments) => recovery_ok(segments))

\* The keys of the block, submission by submission, column by column.
prepare_keys ==
    LET offset(i) == start_at(i) * Segments
        size(i) == app_lookup[i] * Segments
    IN  [n \in 0..(rows * Segments - 1) |->
            LET i == CHOOSE j \in App : offset(j) <= n /\ n < offset(j) + size(j)
                m == n - offset(i)
            IN  sample_key(i, m \div app_lookup[i], m % app_lookup[i])]

block_values == [n \in 0..(rows * Segments - 1) |-> value(prepare_keys[n])]

\* fetch_block: row after row, until one is not available.
fetch_block_available == \A y \in Row : row_ok(block_values, y, y)
fetch_block ==
    [y \in {r \in Row : \A q \in 0..(r - 1) : row_ok(block_values, q, q)} |->
        rows_values_handler(block_values, y, y)]

\* Row y of the block: the key of an original row takes the row of the block.
prepare_rows_keys(y) ==
    [x \in Col |-> IF y < rows THEN sample_key(get_lookup(y)[1], x, y)
                              ELSE sample_key_from_block(x, y)]

\* fetch_rows for one row: the first chunk, taken for row 0.
fetch_rows(y) ==
    rows_values_handler([x \in Col |-> value(prepare_rows_keys(y)[x])],
                        0, extend_and_reorder_elements(0))

prepare_cols_keys(x) ==
    [y \in ExtRow |-> IF y < rows THEN sample_key(get_lookup(y)[1], x, y)
                                 ELSE sample_key_from_block(x, y)]

\* fetch_cols for one column: the first chunk, taken for column 0.
fetch_cols(x) ==
    [y \in ExtRow |->
        LET v == value(prepare_cols_keys(x)[y]) IN
            IF verify_values(v, extend_and_reorder_elements(y), 0)
              THEN [x |-> 0, y |-> y, content |-> v] ELSE None]

\* The bound is doubled twice: every segment of the column has to be there.
fetch_cols_available(x) == \A y \in ExtRow : fetch_cols(x)[y] # None

-----------------------------------------------------------------------------
(* Sampling *)

\* Wrong variant: the row of the block in the key.
app_sample_key_absolute(i, x, y) == sample_key(i, x, start_at(i) + y)

app_sample_key(i, x, y) == sample_key(i, x, y)

\* A sample of submission i: its own commitments, in its own rows.
app_sample_found(i, x, y) ==
    verify_values(value(app_sample_key(i, x, y)), start_at(i) + y, x)

block_sample_key(x, y) ==
    IF y < rows THEN LET l == get_lookup(y) IN sample_key(l[1], x, l[2])
                ELSE sample_key_from_block(x, y)

\* A sample of the block: the commitments are those of extend_fs_g1.
block_sample_found(x, y) ==
    verify_values(value(block_sample_key(x, y)), extend_fs_g1(y), x)

-----------------------------------------------------------------------------
(* What changes the records *)

\* Puts pairs of a key and a segment.
put_values(pairs) ==
    LET keys == {p[1] : p \in pairs} IN
        records' = [key \in keys \cup DOMAIN records |->
                        IF key \in keys THEN (CHOOSE p \in pairs : p[1] = key)[2]
                                        ELSE records[key]]

\* put_bytes publishes the rows of submission i, again when it is tried again.
put_bytes(i) ==
    /\ put_values({<<sample_key(i, x, y), segment(start_at(i) + y, x)>> :
                        x \in Col, y \in 0..(app_lookup[i] - 1)})
    /\ UNCHANGED <<app_lookup, lost>>

\* A record is gone: its holders left, or it was removed.
lose(key) ==
    /\ key \in DOMAIN records /\ lost < MaxLost
    /\ records' = [k \in DOMAIN records \ {key} |-> records[k]]
    /\ lost' = lost + 1
    /\ UNCHANGED app_lookup

\* Wrong variant: parity rows start one row too low.
extension_row_next(i) == rows + i + 1

extension_row(i) == rows + i

\* The point of no proof.
Mixed == -1

\* Proofs are extended as they are: proofs at one point give proofs at this point,
\* proofs at several points give proofs of nothing.
extended_proof(col) == IF \A y \in Row : col[y] = col[0] THEN col[0] ELSE Mixed

\* A column of originals gives as many parity segments, in the rows below.
extend_segments_col(block, x) ==
    LET at == extended_proof([y \in Row |-> block[y][x].content[3]]) IN
        {<<sample_key_from_block(x, extension_row(i)), <<rows + i, x, at>>>> : i \in Row}

\* A new best block: it is fetched, and when it is available each column is
\* extended and its parity is put.
new_best_block ==
    /\ fetch_block_available
    /\ is_power_of_two(rows)
    /\ LET block == fetch_block IN
           put_values(UNION {extend_segments_col(block, x) : x \in Col})
    /\ UNCHANGED <<app_lookup, lost>>

MatrixInit ==
    /\ app_lookup \in UNION {[1..n -> 1..MaxCount] : n \in 1..MaxApps}
    /\ records = [key \in {} |-> None]
    /\ lost = 0

MatrixNext ==
    \/ \E i \in App : put_bytes(i)
    \/ \E key \in DOMAIN records : lose(key)
    \/ new_best_block

MatrixSpec == MatrixInit /\ [][MatrixNext]_matrixVars

-----------------------------------------------------------------------------
(* Correctness *)

\* A block is called available only if at least half of the segments of each of its
\* rows are still in the network (fetch_block).
AvailableIsRecoverable ==
    fetch_block_available =>
        \A i \in App : \A y \in 0..(app_lookup[i] - 1) :
            2 * Cardinality({x \in Col : sample_key(i, x, y) \in DOMAIN records}) >= Segments

\* In a block of single blobs, parity that is put verifies against the commitment of
\* its row exactly if the whole column was in the network when the block was fetched:
\* a proof that recovery made opens the row in another place, the first column apart,
\* and spoils the parity of its column (recover_segment_datas, extend_segments_col).
ParityOfHeldColumnsVerifies ==
    [][(\A i \in App : app_lookup[i] = 1) =>
         \A x \in Col, y \in rows..(2 * rows - 1) :
            LET key == sample_key_from_block(x, y) IN
                key \in DOMAIN records' /\ records'[key] # value(key) =>
                    (verify_values(records'[key], y, x) <=>
                        x = 0 \/ \A i \in App : sample_key(i, x, 0) \in DOMAIN records)]_matrixVars

\* Sampling an application finds every segment the network holds of it, for every
\* way submissions share a block.
AppSamplesFound ==
    \A i \in App : \A x \in Col, y \in 0..(app_lookup[i] - 1) :
        app_sample_found(i, x, y) <=> sample_key(i, x, y) \in DOMAIN records

\* A block of single blobs whose rows can be recovered is found available.
SingleBlobsAvailable ==
    /\ \A i \in App : app_lookup[i] = 1
    /\ \A i \in App : 2 * Cardinality({x \in Col : sample_key(i, x, 0) \in DOMAIN records})
                          >= Segments
    => fetch_block_available

-----------------------------------------------------------------------------
(* What the comments of the code say *)

all_held ==
    \A i \in App : \A x \in Col, y \in 0..(app_lookup[i] - 1) :
        sample_key(i, x, y) \in DOMAIN records

parity_held ==
    \A x \in Col, y \in rows..(2 * rows - 1) :
        sample_key_from_block(x, y) \in DOMAIN records

\* "The homomorphic property of KZG commitments is used to extend the proof to the correct
\* commitment of the row where the data is located": parity that is in the network verifies.
ExtendedProofsVerify ==
    \A x \in Col, y \in rows..(2 * rows - 1) :
        sample_key_from_block(x, y) \in DOMAIN records =>
            verify_values(records[sample_key_from_block(x, y)], y, x)

\* "Restore and extend the best block's data": a block of which every segment is in
\* the network is found available.
HeldBlockAvailable == all_held => fetch_block_available

\* fetch_rows: "each element represents a segment at the corresponding index": an
\* original row that is in the network is returned under its index.
HeldRowFetched ==
    all_held => \A y \in Row : \A x \in Col :
        fetch_rows(y)[x] # None /\ fetch_rows(y)[x].y = y

\* fetch_cols: "true if available": a column that is in the network is available.
HeldColumnAvailable ==
    all_held /\ parity_held => \A x \in Col : fetch_cols_available(x)

\* "Sample blocks after finalization to determine block data availability": every
\* sample of a block that is in the network with its parity is found.
HeldBlockSamplesFound ==
    all_held /\ parity_held => \A x \in Col, y \in ExtRow : block_sample_found(x, y)
=============================================================================
