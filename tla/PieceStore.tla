----------------------------- MODULE PieceStore -----------------------------
(***************************************************************************)
(* The farmer's store of pieces (crates/proof-of-space: piece.rs,          *)
(* y_value_manager.rs, z_value_manager.rs, solution.rs) as the header      *)
(* loop of the farmer fills it (farmer/event_handler.rs).                  *)
(*                                                                         *)
(* A piece is a row or a column of a block.  Saving one files each of its  *)
(* cells under its y value, looks up the cells with the same y at the      *)
(* neighbouring offset and files the pairs under their z value, where      *)
(* find_solutions looks for the challenge of a later block.                *)
(*                                                                         *)
(* Segments are triples of a header, a row and a column, so that contents  *)
(* differ.  y values are drawn at the start and z is a free constructor:   *)
(* hashes collide where the code depends on it (y) and nowhere else.       *)
(***************************************************************************)
EXTENDS Integers, Sequences, FiniteSets

CONSTANTS
    Header,         \* headers the farmer may see, forks of one height included
    MaxNumber,      \* bound: block numbers
    Rows,           \* rows of a block with its parity
    Segments,       \* EXTENDED_SEGMENTS_PER_BLOB
    MaxY,           \* bound: y values
    MaxHandled      \* bound: headers handled

ASSUME PieceAssumption ==
    /\ Rows \in Nat \ {0} /\ Segments \in Nat \ {0} /\ Segments % 2 = 0
    /\ MaxNumber \in Nat \ {0} /\ MaxY \in Nat \ {0} /\ MaxHandled \in Nat

VARIABLES
    number,     \* the block number of each header
    y_of,       \* the farmer's y value of each segment
    db,         \* [pieces, ys, zs]: the farmer's database
    replaced,   \* history: keys of pieces that were saved more than once
    broken,     \* history: keys of pieces whose last save did not end
    handled     \* headers handled so far

pieceVars == <<number, y_of, db, replaced, broken, handled>>

Col == 0..(Segments - 1)
Row == 0..(Rows - 1)
Segment == Header \X Row \X Col

None == <<>>

\* A row piece is named by the column of its first segment and a column piece by the
\* row of its first segment.
from_row(seg) == <<"Row", seg[3]>>
from_column(seg) == <<"Column", seg[2]>>

piece_key(block_num, pos) == <<block_num, pos>>
cell_metadata(key, offset) == [piece |-> key, offset |-> offset]

-----------------------------------------------------------------------------
(* The y and z indexes *)

is_left(offset) == offset % 2 = 0

\* Wrong variant: the neighbour is always the next cell.
match_x_pos_next(offset) == offset + 1

match_x_pos(offset) == IF is_left(offset) THEN offset + 1 ELSE offset - 1

is_pair(a, b) ==
    \/ is_left(a.offset) /\ b.offset = a.offset + 1
    \/ ~is_left(a.offset) /\ b.offset = a.offset - 1

\* Piece::get_cell: none when the piece is shorter now.
has_cell(pieces, mc) ==
    mc.piece \in DOMAIN pieces /\ mc.offset < Len(pieces[mc.piece])
get_cell(pieces, mc) == pieces[mc.piece][mc.offset + 1]

calculate_z(left, right) == <<left, right>>

\* Wrong variant: the cells of the piece are all filed before the first is matched.
filed_whole(key, segs, i) ==
    {<<y_of[segs[j + 1]], cell_metadata(key, j)>> :
        j \in {k \in 0..(Len(segs) - 1) : y_of[segs[k + 1]] # 0}}

\* YValueManager::save of the cells up to offset i; y = 0 is not filed.
filed(key, segs, i) ==
    {<<y_of[segs[j + 1]], cell_metadata(key, j)>> :
        j \in {k \in 0..i : y_of[segs[k + 1]] # 0}}

\* match_cells for the cell at offset i.
match_cells(ys, y, i) ==
    {mc \in {e[2] : e \in {f \in ys : f[1] = y}} : mc.offset = match_x_pos(i)}

\* Wrong variant: z of the cell itself first, whatever its side.
pair_z_own_first(i, own, other) == calculate_z(own, other)

\* The left cell comes first in z.
pair_z(i, own, other) ==
    IF is_left(i) THEN calculate_z(own, other) ELSE calculate_z(other, own)

\* ZValueManager::new and save: the cell itself comes first in the pair.
pairs_of(pieces, ys, key, segs, i) ==
    {[z |-> pair_z(i, segs[i + 1], get_cell(pieces, mc)),
      left |-> cell_metadata(key, i), right |-> mc] :
        mc \in {m \in match_cells(ys, y_of[segs[i + 1]], i) : has_cell(pieces, m)}}

\* Piece::save as far as `done` cells were handled and `last` is the highest offset
\* that is filed.
save_until(d, piece, done, last) ==
    LET key == piece[1]
        segs == piece[2]
        pieces == [k \in DOMAIN d.pieces \cup {key} |->
                        IF k = key THEN segs ELSE d.pieces[k]]
    IN  [pieces |-> pieces,
         ys     |-> d.ys \cup filed(key, segs, last),
         zs     |-> d.zs \cup UNION {pairs_of(pieces, d.ys \cup filed(key, segs, i),
                                              key, segs, i) : i \in 0..(done - 1)}]

-----------------------------------------------------------------------------
(* The farmer *)

\* The columns of a row that fetch_rows may return: all of them once half were there
\* (rows_values_handler), else those that were found.
row_columns == {Col} \cup {s \in SUBSET Col : 2 * Cardinality(s) < Segments}

\* Rows are verified by their place in the answer, so that those that come through are
\* the first rows of the block, and of the columns at most column 0.  A row that was not
\* asked for has no segments here.
fetched_rows(h) ==
    {[p \in 1..(Rows * Segments) |->
        LET y == (p - 1) \div Segments
            x == (p - 1) % Segments
        IN  IF x \in found[y + 1] THEN <<h, y, x>> ELSE None] : found \in [1..Rows -> row_columns]}

fetched_cols(h) ==
    {[p \in 1..Rows |-> IF p - 1 \in found THEN <<h, p - 1, 0>> ELSE None] : found \in SUBSET Row}

chunk_count(segments) == (Len(segments) + Segments - 1) \div Segments
chunk(segments, c) ==
    SubSeq(segments, (c - 1) * Segments + 1,
           IF c * Segments < Len(segments) THEN c * Segments ELSE Len(segments))

\* The segments of a chunk that are there.
segment_vec(segments) ==
    LET kept[n \in 0..Len(segments)] ==
            IF n = 0 THEN <<>>
            ELSE IF segments[n] = None THEN kept[n - 1]
            ELSE Append(kept[n - 1], segments[n])
    IN  kept[Len(segments)]

\* A chunk with segments is a piece, one without is passed over.
row_piece(h, segs) ==
    IF segs = <<>> THEN None ELSE <<piece_key(number[h], from_row(segs[1])), segs>>
column_piece(h, segs) ==
    IF segs = <<>> THEN None ELSE <<piece_key(number[h], from_column(segs[1])), segs>>

\* process_segments of the rows and then of the columns: the pieces to save.
process_segments(h, rs, cs) ==
    [c \in 1..(chunk_count(rs) + chunk_count(cs)) |->
        IF c <= chunk_count(rs) THEN row_piece(h, segment_vec(chunk(rs, c)))
                                ELSE column_piece(h, segment_vec(chunk(cs, c - chunk_count(rs))))]

\* The pieces a header may lead to.
fetched(h) == {process_segments(h, rs, cs) : rs \in fetched_rows(h), cs \in fetched_cols(h)}

\* The database with the history of its pieces.
Store == [db |-> db, replaced |-> replaced, broken |-> broken]

\* A piece is saved, up to its end or not.
save_piece(st, piece, done, last) ==
    [db       |-> save_until(st.db, piece, done, last),
     replaced |-> st.replaced \cup ({piece[1]} \cap DOMAIN st.db.pieces),
     broken   |-> IF done = Len(piece[2]) THEN st.broken \ {piece[1]}
                                          ELSE st.broken \cup {piece[1]}]

save(st, piece) ==
    IF piece = None THEN st ELSE save_piece(st, piece, Len(piece[2]), Len(piece[2]) - 1)

\* The first n pieces of the list are saved one after the other.
saved(st, list, n) ==
    LET after[i \in 0..Len(list)] == IF i = 0 THEN st ELSE save(after[i - 1], list[i])
    IN  after[n]

becomes(st) == db' = st.db /\ replaced' = st.replaced /\ broken' = st.broken

\* The pieces of a header are saved under one lock.
handle_header(h) ==
    /\ handled < MaxHandled
    /\ \E list \in fetched(h) : becomes(saved(Store, list, Len(list)))
    /\ handled' = handled + 1
    /\ UNCHANGED <<number, y_of>>

\* The farmer stops while it saves a piece: each set of the database is on its own,
\* and the header is not handled again after the restart.
crash_while_saving(h) ==
    /\ handled < MaxHandled
    /\ \E list \in fetched(h) : \E i \in {j \in 1..Len(list) : list[j] # None} :
        LET before == saved(Store, list, i - 1) IN
            \E done \in 0..(Len(list[i][2]) - 1) : \E last \in {done - 1, done} :
                becomes(save_piece(before, list[i], done, last))
    /\ handled' = handled + 1
    /\ UNCHANGED <<number, y_of>>

\* find_solutions for challenge z: the pairs filed under it whose cells are there.
find_solutions(z) ==
    {[left  |-> [metadata |-> e.left,  seg |-> get_cell(db.pieces, e.left)],
      right |-> [metadata |-> e.right, seg |-> get_cell(db.pieces, e.right)]] :
        e \in {f \in db.zs : /\ f.z = z
                             /\ has_cell(db.pieces, f.left) /\ has_cell(db.pieces, f.right)}}

\* ZValueManager::verify, what validate_win_cell asks of the two cells.
verify(z, left, right) ==
    /\ z = calculate_z(left.seg, right.seg)
    /\ is_pair(left.metadata, right.metadata)
    /\ y_of[left.seg] = y_of[right.seg]

PieceInit ==
    /\ number \in [Header -> 1..MaxNumber]
    /\ y_of \in [Segment -> 0..MaxY]
    /\ db = [pieces |-> [k \in {} |-> <<>>], ys |-> {}, zs |-> {}]
    /\ replaced = {}
    /\ broken = {}
    /\ handled = 0

PieceNext == \E h \in Header : handle_header(h) \/ crash_while_saving(h)

PieceSpec == PieceInit /\ [][PieceNext]_pieceVars

-----------------------------------------------------------------------------
(* Correctness *)

PieceKey == (1..MaxNumber) \X ({"Row", "Column"} \X (0..(Rows + Segments)))
CellMetadata == [piece : PieceKey, offset : 0..(Rows + Segments)]

\* The cells of the pieces that are stored now.
stored == {cell_metadata(k, i) : k \in DOMAIN db.pieces, i \in Row \cup Col}
stored_cells == {mc \in stored : has_cell(db.pieces, mc)}
seg_of(mc) == get_cell(db.pieces, mc)

\* The matching done piece by piece finds every pair: whatever the order in which
\* pieces arrive and replace each other, and whatever a crash left behind, two stored
\* cells of pieces saved to the end, with the same y value and at a left offset and
\* the one right of it, are filed under the z value of the two.
PairsComplete ==
    \A l, r \in stored_cells :
        /\ l.piece \notin broken /\ r.piece \notin broken
        /\ is_left(l.offset) /\ r.offset = l.offset + 1
        /\ y_of[seg_of(l)] = y_of[seg_of(r)] /\ y_of[seg_of(l)] # 0
        => \E e \in db.zs : /\ e.z = calculate_z(seg_of(l), seg_of(r))
                            /\ {e.left, e.right} = {l, r}

\* Both pieces of the pair are the ones it was filed for.
untouched(e) == e.left.piece \notin replaced /\ e.right.piece \notin replaced

\* The cells of a pair, the left one first.
in_order(e) == IF is_left(e.left.offset) THEN <<e.left, e.right>> ELSE <<e.right, e.left>>
cell_at(mc) == [metadata |-> mc, seg |-> seg_of(mc)]

\* A pair of pieces that were never replaced passes ZValueManager::verify, the check of
\* the y and z values, when its cells are given left one first.  The index and the proofs
\* that Solution::verify looks at besides are not part of the pair.
PairsVerifyInOrder ==
    \A e \in db.zs : untouched(e) =>
        verify(e.z, cell_at(in_order(e)[1]), cell_at(in_order(e)[2]))

\* A pair is filed once, whichever of its cells comes later, so that one look at a z value
\* (find_solutions, called for each pre-cell) gives it once.
PairsFiledOnce ==
    \A e, f \in db.zs :
        untouched(e) /\ {e.left, e.right} = {f.left, f.right} => e = f

-----------------------------------------------------------------------------
(* What the comments of the code say *)

\* ZValueManager::new: "`left`: Metadata for the left cell": what find_solutions
\* returns for a challenge is accepted by the chain.
FoundSolutionsVerify ==
    \A e \in db.zs : \A s \in find_solutions(e.z) : verify(e.z, s.left, s.right)

\* PiecePosition::from_row: "as a row": the rows of a block are different pieces.
RowsKept == \A k \in replaced : k[2][1] # "Row"
=============================================================================
