---------------------------- MODULE PieceProofs ----------------------------
(***************************************************************************)
(* Proofs about PieceStore for blocks with any number of rows and          *)
(* segments, any y values and any number of headers and crashes.           *)
(***************************************************************************)
EXTENDS PieceStore, SequenceTheorems, WellFoundedInduction, NaturalsInduction, TLAPS

-----------------------------------------------------------------------------
(* One piece *)

\* What a save of the piece under key, of which `done` cells were matched and those up to
\* `last` filed, makes of the pieces P, the y index Y and the z index Z.
NewY(y, key, segs, last, f) ==
    \E j \in 0..last : y[segs[j + 1]] # 0 /\ f = <<y[segs[j + 1]], cell_metadata(key, j)>>

NewZ(y, P, Y, key, segs, i, f, e) ==
    /\ f \in Y \/ NewY(y, key, segs, i, f)
    /\ f[1] = y[segs[i + 1]] /\ f[2].offset = match_x_pos(i) /\ has_cell(P, f[2])
    /\ e = [z |-> pair_z(i, segs[i + 1], get_cell(P, f[2])),
            left |-> cell_metadata(key, i), right |-> f[2]]

Saved(y, st, key, segs, done, last, t) ==
    /\ DOMAIN t.db.pieces = DOMAIN st.db.pieces \cup {key} /\ t.db.pieces[key] = segs
    /\ \A k \in DOMAIN st.db.pieces : k # key => t.db.pieces[k] = st.db.pieces[k]
    /\ \A f : f \in t.db.ys <=> f \in st.db.ys \/ NewY(y, key, segs, last, f)
    /\ \A e : e \in t.db.zs <=>
          e \in st.db.zs \/ \E i \in 0..(done - 1) : \E f : NewZ(y, t.db.pieces, st.db.ys, key, segs, i, f, e)
    /\ \A k : k \in t.replaced <=> k \in st.replaced \/ (k = key /\ key \in DOMAIN st.db.pieces)
    /\ \A k : k \in t.broken <=> (k # key /\ k \in st.broken) \/ (k = key /\ done # Len(segs))

LEMMA SavePiece ==
    ASSUME NEW st, NEW piece, NEW done, NEW last, NEW t, t = save_piece(st, piece, done, last)
    PROVE  Saved(y_of, st, piece[1], piece[2], done, last, t)
<1> DEFINE key == piece[1]  segs == piece[2]
           P == [k \in DOMAIN st.db.pieces \cup {key} |-> IF k = key THEN segs ELSE st.db.pieces[k]]
           pairs(i) == pairs_of(P, st.db.ys \cup filed(key, segs, i), key, segs, i)
<1>1. /\ t.db.pieces = P /\ t.db.ys = st.db.ys \cup filed(key, segs, last)
      /\ t.db.zs = st.db.zs \cup UNION {pairs(i) : i \in 0..(done - 1)}
      /\ t.replaced = st.replaced \cup ({key} \cap DOMAIN st.db.pieces)
      /\ t.broken = IF done = Len(segs) THEN st.broken \ {key} ELSE st.broken \cup {key}
  BY DEF save_piece, save_until
<1>2. /\ DOMAIN P = DOMAIN st.db.pieces \cup {key} /\ P[key] = segs
      /\ \A k \in DOMAIN st.db.pieces : k # key => P[k] = st.db.pieces[k]
  OBVIOUS
<1> HIDE DEF P
<1>3. ASSUME NEW i, NEW f PROVE f \in filed(key, segs, i) <=> NewY(y_of, key, segs, i, f)
  BY DEF filed, NewY
<1>4. ASSUME NEW i, NEW e
      PROVE  e \in pairs(i) <=> \E f : NewZ(y_of, P, st.db.ys, key, segs, i, f, e)
  <2> DEFINE Y == st.db.ys \cup filed(key, segs, i)
             cell(mc) == [z |-> pair_z(i, segs[i + 1], get_cell(P, mc)),
                          left |-> cell_metadata(key, i), right |-> mc]
  <2>1. pairs(i) = {cell(mc) : mc \in {m \in match_cells(Y, y_of[segs[i + 1]], i) : has_cell(P, m)}}
    BY DEF pairs_of
  <2>2. \A mc : mc \in match_cells(Y, y_of[segs[i + 1]], i) <=>
           \E f \in Y : f[1] = y_of[segs[i + 1]] /\ f[2] = mc /\ mc.offset = match_x_pos(i)
    BY DEF match_cells
  <2>3. \A f : f \in Y <=> f \in st.db.ys \/ NewY(y_of, key, segs, i, f)
    BY <1>3
  <2> HIDE DEF Y
  <2>4. e \in pairs(i) <=>
           \E f \in Y : /\ f[1] = y_of[segs[i + 1]] /\ f[2].offset = match_x_pos(i)
                        /\ has_cell(P, f[2]) /\ e = cell(f[2])
    <3> HIDE DEF cell, key, segs, pairs
    <3> QED
      BY <2>1, <2>2
  <2> QED
    BY <2>3, <2>4 DEF NewZ
<1> HIDE DEF key, segs, pairs
<1>5. \A e : e \in t.db.zs <=>
        e \in st.db.zs \/ \E i \in 0..(done - 1) : \E f : NewZ(y_of, P, st.db.ys, key, segs, i, f, e)
  BY <1>1, <1>4
<1>6. \A f : f \in t.db.ys <=> f \in st.db.ys \/ NewY(y_of, key, segs, last, f)
  BY <1>1, <1>3
<1>7. \A k : k \in t.replaced <=> k \in st.replaced \/ (k = key /\ key \in DOMAIN st.db.pieces)
  BY <1>1
<1>8. \A k : k \in t.broken <=> (k # key /\ k \in st.broken) \/ (k = key /\ done # Len(segs))
  BY <1>1
<1>9. Saved(y_of, st, key, segs, done, last, t)
  BY <1>1, <1>2, <1>5, <1>6, <1>7, <1>8 DEF Saved
<1> QED
  BY <1>9 DEF key, segs

\* The indexes name pieces that were saved.
IndexInv(st) ==
    /\ \A k \in DOMAIN st.db.pieces : Len(st.db.pieces[k]) \in Nat
    /\ \A f \in st.db.ys : f[2].piece \in DOMAIN st.db.pieces /\ f[2].offset \in Nat
                           /\ f[2] = cell_metadata(f[2].piece, f[2].offset)
    /\ \A e \in st.db.zs : e.left.piece \in DOMAIN st.db.pieces /\ e.right.piece \in DOMAIN st.db.pieces

\* The y index is right about pieces that were never replaced, and complete for those
\* whose last save ended.
YInv(y, st) ==
    /\ \A f \in st.db.ys : f[2].piece \notin st.replaced =>
          has_cell(st.db.pieces, f[2]) /\ f[1] = y[get_cell(st.db.pieces, f[2])]
    /\ \A k \in DOMAIN st.db.pieces : k \notin st.broken =>
          \A j \in 0..(Len(st.db.pieces[k]) - 1) :
              y[st.db.pieces[k][j + 1]] # 0 =>
                  <<y[st.db.pieces[k][j + 1]], cell_metadata(k, j)>> \in st.db.ys

\* A pair is one of neighbours with one y value, filed under their z value.
Pair(y, P, e) ==
    /\ e.left.offset \in Nat /\ e.right.offset = match_x_pos(e.left.offset)
    /\ e.z = pair_z(e.left.offset, get_cell(P, e.left), get_cell(P, e.right))
    /\ y[get_cell(P, e.left)] = y[get_cell(P, e.right)]

Intact(st, e) == e.left.piece \notin st.replaced /\ e.right.piece \notin st.replaced

PairInv(y, st) == \A e \in st.db.zs : Intact(st, e) => Pair(y, st.db.pieces, e)

OnceInv(st) ==
    \A e, f \in st.db.zs : Intact(st, e) /\ {e.left, e.right} = {f.left, f.right} => e = f

\* Cells j and n of pieces k and m are filed as a pair.
FiledPair(st, k, j, m, n) ==
    \E e \in st.db.zs :
        /\ e.z = <<st.db.pieces[k][j + 1], st.db.pieces[m][n + 1]>>
        /\ \/ e.left = cell_metadata(k, j) /\ e.right = cell_metadata(m, n)
           \/ e.left = cell_metadata(m, n) /\ e.right = cell_metadata(k, j)

\* Neighbours with one y value are filed.
CompleteInv(y, st) ==
    \A k, m \in DOMAIN st.db.pieces : k \notin st.broken /\ m \notin st.broken =>
        \A j \in 0..(Len(st.db.pieces[k]) - 1), n \in 0..(Len(st.db.pieces[m]) - 1) :
            /\ is_left(j) /\ n = j + 1
            /\ y[st.db.pieces[k][j + 1]] = y[st.db.pieces[m][n + 1]]
            /\ y[st.db.pieces[k][j + 1]] # 0
            => FiledPair(st, k, j, m, n)

StoreInv(y, st) ==
    IndexInv(st) /\ YInv(y, st) /\ PairInv(y, st) /\ OnceInv(st) /\ CompleteInv(y, st)

\* A save of a piece that was to the end, or that was not.
Progress(segs, done, last) ==
    /\ Len(segs) \in Nat /\ done \in 0..Len(segs) /\ last \in Int
    /\ last < Len(segs) /\ done - 1 <= last
    /\ done = Len(segs) => last = Len(segs) - 1

\* Cells that are there stay, unless their piece is saved again.
LEMMA CellsStay ==
    ASSUME NEW y, NEW st, NEW key, NEW segs, NEW done, NEW last, NEW t,
           Saved(y, st, key, segs, done, last, t),
           NEW mc, mc.piece \in DOMAIN st.db.pieces, mc.piece # key
    PROVE  /\ has_cell(t.db.pieces, mc) <=> has_cell(st.db.pieces, mc)
           /\ get_cell(t.db.pieces, mc) = get_cell(st.db.pieces, mc)
BY DEF Saved, has_cell, get_cell

LEMMA CellOf ==
    ASSUME NEW k, NEW j
    PROVE  cell_metadata(k, j).piece = k /\ cell_metadata(k, j).offset = j
BY DEF cell_metadata

LEMMA Matches ==
    ASSUME NEW i \in Nat
    PROVE  /\ match_x_pos(i) \in Nat /\ match_x_pos(i) # i
           /\ is_left(i) => match_x_pos(i) = i + 1
           /\ is_left(i) => ~is_left(i + 1) /\ match_x_pos(i + 1) = i
           /\ ~is_left(i) => match_x_pos(i) = i - 1 /\ is_left(i - 1)
BY DEF match_x_pos, is_left

LEMMA IndexSaved ==
    ASSUME NEW y, NEW st, NEW key, NEW segs, NEW done, NEW last, NEW t, Progress(segs, done, last),
           Saved(y, st, key, segs, done, last, t), IndexInv(st)
    PROVE  IndexInv(t)
<1>1. \A k \in DOMAIN t.db.pieces : Len(t.db.pieces[k]) \in Nat
  BY DEF Saved, IndexInv, Progress
<1>2. ASSUME NEW n \in Int, NEW f, f \in st.db.ys \/ NewY(y, key, segs, n, f)
      PROVE  /\ f[2].piece \in DOMAIN t.db.pieces /\ f[2].offset \in Nat
             /\ f[2] = cell_metadata(f[2].piece, f[2].offset)
  <2>1. CASE f \in st.db.ys
    BY <2>1 DEF Saved, IndexInv
  <2>2. CASE NewY(y, key, segs, n, f)
    <3>1. PICK j \in 0..n : f = <<y[segs[j + 1]], cell_metadata(key, j)>>
      BY <2>2 DEF NewY
    <3>2. f[2] = cell_metadata(key, j) /\ j \in Nat
      BY <3>1
    <3> QED
      BY <3>2, CellOf DEF Saved
  <2> QED
    BY <1>2, <2>1, <2>2
<1>3. \A f \in t.db.ys : f[2].piece \in DOMAIN t.db.pieces /\ f[2].offset \in Nat
                           /\ f[2] = cell_metadata(f[2].piece, f[2].offset)
  BY <1>2 DEF Saved, Progress
<1>4. ASSUME NEW e \in t.db.zs
      PROVE  e.left.piece \in DOMAIN t.db.pieces /\ e.right.piece \in DOMAIN t.db.pieces
  <2>1. CASE e \in st.db.zs
    BY <2>1 DEF Saved, IndexInv
  <2>2. CASE e \notin st.db.zs
    <3>1. PICK i \in 0..(done - 1) : \E f : NewZ(y, t.db.pieces, st.db.ys, key, segs, i, f, e)
      BY <2>2 DEF Saved
    <3>2. PICK f : NewZ(y, t.db.pieces, st.db.ys, key, segs, i, f, e)
      BY <3>1
    <3>3. f[2].piece \in DOMAIN t.db.pieces
      BY <1>2, <3>2 DEF NewZ
    <3>4. e.left = cell_metadata(key, i) /\ e.right = f[2]
      BY <3>2 DEF NewZ
    <3> QED
      BY <3>3, <3>4, CellOf DEF Saved
  <2> QED
    BY <2>1, <2>2
<1> QED
  BY <1>1, <1>3, <1>4 DEF IndexInv

\* In particular for the index as it is when cell i is matched.
LEMMA YRight ==
    ASSUME NEW y, NEW st, NEW key, NEW segs, NEW done, NEW last, NEW t, Progress(segs, done, last),
           Saved(y, st, key, segs, done, last, t), IndexInv(st), YInv(y, st),
           NEW n \in Int, n < Len(segs), NEW f, f \in st.db.ys \/ NewY(y, key, segs, n, f),
           f[2].piece \notin t.replaced
    PROVE  has_cell(t.db.pieces, f[2]) /\ f[1] = y[get_cell(t.db.pieces, f[2])]
<1>1. CASE f \in st.db.ys
  <2>1. f[2].piece \in DOMAIN st.db.pieces /\ f[2].piece \notin st.replaced /\ f[2].piece # key
    BY <1>1 DEF IndexInv, Saved
  <2>2. has_cell(st.db.pieces, f[2]) /\ f[1] = y[get_cell(st.db.pieces, f[2])]
    BY <1>1, <2>1 DEF YInv
  <2> QED
    BY <2>1, <2>2, CellsStay
<1>2. CASE NewY(y, key, segs, n, f)
  <2>1. PICK j \in 0..n : f = <<y[segs[j + 1]], cell_metadata(key, j)>>
    BY <1>2 DEF NewY
  <2>2. f[1] = y[segs[j + 1]] /\ f[2] = cell_metadata(key, j)
    BY <2>1
  <2>3. t.db.pieces[key] = segs /\ key \in DOMAIN t.db.pieces
    BY DEF Saved
  <2>4. j < Len(segs)
    BY DEF Progress
  <2> QED
    BY <2>2, <2>3, <2>4, CellOf DEF has_cell, get_cell
<1> QED
  BY <1>1, <1>2

LEMMA YSaved ==
    ASSUME NEW y, NEW st, NEW key, NEW segs, NEW done, NEW last, NEW t, Progress(segs, done, last),
           Saved(y, st, key, segs, done, last, t), IndexInv(st), YInv(y, st)
    PROVE  YInv(y, t)
<1>1. ASSUME NEW f \in t.db.ys, f[2].piece \notin t.replaced
      PROVE  has_cell(t.db.pieces, f[2]) /\ f[1] = y[get_cell(t.db.pieces, f[2])]
  <2>1. f \in st.db.ys \/ NewY(y, key, segs, last, f)
    BY DEF Saved
  <2>2. last \in Int /\ last < Len(segs)
    BY DEF Progress
  <2> QED
    BY <1>1, <2>1, <2>2, YRight
<1>2. ASSUME NEW k \in DOMAIN t.db.pieces, k \notin t.broken,
             NEW j \in 0..(Len(t.db.pieces[k]) - 1), y[t.db.pieces[k][j + 1]] # 0
      PROVE  <<y[t.db.pieces[k][j + 1]], cell_metadata(k, j)>> \in t.db.ys
  <2> DEFINE f == <<y[t.db.pieces[k][j + 1]], cell_metadata(k, j)>>
  <2>1. CASE k = key
    <3>1. t.db.pieces[k] = segs /\ done = Len(segs)
      BY <1>2, <2>1 DEF Saved
    <3>2. j \in 0..last
      BY <3>1 DEF Progress
    <3>3. NewY(y, key, segs, last, f)
      BY <1>2, <2>1, <3>1, <3>2 DEF NewY
    <3> HIDE DEF f
    <3>4. f \in t.db.ys
      BY <3>3 DEF Saved
    <3> QED
      BY <3>4 DEF f
  <2>2. CASE k # key
    <3>1. k \in DOMAIN st.db.pieces /\ t.db.pieces[k] = st.db.pieces[k] /\ k \notin st.broken
      BY <1>2, <2>2 DEF Saved
    <3>2. f \in st.db.ys
      BY <1>2, <3>1 DEF YInv
    <3> HIDE DEF f
    <3>3. f \in t.db.ys
      BY <3>2 DEF Saved
    <3> QED
      BY <3>3 DEF f
  <2> QED
    BY <2>1, <2>2
<1> QED
  BY <1>1, <1>2 DEF YInv

\* A pair filed by the save: what it holds.
LEMMA NewPair ==
    ASSUME NEW y, NEW st, NEW key, NEW segs, NEW done, NEW last, NEW t, Progress(segs, done, last),
           Saved(y, st, key, segs, done, last, t), IndexInv(st), YInv(y, st),
           NEW i \in 0..(done - 1), NEW f, NEW e,
           NewZ(y, t.db.pieces, st.db.ys, key, segs, i, f, e), Intact(t, e)
    PROVE  Pair(y, t.db.pieces, e)
<1>1. i \in Nat /\ i < Len(segs) /\ i \in Int
  BY DEF Progress
<1>2. /\ e.left = cell_metadata(key, i) /\ e.right = f[2]
      /\ e.z = pair_z(i, segs[i + 1], get_cell(t.db.pieces, f[2]))
      /\ f[1] = y[segs[i + 1]] /\ f[2].offset = match_x_pos(i)
      /\ f \in st.db.ys \/ NewY(y, key, segs, i, f)
  BY DEF NewZ
<1>3. get_cell(t.db.pieces, e.left) = segs[i + 1] /\ e.left.offset = i
  BY <1>2, CellOf DEF get_cell, Saved
<1>4. f[1] = y[get_cell(t.db.pieces, f[2])]
  BY <1>1, <1>2, YRight DEF Intact
<1> QED
  BY <1>1, <1>2, <1>3, <1>4 DEF Pair

LEMMA PairsSaved ==
    ASSUME NEW y, NEW st, NEW key, NEW segs, NEW done, NEW last, NEW t, Progress(segs, done, last),
           Saved(y, st, key, segs, done, last, t), IndexInv(st), YInv(y, st), PairInv(y, st)
    PROVE  PairInv(y, t)
<1> SUFFICES ASSUME NEW e \in t.db.zs, Intact(t, e) PROVE Pair(y, t.db.pieces, e)
  BY DEF PairInv
<1>1. CASE e \in st.db.zs
  <2>1. /\ e.left.piece \in DOMAIN st.db.pieces /\ e.right.piece \in DOMAIN st.db.pieces
        /\ e.left.piece # key /\ e.right.piece # key /\ Intact(st, e)
    BY <1>1 DEF IndexInv, Saved, Intact
  <2>2. Pair(y, st.db.pieces, e)
    BY <1>1, <2>1 DEF PairInv
  <2>3. /\ get_cell(t.db.pieces, e.left) = get_cell(st.db.pieces, e.left)
        /\ get_cell(t.db.pieces, e.right) = get_cell(st.db.pieces, e.right)
    BY <2>1, CellsStay
  <2> QED
    BY <2>2, <2>3 DEF Pair
<1>2. CASE e \notin st.db.zs
  <2>1. PICK i \in 0..(done - 1) : \E f : NewZ(y, t.db.pieces, st.db.ys, key, segs, i, f, e)
    BY <1>2 DEF Saved
  <2> QED
    BY <2>1, NewPair
<1> QED
  BY <1>1, <1>2

\* In a save of a new piece, a cell is matched with cells of the piece filed before it.
LEMMA FiledBefore ==
    ASSUME NEW y, NEW st, NEW P, NEW key, NEW segs, NEW i \in Nat, NEW n \in Nat, NEW f, NEW e,
           NewZ(y, P, st.db.ys, key, segs, i, f, e), IndexInv(st),
           key \notin DOMAIN st.db.pieces, e.right = cell_metadata(key, n)
    PROVE  n <= i
<1>1. f[2] = cell_metadata(key, n) /\ (f \in st.db.ys \/ NewY(y, key, segs, i, f))
  BY DEF NewZ
<1>2. f \notin st.db.ys
  BY <1>1, CellOf DEF IndexInv
<1>3. PICK j \in 0..i : f = <<y[segs[j + 1]], cell_metadata(key, j)>>
  BY <1>1, <1>2 DEF NewY
<1>4. f[2] = cell_metadata(key, j)
  BY <1>3
<1>5. j = n
  <2>1. cell_metadata(key, j).offset = j /\ cell_metadata(key, n).offset = n
    BY CellOf
  <2> QED
    BY <1>1, <1>4, <2>1
<1> QED
  BY <1>5

LEMMA OnceSaved ==
    ASSUME NEW y, NEW st, NEW key, NEW segs, NEW done, NEW last, NEW t, Progress(segs, done, last),
           Saved(y, st, key, segs, done, last, t), IndexInv(st), OnceInv(st)
    PROVE  OnceInv(t)
<1> SUFFICES ASSUME NEW e \in t.db.zs, NEW f \in t.db.zs, Intact(t, e),
                    {e.left, e.right} = {f.left, f.right}
             PROVE  e = f
  BY DEF OnceInv
<1>1. Intact(t, f) /\ e.left \in {f.left, f.right} /\ f.left \in {e.left, e.right}
  BY DEF Intact
<1>2. ASSUME NEW g \in st.db.zs, Intact(t, g)
      PROVE  g.left.piece # key /\ g.right.piece # key /\ Intact(st, g)
  BY <1>2 DEF IndexInv, Saved, Intact
<1>3. ASSUME NEW g \in t.db.zs, g \notin st.db.zs
      PROVE  \E i \in 0..(done - 1) : \E h : NewZ(y, t.db.pieces, st.db.ys, key, segs, i, h, g)
  BY <1>3 DEF Saved
<1>4. ASSUME NEW i, NEW h, NEW g, NewZ(y, t.db.pieces, st.db.ys, key, segs, i, h, g)
      PROVE  /\ g.left = cell_metadata(key, i) /\ g.left.piece = key /\ g.left.offset = i
             /\ g = [z |-> pair_z(i, segs[i + 1], get_cell(t.db.pieces, g.right)),
                     left |-> cell_metadata(key, i), right |-> g.right]
  BY <1>4, CellOf DEF NewZ
<1>5. CASE e \in st.db.zs /\ f \in st.db.zs
  BY <1>2, <1>5 DEF OnceInv
<1>6. CASE e \in st.db.zs /\ f \notin st.db.zs
  <2>1. f.left.piece = key
    BY <1>3, <1>4, <1>6
  <2> QED
    BY <1>1, <1>2, <1>6, <2>1
<1>7. CASE e \notin st.db.zs /\ f \in st.db.zs
  <2>1. e.left.piece = key
    BY <1>3, <1>4, <1>7
  <2> QED
    BY <1>1, <1>2, <1>7, <2>1
<1>8. CASE e \notin st.db.zs /\ f \notin st.db.zs
  <2>1. PICK i \in 0..(done - 1) : \E h : NewZ(y, t.db.pieces, st.db.ys, key, segs, i, h, e)
    BY <1>3, <1>8
  <2>2. PICK j \in 0..(done - 1) : \E g : NewZ(y, t.db.pieces, st.db.ys, key, segs, j, g, f)
    BY <1>3, <1>8
  <2>3. /\ e.left = cell_metadata(key, i) /\ e.left.piece = key /\ e.left.offset = i
        /\ f.left = cell_metadata(key, j) /\ f.left.piece = key /\ f.left.offset = j
    BY <1>4, <2>1, <2>2
  <2>4. key \notin DOMAIN st.db.pieces
    BY <2>3 DEF Intact, Saved
  <2>5. i \in Nat /\ j \in Nat
    BY DEF Progress
  <2>6. CASE i = j
    <3>1. e.right = f.right
      BY <2>3, <2>6
    <3> QED
      BY <1>4, <2>1, <2>2, <2>6, <3>1
  <2>7. CASE i # j
    <3>1. e.right = cell_metadata(key, j) /\ f.right = cell_metadata(key, i)
      BY <1>1, <2>3, <2>7
    <3>2. j <= i
      BY <2>1, <2>4, <2>5, <3>1, FiledBefore
    <3>3. i <= j
      BY <2>2, <2>4, <2>5, <3>1, FiledBefore
    <3> QED
      BY <2>5, <2>7, <3>2, <3>3
  <2> QED
    BY <2>6, <2>7
<1> QED
  BY <1>5, <1>6, <1>7, <1>8

\* A cell of the piece is filed with every cell that its y value leads to.
LEMMA Matched ==
    ASSUME NEW y, NEW st, NEW key, NEW segs, NEW done, NEW last, NEW t, Progress(segs, done, last),
           Saved(y, st, key, segs, done, last, t), done = Len(segs),
           NEW i \in Nat, i < Len(segs), NEW mc, has_cell(t.db.pieces, mc),
           mc.offset = match_x_pos(i), NEW f, f[1] = y[segs[i + 1]], f[2] = mc,
           f \in st.db.ys \/ NewY(y, key, segs, i, f)
    PROVE  \E e \in t.db.zs : /\ e.z = pair_z(i, segs[i + 1], get_cell(t.db.pieces, mc))
                              /\ e.left = cell_metadata(key, i) /\ e.right = mc
<1> DEFINE e == [z |-> pair_z(i, segs[i + 1], get_cell(t.db.pieces, mc)),
                 left |-> cell_metadata(key, i), right |-> mc]
<1>1. NewZ(y, t.db.pieces, st.db.ys, key, segs, i, f, e)
  BY DEF NewZ
<1>2. /\ e.z = pair_z(i, segs[i + 1], get_cell(t.db.pieces, mc))
      /\ e.left = cell_metadata(key, i) /\ e.right = mc
  OBVIOUS
<1> HIDE DEF e
<1>3. i \in 0..(done - 1)
  BY DEF Progress
<1>4. e \in t.db.zs
  BY <1>1, <1>3 DEF Saved
<1> QED
  BY <1>2, <1>4

LEMMA CompleteSaved ==
    ASSUME NEW y, NEW st, NEW key, NEW segs, NEW done, NEW last, NEW t, Progress(segs, done, last),
           Saved(y, st, key, segs, done, last, t), IndexInv(st), YInv(y, st), CompleteInv(y, st)
    PROVE  CompleteInv(y, t)
<1> SUFFICES ASSUME NEW k \in DOMAIN t.db.pieces, NEW m \in DOMAIN t.db.pieces,
                    k \notin t.broken, m \notin t.broken,
                    NEW j \in 0..(Len(t.db.pieces[k]) - 1), NEW n \in 0..(Len(t.db.pieces[m]) - 1),
                    is_left(j), n = j + 1,
                    y[t.db.pieces[k][j + 1]] = y[t.db.pieces[m][n + 1]],
                    y[t.db.pieces[k][j + 1]] # 0
             PROVE  FiledPair(t, k, j, m, n)
  BY DEF CompleteInv
<1>1. IndexInv(t)
  BY IndexSaved
<1>2. /\ j \in Nat /\ n \in Nat /\ j <= n
      /\ j < Len(t.db.pieces[k]) /\ n < Len(t.db.pieces[m])
  BY <1>1 DEF IndexInv
<1>3. match_x_pos(j) = n /\ match_x_pos(n) = j /\ ~is_left(n)
  BY <1>2, Matches
<1>4. /\ \A a, b : pair_z(j, a, b) = <<a, b>>
      /\ \A a, b : pair_z(n, b, a) = <<a, b>>
  BY <1>3 DEF pair_z, calculate_z
<1> DEFINE a == t.db.pieces[k][j + 1]  b == t.db.pieces[m][n + 1]
           l == cell_metadata(k, j)  r == cell_metadata(m, n)
<1>5. l.piece = k /\ l.offset = j /\ r.piece = m /\ r.offset = n
  BY CellOf
<1>6. /\ has_cell(t.db.pieces, l) /\ get_cell(t.db.pieces, l) = a
      /\ has_cell(t.db.pieces, r) /\ get_cell(t.db.pieces, r) = b
  <2> HIDE DEF l, r
  <2> QED
    BY <1>2, <1>5 DEF has_cell, get_cell
<1>7. ASSUME NEW q \in DOMAIN t.db.pieces, q \notin t.broken, q = key
      PROVE  t.db.pieces[q] = segs /\ done = Len(segs)
  BY <1>7 DEF Saved
<1>8. ASSUME NEW q \in DOMAIN t.db.pieces, q \notin t.broken, q # key
      PROVE  q \in DOMAIN st.db.pieces /\ t.db.pieces[q] = st.db.pieces[q] /\ q \notin st.broken
  BY <1>8 DEF Saved
<1>9. ASSUME NEW q \in DOMAIN t.db.pieces, q \notin t.broken, q # key,
             NEW o \in 0..(Len(t.db.pieces[q]) - 1), y[t.db.pieces[q][o + 1]] # 0
      PROVE  <<y[t.db.pieces[q][o + 1]], cell_metadata(q, o)>> \in st.db.ys
  BY <1>8, <1>9 DEF YInv
<1>10. CASE m = key
  <2> DEFINE f == <<y[a], l>>
  <2>1. f \in st.db.ys \/ NewY(y, key, segs, n, f)
    <3>1. CASE k = key
      <4>1. t.db.pieces[k] = segs /\ j \in 0..n
        BY <1>2, <1>7, <3>1
      <4> QED
        BY <3>1, <4>1 DEF NewY
    <3>2. CASE k # key
      BY <1>9, <3>2
    <3> QED
      BY <3>1, <3>2
  <2>2. segs = t.db.pieces[m] /\ done = Len(segs)
    BY <1>7, <1>10
  <2>3. f[1] = y[segs[n + 1]] /\ f[2] = l
    BY <2>2
  <2> HIDE DEF f, l
  <2>4. n < Len(segs) /\ l.offset = match_x_pos(n)
    BY <1>2, <1>3, <1>5, <2>2
  <2>5. \E e \in t.db.zs : /\ e.z = pair_z(n, segs[n + 1], get_cell(t.db.pieces, l))
                           /\ e.left = cell_metadata(key, n) /\ e.right = l
    BY <1>2, <1>6, <2>1, <2>2, <2>3, <2>4, Matched
  <2>6. segs[n + 1] = b
    BY <2>2
  <2>7. pair_z(n, b, a) = <<a, b>>
    BY <1>4
  <2> QED
    BY <1>6, <1>10, <2>5, <2>6, <2>7 DEF FiledPair, l
<1>11. CASE m # key /\ k = key
  <2> DEFINE f == <<y[b], r>>
  <2>1. f \in st.db.ys \/ NewY(y, key, segs, j, f)
    BY <1>9, <1>11
  <2>2. segs = t.db.pieces[k] /\ done = Len(segs)
    BY <1>7, <1>11
  <2>3. f[1] = y[segs[j + 1]] /\ f[2] = r
    BY <2>2
  <2> HIDE DEF f, r
  <2>4. j < Len(segs) /\ r.offset = match_x_pos(j)
    BY <1>2, <1>3, <1>5, <2>2
  <2>5. \E e \in t.db.zs : /\ e.z = pair_z(j, segs[j + 1], get_cell(t.db.pieces, r))
                           /\ e.left = cell_metadata(key, j) /\ e.right = r
    BY <1>2, <1>6, <2>1, <2>2, <2>3, <2>4, Matched, SMTT(30)
  <2>6. segs[j + 1] = a
    BY <2>2
  <2>7. pair_z(j, a, b) = <<a, b>>
    BY <1>4
  <2> QED
    BY <1>6, <1>11, <2>5, <2>6, <2>7 DEF FiledPair, r
<1>12. CASE m # key /\ k # key
  <2>1. /\ k \in DOMAIN st.db.pieces /\ t.db.pieces[k] = st.db.pieces[k] /\ k \notin st.broken
        /\ m \in DOMAIN st.db.pieces /\ t.db.pieces[m] = st.db.pieces[m] /\ m \notin st.broken
    BY <1>8, <1>12
  <2>2. FiledPair(st, k, j, m, n)
    BY <2>1 DEF CompleteInv
  <2>3. \A e \in st.db.zs : e \in t.db.zs
    BY DEF Saved
  <2> QED
    BY <2>1, <2>2, <2>3 DEF FiledPair
<1> QED
  BY <1>10, <1>11, <1>12

LEMMA StoreSaved ==
    ASSUME NEW y, NEW st, NEW key, NEW segs, NEW done, NEW last, NEW t, Progress(segs, done, last),
           Saved(y, st, key, segs, done, last, t), StoreInv(y, st)
    PROVE  StoreInv(y, t)
<1>1. IndexInv(st) /\ YInv(y, st) /\ PairInv(y, st) /\ OnceInv(st) /\ CompleteInv(y, st)
  BY DEF StoreInv
<1>2. IndexInv(t)
  BY <1>1, IndexSaved
<1>3. YInv(y, t)
  BY <1>1, YSaved
<1>4. PairInv(y, t)
  BY <1>1, PairsSaved
<1>5. OnceInv(t)
  BY <1>1, OnceSaved
<1>6. CompleteInv(y, t)
  BY <1>1, CompleteSaved
<1> QED
  BY <1>2, <1>3, <1>4, <1>5, <1>6 DEF StoreInv

-----------------------------------------------------------------------------
(* The pieces of a header *)

\* Induction, over a set that stands for the property.
LEMMA InductionOnSet ==
    ASSUME NEW S, 0 \in S, \A n \in Nat : n \in S => n + 1 \in S
    PROVE  Nat \subseteq S
<1> DEFINE R == OpToRel(<, Nat)  T == Nat \ S
<1> SUFFICES ASSUME T # {} PROVE FALSE
  OBVIOUS
<1>1. IsWellFoundedOn(R, Nat)
  BY NatLessThanWellFounded
<1> HIDE DEF R
<1>2. T \subseteq Nat
  OBVIOUS
<1>3. PICK x \in T : \A y \in T : ~(<<y, x>> \in R)
  BY <1>1, <1>2, WFMin
<1>4. x \in Nat /\ x # 0 /\ x - 1 \in Nat /\ x - 1 < x /\ (x - 1) + 1 = x
  BY <1>3
<1>5. x - 1 \in T
  BY <1>3, <1>4
<1> QED
  BY <1>3, <1>4, <1>5 DEF R, OpToRel

\* The segments that are there are a sequence.
LEMMA SegmentVec ==
    ASSUME NEW segments, Len(segments) \in Nat
    PROVE  Len(segment_vec(segments)) \in Nat
<1> DEFINE next(k, n) == IF segments[n] = None THEN k ELSE Append(k, segments[n])
           Kept(m, k) == k = [n \in 0..m |-> IF n = 0 THEN <<>>
                                             ELSE IF segments[n] = None THEN k[n - 1]
                                             ELSE Append(k[n - 1], segments[n])]
           S == {m \in Nat : \E k : Kept(m, k)}
<1>1. 0 \in S
  <2>1. Kept(0, [n \in 0..0 |-> <<>>])
    OBVIOUS
  <2> QED
    BY <2>1
<1>2. ASSUME NEW m \in Nat, m \in S PROVE m + 1 \in S
  <2>1. PICK k : Kept(m, k)
    BY <1>2
  <2> HIDE DEF Kept
  <2>2. k[0] = <<>> /\ \A n \in 1..m : k[n] = next(k[n - 1], n)
    <3>1. k = [n \in 0..m |-> IF n = 0 THEN <<>> ELSE next(k[n - 1], n)]
      BY <2>1 DEF Kept
    <3> HIDE DEF next
    <3>2. \A n \in 0..m : k[n] = IF n = 0 THEN <<>> ELSE next(k[n - 1], n)
      BY <3>1
    <3> QED
      BY <1>2, <3>2
  <2> HIDE DEF next
  <2> DEFINE g == [n \in 0..(m + 1) |-> IF n <= m THEN k[n] ELSE next(k[m], m + 1)]
  <2>3. g[0] = <<>> /\ \A n \in 0..m : g[n] = k[n]
    BY <1>2, <2>2
  <2>4. ASSUME NEW n \in 1..(m + 1) PROVE g[n] = next(g[n - 1], n)
    <3>1. n - 1 \in 0..m
      BY <1>2, <2>4
    <3>2. g[n - 1] = k[n - 1]
      BY <2>3, <3>1
    <3>3. CASE n <= m
      BY <1>2, <2>2, <2>3, <2>4, <3>2, <3>3
    <3>4. CASE n = m + 1
      BY <1>2, <3>2, <3>4
    <3> QED
      BY <1>2, <2>4, <3>3, <3>4
  <2>5. g = [n \in 0..(m + 1) |-> g[n]]
    OBVIOUS
  <2> HIDE DEF g
  <2>6. g = [n \in 0..(m + 1) |-> IF n = 0 THEN <<>> ELSE next(g[n - 1], n)]
    <3>1. \A n \in 0..(m + 1) : g[n] = IF n = 0 THEN <<>> ELSE next(g[n - 1], n)
      BY <1>2, <2>3, <2>4
    <3> QED
      BY <2>5, <3>1
  <2>7. Kept(m + 1, g)
    BY <2>6 DEF Kept, next
  <2> QED
    BY <1>2, <2>7
<1>3. Len(segments) \in S
  <2> HIDE DEF S
  <2> QED
    BY <1>1, <1>2, InductionOnSet
<1>4. \E k : Kept(Len(segments), k) /\ segment_vec(segments) = k[Len(segments)]
  BY <1>3, Zenon DEF segment_vec
<1>5. PICK k : Kept(Len(segments), k) /\ segment_vec(segments) = k[Len(segments)]
  BY <1>4
<1>6. k[0] = <<>> /\ \A n \in 1..Len(segments) : k[n] = next(k[n - 1], n)
  <2>1. k = [n \in 0..Len(segments) |-> IF n = 0 THEN <<>> ELSE next(k[n - 1], n)]
    BY <1>5
  <2> HIDE DEF Kept, next
  <2>2. \A n \in 0..Len(segments) : k[n] = IF n = 0 THEN <<>> ELSE next(k[n - 1], n)
    BY <2>1
  <2> QED
    BY <2>2
<1> HIDE DEF Kept, next
<1> DEFINE T == {segments[n] : n \in 1..Len(segments)}
           Q == {n \in Nat : n <= Len(segments) => k[n] \in Seq(T)}
<1>7. 0 \in Q
  <2>1. k[0] \in Seq(T)
    BY <1>6, EmptySeq
  <2> QED
    BY <2>1
<1>8. ASSUME NEW n \in Nat, n \in Q PROVE n + 1 \in Q
  <2> SUFFICES ASSUME n + 1 <= Len(segments) PROVE k[n + 1] \in Seq(T)
    OBVIOUS
  <2>1. n + 1 \in 1..Len(segments) /\ (n + 1) - 1 = n /\ k[n] \in Seq(T)
    BY <1>8
  <2>2. k[n + 1] = next(k[n], n + 1) /\ segments[n + 1] \in T
    BY <1>6, <2>1
  <2> HIDE DEF T
  <2> QED
    BY <2>1, <2>2, AppendProperties DEF next
<1>9. Len(segments) \in Q
  <2> HIDE DEF Q
  <2> QED
    BY <1>7, <1>8, InductionOnSet
<1>10. segment_vec(segments) \in Seq(T)
  BY <1>5, <1>9
<1> QED
  BY <1>10, LenProperties

LEMMA ChunkLen ==
    ASSUME NEW segments, Len(segments) \in Nat, NEW c \in Int
    PROVE  Len(chunk(segments, c)) \in Nat
<1> DEFINE a == (c - 1) * Segments + 1
           b == IF c * Segments < Len(segments) THEN c * Segments ELSE Len(segments)
           S == {segments[i] : i \in a..b}
<1>1. a \in Int /\ b \in Int
  BY PieceAssumption
<1>2. \A i \in a..b : segments[i] \in S
  OBVIOUS
<1>3. chunk(segments, c) = SubSeq(segments, a, b)
  BY DEF chunk
<1> HIDE DEF a, b, S
<1>4. SubSeq(segments, a, b) \in Seq(S)
  BY <1>1, <1>2, SubSeqProperties
<1> QED
  BY <1>3, <1>4, LenProperties

\* The pieces of a header: some are none.
Pieces(list) ==
    /\ Len(list) \in Nat
    /\ \A i \in 1..Len(list) : list[i] # None => Len(list[i][2]) \in Nat

LEMMA FetchedPieces ==
    ASSUME NEW h, NEW list \in fetched(h)
    PROVE  Pieces(list)
<1>1. PICK rs \in fetched_rows(h), cs \in fetched_cols(h) : list = process_segments(h, rs, cs)
  BY DEF fetched
<1>2. Len(rs) \in Nat
  <2>1. \E f : rs = [p \in 1..(Rows * Segments) |-> f[p]]
    BY DEF fetched_rows
  <2>2. Rows * Segments \in Nat
    BY PieceAssumption
  <2> QED
    BY <2>1, <2>2
<1>3. Len(cs) \in Nat
  <2>1. \E f : cs = [p \in 1..Rows |-> f[p]]
    BY DEF fetched_cols
  <2> QED
    BY <2>1, PieceAssumption
<1>4. ASSUME NEW s, Len(s) \in Nat PROVE chunk_count(s) \in Nat
  BY <1>4, PieceAssumption DEF chunk_count
<1> DEFINE n == chunk_count(rs) + chunk_count(cs)
<1>5. n \in Nat /\ chunk_count(rs) \in Nat /\ chunk_count(cs) \in Nat
  BY <1>2, <1>3, <1>4
<1>6. ASSUME NEW c \in 1..n, list[c] # None PROVE Len(list[c][2]) \in Nat
  <2>1. ASSUME NEW s, Len(s) \in Nat, NEW i \in Int
        PROVE  Len(segment_vec(chunk(s, i))) \in Nat
    BY <2>1, ChunkLen, SegmentVec
  <2>2. CASE c <= chunk_count(rs)
    <3>1. list[c] = row_piece(h, segment_vec(chunk(rs, c)))
      BY <1>1, <1>6, <2>2 DEF process_segments
    <3>2. list[c][2] = segment_vec(chunk(rs, c))
      BY <1>6, <3>1 DEF row_piece
    <3> QED
      BY <1>2, <2>1, <3>2
  <2>3. CASE ~(c <= chunk_count(rs))
    <3>1. list[c] = column_piece(h, segment_vec(chunk(cs, c - chunk_count(rs))))
      BY <1>1, <1>6, <2>3 DEF process_segments
    <3>2. list[c][2] = segment_vec(chunk(cs, c - chunk_count(rs)))
      BY <1>6, <3>1 DEF column_piece
    <3>3. c - chunk_count(rs) \in Int
      BY <1>5
    <3> QED
      BY <1>3, <2>1, <3>2, <3>3
  <2> QED
    BY <2>2, <2>3
<1>7. Len(list) = n
  <2> DEFINE piece(c) == IF c <= chunk_count(rs) THEN row_piece(h, segment_vec(chunk(rs, c)))
                         ELSE column_piece(h, segment_vec(chunk(cs, c - chunk_count(rs))))
  <2>1. list = [c \in 1..n |-> piece(c)]
    BY <1>1 DEF process_segments
  <2> HIDE DEF n, piece
  <2> QED
    BY <1>5, <2>1
<1> QED
  BY <1>5, <1>6, <1>7 DEF Pieces

-----------------------------------------------------------------------------
(* The farmer's steps *)

\* f holds the stores after each of the first pieces.
Stores(st, list, f) ==
    f[0] = st /\ \A n \in 1..Len(list) : f[n] = save(f[n - 1], list[n])

LEMMA StoresExist ==
    ASSUME NEW st, NEW list, Len(list) \in Nat
    PROVE  \E f : Stores(st, list, f) /\ \A n : saved(st, list, n) = f[n]
<1> DEFINE After(m, f) == f = [i \in 0..m |-> IF i = 0 THEN st ELSE save(f[i - 1], list[i])]
           S == {m \in Nat : \E f : After(m, f)}
<1>1. 0 \in S
  <2>1. After(0, [n \in 0..0 |-> st])
    OBVIOUS
  <2> QED
    BY <2>1
<1>2. ASSUME NEW m \in Nat, m \in S PROVE m + 1 \in S
  <2>1. PICK f : After(m, f)
    BY <1>2
  <2>2. f[0] = st /\ \A n \in 1..m : f[n] = save(f[n - 1], list[n])
    BY <1>2, <2>1
  <2> DEFINE g == [n \in 0..(m + 1) |-> IF n <= m THEN f[n] ELSE save(f[m], list[m + 1])]
  <2>3. g[0] = st /\ \A n \in 0..m : g[n] = f[n]
    BY <1>2, <2>2
  <2>4. ASSUME NEW n \in 1..(m + 1) PROVE g[n] = save(g[n - 1], list[n])
    <3>1. n - 1 \in 0..m
      BY <1>2, <2>4
    <3>2. g[n - 1] = f[n - 1]
      BY <2>3, <3>1
    <3>3. CASE n <= m
      BY <1>2, <2>2, <2>3, <2>4, <3>2, <3>3
    <3>4. CASE n = m + 1
      BY <1>2, <3>2, <3>4
    <3> QED
      BY <1>2, <2>4, <3>3, <3>4
  <2>5. g = [n \in 0..(m + 1) |-> g[n]]
    OBVIOUS
  <2> HIDE DEF g
  <2>6. \A n \in 0..(m + 1) : g[n] = IF n = 0 THEN st ELSE save(g[n - 1], list[n])
    BY <1>2, <2>3, <2>4
  <2>7. After(m + 1, g)
    <3>1. g = [n \in 0..(m + 1) |-> IF n = 0 THEN st ELSE save(g[n - 1], list[n])]
      BY <2>5, <2>6
    <3> QED
      BY <3>1
  <2> HIDE DEF After
  <2> QED
    BY <1>2, <2>7
<1>3. Len(list) \in S
  <2> HIDE DEF S
  <2> QED
    BY <1>1, <1>2, InductionOnSet
<1>4. \E f : After(Len(list), f) /\ \A n : saved(st, list, n) = f[n]
  BY <1>3, Zenon DEF saved
<1>5. ASSUME NEW f, After(Len(list), f) PROVE Stores(st, list, f)
  BY <1>5 DEF Stores
<1> QED
  BY <1>4, <1>5

LEMMA PieceKeeps ==
    ASSUME NEW st, NEW piece, NEW done, NEW last, StoreInv(y_of, st),
           Progress(piece[2], done, last)
    PROVE  StoreInv(y_of, save_piece(st, piece, done, last))
<1> DEFINE t == save_piece(st, piece, done, last)
<1>1. Saved(y_of, st, piece[1], piece[2], done, last, t)
  BY SavePiece
<1> HIDE DEF t
<1>2. StoreInv(y_of, t)
  BY <1>1, StoreSaved
<1> QED
  BY <1>2 DEF t

LEMMA SavesKeep ==
    ASSUME NEW st, NEW list, Pieces(list), StoreInv(y_of, st)
    PROVE  \A n \in 0..Len(list) : StoreInv(y_of, saved(st, list, n))
<1>1. Len(list) \in Nat
  BY DEF Pieces
<1>2. PICK f : Stores(st, list, f) /\ \A n : saved(st, list, n) = f[n]
  BY <1>1, StoresExist
<1> DEFINE S == {n \in Nat : n <= Len(list) => StoreInv(y_of, f[n])}
<1>3. 0 \in S
  BY <1>2 DEF Stores
<1>4. ASSUME NEW n \in Nat, n \in S PROVE n + 1 \in S
  <2> SUFFICES ASSUME n + 1 <= Len(list) PROVE StoreInv(y_of, f[n + 1])
    OBVIOUS
  <2>1. n + 1 \in 1..Len(list) /\ (n + 1) - 1 = n /\ StoreInv(y_of, f[n])
    BY <1>1, <1>4
  <2>2. f[n + 1] = save(f[n], list[n + 1])
    BY <1>2, <2>1 DEF Stores
  <2>3. CASE list[n + 1] = None
    BY <2>1, <2>2, <2>3 DEF save
  <2>4. CASE list[n + 1] # None
    <3> DEFINE piece == list[n + 1]
    <3>1. Len(piece[2]) \in Nat
      BY <2>1, <2>4 DEF Pieces
    <3>2. f[n + 1] = save_piece(f[n], piece, Len(piece[2]), Len(piece[2]) - 1)
      BY <2>2, <2>4 DEF save
    <3> HIDE DEF piece
    <3>3. Progress(piece[2], Len(piece[2]), Len(piece[2]) - 1)
      BY <3>1 DEF Progress
    <3> QED
      BY <2>1, <3>2, <3>3, PieceKeeps
  <2> QED
    BY <2>3, <2>4
<1> HIDE DEF S
<1>5. Nat \subseteq S
  BY <1>3, <1>4, InductionOnSet
<1>6. ASSUME NEW n \in 0..Len(list) PROVE StoreInv(y_of, saved(st, list, n))
  <2>1. StoreInv(y_of, f[n])
    BY <1>1, <1>5 DEF S
  <2> QED
    BY <1>2, <2>1
<1> QED
  BY <1>6

LEMMA SameStore ==
    ASSUME NEW y, NEW a, NEW b, a.db = b.db, a.replaced = b.replaced, a.broken = b.broken,
           StoreInv(y, a)
    PROVE  StoreInv(y, b)
<1>1. IndexInv(b)
  BY DEF StoreInv, IndexInv
<1>2. YInv(y, b)
  BY DEF StoreInv, YInv
<1>3. PairInv(y, b)
  BY DEF StoreInv, PairInv, Intact
<1>4. OnceInv(b)
  BY DEF StoreInv, OnceInv, Intact
<1>5. CompleteInv(y, b)
  <2>1. ASSUME NEW k, NEW j, NEW m, NEW n, FiledPair(a, k, j, m, n) PROVE FiledPair(b, k, j, m, n)
    BY <2>1 DEF FiledPair
  <2> QED
    BY <2>1 DEF StoreInv, CompleteInv
<1> QED
  BY <1>1, <1>2, <1>3, <1>4, <1>5 DEF StoreInv

PieceInv == StoreInv(y_of, Store)

LEMMA PieceStart == PieceInit => PieceInv
<1> SUFFICES ASSUME PieceInit PROVE PieceInv
  OBVIOUS
<1>1. Store.db.ys = {} /\ Store.db.zs = {} /\ DOMAIN Store.db.pieces = {}
  BY DEF PieceInit, Store
<1> HIDE DEF Store
<1>2. IndexInv(Store)
  BY <1>1 DEF IndexInv
<1>3. YInv(y_of, Store)
  BY <1>1 DEF YInv
<1>4. PairInv(y_of, Store)
  BY <1>1 DEF PairInv
<1>5. OnceInv(Store)
  BY <1>1 DEF OnceInv
<1>6. CompleteInv(y_of, Store)
  BY <1>1 DEF CompleteInv
<1> QED
  BY <1>2, <1>3, <1>4, <1>5, <1>6 DEF PieceInv, StoreInv

LEMMA PieceStep == PieceInv /\ [PieceNext]_pieceVars => PieceInv'
<1> SUFFICES ASSUME PieceInv, [PieceNext]_pieceVars PROVE PieceInv'
  OBVIOUS
<1>1. StoreInv(y_of, Store)
  BY DEF PieceInv
<1>2. ASSUME NEW st, StoreInv(y_of, st), becomes(st), y_of' = y_of PROVE PieceInv'
  <2> DEFINE t == [db |-> db', replaced |-> replaced', broken |-> broken']
  <2>1. st.db = t.db /\ st.replaced = t.replaced /\ st.broken = t.broken
    BY <1>2 DEF becomes
  <2> HIDE DEF t
  <2>2. StoreInv(y_of, t)
    BY <1>2, <2>1, SameStore
  <2> QED
    BY <1>2, <2>2 DEF PieceInv, Store, t
<1>3. ASSUME NEW h \in Header, handle_header(h) PROVE PieceInv'
  <2>1. PICK list \in fetched(h) : becomes(saved(Store, list, Len(list)))
    BY <1>3 DEF handle_header
  <2>2. Pieces(list) /\ y_of' = y_of
    BY <1>3, FetchedPieces DEF handle_header
  <2>3. Len(list) \in 0..Len(list)
    BY <2>2 DEF Pieces
  <2>4. StoreInv(y_of, saved(Store, list, Len(list)))
    BY <1>1, <2>2, <2>3, SavesKeep
  <2> QED
    BY <1>2, <2>1, <2>2, <2>4
<1>4. ASSUME NEW h \in Header, crash_while_saving(h) PROVE PieceInv'
  <2>1. PICK list \in fetched(h) : \E i \in {j \in 1..Len(list) : list[j] # None} :
           \E done \in 0..(Len(list[i][2]) - 1) : \E last \in {done - 1, done} :
              becomes(save_piece(saved(Store, list, i - 1), list[i], done, last))
    BY <1>4 DEF crash_while_saving
  <2>2. PICK i \in {j \in 1..Len(list) : list[j] # None} :
           \E done \in 0..(Len(list[i][2]) - 1) : \E last \in {done - 1, done} :
              becomes(save_piece(saved(Store, list, i - 1), list[i], done, last))
    BY <2>1
  <2> DEFINE piece == list[i]
             before == saved(Store, list, i - 1)
  <2>3. PICK done \in 0..(Len(piece[2]) - 1) : \E last \in {done - 1, done} :
           becomes(save_piece(before, piece, done, last))
    BY <2>2
  <2>4. PICK last \in {done - 1, done} : becomes(save_piece(before, piece, done, last))
    BY <2>3
  <2>5. Pieces(list) /\ y_of' = y_of
    BY <1>4, FetchedPieces DEF crash_while_saving
  <2>6. i - 1 \in 0..Len(list) /\ Len(piece[2]) \in Nat
    BY <2>5 DEF Pieces
  <2>7. StoreInv(y_of, before)
    BY <1>1, <2>5, <2>6, SavesKeep
  <2>8. Progress(piece[2], done, last)
    <3> HIDE DEF piece
    <3> QED
      BY <2>6 DEF Progress
  <2> HIDE DEF before, piece
  <2>9. StoreInv(y_of, save_piece(before, piece, done, last))
    BY <2>7, <2>8, PieceKeeps
  <2> QED
    BY <1>2, <2>4, <2>5, <2>9
<1>5. ASSUME UNCHANGED pieceVars PROVE PieceInv'
  BY <1>5 DEF pieceVars, PieceInv, Store
<1> QED
  BY <1>3, <1>4, <1>5 DEF PieceNext

LEMMA PieceInvHolds == PieceSpec => []PieceInv
BY PieceStart, PieceStep, PTL DEF PieceSpec

\* A pair that was filed verifies, left cell first, as long as its pieces are the ones
\* it was filed for (Piece::save, ZValueManager::new and verify).
THEOREM FiledPairsVerify == PieceSpec => []PairsVerifyInOrder
<1>1. PieceInv => PairsVerifyInOrder
  <2> SUFFICES ASSUME PieceInv, NEW e \in db.zs, untouched(e)
               PROVE  verify(e.z, cell_at(in_order(e)[1]), cell_at(in_order(e)[2]))
    BY DEF PairsVerifyInOrder
  <2>1. Pair(y_of, db.pieces, e)
    BY DEF PieceInv, StoreInv, PairInv, Intact, untouched, Store
  <2> DEFINE i == e.left.offset  j == e.right.offset
             a == seg_of(e.left)  b == seg_of(e.right)
  <2>2. i \in Nat /\ j = match_x_pos(i) /\ e.z = pair_z(i, a, b) /\ y_of[a] = y_of[b]
    BY <2>1 DEF Pair, seg_of
  <2>3. ASSUME NEW mc PROVE cell_at(mc).metadata = mc /\ cell_at(mc).seg = seg_of(mc)
    BY DEF cell_at
  <2>4. CASE is_left(i)
    <3>1. in_order(e)[1] = e.left /\ in_order(e)[2] = e.right
      BY <2>4 DEF in_order
    <3>2. e.z = calculate_z(a, b)
      BY <2>2, <2>4 DEF pair_z
    <3>3. is_pair(e.left, e.right)
      BY <2>2, <2>4, Matches DEF is_pair
    <3> QED
      BY <2>2, <2>3, <3>1, <3>2, <3>3 DEF verify
  <2>5. CASE ~is_left(i)
    <3>1. in_order(e)[1] = e.right /\ in_order(e)[2] = e.left
      BY <2>5 DEF in_order
    <3>2. e.z = calculate_z(b, a)
      BY <2>2, <2>5 DEF pair_z
    <3>3. is_pair(e.right, e.left)
      <4>1. j = i - 1 /\ is_left(j)
        BY <2>2, <2>5, Matches
      <4>2. i = j + 1
        BY <2>2, <4>1
      <4> QED
        BY <4>1, <4>2 DEF is_pair
    <3> QED
      BY <2>2, <2>3, <3>1, <3>2, <3>3 DEF verify
  <2> QED
    BY <2>4, <2>5
<1> QED
  BY <1>1, PieceInvHolds, PTL

\* Two cells are filed as a pair at most once, however often pieces are saved
\* (Piece::save files a cell before it matches it and its right neighbour after).
THEOREM PairsAreFiledOnce == PieceSpec => []PairsFiledOnce
<1>1. PieceInv => PairsFiledOnce
  BY DEF PieceInv, StoreInv, OnceInv, PairsFiledOnce, Intact, untouched, Store
<1> QED
  BY <1>1, PieceInvHolds, PTL

\* Every pair of stored neighbours with one y value is filed, whatever pieces were
\* saved over each other and wherever a crash stopped (Piece::save, match_cells).
THEOREM NeighboursAreFiled == PieceSpec => []PairsComplete
<1>1. PieceInv => PairsComplete
  <2> SUFFICES ASSUME PieceInv, NEW l \in stored_cells, NEW r \in stored_cells,
                      l.piece \notin broken, r.piece \notin broken,
                      is_left(l.offset), r.offset = l.offset + 1,
                      y_of[seg_of(l)] = y_of[seg_of(r)], y_of[seg_of(l)] # 0
               PROVE  \E e \in db.zs : /\ e.z = calculate_z(seg_of(l), seg_of(r))
                                       /\ {e.left, e.right} = {l, r}
    BY DEF PairsComplete
  <2>1. ASSUME NEW mc \in stored_cells
        PROVE  /\ mc = cell_metadata(mc.piece, mc.offset) /\ mc.piece \in DOMAIN db.pieces
               /\ mc.offset \in 0..(Len(db.pieces[mc.piece]) - 1)
               /\ seg_of(mc) = db.pieces[mc.piece][mc.offset + 1]
    <3>1. PICK k \in DOMAIN db.pieces, i \in Row \cup Col : mc = cell_metadata(k, i)
      BY DEF stored_cells, stored
    <3>2. mc.piece = k /\ mc.offset = i
      BY <3>1, CellOf
    <3>3. i \in Nat
      BY PieceAssumption DEF Row, Col
    <3>4. Len(db.pieces[k]) \in Nat
      BY DEF PieceInv, StoreInv, IndexInv, Store
    <3>5. i < Len(db.pieces[k])
      BY <3>2 DEF stored_cells, has_cell
    <3> QED
      BY <3>1, <3>2, <3>3, <3>4, <3>5 DEF seg_of, get_cell
  <2>2. CompleteInv(y_of, Store) /\ Store.db = db /\ Store.broken = broken
    BY DEF PieceInv, StoreInv, Store
  <2>3. FiledPair(Store, l.piece, l.offset, r.piece, r.offset)
    <3>1. y_of[db.pieces[l.piece][l.offset + 1]] = y_of[db.pieces[r.piece][r.offset + 1]]
      BY <2>1
    <3>2. y_of[db.pieces[l.piece][l.offset + 1]] # 0
      BY <2>1
    <3> QED
      BY <2>1, <2>2, <3>1, <3>2 DEF CompleteInv
  <2>4. PICK e \in db.zs :
           /\ e.z = <<db.pieces[l.piece][l.offset + 1], db.pieces[r.piece][r.offset + 1]>>
           /\ \/ e.left = l /\ e.right = r
              \/ e.left = r /\ e.right = l
    BY <2>1, <2>2, <2>3 DEF FiledPair
  <2>5. e.z = calculate_z(seg_of(l), seg_of(r)) /\ {e.left, e.right} = {l, r}
    BY <2>1, <2>4 DEF calculate_z
  <2> QED
    BY <2>5
<1> QED
  BY <1>1, PieceInvHolds, PTL
=============================================================================
