--------------------------- MODULE ExecutiveProofs ---------------------------
(***************************************************************************)
(* Proofs about Executive for any extrinsics, limits and numbers of blocks *)
(* and versions.                                                           *)
(***************************************************************************)
EXTENDS Executive, SequenceTheorems, FiniteSetTheorems, WellFoundedInduction,
        NaturalsInduction, TLAPS

-----------------------------------------------------------------------------
(* Folding over extrinsics and digest items *)

\* Induction, over a set that stands for the property.
LEMMA InductionOnSet ==
    ASSUME NEW S, 0 \in S, \A n \in Nat : n \in S => n + 1 \in S
    PROVE  Nat \subseteq S
<1> DEFINE R == OpToRel(<, Nat)  T == Nat \ S
<1> SUFFICES ASSUME T # {} PROVE FALSE
  OBVIOUS
<1>1. IsWellFoundedOn(R, Nat)
  BY NatLessThanWellFounded
<1> HIDE DEF R
<1>2. T \subseteq Nat
  OBVIOUS
<1>3. PICK x \in T : \A y \in T : ~(<<y, x>> \in R)
  BY <1>1, <1>2, WFMin
<1>4. x \in Nat /\ x # 0 /\ x - 1 \in Nat /\ x - 1 < x /\ (x - 1) + 1 = x
  BY <1>3
<1>5. x - 1 \in T
  BY <1>3, <1>4
<1> QED
  BY <1>3, <1>4, <1>5 DEF R, OpToRel

\* f holds the results after each of the first extrinsics.
Results(way, s, body, f) ==
    /\ f[0] = Included(s)
    /\ \A n \in 1..Len(body) :
          f[n] = IF f[n - 1].ok THEN apply_by(way, f[n - 1].storage, body[n]) ELSE f[n - 1]

LEMMA ResultsExist ==
    ASSUME NEW way, NEW s, NEW body, Len(body) \in Nat
    PROVE  \E f : Results(way, s, body, f) /\ apply_all(way, s, body) = f[Len(body)]
<1> DEFINE next(r, n) == IF r.ok THEN apply_by(way, r.storage, body[n]) ELSE r
           Fold(m, f) == f = [n \in 0..m |-> IF n = 0 THEN Included(s)
                                             ELSE IF f[n - 1].ok
                                               THEN apply_by(way, f[n - 1].storage, body[n])
                                             ELSE f[n - 1]]
           S == {m \in Nat : \E f : Fold(m, f)}
<1>1. 0 \in S
  <2>1. Fold(0, [n \in 0..0 |-> Included(s)])
    OBVIOUS
  <2> QED
    BY <2>1
<1>2. ASSUME NEW m \in Nat, m \in S PROVE m + 1 \in S
  <2>1. PICK f : Fold(m, f)
    BY <1>2
  <2> HIDE DEF Fold
  <2>2. /\ f[0] = Included(s)
        /\ \A n \in 1..m : f[n] = next(f[n - 1], n)
    BY <1>2, <2>1 DEF Fold
  <2> HIDE DEF next
  <2> DEFINE g == [n \in 0..(m + 1) |-> IF n <= m THEN f[n] ELSE next(f[m], m + 1)]
  <2>3. g[0] = Included(s) /\ \A n \in 0..m : g[n] = f[n]
    BY <1>2, <2>2
  <2>4. ASSUME NEW n \in 1..(m + 1) PROVE g[n] = next(g[n - 1], n)
    <3>1. n - 1 \in 0..m
      BY <1>2, <2>4
    <3>2. g[n - 1] = f[n - 1]
      BY <2>3, <3>1
    <3>3. CASE n <= m
      BY <1>2, <2>2, <2>3, <2>4, <3>2, <3>3
    <3>4. CASE n = m + 1
      BY <1>2, <3>2, <3>4
    <3> QED
      BY <1>2, <2>4, <3>3, <3>4
  <2>5. g = [n \in 0..(m + 1) |-> g[n]]
    OBVIOUS
  <2> HIDE DEF g
  <2>6. g = [n \in 0..(m + 1) |-> IF n = 0 THEN Included(s) ELSE next(g[n - 1], n)]
    <3>1. \A n \in 0..(m + 1) : g[n] = IF n = 0 THEN Included(s) ELSE next(g[n - 1], n)
      BY <1>2, <2>3, <2>4
    <3> QED
      BY <2>5, <3>1
  <2>7. Fold(m + 1, g)
    BY <2>6 DEF Fold, next
  <2> QED
    BY <1>2, <2>7
<1>3. Len(body) \in S
  <2> HIDE DEF S
  <2> QED
    BY <1>1, <1>2, InductionOnSet
<1>4. \E f : Fold(Len(body), f) /\ apply_all(way, s, body) = f[Len(body)]
  BY <1>3, Zenon DEF apply_all
<1>5. ASSUME NEW f, Fold(Len(body), f) PROVE Results(way, s, body, f)
  BY <1>5 DEF Results
<1> QED
  BY <1>4, <1>5

\* Bodies that begin alike give the same results as far as they are alike.
LEMMA ResultsAgree ==
    ASSUME NEW way, NEW s, NEW a, NEW b, NEW f, NEW g, NEW m \in Nat,
           Len(a) \in Nat, Len(b) \in Nat, m <= Len(a), m <= Len(b),
           \A i \in 1..m : a[i] = b[i], Results(way, s, a, f), Results(way, s, b, g)
    PROVE  \A i \in 0..m : f[i] = g[i]
<1> DEFINE S == {i \in Nat : i <= m => f[i] = g[i]}
<1>1. 0 \in S
  BY DEF Results
<1>2. ASSUME NEW i \in Nat, i \in S PROVE i + 1 \in S
  <2> SUFFICES ASSUME i + 1 <= m PROVE f[i + 1] = g[i + 1]
    OBVIOUS
  <2>1. /\ f[i] = g[i] /\ i + 1 \in 1..Len(a) /\ i + 1 \in 1..Len(b) /\ i + 1 \in 1..m
        /\ (i + 1) - 1 = i
    BY <1>2
  <2>2. f[i + 1] = IF f[i].ok THEN apply_by(way, f[i].storage, a[i + 1]) ELSE f[i]
    BY <2>1 DEF Results
  <2>3. g[i + 1] = IF g[i].ok THEN apply_by(way, g[i].storage, b[i + 1]) ELSE g[i]
    BY <2>1 DEF Results
  <2>4. a[i + 1] = b[i + 1]
    BY <2>1
  <2> QED
    BY <2>1, <2>2, <2>3, <2>4
<1> HIDE DEF S
<1>3. Nat \subseteq S
  BY <1>1, <1>2, InductionOnSet
<1> QED
  BY <1>3 DEF S

LEMMA ApplyNone == ASSUME NEW way, NEW s PROVE apply_all(way, s, <<>>) = Included(s)
<1>1. Len(<<>>) = 0
  OBVIOUS
<1> QED
  BY <1>1, ResultsExist DEF Results

LEMMA ApplyOneMore ==
    ASSUME NEW way, NEW s, NEW T, NEW body \in Seq(T), NEW xt \in T
    PROVE  apply_all(way, s, Append(body, xt)) =
              IF apply_all(way, s, body).ok
                THEN apply_by(way, apply_all(way, s, body).storage, xt)
                ELSE apply_all(way, s, body)
<1> DEFINE m == Len(body)  longer == Append(body, xt)
<1>1. /\ m \in Nat /\ Len(longer) = m + 1 /\ longer[m + 1] = xt
      /\ \A i \in 1..m : longer[i] = body[i]
  BY LenProperties, AppendProperties
<1> HIDE DEF longer
<1>2. PICK f : Results(way, s, body, f) /\ apply_all(way, s, body) = f[m]
  BY <1>1, ResultsExist
<1>3. PICK g : Results(way, s, longer, g) /\ apply_all(way, s, longer) = g[m + 1]
  BY <1>1, ResultsExist
<1>4. f[m] = g[m]
  BY <1>1, <1>2, <1>3, ResultsAgree
<1>5. m + 1 \in 1..Len(longer) /\ (m + 1) - 1 = m
  BY <1>1
<1>6. g[m + 1] = IF g[m].ok THEN apply_by(way, g[m].storage, xt) ELSE g[m]
  BY <1>1, <1>3, <1>5 DEF Results
<1> QED
  BY <1>2, <1>3, <1>4, <1>6 DEF longer

\* An extrinsic that execute_block includes, try_execute_block includes with the same result.
LEMMA TryIncludes ==
    ASSUME NEW way \in Way, NEW s, NEW xt, apply_by("execute", s, xt).ok
    PROVE  apply_by(way, s, xt) = apply_by("execute", s, xt)
<1>1. \A t : Refused(t).ok = FALSE
  BY DEF Refused
<1>2. apply_by("execute", s, xt) = apply_extrinsic(s, xt)
  BY DEF apply_by
<1>3. /\ signature_ok(xt) /\ pre_dispatch(note_extrinsic(s, xt), xt)
      /\ apply_extrinsic(s, xt)
            = Included(note_applied_extrinsic(dispatch(note_extrinsic(s, xt), xt)))
  BY <1>1, <1>2 DEF apply_extrinsic
<1>4. \A sig \in BOOLEAN : try_apply_extrinsic(s, xt, sig) = apply_extrinsic(s, xt)
  BY <1>3 DEF try_apply_extrinsic
<1> QED
  BY <1>2, <1>4 DEF apply_by

LEMMA TryAppliesAll ==
    ASSUME NEW way \in Way, NEW s, NEW body, Len(body) \in Nat, apply_all("execute", s, body).ok
    PROVE  apply_all(way, s, body) = apply_all("execute", s, body)
<1>1. PICK f : Results("execute", s, body, f) /\ apply_all("execute", s, body) = f[Len(body)]
  BY ResultsExist
<1>2. PICK g : Results(way, s, body, g) /\ apply_all(way, s, body) = g[Len(body)]
  BY ResultsExist
<1> DEFINE S == {i \in Nat : i <= Len(body) /\ f[i].ok => g[i] = f[i]}
<1>3. 0 \in S
  BY <1>1, <1>2 DEF Results
<1>4. ASSUME NEW i \in Nat, i \in S PROVE i + 1 \in S
  <2> SUFFICES ASSUME i + 1 <= Len(body), f[i + 1].ok PROVE g[i + 1] = f[i + 1]
    OBVIOUS
  <2>1. i + 1 \in 1..Len(body) /\ (i + 1) - 1 = i /\ i <= Len(body)
    OBVIOUS
  <2>2. /\ f[i + 1] = IF f[i].ok THEN apply_by("execute", f[i].storage, body[i + 1]) ELSE f[i]
        /\ g[i + 1] = IF g[i].ok THEN apply_by(way, g[i].storage, body[i + 1]) ELSE g[i]
    BY <1>1, <1>2, <2>1 DEF Results
  <2>3. f[i].ok /\ g[i] = f[i]
    BY <1>4, <2>1, <2>2
  <2> QED
    BY <2>2, <2>3, TryIncludes
<1> HIDE DEF S
<1>5. Len(body) \in S
  BY <1>3, <1>4, InductionOnSet
<1> QED
  BY <1>1, <1>2, <1>5 DEF S

\* Items that are no pre-runtime items do not count behind the one of the author.
LEMMA PreDigest ==
    ASSUME NEW h, Len(h.digest) \in Nat \ {0}, h.digest[1] = "pre_runtime",
           \A n \in 2..Len(h.digest) : h.digest[n] # "pre_runtime"
    PROVE  extract_pre_digest(h) = <<"pre_runtime">>
<1> DEFINE d == h.digest
           m == Len(h.digest)
           Kept(k) == k = [n \in 0..Len(h.digest) |->
                             IF n = 0 THEN <<>>
                             ELSE IF h.digest[n] = "pre_runtime" THEN Append(k[n - 1], h.digest[n])
                             ELSE k[n - 1]]
           pre == <<"pre_runtime">>
           all == [n \in 0..m |-> IF n = 0 THEN <<>> ELSE pre]
<1>1. /\ m \in Nat /\ m >= 1 /\ d[1] = "pre_runtime" /\ \A n \in 2..m : d[n] # "pre_runtime"
      /\ Append(<<>>, d[1]) = pre
  OBVIOUS
<1>2. ASSUME NEW k
      PROVE  Kept(k) <=> k = [n \in 0..m |-> IF n = 0 THEN <<>>
                                             ELSE IF d[n] = "pre_runtime"
                                               THEN Append(k[n - 1], d[n])
                                             ELSE k[n - 1]]
  OBVIOUS
<1>3. (\E k : Kept(k)) => \E j : Kept(j) /\ extract_pre_digest(h) = j[m]
  BY Zenon DEF extract_pre_digest
<1> HIDE DEF Kept, d, m, pre
<1>4. Kept(all)
  <2>1. all[0] = <<>> /\ \A n \in 1..m : all[n] = pre
    BY <1>1
  <2>2. all = [n \in 0..m |-> all[n]]
    OBVIOUS
  <2> HIDE DEF all
  <2>3. ASSUME NEW n \in 1..m
        PROVE  all[n] = IF d[n] = "pre_runtime" THEN Append(all[n - 1], d[n]) ELSE all[n - 1]
    <3>1. CASE n = 1
      <4>1. n - 1 = 0
        BY <3>1
      <4> QED
        BY <1>1, <2>1, <3>1, <4>1
    <3>2. CASE n # 1
      <4>1. n \in 2..m /\ n - 1 \in 1..m
        BY <1>1, <2>3, <3>2
      <4> QED
        BY <1>1, <2>1, <4>1
    <3> QED
      BY <3>1, <3>2
  <2>4. \A n \in 0..m : all[n] = IF n = 0 THEN <<>>
                                   ELSE IF d[n] = "pre_runtime" THEN Append(all[n - 1], d[n])
                                   ELSE all[n - 1]
    BY <1>1, <2>1, <2>3
  <2> QED
    BY <1>2, <2>2, <2>4
<1>5. ASSUME NEW j, Kept(j) PROVE j[m] = pre
  <2> DEFINE S == {n \in Nat : n >= 1 /\ n <= m => j[n] = pre}
  <2>1. \A n \in 0..m : j[n] = IF n = 0 THEN <<>>
                                 ELSE IF d[n] = "pre_runtime" THEN Append(j[n - 1], d[n])
                                 ELSE j[n - 1]
    BY <1>2, <1>5
  <2>2. 0 \in S
    OBVIOUS
  <2>3. ASSUME NEW n \in Nat, n \in S PROVE n + 1 \in S
    <3> SUFFICES ASSUME n + 1 <= m PROVE j[n + 1] = pre
      OBVIOUS
    <3>1. n + 1 \in 0..m /\ n + 1 # 0 /\ (n + 1) - 1 = n
      BY <1>1
    <3>2. j[n + 1] = IF d[n + 1] = "pre_runtime" THEN Append(j[n], d[n + 1]) ELSE j[n]
      BY <2>1, <3>1
    <3>3. CASE n = 0
      <4>1. 0 \in 0..m /\ n + 1 = 1
        BY <1>1, <3>3
      <4>2. j[0] = <<>>
        BY <2>1, <4>1
      <4> QED
        BY <1>1, <3>2, <3>3, <4>1, <4>2
    <3>4. CASE n # 0
      <4>1. n + 1 \in 2..m /\ j[n] = pre
        BY <1>1, <2>3, <3>1, <3>4
      <4> QED
        BY <1>1, <3>2, <4>1
    <3> QED
      BY <3>3, <3>4
  <2> HIDE DEF S
  <2>4. m \in S
    BY <1>1, <2>2, <2>3, InductionOnSet
  <2> QED
    BY <1>1, <2>4 DEF S
<1>6. \E j : Kept(j) /\ extract_pre_digest(h) = j[m]
  BY <1>3, <1>4
<1> QED
  BY <1>5, <1>6 DEF pre

-----------------------------------------------------------------------------
(* Storages *)

Item == {"pre_runtime", "environment_updated"}

\* Storages with parent hash p.
Storage(p) ==
    [number: Nat, parent_hash: {p}, digest: Seq(Item), weight: Nat,
     extrinsics: Seq(Extrinsic), index: Nat, nonce: [Account -> Nat], blobs: Nat, code: Nat,
     last_upgrade: Nat, migrations: Nat, idles: Nat]

\* The extrinsics that count.
prefix(s) == SubSeq(s.extrinsics, 1, s.index)

LEMMA Numbers ==
    ASSUME NEW p, NEW s \in Storage(p)
    PROVE  /\ s.weight \in Nat /\ s.index \in Nat /\ s.blobs \in Nat /\ s.code \in Nat
           /\ s.last_upgrade \in Nat /\ s.migrations \in Nat /\ s.idles \in Nat
           /\ s.number \in Nat
BY DEF Storage

LEMMA Prefix ==
    ASSUME NEW p, NEW s \in Storage(p), s.index <= Len(s.extrinsics)
    PROVE  prefix(s) \in Seq(Extrinsic) /\ Len(prefix(s)) = s.index
<1>1. s.extrinsics \in Seq(Extrinsic) /\ s.index \in Nat
  BY DEF Storage
<1> QED
  BY <1>1, SubSeqProperties, LenProperties DEF prefix

LEMMA NoteExtrinsic ==
    ASSUME NEW p, NEW s \in Storage(p), s.index <= Len(s.extrinsics), NEW xt \in Extrinsic
    PROVE  /\ note_extrinsic(s, xt) \in Storage(p)
           /\ note_extrinsic(s, xt) = [s EXCEPT !.extrinsics = Append(prefix(s), xt)]
           /\ Append(prefix(s), xt) \in Seq(Extrinsic)
           /\ prefix(s) \in Seq(Extrinsic) /\ Len(prefix(s)) = s.index
<1>2. prefix(s) \in Seq(Extrinsic) /\ Len(prefix(s)) = s.index
  BY Prefix
<1>3. note_extrinsic(s, xt) = [s EXCEPT !.extrinsics = Append(prefix(s), xt)]
  BY DEF note_extrinsic, prefix
<1>4. Append(prefix(s), xt) \in Seq(Extrinsic)
  BY <1>2, AppendProperties
<1>5. [s EXCEPT !.extrinsics = Append(prefix(s), xt)] \in Storage(p)
  BY <1>4 DEF Storage
<1> QED
  BY <1>2, <1>3, <1>4, <1>5

\* What a call may do to a storage.
Called(p, s, t) ==
    /\ t \in Storage(p)
    /\ t.number = s.number /\ t.extrinsics = s.extrinsics /\ t.index = s.index
    /\ t.digest = s.digest \/ t.digest = Append(s.digest, "environment_updated")
    /\ t.code >= s.code /\ t.last_upgrade = s.last_upgrade /\ t.migrations = s.migrations

LEMMA Dispatch ==
    ASSUME NEW p, NEW s \in Storage(p), NEW xt \in Extrinsic
    PROVE  Called(p, s, dispatch(s, xt))
<1> SUFFICES ASSUME NEW t, t = dispatch(s, xt) PROVE Called(p, s, t)
  OBVIOUS
<1> DEFINE counted == [s EXCEPT !.weight = @ + 1,
                                !.nonce[xt.who] = IF Mandatory(xt) THEN @ ELSE @ + 1]
           nonce == [s.nonce EXCEPT ![xt.who] = IF Mandatory(xt) THEN @ ELSE @ + 1]
<1>1. xt.who \in Account
  BY ExecutiveAssumption DEF ExtrinsicRecord
<1>2. nonce \in [Account -> Nat]
  BY <1>1, SMTT(30) DEF Storage
<1>3. counted = [s EXCEPT !.weight = @ + 1, !.nonce = nonce]
  BY DEF Storage
<1>4. \/ t = counted
      \/ t = [counted EXCEPT !.blobs = @ + 1]
      \/ t = [counted EXCEPT !.code = @ + 1, !.digest = Append(@, "environment_updated")]
  BY DEF dispatch
<1> HIDE DEF nonce, counted
<1>5. counted \in Storage(p)
  <2> DEFINE v == s.weight + 1
  <2>1. v \in Nat /\ counted = [s EXCEPT !.weight = v, !.nonce = nonce]
    BY <1>3, Numbers
  <2> HIDE DEF v
  <2> QED
    BY <1>2, <2>1 DEF Storage
<1>6. counted.number = s.number /\ counted.extrinsics = s.extrinsics /\ counted.index = s.index
  BY <1>3 DEF Storage
<1>7. counted.digest = s.digest /\ counted.code = s.code
  BY <1>3 DEF Storage
<1>8. counted.last_upgrade = s.last_upgrade /\ counted.migrations = s.migrations
  BY <1>3 DEF Storage
<1>9. CASE t = counted
  BY <1>5, <1>6, <1>7, <1>8, <1>9 DEF Storage, Called
<1>10. CASE t = [counted EXCEPT !.blobs = @ + 1]
  <2>1. t \in Storage(p)
    <3> DEFINE v == counted.blobs + 1
    <3>1. v \in Nat /\ t = [counted EXCEPT !.blobs = v]
      BY <1>5, <1>10, Numbers
    <3> HIDE DEF v
    <3> QED
      BY <1>5, <3>1 DEF Storage
  <2>2. t.number = counted.number /\ t.extrinsics = counted.extrinsics /\ t.index = counted.index
    BY <1>5, <1>10 DEF Storage
  <2>3. t.digest = counted.digest /\ t.code = counted.code /\ s.code \in Nat
    BY <1>5, <1>10 DEF Storage
  <2>4. t.last_upgrade = counted.last_upgrade /\ t.migrations = counted.migrations
    BY <1>5, <1>10 DEF Storage
  <2> QED
    BY <1>6, <1>7, <1>8, <2>1, <2>2, <2>3, <2>4 DEF Called
<1>11. CASE t = [counted EXCEPT !.code = @ + 1, !.digest = Append(@, "environment_updated")]
  <2>1. Append(counted.digest, "environment_updated") \in Seq(Item)
    BY <1>5, AppendProperties DEF Storage, Item
  <2>2. t \in Storage(p)
    <3> DEFINE v == counted.code + 1
               d == Append(counted.digest, "environment_updated")
    <3>1. v \in Nat /\ t = [counted EXCEPT !.code = v, !.digest = d]
      BY <1>5, <1>11, Numbers
    <3> HIDE DEF v
    <3>2. d \in Seq(Item)
      BY <2>1
    <3> HIDE DEF d
    <3> QED
      BY <1>5, <3>1, <3>2 DEF Storage
  <2>3. t.number = counted.number /\ t.extrinsics = counted.extrinsics /\ t.index = counted.index
    BY <1>5, <1>11 DEF Storage
  <2>4. t.digest = Append(counted.digest, "environment_updated") /\ t.code = counted.code + 1
        /\ s.code \in Nat
    BY <1>5, <1>11 DEF Storage
  <2>5. t.last_upgrade = counted.last_upgrade /\ t.migrations = counted.migrations
    BY <1>5, <1>11 DEF Storage
  <2> QED
    BY <1>6, <1>7, <1>8, <2>2, <2>3, <2>4, <2>5 DEF Called
<1> QED
  BY <1>4, <1>9, <1>10, <1>11

\* An extrinsic that is included is noted behind the ones that count, and counts.
LEMMA Applied ==
    ASSUME NEW p, NEW s \in Storage(p), s.index <= Len(s.extrinsics), NEW xt \in Extrinsic,
           apply_extrinsic(s, xt).ok, NEW t, t = apply_extrinsic(s, xt).storage
    PROVE  /\ t \in Storage(p) /\ t.index <= Len(t.extrinsics)
           /\ t.number = s.number /\ prefix(t) = Append(prefix(s), xt) /\ t.index = s.index + 1
           /\ t.digest = s.digest \/ t.digest = Append(s.digest, "environment_updated")
           /\ t.code >= s.code /\ t.last_upgrade = s.last_upgrade /\ t.migrations = s.migrations
<1> DEFINE noted == note_extrinsic(s, xt)  called == dispatch(noted, xt)
<1>1. /\ noted \in Storage(p) /\ noted = [s EXCEPT !.extrinsics = Append(prefix(s), xt)]
      /\ Append(prefix(s), xt) \in Seq(Extrinsic)
      /\ prefix(s) \in Seq(Extrinsic) /\ Len(prefix(s)) = s.index
  BY NoteExtrinsic
<1>2. /\ noted.number = s.number /\ noted.extrinsics = Append(prefix(s), xt)
      /\ noted.index = s.index /\ noted.digest = s.digest /\ noted.code = s.code
      /\ noted.last_upgrade = s.last_upgrade /\ noted.migrations = s.migrations
  BY <1>1 DEF Storage
<1>3. t = note_applied_extrinsic(called)
  BY DEF apply_extrinsic, Included, Refused
<1> HIDE DEF noted
<1>4. Called(p, noted, called)
  BY <1>1, Dispatch
<1> HIDE DEF called
<1>5. t = [called EXCEPT !.index = @ + 1]
  BY <1>3 DEF note_applied_extrinsic
<1>6. /\ t \in Storage(p) /\ t.number = called.number /\ t.extrinsics = called.extrinsics
      /\ t.index = called.index + 1 /\ t.digest = called.digest /\ t.code = called.code
      /\ t.last_upgrade = called.last_upgrade /\ t.migrations = called.migrations
  <2>1. t \in Storage(p)
    <3> DEFINE v == called.index + 1
    <3>1. v \in Nat /\ t = [called EXCEPT !.index = v]
      BY <1>4, <1>5, Numbers DEF Called
    <3> HIDE DEF v
    <3> QED
      BY <1>4, <3>1, ZenonT(30) DEF Storage, Called
  <2>2. t.number = called.number /\ t.extrinsics = called.extrinsics
        /\ t.index = called.index + 1
    BY <1>4, <1>5 DEF Storage, Called
  <2>3. t.digest = called.digest /\ t.code = called.code
    BY <1>4, <1>5 DEF Storage, Called
  <2>4. t.last_upgrade = called.last_upgrade /\ t.migrations = called.migrations
    BY <1>4, <1>5 DEF Storage, Called
  <2> QED
    BY <2>1, <2>2, <2>3, <2>4
<1>7. t.extrinsics = Append(prefix(s), xt) /\ t.index = s.index + 1 /\ s.index \in Nat
  BY <1>2, <1>4, <1>6 DEF Storage, Called
<1>8. Len(t.extrinsics) = t.index
  <2>1. Len(Append(prefix(s), xt)) = Len(prefix(s)) + 1
    BY <1>1, AppendProperties
  <2> QED
    BY <1>1, <1>7, <2>1
<1>9. prefix(t) = t.extrinsics
  <2>1. t.extrinsics \in Seq(Extrinsic)
    BY <1>1, <1>7
  <2> QED
    BY <1>8, <2>1, SubSeqFull DEF prefix
<1> QED
  BY <1>2, <1>4, <1>6, <1>7, <1>8, <1>9 DEF Called

LEMMA InitializeBlock ==
    ASSUME NEW p, NEW s \in Storage(p), NEW h, h.number \in Nat,
           extract_pre_digest(h) \in Seq(Item), NEW t, t = initialize_block(s, h)
    PROVE  /\ t \in Storage(h.parent_hash) /\ t.number = h.number /\ t.index = 0
           /\ t.extrinsics = s.extrinsics /\ t.digest = extract_pre_digest(h) /\ t.code = s.code
           /\ t.last_upgrade = IF s.code > s.last_upgrade THEN s.code ELSE s.last_upgrade
           /\ t.migrations = IF s.code > s.last_upgrade THEN s.migrations + 1 ELSE s.migrations
<1> DEFINE base == IF runtime_upgraded(s) THEN execute_on_runtime_upgrade(s) ELSE s
           weight == BaseWeight + IF runtime_upgraded(s) THEN UpgradeWeight ELSE 0
<1>1. /\ base \in Storage(p) /\ base.extrinsics = s.extrinsics /\ base.code = s.code
      /\ base.last_upgrade = IF s.code > s.last_upgrade THEN s.code ELSE s.last_upgrade
      /\ base.migrations = IF s.code > s.last_upgrade THEN s.migrations + 1 ELSE s.migrations
  <2>1. CASE ~runtime_upgraded(s)
    BY <2>1 DEF runtime_upgraded
  <2>2. CASE runtime_upgraded(s)
    <3>1. base = [s EXCEPT !.last_upgrade = s.code, !.migrations = @ + 1]
      BY <2>2 DEF execute_on_runtime_upgrade
    <3> HIDE DEF base
    <3>2. base \in Storage(p)
      <4> DEFINE v == s.migrations + 1
      <4>1. s.code \in Nat /\ v \in Nat
            /\ base = [s EXCEPT !.last_upgrade = s.code, !.migrations = v]
        BY <3>1, Numbers
      <4> HIDE DEF v
      <4> QED
        BY <4>1 DEF Storage
    <3>3. base.extrinsics = s.extrinsics /\ base.code = s.code
      BY <3>1 DEF Storage
    <3>4. base.last_upgrade = s.code /\ base.migrations = s.migrations + 1
      BY <3>1 DEF Storage
    <3> QED
      BY <2>2, <3>2, <3>3, <3>4 DEF runtime_upgraded
  <2> QED
    BY <2>1, <2>2
<1>2. weight \in Nat
  BY ExecutiveAssumption
<1>3. t = [initialize(base, h.number, h.parent_hash, extract_pre_digest(h))
             EXCEPT !.weight = weight]
  BY DEF initialize_block
<1> HIDE DEF base, weight
<1> DEFINE opened == [base EXCEPT !.number = h.number, !.parent_hash = h.parent_hash,
                                  !.digest = extract_pre_digest(h), !.index = 0, !.weight = 0]
<1>4. t = [opened EXCEPT !.weight = weight]
  BY <1>3 DEF initialize
<1>5. opened \in Storage(h.parent_hash)
  BY <1>1 DEF Storage
<1>6. opened.number = h.number /\ opened.index = 0 /\ opened.extrinsics = base.extrinsics
  BY <1>1 DEF Storage
<1>7. opened.digest = extract_pre_digest(h) /\ opened.code = base.code
  BY <1>1 DEF Storage
<1>8. opened.last_upgrade = base.last_upgrade /\ opened.migrations = base.migrations
  BY <1>1 DEF Storage
<1> HIDE DEF opened
<1>9. t \in Storage(h.parent_hash)
  BY <1>2, <1>4, <1>5 DEF Storage
<1>10. t.number = opened.number /\ t.index = opened.index /\ t.extrinsics = opened.extrinsics
  BY <1>4, <1>5 DEF Storage
<1>11. t.digest = opened.digest /\ t.code = opened.code
  BY <1>4, <1>5 DEF Storage
<1>12. t.last_upgrade = opened.last_upgrade /\ t.migrations = opened.migrations
  BY <1>4, <1>5 DEF Storage
<1> QED
  BY <1>1, <1>6, <1>7, <1>8, <1>9, <1>10, <1>11, <1>12

\* The storage of a block that was sealed: nothing counts any more.
LEMMA FinalizeBlock ==
    ASSUME NEW p, NEW s \in Storage(p), s.index <= Len(s.extrinsics), NEW f, f = finalize_block(s)
    PROVE  /\ f.header = [number |-> s.number, parent_hash |-> p, digest |-> s.digest,
                          extrinsics_root |-> prefix(s), state_root |-> f.storage,
                          extension |-> s.blobs]
           /\ f.storage \in Storage(p) /\ f.storage.index = 0 /\ f.storage.number = s.number
           /\ f.storage.code = s.code /\ f.storage.last_upgrade = s.last_upgrade
           /\ f.storage.migrations = s.migrations /\ f.storage.blobs = s.blobs
<1> DEFINE t == idle_and_finalize_hook(s)
           rest == SubSeq(t.extrinsics, t.index + 1, Len(t.extrinsics))
           after == [t EXCEPT !.extrinsics = SubSeq(@, t.index + 1, Len(@)), !.index = 0]
<1>1. /\ t \in Storage(p) /\ t.number = s.number /\ t.extrinsics = s.extrinsics
      /\ t.index = s.index /\ t.digest = s.digest /\ t.blobs = s.blobs /\ t.code = s.code
      /\ t.last_upgrade = s.last_upgrade /\ t.migrations = s.migrations
  <2>1. CASE ~(s.weight < MaxWeight)
    BY <2>1 DEF idle_and_finalize_hook
  <2>2. CASE s.weight < MaxWeight
    <3> DEFINE v == s.weight + 1  w == s.idles + 1
    <3>1. v \in Nat /\ w \in Nat
      BY Numbers
    <3>2. t = [s EXCEPT !.weight = v, !.idles = w]
      BY <2>2 DEF idle_and_finalize_hook
    <3> HIDE DEF v, w, t
    <3>3. t \in Storage(p)
      BY <3>1, <3>2 DEF Storage
    <3>4. t.number = s.number /\ t.extrinsics = s.extrinsics /\ t.index = s.index
      BY <3>2 DEF Storage
    <3>5. t.digest = s.digest /\ t.blobs = s.blobs /\ t.code = s.code
      BY <3>2 DEF Storage
    <3>6. t.last_upgrade = s.last_upgrade /\ t.migrations = s.migrations
      BY <3>2 DEF Storage
    <3> QED
      BY <3>3, <3>4, <3>5, <3>6
  <2> QED
    BY <2>1, <2>2
<1>2. /\ f.storage = after
      /\ f.header = [number |-> t.number, parent_hash |-> t.parent_hash, digest |-> t.digest,
                     extrinsics_root |-> prefix(t), state_root |-> after, extension |-> t.blobs]
  BY DEF finalize_block, finalize, prefix
<1> HIDE DEF t
<1>3. after = [t EXCEPT !.extrinsics = rest, !.index = 0]
  OBVIOUS
<1>4. rest \in Seq(Extrinsic)
  <2>1. t.extrinsics \in Seq(Extrinsic) /\ t.index \in Nat
    BY <1>1 DEF Storage
  <2>2. /\ Len(t.extrinsics) \in Nat
        /\ \A i \in (t.index + 1)..Len(t.extrinsics) : t.extrinsics[i] \in Extrinsic
    BY <2>1, LenProperties, ElementOfSeq
  <2> QED
    BY <2>1, <2>2, SubSeqProperties
<1> HIDE DEF rest, after
<1>5. after \in Storage(p)
  BY <1>1, <1>3, <1>4 DEF Storage
<1>6. after.index = 0 /\ after.number = t.number /\ after.code = t.code
  BY <1>1, <1>3 DEF Storage
<1>7. after.last_upgrade = t.last_upgrade /\ after.migrations = t.migrations /\ after.blobs = t.blobs
  BY <1>1, <1>3 DEF Storage
<1>8. t.parent_hash = p
  BY <1>1 DEF Storage
<1>9. prefix(t) = prefix(s)
  BY <1>1 DEF prefix
<1> QED
  BY <1>1, <1>2, <1>5, <1>6, <1>7, <1>8, <1>9

\* When no extrinsic of the body is refused, each of them counts.
LEMMA AppliedAll ==
    ASSUME NEW p, NEW s \in Storage(p), s.index = 0, NEW body \in Seq(Extrinsic),
           apply_all("execute", s, body).ok, NEW t, t = apply_all("execute", s, body).storage
    PROVE  t \in Storage(p) /\ t.index = Len(body) /\ t.index <= Len(t.extrinsics)
<1> DEFINE Good(n, r) == r.ok => /\ r.storage \in Storage(p) /\ r.storage.index = n
                                 /\ n <= Len(r.storage.extrinsics)
<1>1. Len(body) \in Nat /\ \A n \in 1..Len(body) : body[n] \in Extrinsic
  BY LenProperties, ElementOfSeq
<1>2. PICK f : Results("execute", s, body, f) /\ apply_all("execute", s, body) = f[Len(body)]
  BY <1>1, ResultsExist
<1> DEFINE S == {n \in Nat : n <= Len(body) => Good(n, f[n])}
<1>3. 0 \in S
  <2>1. s.extrinsics \in Seq(Extrinsic)
    BY DEF Storage
  <2>2. Len(s.extrinsics) \in Nat
    BY <2>1, LenProperties
  <2> QED
    BY <1>2, <2>2 DEF Results, Included
<1>4. ASSUME NEW n \in Nat, n \in S PROVE n + 1 \in S
  <2> SUFFICES ASSUME n + 1 <= Len(body), f[n + 1].ok PROVE Good(n + 1, f[n + 1])
    OBVIOUS
  <2>1. n + 1 \in 1..Len(body) /\ (n + 1) - 1 = n /\ n <= Len(body)
    BY <1>1
  <2>2. f[n + 1] = IF f[n].ok THEN apply_by("execute", f[n].storage, body[n + 1]) ELSE f[n]
    BY <1>2, <2>1 DEF Results
  <2>3. f[n].ok
    BY <2>2
  <2> DEFINE u == f[n].storage  v == f[n + 1].storage
  <2>4. u \in Storage(p) /\ u.index = n /\ u.index <= Len(u.extrinsics)
    BY <1>4, <2>1, <2>3
  <2>5. apply_extrinsic(u, body[n + 1]).ok /\ v = apply_extrinsic(u, body[n + 1]).storage
    BY <2>2, <2>3 DEF apply_by
  <2>6. body[n + 1] \in Extrinsic
    BY <1>1, <2>1
  <2> HIDE DEF u, v
  <2>7. v \in Storage(p) /\ v.index = u.index + 1 /\ v.index <= Len(v.extrinsics)
    BY <2>4, <2>5, <2>6, Applied
  <2> QED
    BY <2>4, <2>7 DEF v
<1> HIDE DEF S
<1>5. Len(body) \in S
  BY <1>1, <1>3, <1>4, InductionOnSet
<1> QED
  BY <1>1, <1>2, <1>5 DEF S

-----------------------------------------------------------------------------
(* The blocks of the author *)

\* The author's item, and then what the runtime deposits.
Authored(d) ==
    /\ d \in Seq(Item) /\ Len(d) >= 1 /\ d[1] = "pre_runtime"
    /\ \A n \in 2..Len(d) : d[n] # "pre_runtime"

LEMMA AuthoredGrows ==
    ASSUME NEW d, Authored(d) PROVE Authored(Append(d, "environment_updated"))
<1> DEFINE e == Append(d, "environment_updated")
<1>1. d \in Seq(Item) /\ Len(d) \in Nat
  BY LenProperties DEF Authored
<1>2. /\ e \in Seq(Item) /\ Len(e) = Len(d) + 1 /\ e[Len(d) + 1] = "environment_updated"
      /\ \A n \in 1..Len(d) : e[n] = d[n]
  BY <1>1, AppendProperties DEF Item
<1> HIDE DEF e
<1>3. e[1] = "pre_runtime" /\ Len(e) >= 1
  BY <1>1, <1>2 DEF Authored
<1>4. ASSUME NEW n \in 2..Len(e) PROVE e[n] # "pre_runtime"
  <2>1. CASE n = Len(d) + 1
    BY <1>2, <2>1
  <2>2. CASE n \in 2..Len(d)
    BY <1>1, <1>2, <2>2 DEF Authored
  <2> QED
    BY <1>1, <1>2, <1>4, <2>1, <2>2
<1> QED
  BY <1>2, <1>3, <1>4 DEF Authored, e

\* The storage in which the author of a block with this parent applies its extrinsics.
Opened(s, number, parent_hash) ==
    initialize_block(s, [number |-> number, parent_hash |-> parent_hash,
                         digest |-> <<"pre_runtime">>])

\* Nodes start from the storage that the author started from.
LEMMA SameStart ==
    ASSUME NEW s, NEW h, Authored(h.digest)
    PROVE  initialize_block(s, h) = Opened(s, h.number, h.parent_hash)
<1> DEFINE pre == <<"pre_runtime">>
           g == [number |-> h.number, parent_hash |-> h.parent_hash, digest |-> pre]
<1>1. extract_pre_digest(h) = pre
  <2>1. Len(h.digest) \in Nat \ {0}
    BY LenProperties DEF Authored
  <2> QED
    BY <2>1, PreDigest DEF Authored
<1>2. extract_pre_digest(g) = pre
  <2>1. Len(g.digest) = 1 /\ g.digest[1] = "pre_runtime"
    OBVIOUS
  <2> HIDE DEF g
  <2> QED
    BY <2>1, PreDigest
<1>3. g.number = h.number /\ g.parent_hash = h.parent_hash
  OBVIOUS
<1>4. Opened(s, h.number, h.parent_hash) = initialize_block(s, g)
  BY DEF Opened
<1> HIDE DEF g, pre
<1> QED
  BY <1>1, <1>2, <1>3, <1>4 DEF initialize_block

LEMMA OpenedBlock ==
    ASSUME NEW p, NEW s \in Storage(p), NEW n \in Nat, NEW q, NEW t, t = Opened(s, n, q)
    PROVE  /\ t \in Storage(q) /\ t.number = n /\ t.index = 0
           /\ Authored(t.digest) /\ t.code = s.code
           /\ t.last_upgrade = IF s.code > s.last_upgrade THEN s.code ELSE s.last_upgrade
           /\ t.migrations = IF s.code > s.last_upgrade THEN s.migrations + 1 ELSE s.migrations
<1> DEFINE pre == <<"pre_runtime">>
           g == [number |-> n, parent_hash |-> q, digest |-> pre]
<1>1. Authored(pre)
  BY DEF Authored, Item
<1>2. extract_pre_digest(g) = pre
  <2>1. Len(g.digest) = 1 /\ g.digest[1] = "pre_runtime"
    OBVIOUS
  <2> HIDE DEF g
  <2> QED
    BY <2>1, PreDigest
<1>3. g.number = n /\ g.parent_hash = q /\ t = initialize_block(s, g)
  BY DEF Opened
<1>4. pre \in Seq(Item)
  BY DEF Item
<1> HIDE DEF g, pre
<1> QED
  BY <1>1, <1>2, <1>3, <1>4, InitializeBlock

\* What the block under construction is, on the storage and header of its parent: each
\* extrinsic that counts is included when the block is executed again from the start.
Built(s, h, b) ==
    /\ b \in Storage(h) /\ b.index <= Len(b.extrinsics) /\ b.number = s.number + 1
    /\ Authored(b.digest)
    /\ ensure_inherents_are_first(prefix(b))
    /\ apply_all("execute", Opened(s, s.number + 1, h), prefix(b)) = Included(b)
    /\ b.code >= s.code
    /\ b.last_upgrade = IF s.code > s.last_upgrade THEN s.code ELSE s.last_upgrade
    /\ b.migrations = IF s.code > s.last_upgrade THEN s.migrations + 1 ELSE s.migrations

\* What a sealed block is, on the storage of its parent.
Sealed(s, block) ==
    /\ block = [header |-> block.header, storage |-> block.storage, body |-> block.body]
    /\ block.body \in Seq(Extrinsic)
    /\ block.header = [number |-> s.number + 1, parent_hash |-> block.header.parent_hash,
                       digest |-> block.header.digest, extrinsics_root |-> block.body,
                       state_root |-> block.storage, extension |-> block.storage.blobs]
    /\ Authored(block.header.digest)
    /\ block.storage \in Storage(block.header.parent_hash) /\ block.storage.index = 0
    /\ execute_block(s, block) = [ok |-> TRUE, storage |-> block.storage]
    /\ block.storage.code >= s.code
    /\ block.storage.last_upgrade = IF s.code > s.last_upgrade THEN s.code ELSE s.last_upgrade
    /\ block.storage.migrations = IF s.code > s.last_upgrade THEN s.migrations + 1
                                  ELSE s.migrations

LEMMA BuildingStarts ==
    ASSUME NEW p, NEW s \in Storage(p), NEW h, NEW t, t = Opened(s, s.number + 1, h)
    PROVE  Built(s, h, t)
<1>1. s.number + 1 \in Nat /\ s.code \in Nat
  BY Numbers
<1>2. /\ t \in Storage(h) /\ t.number = s.number + 1 /\ t.index = 0
      /\ Authored(t.digest) /\ t.code = s.code
      /\ t.last_upgrade = IF s.code > s.last_upgrade THEN s.code ELSE s.last_upgrade
      /\ t.migrations = IF s.code > s.last_upgrade THEN s.migrations + 1 ELSE s.migrations
  <2> DEFINE n == s.number + 1
  <2>1. n \in Nat /\ t = Opened(s, n, h)
    BY <1>1
  <2>2. t \in Storage(h) /\ t.number = n /\ t.index = 0 /\ Authored(t.digest) /\ t.code = s.code
    <3> HIDE DEF n
    <3> QED
      BY <2>1, OpenedBlock
  <2>3. /\ t.last_upgrade = IF s.code > s.last_upgrade THEN s.code ELSE s.last_upgrade
        /\ t.migrations = IF s.code > s.last_upgrade THEN s.migrations + 1 ELSE s.migrations
    <3> HIDE DEF n
    <3> QED
      BY <2>1, OpenedBlock
  <2> QED
    BY <2>2, <2>3
<1>3. t.extrinsics \in Seq(Extrinsic)
  BY <1>2 DEF Storage
<1>4. Len(t.extrinsics) \in Nat
  BY <1>3, LenProperties
<1>5. prefix(t) = <<>>
  BY <1>2, <1>3, SubSeqEmpty DEF prefix
<1>6. ensure_inherents_are_first(prefix(t))
  BY <1>5 DEF ensure_inherents_are_first
<1>7. apply_all("execute", t, prefix(t)) = Included(t)
  BY <1>5, ApplyNone
<1> QED
  BY <1>1, <1>2, <1>4, <1>6, <1>7 DEF Built

\* An extrinsic that is included, an inherent only before the transactions.
LEMMA BuildingGrows ==
    ASSUME NEW p, NEW s \in Storage(p), NEW h, NEW b, Built(s, h, b), NEW xt \in Extrinsic,
           Mandatory(xt) => \A k \in 1..b.index : Mandatory(b.extrinsics[k]),
           apply_extrinsic(b, xt).ok, NEW t, t = apply_extrinsic(b, xt).storage
    PROVE  Built(s, h, t)
<1>1. b \in Storage(h) /\ b.index <= Len(b.extrinsics)
  BY DEF Built
<1>2. /\ t \in Storage(h) /\ t.index <= Len(t.extrinsics)
      /\ t.number = b.number /\ prefix(t) = Append(prefix(b), xt) /\ t.index = b.index + 1
      /\ t.digest = b.digest \/ t.digest = Append(b.digest, "environment_updated")
      /\ t.code >= b.code /\ t.last_upgrade = b.last_upgrade /\ t.migrations = b.migrations
  BY <1>1, Applied
<1>3. Authored(t.digest)
  BY <1>2, AuthoredGrows DEF Built
<1>4. prefix(b) \in Seq(Extrinsic) /\ Len(prefix(b)) = b.index
  BY <1>1, Prefix
<1>5. ensure_inherents_are_first(prefix(t))
  <2> DEFINE q == prefix(b)  r == Append(q, xt)
  <2>1. /\ Len(q) \in Nat /\ DOMAIN r = 1..(Len(q) + 1) /\ DOMAIN q = 1..Len(q)
        /\ r[Len(q) + 1] = xt /\ \A i \in 1..Len(q) : r[i] = q[i]
    BY <1>4, LenProperties, AppendProperties
  <2>2. \A k \in 1..b.index : q[k] = b.extrinsics[k]
    <3>1. b.extrinsics \in Seq(Extrinsic) /\ b.index \in Nat
      BY <1>1 DEF Storage
    <3> QED
      BY <1>1, <3>1, SubSeqProperties, LenProperties DEF prefix
  <2>3. ensure_inherents_are_first(q)
    BY DEF Built
  <2> HIDE DEF q, r
  <2>4. ASSUME NEW i \in DOMAIN r, NEW j \in DOMAIN r, i < j, Mandatory(r[j])
        PROVE  Mandatory(r[i])
    <3>1. CASE j = Len(q) + 1
      <4>1. Mandatory(xt) /\ i \in 1..b.index /\ r[i] = q[i]
        BY <1>4, <2>1, <2>4, <3>1 DEF q
      <4> QED
        BY <2>2, <4>1
    <3>2. CASE j \in DOMAIN q
      <4>1. i \in DOMAIN q /\ r[i] = q[i] /\ r[j] = q[j]
        BY <2>1, <2>4, <3>2
      <4> QED
        BY <2>3, <2>4, <3>2, <4>1 DEF ensure_inherents_are_first
    <3> QED
      BY <2>1, <2>4, <3>1, <3>2
  <2> QED
    BY <1>2, <2>4 DEF ensure_inherents_are_first, q, r
<1>6. apply_all("execute", Opened(s, s.number + 1, h), prefix(t)) = Included(t)
  <2> DEFINE start == Opened(s, s.number + 1, h)
  <2>1. apply_all("execute", start, prefix(b)) = Included(b)
    BY DEF Built
  <2> HIDE DEF start
  <2>2. apply_all("execute", start, Append(prefix(b), xt)) = apply_by("execute", b, xt)
    BY <1>4, <2>1, ApplyOneMore DEF Included
  <2>3. apply_by("execute", b, xt) = Included(t)
    BY DEF apply_by, apply_extrinsic, Included, Refused
  <2> QED
    BY <1>2, <2>2, <2>3 DEF start
<1>7. t.code >= s.code
  <2>1. t.code \in Nat /\ b.code \in Nat /\ s.code \in Nat
    BY <1>1, <1>2, Numbers
  <2> QED
    BY <1>2, <2>1 DEF Built
<1> QED
  BY <1>2, <1>3, <1>5, <1>6, <1>7 DEF Built

LEMMA BuildingEnds ==
    ASSUME NEW p, NEW s \in Storage(p), NEW h, NEW b, Built(s, h, b), NEW block,
           block = [header |-> finalize_block(b).header, storage |-> finalize_block(b).storage,
                    body |-> finalize_block(b).header.extrinsics_root]
    PROVE  Sealed(s, block) /\ block.header.parent_hash = h
<1> DEFINE f == finalize_block(b)
<1>1. b \in Storage(h) /\ b.index <= Len(b.extrinsics)
  BY DEF Built
<1>2. /\ f.header = [number |-> b.number, parent_hash |-> h, digest |-> b.digest,
                     extrinsics_root |-> prefix(b), state_root |-> f.storage,
                     extension |-> b.blobs]
      /\ f.storage \in Storage(h) /\ f.storage.index = 0 /\ f.storage.number = b.number
      /\ f.storage.code = b.code /\ f.storage.last_upgrade = b.last_upgrade
      /\ f.storage.migrations = b.migrations /\ f.storage.blobs = b.blobs
  BY <1>1, FinalizeBlock
<1>3. block.header = f.header /\ block.storage = f.storage /\ block.body = f.header.extrinsics_root
  OBVIOUS
<1> HIDE DEF f
<1>4. /\ block.header.number = s.number + 1 /\ block.header.parent_hash = h
      /\ block.header.digest = b.digest /\ block.body = prefix(b)
      /\ block.header.extrinsics_root = prefix(b) /\ block.header.state_root = f.storage
  BY <1>2, <1>3 DEF Built
<1>5. prefix(b) \in Seq(Extrinsic)
  BY <1>1, Prefix
<1>6. initialize_block(s, block.header) = Opened(s, s.number + 1, h)
  BY <1>4, SameStart DEF Built
<1>7. execute_block(s, block) = [ok |-> TRUE, storage |-> block.storage]
  <2> DEFINE start == initialize_block(s, block.header)
  <2>1. apply_all("execute", start, block.body) = Included(b)
    BY <1>4, <1>6 DEF Built
  <2>2. start.parent_hash = h
    <3>1. start \in Storage(h)
      BY <1>6, OpenedBlock, Numbers
    <3> QED
      BY <3>1 DEF Storage
  <2> HIDE DEF start
  <2>3. s.number + 1 > 0
    BY Numbers
  <2>4. initial_checks(start, block)
    BY <1>4, <2>2, <2>3 DEF initial_checks, Built
  <2>5. final_checks(block.header, f.header)
    BY <1>3 DEF final_checks
  <2>6. Included(b).ok = TRUE /\ Included(b).storage = b
    BY DEF Included
  <2>7. execute_block(s, block) =
           [ok |-> /\ initial_checks(start, block)
                   /\ apply_all("execute", start, block.body).ok
                   /\ final_checks(block.header,
                                   finalize_block(apply_all("execute", start, block.body).storage).header),
            storage |-> finalize_block(apply_all("execute", start, block.body).storage).storage]
    BY DEF execute_block, start
  <2> QED
    BY <1>3, <2>1, <2>4, <2>5, <2>6, <2>7 DEF f
<1> QED
  BY <1>2, <1>3, <1>4, <1>5, <1>7 DEF Sealed, Built

LEMMA TryAgrees ==
    ASSUME NEW s, NEW block, Len(block.body) \in Nat, execute_block(s, block).ok,
           NEW root \in BOOLEAN, NEW sig \in BOOLEAN, NEW select, NEW broken
    PROVE  try_execute_block(s, block, root, sig, select, broken)
              = IF try_state(select, broken) THEN "ok" ELSE "err"
<1> DEFINE start == initialize_block(s, block.header)
           way == IF sig THEN "try" ELSE "try_unsigned"
           applied == apply_all("execute", start, block.body)
<1>1. /\ initial_checks(start, block) /\ applied.ok
      /\ final_checks(block.header, finalize_block(applied.storage).header)
  BY DEF execute_block
<1>2. try_execute_block(s, block, root, sig, select, broken) =
         IF ~initial_checks(start, block) THEN "panic"
         ELSE IF ~try_state(select, broken) THEN "err"
         ELSE IF try_final_checks(block.header,
                    finalize_block(apply_all(way, start, block.body).storage).header, root)
                THEN "ok"
         ELSE "panic"
  BY DEF try_execute_block
<1>3. way \in Way
  BY DEF Way
<1> HIDE DEF way, start
<1>4. apply_all(way, start, block.body) = applied
  BY <1>1, <1>3, TryAppliesAll
<1>5. try_final_checks(block.header, finalize_block(applied.storage).header, root)
  BY <1>1 DEF final_checks, try_final_checks
<1> QED
  BY <1>1, <1>2, <1>4, <1>5

\* A block that try_execute_block takes, and whose extrinsics execute_block includes, has
\* the root of their extrinsics, and of the state when it is compared.
LEMMA TryChecks ==
    ASSUME NEW s, NEW block, Len(block.body) \in Nat, NEW root \in BOOLEAN, NEW sig \in BOOLEAN,
           try_execute_block(s, block, root, sig, {}, {}) = "ok", NEW r,
           r = apply_all("execute", initialize_block(s, block.header), block.body), r.ok
    PROVE  block.header.extrinsics_root = finalize_block(r.storage).header.extrinsics_root
<1> DEFINE start == initialize_block(s, block.header)
           way == IF sig THEN "try" ELSE "try_unsigned"
<1>1. try_final_checks(block.header,
         finalize_block(apply_all(way, start, block.body).storage).header, root)
  BY DEF try_execute_block
<1>2. way \in Way
  BY DEF Way
<1> HIDE DEF way, start
<1>3. apply_all(way, start, block.body) = r
  BY <1>2, TryAppliesAll DEF start
<1> QED
  BY <1>1, <1>3 DEF try_final_checks

LEMMA TryChecksRoot ==
    ASSUME NEW s, NEW block, Len(block.body) \in Nat, NEW sig \in BOOLEAN,
           try_execute_block(s, block, TRUE, sig, {}, {}) = "ok", NEW r,
           r = apply_all("execute", initialize_block(s, block.header), block.body), r.ok
    PROVE  block.header.state_root = finalize_block(r.storage).header.state_root
<1> DEFINE start == initialize_block(s, block.header)
           way == IF sig THEN "try" ELSE "try_unsigned"
<1>1. try_final_checks(block.header,
         finalize_block(apply_all(way, start, block.body).storage).header, TRUE)
  BY DEF try_execute_block
<1>2. way \in Way
  BY DEF Way
<1> HIDE DEF way, start
<1>3. apply_all(way, start, block.body) = r
  BY <1>2, TryAppliesAll DEF start
<1> QED
  BY <1>1, <1>3 DEF try_final_checks

\* A block that is accepted has the digest and the roots of its execution.
LEMMA AcceptedChecks ==
    ASSUME NEW s, NEW block, execute_block(s, block).ok, NEW r,
           r = apply_all("execute", initialize_block(s, block.header), block.body)
    PROVE  /\ r.ok
           /\ block.header.digest = finalize_block(r.storage).header.digest
           /\ block.header.state_root = finalize_block(r.storage).header.state_root
           /\ block.header.extrinsics_root = finalize_block(r.storage).header.extrinsics_root
BY DEF execute_block, final_checks

\* One more item of the digest, at its end and not of the author.
LEMMA AuthoredAltered ==
    ASSUME NEW d, Authored(d), NEW s, NEW h, h.digest = Append(d, "other"), NEW g, g.digest = d,
           h.number = g.number, h.parent_hash = g.parent_hash
    PROVE  initialize_block(s, h) = initialize_block(s, g) /\ Append(d, "other") # d
<1> DEFINE e == Append(d, "other")
<1>1. d \in Seq(Item \cup {"other"}) /\ Len(d) \in Nat
  BY LenProperties DEF Authored
<1>2. /\ Len(e) = Len(d) + 1 /\ e[Len(d) + 1] = "other"
      /\ \A n \in 1..Len(d) : e[n] = d[n]
  BY <1>1, AppendProperties
<1> HIDE DEF e
<1>3. Len(e) \in Nat \ {0} /\ e[1] = "pre_runtime"
  BY <1>1, <1>2 DEF Authored
<1>4. ASSUME NEW n \in 2..Len(e) PROVE e[n] # "pre_runtime"
  <2>1. CASE n = Len(d) + 1
    BY <1>2, <2>1
  <2>2. CASE n \in 2..Len(d)
    BY <1>1, <1>2, <2>2 DEF Authored
  <2> QED
    BY <1>1, <1>2, <1>4, <2>1, <2>2
<1>5. h.digest = e
  BY DEF e
<1>6. extract_pre_digest(h) = <<"pre_runtime">>
  BY <1>3, <1>4, <1>5, PreDigest
<1>7. extract_pre_digest(g) = <<"pre_runtime">>
  <2>1. Len(d) \in Nat \ {0} /\ d[1] = "pre_runtime" /\ \A n \in 2..Len(d) : d[n] # "pre_runtime"
    BY <1>1 DEF Authored
  <2> QED
    BY <2>1, PreDigest
<1>8. e # d
  BY <1>1, <1>2
<1> DEFINE pre == <<"pre_runtime">>
<1>9. extract_pre_digest(h) = pre /\ extract_pre_digest(g) = pre
  BY <1>6, <1>7
<1> HIDE DEF pre
<1> QED
  BY <1>8, <1>9 DEF initialize_block, e

LEMMA AlteredRefused ==
    ASSUME NEW p, NEW s \in Storage(p), NEW block, Sealed(s, block),
           NEW what \in {"state_root", "extrinsics_root", "digest", "body"},
           what = "body" => block.body # <<>>
    PROVE  ~execute_block(s, Altered(block, what)).ok
<1> DEFINE h == block.header
           a == Altered(block, what)
           r == apply_all("execute", initialize_block(s, h), block.body)
<1>1. /\ h.extrinsics_root = block.body /\ h.state_root = block.storage
      /\ execute_block(s, block).ok
  BY DEF Sealed
<1>2. /\ r.ok /\ h.digest = finalize_block(r.storage).header.digest
      /\ h.state_root = finalize_block(r.storage).header.state_root
      /\ h.extrinsics_root = finalize_block(r.storage).header.extrinsics_root
  BY <1>1, AcceptedChecks
<1>3. Len(block.body) \in Nat
  BY LenProperties DEF Sealed
<1>4. CASE what = "state_root"
  <2>1. a = [block EXCEPT !.header.state_root.blobs = @ + 1]
    BY <1>4 DEF Altered
  <2>2. /\ a.body = block.body /\ a.header.number = h.number
        /\ a.header.parent_hash = h.parent_hash /\ a.header.digest = h.digest
    BY <2>1 DEF Sealed
  <2>3. a.header.state_root # h.state_root
    <3>1. block.storage.blobs \in Nat
      BY Numbers DEF Sealed
    <3>2. a.header.state_root = [block.storage EXCEPT !.blobs = @ + 1]
      BY <2>1 DEF Sealed
    <3>3. a.header.state_root.blobs = block.storage.blobs + 1
      BY <3>2 DEF Sealed, Storage
    <3> QED
      BY <1>1, <3>1, <3>3
  <2>4. initialize_block(s, a.header) = initialize_block(s, h)
    BY <2>2 DEF initialize_block, extract_pre_digest
  <2> HIDE DEF a
  <2> QED
    BY <1>2, <2>2, <2>3, <2>4, AcceptedChecks DEF a
<1>5. CASE what = "extrinsics_root"
  <2>1. a = [block EXCEPT !.header.extrinsics_root = Append(@, "other")]
    BY <1>5 DEF Altered
  <2>2. /\ a.body = block.body /\ a.header.number = h.number
        /\ a.header.parent_hash = h.parent_hash /\ a.header.digest = h.digest
        /\ a.header.extrinsics_root = Append(block.body, "other")
    BY <2>1 DEF Sealed
  <2>3. Append(block.body, "other") # block.body
    <3>1. block.body \in Seq(Extrinsic \cup {"other"})
      BY DEF Sealed
    <3>2. Len(Append(block.body, "other")) = Len(block.body) + 1
      BY <3>1, AppendProperties
    <3> QED
      BY <1>3, <3>2
  <2>4. initialize_block(s, a.header) = initialize_block(s, h)
    BY <2>2 DEF initialize_block, extract_pre_digest
  <2>5. a.header.extrinsics_root # h.extrinsics_root
    BY <1>1, <2>2, <2>3
  <2> HIDE DEF a
  <2> QED
    BY <1>2, <2>2, <2>4, <2>5, AcceptedChecks DEF a
<1>6. CASE what = "digest"
  <2>1. a = [block EXCEPT !.header.digest = Append(@, "other")]
    BY <1>6 DEF Altered
  <2>2. /\ a.body = block.body /\ a.header.number = h.number
        /\ a.header.parent_hash = h.parent_hash /\ a.header.digest = Append(h.digest, "other")
    BY <2>1 DEF Sealed
  <2> HIDE DEF a
  <2>3. initialize_block(s, a.header) = initialize_block(s, h) /\ Append(h.digest, "other") # h.digest
    BY <2>2, AuthoredAltered DEF Sealed
  <2> QED
    BY <1>2, <2>2, <2>3, AcceptedChecks, SMTT(30) DEF a
<1>7. CASE what = "body"
  <2> DEFINE fewer == SubSeq(block.body, 1, Len(block.body) - 1)
             start == Opened(s, s.number + 1, h.parent_hash)
             u == apply_all("execute", start, fewer)
  <2>1. a = [block EXCEPT !.body = SubSeq(@, 1, Len(@) - 1)]
    BY <1>7 DEF Altered
  <2>2. a.body = fewer /\ a.header = h
    BY <2>1 DEF Sealed
  <2>3. fewer \in Seq(Extrinsic) /\ Len(fewer) = Len(block.body) - 1
    <3>1. block.body \in Seq(Extrinsic) /\ block.body # <<>>
      BY <1>7 DEF Sealed
    <3>2. Len(block.body) >= 1
      BY <1>3, <3>1, EmptySeq
    <3> QED
      BY <1>3, <3>1, <3>2, SubSeqProperties, LenProperties
  <2>4. initialize_block(s, h) = start
    BY SameStart DEF Sealed
  <2>5. start \in Storage(h.parent_hash) /\ start.index = 0
    <3> DEFINE n == s.number + 1
    <3>1. n \in Nat /\ start = Opened(s, n, h.parent_hash)
      BY Numbers
    <3> HIDE DEF n, start
    <3> QED
      BY <3>1, OpenedBlock
  <2> HIDE DEF a, fewer, start
  <2> SUFFICES ASSUME execute_block(s, a).ok PROVE FALSE
    BY DEF a
  <2>6. u.ok /\ a.header.extrinsics_root = finalize_block(u.storage).header.extrinsics_root
    BY <2>2, <2>4, AcceptedChecks
  <2> DEFINE t == u.storage
  <2>7. t \in Storage(h.parent_hash) /\ t.index = Len(fewer) /\ t.index <= Len(t.extrinsics)
    BY <2>3, <2>5, <2>6, AppliedAll
  <2>8. finalize_block(t).header.extrinsics_root = prefix(t)
    <3> DEFINE f == finalize_block(t)
    <3> HIDE DEF t
    <3>1. f.header = [number |-> t.number, parent_hash |-> h.parent_hash, digest |-> t.digest,
                      extrinsics_root |-> prefix(t), state_root |-> f.storage,
                      extension |-> t.blobs]
      BY <2>7, FinalizeBlock
    <3> QED
      BY <3>1
  <2>9. Len(prefix(t)) = Len(fewer)
    BY <2>7, Prefix
  <2> QED
    BY <1>1, <1>3, <2>2, <2>3, <2>6, <2>8, <2>9
<1> QED
  BY <1>4, <1>5, <1>6, <1>7

LEMMA TryAlteredRefused ==
    ASSUME NEW p, NEW s \in Storage(p), NEW block, Sealed(s, block),
           NEW what \in {"state_root", "extrinsics_root", "body"},
           NEW root \in BOOLEAN, NEW sig \in BOOLEAN,
           what = "state_root" => root, what = "body" => block.body # <<>>
    PROVE  try_execute_block(s, Altered(block, what), root, sig, {}, {}) # "ok"
<1> DEFINE h == block.header
           a == Altered(block, what)
           r == apply_all("execute", initialize_block(s, h), block.body)
<1>1. /\ h.extrinsics_root = block.body /\ h.state_root = block.storage
      /\ execute_block(s, block).ok
  BY DEF Sealed
<1>2. /\ r.ok /\ h.state_root = finalize_block(r.storage).header.state_root
      /\ h.extrinsics_root = finalize_block(r.storage).header.extrinsics_root
  BY <1>1, AcceptedChecks
<1>3. Len(block.body) \in Nat
  BY LenProperties DEF Sealed
<1>4. CASE what = "state_root"
  <2>1. a = [block EXCEPT !.header.state_root.blobs = @ + 1]
    BY <1>4 DEF Altered
  <2>2. /\ a.body = block.body /\ a.header.number = h.number
        /\ a.header.parent_hash = h.parent_hash /\ a.header.digest = h.digest
    BY <2>1 DEF Sealed
  <2>3. a.header.state_root # h.state_root
    <3>1. block.storage.blobs \in Nat
      BY Numbers DEF Sealed
    <3>2. a.header.state_root = [block.storage EXCEPT !.blobs = @ + 1]
      BY <2>1 DEF Sealed
    <3>3. a.header.state_root.blobs = block.storage.blobs + 1
      BY <3>2 DEF Sealed, Storage
    <3> QED
      BY <1>1, <3>1, <3>3
  <2>4. initialize_block(s, a.header) = initialize_block(s, h)
    BY <2>2 DEF initialize_block, extract_pre_digest
  <2>5. root = TRUE
    BY <1>4
  <2> HIDE DEF a, r
  <2> SUFFICES ASSUME try_execute_block(s, a, root, sig, {}, {}) = "ok" PROVE FALSE
    BY DEF a
  <2>6. r = apply_all("execute", initialize_block(s, a.header), a.body) /\ r.ok
    BY <1>2, <2>2, <2>4 DEF r
  <2>7. a.header.state_root = finalize_block(r.storage).header.state_root
    <3>1. Len(a.body) \in Nat
      BY <1>3, <2>2
    <3>2. try_execute_block(s, a, TRUE, sig, {}, {}) = "ok"
      BY <2>5
    <3> QED
      BY <2>6, <3>1, <3>2, TryChecksRoot
  <2> QED
    BY <1>2, <2>3, <2>7
<1>5. CASE what = "extrinsics_root"
  <2>1. a = [block EXCEPT !.header.extrinsics_root = Append(@, "other")]
    BY <1>5 DEF Altered
  <2>2. /\ a.body = block.body /\ a.header.number = h.number
        /\ a.header.parent_hash = h.parent_hash /\ a.header.digest = h.digest
        /\ a.header.extrinsics_root = Append(block.body, "other")
    BY <2>1 DEF Sealed
  <2>3. Append(block.body, "other") # block.body
    <3>1. block.body \in Seq(Extrinsic \cup {"other"})
      BY DEF Sealed
    <3>2. Len(Append(block.body, "other")) = Len(block.body) + 1
      BY <3>1, AppendProperties
    <3> QED
      BY <1>3, <3>2
  <2>4. initialize_block(s, a.header) = initialize_block(s, h)
    BY <2>2 DEF initialize_block, extract_pre_digest
  <2>5. a.header.extrinsics_root # h.extrinsics_root
    BY <1>1, <2>2, <2>3
  <2> HIDE DEF a, r
  <2> SUFFICES ASSUME try_execute_block(s, a, root, sig, {}, {}) = "ok" PROVE FALSE
    BY DEF a
  <2>6. r = apply_all("execute", initialize_block(s, a.header), a.body) /\ r.ok
    BY <1>2, <2>2, <2>4 DEF r
  <2>7. a.header.extrinsics_root = finalize_block(r.storage).header.extrinsics_root
    BY <1>3, <2>2, <2>6, TryChecks
  <2> QED
    BY <1>2, <2>5, <2>7
<1>6. CASE what = "body"
  <2> DEFINE fewer == SubSeq(block.body, 1, Len(block.body) - 1)
             last == block.body[Len(block.body)]
             start == Opened(s, s.number + 1, h.parent_hash)
             u == apply_all("execute", start, fewer)
  <2>1. a = [block EXCEPT !.body = SubSeq(@, 1, Len(@) - 1)]
    BY <1>6 DEF Altered
  <2>2. a.body = fewer /\ a.header = h
    BY <2>1 DEF Sealed
  <2>3. /\ fewer \in Seq(Extrinsic) /\ Len(fewer) = Len(block.body) - 1 /\ Len(fewer) \in Nat
        /\ block.body = Append(fewer, last) /\ last \in Extrinsic
    <3>1. block.body \in Seq(Extrinsic) /\ block.body # <<>>
      BY <1>6 DEF Sealed
    <3>2. Len(block.body) >= 1
      BY <1>3, <3>1, EmptySeq
    <3>3. fewer \in Seq(Extrinsic) /\ Len(fewer) = Len(block.body) - 1
      BY <1>3, <3>1, <3>2, SubSeqProperties, LenProperties
    <3>4. last \in Extrinsic
      BY <1>3, <3>1, <3>2, ElementOfSeq
    <3>5. \A i \in 1..Len(fewer) : fewer[i] = block.body[i]
      BY <1>3, <3>1, <3>2, <3>3, SubSeqProperties
    <3>6. /\ Append(fewer, last) \in Seq(Extrinsic) /\ Len(Append(fewer, last)) = Len(fewer) + 1
          /\ \A i \in 1..Len(fewer) : Append(fewer, last)[i] = fewer[i]
          /\ Append(fewer, last)[Len(fewer) + 1] = last
      BY <3>3, <3>4, AppendProperties
    <3>7. \A i \in 1..Len(block.body) : Append(fewer, last)[i] = block.body[i]
      BY <1>3, <3>2, <3>3, <3>5, <3>6
    <3> HIDE DEF fewer, last
    <3> QED
      BY <1>3, <3>1, <3>2, <3>3, <3>4, <3>6, <3>7, SeqEqual
  <2>4. initialize_block(s, h) = start
    BY SameStart DEF Sealed
  <2>5. start \in Storage(h.parent_hash) /\ start.index = 0
    <3> DEFINE n == s.number + 1
    <3>1. n \in Nat /\ start = Opened(s, n, h.parent_hash)
      BY Numbers
    <3> HIDE DEF n, start
    <3> QED
      BY <3>1, OpenedBlock
  <2> HIDE DEF a, fewer, last, start
  <2>6. u.ok
    BY <1>2, <2>3, <2>4, ApplyOneMore
  <2> SUFFICES ASSUME try_execute_block(s, a, root, sig, {}, {}) = "ok" PROVE FALSE
    BY DEF a
  <2>7. a.header.extrinsics_root = finalize_block(u.storage).header.extrinsics_root
    BY <2>2, <2>3, <2>4, <2>6, TryChecks
  <2> DEFINE t == u.storage
  <2>8. t \in Storage(h.parent_hash) /\ t.index = Len(fewer) /\ t.index <= Len(t.extrinsics)
    BY <2>3, <2>5, <2>6, AppliedAll
  <2>9. finalize_block(t).header.extrinsics_root = prefix(t)
    <3> DEFINE f == finalize_block(t)
    <3> HIDE DEF t
    <3>1. f.header = [number |-> t.number, parent_hash |-> h.parent_hash, digest |-> t.digest,
                      extrinsics_root |-> prefix(t), state_root |-> f.storage,
                      extension |-> t.blobs]
      BY <2>8, FinalizeBlock
    <3> QED
      BY <3>1
  <2>10. Len(prefix(t)) = Len(fewer)
    BY <2>8, Prefix
  <2> QED
    BY <1>1, <1>3, <2>2, <2>3, <2>7, <2>9, <2>10
<1> QED
  BY <1>4, <1>5, <1>6

-----------------------------------------------------------------------------
(* The inductive invariant *)

IsSeq(q) == Len(q) \in Nat /\ q = [i \in 1..Len(q) |-> q[i]]

\* r is q with x behind it.
Grown(q, x, r) ==
    /\ IsSeq(r) /\ Len(r) = Len(q) + 1 /\ r[Len(q) + 1] = x
    /\ \A i \in 1..Len(q) : r[i] = q[i]

LEMMA IsSeqAppend == ASSUME NEW q, IsSeq(q), NEW x PROVE Grown(q, x, Append(q, x))
<1> SUFFICES ASSUME NEW r, r = Append(q, x) PROVE Grown(q, x, r)
  OBVIOUS
<1> DEFINE T == {q[i] : i \in 1..Len(q)} \cup {x}
<1>1. q \in Seq(T)
  <2>1. \A i \in 1..Len(q) : q[i] \in T
    OBVIOUS
  <2> HIDE DEF T
  <2>2. Len(q) \in Nat /\ q = [i \in 1..Len(q) |-> q[i]]
    BY DEF IsSeq
  <2>3. [i \in 1..Len(q) |-> q[i]] \in Seq(T)
    BY <2>1, <2>2, IsASeq
  <2> QED
    BY <2>2, <2>3
<1>2. x \in T
  OBVIOUS
<1> HIDE DEF T
<1>3. /\ r \in Seq(T) /\ Len(r) = Len(q) + 1 /\ r[Len(q) + 1] = x
      /\ \A i \in 1..Len(q) : r[i] = q[i]
  BY <1>1, <1>2, AppendProperties
<1>4. IsSeq(r)
  <2>1. Len(r) \in Nat /\ DOMAIN r = 1..Len(r) /\ r \in [1..Len(r) -> T]
    BY <1>3, LenProperties
  <2> QED
    BY <2>1 DEF IsSeq
<1> QED
  BY <1>3, <1>4 DEF Grown

\* Every block of the author is sealed as nodes will find it, the one under construction
\* can be, and the importing node follows the author.
ExecInv ==
    /\ pool \subseteq Extrinsic /\ \A xt \in pool : ~Mandatory(xt)
    /\ IsSeq(chain) /\ Len(chain) >= 1 /\ chain[1].storage = Genesis
    /\ \A k \in 1..Len(chain) : chain[k].storage \in Storage(chain[k].storage.parent_hash)
    /\ \A k \in 2..Len(chain) : Sealed(chain[k - 1].storage, chain[k])
    /\ \/ building = <<>>
       \/ /\ building = <<building[1]>>
          /\ Built(Best, chain[Len(chain)].header, building[1])
    /\ IsSeq(imported) /\ Len(imported) >= 1 /\ Len(imported) <= Len(chain)
    /\ \A k \in 1..Len(imported) : imported[k] = chain[k].storage
    /\ refused = {}

LEMMA GenesisStorage == Genesis \in Storage(<<>>)
<1> DEFINE none == <<>>
           zero == [a \in Account |-> 0]
           s == [number |-> 0, parent_hash |-> none, digest |-> none, weight |-> 0,
                 extrinsics |-> none, index |-> 0, nonce |-> zero, blobs |-> 0, code |-> 1,
                 last_upgrade |-> 1, migrations |-> 0, idles |-> 0]
<1>1. none \in Seq(Item) /\ none \in Seq(Extrinsic) /\ zero \in [Account -> Nat]
  OBVIOUS
<1>2. Genesis = s
  BY DEF Genesis
<1> HIDE DEF none, zero
<1>3. s \in Storage(none)
  BY <1>1 DEF Storage
<1> QED
  BY <1>2, <1>3 DEF none

LEMMA ExecInit == Init => ExecInv
<1> SUFFICES ASSUME Init PROVE ExecInv
  OBVIOUS
<1>1. /\ pool = {} /\ building = <<>> /\ refused = {} /\ imported = <<Genesis>>
      /\ Len(chain) = 1 /\ chain[1].storage = Genesis
      /\ chain = <<chain[1]>>
  BY DEF Init
<1>2. IsSeq(chain)
  BY <1>1 DEF IsSeq
<1>3. IsSeq(imported) /\ Len(imported) = 1 /\ imported[1] = Genesis
  BY <1>1 DEF IsSeq
<1>4. Genesis \in Storage(Genesis.parent_hash)
  <2>1. Genesis.parent_hash = <<>>
    BY DEF Genesis
  <2> QED
    BY <2>1, GenesisStorage
<1> QED
  BY <1>1, <1>2, <1>3, <1>4 DEF ExecInv

LEMMA ExecStep == ExecInv /\ [Next]_vars => ExecInv'
<1> SUFFICES ASSUME ExecInv, [Next]_vars PROVE ExecInv'
  OBVIOUS
<1>1. /\ Len(chain) \in Nat /\ Len(chain) >= 1 /\ Len(imported) \in Nat /\ Len(imported) >= 1
      /\ Best \in Storage(Best.parent_hash)
  BY DEF ExecInv, IsSeq, Best
<1>2. CASE UNCHANGED vars
  BY <1>2 DEF vars, ExecInv, Best
<1>3. ASSUME NEW xt \in Extrinsic, submit_transaction(xt) PROVE ExecInv'
  <2>1. pool' \subseteq Extrinsic /\ \A x \in pool' : ~Mandatory(x)
    BY <1>3 DEF submit_transaction, validate_transaction, ExecInv
  <2> QED
    BY <1>3, <2>1 DEF submit_transaction, ExecInv, Best
<1>4. ASSUME NEW xt \in Extrinsic, building # <<>>, building' = built_with(xt),
             UNCHANGED <<chain, imported, refused>>, pool' \subseteq pool,
             Mandatory(xt) => \A k \in 1..building[1].index : Mandatory(building[1].extrinsics[k])
      PROVE  ExecInv'
  <2> DEFINE b == building[1]
             r == apply_extrinsic(b, xt)
  <2>1. building = <<b>> /\ Built(Best, chain[Len(chain)].header, b)
    BY <1>4 DEF ExecInv
  <2>2. CASE ~r.ok
    <3>1. building' = building
      BY <1>4, <2>2 DEF built_with
    <3> QED
      BY <1>4, <3>1 DEF ExecInv, Best
  <2>3. CASE r.ok
    <3>1. building' = <<r.storage>>
      BY <1>4, <2>3 DEF built_with
    <3>2. building'[1] = r.storage /\ building' = <<building'[1]>>
      BY <3>1
    <3>3. Built(Best, chain[Len(chain)].header, r.storage)
      <4> HIDE DEF b
      <4> QED
        BY <1>1, <1>4, <2>1, <2>3, BuildingGrows DEF b
    <3>4. Best' = Best /\ chain'[Len(chain')].header = chain[Len(chain)].header
      BY <1>4 DEF Best
    <3> HIDE DEF r
    <3>5. building' = <<building'[1]>> /\ Built(Best', chain'[Len(chain')].header, building'[1])
      BY <3>2, <3>3, <3>4
    <3> QED
      BY <1>4, <3>5 DEF ExecInv
  <2> QED
    BY <2>2, <2>3
<1>5. ASSUME NEW xt \in Extrinsic, apply_inherent(xt) PROVE ExecInv'
  BY <1>4, <1>5 DEF apply_inherent
<1>6. ASSUME NEW xt \in Extrinsic, apply_transaction(xt) PROVE ExecInv'
  <2>1. ~Mandatory(xt)
    BY <1>6 DEF apply_transaction, ExecInv
  <2>2. pool' \subseteq pool
    BY <1>6 DEF apply_transaction
  <2> QED
    BY <1>4, <1>6, <2>1, <2>2 DEF apply_transaction
<1>7. CASE start_block
  <2> DEFINE t == Opened(Best, Best.number + 1, chain[Len(chain)].header)
  <2>1. building' = <<t>> /\ UNCHANGED <<pool, chain, imported, refused>>
    BY <1>7 DEF start_block, Opened
  <2>2. Built(Best, chain[Len(chain)].header, t)
    BY <1>1, BuildingStarts
  <2> HIDE DEF t
  <2>3. building'[1] = t /\ building' = <<building'[1]>>
    BY <2>1
  <2>4. Best' = Best /\ chain'[Len(chain')].header = chain[Len(chain)].header
    BY <2>1 DEF Best
  <2>5. building' = <<building'[1]>> /\ Built(Best', chain'[Len(chain')].header, building'[1])
    BY <2>2, <2>3, <2>4
  <2> QED
    BY <2>1, <2>5 DEF ExecInv
<1>8. CASE seal_block
  <2> DEFINE b == building[1]
             block == [header |-> finalize_block(b).header, storage |-> finalize_block(b).storage,
                       body |-> finalize_block(b).header.extrinsics_root]
             n == Len(chain)
  <2>1. /\ chain' = Append(chain, block) /\ building' = <<>>
        /\ UNCHANGED <<pool, imported, refused>>
    BY <1>8 DEF seal_block
  <2>2. Built(Best, chain[n].header, b)
    BY <1>8 DEF seal_block, ExecInv
  <2>3. Sealed(Best, block)
    BY <1>1, <2>2, BuildingEnds
  <2> HIDE DEF block
  <2>4. /\ IsSeq(chain') /\ Len(chain') = n + 1 /\ chain'[n + 1] = block
        /\ \A i \in 1..n : chain'[i] = chain[i]
    <3>1. IsSeq(chain)
      BY DEF ExecInv
    <3>2. Grown(chain, block, chain')
      BY <2>1, <3>1, IsSeqAppend
    <3> QED
      BY <3>2 DEF Grown
  <2>5. block.storage \in Storage(block.storage.parent_hash)
    <3>1. block.storage \in Storage(block.header.parent_hash)
      BY <2>3 DEF Sealed
    <3>2. block.storage.parent_hash = block.header.parent_hash
      BY <3>1 DEF Storage
    <3> QED
      BY <3>1, <3>2
  <2>6. \A k \in 1..Len(chain') : chain'[k].storage \in Storage(chain'[k].storage.parent_hash)
    <3>1. ASSUME NEW k \in 1..(n + 1)
          PROVE  chain'[k].storage \in Storage(chain'[k].storage.parent_hash)
      <4>1. CASE k = n + 1
        BY <2>4, <2>5, <4>1
      <4>2. CASE k \in 1..n
        BY <2>4, <4>2 DEF ExecInv
      <4> QED
        BY <1>1, <3>1, <4>1, <4>2
    <3> QED
      BY <2>4, <3>1
  <2>7. \A k \in 2..Len(chain') : Sealed(chain'[k - 1].storage, chain'[k])
    <3>1. ASSUME NEW k \in 2..(n + 1) PROVE Sealed(chain'[k - 1].storage, chain'[k])
      <4>1. k - 1 \in 1..n
        BY <1>1, <3>1
      <4>2. CASE k = n + 1
        <5>1. chain'[k - 1].storage = Best /\ chain'[k] = block
          BY <1>1, <2>4, <4>1, <4>2 DEF Best
        <5> QED
          BY <2>3, <5>1
      <4>3. CASE k \in 2..n
        <5>1. k \in 1..n
          BY <1>1, <4>3
        <5>2. chain'[k - 1] = chain[k - 1] /\ chain'[k] = chain[k]
          BY <2>4, <4>1, <5>1
        <5> QED
          BY <4>3, <5>2 DEF ExecInv
      <4> QED
        BY <1>1, <3>1, <4>2, <4>3
    <3> QED
      BY <2>4, <3>1
  <2>8. Len(chain') >= 1 /\ chain'[1].storage = Genesis
    BY <1>1, <2>4 DEF ExecInv
  <2>9. /\ IsSeq(imported') /\ Len(imported') >= 1 /\ Len(imported') <= Len(chain')
        /\ \A k \in 1..Len(imported') : imported'[k] = chain'[k].storage
    <3>1. Len(imported) <= n
      BY DEF ExecInv
    <3>2. \A k \in 1..Len(imported) : imported[k] = chain'[k].storage
      BY <1>1, <2>4, <3>1 DEF ExecInv
    <3> QED
      BY <1>1, <2>1, <2>4, <3>1, <3>2 DEF ExecInv
  <2> QED
    BY <2>1, <2>4, <2>6, <2>7, <2>8, <2>9 DEF ExecInv
<1>9. CASE import_block
  <2> DEFINE m == Len(imported)
             block == chain[m + 1]
             result == execute_block(imported[m], block)
  <2>1. m < Len(chain) /\ UNCHANGED <<pool, chain, building>>
    BY <1>9 DEF import_block
  <2>2. imported[m] = chain[m].storage
    BY <1>1 DEF ExecInv
  <2>3. m + 1 \in 2..Len(chain) /\ (m + 1) - 1 = m
    BY <1>1, <2>1
  <2>4. Sealed(chain[m].storage, block)
    BY <2>3 DEF ExecInv
  <2>5. result.ok /\ result.storage = block.storage
    BY <2>2, <2>4 DEF Sealed
  <2>6. imported' = Append(imported, block.storage) /\ refused' = refused
    BY <1>9, <2>5 DEF import_block
  <2> HIDE DEF result
  <2>7. /\ IsSeq(imported') /\ Len(imported') = m + 1 /\ imported'[m + 1] = block.storage
        /\ \A i \in 1..m : imported'[i] = imported[i]
    <3>1. IsSeq(imported)
      BY DEF ExecInv
    <3>2. Grown(imported, block.storage, imported')
      BY <2>6, <3>1, IsSeqAppend
    <3> QED
      BY <3>2 DEF Grown
  <2>8. ASSUME NEW k \in 1..(m + 1) PROVE imported'[k] = chain[k].storage
    <3>1. CASE k = m + 1
      BY <2>7, <3>1
    <3>2. CASE k \in 1..m
      BY <2>7, <3>2 DEF ExecInv
    <3> QED
      BY <1>1, <2>8, <3>1, <3>2
  <2>9. Best' = Best
    BY <2>1 DEF Best
  <2> HIDE DEF block
  <2>10. /\ IsSeq(imported') /\ Len(imported') >= 1 /\ Len(imported') <= Len(chain')
         /\ \A k \in 1..Len(imported') : imported'[k] = chain'[k].storage
    BY <1>1, <2>1, <2>3, <2>7, <2>8
  <2> QED
    BY <2>1, <2>6, <2>9, <2>10 DEF ExecInv
<1> QED
  BY <1>2, <1>3, <1>5, <1>6, <1>7, <1>8, <1>9 DEF Next

\* Along the chain, the blocks that ran the hooks are the ones behind a change of the code.
LEMMA UpgradesCount == ExecInv => UpgradesRunOnce
<1> SUFFICES ASSUME ExecInv PROVE UpgradesRunOnce
  OBVIOUS
<1> DEFINE st(k) == chain[k].storage
           E(k) == {j \in 2..(k - 1) : chain[j].storage.code # chain[j - 1].storage.code}
           Good(k) == /\ IsFiniteSet(E(k)) /\ st(k).migrations = Cardinality(E(k))
                      /\ st(k).last_upgrade <= st(k).code
                      /\ st(k).code > st(k).last_upgrade
                            <=> (k >= 2 /\ st(k).code # st(k - 1).code)
           S == {n \in Nat : n + 1 <= Len(chain) => Good(n + 1)}
<1>1. /\ Len(chain) \in Nat /\ DOMAIN chain = 1..Len(chain)
      /\ \A k \in 1..Len(chain) : st(k).code \in Nat /\ st(k).last_upgrade \in Nat
                                  /\ st(k).migrations \in Nat
  <2>1. Len(chain) \in Nat /\ DOMAIN chain = 1..Len(chain)
    BY DEF ExecInv, IsSeq
  <2>2. \A k \in 1..Len(chain) : st(k) \in Storage(st(k).parent_hash)
    BY DEF ExecInv
  <2> HIDE DEF st
  <2> QED
    BY <2>1, <2>2, Numbers
<1>2. 0 \in S
  <2>1. st(1) = Genesis /\ Genesis.migrations = 0 /\ Genesis.code = 1 /\ Genesis.last_upgrade = 1
    BY DEF ExecInv, Genesis
  <2>2. E(1) = {}
    OBVIOUS
  <2>3. IsFiniteSet(E(1)) /\ Cardinality(E(1)) = 0
    BY <2>2, FS_EmptySet
  <2> HIDE DEF st, E
  <2>4. Good(1)
    BY <2>1, <2>3
  <2> QED
    BY <2>4
<1>3. ASSUME NEW n \in Nat, n \in S PROVE n + 1 \in S
  <2> DEFINE k == n + 1
  <2> SUFFICES ASSUME k + 1 <= Len(chain) PROVE Good(k + 1)
    OBVIOUS
  <2>1. /\ k \in Nat /\ k >= 1 /\ k \in 1..Len(chain) /\ k + 1 \in 2..Len(chain)
        /\ k + 1 \in 1..Len(chain) /\ (k + 1) - 1 = k
    BY <1>1
  <2>2. Good(k)
    BY <1>3, <2>1
  <2>3. Sealed(st(k), chain[k + 1])
    BY <2>1 DEF ExecInv
  <2>4. /\ st(k + 1).code >= st(k).code
        /\ st(k + 1).last_upgrade
              = IF st(k).code > st(k).last_upgrade THEN st(k).code ELSE st(k).last_upgrade
        /\ st(k + 1).migrations
              = IF st(k).code > st(k).last_upgrade THEN st(k).migrations + 1
                ELSE st(k).migrations
    BY <2>3 DEF Sealed
  <2>5. /\ E(k + 1) = (IF k >= 2 /\ st(k).code # st(k - 1).code THEN E(k) \cup {k} ELSE E(k))
        /\ k \notin E(k)
    BY <2>1
  <2>6. /\ st(k).code \in Nat /\ st(k).last_upgrade \in Nat /\ st(k).migrations \in Nat
        /\ st(k + 1).code \in Nat /\ st(k + 1).last_upgrade \in Nat
    BY <1>1, <2>1
  <2> HIDE DEF st, E, k
  <2>7. IsFiniteSet(E(k + 1)) /\ st(k + 1).migrations = Cardinality(E(k + 1))
    <3>1. CASE k >= 2 /\ st(k).code # st(k - 1).code
      <4>1. E(k + 1) = E(k) \cup {k} /\ st(k + 1).migrations = st(k).migrations + 1
        BY <2>2, <2>4, <2>5, <3>1
      <4>2. IsFiniteSet(E(k)) /\ st(k).migrations = Cardinality(E(k))
        BY <2>2
      <4> QED
        BY <2>5, <4>1, <4>2, FS_AddElement
    <3>2. CASE ~(k >= 2 /\ st(k).code # st(k - 1).code)
      <4>1. E(k + 1) = E(k) /\ st(k + 1).migrations = st(k).migrations
        BY <2>2, <2>4, <2>5, <3>2
      <4> QED
        BY <2>2, <4>1
    <3> QED
      BY <3>1, <3>2
  <2>8. st(k + 1).last_upgrade = st(k).code
    BY <2>2, <2>4, <2>6
  <2> QED
    BY <2>1, <2>4, <2>6, <2>7, <2>8
<1>4. Nat \subseteq S
  <2> HIDE DEF S
  <2> QED
    BY <1>2, <1>3, InductionOnSet
<1>5. ASSUME NEW k \in DOMAIN chain PROVE st(k).migrations = Cardinality(E(k))
  <2>1. k - 1 \in Nat /\ (k - 1) + 1 = k /\ k <= Len(chain)
    BY <1>1
  <2> HIDE DEF st, E
  <2> QED
    BY <1>4, <2>1
<1> QED
  BY <1>5 DEF UpgradesRunOnce

-----------------------------------------------------------------------------
(* The theorems *)

\* Every block that the author seals is executed without a panic by the importing node
\* (execute_block), and the storages of both are the same.
THEOREM BuiltBlocksAreImported == Spec => []BuiltBlocksImport
<1>1. ExecInv => BuiltBlocksImport
  BY DEF ExecInv, BuiltBlocksImport, IsSeq
<1> QED
  BY <1>1, ExecInit, ExecStep, PTL DEF Spec

\* A node accepts no block of which a root, the digest or the body was changed
\* (final_checks, with the digest that initialize_block takes from the header).
THEOREM AlteredBlocksAreRefused == Spec => []AlteredBlocksRefused
<1>1. ExecInv => AlteredBlocksRefused
  <2> SUFFICES ASSUME ExecInv, NEW k \in Blocks,
                      NEW what \in {"state_root", "extrinsics_root", "digest", "body"},
                      what = "body" => chain[k].body # <<>>
               PROVE  ~execute_block(chain[k - 1].storage, Altered(chain[k], what)).ok
    BY DEF AlteredBlocksRefused
  <2>1. k \in 2..Len(chain) /\ k - 1 \in 1..Len(chain)
    BY DEF Blocks, ExecInv, IsSeq
  <2>2. /\ Sealed(chain[k - 1].storage, chain[k])
        /\ chain[k - 1].storage \in Storage(chain[k - 1].storage.parent_hash)
    BY <2>1 DEF ExecInv
  <2> QED
    BY <2>2, AlteredRefused
<1> QED
  BY <1>1, ExecInit, ExecStep, PTL DEF Spec

\* The upgrade hooks run in the first block behind a change of the code and in no other
\* (runtime_upgraded in initialize_block), however often the code changes in a block.
THEOREM UpgradesAreRunOnce == Spec => []UpgradesRunOnce
<1> QED
  BY UpgradesCount, ExecInit, ExecStep, PTL DEF Spec

\* try_execute_block takes the blocks that execute_block takes, with or without its checks
\* of the state root and of signatures, unless a selected check of a pallet fails, and
\* takes none with an altered root or body.
THEOREM TryRuntimeAccepts == Spec => []TryRuntimeAgrees
<1>1. ExecInv => TryRuntimeAgrees
  <2> SUFFICES ASSUME ExecInv, NEW k \in Blocks, NEW root \in BOOLEAN, NEW sig \in BOOLEAN
      PROVE  /\ execute_block(chain[k - 1].storage, chain[k]).ok
                   => \A select, broken \in SUBSET Pallet :
                        try_execute_block(chain[k - 1].storage, chain[k], root, sig, select, broken)
                            = IF try_state(select, broken) THEN "ok" ELSE "err"
             /\ \A what \in {"state_root", "extrinsics_root", "body"} :
                   (what = "state_root" => root) /\ (what = "body" => chain[k].body # <<>>)
                     => try_execute_block(chain[k - 1].storage, Altered(chain[k], what),
                                          root, sig, {}, {}) # "ok"
    BY DEF TryRuntimeAgrees
  <2>1. Len(chain[k].body) \in Nat
    BY LenProperties DEF Blocks, ExecInv, Sealed
  <2>2. k \in 2..Len(chain) /\ k - 1 \in 1..Len(chain)
    BY DEF Blocks, ExecInv, IsSeq
  <2>3. /\ Sealed(chain[k - 1].storage, chain[k])
        /\ chain[k - 1].storage \in Storage(chain[k - 1].storage.parent_hash)
    BY <2>2 DEF ExecInv
  <2>4. ASSUME execute_block(chain[k - 1].storage, chain[k]).ok,
               NEW select \in SUBSET Pallet, NEW broken \in SUBSET Pallet
        PROVE  try_execute_block(chain[k - 1].storage, chain[k], root, sig, select, broken)
                  = IF try_state(select, broken) THEN "ok" ELSE "err"
    BY <2>1, <2>4, TryAgrees
  <2>5. ASSUME NEW what \in {"state_root", "extrinsics_root", "body"},
               what = "state_root" => root, what = "body" => chain[k].body # <<>>
        PROVE  try_execute_block(chain[k - 1].storage, Altered(chain[k], what),
                                 root, sig, {}, {}) # "ok"
    BY <2>3, <2>5, TryAlteredRefused
  <2> QED
    BY <2>4, <2>5
<1> QED
  BY <1>1, ExecInit, ExecStep, PTL DEF Spec
=============================================================================
