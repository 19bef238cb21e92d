--------------------------- MODULE HeTransferProofs ---------------------------
(***************************************************************************)
(* What leaves the database and what comes back, for any rows the calls    *)
(* leave: searchByPath and import_csv keep the same rows under a filter,   *)
(* the stack builds the document that the rows of a scan spell, and an     *)
(* import writes the document that it hashed, at whatever path, and gives  *)
(* back what its filter kept; and the text of a CSV carries any rows, of   *)
(* any characters (HeCsv).                                                 *)
(***************************************************************************)
EXTENDS HeCsv, HeQueryProofs

-----------------------------------------------------------------------------
(***************************************************************************)
(* The rows that leave                                                     *)
(***************************************************************************)

\* The rows that export_csv prints.
Exported(p) ==
    {r \in RowsAt({x \in DOMAIN containers \cup DOMAIN primitives : IsPrefix(p, x)}) :
        r.path = p => r.slash}

\* They are those at and below p, without the scalar at p.
LEMMA ExportedChar ==
    ASSUME IInv, NEW p
    PROVE  /\ \A r \in Exported(p) : IsRow(r)
           /\ Keyed(Exported(p))
           /\ \A r : r \in Exported(p) <=>
                 /\ r = [path |-> r.path, slash |-> r.slash]
                 /\ IsPrefix(p, r.path)
                 /\ \/ r.slash = TRUE /\ r.path \in DOMAIN containers
                    \/ r.slash = FALSE /\ r.path \in DOMAIN primitives /\ r.path # p
<1>1. PICK C, D : C = DOMAIN containers /\ D = DOMAIN primitives
  OBVIOUS
<1>2. C \subseteq Path /\ D \subseteq Path
  BY <1>1 DEF IInv, TypeOK
<1>3. PICK S : S = {x \in C \cup D : IsPrefix(p, x)}
  OBVIOUS
<1>4. \A r : r \in RowsAt(S) <=> \/ \E x \in S \cap C : r = [path |-> x, slash |-> TRUE]
                                 \/ \E x \in S \cap D : r = [path |-> x, slash |-> FALSE]
  BY <1>1 DEF RowsAt
<1>5. \A r : r \in Exported(p) <=> r \in RowsAt(S) /\ (r.path = p => r.slash)
  BY <1>1, <1>3 DEF Exported
<1>6. ASSUME NEW r
      PROVE  r \in Exported(p) <=>
                 /\ r = [path |-> r.path, slash |-> r.slash]
                 /\ IsPrefix(p, r.path)
                 /\ \/ r.slash = TRUE /\ r.path \in C
                    \/ r.slash = FALSE /\ r.path \in D /\ r.path # p
  <2>1. ASSUME r \in Exported(p)
        PROVE  /\ r = [path |-> r.path, slash |-> r.slash]
               /\ IsPrefix(p, r.path)
               /\ \/ r.slash = TRUE /\ r.path \in C
                  \/ r.slash = FALSE /\ r.path \in D /\ r.path # p
    <3>1. r \in RowsAt(S) /\ (r.path = p => r.slash)
      BY <1>5, <2>1
    <3>2. CASE \E x \in S \cap C : r = [path |-> x, slash |-> TRUE]
      BY <1>3, <3>2
    <3>3. CASE \E x \in S \cap D : r = [path |-> x, slash |-> FALSE]
      BY <1>3, <3>1, <3>3
    <3> QED
      BY <1>4, <3>1, <3>2, <3>3
  <2>2. ASSUME r = [path |-> r.path, slash |-> TRUE], IsPrefix(p, r.path), r.path \in C
        PROVE  r \in Exported(p)
    BY <1>3, <1>4, <1>5, <2>2
  <2>3. ASSUME r = [path |-> r.path, slash |-> FALSE], IsPrefix(p, r.path), r.path \in D, r.path # p
        PROVE  r \in Exported(p)
    BY <1>3, <1>4, <1>5, <2>3
  <2> QED
    BY <2>1, <2>2, <2>3
<1>7. ASSUME NEW r \in Exported(p) PROVE IsRow(r)
  BY <1>2, <1>6 DEF IsRow
<1>8. Keyed(Exported(p))
  BY <1>6 DEF Keyed
<1> QED
  BY <1>1, <1>6, <1>7, <1>8

\* A CSV lists them in the order of rows, each with the text it spells.
LEMMA ExportIsList ==
    ASSUME IInv, FInv, NEW p
    PROVE  \E n \in Nat :
              /\ n = Cardinality(Exported(p))
              /\ RowsInOrder(Exported(p)) \in [1..n -> Exported(p)]
              /\ \A r \in Exported(p) : \E i \in 1..n : RowsInOrder(Exported(p))[i] = r
              /\ \A i, j \in 1..n :
                    RowBefore(RowsInOrder(Exported(p))[i], RowsInOrder(Exported(p))[j]) <=> i < j
              /\ ExportRows(p) = [i \in 1..n |-> Printable(RowsInOrder(Exported(p))[i])]
<1>1. PICK E : E = Exported(p)
  OBVIOUS
<1>2. IsFiniteSet(E)
  BY <1>1, FiniteRowsAt DEF Exported
<1>3. Keyed(E) /\ \A r \in E : IsRow(r)
  BY <1>1, ExportedChar
<1>4. PICK rows : rows = RowsInOrder(E)
  OBVIOUS
<1>5. PICK n : n = Cardinality(E)
  OBVIOUS
<1>6. /\ n \in Nat /\ rows \in [1..n -> E] /\ Len(rows) = n
      /\ \A r \in E : \E i \in 1..n : rows[i] = r
      /\ \A i, j \in 1..n : RowBefore(rows[i], rows[j]) <=> i < j
  BY <1>2, <1>3, <1>4, <1>5, RowsListed
<1>7. ExportRows(p) = [i \in 1..n |-> Printable(rows[i])]
  BY <1>1, <1>4, <1>6 DEF ExportRows, Exported
<1> QED
  BY <1>1, <1>4, <1>5, <1>6, <1>7

-----------------------------------------------------------------------------
(***************************************************************************)
(* Two matchers                                                            *)
(***************************************************************************)

\* Without "**" the two matchers of the store and the engine are one.
LEMMA GlobIsSegmentwise ==
    ASSUME NEW x, Len(x) \in Nat, NEW pattern, Len(pattern) \in Nat,
           \A j \in 1..Len(pattern) : pattern[j] # Deep
    PROVE  PathMatchesGlob(x, pattern)
               <=> /\ Len(x) = Len(pattern)
                   /\ \A l \in 1..Len(pattern) : pattern[l] \in {Star, x[l]}
<1> DEFINE m == Len(pattern)
           n == Len(x)
           Rest(j) == {i \in 0..n : /\ m - j = n - i
                                    /\ \A l \in 1..(m - j) : pattern[j + l] \in {Star, x[i + l]}}
           Step(f, j) == IF j = m THEN {n}
                         ELSE IF pattern[j + 1] = Deep THEN {i \in 0..n : \E l \in i..n : l \in f[j + 1]}
                         ELSE {i \in 0..n-1 : pattern[j + 1] \in {Star, x[i + 1]} /\ i + 1 \in f[j + 1]}
           W == [j \in 0..m |-> Rest(j)]
<1>1. ASSUME NEW f, NEW j \in 0..m, j = m \/ f[j + 1] = Rest(j + 1)
      PROVE  Step(f, j) = Rest(j)
  <2>1. CASE j = m
    BY <2>1
  <2>2. CASE j # m
    <3>1. j + 1 \in 1..m /\ pattern[j + 1] # Deep
      BY <2>2
    <3>2. Step(f, j) = {i \in 0..n-1 : pattern[j + 1] \in {Star, x[i + 1]} /\ i + 1 \in Rest(j + 1)}
      BY <1>1, <2>2, <3>1
    <3>3. ASSUME NEW i \in 0..n-1, pattern[j + 1] \in {Star, x[i + 1]}, i + 1 \in Rest(j + 1)
          PROVE  i \in Rest(j)
      <4>0. m \in Nat /\ n \in Nat /\ j \in Int /\ i \in Int /\ m - (j + 1) = n - (i + 1)
        <5>1. m - (j + 1) = n - (i + 1)
          BY <3>3
        <5>2. m \in Nat /\ n \in Nat
          OBVIOUS
        <5>3. j \in Int /\ i \in Int
          BY <5>2
        <5> QED
          BY <5>1, <5>2, <5>3
      <4>1. m - j = n - i
        <5> HIDE DEF m, n, Rest, Step, W
        <5> QED
          BY <4>0
      <4>2. ASSUME NEW l \in 1..(m - j) PROVE pattern[j + l] \in {Star, x[i + l]}
        <5>1. CASE l = 1
          BY <5>1, <3>3
        <5>2. CASE l # 1
          <6>1. l - 1 \in 1..(m - (j + 1))
            BY <5>2, <3>1
          <6>2. pattern[(j + 1) + (l - 1)] \in {Star, x[(i + 1) + (l - 1)]}
            BY <3>3, <6>1
          <6>3. (j + 1) + (l - 1) = j + l /\ (i + 1) + (l - 1) = i + l
            BY <6>1, <3>1
          <6> QED
            BY <6>2, <6>3
        <5> QED
          BY <5>1, <5>2
      <4> QED
        BY <4>1, <4>2
    <3>4. ASSUME NEW i \in Rest(j)
          PROVE  i \in 0..n-1 /\ pattern[j + 1] \in {Star, x[i + 1]} /\ i + 1 \in Rest(j + 1)
      <4>1. i \in 0..n /\ m - j = n - i /\ 1 \in 1..(m - j)
        BY <3>4, <3>1
      <4>2. pattern[j + 1] \in {Star, x[i + 1]}
        BY <3>4, <4>1
      <4>3. ASSUME NEW l \in 1..(m - (j + 1)) PROVE pattern[(j + 1) + l] \in {Star, x[(i + 1) + l]}
        <5>1. l + 1 \in 1..(m - j) /\ (j + 1) + l = j + (l + 1) /\ (i + 1) + l = i + (l + 1)
          BY <3>1, <4>1
        <5>2. pattern[j + (l + 1)] \in {Star, x[i + (l + 1)]}
          BY <3>4, <5>1
        <5> QED
          BY <5>1, <5>2
      <4> QED
        BY <3>1, <4>1, <4>2, <4>3
    <3> QED
      BY <3>2, <3>3, <3>4
  <2> QED
    BY <2>1, <2>2
<1> HIDE DEF Rest, Step
<1>2. W = [j \in 0..m |-> Step(W, j)]
  <2>1. \A j \in 0..m : j = m \/ W[j + 1] = Rest(j + 1)
    OBVIOUS
  <2>2. \A j \in 0..m : Step(W, j) = Rest(j)
    <3> HIDE DEF W
    <3> QED
      BY <1>1, <2>1
  <2> QED
    BY <2>2
<1>3. ASSUME NEW f, f = [j \in 0..m |-> Step(f, j)]
      PROVE  f[0] = Rest(0)
  <2> DEFINE Bad == {k \in 0..m : f[m - k] # Rest(m - k)}
  <2> SUFFICES ASSUME Bad # {} PROVE FALSE
    <3>1. m \in 0..m /\ m - m = 0
      OBVIOUS
    <3> QED
      BY <3>1
  <2>1. PICK k \in Bad : \A l \in Bad : k <= l
    <3>1. Bad \subseteq Nat
      OBVIOUS
    <3> HIDE DEF Bad
    <3> QED
      BY <3>1, LeastNat
  <2>2. m - k \in 0..m /\ k \in 0..m
    BY <2>1
  <2>3. m - k = m \/ f[(m - k) + 1] = Rest((m - k) + 1)
    <3>1. SUFFICES ASSUME k # 0 PROVE f[(m - k) + 1] = Rest((m - k) + 1)
      BY <2>2
    <3>2. k - 1 \in 0..m /\ ~(k <= k - 1) /\ (m - k) + 1 = m - (k - 1)
      BY <2>2, <3>1
    <3>3. k - 1 \notin Bad
      BY <2>1, <3>2
    <3> QED
      BY <3>2, <3>3
  <2>4. Step(f, m - k) = Rest(m - k)
    BY <2>2, <2>3, <1>1
  <2>5. f[m - k] = Step(f, m - k)
    BY <1>3, <2>2
  <2> QED
    BY <2>1, <2>4, <2>5
<1>4. PathMatchesGlob(x, pattern) <=> 0 \in (CHOOSE f : f = [j \in 0..m |-> Step(f, j)])[0]
  BY DEF PathMatchesGlob, Step
<1>5. PathMatchesGlob(x, pattern) <=> 0 \in Rest(0)
  <2>1. PICK g : g = CHOOSE f : f = [j \in 0..m |-> Step(f, j)]
    OBVIOUS
  <2>2. g = [j \in 0..m |-> Step(g, j)]
    <3> HIDE DEF W
    <3> QED
      BY <1>2, <2>1
  <2> QED
    BY <1>3, <1>4, <2>1, <2>2
<1> QED
  BY <1>5 DEF Rest

-----------------------------------------------------------------------------
(***************************************************************************)
(* The stack                                                               *)
(***************************************************************************)

\* The states of the loop over rows.
Stacking(f, rows) ==
    f = [i \in 1..Len(rows) |->
            IF i = 1 THEN [tree |-> rows[1].text, stack |-> <<[path |-> rows[1].path, at |-> Root]>>]
            ELSE Pushed(f[i - 1], rows[i])]

\* There is one, and its last state has the tree.
LEMMA StackedIs ==
    ASSUME NEW rows, Len(rows) \in Nat \ {0}
    PROVE  \E f : Stacking(f, rows) /\ Stacked(rows) = f[Len(rows)].tree
<1> DEFINE n == Len(rows)
           begun == [tree |-> rows[1].text, stack |-> <<[path |-> rows[1].path, at |-> Root]>>]
           Run(f, m) == f = [i \in 1..m |-> IF i = 1 THEN begun ELSE Pushed(f[i - 1], rows[i])]
           Bad == {m \in 1..n : ~\E f : Run(f, m)}
<1>1. \E f : Run(f, n)
  <2> SUFFICES ASSUME Bad # {} PROVE FALSE
    BY n \in 1..n
  <2>1. PICK m \in Bad : \A l \in Bad : m <= l
    <3>1. Bad \subseteq Nat
      OBVIOUS
    <3> HIDE DEF Bad
    <3> QED
      BY <3>1, LeastNat
  <2>2. m # 1
    <3>1. PICK f : f = [i \in 1..1 |-> begun]
      OBVIOUS
    <3>2. Run(f, 1)
      <4>1. \A i \in 1..1 : i = 1
        OBVIOUS
      <4>2. [i \in 1..1 |-> IF i = 1 THEN begun ELSE Pushed(f[i - 1], rows[i])] = [i \in 1..1 |-> begun]
        BY <4>1
      <4> QED
        BY <3>1, <4>2
    <3> HIDE DEF Run
    <3> QED
      BY <2>1, <3>2
  <2>3. m - 1 \in 1..n /\ ~(m <= m - 1) /\ m \in 1..n
    BY <2>1, <2>2
  <2>4. PICK f : Run(f, m - 1)
    BY <2>1, <2>3
  <2>5. PICK h : h = [i \in 1..m |-> IF i = m THEN Pushed(f[m - 1], rows[m]) ELSE f[i]]
    OBVIOUS
  <2>6. \A i \in 1..m-1 : h[i] = f[i]
    BY <2>3, <2>5
  <2>7. ASSUME NEW i \in 1..m
        PROVE  h[i] = IF i = 1 THEN begun ELSE Pushed(h[i - 1], rows[i])
    <3>1. CASE i = m
      <4>1. h[i] = Pushed(f[m - 1], rows[m]) /\ h[m - 1] = f[m - 1] /\ i # 1
        BY <2>2, <2>3, <2>5, <2>6, <3>1
      <4> QED
        BY <3>1, <4>1
    <3>2. CASE i # m
      <4>1. i \in 1..m-1 /\ h[i] = f[i]
        BY <2>3, <2>6, <3>2
      <4>2. f[i] = IF i = 1 THEN begun ELSE Pushed(f[i - 1], rows[i])
        BY <2>4, <4>1
      <4>3. i # 1 => h[i - 1] = f[i - 1]
        BY <2>3, <2>6, <4>1
      <4> QED
        BY <4>1, <4>2, <4>3
    <3> QED
      BY <3>1, <3>2
  <2>8. h = [i \in 1..m |-> h[i]]
    BY <2>5
  <2>9. Run(h, m)
    BY <2>7, <2>8
  <2> HIDE DEF Run
  <2> QED
    BY <2>1, <2>9
<1>2. Stacked(rows) = (CHOOSE f : Run(f, n))[n].tree
  BY DEF Stacked
<1>3. PICK g : g = CHOOSE f : Run(f, n)
  OBVIOUS
<1>4. Run(g, n)
  <2> HIDE DEF Run
  <2> QED
    BY <1>1, <1>3
<1>5. Stacking(g, rows)
  BY <1>4 DEF Stacking
<1>6. Stacked(rows) = g[n].tree
  BY <1>2, <1>3
<1> HIDE DEF Run, begun
<1> QED
  BY <1>5, <1>6

\* What stands between a container and a row below it is below it too.
LEMMA BelowIsContiguous ==
    ASSUME NEW a, IsRow(a), a.slash, NEW b, IsRow(b), NEW c, IsRow(c),
           IsPrefix(a.path, c.path), RowBefore(a, b), RowBefore(b, c)
    PROVE  IsPrefix(a.path, b.path)
<1>1. PICK x, y, z \in Path : x = a.path /\ y = b.path /\ z = c.path
  BY DEF IsRow
<1>2. Len(x) \in Nat /\ Len(y) \in Nat /\ Len(z) \in Nat
      /\ DOMAIN x = 1..Len(x) /\ DOMAIN y = 1..Len(y) /\ DOMAIN z = 1..Len(z)
  BY DEF Path
<1>3. CASE Above(a, b)
  BY <1>3 DEF Above, IsStrictPrefix
<1>4. CASE Beside(a, b)
  BY <1>1, <1>4, PrefixOrder DEF Beside
<1>5. ASSUME NEW n, PartBefore(a, b, n) PROVE FALSE
  <2>1. PartAt(x, y, n) /\ SegmentBefore(x[n], SlashAt(a, n), y[n], SlashAt(b, n))
    BY <1>1, <1>5 DEF PartBefore
  <2>2. /\ n \in 1..Len(x) /\ n \in 1..Len(y) /\ x[n] \in Keys /\ y[n] \in Keys
        /\ x[n] # y[n] /\ \A i \in 1..n-1 : x[i] = y[i]
    BY <2>1, PartOnce
  <2>3. Len(x) <= Len(z) /\ \A i \in 1..Len(x) : x[i] = z[i]
    BY <1>1, PrefixChar
  <2>4. PartAt(y, z, n) /\ z[n] = x[n]
    BY <1>2, <2>2, <2>3 DEF PartAt
  <2>5. SlashAt(c, n)
    <3>1. CASE x = z
      <4>1. c.slash
        <5>1. ~RowBefore(c, a)
          <6>1. ~RowBefore(c, c)
            BY RowsCompare
          <6> QED
            BY <6>1, RowsFollow
        <5>2. ~c.slash => Beside(c, a)
          BY <1>1, <3>1 DEF Beside
        <5> QED
          BY <5>1, <5>2, RowBeforeIs
      <4> QED
        BY <4>1 DEF SlashAt
    <3>2. CASE x # z
      <4>1. Len(x) < Len(z)
        BY <1>1, <3>2, StrictShorter
      <4> QED
        BY <1>1, <1>2, <2>2, <4>1 DEF SlashAt
    <3> QED
      BY <3>1, <3>2
  <2>6. SlashAt(a, n)
    BY DEF SlashAt
  <2>7. PartBefore(b, c, n)
    <3>1. ~IsPrefix(y, z) /\ ~IsPrefix(z, y) /\ \A m : PartAt(y, z, m) => m = n
      BY <2>4, PartOnce
    <3>2. ~Above(b, c) /\ ~Beside(b, c)
      <4>1. IsPrefix(z, z)
        BY PrefixOrder
      <4> QED
        BY <1>1, <3>1, <4>1 DEF Above, Beside, IsStrictPrefix
    <3>3. PICK m : PartBefore(b, c, m)
      BY <3>2, RowBeforeIs
    <3>4. m = n
      BY <1>1, <3>1, <3>3 DEF PartBefore
    <3> QED
      BY <3>3, <3>4
  <2>8. SegmentBefore(y[n], SlashAt(b, n), x[n], SlashAt(c, n))
    BY <1>1, <2>4, <2>7 DEF PartBefore
  <2>9. SlashAt(a, n) = TRUE /\ SlashAt(c, n) = TRUE /\ SlashAt(b, n) \in BOOLEAN
    BY <2>5, <2>6 DEF SlashAt, IsRow
  <2>10. PICK k \in Keys, l \in Keys, g \in BOOLEAN, h \in BOOLEAN :
            k = x[n] /\ l = y[n] /\ g = SlashAt(a, n) /\ h = SlashAt(b, n)
    BY <2>2, <2>9
  <2>11. SlashAt(c, n) = g
    BY <2>9, <2>10
  <2>12. SegmentBefore(k, g, l, h) /\ SegmentBefore(l, h, k, g)
    BY <2>1, <2>8, <2>10, <2>11
  <2>13. k # l
    BY <2>2, <2>10
  <2> QED
    BY <2>12, <2>13, OrderAssumption
<1> QED
  BY <1>3, <1>4, <1>5, RowBeforeIs

\* What a row spells alone: a scalar, or an object of entries.
Spells(r) ==
    /\ r.text = [z \in DOMAIN r.text |-> r.text[z]]
    /\ Root \in DOMAIN r.text
    /\ r.slash => r.text[Root] = Obj
    /\ \A z \in DOMAIN r.text : z = Root \/ (r.slash /\ \E k \in Keys : z = <<k>>)

\* Rows in order, a container first that leads to all of them.
InScan(rows) ==
    /\ Len(rows) \in Nat \ {0}
    /\ \A i \in 1..Len(rows) : IsRow(rows[i]) /\ Spells(rows[i])
    /\ \A i, j \in 1..Len(rows) : RowBefore(rows[i], rows[j]) <=> i < j
    /\ rows[1].slash
    /\ \A i \in 1..Len(rows) : IsPrefix(rows[1].path, rows[i].path)

\* And no row without the containers that lead to it from the first.
IsWhole(rows) ==
    \A i \in 1..Len(rows) : \A x \in Ancestors(rows[i].path) :
        IsPrefix(rows[1].path, x) => \E j \in 1..Len(rows) : rows[j].path = x /\ rows[j].slash

\* No two rows of a scan have one path, and what is above comes first.
LEMMA ScanOrder ==
    ASSUME NEW rows, InScan(rows), NEW i \in 1..Len(rows), NEW j \in 1..Len(rows)
    PROVE  /\ rows[i].path = rows[j].path /\ rows[i].slash = rows[j].slash => i = j
           /\ rows[i].path = rows[j].path /\ rows[j].slash => i <= j
           /\ IsStrictPrefix(rows[i].path, rows[j].path) => i < j
<1>1. IsRow(rows[i]) /\ IsRow(rows[j]) /\ i \in Nat /\ j \in Nat
  BY DEF InScan
<1>2. RowBefore(rows[i], rows[j]) <=> i < j
  BY DEF InScan
<1>3. RowBefore(rows[j], rows[i]) <=> j < i
  BY DEF InScan
<1>4. PICK r, s : r = rows[i] /\ s = rows[j]
  OBVIOUS
<1>5. r.path = s.path /\ r.slash = s.slash => ~RowBefore(r, s) /\ ~RowBefore(s, r)
  BY <1>1, <1>4, RowsCompare
<1>6. r.path = s.path /\ ~r.slash /\ s.slash => RowBefore(r, s)
  BY RowBeforeIs DEF Beside
<1>7. IsStrictPrefix(r.path, s.path) => RowBefore(r, s)
  BY RowBeforeIs DEF Above
<1>8. r.slash \in BOOLEAN /\ s.slash \in BOOLEAN
  BY <1>1, <1>4 DEF IsRow
<1> QED
  BY <1>1, <1>2, <1>3, <1>4, <1>5, <1>6, <1>7, <1>8

\* The first leads to the others, all of which are below it.
LEMMA ScanBelowFirst ==
    ASSUME NEW rows, InScan(rows), NEW i \in 1..Len(rows), i # 1
    PROVE  /\ rows[1].path \in Path /\ rows[i].path \in Path
           /\ rows[1].path # rows[i].path
           /\ rows[1].path \in Ancestors(rows[i].path)
           /\ rows[i].path # Root
<1>1. 1 \in 1..Len(rows) /\ rows[1].slash /\ IsPrefix(rows[1].path, rows[i].path)
  BY DEF InScan
<1>2. rows[1].path \in Path /\ rows[i].path \in Path
  BY <1>1 DEF InScan, IsRow
<1>3. rows[1].path # rows[i].path
  BY <1>1, ScanOrder
<1>4. rows[1].path \in Ancestors(rows[i].path)
  BY <1>1, <1>2, <1>3, AncestorChar
<1> QED
  BY <1>2, <1>3, <1>4, RootIsPath

\* What the stack holds of the row j.
Entry(rows, j) == [path |-> rows[j].path, at |-> Rel(rows[1].path, rows[j].path)]

\* After the row i the stack holds the containers that lead to it, in their order.
StackOK(st, rows, i) ==
    /\ st \in Seq([path : Path, at : Path])
    /\ \A m \in 1..Len(st) : \E j \in 1..i :
           rows[j].slash /\ IsPrefix(rows[j].path, rows[i].path) /\ st[m] = Entry(rows, j)
    /\ \A a, b \in 1..Len(st) : a < b => Len(st[a].path) < Len(st[b].path)
    /\ \A j \in 1..i : rows[j].slash /\ IsPrefix(rows[j].path, rows[i].path)
                          => \E m \in 1..Len(st) : st[m] = Entry(rows, j)

\* The object above a row, below the first.
LEMMA ObjectAbove ==
    ASSUME NEW rows, InScan(rows), NEW i \in 1..Len(rows), i # 1
    PROVE  /\ Front(rows[i].path) \in Ancestors(rows[i].path)
           /\ IsPrefix(rows[1].path, Front(rows[i].path))
           /\ Len(Front(rows[i].path)) = Len(rows[i].path) - 1
           /\ Rel(rows[1].path, rows[i].path) \in Path
           /\ Rel(rows[1].path, rows[i].path) # Root
           /\ rows[1].path \o Rel(rows[1].path, rows[i].path) = rows[i].path
           /\ Rel(rows[1].path, Front(rows[i].path)) = Front(Rel(rows[1].path, rows[i].path))
           /\ Append(Rel(rows[1].path, Front(rows[i].path)), Last(rows[i].path))
                  = Rel(rows[1].path, rows[i].path)
<1>1. PICK p \in Path, x \in Path : p = rows[1].path /\ x = rows[i].path
  BY ScanBelowFirst
<1>2. p # x /\ p \in Ancestors(x) /\ x # Root
  BY <1>1, ScanBelowFirst
<1>3. IsPrefix(p, x) /\ Len(p) < Len(x)
  BY <1>2, AncestorChar
<1>4. /\ Front(x) \in Path /\ Last(x) \in Keys /\ Len(Front(x)) = Len(x) - 1 /\ IsPrefix(Front(x), x)
      /\ Len(x) \in Nat /\ Len(p) \in Nat
  BY <1>2, SplitLast DEF Path
<1>5. Front(x) \in Ancestors(x)
  <2>1. Front(x) # x
    BY <1>4
  <2> QED
    BY <1>4, <2>1, AncestorChar
<1>6. IsPrefix(p, Front(x))
  <2>1. Len(p) <= Len(Front(x))
    BY <1>3, <1>4
  <2> QED
    BY <1>3, <1>4, <2>1, PrefixesComparable
<1>7. PICK y \in Path : y = Rel(p, x) /\ p \o y = x
  BY <1>3, RelChar
<1>8. y # Root
  BY <1>2, <1>7, ConcatChar
<1>9. Front(x) = p \o Front(y) /\ Last(x) = Last(y)
  <2>1. Front(p \o y) = p \o Front(y) /\ Last(p \o y) = Last(y)
    BY <1>8, FrontOfConcat
  <2> QED
    BY <1>7, <2>1
<1>10. Front(y) \in Path /\ y = Append(Front(y), Last(y))
  BY <1>8, SplitLast
<1>11. Rel(p, Front(x)) = Front(y)
  BY <1>9, <1>10, ConcatChar
<1> QED
  BY <1>1, <1>4, <1>5, <1>6, <1>7, <1>8, <1>9, <1>10, <1>11

\* The largest number up to m.
LEMMA MaxUpTo ==
    ASSUME NEW m \in Nat, m > 0
    PROVE  Max(1..m) = m /\ Max({0} \cup 1..m) = m
<1>1. \E x \in 1..m : \A y \in 1..m : x >= y
  BY m \in 1..m
<1>2. \E x \in {0} \cup 1..m : \A y \in {0} \cup 1..m : x >= y
  BY m \in 1..m
<1>3. PICK a : a = Max(1..m)
  OBVIOUS
<1>4. a \in 1..m /\ \A y \in 1..m : a >= y
  BY <1>1, <1>3 DEF Max
<1>5. PICK b : b = Max({0} \cup 1..m)
  OBVIOUS
<1>6. b \in {0} \cup 1..m /\ \A y \in {0} \cup 1..m : b >= y
  BY <1>2, <1>5 DEF Max
<1>7. m \in 1..m /\ m \in {0} \cup 1..m
  OBVIOUS
<1>8. a = m
  <2>1. a >= m /\ a \in Int /\ a <= m
    BY <1>4, <1>7
  <2> QED
    BY <2>1
<1>9. b = m
  <2>1. b >= m /\ b \in Int /\ b <= m
    BY <1>6, <1>7
  <2> QED
    BY <2>1
<1> QED
  BY <1>3, <1>5, <1>8, <1>9

\* The stack has the parent of the next row, and what is popped does not lead to it.
LEMMA ParentOnStack ==
    ASSUME NEW rows, InScan(rows), IsWhole(rows), NEW i \in 1..Len(rows), i # 1,
           NEW st, StackOK(st, rows, i - 1)
    PROVE  \E m \in 1..Len(st), j \in 1..i - 1 :
              /\ rows[j].slash /\ rows[j].path = Front(rows[i].path)
              /\ st[m] = Entry(rows, j)
              /\ \A a \in 1..Len(st) : IsPrefix(st[a].path, rows[i].path) <=> a <= m
              /\ Parent(st, rows[i]) = Rel(rows[1].path, Front(rows[i].path))
              /\ Popped(st, rows[i]) = SubSeq(st, 1, m)
<1>1. PICK n \in Nat : n = Len(rows) /\ i \in 1..n /\ i - 1 \in 1..n
  BY DEF InScan
<1>2. \A j \in 1..n : IsRow(rows[j]) /\ rows[j].path \in Path
  BY <1>1 DEF InScan, IsRow
<1>3. PICK x \in Path, f \in Path : x = rows[i].path /\ f = Front(x)
  BY <1>2, ScanBelowFirst, SplitLast
<1>4. /\ f \in Ancestors(x) /\ IsPrefix(rows[1].path, f) /\ Len(f) = Len(x) - 1
      /\ IsPrefix(f, x) /\ f # x /\ Len(f) \in Nat /\ Len(x) \in Nat
  <2>1. f \in Ancestors(x) /\ IsPrefix(rows[1].path, f) /\ Len(f) = Len(x) - 1
    BY <1>3, ObjectAbove
  <2> QED
    BY <2>1, AncestorChar DEF Path
<1>5. PICK j \in 1..n : rows[j].path = f /\ rows[j].slash
  BY <1>1, <1>3, <1>4 DEF IsWhole
<1>6. j \in 1..i - 1
  <2>1. j < i
    BY <1>1, <1>3, <1>4, <1>5, ScanOrder DEF IsStrictPrefix
  <2> QED
    BY <1>1, <2>1
<1>7. PICK w \in Path : w = rows[i - 1].path
  BY <1>1, <1>2
<1>8. IsPrefix(f, w)
  <2>1. CASE j = i - 1
    BY <1>5, <1>7, <2>1, PrefixOrder
  <2>2. CASE j # i - 1
    <3>1. RowBefore(rows[j], rows[i - 1]) /\ RowBefore(rows[i - 1], rows[i])
      <4>1. j < i - 1 /\ i - 1 < i
        BY <1>1, <1>6, <2>2
      <4> QED
        BY <1>1, <4>1 DEF InScan
    <3> QED
      BY <1>1, <1>2, <1>3, <1>4, <1>5, <1>7, <3>1, BelowIsContiguous
  <2> QED
    BY <2>1, <2>2
<1>9. Len(st) \in Nat
  BY DEF StackOK
<1>10. PICK m \in 1..Len(st) : st[m] = Entry(rows, j)
  BY <1>5, <1>6, <1>7, <1>8 DEF StackOK
<1>11. ASSUME NEW a \in 1..Len(st) PROVE IsPrefix(st[a].path, x) <=> a <= m
  <2>1. PICK k \in 1..i - 1 : rows[k].slash /\ IsPrefix(rows[k].path, w) /\ st[a] = Entry(rows, k)
    BY <1>7 DEF StackOK
  <2>2. PICK z \in Path : z = rows[k].path
    BY <1>1, <1>2
  <2>3. st[a].path = z /\ st[m].path = f /\ Len(z) \in Nat /\ IsPrefix(z, w)
    BY <1>5, <1>10, <2>1, <2>2 DEF Entry, Path
  <2>4. ASSUME a <= m PROVE IsPrefix(z, x)
    <3>1. Len(z) <= Len(f)
      <4>1. a < m => Len(z) < Len(f)
        BY <2>3 DEF StackOK
      <4>2. a = m => z = f
        BY <2>3
      <4> QED
        BY <1>4, <1>9, <2>3, <2>4, <4>1, <4>2
    <3>2. IsPrefix(z, f)
      BY <1>8, <2>3, <3>1, PrefixesComparable
    <3> QED
      BY <1>4, <3>2, PrefixOrder
  <2>5. ASSUME ~(a <= m), IsPrefix(z, x) PROVE FALSE
    <3>1. Len(f) < Len(z)
      <4>1. m < a
        BY <1>9, <2>5
      <4> QED
        BY <2>3, <4>1 DEF StackOK
    <3>2. Len(z) <= Len(x)
      BY <2>5, PrefixChar
    <3>3. z = x
      <4>1. Len(z) = Len(x)
        BY <1>4, <2>3, <3>1, <3>2
      <4> QED
        BY <2>5, <4>1, PrefixOfSameLength
    <3>4. k \in 1..n /\ ~(i <= k)
      BY <1>1
    <3>5. rows[i].path = rows[k].path /\ rows[k].slash
      BY <1>3, <2>1, <2>2, <3>3
    <3> QED
      BY <1>1, <3>4, <3>5, ScanOrder
  <2> QED
    BY <2>3, <2>4, <2>5
<1>12. {a \in 1..Len(st) : IsPrefix(st[a].path, x)} = 1..m
  BY <1>9, <1>11
<1>13. Max(1..m) = m /\ Max({0} \cup 1..m) = m
  BY <1>9, MaxUpTo
<1>14. Parent(st, rows[i]) = st[m].at
  <2>1. 1..m # {}
    BY <1>9
  <2> QED
    BY <1>3, <1>12, <1>13, <2>1 DEF Parent
<1>15. Popped(st, rows[i]) = SubSeq(st, 1, m)
  BY <1>3, <1>12, <1>13 DEF Popped
<1>16. st[m].at = Rel(rows[1].path, f)
  BY <1>5, <1>10 DEF Entry
<1> QED
  BY <1>3, <1>5, <1>6, <1>10, <1>11, <1>14, <1>15, <1>16

\* The first row alone is on the stack when the loop begins.
LEMMA StackBegins ==
    ASSUME NEW rows, InScan(rows)
    PROVE  StackOK(<<[path |-> rows[1].path, at |-> Root]>>, rows, 1)
<1>1. PICK p \in Path : p = rows[1].path /\ IsPrefix(p, p) /\ rows[1].slash
  <2>1. rows[1].path \in Path /\ rows[1].slash
    BY 1 \in 1..Len(rows) DEF InScan, IsRow
  <2> QED
    BY <2>1, PrefixOrder
<1>2. Rel(p, p) = Root
  <2>1. p \o Root = p /\ Rel(p, p \o Root) = Root
    BY RootIsPath, ConcatChar
  <2> QED
    BY <2>1
<1>3. PICK st : st = <<[path |-> p, at |-> Root]>>
  OBVIOUS
<1>4. /\ st \in Seq([path : Path, at : Path]) /\ Len(st) = 1 /\ st[1] = [path |-> p, at |-> Root]
  BY <1>3, RootIsPath
<1>5. Entry(rows, 1) = st[1]
  BY <1>1, <1>2, <1>4 DEF Entry
<1>6. \A m \in 1..1 : m = 1
  OBVIOUS
<1>7. \A m \in 1..Len(st) : st[m] = Entry(rows, 1)
  BY <1>4, <1>5, <1>6
<1>8. StackOK(st, rows, 1)
  BY <1>1, <1>4, <1>5, <1>6, <1>7 DEF StackOK
<1> QED
  BY <1>1, <1>3, <1>8

\* The next row leaves on it the containers that lead to that row.
LEMMA StackGoesOn ==
    ASSUME NEW rows, InScan(rows), IsWhole(rows), NEW i \in 1..Len(rows), i # 1,
           NEW st, StackOK(st, rows, i - 1), NEW s, s.stack = st
    PROVE  StackOK(Pushed(s, rows[i]).stack, rows, i)
<1>0. \E m \in 1..Len(st), j \in 1..i - 1 :
           /\ rows[j].slash /\ rows[j].path = Front(rows[i].path)
           /\ st[m] = Entry(rows, j)
           /\ \A a \in 1..Len(st) : IsPrefix(st[a].path, rows[i].path) <=> a <= m
           /\ Parent(st, rows[i]) = Rel(rows[1].path, Front(rows[i].path))
           /\ Popped(st, rows[i]) = SubSeq(st, 1, m)
  BY ParentOnStack
<1>1. PICK n \in Nat : n = Len(rows) /\ i \in 1..n /\ i - 1 \in 1..n
  BY DEF InScan
<1>3. \A j \in 1..n : rows[j].path \in Path
  BY <1>1 DEF InScan, IsRow
<1>4. PICK x \in Path : x = rows[i].path /\ IsPrefix(x, x)
  BY <1>1, <1>3, PrefixOrder
<1>5. PICK m \in 1..Len(st), k \in 1..i - 1 :
          /\ rows[k].slash /\ rows[k].path = Front(x)
          /\ st[m] = Entry(rows, k)
          /\ \A a \in 1..Len(st) : IsPrefix(st[a].path, x) <=> a <= m
          /\ Parent(st, rows[i]) = Rel(rows[1].path, Front(x))
          /\ Popped(st, rows[i]) = SubSeq(st, 1, m)
  BY <1>0, <1>4
<1>6. Len(st) \in Nat /\ m \in Nat /\ m <= Len(st) /\ st \in Seq([path : Path, at : Path])
  BY <1>5 DEF StackOK
<1>7. PICK left : left = SubSeq(st, 1, m)
  OBVIOUS
<1>8. left \in Seq([path : Path, at : Path]) /\ Len(left) = m /\ \A a \in 1..m : left[a] = st[a]
  <2>1. ASSUME NEW a \in 1..m PROVE st[a] \in [path : Path, at : Path]
    <3>1. a \in 1..Len(st)
      BY <1>6
    <3> QED
      BY <1>6, <3>1, ElementOfSeq
  <2>2. 1 \in Int /\ m \in Int /\ m - 1 + 1 = m /\ 1 <= m
    BY <1>5, <1>6
  <2> QED
    BY <1>7, <2>1, <2>2, SubSeqProperties
<1>9. ASSUME NEW a \in 1..m
      PROVE  \E j \in 1..i : rows[j].slash /\ IsPrefix(rows[j].path, x) /\ left[a] = Entry(rows, j)
  <2>1. a \in 1..Len(st) /\ IsPrefix(st[a].path, x)
    BY <1>5, <1>6
  <2>2. PICK j \in 1..i - 1 : rows[j].slash /\ st[a] = Entry(rows, j)
    BY <2>1 DEF StackOK
  <2>3. j \in 1..i /\ st[a].path = rows[j].path
    BY <1>1, <2>2 DEF Entry
  <2> QED
    BY <1>8, <2>1, <2>2, <2>3
<1>10. ASSUME NEW a \in 1..m, NEW b \in 1..m, a < b PROVE Len(left[a].path) < Len(left[b].path)
  <2>1. a \in 1..Len(st) /\ b \in 1..Len(st)
    BY <1>6
  <2> QED
    BY <1>8, <1>10, <2>1 DEF StackOK
<1>11. ASSUME NEW j \in 1..i - 1, rows[j].slash, IsPrefix(rows[j].path, x)
       PROVE  \E a \in 1..m : left[a] = Entry(rows, j)
  <2>1. j \in 1..n /\ j < i /\ (j = i - 1 \/ j < i - 1) /\ i - 1 < i
    BY <1>1
  <2>2. IsPrefix(rows[j].path, rows[i - 1].path)
    <3>1. CASE j = i - 1
      BY <1>3, <2>1, <3>1, PrefixOrder
    <3>2. CASE j < i - 1
      <4>1. RowBefore(rows[j], rows[i - 1]) /\ RowBefore(rows[i - 1], rows[i])
            /\ IsRow(rows[j]) /\ IsRow(rows[i - 1]) /\ IsRow(rows[i])
        BY <1>1, <2>1, <3>2 DEF InScan
      <4> QED
        BY <1>4, <1>11, <4>1, BelowIsContiguous
    <3> QED
      BY <2>1, <3>1, <3>2
  <2>3. PICK a \in 1..Len(st) : st[a] = Entry(rows, j)
    BY <1>11, <2>2 DEF StackOK
  <2>4. IsPrefix(st[a].path, x)
    BY <1>11, <2>3 DEF Entry
  <2>5. a \in 1..m
    BY <1>5, <1>6, <2>4
  <2> QED
    BY <1>8, <2>3, <2>5
<1>12. CASE ~rows[i].slash
  <2>1. Pushed(s, rows[i]).stack = left
    BY <1>5, <1>7, <1>12 DEF Pushed
  <2>2. \A j \in 1..i : rows[j].slash => j \in 1..i - 1
    BY <1>1, <1>12
  <2>3. StackOK(left, rows, i)
    BY <1>4, <1>8, <1>9, <1>10, <1>11, <2>2 DEF StackOK
  <2> QED
    BY <2>1, <2>3
<1>13. CASE rows[i].slash
  <2>1. PICK e : e = Entry(rows, i)
    OBVIOUS
  <2>2. e = [path |-> x, at |-> Append(Rel(rows[1].path, Front(x)), Last(x))]
        /\ e \in [path : Path, at : Path]
    BY <1>4, <2>1, ObjectAbove DEF Entry
  <2>3. PICK new : new = Append(left, e)
    OBVIOUS
  <2>4. Pushed(s, rows[i]).stack = new
    BY <1>4, <1>5, <1>7, <1>13, <2>2, <2>3 DEF Pushed
  <2>5. /\ new \in Seq([path : Path, at : Path]) /\ Len(new) = m + 1
        /\ \A a \in 1..m : new[a] = left[a]
        /\ new[m + 1] = e
    BY <1>6, <1>8, <2>2, <2>3, AppendProperties
  <2>6. \A a \in 1..m + 1 : a \in 1..m \/ a = m + 1
    BY <1>6
  <2>7. \A a \in 1..m : a \in 1..m + 1
    BY <1>6
  <2>8. i \in 1..i /\ rows[i].slash /\ IsPrefix(rows[i].path, x) /\ m + 1 \in 1..m + 1
    BY <1>1, <1>4, <1>6, <1>13
  <2>9. \A a \in 1..m + 1 :
           \E j \in 1..i : rows[j].slash /\ IsPrefix(rows[j].path, x) /\ new[a] = Entry(rows, j)
    BY <1>9, <2>1, <2>5, <2>6, <2>8
  <2>10. ASSUME NEW a \in 1..m + 1, NEW b \in 1..m + 1, a < b
         PROVE  Len(new[a].path) < Len(new[b].path)
    <3>1. CASE b \in 1..m
      <4>1. a \in 1..m
        BY <1>6, <2>10, <3>1
      <4> QED
        BY <1>10, <2>5, <2>10, <3>1, <4>1
    <3>2. CASE b = m + 1
      <4>1. a \in 1..m
        BY <1>6, <2>10, <3>2
      <4>2. a \in 1..Len(st) /\ m \in 1..Len(st) /\ a <= m /\ (a < m \/ a = m)
        BY <1>5, <1>6, <4>1
      <4>3. Len(st[a].path) <= Len(st[m].path)
        <5>1. a < m => Len(st[a].path) < Len(st[m].path)
          BY <4>2 DEF StackOK
        <5>2. Len(st[a].path) \in Int /\ Len(st[m].path) \in Int
          BY <1>6, <4>2 DEF Path
        <5> QED
          BY <4>2, <5>1, <5>2
      <4>4. Len(st[m].path) = Len(x) - 1
        <5>1. x # Root
          BY <1>4, ScanBelowFirst
        <5>2. Len(Front(x)) = Len(x) - 1
          BY <5>1, SplitLast
        <5>3. st[m].path = Front(x)
          BY <1>5 DEF Entry
        <5> QED
          BY <5>2, <5>3
      <4>5. Len(x) \in Nat /\ Len(st[a].path) \in Int
        BY <1>6, <4>2 DEF Path
      <4>6. new[b].path = x /\ new[a].path = st[a].path
        BY <1>8, <2>2, <2>5, <3>2, <4>1
      <4> QED
        BY <4>3, <4>4, <4>5, <4>6
    <3> QED
      BY <2>6, <3>1, <3>2
  <2>11. ASSUME NEW j \in 1..i, rows[j].slash, IsPrefix(rows[j].path, x)
         PROVE  \E a \in 1..m + 1 : new[a] = Entry(rows, j)
    <3>1. CASE j = i
      BY <2>1, <2>5, <2>8, <3>1
    <3>2. CASE j # i
      <4>1. j \in 1..i - 1
        BY <1>1, <3>2
      <4> QED
        BY <1>11, <2>5, <2>7, <2>11, <4>1
    <3> QED
      BY <3>1, <3>2
  <2>12. StackOK(new, rows, i)
    BY <1>4, <2>5, <2>9, <2>10, <2>11 DEF StackOK
  <2> QED
    BY <2>4, <2>12
<1> QED
  BY <1>12, <1>13

\* The row r says something of the node y of the document at p, and this.
Says(r, p, y) == IsPrefix(r.path, p \o y) /\ Rel(r.path, p \o y) \in DOMAIN r.text
Told(r, p, y) == r.text[Rel(r.path, p \o y)]

\* Going down in two steps.
LEMMA BelowBelow ==
    ASSUME NEW p \in Path, NEW x \in Path, NEW w \in Path
    PROVE  p \o (x \o w) = (p \o x) \o w
BY ConcatAssociative DEF Path

\* A key alone is a path.
LEMMA OneKey ==
    ASSUME NEW k \in Keys
    PROVE  /\ <<k>> \in Path /\ <<k>> # Root /\ Front(<<k>>) = Root /\ Last(<<k>>) = k
           /\ \A x \in Path : x \o <<k>> = Append(x, k)
<1>1. PICK z : z = Append(Root, k)
  OBVIOUS
<1>2. z = <<k>>
  BY <1>1, RootIsPath DEF Root
<1>3. z \in Path /\ z # Root /\ Front(z) = Root /\ Last(z) = k
  BY <1>1, RootIsPath, FrontOfAppend
<1>4. \A x \in Path : x \o <<k>> = Append(x, k)
  BY DEF Path
<1> QED
  BY <1>2, <1>3, <1>4

\* It says something of its own node and of the entries that it has.
LEMMA SaysChar ==
    ASSUME NEW r, IsRow(r), Spells(r), NEW p \in Path, NEW y \in Path
    PROVE  /\ Says(r, p, y) <=> \/ r.path = p \o y
                                \/ /\ r.slash /\ p \o y # Root /\ r.path = Front(p \o y)
                                   /\ <<Last(p \o y)>> \in DOMAIN r.text
           /\ r.path = p \o y => Told(r, p, y) = r.text[Root]
           /\ p \o y # Root /\ r.path = Front(p \o y) => Told(r, p, y) = r.text[<<Last(p \o y)>>]
<1>1. PICK z \in Path, q \in Path : z = p \o y /\ q = r.path
  BY ConcatChar DEF IsRow
<1>2. q = z => Rel(q, z) = Root /\ IsPrefix(q, z)
  <2>1. q \o Root = q /\ Rel(q, q \o Root) = Root /\ IsPrefix(q, q)
    BY RootIsPath, ConcatChar, PrefixOrder
  <2> QED
    BY <2>1
<1>3. ASSUME z # Root, q = Front(z)
      PROVE  IsPrefix(q, z) /\ Rel(q, z) = <<Last(z)>>
  <2>1. PICK k \in Keys : k = Last(z) /\ z = Append(q, k) /\ IsPrefix(q, z)
    BY <1>3, SplitLast
  <2>2. <<k>> \in Path /\ z = q \o <<k>>
    BY <2>1, OneKey
  <2>3. Rel(q, q \o <<k>>) = <<k>>
    BY <2>2, ConcatChar
  <2> QED
    BY <2>1, <2>2, <2>3
<1>4. ASSUME IsPrefix(q, z), Rel(q, z) \in DOMAIN r.text, q # z
      PROVE  r.slash /\ z # Root /\ q = Front(z) /\ <<Last(z)>> \in DOMAIN r.text
  <2>1. PICK w \in Path : w = Rel(q, z) /\ z = q \o w
    BY <1>4, RelChar
  <2>2. w # Root
    BY <1>4, <2>1, ConcatChar
  <2>3. r.slash /\ \E k \in Keys : w = <<k>>
    BY <1>4, <2>1, <2>2 DEF Spells
  <2>4. PICK k \in Keys : w = <<k>>
    BY <2>3
  <2>5. z = Append(q, k)
    BY <2>1, <2>4, OneKey
  <2>6. z # Root /\ Front(z) = q /\ Last(z) = k
    BY <2>5, FrontOfAppend
  <2> QED
    BY <1>4, <2>1, <2>3, <2>4, <2>6
<1>5. Root \in DOMAIN r.text
  BY DEF Spells
<1> QED
  BY <1>1, <1>2, <1>3, <1>4, <1>5 DEF Says, Told

\* Nothing has been said of the nodes below a row before that row.
LEMMA SaidBefore ==
    ASSUME NEW rows, InScan(rows), NEW i \in 1..Len(rows), NEW j \in 1..Len(rows), j < i,
           NEW x \in Path, NEW y \in Path, rows[i].path = rows[1].path \o x, IsPrefix(x, y),
           Says(rows[j], rows[1].path, y)
    PROVE  y = x
<1>1. PICK p \in Path : p = rows[1].path
  BY 1 \in 1..Len(rows) DEF InScan, IsRow
<1>2. PICK r, s : r = rows[i] /\ s = rows[j]
  OBVIOUS
<1>3. IsRow(r) /\ IsRow(s) /\ Spells(s)
  BY <1>2 DEF InScan
<1>4. PICK a \in Path, b \in Path : a = p \o x /\ b = p \o y
  BY ConcatChar
<1>5. IsPrefix(a, b)
  <2>1. PICK w \in Path : y = x \o w
    BY RelChar
  <2>2. p \o (x \o w) = (p \o x) \o w
    BY <1>1, <2>1, BelowBelow
  <2>3. b = a \o w
    BY <1>4, <2>1, <2>2
  <2> QED
    BY <2>3, ConcatChar
<1>6. ~IsStrictPrefix(r.path, s.path)
  <2>1. IsStrictPrefix(rows[i].path, rows[j].path) => i < j
    BY ScanOrder
  <2>2. ~(i < j)
    OBVIOUS
  <2> QED
    BY <1>2, <2>1, <2>2
<1>7. CASE s.path = b
  <2>1. a = b
    BY <1>1, <1>2, <1>4, <1>5, <1>6, <1>7 DEF IsStrictPrefix
  <2>2. Rel(p, a) = x /\ Rel(p, b) = y
    BY <1>4, ConcatChar
  <2> QED
    BY <2>1, <2>2
<1>8. CASE s.path # b
  <2>1. s.slash /\ b # Root /\ s.path = Front(b)
    <3>1. Says(s, p, y)
      BY <1>1, <1>2
    <3>2. Says(s, p, y) <=> \/ s.path = p \o y
                            \/ /\ s.slash /\ p \o y # Root /\ s.path = Front(p \o y)
                               /\ <<Last(p \o y)>> \in DOMAIN s.text
      BY <1>3, SaysChar
    <3> QED
      BY <1>4, <1>8, <3>1, <3>2
  <2>2. CASE a = b
    <3>1. Rel(p, a) = x /\ Rel(p, b) = y
      BY <1>4, ConcatChar
    <3> QED
      BY <2>2, <3>1
  <2>3. CASE a # b
    <3>1. PICK f \in Path : f = Front(b) /\ Len(f) = Len(b) - 1 /\ IsPrefix(f, b)
      BY <2>1, SplitLast
    <3>2. IsPrefix(a, f)
      <4>1. Len(a) < Len(b) /\ Len(a) \in Nat /\ Len(b) \in Nat
        BY <1>5, <2>3, StrictShorter
      <4>2. Len(a) <= Len(f)
        BY <3>1, <4>1
      <4> QED
        BY <1>5, <3>1, <4>2, PrefixesComparable
    <3>3. a = f
      BY <1>1, <1>2, <1>4, <1>6, <2>1, <3>1, <3>2 DEF IsStrictPrefix
    <3>4. rows[i].path = rows[j].path /\ rows[j].slash
      BY <1>1, <1>2, <1>4, <2>1, <3>1, <3>3
    <3>5. i <= j
      BY <3>4, ScanOrder
    <3> QED
      BY <3>5 DEF InScan
  <2> QED
    BY <2>2, <2>3
<1> QED
  BY <1>7, <1>8

\* Nothing is said of a container after its row.
LEMMA SaidLast ==
    ASSUME NEW rows, InScan(rows), NEW j \in 1..Len(rows), NEW l \in 1..Len(rows),
           NEW x \in Path, rows[j].path = rows[1].path \o x, rows[j].slash,
           Says(rows[l], rows[1].path, x)
    PROVE  l <= j
<1>1. PICK p \in Path : p = rows[1].path
  BY 1 \in 1..Len(rows) DEF InScan, IsRow
<1>2. IsRow(rows[l]) /\ Spells(rows[l])
  BY DEF InScan
<1>3. CASE rows[l].path = p \o x
  BY <1>1, <1>3, ScanOrder
<1>4. CASE rows[l].path # p \o x
  <2>1. p \o x # Root /\ rows[l].path = Front(p \o x) /\ p \o x \in Path
    <3>1. PICK s : s = rows[l]
      OBVIOUS
    <3>2. Says(s, p, x) <=> \/ s.path = p \o x
                            \/ /\ s.slash /\ p \o x # Root /\ s.path = Front(p \o x)
                               /\ <<Last(p \o x)>> \in DOMAIN s.text
      BY <1>2, <3>1, SaysChar
    <3>3. p \o x \in Path
      BY ConcatChar
    <3> QED
      BY <1>1, <1>4, <3>1, <3>2, <3>3
  <2>2. IsPrefix(rows[l].path, rows[j].path)
    BY <1>1, <2>1, SplitLast
  <2>3. l < j
    BY <1>1, <1>4, <2>2, ScanOrder DEF IsStrictPrefix
  <2> QED
    BY <2>3 DEF InScan
<1> QED
  BY <1>3, <1>4

\* After the row i the tree has the nodes of which a row up to i says something,
\* each with what was said last.
TreeOK(tree, rows, i) ==
    /\ tree = [y \in DOMAIN tree |-> tree[y]]
    /\ \A y : y \in DOMAIN tree <=> y \in Path /\ \E j \in 1..i : Says(rows[j], rows[1].path, y)
    /\ \A y \in Path, j \in 1..i :
          /\ Says(rows[j], rows[1].path, y)
          /\ \A l \in 1..i : Says(rows[l], rows[1].path, y) => l <= j
          => tree[y] = Told(rows[j], rows[1].path, y)

\* The nodes that the row spells, from its own.
Spelled(r) == DOMAIN r.text

\* The row r stands at x in the document at p.
StandsAt(r, p, x) == r.path = p \o x

\* What a row spells are paths.
LEMMA SpelledPaths ==
    ASSUME NEW r, Spells(r)
    PROVE  DOMAIN r.text \subseteq Path
<1>1. ASSUME NEW z \in DOMAIN r.text PROVE z \in Path
  <2>1. CASE z = Root
    BY <2>1, RootIsPath
  <2>2. CASE \E k \in Keys : z = <<k>>
    BY <2>2, OneKey
  <2> QED
    BY <2>1, <2>2 DEF Spells
<1> QED
  BY <1>1

\* What a row says of the document at p are its entries, where it stands.
LEMMA SaysWhere ==
    ASSUME NEW r, Spells(r), NEW p \in Path, NEW x \in Path, StandsAt(r, p, x)
    PROVE  /\ \A y \in Path : Says(r, p, y) =>
                 /\ IsPrefix(x, y) /\ Rel(x, y) \in Spelled(r)
                 /\ Told(r, p, y) = r.text[Rel(x, y)]
           /\ \A z \in Spelled(r) : x \o z \in Path /\ Says(r, p, x \o z)
<1>1. ASSUME NEW y \in Path, Says(r, p, y)
      PROVE  /\ IsPrefix(x, y) /\ Rel(x, y) \in Spelled(r) /\ Told(r, p, y) = r.text[Rel(x, y)]
             /\ y = x \o Rel(x, y)
  <2>1. PICK a \in Path, b \in Path : a = p \o x /\ b = p \o y /\ r.path = a
    BY <1>1, ConcatChar DEF StandsAt
  <2>2. IsPrefix(a, b) /\ Rel(a, b) \in Spelled(r) /\ Told(r, p, y) = r.text[Rel(a, b)]
    BY <1>1, <2>1 DEF Says, Told, Spelled
  <2>3. PICK w \in Path : w = Rel(a, b) /\ b = a \o w
    BY <2>2, RelChar
  <2>4. b = p \o (x \o w)
    <3>1. p \o (x \o w) = (p \o x) \o w
      BY <2>3, BelowBelow
    <3> QED
      BY <2>1, <2>3, <3>1
  <2>5. x \o w \in Path /\ IsPrefix(x, x \o w) /\ Rel(x, x \o w) = w
    BY ConcatChar
  <2>6. Rel(p, p \o (x \o w)) = x \o w /\ Rel(p, p \o y) = y
    <3>1. PICK v \in Path : v = x \o w
      BY <2>5
    <3>2. Rel(p, p \o v) = v
      BY ConcatChar
    <3>3. Rel(p, p \o y) = y
      BY <1>1, ConcatChar
    <3> QED
      BY <3>1, <3>2, <3>3
  <2>7. y = x \o w
    BY <2>1, <2>4, <2>6
  <2> QED
    BY <2>2, <2>3, <2>5, <2>7
<1>2. ASSUME NEW z \in Spelled(r)
      PROVE  x \o z \in Path /\ Says(r, p, x \o z)
  <2>1. z \in Path
    BY SpelledPaths DEF Spelled
  <2>2. PICK y \in Path : y = x \o z
    BY <2>1, ConcatChar
  <2>3. PICK a \in Path : a = p \o x /\ r.path = a
    BY ConcatChar DEF StandsAt
  <2>4. p \o y = a \o z
    BY <2>1, <2>2, <2>3, BelowBelow
  <2>5. IsPrefix(a, a \o z) /\ Rel(a, a \o z) = z
    BY <2>1, ConcatChar
  <2> QED
    BY <2>2, <2>3, <2>4, <2>5 DEF Says, Spelled
<1> QED
  BY <1>1, <1>2

\* The tree of the first row.
LEMMA TreeBegins ==
    ASSUME NEW rows, InScan(rows)
    PROVE  TreeOK(rows[1].text, rows, 1)
<1>1. PICK p \in Path, r \in {rows[1]} : p = rows[1].path /\ r = rows[1] /\ Spells(r)
  BY 1 \in 1..Len(rows) DEF InScan, IsRow
<1>2. r.path = p \o Root
  BY <1>1, RootIsPath, ConcatChar
<1>3. PICK o \in Path : o = Root /\ StandsAt(r, p, o)
  BY <1>2, RootIsPath DEF StandsAt
<1>4. \A y \in Path : o \o y = y /\ Rel(o, y) = y
  <2>1. \A y \in Path : o \o y = y /\ Rel(o, o \o y) = y
    BY <1>3, RootConcat, ConcatChar
  <2> QED
    BY <2>1
<1>5. Spelled(r) \subseteq Path
  BY <1>1, SpelledPaths DEF Spelled
<1>6. ASSUME NEW y \in Path, Says(r, p, y)
      PROVE  y \in Spelled(r) /\ Told(r, p, y) = r.text[y]
  <2>1. Rel(o, y) \in Spelled(r) /\ Told(r, p, y) = r.text[Rel(o, y)]
    BY <1>1, <1>3, <1>6, SaysWhere
  <2> QED
    BY <1>4, <2>1
<1>7. ASSUME NEW y \in Spelled(r) PROVE Says(r, p, y)
  <2>1. Says(r, p, o \o y)
    BY <1>1, <1>3, SaysWhere
  <2> QED
    BY <1>4, <1>5, <2>1
<1>8. \A j \in 1..1 : j = 1
  OBVIOUS
<1>9. r.text = [y \in Spelled(r) |-> r.text[y]]
  BY <1>1 DEF Spells, Spelled
<1>10. 1 \in 1..1
  OBVIOUS
<1> QED
  BY <1>1, <1>5, <1>6, <1>7, <1>8, <1>9, <1>10 DEF TreeOK, Spelled

\* The tree new is tree with the text at x.
HasPut(new, tree, x, text) ==
    /\ new = [y \in DOMAIN new |-> new[y]]
    /\ \A y : y \in DOMAIN new <=> \/ \E z \in DOMAIN text : y = x \o z
                                   \/ y \in DOMAIN tree /\ ~IsPrefix(x, y)
    /\ \A y \in {x \o z : z \in DOMAIN text} : new[y] = text[Rel(x, y)]
    /\ \A y \in DOMAIN tree : ~IsPrefix(x, y) /\ y \notin {x \o z : z \in DOMAIN text} => new[y] = tree[y]

\* Putting a row into a tree that has its parent.
LEMMA PutChar ==
    ASSUME NEW tree, NEW at, at \in DOMAIN tree, tree[at] = Obj, NEW k, NEW text
    PROVE  HasPut(Put(tree, at, k, text), tree, Append(at, k), text)
<1>1. PICK x : x = Append(at, k)
  OBVIOUS
<1>2. PICK A : A = [y \in {x \o z : z \in DOMAIN text} |-> text[Rel(x, y)]]
  OBVIOUS
<1>3. PICK B : B = [y \in {y \in DOMAIN tree : ~IsPrefix(x, y)} |-> tree[y]]
  OBVIOUS
<1>4. Put(tree, at, k, text) = Override(A, B)
  BY <1>1, <1>2, <1>3 DEF Put, RestrictDomain, Restrict
<1>5. Override(A, B) = [y \in DOMAIN A \cup DOMAIN B |-> IF y \in DOMAIN A THEN A[y] ELSE B[y]]
  BY DEF Override
<1>6. PICK new : new = Override(A, B)
  OBVIOUS
<1>7. HasPut(new, tree, x, text)
  BY <1>2, <1>3, <1>5, <1>6 DEF HasPut
<1> QED
  BY <1>1, <1>4, <1>6, <1>7

\* The row above it on the stack has left an object in the tree.
LEMMA ParentInTree ==
    ASSUME NEW rows, InScan(rows), NEW i \in 1..Len(rows), i # 1,
           NEW j \in 1..i - 1, rows[j].slash, rows[j].path = Front(rows[i].path),
           NEW tree, TreeOK(tree, rows, i - 1)
    PROVE  /\ Rel(rows[1].path, Front(rows[i].path)) \in DOMAIN tree
           /\ tree[Rel(rows[1].path, Front(rows[i].path))] = Obj
<1>1. PICK p \in Path, r \in {rows[j]} : p = rows[1].path /\ r = rows[j]
  BY ScanBelowFirst
<1>2. PICK f \in Path : f = Front(rows[i].path) /\ IsPrefix(p, f)
  <2>1. rows[i].path \in Path /\ rows[i].path # Root
    BY ScanBelowFirst
  <2> QED
    BY <1>1, <2>1, SplitLast, ObjectAbove
<1>3. PICK at \in Path : at = Rel(p, f) /\ f = p \o at
  BY <1>2, RelChar
<1>4. j \in 1..Len(rows)
  BY DEF InScan
<1>5. IsRow(r) /\ Spells(r) /\ r.path = p \o at /\ r.slash
  BY <1>1, <1>2, <1>3, <1>4 DEF InScan
<1>6. Says(r, p, at) /\ Told(r, p, at) = r.text[Root] /\ r.text[Root] = Obj
  <2>1. Says(r, p, at) /\ Told(r, p, at) = r.text[Root]
    BY <1>5, SaysChar
  <2> QED
    BY <1>5, <2>1 DEF Spells
<1>7. ASSUME NEW l \in 1..i - 1, Says(rows[l], p, at) PROVE l <= j
  <2>1. l \in 1..Len(rows)
    BY DEF InScan
  <2> QED
    BY <1>1, <1>4, <1>5, <1>7, <2>1, SaidLast
<1>8. at \in DOMAIN tree /\ tree[at] = Told(r, p, at)
  BY <1>1, <1>6, <1>7 DEF TreeOK
<1> QED
  BY <1>1, <1>2, <1>3, <1>6, <1>8

\* With the next row put there the tree has what was said up to that row.
LEMMA TreeGoesOn ==
    ASSUME NEW rows, InScan(rows), IsWhole(rows), NEW i \in 1..Len(rows), i # 1,
           NEW st, StackOK(st, rows, i - 1), NEW tree, TreeOK(tree, rows, i - 1),
           NEW s, s.stack = st, s.tree = tree
    PROVE  TreeOK(Pushed(s, rows[i]).tree, rows, i)
<1>1. PICK p \in Path, r \in {rows[i]} : p = rows[1].path /\ r = rows[i]
  BY ScanBelowFirst
<1>2. PICK at \in Path, k \in Keys, x \in Path :
          /\ at = Rel(p, Front(r.path)) /\ k = Last(r.path)
          /\ x = Append(at, k) /\ r.path = p \o x
  <2>1. PICK q \in Path, z \in Path : q = r.path /\ q = p \o z /\ z = Rel(p, q) /\ z = Append(Rel(p, Front(q)), Last(q))
    <3>1. rows[i].path \in Path
      BY ScanBelowFirst
    <3> QED
      BY <1>1, <3>1, ObjectAbove
  <2>2. q # Root /\ IsPrefix(p, Front(q))
    BY <1>1, <2>1, ScanBelowFirst, ObjectAbove
  <2>3. Front(q) \in Path /\ Last(q) \in Keys
    BY <2>2, SplitLast
  <2>4. Rel(p, Front(q)) \in Path
    BY <2>2, <2>3, RelChar
  <2> QED
    BY <2>1, <2>3, <2>4
<1>3. Parent(st, r) = at /\ at \in DOMAIN tree /\ tree[at] = Obj
  <2>1. \E m \in 1..Len(st), j \in 1..i - 1 :
              /\ rows[j].slash /\ rows[j].path = Front(rows[i].path)
              /\ st[m] = Entry(rows, j)
              /\ \A a \in 1..Len(st) : IsPrefix(st[a].path, rows[i].path) <=> a <= m
              /\ Parent(st, rows[i]) = Rel(rows[1].path, Front(rows[i].path))
              /\ Popped(st, rows[i]) = SubSeq(st, 1, m)
    BY ParentOnStack
  <2>2. PICK j \in 1..i - 1 :
              /\ rows[j].slash /\ rows[j].path = Front(rows[i].path)
              /\ Parent(st, rows[i]) = Rel(rows[1].path, Front(rows[i].path))
    BY <2>1
  <2> QED
    BY <1>1, <1>2, <2>2, ParentInTree
<1>4. PICK new : new = Put(tree, at, k, r.text)
  OBVIOUS
<1>5. Pushed(s, rows[i]).tree = new
  BY <1>1, <1>2, <1>3, <1>4 DEF Pushed
<1>6. Spells(r) /\ StandsAt(r, p, x)
  BY <1>1, <1>2 DEF InScan, StandsAt
<1>7. PICK A : A = {x \o z : z \in Spelled(r)}
  OBVIOUS
<1>8. /\ new = [y \in DOMAIN new |-> new[y]]
      /\ \A y : y \in DOMAIN new <=> y \in A \/ (y \in DOMAIN tree /\ ~IsPrefix(x, y))
      /\ \A y \in A : new[y] = r.text[Rel(x, y)]
      /\ \A y \in DOMAIN tree : ~IsPrefix(x, y) /\ y \notin A => new[y] = tree[y]
  <2>1. PICK t : t = r.text /\ A = {x \o z : z \in DOMAIN t} /\ new = Put(tree, at, k, t)
    BY <1>4, <1>7 DEF Spelled
  <2>2. HasPut(Put(tree, at, k, t), tree, Append(at, k), t)
    BY <1>3, PutChar
  <2>3. HasPut(new, tree, x, t)
    BY <1>2, <2>1, <2>2
  <2>4. \A y : y \in A <=> \E z \in DOMAIN t : y = x \o z
    BY <2>1
  <2> QED
    BY <2>1, <2>3, <2>4 DEF HasPut
<1>9. ASSUME NEW y
      PROVE  /\ y \in A => y \in Path /\ Says(r, p, y)
             /\ y \in Path /\ Says(r, p, y) => y \in A /\ Told(r, p, y) = r.text[Rel(x, y)]
  <2>1. ASSUME y \in A PROVE y \in Path /\ Says(r, p, y)
    <3>1. PICK z \in Spelled(r) : y = x \o z
      BY <1>7, <2>1
    <3>2. x \o z \in Path /\ Says(r, p, x \o z)
      BY <1>6, SaysWhere
    <3> QED
      BY <3>1, <3>2
  <2>2. ASSUME y \in Path, Says(r, p, y) PROVE y \in A /\ Told(r, p, y) = r.text[Rel(x, y)]
    <3>1. IsPrefix(x, y) /\ Rel(x, y) \in Spelled(r) /\ Told(r, p, y) = r.text[Rel(x, y)]
      BY <1>6, <2>2, SaysWhere
    <3>2. y = x \o Rel(x, y)
      BY <2>2, <3>1, RelChar
    <3> QED
      BY <1>7, <3>1, <3>2
  <2> QED
    BY <2>1, <2>2
<1>10. x \in A
  <2>1. Says(r, p, x)
    <3>1. IsRow(r) /\ r.path = p \o x
      BY <1>1, <1>2 DEF InScan
    <3> QED
      BY <1>6, <3>1, SaysChar
  <2> QED
    BY <1>9, <2>1
<1>11. ASSUME NEW y \in Path, NEW j \in 1..i - 1, Says(rows[j], p, y), IsPrefix(x, y)
       PROVE  y \in A
  <2>1. j \in 1..Len(rows) /\ j < i
    BY DEF InScan
  <2>2. y = x
    BY <1>1, <1>2, <1>11, <2>1, SaidBefore
  <2> QED
    BY <1>10, <2>2
<1>12. \A j : j \in 1..i <=> j \in 1..i - 1 \/ j = i
  BY DEF InScan
<1>13. \A y : y \in DOMAIN tree <=> y \in Path /\ \E j \in 1..i - 1 : Says(rows[j], p, y)
  BY <1>1 DEF TreeOK
<1>14. ASSUME NEW y
       PROVE  y \in DOMAIN new <=> y \in Path /\ \E j \in 1..i : Says(rows[j], p, y)
  <2>1. ASSUME y \in DOMAIN new PROVE y \in Path /\ \E j \in 1..i : Says(rows[j], p, y)
    BY <1>1, <1>8, <1>9, <1>12, <1>13, <2>1
  <2>2. ASSUME y \in Path, NEW j \in 1..i, Says(rows[j], p, y) PROVE y \in DOMAIN new
    <3>1. CASE j = i
      BY <1>1, <1>8, <1>9, <2>2, <3>1
    <3>2. CASE j \in 1..i - 1
      BY <1>8, <1>11, <1>13, <2>2, <3>2
    <3> QED
      BY <1>12, <3>1, <3>2
  <2> QED
    BY <2>1, <2>2
<1>15. ASSUME NEW y \in Path, NEW j \in 1..i, Says(rows[j], p, y),
              \A l \in 1..i : Says(rows[l], p, y) => l <= j
       PROVE  new[y] = Told(rows[j], p, y)
  <2>1. CASE j = i
    BY <1>1, <1>8, <1>9, <1>15, <2>1
  <2>2. CASE j \in 1..i - 1
    <3>1. ~Says(r, p, y)
      <4>1. i \in 1..i /\ ~(i <= j)
        BY <2>2 DEF InScan
      <4> QED
        BY <1>1, <1>15, <4>1
    <3>2. y \notin A
      BY <1>9, <3>1
    <3>3. ~IsPrefix(x, y)
      BY <1>11, <1>15, <2>2, <3>2
    <3>4. y \in DOMAIN tree
      BY <1>13, <1>15, <2>2
    <3>5. tree[y] = Told(rows[j], p, y)
      BY <1>1, <1>12, <1>15, <2>2 DEF TreeOK
    <3> QED
      BY <1>8, <3>2, <3>3, <3>4, <3>5
  <2> QED
    BY <1>12, <2>1, <2>2
<1>16. TreeOK(new, rows, i)
  BY <1>1, <1>8, <1>14, <1>15 DEF TreeOK
<1> QED
  BY <1>5, <1>16

\* So the tree of a scan has what its rows say, each node as it was said last.
LEMMA StackedTells ==
    ASSUME NEW rows, InScan(rows), IsWhole(rows)
    PROVE  TreeOK(Stacked(rows), rows, Len(rows))
<1>1. PICK n \in Nat \ {0} : n = Len(rows)
  BY DEF InScan
<1>2. PICK f : Stacking(f, rows) /\ Stacked(rows) = f[n].tree
  BY <1>1, StackedIs
<1>3. f[1].tree = rows[1].text /\ f[1].stack = <<[path |-> rows[1].path, at |-> Root]>>
  <2>1. 1 \in 1..n
    BY <1>1
  <2>2. f[1] = [tree |-> rows[1].text, stack |-> <<[path |-> rows[1].path, at |-> Root]>>]
    BY <1>1, <1>2, <2>1 DEF Stacking
  <2> QED
    BY <2>2
<1>4. \A i \in 1..n : i # 1 => f[i] = Pushed(f[i - 1], rows[i])
  BY <1>1, <1>2 DEF Stacking
<1> DEFINE Fine(i) == StackOK(f[i].stack, rows, i) /\ TreeOK(f[i].tree, rows, i)
<1>5. Fine(1)
  BY <1>3, StackBegins, TreeBegins
<1>6. ASSUME NEW i \in 1..n, i # 1, Fine(i - 1) PROVE Fine(i)
  <2>1. PICK s, st, tree : s = f[i - 1] /\ st = s.stack /\ tree = s.tree
    OBVIOUS
  <2>2. StackOK(st, rows, i - 1) /\ TreeOK(tree, rows, i - 1)
    BY <1>6, <2>1
  <2>3. StackOK(Pushed(s, rows[i]).stack, rows, i)
    BY <1>1, <1>6, <2>1, <2>2, StackGoesOn
  <2>4. TreeOK(Pushed(s, rows[i]).tree, rows, i)
    BY <1>1, <1>6, <2>1, <2>2, TreeGoesOn
  <2>5. f[i] = Pushed(s, rows[i])
    BY <1>4, <1>6, <2>1
  <2> QED
    BY <2>3, <2>4, <2>5
<1> HIDE DEF Fine
<1>7. Fine(n)
  <2> DEFINE Bad == {i \in 1..n : ~Fine(i)}
  <2> SUFFICES ASSUME Bad # {} PROVE FALSE
    BY <1>1
  <2>1. Bad \subseteq Nat
    OBVIOUS
  <2>2. PICK m \in Bad : \A l \in Bad : m <= l
    <3> HIDE DEF Bad
    <3> QED
      BY <2>1, LeastNat
  <2>3. m \in 1..n /\ ~Fine(m) /\ m # 1
    BY <1>5, <2>2
  <2>4. m - 1 \in 1..n /\ ~(m <= m - 1)
    BY <2>3
  <2>5. Fine(m - 1)
    BY <2>2, <2>4
  <2> QED
    BY <1>6, <2>3, <2>5
<1> QED
  BY <1>1, <1>2, <1>7 DEF Fine

\* Printing leaves rows in their order.
LEMMA PrintedOrder ==
    ASSUME NEW r, NEW s
    PROVE  RowBefore(Printable(r), Printable(s)) <=> RowBefore(r, s)
<1>1. PICK a, b : a = Printable(r) /\ b = Printable(s)
  OBVIOUS
<1>2. a.path = r.path /\ a.slash = r.slash /\ b.path = s.path /\ b.slash = s.slash
  BY <1>1 DEF Printable
<1>3. RowBefore(a, b) <=> RowBefore(r, s)
  BY <1>2 DEF RowBefore
<1> QED
  BY <1>1, <1>3

\* What a row prints.
LEMMA PrintedText ==
    ASSUME IInv, NEW p, NEW e \in Exported(p)
    PROVE  /\ IsRow(Printable(e)) /\ Spells(Printable(e))
           /\ Printable(e).path = e.path /\ Printable(e).slash = e.slash
           /\ ~e.slash => Printable(e).text[Root] = primitives[e.path].val
           /\ e.slash => \A k \in Keys : /\ <<k>> \in DOMAIN Printable(e).text <=> k \in DOMAIN containers[e.path].inline
                                         /\ k \in DOMAIN containers[e.path].inline =>
                                                Printable(e).text[<<k>>] = containers[e.path].inline[k]
<1>1. PICK r, t : r = Printable(e) /\ t = RowText(e)
  OBVIOUS
<1>2. r.path = e.path /\ r.slash = e.slash /\ r.text = t
  BY <1>1 DEF Printable
<1>3. IsRow(e)
  BY ExportedChar
<1>4. IsRow(r)
  BY <1>2, <1>3 DEF IsRow
<1>5. CASE ~e.slash
  <2>1. t = [x \in {Root} |-> primitives[e.path].val]
    BY <1>1, <1>5 DEF RowText
  <2>2. t = [z \in DOMAIN t |-> t[z]] /\ DOMAIN t = {Root} /\ t[Root] = primitives[e.path].val
    BY <2>1
  <2>3. Spells(r)
    BY <1>2, <1>5, <2>2 DEF Spells
  <2> QED
    BY <1>1, <1>2, <1>4, <1>5, <2>2, <2>3
<1>6. CASE e.slash
  <2>1. PICK entries : entries = containers[e.path].inline
    OBVIOUS
  <2>2. t = [x \in {Root} \cup {<<k>> : k \in DOMAIN entries} |->
                IF x = Root THEN Obj ELSE entries[Last(x)]]
    BY <1>1, <1>6, <2>1 DEF RowText
  <2>3. DOMAIN entries \subseteq Keys
    <3>1. ContainersOK(containers)
      BY IInvChar
    <3>2. e.path \in DOMAIN containers
      BY <1>6, ExportedChar
    <3> QED
      BY <2>1, <3>1, <3>2, InlineTypes
  <2>4. \A k \in Keys : <<k>> # Root /\ Last(<<k>>) = k
    BY OneKey
  <2>5. t = [z \in DOMAIN t |-> t[z]] /\ Root \in DOMAIN t /\ t[Root] = Obj
    BY <2>2
  <2>6. \A z \in DOMAIN t : z = Root \/ \E k \in Keys : z = <<k>>
    BY <2>2, <2>3
  <2>7. \A k \in Keys : <<k>> \in DOMAIN t <=> k \in DOMAIN entries
    <3>1. ASSUME NEW k \in Keys, <<k>> \in DOMAIN t PROVE k \in DOMAIN entries
      <4>1. PICK l \in DOMAIN entries : <<k>> = <<l>>
        BY <2>2, <2>4, <3>1
      <4> QED
        BY <2>3, <2>4, <4>1
    <3>2. ASSUME NEW k \in DOMAIN entries PROVE <<k>> \in DOMAIN t
      BY <2>2
    <3> QED
      BY <3>1, <3>2
  <2>8. \A k \in DOMAIN entries : t[<<k>>] = entries[k]
    <3>1. ASSUME NEW k \in DOMAIN entries PROVE t[<<k>>] = entries[k]
      <4>1. <<k>> \in DOMAIN t /\ <<k>> # Root /\ Last(<<k>>) = k
        BY <2>3, <2>4, <2>7
      <4> QED
        BY <2>2, <4>1
    <3> QED
      BY <3>1
  <2>9. Spells(r)
    BY <1>2, <1>6, <2>5, <2>6 DEF Spells
  <2> QED
    BY <1>1, <1>2, <1>4, <1>6, <2>1, <2>7, <2>8, <2>9
<1> QED
  BY <1>5, <1>6

\* The rows of a document, in the order of a scan, are such a scan.
LEMMA ExportIsScan ==
    ASSUME IInv, FInv, NEW p \in Path, Exists(p), NEW rows, rows = ExportRows(p)
    PROVE  /\ InScan(rows) /\ IsWhole(rows) /\ rows[1].path = p
           /\ \A i \in 1..Len(rows) : \E e \in Exported(p) : rows[i] = Printable(e)
           /\ \A e \in Exported(p) : \E i \in 1..Len(rows) : rows[i] = Printable(e)
<1>1. PICK n \in Nat, list \in {RowsInOrder(Exported(p))} :
              /\ list = RowsInOrder(Exported(p))
              /\ list \in [1..n -> Exported(p)]
              /\ \A r \in Exported(p) : \E i \in 1..n : list[i] = r
              /\ \A i, j \in 1..n : RowBefore(list[i], list[j]) <=> i < j
              /\ rows = [i \in 1..n |-> Printable(list[i])]
  BY ExportIsList
<1>2. Len(rows) = n /\ \A i \in 1..n : rows[i] = Printable(list[i])
  BY <1>1
<1>3. \A i, j \in 1..n : RowBefore(rows[i], rows[j]) <=> i < j
  BY <1>1, <1>2, PrintedOrder
<1>4. \A i \in 1..n : /\ IsRow(rows[i]) /\ Spells(rows[i])
                      /\ rows[i].path = list[i].path /\ rows[i].slash = list[i].slash
                      /\ list[i] \in Exported(p)
  BY <1>1, <1>2, PrintedText
<1>5. PICK top : top = [path |-> p, slash |-> TRUE]
  OBVIOUS
<1>6. top \in Exported(p)
  <2>1. IsPrefix(p, p)
    BY PrefixOrder
  <2>2. top = [path |-> top.path, slash |-> top.slash] /\ top.slash = TRUE /\ top.path = p
    BY <1>5
  <2> QED
    BY <2>1, <2>2, ExportedChar DEF Exists
<1>7. PICK t \in 1..n : list[t] = top
  BY <1>1, <1>6
<1>8. ASSUME NEW i \in 1..n PROVE IsPrefix(p, rows[i].path)
  <2>1. list[i] \in Exported(p) /\ rows[i].path = list[i].path
    BY <1>4
  <2> QED
    BY <2>1, ExportedChar
<1>9. t = 1
  <2>1. SUFFICES ASSUME t # 1 PROVE FALSE
    OBVIOUS
  <2>2. 1 \in 1..n /\ 1 < t
    BY <2>1
  <2>3. PICK e : e = list[1] /\ e \in Exported(p) /\ e # top
    <3>1. RowBefore(list[1], list[t]) /\ ~RowBefore(list[t], list[t])
      BY <1>1, <2>2
    <3> QED
      BY <1>1, <1>7, <2>2, <3>1
  <2>4. RowBefore(e, top)
    BY <1>1, <1>7, <2>2, <2>3
  <2>5. RowBefore(top, e)
    <3>1. IsPrefix(p, e.path) /\ e = [path |-> e.path, slash |-> e.slash]
          /\ (e.slash = TRUE \/ e.path # p)
      BY <2>3, ExportedChar
    <3>2. e.path # p
      BY <1>5, <2>3, <3>1
    <3>3. Above(top, e)
      BY <1>5, <3>1, <3>2 DEF Above, IsStrictPrefix
    <3> QED
      BY <3>3, RowBeforeIs
  <2>6. t < 1
    BY <1>1, <1>7, <2>2, <2>3, <2>5
  <2> QED
    BY <2>2, <2>6
<1>10. rows[1].path = p /\ rows[1].slash
  BY <1>4, <1>5, <1>7, <1>9
<1>11. n \in Nat \ {0}
  BY <1>7
<1>12. InScan(rows)
  BY <1>2, <1>3, <1>4, <1>8, <1>10, <1>11 DEF InScan
<1>13. ASSUME NEW i \in 1..n, NEW x \in Ancestors(rows[i].path), IsPrefix(p, x)
       PROVE  \E j \in 1..n : rows[j].path = x /\ rows[j].slash
  <2>1. PICK e \in Exported(p) : e = list[i] /\ rows[i].path = e.path
    BY <1>4
  <2>2. e.path \in DOMAIN containers \cup DOMAIN primitives
    BY <2>1, ExportedChar
  <2>3. x \in DOMAIN containers
    BY <1>13, <2>1, <2>2 DEF IInv, AncestorClosed
  <2>4. PICK s : s = [path |-> x, slash |-> TRUE]
    OBVIOUS
  <2>5. s = [path |-> s.path, slash |-> s.slash] /\ s.slash = TRUE /\ s.path = x
    BY <2>4
  <2>6. s \in Exported(p)
    BY <1>13, <2>3, <2>5, ExportedChar
  <2>7. PICK j \in 1..n : list[j] = s
    BY <1>1, <2>6
  <2> QED
    BY <1>4, <2>5, <2>7
<1>14. IsWhole(rows)
  BY <1>2, <1>10, <1>13 DEF IsWhole
<1>15. \A e \in Exported(p) : \E i \in 1..n : rows[i] = Printable(e)
  BY <1>1, <1>2
<1> QED
  BY <1>2, <1>4, <1>10, <1>12, <1>14, <1>15

\* What a printed row says of any document, in terms of the tables.
LEMMA PrintedTells ==
    ASSUME IInv, NEW o, NEW e \in Exported(o), NEW p \in Path, NEW y \in Path
    PROVE  /\ Says(Printable(e), p, y) <=>
                 \/ e.path = p \o y
                 \/ /\ e.slash /\ p \o y # Root /\ e.path = Front(p \o y)
                    /\ Last(p \o y) \in DOMAIN containers[Front(p \o y)].inline
           /\ e.path = p \o y /\ e.slash => Told(Printable(e), p, y) = Obj
           /\ e.path = p \o y /\ ~e.slash => Told(Printable(e), p, y) = primitives[p \o y].val
           /\ /\ e.slash /\ p \o y # Root /\ e.path = Front(p \o y)
              /\ Last(p \o y) \in DOMAIN containers[Front(p \o y)].inline
              => Told(Printable(e), p, y) = containers[Front(p \o y)].inline[Last(p \o y)]
<1>1. PICK r : r = Printable(e)
  OBVIOUS
<1>2. /\ IsRow(r) /\ Spells(r)
      /\ r.path = e.path /\ r.slash = e.slash
      /\ ~e.slash => r.text[Root] = primitives[e.path].val
      /\ e.slash => \A k \in Keys : /\ <<k>> \in DOMAIN r.text <=> k \in DOMAIN containers[e.path].inline
                                    /\ k \in DOMAIN containers[e.path].inline =>
                                           r.text[<<k>>] = containers[e.path].inline[k]
  BY <1>1, PrintedText
<1>3. PICK z \in Path : z = p \o y
  BY ConcatChar
<1>4. /\ Says(r, p, y) <=> \/ r.path = z
                           \/ /\ r.slash /\ z # Root /\ r.path = Front(z)
                              /\ <<Last(z)>> \in DOMAIN r.text
      /\ r.path = z => Told(r, p, y) = r.text[Root]
      /\ z # Root /\ r.path = Front(z) => Told(r, p, y) = r.text[<<Last(z)>>]
  BY <1>2, <1>3, SaysChar
<1>5. z # Root => Last(z) \in Keys
  BY SplitLast
<1>6. r.slash => r.text[Root] = Obj
  BY <1>2 DEF Spells
<1> QED
  BY <1>1, <1>2, <1>3, <1>4, <1>5, <1>6

\* The same of the document it belongs to.
LEMMA PrintedSays ==
    ASSUME IInv, NEW p \in Path, NEW e \in Exported(p), NEW y \in Path
    PROVE  /\ Says(Printable(e), p, y) <=>
                 \/ e.path = p \o y
                 \/ /\ e.slash /\ p \o y # Root /\ e.path = Front(p \o y)
                    /\ Last(p \o y) \in DOMAIN containers[Front(p \o y)].inline
           /\ e.path = p \o y /\ e.slash => Told(Printable(e), p, y) = Obj
           /\ e.path = p \o y /\ ~e.slash => Told(Printable(e), p, y) = primitives[p \o y].val
           /\ /\ e.slash /\ p \o y # Root /\ e.path = Front(p \o y)
              /\ Last(p \o y) \in DOMAIN containers[Front(p \o y)].inline
              => Told(Printable(e), p, y) = containers[Front(p \o y)].inline[Last(p \o y)]
BY PrintedTells

\* A node below the root of a document, among all the nodes there are.
LEMMA NodeBelow ==
    ASSUME NEW p \in Path, NEW y \in Path, y # Root
    PROVE  /\ p \o y \in Path /\ p \o y # Root /\ p \o y # p
           /\ Front(p \o y) = p \o Front(y) /\ Last(p \o y) = Last(y)
           /\ Front(p \o y) \in Path /\ IsPrefix(p, Front(p \o y))
           /\ IsStrictPrefix(Front(p \o y), p \o y)
<1>1. p \o y \in Path /\ p \o y # p
  BY ConcatChar
<1>2. p \o y # Root /\ Front(p \o y) = p \o Front(y) /\ Last(p \o y) = Last(y)
  BY FrontOfConcat
<1>3. Front(y) \in Path
  BY SplitLast
<1>4. p \o Front(y) \in Path /\ IsPrefix(p, p \o Front(y))
  BY <1>3, ConcatChar
<1>5. PICK z \in Path : z = p \o y
  BY <1>1
<1>6. IsPrefix(Front(z), z) /\ Len(Front(z)) = Len(z) - 1 /\ Len(z) \in Nat
  <2>1. z # Root
    BY <1>2, <1>5
  <2>2. IsPrefix(Front(z), z) /\ Len(Front(z)) = Len(z) - 1
    BY <2>1, SplitLast
  <2> QED
    BY <2>2 DEF Path
<1>7. IsStrictPrefix(Front(z), z)
  BY <1>6 DEF IsStrictPrefix
<1> QED
  BY <1>1, <1>2, <1>4, <1>5, <1>7

\* No entry of a row of the document stands for the document itself.
LEMMA NothingAboveRoot ==
    ASSUME IInv, NEW p \in Path, NEW e \in Exported(p), p # Root
    PROVE  e.path # Front(p)
<1>1. IsPrefix(p, e.path)
  BY ExportedChar
<1>2. PICK f \in Path : f = Front(p) /\ Len(f) = Len(p) - 1 /\ Len(p) \in Nat
  BY SplitLast DEF Path
<1>3. ~IsPrefix(p, f)
  <2>1. IsPrefix(p, f) => Len(p) <= Len(f)
    BY PrefixChar
  <2> QED
    BY <1>2, <2>1
<1> QED
  BY <1>1, <1>2, <1>3

\* What extract_json makes of the rows is what the tables say.
LEMMA ScanIsExtract ==
    ASSUME IInv, FInv, NEW p \in Path, Exists(p)
    PROVE  Stacked(ExportRows(p)) = Extract(p)
<1>1. PICK rows : rows = ExportRows(p)
  OBVIOUS
<1>2. PICK n \in Nat : n = Len(rows)
  <2>1. InScan(rows)
    BY <1>1, ExportIsScan
  <2> QED
    BY <2>1 DEF InScan
<1>3. /\ InScan(rows) /\ IsWhole(rows) /\ rows[1].path = p
      /\ \A i \in 1..n : \E e \in Exported(p) : rows[i] = Printable(e)
      /\ \A e \in Exported(p) : \E i \in 1..n : rows[i] = Printable(e)
  BY <1>1, <1>2, ExportIsScan
<1>4. PICK new : new = Stacked(rows)
  OBVIOUS
<1>5. TreeOK(new, rows, n)
  BY <1>2, <1>3, <1>4, StackedTells
<1>6. /\ new = [y \in DOMAIN new |-> new[y]]
      /\ \A y : y \in DOMAIN new <=> y \in Path /\ \E j \in 1..n : Says(rows[j], p, y)
      /\ \A y \in Path, j \in 1..n :
            Says(rows[j], p, y) /\ (\A l \in 1..n : Says(rows[l], p, y) => l <= j)
                => new[y] = Told(rows[j], p, y)
  BY <1>3, <1>5 DEF TreeOK
<1>7. PICK C, D, N : C = containers /\ D = primitives /\ N = NodesOf(C, D, p)
  OBVIOUS
<1>8. ContainersOK(C) /\ PrimitivesOK(D) /\ p \in DOMAIN C
  BY <1>7, IInvChar DEF Exists
<1>9. /\ N \subseteq Path
      /\ \A y \in Path : y \in N <=> \/ p \o y \in DOMAIN C
                                     \/ y # Root /\ p \o y \in DOMAIN D
                                     \/ y # Root /\ Inlined(C, p \o y)
  BY <1>7, <1>8, NodesChar
<1>10. Extract(p) = [y \in N |-> IF p \o y \in DOMAIN C THEN Obj
                               ELSE IF p \o y \in DOMAIN D THEN D[p \o y].val
                               ELSE C[p \o Front(y)].inline[Last(y)]]
  BY <1>7, ExtractIsTextOf DEF TextOf
<1>11. \A e : e \in Exported(p) <=>
                 /\ e = [path |-> e.path, slash |-> e.slash]
                 /\ IsPrefix(p, e.path)
                 /\ \/ e.slash = TRUE /\ e.path \in DOMAIN C
                    \/ e.slash = FALSE /\ e.path \in DOMAIN D /\ e.path # p
  BY <1>7, ExportedChar
<1>12. ASSUME NEW j \in 1..n
       PROVE  \E e \in Exported(p) :
                 /\ rows[j] = Printable(e) /\ rows[j].path = e.path /\ rows[j].slash = e.slash
  BY <1>3, PrintedText
<1>13. ASSUME NEW y \in Path, NEW j \in 1..n, Says(rows[j], p, y)
       PROVE  y \in N
  <2>1. PICK e \in Exported(p) : rows[j] = Printable(e)
    BY <1>3
  <2>2. \/ e.path = p \o y
        \/ /\ e.slash /\ p \o y # Root /\ e.path = Front(p \o y)
           /\ Last(p \o y) \in DOMAIN C[Front(p \o y)].inline
    BY <1>7, <1>13, <2>1, PrintedSays
  <2>3. CASE e.path = p \o y
    <3>1. p \o y = p <=> y = Root
      BY ConcatChar
    <3> QED
      BY <1>9, <1>11, <2>3, <3>1
  <2>4. CASE /\ e.slash /\ p \o y # Root /\ e.path = Front(p \o y)
             /\ Last(p \o y) \in DOMAIN C[Front(p \o y)].inline
    <3>1. y # Root
      <4>1. SUFFICES ASSUME y = Root PROVE FALSE
        OBVIOUS
      <4>2. p \o y = p
        BY <4>1, ConcatChar
      <4> QED
        BY <2>4, <4>2, NothingAboveRoot
    <3>2. Inlined(C, p \o y)
      BY <1>11, <2>4 DEF Inlined
    <3> QED
      BY <1>9, <3>1, <3>2
  <2> QED
    BY <2>2, <2>3, <2>4
<1>14. ASSUME NEW y \in Path, p \o y \in DOMAIN C
       PROVE  y \in DOMAIN new /\ new[y] = Obj
  <2>1. PICK e : e = [path |-> p \o y, slash |-> TRUE]
    OBVIOUS
  <2>2. e = [path |-> e.path, slash |-> e.slash] /\ e.path = p \o y /\ e.slash = TRUE
    BY <2>1
  <2>3. e \in Exported(p)
    <3>1. IsPrefix(p, p \o y)
      BY ConcatChar
    <3> QED
      BY <1>11, <1>14, <2>2, <3>1
  <2>4. PICK j \in 1..n : rows[j] = Printable(e)
    BY <1>3, <2>3
  <2>5. Says(rows[j], p, y) /\ Told(rows[j], p, y) = Obj
    BY <2>2, <2>3, <2>4, PrintedSays
  <2>6. rows[j].path = rows[1].path \o y /\ rows[j].slash
    BY <1>3, <2>2, <2>3, <2>4, PrintedText
  <2>7. ASSUME NEW l \in 1..n, Says(rows[l], p, y) PROVE l <= j
    BY <1>2, <1>3, <2>6, <2>7, SaidLast
  <2> QED
    BY <1>6, <2>5, <2>7
<1>15. ASSUME NEW y \in Path, p \o y \in DOMAIN D, p \o y \notin DOMAIN C
       PROVE  y \in DOMAIN new /\ new[y] = D[p \o y].val
  <2>1. y # Root
    BY <1>8, <1>15, ConcatChar
  <2>2. PICK e : e = [path |-> p \o y, slash |-> FALSE]
    OBVIOUS
  <2>3. e = [path |-> e.path, slash |-> e.slash] /\ e.path = p \o y /\ e.slash = FALSE
    BY <2>2
  <2>4. e \in Exported(p)
    <3>1. IsPrefix(p, p \o y) /\ p \o y # p
      BY <2>1, ConcatChar
    <3> QED
      BY <1>11, <1>15, <2>3, <3>1
  <2>5. PICK j \in 1..n : rows[j] = Printable(e)
    BY <1>3, <2>4
  <2>6. Says(rows[j], p, y) /\ Told(rows[j], p, y) = D[p \o y].val
    BY <1>7, <2>3, <2>4, <2>5, PrintedSays
  <2>7. rows[j].path = p \o y /\ rows[j].slash = FALSE
    BY <2>3, <2>4, <2>5, PrintedText
  <2>8. ASSUME NEW l \in 1..n, Says(rows[l], p, y) PROVE l <= j
    <3>1. PICK d \in Exported(p) :
             /\ rows[l] = Printable(d) /\ rows[l].path = d.path /\ rows[l].slash = d.slash
      BY <1>12
    <3>2. d.path = p \o y \/ d.path = Front(p \o y)
      <4>1. Says(Printable(d), p, y)
        BY <2>8, <3>1
      <4> QED
        BY <4>1, PrintedSays
    <3>3. CASE d.path = p \o y
      <4>1. rows[l].slash = FALSE
        BY <1>11, <1>15, <3>1, <3>3
      <4>2. rows[l].path = rows[j].path /\ rows[l].slash = rows[j].slash
        BY <2>7, <3>1, <3>3, <4>1
      <4>3. l = j
        BY <1>2, <1>3, <4>2, ScanOrder
      <4> QED
        BY <4>3
    <3>4. CASE d.path = Front(p \o y)
      <4>1. IsStrictPrefix(rows[l].path, rows[j].path)
        BY <2>1, <2>7, <3>1, <3>4, NodeBelow
      <4>2. l < j
        BY <1>2, <1>3, <4>1, ScanOrder
      <4> QED
        BY <4>2
    <3> QED
      BY <3>2, <3>3, <3>4
  <2> QED
    BY <1>6, <2>6, <2>8
<1>16. ASSUME NEW y \in Path, y # Root, Inlined(C, p \o y), p \o y \notin DOMAIN C, p \o y \notin DOMAIN D
       PROVE  y \in DOMAIN new /\ new[y] = C[p \o Front(y)].inline[Last(y)]
  <2>1. PICK f \in Path, k \in {Last(p \o y)} : /\ f = Front(p \o y) /\ f = p \o Front(y) /\ IsPrefix(p, f)
                             /\ k = Last(p \o y) /\ k = Last(y) /\ p \o y # Root
    BY <1>16, NodeBelow
  <2>2. f \in DOMAIN C /\ k \in DOMAIN C[f].inline
    BY <1>16, <2>1 DEF Inlined
  <2>3. PICK e : e = [path |-> f, slash |-> TRUE]
    OBVIOUS
  <2>4. e = [path |-> e.path, slash |-> e.slash] /\ e.path = f /\ e.slash = TRUE
    BY <2>3
  <2>5. e \in Exported(p)
    BY <1>11, <2>1, <2>2, <2>4
  <2>6. PICK j \in 1..n : rows[j] = Printable(e)
    BY <1>3, <2>5
  <2>7. Says(rows[j], p, y) /\ Told(rows[j], p, y) = C[f].inline[k]
    <3>1. /\ e.slash /\ p \o y # Root /\ e.path = Front(p \o y)
          /\ Last(p \o y) \in DOMAIN containers[Front(p \o y)].inline
      BY <1>7, <2>1, <2>2, <2>4
    <3>2. /\ Says(Printable(e), p, y)
          /\ Told(Printable(e), p, y) = containers[Front(p \o y)].inline[Last(p \o y)]
      BY <2>5, <3>1, PrintedSays
    <3> QED
      BY <1>7, <2>1, <2>6, <3>2
  <2>8. rows[j].path = f /\ rows[j].slash
    BY <2>4, <2>5, <2>6, PrintedText
  <2>9. ASSUME NEW l \in 1..n, Says(rows[l], p, y) PROVE l <= j
    <3>1. PICK d \in Exported(p) :
             /\ rows[l] = Printable(d) /\ rows[l].path = d.path /\ rows[l].slash = d.slash
      BY <1>12
    <3>2. d.path = p \o y \/ d.path = f
      <4>1. Says(Printable(d), p, y)
        BY <2>9, <3>1
      <4>2. d.path = p \o y \/ d.path = Front(p \o y)
        BY <4>1, PrintedSays
      <4> QED
        BY <2>1, <4>2
    <3>3. d.path # p \o y
      BY <1>11, <1>16
    <3>4. rows[l].path = rows[j].path
      BY <2>8, <3>1, <3>2, <3>3
    <3> QED
      BY <1>2, <1>3, <2>8, <3>4, ScanOrder
  <2> QED
    BY <1>6, <2>1, <2>7, <2>9
<1>17. ASSUME NEW y \in N
       PROVE  /\ y \in DOMAIN new
              /\ new[y] = IF p \o y \in DOMAIN C THEN Obj
                          ELSE IF p \o y \in DOMAIN D THEN D[p \o y].val
                          ELSE C[p \o Front(y)].inline[Last(y)]
  BY <1>9, <1>14, <1>15, <1>16
<1>18. DOMAIN new = N
  BY <1>6, <1>9, <1>13, <1>17
<1>19. new = Extract(p)
  BY <1>6, <1>10, <1>17, <1>18
<1> QED
  BY <1>1, <1>4, <1>19

\* Reading gives, in every state the calls leave, what the rows of the table say:
\* extract_json walks them in the order of their bytes and keeps the open
\* containers on a stack, and each row finds its own parent there, whatever
\* keys begin with others or are claimed by two rows.
THEOREM ScanReadsDocument == Spec => []ScanSpellsExtract
<1>1. IInv /\ FInv => ScanSpellsExtract
  BY ScanIsExtract, EngineAssumption DEF ScanSpellsExtract
<1>2. Spec => []IInv
  BY IInvInit, IInvNext, PTL DEF Spec
<1> QED
  BY <1>1, <1>2, TablesStayFinite, PTL

-----------------------------------------------------------------------------
(***************************************************************************)
(* Lists of rows                                                           *)
(***************************************************************************)
\* Rows in the order of rows.
Listed(list) ==
    /\ Len(list) \in Nat
    /\ DOMAIN list = 1..Len(list)
    /\ \A i \in 1..Len(list) : IsRow(list[i])
    /\ \A i, j \in 1..Len(list) : RowBefore(list[i], list[j]) <=> i < j

\* The states of the loop that filters.
Filtering(f, rows, S) ==
    f = [i \in 0..Len(rows) |-> IF i = 0 THEN <<>>
                                ELSE IF rows[i] \in S THEN Append(f[i - 1], rows[i]) ELSE f[i - 1]]

\* There is one, and its last state is what is left.
LEMMA ThoseIs ==
    ASSUME NEW rows, Len(rows) \in Nat, NEW S
    PROVE  \E f : Filtering(f, rows, S) /\ Those(rows, S) = f[Len(rows)]
<1>1. PICK n \in Nat : n = Len(rows)
  OBVIOUS
<1>2. PICK U, R : R = {rows[i] : i \in 1..n} /\ U = Seq(R)
  OBVIOUS
<1> DEFINE Step(i, s) == IF rows[i] \in S THEN Append(s, rows[i]) ELSE s
           Good(f) == f = [i \in 0..n |-> IF i = 0 THEN <<>>
                                          ELSE IF rows[i] \in S THEN Append(f[i - 1], rows[i]) ELSE f[i - 1]]
<1>3. ASSUME NEW i \in 1..n, NEW s \in U PROVE Step(i, s) \in U
  <2>1. s \in Seq(R) /\ rows[i] \in R
    BY <1>2
  <2>2. Append(s, rows[i]) \in Seq(R)
    BY <2>1, AppendProperties
  <2> QED
    BY <1>2, <2>2
<1>4. PICK g \in [1..n -> [U -> U]] : \A i \in 1..n, s \in U : g[i][s] = Step(i, s)
  <2>1. PICK g : g = [i \in 1..n |-> [s \in U |-> Step(i, s)]]
    OBVIOUS
  <2> HIDE DEF Step
  <2> QED
    BY <1>3, <2>1
<1>5. PICK a \in Seq(R) : a = <<>>
  <2>1. <<>> \in Seq(R)
    BY EmptySeq
  <2> QED
    BY <2>1
<1>6. PICK f : IsRun(f, n, U, a, g)
  <2>1. a \in U
    BY <1>2, <1>5
  <2> QED
    BY <1>4, <2>1, RecursionExists
<1>7. Good(f)
  <2>1. f \in [0..n -> U] /\ f[0] = a /\ \A i \in 1..n : f[i] = g[i][f[i - 1]]
    BY <1>6 DEF IsRun
  <2>2. ASSUME NEW i \in 1..n PROVE f[i] = Step(i, f[i - 1])
    <3>1. f[i - 1] \in U
      BY <2>1
    <3> HIDE DEF Step
    <3> QED
      BY <1>4, <2>1, <3>1
  <2>3. \A i \in 0..n : i = 0 \/ i \in 1..n
    OBVIOUS
  <2> QED
    BY <1>5, <2>1, <2>2, <2>3
<1>8. Those(rows, S) = (CHOOSE h : Good(h))[n]
  BY <1>1 DEF Those
<1> HIDE DEF Good
<1>9. PICK h : h = CHOOSE h1 : Good(h1)
  OBVIOUS
<1>10. Good(h)
  BY <1>7, <1>9
<1>11. Filtering(h, rows, S)
  BY <1>1, <1>10 DEF Good, Filtering
<1> QED
  BY <1>1, <1>8, <1>9, <1>11

\* Of no rows none is left.
LEMMA ThoseNone ==
    ASSUME NEW rows, Len(rows) \in Nat
    PROVE  Those(rows, {}) = <<>>
<1>1. PICK f : Filtering(f, rows, {}) /\ Those(rows, {}) = f[Len(rows)]
  BY ThoseIs
<1>2. PICK n \in Nat : n = Len(rows)
  OBVIOUS
<1>3. f[0] = <<>> /\ \A i \in 1..n : f[i] = f[i - 1]
  BY <1>1, <1>2 DEF Filtering
<1> DEFINE Bad == {i \in 0..n : f[i] # <<>>}
<1>4. Bad = {}
  <2> SUFFICES ASSUME Bad # {} PROVE FALSE
    OBVIOUS
  <2>1. PICK m \in Bad : \A l \in Bad : m <= l
    <3>1. Bad \subseteq Nat
      OBVIOUS
    <3> HIDE DEF Bad
    <3> QED
      BY <3>1, LeastNat
  <2>2. m \in 1..n /\ m - 1 \in 0..n /\ ~(m <= m - 1)
    BY <1>3, <2>1
  <2> QED
    BY <1>3, <2>1, <2>2
<1> QED
  BY <1>1, <1>2, <1>4

\* Rows in order stay in order.
LEMMA ThoseListed ==
    ASSUME NEW rows, Listed(rows), NEW S
    PROVE  /\ Listed(Those(rows, S))
           /\ \A r : r \in Range(Those(rows, S)) <=> r \in Range(rows) /\ r \in S
           /\ Those(rows, S) \in Seq({rows[i] : i \in 1..Len(rows)})
<1>1. PICK n \in Nat : n = Len(rows)
  BY DEF Listed
<1>2. PICK f : Filtering(f, rows, S) /\ Those(rows, S) = f[n]
  BY <1>1, ThoseIs
<1>3. f[0] = <<>> /\ \A i \in 1..n : f[i] = IF rows[i] \in S THEN Append(f[i - 1], rows[i]) ELSE f[i - 1]
  <2>1. 0 \in 0..n /\ \A i \in 1..n : i \in 0..n /\ i # 0
    OBVIOUS
  <2> QED
    BY <1>1, <1>2, <2>1 DEF Filtering
<1>4. PICK R : R = {rows[i] : i \in 1..n}
  OBVIOUS
<1> DEFINE Fine(i, s) == /\ s \in Seq(R)
                         /\ \A r : r \in Range(s) <=> r \in S /\ \E j \in 1..i : r = rows[j]
                         /\ \A a, b \in 1..Len(s) : RowBefore(s[a], s[b]) <=> a < b
           Bad == {i \in 0..n : ~Fine(i, f[i])}
<1>5. Fine(0, f[0])
  <2>1. PICK s : s = f[0] /\ s = <<>>
    BY <1>3
  <2>2. s \in Seq(R) /\ Len(s) = 0 /\ Range(s) = {} /\ 1..0 = {}
    BY <2>1 DEF Range
  <2> QED
    BY <2>1, <2>2
<1>6. ASSUME NEW i \in 1..n, Fine(i - 1, f[i - 1]) PROVE Fine(i, f[i])
  <2>1. PICK s, t : s = f[i - 1] /\ t = f[i]
    OBVIOUS
  <2>2. /\ s \in Seq(R)
        /\ \A r : r \in Range(s) <=> r \in S /\ \E j \in 1..i - 1 : r = rows[j]
        /\ \A a, b \in 1..Len(s) : RowBefore(s[a], s[b]) <=> a < b
    BY <1>6, <2>1
  <2>3. \A j : j \in 1..i <=> j \in 1..i - 1 \/ j = i
    OBVIOUS
  <2>4. CASE rows[i] \notin S
    <3>1. t = s
      BY <1>3, <2>1, <2>4
    <3>2. \A r : r \in Range(t) <=> r \in S /\ \E j \in 1..i : r = rows[j]
      BY <2>2, <2>3, <2>4, <3>1
    <3>3. Fine(i, t)
      BY <2>2, <3>1, <3>2
    <3> QED
      BY <2>1, <3>3
  <2>5. CASE rows[i] \in S
    <3>1. PICK e \in R : e = rows[i] /\ t = Append(s, e)
      BY <1>3, <1>4, <2>1, <2>5
    <3>2. PICK m \in Nat : m = Len(s) /\ DOMAIN s = 1..m
      BY <2>2
    <3>3. /\ t \in Seq(R) /\ Len(t) = m + 1 /\ DOMAIN t = 1..m + 1
          /\ \A a \in 1..m : t[a] = s[a]
          /\ t[m + 1] = e
      BY <2>2, <3>1, <3>2, AppendProperties
    <3>4. \A a : a \in 1..m + 1 <=> a \in 1..m \/ a = m + 1
      BY <3>2
    <3>5. \A r : r \in Range(t) <=> r \in Range(s) \/ r = e
      BY <3>2, <3>3, <3>4 DEF Range
    <3>6. \A r : r \in Range(t) <=> r \in S /\ \E j \in 1..i : r = rows[j]
      BY <2>2, <2>3, <2>5, <3>1, <3>5
    <3>7. ASSUME NEW a \in 1..m PROVE RowBefore(t[a], e) /\ ~RowBefore(e, t[a])
      <4>1. s[a] \in Range(s)
        BY <3>2 DEF Range
      <4>2. PICK j \in 1..i - 1 : s[a] = rows[j]
        BY <2>2, <4>1
      <4>3. j \in 1..n /\ i \in 1..n /\ j < i /\ ~(i < j)
        OBVIOUS
      <4>4. RowBefore(rows[j], rows[i]) /\ ~RowBefore(rows[i], rows[j])
        BY <1>1, <4>3 DEF Listed
      <4> QED
        BY <3>1, <3>3, <4>2, <4>4
    <3>8. ~RowBefore(e, e)
      <4>1. ~RowBefore(rows[i], rows[i])
        BY <1>1 DEF Listed
      <4> QED
        BY <3>1, <4>1
    <3>9. ASSUME NEW a \in 1..m + 1, NEW b \in 1..m + 1 PROVE RowBefore(t[a], t[b]) <=> a < b
      <4>1. CASE a \in 1..m /\ b \in 1..m
        BY <2>2, <3>2, <3>3, <4>1
      <4>2. CASE a \in 1..m /\ b = m + 1
        BY <3>3, <3>7, <4>2
      <4>3. CASE a = m + 1 /\ b \in 1..m
        BY <3>3, <3>7, <4>3
      <4>4. CASE a = m + 1 /\ b = m + 1
        BY <3>3, <3>8, <4>4
      <4> QED
        BY <3>4, <4>1, <4>2, <4>3, <4>4
    <3>10. Fine(i, t)
      BY <3>3, <3>6, <3>9
    <3> QED
      BY <2>1, <3>10
  <2> HIDE DEF Fine
  <2> QED
    BY <2>4, <2>5
<1> HIDE DEF Fine
<1>7. Fine(n, f[n])
  <2> SUFFICES ASSUME Bad # {} PROVE FALSE
    <3>1. n \in 0..n
      OBVIOUS
    <3> QED
      BY <3>1
  <2>1. PICK m \in Bad : \A l \in Bad : m <= l
    <3>1. Bad \subseteq Nat
      OBVIOUS
    <3> HIDE DEF Bad
    <3> QED
      BY <3>1, LeastNat
  <2>2. m \in 0..n /\ ~Fine(m, f[m])
    BY <2>1
  <2>3. m \in 1..n /\ m - 1 \in 0..n /\ ~(m <= m - 1)
    BY <1>5, <2>2
  <2>4. Fine(m - 1, f[m - 1])
    BY <2>1, <2>3
  <2> QED
    BY <1>6, <2>2, <2>3, <2>4
<1>8. PICK s : s = f[n] /\ Fine(n, s)
  BY <1>7
<1>9. /\ s \in Seq(R)
      /\ \A r : r \in Range(s) <=> r \in S /\ \E j \in 1..n : r = rows[j]
      /\ \A a, b \in 1..Len(s) : RowBefore(s[a], s[b]) <=> a < b
  BY <1>8 DEF Fine
<1>10. \A r : r \in Range(rows) <=> \E j \in 1..n : r = rows[j]
  BY <1>1 DEF Listed, Range
<1>11. Len(s) \in Nat /\ DOMAIN s = 1..Len(s)
  BY <1>9
<1>12. ASSUME NEW a \in 1..Len(s) PROVE IsRow(s[a])
  <2>1. s[a] \in R
    BY <1>9, ElementOfSeq
  <2> QED
    BY <1>1, <1>4, <2>1 DEF Listed
<1>13. Listed(s)
  BY <1>9, <1>11, <1>12 DEF Listed
<1> QED
  BY <1>1, <1>2, <1>4, <1>8, <1>9, <1>10, <1>13

\* Two lists in order of the same rows are one.
LEMMA ListedOnce ==
    ASSUME NEW s, Listed(s), NEW t, Listed(t), Range(s) = Range(t)
    PROVE  Len(s) = Len(t) /\ \A i \in 1..Len(s) : s[i] = t[i]
<1>1. PICK m \in Nat, n \in Nat : m = Len(s) /\ n = Len(t)
  BY DEF Listed
<1>2. /\ \A i \in 1..m : \E j \in 1..n : s[i] = t[j]
      /\ \A j \in 1..n : \E i \in 1..m : s[i] = t[j]
  BY <1>1 DEF Listed, Range
<1>3. /\ \A i, j \in 1..m : RowBefore(s[i], s[j]) <=> i < j
      /\ \A i, j \in 1..n : RowBefore(t[i], t[j]) <=> i < j
  BY <1>1 DEF Listed
<1>4. /\ \A i, j \in 1..m : s[i] = s[j] => i = j
      /\ \A i, j \in 1..n : t[i] = t[j] => i = j
  <2>1. \A i, j \in 1..m : s[i] = s[j] => ~(i < j) /\ ~(j < i)
    BY <1>3
  <2>2. \A i, j \in 1..n : t[i] = t[j] => ~(i < j) /\ ~(j < i)
    BY <1>3
  <2> QED
    BY <2>1, <2>2
<1> DEFINE Bad == {i \in 1..m : i \notin 1..n \/ s[i] # t[i]}
<1>5. Bad = {}
  <2> SUFFICES ASSUME Bad # {} PROVE FALSE
    OBVIOUS
  <2>1. PICK i \in Bad : \A l \in Bad : i <= l
    <3>1. Bad \subseteq Nat
      OBVIOUS
    <3> HIDE DEF Bad
    <3> QED
      BY <3>1, LeastNat
  <2>2. i \in 1..m /\ (i \notin 1..n \/ s[i] # t[i])
    BY <2>1
  <2>3. \A k \in 1..i-1 : k \in 1..m /\ k \in 1..n /\ s[k] = t[k]
    <3>1. \A k \in 1..i-1 : k \in 1..m /\ ~(i <= k)
      BY <2>2
    <3> QED
      BY <2>1, <3>1
  <2>4. PICK j \in 1..n : s[i] = t[j]
    BY <1>2, <2>2
  <2>5. ~(j < i)
    <3>1. j < i => j \in 1..i-1
      BY <2>2
    <3>2. j < i => s[j] = s[i]
      BY <2>3, <2>4, <3>1
    <3> QED
      BY <1>4, <2>2, <2>3, <3>1, <3>2
  <2>6. i \in 1..n /\ i # j /\ i < j
    BY <2>2, <2>4, <2>5
  <2>7. RowBefore(t[i], t[j])
    BY <1>3, <2>6
  <2>8. PICK k \in 1..m : s[k] = t[i]
    BY <1>2, <2>6
  <2>9. RowBefore(s[k], s[i])
    BY <2>4, <2>7, <2>8
  <2>10. k < i
    BY <1>3, <2>2, <2>9
  <2>11. t[k] = t[i] /\ k \in 1..n
    BY <2>3, <2>8, <2>10
  <2> QED
    BY <1>4, <2>6, <2>10, <2>11
<1>6. \A i \in 1..m : i \in 1..n /\ s[i] = t[i]
  BY <1>5
<1>7. m = n
  <2>1. m <= n
    <3>1. m = 0 \/ m \in 1..m
      OBVIOUS
    <3>2. m \in 1..m => m \in 1..n
      BY <1>6
    <3> QED
      BY <3>1, <3>2
  <2>2. SUFFICES ASSUME m < n PROVE FALSE
    BY <2>1
  <2>3. m + 1 \in 1..n
    BY <2>2
  <2>4. PICK k \in 1..m : s[k] = t[m + 1]
    BY <1>2, <2>3
  <2>5. k \in 1..n /\ t[k] = t[m + 1] /\ k # m + 1
    BY <1>6, <2>4
  <2> QED
    BY <1>4, <2>3, <2>5
<1> QED
  BY <1>1, <1>6, <1>7

\* A list in order of all the rows of S.
LEMMA SetListed ==
    ASSUME NEW S, IsFiniteSet(S), \A r \in S : IsRow(r), Keyed(S)
    PROVE  /\ Listed(RowsInOrder(S)) /\ Range(RowsInOrder(S)) = S
           /\ RowsInOrder(S) = [i \in 1..Len(RowsInOrder(S)) |-> RowsInOrder(S)[i]]
<1>1. PICK m \in Nat : m = Cardinality(S)
  BY RowsListed
<1>2. PICK list \in [1..m -> S] :
          /\ list = RowsInOrder(S) /\ Len(list) = m
          /\ \A r \in S : \E i \in 1..m : list[i] = r
          /\ \A i, j \in 1..m : RowBefore(list[i], list[j]) <=> i < j
  BY <1>1, RowsListed
<1>3. DOMAIN list = 1..m /\ \A i \in 1..m : IsRow(list[i])
  BY <1>2
<1>4. Listed(list)
  BY <1>2, <1>3 DEF Listed
<1>5. Range(list) = S
  <2>1. \A r : r \in Range(list) <=> \E i \in 1..m : list[i] = r
    BY <1>2 DEF Range
  <2> QED
    BY <1>2, <2>1
<1>6. list = [i \in 1..m |-> list[i]]
  BY <1>2
<1> QED
  BY <1>2, <1>4, <1>5, <1>6

-----------------------------------------------------------------------------
(***************************************************************************)
(* Rows at another path                                                    *)
(***************************************************************************)
\* The row s is the row r, moved from p to q.
Moved(r, s, p, q) ==
    /\ \E x \in Path : r.path = p \o x /\ s.path = q \o x
    /\ s.slash = r.slash
    /\ s.text = r.text

\* Where paths below p part.
LEMMA PartBelow ==
    ASSUME NEW p \in Path, NEW x \in Path, NEW y \in Path, NEW n, PartAt(p \o x, p \o y, n)
    PROVE  n - Len(p) \in 1..Len(x) /\ n \in Nat /\ PartAt(x, y, n - Len(p))
<1>1. PICK a \in Path, b \in Path : a = p \o x /\ b = p \o y
  BY ConcatChar
<1>2. PICK k \in Nat, l \in Nat, m \in Nat : k = Len(p) /\ l = Len(x) /\ m = Len(y)
  BY DEF Path
<1>3. Len(a) = k + l /\ Len(b) = k + m
  BY <1>1, <1>2, ConcatChar
<1>4. DOMAIN a = 1..k + l /\ DOMAIN b = 1..k + m /\ DOMAIN x = 1..l /\ DOMAIN y = 1..m
  BY <1>2, <1>3 DEF Path
<1>5. n \in 1..k + l /\ n \in 1..k + m /\ a[n] # b[n] /\ \A i \in 1..n-1 : a[i] = b[i]
  BY <1>1, <1>4 DEF PartAt
<1>6. /\ \A i \in 1..k : a[i] = p[i] /\ b[i] = p[i]
      /\ \A i \in 1..l : a[k + i] = x[i]
      /\ \A i \in 1..m : b[k + i] = y[i]
  BY <1>1, <1>2, ConcatAt
<1>7. n \notin 1..k
  BY <1>5, <1>6
<1>8. PICK j \in Nat : n = k + j /\ j \in 1..l /\ j \in 1..m
  <2>1. n - k \in Nat /\ n = k + (n - k) /\ n - k \in 1..l /\ n - k \in 1..m
    BY <1>5, <1>7
  <2> QED
    BY <2>1
<1>9. x[j] # y[j]
  BY <1>5, <1>6, <1>8
<1>10. ASSUME NEW i \in 1..j-1 PROVE x[i] = y[i]
  <2>1. i \in 1..l /\ i \in 1..m /\ k + i \in 1..n-1
    BY <1>8
  <2> QED
    BY <1>5, <1>6, <2>1
<1>11. PartAt(x, y, j)
  BY <1>4, <1>8, <1>9, <1>10 DEF PartAt
<1> QED
  BY <1>2, <1>8, <1>11

LEMMA PartAbove ==
    ASSUME NEW p \in Path, NEW x \in Path, NEW y \in Path, NEW n, PartAt(x, y, n)
    PROVE  PartAt(p \o x, p \o y, Len(p) + n)
<1>1. PICK a \in Path, b \in Path : a = p \o x /\ b = p \o y
  BY ConcatChar
<1>2. PICK k \in Nat, l \in Nat, m \in Nat : k = Len(p) /\ l = Len(x) /\ m = Len(y)
  BY DEF Path
<1>3. Len(a) = k + l /\ Len(b) = k + m
  BY <1>1, <1>2, ConcatChar
<1>4. DOMAIN a = 1..k + l /\ DOMAIN b = 1..k + m /\ DOMAIN x = 1..l /\ DOMAIN y = 1..m
  BY <1>2, <1>3 DEF Path
<1>5. n \in 1..l /\ n \in 1..m /\ x[n] # y[n] /\ \A i \in 1..n-1 : x[i] = y[i]
  BY <1>4 DEF PartAt
<1>6. /\ \A i \in 1..k : a[i] = p[i] /\ b[i] = p[i]
      /\ \A i \in 1..l : a[k + i] = x[i]
      /\ \A i \in 1..m : b[k + i] = y[i]
  BY <1>1, <1>2, ConcatAt
<1>7. k + n \in 1..k + l /\ k + n \in 1..k + m /\ a[k + n] # b[k + n]
  BY <1>5, <1>6
<1>8. ASSUME NEW i \in 1..(k + n)-1 PROVE a[i] = b[i]
  <2>1. CASE i \in 1..k
    BY <1>6, <2>1
  <2>2. CASE i \notin 1..k
    <3>1. PICK j \in Nat : i = k + j /\ j \in 1..n-1 /\ j \in 1..l /\ j \in 1..m
      <4>1. i - k \in Nat /\ i = k + (i - k) /\ i - k \in 1..n-1 /\ i - k \in 1..l /\ i - k \in 1..m
        BY <1>5, <2>2
      <4> QED
        BY <4>1
    <3> QED
      BY <1>5, <1>6, <3>1
  <2> QED
    BY <2>1, <2>2
<1> QED
  BY <1>1, <1>2, <1>4, <1>7, <1>8 DEF PartAt

\* What is before stays before.
LEMMA MovedBefore ==
    ASSUME NEW p \in Path, NEW q \in Path, NEW r, NEW s, NEW t, NEW u,
           Moved(r, t, p, q), Moved(s, u, p, q), RowBefore(r, s)
    PROVE  RowBefore(t, u)
<1>1. PICK x \in Path, y \in Path :
          /\ r.path = p \o x /\ t.path = q \o x /\ t.slash = r.slash
          /\ s.path = p \o y /\ u.path = q \o y /\ u.slash = s.slash
  BY DEF Moved
<1>0. /\ p \o x = p \o y => q \o x = q \o y
      /\ IsPrefix(p \o x, p \o y) => IsPrefix(q \o x, q \o y)
      /\ q \o x = q \o y => p \o x = p \o y
  <2>1. (IsPrefix(p \o x, p \o y) <=> IsPrefix(x, y)) /\ (p \o x = p \o y <=> x = y)
    BY ConcatPrefix
  <2>2. (IsPrefix(q \o x, q \o y) <=> IsPrefix(x, y)) /\ (q \o x = q \o y <=> x = y)
    BY ConcatPrefix
  <2> QED
    BY <2>1, <2>2
<1>2. CASE Above(r, s)
  <2>1. IsPrefix(p \o x, p \o y) /\ p \o x # p \o y
    BY <1>1, <1>2 DEF Above, IsStrictPrefix
  <2>2. IsPrefix(q \o x, q \o y) /\ q \o x # q \o y
    BY <1>0, <2>1
  <2>3. Above(t, u)
    BY <1>1, <2>2 DEF Above, IsStrictPrefix
  <2> QED
    BY <2>3, RowBeforeIs
<1>3. CASE Beside(r, s)
  <2>1. p \o x = p \o y /\ ~r.slash /\ s.slash
    BY <1>1, <1>3 DEF Beside
  <2>2. q \o x = q \o y
    BY <1>0, <2>1
  <2>3. Beside(t, u)
    BY <1>1, <2>1, <2>2 DEF Beside
  <2> QED
    BY <2>3, RowBeforeIs
<1>4. ASSUME NEW n, PartBefore(r, s, n) PROVE RowBefore(t, u)
  <2>1. PICK a \in Path, b \in Path, c \in Path, d \in Path :
            a = p \o x /\ b = p \o y /\ c = q \o x /\ d = q \o y
    BY ConcatChar
  <2>2. PartAt(a, b, n) /\ SegmentBefore(a[n], SlashAt(r, n), b[n], SlashAt(s, n))
    BY <1>1, <1>4, <2>1 DEF PartBefore
  <2>3. PICK k \in Nat, h \in Nat, l \in Nat, m \in Nat :
            k = Len(p) /\ h = Len(q) /\ l = Len(x) /\ m = Len(y)
    BY DEF Path
  <2>4. n \in Nat /\ n - k \in 1..l /\ PartAt(x, y, n - k)
    BY <2>1, <2>2, <2>3, PartBelow
  <2>5. PICK j \in 1..l : j = n - k /\ n = k + j
    BY <2>4
  <2>6. j \in 1..m
    BY <2>3, <2>4, <2>5 DEF PartAt, Path
  <2>7. PICK i \in Nat : i = h + j /\ PartAt(c, d, i)
    <3>1. PartAt(x, y, j)
      BY <2>4, <2>5
    <3>2. PartAt(q \o x, q \o y, Len(q) + j)
      BY <3>1, PartAbove
    <3>3. PartAt(c, d, h + j) /\ h + j \in Nat
      BY <2>1, <2>3, <3>2
    <3> QED
      BY <3>3
  <2>8. a[n] = x[j] /\ b[n] = y[j] /\ c[i] = x[j] /\ d[i] = y[j]
    <3>1. (p \o x)[k + j] = x[j] /\ (q \o x)[h + j] = x[j]
      BY <2>3, <2>5, ConcatAt
    <3>2. (p \o y)[k + j] = y[j] /\ (q \o y)[h + j] = y[j]
      BY <2>3, <2>6, ConcatAt
    <3> QED
      BY <2>1, <2>5, <2>7, <3>1, <3>2
  <2>9. Len(a) = k + l /\ Len(b) = k + m /\ Len(c) = h + l /\ Len(d) = h + m
    BY <2>1, <2>3, ConcatChar
  <2>10. (SlashAt(r, n) <=> SlashAt(t, i)) /\ (SlashAt(s, n) <=> SlashAt(u, i))
    <3>1. (n < k + l <=> i < h + l) /\ (n < k + m <=> i < h + m)
      BY <2>5, <2>7
    <3> QED
      BY <1>1, <2>1, <2>9, <3>1 DEF SlashAt
  <2>11. SegmentBefore(c[i], SlashAt(t, i), d[i], SlashAt(u, i))
    BY <2>2, <2>8, <2>10 DEF SegmentBefore
  <2>12. PartBefore(t, u, i) /\ i \in DOMAIN t.path
    BY <1>1, <2>1, <2>7, <2>11 DEF PartBefore, PartAt
  <2> QED
    BY <2>12, RowBeforeIs
<1> QED
  BY <1>2, <1>3, <1>4, RowBeforeIs

\* So moved rows are in the order they were in.
LEMMA MovedOrder ==
    ASSUME NEW p \in Path, NEW q \in Path, NEW r, NEW s, NEW t, NEW u,
           Moved(r, t, p, q), Moved(s, u, p, q)
    PROVE  RowBefore(r, s) <=> RowBefore(t, u)
<1>1. Moved(t, r, q, p) /\ Moved(u, s, q, p)
  BY DEF Moved
<1> QED
  BY <1>1, MovedBefore

\* The row r of p, at q.
At(r, p, q) == [path |-> q \o Rel(p, r.path), slash |-> r.slash, text |-> r.text]

\* It is moved.
LEMMA AtMoves ==
    ASSUME NEW p \in Path, NEW q \in Path, NEW r, IsRow(r), IsPrefix(p, r.path)
    PROVE  Moved(r, At(r, p, q), p, q) /\ IsRow(At(r, p, q))
<1>1. PICK z \in Path : z = r.path
  BY DEF IsRow
<1>2. PICK x \in Path : x = Rel(p, z) /\ z = p \o x
  BY <1>1, RelChar
<1>3. PICK s : s = At(r, p, q) /\ s = [path |-> q \o x, slash |-> r.slash, text |-> r.text]
  BY <1>1, <1>2 DEF At
<1>4. s.path = q \o x
  BY <1>3
<1>5. \E y \in Path : r.path = p \o y /\ s.path = q \o y
  <2>1. r.path = p \o x
    BY <1>1, <1>2
  <2> QED
    BY <1>4, <2>1
<1>6. s.slash = r.slash
  BY <1>3
<1>7. s.text = r.text
  BY <1>3
<1>8. Moved(r, s, p, q)
  BY <1>5, <1>6, <1>7 DEF Moved
<1>9. IsRow(s)
  BY <1>4, <1>6, ConcatChar DEF IsRow
<1> QED
  BY <1>3, <1>8, <1>9

-----------------------------------------------------------------------------
(***************************************************************************)
(* Rows of a CSV                                                           *)
(***************************************************************************)
\* Rows of which the first is a container that leads to all, in any order.
Importable(rows) ==
    /\ Len(rows) \in Nat \ {0}
    /\ DOMAIN rows = 1..Len(rows)
    /\ \A r \in Range(rows) : /\ IsRow(r) /\ Spells(r)
                              /\ r = [path |-> r.path, slash |-> r.slash, text |-> r.text]
                              /\ IsPrefix(rows[1].path, r.path)
                              /\ r.path = rows[1].path => r = rows[1]
    /\ Keyed(Range(rows))
    /\ rows[1].slash = TRUE

\* The rows without the first, at q.
Others(rows, q) == {At(r, rows[1].path, q) : r \in Range(rows) \ {rows[1]}}

\* The rows in order, before they are moved.
LEMMA ImportSorted ==
    ASSUME NEW rows, Importable(rows)
    PROVE  /\ IsFiniteSet(Range(rows)) /\ rows[1] \in Range(rows)
           /\ Listed(RowsInOrder(Range(rows)))
           /\ Range(RowsInOrder(Range(rows))) = Range(rows)
<1>1. PICK n \in Nat \ {0} : n = Len(rows) /\ DOMAIN rows = 1..n
  BY DEF Importable
<1>2. PICK S : S = Range(rows) /\ S = {rows[i] : i \in 1..n}
  BY <1>1 DEF Range
<1>3. PICK f : f = [i \in 1..n |-> rows[i]]
  OBVIOUS
<1>4. IsFiniteSet({f[i] : i \in 1..n})
  <2>1. IsFiniteSet(1..n) /\ f = [i \in 1..n |-> f[i]]
    BY <1>3, FS_Interval
  <2> QED
    BY <2>1, FiniteImage
<1>5. IsFiniteSet(S)
  <2>1. S = {f[i] : i \in 1..n}
    BY <1>2, <1>3
  <2> QED
    BY <1>4, <2>1
<1>6. rows[1] \in S
  BY <1>1, <1>2
<1>7. Keyed(S) /\ \A r \in S : IsRow(r)
  BY <1>2 DEF Importable
<1>8. Listed(RowsInOrder(S)) /\ Range(RowsInOrder(S)) = S
  BY <1>5, <1>7, SetListed
<1> QED
  BY <1>2, <1>5, <1>6, <1>8

\* Where a row goes: at q and below what it was below.
LEMMA NewRowIs ==
    ASSUME NEW rows, Importable(rows), NEW q \in Path, NEW r \in Range(rows)
    PROVE  /\ r = rows[1] => [r EXCEPT !.path = NewPath(r, rows[1], q)].path = q
           /\ r # rows[1] => /\ [r EXCEPT !.path = NewPath(r, rows[1], q)] = At(r, rows[1].path, q)
                             /\ At(r, rows[1].path, q).path # q
<1>1. PICK p \in Path, z \in Path : p = rows[1].path /\ z = r.path
  <2>1. rows[1] \in Range(rows)
    BY ImportSorted
  <2> QED
    BY <2>1 DEF Importable, IsRow
<1>2. /\ r = [path |-> r.path, slash |-> r.slash, text |-> r.text]
      /\ IsPrefix(p, z) /\ (z = p => r = rows[1]) /\ rows[1].slash = TRUE
  BY <1>1 DEF Importable
<1>3. PICK x \in Path : x = Rel(p, z) /\ z = p \o x
  BY <1>1, <1>2, RelChar
<1>4. r # rows[1] => x # Root
  <2>1. p \o Root = p
    BY RootIsPath, ConcatChar
  <2> QED
    BY <1>2, <1>3, <2>1
<1>5. PICK a : a = NewPath(r, rows[1], q)
  OBVIOUS
<1>6. [r EXCEPT !.path = a] = [path |-> a, slash |-> r.slash, text |-> r.text]
  BY <1>2
<1>7. r = rows[1] => a = q
  BY <1>5 DEF NewPath
<1>8. r # rows[1] => a = q \o x
  BY <1>1, <1>2, <1>3, <1>5 DEF NewPath
<1>9. PICK s : s = At(r, p, q) /\ s = [path |-> q \o x, slash |-> r.slash, text |-> r.text]
  BY <1>1, <1>3 DEF At
<1>10. x # Root => q \o x # q
  BY ConcatChar
<1>11. s.path = q \o x
  BY <1>9
<1>12. [r EXCEPT !.path = a].path = a
  BY <1>6
<1> QED
  BY <1>1, <1>3, <1>4, <1>5, <1>6, <1>7, <1>8, <1>9, <1>10, <1>11, <1>12

\* A row keeps its place below the first.
LEMMA RowMoves ==
    ASSUME NEW rows, Importable(rows), NEW q \in Path, NEW r \in Range(rows)
    PROVE  Moved(r, At(r, rows[1].path, q), rows[1].path, q)
<1>1. rows[1] \in Range(rows)
  BY ImportSorted
<1>2. PICK p \in Path : p = rows[1].path
  BY <1>1 DEF Importable, IsRow
<1>3. IsRow(r) /\ IsPrefix(p, r.path)
  BY <1>2 DEF Importable
<1>4. Moved(r, At(r, p, q), p, q)
  BY <1>3, AtMoves
<1> QED
  BY <1>2, <1>4

\* A row that arrives takes the place of no other.
LEMMA PlacesApart ==
    ASSUME NEW rows, Importable(rows), NEW q \in Path,
           NEW r \in Range(rows), NEW s \in Range(rows), r # s
    PROVE  <<At(r, rows[1].path, q).path, At(r, rows[1].path, q).slash>>
               # <<At(s, rows[1].path, q).path, At(s, rows[1].path, q).slash>>
<1>1. PICK p : p = rows[1].path
  OBVIOUS
<1>2. PICK x \in Path : r.path = p \o x /\ At(r, p, q).path = q \o x
  <2>1. PICK x \in Path : r.path = rows[1].path \o x /\ At(r, rows[1].path, q).path = q \o x
    BY RowMoves DEF Moved
  <2> QED
    BY <1>1, <2>1
<1>3. PICK y \in Path : s.path = p \o y /\ At(s, p, q).path = q \o y
  <2>1. PICK y \in Path : s.path = rows[1].path \o y /\ At(s, rows[1].path, q).path = q \o y
    BY RowMoves DEF Moved
  <2> QED
    BY <1>1, <2>1
<1>4. q \o x = q \o y => x = y
  BY ConcatPrefix
<1>5. At(r, p, q).slash = r.slash /\ At(s, p, q).slash = s.slash
  BY DEF At
<1>6. ~(r.path = s.path /\ r.slash = s.slash)
  BY DEF Importable, Keyed
<1> QED
  BY <1>1, <1>2, <1>3, <1>4, <1>5, <1>6

\* The states of the loop that inserts.
Inserting(f, sorted, base, q) ==
    f = [i \in 0..Len(sorted) |->
            IF i = 0 THEN {EmptyRow(q)}
            ELSE Arrived(f[i - 1], [sorted[i] EXCEPT !.path = NewPath(sorted[i], base, q)], q)]

LEMMA InsertingIs ==
    ASSUME NEW rows, NEW q, NEW sorted, sorted = RowsInOrder(Range(rows)), Len(sorted) \in Nat
    PROVE  \E f : Inserting(f, sorted, rows[1], q) /\ Imported(rows, q) = f[Len(sorted)]
<1>1. PICK n \in Nat : n = Len(sorted)
  OBVIOUS
<1> DEFINE Placed(i) == [sorted[i] EXCEPT !.path = NewPath(sorted[i], rows[1], q)]
           Step(i, S) == Arrived(S, Placed(i), q)
           Good(f) == f = [i \in 0..n |-> IF i = 0 THEN {EmptyRow(q)} ELSE Step(i, f[i - 1])]
<1>2. PICK U : U = SUBSET ({EmptyRow(q)} \cup {Placed(i) : i \in 1..n})
  OBVIOUS
<1>3. ASSUME NEW i \in 1..n, NEW S \in U PROVE Step(i, S) \in U
  <2>1. Placed(i) \in {Placed(j) : j \in 1..n}
    OBVIOUS
  <2> HIDE DEF Placed
  <2> QED
    BY <1>2, <2>1 DEF Arrived
<1>4. PICK g \in [1..n -> [U -> U]] : \A i \in 1..n, S \in U : g[i][S] = Step(i, S)
  <2>1. PICK g : g = [i \in 1..n |-> [S \in U |-> Step(i, S)]]
    OBVIOUS
  <2> HIDE DEF Step
  <2> QED
    BY <1>3, <2>1
<1>5. PICK a : a = {EmptyRow(q)}
  OBVIOUS
<1>6. PICK f : IsRun(f, n, U, a, g)
  <2>1. a \in U
    BY <1>2, <1>5
  <2> QED
    BY <1>4, <2>1, RecursionExists
<1>7. Good(f)
  <2>1. f \in [0..n -> U] /\ f[0] = a /\ \A i \in 1..n : f[i] = g[i][f[i - 1]]
    BY <1>6 DEF IsRun
  <2>2. ASSUME NEW i \in 1..n PROVE f[i] = Step(i, f[i - 1])
    <3>1. f[i - 1] \in U
      BY <2>1
    <3> HIDE DEF Step
    <3> QED
      BY <1>4, <2>1, <3>1
  <2>3. \A i \in 0..n : i = 0 \/ i \in 1..n
    OBVIOUS
  <2> HIDE DEF Step
  <2> QED
    BY <1>5, <2>1, <2>2, <2>3
<1>8. Imported(rows, q) = (CHOOSE h : Good(h))[n]
  BY <1>1 DEF Imported
<1> HIDE DEF Good
<1>9. PICK h : h = CHOOSE h1 : Good(h1)
  OBVIOUS
<1>10. Good(h)
  BY <1>7, <1>9
<1>11. Inserting(h, sorted, rows[1], q)
  BY <1>1, <1>10 DEF Good, Inserting
<1> QED
  BY <1>1, <1>8, <1>9, <1>11

\* What an import inserts.
LEMMA ImportedIs ==
    ASSUME NEW rows, Importable(rows), NEW q \in Path
    PROVE  Imported(rows, q) = {EmptyRow(q)} \cup Others(rows, q)
<1>1. PICK n \in Nat, sorted \in {RowsInOrder(Range(rows))} : sorted = RowsInOrder(Range(rows)) /\ n = Len(sorted)
  BY ImportSorted DEF Listed
<1>2. Listed(sorted) /\ Range(sorted) = Range(rows)
  BY <1>1, ImportSorted
<1>3. PICK f : Inserting(f, sorted, rows[1], q) /\ Imported(rows, q) = f[n]
  BY <1>1, InsertingIs
<1>4. /\ f[0] = {EmptyRow(q)}
      /\ \A i \in 1..n : f[i] = Arrived(f[i - 1], [sorted[i] EXCEPT !.path = NewPath(sorted[i], rows[1], q)], q)
  <2>1. 0 \in 0..n /\ \A i \in 1..n : i \in 0..n /\ i # 0
    OBVIOUS
  <2> QED
    BY <1>1, <1>3, <2>1 DEF Inserting
<1>5. PICK p : p = rows[1].path
  OBVIOUS
<1>6. \A r : r \in Range(rows) <=> \E i \in 1..n : sorted[i] = r
  BY <1>1, <1>2 DEF Listed, Range
<1> DEFINE Arrivals(i) == {At(sorted[j], p, q) : j \in {j \in 1..i : sorted[j] # rows[1]}}
           Fine(i, S) == S = {EmptyRow(q)} \cup Arrivals(i)
           Bad == {i \in 0..n : ~Fine(i, f[i])}
<1>7. Fine(0, f[0])
  BY <1>4
<1>8. ASSUME NEW i \in 1..n, Fine(i - 1, f[i - 1]) PROVE Fine(i, f[i])
  <2>1. PICK r \in Range(rows), new \in {[sorted[i] EXCEPT !.path = NewPath(sorted[i], rows[1], q)]} :
            /\ r = sorted[i] /\ new = [r EXCEPT !.path = NewPath(r, rows[1], q)]
            /\ f[i] = Arrived(f[i - 1], new, q)
    BY <1>4, <1>6
  <2>2. \A j : j \in 1..i <=> j \in 1..i - 1 \/ j = i
    OBVIOUS
  <2>3. CASE r = rows[1]
    <3>1. new.path = q
      BY <2>1, <2>3, NewRowIs
    <3>2. f[i] = f[i - 1]
      BY <2>1, <3>1 DEF Arrived
    <3>3. {j \in 1..i : sorted[j] # rows[1]} = {j \in 1..i - 1 : sorted[j] # rows[1]}
      BY <2>1, <2>2, <2>3
    <3> QED
      BY <1>8, <3>2, <3>3
  <2>4. CASE r # rows[1]
    <3>1. new = At(r, p, q) /\ new.path # q
      <4>1. [r EXCEPT !.path = NewPath(r, rows[1], q)] = At(r, rows[1].path, q) /\ At(r, rows[1].path, q).path # q
        BY <2>4, NewRowIs
      <4> QED
        BY <1>5, <2>1, <4>1
    <3>2. f[i] = {s \in f[i - 1] : <<s.path, s.slash>> # <<new.path, new.slash>>} \cup {new}
      BY <2>1, <3>1 DEF Arrived
    <3>3. ASSUME NEW s \in f[i - 1] PROVE <<s.path, s.slash>> # <<new.path, new.slash>>
      <4>1. CASE s = EmptyRow(q)
        BY <3>1, <4>1 DEF EmptyRow
      <4>2. CASE s \in Arrivals(i - 1)
        <5>1. PICK j \in 1..i - 1 : s = At(sorted[j], p, q)
          BY <4>2
        <5>2. sorted[j] \in Range(rows) /\ j \in 1..n /\ j < i
          BY <1>6
        <5>3. RowBefore(sorted[j], sorted[i]) /\ ~RowBefore(sorted[i], sorted[i])
          BY <1>1, <1>2, <5>2 DEF Listed
        <5>4. sorted[j] # r
          BY <2>1, <5>3
        <5>5. PICK t \in Range(rows) : t = sorted[j] /\ t # r
          BY <5>2, <5>4
        <5> QED
          BY <1>5, <3>1, <5>1, <5>5, PlacesApart
      <4> QED
        BY <1>8, <4>1, <4>2
    <3>4. f[i] = f[i - 1] \cup {new}
      BY <3>2, <3>3
    <3>5. Arrivals(i) = Arrivals(i - 1) \cup {new}
      <4>1. {j \in 1..i : sorted[j] # rows[1]} = {j \in 1..i - 1 : sorted[j] # rows[1]} \cup {i}
        BY <2>1, <2>2, <2>4
      <4>2. new = At(sorted[i], p, q)
        BY <2>1, <3>1
      <4> QED
        BY <4>1, <4>2
    <3> QED
      BY <1>8, <3>4, <3>5
  <2> QED
    BY <2>3, <2>4
<1> HIDE DEF Fine
<1>9. Fine(n, f[n])
  <2> SUFFICES ASSUME Bad # {} PROVE FALSE
    <3>1. n \in 0..n
      OBVIOUS
    <3> QED
      BY <3>1
  <2>1. PICK m \in Bad : \A l \in Bad : m <= l
    <3>1. Bad \subseteq Nat
      OBVIOUS
    <3> HIDE DEF Bad
    <3> QED
      BY <3>1, LeastNat
  <2>2. m \in 0..n /\ ~Fine(m, f[m])
    BY <2>1
  <2>3. m \in 1..n /\ m - 1 \in 0..n /\ ~(m <= m - 1)
    BY <1>7, <2>2
  <2>4. Fine(m - 1, f[m - 1])
    BY <2>1, <2>3
  <2> QED
    BY <1>8, <2>2, <2>3, <2>4
<1>10. f[n] = {EmptyRow(q)} \cup Arrivals(n)
  BY <1>9 DEF Fine
<1>11. Arrivals(n) = Others(rows, q)
  BY <1>5, <1>6 DEF Others
<1> QED
  BY <1>3, <1>10, <1>11

-----------------------------------------------------------------------------
(***************************************************************************)
(* The stack at another path                                               *)
(***************************************************************************)
StackEntry == [path : Path, at : Path]

\* The stack t is the stack s, moved from p to q.
Shadow(s, t, p, q) ==
    /\ s \in Seq(StackEntry) /\ t \in Seq(StackEntry)
    /\ Len(t) = Len(s)
    /\ \A a \in 1..Len(s) : /\ t[a].at = s[a].at
                            /\ \E x \in Path : s[a].path = p \o x /\ t[a].path = q \o x

\* The loop over moved rows has the same tree.
Twin(s, t, p, q) == t.tree = s.tree /\ Shadow(s.stack, t.stack, p, q)

\* The greatest of some places.
LEMMA MaxChar ==
    ASSUME NEW n \in Nat, NEW S, S \subseteq 0..n, S # {}
    PROVE  Max(S) \in S /\ \A x \in S : Max(S) >= x
<1>1. PICK T : T = {n - x : x \in S}
  OBVIOUS
<1>2. T \subseteq Nat /\ T # {}
  <2>1. \A x \in S : x \in 0..n
    OBVIOUS
  <2>2. \A x \in 0..n : n - x \in Nat
    OBVIOUS
  <2> QED
    BY <1>1, <2>1, <2>2
<1>3. PICK l \in T : \A m \in T : l <= m
  BY <1>2, LeastNat
<1>4. PICK x \in S : l = n - x
  BY <1>1, <1>3
<1>5. \A y \in S : n - x <= n - y
  BY <1>1, <1>3, <1>4
<1>6. \A y \in S : y \in Int /\ x \in Int
  OBVIOUS
<1>7. \A y \in S : x >= y
  BY <1>5, <1>6
<1>8. PICK a : a = Max(S)
  OBVIOUS
<1>9. a \in S /\ \A y \in S : a >= y
  BY <1>7, <1>8 DEF Max
<1> QED
  BY <1>8, <1>9

\* What is popped for a row and where it is put are the same.
LEMMA ShadowPops ==
    ASSUME NEW p \in Path, NEW q \in Path, NEW s, NEW t, Shadow(s, t, p, q),
           NEW r, NEW u, Moved(r, u, p, q), r.path # p
    PROVE  /\ Parent(t, u) = Parent(s, r) /\ Parent(s, r) \in Path
           /\ Shadow(Popped(s, r), Popped(t, u), p, q)
           /\ Last(u.path) = Last(r.path) /\ Last(r.path) \in Keys
<1>1. PICK n \in Nat : n = Len(s) /\ n = Len(t)
  BY DEF Shadow
<1>2. PICK x \in Path : r.path = p \o x /\ u.path = q \o x
  BY DEF Moved
<1>3. x # Root
  <2>1. p \o Root = p
    BY RootIsPath, ConcatChar
  <2> QED
    BY <1>2, <2>1
<1>4. Last(u.path) = Last(r.path) /\ Last(r.path) \in Keys
  <2>1. Last(p \o x) = Last(x) /\ Last(q \o x) = Last(x)
    BY <1>3, FrontOfConcat
  <2>2. Last(x) \in Keys
    BY <1>3, SplitLast
  <2> QED
    BY <1>2, <2>1, <2>2
<1>5. ASSUME NEW a \in 1..n PROVE IsPrefix(s[a].path, r.path) <=> IsPrefix(t[a].path, u.path)
  <2>1. PICK y \in Path : s[a].path = p \o y /\ t[a].path = q \o y
    BY <1>1 DEF Shadow
  <2>2. IsPrefix(p \o y, p \o x) <=> IsPrefix(y, x)
    BY ConcatPrefix
  <2>3. IsPrefix(q \o y, q \o x) <=> IsPrefix(y, x)
    BY ConcatPrefix
  <2> QED
    BY <1>2, <2>1, <2>2, <2>3
<1>6. PICK lead : /\ lead = {a \in 1..n : IsPrefix(s[a].path, r.path)}
                  /\ lead = {a \in 1..n : IsPrefix(t[a].path, u.path)}
  BY <1>5
<1>7. lead \subseteq 0..n /\ lead \subseteq 1..n
  BY <1>6
<1>8. lead # {} => Max(lead) \in 1..n
  BY <1>7, MaxChar
<1>9. \A a \in 1..n : s[a] \in StackEntry /\ t[a] \in StackEntry /\ t[a].at = s[a].at /\ s[a].at \in Path
  <2>1. \A a \in 1..n : s[a] \in StackEntry /\ t[a] \in StackEntry
    BY <1>1, ElementOfSeq DEF Shadow
  <2>2. \A a \in 1..n : t[a].at = s[a].at
    BY <1>1 DEF Shadow
  <2> QED
    BY <2>1, <2>2 DEF StackEntry
<1>10. Parent(s, r) = IF lead = {} THEN Root ELSE s[Max(lead)].at
  BY <1>1, <1>6 DEF Parent
<1>11. Parent(t, u) = IF lead = {} THEN Root ELSE t[Max(lead)].at
  BY <1>1, <1>6 DEF Parent
<1>12. Parent(t, u) = Parent(s, r) /\ Parent(s, r) \in Path
  BY <1>8, <1>9, <1>10, <1>11, RootIsPath
<1>13. PICK m : m = Max({0} \cup lead)
  OBVIOUS
<1>14. m \in 0..n
  <2>1. {0} \cup lead \subseteq 0..n /\ {0} \cup lead # {}
    BY <1>7
  <2>2. Max({0} \cup lead) \in {0} \cup lead
    BY <2>1, MaxChar
  <2> QED
    BY <1>13, <2>1, <2>2
<1>15. PICK v \in {SubSeq(s, 1, m)}, w \in {SubSeq(t, 1, m)} : v = Popped(s, r) /\ w = Popped(t, u)
  BY <1>1, <1>6, <1>13 DEF Popped
<1>16. /\ v \in Seq(StackEntry) /\ Len(v) = m /\ \A a \in 1..m : v[a] = s[a]
       /\ w \in Seq(StackEntry) /\ Len(w) = m /\ \A a \in 1..m : w[a] = t[a]
  <2>1. \A a \in 1..m : a \in 1..n
    BY <1>14
  <2>2. \A a \in 1..m : s[a] \in StackEntry /\ t[a] \in StackEntry
    BY <1>9, <2>1
  <2>3. 1 \in Int /\ m \in Int /\ m - 1 + 1 = m /\ (1 <= m \/ m = 0)
    BY <1>14
  <2>4. v = SubSeq(s, 1, m) /\ w = SubSeq(t, 1, m)
    OBVIOUS
  <2>5. CASE 1 <= m
    BY <2>2, <2>3, <2>4, <2>5, SubSeqProperties
  <2>6. CASE m = 0
    <3>1. v = <<>> /\ w = <<>>
      BY <2>4, <2>6, SubSeqProperties
    <3>2. 1..m = {} /\ Len(<<>>) = 0 /\ <<>> \in Seq(StackEntry)
      BY <2>6, EmptySeq
    <3> QED
      BY <2>6, <3>1, <3>2
  <2> QED
    BY <2>3, <2>5, <2>6
<1>17. Shadow(v, w, p, q)
  <2>1. ASSUME NEW a \in 1..m
        PROVE  w[a].at = v[a].at /\ \E y \in Path : v[a].path = p \o y /\ w[a].path = q \o y
    <3>1. a \in 1..Len(s) /\ v[a] = s[a] /\ w[a] = t[a]
      BY <1>1, <1>14, <1>16
    <3> QED
      BY <3>1 DEF Shadow
  <2> QED
    BY <1>16, <2>1 DEF Shadow
<1> QED
  BY <1>4, <1>12, <1>15, <1>17

\* A step of the loop.
LEMMA TwinGoesOn ==
    ASSUME NEW p \in Path, NEW q \in Path, NEW s, NEW t, Twin(s, t, p, q),
           NEW r, NEW u, Moved(r, u, p, q), r.path # p
    PROVE  Twin(Pushed(s, r), Pushed(t, u), p, q)
<1>1. PICK S, T : S = s.stack /\ T = t.stack
  OBVIOUS
<1>2. Shadow(S, T, p, q) /\ t.tree = s.tree
  BY <1>1 DEF Twin
<1>3. /\ Parent(T, u) = Parent(S, r) /\ Parent(S, r) \in Path
      /\ Shadow(Popped(S, r), Popped(T, u), p, q)
      /\ Last(u.path) = Last(r.path) /\ Last(r.path) \in Keys
  BY <1>2, ShadowPops
<1>4. PICK x \in Path : r.path = p \o x /\ u.path = q \o x /\ u.slash = r.slash /\ u.text = r.text
  BY DEF Moved
<1>5. PICK at \in Path, k \in Keys : /\ at = Parent(S, r) /\ at = Parent(T, u)
                                     /\ k = Last(r.path) /\ k = Last(u.path)
  BY <1>3
<1>6. PICK v, w : v = Popped(S, r) /\ w = Popped(T, u)
  OBVIOUS
<1>7. PICK e, f : e = [path |-> p \o x, at |-> Append(at, k)] /\ f = [path |-> q \o x, at |-> Append(at, k)]
  OBVIOUS
<1>8. Pushed(s, r) = [tree |-> Put(s.tree, at, k, r.text), stack |-> IF r.slash THEN Append(v, e) ELSE v]
  BY <1>1, <1>4, <1>5, <1>6, <1>7 DEF Pushed
<1>9. Pushed(t, u) = [tree |-> Put(s.tree, at, k, r.text), stack |-> IF r.slash THEN Append(w, f) ELSE w]
  BY <1>1, <1>2, <1>4, <1>5, <1>6, <1>7 DEF Pushed
<1>10. Shadow(v, w, p, q)
  BY <1>3, <1>6
<1>11. Shadow(Append(v, e), Append(w, f), p, q)
  <2>1. e \in StackEntry /\ f \in StackEntry
    BY <1>7, ConcatChar, FrontOfAppend DEF StackEntry
  <2>2. PICK m \in Nat : m = Len(v) /\ m = Len(w)
    BY <1>10 DEF Shadow
  <2>3. PICK V, W : V = Append(v, e) /\ W = Append(w, f)
    OBVIOUS
  <2>4. /\ V \in Seq(StackEntry) /\ Len(V) = m + 1
        /\ \A a \in 1..m : V[a] = v[a]
        /\ V[m + 1] = e
    BY <1>10, <2>1, <2>2, <2>3, AppendProperties DEF Shadow
  <2>5. /\ W \in Seq(StackEntry) /\ Len(W) = m + 1
        /\ \A a \in 1..m : W[a] = w[a]
        /\ W[m + 1] = f
    BY <1>10, <2>1, <2>2, <2>3, AppendProperties DEF Shadow
  <2>6. e.at = f.at /\ e.path = p \o x /\ f.path = q \o x
    BY <1>7
  <2>7. ASSUME NEW a \in 1..m + 1
        PROVE  W[a].at = V[a].at /\ \E y \in Path : V[a].path = p \o y /\ W[a].path = q \o y
    <3>1. CASE a \in 1..m
      <4>1. w[a].at = v[a].at /\ \E y \in Path : v[a].path = p \o y /\ w[a].path = q \o y
        BY <1>10, <2>2, <3>1 DEF Shadow
      <4> QED
        BY <2>4, <2>5, <3>1, <4>1
    <3>2. CASE a = m + 1
      BY <2>4, <2>5, <2>6, <3>2
    <3>3. a \in 1..m \/ a = m + 1
      BY <2>2
    <3> QED
      BY <3>1, <3>2, <3>3
  <2>8. Shadow(V, W, p, q)
    BY <2>4, <2>5, <2>7 DEF Shadow
  <2> QED
    BY <2>3, <2>8
<1>12. PICK S2, T2 : S2 = Pushed(s, r) /\ T2 = Pushed(t, u)
  OBVIOUS
<1>13. T2.tree = S2.tree
  BY <1>8, <1>9, <1>12
<1>14. Shadow(S2.stack, T2.stack, p, q)
  <2>1. CASE r.slash
    <3>1. S2.stack = Append(v, e) /\ T2.stack = Append(w, f)
      BY <1>8, <1>9, <1>12, <2>1
    <3> QED
      BY <1>11, <3>1
  <2>2. CASE ~r.slash
    <3>1. S2.stack = v /\ T2.stack = w
      BY <1>8, <1>9, <1>12, <2>2
    <3> QED
      BY <1>10, <3>1
  <2> QED
    BY <2>1, <2>2
<1>15. Twin(S2, T2, p, q)
  BY <1>13, <1>14 DEF Twin
<1> QED
  BY <1>12, <1>15

\* The rows u are the rows of the list, moved.
MovedList(list, u, p, q) ==
    /\ Len(list) \in Nat \ {0} /\ Len(u) = Len(list)
    /\ list[1].path = p
    /\ \A i \in 1..Len(list) : Moved(list[i], u[i], p, q) /\ (i # 1 => list[i].path # p)

\* What the stack makes of rows does not depend on where they stand.
LEMMA StackMoves ==
    ASSUME NEW p \in Path, NEW q \in Path, NEW list, NEW u, MovedList(list, u, p, q)
    PROVE  Stacked(u) = Stacked(list)
<1>1. PICK n \in Nat \ {0} : n = Len(list) /\ n = Len(u)
  BY DEF MovedList
<1>2. PICK f : Stacking(f, list) /\ Stacked(list) = f[n].tree
  BY <1>1, StackedIs
<1>3. PICK g : Stacking(g, u) /\ Stacked(u) = g[n].tree
  BY <1>1, StackedIs
<1>4. 1 \in 1..n /\ \A i \in 1..n : i # 1 => i - 1 \in 1..n
  BY <1>1
<1>5. f[1] = [tree |-> list[1].text, stack |-> <<[path |-> list[1].path, at |-> Root]>>]
  BY <1>1, <1>2, <1>4 DEF Stacking
<1>6. g[1] = [tree |-> u[1].text, stack |-> <<[path |-> u[1].path, at |-> Root]>>]
  BY <1>1, <1>3, <1>4 DEF Stacking
<1>7. \A i \in 1..n : i # 1 => f[i] = Pushed(f[i - 1], list[i]) /\ g[i] = Pushed(g[i - 1], u[i])
  BY <1>1, <1>2, <1>3 DEF Stacking
<1>8. Twin(f[1], g[1], p, q)
  <2>1. PICK o \in Path : o = Root
    BY RootIsPath
  <2>2. PICK x \in Path : list[1].path = p \o x /\ u[1].path = q \o x /\ u[1].text = list[1].text
    BY <1>1, <1>4 DEF MovedList, Moved
  <2>3. PICK e, h : e = [path |-> list[1].path, at |-> o] /\ h = [path |-> u[1].path, at |-> o]
    OBVIOUS
  <2>4. e \in StackEntry /\ h \in StackEntry
    BY <2>2, <2>3, ConcatChar DEF StackEntry
  <2>5. PICK S, T : S = <<e>> /\ T = <<h>>
    OBVIOUS
  <2>6. /\ S \in Seq(StackEntry) /\ Len(S) = 1 /\ S[1] = e
        /\ T \in Seq(StackEntry) /\ Len(T) = 1 /\ T[1] = h
    BY <2>4, <2>5
  <2>7. e.at = o /\ h.at = o /\ e.path = p \o x /\ h.path = q \o x
    BY <2>2, <2>3
  <2>8. ASSUME NEW a \in 1..1
        PROVE  T[a].at = S[a].at /\ \E y \in Path : S[a].path = p \o y /\ T[a].path = q \o y
    <3>1. S[a] = e /\ T[a] = h
      BY <2>6
    <3> QED
      BY <2>7, <3>1
  <2>9. Shadow(S, T, p, q)
    BY <2>6, <2>8 DEF Shadow
  <2>10. f[1].tree = list[1].text /\ f[1].stack = S /\ g[1].tree = u[1].text /\ g[1].stack = T
    BY <1>5, <1>6, <2>1, <2>3, <2>5
  <2> QED
    BY <2>2, <2>9, <2>10 DEF Twin
<1>9. ASSUME NEW i \in 1..n, i # 1, Twin(f[i - 1], g[i - 1], p, q) PROVE Twin(f[i], g[i], p, q)
  <2>1. Moved(list[i], u[i], p, q) /\ list[i].path # p
    BY <1>1, <1>9 DEF MovedList
  <2>2. Twin(Pushed(f[i - 1], list[i]), Pushed(g[i - 1], u[i]), p, q)
    BY <1>9, <2>1, TwinGoesOn
  <2> QED
    BY <1>7, <1>9, <2>2
<1> DEFINE Bad == {i \in 1..n : ~Twin(f[i], g[i], p, q)}
<1>10. Twin(f[n], g[n], p, q)
  <2> SUFFICES ASSUME Bad # {} PROVE FALSE
    BY <1>1
  <2>1. PICK m \in Bad : \A l \in Bad : m <= l
    <3>1. Bad \subseteq Nat
      OBVIOUS
    <3> HIDE DEF Bad
    <3> QED
      BY <3>1, LeastNat
  <2>2. m \in 1..n /\ ~Twin(f[m], g[m], p, q)
    BY <2>1
  <2>3. m # 1 /\ m - 1 \in 1..n /\ ~(m <= m - 1)
    BY <1>8, <2>2
  <2>4. Twin(f[m - 1], g[m - 1], p, q)
    BY <2>1, <2>3
  <2> QED
    BY <1>9, <2>2, <2>3, <2>4
<1> QED
  BY <1>2, <1>3, <1>10 DEF Twin

-----------------------------------------------------------------------------
(***************************************************************************)
(* What is read after an import                                            *)
(***************************************************************************)
\* The rows, the first without what it has inlined.
Emptied(rows) == {EmptyRow(rows[1].path)} \cup (Range(rows) \ {rows[1]})

\* Moved rows make the list moved.
LEMMA MovedListed ==
    ASSUME NEW p \in Path, NEW q \in Path, NEW list, Listed(list),
           \A i \in 1..Len(list) : IsPrefix(p, list[i].path)
    PROVE  RowsInOrder({At(list[i], p, q) : i \in 1..Len(list)}) = [i \in 1..Len(list) |-> At(list[i], p, q)]
<1>1. PICK n \in Nat : n = Len(list)
  BY DEF Listed
<1>2. PICK u : u = [i \in 1..n |-> At(list[i], p, q)]
  OBVIOUS
<1>3. PICK S : S = {At(list[i], p, q) : i \in 1..n} /\ S = {u[i] : i \in 1..n}
  BY <1>2
<1>4. \A i \in 1..n : IsRow(list[i])
  BY <1>1 DEF Listed
<1>5. \A i \in 1..n : Moved(list[i], u[i], p, q) /\ IsRow(u[i])
  BY <1>1, <1>2, <1>4, AtMoves
<1>6. \A i, j \in 1..n : RowBefore(u[i], u[j]) <=> i < j
  <2>1. \A i, j \in 1..n : RowBefore(list[i], list[j]) <=> RowBefore(u[i], u[j])
    BY <1>5, MovedOrder
  <2> QED
    BY <1>1, <2>1 DEF Listed
<1>7. Len(u) = n /\ DOMAIN u = 1..n
  BY <1>2
<1>8. Listed(u)
  BY <1>5, <1>6, <1>7 DEF Listed
<1>9. Range(u) = S
  BY <1>3, <1>7 DEF Range
<1>10. IsFiniteSet(S)
  <2>1. IsFiniteSet(1..n) /\ u = [i \in 1..n |-> u[i]]
    BY <1>2, FS_Interval
  <2>2. IsFiniteSet({u[i] : i \in 1..n})
    BY <2>1, FiniteImage
  <2> QED
    BY <1>3, <2>2
<1>11. Keyed(S)
  <2>1. ASSUME NEW i \in 1..n, NEW j \in 1..n, u[i].path = u[j].path, u[i].slash = u[j].slash
        PROVE  u[i] = u[j]
    <3>1. ~RowBefore(u[i], u[j]) /\ ~RowBefore(u[j], u[i])
      BY <1>5, <2>1, RowsCompare
    <3>2. ~(i < j) /\ ~(j < i)
      BY <1>6, <3>1
    <3>3. i = j
      BY <3>2
    <3> QED
      BY <3>3
  <2>2. ASSUME NEW r \in S, NEW s \in S, r.path = s.path, r.slash = s.slash PROVE r = s
    <3>1. PICK i \in 1..n : r = u[i]
      BY <1>3
    <3>2. PICK j \in 1..n : s = u[j]
      BY <1>3
    <3> QED
      BY <2>1, <2>2, <3>1, <3>2
  <2> QED
    BY <2>2 DEF Keyed
<1>12. PICK v : v = RowsInOrder(S) /\ Listed(v) /\ Range(v) = S /\ v = [i \in 1..Len(v) |-> v[i]]
  <2>1. \A r \in S : IsRow(r)
    BY <1>3, <1>5
  <2> QED
    BY <1>10, <1>11, <2>1, SetListed
<1>13. Len(v) = Len(u) /\ \A i \in 1..Len(v) : v[i] = u[i]
  BY <1>8, <1>9, <1>12, ListedOnce
<1>14. v = u
  <2>1. u = [i \in 1..n |-> u[i]]
    BY <1>2
  <2> QED
    BY <1>7, <1>12, <1>13, <2>1
<1> QED
  BY <1>1, <1>2, <1>3, <1>12, <1>14

\* The list of rows whose first has been emptied.
LEMMA EmptiedListed ==
    ASSUME NEW rows, Importable(rows), NEW list, list = RowsInOrder(Emptied(rows))
    PROVE  /\ rows[1].path \in Path
           /\ Listed(list) /\ Len(list) \in Nat \ {0} /\ Range(list) = Emptied(rows)
           /\ list[1] = EmptyRow(rows[1].path)
           /\ \A i \in 1..Len(list) : /\ IsPrefix(rows[1].path, list[i].path)
                                      /\ i # 1 => /\ list[i] \in Range(rows) /\ list[i] # rows[1]
                                                  /\ list[i].path # rows[1].path
<1>1. PICK p \in Path : p = rows[1].path
  <2>1. rows[1] \in Range(rows)
    BY ImportSorted
  <2> QED
    BY <2>1 DEF Importable, IsRow
<1>2. PICK o : o = EmptyRow(p) /\ o.path = p /\ o.slash = TRUE
  <2>1. PICK t : t = [x \in {Root} |-> Obj]
    OBVIOUS
  <2>2. PICK o : o = [path |-> p, slash |-> TRUE, text |-> t]
    OBVIOUS
  <2>3. o.path = p /\ o.slash = TRUE
    BY <2>2
  <2>4. o = EmptyRow(p)
    BY <2>1, <2>2 DEF EmptyRow
  <2> QED
    BY <2>3, <2>4
<1>3. PICK E : E = Emptied(rows) /\ E = {o} \cup (Range(rows) \ {rows[1]})
  BY <1>1, <1>2 DEF Emptied
<1>4. ASSUME NEW r \in Range(rows), r # rows[1]
      PROVE  IsRow(r) /\ IsPrefix(p, r.path) /\ r.path # p
  BY <1>1, <1>4 DEF Importable
<1>5. IsRow(o) /\ IsPrefix(p, o.path)
  BY <1>2, PrefixOrder DEF IsRow
<1>6. IsFiniteSet(E)
  <2>1. IsFiniteSet(Range(rows) \ {rows[1]})
    BY ImportSorted, FS_Difference
  <2>2. IsFiniteSet({o})
    BY FS_Singleton
  <2> QED
    BY <1>3, <2>1, <2>2, FS_Union
<1>7. \A r \in E : IsRow(r) /\ IsPrefix(p, r.path)
  BY <1>3, <1>4, <1>5
<1>8. Keyed(E)
  <2>1. ASSUME NEW r \in E, NEW s \in E, r.path = s.path, r.slash = s.slash PROVE r = s
    <3>1. r = o \/ (r \in Range(rows) /\ r.path # p)
      BY <1>3, <1>4
    <3>2. s = o \/ (s \in Range(rows) /\ s.path # p)
      BY <1>3, <1>4
    <3>3. r \in Range(rows) /\ s \in Range(rows) => r = s
      BY <2>1 DEF Importable, Keyed
    <3> QED
      BY <1>2, <2>1, <3>1, <3>2, <3>3
  <2> QED
    BY <2>1 DEF Keyed
<1>9. Listed(list) /\ Range(list) = E
  BY <1>3, <1>6, <1>7, <1>8, SetListed
<1>10. PICK n \in Nat : n = Len(list) /\ DOMAIN list = 1..n
  BY <1>9 DEF Listed
<1>11. \A r : r \in E <=> \E i \in 1..n : list[i] = r
  BY <1>9, <1>10 DEF Range
<1>12. PICK t \in 1..n : list[t] = o
  BY <1>3, <1>11
<1>13. ASSUME NEW i \in 1..n, i # t
       PROVE  list[i] \in Range(rows) /\ list[i] # rows[1] /\ list[i].path # p /\ t < i
  <2>1. \A j, k \in 1..n : RowBefore(list[j], list[k]) <=> j < k
    BY <1>9, <1>10 DEF Listed
  <2>2. i < t \/ t < i
    BY <1>13
  <2>3. list[i] # o
    <3>1. RowBefore(list[i], list[t]) \/ RowBefore(list[t], list[i])
      BY <2>1, <2>2
    <3>2. ~RowBefore(o, o)
      BY <1>5, RowsCompare
    <3> QED
      BY <1>12, <3>1, <3>2
  <2>4. PICK r \in E : r = list[i] /\ r # o
    BY <1>11, <2>3
  <2>5. r \in Range(rows) /\ r # rows[1]
    BY <1>3, <2>4
  <2>6. IsPrefix(p, r.path) /\ r.path # p
    BY <1>4, <2>5
  <2>7. Above(o, r)
    BY <1>2, <2>6 DEF Above, IsStrictPrefix
  <2>8. RowBefore(o, r)
    BY <2>7, RowBeforeIs
  <2>9. t < i
    BY <1>12, <2>1, <2>4, <2>8
  <2> QED
    BY <2>4, <2>5, <2>6, <2>9
<1>14. t = 1
  <2>1. 1 \in 1..n /\ ~(t < 1)
    BY <1>12
  <2> QED
    BY <1>13, <2>1
<1>15. \A i \in 1..n : list[i] \in E
  BY <1>11
<1>16. \A i \in 1..n : IsPrefix(p, list[i].path)
  BY <1>7, <1>15
<1>17. \A i \in 1..n : i # 1 => list[i] \in Range(rows) /\ list[i] # rows[1] /\ list[i].path # p
  BY <1>13, <1>14
<1>18. n \in Nat \ {0} /\ list[1] = EmptyRow(p)
  BY <1>2, <1>12, <1>14
<1> QED
  BY <1>1, <1>3, <1>9, <1>10, <1>16, <1>17, <1>18

\* What is read at q is what the stack makes of the rows in order, where they
\* stood, but for what the first had inlined.
LEMMA ReadBackIs ==
    ASSUME NEW rows, Importable(rows), NEW q \in Path
    PROVE  ReadBack(rows, q) = Stacked(RowsInOrder(Emptied(rows)))
<1>1. PICK list : list = RowsInOrder(Emptied(rows))
  OBVIOUS
<1>2. /\ rows[1].path \in Path
      /\ Listed(list) /\ Len(list) \in Nat \ {0} /\ Range(list) = Emptied(rows)
      /\ list[1] = EmptyRow(rows[1].path)
      /\ \A i \in 1..Len(list) : /\ IsPrefix(rows[1].path, list[i].path)
                                 /\ i # 1 => list[i].path # rows[1].path
  BY <1>1, EmptiedListed
<1>3. PICK p \in Path, n \in Nat \ {0} : p = rows[1].path /\ n = Len(list) /\ DOMAIN list = 1..n
  BY <1>2 DEF Listed
<1>4. PICK u : u = [i \in 1..n |-> At(list[i], p, q)]
  OBVIOUS
<1>5. PICK S : S = {At(list[i], p, q) : i \in 1..n}
  OBVIOUS
<1>6. RowsInOrder(S) = u
  BY <1>2, <1>3, <1>4, <1>5, MovedListed
<1>7. At(EmptyRow(p), p, q) = EmptyRow(q)
  <2>1. p \o Root = p /\ q \o Root = q /\ Rel(p, p \o Root) = Root
    BY RootIsPath, ConcatChar
  <2>2. q \o Rel(p, p) = q
    BY <2>1
  <2> QED
    BY <2>2 DEF At, EmptyRow
<1>8. S = {EmptyRow(q)} \cup Others(rows, q)
  <2>1. \A r : r \in Emptied(rows) <=> \E i \in 1..n : list[i] = r
    BY <1>2, <1>3 DEF Range
  <2>2. S = {At(r, p, q) : r \in Emptied(rows)}
    BY <1>5, <2>1
  <2> QED
    BY <1>3, <1>7, <2>2 DEF Emptied, Others
<1>9. Imported(rows, q) = S
  BY <1>8, ImportedIs
<1>10. MovedList(list, u, p, q)
  <2>1. ASSUME NEW i \in 1..n
        PROVE  Moved(list[i], u[i], p, q) /\ (i # 1 => list[i].path # p)
    <3>1. IsRow(list[i]) /\ IsPrefix(p, list[i].path) /\ (i # 1 => list[i].path # p)
      BY <1>2, <1>3 DEF Listed
    <3>2. Moved(list[i], At(list[i], p, q), p, q)
      BY <3>1, AtMoves
    <3> QED
      BY <1>4, <3>1, <3>2
  <2>2. list[1].path = p
    BY <1>2, <1>3 DEF EmptyRow
  <2>3. Len(u) = n
    BY <1>4
  <2> QED
    BY <1>3, <2>1, <2>2, <2>3 DEF MovedList
<1>11. Stacked(u) = Stacked(list)
  BY <1>10, StackMoves
<1> QED
  BY <1>1, <1>6, <1>9, <1>11 DEF ReadBack

-----------------------------------------------------------------------------
(***************************************************************************)
(* The rows a filter keeps                                                 *)
(***************************************************************************)
\* What import_csv makes of a pattern, searchByPath matches with the same paths.
LEMMA PatternUnderstood ==
    ASSUME NEW x \in Path, NEW pattern, pattern \in Seq(Range(pattern)), NEW starred,
           starred = [l \in DOMAIN pattern |-> IF pattern[l] \in Vars THEN Star ELSE pattern[l]]
    PROVE  /\ Deep \in Range(pattern) => ~WildcardMatches(x, pattern)
           /\ Deep \notin Range(pattern) => (PathMatchesGlob(x, starred) <=> WildcardMatches(x, pattern))
<1>1. PICK m \in Nat : m = Len(pattern) /\ DOMAIN pattern = 1..m
  OBVIOUS
<1>2. PICK n \in Nat : n = Len(x) /\ \A l \in 1..n : x[l] \in Keys
  BY DEF Path
<1>3. Deep \notin Keys \cup Vars \cup {Star} /\ Star \notin Vars
  BY TransferAssumption, QueryAssumption
<1>4. WildcardMatches(x, pattern) <=>
          n = m /\ \A l \in 1..m : pattern[l] \in Vars \cup {Star} \/ x[l] = pattern[l]
  BY <1>1, <1>2 DEF WildcardMatches, IsWildcard
<1>5. ASSUME Deep \in Range(pattern) PROVE ~WildcardMatches(x, pattern)
  <2>1. PICK l \in 1..m : pattern[l] = Deep
    BY <1>1, <1>5 DEF Range
  <2> QED
    BY <1>2, <1>3, <1>4, <2>1
<1>6. ASSUME Deep \notin Range(pattern) PROVE PathMatchesGlob(x, starred) <=> WildcardMatches(x, pattern)
  <2>1. Len(starred) = m /\ \A l \in 1..m : starred[l] = IF pattern[l] \in Vars THEN Star ELSE pattern[l]
    BY <1>1
  <2>2. \A l \in 1..m : starred[l] # Deep
    BY <1>1, <1>3, <1>6, <2>1 DEF Range
  <2>3. PathMatchesGlob(x, starred) <=> n = m /\ \A l \in 1..m : starred[l] \in {Star, x[l]}
    BY <1>2, <2>1, <2>2, GlobIsSegmentwise
  <2>4. ASSUME n = m, NEW l \in 1..m
        PROVE  starred[l] \in {Star, x[l]} <=> pattern[l] \in Vars \cup {Star} \/ x[l] = pattern[l]
    BY <2>1
  <2> QED
    BY <1>4, <2>3, <2>4
<1> QED
  BY <1>5, <1>6

\* What he_projection_parse leaves of a list.
LEMMA CutList ==
    ASSUME NEW patterns, patterns \in Seq(Range(patterns))
    PROVE  \E m \in Nat :
              /\ SubSeq(patterns, 1, Min({Len(patterns), MaxProjKeys})) = [i \in 1..m |-> patterns[i]]
              /\ {i \in DOMAIN patterns : i <= MaxProjKeys} = 1..m
              /\ m = 0 <=> patterns = <<>> \/ MaxProjKeys = 0
<1>1. PICK n \in Nat : n = Len(patterns) /\ DOMAIN patterns = 1..n
  OBVIOUS
<1>2. PICK m : m = Min({n, MaxProjKeys})
  OBVIOUS
<1>3. MaxProjKeys \in Nat
  BY ProjectionAssumption
<1>4. m \in {n, MaxProjKeys} /\ \A y \in {n, MaxProjKeys} : m <= y
  <2>1. \E x \in {n, MaxProjKeys} : \A y \in {n, MaxProjKeys} : x <= y
    BY <1>3
  <2> QED
    BY <1>2, <2>1 DEF Min
<1>5. m \in 0..n /\ (\A i \in 1..n : i <= MaxProjKeys <=> i \in 1..m) /\ (m = 0 <=> n = 0 \/ MaxProjKeys = 0)
  BY <1>3, <1>4
<1>6. SubSeq(patterns, 1, m) = Restrict(patterns, 1..m)
  BY <1>1, <1>5, SubSeqRestrict
<1>7. SubSeq(patterns, 1, m) = [i \in 1..m |-> patterns[i]]
  BY <1>6 DEF Restrict
<1>8. {i \in DOMAIN patterns : i <= MaxProjKeys} = 1..m
  BY <1>1, <1>5
<1>9. patterns = <<>> <=> n = 0
  BY <1>1
<1> QED
  <2>1. m \in Nat /\ (m = 0 <=> patterns = <<>> \/ MaxProjKeys = 0)
    BY <1>1, <1>5, <1>9
  <2>2. SubSeq(patterns, 1, Min({Len(patterns), MaxProjKeys})) = [i \in 1..m |-> patterns[i]]
    BY <1>1, <1>2, <1>7
  <2> QED
    BY <1>8, <2>1, <2>2

\* A function from places to patterns.
LEMMA PlacesEmpty ==
    ASSUME NEW patterns, NEW m \in Nat, NEW cut, cut = [i \in 1..m |-> patterns[i]]
    PROVE  cut = <<>> <=> m = 0
<1>1. PICK e : e = <<>>
  OBVIOUS
<1>2. DOMAIN e = {} /\ e = [i \in DOMAIN e |-> e[i]]
  BY <1>1
<1>3. DOMAIN cut = 1..m
  OBVIOUS
<1>4. ASSUME m = 0 PROVE cut = e
  <2>1. 1..m = {}
    BY <1>4
  <2>2. cut = [i \in {} |-> patterns[i]] /\ e = [i \in {} |-> e[i]]
    BY <1>2, <2>1
  <2> QED
    BY <2>2
<1>5. ASSUME m # 0 PROVE 1 \in DOMAIN cut
  BY <1>3, <1>5
<1> QED
  BY <1>1, <1>2, <1>4, <1>5

\* What is left are the patterns that find room.
LEMMA CutPatterns ==
    ASSUME NEW patterns, patterns \in Seq(Range(patterns)), NEW cut,
           cut = SubSeq(patterns, 1, Min({Len(patterns), MaxProjKeys}))
    PROVE  Range(cut) = {patterns[i] : i \in {i \in DOMAIN patterns : i <= MaxProjKeys}}
<1>1. PICK m \in Nat :
          /\ SubSeq(patterns, 1, Min({Len(patterns), MaxProjKeys})) = [i \in 1..m |-> patterns[i]]
          /\ {i \in DOMAIN patterns : i <= MaxProjKeys} = 1..m
  BY CutList
<1>2. cut = [i \in 1..m |-> patterns[i]]
  BY <1>1
<1>3. Range(cut) = {patterns[i] : i \in 1..m}
  BY <1>2 DEF Range
<1> QED
  BY <1>1, <1>3

\* A row matches a list of import_csv where it matches, for searchByPath, what is
\* understood of the list.
LEMMA ListUnderstood ==
    ASSUME NEW patterns, patterns \in Seq(Range(patterns)),
           \A pattern \in Range(patterns) : pattern \in Seq(Range(pattern)),
           NEW cut, cut = SubSeq(patterns, 1, Min({Len(patterns), MaxProjKeys})),
           NEW r, r.path \in Path
    PROVE  MatchesAny(r, cut) <=> \E pattern \in Understood(patterns) : PathMatchesGlob(r.path, pattern)
<1> DEFINE Starred(pattern) == [l \in DOMAIN pattern |-> IF pattern[l] \in Vars THEN Star ELSE pattern[l]]
           C == {patterns[i] : i \in {i \in DOMAIN patterns : i <= MaxProjKeys}}
           K == {pattern \in C : pattern # Root /\ Deep \notin Range(pattern)}
<1>1. Range(cut) = C
  BY CutPatterns
<1>2. Understood(patterns) = {Starred(pattern) : pattern \in K}
  <2>1. K = {patterns[i] : i \in {i \in DOMAIN patterns :
                i <= MaxProjKeys /\ patterns[i] # Root /\ Deep \notin Range(patterns[i])}}
    OBVIOUS
  <2> HIDE DEF K
  <2> QED
    BY <2>1 DEF Understood
<1>3. ASSUME NEW pattern \in C
      PROVE  /\ Deep \in Range(pattern) => ~WildcardMatches(r.path, pattern)
             /\ Deep \notin Range(pattern) =>
                    (PathMatchesGlob(r.path, Starred(pattern)) <=> WildcardMatches(r.path, pattern))
  <2>1. pattern \in Seq(Range(pattern))
    <3>1. pattern \in Range(patterns)
      BY DEF Range
    <3> QED
      BY <3>1
  <2> HIDE DEF C
  <2> QED
    BY <2>1, PatternUnderstood
<1> HIDE DEF C, Starred
<1>4. MatchesAny(r, cut) <=> \E pattern \in C \ {Root} : WildcardMatches(r.path, pattern)
  BY <1>1 DEF MatchesAny
<1>5. (\E pattern \in C \ {Root} : WildcardMatches(r.path, pattern))
          <=> \E pattern \in K : PathMatchesGlob(r.path, Starred(pattern))
  BY <1>3
<1> HIDE DEF K
<1> QED
  BY <1>2, <1>4, <1>5

\* Whatever rows there are, and under any filter, import_csv takes the rows that
\* searchByPath shows under what import_csv understands of the patterns: the
\* two matchers, one written in TypeScript (pathMatchesGlob), one in C
\* (wildcard_matches), agree there on every path, and where they part is
\* what is dropped (the 33rd pattern, "/", any with "**").
THEOREM SearchAgreesWithImport == Spec => []SearchShowsWhatImportKeeps
<1>1. ASSUME IInv, FInv, NEW p \in DocPaths, NEW f \in Filters,
             NEW include, include = Understood(f.include),
             NEW exclude, exclude = Understood(f.exclude),
             NEW lost, lost <=> f.include # <<>> /\ MaxProjKeys > 0 /\ include = {}
      PROVE  Kept(ExportRows(p), f) = IF lost THEN <<>> ELSE SearchByPath(p, include, exclude)
  <2>1. PICK n \in Nat : /\ RowsInOrder(Exported(p)) \in [1..n -> Exported(p)]
                         /\ ExportRows(p) = [i \in 1..n |-> Printable(RowsInOrder(Exported(p))[i])]
    BY <1>1, ExportIsList
  <2>2. PICK rows : rows = ExportRows(p) /\ Len(rows) = n
    BY <2>1
  <2>3. ASSUME NEW r \in Range(rows) PROVE r.path \in Path
    <3>1. PICK i \in 1..n : r = Printable(RowsInOrder(Exported(p))[i])
      BY <2>1, <2>2, <2>3 DEF Range
    <3>2. PICK s \in Exported(p) : s = RowsInOrder(Exported(p))[i]
      BY <2>1
    <3>3. r.path = s.path
      BY <3>1, <3>2 DEF Printable
    <3> QED
      BY <1>1, <3>3, ExportedChar DEF IsRow
  <2>4. PICK c, d : /\ c = SubSeq(f.include, 1, Min({Len(f.include), MaxProjKeys}))
                    /\ d = SubSeq(f.exclude, 1, Min({Len(f.exclude), MaxProjKeys}))
    OBVIOUS
  <2>5. /\ f.include \in Seq(Range(f.include)) /\ f.exclude \in Seq(Range(f.exclude))
        /\ \A pattern \in Range(f.include) : pattern \in Seq(Range(pattern))
        /\ \A pattern \in Range(f.exclude) : pattern \in Seq(Range(pattern))
    BY TransferAssumption
  <2>6. ASSUME NEW r \in Range(rows)
        PROVE  MatchesAny(r, c) <=> \E pattern \in include : PathMatchesGlob(r.path, pattern)
    BY <1>1, <2>3, <2>4, <2>5, ListUnderstood
  <2>7. ASSUME NEW r \in Range(rows)
        PROVE  MatchesAny(r, d) <=> \E pattern \in exclude : PathMatchesGlob(r.path, pattern)
    BY <1>1, <2>3, <2>4, <2>5, ListUnderstood
  <2>8. PICK A : A = {r \in Range(rows) : (c = <<>> \/ MatchesAny(r, c)) /\ ~MatchesAny(r, d)}
    OBVIOUS
  <2>9. Kept(rows, f) = Those(rows, A)
    <3>1. PICK filter : filter = ParseProjection(f)
      OBVIOUS
    <3>2. filter.include = c /\ filter.exclude = d
      BY <2>4, <3>1 DEF ParseProjection
    <3>3. Kept(rows, f) = Those(rows, {r \in Range(rows) :
                                          /\ filter.include = <<>> \/ MatchesAny(r, filter.include)
                                          /\ ~MatchesAny(r, filter.exclude)})
      BY <3>1 DEF Kept
    <3>4. A = {r \in Range(rows) : /\ filter.include = <<>> \/ MatchesAny(r, filter.include)
                                  /\ ~MatchesAny(r, filter.exclude)}
      BY <2>8, <3>2
    <3> QED
      BY <3>3, <3>4
  <2>10. c = <<>> <=> f.include = <<>> \/ MaxProjKeys = 0
    <3>1. PICK patterns : patterns = f.include
      OBVIOUS
    <3>2. PICK m \in Nat :
              /\ SubSeq(patterns, 1, Min({Len(patterns), MaxProjKeys})) = [i \in 1..m |-> patterns[i]]
              /\ m = 0 <=> patterns = <<>> \/ MaxProjKeys = 0
      BY <2>5, <3>1, CutList
    <3>3. c = [i \in 1..m |-> patterns[i]]
      BY <2>4, <3>1, <3>2
    <3>4. c = <<>> <=> m = 0
      BY <3>3, PlacesEmpty
    <3> QED
      BY <3>1, <3>2, <3>4
  <2>11. MaxProjKeys > 0 <=> MaxProjKeys # 0
    BY ProjectionAssumption
  <2>12. CASE lost
    <3>1. c # <<>> /\ include = {}
      BY <1>1, <2>10, <2>11, <2>12
    <3>2. A = {}
      BY <2>6, <2>8, <3>1
    <3>3. Those(rows, {}) = <<>>
      BY <2>2, ThoseNone
    <3> QED
      BY <2>2, <2>9, <2>12, <3>2, <3>3
  <2>13. CASE ~lost
    <3>1. PICK B : B = {r \in Range(rows) :
              /\ ~\E pattern \in exclude : PathMatchesGlob(r.path, pattern)
              /\ include = {} \/ \E pattern \in include : PathMatchesGlob(r.path, pattern)}
      OBVIOUS
    <3>2. SearchByPath(p, include, exclude) = Those(rows, B)
      BY <2>2, <3>1 DEF SearchByPath
    <3>3. c = <<>> => include = {}
      <4>1. c = <<>> => f.include = <<>> \/ MaxProjKeys = 0
        BY <2>10
      <4>2. \A i \in DOMAIN f.include : f.include # <<>> /\ (i <= MaxProjKeys => MaxProjKeys # 0)
        BY <2>5
      <4> QED
        BY <1>1, <4>1, <4>2 DEF Understood
    <3>4. include = {} => c = <<>>
      BY <1>1, <2>10, <2>11, <2>13
    <3>5. A = B
      BY <2>6, <2>7, <2>8, <3>1, <3>3, <3>4
    <3> QED
      BY <2>2, <2>9, <2>13, <3>2, <3>5
  <2> QED
    BY <2>12, <2>13
<1>2. IInv /\ FInv => SearchShowsWhatImportKeeps
  BY <1>1 DEF SearchShowsWhatImportKeeps
<1>3. Spec => []IInv
  BY IInvInit, IInvNext, PTL DEF Spec
<1> QED
  BY <1>2, <1>3, TablesStayFinite, PTL

\* They are rows that were printed, in their order.
LEMMA KeptListed ==
    ASSUME IInv, FInv, NEW p \in Path, Exists(p), NEW f, NEW kept, kept = Kept(ExportRows(p), f)
    PROVE  /\ Listed(kept)
           /\ \E R : kept \in Seq(R)
           /\ \A r \in Range(kept) : \E e \in Exported(p) : r = Printable(e)
<1>1. PICK n \in Nat : /\ RowsInOrder(Exported(p)) \in [1..n -> Exported(p)]
                       /\ ExportRows(p) = [i \in 1..n |-> Printable(RowsInOrder(Exported(p))[i])]
  BY ExportIsList
<1>2. PICK rows : rows = ExportRows(p) /\ Len(rows) = n /\ DOMAIN rows = 1..n
  BY <1>1
<1>3. /\ InScan(rows)
      /\ \A i \in 1..n : \E e \in Exported(p) : rows[i] = Printable(e)
  BY <1>2, ExportIsScan
<1>4. Listed(rows)
  BY <1>2, <1>3 DEF InScan, Listed
<1>5. PICK S : kept = Those(rows, S)
  BY <1>2 DEF Kept
<1>6. /\ Listed(kept)
      /\ \A r : r \in Range(kept) <=> r \in Range(rows) /\ r \in S
      /\ kept \in Seq({rows[i] : i \in 1..Len(rows)})
  BY <1>4, <1>5, ThoseListed
<1>7. ASSUME NEW r \in Range(kept) PROVE \E e \in Exported(p) : r = Printable(e)
  <2>1. r \in Range(rows)
    BY <1>6
  <2>2. PICK i \in 1..n : r = rows[i]
    BY <1>2, <2>1 DEF Range
  <2> QED
    BY <1>3, <2>2
<1> QED
  BY <1>6, <1>7

\* If a container comes first that leads to all of them, they can be imported.
LEMMA KeptImportable ==
    ASSUME IInv, FInv, NEW p \in Path, Exists(p), NEW f, NEW kept, kept = Kept(ExportRows(p), f),
           Headed(kept)
    PROVE  Importable(kept)
<1>1. /\ Listed(kept)
      /\ \E R : kept \in Seq(R)
      /\ \A r \in Range(kept) : \E e \in Exported(p) : r = Printable(e)
  BY KeptListed
<1>2. PICK n \in Nat : n = Len(kept) /\ DOMAIN kept = 1..n
  BY <1>1 DEF Listed
<1>3. kept # <<>> /\ kept[1].slash /\ \A r \in Range(kept) : IsPrefix(kept[1].path, r.path)
  BY DEF Headed
<1>4. n # 0
  <2>1. PICK R : kept \in Seq(R)
    BY <1>1
  <2> QED
    BY <1>2, <1>3, <2>1, EmptySeq
<1>5. \A i, j \in 1..n : RowBefore(kept[i], kept[j]) <=> i < j
  BY <1>1, <1>2 DEF Listed
<1>6. \A r : r \in Range(kept) <=> \E i \in 1..n : kept[i] = r
  BY <1>2 DEF Range
<1>7. ASSUME NEW r \in Range(kept)
      PROVE  IsRow(r) /\ Spells(r) /\ r = [path |-> r.path, slash |-> r.slash, text |-> r.text]
  <2>1. PICK e \in Exported(p) : r = Printable(e)
    BY <1>1
  <2>2. IsRow(r) /\ Spells(r)
    BY <2>1, PrintedText
  <2>3. PICK x, s, t : r = [path |-> x, slash |-> s, text |-> t]
    BY <2>1 DEF Printable
  <2>4. r = [path |-> r.path, slash |-> r.slash, text |-> r.text]
    BY <2>3
  <2> QED
    BY <2>2, <2>4
<1>8. ASSUME NEW r \in Range(kept), NEW s \in Range(kept), r.path = s.path, r.slash = s.slash PROVE r = s
  <2>1. PICK i \in 1..n : kept[i] = r
    BY <1>6
  <2>2. PICK j \in 1..n : kept[j] = s
    BY <1>6
  <2>3. ~RowBefore(r, s) /\ ~RowBefore(s, r)
    BY <1>7, <1>8, RowsCompare
  <2>4. ~(i < j) /\ ~(j < i)
    BY <1>5, <2>1, <2>2, <2>3
  <2>5. i = j
    BY <2>4
  <2> QED
    BY <2>1, <2>2, <2>5
<1>9. PICK h : h = kept[1] /\ h \in Range(kept)
  BY <1>4, <1>6
<1>10. ASSUME NEW r \in Range(kept), r.path = h.path PROVE r = h
  <2>1. r.slash \in BOOLEAN /\ h.slash = TRUE
    BY <1>3, <1>7, <1>9 DEF IsRow
  <2>2. CASE r.slash
    <3>1. r.slash = h.slash
      BY <2>1, <2>2
    <3> QED
      BY <1>8, <1>9, <1>10, <3>1
  <2>3. CASE ~r.slash
    <3>1. Beside(r, h)
      BY <1>10, <2>1, <2>3 DEF Beside
    <3>2. RowBefore(r, h)
      BY <3>1, RowBeforeIs
    <3>3. PICK i \in 1..n : kept[i] = r
      BY <1>6
    <3>4. i < 1
      BY <1>5, <1>9, <3>2, <3>3
    <3> QED
      BY <3>4
  <2> QED
    BY <2>2, <2>3
<1>11. Keyed(Range(kept))
  BY <1>8 DEF Keyed
<1>12. kept[1].slash = TRUE
  BY <1>3, <1>7, <1>9 DEF IsRow
<1>13. \A r \in Range(kept) : /\ IsRow(r) /\ Spells(r)
                              /\ r = [path |-> r.path, slash |-> r.slash, text |-> r.text]
                              /\ IsPrefix(kept[1].path, r.path)
                              /\ r.path = kept[1].path => r = kept[1]
  BY <1>3, <1>7, <1>9, <1>10
<1>14. n \in Nat \ {0}
  BY <1>4
<1> QED
  BY <1>2, <1>11, <1>12, <1>13, <1>14 DEF Importable

\* The same rows, all but the first turned round.
Turned(rows) == <<rows[1]>> \o Reverse(Tail(rows))

LEMMA TurnedRows ==
    ASSUME NEW R, NEW rows \in Seq(R), Len(rows) # 0
    PROVE  /\ Len(Turned(rows)) = Len(rows) /\ DOMAIN Turned(rows) = 1..Len(rows)
           /\ Turned(rows)[1] = rows[1]
           /\ \A i \in 2..Len(rows) : Turned(rows)[i] = rows[Len(rows) + 2 - i]
<1>1. PICK n \in Nat : n = Len(rows) /\ n # 0 /\ \A i \in 1..n : rows[i] \in R
  BY ElementOfSeq
<1>2. PICK t : t = Tail(rows)
  OBVIOUS
<1>3. t \in Seq(R) /\ Len(t) = n - 1 /\ \A i \in 1..n - 1 : t[i] = rows[i + 1]
  <2>1. rows # <<>>
    BY <1>1
  <2> QED
    BY <1>1, <1>2, <2>1, HeadTailProperties
<1>4. PICK v : v = [i \in 1..n - 1 |-> t[(n - 1 - i) + 1]]
  OBVIOUS
<1>5. v = Reverse(Tail(rows))
  BY <1>2, <1>3, <1>4 DEF Reverse
<1>6. \A i \in 1..n - 1 : v[i] = rows[n + 1 - i] /\ n + 1 - i \in 1..n
  <2> SUFFICES ASSUME NEW i \in 1..n - 1 PROVE v[i] = rows[n + 1 - i] /\ n + 1 - i \in 1..n
    OBVIOUS
  <2>1. (n - 1 - i) + 1 \in 1..n - 1 /\ ((n - 1 - i) + 1) + 1 = n + 1 - i /\ n + 1 - i \in 1..n
    BY <1>1
  <2>2. v[i] = t[(n - 1 - i) + 1]
    BY <1>4
  <2> QED
    BY <1>3, <2>1, <2>2
<1>7. v \in Seq(R) /\ Len(v) = n - 1
  <2>1. n - 1 \in Nat
    BY <1>1
  <2>2. v \in [1..n - 1 -> R]
    BY <1>1, <1>4, <1>6
  <2> QED
    BY <2>1, <2>2
<1>8. PICK o \in Seq(R) : o = <<rows[1]>> /\ Len(o) = 1 /\ o[1] = rows[1]
  <2>1. 1 \in 1..n
    BY <1>1
  <2>2. PICK e \in R : e = rows[1]
    BY <1>1, <2>1
  <2>3. PICK o : o = <<e>>
    OBVIOUS
  <2>4. o \in Seq(R) /\ Len(o) = 1 /\ o[1] = e
    BY <2>3
  <2> QED
    BY <2>2, <2>3, <2>4
<1>9. PICK u : u = Turned(rows) /\ u = o \o v
  BY <1>5, <1>8 DEF Turned
<1>10. /\ u \in Seq(R) /\ Len(u) = 1 + (n - 1)
       /\ \A i \in 1..1 + (n - 1) : u[i] = IF i <= 1 THEN o[i] ELSE v[i - 1]
  BY <1>7, <1>8, <1>9, ConcatProperties
<1>11. Len(u) = n /\ DOMAIN u = 1..n
  BY <1>1, <1>10
<1>12. u[1] = rows[1]
  <2>1. 1 \in 1..1 + (n - 1) /\ 1 <= 1
    BY <1>1
  <2> QED
    BY <1>8, <1>10, <2>1
<1>13. ASSUME NEW i \in 2..n PROVE u[i] = rows[n + 2 - i]
  <2>1. i \in 1..1 + (n - 1) /\ ~(i <= 1) /\ i - 1 \in 1..n - 1 /\ n + 1 - (i - 1) = n + 2 - i
    BY <1>1
  <2>2. u[i] = v[i - 1]
    BY <1>10, <2>1
  <2> QED
    BY <1>6, <2>1, <2>2
<1> QED
  BY <1>1, <1>9, <1>11, <1>12, <1>13

\* They can be imported as well.
LEMMA TurnedImportable ==
    ASSUME NEW R, NEW kept \in Seq(R), Listed(kept), Importable(kept),
           NEW rows, rows = Turned(kept), NEW bare, bare = [rows EXCEPT ![1] = EmptyRow(kept[1].path)]
    PROVE  /\ Importable(rows) /\ Emptied(rows) = Emptied(kept)
           /\ Range(bare) = Emptied(kept)
<1>1. PICK n \in Nat : n = Len(kept) /\ n # 0 /\ DOMAIN kept = 1..n
  BY DEF Importable
<1>2. /\ Len(rows) = n /\ DOMAIN rows = 1..n /\ rows[1] = kept[1]
      /\ \A i \in 2..n : rows[i] = kept[n + 2 - i]
  BY <1>1, TurnedRows
<1>3. \A i \in 2..n : n + 2 - i \in 2..n /\ n + 2 - (n + 2 - i) = i
  BY <1>1
<1>4. \A i \in 2..n : kept[i] = rows[n + 2 - i]
  BY <1>2, <1>3
<1>5. \A i \in 1..n : i = 1 \/ i \in 2..n
  OBVIOUS
<1>6. \A i \in 2..n : i \in 1..n
  OBVIOUS
<1>7. \A r : r \in Range(kept) <=> \E i \in 1..n : kept[i] = r
  BY <1>1 DEF Range
<1>8. \A r : r \in Range(rows) <=> \E i \in 1..n : rows[i] = r
  BY <1>2 DEF Range
<1>9. Range(rows) = Range(kept)
  <2>1. ASSUME NEW i \in 1..n PROVE kept[i] \in Range(rows) /\ rows[i] \in Range(kept)
    <3>1. CASE i = 1
      BY <1>1, <1>2, <1>7, <1>8, <3>1
    <3>2. CASE i \in 2..n
      <4>1. n + 2 - i \in 1..n
        BY <1>3, <1>6, <3>2
      <4> QED
        BY <1>2, <1>4, <1>7, <1>8, <3>2, <4>1
    <3> QED
      BY <1>5, <3>1, <3>2
  <2>2. \A r : r \in Range(rows) => r \in Range(kept)
    BY <1>8, <2>1
  <2>3. \A r : r \in Range(kept) => r \in Range(rows)
    BY <1>7, <2>1
  <2> QED
    BY <2>2, <2>3
<1>10. Importable(rows)
  BY <1>1, <1>2, <1>9 DEF Importable
<1>11. Emptied(rows) = Emptied(kept)
  BY <1>2, <1>9 DEF Emptied
<1>12. ASSUME NEW i \in 2..n PROVE rows[i] # kept[1]
  <2>1. n + 2 - i \in 2..n /\ n + 2 - i \in 1..n /\ 1 \in 1..n /\ 1 < n + 2 - i
    BY <1>3, <1>6
  <2>2. RowBefore(kept[1], kept[n + 2 - i]) /\ ~RowBefore(kept[1], kept[1])
    BY <1>1, <2>1 DEF Listed
  <2>3. kept[n + 2 - i] # kept[1]
    BY <2>2
  <2> QED
    BY <1>2, <2>3
<1>13. PICK o : o = EmptyRow(kept[1].path)
  OBVIOUS
<1>14. bare[1] = o /\ DOMAIN bare = 1..n /\ \A i \in 2..n : bare[i] = rows[i]
  <2>1. 1 \in 1..n
    BY <1>1
  <2>2. bare = [i \in 1..n |-> IF i = 1 THEN o ELSE rows[i]]
    BY <1>2, <1>13
  <2>3. \A i \in 2..n : i # 1
    OBVIOUS
  <2> QED
    BY <1>6, <2>1, <2>2, <2>3
<1>15. \A r : r \in Range(bare) <=> \E i \in 1..n : bare[i] = r
  BY <1>14 DEF Range
<1>16. ASSUME NEW r PROVE r \in Range(bare) <=> r = o \/ (r \in Range(kept) /\ r # kept[1])
  <2>1. r = o => r \in Range(bare)
    <3>1. 1 \in 1..n
      BY <1>1
    <3>2. bare[1] = o
      BY <1>14
    <3> QED
      BY <1>15, <3>1, <3>2
  <2>2. ASSUME r \in Range(kept), r # kept[1] PROVE r \in Range(bare)
    <3>1. PICK i \in 1..n : rows[i] = r
      BY <1>8, <1>9, <2>2
    <3>2. i \in 2..n
      BY <1>2, <1>5, <2>2, <3>1
    <3> QED
      BY <1>14, <1>15, <3>1, <3>2
  <2>3. ASSUME r \in Range(bare), r # o PROVE r \in Range(kept) /\ r # kept[1]
    <3>1. PICK i \in 1..n : bare[i] = r
      BY <1>15, <2>3
    <3>2. i \in 2..n
      BY <1>5, <1>14, <2>3, <3>1
    <3>3. rows[i] = r
      BY <1>14, <3>1, <3>2
    <3> QED
      BY <1>8, <1>9, <1>12, <3>2, <3>3
  <2> QED
    BY <2>1, <2>2, <2>3
<1>17. Range(bare) = Emptied(kept)
  BY <1>13, <1>16 DEF Emptied
<1> QED
  BY <1>10, <1>11, <1>17

\* An import writes the document whose text it hashed before: the tree of the rows
\* where they stood (he_csv_rows_to_tree) and what extract_json finds of them at
\* their new paths are the same, also where a filter took containers away.
THEOREM ImportsAreHashedAsRead == Spec => []ImportReadsAsHashed
<1>1. ASSUME IInv, FInv, NEW p \in DocPaths, NEW q \in DocPaths, NEW f \in Filters, Exists(p),
             NEW kept, kept = Kept(ExportRows(p), f), Headed(kept)
      PROVE  ReadBack(<<kept[1]>> \o Reverse(Tail(kept)), q)
                 = RowsToTree([<<kept[1]>> \o Reverse(Tail(kept)) EXCEPT ![1] = EmptyRow(kept[1].path)])
  <2>1. p \in Path /\ q \in Path
    BY EngineAssumption
  <2>2. Listed(kept) /\ \E R : kept \in Seq(R)
    BY <1>1, <2>1, KeptListed
  <2>3. Importable(kept)
    BY <1>1, <2>1, KeptImportable
  <2>4. PICK rows : rows = Turned(kept) /\ rows = <<kept[1]>> \o Reverse(Tail(kept))
    BY DEF Turned
  <2>5. PICK bare : bare = [rows EXCEPT ![1] = EmptyRow(kept[1].path)]
    OBVIOUS
  <2>6. PICK R : kept \in Seq(R)
    BY <2>2
  <2>7. Importable(rows) /\ Emptied(rows) = Emptied(kept) /\ Range(bare) = Emptied(kept)
    BY <2>2, <2>3, <2>4, <2>5, <2>6, TurnedImportable
  <2>8. ReadBack(rows, q) = Stacked(RowsInOrder(Emptied(rows)))
    BY <2>1, <2>7, ReadBackIs
  <2>9. RowsToTree(bare) = Stacked(RowsInOrder(Range(bare)))
    BY DEF RowsToTree
  <2>10. ReadBack(rows, q) = RowsToTree(bare)
    BY <2>7, <2>8, <2>9
  <2> QED
    BY <2>4, <2>5, <2>10
<1>2. IInv /\ FInv => ImportReadsAsHashed
  BY <1>1 DEF ImportReadsAsHashed
<1>3. Spec => []IInv
  BY IInvInit, IInvNext, PTL DEF Spec
<1> QED
  BY <1>2, <1>3, TablesStayFinite, PTL

-----------------------------------------------------------------------------
(***************************************************************************)
(* What a filtered import restores                                         *)
(***************************************************************************)
\* Below an unambiguous document a node is claimed in one place.
LEMMA ClaimedOnce ==
    ASSUME IInv, NEW p \in Path, Unambiguous(p), NEW z \in Path, IsPrefix(p, z), z # p
    PROVE  /\ z \in DOMAIN containers => z \notin DOMAIN primitives
           /\ Inlined(containers, z) => z \notin DOMAIN containers /\ z \notin DOMAIN primitives
<1>1. PICK C, D, N : C = containers /\ D = primitives /\ N = NodesOf(C, D, p)
  OBVIOUS
<1>2. ContainersOK(C) /\ PrimitivesOK(D)
  BY <1>1, IInvChar
<1>3. PICK x \in Path : x = Rel(p, z) /\ z = p \o x
  BY RelChar
<1>4. x # Root
  BY <1>3, ConcatChar
<1>5. x \in N <=> \/ p \o x \in DOMAIN C
                  \/ x # Root /\ p \o x \in DOMAIN D
                  \/ x # Root /\ Inlined(C, p \o x)
  BY <1>1, <1>2, NodesChar
<1>6. N = ExtractPaths(p)
  BY <1>1 DEF NodesOf, ExtractPaths
<1>7. x \in N => /\ ~(z \in DOMAIN C /\ z \in DOMAIN D)
                 /\ InlineAt(p, x) => z \notin DOMAIN C \cup DOMAIN D
  BY <1>1, <1>3, <1>4, <1>6 DEF Unambiguous
<1>8. Inlined(C, z) => InlineAt(p, x)
  <2>1. Front(p \o x) = p \o Front(x) /\ Last(p \o x) = Last(x)
    BY <1>4, FrontOfConcat
  <2> QED
    BY <1>1, <1>3, <1>4, <2>1 DEF Inlined, InlineAt
<1> QED
  BY <1>1, <1>3, <1>4, <1>5, <1>7, <1>8

\* There, what a printed row says of a document below is what is read of it.
LEMMA SaidIsRead ==
    ASSUME IInv, NEW p \in Path, Unambiguous(p), NEW e \in Exported(p),
           NEW top \in Path, IsPrefix(p, top), NEW y \in Path, y # Root, Says(Printable(e), top, y)
    PROVE  /\ y \in DOMAIN Extract(top)
           /\ Extract(top)[y] = Told(Printable(e), top, y)
<1>1. PICK C, D, N : C = containers /\ D = primitives /\ N = NodesOf(C, D, top)
  OBVIOUS
<1>2. ContainersOK(C) /\ PrimitivesOK(D)
  BY <1>1, IInvChar
<1>3. PICK z \in Path, f \in Path, k \in Keys : z = top \o y /\ f = Front(z) /\ k = Last(z)
  <2>1. top \o y \in Path /\ Front(top \o y) \in Path /\ Last(top \o y) = Last(y)
    BY NodeBelow
  <2>2. Last(y) \in Keys
    BY SplitLast
  <2> QED
    BY <2>1, <2>2
<1>4. z # Root /\ f = top \o Front(y) /\ k = Last(y) /\ z # top
  BY <1>3, NodeBelow
<1>5. IsPrefix(p, z) /\ z # p
  <2>1. IsPrefix(top, z)
    BY <1>3, ConcatChar
  <2>2. IsPrefix(p, z)
    BY <2>1, PrefixOrder
  <2>3. z = p => z = top
    BY <2>1, PrefixOrder
  <2> QED
    BY <1>4, <2>2, <2>3
<1>6. /\ z \in DOMAIN C => z \notin DOMAIN D
      /\ Inlined(C, z) => z \notin DOMAIN C /\ z \notin DOMAIN D
  BY <1>1, <1>5, ClaimedOnce
<1>7. y \in N <=> z \in DOMAIN C \/ z \in DOMAIN D \/ Inlined(C, z)
  <2>1. y \in N <=> \/ top \o y \in DOMAIN C
                    \/ y # Root /\ top \o y \in DOMAIN D
                    \/ y # Root /\ Inlined(C, top \o y)
    BY <1>1, <1>2, NodesChar
  <2> QED
    BY <1>3, <2>1
<1>8. PICK x : x = Extract(top)
  OBVIOUS
<1>9. DOMAIN x = N /\ (y \in N => x[y] = IF z \in DOMAIN C THEN Obj
                                         ELSE IF z \in DOMAIN D THEN D[z].val
                                         ELSE C[f].inline[k])
  <2>1. x = [w \in N |-> IF top \o w \in DOMAIN C THEN Obj
                         ELSE IF top \o w \in DOMAIN D THEN D[top \o w].val
                         ELSE C[top \o Front(w)].inline[Last(w)]]
    BY <1>1, <1>8, ExtractIsTextOf DEF TextOf
  <2> QED
    BY <1>3, <1>4, <2>1
<1>10. /\ Says(Printable(e), top, y) <=>
             \/ e.path = z
             \/ e.slash /\ z # Root /\ e.path = f /\ k \in DOMAIN C[f].inline
       /\ e.path = z /\ e.slash => Told(Printable(e), top, y) = Obj
       /\ e.path = z /\ ~e.slash => Told(Printable(e), top, y) = D[z].val
       /\ e.slash /\ z # Root /\ e.path = f /\ k \in DOMAIN C[f].inline
              => Told(Printable(e), top, y) = C[f].inline[k]
  BY <1>1, <1>3, PrintedTells
<1>11. \/ e.slash = TRUE /\ e.path \in DOMAIN C
       \/ e.slash = FALSE /\ e.path \in DOMAIN D
  BY <1>1, ExportedChar
<1>12. e.path = z \/ (e.slash /\ z # Root /\ e.path = f /\ k \in DOMAIN C[f].inline)
  BY <1>10
<1>13. CASE e.path = z
  BY <1>6, <1>7, <1>8, <1>9, <1>10, <1>11, <1>13
<1>14. CASE e.slash /\ z # Root /\ e.path = f /\ k \in DOMAIN C[f].inline
  <2>1. Inlined(C, z)
    BY <1>3, <1>11, <1>14 DEF Inlined
  <2> QED
    BY <1>6, <1>7, <1>8, <1>9, <1>10, <1>14, <2>1
<1> QED
  BY <1>12, <1>13, <1>14

\* An entry of the document at p that its own row alone has.
OnlyInlined(p, y) ==
    /\ Len(y) = 1
    /\ InlineAt(p, y)
    /\ p \o y \notin DOMAIN containers \cup DOMAIN primitives

\* Those are what the row of the document says, and no other row says one.
LEMMA SaidByWhom ==
    ASSUME IInv, NEW p \in Path, Unambiguous(p), NEW e \in Exported(p),
           NEW top \in Path, IsPrefix(p, top), NEW y \in Path, y # Root, Says(Printable(e), top, y)
    PROVE  e.path = top <=> OnlyInlined(top, y)
<1>1. PICK C, D : C = containers /\ D = primitives
  OBVIOUS
<1>2. PICK z \in Path, f \in Path, k \in Keys : z = top \o y /\ f = Front(z) /\ k = Last(z)
  <2>1. top \o y \in Path /\ Front(top \o y) \in Path /\ Last(top \o y) = Last(y)
    BY NodeBelow
  <2>2. Last(y) \in Keys
    BY SplitLast
  <2> QED
    BY <2>1, <2>2
<1>3. z # Root /\ f = top \o Front(y) /\ k = Last(y) /\ z # top /\ IsPrefix(top, z)
  <2>1. IsPrefix(top, z)
    BY <1>2, ConcatChar
  <2> QED
    BY <1>2, <2>1, NodeBelow
<1>4. f = top <=> Len(y) = 1
  <2>1. PICK g \in Path : g = Front(y) /\ Len(g) = Len(y) - 1 /\ Len(y) \in Nat
    BY SplitLast DEF Path
  <2>2. g = Root <=> Len(g) = 0
    BY RootIsPath, EmptySeq DEF Path, Root
  <2>3. top \o g = top <=> g = Root
    BY ConcatChar
  <2> QED
    BY <1>3, <2>1, <2>2, <2>3
<1>5. e.path = z \/ (e.slash /\ z # Root /\ e.path = f /\ k \in DOMAIN C[f].inline)
  BY <1>1, <1>2, PrintedTells
<1>6. \/ e.slash = TRUE /\ e.path \in DOMAIN C
      \/ e.slash = FALSE /\ e.path \in DOMAIN D
  BY <1>1, ExportedChar
<1>7. OnlyInlined(top, y) <=> Len(y) = 1 /\ InlineAt(top, y) /\ z \notin DOMAIN C /\ z \notin DOMAIN D
  BY <1>1, <1>2 DEF OnlyInlined
<1>8. CASE e.path = top
  <2>1. e.slash /\ e.path = f /\ k \in DOMAIN C[f].inline /\ f \in DOMAIN C
    BY <1>3, <1>5, <1>6, <1>8
  <2>2. Inlined(C, z)
    BY <1>2, <1>3, <2>1 DEF Inlined
  <2>3. IsPrefix(p, z) /\ z # p
    BY <1>3, PrefixOrder
  <2>4. z \notin DOMAIN C /\ z \notin DOMAIN D
    BY <1>1, <2>2, <2>3, ClaimedOnce
  <2>5. InlineAt(top, y)
    BY <1>1, <1>3, <2>1 DEF InlineAt
  <2>6. Len(y) = 1
    BY <1>4, <1>8, <2>1
  <2> QED
    BY <1>7, <1>8, <2>4, <2>5, <2>6
<1>9. CASE e.path # top
  <2>1. CASE e.path = z
    BY <1>6, <1>7, <1>9, <2>1
  <2>2. CASE e.path = f
    BY <1>4, <1>7, <1>9, <2>2
  <2> QED
    BY <1>5, <2>1, <2>2
<1> QED
  BY <1>8, <1>9

\* An empty root says nothing but that it is there.
LEMMA EmptySays ==
    ASSUME NEW p \in Path, NEW y \in Path
    PROVE  /\ Says(EmptyRow(p), p, y) <=> y = Root
           /\ Told(EmptyRow(p), p, Root) = Obj
           /\ IsRow(EmptyRow(p)) /\ Spells(EmptyRow(p))
           /\ EmptyRow(p).path = p /\ EmptyRow(p).slash = TRUE
<1>1. PICK t : t = [x \in {Root} |-> Obj]
  OBVIOUS
<1>2. DOMAIN t = {Root} /\ t[Root] = Obj
  BY <1>1
<1>3. PICK r : r = EmptyRow(p) /\ r = [path |-> p, slash |-> TRUE, text |-> t]
  BY <1>1 DEF EmptyRow
<1>4. r.path = p /\ r.slash = TRUE /\ r.text = t
  BY <1>3
<1>5. IsPrefix(p, p \o y) /\ Rel(p, p \o y) = y /\ Rel(p, p \o Root) = Root
  BY RootIsPath, ConcatChar
<1>6. Says(r, p, y) <=> y = Root
  BY <1>2, <1>4, <1>5 DEF Says
<1>7. Told(r, p, Root) = Obj
  BY <1>2, <1>4, <1>5 DEF Told
<1>8. IsRow(r)
  BY <1>4 DEF IsRow
<1>9. Spells(r)
  <2>1. t = [x \in DOMAIN t |-> t[x]]
    BY <1>1
  <2> QED
    BY <1>2, <1>4, <2>1 DEF Spells
<1> QED
  BY <1>3, <1>4, <1>6, <1>7, <1>8, <1>9

\* The rows that are left make a scan that lacks nothing.
LEMMA EmptiedScan ==
    ASSUME NEW rows, Importable(rows), Closed(rows), NEW list, list = RowsInOrder(Emptied(rows))
    PROVE  InScan(list) /\ IsWhole(list)
<1>1. /\ rows[1].path \in Path
      /\ Listed(list) /\ Len(list) \in Nat \ {0} /\ Range(list) = Emptied(rows)
      /\ list[1] = EmptyRow(rows[1].path)
      /\ \A i \in 1..Len(list) : /\ IsPrefix(rows[1].path, list[i].path)
                                 /\ i # 1 => list[i] \in Range(rows)
  BY EmptiedListed
<1>2. PICK p \in Path, n \in Nat \ {0} : p = rows[1].path /\ n = Len(list) /\ DOMAIN list = 1..n
  BY <1>1 DEF Listed
<1>3. 1 \in 1..n /\ list[1] = EmptyRow(p)
  BY <1>1, <1>2
<1>4. IsRow(list[1]) /\ Spells(list[1]) /\ list[1].path = p /\ list[1].slash = TRUE
  BY <1>3, RootIsPath, EmptySays
<1>5. \A i \in 1..n : /\ IsRow(list[i]) /\ IsPrefix(p, list[i].path)
                      /\ i # 1 => list[i] \in Range(rows)
  BY <1>1, <1>2 DEF Listed
<1>6. \A i \in 1..n : Spells(list[i])
  BY <1>4, <1>5 DEF Importable
<1>7. InScan(list)
  BY <1>1, <1>2, <1>4, <1>5, <1>6 DEF InScan, Listed
<1>8. ASSUME NEW i \in 1..n, NEW x \in Ancestors(list[i].path), IsPrefix(p, x)
      PROVE  \E j \in 1..n : list[j].path = x /\ list[j].slash
  <2>1. PICK z \in Path : z = list[i].path
    BY <1>5 DEF IsRow
  <2>2. x \in Path /\ IsPrefix(x, z) /\ x # z
    BY <1>8, <2>1, AncestorChar
  <2>3. i # 1
    <3>1. z = p => x = p
      BY <1>8, <2>2, PrefixOrder
    <3> QED
      BY <1>4, <2>1, <2>2, <3>1
  <2>4. PICK s \in Range(rows) : s.path = x /\ s.slash
    BY <1>2, <1>5, <1>8, <2>3 DEF Closed
  <2>5. CASE s = rows[1]
    <3>1. x = p
      BY <1>2, <2>4, <2>5
    <3> QED
      BY <1>3, <1>4, <3>1
  <2>6. CASE s # rows[1]
    <3>1. s \in Range(list)
      BY <1>1, <2>4, <2>6 DEF Emptied
    <3>2. PICK j \in 1..n : list[j] = s
      BY <1>2, <3>1 DEF Range
    <3> QED
      BY <2>4, <3>2
  <2> QED
    BY <2>5, <2>6
<1>9. IsWhole(list)
  BY <1>2, <1>4, <1>8 DEF IsWhole
<1> QED
  BY <1>7, <1>9

\* The entries of the document at top that the rows cover and that its own row does
\* not have inlined.
Restored(rows, top) ==
    {y \in DOMAIN Extract(top) :
        /\ \E r \in Range(rows) : Says(r, top, y)
        /\ ~OnlyInlined(top, y)}

\* They are what is read after the import, as they were.
LEMMA ReadBackRestores ==
    ASSUME IInv, NEW p \in Path, Unambiguous(p), NEW rows, Importable(rows), Closed(rows),
           \A r \in Range(rows) : \E e \in Exported(p) : r = Printable(e),
           NEW top, top = rows[1].path, NEW q \in Path
    PROVE  ReadBack(rows, q) = [y \in Restored(rows, top) |-> Extract(top)[y]]
<1>1. PICK list : list = RowsInOrder(Emptied(rows))
  OBVIOUS
<1>2. /\ top \in Path
      /\ Listed(list) /\ Len(list) \in Nat \ {0} /\ Range(list) = Emptied(rows)
      /\ list[1] = EmptyRow(top)
      /\ \A i \in 1..Len(list) : /\ IsPrefix(top, list[i].path)
                                 /\ i # 1 => list[i] \in Range(rows) /\ list[i].path # top
  BY <1>1, EmptiedListed
<1>3. PICK n \in Nat \ {0} : n = Len(list) /\ DOMAIN list = 1..n
  BY <1>2 DEF Listed
<1>4. PICK new : new = ReadBack(rows, q) /\ new = Stacked(list)
  BY <1>1, ReadBackIs
<1>5. TreeOK(new, list, n)
  BY <1>1, <1>3, <1>4, EmptiedScan, StackedTells
<1>6. list[1].path = top /\ \A y \in Path : Says(list[1], top, y) <=> y = Root
  BY <1>2, EmptySays
<1>7. Told(list[1], top, Root) = Obj
  BY <1>2, RootIsPath, EmptySays
<1>8. /\ new = [y \in DOMAIN new |-> new[y]]
      /\ \A y : y \in DOMAIN new <=> y \in Path /\ \E j \in 1..n : Says(list[j], top, y)
      /\ \A y \in Path, j \in 1..n :
            Says(list[j], top, y) /\ (\A l \in 1..n : Says(list[l], top, y) => l <= j)
                => new[y] = Told(list[j], top, y)
  BY <1>5, <1>6 DEF TreeOK
<1>9. PICK r1 : r1 = rows[1] /\ r1 \in Range(rows) /\ r1.path = top
  BY ImportSorted
<1>10. PICK e1 \in Exported(p) : r1 = Printable(e1)
  BY <1>9
<1>11. IsPrefix(p, top) /\ e1.path = top
  <2>1. r1.path = e1.path
    BY <1>10, PrintedText
  <2>2. IsPrefix(p, e1.path)
    BY <1>10, ExportedChar
  <2> QED
    BY <1>9, <2>1, <2>2
<1>12. PICK C, D, x : C = containers /\ D = primitives /\ x = Extract(top)
  OBVIOUS
<1>13. top \in DOMAIN C
  <2>1. r1.slash = TRUE
    BY <1>9 DEF Importable
  <2>2. e1.slash = TRUE
    BY <1>10, <2>1, PrintedText
  <2> QED
    BY <1>10, <1>11, <1>12, <2>2, ExportedChar
<1>14. IsText(x) /\ x[Root] = Obj
  BY <1>2, <1>12, <1>13, ExtractIsText DEF Exists
<1>15. DOMAIN x \subseteq Path /\ Root \in DOMAIN x
  BY <1>14 DEF IsText
\* What a row says below the document is read of it.
<1>16. ASSUME NEW r \in Range(rows), NEW y \in Path, y # Root, Says(r, top, y)
       PROVE  y \in DOMAIN x /\ x[y] = Told(r, top, y)
  <2>1. PICK e \in Exported(p) : r = Printable(e)
    OBVIOUS
  <2> QED
    BY <1>2, <1>11, <1>12, <1>16, <2>1, SaidIsRead
\* No row but the first says what only the first has inlined.
<1>17. ASSUME NEW r \in Range(rows), NEW y \in Path, y # Root, Says(r, top, y)
       PROVE  r.path = top <=> OnlyInlined(top, y)
  <2>1. PICK e \in Exported(p) : r = Printable(e)
    OBVIOUS
  <2>2. r.path = e.path
    BY <2>1, PrintedText
  <2>3. e.path = top <=> OnlyInlined(top, y)
    BY <1>2, <1>11, <1>17, <2>1, SaidByWhom
  <2> QED
    BY <2>2, <2>3
<1>18. PICK S : S = Restored(rows, top)
  OBVIOUS
<1>19. \A y : y \in S <=>
          /\ y \in DOMAIN x
          /\ \E r \in Range(rows) : Says(r, top, y)
          /\ ~OnlyInlined(top, y)
  BY <1>12, <1>18 DEF Restored
<1>20. Root \in S
  <2>1. Says(r1, top, Root)
    <3>1. IsPrefix(top, top \o Root) /\ Rel(top, top \o Root) = Root
      BY <1>2, RootIsPath, ConcatChar
    <3>2. Root \in DOMAIN r1.text
      BY <1>9 DEF Importable, Spells
    <3> QED
      BY <1>9, <3>1, <3>2 DEF Says
  <2>2. Len(Root) # 1
    BY RootIsPath
  <2> QED
    BY <1>9, <1>15, <1>19, <2>1, <2>2 DEF OnlyInlined
<1>21. Root \in DOMAIN new /\ new[Root] = x[Root]
  <2>1. 1 \in 1..n /\ Says(list[1], top, Root)
    BY <1>6, RootIsPath
  <2>2. ASSUME NEW l \in 1..n, Says(list[l], top, Root) PROVE l <= 1
    <3>1. list[1].path = list[1].path \o Root /\ list[1].slash
      BY <1>2, <1>6, EmptySays, RootIsPath, ConcatChar
    <3>2. InScan(list)
      BY <1>1, EmptiedScan
    <3> QED
      BY <1>3, <1>6, <2>1, <2>2, <3>1, <3>2, RootIsPath, SaidLast
  <2> QED
    BY <1>7, <1>8, <1>14, <2>1, <2>2, RootIsPath
<1>22. ASSUME NEW y \in DOMAIN new, y # Root PROVE y \in S /\ new[y] = x[y]
  <2>1. y \in Path
    BY <1>8
  <2> DEFINE J == {j \in 1..n : Says(list[j], top, y)}
  <2>2. PICK m \in J : \A j \in J : j <= m
    <3>1. J # {} /\ J \subseteq 1..n
      BY <1>8
    <3> HIDE DEF J
    <3>2. J \subseteq 0..n
      BY <3>1
    <3>3. Max(J) \in J /\ \A j \in J : Max(J) >= j
      BY <3>1, <3>2, MaxChar
    <3>4. PICK m : m = Max(J)
      OBVIOUS
    <3>5. m \in 1..n /\ \A j \in J : j \in 1..n /\ m >= j
      BY <3>1, <3>3, <3>4
    <3> QED
      BY <3>3, <3>4, <3>5
  <2>3. m \in 1..n /\ Says(list[m], top, y) /\ \A j \in 1..n : Says(list[j], top, y) => j <= m
    BY <2>2
  <2>4. new[y] = Told(list[m], top, y)
    BY <1>8, <2>1, <2>3
  <2>5. m # 1
    BY <1>6, <1>22, <2>1, <2>3
  <2>6. PICK r \in Range(rows) : r = list[m] /\ r.path # top
    BY <1>2, <1>3, <2>3, <2>5
  <2>7. y \in DOMAIN x /\ x[y] = Told(r, top, y)
    BY <1>16, <1>22, <2>1, <2>3, <2>6
  <2>8. y \in S
    BY <1>17, <1>19, <1>22, <2>1, <2>3, <2>6, <2>7
  <2> QED
    BY <2>4, <2>6, <2>7, <2>8
<1>23. ASSUME NEW y \in S, y # Root PROVE y \in DOMAIN new
  <2>1. y \in Path
    BY <1>15, <1>19
  <2>2. PICK r \in Range(rows) : Says(r, top, y)
    BY <1>19
  <2>3. r.path # top
    BY <1>17, <1>19, <1>23, <2>1, <2>2
  <2>4. r \in Range(list)
    BY <1>2, <1>9, <2>3 DEF Emptied
  <2>5. PICK j \in 1..n : list[j] = r
    BY <1>3, <2>4 DEF Range
  <2> QED
    BY <1>8, <2>1, <2>2, <2>5
<1>24. DOMAIN new = S /\ \A y \in S : new[y] = x[y]
  BY <1>20, <1>21, <1>22, <1>23
<1> QED
  BY <1>4, <1>8, <1>12, <1>18, <1>24

\* The text without them.
LEMMA RootEntriesOut ==
    ASSUME NEW p, NEW t
    PROVE  WithoutRootEntries(p, t) =
               [x \in {x \in DOMAIN t : ~(/\ Len(x) = 1 /\ InlineAt(p, x)
                                          /\ p \o x \notin DOMAIN containers \cup DOMAIN primitives)} |-> t[x]]
BY SMT DEF WithoutRootEntries, RestrictDomain, Restrict

\* The entries of the document at top that the rows cover.
CoveredBy(rows, top) ==
    [x \in {x \in DOMAIN Extract(top) : \E r \in Range(rows) :
                /\ IsPrefix(r.path, top \o x)
                /\ Rel(r.path, top \o x) \in DOMAIN r.text} |-> Extract(top)[x]]

\* An import under a filter that keeps every container on the way restores the
\* rows it keeps, each at its place and with its value, and nothing of the rest; of
\* the document's own row, which the import writes empty, it loses the entries.
THEOREM FilteredImportsRestore == Spec => []FilteredImportRestores
<1>1. ASSUME IInv, FInv, NEW p \in DocPaths, NEW q \in DocPaths, NEW f \in Filters,
             Exists(p), Unambiguous(p),
             NEW rows, rows = Kept(ExportRows(p), f), Headed(rows), Closed(rows),
             NEW top, top = rows[1].path
      PROVE  ReadBack(rows, q) = WithoutRootEntries(top, CoveredBy(rows, top))
  <2>1. p \in Path /\ q \in Path
    BY EngineAssumption
  <2>2. Importable(rows) /\ \A r \in Range(rows) : \E e \in Exported(p) : r = Printable(e)
    BY <1>1, <2>1, KeptListed, KeptImportable
  <2>3. ReadBack(rows, q) = [y \in Restored(rows, top) |-> Extract(top)[y]]
    BY <1>1, <2>1, <2>2, ReadBackRestores
  <2>4. PICK x, t : x = Extract(top) /\ t = CoveredBy(rows, top)
    OBVIOUS
  <2>5. t = [y \in {y \in DOMAIN x : \E r \in Range(rows) : Says(r, top, y)} |-> x[y]]
    BY <2>4 DEF CoveredBy, Says
  <2>6. PICK u : u = WithoutRootEntries(top, t)
    OBVIOUS
  <2>7. u = [y \in {y \in DOMAIN t :
                        ~(/\ Len(y) = 1 /\ InlineAt(top, y)
                          /\ top \o y \notin DOMAIN containers \cup DOMAIN primitives)} |-> t[y]]
    BY <2>6, RootEntriesOut
  <2>8. u = [y \in Restored(rows, top) |-> x[y]]
    <3>1. \A y : y \in DOMAIN u <=> y \in Restored(rows, top)
      BY <2>4, <2>5, <2>7 DEF Restored, OnlyInlined
    <3>2. \A y \in DOMAIN u : u[y] = x[y]
      BY <2>5, <2>7
    <3>3. u = [y \in DOMAIN u |-> u[y]]
      BY <2>7
    <3> QED
      BY <3>1, <3>2, <3>3
  <2> QED
    BY <2>3, <2>4, <2>6, <2>8
<1>2. ASSUME IInv, FInv PROVE FilteredImportRestores
  <2>1. ASSUME NEW p \in DocPaths, NEW q \in DocPaths, NEW f \in Filters,
               Exists(p), Unambiguous(p), Headed(Kept(ExportRows(p), f)), Closed(Kept(ExportRows(p), f))
        PROVE  ReadBack(Kept(ExportRows(p), f), q) =
                   WithoutRootEntries(Kept(ExportRows(p), f)[1].path,
                                      CoveredBy(Kept(ExportRows(p), f), Kept(ExportRows(p), f)[1].path))
    BY <1>1, <1>2, <2>1
  <2> QED
    BY <2>1, SMT DEF FilteredImportRestores, CoveredBy, RestrictDomain, Restrict
<1>3. IInv /\ FInv => FilteredImportRestores
  BY <1>2
<1>4. Spec => []IInv
  BY IInvInit, IInvNext, PTL DEF Spec
<1> QED
  BY <1>3, <1>4, TablesStayFinite, PTL

-----------------------------------------------------------------------------
(***************************************************************************)
(* CSV: texts that are joined                                              *)
(***************************************************************************)

\* The texts joined so far.
IsJoin(f, S, texts) ==
    /\ f \in [0..Len(texts) -> Seq(S)]
    /\ f[0] = <<>>
    /\ \A i \in 1..Len(texts) : f[i] = f[i - 1] \o texts[i]
    /\ Joined(texts) = f[Len(texts)]

LEMMA JoinedIs ==
    ASSUME NEW S, NEW texts \in Seq(Seq(S))
    PROVE  \E f : IsJoin(f, S, texts)
<1>0. PICK n \in Nat : n = Len(texts)
  OBVIOUS
<1> DEFINE Good(f) == f = [i \in 0..n |-> IF i = 0 THEN <<>> ELSE f[i - 1] \o texts[i]]
<1>1. PICK T, a : T = Seq(S) /\ a = <<>>
  OBVIOUS
<1>2. ASSUME NEW i \in 1..n, NEW s \in T PROVE s \o texts[i] \in T
  <2>1. texts[i] \in Seq(S)
    BY <1>0
  <2> QED
    BY <1>1, <2>1
<1>3. PICK g : g = [i \in 1..n |-> [s \in T |-> s \o texts[i]]]
  OBVIOUS
<1>4. g \in [1..n -> [T -> T]]
  BY <1>2, <1>3
<1>5. a \in T
  BY <1>1
<1>6. PICK f : IsRun(f, n, T, a, g)
  <2> HIDE DEF Good
  <2> QED
    BY <1>4, <1>5, RecursionExists
<1>7. Good(f)
  <2>1. f \in [0..n -> T] /\ f[0] = <<>> /\ \A i \in 1..n : f[i] = g[i][f[i - 1]]
    BY <1>1, <1>6 DEF IsRun
  <2>2. ASSUME NEW i \in 1..n PROVE f[i] = f[i - 1] \o texts[i]
    <3>1. i - 1 \in 0..n
      OBVIOUS
    <3> QED
      BY <1>3, <2>1, <3>1
  <2>3. \A i \in 0..n : i = 0 \/ i \in 1..n
    OBVIOUS
  <2> QED
    BY <2>1, <2>2, <2>3
<1>8. ASSUME NEW h, Good(h)
      PROVE  h \in [0..n -> T] /\ h[0] = a /\ \A i \in 1..n : h[i] = h[i - 1] \o texts[i]
  <2>1. h[0] \in T /\ h[0] = a /\ DOMAIN h = 0..n /\ h = [i \in 0..n |-> h[i]]
    BY <1>1, <1>8
  <2>2. ASSUME NEW i \in 1..n PROVE h[i] = h[i - 1] \o texts[i]
    <3>1. i \in 0..n /\ i # 0
      OBVIOUS
    <3> QED
      BY <1>8, <3>1
  <2>3. ASSUME NEW i \in 1..n, h[i - 1] \in T PROVE h[i] \in T
    BY <1>2, <2>2, <2>3
  <2> HIDE DEF Good
  <2>4. \A i \in 0..n : h[i] \in T
    BY <2>1, <2>3, RecursionStays
  <2> QED
    BY <2>1, <2>2, <2>4
<1>9. Joined(texts) = (CHOOSE f1 : Good(f1))[n]
  BY <1>0 DEF Joined
<1> HIDE DEF Good
<1>10. PICK h : h = CHOOSE f1 : Good(f1)
  OBVIOUS
<1>11. Good(h)
  BY <1>7, <1>10
<1> QED
  BY <1>0, <1>1, <1>8, <1>9, <1>10, <1>11 DEF IsJoin

\* A claim about 0..n that begins and goes on.
LEMMA GoesOn ==
    ASSUME NEW n \in Nat, NEW h, h[0] = TRUE, \A i \in 1..n : h[i - 1] = TRUE => h[i] = TRUE
    PROVE  \A i \in 0..n : h[i] = TRUE
<1>1. PICK S : S = {TRUE}
  OBVIOUS
<1>2. h[0] \in S /\ \A i \in 1..n : h[i - 1] \in S => h[i] \in S
  BY <1>1
<1>3. \A i \in 0..n : h[i] \in S
  BY <1>2, RecursionStays
<1> QED
  BY <1>1, <1>3

\* Each text has its place in what they are joined to.
LEMMA JoinedPlaces ==
    ASSUME NEW S, NEW texts \in Seq(Seq(S)), NEW f, IsJoin(f, S, texts),
           NEW i \in 1..Len(texts), NEW k \in 1..Len(texts[i])
    PROVE  /\ Len(f[i - 1]) + k \in 1..Len(Joined(texts))
           /\ Joined(texts)[Len(f[i - 1]) + k] = texts[i][k]
<1>0. PICK n \in Nat : n = Len(texts)
  OBVIOUS
<1>1. /\ f \in [0..n -> Seq(S)] /\ Joined(texts) = f[n]
      /\ \A j \in 1..n : f[j] = f[j - 1] \o texts[j] /\ texts[j] \in Seq(S)
  <2>1. /\ f \in [0..n -> Seq(S)] /\ Joined(texts) = f[n]
        /\ \A j \in 1..n : f[j] = f[j - 1] \o texts[j]
    BY <1>0 DEF IsJoin
  <2>2. \A j \in 1..n : texts[j] \in Seq(S)
    BY <1>0
  <2> QED
    BY <2>1, <2>2
<1>2. f[i - 1] \in Seq(S)
  <2>1. i - 1 \in 0..n
    BY <1>0
  <2> QED
    BY <1>1, <2>1
<1>3. PICK p \in Nat : p = Len(f[i - 1]) + k
  BY <1>0, <1>1, <1>2
<1>4. PICK c : c = texts[i][k]
  OBVIOUS
<1> DEFINE There(j) == p \in 1..Len(f[j]) /\ f[j][p] = c
<1>5. There(i)
  <2>1. PICK s, t \in Seq(S) : s = f[i - 1] /\ t = texts[i]
    BY <1>0, <1>1, <1>2
  <2>2. f[i] = s \o t
    BY <1>0, <1>1, <2>1
  <2>3. k \in 1..Len(t) /\ p = Len(s) + k /\ c = t[k]
    BY <1>3, <1>4, <2>1
  <2>4. p \in 1..Len(s \o t) /\ (s \o t)[p] = c
    BY <2>3, ConcatProperties
  <2> QED
    BY <2>2, <2>4
<1>6. ASSUME NEW j \in 1..n, There(j - 1) PROVE There(j)
  <2>1. j - 1 \in 0..n
    OBVIOUS
  <2>2. PICK s, t \in Seq(S) : s = f[j - 1] /\ t = texts[j]
    BY <1>1, <2>1
  <2>3. f[j] = s \o t
    BY <1>1, <2>2
  <2>4. p \in 1..Len(s) /\ s[p] = c
    BY <1>6, <2>2
  <2>5. p \in 1..Len(s \o t) /\ (s \o t)[p] = c
    BY <2>4, ConcatProperties
  <2> QED
    BY <2>3, <2>5
<1>7. PICK h : h = [j \in 0..n |-> (j >= i => There(j))]
  OBVIOUS
<1>8. \A j \in 0..n : h[j] = TRUE
  <2>1. h[0] = TRUE
    <3>1. 0 \in 0..n /\ ~(0 >= i)
      BY <1>0
    <3> HIDE DEF There
    <3> QED
      BY <1>7, <3>1
  <2>2. ASSUME NEW j \in 1..n, h[j - 1] = TRUE PROVE h[j] = TRUE
    <3>1. j - 1 \in 0..n /\ j \in 0..n
      OBVIOUS
    <3>2. j - 1 >= i => There(j - 1)
      BY <1>7, <2>2, <3>1
    <3> HIDE DEF There
    <3>3. j >= i => There(j)
      <4>1. CASE j = i
        BY <1>5, <4>1
      <4>2. CASE j # i
        BY <1>0, <1>6, <3>2, <4>2
      <4> QED
        BY <4>1, <4>2
    <3> QED
      BY <1>7, <3>1, <3>3
  <2> QED
    BY <2>1, <2>2, GoesOn
<1>9. There(n)
  <2>1. n \in 0..n /\ n >= i
    BY <1>0
  <2> QED
    BY <1>7, <1>8, <2>1
<1> QED
  BY <1>1, <1>3, <1>4, <1>9

-----------------------------------------------------------------------------
(***************************************************************************)
(* CSV: the quotes of a text and of what is printed of it                  *)
(***************************************************************************)

CsvText == Seq(Characters)

\* From b to c the count of quotes in t goes, with no line end outside quotes.
Turns(t, b, c) ==
    \E q \in [0..Len(t) -> BOOLEAN] :
        /\ q[0] = b
        /\ q[Len(t)] = c
        /\ \A j \in 1..Len(t) : /\ q[j] = IF t[j] = Quote THEN ~q[j - 1] ELSE q[j - 1]
                                /\ t[j] = Newline => q[j - 1]

LEMMA TurnsJoin ==
    ASSUME NEW s \in CsvText, NEW t \in CsvText, NEW a, NEW b, NEW c, Turns(s, a, b), Turns(t, b, c)
    PROVE  Turns(s \o t, a, c)
<1>1. PICK m \in Nat, n \in Nat : m = Len(s) /\ n = Len(t)
  BY DEF CsvText
<1>2. PICK p \in [0..m -> BOOLEAN] :
        /\ p[0] = a /\ p[m] = b
        /\ \A j \in 1..m : /\ p[j] = IF s[j] = Quote THEN ~p[j - 1] ELSE p[j - 1]
                           /\ s[j] = Newline => p[j - 1]
  BY <1>1 DEF Turns
<1>3. PICK r \in [0..n -> BOOLEAN] :
        /\ r[0] = b /\ r[n] = c
        /\ \A j \in 1..n : /\ r[j] = IF t[j] = Quote THEN ~r[j - 1] ELSE r[j - 1]
                           /\ t[j] = Newline => r[j - 1]
  BY <1>1 DEF Turns
<1>4. PICK u : u = s \o t
  OBVIOUS
<1>5. /\ Len(u) = m + n
      /\ \A j \in 1..m : u[j] = s[j]
      /\ \A j \in m + 1..m + n : u[j] = t[j - m]
  <2>1. Len(s \o t) = Len(s) + Len(t) /\ \A j \in 1..Len(s) + Len(t) :
           (s \o t)[j] = IF j <= Len(s) THEN s[j] ELSE t[j - Len(s)]
    BY ConcatProperties DEF CsvText
  <2> QED
    BY <1>1, <1>4, <2>1
<1>6. PICK q : q = [j \in 0..m + n |-> IF j <= m THEN p[j] ELSE r[j - m]]
  OBVIOUS
<1>7. /\ \A j \in 0..m : q[j] = p[j]
      /\ \A j \in m..m + n : q[j] = r[j - m]
  <2>1. \A j \in 0..m : q[j] = p[j]
    BY <1>6
  <2>2. ASSUME NEW j \in m..m + n PROVE q[j] = r[j - m]
    <3>1. j \in 0..m + n
      BY <2>2
    <3>2. CASE j = m
      <4>1. m <= m /\ m - m = 0
        OBVIOUS
      <4>2. q[m] = p[m] /\ r[m - m] = r[0]
        BY <1>6, <3>1, <3>2, <4>1
      <4> QED
        BY <1>2, <1>3, <3>2, <4>2
    <3>3. CASE j # m
      <4>1. ~(j <= m)
        BY <2>2, <3>3
      <4> QED
        BY <1>6, <3>1, <4>1
    <3> QED
      BY <3>2, <3>3
  <2> QED
    BY <2>1, <2>2
<1>8. q \in [0..m + n -> BOOLEAN] /\ q[0] = a /\ q[m + n] = c
  <2>1. ASSUME NEW j \in 0..m + n PROVE q[j] \in BOOLEAN
    <3>1. CASE j <= m
      BY <1>2, <1>6, <3>1
    <3>2. CASE j > m
      <4>1. j - m \in 0..n
        BY <3>2
      <4> QED
        BY <1>3, <1>6, <3>2, <4>1
    <3> QED
      BY <3>1, <3>2
  <2>2. q[0] = a
    BY <1>2, <1>7
  <2>3. q[m + n] = c
    <3>1. m + n \in m..m + n /\ m + n - m = n
      OBVIOUS
    <3> QED
      BY <1>3, <1>7, <3>1
  <2> QED
    BY <1>6, <2>1, <2>2, <2>3
<1>9. ASSUME NEW j \in 1..m + n
      PROVE  /\ q[j] = IF u[j] = Quote THEN ~q[j - 1] ELSE q[j - 1]
             /\ u[j] = Newline => q[j - 1]
  <2>1. CASE j <= m
    <3>1. j \in 0..m /\ j - 1 \in 0..m /\ j \in 1..m
      BY <2>1
    <3>2. q[j] = p[j] /\ q[j - 1] = p[j - 1] /\ u[j] = s[j]
      BY <1>5, <1>7, <3>1
    <3> QED
      BY <1>2, <3>1, <3>2
  <2>2. CASE j > m
    <3>1. PICK i \in 1..n : i = j - m
      BY <2>2
    <3>2. j \in m..m + n /\ j - 1 \in m..m + n /\ j \in m + 1..m + n /\ j - 1 - m = i - 1
      BY <2>2, <3>1
    <3>3. q[j] = r[i] /\ q[j - 1] = r[i - 1] /\ u[j] = t[i]
      BY <1>5, <1>7, <3>1, <3>2
    <3> QED
      BY <1>3, <3>3
  <2> QED
    BY <2>1, <2>2
<1>10. Turns(u, a, c)
  <2>1. q \in [0..Len(u) -> BOOLEAN] /\ q[Len(u)] = c /\ q[0] = a
    BY <1>5, <1>8
  <2>2. \A j \in 1..Len(u) : /\ q[j] = IF u[j] = Quote THEN ~q[j - 1] ELSE q[j - 1]
                             /\ u[j] = Newline => q[j - 1]
    BY <1>5, <1>9
  <2> QED
    BY <2>1, <2>2 DEF Turns
<1> QED
  BY <1>4, <1>10

LEMMA PlainTurns ==
    ASSUME NEW t \in CsvText, NEW b \in BOOLEAN,
           \A j \in 1..Len(t) : t[j] # Quote /\ (t[j] = Newline => b)
    PROVE  Turns(t, b, b)
<1>1. PICK n \in Nat : n = Len(t)
  BY DEF CsvText
<1>2. PICK q : q = [j \in 0..n |-> b]
  OBVIOUS
<1>3. q \in [0..n -> BOOLEAN] /\ q[0] = b /\ q[n] = b
  BY <1>2
<1>4. ASSUME NEW j \in 1..n
      PROVE  /\ q[j] = IF t[j] = Quote THEN ~q[j - 1] ELSE q[j - 1]
             /\ t[j] = Newline => q[j - 1]
  <2>1. q[j] = b /\ q[j - 1] = b
    BY <1>2
  <2> QED
    BY <1>1, <2>1
<1> QED
  BY <1>1, <1>3, <1>4 DEF Turns

LEMMA QuoteTurns ==
    ASSUME NEW b \in BOOLEAN
    PROVE  Turns(<<Quote>>, b, ~b)
<1>1. PICK q : q = [j \in 0..1 |-> IF j = 0 THEN b ELSE ~b]
  OBVIOUS
<1>2. q \in [0..1 -> BOOLEAN] /\ q[0] = b /\ q[1] = ~b
  BY <1>1
<1>3. Len(<<Quote>>) = 1 /\ <<Quote>>[1] = Quote /\ \A j \in 1..1 : j = 1
  OBVIOUS
<1>4. Quote # Newline
  BY DEF Quote, Newline
<1>5. ASSUME NEW j \in 1..1
      PROVE  /\ q[j] = IF <<Quote>>[j] = Quote THEN ~q[j - 1] ELSE q[j - 1]
             /\ <<Quote>>[j] = Newline => q[j - 1]
  <2>1. j = 1 /\ j - 1 = 0
    OBVIOUS
  <2> QED
    BY <1>2, <1>3, <1>4, <2>1
<1> QED
  BY <1>2, <1>3, <1>5 DEF Turns

LEMMA CharactersAre ==
    /\ {Quote, Comma, Newline, Return} \subseteq Characters
    /\ Quote # Comma /\ Quote # Newline /\ Quote # Return /\ Comma # Newline /\ Comma # Return
    /\ Newline # Return
<1>1. {Quote, Comma, Newline, Return} \subseteq Characters
  BY CsvAssumption
<1> QED
  BY <1>1 DEF Quote, Comma, Newline, Return

LEMMA CharacterTexts ==
    <<Quote>> \in CsvText /\ <<Comma>> \in CsvText /\ <<Newline>> \in CsvText
<1>1. Quote \in Characters /\ Comma \in Characters /\ Newline \in Characters
  BY CharactersAre
<1> QED
  BY <1>1 DEF CsvText

LEMMA TwoJoined ==
    ASSUME NEW c
    PROVE  <<c>> \o <<c>> = <<c, c>>
<1>1. PICK S : S = {c}
  OBVIOUS
<1>2. <<c>> \in Seq(S) /\ <<c, c>> \in Seq(S)
  BY <1>1
<1>3. PICK s \in Seq(S), t \in Seq(S) : s = <<c>> /\ t = <<c, c>>
  BY <1>2
<1>4. Len(s) = 1 /\ s[1] = c /\ Len(t) = 2 /\ t[1] = c /\ t[2] = c
  BY <1>3
<1>5. /\ s \o s \in Seq(S)
      /\ Len(s \o s) = Len(s) + Len(s)
      /\ \A i \in 1..Len(s) + Len(s) : (s \o s)[i] = IF i <= Len(s) THEN s[i] ELSE s[i - Len(s)]
  BY ConcatProperties
<1>6. Len(s \o s) = 2 /\ (s \o s)[1] = c /\ (s \o s)[2] = c
  BY <1>4, <1>5
<1>7. \A i \in 1..2 : (s \o s)[i] = t[i]
  BY <1>4, <1>6
<1>8. s \o s = t
  BY <1>4, <1>5, <1>6, <1>7, SeqEqual
<1> QED
  BY <1>3, <1>8

LEMMA TextsJoin ==
    ASSUME NEW s \in CsvText, NEW t \in CsvText
    PROVE  s \o t \in CsvText
BY DEF CsvText

\* What stands for a character in quotes.
Twice(c) == IF c = Quote THEN <<Quote, Quote>> ELSE <<c>>
Twices(v) == [i \in 1..Len(v) |-> Twice(v[i])]

LEMMA TwicesAre ==
    ASSUME NEW v \in CsvText
    PROVE  /\ Twices(v) \in Seq(CsvText)
           /\ Len(Twices(v)) = Len(v)
           /\ Doubled(v) = Joined(Twices(v))
           /\ Doubled(v) \in CsvText
<1>1. PICK n \in Nat : n = Len(v)
  BY DEF CsvText
<1>2. ASSUME NEW i \in 1..n PROVE Twice(v[i]) \in CsvText
  <2>1. v[i] \in Characters /\ Quote \in Characters
    BY <1>1, CharactersAre DEF CsvText
  <2> QED
    BY <2>1 DEF CsvText, Twice
<1>3. PICK s : s = [i \in 1..n |-> Twice(v[i])]
  OBVIOUS
<1>4. s \in Seq(CsvText) /\ Len(s) = n
  BY <1>2, <1>3
<1>5. Twices(v) = s
  BY <1>1, <1>3 DEF Twices
<1>6. Doubled(v) = Joined(s)
  BY <1>1, <1>3 DEF Doubled, Twice
<1>7. Joined(s) \in CsvText
  <2>1. s \in Seq(Seq(Characters))
    BY <1>4 DEF CsvText
  <2>2. PICK f : IsJoin(f, Characters, s)
    BY <2>1, JoinedIs
  <2>3. n \in 0..n
    OBVIOUS
  <2> QED
    BY <1>4, <2>2, <2>3 DEF IsJoin, CsvText
<1> QED
  BY <1>1, <1>4, <1>5, <1>6, <1>7

LEMMA DoubledTurns ==
    ASSUME NEW v \in CsvText
    PROVE  Turns(Doubled(v), TRUE, TRUE)
<1>0. PICK n \in Nat : n = Len(v)
  BY DEF CsvText
<1>1. PICK s : s = Twices(v)
  OBVIOUS
<1>2. s \in Seq(CsvText) /\ Len(s) = n /\ Doubled(v) = Joined(s)
  BY <1>0, <1>1, TwicesAre
<1>3. PICK f : IsJoin(f, Characters, s)
  BY <1>2, JoinedIs DEF CsvText
<1>4. /\ f \in [0..n -> CsvText] /\ f[0] = <<>> /\ Joined(s) = f[n]
      /\ \A i \in 1..n : f[i] = f[i - 1] \o s[i]
  <2>1. /\ f \in [0..Len(s) -> Seq(Characters)] /\ f[0] = <<>> /\ Joined(s) = f[Len(s)]
        /\ \A i \in 1..Len(s) : f[i] = f[i - 1] \o s[i]
    BY <1>3 DEF IsJoin
  <2> QED
    BY <1>2, <2>1 DEF CsvText
<1>5. ASSUME NEW i \in 1..n PROVE s[i] \in CsvText /\ Turns(s[i], TRUE, TRUE)
  <2>1. s[i] = Twice(v[i]) /\ s[i] \in CsvText
    BY <1>0, <1>1, <1>2 DEF Twices
  <2>2. CASE v[i] = Quote
    <3>1. Turns(<<Quote>>, TRUE, FALSE) /\ Turns(<<Quote>>, FALSE, TRUE)
      <4>1. Turns(<<Quote>>, TRUE, ~TRUE) /\ Turns(<<Quote>>, FALSE, ~FALSE)
        BY QuoteTurns
      <4> QED
        BY <4>1
    <3>2. <<Quote>> \in CsvText /\ <<Quote>> \o <<Quote>> = <<Quote, Quote>>
      BY CharacterTexts, TwoJoined
    <3>3. Turns(<<Quote, Quote>>, TRUE, TRUE)
      BY <3>1, <3>2, TurnsJoin
    <3> QED
      BY <2>1, <2>2, <3>3 DEF Twice
  <2>3. CASE v[i] # Quote
    <3>1. s[i] = <<v[i]>>
      BY <2>1, <2>3 DEF Twice
    <3>2. \A j \in 1..Len(s[i]) : s[i][j] # Quote
      BY <2>3, <3>1
    <3> QED
      BY <2>1, <3>2, PlainTurns
  <2> QED
    BY <2>2, <2>3
<1>6. PICK h : h = [i \in 0..n |-> Turns(f[i], TRUE, TRUE)]
  OBVIOUS
<1>7. \A i \in 0..n : h[i] = TRUE
  <2>1. h[0] = TRUE
    <3>1. <<>> \in CsvText /\ \A j \in 1..Len(<<>>) : FALSE
      BY DEF CsvText
    <3>2. Turns(<<>>, TRUE, TRUE)
      BY <3>1, PlainTurns
    <3>3. 0 \in 0..n
      OBVIOUS
    <3> QED
      BY <1>4, <1>6, <3>2, <3>3
  <2>2. ASSUME NEW i \in 1..n, h[i - 1] = TRUE PROVE h[i] = TRUE
    <3>1. i - 1 \in 0..n /\ i \in 0..n
      OBVIOUS
    <3>2. f[i - 1] \in CsvText /\ Turns(f[i - 1], TRUE, TRUE)
      BY <1>4, <1>6, <2>2, <3>1
    <3>3. Turns(f[i - 1] \o s[i], TRUE, TRUE)
      BY <1>5, <3>2, TurnsJoin
    <3> QED
      BY <1>4, <1>6, <3>1, <3>3
  <2> QED
    BY <2>1, <2>2, GoesOn
<1>8. n \in 0..n
  OBVIOUS
<1> QED
  BY <1>2, <1>4, <1>6, <1>7, <1>8

\* No character of t has a meaning.
IsPlain(t) == \A j \in 1..Len(t) : t[j] \notin {Comma, Quote, Newline, Return}

LEMMA EscapeIs ==
    ASSUME NEW v \in CsvText
    PROVE  /\ Escape(v) \in CsvText
           /\ \/ IsPlain(v) /\ Escape(v) = v
              \/ Escape(v) = <<Quote>> \o Doubled(v) \o <<Quote>>
<1>1. Range(v) \cap {Comma, Quote, Newline, Return} = {} => IsPlain(v)
  <2>1. DOMAIN v = 1..Len(v)
    BY DEF CsvText
  <2> QED
    BY <2>1 DEF IsPlain, Range
<1>2. Doubled(v) \in CsvText /\ <<Quote>> \in CsvText
  BY TwicesAre, CharacterTexts
<1>3. <<Quote>> \o Doubled(v) \o <<Quote>> \in CsvText
  BY <1>2 DEF CsvText
<1> QED
  BY <1>1, <1>3 DEF Escape

LEMMA EscapeTurns ==
    ASSUME NEW v \in CsvText
    PROVE  Turns(Escape(v), FALSE, FALSE)
<1>1. CASE IsPlain(v) /\ Escape(v) = v
  BY <1>1, PlainTurns DEF IsPlain
<1>2. CASE Escape(v) = <<Quote>> \o Doubled(v) \o <<Quote>>
  <2>1. PICK d \in CsvText, k \in CsvText : d = Doubled(v) /\ k = <<Quote>>
    <3>1. Doubled(v) \in CsvText
      BY TwicesAre
    <3>2. <<Quote>> \in CsvText
      BY CharacterTexts
    <3> QED
      BY <3>1, <3>2
  <2>2. Turns(k, FALSE, TRUE) /\ Turns(k, TRUE, FALSE)
    <3>1. Turns(<<Quote>>, TRUE, ~TRUE) /\ Turns(<<Quote>>, FALSE, ~FALSE)
      BY QuoteTurns
    <3> QED
      BY <2>1, <3>1
  <2>3. Turns(d, TRUE, TRUE)
    BY <2>1, DoubledTurns
  <2>4. Turns(k \o d, FALSE, TRUE) /\ k \o d \in CsvText
    BY <2>2, <2>3, TurnsJoin, TextsJoin
  <2>5. Turns((k \o d) \o k, FALSE, FALSE)
    BY <2>2, <2>4, TurnsJoin
  <2> QED
    BY <1>2, <2>1, <2>5
<1> QED
  BY <1>1, <1>2, EscapeIs

\* What the CSV prints of a row.
CsvRow == [path : CsvText, type : {t \in CsvText : IsPlain(t)}, text : CsvText]

LEMMA RowTurns ==
    ASSUME NEW row \in CsvRow
    PROVE  PrintedRow(row) \in CsvText /\ Turns(PrintedRow(row), FALSE, FALSE)
<1>1. PICK a \in CsvText, t \in CsvText, b \in CsvText, c \in CsvText :
          a = Escape(row.path) /\ t = row.type /\ b = Escape(row.text) /\ c = <<Comma>>
  <2>1. Escape(row.path) \in CsvText /\ Escape(row.text) \in CsvText
    BY EscapeIs DEF CsvRow
  <2>2. row.type \in CsvText /\ <<Comma>> \in CsvText
    BY CharacterTexts DEF CsvRow
  <2> QED
    BY <2>1, <2>2
<1>2. Turns(a, FALSE, FALSE) /\ Turns(b, FALSE, FALSE)
  BY <1>1, EscapeTurns DEF CsvRow
<1>3. Turns(t, FALSE, FALSE)
  <2>1. IsPlain(t)
    BY <1>1 DEF CsvRow
  <2> QED
    BY <2>1, PlainTurns DEF IsPlain
<1>4. Turns(c, FALSE, FALSE)
  <2>1. \A j \in 1..Len(c) : c[j] = Comma
    BY <1>1
  <2> QED
    BY <2>1, PlainTurns, CharactersAre
<1>5. Turns(a \o c, FALSE, FALSE) /\ a \o c \in CsvText
  BY <1>2, <1>4, TurnsJoin, TextsJoin
<1>6. Turns((a \o c) \o t, FALSE, FALSE) /\ (a \o c) \o t \in CsvText
  BY <1>3, <1>5, TurnsJoin, TextsJoin
<1>7. Turns(((a \o c) \o t) \o c, FALSE, FALSE) /\ ((a \o c) \o t) \o c \in CsvText
  BY <1>4, <1>6, TurnsJoin, TextsJoin
<1>8. Turns((((a \o c) \o t) \o c) \o b, FALSE, FALSE) /\ (((a \o c) \o t) \o c) \o b \in CsvText
  BY <1>2, <1>7, TurnsJoin, TextsJoin
<1> QED
  BY <1>1, <1>8 DEF PrintedRow

-----------------------------------------------------------------------------
(***************************************************************************)
(* CSV: the lines of what is printed are the rows                          *)
(***************************************************************************)

SplitState == [lines : Seq(CsvText), line : CsvText, quoted : BOOLEAN]
SplitBegun == [lines |-> <<>>, line |-> <<>>, quoted |-> FALSE]

LEMMA SplitAtChar ==
    ASSUME NEW s \in SplitState, NEW c \in Characters
    PROVE  /\ SplitAt(s, c) \in SplitState
           /\ c = Newline /\ ~s.quoted =>
                 SplitAt(s, c) = [lines |-> Append(s.lines, s.line), line |-> <<>>, quoted |-> FALSE]
           /\ ~(c = Newline /\ ~s.quoted) =>
                 SplitAt(s, c) = [lines |-> s.lines, line |-> Append(s.line, c),
                                  quoted |-> IF c = Quote THEN ~s.quoted ELSE s.quoted]
<1>1. s = [lines |-> s.lines, line |-> s.line, quoted |-> s.quoted]
  BY DEF SplitState
<1>2. s.lines \in Seq(CsvText) /\ s.line \in CsvText /\ s.quoted \in BOOLEAN
  BY DEF SplitState
<1>3. ASSUME c = Newline, ~s.quoted
      PROVE  SplitAt(s, c) = [lines |-> Append(s.lines, s.line), line |-> <<>>, quoted |-> FALSE]
  <2>1. s.quoted = FALSE
    BY <1>2, <1>3
  <2> QED
    BY <1>1, <1>3, <2>1 DEF SplitAt
<1>4. ASSUME ~(c = Newline /\ ~s.quoted)
      PROVE  SplitAt(s, c) = [lines |-> s.lines, line |-> Append(s.line, c),
                              quoted |-> IF c = Quote THEN ~s.quoted ELSE s.quoted]
  <2>1. SplitAt(s, c) = [s EXCEPT !.line = Append(@, c), !.quoted = (c = Quote) # @]
    BY <1>4 DEF SplitAt
  <2>2. ((c = Quote) # s.quoted) = IF c = Quote THEN ~s.quoted ELSE s.quoted
    BY <1>2
  <2> QED
    BY <1>1, <2>1, <2>2
<1>5. SplitAt(s, c) \in SplitState
  <2>1. Append(s.lines, s.line) \in Seq(CsvText) /\ <<>> \in CsvText /\ Append(s.line, c) \in CsvText
    <3>1. Append(s.lines, s.line) \in Seq(CsvText)
      BY <1>2
    <3>2. <<>> \in CsvText /\ Append(s.line, c) \in CsvText
      BY <1>2 DEF CsvText
    <3> QED
      BY <3>1, <3>2
  <2>4. \A u \in Seq(CsvText), v \in CsvText, b \in BOOLEAN :
           [lines |-> u, line |-> v, quoted |-> b] \in SplitState
    BY DEF SplitState
  <2>2. CASE c = Newline /\ ~s.quoted
    <3>1. [lines |-> Append(s.lines, s.line), line |-> <<>>, quoted |-> FALSE] \in SplitState
      BY <2>1, <2>4
    <3> QED
      BY <1>3, <2>2, <3>1
  <2>3. CASE ~(c = Newline /\ ~s.quoted)
    <3>1. PICK b \in BOOLEAN : b = IF c = Quote THEN ~s.quoted ELSE s.quoted
      BY <1>2
    <3>2. [lines |-> s.lines, line |-> Append(s.line, c), quoted |-> b] \in SplitState
      BY <1>2, <2>1, <2>4
    <3> QED
      BY <1>4, <2>3, <3>1, <3>2
  <2> QED
    BY <2>2, <2>3
<1> QED
  BY <1>3, <1>4, <1>5

\* The states of split_csv_lines.
IsSplit(f, text) ==
    /\ f \in [0..Len(text) -> SplitState]
    /\ f[0] = SplitBegun
    /\ \A i \in 1..Len(text) : f[i] = SplitAt(f[i - 1], text[i])
    /\ Lines(text) = Append(f[Len(text)].lines, f[Len(text)].line)

LEMMA SplitIs ==
    ASSUME NEW text \in CsvText
    PROVE  \E f : IsSplit(f, text)
<1>0. PICK n \in Nat : n = Len(text)
  BY DEF CsvText
<1> DEFINE Good(f) == f = [i \in 0..n |-> IF i = 0 THEN [lines |-> <<>>, line |-> <<>>, quoted |-> FALSE]
                                          ELSE SplitAt(f[i - 1], text[i])]
<1>1. PICK T, a : T = SplitState /\ a = SplitBegun
  OBVIOUS
<1>2. ASSUME NEW i \in 1..n, NEW s \in T PROVE SplitAt(s, text[i]) \in T
  <2>1. text[i] \in Characters
    BY <1>0 DEF CsvText
  <2> QED
    BY <1>1, <2>1, SplitAtChar
<1>3. PICK g : g = [i \in 1..n |-> [s \in T |-> SplitAt(s, text[i])]]
  OBVIOUS
<1>4. g \in [1..n -> [T -> T]]
  BY <1>2, <1>3
<1>5. a \in T
  BY <1>1 DEF SplitBegun, SplitState, CsvText
<1>6. PICK f : IsRun(f, n, T, a, g)
  <2> HIDE DEF Good
  <2> QED
    BY <1>4, <1>5, RecursionExists
<1>7. Good(f)
  <2>1. f \in [0..n -> T] /\ f[0] = SplitBegun /\ \A i \in 1..n : f[i] = g[i][f[i - 1]]
    BY <1>1, <1>6 DEF IsRun
  <2>2. ASSUME NEW i \in 1..n PROVE f[i] = SplitAt(f[i - 1], text[i])
    <3>1. i - 1 \in 0..n
      OBVIOUS
    <3> QED
      BY <1>3, <2>1, <3>1
  <2>3. \A i \in 0..n : i = 0 \/ i \in 1..n
    OBVIOUS
  <2> QED
    BY <2>1, <2>2, <2>3 DEF SplitBegun
<1>8. ASSUME NEW h, Good(h)
      PROVE  h \in [0..n -> T] /\ h[0] = a /\ \A i \in 1..n : h[i] = SplitAt(h[i - 1], text[i])
  <2>1. h[0] \in T /\ h[0] = a /\ DOMAIN h = 0..n /\ h = [i \in 0..n |-> h[i]]
    BY <1>1, <1>5, <1>8 DEF SplitBegun
  <2>2. ASSUME NEW i \in 1..n PROVE h[i] = SplitAt(h[i - 1], text[i])
    <3>1. i \in 0..n /\ i # 0
      OBVIOUS
    <3> QED
      BY <1>8, <3>1
  <2>3. ASSUME NEW i \in 1..n, h[i - 1] \in T PROVE h[i] \in T
    BY <1>2, <2>2, <2>3
  <2> HIDE DEF Good
  <2>4. \A i \in 0..n : h[i] \in T
    BY <2>1, <2>3, RecursionStays
  <2> QED
    BY <2>1, <2>2, <2>4
<1> DEFINE k == CHOOSE f1 : Good(f1)
<1>9. Lines(text) = Append(k[n].lines, k[n].line)
  BY <1>0 DEF Lines
<1> HIDE DEF Good
<1>10. PICK h : h = k
  OBVIOUS
<1>11. Good(h)
  BY <1>7, <1>10
<1>12. Lines(text) = Append(h[n].lines, h[n].line)
  BY <1>9, <1>10
<1>13. h \in [0..n -> T] /\ h[0] = a /\ \A i \in 1..n : h[i] = SplitAt(h[i - 1], text[i])
  BY <1>8, <1>11
<1> QED
  BY <1>0, <1>1, <1>12, <1>13 DEF IsSplit

\* The line of length n stands after s, and at e a line end after it.
LineAt(text, line, n, s, e) ==
    /\ n = Len(line) /\ e = s + n + 1 /\ e <= Len(text)
    /\ \A j \in 1..n : text[s + j] = line[j]
    /\ text[e] = Newline

\* At the place s these lines are split off, and the next begins.
HasSplit(f, s, lines) == f[s] = [lines |-> lines, line |-> <<>>, quoted |-> FALSE]

\* A line that closes its quotes is split off at the line end after it.
LEMMA LineEnds ==
    ASSUME NEW text \in CsvText, NEW f, IsSplit(f, text), NEW line \in CsvText,
           NEW n \in Nat, NEW s \in Nat, NEW e \in Nat, LineAt(text, line, n, s, e),
           Turns(line, FALSE, FALSE), NEW lines \in Seq(CsvText), HasSplit(f, s, lines)
    PROVE  HasSplit(f, e, Append(lines, line))
<1>13. /\ n = Len(line) /\ e = s + n + 1 /\ e <= Len(text)
      /\ \A j \in 1..n : text[s + j] = line[j]
      /\ text[e] = Newline
  BY DEF LineAt
<1>14. f[s] = [lines |-> lines, line |-> <<>>, quoted |-> FALSE]
  BY DEF HasSplit
<1>0. PICK N \in Nat : N = Len(text)
  BY DEF CsvText
<1>1. /\ f \in [0..N -> SplitState]
      /\ \A i \in 1..N : f[i] = SplitAt(f[i - 1], text[i])
  BY <1>13, <1>0 DEF IsSplit
<1>2. PICK q \in [0..n -> BOOLEAN] :
        /\ q[0] = FALSE /\ q[n] = FALSE
        /\ \A j \in 1..n : /\ q[j] = IF line[j] = Quote THEN ~q[j - 1] ELSE q[j - 1]
                           /\ line[j] = Newline => q[j - 1]
  BY <1>13, <1>0 DEF Turns
<1> DEFINE Here(j) == [lines |-> lines, line |-> SubSeq(line, 1, j), quoted |-> q[j]]
<1>3. ASSUME NEW j \in 1..n, f[s + (j - 1)] = Here(j - 1) PROVE f[s + j] = Here(j)
  <2>1. s + j \in 1..N /\ s + j - 1 = s + (j - 1) /\ s + (j - 1) \in 0..N
    BY <1>13, <1>0
  <2>2. PICK a : a = f[s + (j - 1)]
    OBVIOUS
  <2>3. a \in SplitState /\ a.lines = lines /\ a.line = SubSeq(line, 1, j - 1) /\ a.quoted = q[j - 1]
    BY <1>1, <1>3, <2>1, <2>2
  <2>4. text[s + j] = line[j] /\ line[j] \in Characters
    <3>1. text[s + j] = line[j] /\ j \in 1..Len(line)
      BY <1>13
    <3> QED
      BY <3>1 DEF CsvText
  <2>5. f[s + j] = SplitAt(a, line[j])
    BY <1>1, <2>1, <2>2, <2>4
  <2>6. ~(line[j] = Newline /\ ~a.quoted)
    BY <1>2, <2>3
  <2>7. SplitAt(a, line[j]) = [lines |-> a.lines, line |-> Append(a.line, line[j]),
                               quoted |-> IF line[j] = Quote THEN ~a.quoted ELSE a.quoted]
    BY <2>3, <2>4, <2>6, SplitAtChar
  <2>8. Append(SubSeq(line, 1, j - 1), line[j]) = SubSeq(line, 1, j)
    BY <1>13, <1>0 DEF CsvText
  <2>9. q[j] = IF line[j] = Quote THEN ~a.quoted ELSE a.quoted
    BY <1>2, <2>3
  <2> QED
    BY <2>3, <2>5, <2>7, <2>8, <2>9
<1>4. f[s] = Here(0)
  <2>1. SubSeq(line, 1, 0) = <<>>
    BY EmptyPart
  <2> QED
    BY <1>14, <1>2, <2>1
<1>5. PICK h : h = [j \in 0..n |-> f[s + j] = Here(j)]
  OBVIOUS
<1>6. \A j \in 0..n : h[j] = TRUE
  <2>1. h[0] = TRUE
    <3>1. s + 0 = s /\ 0 \in 0..n
      OBVIOUS
    <3> QED
      BY <1>4, <1>5, <3>1
  <2> HIDE DEF Here
  <2>2. ASSUME NEW j \in 1..n, h[j - 1] = TRUE PROVE h[j] = TRUE
    <3>1. j - 1 \in 0..n /\ j \in 0..n
      OBVIOUS
    <3>2. f[s + (j - 1)] = Here(j - 1)
      BY <1>5, <2>2, <3>1
    <3> QED
      BY <1>3, <1>5, <3>1, <3>2
  <2> QED
    BY <2>1, <2>2, GoesOn
<1>7. f[s + n] = [lines |-> lines, line |-> line, quoted |-> FALSE]
  <2>1. n \in 0..n /\ SubSeq(line, 1, n) = line
    BY <1>13, <1>0 DEF CsvText
  <2>2. f[s + n] = Here(n)
    <3> HIDE DEF Here
    <3> QED
      BY <1>5, <1>6, <2>1
  <2> QED
    BY <1>2, <2>1, <2>2
<1>8. s + n + 1 \in 1..N /\ s + n + 1 - 1 = s + n /\ s + n \in 0..N
  BY <1>13, <1>0
<1>9. PICK a : a = f[s + n]
  OBVIOUS
<1>10. a \in SplitState /\ a.lines = lines /\ a.line = line /\ a.quoted = FALSE
  BY <1>1, <1>7, <1>8, <1>9
<1>11. f[s + n + 1] = SplitAt(a, Newline)
  <2>1. text[s + n + 1] = Newline
    BY <1>13
  <2>2. f[s + n + 1] = SplitAt(f[s + n + 1 - 1], text[s + n + 1])
    BY <1>1, <1>8
  <2>3. f[s + n + 1 - 1] = a
    BY <1>8, <1>9
  <2> QED
    BY <2>1, <2>2, <2>3
<1>12. SplitAt(a, Newline) = [lines |-> Append(a.lines, a.line), line |-> <<>>, quoted |-> FALSE]
  BY <1>10, SplitAtChar, CharactersAre
<1> QED
  BY <1>13, <1>0, <1>10, <1>11, <1>12 DEF HasSplit

Pieces(rows) == [i \in 1..Len(rows) |-> PrintedRow(rows[i]) \o <<Newline>>]

LEMMA PiecesAre ==
    ASSUME NEW rows \in Seq(CsvRow)
    PROVE  /\ Pieces(rows) \in Seq(CsvText) /\ Len(Pieces(rows)) = Len(rows)
           /\ \A i \in 1..Len(rows) : PrintedRow(rows[i]) \in CsvText
           /\ Printed(rows) = CsvHeader \o <<Newline>> \o Joined(Pieces(rows))
<1>1. PICK n \in Nat : n = Len(rows)
  OBVIOUS
<1>2. ASSUME NEW i \in 1..n
      PROVE  PrintedRow(rows[i]) \in CsvText /\ PrintedRow(rows[i]) \o <<Newline>> \in CsvText
  <2>1. rows[i] \in CsvRow
    BY <1>1
  <2>2. PrintedRow(rows[i]) \in CsvText
    BY <2>1, RowTurns
  <2> QED
    BY <2>2, TextsJoin, CharacterTexts
<1>3. PICK s : s = [i \in 1..n |-> PrintedRow(rows[i]) \o <<Newline>>]
  OBVIOUS
<1>4. s \in Seq(CsvText) /\ Len(s) = n
  BY <1>2, <1>3
<1>5. Pieces(rows) = s
  BY <1>1, <1>3 DEF Pieces
<1>6. Printed(rows) = CsvHeader \o <<Newline>> \o Joined(s)
  BY <1>1, <1>3 DEF Printed
<1> QED
  BY <1>1, <1>2, <1>4, <1>5, <1>6

LEMMA HeaderIs ==
    /\ CsvHeader \in CsvText
    /\ Len(CsvHeader) \in Nat
    /\ \A j \in 1..Len(CsvHeader) : CsvHeader[j] # Quote /\ CsvHeader[j] # Newline
<1>1. PICK C : C = Characters \ {Quote, Newline}
  OBVIOUS
<1>2. CsvHeader \in Seq(C)
  BY <1>1, CsvAssumption
<1>3. PICK s \in Seq(C) : s = CsvHeader
  BY <1>2
<1>4. \A j \in 1..Len(s) : s[j] \in C
  OBVIOUS
<1>5. \A j \in 1..Len(s) : s[j] \in Characters /\ s[j] # Quote /\ s[j] # Newline
  BY <1>1, <1>4
<1>6. s \in Seq(Characters) /\ Len(s) \in Nat
  BY <1>5
<1> QED
  BY <1>3, <1>5, <1>6 DEF CsvText

\* Where the header, and where the rest of a CSV stands.
LEMMA PlacesInPrinted ==
    ASSUME NEW rest \in CsvText
    PROVE  /\ CsvHeader \o <<Newline>> \o rest \in CsvText
           /\ Len(CsvHeader \o <<Newline>> \o rest) = Len(CsvHeader) + 1 + Len(rest)
           /\ \A j \in 1..Len(CsvHeader) : (CsvHeader \o <<Newline>> \o rest)[j] = CsvHeader[j]
           /\ (CsvHeader \o <<Newline>> \o rest)[Len(CsvHeader) + 1] = Newline
           /\ \A j \in 1..Len(rest) : (CsvHeader \o <<Newline>> \o rest)[Len(CsvHeader) + 1 + j] = rest[j]
<1>1. CsvHeader \in CsvText
  BY HeaderIs
<1>2. PICK s \in CsvText, c \in CsvText : s = CsvHeader /\ c = <<Newline>>
  BY <1>1, CharacterTexts
<1>3. PICK m \in Nat, n \in Nat : m = Len(s) /\ n = Len(rest)
  BY DEF CsvText
<1>4. Len(c) = 1 /\ c[1] = Newline
  BY <1>2
<1>5. PICK u : u = s \o c
  OBVIOUS
<1>6. /\ u \in CsvText /\ Len(u) = m + 1
      /\ \A i \in 1..m + 1 : u[i] = IF i <= m THEN s[i] ELSE c[i - m]
  <2>1. /\ s \o c \in CsvText
        /\ Len(s \o c) = Len(s) + Len(c)
        /\ \A i \in 1..Len(s) + Len(c) : (s \o c)[i] = IF i <= Len(s) THEN s[i] ELSE c[i - Len(s)]
    BY ConcatProperties DEF CsvText
  <2> QED
    BY <1>3, <1>4, <1>5, <2>1
<1>7. PICK w : w = u \o rest
  OBVIOUS
<1>8. /\ w \in CsvText /\ Len(w) = m + 1 + n
      /\ \A i \in 1..m + 1 + n : w[i] = IF i <= m + 1 THEN u[i] ELSE rest[i - (m + 1)]
  <2>1. /\ u \o rest \in CsvText
        /\ Len(u \o rest) = Len(u) + Len(rest)
        /\ \A i \in 1..Len(u) + Len(rest) :
              (u \o rest)[i] = IF i <= Len(u) THEN u[i] ELSE rest[i - Len(u)]
    BY <1>6, ConcatProperties DEF CsvText
  <2> QED
    BY <1>3, <1>6, <1>7, <2>1
<1>9. ASSUME NEW j \in 1..m PROVE w[j] = s[j]
  BY <1>6, <1>8
<1>10. w[m + 1] = Newline
  BY <1>4, <1>6, <1>8
<1>11. ASSUME NEW j \in 1..n PROVE w[m + 1 + j] = rest[j]
  <2>1. m + 1 + j \in 1..m + 1 + n /\ ~(m + 1 + j <= m + 1) /\ m + 1 + j - (m + 1) = j
    OBVIOUS
  <2> QED
    BY <1>8, <2>1
<1> QED
  BY <1>2, <1>3, <1>5, <1>7, <1>8, <1>9, <1>10, <1>11

\* Each row of a CSV is a line of its own, and an empty one ends it.
LEMMA PrintedLines ==
    ASSUME NEW rows \in Seq(CsvRow)
    PROVE  Tail(Lines(Printed(rows))) =
               [j \in 1..Len(rows) + 1 |-> IF j <= Len(rows) THEN PrintedRow(rows[j]) ELSE <<>>]
<1>0. PICK n \in Nat : n = Len(rows)
  OBVIOUS
<1>1. PICK pieces : pieces = Pieces(rows)
  OBVIOUS
<1>2. /\ pieces \in Seq(CsvText) /\ Len(pieces) = n
      /\ \A i \in 1..n : pieces[i] = PrintedRow(rows[i]) \o <<Newline>> /\ PrintedRow(rows[i]) \in CsvText
  <2>1. \A i \in 1..n : pieces[i] = PrintedRow(rows[i]) \o <<Newline>>
    BY <1>0, <1>1 DEF Pieces
  <2> QED
    BY <1>0, <1>1, <2>1, PiecesAre
<1>3. PICK g : IsJoin(g, Characters, pieces)
  BY <1>2, JoinedIs DEF CsvText
<1>4. PICK rest : rest = Joined(pieces)
  OBVIOUS
<1>5. /\ g \in [0..n -> CsvText] /\ g[0] = <<>> /\ rest = g[n]
      /\ \A i \in 1..n : g[i] = g[i - 1] \o pieces[i]
  <2>1. /\ g \in [0..Len(pieces) -> Seq(Characters)] /\ g[0] = <<>> /\ Joined(pieces) = g[Len(pieces)]
        /\ \A i \in 1..Len(pieces) : g[i] = g[i - 1] \o pieces[i]
    BY <1>3 DEF IsJoin
  <2> QED
    BY <1>2, <1>4, <2>1 DEF CsvText
<1>6. rest \in CsvText
  <2>1. n \in 0..n
    OBVIOUS
  <2> QED
    BY <1>5, <2>1
<1>7. PICK text : text = Printed(rows)
  OBVIOUS
<1>8. PICK m \in Nat, r \in Nat : m = Len(CsvHeader) /\ r = Len(rest)
  <2>1. CsvHeader \in CsvText
    BY HeaderIs
  <2> QED
    BY <1>6, <2>1 DEF CsvText
<1>9. text = CsvHeader \o <<Newline>> \o rest
  BY <1>1, <1>4, <1>7, PiecesAre
<1>10. /\ text \in CsvText /\ Len(text) = m + 1 + r
       /\ \A j \in 1..m : text[j] = CsvHeader[j]
       /\ text[m + 1] = Newline
       /\ \A j \in 1..r : text[m + 1 + j] = rest[j]
  BY <1>6, <1>8, <1>9, PlacesInPrinted
<1>11. PICK f : IsSplit(f, text)
  BY <1>10, SplitIs
<1> DEFINE LinesTo(i) == [j \in 1..i + 1 |-> IF j = 1 THEN CsvHeader ELSE PrintedRow(rows[j - 1])]
           Here(i) == f[m + 1 + Len(g[i])] = [lines |-> LinesTo(i), line |-> <<>>, quoted |-> FALSE]
<1>12. ASSUME NEW i \in 0..n PROVE LinesTo(i) \in Seq(CsvText) /\ Len(LinesTo(i)) = i + 1
  <2>1. CsvHeader \in CsvText
    BY HeaderIs
  <2>2. ASSUME NEW j \in 1..i + 1 PROVE (IF j = 1 THEN CsvHeader ELSE PrintedRow(rows[j - 1])) \in CsvText
    <3>1. j # 1 => j - 1 \in 1..n
      OBVIOUS
    <3> QED
      BY <1>2, <2>1, <3>1
  <2> QED
    BY <2>2
<1>13. ASSUME NEW i \in 1..n PROVE Append(LinesTo(i - 1), PrintedRow(rows[i])) = LinesTo(i)
  <2>1. i - 1 \in 0..n /\ i \in 0..n /\ i - 1 + 1 = i
    OBVIOUS
  <2>2. PICK s \in Seq(CsvText), t \in Seq(CsvText), c \in CsvText :
           s = LinesTo(i - 1) /\ t = LinesTo(i) /\ c = PrintedRow(rows[i])
    <3> HIDE DEF LinesTo
    <3> QED
      BY <1>2, <1>12, <2>1
  <2>3. Len(s) = i /\ Len(t) = i + 1
    <3> HIDE DEF LinesTo
    <3> QED
      BY <1>12, <2>1, <2>2
  <2>4. t[i + 1] = c /\ \A j \in 1..i : t[j] = s[j]
    BY <2>1, <2>2
  <2>5. Append(s, c) \in Seq(CsvText) /\ Len(Append(s, c)) = i + 1
        /\ Append(s, c)[i + 1] = c /\ \A j \in 1..i : Append(s, c)[j] = s[j]
    BY <2>3, AppendProperties
  <2>6. \A j \in 1..i + 1 : Append(s, c)[j] = t[j]
    BY <2>4, <2>5
  <2>7. Append(s, c) = t
    BY <2>3, <2>5, <2>6, SeqEqual
  <2> QED
    BY <2>2, <2>7
<1>14. Here(0)
  <2>1. CsvHeader \in CsvText /\ \A j \in 1..m : CsvHeader[j] # Quote /\ CsvHeader[j] # Newline
    BY <1>8, HeaderIs
  <2>2. Turns(CsvHeader, FALSE, FALSE)
    BY <1>8, <2>1, PlainTurns
  <2>3. <<>> \in Seq(CsvText) /\ HasSplit(f, 0, <<>>)
    BY <1>11 DEF IsSplit, SplitBegun, HasSplit
  <2>4. PICK e \in Nat : e = m + 1
    OBVIOUS
  <2>8. LineAt(text, CsvHeader, m, 0, e)
    <3>1. e = 0 + m + 1 /\ e <= Len(text) /\ text[e] = Newline /\ \A j \in 1..m : text[0 + j] = CsvHeader[j]
      BY <1>10, <2>4
    <3> QED
      BY <1>8, <3>1 DEF LineAt
  <2>9. text \in CsvText
    BY <1>10
  <2>5. HasSplit(f, e, Append(<<>>, CsvHeader))
    BY <1>11, <2>1, <2>2, <2>3, <2>8, <2>9, LineEnds
  <2>6. LinesTo(0) = <<CsvHeader>> /\ Append(<<>>, CsvHeader) = <<CsvHeader>>
    OBVIOUS
  <2>7. Len(g[0]) = 0 /\ m + 1 + 0 = e
    BY <1>5, <2>4
  <2> QED
    BY <2>5, <2>6, <2>7 DEF HasSplit
<1>15. ASSUME NEW i \in 1..n, Here(i - 1) PROVE Here(i)
  <2>1. i - 1 \in 0..n /\ i \in 0..n
    OBVIOUS
  <2>2. PICK line \in CsvText : line = PrintedRow(rows[i])
    BY <1>2
  <2>3. PICK l \in Nat, p \in Nat : l = Len(line) /\ p = Len(g[i - 1])
    BY <1>5, <2>1 DEF CsvText
  <2>4. /\ pieces[i] \in CsvText /\ Len(pieces[i]) = l + 1
        /\ \A j \in 1..l : pieces[i][j] = line[j]
        /\ pieces[i][l + 1] = Newline
    <3>1. PICK c \in CsvText : c = <<Newline>>
      BY CharacterTexts
    <3>2. pieces[i] = line \o c /\ Len(c) = 1 /\ c[1] = Newline
      BY <1>2, <2>2, <3>1
    <3>3. /\ line \o c \in CsvText /\ Len(line \o c) = l + 1
          /\ \A j \in 1..l + 1 : (line \o c)[j] = IF j <= l THEN line[j] ELSE c[j - l]
      <4>1. /\ line \o c \in CsvText /\ Len(line \o c) = Len(line) + Len(c)
            /\ \A j \in 1..Len(line) + Len(c) :
                  (line \o c)[j] = IF j <= Len(line) THEN line[j] ELSE c[j - Len(line)]
        BY ConcatProperties DEF CsvText
      <4> QED
        BY <2>3, <3>2, <4>1
    <3> QED
      BY <2>3, <3>2, <3>3
  <2>5. ASSUME NEW j \in 1..l + 1
        PROVE  p + j \in 1..r /\ rest[p + j] = pieces[i][j]
    <3>1. /\ pieces \in Seq(Seq(Characters)) /\ i \in 1..Len(pieces) /\ j \in 1..Len(pieces[i])
      BY <1>2, <2>4 DEF CsvText
    <3>2. /\ Len(g[i - 1]) + j \in 1..Len(Joined(pieces))
          /\ Joined(pieces)[Len(g[i - 1]) + j] = pieces[i][j]
      BY <1>3, <3>1, JoinedPlaces
    <3> QED
      BY <1>4, <1>8, <2>3, <3>2
  <2>6. Len(g[i]) = p + l + 1
    <3>1. g[i] = g[i - 1] \o pieces[i] /\ g[i - 1] \in CsvText
      BY <1>5, <2>1
    <3>2. Len(g[i - 1] \o pieces[i]) = Len(g[i - 1]) + Len(pieces[i])
      BY <2>4, <3>1, ConcatProperties DEF CsvText
    <3>3. Len(g[i]) = Len(g[i - 1]) + Len(pieces[i])
      BY <3>1, <3>2
    <3>4. Len(g[i - 1]) = p /\ Len(pieces[i]) = l + 1
      BY <2>3, <2>4
    <3>5. p \in Nat /\ l \in Nat
      OBVIOUS
    <3> QED
      BY <3>3, <3>4, <3>5
  <2>7. PICK s \in Nat : s = m + 1 + p
    <3>1. m \in Nat /\ p \in Nat
      OBVIOUS
    <3> QED
      BY <3>1
  <2>8. ASSUME NEW j \in 1..l + 1 PROVE text[s + j] = pieces[i][j] /\ s + j <= Len(text)
    <3>1. p + j \in 1..r /\ rest[p + j] = pieces[i][j] /\ m + 1 + (p + j) = s + j
      <4>1. p + j \in 1..r /\ rest[p + j] = pieces[i][j]
        BY <2>5
      <4>2. j \in Nat /\ m \in Nat
        OBVIOUS
      <4>3. m + 1 + (p + j) = s + j
        BY <2>7, <4>2
      <4> QED
        BY <4>1, <4>3
    <3>2. PICK k \in 1..r : k = p + j
      BY <3>1
    <3>3. text[m + 1 + k] = rest[k]
      BY <1>10
    <3>4. Len(text) = m + 1 + r
      BY <1>10
    <3>5. m + 1 + k <= m + 1 + r
      OBVIOUS
    <3> QED
      BY <3>1, <3>2, <3>3, <3>4, <3>5
  <2>16. PICK e \in Nat : e = s + l + 1
    OBVIOUS
  <2>9. LineAt(text, line, l, s, e)
    <3>1. l + 1 \in 1..l + 1 /\ s + (l + 1) = e /\ \A j \in 1..l : j \in 1..l + 1
      BY <2>16
    <3>2. text[e] = Newline /\ e <= Len(text)
      BY <2>4, <2>8, <3>1
    <3>3. \A j \in 1..l : text[s + j] = line[j]
      BY <2>4, <2>8, <3>1
    <3> QED
      BY <2>3, <2>16, <3>2, <3>3 DEF LineAt
  <2>10. Turns(line, FALSE, FALSE)
    <3>1. rows[i] \in CsvRow
      BY <1>0
    <3> QED
      BY <2>2, <3>1, RowTurns
  <2>11. PICK lines \in Seq(CsvText) : lines = LinesTo(i - 1)
    <3> HIDE DEF LinesTo
    <3> QED
      BY <1>12, <2>1
  <2>12. HasSplit(f, s, lines)
    BY <1>15, <2>3, <2>7, <2>11 DEF HasSplit
  <2>13. HasSplit(f, e, Append(lines, line))
    <3>1. text \in CsvText
      BY <1>10
    <3> HIDE DEF Here
    <3> QED
      BY <1>11, <2>9, <2>10, <2>12, <3>1, LineEnds
  <2>14. Append(lines, line) = LinesTo(i)
    <3> HIDE DEF LinesTo
    <3> QED
      BY <1>13, <2>2, <2>11
  <2>15. e = m + 1 + Len(g[i])
    <3>1. s = m + 1 + p /\ m \in Nat /\ p \in Nat /\ l \in Nat
      BY <2>7
    <3>2. e = m + 1 + (p + l + 1)
      BY <2>16, <3>1
    <3> QED
      BY <2>6, <3>2
  <2> QED
    BY <2>13, <2>14, <2>15 DEF HasSplit
<1>16. PICK h : h = [i \in 0..n |-> Here(i)]
  OBVIOUS
<1>17. \A i \in 0..n : h[i] = TRUE
  <2> HIDE DEF Here
  <2>1. h[0] = TRUE
    <3>1. 0 \in 0..n
      OBVIOUS
    <3> QED
      BY <1>14, <1>16, <3>1
  <2>2. ASSUME NEW i \in 1..n, h[i - 1] = TRUE PROVE h[i] = TRUE
    <3>1. i - 1 \in 0..n /\ i \in 0..n
      OBVIOUS
    <3> QED
      BY <1>15, <1>16, <2>2, <3>1
  <2> QED
    BY <2>1, <2>2, GoesOn
<1>18. f[Len(text)] = [lines |-> LinesTo(n), line |-> <<>>, quoted |-> FALSE]
  <2>1. n \in 0..n
    OBVIOUS
  <2>2. Here(n)
    <3> HIDE DEF Here
    <3> QED
      BY <1>16, <1>17, <2>1
  <2> QED
    BY <1>5, <1>8, <1>10, <2>2
<1>19. Lines(text) = Append(LinesTo(n), <<>>)
  BY <1>11, <1>18 DEF IsSplit
<1>20. PICK s \in Seq(CsvText) : s = LinesTo(n) /\ Len(s) = n + 1
  <2>1. n \in 0..n
    OBVIOUS
  <2> HIDE DEF LinesTo
  <2> QED
    BY <1>12, <2>1
<1>21. \A j \in 1..n : s[j + 1] = PrintedRow(rows[j])
  BY <1>20
<1>22. <<>> \in CsvText
  BY DEF CsvText
<1>23. PICK t \in Seq(CsvText) : t = Append(s, <<>>)
  BY <1>22, AppendProperties
<1>24. /\ Len(t) = n + 2 /\ t[n + 2] = <<>>
       /\ \A j \in 1..n : t[j + 1] = PrintedRow(rows[j])
  <2>1. /\ Len(Append(s, <<>>)) = Len(s) + 1 /\ Append(s, <<>>)[Len(s) + 1] = <<>>
        /\ \A j \in 1..Len(s) : Append(s, <<>>)[j] = s[j]
    BY <1>22, AppendProperties
  <2>2. \A j \in 1..n : j + 1 \in 1..Len(s)
    BY <1>20
  <2> QED
    BY <1>20, <1>21, <1>23, <2>1, <2>2
<1>25. Tail(t) = [j \in 1..n + 1 |-> IF j <= n THEN PrintedRow(rows[j]) ELSE <<>>]
  <2>1. /\ Tail(t) \in Seq(CsvText) /\ Len(Tail(t)) = n + 1
        /\ \A j \in 1..n + 1 : Tail(t)[j] = t[j + 1]
    <3>1. t # <<>> /\ Len(t) - 1 = n + 1
      BY <1>24
    <3> QED
      BY <3>1, HeadTailProperties
  <2>2. ASSUME NEW j \in 1..n + 1 PROVE t[j + 1] = IF j <= n THEN PrintedRow(rows[j]) ELSE <<>>
    <3>1. CASE j <= n
      BY <1>24, <3>1
    <3>2. CASE j > n
      <4>1. j + 1 = n + 2
        BY <3>2
      <4> QED
        BY <1>24, <3>2, <4>1
    <3> QED
      BY <3>1, <3>2
  <2>3. PICK u \in Seq(CsvText) : u = Tail(t)
    BY <2>1
  <2>4. u = [j \in 1..n + 1 |-> u[j]]
    <3>1. Len(u) = n + 1 /\ u \in [1..Len(u) -> CsvText]
      BY <2>1, <2>3, LenProperties
    <3> QED
      BY <3>1
  <2>5. \A j \in 1..n + 1 : u[j] = IF j <= n THEN PrintedRow(rows[j]) ELSE <<>>
    BY <2>1, <2>2, <2>3
  <2> QED
    BY <2>3, <2>4, <2>5
<1> QED
  BY <1>0, <1>7, <1>19, <1>20, <1>23, <1>25

-----------------------------------------------------------------------------
(***************************************************************************)
(* CSV: the fields of a row are its texts                                  *)
(***************************************************************************)

\* The states of parse_csv_line: the fields so far, what the next has got, out of
\* quotes, within them, and before the second of two quotes there.
Unquoted(fields, field) == [fields |-> fields, field |-> field, quoted |-> FALSE, skip |-> FALSE]
Quoted(fields, field) == [fields |-> fields, field |-> field, quoted |-> TRUE, skip |-> FALSE]
Halfway(fields, field) == [fields |-> fields, field |-> field, quoted |-> TRUE, skip |-> TRUE]

FieldState == [fields : Seq(CsvText), field : CsvText, quoted : BOOLEAN, skip : BOOLEAN]

\* The character at i and the next are quotes.
IsTwice(line, i) == line[i] = Quote /\ i < Len(line) /\ line[i + 1] = Quote

LEMMA SkippedChar ==
    ASSUME NEW F, NEW v, NEW line, NEW i
    PROVE  FieldAt(Halfway(F, v), line, i) = Quoted(F, v)
<1>1. PICK s : s = [fields |-> F, field |-> v, quoted |-> TRUE, skip |-> TRUE]
  OBVIOUS
<1>2. s.fields = F /\ s.field = v /\ s.quoted = TRUE /\ s.skip = TRUE
  BY <1>1
<1>3. s = Halfway(F, v)
  BY <1>1 DEF Halfway
<1>4. FieldAt(s, line, i) = [s EXCEPT !.skip = FALSE]
  BY <1>2 DEF FieldAt
<1>5. FieldAt(s, line, i) = Quoted(F, v)
  BY <1>1, <1>2, <1>4 DEF Quoted
<1> QED
  BY <1>3, <1>5

LEMMA TwiceChar ==
    ASSUME NEW F, NEW v, NEW line, NEW i, IsTwice(line, i)
    PROVE  FieldAt(Quoted(F, v), line, i) = Halfway(F, Append(v, Quote))
<1>1. PICK s : s = [fields |-> F, field |-> v, quoted |-> TRUE, skip |-> FALSE]
  OBVIOUS
<1>2. s.fields = F /\ s.field = v /\ s.quoted = TRUE /\ s.skip = FALSE
  BY <1>1
<1>3. s = Quoted(F, v)
  BY <1>1 DEF Quoted
<1>4. FieldAt(s, line, i) = [s EXCEPT !.field = Append(@, Quote), !.skip = TRUE]
  BY <1>2 DEF FieldAt, IsTwice
<1>5. FieldAt(s, line, i) = Halfway(F, Append(v, Quote))
  BY <1>1, <1>2, <1>4 DEF Halfway
<1> QED
  BY <1>3, <1>5

LEMMA OpenChar ==
    ASSUME NEW F, NEW v, NEW line, NEW i, line[i] = Quote
    PROVE  FieldAt(Unquoted(F, v), line, i) = Quoted(F, v)
<1>1. PICK s : s = [fields |-> F, field |-> v, quoted |-> FALSE, skip |-> FALSE]
  OBVIOUS
<1>2. s.fields = F /\ s.field = v /\ s.quoted = FALSE /\ s.skip = FALSE
  BY <1>1
<1>3. s = Unquoted(F, v)
  BY <1>1 DEF Unquoted
<1>4. FieldAt(s, line, i) = [s EXCEPT !.quoted = ~@]
  BY <1>2, CharactersAre DEF FieldAt
<1>5. FieldAt(s, line, i) = Quoted(F, v)
  BY <1>1, <1>2, <1>4 DEF Quoted
<1> QED
  BY <1>3, <1>5

LEMMA CloseChar ==
    ASSUME NEW F, NEW v, NEW line, NEW i, line[i] = Quote, ~IsTwice(line, i)
    PROVE  FieldAt(Quoted(F, v), line, i) = Unquoted(F, v)
<1>1. PICK s : s = [fields |-> F, field |-> v, quoted |-> TRUE, skip |-> FALSE]
  OBVIOUS
<1>2. s.fields = F /\ s.field = v /\ s.quoted = TRUE /\ s.skip = FALSE
  BY <1>1
<1>3. s = Quoted(F, v)
  BY <1>1 DEF Quoted
<1>4. FieldAt(s, line, i) = [s EXCEPT !.quoted = ~@]
  BY <1>2 DEF FieldAt, IsTwice
<1>5. FieldAt(s, line, i) = Unquoted(F, v)
  BY <1>1, <1>2, <1>4 DEF Unquoted
<1> QED
  BY <1>3, <1>5

LEMMA CommaChar ==
    ASSUME NEW F, NEW v, NEW line, NEW i, line[i] = Comma
    PROVE  FieldAt(Unquoted(F, v), line, i) = Unquoted(Append(F, v), <<>>)
<1>1. PICK s : s = [fields |-> F, field |-> v, quoted |-> FALSE, skip |-> FALSE]
  OBVIOUS
<1>2. s.fields = F /\ s.field = v /\ s.quoted = FALSE /\ s.skip = FALSE
  BY <1>1
<1>3. s = Unquoted(F, v)
  BY <1>1 DEF Unquoted
<1>4. FieldAt(s, line, i) = [s EXCEPT !.fields = Append(@, s.field), !.field = <<>>]
  BY <1>2, CharactersAre DEF FieldAt
<1>5. FieldAt(s, line, i) = Unquoted(Append(F, v), <<>>)
  BY <1>1, <1>2, <1>4 DEF Unquoted
<1> QED
  BY <1>3, <1>5

LEMMA InnerChar ==
    ASSUME NEW F, NEW v, NEW line, NEW i, line[i] # Quote
    PROVE  FieldAt(Quoted(F, v), line, i) = Quoted(F, Append(v, line[i]))
<1>1. PICK s : s = [fields |-> F, field |-> v, quoted |-> TRUE, skip |-> FALSE]
  OBVIOUS
<1>2. s.fields = F /\ s.field = v /\ s.quoted = TRUE /\ s.skip = FALSE
  BY <1>1
<1>3. s = Quoted(F, v)
  BY <1>1 DEF Quoted
<1>4. FieldAt(s, line, i) = [s EXCEPT !.field = Append(@, line[i])]
  BY <1>2 DEF FieldAt
<1>5. FieldAt(s, line, i) = Quoted(F, Append(v, line[i]))
  BY <1>1, <1>2, <1>4 DEF Quoted
<1> QED
  BY <1>3, <1>5

LEMMA PlainChar ==
    ASSUME NEW F, NEW v, NEW line, NEW i, line[i] # Quote, line[i] # Comma
    PROVE  FieldAt(Unquoted(F, v), line, i) = Unquoted(F, Append(v, line[i]))
<1>1. PICK s : s = [fields |-> F, field |-> v, quoted |-> FALSE, skip |-> FALSE]
  OBVIOUS
<1>2. s.fields = F /\ s.field = v /\ s.quoted = FALSE /\ s.skip = FALSE
  BY <1>1
<1>3. s = Unquoted(F, v)
  BY <1>1 DEF Unquoted
<1>4. FieldAt(s, line, i) = [s EXCEPT !.field = Append(@, line[i])]
  BY <1>2 DEF FieldAt
<1>5. FieldAt(s, line, i) = Unquoted(F, Append(v, line[i]))
  BY <1>1, <1>2, <1>4 DEF Unquoted
<1> QED
  BY <1>3, <1>5

LEMMA FieldAtStays ==
    ASSUME NEW s \in FieldState, NEW line \in CsvText, NEW i \in 1..Len(line)
    PROVE  FieldAt(s, line, i) \in FieldState
<1>1. PICK T, V : T = Seq(CsvText) /\ V = CsvText
  OBVIOUS
<1>2. FieldState = [fields : T, field : V, quoted : BOOLEAN, skip : BOOLEAN]
  BY <1>1 DEF FieldState
<1>3. line[i] \in Characters /\ Quote \in Characters
  BY CharactersAre DEF CsvText
<1>4. s.fields \in T /\ s.field \in V
  BY <1>2
<1>5. /\ Append(s.field, Quote) \in V /\ Append(s.field, line[i]) \in V /\ <<>> \in V
      /\ Append(s.fields, s.field) \in T
  <2>1. s.field \in Seq(Characters) /\ V = Seq(Characters)
    BY <1>1, <1>4 DEF CsvText
  <2>2. Append(s.field, Quote) \in V /\ Append(s.field, line[i]) \in V /\ <<>> \in V
    BY <1>3, <2>1
  <2> QED
    BY <1>1, <1>4, <2>2
<1>6. PICK t : t = FieldAt(s, line, i)
  OBVIOUS
<1>7. \/ t = [s EXCEPT !.skip = FALSE]
      \/ t = [s EXCEPT !.field = Append(@, Quote), !.skip = TRUE]
      \/ t = [s EXCEPT !.quoted = ~@]
      \/ t = [s EXCEPT !.fields = Append(@, s.field), !.field = <<>>]
      \/ t = [s EXCEPT !.field = Append(@, line[i])]
  BY <1>6 DEF FieldAt
<1>8. t \in FieldState
  <2>1. CASE t = [s EXCEPT !.skip = FALSE]
    BY <1>2, <2>1
  <2>2. CASE t = [s EXCEPT !.field = Append(@, Quote), !.skip = TRUE]
    BY <1>2, <1>5, <2>2
  <2>3. CASE t = [s EXCEPT !.quoted = ~@]
    BY <1>2, <2>3
  <2>4. CASE t = [s EXCEPT !.fields = Append(@, s.field), !.field = <<>>]
    BY <1>2, <1>5, <2>4
  <2>5. CASE t = [s EXCEPT !.field = Append(@, line[i])]
    BY <1>2, <1>5, <2>5
  <2> QED
    BY <1>7, <2>1, <2>2, <2>3, <2>4, <2>5
<1> QED
  BY <1>6, <1>8

\* The states of parse_csv_line.
IsRead(f, line) ==
    /\ f \in [0..Len(line) -> FieldState]
    /\ f[0] = Unquoted(<<>>, <<>>)
    /\ \A i \in 1..Len(line) : f[i] = FieldAt(f[i - 1], line, i)
    /\ Fields(line) = Append(f[Len(line)].fields, f[Len(line)].field)

LEMMA ReadIs ==
    ASSUME NEW line \in CsvText
    PROVE  \E f : IsRead(f, line)
<1>0. PICK n \in Nat : n = Len(line)
  BY DEF CsvText
<1> DEFINE Good(f) == f = [i \in 0..n |->
                IF i = 0 THEN [fields |-> <<>>, field |-> <<>>, quoted |-> FALSE, skip |-> FALSE]
                ELSE FieldAt(f[i - 1], line, i)]
<1>1. PICK T, a : T = FieldState /\ a = Unquoted(<<>>, <<>>)
  OBVIOUS
<1>2. ASSUME NEW i \in 1..n, NEW s \in T PROVE FieldAt(s, line, i) \in T
  BY <1>0, <1>1, FieldAtStays
<1>3. PICK g : g = [i \in 1..n |-> [s \in T |-> FieldAt(s, line, i)]]
  OBVIOUS
<1>4. g \in [1..n -> [T -> T]]
  BY <1>2, <1>3
<1>5. a \in T
  BY <1>1 DEF FieldState, Unquoted, CsvText
<1>6. PICK f : IsRun(f, n, T, a, g)
  <2> HIDE DEF Good
  <2> QED
    BY <1>4, <1>5, RecursionExists
<1>7. Good(f)
  <2>1. f \in [0..n -> T] /\ f[0] = Unquoted(<<>>, <<>>) /\ \A i \in 1..n : f[i] = g[i][f[i - 1]]
    BY <1>1, <1>6 DEF IsRun
  <2>2. ASSUME NEW i \in 1..n PROVE f[i] = FieldAt(f[i - 1], line, i)
    <3>1. i - 1 \in 0..n
      OBVIOUS
    <3> QED
      BY <1>3, <2>1, <3>1
  <2>3. \A i \in 0..n : i = 0 \/ i \in 1..n
    OBVIOUS
  <2> QED
    BY <2>1, <2>2, <2>3 DEF Unquoted
<1>8. ASSUME NEW h, Good(h)
      PROVE  h \in [0..n -> T] /\ h[0] = a /\ \A i \in 1..n : h[i] = FieldAt(h[i - 1], line, i)
  <2>1. h[0] \in T /\ h[0] = a /\ DOMAIN h = 0..n /\ h = [i \in 0..n |-> h[i]]
    BY <1>1, <1>5, <1>8 DEF Unquoted
  <2>2. ASSUME NEW i \in 1..n PROVE h[i] = FieldAt(h[i - 1], line, i)
    <3>1. i \in 0..n /\ i # 0
      OBVIOUS
    <3> QED
      BY <1>8, <3>1
  <2>3. ASSUME NEW i \in 1..n, h[i - 1] \in T PROVE h[i] \in T
    BY <1>2, <2>2, <2>3
  <2> HIDE DEF Good
  <2>4. \A i \in 0..n : h[i] \in T
    BY <2>1, <2>3, RecursionStays
  <2> QED
    BY <2>1, <2>2, <2>4
<1> DEFINE k == CHOOSE f1 : Good(f1)
<1>9. Fields(line) = Append(k[n].fields, k[n].field)
  BY <1>0 DEF Fields
<1> HIDE DEF Good
<1>10. PICK h : h = k
  OBVIOUS
<1>11. Good(h)
  BY <1>7, <1>10
<1>12. Fields(line) = Append(h[n].fields, h[n].field)
  BY <1>9, <1>10
<1>13. h \in [0..n -> T] /\ h[0] = a /\ \A i \in 1..n : h[i] = FieldAt(h[i - 1], line, i)
  BY <1>8, <1>11
<1> QED
  BY <1>0, <1>1, <1>12, <1>13 DEF IsRead

\* The text t stands in the line behind its first o characters.
Written(line, o, t) ==
    /\ o + Len(t) <= Len(line)
    /\ \A k \in 1..Len(t) : line[o + k] = t[k]

LEMMA WrittenInTurn ==
    ASSUME NEW line \in CsvText, NEW o \in Nat, NEW s \in CsvText, NEW t \in CsvText,
           Written(line, o, s \o t)
    PROVE  Written(line, o, s) /\ Written(line, o + Len(s), t)
<1>1. PICK m \in Nat, n \in Nat, w \in Nat : m = Len(s) /\ n = Len(t) /\ w = Len(line)
  BY DEF CsvText
<1>2. PICK u : u = s \o t
  OBVIOUS
<1>3. /\ Len(u) = m + n
      /\ \A j \in 1..m + n : u[j] = IF j <= m THEN s[j] ELSE t[j - m]
  <2>1. Len(s \o t) = Len(s) + Len(t) /\ \A j \in 1..Len(s) + Len(t) :
           (s \o t)[j] = IF j <= Len(s) THEN s[j] ELSE t[j - Len(s)]
    BY ConcatProperties DEF CsvText
  <2> QED
    BY <1>1, <1>2, <2>1
<1>4. o + (m + n) <= w /\ \A k \in 1..m + n : line[o + k] = u[k]
  BY <1>1, <1>2, <1>3 DEF Written
<1>5. ASSUME NEW k \in 1..m PROVE line[o + k] = s[k]
  BY <1>3, <1>4
<1>6. ASSUME NEW k \in 1..n PROVE line[o + m + k] = t[k]
  <2>1. PICK j \in 1..m + n : j = m + k
    OBVIOUS
  <2>2. ~(j <= m) /\ j - m = k /\ o + j = o + m + k
    BY <2>1
  <2> QED
    BY <1>3, <1>4, <2>2
<1>7. o + m <= w /\ o + m + n <= w
  BY <1>4
<1> QED
  BY <1>1, <1>5, <1>6, <1>7 DEF Written

\* The first i characters.
Upto(v, i) == [k \in 1..i |-> v[k]]

LEMMA UptoAppends ==
    ASSUME NEW S, NEW v \in Seq(S), NEW i \in 1..Len(v)
    PROVE  Append(Upto(v, i - 1), v[i]) = Upto(v, i) /\ Upto(v, i) \in Seq(S)
<1>1. PICK n \in Nat : n = Len(v)
  OBVIOUS
<1>2. v \in [1..n -> S] /\ i \in 1..n
  BY <1>1
<1>3. PICK s \in Seq(S), t \in Seq(S) : s = Upto(v, i - 1) /\ t = Upto(v, i)
  <2>1. i - 1 \in Nat /\ i \in Nat
    BY <1>2
  <2>2. \A k \in 1..i - 1 : v[k] \in S
    BY <1>2
  <2>3. \A k \in 1..i : v[k] \in S
    BY <1>2
  <2>4. [k \in 1..i - 1 |-> v[k]] \in Seq(S)
    BY <2>1, <2>2
  <2>5. [k \in 1..i |-> v[k]] \in Seq(S)
    BY <2>1, <2>3
  <2> QED
    BY <2>4, <2>5 DEF Upto
<1>4. PICK c \in S : c = v[i]
  BY <1>2
<1>5. Len(s) = i - 1 /\ Len(t) = i
  BY <1>2, <1>3 DEF Upto
<1>6. \A k \in 1..i - 1 : s[k] = v[k]
  BY <1>3 DEF Upto
<1>7. \A k \in 1..i : t[k] = v[k]
  BY <1>3 DEF Upto
<1>8. /\ Append(s, c) \in Seq(S)
      /\ Len(Append(s, c)) = Len(s) + 1
      /\ \A k \in 1..Len(s) : Append(s, c)[k] = s[k]
      /\ Append(s, c)[Len(s) + 1] = c
  BY AppendProperties
<1>9. PICK u \in Seq(S) : u = Append(s, c)
  BY <1>8
<1>10. Len(u) = i /\ u[i] = c /\ \A k \in 1..i - 1 : u[k] = s[k]
  BY <1>2, <1>5, <1>8, <1>9
<1>11. ASSUME NEW k \in 1..i PROVE u[k] = t[k]
  <2>1. CASE k = i
    BY <1>4, <1>7, <1>10, <2>1
  <2>2. CASE k # i
    <3>1. k \in 1..i - 1
      BY <1>2, <2>2
    <3> QED
      BY <1>6, <1>7, <1>10, <3>1
  <2> QED
    BY <2>1, <2>2
<1>12. u = t
  BY <1>5, <1>10, <1>11, SeqEqual
<1> QED
  BY <1>3, <1>4, <1>9, <1>12

LEMMA UptoNext ==
    ASSUME NEW v \in CsvText, NEW i \in 1..Len(v)
    PROVE  Append(Upto(v, i - 1), v[i]) = Upto(v, i) /\ Upto(v, i) \in CsvText
<1>1. PICK S : S = Characters
  OBVIOUS
<1>2. v \in Seq(S)
  BY <1>1 DEF CsvText
<1>3. Append(Upto(v, i - 1), v[i]) = Upto(v, i) /\ Upto(v, i) \in Seq(S)
  BY <1>2, UptoAppends
<1> QED
  BY <1>1, <1>3 DEF CsvText

LEMMA UptoEnds ==
    ASSUME NEW v \in CsvText
    PROVE  Upto(v, 0) = <<>> /\ Upto(v, Len(v)) = v
<1>1. PICK n \in Nat : n = Len(v)
  BY DEF CsvText
<1>2. v = [k \in 1..n |-> v[k]]
  BY <1>1 DEF CsvText
<1>3. 1..0 = {}
  OBVIOUS
<1>4. Upto(v, 0) = <<>>
  BY <1>3 DEF Upto
<1> QED
  BY <1>1, <1>2, <1>4 DEF Upto

\* A plain text is read as it is.
LEMMA PlainRead ==
    ASSUME NEW line \in CsvText, NEW f, IsRead(f, line), NEW o \in Nat, NEW F,
           NEW v \in CsvText, IsPlain(v), Written(line, o, v),
           f[o] = Unquoted(F, <<>>)
    PROVE  f[o + Len(v)] = Unquoted(F, v)
<1>1. PICK n \in Nat, w \in Nat : n = Len(v) /\ w = Len(line)
  BY DEF CsvText
<1>2. o + n <= w /\ \A k \in 1..n : line[o + k] = v[k]
  BY <1>1 DEF Written
<1>3. \A i \in 1..w : f[i] = FieldAt(f[i - 1], line, i)
  BY <1>1 DEF IsRead
<1>4. PICK h : h = [i \in 0..n |-> f[o + i] = Unquoted(F, Upto(v, i))]
  OBVIOUS
<1>5. h[0] = TRUE
  <2>1. o + 0 = o /\ 0 \in 0..n
    OBVIOUS
  <2>2. Upto(v, 0) = <<>>
    BY UptoEnds
  <2> QED
    BY <1>4, <2>1, <2>2
<1>6. ASSUME NEW i \in 1..n, h[i - 1] = TRUE PROVE h[i] = TRUE
  <2>1. i \in 0..n /\ i - 1 \in 0..n /\ o + i \in 1..w /\ o + i - 1 = o + (i - 1)
    BY <1>2
  <2>2. f[o + (i - 1)] = Unquoted(F, Upto(v, i - 1))
    BY <1>4, <1>6, <2>1
  <2>9. f[o + i] = FieldAt(f[o + i - 1], line, o + i)
    BY <1>3, <2>1
  <2>3. f[o + i] = FieldAt(Unquoted(F, Upto(v, i - 1)), line, o + i)
    BY <2>1, <2>2, <2>9
  <2>4. line[o + i] = v[i] /\ v[i] # Quote /\ v[i] # Comma
    BY <1>1, <1>2 DEF IsPlain
  <2>6. FieldAt(Unquoted(F, Upto(v, i - 1)), line, o + i)
            = Unquoted(F, Append(Upto(v, i - 1), line[o + i]))
    BY <2>4, PlainChar
  <2>7. Append(Upto(v, i - 1), v[i]) = Upto(v, i)
    BY <1>1, UptoNext
  <2>8. f[o + i] = Unquoted(F, Upto(v, i))
    BY <2>3, <2>4, <2>6, <2>7
  <2> QED
    BY <1>4, <2>1, <2>8
<1>7. h[n] = TRUE
  <2>1. n \in 0..n
    OBVIOUS
  <2> QED
    BY <1>5, <1>6, <2>1, GoesOn
<1>8. Upto(v, n) = v
  BY <1>1, UptoEnds
<1>9. n \in 0..n
  OBVIOUS
<1> QED
  BY <1>1, <1>4, <1>7, <1>8, <1>9

\* The two quotes of one in a quoted text are read as one.
LEMMA TwiceRead ==
    ASSUME NEW line \in CsvText, NEW f, IsRead(f, line), NEW a \in Nat, NEW F, NEW v,
           NEW c \in Characters, Written(line, a, Twice(c)), f[a] = Quoted(F, v)
    PROVE  f[a + Len(Twice(c))] = Quoted(F, Append(v, c))
<1>1. PICK w \in Nat : w = Len(line)
  BY DEF CsvText
<1>2. \A i \in 1..w : f[i] = FieldAt(f[i - 1], line, i)
  BY <1>1 DEF IsRead
<1>3. CASE c = Quote
  <2>1. PICK t \in CsvText : t = <<Quote, Quote>>
    <3>1. Quote \in Characters
      BY CharactersAre
    <3>2. <<Quote, Quote>> \in CsvText
      BY <3>1 DEF CsvText
    <3> QED
      BY <3>2
  <2>2. Twice(c) = t /\ Len(t) = 2 /\ t[1] = Quote /\ t[2] = Quote
    BY <1>3, <2>1 DEF Twice
  <2>3. a + Len(t) <= w /\ \A k \in 1..Len(t) : line[a + k] = t[k]
    BY <1>1, <2>2 DEF Written
  <2>4. a + 2 <= w /\ line[a + 1] = Quote /\ line[a + 2] = Quote
    BY <2>2, <2>3
  <2>5. a + 1 < w /\ a + 1 + 1 = a + 2 /\ a + 1 \in 1..w /\ a + 2 \in 1..w /\ a + 1 - 1 = a /\ a + 2 - 1 = a + 1
    BY <2>4
  <2>6. IsTwice(line, a + 1)
    BY <1>1, <2>4, <2>5 DEF IsTwice
  <2>7. f[a + 1] = FieldAt(Quoted(F, v), line, a + 1)
    BY <1>2, <2>5
  <2>8. f[a + 1] = Halfway(F, Append(v, Quote))
    BY <2>6, <2>7, TwiceChar
  <2>9. f[a + 2] = FieldAt(Halfway(F, Append(v, Quote)), line, a + 2)
    BY <1>2, <2>5, <2>8
  <2>10. f[a + 2] = Quoted(F, Append(v, Quote))
    BY <2>9, SkippedChar
  <2> QED
    BY <1>3, <2>2, <2>10
<1>4. CASE c # Quote
  <2>1. PICK t \in CsvText : t = <<c>>
    <3>1. <<c>> \in CsvText
      BY DEF CsvText
    <3> QED
      BY <3>1
  <2>2. Twice(c) = t /\ Len(t) = 1 /\ t[1] = c
    BY <1>4, <2>1 DEF Twice
  <2>3. a + Len(t) <= w /\ \A k \in 1..Len(t) : line[a + k] = t[k]
    BY <1>1, <2>2 DEF Written
  <2>4. a + 1 <= w /\ line[a + 1] = c
    BY <2>2, <2>3
  <2>5. a + 1 \in 1..w /\ a + 1 - 1 = a
    BY <2>4
  <2>6. f[a + 1] = FieldAt(Quoted(F, v), line, a + 1)
    BY <1>2, <2>5
  <2>7. FieldAt(Quoted(F, v), line, a + 1) = Quoted(F, Append(v, line[a + 1]))
    BY <1>4, <2>4, InnerChar
  <2> QED
    BY <2>2, <2>4, <2>6, <2>7
<1> QED
  BY <1>3, <1>4

\* A text in quotes is read as it was.
LEMMA DoubledRead ==
    ASSUME NEW line \in CsvText, NEW f, IsRead(f, line), NEW o \in Nat, NEW F,
           NEW v \in CsvText, Written(line, o, Doubled(v)), f[o] = Quoted(F, <<>>)
    PROVE  f[o + Len(Doubled(v))] = Quoted(F, v)
<1>1. PICK n \in Nat, w \in Nat : n = Len(v) /\ w = Len(line)
  BY DEF CsvText
<1>2. PICK s : s = Twices(v)
  OBVIOUS
<1>3. s \in Seq(CsvText) /\ Len(s) = n /\ Doubled(v) = Joined(s) /\ Doubled(v) \in CsvText
  BY <1>1, <1>2, TwicesAre
<1>4. PICK d \in CsvText : d = Doubled(v)
  BY <1>3
<1>5. s \in Seq(Seq(Characters))
  BY <1>3 DEF CsvText
<1>6. PICK J : IsJoin(J, Characters, s)
  BY <1>5, JoinedIs
<1>7. /\ J \in [0..n -> CsvText] /\ J[0] = <<>> /\ d = J[n]
      /\ \A i \in 1..n : J[i] = J[i - 1] \o s[i]
  <2>1. /\ J \in [0..Len(s) -> Seq(Characters)] /\ J[0] = <<>> /\ Joined(s) = J[Len(s)]
        /\ \A i \in 1..Len(s) : J[i] = J[i - 1] \o s[i]
    BY <1>6 DEF IsJoin
  <2> QED
    BY <1>3, <1>4, <2>1 DEF CsvText
<1>8. PICK m \in Nat : m = Len(d)
  BY DEF CsvText
<1>9. o + m <= w /\ \A k \in 1..m : line[o + k] = d[k]
  BY <1>1, <1>4, <1>8 DEF Written
<1>10. PICK h : h = [i \in 0..n |-> f[o + Len(J[i])] = Quoted(F, Upto(v, i))]
  OBVIOUS
<1>11. h[0] = TRUE
  <2>1. 0 \in 0..n /\ Len(J[0]) = 0 /\ o + 0 = o
    BY <1>7
  <2>2. Upto(v, 0) = <<>>
    BY UptoEnds
  <2> QED
    BY <1>10, <2>1, <2>2
<1>12. ASSUME NEW i \in 1..n, h[i - 1] = TRUE PROVE h[i] = TRUE
  <2>1. i - 1 \in 0..n /\ i \in 0..n
    OBVIOUS
  <2>2. PICK x \in CsvText, t \in CsvText, c \in Characters : x = J[i - 1] /\ t = s[i] /\ c = v[i]
    <3>1. J[i - 1] \in CsvText /\ s[i] \in CsvText
      BY <1>3, <1>7, <2>1
    <3>2. v[i] \in Characters
      BY <1>1 DEF CsvText
    <3> QED
      BY <3>1, <3>2
  <2>3. t = Twice(c)
    BY <1>1, <1>2, <2>2 DEF Twices
  <2>4. PICK p \in Nat, q \in Nat : p = Len(x) /\ q = Len(t)
    BY DEF CsvText
  <2>5. J[i] = x \o t /\ Len(J[i]) = p + q
    <3>1. Len(x \o t) = Len(x) + Len(t)
      BY ConcatProperties DEF CsvText
    <3> QED
      BY <1>7, <2>2, <2>4, <3>1
  <2>6. ASSUME NEW k \in 1..q PROVE p + k \in 1..m /\ d[p + k] = t[k]
    <3>1. i \in 1..Len(s) /\ k \in 1..Len(s[i])
      BY <1>3, <2>2, <2>4
    <3>2. Len(J[i - 1]) + k \in 1..Len(Joined(s)) /\ Joined(s)[Len(J[i - 1]) + k] = s[i][k]
      BY <1>5, <1>6, <3>1, JoinedPlaces
    <3> QED
      BY <1>3, <1>4, <1>8, <2>2, <2>4, <3>2
  <2>7. q > 0 => p + q <= m
    <3>1. q > 0 => q \in 1..q
      BY <2>4
    <3>2. q > 0 => p + q \in 1..m
      BY <2>6, <3>1
    <3> QED
      BY <1>8, <3>2
  <2>8. q > 0
    <3>1. q = 2 \/ q = 1
      BY <2>3, <2>4 DEF Twice
    <3> QED
      BY <3>1
  <2>9. PICK a \in Nat : a = o + p
    OBVIOUS
  <2>10. Written(line, a, Twice(c))
    <3>1. a + q <= w
      BY <1>9, <2>7, <2>8, <2>9
    <3>2. ASSUME NEW k \in 1..q PROVE line[a + k] = t[k]
      <4>1. PICK j \in 1..m : j = p + k
        BY <2>6
      <4>2. a + k = o + j
        BY <2>9, <4>1
      <4> QED
        BY <1>9, <2>6, <4>1, <4>2
    <3> QED
      BY <1>1, <2>3, <2>4, <3>1, <3>2 DEF Written
  <2>11. f[a] = Quoted(F, Upto(v, i - 1))
    BY <1>10, <1>12, <2>1, <2>2, <2>4, <2>9
  <2>12. f[a + Len(Twice(c))] = Quoted(F, Append(Upto(v, i - 1), c))
    BY <2>10, <2>11, TwiceRead
  <2>13. Append(Upto(v, i - 1), c) = Upto(v, i)
    BY <1>1, <2>2, UptoNext
  <2>14. a + Len(Twice(c)) = o + Len(J[i])
    BY <2>3, <2>4, <2>5, <2>9
  <2>15. f[o + Len(J[i])] = Quoted(F, Upto(v, i))
    BY <2>12, <2>13, <2>14
  <2> QED
    BY <1>10, <2>1, <2>15
<1>13. h[n] = TRUE
  <2>1. n \in 0..n
    OBVIOUS
  <2> QED
    BY <1>11, <1>12, <2>1, GoesOn
<1>14. Upto(v, n) = v
  BY <1>1, UptoEnds
<1>15. n \in 0..n
  OBVIOUS
<1> QED
  BY <1>4, <1>7, <1>10, <1>13, <1>14, <1>15

\* A printed text is read as it was, when no quote follows it.
LEMMA EscapeRead ==
    ASSUME NEW line \in CsvText, NEW f, IsRead(f, line), NEW o \in Nat, NEW F,
           NEW v \in CsvText, Written(line, o, Escape(v)), f[o] = Unquoted(F, <<>>),
           NEW e \in Nat, e = o + Len(Escape(v)), e < Len(line) => line[e + 1] # Quote
    PROVE  f[e] = Unquoted(F, v)
<1>1. CASE IsPlain(v) /\ Escape(v) = v
  BY <1>1, PlainRead
<1>2. CASE Escape(v) = <<Quote>> \o Doubled(v) \o <<Quote>>
  <2>1. PICK d \in CsvText, q \in CsvText : d = Doubled(v) /\ q = <<Quote>>
    <3>1. Doubled(v) \in CsvText
      BY TwicesAre
    <3>2. <<Quote>> \in CsvText
      BY CharacterTexts
    <3> QED
      BY <3>1, <3>2
  <2>2. PICK m \in Nat, w \in Nat : m = Len(d) /\ w = Len(line)
    BY DEF CsvText
  <2>3. Len(q) = 1 /\ q[1] = Quote
    BY <2>1
  <2>4. q \o d \in CsvText /\ Len(q \o d) = 1 + m
    <3>1. Len(q \o d) = Len(q) + Len(d)
      BY ConcatProperties DEF CsvText
    <3> QED
      BY <2>2, <2>3, <3>1, TextsJoin
  <2>5. (q \o d) \o q \in CsvText /\ Len((q \o d) \o q) = m + 2
    <3>1. Len((q \o d) \o q) = Len(q \o d) + Len(q)
      BY <2>4, ConcatProperties DEF CsvText
    <3> QED
      BY <2>2, <2>3, <2>4, <3>1, TextsJoin
  <2>6. Escape(v) = (q \o d) \o q
    BY <1>2, <2>1
  <2>7. Written(line, o, (q \o d) \o q)
    BY <2>6
  <2>8. Written(line, o, q \o d) /\ Written(line, o + Len(q \o d), q)
    BY <2>4, <2>7, WrittenInTurn
  <2>9. Written(line, o, q) /\ Written(line, o + Len(q), d)
    BY <2>8, WrittenInTurn
  <2>10. line[o + 1] = Quote /\ line[o + m + 2] = Quote /\ o + m + 2 <= w
    <3>1. 1 \in 1..Len(q)
      BY <2>3
    <3>2. line[o + 1] = Quote
      BY <2>3, <2>9, <3>1 DEF Written
    <3>3. line[o + Len(q \o d) + 1] = Quote /\ o + Len(q \o d) + Len(q) <= w
      BY <2>2, <2>3, <2>8, <3>1 DEF Written
    <3>4. o + Len(q \o d) + 1 = o + m + 2 /\ o + Len(q \o d) + Len(q) = o + m + 2
      BY <2>2, <2>3, <2>4
    <3> QED
      BY <3>2, <3>3, <3>4
  <2>11. e = o + m + 2
    <3>1. Len(Escape(v)) = m + 2
      BY <2>5, <2>6
    <3>2. e = o + (m + 2)
      BY <3>1
    <3> QED
      BY <3>2
  <2>12. \A i \in 1..w : f[i] = FieldAt(f[i - 1], line, i)
    BY <2>2 DEF IsRead
  <2>13. f[o + 1] = Quoted(F, <<>>)
    <3>1. o + 1 \in 1..w /\ o + 1 - 1 = o
      BY <2>10
    <3>2. f[o + 1] = FieldAt(Unquoted(F, <<>>), line, o + 1)
      BY <2>12, <3>1
    <3> QED
      BY <2>10, <3>2, OpenChar
  <2>14. f[o + 1 + m] = Quoted(F, v)
    <3>1. PICK a \in Nat : a = o + 1
      OBVIOUS
    <3>2. Written(line, a, Doubled(v)) /\ f[a] = Quoted(F, <<>>)
      BY <2>1, <2>3, <2>9, <2>13, <3>1
    <3>3. f[a + Len(Doubled(v))] = Quoted(F, v)
      BY <3>2, DoubledRead
    <3> QED
      BY <2>1, <2>2, <3>1, <3>3
  <2>15. e \in 1..w /\ e - 1 = o + 1 + m /\ line[e] = Quote
    BY <2>10, <2>11
  <2>16. f[e] = FieldAt(Quoted(F, v), line, e)
    BY <2>12, <2>14, <2>15
  <2>17. ~IsTwice(line, e)
    BY DEF IsTwice
  <2> QED
    BY <2>15, <2>16, <2>17, CloseChar
<1> QED
  BY <1>1, <1>2, EscapeIs

\* A comma behind it ends the field.
LEMMA CommaRead ==
    ASSUME NEW line \in CsvText, NEW f, IsRead(f, line), NEW o \in Nat, NEW F, NEW v,
           Written(line, o, <<Comma>>), f[o] = Unquoted(F, v)
    PROVE  f[o + 1] = Unquoted(Append(F, v), <<>>)
<1>1. PICK w \in Nat : w = Len(line)
  BY DEF CsvText
<1>2. \A i \in 1..w : f[i] = FieldAt(f[i - 1], line, i)
  BY <1>1 DEF IsRead
<1>3. PICK c : c = <<Comma>>
  OBVIOUS
<1>4. Len(c) = 1 /\ c[1] = Comma
  BY <1>3
<1>5. o + Len(c) <= w /\ \A k \in 1..Len(c) : line[o + k] = c[k]
  BY <1>1, <1>3 DEF Written
<1>6. o + 1 \in 1..w /\ o + 1 - 1 = o /\ line[o + 1] = Comma
  BY <1>4, <1>5
<1>7. f[o + 1] = FieldAt(Unquoted(F, v), line, o + 1)
  BY <1>2, <1>6
<1> QED
  BY <1>6, <1>7, CommaChar

LEMMA OneAppended ==
    ASSUME NEW x
    PROVE  Append(<<>>, x) = <<x>>
<1>1. PICK S : S = {x}
  OBVIOUS
<1>2. <<>> \in Seq(S) /\ <<x>> \in Seq(S) /\ x \in S
  BY <1>1
<1>3. PICK s \in Seq(S), t \in Seq(S) : s = <<>> /\ t = <<x>>
  BY <1>2
<1>4. Len(s) = 0 /\ Len(t) = 1 /\ t[1] = x
  BY <1>3
<1>5. Append(s, x) \in Seq(S) /\ Len(Append(s, x)) = 1 /\ Append(s, x)[1] = x
  BY <1>2, <1>4, AppendProperties
<1>6. \A i \in 1..1 : Append(s, x)[i] = t[i]
  BY <1>4, <1>5
<1> QED
  BY <1>3, <1>4, <1>5, <1>6, SeqEqual

\* No fields yet and nothing read.
LEMMA EmptyRead ==
    Fields(<<>>) = <<<<>>>>
<1>0. <<>> \in CsvText
  BY DEF CsvText
<1>1. PICK line \in CsvText : line = <<>>
  BY <1>0
<1>2. PICK f : IsRead(f, line)
  BY ReadIs
<1>3. Len(line) = 0
  BY <1>1
<1>4. f[0] = Unquoted(<<>>, <<>>) /\ Fields(line) = Append(f[0].fields, f[0].field)
  BY <1>2, <1>3 DEF IsRead
<1>5. f[0].fields = <<>> /\ f[0].field = <<>>
  BY <1>4 DEF Unquoted
<1>6. PICK x : x = f[0].field
  OBVIOUS
<1>7. Append(<<>>, x) = <<x>>
  BY OneAppended
<1> QED
  BY <1>1, <1>4, <1>5, <1>6, <1>7

LEMMA ThreeAppended ==
    ASSUME NEW S, NEW a \in S, NEW b \in S, NEW c \in S
    PROVE  Append(Append(<<a>>, b), c) = <<a, b, c>>
<1>1. <<a>> \in Seq(S) /\ <<a, b, c>> \in Seq(S)
  OBVIOUS
<1>2. PICK s \in Seq(S), t \in Seq(S) : s = <<a>> /\ t = <<a, b, c>>
  BY <1>1
<1>3. Len(s) = 1 /\ s[1] = a /\ Len(t) = 3 /\ t[1] = a /\ t[2] = b /\ t[3] = c
  BY <1>2
<1>4. PICK u \in Seq(S) : u = Append(s, b)
  BY AppendProperties
<1>5. Len(u) = 2 /\ u[1] = a /\ u[2] = b
  BY <1>3, <1>4, AppendProperties
<1>6. PICK v \in Seq(S) : v = Append(u, c)
  BY AppendProperties
<1>7. Len(v) = 3 /\ v[1] = a /\ v[2] = b /\ v[3] = c
  <2>1. /\ Len(Append(u, c)) = Len(u) + 1
        /\ \A i \in 1..Len(u) : Append(u, c)[i] = u[i]
        /\ Append(u, c)[Len(u) + 1] = c
    BY AppendProperties
  <2>2. Len(v) = 3 /\ v[3] = c
    BY <1>5, <1>6, <2>1
  <2>3. 1 \in 1..Len(u) /\ 2 \in 1..Len(u)
    BY <1>5
  <2>4. v[1] = u[1] /\ v[2] = u[2]
    BY <1>6, <2>1, <2>3
  <2> QED
    BY <1>5, <2>2, <2>4
<1>8. \A i \in 1..3 : v[i] = t[i]
  BY <1>3, <1>7
<1>9. v = t
  BY <1>3, <1>7, <1>8, SeqEqual
<1> QED
  BY <1>2, <1>4, <1>6, <1>9

LEMMA LengthsAdd ==
    ASSUME NEW s \in CsvText, NEW t \in CsvText
    PROVE  Len(s \o t) = Len(s) + Len(t)
BY ConcatProperties DEF CsvText

\* The fields of a printed row are what was printed.
LEMMA RowRead ==
    ASSUME NEW row \in CsvRow
    PROVE  Fields(PrintedRow(row)) = <<row.path, row.type, row.text>>
<1>1. PICK x \in CsvText, t \in CsvText, y \in CsvText :
          x = row.path /\ t = row.type /\ y = row.text /\ IsPlain(t)
  BY DEF CsvRow
<1>2. PICK a \in CsvText, b \in CsvText, c \in CsvText :
          a = Escape(x) /\ b = Escape(y) /\ c = <<Comma>>
  <2>1. Escape(x) \in CsvText /\ Escape(y) \in CsvText
    BY EscapeIs
  <2>2. <<Comma>> \in CsvText
    BY CharacterTexts
  <2> QED
    BY <2>1, <2>2
<1>3. PICK p, q, r, line : p = a \o c /\ q = p \o t /\ r = q \o c /\ line = r \o b
  OBVIOUS
<1>4. p \in CsvText /\ q \in CsvText /\ r \in CsvText /\ line \in CsvText
  <2>1. p \in CsvText
    BY <1>3, TextsJoin
  <2>2. q \in CsvText
    BY <1>3, <2>1, TextsJoin
  <2>3. r \in CsvText
    BY <1>3, <2>2, TextsJoin
  <2> QED
    BY <1>3, <2>1, <2>2, <2>3, TextsJoin
<1>5. PrintedRow(row) = line
  BY <1>1, <1>2, <1>3 DEF PrintedRow
<1>6. PICK i \in Nat, j \in Nat, k \in Nat : i = Len(a) /\ j = Len(t) /\ k = Len(b)
  BY DEF CsvText
<1>7. Len(c) = 1 /\ c[1] = Comma
  BY <1>2
<1>8. Len(p) = i + 1 /\ Len(q) = i + 1 + j /\ Len(r) = i + j + 2 /\ Len(line) = i + j + k + 2
  <2>1. Len(p) = i + 1
    BY <1>3, <1>6, <1>7, LengthsAdd
  <2>2. Len(q) = i + 1 + j
    <3>1. Len(p \o t) = Len(p) + Len(t)
      BY <1>4, LengthsAdd
    <3> QED
      BY <1>3, <1>6, <2>1, <3>1
  <2>3. Len(r) = i + j + 2
    <3>1. Len(q \o c) = Len(q) + Len(c)
      BY <1>4, LengthsAdd
    <3> QED
      BY <1>3, <1>7, <2>2, <3>1
  <2>4. Len(line) = i + j + k + 2
    <3>1. Len(r \o b) = Len(r) + Len(b)
      BY <1>4, LengthsAdd
    <3> QED
      BY <1>3, <1>6, <2>3, <3>1
  <2> QED
    BY <2>1, <2>2, <2>3, <2>4
<1>9. Written(line, 0, r \o b)
  BY <1>3, <1>8 DEF Written
<1>10. Written(line, 0, r) /\ Written(line, 0 + Len(r), b)
  BY <1>4, <1>9, WrittenInTurn
<1>11. Written(line, 0, q) /\ Written(line, 0 + Len(q), c)
  BY <1>3, <1>4, <1>10, WrittenInTurn
<1>12. Written(line, 0, p) /\ Written(line, 0 + Len(p), t)
  BY <1>3, <1>4, <1>11, WrittenInTurn
<1>13. Written(line, 0, a) /\ Written(line, 0 + Len(a), c)
  BY <1>3, <1>4, <1>12, WrittenInTurn
<1>14. PICK f : IsRead(f, line)
  BY <1>4, ReadIs
<1>15. PICK e1 \in Nat, e2 \in Nat, e3 \in Nat, e4 \in Nat, e5 \in Nat :
           e1 = i /\ e2 = i + 1 /\ e3 = i + 1 + j /\ e4 = i + j + 2 /\ e5 = i + j + k + 2
  <2>1. i + 1 \in Nat /\ i + 1 + j \in Nat /\ i + j + 2 \in Nat /\ i + j + k + 2 \in Nat
    OBVIOUS
  <2> QED
    BY <2>1
<1>16. f[0] = Unquoted(<<>>, <<>>)
  BY <1>14 DEF IsRead
<1>17. f[e1] = Unquoted(<<>>, x)
  <2>1. e1 = 0 + Len(Escape(x)) /\ e1 \in Nat
    BY <1>2, <1>6, <1>15
  <2>2. line[e1 + 1] = Comma
    <3>1. 1 \in 1..Len(c) /\ 0 + Len(a) + 1 = e1 + 1
      BY <1>6, <1>7, <1>15
    <3> QED
      BY <1>7, <1>13, <3>1 DEF Written
  <2>3. e1 < Len(line) => line[e1 + 1] # Quote
    BY <2>2, CharactersAre
  <2>4. Written(line, 0, Escape(x)) /\ 0 \in Nat
    BY <1>2, <1>13
  <2> QED
    BY <1>4, <1>14, <1>16, <2>1, <2>3, <2>4, EscapeRead
<1>18. f[e2] = Unquoted(<<x>>, <<>>)
  <2>1. Written(line, e1, <<Comma>>)
    <3>1. 0 + Len(a) = e1
      BY <1>6, <1>15
    <3> QED
      BY <1>2, <1>13, <3>1
  <2>2. f[e1 + 1] = Unquoted(Append(<<>>, x), <<>>)
    <3>1. PICK F : F = <<>>
      OBVIOUS
    <3>2. f[e1] = Unquoted(F, x)
      BY <1>17, <3>1
    <3>3. f[e1 + 1] = Unquoted(Append(F, x), <<>>)
      BY <1>4, <1>14, <2>1, <3>2, CommaRead
    <3> QED
      BY <3>1, <3>3
  <2>3. e1 + 1 = e2
    BY <1>15
  <2>4. Append(<<>>, x) = <<x>>
    BY OneAppended
  <2> QED
    BY <2>2, <2>3, <2>4
<1>19. f[e3] = Unquoted(<<x>>, t)
  <2>1. Written(line, e2, t)
    <3>1. 0 + Len(p) = e2
      BY <1>8, <1>15
    <3> QED
      BY <1>12, <3>1
  <2>2. f[e2 + Len(t)] = Unquoted(<<x>>, t)
    BY <1>1, <1>4, <1>14, <1>18, <2>1, PlainRead
  <2>3. e2 + Len(t) = e3
    BY <1>6, <1>15
  <2> QED
    BY <2>2, <2>3
<1>20. f[e4] = Unquoted(Append(<<x>>, t), <<>>)
  <2>1. Written(line, e3, <<Comma>>)
    <3>1. 0 + Len(q) = e3
      BY <1>8, <1>15
    <3> QED
      BY <1>2, <1>11, <3>1
  <2>2. f[e3 + 1] = Unquoted(Append(<<x>>, t), <<>>)
    BY <1>4, <1>14, <1>19, <2>1, CommaRead
  <2>3. e3 + 1 = e4
    BY <1>15
  <2> QED
    BY <2>2, <2>3
<1>21. f[e5] = Unquoted(Append(<<x>>, t), y)
  <2>1. e5 = e4 + Len(Escape(y))
    <3>1. Len(Escape(y)) = k
      BY <1>2, <1>6
    <3> QED
      BY <1>15, <3>1
  <2>2. e5 < Len(line) => line[e5 + 1] # Quote
    BY <1>8, <1>15
  <2>3. Written(line, e4, Escape(y))
    <3>1. 0 + Len(r) = e4
      BY <1>8, <1>15
    <3> QED
      BY <1>2, <1>10, <3>1
  <2> QED
    BY <1>4, <1>14, <1>20, <2>1, <2>2, <2>3, EscapeRead
<1>22. Fields(line) = Append(f[Len(line)].fields, f[Len(line)].field)
  BY <1>14 DEF IsRead
<1>23. f[e5].fields = Append(<<x>>, t) /\ f[e5].field = y
  BY <1>21 DEF Unquoted
<1>24. Fields(line) = Append(Append(<<x>>, t), y)
  BY <1>8, <1>15, <1>22, <1>23
<1>25. Append(Append(<<x>>, t), y) = <<x, t, y>>
  BY ThreeAppended
<1> QED
  BY <1>1, <1>5, <1>24, <1>25

\* A line that ends in another character than a return keeps its end.
LEMMA EndKept ==
    ASSUME NEW line \in CsvText, line # <<>>, line[Len(line)] # Return
    PROVE  WithoutReturns(line) = line
<1>1. PICK w \in Nat : w = Len(line)
  BY DEF CsvText
<1> DEFINE Ends(n) == (n > 0 => line[n] # Return) /\ \A i \in n + 1..w : line[i] = Return
<1>2. Ends(w)
  BY <1>1
<1>3. ASSUME NEW n \in 0..w, Ends(n) PROVE n = w
  <2>1. w > 0
    BY <1>1 DEF CsvText
  <2>2. CASE n # w
    <3>1. w \in n + 1..w
      BY <2>2
    <3> QED
      BY <1>1, <1>3, <3>1
  <2> QED
    BY <2>2
<1> DEFINE m == CHOOSE n \in 0..w : Ends(n)
<1>4. m = w
  <2> HIDE DEF Ends
  <2>1. w \in 0..w
    OBVIOUS
  <2> QED
    BY <1>2, <1>3, <2>1
<1>5. WithoutReturns(line) = SubSeq(line, 1, m)
  BY <1>1 DEF WithoutReturns
<1>6. SubSeq(line, 1, w) = line
  BY <1>1 DEF CsvText
<1> QED
  BY <1>4, <1>5, <1>6

LEMMA NothingKept ==
    WithoutReturns(<<>>) = <<>>
<1>1. PICK line : line = <<>>
  OBVIOUS
<1>2. Len(line) = 0
  BY <1>1
<1>3. PICK n : WithoutReturns(line) = SubSeq(line, 1, n) /\ n \in 0..0
  <2>1. 0 \in 0..0 /\ ~(0 > 0) /\ 0 + 1..0 = {}
    OBVIOUS
  <2>2. /\ 0 > 0 => line[0] # Return
        /\ \A i \in 0 + 1..0 : line[i] = Return
    BY <2>1
  <2> QED
    BY <1>2, <2>1, <2>2 DEF WithoutReturns
<1>4. n = 0
  BY <1>3
<1>5. SubSeq(<<>>, 1, 0) = <<>>
  OBVIOUS
<1> QED
  BY <1>1, <1>3, <1>4, <1>5

\* The last character of what is printed of a text.
LEMMA EscapeEnds ==
    ASSUME NEW v \in CsvText, Escape(v) # <<>>
    PROVE  Escape(v)[Len(Escape(v))] # Return
<1>1. CASE IsPlain(v) /\ Escape(v) = v
  <2>1. Len(v) \in 1..Len(v)
    BY <1>1 DEF CsvText
  <2> QED
    BY <1>1, <2>1 DEF IsPlain
<1>2. CASE Escape(v) = <<Quote>> \o Doubled(v) \o <<Quote>>
  <2>1. PICK d \in CsvText, q \in CsvText : d = <<Quote>> \o Doubled(v) /\ q = <<Quote>>
    <3>1. <<Quote>> \o Doubled(v) \in CsvText
      BY TwicesAre, CharacterTexts, TextsJoin
    <3>2. <<Quote>> \in CsvText
      BY CharacterTexts
    <3> QED
      BY <3>1, <3>2
  <2>2. PICK m \in Nat : m = Len(d)
    BY DEF CsvText
  <2>3. Len(q) = 1 /\ q[1] = Quote
    BY <2>1
  <2>4. Len(d \o q) = Len(d) + Len(q) /\ \A i \in 1..Len(d) + Len(q) :
            (d \o q)[i] = IF i <= Len(d) THEN d[i] ELSE q[i - Len(d)]
    BY ConcatProperties DEF CsvText
  <2>5. m + 1 \in 1..m + 1 /\ ~(m + 1 <= m) /\ m + 1 - m = 1
    OBVIOUS
  <2>6. Len(d \o q) = m + 1 /\ (d \o q)[m + 1] = Quote
    BY <2>2, <2>3, <2>4, <2>5
  <2> QED
    BY <1>2, <2>1, <2>6, CharactersAre
<1> QED
  BY <1>1, <1>2, EscapeIs

LEMMA RowKept ==
    ASSUME NEW row \in CsvRow
    PROVE  WithoutReturns(PrintedRow(row)) = PrintedRow(row)
<1>1. PICK x \in CsvText, t \in CsvText, y \in CsvText :
          x = row.path /\ t = row.type /\ y = row.text
  BY DEF CsvRow
<1>2. PICK a \in CsvText, b \in CsvText, c \in CsvText :
          a = Escape(x) /\ b = Escape(y) /\ c = <<Comma>>
  <2>1. Escape(x) \in CsvText /\ Escape(y) \in CsvText
    BY EscapeIs
  <2>2. <<Comma>> \in CsvText
    BY CharacterTexts
  <2> QED
    BY <2>1, <2>2
<1>3. PICK p, q, r, line : p = a \o c /\ q = p \o t /\ r = q \o c /\ line = r \o b
  OBVIOUS
<1>4. p \in CsvText /\ q \in CsvText /\ r \in CsvText /\ line \in CsvText
  <2>1. p \in CsvText
    BY <1>3, TextsJoin
  <2>2. q \in CsvText
    BY <1>3, <2>1, TextsJoin
  <2>3. r \in CsvText
    BY <1>3, <2>2, TextsJoin
  <2> QED
    BY <1>3, <2>1, <2>2, <2>3, TextsJoin
<1>5. PrintedRow(row) = line
  BY <1>1, <1>2, <1>3 DEF PrintedRow
<1>6. PICK m \in Nat, k \in Nat : m = Len(q) /\ k = Len(b)
  BY <1>4 DEF CsvText
<1>7. Len(c) = 1 /\ c[1] = Comma
  BY <1>2
<1>8. Len(r) = m + 1 /\ r[m + 1] = Comma
  <2>1. Len(q \o c) = Len(q) + Len(c) /\ \A i \in 1..Len(q) + Len(c) :
            (q \o c)[i] = IF i <= Len(q) THEN q[i] ELSE c[i - Len(q)]
    BY <1>4, ConcatProperties DEF CsvText
  <2>2. m + 1 \in 1..m + 1 /\ ~(m + 1 <= m) /\ m + 1 - m = 1
    OBVIOUS
  <2> QED
    BY <1>3, <1>6, <1>7, <2>1, <2>2
<1>9. /\ Len(line) = m + 1 + k
      /\ \A i \in 1..m + 1 + k : line[i] = IF i <= m + 1 THEN r[i] ELSE b[i - (m + 1)]
  <2>1. Len(r \o b) = Len(r) + Len(b) /\ \A i \in 1..Len(r) + Len(b) :
            (r \o b)[i] = IF i <= Len(r) THEN r[i] ELSE b[i - Len(r)]
    BY <1>4, ConcatProperties DEF CsvText
  <2> QED
    BY <1>3, <1>6, <1>8, <2>1
<1>10. line[m + 1 + k] # Return
  <2>1. CASE k = 0
    <3>1. m + 1 + k \in 1..m + 1 + k /\ m + 1 + k <= m + 1 /\ m + 1 + k = m + 1
      BY <2>1
    <3> QED
      BY <1>8, <1>9, <3>1, CharactersAre
  <2>2. CASE k > 0
    <3>1. m + 1 + k \in 1..m + 1 + k /\ ~(m + 1 + k <= m + 1) /\ m + 1 + k - (m + 1) = k
      BY <2>2
    <3>2. line[m + 1 + k] = b[k]
      BY <1>9, <3>1
    <3>3. Escape(y) # <<>>
      BY <1>2, <1>6, <2>2
    <3>4. b[k] # Return
      BY <1>2, <1>6, <3>3, EscapeEnds
    <3> QED
      BY <3>2, <3>4
  <2> QED
    BY <2>1, <2>2
<1>11. line # <<>> /\ line[Len(line)] # Return
  <2>1. m + 1 + k # 0
    OBVIOUS
  <2>2. Len(line) # 0
    BY <1>9, <2>1
  <2>3. Len(<<>>) = 0
    OBVIOUS
  <2> QED
    BY <1>9, <1>10, <2>2, <2>3
<1> QED
  BY <1>4, <1>5, <1>11, EndKept

-----------------------------------------------------------------------------
(***************************************************************************)
(* CSV: what is read is what was printed                                   *)
(***************************************************************************)

LEMMA RowAdded ==
    ASSUME NEW rows, NEW row \in CsvRow
    PROVE  WithRow(rows, Fields(WithoutReturns(PrintedRow(row)))) = Append(rows, row)
<1>1. PICK fields : fields = <<row.path, row.type, row.text>>
  OBVIOUS
<1>2. Fields(WithoutReturns(PrintedRow(row))) = fields
  BY <1>1, RowKept, RowRead
<1>3. Len(fields) = 3 /\ fields[1] = row.path /\ fields[2] = row.type /\ fields[3] = row.text
  BY <1>1
<1>4. row = [path |-> row.path, type |-> row.type, text |-> row.text]
  BY DEF CsvRow
<1>5. WithRow(rows, fields) = Append(rows, [path |-> row.path, type |-> row.type, text |-> row.text])
  BY <1>3 DEF WithRow
<1> QED
  BY <1>2, <1>4, <1>5

LEMMA NothingAdded ==
    ASSUME NEW rows
    PROVE  WithRow(rows, Fields(WithoutReturns(<<>>))) = rows
<1>1. PICK fields, x : fields = <<x>> /\ fields = Fields(WithoutReturns(<<>>))
  BY NothingKept, EmptyRead
<1>2. Len(fields) = 1
  BY <1>1
<1> QED
  BY <1>1, <1>2 DEF WithRow

\* What is read of a CSV is what was printed.
LEMMA PrintedParses ==
    ASSUME NEW rows \in Seq(CsvRow)
    PROVE  Parsed(Printed(rows)) = rows
<1>0. PICK n \in Nat : n = Len(rows)
  OBVIOUS
<1>1. PICK lines : lines = Tail(Lines(Printed(rows)))
  OBVIOUS
<1>2. lines = [j \in 1..n + 1 |-> IF j <= n THEN PrintedRow(rows[j]) ELSE <<>>]
  BY <1>0, <1>1, PrintedLines
<1>3. /\ Len(lines) = n + 1
      /\ \A j \in 1..n : lines[j] = PrintedRow(rows[j])
      /\ lines[n + 1] = <<>>
  <2>1. n + 1 \in 1..n + 1 /\ ~(n + 1 <= n) /\ n + 1 \in Nat
    OBVIOUS
  <2>2. \A j \in 1..n : j \in 1..n + 1 /\ j <= n
    OBVIOUS
  <2>3. Len(lines) = n + 1
    BY <1>2, <2>1
  <2> QED
    BY <1>2, <2>1, <2>2, <2>3
<1> DEFINE Good(f) == f = [i \in 0..n + 1 |->
                IF i = 0 THEN <<>> ELSE WithRow(f[i - 1], Fields(WithoutReturns(lines[i])))]
           Value(i) == IF i <= n THEN Upto(rows, i) ELSE rows
<1>4. Value(0) = <<>>
  <2>1. 0 <= n /\ 1..0 = {}
    OBVIOUS
  <2> QED
    BY <2>1 DEF Upto
<1>5. ASSUME NEW i \in 1..n + 1
      PROVE  WithRow(Value(i - 1), Fields(WithoutReturns(lines[i]))) = Value(i)
  <2>1. i - 1 <= n
    OBVIOUS
  <2>2. CASE i <= n
    <3>1. i \in 1..n /\ i \in 1..Len(rows)
      BY <1>0, <2>2
    <3>2. PICK row \in CsvRow : row = rows[i]
      BY <3>1
    <3>3. PICK before : before = Upto(rows, i - 1)
      OBVIOUS
    <3>4. lines[i] = PrintedRow(row)
      BY <1>3, <3>1, <3>2
    <3>5. WithRow(before, Fields(WithoutReturns(lines[i]))) = Append(before, row)
      BY <3>4, RowAdded
    <3>6. Append(before, row) = Upto(rows, i)
      BY <3>1, <3>2, <3>3, UptoAppends
    <3> QED
      BY <2>1, <2>2, <3>3, <3>5, <3>6
  <2>3. CASE i = n + 1
    <3>1. Upto(rows, n) = rows
      BY <1>0 DEF Upto
    <3>2. Value(i - 1) = rows /\ Value(i) = rows
      <4>1. i - 1 = n /\ n <= n /\ ~(i <= n)
        BY <2>3
      <4> QED
        BY <3>1, <4>1
    <3>3. WithRow(rows, Fields(WithoutReturns(lines[i]))) = rows
      BY <1>3, <2>3, NothingAdded
    <3> QED
      BY <3>2, <3>3
  <2> QED
    BY <2>2, <2>3
<1> HIDE DEF Value
<1>6. PICK g : g = [i \in 0..n + 1 |-> Value(i)]
  OBVIOUS
<1>7. Good(g)
  <2>1. ASSUME NEW i \in 0..n + 1
        PROVE  g[i] = IF i = 0 THEN <<>> ELSE WithRow(g[i - 1], Fields(WithoutReturns(lines[i])))
    <3>1. CASE i = 0
      BY <1>4, <1>6, <3>1
    <3>2. CASE i # 0
      <4>1. i \in 1..n + 1 /\ i - 1 \in 0..n + 1
        BY <3>2
      <4>2. g[i] = Value(i) /\ g[i - 1] = Value(i - 1)
        BY <1>6, <4>1
      <4> QED
        BY <1>5, <3>2, <4>1, <4>2
    <3> QED
      BY <3>1, <3>2
  <2>2. DOMAIN g = 0..n + 1 /\ g = [i \in 0..n + 1 |-> g[i]]
    BY <1>6
  <2> QED
    BY <2>1, <2>2
<1>8. ASSUME NEW h, Good(h) PROVE h[n + 1] = Value(n + 1)
  <2>1. h[0] = <<>>
    <3>1. 0 \in 0..n + 1
      OBVIOUS
    <3> QED
      BY <1>8, <3>1
  <2>2. ASSUME NEW i \in 1..n + 1 PROVE h[i] = WithRow(h[i - 1], Fields(WithoutReturns(lines[i])))
    <3>1. i \in 0..n + 1 /\ i # 0
      OBVIOUS
    <3> QED
      BY <1>8, <3>1
  <2> HIDE DEF Good
  <2>3. PICK k : k = [i \in 0..n + 1 |-> h[i] = Value(i)]
    OBVIOUS
  <2>4. k[0] = TRUE
    <3>1. 0 \in 0..n + 1
      OBVIOUS
    <3> QED
      BY <1>4, <2>1, <2>3, <3>1
  <2>5. ASSUME NEW i \in 1..n + 1, k[i - 1] = TRUE PROVE k[i] = TRUE
    <3>1. i \in 0..n + 1 /\ i - 1 \in 0..n + 1
      OBVIOUS
    <3>2. h[i - 1] = Value(i - 1)
      BY <2>3, <2>5, <3>1
    <3>3. h[i] = Value(i)
      BY <1>5, <2>2, <3>2
    <3> QED
      BY <2>3, <3>1, <3>3
  <2>6. n + 1 \in Nat /\ n + 1 \in 0..n + 1
    OBVIOUS
  <2>7. k[n + 1] = TRUE
    BY <2>4, <2>5, <2>6, GoesOn
  <2> QED
    BY <2>3, <2>6, <2>7
<1>9. Parsed(Printed(rows)) = (CHOOSE f : Good(f))[n + 1]
  BY <1>1, <1>3 DEF Parsed
<1> HIDE DEF Good
<1>10. PICK h : h = CHOOSE f : Good(f)
  OBVIOUS
<1>11. Good(h)
  BY <1>7, <1>10
<1>12. ~(n + 1 <= n)
  OBVIOUS
<1> QED
  BY <1>8, <1>9, <1>10, <1>11, <1>12 DEF Value

LEMMA JoinedText ==
    ASSUME NEW texts \in Seq(CsvText)
    PROVE  Joined(texts) \in CsvText
<1>1. texts \in Seq(Seq(Characters))
  BY DEF CsvText
<1>2. PICK f : IsJoin(f, Characters, texts)
  BY <1>1, JoinedIs
<1>3. PICK n \in Nat : n = Len(texts)
  OBVIOUS
<1>4. n \in 0..n
  OBVIOUS
<1> QED
  BY <1>2, <1>3, <1>4 DEF IsJoin, CsvText

LEMMA SpellingTexts ==
    ASSUME NEW spelling \in Spellings
    PROVE  \A k \in Keys \cup Values \cup {Null} : spelling[k] \in CsvText
<1>1. spelling \in [Keys \cup Values \cup {Null} -> Seq(Characters)]
  BY CsvAssumption
<1> QED
  BY <1>1 DEF CsvText

LEMMA SignTexts ==
    /\ <<"/">> \in CsvText /\ <<"{">> \in CsvText /\ <<"}">> \in CsvText /\ <<"{", "}">> \in CsvText
    /\ <<Quote, ":">> \in CsvText /\ <<"1">> \in CsvText /\ <<"5">> \in CsvText
    /\ <<>> \in CsvText
<1>1. ASSUME NEW c \in Characters PROVE <<c>> \in CsvText
  BY DEF CsvText
<1>2. ASSUME NEW c \in Characters, NEW d \in Characters PROVE <<c, d>> \in CsvText
  BY DEF CsvText
<1>3. <<>> \in CsvText
  BY DEF CsvText
<1>4. PICK a, b, c, d, e, f, g : /\ a = "/" /\ b = "{" /\ c = "}" /\ d = ":" /\ e = "1" /\ f = "5"
                                 /\ g = Quote
  OBVIOUS
<1>5. {g, a, b, c, d, e, f} \subseteq Characters
  <2>1. {Quote, Comma, Newline, Return, "/", "{", "}", ":", "1", "5"} \subseteq Characters
    BY CsvAssumption
  <2> QED
    BY <1>4, <2>1
<1>6. /\ <<a>> \in CsvText /\ <<b>> \in CsvText /\ <<c>> \in CsvText /\ <<b, c>> \in CsvText
      /\ <<g, d>> \in CsvText /\ <<e>> \in CsvText /\ <<f>> \in CsvText
  BY <1>1, <1>2, <1>5
<1> QED
  BY <1>3, <1>4, <1>6

LEMMA ValueSpelled ==
    ASSUME NEW spelling \in Spellings, NEW v \in Item
    PROVE  SpelledValue(v, spelling) \in CsvText
<1>1. v # Obj => v \in Keys \cup Values \cup {Null}
  BY DEF Item
<1> QED
  BY <1>1, SpellingTexts, SignTexts DEF SpelledValue

LEMMA PathSpelled ==
    ASSUME NEW spelling \in Spellings, NEW r, r.path \in Path
    PROVE  SpelledPath(r, spelling) \in CsvText
<1>1. PICK n \in Nat : n = Len(r.path)
  BY DEF Path
<1>2. PICK texts : texts = [i \in 1..n |->
          spelling[r.path[i]] \o IF i < n \/ r.slash THEN <<"/">> ELSE <<>>]
  OBVIOUS
<1>3. ASSUME NEW i \in 1..n PROVE texts[i] \in CsvText
  <2>1. PICK k \in Keys : k = r.path[i]
    BY <1>1 DEF Path
  <2>2. PICK s, t : s = spelling[k] /\ t = IF i < n \/ r.slash THEN <<"/">> ELSE <<>>
    OBVIOUS
  <2>3. s \in CsvText
    BY <2>2, SpellingTexts
  <2>4. t \in CsvText
    BY <2>2, SignTexts
  <2>5. texts[i] = s \o t
    BY <1>2, <2>1, <2>2
  <2> QED
    BY <2>3, <2>4, <2>5, TextsJoin
<1>4. texts \in Seq(CsvText)
  <2>1. DOMAIN texts = 1..n /\ texts = [i \in 1..n |-> texts[i]]
    BY <1>2
  <2> QED
    BY <1>3, <2>1
<1>5. Joined(texts) \in CsvText
  BY <1>4, JoinedText
<1>6. SpelledPath(r, spelling) = <<"/">> \o Joined(texts)
  BY <1>1, <1>2 DEF SpelledPath
<1> QED
  BY <1>5, <1>6, SignTexts, TextsJoin

\* A text of several ones.
LEMMA FiveJoin ==
    ASSUME NEW a \in CsvText, NEW b \in CsvText, NEW c \in CsvText, NEW d \in CsvText, NEW e \in CsvText
    PROVE  a \o b \o c \o d \o e \in CsvText
<1>1. a \o b \in CsvText
  BY TextsJoin
<1>2. a \o b \o c \in CsvText
  BY <1>1, TextsJoin
<1>3. a \o b \o c \o d \in CsvText
  BY <1>2, TextsJoin
<1> QED
  BY <1>3, TextsJoin

LEMMA TextSpelled ==
    ASSUME FInv, NEW spelling \in Spellings, NEW p, NEW r \in Exported(p)
    PROVE  SpelledText(Printable(r), spelling) \in CsvText
<1>1. PICK c : c = Printable(r)
  OBVIOUS
<1>2. c.slash = r.slash /\ c.text = RowText(r)
  BY <1>1 DEF Printable
<1>3. \/ r.slash = TRUE /\ r.path \in DOMAIN containers
      \/ r.slash = FALSE /\ r.path \in DOMAIN primitives
  BY ExportedChar DEF FInv
<1>4. CASE r.slash = TRUE /\ r.path \in DOMAIN containers
  <2>1. PICK E : E = containers[r.path].inline
    OBVIOUS
  <2>2. /\ DOMAIN E \subseteq Keys /\ \A k \in DOMAIN E : E[k] \in Item
        /\ IsFiniteSet(DOMAIN E)
    <3>1. containers[r.path] \in ContainerRow
      BY <1>4 DEF FInv, IInv, TypeOK
    <3>2. IsFiniteSet(DOMAIN E)
      BY <1>4, <2>1 DEF FInv, FiniteRows
    <3> QED
      BY <2>1, <3>1, <3>2 DEF ContainerRow
  <2>3. c.text = [x \in {Root} \cup {<<k>> : k \in DOMAIN E} |-> IF x = Root THEN Obj ELSE E[Last(x)]]
    BY <1>2, <1>4, <2>1 DEF RowText
  <2>4. ASSUME NEW k \in DOMAIN E PROVE c.text[<<k>>] = E[k] /\ Last(<<k>>) = k /\ <<k>> # Root
    <3>1. Last(<<k>>) = k /\ <<k>> # Root
      BY DEF Last, Root
    <3> QED
      BY <2>3, <3>1
  <2>5. {Last(x) : x \in DOMAIN c.text \ {Root}} = DOMAIN E
    <3>1. DOMAIN c.text \ {Root} = {<<k>> : k \in DOMAIN E}
      <4>1. PICK T : T = {<<k>> : k \in DOMAIN E}
        OBVIOUS
      <4>2. DOMAIN c.text = {Root} \cup T
        BY <2>3, <4>1
      <4>3. Root \notin T
        BY <2>4, <4>1
      <4> QED
        BY <4>1, <4>2, <4>3
    <3>2. PICK D : D = DOMAIN c.text \ {Root}
      OBVIOUS
    <3>3. ASSUME NEW k \in DOMAIN E PROVE \E x \in D : k = Last(x)
      <4>1. <<k>> \in D
        BY <3>1, <3>2
      <4>2. k = Last(<<k>>)
        BY <2>4
      <4> QED
        BY <4>1, <4>2
    <3>4. ASSUME NEW x \in D PROVE Last(x) \in DOMAIN E
      <4>1. PICK k \in DOMAIN E : x = <<k>>
        BY <3>1, <3>2
      <4> QED
        BY <2>4, <4>1
    <3> QED
      BY <3>2, <3>3, <3>4
  <2>6. PICK keys : keys = KeysInOrder(DOMAIN E)
    OBVIOUS
  <2>7. PICK n \in Nat : n = Len(keys) /\ \A i \in 1..n : keys[i] \in DOMAIN E
    BY <2>2, <2>6, KeysListed
  <2>8. PICK texts : texts = [i \in 1..n |->
            (IF i > 1 THEN <<Comma>> ELSE <<>>) \o <<Quote>> \o spelling[keys[i]] \o <<Quote, ":">>
                \o SpelledValue(c.text[<<keys[i]>>], spelling)]
    OBVIOUS
  <2>9. ASSUME NEW i \in 1..n PROVE texts[i] \in CsvText
    <3>1. PICK k \in DOMAIN E : k = keys[i]
      BY <2>7
    <3>2. PICK a, b, s, e, v : /\ a = IF i > 1 THEN <<Comma>> ELSE <<>>
                               /\ b = <<Quote>> /\ s = spelling[k] /\ e = <<Quote, ":">>
                               /\ v = SpelledValue(c.text[<<keys[i]>>], spelling)
      OBVIOUS
    <3>3. a \in CsvText /\ b \in CsvText /\ e \in CsvText
      BY <3>2, CharacterTexts, SignTexts
    <3>4. s \in CsvText
      BY <2>2, <3>2, SpellingTexts
    <3>5. v \in CsvText
      <4>1. c.text[<<keys[i]>>] \in Item
        BY <2>2, <2>4, <3>1
      <4> QED
        BY <3>2, <4>1, ValueSpelled
    <3>6. texts[i] = a \o b \o s \o e \o v
      BY <2>8, <3>1, <3>2
    <3> QED
      BY <3>3, <3>4, <3>5, <3>6, FiveJoin
  <2>10. texts \in Seq(CsvText)
    <3>1. texts = [i \in 1..n |-> texts[i]]
      BY <2>8
    <3> QED
      BY <2>9, <3>1
  <2>11. PICK j : j = Joined(texts)
    OBVIOUS
  <2>12. j \in CsvText
    BY <2>10, <2>11, JoinedText
  <2>13. SpelledText(c, spelling) = <<"{">> \o j \o <<"}">>
    BY <1>2, <1>4, <2>5, <2>6, <2>7, <2>8, <2>11 DEF SpelledText
  <2>14. <<"{">> \o j \in CsvText
    BY <2>12, SignTexts, TextsJoin
  <2> QED
    BY <1>1, <2>13, <2>14, SignTexts, TextsJoin
<1>5. CASE r.slash = FALSE /\ r.path \in DOMAIN primitives
  <2>1. primitives[r.path] \in PrimitiveRow
    BY <1>5 DEF FInv, IInv, TypeOK
  <2>2. primitives[r.path].val \in Item
    BY <2>1 DEF PrimitiveRow, Item
  <2>3. c.text = [x \in {Root} |-> primitives[r.path].val]
    BY <1>2, <1>5 DEF RowText
  <2>4. c.text[Root] \in Item
    BY <2>2, <2>3
  <2>5. SpelledText(c, spelling) = SpelledValue(c.text[Root], spelling)
    BY <1>2, <1>5 DEF SpelledText
  <2> QED
    BY <1>1, <2>4, <2>5, ValueSpelled
<1> QED
  BY <1>3, <1>4, <1>5

LEMMA ColumnsAreTexts ==
    ASSUME FInv, NEW spelling \in Spellings, NEW p
    PROVE  Columns(ExportRows(p), spelling) \in Seq(CsvRow)
<1>1. PICK rows : rows = ExportRows(p)
  OBVIOUS
<1>2. IInv
  BY DEF FInv
<1>3. PICK L : L = RowsInOrder(Exported(p))
  OBVIOUS
<1>10. PICK n \in Nat : L \in [1..n -> Exported(p)] /\ rows = [i \in 1..n |-> Printable(L[i])]
  BY <1>1, <1>2, <1>3, ExportIsList
<1>4. Len(rows) = n
  BY <1>10
<1>5. PICK S : S = Columns(rows, spelling)
  OBVIOUS
<1>6. S = [i \in 1..n |-> [path |-> SpelledPath(rows[i], spelling),
                           type |-> IF rows[i].slash THEN <<"1">> ELSE <<"5">>,
                           text |-> SpelledText(rows[i], spelling)]]
  BY <1>4, <1>5 DEF Columns, SpelledRow
<1>7. ASSUME NEW i \in 1..n PROVE S[i] \in CsvRow
  <2>1. PICK r \in Exported(p) : rows[i] = Printable(r)
    BY <1>10
  <2>2. PICK a, t, b : /\ a = SpelledPath(rows[i], spelling)
                       /\ t = IF rows[i].slash THEN <<"1">> ELSE <<"5">>
                       /\ b = SpelledText(rows[i], spelling)
    OBVIOUS
  <2>3. a \in CsvText
    <3>1. IsRow(r)
      BY <1>2, ExportedChar
    <3>2. rows[i].path \in Path
      BY <2>1, <3>1 DEF IsRow, Printable
    <3> QED
      BY <2>2, <3>2, PathSpelled
  <2>4. b \in CsvText
    BY <2>1, <2>2, TextSpelled
  <2>5. t \in CsvText /\ IsPlain(t)
    <3>1. t = <<"1">> \/ t = <<"5">>
      BY <2>2
    <3>2. IsPlain(<<"1">>) /\ IsPlain(<<"5">>)
      <4>1. "1" \notin {Comma, Quote, Newline, Return} /\ "5" \notin {Comma, Quote, Newline, Return}
        BY DEF Comma, Quote, Newline, Return
      <4>2. ASSUME NEW c, c \notin {Comma, Quote, Newline, Return} PROVE IsPlain(<<c>>)
        <5>1. PICK one : one = <<c>>
          OBVIOUS
        <5>2. Len(one) = 1 /\ one[1] = c
          BY <5>1
        <5>3. \A j \in 1..Len(one) : one[j] = c
          BY <5>2
        <5> QED
          BY <4>2, <5>1, <5>3 DEF IsPlain
      <4> QED
        BY <4>1, <4>2
    <3> QED
      BY <3>1, <3>2, SignTexts
  <2>6. S[i] = [path |-> a, type |-> t, text |-> b]
    BY <1>6, <2>2
  <2> QED
    BY <2>3, <2>4, <2>5, <2>6 DEF CsvRow
<1>8. S = [i \in 1..n |-> S[i]]
  BY <1>6
<1>9. S \in Seq(CsvRow)
  BY <1>7, <1>8
<1> QED
  BY <1>1, <1>5, <1>9

\* export_csv prints rows so that import_csv reads the same: whatever characters
\* keys and values are made of, and whatever the calls have stored.
THEOREM CsvIsRead == Spec => []CsvCarriesRows
<1>1. ASSUME FInv PROVE CsvCarriesRows
  <2> SUFFICES ASSUME NEW p \in DocPaths, NEW spelling \in Spellings, Exists(p)
               PROVE  Parsed(Printed(Columns(ExportRows(p), spelling))) = Columns(ExportRows(p), spelling)
    BY DEF CsvCarriesRows
  <2>1. Columns(ExportRows(p), spelling) \in Seq(CsvRow)
    BY <1>1, ColumnsAreTexts
  <2> QED
    BY <2>1, PrintedParses
<1> QED
  BY <1>1, TablesStayFinite, PTL
===============================================================================
