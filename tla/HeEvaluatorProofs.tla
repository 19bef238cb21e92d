--------------------------- MODULE HeEvaluatorProofs ---------------------------
(***************************************************************************)
(* The three evaluators of queries agree where they should, for any rows   *)
(* the calls leave and any queries: the scan of "/p/*" gives row by row    *)
(* what is cut from the document of "/p" (ScanIsDirect) and what the rows  *)
(* that match "/p/$v" give (PatternsAgree); an order by comparable values  *)
(* is one (OrdersSort); two wildcards give what their instances give       *)
(* (LevelsAgree).                                                          *)
(*                                                                         *)
(* Each of the three is led back to Evaluated of one list, the documents   *)
(* that the rows one level below p begin (Kids of Tops), in the order of   *)
(* the rows.                                                               *)
(***************************************************************************)
EXTENDS HeTransferProofs

-----------------------------------------------------------------------------
(***************************************************************************)
(* The rows below a container                                              *)
(***************************************************************************)

\* The rows that stream_wildcard scans, and those of them that begin a child.
Lower(p) == {r \in Exported(p) : r.path # p}
Tops(p)  == {r \in Exported(p) : Len(r.path) = Len(p) + 1}

\* The child that the row h begins.
Whole(h) == IF h.slash THEN Extract(h.path) ELSE [x \in {Root} |-> primitives[h.path].val]

\* The scan takes those of the CSV but the first.
LEMMA BelowIsLower ==
    ASSUME IInv, NEW p \in Path
    PROVE  RowsBelow(p) = RowsInOrder(Lower(p))
<1>1. PICK C, D : C = DOMAIN containers /\ D = DOMAIN primitives
  OBVIOUS
<1>2. PICK S : S = {x \in C \cup D : IsStrictPrefix(p, x)}
  OBVIOUS
<1>3. \A r : r \in RowsAt(S) <=> \/ \E x \in S \cap C : r = [path |-> x, slash |-> TRUE]
                                 \/ \E x \in S \cap D : r = [path |-> x, slash |-> FALSE]
  BY <1>1 DEF RowsAt
<1>4. ASSUME NEW r
      PROVE  r \in Lower(p) <=>
                 /\ r = [path |-> r.path, slash |-> r.slash]
                 /\ IsPrefix(p, r.path) /\ r.path # p
                 /\ \/ r.slash = TRUE /\ r.path \in C
                    \/ r.slash = FALSE /\ r.path \in D
  BY <1>1, ExportedChar DEF Lower
<1>5. ASSUME NEW r PROVE r \in RowsAt(S) <=> r \in Lower(p)
  <2>1. ASSUME NEW x \in S \cap C, r = [path |-> x, slash |-> TRUE] PROVE r \in Lower(p)
    <3>1. r.path = x /\ r.slash = TRUE /\ r = [path |-> r.path, slash |-> r.slash]
      BY <2>1
    <3>2. IsPrefix(p, x) /\ x # p /\ x \in C
      BY <1>2, <2>1 DEF IsStrictPrefix
    <3> QED
      BY <1>4, <3>1, <3>2
  <2>2. ASSUME NEW x \in S \cap D, r = [path |-> x, slash |-> FALSE] PROVE r \in Lower(p)
    <3>1. r.path = x /\ r.slash = FALSE /\ r = [path |-> r.path, slash |-> r.slash]
      BY <2>2
    <3>2. IsPrefix(p, x) /\ x # p /\ x \in D
      BY <1>2, <2>2 DEF IsStrictPrefix
    <3> QED
      BY <1>4, <3>1, <3>2
  <2>3. ASSUME r \in Lower(p) PROVE r \in RowsAt(S)
    <3>1. r.path \in C \cup D => r.path \in S
      BY <1>2, <1>4, <2>3 DEF IsStrictPrefix
    <3> QED
      BY <1>3, <1>4, <2>3, <3>1
  <2> QED
    BY <1>3, <2>1, <2>2, <2>3
<1>6. RowsAt(S) = Lower(p)
  BY <1>5
<1> QED
  BY <1>1, <1>2, <1>6 DEF RowsBelow

\* Both are lists in the order of rows.
LEMMA LowerListed ==
    ASSUME IInv, FInv, NEW p \in Path, NEW S, S \subseteq Exported(p)
    PROVE  /\ Listed(RowsInOrder(S)) /\ Range(RowsInOrder(S)) = S
           /\ \A r \in S : IsRow(r) /\ r.path \in Path /\ IsPrefix(p, r.path)
           /\ \A i \in 1..Len(RowsInOrder(S)) : RowsInOrder(S)[i] \in S
           /\ \A r \in S : \E i \in 1..Len(RowsInOrder(S)) : RowsInOrder(S)[i] = r
<1>1. IsFiniteSet(S)
  BY FiniteRowsAt DEF Exported
<1>2. Keyed(S) /\ \A r \in S : IsRow(r) /\ IsPrefix(p, r.path)
  BY ExportedChar DEF Keyed
<1>3. PICK rows : rows = RowsInOrder(S)
  OBVIOUS
<1>4. Listed(rows) /\ Range(rows) = S
  BY <1>1, <1>2, <1>3, SetListed
<1>5. DOMAIN rows = 1..Len(rows)
  BY <1>4 DEF Listed
<1> QED
  BY <1>2, <1>3, <1>4, <1>5 DEF IsRow, Range

\* Below an unambiguous document there is one row for a path.
LEMMA OneRow ==
    ASSUME IInv, NEW p \in Path, Unambiguous(p), NEW r \in Exported(p), NEW s \in Exported(p),
           r.path = s.path, r.path # p
    PROVE  r = s
<1>1. /\ r = [path |-> r.path, slash |-> r.slash] /\ IsPrefix(p, r.path)
      /\ \/ r.slash = TRUE /\ r.path \in DOMAIN containers
         \/ r.slash = FALSE /\ r.path \in DOMAIN primitives
  BY ExportedChar
<1>2. /\ s = [path |-> s.path, slash |-> s.slash]
      /\ \/ s.slash = TRUE /\ s.path \in DOMAIN containers
         \/ s.slash = FALSE /\ s.path \in DOMAIN primitives
  BY ExportedChar
<1>3. r.path \in Path
  BY ExportedChar DEF IsRow
<1>4. r.path \in DOMAIN containers => r.path \notin DOMAIN primitives
  BY <1>1, <1>3, ClaimedOnce
<1> QED
  BY <1>1, <1>2, <1>4

\* The path of a row below p, with the key of the child it belongs to.
LEMMA PathOfLower ==
    ASSUME NEW p \in Path, NEW z \in Path, IsPrefix(p, z), z # p
    PROVE  \E k \in Keys, y \in Path :
              /\ z = (p \o <<k>>) \o y
              /\ p \o <<k>> \in Path /\ p \o <<k>> # p /\ Len(p \o <<k>>) = Len(p) + 1
              /\ Front(p \o <<k>>) = p
              /\ IsPrefix(p, p \o <<k>>) /\ IsPrefix(p \o <<k>>, z)
              /\ Rel(p, z) = <<k>> \o y
              /\ Head(Rel(p, z)) = k
              /\ Rel(<<k>>, Rel(p, z)) = y
              /\ Len(Rel(p, z)) = 1 <=> y = Root
              /\ Len(z) = Len(p) + 1 <=> y = Root
<1>1. PICK x \in Path : x = Rel(p, z) /\ z = p \o x
  BY RelChar
<1>2. x # Root
  BY <1>1, ConcatChar
<1>3. Len(x) \in Nat \ {0} /\ DOMAIN x = 1..Len(x) /\ x \in Seq(Keys)
  BY <1>2, EmptySeq DEF Path, Root
<1>4. PICK k \in Keys : k = Head(x)
  BY <1>3
<1>5. PICK y : y = Tail(x)
  OBVIOUS
<1>6. y \in Path /\ x = <<k>> \o y /\ Len(y) = Len(x) - 1
  BY <1>3, <1>4, <1>5 DEF Path
<1>7. <<k>> \in Path /\ <<k>> # Root /\ Front(<<k>>) = Root /\ Len(<<k>>) = 1
  BY OneKey
<1>8. z = (p \o <<k>>) \o y
  BY <1>1, <1>6, <1>7, BelowBelow
<1>9. /\ p \o <<k>> \in Path /\ p \o <<k>> # p /\ Len(p \o <<k>>) = Len(p) + 1
      /\ IsPrefix(p, p \o <<k>>)
  BY <1>7, ConcatChar
<1>10. IsPrefix(p \o <<k>>, (p \o <<k>>) \o y)
  BY <1>6, <1>9, ConcatChar
<1>11. Front(p \o <<k>>) = p
  <2>1. Front(p \o <<k>>) = p \o Root
    BY <1>7, FrontOfConcat
  <2>2. p \o Root = p
    BY RootIsPath, ConcatChar
  <2> QED
    BY <2>1, <2>2
<1>12. Rel(<<k>>, <<k>> \o y) = y
  BY <1>6, <1>7, ConcatChar
<1>13. Len(y) = 0 <=> y = Root
  BY <1>6, RootIsPath, EmptySeq DEF Path, Root
<1>14. Len(z) = Len(p) + Len(x) /\ Len(p) \in Nat
  BY <1>1, ConcatChar DEF Path
<1>15. Len(x) = 1 <=> y = Root
  BY <1>3, <1>6, <1>13
<1>16. Len(z) = Len(p) + 1 <=> y = Root
  <2>1. PICK a \in Nat, b \in Nat : a = Len(p) /\ b = Len(x)
    BY <1>3, <1>14
  <2>2. PICK c : c = Len(z)
    OBVIOUS
  <2>3. c = a + b
    BY <1>14, <2>1, <2>2
  <2>5. c \in Int
    BY <2>1, <2>3
  <2>4. c = a + 1 <=> b = 1
    BY <2>3, <2>5
  <2> QED
    BY <1>15, <2>1, <2>2, <2>4
<1> QED
  BY <1>1, <1>4, <1>6, <1>8, <1>9, <1>10, <1>11, <1>12, <1>15, <1>16

\* Above a row below p stands the row that begins its child.
LEMMA TopOf ==
    ASSUME IInv, NEW p \in Path, NEW e \in Lower(p)
    PROVE  \E h \in Tops(p), y \in Path :
              /\ h.path \in Path /\ h.path # p /\ IsPrefix(p, h.path) /\ Front(h.path) = p
              /\ e.path = h.path \o y /\ IsPrefix(h.path, e.path)
              /\ y = Root => h = e
              /\ y # Root => h.slash /\ h.path # e.path
              /\ Rel(<<Head(Rel(p, e.path))>>, Rel(p, e.path)) = y
              /\ Len(Rel(p, e.path)) = 1 <=> y = Root
              /\ e \in Tops(p) <=> y = Root
<1>1. e \in Exported(p) /\ e.path # p
  BY DEF Lower
<1>2. e.path \in Path /\ IsPrefix(p, e.path) /\ e.path \in DOMAIN containers \cup DOMAIN primitives
  BY <1>1, ExportedChar DEF IsRow
<1>3. PICK k \in Keys, y \in Path :
              /\ e.path = (p \o <<k>>) \o y
              /\ p \o <<k>> \in Path /\ p \o <<k>> # p /\ Len(p \o <<k>>) = Len(p) + 1
              /\ Front(p \o <<k>>) = p
              /\ IsPrefix(p, p \o <<k>>) /\ IsPrefix(p \o <<k>>, e.path)
              /\ Rel(p, e.path) = <<k>> \o y
              /\ Head(Rel(p, e.path)) = k
              /\ Rel(<<k>>, Rel(p, e.path)) = y
              /\ Len(Rel(p, e.path)) = 1 <=> y = Root
              /\ Len(e.path) = Len(p) + 1 <=> y = Root
  BY <1>1, <1>2, PathOfLower
<1>4. PICK top : top = p \o <<k>>
  OBVIOUS
<1>5. e \in Tops(p) <=> y = Root
  BY <1>1, <1>3 DEF Tops
<1>6. CASE y = Root
  <2>1. e.path = top
    BY <1>3, <1>4, <1>6, ConcatChar
  <2> QED
    BY <1>2, <1>3, <1>4, <1>5, <1>6, <2>1
<1>7. CASE y # Root
  <2>1. top # e.path
    BY <1>3, <1>4, <1>7, ConcatChar
  <2>2. top \in Ancestors(e.path)
    BY <1>2, <1>3, <1>4, <2>1, AncestorChar
  <2>3. top \in DOMAIN containers
    BY <1>2, <2>2 DEF IInv, AncestorClosed
  <2>4. PICK h : h = [path |-> top, slash |-> TRUE]
    OBVIOUS
  <2>5. h.path = top /\ h.slash = TRUE /\ h = [path |-> h.path, slash |-> h.slash]
    BY <2>4
  <2>6. h \in Exported(p)
    BY <1>3, <1>4, <2>3, <2>5, ExportedChar
  <2>7. h \in Tops(p)
    BY <1>3, <1>4, <2>5, <2>6 DEF Tops
  <2> QED
    BY <1>3, <1>4, <1>5, <1>7, <2>1, <2>5, <2>7
<1> QED
  BY <1>6, <1>7

\* A row that begins a child.
LEMMA TopFacts ==
    ASSUME IInv, NEW p \in Path, NEW h \in Tops(p)
    PROVE  /\ h \in Exported(p) /\ h \in Lower(p)
           /\ h.path \in Path /\ h.path # p /\ h.path # Root /\ IsPrefix(p, h.path) /\ Front(h.path) = p
           /\ h = [path |-> h.path, slash |-> h.slash]
           /\ \/ h.slash = TRUE /\ h.path \in DOMAIN containers
              \/ h.slash = FALSE /\ h.path \in DOMAIN primitives
<1>1. h \in Exported(p) /\ Len(h.path) = Len(p) + 1
  BY DEF Tops
<1>2. h.path \in Path /\ IsPrefix(p, h.path) /\ h = [path |-> h.path, slash |-> h.slash]
  BY <1>1, ExportedChar DEF IsRow
<1>3. h.path # p
  <2>1. Len(p) \in Nat
    BY DEF Path
  <2>2. Len(p) # Len(p) + 1
    BY <2>1
  <2> QED
    BY <1>1, <2>2
<1>4. PICK k \in Keys, y \in Path :
              /\ h.path = (p \o <<k>>) \o y
              /\ p \o <<k>> \in Path
              /\ Front(p \o <<k>>) = p
              /\ Len(h.path) = Len(p) + 1 <=> y = Root
  BY <1>2, <1>3, PathOfLower
<1>5. h.path = p \o <<k>>
  BY <1>1, <1>4, ConcatChar
<1>6. h.path # Root
  BY <1>5, OneKey, FrontOfConcat
<1>7. /\ \/ h.slash = TRUE /\ h.path \in DOMAIN containers
         \/ h.slash = FALSE /\ h.path \in DOMAIN primitives
  BY <1>1, ExportedChar
<1> QED
  BY <1>1, <1>2, <1>3, <1>4, <1>5, <1>6, <1>7 DEF Lower

\* What the rows say of a child is what the child is.
LEMMA SaidIsWhole ==
    ASSUME IInv, NEW p \in Path, Unambiguous(p), NEW h \in Tops(p), NEW e \in Lower(p),
           NEW y \in Path, Says(Printable(e), h.path, y)
    PROVE  /\ y \in DOMAIN Whole(h)
           /\ Whole(h)[y] = Told(Printable(e), h.path, y)
           /\ IsPrefix(h.path, e.path)
<1>1. /\ h \in Exported(p) /\ h \in Lower(p)
      /\ h.path \in Path /\ h.path # p /\ h.path # Root /\ IsPrefix(p, h.path) /\ Front(h.path) = p
      /\ \/ h.slash = TRUE /\ h.path \in DOMAIN containers
         \/ h.slash = FALSE /\ h.path \in DOMAIN primitives
  BY TopFacts
<1>2. e \in Exported(p) /\ e.path # p
  BY DEF Lower
<1>3. PICK top \in Path : top = h.path
  BY <1>1
<1>4. /\ Says(Printable(e), top, y) <=>
             \/ e.path = top \o y
             \/ /\ e.slash /\ top \o y # Root /\ e.path = Front(top \o y)
                /\ Last(top \o y) \in DOMAIN containers[Front(top \o y)].inline
      /\ e.path = top \o y /\ e.slash => Told(Printable(e), top, y) = Obj
      /\ e.path = top \o y /\ ~e.slash => Told(Printable(e), top, y) = primitives[top \o y].val
  BY <1>2, PrintedTells
<1>5. top \o Root = top /\ Root \in Path
  BY RootIsPath, ConcatChar
<1>6. CASE y = Root
  <2>1. e.path = top
    BY <1>1, <1>2, <1>3, <1>4, <1>5, <1>6
  <2>2. e = h
    BY <1>1, <1>2, <1>3, <2>1, OneRow
  <2>3. IsPrefix(h.path, e.path)
    BY <1>1, <2>2, PrefixOrder
  <2>4. CASE h.slash
    <3>1. Whole(h) = Extract(top)
      BY <1>3, <2>4 DEF Whole
    <3>2. Exists(top)
      BY <1>1, <1>3, <2>4 DEF Exists
    <3>3. IsText(Extract(top)) /\ Extract(top)[Root] = Obj
      BY <3>2, ExtractIsText
    <3>4. Root \in DOMAIN Extract(top)
      BY <3>3 DEF IsText
    <3> QED
      BY <1>3, <1>4, <1>5, <1>6, <2>1, <2>2, <2>3, <2>4, <3>1, <3>3, <3>4
  <2>5. CASE ~h.slash
    <3>1. Whole(h) = [x \in {Root} |-> primitives[top].val]
      BY <1>3, <2>5 DEF Whole
    <3> QED
      BY <1>3, <1>4, <1>5, <1>6, <2>1, <2>2, <2>3, <2>5, <3>1
  <2> QED
    BY <2>4, <2>5
<1>7. CASE y # Root
  <2>1. /\ top \o y \in Path /\ top \o y # top /\ top \o y # Root
        /\ Front(top \o y) \in Path /\ IsPrefix(top, Front(top \o y)) /\ IsPrefix(top, top \o y)
    BY <1>7, NodeBelow, ConcatChar
  <2>2. IsPrefix(top, e.path)
    BY <1>3, <1>4, <2>1
  <2>3. e.path \in Path /\ e.path \in DOMAIN containers \cup DOMAIN primitives
        /\ (e.slash => e.path \in DOMAIN containers)
    BY <1>2, ExportedChar DEF IsRow
  <2>4. top \in DOMAIN containers
    <3>1. CASE e.path = top
      <4>1. e.slash
        BY <1>3, <1>4, <2>1, <3>1
      <4> QED
        BY <2>3, <3>1, <4>1
    <3>2. CASE e.path # top
      <4>1. top \in Ancestors(e.path)
        BY <2>2, <2>3, <3>2, AncestorChar
      <4> QED
        BY <2>3, <4>1 DEF IInv, AncestorClosed
    <3> QED
      BY <3>1, <3>2
  <2>5. h.slash
    BY <1>1, <1>3, <2>4, ClaimedOnce
  <2>6. Whole(h) = Extract(top)
    BY <1>3, <2>5 DEF Whole
  <2>7. y \in DOMAIN Extract(top) /\ Extract(top)[y] = Told(Printable(e), top, y)
    BY <1>1, <1>2, <1>3, <1>7, SaidIsRead
  <2> QED
    BY <1>3, <2>2, <2>6, <2>7
<1> QED
  BY <1>6, <1>7

\* And every part of the child is said by one of them.
LEMMA WholeIsSaid ==
    ASSUME IInv, NEW p \in Path, NEW h \in Tops(p), NEW y \in DOMAIN Whole(h)
    PROVE  /\ y \in Path
           /\ \E e \in Lower(p) : Says(Printable(e), h.path, y)
<1>1. /\ h \in Exported(p) /\ h \in Lower(p)
      /\ h.path \in Path /\ h.path # p /\ h.path # Root /\ IsPrefix(p, h.path) /\ Front(h.path) = p
      /\ \/ h.slash = TRUE /\ h.path \in DOMAIN containers
         \/ h.slash = FALSE /\ h.path \in DOMAIN primitives
  BY TopFacts
<1>2. PICK top \in Path : top = h.path
  BY <1>1
<1>3. top \o Root = top /\ Root \in Path
  BY RootIsPath, ConcatChar
<1>4. CASE y = Root
  <2>1. Says(Printable(h), top, y) <=>
             \/ h.path = top \o y
             \/ /\ h.slash /\ top \o y # Root /\ h.path = Front(top \o y)
                /\ Last(top \o y) \in DOMAIN containers[Front(top \o y)].inline
    BY <1>1, <1>3, <1>4, PrintedTells
  <2> QED
    BY <1>1, <1>2, <1>3, <1>4, <2>1
<1>5. CASE y # Root
  <2>1. h.slash /\ Whole(h) = Extract(top)
    BY <1>2, <1>5 DEF Whole
  <2>2. PICK C, D, N : C = containers /\ D = primitives /\ N = NodesOf(C, D, top)
    OBVIOUS
  <2>3. ContainersOK(C) /\ PrimitivesOK(D)
    BY <2>2, IInvChar
  <2>4. y \in N
    <3>1. Extract(top) = TextOf(containers, primitives, top)
      BY ExtractIsTextOf
    <3>2. DOMAIN TextOf(C, D, top) = N
      BY <2>2 DEF TextOf
    <3> QED
      BY <2>1, <2>2, <3>1, <3>2
  <2>5. y \in Path
    BY <2>2, <2>3, <2>4, NodesChar
  <2>6. PICK z \in Path : z = top \o y
    BY <2>5, ConcatChar
  <2>7. z \in DOMAIN C \/ z \in DOMAIN D \/ Inlined(C, z)
    BY <2>2, <2>3, <2>4, <2>5, <2>6, NodesChar
  <2>8. /\ z # top /\ z # Root /\ Front(z) \in Path /\ IsPrefix(top, Front(z)) /\ IsPrefix(top, z)
    BY <1>5, <2>5, <2>6, NodeBelow, ConcatChar
  <2>9. IsPrefix(p, z) /\ IsPrefix(p, Front(z)) /\ z # p /\ Front(z) # p
    <3>1. IsPrefix(p, top) /\ top # p
      BY <1>1, <1>2
    <3>2. \A x \in Path : IsPrefix(top, x) => IsPrefix(p, x) /\ x # p
      BY <3>1, PrefixOrder
    <3> QED
      BY <2>8, <3>2
  <2>10. ASSUME NEW x \in Path, NEW s \in BOOLEAN, IsPrefix(p, x), x # p,
                s => x \in DOMAIN C, ~s => x \in DOMAIN D,
                x = z \/ (s /\ x = Front(z) /\ Last(z) \in DOMAIN C[Front(z)].inline)
         PROVE  \E e \in Lower(p) : Says(Printable(e), h.path, y)
    <3>1. PICK e : e = [path |-> x, slash |-> s]
      OBVIOUS
    <3>2. e.path = x /\ e.slash = s /\ e = [path |-> e.path, slash |-> e.slash]
      BY <3>1
    <3>3. e \in Exported(p)
      BY <2>2, <2>10, <3>2, ExportedChar
    <3>4. e \in Lower(p)
      BY <2>10, <3>2, <3>3 DEF Lower
    <3>5. Says(Printable(e), top, y) <=>
             \/ e.path = top \o y
             \/ /\ e.slash /\ top \o y # Root /\ e.path = Front(top \o y)
                /\ Last(top \o y) \in DOMAIN containers[Front(top \o y)].inline
      BY <2>5, <3>3, PrintedTells
    <3> QED
      BY <1>2, <2>2, <2>6, <2>8, <2>10, <3>2, <3>4, <3>5
  <2>11. CASE z \in DOMAIN C
    BY <2>5, <2>9, <2>10, <2>11
  <2>12. CASE z \in DOMAIN D
    BY <2>5, <2>9, <2>10, <2>12
  <2>13. CASE Inlined(C, z)
    <3>1. Front(z) \in DOMAIN C /\ Last(z) \in DOMAIN C[Front(z)].inline
      BY <2>13 DEF Inlined
    <3> QED
      BY <2>5, <2>8, <2>9, <2>10, <3>1
  <2> QED
    BY <2>5, <2>7, <2>11, <2>12, <2>13
<1> QED
  BY <1>3, <1>4, <1>5

-----------------------------------------------------------------------------
(***************************************************************************)
(* Where the children begin                                                *)
(***************************************************************************)

\* rows are the rows below p and tops those that begin a child, both in order.
ChildrenOf(p, rows, tops) ==
    /\ Listed(rows) /\ Listed(tops)
    /\ \A i \in 1..Len(rows) : rows[i] \in Lower(p)
    /\ \A e \in Lower(p) : \E i \in 1..Len(rows) : rows[i] = e
    /\ \A k \in 1..Len(tops) : tops[k] \in Tops(p)
    /\ \A h \in Tops(p) : \E k \in 1..Len(tops) : tops[k] = h

\* The rows up to i begin the first m children.
Passed(rows, tops, i, m) ==
    /\ m \in 0..Len(tops)
    /\ \A k \in 1..Len(tops), j \in 1..Len(rows) : tops[k] = rows[j] => (j <= i <=> k <= m)

\* They are those lists.
LEMMA ChildrenListed ==
    ASSUME IInv, FInv, NEW p \in Path
    PROVE  ChildrenOf(p, RowsBelow(p), RowsInOrder(Tops(p)))
<1>1. Lower(p) \subseteq Exported(p) /\ Tops(p) \subseteq Exported(p)
  BY DEF Lower, Tops
<1>2. PICK rows, tops : rows = RowsInOrder(Lower(p)) /\ tops = RowsInOrder(Tops(p))
  OBVIOUS
<1>3. Listed(rows) /\ (\A i \in 1..Len(rows) : rows[i] \in Lower(p))
      /\ \A e \in Lower(p) : \E i \in 1..Len(rows) : rows[i] = e
  BY <1>1, <1>2, LowerListed
<1>4. Listed(tops) /\ (\A i \in 1..Len(tops) : tops[i] \in Tops(p))
      /\ \A e \in Tops(p) : \E i \in 1..Len(tops) : tops[i] = e
  BY <1>1, <1>2, LowerListed
<1>5. RowsBelow(p) = rows
  BY <1>2, BelowIsLower
<1> QED
  BY <1>2, <1>3, <1>4, <1>5 DEF ChildrenOf

\* In a list no row comes twice, and none is before itself.
LEMMA ListedApart ==
    ASSUME NEW list, Listed(list), NEW i \in 1..Len(list), NEW j \in 1..Len(list)
    PROVE  /\ list[i] = list[j] => i = j
           /\ RowBefore(list[i], list[j]) <=> i < j
           /\ IsRow(list[i])
           /\ ~RowBefore(list[i], list[i])
<1>1. /\ \A k, l \in 1..Len(list) : RowBefore(list[k], list[l]) <=> k < l
      /\ IsRow(list[i])
  BY DEF Listed
<1>2. ~RowBefore(list[i], list[i])
  BY <1>1
<1>3. list[i] = list[j] => i = j
  <2>1. SUFFICES ASSUME list[i] = list[j], i # j PROVE FALSE
    OBVIOUS
  <2>2. i < j \/ j < i
    BY <2>1
  <2> QED
    BY <1>1, <1>2, <2>1, <2>2
<1> QED
  BY <1>1, <1>2, <1>3

\* A row belongs to one child.
LEMMA OneTop ==
    ASSUME IInv, NEW p \in Path, Unambiguous(p), NEW g \in Tops(p), NEW h \in Tops(p),
           NEW x \in Path, IsPrefix(g.path, x), IsPrefix(h.path, x)
    PROVE  g = h
<1>1. g \in Exported(p) /\ g.path \in Path /\ g.path # p
  BY TopFacts
<1>2. h \in Exported(p) /\ h.path \in Path /\ h.path # p
  BY TopFacts
<1>3. Len(g.path) = Len(h.path)
  BY DEF Tops
<1>4. Len(g.path) \in Nat
  BY <1>1 DEF Path
<1>5. IsPrefix(g.path, h.path)
  <2>1. Len(g.path) <= Len(h.path)
    BY <1>3, <1>4
  <2> QED
    BY <1>1, <1>2, <2>1, PrefixesComparable
<1>6. g.path = h.path
  BY <1>1, <1>2, <1>3, <1>5, PrefixOfSameLength
<1> QED
  BY <1>1, <1>2, <1>6, OneRow

\* A row that begins a child begins the next.
LEMMA ReachesTop ==
    ASSUME NEW p, NEW rows, NEW tops, ChildrenOf(p, rows, tops),
           NEW i \in 1..Len(rows), rows[i] \in Tops(p), NEW m, Passed(rows, tops, i - 1, m),
           Tops(p) \subseteq Lower(p)
    PROVE  /\ m + 1 \in 1..Len(tops)
           /\ rows[i] = tops[m + 1]
           /\ Passed(rows, tops, i, m + 1)
<1>1. Listed(rows) /\ Listed(tops) /\ Len(rows) \in Nat /\ Len(tops) \in Nat
  BY DEF ChildrenOf, Listed
<1>2. PICK k \in 1..Len(tops) : tops[k] = rows[i]
  BY DEF ChildrenOf
<1>3. m \in 0..Len(tops)
      /\ \A l \in 1..Len(tops), j \in 1..Len(rows) : tops[l] = rows[j] => (j <= i - 1 <=> l <= m)
  BY DEF Passed
<1>4. k > m
  <2>1. ~(i <= i - 1)
    BY <1>1
  <2>2. ~(k <= m)
    BY <1>2, <1>3, <2>1
  <2> QED
    BY <1>1, <1>3, <2>2
<1>5. m + 1 \in 1..Len(tops)
  BY <1>1, <1>3, <1>4
<1>6. k = m + 1
  <2>1. SUFFICES ASSUME k # m + 1 PROVE FALSE
    OBVIOUS
  <2>2. m + 1 < k
    BY <1>1, <1>3, <1>4, <2>1
  <2>3. RowBefore(tops[m + 1], tops[k])
    BY <1>1, <1>5, <2>2, ListedApart
  <2>4. PICK j \in 1..Len(rows) : rows[j] = tops[m + 1]
    BY <1>5 DEF ChildrenOf
  <2>5. RowBefore(rows[j], rows[i])
    BY <1>2, <2>3, <2>4
  <2>6. j < i
    BY <1>1, <2>5, ListedApart
  <2>7. j <= i - 1
    BY <1>1, <2>6
  <2>8. m + 1 <= m
    BY <1>3, <1>5, <2>4, <2>7
  <2> QED
    BY <1>3, <2>8
<1>7. ASSUME NEW l \in 1..Len(tops), NEW j \in 1..Len(rows), tops[l] = rows[j]
      PROVE  j <= i <=> l <= m + 1
  <2>1. j <= i - 1 <=> l <= m
    BY <1>3, <1>7
  <2>2. j = i <=> l = m + 1
    <3>1. ASSUME j = i PROVE l = m + 1
      <4>1. tops[l] = tops[k]
        BY <1>2, <1>7, <3>1
      <4>2. l = k
        BY <1>1, <4>1, ListedApart
      <4> QED
        BY <1>6, <4>2
    <3>2. ASSUME l = m + 1 PROVE j = i
      <4>1. rows[j] = rows[i]
        BY <1>2, <1>6, <1>7, <3>2
      <4> QED
        BY <1>1, <4>1, ListedApart
    <3> QED
      BY <3>1, <3>2
  <2> QED
    BY <1>1, <1>3, <2>1, <2>2
<1>8. Passed(rows, tops, i, m + 1)
  <2>1. m + 1 \in 0..Len(tops)
    BY <1>5
  <2> QED
    BY <1>7, <2>1 DEF Passed
<1> QED
  BY <1>2, <1>5, <1>6, <1>8

\* Any other is below the last row that began one.
LEMMA ReachesBelow ==
    ASSUME IInv, NEW p \in Path, Unambiguous(p), NEW rows, NEW tops, ChildrenOf(p, rows, tops),
           NEW i \in 1..Len(rows), rows[i] \notin Tops(p), NEW m, Passed(rows, tops, i - 1, m),
           Tops(p) \subseteq Lower(p)
    PROVE  /\ m \in 1..Len(tops)
           /\ \E y \in Path : /\ rows[i].path = tops[m].path \o y
                              /\ Rel(<<Head(Rel(p, rows[i].path))>>, Rel(p, rows[i].path)) = y
                              /\ Len(Rel(p, rows[i].path)) # 1
           /\ Passed(rows, tops, i, m)
<1>1. Listed(rows) /\ Listed(tops) /\ Len(rows) \in Nat /\ Len(tops) \in Nat
  BY DEF ChildrenOf, Listed
<1>2. PICK e \in Lower(p) : e = rows[i]
  BY DEF ChildrenOf
<1>3. PICK h \in Tops(p), y \in Path :
              /\ h.path \in Path /\ h.path # p /\ IsPrefix(p, h.path) /\ Front(h.path) = p
              /\ e.path = h.path \o y /\ IsPrefix(h.path, e.path)
              /\ y = Root => h = e
              /\ y # Root => h.slash /\ h.path # e.path
              /\ Rel(<<Head(Rel(p, e.path))>>, Rel(p, e.path)) = y
              /\ Len(Rel(p, e.path)) = 1 <=> y = Root
              /\ e \in Tops(p) <=> y = Root
  BY TopOf
<1>4. y # Root /\ h.slash
  BY <1>2, <1>3
<1>5. PICK k \in 1..Len(tops) : tops[k] = h
  BY DEF ChildrenOf
<1>6. PICK j \in 1..Len(rows) : rows[j] = h
  BY DEF ChildrenOf
<1>7. IsRow(h) /\ IsRow(rows[i])
  BY <1>1, <1>6, ListedApart
<1>8. IsPrefix(h.path, rows[i].path) /\ h.path # rows[i].path
  BY <1>2, <1>3, <1>4
<1>9. RowBefore(h, rows[i])
  BY <1>8, RowBeforeIs DEF Above, IsStrictPrefix
<1>10. j < i
  BY <1>1, <1>6, <1>9, ListedApart
<1>11. m \in 0..Len(tops)
      /\ \A l \in 1..Len(tops), g \in 1..Len(rows) : tops[l] = rows[g] => (g <= i - 1 <=> l <= m)
  BY DEF Passed
<1>12. k <= m
  <2>1. j <= i - 1
    BY <1>1, <1>10
  <2> QED
    BY <1>5, <1>6, <1>11, <2>1
<1>13. m \in 1..Len(tops)
  BY <1>1, <1>11, <1>12
<1>14. k = m
  <2>1. SUFFICES ASSUME k # m PROVE FALSE
    OBVIOUS
  <2>2. k < m
    BY <1>1, <1>12, <1>13, <2>1
  <2>3. RowBefore(h, tops[m])
    BY <1>1, <1>5, <1>13, <2>2, ListedApart
  <2>4. tops[m] \in Tops(p) /\ IsRow(tops[m])
    BY <1>1, <1>13, ListedApart DEF ChildrenOf
  <2>5. PICK g \in 1..Len(rows) : rows[g] = tops[m]
    BY <2>4 DEF ChildrenOf
  <2>6. g <= i - 1
    BY <1>1, <1>11, <1>13, <2>5
  <2>7. g < i
    BY <1>1, <2>6
  <2>8. RowBefore(tops[m], rows[i])
    BY <1>1, <2>5, <2>7, ListedApart
  <2>9. IsPrefix(h.path, tops[m].path)
    BY <1>4, <1>7, <1>8, <2>3, <2>4, <2>8, BelowIsContiguous
  <2>10. tops[m].path \in Path
    BY <2>4 DEF IsRow
  <2>11. IsPrefix(tops[m].path, tops[m].path)
    BY <2>10, PrefixOrder
  <2>12. h = tops[m]
    BY <2>4, <2>9, <2>10, <2>11, OneTop
  <2> QED
    BY <1>1, <1>13, <2>3, <2>12, ListedApart
<1>15. Passed(rows, tops, i, m)
  <2>1. ASSUME NEW l \in 1..Len(tops), NEW g \in 1..Len(rows), tops[l] = rows[g]
        PROVE  g <= i <=> l <= m
    <3>1. g # i
      BY <2>1 DEF ChildrenOf
    <3>2. g <= i - 1 <=> l <= m
      BY <1>11, <2>1
    <3> QED
      BY <1>1, <3>1, <3>2
  <2> QED
    BY <1>11, <2>1 DEF Passed
<1> QED
  BY <1>2, <1>3, <1>4, <1>5, <1>13, <1>14, <1>15

\* When a child begins, all the rows of the one before have been read.
LEMMA ReadInTime ==
    ASSUME IInv, NEW p \in Path, Unambiguous(p), NEW rows, NEW tops, ChildrenOf(p, rows, tops),
           NEW i \in 1..Len(rows), NEW m \in 1..Len(tops), m + 1 \in 1..Len(tops), rows[i] = tops[m + 1],
           NEW j \in 1..Len(rows), IsPrefix(tops[m].path, rows[j].path)
    PROVE  j <= i - 1
<1>1. Listed(rows) /\ Listed(tops) /\ Len(rows) \in Nat /\ Len(tops) \in Nat
  BY DEF ChildrenOf, Listed
<1>2. rows[j] \in Lower(p) /\ tops[m] \in Tops(p) /\ tops[m + 1] \in Tops(p)
  BY DEF ChildrenOf
<1>3. RowBefore(tops[m], rows[i])
  <2>1. m < m + 1
    BY <1>1
  <2> QED
    BY <1>1, <2>1, ListedApart
<1>4. IsRow(tops[m]) /\ IsRow(rows[i]) /\ IsRow(rows[j])
  BY <1>1, ListedApart
<1>5. SUFFICES ASSUME ~(j <= i - 1) PROVE FALSE
  OBVIOUS
<1>6. i <= j
  BY <1>1, <1>5
<1>7. tops[m].path # rows[i].path
  <2>1. SUFFICES ASSUME tops[m].path = rows[i].path PROVE FALSE
    OBVIOUS
  <2>2. tops[m].path \in Path
    BY <1>4 DEF IsRow
  <2>3. IsPrefix(tops[m].path, tops[m].path)
    BY <2>2, PrefixOrder
  <2>4. tops[m] = tops[m + 1]
    BY <1>2, <2>1, <2>2, <2>3, OneTop
  <2>5. m = m + 1
    BY <1>1, <2>4, ListedApart
  <2> QED
    BY <1>1, <2>5
<1>8. ~IsPrefix(tops[m].path, rows[i].path)
  <2>1. SUFFICES ASSUME IsPrefix(tops[m].path, rows[i].path) PROVE FALSE
    OBVIOUS
  <2>2. rows[i].path \in Path /\ IsPrefix(rows[i].path, rows[i].path)
    BY <1>4, PrefixOrder DEF IsRow
  <2>3. tops[m] = tops[m + 1]
    BY <1>2, <2>1, <2>2, OneTop
  <2> QED
    BY <1>7, <2>3
<1>9. i < j /\ RowBefore(rows[i], rows[j])
  <2>1. i # j
    BY <1>8
  <2>2. i < j
    BY <1>1, <1>6, <2>1
  <2> QED
    BY <1>1, <2>2, ListedApart
<1>14. PICK e \in Lower(p) : e = rows[j]
  BY <1>2
<1>10. PICK h \in Tops(p), y \in Path :
              /\ h.path \in Path /\ h.path # p /\ IsPrefix(p, h.path) /\ Front(h.path) = p
              /\ e.path = h.path \o y /\ IsPrefix(h.path, e.path)
              /\ y = Root => h = e
              /\ y # Root => h.slash /\ h.path # e.path
              /\ Rel(<<Head(Rel(p, e.path))>>, Rel(p, e.path)) = y
              /\ Len(Rel(p, e.path)) = 1 <=> y = Root
              /\ e \in Tops(p) <=> y = Root
  BY TopOf
<1>11. h = tops[m]
  <2>1. IsPrefix(h.path, rows[j].path)
    BY <1>10, <1>14
  <2>2. rows[j].path \in Path
    BY <1>4 DEF IsRow
  <2> QED
    BY <1>2, <2>1, <2>2, OneTop
<1>12. CASE y = Root
  <2>1. RowBefore(rows[j], rows[i])
    BY <1>3, <1>10, <1>11, <1>12, <1>14
  <2>2. j < i
    BY <1>1, <2>1, ListedApart
  <2> QED
    BY <1>1, <1>9, <2>2
<1>13. CASE y # Root
  <2>1. tops[m].slash
    BY <1>10, <1>11, <1>13
  <2>2. IsPrefix(tops[m].path, rows[i].path)
    BY <1>3, <1>4, <1>9, <2>1, BelowIsContiguous
  <2> QED
    BY <1>8, <2>2
<1> QED
  BY <1>12, <1>13

-----------------------------------------------------------------------------
(***************************************************************************)
(* The open child                                                          *)
(***************************************************************************)

\* c has what the rows up to i say of the child that the row h begins.
Built(c, rows, h, i) ==
    /\ c = [y \in DOMAIN c |-> c[y]]
    /\ \A y : y \in DOMAIN c <=> y \in Path /\ \E j \in 1..i : Says(Printable(rows[j]), h.path, y)
    /\ \A y \in DOMAIN c : c[y] = Whole(h)[y]

\* The row that begins a child spells what the rows so far say of it.
LEMMA ChildBegins ==
    ASSUME IInv, NEW p \in Path, Unambiguous(p), NEW rows, NEW tops, ChildrenOf(p, rows, tops),
           NEW h \in Tops(p), NEW i \in 1..Len(rows), rows[i] = h
    PROVE  Built(RowText(h), rows, h, i)
<1>1. Listed(rows) /\ Len(rows) \in Nat /\ \A j \in 1..Len(rows) : rows[j] \in Lower(p)
  BY DEF ChildrenOf, Listed
<1>2. h \in Exported(p) /\ h \in Lower(p) /\ h.path \in Path
  BY TopFacts
<1>3. PICK r \in {Printable(h)} : r = Printable(h)
  OBVIOUS
<1>4. Spells(r) /\ r.path = h.path /\ r.text = RowText(h)
  <2>1. Printable(h).text = RowText(h)
    BY DEF Printable
  <2> QED
    BY <1>2, <1>3, <2>1, PrintedText
<1>5. PICK t : t = RowText(h)
  OBVIOUS
<1>6. t = [y \in DOMAIN t |-> t[y]] /\ DOMAIN t \subseteq Path /\ Spelled(r) = DOMAIN t
  BY <1>4, <1>5, SpelledPaths DEF Spells, Spelled
<1>7. PICK x \in Path : x = h.path
  BY <1>2
<1>8. PICK o \in Path : o = Root /\ StandsAt(r, x, o)
  BY <1>4, <1>7, RootIsPath, ConcatChar DEF StandsAt
<1>9. \A y \in Path : o \o y = y /\ Rel(o, y) = y
  <2>1. \A y \in Path : o \o y = y /\ Rel(o, o \o y) = y
    BY <1>8, RootConcat, ConcatChar
  <2> QED
    BY <2>1
<1>10. ASSUME NEW y \in DOMAIN t
       PROVE  Says(r, x, y) /\ t[y] = Whole(h)[y]
  <2>1. Says(r, x, o \o y)
    BY <1>4, <1>6, <1>7, <1>8, SaysWhere
  <2>2. Says(r, x, y) /\ y \in Path
    BY <1>6, <1>9, <2>1
  <2>3. Told(r, x, y) = r.text[Rel(o, y)]
    BY <1>4, <1>7, <1>8, <2>2, SaysWhere
  <2>4. Whole(h)[y] = Told(r, x, y)
    BY <1>2, <1>3, <1>7, <2>2, SaidIsWhole
  <2> QED
    BY <1>4, <1>5, <1>9, <2>2, <2>3, <2>4
<1>11. ASSUME NEW y \in Path, NEW j \in 1..i, Says(Printable(rows[j]), x, y)
       PROVE  y \in DOMAIN t
  <2>1. j \in 1..Len(rows)
    BY <1>1
  <2>2. PICK e \in Lower(p) : e = rows[j]
    BY <1>1, <2>1
  <2>3. IsPrefix(x, e.path)
    BY <1>7, <1>11, <2>2, SaidIsWhole
  <2>4. IsRow(h) /\ IsRow(e)
    BY <1>1, <2>1, <2>2, ListedApart
  <2>5. e = h
    <3>1. SUFFICES ASSUME e # h PROVE FALSE
      OBVIOUS
    <3>2. e \in Exported(p) /\ e.path # p
      BY DEF Lower
    <3>3. e.path # x
      BY <1>2, <1>7, <3>1, <3>2, OneRow
    <3>4. RowBefore(h, e)
      BY <1>7, <2>3, <2>4, <3>3, RowBeforeIs DEF Above, IsStrictPrefix
    <3>5. i < j
      BY <1>1, <2>1, <2>2, <3>4, ListedApart
    <3> QED
      BY <1>1, <2>1, <3>5
  <2>6. Says(r, x, y)
    BY <1>3, <1>11, <2>2, <2>5
  <2>7. Rel(o, y) \in Spelled(r)
    BY <1>4, <1>7, <1>8, <2>6, SaysWhere
  <2> QED
    BY <1>6, <1>9, <2>7
<1>12. i \in 1..i
  BY <1>1
<1>13. \A y : y \in DOMAIN t <=> y \in Path /\ \E j \in 1..i : Says(Printable(rows[j]), h.path, y)
  BY <1>3, <1>6, <1>7, <1>10, <1>11, <1>12
<1> QED
  BY <1>5, <1>6, <1>10, <1>13 DEF Built

\* A row below it adds what it says.
LEMMA ChildGrows ==
    ASSUME IInv, NEW p \in Path, Unambiguous(p), NEW rows, NEW tops, ChildrenOf(p, rows, tops),
           NEW h \in Tops(p), NEW i \in 1..Len(rows), NEW y \in Path, rows[i].path = h.path \o y,
           NEW c, Built(c, rows, h, i - 1)
    PROVE  LET t == RowText(rows[i]) IN
           Built(Override([z \in {y \o w : w \in DOMAIN t} |-> t[Rel(y, z)]], c), rows, h, i)
<1>1. Len(rows) \in Nat /\ \A j \in 1..Len(rows) : rows[j] \in Lower(p)
  BY DEF ChildrenOf, Listed
<1>2. PICK e \in Lower(p) : e = rows[i]
  BY <1>1
<1>3. h.path \in Path /\ e \in Exported(p)
  BY TopFacts DEF Lower
<1>4. PICK r : r = Printable(e)
  OBVIOUS
<1>5. PICK t : t = RowText(e)
  OBVIOUS
<1>6. Spells(r) /\ r.path = e.path /\ Spelled(r) = DOMAIN t /\ r.text = t
  <2>1. Printable(e).text = RowText(e)
    BY DEF Printable
  <2> QED
    BY <1>3, <1>4, <1>5, <2>1, PrintedText DEF Spelled
<1>7. PICK x \in Path : x = h.path
  BY <1>3
<1>8. StandsAt(r, x, y)
  BY <1>2, <1>6, <1>7 DEF StandsAt
<1>9. DOMAIN t \subseteq Path
  BY <1>6, SpelledPaths DEF Spelled
<1>10. PICK N : N = {y \o w : w \in DOMAIN t}
  OBVIOUS
<1>11. PICK u : u = [z \in N |-> t[Rel(y, z)]]
  OBVIOUS
<1>12. ASSUME NEW z \in N
       PROVE  z \in Path /\ Says(r, x, z) /\ u[z] = Whole(h)[z]
  <2>1. PICK w \in DOMAIN t : z = y \o w
    BY <1>10
  <2>2. w \in Path /\ y \o w \in Path /\ Says(r, x, y \o w)
    BY <1>6, <1>7, <1>8, <1>9, SaysWhere
  <2>3. z \in Path /\ Says(r, x, z)
    BY <2>1, <2>2
  <2>4. Told(r, x, z) = r.text[Rel(y, z)]
    BY <1>6, <1>7, <1>8, <2>3, SaysWhere
  <2>5. Whole(h)[z] = Told(r, x, z)
    BY <1>4, <1>7, <2>3, SaidIsWhole
  <2> QED
    BY <1>6, <1>11, <2>3, <2>4, <2>5
<1>13. ASSUME NEW z \in Path, Says(r, x, z) PROVE z \in N
  <2>1. IsPrefix(y, z) /\ Rel(y, z) \in DOMAIN t
    BY <1>6, <1>7, <1>8, <1>13, SaysWhere
  <2>2. z = y \o Rel(y, z)
    BY <2>1, RelChar
  <2> QED
    BY <1>10, <2>1, <2>2
<1>14. PICK d : d = Override(u, c)
  OBVIOUS
<1>15. d = [z \in N \cup DOMAIN c |-> IF z \in N THEN u[z] ELSE c[z]]
  BY <1>11, <1>14 DEF Override
<1>16. \A z : z \in DOMAIN c <=> z \in Path /\ \E j \in 1..i - 1 : Says(Printable(rows[j]), x, z)
  BY <1>7 DEF Built
<1>17. \A z \in DOMAIN c : c[z] = Whole(h)[z]
  BY DEF Built
<1>18. \A j : j \in 1..i <=> j = i \/ j \in 1..i - 1
  BY <1>1
<1>19. \A z : z \in DOMAIN d <=> z \in Path /\ \E j \in 1..i : Says(Printable(rows[j]), x, z)
  <2>1. ASSUME NEW z PROVE (z \in Path /\ \E j \in 1..i : Says(Printable(rows[j]), x, z))
                            <=> (z \in N \/ z \in DOMAIN c)
    BY <1>2, <1>4, <1>12, <1>13, <1>16, <1>18
  <2>2. DOMAIN d = N \cup DOMAIN c
    BY <1>15
  <2> QED
    BY <2>1, <2>2
<1>20. \A z \in DOMAIN d : d[z] = Whole(h)[z]
  BY <1>12, <1>15, <1>17
<1>21. d = [z \in DOMAIN d |-> d[z]]
  BY <1>15
<1>22. Built(d, rows, h, i)
  BY <1>7, <1>19, <1>20, <1>21 DEF Built
<1> QED
  BY <1>2, <1>5, <1>10, <1>11, <1>14, <1>22

\* Any other row leaves it, and when all its rows are read it is whole.
LEMMA ChildIsWhole ==
    ASSUME IInv, NEW p \in Path, Unambiguous(p), NEW rows, NEW tops, ChildrenOf(p, rows, tops),
           NEW h \in Tops(p), NEW i \in 0..Len(rows),
           \A j \in 1..Len(rows) : IsPrefix(h.path, rows[j].path) => j <= i,
           NEW c, Built(c, rows, h, i)
    PROVE  c = Whole(h)
<1>1. Len(rows) \in Nat /\ (\A j \in 1..Len(rows) : rows[j] \in Lower(p))
      /\ \A e \in Lower(p) : \E j \in 1..Len(rows) : rows[j] = e
  BY DEF ChildrenOf, Listed
<1>2. h.path \in Path
  BY TopFacts
<1>3. \A y : y \in DOMAIN c <=> y \in Path /\ \E j \in 1..i : Says(Printable(rows[j]), h.path, y)
  BY DEF Built
<1>4. ASSUME NEW y \in DOMAIN c PROVE y \in DOMAIN Whole(h)
  <2>1. PICK j \in 1..i : y \in Path /\ Says(Printable(rows[j]), h.path, y)
    BY <1>3
  <2>2. j \in 1..Len(rows)
    BY <1>1
  <2>3. PICK e \in Lower(p) : e = rows[j]
    BY <1>1, <2>2
  <2> QED
    BY <2>1, <2>3, SaidIsWhole
<1>5. ASSUME NEW y \in DOMAIN Whole(h) PROVE y \in DOMAIN c
  <2>1. y \in Path
    BY WholeIsSaid
  <2>2. PICK e \in Lower(p) : Says(Printable(e), h.path, y)
    BY WholeIsSaid
  <2>3. IsPrefix(h.path, e.path)
    BY <2>1, <2>2, SaidIsWhole
  <2>4. PICK j \in 1..Len(rows) : rows[j] = e
    BY <1>1
  <2>5. j <= i
    BY <2>3, <2>4
  <2>6. j \in 1..i
    BY <1>1, <2>4, <2>5
  <2> QED
    BY <1>3, <2>1, <2>2, <2>4, <2>6
<1>6. PICK W : W = Whole(h)
  OBVIOUS
<1>7. W = [y \in DOMAIN W |-> W[y]]
  <2>1. CASE h.slash
    <3>1. W = TextOf(containers, primitives, h.path)
      BY <1>6, <2>1, ExtractIsTextOf, <1>2 DEF Whole
    <3> QED
      BY <3>1 DEF TextOf
  <2>2. CASE ~h.slash
    BY <1>6, <2>2 DEF Whole
  <2> QED
    BY <2>1, <2>2
<1>8. DOMAIN W = DOMAIN c
  BY <1>4, <1>5, <1>6
<1> QED
  BY <1>6, <1>7, <1>8 DEF Built

-----------------------------------------------------------------------------
(***************************************************************************)
(* Stream: the children pass one after the other                           *)
(***************************************************************************)

\* The lists of children that pass, after each of the first n.
IsPassing(g, children, filters, n) ==
    /\ g[0] = <<>>
    /\ \A i \in 1..n : g[i] = IF ~Passes(children[i], filters) THEN g[i - 1]
                              ELSE Append(g[i - 1], [val |-> children[i], index |-> i])
    /\ \A i \in 0..n : g[i] \in Seq(EntriesOf(children, n))

\* Passing is the last of them.
LEMMA PassingIs ==
    ASSUME NEW children, Len(children) \in Nat, NEW filters
    PROVE  \E g : /\ IsPassing(g, children, filters, Len(children))
                  /\ Passing(children, filters) = g[Len(children)]
<1>0. PICK n \in Nat : n = Len(children)
  OBVIOUS
<1>1. PICK E : E = EntriesOf(children, n)
  OBVIOUS
<1> DEFINE Step(i, s) == IF ~Passes(children[i], filters) THEN s
                         ELSE Append(s, [val |-> children[i], index |-> i])
           Good(f) == f = [i \in 0..n |-> IF i = 0 THEN <<>>
                                          ELSE IF ~Passes(children[i], filters) THEN f[i - 1]
                                          ELSE Append(f[i - 1], [val |-> children[i], index |-> i])]
<1>2. ASSUME NEW i \in 1..n, NEW s \in Seq(E) PROVE Step(i, s) \in Seq(E)
  <2>1. PICK e : e = [val |-> children[i], index |-> i]
    OBVIOUS
  <2>2. e \in E
    BY <1>1, <2>1 DEF EntriesOf
  <2> QED
    BY <2>1, <2>2
<1>3. PICK g \in [1..n -> [Seq(E) -> Seq(E)]] : \A i \in 1..n, s \in Seq(E) : g[i][s] = Step(i, s)
  <2>1. PICK g : g = [i \in 1..n |-> [s \in Seq(E) |-> Step(i, s)]]
    OBVIOUS
  <2> HIDE DEF Step
  <2> QED
    BY <1>2, <2>1
<1>4. PICK f \in [0..n -> Seq(E)] : f[0] = <<>> /\ \A i \in 1..n : f[i] = g[i][f[i - 1]]
  <2>1. PICK S, a : S = Seq(E) /\ a = <<>>
    OBVIOUS
  <2>2. a \in S /\ g \in [1..n -> [S -> S]]
    BY <2>1
  <2>3. PICK f : IsRun(f, n, S, a, g)
    <3> HIDE DEF Step, Good
    <3>1. n \in Nat
      OBVIOUS
    <3> QED
      BY <2>2, <3>1, RecursionExists
  <2> QED
    BY <2>1, <2>3 DEF IsRun
<1>5. Good(f)
  <2>1. ASSUME NEW i \in 1..n PROVE f[i] = Step(i, f[i - 1])
    <3>1. i - 1 \in 0..n
      OBVIOUS
    <3> HIDE DEF Step
    <3> QED
      BY <1>3, <1>4, <3>1
  <2>2. \A i \in 0..n : i = 0 \/ i \in 1..n
    OBVIOUS
  <2> QED
    BY <1>4, <2>1, <2>2
<1>7. Passing(children, filters) = (CHOOSE f1 : Good(f1))[n]
  BY <1>0 DEF Passing
<1>8. PICK h : h = CHOOSE f1 : Good(f1)
  OBVIOUS
<1>9. Good(h)
  <2> HIDE DEF Good
  <2> QED
    BY <1>5, <1>8
<1>6. h[0] = <<>> /\ \A i \in 1..n : h[i] = Step(i, h[i - 1])
  <2>1. h[0] = <<>>
    BY <1>9
  <2>2. ASSUME NEW i \in 1..n PROVE h[i] = Step(i, h[i - 1])
    <3>1. i \in 0..n /\ i # 0
      OBVIOUS
    <3> QED
      BY <1>9, <3>1
  <2> QED
    BY <2>1, <2>2
<1>10. \A i \in 0..n : h[i] \in Seq(E)
  <2>1. h[0] \in Seq(E)
    BY <1>6
  <2>2. ASSUME NEW i \in 1..n, h[i - 1] \in Seq(E) PROVE h[i] \in Seq(E)
    <3> HIDE DEF Step, Good
    <3> QED
      BY <1>2, <1>6, <2>2
  <2> HIDE DEF Good, Step
  <2> QED
    BY <2>1, <2>2, RecursionStays
<1>11. IsPassing(h, children, filters, n)
  BY <1>1, <1>6, <1>10 DEF IsPassing
<1> QED
  BY <1>0, <1>7, <1>8, <1>11

\* The scan has given out the values of list but those to skip.
Given(s, list, q) ==
    /\ ~s.done
    /\ Len(list) < q.skip => s.skipped = Len(list) /\ s.out = <<>>
    /\ Len(list) >= q.skip =>
          s.skipped = q.skip /\ s.out = [k \in 1..Len(list) - q.skip |-> list[q.skip + k].val]

\* Closing a child adds it to what is given if it passes.
LEMMA CloseGives ==
    ASSUME NEW C, NEW a \in Scans(C), NEW q, q.skip \in Nat, q.take = 0,
           NEW E, NEW list \in Seq(E), Given(a, list, q), a.child # Nothing,
           NEW e \in E, e.val = a.child
    PROVE  /\ Close(a, q) \in Scans(C)
           /\ Given(Close(a, q), IF ~Passes(a.child, q.filters) THEN list ELSE Append(list, e), q)
<1>1. PICK d : d = Close(a, q)
  OBVIOUS
<1>2. /\ d \in Scans(C)
      /\ (~Passes(a.child, q.filters) => d.out = a.out /\ d.skipped = a.skipped /\ (d.done <=> a.done))
      /\ ((Passes(a.child, q.filters) /\ a.skipped < q.skip)
             => d.out = a.out /\ d.skipped = a.skipped + 1 /\ (d.done <=> a.done))
      /\ ((Passes(a.child, q.filters) /\ ~(a.skipped < q.skip))
             => d.out = Append(a.out, a.child) /\ d.skipped = a.skipped
                /\ (d.done <=> Len(a.out) + 1 = q.take))
  <2>1. q.take \in Nat
    OBVIOUS
  <2> QED
    BY <1>1, <2>1, ClosedFields
<1>3. PICK n \in Nat : n = Len(list)
  OBVIOUS
<1>4. PICK skip \in Nat : skip = q.skip
  OBVIOUS
<1>5. /\ ~a.done
      /\ n < skip => a.skipped = n /\ a.out = <<>>
      /\ n >= skip => a.skipped = skip /\ a.out = [k \in 1..n - skip |-> list[skip + k].val]
  BY <1>3, <1>4 DEF Given
<1>6. a.out \in Seq(C) /\ Len(a.out) \in Nat /\ a.child \in C
  BY DEF Scans
<1>7. CASE ~Passes(a.child, q.filters)
  BY <1>1, <1>2, <1>7 DEF Given
<1>8. ASSUME Passes(a.child, q.filters)
      PROVE  Given(d, Append(list, e), q)
  <2>1. PICK new : new = Append(list, e)
    OBVIOUS
  <2>2. Len(new) = n + 1 /\ (\A k \in 1..n : new[k] = list[k]) /\ new[n + 1] = e
    BY <1>3, <2>1
  <2>3. CASE n < skip
    <3>1. d.out = <<>> /\ d.skipped = n + 1 /\ ~d.done
      BY <1>2, <1>4, <1>5, <1>8, <2>3
    <3>2. CASE n + 1 < skip
      BY <1>4, <2>1, <2>2, <3>1, <3>2 DEF Given
    <3>3. CASE ~(n + 1 < skip)
      <4>1. n + 1 = skip
        BY <2>3, <3>3
      <4>2. [k \in 1..Len(new) - q.skip |-> new[q.skip + k].val] = <<>>
        <5>1. 1..Len(new) - q.skip = {}
          BY <1>4, <2>2, <4>1
        <5> QED
          BY <5>1
      <4> QED
        BY <1>4, <2>1, <2>2, <3>1, <3>3, <4>1, <4>2 DEF Given
    <3> QED
      BY <3>2, <3>3
  <2>4. CASE ~(n < skip)
    <3>1. a.skipped = skip /\ a.out = [k \in 1..n - skip |-> list[skip + k].val]
      BY <1>5, <2>4
    <3>2. d.out = Append(a.out, a.child) /\ d.skipped = skip /\ ~d.done
      <4>1. Len(a.out) + 1 # q.take
        BY <1>6
      <4>2. ~(a.skipped < q.skip)
        BY <1>4, <3>1
      <4>3. d.out = Append(a.out, a.child) /\ d.skipped = a.skipped /\ (d.done <=> Len(a.out) + 1 = q.take)
        BY <1>2, <1>8, <4>2, Zenon
      <4> QED
        BY <3>1, <4>1, <4>3
    <3>3. PICK l \in Nat : l = n - skip
      BY <2>4
    <3>4. Len(a.out) = l
      BY <3>1, <3>3
    <3>5. d.out = [k \in 1..l + 1 |-> new[skip + k].val]
      <4>1. DOMAIN d.out = 1..l + 1
        BY <1>6, <3>2, <3>4
      <4>2. ASSUME NEW k \in 1..l + 1 PROVE d.out[k] = new[skip + k].val
        <5>1. CASE k \in 1..l
          <6>1. d.out[k] = a.out[k]
            BY <1>6, <3>2, <3>4, <5>1
          <6>2. skip + k \in 1..n
            BY <3>3, <5>1
          <6> QED
            BY <2>2, <3>1, <3>3, <5>1, <6>1, <6>2
        <5>2. CASE k = l + 1
          <6>1. d.out[k] = a.child
            BY <1>6, <3>2, <3>4, <5>2
          <6>2. skip + k = n + 1
            BY <3>3, <5>2
          <6> QED
            BY <2>2, <6>1, <6>2
        <5>3. k \in 1..l \/ k = l + 1
          OBVIOUS
        <5> QED
          BY <5>1, <5>2, <5>3
      <4>3. d.out = [k \in DOMAIN d.out |-> d.out[k]]
        BY <1>6, <3>2
      <4> QED
        BY <4>1, <4>2, <4>3
    <3>6. Len(new) - q.skip = l + 1 /\ Len(new) >= q.skip
      BY <1>4, <2>2, <2>4, <3>3
    <3> QED
      BY <1>4, <2>1, <3>2, <3>5, <3>6 DEF Given
  <2> QED
    BY <2>3, <2>4
<1> QED
  BY <1>1, <1>2, <1>7, <1>8

\* What the scan has given at the end is the page of the list.
LEMMA GivenIsPage ==
    ASSUME NEW s, NEW E, NEW list \in Seq(E), NEW q, q.skip \in Nat, q.take = 0, Given(s, list, q)
    PROVE  LET paged == Page(list, q) IN s.out = [i \in 1..Len(paged) |-> paged[i].val]
<1>1. PICK n \in Nat, skip \in Nat : n = Len(list) /\ skip = q.skip
  OBVIOUS
<1>2. PICK paged : paged = SubSeq(list, skip + 1, n)
  OBVIOUS
<1>3. Page(list, q) = paged
  BY <1>1, <1>2 DEF Page
<1>4. CASE n <= skip
  <2>1. s.out = <<>>
    <3>1. CASE n < skip
      BY <1>1, <3>1 DEF Given
    <3>2. CASE n = skip
      <4>1. s.out = [k \in 1..n - skip |-> list[skip + k].val]
        BY <1>1, <3>2 DEF Given
      <4>2. 1..n - skip = {}
        BY <3>2
      <4>3. s.out = [k \in {} |-> list[skip + k].val]
        BY <4>1, <4>2
      <4> QED
        BY <4>3
    <3> QED
      BY <1>4, <3>1, <3>2
  <2>2. Len(paged) = 0
    <3>1. paged = <<>>
      BY <1>1, <1>2, <1>4, EmptyPart
    <3> QED
      BY <3>1
  <2>3. 1..Len(paged) = {}
    BY <2>2
  <2> QED
    BY <1>3, <2>1, <2>3
<1>5. CASE ~(n <= skip)
  <2>1. s.out = [k \in 1..n - skip |-> list[skip + k].val]
    BY <1>1, <1>5 DEF Given
  <2>2. skip + 1 \in 1..n
    BY <1>5
  <2>3. Len(paged) = n - skip /\ \A k \in 1..n - skip : paged[k] = list[skip + k]
    <3>1. SubSeq(list, skip + 1, n) = [k \in 1..(1 + n - (skip + 1)) |-> list[skip + 1 + k - 1]]
      OBVIOUS
    <3>2. 1 + n - (skip + 1) = n - skip /\ n - skip \in Nat
      BY <1>5
    <3>3. paged = [k \in 1..n - skip |-> list[skip + 1 + k - 1]]
      BY <1>2, <3>1, <3>2
    <3>4. DOMAIN paged = 1..n - skip /\ paged \in Seq(E)
      BY <1>1, <1>2, <2>2, <3>3
    <3>5. \A k \in 1..n - skip : skip + 1 + k - 1 = skip + k
      OBVIOUS
    <3> QED
      BY <3>2, <3>3, <3>4, <3>5
  <2> QED
    BY <1>3, <2>1, <2>3
<1> QED
  BY <1>3, <1>4, <1>5

\* The children, whole.
Kids(tops) == [k \in 1..Len(tops) |-> Whole(tops[k])]

\* After the row i the child m is open and those before it are given.
OpenAt(s, i, m, g, rows, tops, q) ==
    /\ Passed(rows, tops, i, m)
    /\ m = 0 => s.child = Nothing /\ Given(s, g[0], q)
    /\ m # 0 => Given(s, g[m - 1], q) /\ Built(s.child, rows, tops[m], i)

\* Every child is something.
LEMMA WholeIsSome ==
    ASSUME IInv, NEW p \in Path, NEW h \in Tops(p)
    PROVE  Whole(h) # Nothing
<1>1. Root \in DOMAIN Whole(h)
  <2>1. CASE h.slash
    <3>1. h.path \in Path /\ Exists(h.path)
      BY <2>1, TopFacts DEF Exists
    <3>2. IsText(Extract(h.path))
      BY <3>1, ExtractIsText
    <3> QED
      BY <2>1, <3>2 DEF Whole, IsText
  <2>2. CASE ~h.slash
    BY <2>2 DEF Whole
  <2> QED
    BY <2>1, <2>2
<1>2. Root \notin DOMAIN Nothing
  BY DEF Nothing
<1> QED
  BY <1>1, <1>2

\* Closing the child m, whole, gives what passes up to it.
LEMMA CloseWhole ==
    ASSUME IInv, NEW p \in Path, NEW rows, NEW tops, ChildrenOf(p, rows, tops),
           NEW q, q.skip \in Nat, q.take = 0,
           NEW g, IsPassing(g, Kids(tops), q.filters, Len(tops)),
           NEW m \in 1..Len(tops), NEW C, NEW a \in Scans(C), Given(a, g[m - 1], q), a.child = Whole(tops[m])
    PROVE  Close(a, q) \in Scans(C) /\ Given(Close(a, q), g[m], q)
<1>1. PICK n \in Nat : n = Len(tops)
  BY DEF ChildrenOf, Listed
<1>2. PICK E : E = EntriesOf(Kids(tops), n)
  OBVIOUS
<1>3. tops[m] \in Tops(p)
  BY DEF ChildrenOf
<1>4. a.child # Nothing
  BY <1>3, WholeIsSome
<1>5. Kids(tops)[m] = a.child
  BY DEF Kids
<1>6. PICK e : e = [val |-> Kids(tops)[m], index |-> m]
  OBVIOUS
<1>7. e \in E /\ e.val = a.child
  BY <1>1, <1>2, <1>5, <1>6 DEF EntriesOf
<1>8. m - 1 \in 0..n
  BY <1>1
<1>9. g[m - 1] \in Seq(E)
  BY <1>1, <1>2, <1>8 DEF IsPassing
<1>10. PICK list \in Seq(E) : list = g[m - 1]
  BY <1>9
<1>11. Close(a, q) \in Scans(C)
       /\ Given(Close(a, q), IF ~Passes(a.child, q.filters) THEN list ELSE Append(list, e), q)
  BY <1>4, <1>7, <1>10, CloseGives
<1>12. g[m] = IF ~Passes(a.child, q.filters) THEN list ELSE Append(list, e)
  BY <1>5, <1>6, <1>10 DEF IsPassing
<1> QED
  BY <1>11, <1>12

\* What is given does not depend on the open child.
LEMMA OpenKeepsGiven ==
    ASSUME NEW C, NEW a \in Scans(C), NEW t \in C, NEW list, NEW q, Given(a, list, q)
    PROVE  /\ [a EXCEPT !.child = t] \in Scans(C)
           /\ [a EXCEPT !.child = t].child = t
           /\ Given([a EXCEPT !.child = t], list, q)
<1>1. PICK d : d = [a EXCEPT !.child = t]
  OBVIOUS
<1>2. d.child = t /\ d.out = a.out /\ d.skipped = a.skipped /\ (d.done <=> a.done) /\ d \in Scans(C)
  BY <1>1 DEF Scans
<1>3. Given(d, list, q)
  BY <1>2 DEF Given
<1> QED
  BY <1>1, <1>2, <1>3

\* One row more.
LEMMA StreamStep ==
    ASSUME IInv, NEW p \in Path, Unambiguous(p), NEW rows, NEW tops, ChildrenOf(p, rows, tops),
           NEW q, q.skip \in Nat, q.take = 0,
           NEW g, IsPassing(g, Kids(tops), q.filters, Len(tops)),
           NEW i \in 1..Len(rows), NEW C, NEW a \in Scans(C), NEW m, OpenAt(a, i - 1, m, g, rows, tops, q),
           Scanned(a, p, rows[i], q).child \in C
    PROVE  /\ Scanned(a, p, rows[i], q) \in Scans(C)
           /\ \E l : OpenAt(Scanned(a, p, rows[i], q), i, l, g, rows, tops, q)
<1>1. Listed(rows) /\ Listed(tops) /\ Len(rows) \in Nat /\ Len(tops) \in Nat /\ rows[i] \in Lower(p)
  BY DEF ChildrenOf, Listed
<1>2. Tops(p) \subseteq Lower(p)
  BY TopFacts
<1>3. PICK r : r = rows[i]
  OBVIOUS
<1>4. PICK x, y : x = Rel(p, r.path) /\ y = Rel(<<Head(x)>>, x)
  OBVIOUS
<1>5. PICK t : t = RowText(r)
  OBVIOUS
<1>6. Passed(rows, tops, i - 1, m) /\ m \in 0..Len(tops) /\ ~a.done
  <2>1. Passed(rows, tops, i - 1, m) /\ m \in 0..Len(tops)
    BY DEF OpenAt, Passed
  <2>2. ~a.done
    BY DEF OpenAt, Given
  <2> QED
    BY <2>1, <2>2
<1>7. CASE r \in Tops(p)
  <2>1. /\ m + 1 \in 1..Len(tops) /\ rows[i] = tops[m + 1]
        /\ Passed(rows, tops, i, m + 1)
    BY <1>2, <1>3, <1>6, <1>7, ReachesTop
  <2>2. Len(x) = 1
    <3>1. PICK e \in Lower(p) : e = rows[i]
      BY <1>1
    <3>2. PICK h \in Tops(p), z \in Path :
              /\ h.path \in Path /\ h.path # p /\ IsPrefix(p, h.path) /\ Front(h.path) = p
              /\ e.path = h.path \o z /\ IsPrefix(h.path, e.path)
              /\ z = Root => h = e
              /\ z # Root => h.slash /\ h.path # e.path
              /\ Rel(<<Head(Rel(p, e.path))>>, Rel(p, e.path)) = z
              /\ Len(Rel(p, e.path)) = 1 <=> z = Root
              /\ e \in Tops(p) <=> z = Root
      BY TopOf
    <3> QED
      BY <1>3, <1>4, <1>7, <3>1, <3>2
  <2>3. PICK d : d = Close(a, q)
    OBVIOUS
  <2>4. d \in Scans(C) /\ Given(d, g[m], q)
    <3>1. CASE m = 0
      <4>1. a.child = Nothing /\ Given(a, g[0], q)
        BY <3>1 DEF OpenAt
      <4>2. d = a
        BY <2>3, <4>1 DEF Close
      <4> QED
        BY <3>1, <4>1, <4>2
    <3>2. CASE m # 0
      <4>1. Given(a, g[m - 1], q) /\ Built(a.child, rows, tops[m], i - 1)
        BY <3>2 DEF OpenAt
      <4>2. m \in 1..Len(tops)
        BY <1>1, <1>6, <3>2
      <4>3. tops[m] \in Tops(p)
        BY <4>2 DEF ChildrenOf
      <4>4. \A j \in 1..Len(rows) : IsPrefix(tops[m].path, rows[j].path) => j <= i - 1
        BY <2>1, <4>2, ReadInTime
      <4>5. i - 1 \in 0..Len(rows)
        BY <1>1
      <4>6. PICK h \in Tops(p) : h = tops[m]
        BY <4>3
      <4>7. \A j \in 1..Len(rows) : IsPrefix(h.path, rows[j].path) => j <= i - 1
        BY <4>4, <4>6
      <4>8. Built(a.child, rows, h, i - 1)
        BY <4>1, <4>6
      <4>9. a.child = Whole(h)
        BY <4>5, <4>7, <4>8, ChildIsWhole
      <4> QED
        BY <2>3, <4>1, <4>2, <4>6, <4>9, CloseWhole
    <3> QED
      BY <3>1, <3>2
  <2>5. ~d.done
    BY <2>4 DEF Given
  <2>6. Scanned(a, p, r, q) = [d EXCEPT !.child = t]
    BY <1>4, <1>5, <1>6, <2>2, <2>3, <2>5 DEF Scanned
  <2>7. t \in C
    <3>1. [d EXCEPT !.child = t].child = t
      BY <2>4 DEF Scans
    <3> QED
      BY <1>3, <2>6, <3>1
  <2>8. PICK s : s = [d EXCEPT !.child = t]
    OBVIOUS
  <2>9. s \in Scans(C) /\ s.child = t /\ Given(s, g[m], q)
    BY <2>4, <2>7, <2>8, OpenKeepsGiven
  <2>10. Built(t, rows, tops[m + 1], i)
    <3>1. PICK h \in Tops(p) : h = r
      BY <1>7
    <3>2. Built(RowText(h), rows, h, i)
      BY <1>3, <3>1, ChildBegins
    <3> QED
      BY <1>3, <1>5, <2>1, <3>1, <3>2
  <2>11. OpenAt(s, i, m + 1, g, rows, tops, q)
    <3>1. PICK l : l = m + 1
      OBVIOUS
    <3>2. l - 1 = m /\ l # 0
      <4>1. m \in Nat
        BY <1>1, <1>6
      <4> QED
        BY <3>1, <4>1
    <3>3. Given(s, g[l - 1], q)
      BY <2>9, <3>2
    <3>4. Built(s.child, rows, tops[l], i)
      BY <2>9, <2>10, <3>1
    <3>5. Passed(rows, tops, i, l)
      BY <2>1, <3>1
    <3>6. OpenAt(s, i, l, g, rows, tops, q)
      BY <3>2, <3>3, <3>4, <3>5 DEF OpenAt
    <3> QED
      BY <3>1, <3>6
  <2> QED
    BY <1>3, <2>6, <2>8, <2>9, <2>11
<1>8. CASE r \notin Tops(p)
  <2>1. /\ m \in 1..Len(tops)
        /\ \E z \in Path : /\ rows[i].path = tops[m].path \o z
                           /\ Rel(<<Head(Rel(p, rows[i].path))>>, Rel(p, rows[i].path)) = z
                           /\ Len(Rel(p, rows[i].path)) # 1
        /\ Passed(rows, tops, i, m)
    BY <1>2, <1>3, <1>6, <1>8, ReachesBelow
  <2>2. y \in Path /\ rows[i].path = tops[m].path \o y /\ Len(x) # 1
    BY <1>3, <1>4, <2>1
  <2>3. m # 0
    BY <2>1
  <2>4. Given(a, g[m - 1], q) /\ Built(a.child, rows, tops[m], i - 1)
    BY <2>3 DEF OpenAt
  <2>5. PICK c : c = Override([z \in {y \o w : w \in DOMAIN t} |-> t[Rel(y, z)]], a.child)
    OBVIOUS
  <2>6. Scanned(a, p, r, q) = [a EXCEPT !.child = c]
    BY <1>4, <1>5, <1>6, <2>2, <2>5 DEF Scanned
  <2>7. c \in C
    <3>1. [a EXCEPT !.child = c].child = c
      BY DEF Scans
    <3> QED
      BY <1>3, <2>6, <3>1
  <2>8. PICK s : s = [a EXCEPT !.child = c]
    OBVIOUS
  <2>9. s \in Scans(C) /\ s.child = c /\ Given(s, g[m - 1], q)
    BY <2>4, <2>7, <2>8, OpenKeepsGiven
  <2>10. PICK h \in Tops(p) : h = tops[m]
    BY <2>1 DEF ChildrenOf
  <2>11. Built(c, rows, tops[m], i)
    <3>1. rows[i].path = h.path \o y /\ Built(a.child, rows, h, i - 1)
      BY <2>2, <2>4, <2>10
    <3>2. LET v == RowText(rows[i]) IN
           Built(Override([z \in {y \o w : w \in DOMAIN v} |-> v[Rel(y, z)]], a.child), rows, h, i)
      BY <2>2, <3>1, ChildGrows
    <3> QED
      BY <1>3, <1>5, <2>5, <2>10, <3>2
  <2>12. OpenAt(s, i, m, g, rows, tops, q)
    BY <2>1, <2>3, <2>9, <2>11 DEF OpenAt
  <2> QED
    BY <1>3, <2>6, <2>8, <2>9, <2>12
<1> QED
  BY <1>7, <1>8

\* The scan of all rows: the last child is open.
LEMMA StreamEnds ==
    ASSUME IInv, NEW p \in Path, Unambiguous(p), NEW rows, NEW tops, ChildrenOf(p, rows, tops),
           NEW q, q.skip \in Nat, q.take = 0,
           NEW g, IsPassing(g, Kids(tops), q.filters, Len(tops)),
           NEW n \in Nat, n = Len(rows), NEW f, IsScan(f, n, p, rows, q)
    PROVE  \E C, m : f[n] \in Scans(C) /\ OpenAt(f[n], n, m, g, rows, tops, q)
<1>1. PICK C : C = {f[i].child : i \in 0..n}
  OBVIOUS
<1>2. PICK S : S = {i \in 0..n : f[i] \in Scans(C) /\ \E m : OpenAt(f[i], i, m, g, rows, tops, q)}
  OBVIOUS
<1>3. PICK h : h = [i \in 0..n |-> i]
  OBVIOUS
<1>4. Len(tops) \in Nat
  BY DEF ChildrenOf, Listed
<1>5. h[0] \in S
  <2>1. f[0] = Begun
    BY DEF IsScan
  <2>2. Begun \in Scans(C) /\ Begun.child = Nothing
    BY DEF Begun, Scans
  <2>3. g[0] = <<>>
    BY DEF IsPassing
  <2>4. Given(Begun, g[0], q)
    <3>1. Begun.out = <<>> /\ Begun.skipped = 0 /\ ~Begun.done
      BY DEF Begun
    <3>2. Len(g[0]) = 0
      BY <2>3
    <3>3. ASSUME 0 >= q.skip
          PROVE  Begun.skipped = q.skip /\ Begun.out = [k \in 1..0 - q.skip |-> g[0][q.skip + k].val]
      <4>1. q.skip = 0
        BY <3>3
      <4>2. 1..0 - q.skip = {}
        BY <4>1
      <4>3. [k \in 1..0 - q.skip |-> g[0][q.skip + k].val] = <<>>
        BY <4>2
      <4> QED
        BY <3>1, <4>1, <4>3
    <3> QED
      BY <3>1, <3>2, <3>3 DEF Given
  <2>5. Passed(rows, tops, 0, 0)
    <3>1. \A j \in 1..Len(rows) : ~(j <= 0)
      OBVIOUS
    <3>2. \A k \in 1..Len(tops) : ~(k <= 0)
      OBVIOUS
    <3> QED
      BY <1>4, <3>1, <3>2 DEF Passed
  <2>6. OpenAt(Begun, 0, 0, g, rows, tops, q)
    BY <2>2, <2>4, <2>5 DEF OpenAt
  <2> QED
    BY <1>2, <1>3, <2>1, <2>2, <2>6
<1>6. ASSUME NEW i \in 1..n, h[i - 1] \in S PROVE h[i] \in S
  <2>1. i - 1 \in S /\ h[i] = i /\ i \in 1..Len(rows)
    BY <1>3, <1>6
  <2>2. PICK a : a = f[i - 1]
    OBVIOUS
  <2>3. a \in Scans(C)
    BY <1>2, <2>1, <2>2
  <2>4. PICK m : OpenAt(a, i - 1, m, g, rows, tops, q)
    BY <1>2, <2>1, <2>2
  <2>5. f[i] = Scanned(a, p, rows[i], q)
    BY <2>2 DEF IsScan
  <2>6. Scanned(a, p, rows[i], q).child \in C
    BY <1>1, <2>5
  <2>7. /\ Scanned(a, p, rows[i], q) \in Scans(C)
        /\ \E l : OpenAt(Scanned(a, p, rows[i], q), i, l, g, rows, tops, q)
    BY <2>1, <2>3, <2>4, <2>6, StreamStep
  <2> QED
    BY <1>2, <2>1, <2>5, <2>7
<1>7. \A i \in 0..n : h[i] \in S
  BY <1>5, <1>6, RecursionStays
<1>8. n \in S
  BY <1>3, <1>7
<1> QED
  BY <1>2, <1>8

\* The scan of all children gives those that pass.
LEMMA StreamOfAll ==
    ASSUME IInv, FInv, NEW p \in Path, Unambiguous(p), NEW q, q.skip \in Nat, q.take = 0, q.order = <<>>
    PROVE  Stream(p, q) = Evaluated(Kids(RowsInOrder(Tops(p))), q.filters, q)
<1>1. PICK rows, tops : rows = RowsBelow(p) /\ tops = RowsInOrder(Tops(p))
  OBVIOUS
<1>2. ChildrenOf(p, rows, tops)
  BY <1>1, ChildrenListed
<1>3. PICK n \in Nat, l \in Nat : n = Len(rows) /\ l = Len(tops)
  BY <1>2 DEF ChildrenOf, Listed
<1>4. Len(Kids(tops)) = l
  BY <1>3 DEF Kids
<1>5. PICK g : IsPassing(g, Kids(tops), q.filters, l) /\ Passing(Kids(tops), q.filters) = g[l]
  <2>1. Len(Kids(tops)) \in Nat
    BY <1>3, <1>4
  <2>2. PICK g : /\ IsPassing(g, Kids(tops), q.filters, Len(Kids(tops)))
                 /\ Passing(Kids(tops), q.filters) = g[Len(Kids(tops))]
    BY <2>1, PassingIs
  <2> QED
    BY <1>4, <2>2
<1>6. PICK f : IsScan(f, n, p, rows, q) /\ Scan(p, rows, q) = f[n]
  BY <1>3, ScanIs
<1>7. PICK C, m : f[n] \in Scans(C) /\ OpenAt(f[n], n, m, g, rows, tops, q)
  BY <1>2, <1>3, <1>5, <1>6, StreamEnds
<1>8. PICK a : a = f[n]
  OBVIOUS
<1>9. m = l
  <2>1. Passed(rows, tops, n, m)
    BY <1>7 DEF OpenAt
  <2>2. m \in 0..l
    BY <1>3, <2>1 DEF Passed
  <2>3. CASE l = 0
    BY <2>2, <2>3
  <2>4. CASE l # 0
    <3>1. l \in 1..Len(tops) /\ tops[l] \in Tops(p)
      BY <1>2, <1>3, <2>4 DEF ChildrenOf
    <3>2. tops[l] \in Lower(p)
      BY <3>1, TopFacts
    <3>3. PICK j \in 1..Len(rows) : rows[j] = tops[l]
      BY <1>2, <3>2 DEF ChildrenOf
    <3>4. j <= n
      BY <1>3
    <3>5. l <= m
      BY <2>1, <3>1, <3>3, <3>4 DEF Passed
    <3> QED
      BY <2>2, <3>5
  <2> QED
    BY <2>3, <2>4
<1>10. PICK E : E = EntriesOf(Kids(tops), l)
  OBVIOUS
<1>11. g[l] \in Seq(E)
  BY <1>3, <1>5, <1>10 DEF IsPassing
<1>12. PICK d : d = Close(a, q)
  OBVIOUS
<1>13. Given(d, g[l], q)
  <2>1. CASE l = 0
    <3>1. a.child = Nothing /\ Given(a, g[0], q)
      BY <1>7, <1>8, <1>9, <2>1 DEF OpenAt
    <3>2. d = a
      BY <1>12, <3>1 DEF Close
    <3> QED
      BY <2>1, <3>1, <3>2
  <2>2. CASE l # 0
    <3>1. Given(a, g[l - 1], q) /\ Built(a.child, rows, tops[l], n)
      BY <1>7, <1>8, <1>9, <2>2 DEF OpenAt
    <3>2. l \in 1..Len(tops)
      BY <1>3, <2>2
    <3>3. PICK h \in Tops(p) : h = tops[l]
      BY <1>2, <3>2 DEF ChildrenOf
    <3>4. n \in 0..Len(rows) /\ \A j \in 1..Len(rows) : IsPrefix(h.path, rows[j].path) => j <= n
      BY <1>3
    <3>5. Built(a.child, rows, h, n)
      BY <3>1, <3>3
    <3>6. a.child = Whole(h)
      BY <1>2, <3>4, <3>5, ChildIsWhole
    <3>7. a.child = Whole(tops[l]) /\ a \in Scans(C) /\ IsPassing(g, Kids(tops), q.filters, Len(tops))
      BY <1>3, <1>5, <1>7, <1>8, <3>3, <3>6
    <3> QED
      BY <1>2, <1>12, <3>1, <3>2, <3>7, CloseWhole
  <2> QED
    BY <2>1, <2>2
<1>14. ~a.done
  BY <1>7, <1>8 DEF OpenAt, Given
<1>15. Stream(p, q) = d.out
  BY <1>1, <1>6, <1>8, <1>12, <1>14 DEF Stream
<1>16. Sorted(Passing(Kids(tops), q.filters), q.order) = g[l]
  BY <1>5 DEF Sorted
<1>17. LET paged == Page(g[l], q) IN d.out = [i \in 1..Len(paged) |-> paged[i].val]
  BY <1>11, <1>13, GivenIsPage
<1> QED
  BY <1>1, <1>15, <1>16, <1>17 DEF Evaluated

\* And a page of it is the page of those.
LEMMA StreamIsEvaluated ==
    ASSUME IInv, FInv, NEW p \in Path, Unambiguous(p), NEW q \in Queries, q.order = <<>>
    PROVE  Stream(p, q) = Evaluated(Kids(RowsInOrder(Tops(p))), q.filters, q)
<1>1. /\ q.skip \in Nat /\ q.take \in Nat
      /\ q = [filters |-> q.filters, order |-> q.order, skip |-> q.skip, take |-> q.take]
  BY QueryAssumption
<1>2. CASE q.take = 0
  BY <1>1, <1>2, StreamOfAll
<1>3. CASE q.take # 0
  <2>1. PICK all : all = [filters |-> q.filters, order |-> q.order, skip |-> 0, take |-> 0]
    OBVIOUS
  <2>2. all.skip = 0 /\ all.take = 0 /\ all.filters = q.filters /\ all.order = q.order
    BY <2>1
  <2>3. q.take \in Nat \ {0}
    BY <1>1, <1>3
  <2>4. PICK kids : kids = Kids(RowsInOrder(Tops(p)))
    OBVIOUS
  <2>5. Stream(p, all) = Evaluated(kids, q.filters, all)
    <3>1. all.skip \in Nat /\ all.order = <<>>
      BY <2>2
    <3> QED
      BY <2>2, <2>4, <3>1, StreamOfAll
  <2>6. Len(kids) \in Nat
    <3>1. Len(RowsInOrder(Tops(p))) \in Nat
      BY ChildrenListed DEF ChildrenOf, Listed
    <3> QED
      BY <2>4, <3>1 DEF Kids
  <2>7. IsPage(Stream(p, q), Stream(p, all), q)
    BY <1>1, <2>2, <2>3, StreamTiles
  <2>8. IsPage(Evaluated(kids, q.filters, q), Evaluated(kids, q.filters, all), q)
    BY <1>1, <2>2, <2>3, <2>6, EvaluatedTiles
  <2> QED
    BY <2>4, <2>5, <2>7, <2>8 DEF IsPage
<1> QED
  BY <1>2, <1>3

-----------------------------------------------------------------------------
(***************************************************************************)
(* General: the rows that match "/p/*" and "/p/$v"                         *)
(***************************************************************************)

\* A path with a wildcard after it matches the paths one level below.
LEMMA LastIsWild ==
    ASSUME NEW p \in Path, NEW w, IsWildcard(w)
    PROVE  /\ WildcardPlaces(Append(p, w)) # {}
           /\ IsSingleTail(Append(p, w)) <=> p # Root /\ w = Star
           /\ Front(Append(p, w)) = p
           /\ \A x \in Path : WildcardMatches(x, Append(p, w)) <=> Len(x) = Len(p) + 1 /\ IsPrefix(p, x)
<1>1. PICK n \in Nat : n = Len(p)
  BY DEF Path
<1>2. PICK s : s = Append(p, w)
  OBVIOUS
<1>3. p \in Seq(Keys) /\ \A i \in 1..n : ~IsWildcard(p[i])
  BY <1>1, SegmentsAreNotKeys DEF Path
<1>4. Len(s) = n + 1 /\ s[n + 1] = w /\ \A i \in 1..n : s[i] = p[i]
  BY <1>1, <1>2, <1>3
<1>5. \A i : i \in 1..n + 1 <=> i \in 1..n \/ i = n + 1
  OBVIOUS
<1>6. WildcardPlaces(s) = {n + 1}
  BY <1>3, <1>4, <1>5 DEF WildcardPlaces
<1>7. Last(s) = w
  BY <1>4 DEF Last
<1>8. n = 0 <=> p = Root
  BY <1>1, <1>3, EmptySeq DEF Root
<1>9. IsSingleTail(s) <=> p # Root /\ w = Star
  <2>1. Len(s) > 1 <=> p # Root
    BY <1>4, <1>8
  <2>2. WildcardPlaces(s) = {Len(s)}
    BY <1>4, <1>6
  <2> QED
    BY <1>7, <2>1, <2>2 DEF IsSingleTail
<1>10. Front(s) = p
  BY <1>1, <1>2, <1>3, <1>4 DEF Front
<1>11. ASSUME NEW x \in Path
       PROVE  WildcardMatches(x, s) <=> Len(x) = n + 1 /\ IsPrefix(p, x)
  <2>1. WildcardMatches(x, s) <=> Len(x) = n + 1 /\ \A i \in 1..n + 1 : IsWildcard(s[i]) \/ x[i] = s[i]
    BY <1>4 DEF WildcardMatches
  <2>2. (\A i \in 1..n + 1 : IsWildcard(s[i]) \/ x[i] = s[i]) <=> \A i \in 1..n : x[i] = p[i]
    BY <1>3, <1>4, <1>5
  <2>3. IsPrefix(p, x) <=> n <= Len(x) /\ \A i \in 1..n : p[i] = x[i]
    BY <1>1, PrefixChar
  <2>4. Len(x) = n + 1 => n <= Len(x)
    BY <1>1
  <2> QED
    BY <2>1, <2>2, <2>3, <2>4
<1> QED
  BY <1>1, <1>2, <1>6, <1>9, <1>10, <1>11

\* All children with rows are objects.
ObjectsBelow(p) == \A x \in DOMAIN primitives : ~(IsStrictPrefix(p, x) /\ Len(x) = Len(p) + 1)

\* The rows that match are then those that begin the children.
LEMMA MatchesAreTops ==
    ASSUME IInv, NEW p \in Path, NEW w, IsWildcard(w), ObjectsBelow(p)
    PROVE  /\ {r \in RowsThatMatch(Append(p, w), {}) : Exists(r.path)} = Tops(p)
           /\ \A h \in Tops(p) : h.slash
<1>1. PICK C, D : C = DOMAIN containers /\ D = DOMAIN primitives
  OBVIOUS
<1>2. C \subseteq Path /\ D \subseteq Path
  BY <1>1 DEF IInv, TypeOK
<1>3. PICK S : S = {x \in C \cup D : WildcardMatches(x, Append(p, w))}
  OBVIOUS
<1>4. \A r : r \in RowsAt(S) <=> \/ \E x \in S \cap C : r = [path |-> x, slash |-> TRUE]
                                 \/ \E x \in S \cap D : r = [path |-> x, slash |-> FALSE]
  BY <1>1 DEF RowsAt
<1>5. \A x \in C \cup D : x \in S <=> Len(x) = Len(p) + 1 /\ IsPrefix(p, x)
  BY <1>2, <1>3, LastIsWild
<1>6. \A r : r \in RowsThatMatch(Append(p, w), {}) <=> r \in RowsAt(S)
  BY <1>1, <1>3 DEF RowsThatMatch
<1>7. ASSUME NEW h \in Tops(p)
      PROVE  h.slash /\ h = [path |-> h.path, slash |-> TRUE] /\ h.path \in C /\ h.path \in S
  <2>1. /\ h \in Exported(p) /\ h.path \in Path /\ h.path # p /\ IsPrefix(p, h.path)
        /\ h = [path |-> h.path, slash |-> h.slash]
        /\ \/ h.slash = TRUE /\ h.path \in C
           \/ h.slash = FALSE /\ h.path \in D
    BY <1>1, TopFacts
  <2>2. Len(h.path) = Len(p) + 1
    BY DEF Tops
  <2>3. h.path \notin D
    BY <1>1, <2>1, <2>2 DEF ObjectsBelow, IsStrictPrefix
  <2> QED
    BY <1>5, <2>1, <2>2, <2>3
<1>8. ASSUME NEW r \in RowsAt(S), Exists(r.path) PROVE r \in Tops(p)
  <2>1. PICK x \in S : \/ x \in C /\ r = [path |-> x, slash |-> TRUE]
                       \/ x \in D /\ r = [path |-> x, slash |-> FALSE]
    BY <1>4
  <2>2. Len(x) = Len(p) + 1 /\ IsPrefix(p, x) /\ x \in C \cup D
    BY <1>3, <1>5
  <2>3. x # p
    <3>1. Len(p) \in Nat /\ Len(p) # Len(p) + 1
      BY DEF Path
    <3> QED
      BY <2>2, <3>1
  <2>4. r.path = x /\ r = [path |-> r.path, slash |-> r.slash]
        /\ \/ r.slash = TRUE /\ r.path \in C
           \/ r.slash = FALSE /\ r.path \in D
    BY <2>1
  <2>5. r \in Exported(p)
    BY <1>1, <2>2, <2>3, <2>4, ExportedChar
  <2> QED
    BY <2>2, <2>4, <2>5 DEF Tops
<1>9. ASSUME NEW r \in Tops(p) PROVE r \in RowsAt(S) /\ Exists(r.path)
  <2>1. r = [path |-> r.path, slash |-> TRUE] /\ r.path \in S \cap C
    BY <1>7
  <2>2. r \in RowsAt(S)
    BY <1>4, <2>1
  <2> QED
    BY <1>1, <2>1, <2>2 DEF Exists
<1>10. PICK T : T = {r \in RowsThatMatch(Append(p, w), {}) : Exists(r.path)}
  OBVIOUS
<1>11. \A r : r \in T <=> r \in Tops(p)
  BY <1>6, <1>8, <1>9, <1>10
<1>12. T = Tops(p)
  BY <1>11
<1> QED
  BY <1>7, <1>10, <1>12

\* General evaluates the same children.
LEMMA GeneralIsEvaluated ==
    ASSUME IInv, FInv, NEW p \in Path, NEW w, IsWildcard(w), ObjectsBelow(p),
           NEW q, \A f \in q.filters : ~OnSegment(f)
    PROVE  General(Append(p, w), q) = Evaluated(Kids(RowsInOrder(Tops(p))), q.filters, q)
<1>1. PICK onSegment : onSegment = {f \in q.filters : OnSegment(f)}
  OBVIOUS
<1>2. onSegment = {} /\ q.filters \ onSegment = q.filters
  BY <1>1
<1>3. PICK T : T = {r \in RowsThatMatch(Append(p, w), onSegment) : Exists(r.path)}
  OBVIOUS
<1>4. T = Tops(p) /\ \A h \in Tops(p) : h.slash
  BY <1>2, <1>3, MatchesAreTops
<1>5. PICK rows : rows = RowsInOrder(T)
  OBVIOUS
<1>6. \A i \in 1..Len(rows) : rows[i] \in Tops(p)
  BY <1>4, <1>5, ChildrenListed DEF ChildrenOf
<1>7. \A i \in 1..Len(rows) : Extract(rows[i].path) = Whole(rows[i])
  BY <1>4, <1>6 DEF Whole
<1>8. [i \in 1..Len(rows) |-> Extract(rows[i].path)] = Kids(rows)
  BY <1>7 DEF Kids
<1>9. General(Append(p, w), q)
        = Evaluated([i \in 1..Len(rows) |-> Extract(rows[i].path)], q.filters \ onSegment, q)
  BY <1>1, <1>3, <1>5 DEF General
<1> QED
  BY <1>2, <1>4, <1>5, <1>8, <1>9

\* What the pattern "/p/$v" gives, row by row, is what the scan of "/p/*" gives
\* (do_query_wildcard, do_query_single_tail_stream).
THEOREM PatternsAgree == Spec => []GeneralIsStream
<1>1. ASSUME FInv PROVE GeneralIsStream
  <2> SUFFICES ASSUME NEW p \in DocPaths, NEW v \in Vars, NEW q \in Queries, Readable(p),
                      \A x \in DOMAIN primitives : ~(IsStrictPrefix(p, x) /\ Len(x) = Len(p) + 1),
                      q.order = <<>>, ~\E f \in q.filters : OnSegment(f)
               PROVE  Execute(Append(p, v), q) = Execute(Append(p, Star), q)
    BY DEF GeneralIsStream
  <2>1. p \in Path /\ IInv /\ Unambiguous(p)
    BY <1>1, EngineAssumption DEF FInv, Readable
  <2>2. ObjectsBelow(p) /\ \A f \in q.filters : ~OnSegment(f)
    BY DEF ObjectsBelow
  <2>3. IsWildcard(v) /\ v # Star /\ IsWildcard(Star)
    BY SegmentsAreNotKeys DEF IsWildcard
  <2>4. PICK kids : kids = Kids(RowsInOrder(Tops(p)))
    OBVIOUS
  <2>5. Execute(Append(p, v), q) = Evaluated(kids, q.filters, q)
    <3>1. General(Append(p, v), q) = Evaluated(kids, q.filters, q)
      BY <1>1, <2>1, <2>2, <2>3, <2>4, GeneralIsEvaluated
    <3>2. WildcardPlaces(Append(p, v)) # {} /\ ~IsSingleTail(Append(p, v))
      BY <2>1, <2>3, LastIsWild
    <3> QED
      BY <3>1, <3>2 DEF Execute
  <2>6. Execute(Append(p, Star), q) = Evaluated(kids, q.filters, q)
    <3>1. /\ WildcardPlaces(Append(p, Star)) # {} /\ Front(Append(p, Star)) = p
          /\ IsSingleTail(Append(p, Star)) <=> p # Root
      BY <2>1, <2>3, LastIsWild
    <3>2. CASE p = Root
      <4>1. General(Append(p, Star), q) = Evaluated(kids, q.filters, q)
        BY <1>1, <2>1, <2>2, <2>3, <2>4, GeneralIsEvaluated
      <4> QED
        BY <3>1, <3>2, <4>1 DEF Execute
    <3>3. CASE p # Root
      <4>1. Stream(p, q) = Evaluated(kids, q.filters, q)
        BY <1>1, <2>1, <2>4, StreamIsEvaluated
      <4> QED
        BY <3>1, <3>3, <4>1 DEF Execute
    <3> QED
      BY <3>2, <3>3
  <2> QED
    BY <2>5, <2>6
<1> QED
  BY <1>1, TablesStayFinite, PTL

-----------------------------------------------------------------------------
(***************************************************************************)
(* Direct: the children of the extracted document                          *)
(***************************************************************************)

\* c is what the document t has below the key k, whose row is at top, node by node.
IsChild(c, t, k, top) ==
    /\ c = [w \in DOMAIN c |-> t[<<k>> \o w]]
    /\ DOMAIN c \subseteq Path
    /\ \A w \in Path :
          /\ w \in DOMAIN c <=> \/ top \o w \in DOMAIN containers
                                \/ top \o w \in DOMAIN primitives
                                \/ Inlined(containers, top \o w)
          /\ w \in DOMAIN c =>
                t[<<k>> \o w] = IF top \o w \in DOMAIN containers THEN Obj
                                ELSE IF top \o w \in DOMAIN primitives THEN primitives[top \o w].val
                                ELSE containers[Front(top \o w)].inline[Last(top \o w)]

\* Child is that.
LEMMA ChildChar ==
    ASSUME IInv, NEW p \in Path, NEW k \in Keys
    PROVE  IsChild(Child(Extract(p), k), Extract(p), k, p \o <<k>>)
<1>0. PICK top : top = p \o <<k>>
  OBVIOUS
<1>1. PICK C, D, N : C = containers /\ D = primitives /\ N = NodesOf(C, D, p)
  OBVIOUS
<1>2. ContainersOK(C) /\ PrimitivesOK(D)
  BY <1>1, IInvChar
<1>3. PICK t : t = Extract(p)
  OBVIOUS
<1>4. t = [x \in N |-> IF p \o x \in DOMAIN C THEN Obj
                       ELSE IF p \o x \in DOMAIN D THEN D[p \o x].val
                       ELSE C[p \o Front(x)].inline[Last(x)]]
  BY <1>1, <1>3, ExtractIsTextOf DEF TextOf
<1>5. N \subseteq Path
  BY <1>1, <1>2, NodesChar
<1>6. PICK u \in Path : u = <<k>> /\ u # Root
  BY OneKey
<1>7. PICK c : c = Child(t, k)
  OBVIOUS
<1>8. c = [x \in {Rel(u, y) : y \in {y \in N : IsPrefix(u, y)}} |-> t[u \o x]]
  <2>1. DOMAIN t = N
    BY <1>4
  <2> QED
    BY <1>6, <1>7, <2>1 DEF Child
<1>9. ASSUME NEW w
      PROVE  w \in DOMAIN c <=> w \in Path /\ u \o w \in N
  <2>1. ASSUME w \in DOMAIN c PROVE w \in Path /\ u \o w \in N
    <3>1. PICK y \in N : IsPrefix(u, y) /\ w = Rel(u, y)
      BY <1>8, <2>1
    <3>2. y \in Path
      BY <1>5
    <3>3. w \in Path /\ y = u \o w
      BY <3>1, <3>2, RelChar
    <3> QED
      BY <3>3
  <2>2. ASSUME w \in Path, u \o w \in N PROVE w \in DOMAIN c
    <3>1. IsPrefix(u, u \o w) /\ Rel(u, u \o w) = w
      BY <2>2, ConcatChar
    <3> QED
      BY <1>8, <2>2, <3>1
  <2> QED
    BY <2>1, <2>2
<1>10. ASSUME NEW w \in Path
       PROVE  /\ u \o w \in N <=> \/ top \o w \in DOMAIN C
                                  \/ top \o w \in DOMAIN D
                                  \/ Inlined(C, top \o w)
              /\ u \o w \in N =>
                       t[u \o w] = IF top \o w \in DOMAIN C THEN Obj
                                   ELSE IF top \o w \in DOMAIN D THEN D[top \o w].val
                                   ELSE C[Front(top \o w)].inline[Last(top \o w)]
  <2>1. p \o (u \o w) = top \o w
    BY <1>0, <1>6, BelowBelow
  <2>2. PICK y \in Path : y = u \o w
    BY ConcatChar
  <2>3. y # Root
    <3>1. Len(u \o w) = Len(u) + Len(w) /\ Len(u) = 1 /\ Len(w) \in Nat
      BY <1>6, ConcatChar, OneKey DEF Path
    <3>2. Len(y) # 0
      BY <2>2, <3>1
    <3> QED
      BY <3>2 DEF Root
  <2>4. y \in N <=> \/ p \o y \in DOMAIN C
                    \/ y # Root /\ p \o y \in DOMAIN D
                    \/ y # Root /\ Inlined(C, p \o y)
    BY <1>1, <1>2, NodesChar
  <2>5. Front(p \o y) = p \o Front(y) /\ Last(p \o y) = Last(y)
    BY <2>3, NodeBelow
  <2> QED
    BY <1>4, <2>1, <2>2, <2>3, <2>4, <2>5
<1>11. ASSUME NEW w \in Path
       PROVE  /\ w \in DOMAIN c <=> \/ top \o w \in DOMAIN C
                                    \/ top \o w \in DOMAIN D
                                    \/ Inlined(C, top \o w)
              /\ w \in DOMAIN c =>
                       t[u \o w] = IF top \o w \in DOMAIN C THEN Obj
                                   ELSE IF top \o w \in DOMAIN D THEN D[top \o w].val
                                   ELSE C[Front(top \o w)].inline[Last(top \o w)]
  BY <1>9, <1>10
<1>12. c = [w \in DOMAIN c |-> t[u \o w]]
  BY <1>8
<1>13. DOMAIN c \subseteq Path
  BY <1>9
<1>14. IsChild(c, t, k, top)
  BY <1>1, <1>6, <1>11, <1>12, <1>13 DEF IsChild
<1> QED
  BY <1>0, <1>3, <1>7, <1>14

\* The child under the key is what its row begins.
LEMMA ChildIsTop ==
    ASSUME IInv, NEW p \in Path, Unambiguous(p), NEW k \in Keys, NEW h \in Tops(p), h.path = p \o <<k>>
    PROVE  Child(Extract(p), k) = Whole(h)
<1>9. PICK C, D : C = containers /\ D = primitives
  OBVIOUS
<1>10. PICK top \in Path : top = p \o <<k>> /\ top = h.path
  BY TopFacts
<1>1. C = containers /\ D = primitives /\ top = p \o <<k>> /\ top = h.path
  BY <1>9, <1>10
<1>2. ContainersOK(C) /\ PrimitivesOK(D)
  BY <1>1, IInvChar
<1>3. PICK t, c : t = Extract(p) /\ c = Child(t, k)
  OBVIOUS
<1>4. /\ c = [w \in DOMAIN c |-> t[<<k>> \o w]]
      /\ DOMAIN c \subseteq Path
      /\ \A w \in Path :
            /\ w \in DOMAIN c <=> \/ top \o w \in DOMAIN C
                                  \/ top \o w \in DOMAIN D
                                  \/ Inlined(C, top \o w)
            /\ w \in DOMAIN c => t[<<k>> \o w] = IF top \o w \in DOMAIN C THEN Obj
                                                 ELSE IF top \o w \in DOMAIN D THEN D[top \o w].val
                                                 ELSE C[Front(top \o w)].inline[Last(top \o w)]
  <2>1. IsChild(Child(Extract(p), k), Extract(p), k, p \o <<k>>)
    BY ChildChar
  <2>2. IsChild(c, t, k, top)
    BY <1>1, <1>3, <2>1
  <2> QED
    BY <1>1, <2>2 DEF IsChild
<1>5. /\ h \in Exported(p) /\ h.path # p /\ h.path # Root /\ IsPrefix(p, h.path) /\ Front(h.path) = p
      /\ \/ h.slash = TRUE /\ top \in DOMAIN C
         \/ h.slash = FALSE /\ top \in DOMAIN D
  BY <1>1, TopFacts
<1>6. top \o Root = top /\ Root \in Path
  BY RootIsPath, ConcatChar
<1>7. CASE h.slash
  <2>1. top \in DOMAIN C
    BY <1>5, <1>7
  <2>2. PICK M : M = NodesOf(C, D, top)
    OBVIOUS
  <2>3. Whole(h) = [x \in M |-> IF top \o x \in DOMAIN C THEN Obj
                                ELSE IF top \o x \in DOMAIN D THEN D[top \o x].val
                                ELSE C[top \o Front(x)].inline[Last(x)]]
    BY <1>1, <1>7, <2>2, ExtractIsTextOf DEF Whole, TextOf
  <2>4. M \subseteq Path /\ \A y \in Path : y \in M <=> \/ top \o y \in DOMAIN C
                                                        \/ y # Root /\ top \o y \in DOMAIN D
                                                        \/ y # Root /\ Inlined(C, top \o y)
    BY <1>2, <2>2, NodesChar
  <2>5. \A y \in Path : y \in M <=> y \in DOMAIN c
    BY <1>4, <1>6, <2>1, <2>4
  <2>6. M = DOMAIN c
    BY <1>4, <2>4, <2>5
  <2>7. ASSUME NEW w \in M PROVE t[<<k>> \o w] = Whole(h)[w]
    <3>1. w \in Path
      BY <2>4
    <3>2. w # Root => Front(top \o w) = top \o Front(w) /\ Last(top \o w) = Last(w)
      BY <3>1, NodeBelow
    <3>3. w = Root => top \o w \in DOMAIN C
      BY <1>6, <2>1
    <3>4. CASE w = Root
      <4>1. top \o w \in DOMAIN C
        BY <3>3, <3>4
      <4> QED
        BY <1>4, <2>3, <2>6, <3>1, <4>1
    <3>5. CASE w # Root
      <4>1. C[Front(top \o w)].inline[Last(top \o w)] = C[top \o Front(w)].inline[Last(w)]
        BY <3>2, <3>5
      <4> QED
        BY <1>4, <2>3, <2>6, <3>1, <4>1
    <3> QED
      BY <3>4, <3>5
  <2> QED
    BY <1>3, <1>4, <2>3, <2>6, <2>7
<1>8. CASE ~h.slash
  <2>1. top \in DOMAIN D /\ top \notin DOMAIN C
    BY <1>1, <1>5, <1>8, ClaimedOnce
  <2>2. ASSUME NEW z \in Path, IsPrefix(top, z), z \in DOMAIN C \cup DOMAIN D PROVE z = top
    <3>1. SUFFICES ASSUME z # top PROVE FALSE
      OBVIOUS
    <3>2. top \in Ancestors(z)
      BY <2>2, <3>1, AncestorChar
    <3>3. top \in DOMAIN C
      BY <1>1, <2>2, <3>2 DEF IInv, AncestorClosed
    <3> QED
      BY <2>1, <3>3
  <2>3. ASSUME NEW w \in DOMAIN c PROVE w = Root
    <3>1. SUFFICES ASSUME w # Root PROVE FALSE
      OBVIOUS
    <3>2. w \in Path
      BY <1>4
    <3>3. /\ top \o w \in Path /\ top \o w # top /\ IsPrefix(top, top \o w)
          /\ Front(top \o w) \in Path /\ IsPrefix(top, Front(top \o w))
      BY <3>1, <3>2, NodeBelow, ConcatChar
    <3>4. Inlined(C, top \o w)
      BY <1>4, <2>2, <3>2, <3>3
    <3>5. Front(top \o w) \in DOMAIN C
      BY <3>4 DEF Inlined
    <3>6. Front(top \o w) = top
      BY <2>2, <3>3, <3>5
    <3> QED
      BY <2>1, <3>5, <3>6
  <2>4. Root \in DOMAIN c /\ t[<<k>> \o Root] = D[top].val
    BY <1>4, <1>6, <2>1
  <2>5. DOMAIN c = {Root}
    BY <2>3, <2>4
  <2>6. Whole(h) = [x \in {Root} |-> D[top].val]
    BY <1>1, <1>8 DEF Whole
  <2> QED
    BY <1>3, <1>4, <2>4, <2>5, <2>6
<1> QED
  BY <1>7, <1>8

\* No two of the keys are one the beginning of the other, so bytes order them.
Ordered(S) == S \subseteq Keys /\ \A k, l \in S : <<k, l>> \notin Splits

\* Of those, the rows come in the order of the keys.
LEMMA OrderedKeys ==
    ASSUME NEW S, Ordered(S), NEW k \in S, NEW l \in S
    PROVE  \A i, j \in BOOLEAN : SegmentBefore(k, i, l, j) <=> KeyBefore(k, l)
<1>1. k \in Keys /\ l \in Keys /\ <<k, l>> \notin Splits /\ <<l, k>> \notin Splits
  BY DEF Ordered
<1> QED
  BY <1>1 DEF SegmentBefore, KeyBefore

\* Two rows that begin children come in the order of their keys.
LEMMA TopsInKeyOrder ==
    ASSUME IInv, NEW p \in Path, NEW S, Ordered(S), NEW k \in S, NEW l \in S, k # l,
           NEW g \in Tops(p), NEW h \in Tops(p), g.path = p \o <<k>>, h.path = p \o <<l>>
    PROVE  RowBefore(g, h) <=> KeyBefore(k, l)
<1>1. g.path \in Path /\ h.path \in Path /\ g.slash \in BOOLEAN /\ h.slash \in BOOLEAN
  BY TopFacts
<1>2. k \in Keys /\ l \in Keys
  BY DEF Ordered
<1>3. PICK n \in Nat : n = Len(p) + 1
  BY DEF Path
<1>4. PICK x \in Path, y \in Path : x = g.path /\ y = h.path
  BY <1>1
<1>5. Len(x) = n /\ x[n] = k /\ \A i \in 1..n - 1 : x[i] = p[i]
  <2>1. x = Append(p, k)
    BY <1>2, <1>4, OneKey
  <2> QED
    BY <1>2, <1>3, <2>1 DEF Path
<1>6. Len(y) = n /\ y[n] = l /\ \A i \in 1..n - 1 : y[i] = p[i]
  <2>1. y = Append(p, l)
    BY <1>2, <1>4, OneKey
  <2> QED
    BY <1>2, <1>3, <2>1 DEF Path
<1>7. x # y /\ DOMAIN x = 1..n /\ DOMAIN y = 1..n /\ n \in 1..n
  <2>1. n \in 1..n
    BY <1>3 DEF Path
  <2> QED
    BY <1>5, <1>6, <2>1 DEF Path
<1>8. ~IsPrefix(x, y)
  BY <1>5, <1>6, <1>7, PrefixOfSameLength
<1>9. PartAt(x, y, n)
  BY <1>5, <1>6, <1>7 DEF PartAt
<1>10. \A m : PartAt(x, y, m) => m = n
  BY <1>9, PartOnce
<1>11. SlashAt(g, n) \in BOOLEAN /\ SlashAt(h, n) \in BOOLEAN
  BY DEF SlashAt
<1>12. SegmentBefore(k, SlashAt(g, n), l, SlashAt(h, n)) <=> KeyBefore(k, l)
  BY <1>11, OrderedKeys
<1>13. PartBefore(g, h, n) <=> KeyBefore(k, l)
  BY <1>4, <1>5, <1>6, <1>9, <1>12 DEF PartBefore
<1>14. \A m : PartBefore(g, h, m) => m = n
  BY <1>4, <1>10 DEF PartBefore
<1>15. ~Above(g, h) /\ ~Beside(g, h)
  BY <1>4, <1>7, <1>8 DEF Above, Beside, IsStrictPrefix
<1> QED
  BY <1>4, <1>7, <1>13, <1>14, <1>15, RowBeforeIs

\* The keys of the children, if all have rows.
LEMMA KeysOfTops ==
    ASSUME IInv, NEW p \in Path, Exists(p), containers[p].inline = Nothing
    PROVE  LET K == {Last(x) : x \in ChildPaths(Extract(p), Root)} IN
           /\ K \subseteq Keys
           /\ \A k \in K : \E h \in Tops(p) : h.path = p \o <<k>>
           /\ \A h \in Tops(p) : \E k \in K : h.path = p \o <<k>>
<1>1. PICK C, D, N : C = containers /\ D = primitives /\ N = NodesOf(C, D, p)
  OBVIOUS
<1>2. ContainersOK(C) /\ PrimitivesOK(D)
  BY <1>1, IInvChar
<1>3. PICK t, K : t = Extract(p) /\ K = {Last(x) : x \in ChildPaths(t, Root)}
  OBVIOUS
<1>4. DOMAIN t = N
  BY <1>1, <1>3, ExtractIsTextOf DEF TextOf
<1>5. N \subseteq Path /\ \A y \in Path : y \in N <=> \/ p \o y \in DOMAIN C
                                                      \/ y # Root /\ p \o y \in DOMAIN D
                                                      \/ y # Root /\ Inlined(C, p \o y)
  BY <1>1, <1>2, NodesChar
<1>6. ASSUME NEW y \in ChildPaths(t, Root)
      PROVE  Last(y) \in Keys /\ \E h \in Tops(p) : h.path = p \o <<Last(y)>>
  <2>1. y \in N /\ y # Root /\ Front(y) = Root /\ y \in Path
    BY <1>4, <1>5 DEF ChildPaths
  <2>2. Last(y) \in Keys /\ y = Append(Front(y), Last(y))
    BY <2>1, SplitLast
  <2>3. PICK k \in Keys : k = Last(y)
    BY <2>2
  <2>4. y = <<k>>
    BY <2>1, <2>2, <2>3 DEF Root
  <2>5. PICK z \in Path : z = p \o y /\ z # p /\ IsPrefix(p, z) /\ Len(z) = Len(p) + 1
    <3>1. p \o y \in Path /\ p \o y # p /\ IsPrefix(p, p \o y) /\ Len(p \o y) = Len(p) + Len(y)
      BY <2>1, ConcatChar
    <3>2. Len(y) = 1
      BY <2>4
    <3> QED
      BY <3>1, <3>2
  <2>6. Front(p \o y) = p
    <3>1. Front(p \o y) = p \o Front(y) /\ p \o Root = p
      BY <2>1, FrontOfConcat, RootIsPath, ConcatChar
    <3> QED
      BY <2>1, <3>1
  <2>7. ~Inlined(C, z)
    <3>1. C[p].inline = Nothing
      BY <1>1
    <3>2. DOMAIN C[p].inline = {}
      BY <3>1 DEF Nothing
    <3> QED
      BY <2>5, <2>6, <3>2 DEF Inlined
  <2>8. z \in DOMAIN C \/ z \in DOMAIN D
    BY <1>5, <2>1, <2>5, <2>7
  <2>13. PICK s \in BOOLEAN : (s /\ z \in DOMAIN C) \/ (~s /\ z \in DOMAIN D)
    BY <2>8
  <2>9. PICK h : h = [path |-> z, slash |-> s]
    OBVIOUS
  <2>10. /\ h.path = z /\ h = [path |-> h.path, slash |-> h.slash]
         /\ \/ h.slash = TRUE /\ h.path \in DOMAIN C
            \/ h.slash = FALSE /\ h.path \in DOMAIN D
    BY <2>9, <2>13
  <2>11. h \in Exported(p)
    BY <1>1, <2>5, <2>10, ExportedChar
  <2>12. h \in Tops(p)
    BY <2>5, <2>10, <2>11 DEF Tops
  <2> QED
    BY <2>3, <2>4, <2>5, <2>10, <2>12
<1>7. ASSUME NEW h \in Tops(p)
      PROVE  \E k \in K : h.path = p \o <<k>>
  <2>1. /\ h.path \in Path /\ h.path # p /\ IsPrefix(p, h.path) /\ Front(h.path) = p
        /\ h.path \in DOMAIN C \cup DOMAIN D /\ Len(h.path) = Len(p) + 1
    BY <1>1, TopFacts DEF Tops
  <2>8. PICK z \in Path : z = h.path /\ IsPrefix(p, z) /\ z # p
    BY <2>1
  <2>2. PICK k \in Keys, y \in Path :
              /\ z = (p \o <<k>>) \o y
              /\ p \o <<k>> \in Path
              /\ Len(z) = Len(p) + 1 <=> y = Root
    BY <2>8, PathOfLower
  <2>3. h.path = p \o <<k>>
    BY <2>1, <2>2, <2>8, ConcatChar
  <2>4. <<k>> \in Path /\ <<k>> # Root /\ Front(<<k>>) = Root /\ Last(<<k>>) = k
    BY OneKey
  <2>5. <<k>> \in N
    BY <1>5, <2>1, <2>3, <2>4
  <2>6. <<k>> \in ChildPaths(t, Root)
    BY <1>4, <2>4, <2>5 DEF ChildPaths
  <2>7. k \in K
    BY <1>3, <2>4, <2>6
  <2> QED
    BY <2>3, <2>7
<1> QED
  BY <1>3, <1>6, <1>7

\* The keys of the children are finitely many.
LEMMA ChildKeysFinite ==
    ASSUME FInv, NEW p, NEW K, K = {Last(x) : x \in ChildPaths(Extract(p), Root)}
    PROVE  IsFiniteSet(K)
<1>1. PICK Y, f : Y = ChildPaths(Extract(p), Root) /\ f = [x \in Y |-> Last(x)]
  OBVIOUS
<1>2. IsFiniteSet(Y)
  <2>1. IsFiniteSet(DOMAIN Extract(p))
    BY FiniteExtract
  <2>2. Y \subseteq DOMAIN Extract(p)
    BY <1>1 DEF ChildPaths
  <2> QED
    BY <2>1, <2>2, FS_Subset
<1>3. f = [x \in Y |-> f[x]]
  BY <1>1
<1>4. IsFiniteSet({f[x] : x \in Y})
  BY <1>2, <1>3, FiniteImage
<1>5. K = {f[x] : x \in Y}
  BY <1>1
<1> QED
  BY <1>4, <1>5

\* Direct evaluates the same children.
LEMMA DirectIsEvaluated ==
    ASSUME IInv, FInv, NEW p \in Path, Exists(p), Unambiguous(p), containers[p].inline = Nothing,
           OrdersAgree(p), NEW q
    PROVE  Direct(p, q) = Evaluated(Kids(RowsInOrder(Tops(p))), q.filters, q)
<1>1. PICK t, K : t = Extract(p) /\ K = {Last(x) : x \in ChildPaths(t, Root)}
  OBVIOUS
<1>2. /\ K \subseteq Keys
      /\ \A k \in K : \E h \in Tops(p) : h.path = p \o <<k>>
      /\ \A h \in Tops(p) : \E k \in K : h.path = p \o <<k>>
  BY <1>1, KeysOfTops
<1>3. Ordered(K)
  BY <1>1, <1>2 DEF OrdersAgree, Ordered
<1>4. IsFiniteSet(K)
  BY <1>1, ChildKeysFinite
<1>5. PICK keys : keys = KeysInOrder(K)
  OBVIOUS
<1>6. PICK n \in Nat : n = Cardinality(K)
  BY <1>2, <1>4, KeysListed
<1>7. /\ keys \in [1..n -> K] /\ Len(keys) = n
      /\ \A k \in K : \E i \in 1..n : keys[i] = k
      /\ \A i, j \in 1..n : KeyBefore(keys[i], keys[j]) <=> i < j
  BY <1>2, <1>4, <1>5, <1>6, KeysListed
<1>8. PICK tops : tops = RowsInOrder(Tops(p))
  OBVIOUS
<1>9. Listed(tops) /\ Range(tops) = Tops(p) /\ Len(tops) \in Nat
  <2>1. Tops(p) \subseteq Exported(p)
    BY DEF Tops
  <2> QED
    BY <1>8, <2>1, LowerListed DEF Listed
\* The rows of the keys, in the order of the keys, are in that of rows.
<1>10. PICK M : M = [i \in 1..n |-> CHOOSE h \in Tops(p) : h.path = p \o <<keys[i]>>]
  OBVIOUS
<1>11. ASSUME NEW i \in 1..n PROVE M[i] \in Tops(p) /\ M[i].path = p \o <<keys[i]>> /\ keys[i] \in K
  <2>1. keys[i] \in K
    BY <1>7
  <2>2. \E h \in Tops(p) : h.path = p \o <<keys[i]>>
    BY <1>2, <2>1
  <2> QED
    BY <1>10, <2>1, <2>2
<1>12. DOMAIN M = 1..n /\ Len(M) = n
  BY <1>6, <1>10
<1>13. ASSUME NEW i \in 1..n, NEW j \in 1..n PROVE RowBefore(M[i], M[j]) <=> i < j
  <2>1. PICK k \in K, l \in K : k = keys[i] /\ l = keys[j]
    BY <1>11
  <2>2. PICK g \in Tops(p), h \in Tops(p) : g = M[i] /\ h = M[j]
    BY <1>11
  <2>3. g.path = p \o <<k>> /\ h.path = p \o <<l>>
    BY <1>11, <2>1, <2>2
  <2>4. KeyBefore(k, l) <=> i < j
    BY <1>7, <2>1
  <2>5. CASE k # l
    <3>1. RowBefore(g, h) <=> KeyBefore(k, l)
      BY <1>3, <2>3, <2>5, TopsInKeyOrder
    <3> QED
      BY <2>2, <2>4, <3>1
  <2>6. CASE k = l
    <3>1. KeyBefore(l, k) <=> j < i
      BY <1>7, <2>1
    <3>2. i = j
      BY <2>4, <2>6, <3>1
    <3>3. IsRow(g)
      BY TopFacts, ExportedChar
    <3>4. ~RowBefore(g, g)
      BY <3>3, RowsCompare
    <3> QED
      BY <2>2, <3>2, <3>4
  <2> QED
    BY <2>5, <2>6
<1>14. Listed(M)
  <2>1. \A i \in 1..n : IsRow(M[i])
    BY <1>11, TopFacts, ExportedChar
  <2> QED
    BY <1>6, <1>12, <1>13, <2>1 DEF Listed
<1>15. Range(M) = Tops(p)
  <2>1. ASSUME NEW h \in Tops(p) PROVE \E i \in 1..n : M[i] = h
    <3>1. PICK k \in K : h.path = p \o <<k>>
      BY <1>2
    <3>2. PICK i \in 1..n : keys[i] = k
      BY <1>7
    <3>3. M[i] \in Tops(p) /\ M[i].path = h.path
      BY <1>11, <3>1, <3>2
    <3>4. PICK g \in Tops(p) : g = M[i]
      BY <3>3
    <3>5. h \in Exported(p) /\ h.path # p /\ g \in Exported(p) /\ g.path # p
      BY TopFacts
    <3>6. g = h
      BY <3>3, <3>4, <3>5, OneRow
    <3> QED
      BY <3>4, <3>6
  <2> QED
    BY <1>11, <1>12, <2>1 DEF Range
<1>16. Len(tops) = n /\ \A i \in 1..n : M[i] = tops[i]
  BY <1>9, <1>12, <1>14, <1>15, ListedOnce
<1>17. ASSUME NEW i \in 1..n PROVE Child(t, keys[i]) = Whole(tops[i])
  <2>1. PICK h \in Tops(p), k \in Keys : h = M[i] /\ k = keys[i] /\ h.path = p \o <<k>>
    BY <1>2, <1>11
  <2>2. Child(Extract(p), k) = Whole(h)
    BY <2>1, ChildIsTop
  <2> QED
    BY <1>1, <1>16, <2>1, <2>2
<1>18. [i \in 1..Len(keys) |-> Child(t, keys[i])] = Kids(tops)
  BY <1>7, <1>16, <1>17 DEF Kids
<1>19. Direct(p, q) = Evaluated([i \in 1..Len(keys) |-> Child(t, keys[i])], q.filters, q)
  BY <1>1, <1>5 DEF Direct
<1> QED
  BY <1>8, <1>18, <1>19

\* A path that clients pass is no pattern.
LEMMA PathIsNoPattern ==
    ASSUME NEW p \in Path
    PROVE  WildcardPlaces(p) = {}
<1>1. \A i \in 1..Len(p) : p[i] \in Keys
  BY DEF Path
<1> QED
  BY <1>1, SegmentsAreNotKeys DEF WildcardPlaces

\* What the scan of "/p/*" gives row by row, with its early exit, is what is
\* cut from the document of "/p" (do_query_single_tail_stream, he_query_execute), every child
\* having its own row and no two keys being in another order among rows.
THEOREM ScanIsDirect == Spec => []StreamIsDirect
<1>1. ASSUME FInv PROVE StreamIsDirect
  <2> SUFFICES ASSUME NEW p \in DocPaths, NEW q \in Queries, p # Root, Readable(p),
                      containers[p].inline = Nothing, OrdersAgree(p), q.order = <<>>
               PROVE  Execute(Append(p, Star), q) = Execute(p, q)
    BY DEF StreamIsDirect
  <2>1. p \in Path /\ IInv /\ Unambiguous(p) /\ Exists(p)
    BY <1>1, EngineAssumption DEF FInv, Readable
  <2>2. IsWildcard(Star)
    BY DEF IsWildcard
  <2>3. /\ WildcardPlaces(Append(p, Star)) # {} /\ Front(Append(p, Star)) = p
        /\ IsSingleTail(Append(p, Star))
    BY <2>1, <2>2, LastIsWild
  <2>4. Execute(Append(p, Star), q) = Stream(p, q)
    BY <2>3 DEF Execute
  <2>5. Execute(p, q) = Direct(p, q)
    BY <2>1, PathIsNoPattern DEF Execute
  <2>6. Stream(p, q) = Evaluated(Kids(RowsInOrder(Tops(p))), q.filters, q)
    BY <1>1, <2>1, StreamIsEvaluated
  <2>7. Direct(p, q) = Evaluated(Kids(RowsInOrder(Tops(p))), q.filters, q)
    BY <1>1, <2>1, DirectIsEvaluated
  <2> QED
    BY <2>4, <2>5, <2>6, <2>7
<1> QED
  BY <1>1, TablesStayFinite, PTL

-----------------------------------------------------------------------------
(***************************************************************************)
(* Order: comparable children are sorted                                   *)
(***************************************************************************)

\* The number list a is greater than b at the first of l places where they differ.
Beyond(a, b, l) == \E i \in 1..l : a[i] > b[i] /\ \A j \in 1..i - 1 : a[j] = b[j]

\* That is a strict order.
LEMMA BeyondOrders ==
    ASSUME NEW l \in Nat, NEW a \in [1..l -> Int], NEW b \in [1..l -> Int], NEW c \in [1..l -> Int]
    PROVE  /\ ~Beyond(a, a, l)
           /\ (\A i \in 1..l : a[i] = b[i]) \/ Beyond(a, b, l) \/ Beyond(b, a, l)
           /\ Beyond(a, b, l) /\ Beyond(b, c, l) => Beyond(a, c, l)
<1>1. ~Beyond(a, a, l)
  BY DEF Beyond
<1>2. ASSUME ~\A i \in 1..l : a[i] = b[i] PROVE Beyond(a, b, l) \/ Beyond(b, a, l)
  <2>1. PICK B : B = {i \in 1..l : a[i] # b[i]}
    OBVIOUS
  <2>0. PICK m \in 1..l : a[m] # b[m]
    BY <1>2
  <2>2. B # {} /\ B \subseteq Nat
    <3>1. m \in B
      BY <2>0, <2>1
    <3>2. B \subseteq Nat
      BY <2>1
    <3> QED
      BY <3>1, <3>2
  <2>3. PICK i \in B : \A k \in B : i <= k
    BY <2>2, LeastNat
  <2>4. i \in 1..l /\ a[i] # b[i]
    BY <2>1
  <2>5. ASSUME NEW j \in 1..i - 1 PROVE a[j] = b[j]
    <3>1. j \in 1..l /\ ~(i <= j)
      BY <2>4
    <3> QED
      BY <2>1, <2>3, <3>1
  <2>6. a[i] > b[i] \/ b[i] > a[i]
    BY <2>4
  <2> QED
    BY <2>4, <2>5, <2>6 DEF Beyond
<1>3. ASSUME Beyond(a, b, l), Beyond(b, c, l) PROVE Beyond(a, c, l)
  <2>1. PICK i \in 1..l : a[i] > b[i] /\ \A j \in 1..i - 1 : a[j] = b[j]
    BY <1>3 DEF Beyond
  <2>2. PICK k \in 1..l : b[k] > c[k] /\ \A j \in 1..k - 1 : b[j] = c[j]
    BY <1>3 DEF Beyond
  <2>3. CASE i < k
    <3>1. a[i] > c[i]
      <4>1. i \in 1..k - 1
        BY <2>3
      <4> QED
        BY <2>1, <2>2, <4>1
    <3>2. \A j \in 1..i - 1 : a[j] = c[j]
      <4>1. \A j \in 1..i - 1 : j \in 1..k - 1
        BY <2>3
      <4> QED
        BY <2>1, <2>2, <4>1
    <3> QED
      BY <3>1, <3>2 DEF Beyond
  <2>4. CASE i = k
    <3>1. a[i] > c[i]
      <4>1. a[i] \in Int /\ b[i] \in Int /\ c[i] \in Int /\ a[i] > b[i] /\ b[i] > c[i]
        BY <2>1, <2>2, <2>4
      <4> QED
        BY <4>1
    <3>2. \A j \in 1..i - 1 : a[j] = c[j]
      BY <2>1, <2>2, <2>4
    <3> QED
      BY <3>1, <3>2 DEF Beyond
  <2>5. CASE i > k
    <3>1. a[k] > c[k]
      <4>1. k \in 1..i - 1
        BY <2>5
      <4> QED
        BY <2>1, <2>2, <4>1
    <3>2. \A j \in 1..k - 1 : a[j] = c[j]
      <4>1. \A j \in 1..k - 1 : j \in 1..i - 1
        BY <2>5
      <4> QED
        BY <2>1, <2>2, <4>1
    <3> QED
      BY <3>1, <3>2 DEF Beyond
  <2> QED
    BY <2>3, <2>4, <2>5
<1> QED
  BY <1>1, <1>2, <1>3

\* An element between two lists.
LEMMA PutBetween ==
    ASSUME NEW S, NEW x \in Seq(S), NEW e \in S, NEW y \in Seq(S)
    PROVE  LET t == (x \o <<e>>) \o y IN
           /\ Len(t) = Len(x) + 1 + Len(y)
           /\ \A j \in 1..Len(x) : t[j] = x[j]
           /\ t[Len(x) + 1] = e
           /\ \A j \in 1..Len(y) : t[Len(x) + 1 + j] = y[j]
<1>1. <<e>> \in Seq(S) /\ Len(<<e>>) = 1 /\ <<e>>[1] = e
  OBVIOUS
<1>2. PICK z : z = x \o <<e>>
  OBVIOUS
<1>3. PICK m \in Nat : m = Len(x)
  OBVIOUS
<1>4. z \in Seq(S) /\ Len(z) = m + 1 /\ (\A j \in 1..m : z[j] = x[j]) /\ z[m + 1] = e
  BY <1>1, <1>2, <1>3
<1>5. PICK t : t = z \o y
  OBVIOUS
<1>6. Len(t) = m + 1 + Len(y)
  BY <1>4, <1>5
<1>7. \A j \in 1..m + 1 : t[j] = z[j]
  BY <1>4, <1>5
<1>8. \A j \in 1..Len(y) : t[m + 1 + j] = y[j]
  BY <1>4, <1>5
<1>9. /\ \A j \in 1..m : t[j] = x[j]
      /\ t[m + 1] = e
  BY <1>4, <1>7
<1> QED
  BY <1>2, <1>3, <1>5, <1>6, <1>8, <1>9

-----------------------------------------------------------------------------
\* After is a strict order of the entries S.
AfterOrders(S, order) ==
    /\ \A e \in S : ~After(e, e, order)
    /\ \A e, f \in S : e = f \/ After(e, f, order) \/ After(f, e, order)
    /\ \A e, f, g \in S : After(e, f, order) /\ After(f, g, order) => After(e, g, order)

\* The list s is sorted.
Ascending(s, order) == \A i, j \in 1..Len(s) : i < j => After(s[j], s[i], order)

\* he_qsort puts an entry into its place of the sorted list.
LEMMA InsertAscends ==
    ASSUME NEW S, NEW order, AfterOrders(S, order), NEW s \in Seq(S), Ascending(s, order),
           NEW e \in S, \A i \in 1..Len(s) : s[i] # e
    PROVE  LET t == Inserted(s, e, order) IN
           /\ t \in Seq(S) /\ Ascending(t, order)
           /\ \A i \in 1..Len(t) : t[i] = e \/ \E j \in 1..Len(s) : t[i] = s[j]
<1>1. PICK n \in Nat : n = Len(s)
  OBVIOUS
<1> DEFINE Place(i) == /\ \A j \in i..n : After(s[j], e, order)
                       /\ i > 1 => ~After(s[i - 1], e, order)
           B == {i \in 1..n + 1 : \A j \in i..n : After(s[j], e, order)}
<1>2. PICK i \in B : \A j \in B : i <= j
  <2>1. B \subseteq Nat /\ n + 1 \in B
    OBVIOUS
  <2> HIDE DEF B
  <2> QED
    BY <2>1, LeastNat
<1>3. Place(i)
  <2>1. ASSUME i > 1 PROVE ~After(s[i - 1], e, order)
    <3>1. i - 1 \in 1..n + 1 /\ ~(i <= i - 1)
      BY <1>2, <2>1
    <3>2. i - 1 \notin B
      BY <1>2, <3>1
    <3>3. PICK j \in (i - 1)..n : ~After(s[j], e, order)
      BY <3>1, <3>2
    <3>4. j \notin i..n
      BY <1>2, <3>3
    <3>5. j = i - 1
      BY <1>2, <3>3, <3>4
    <3> QED
      BY <3>3, <3>5
  <2> QED
    BY <1>2, <2>1
<1>4. PICK place : place = CHOOSE k \in 1..n + 1 : Place(k)
  OBVIOUS
<1>5. place \in 1..n + 1 /\ Place(place)
  <2>1. i \in 1..n + 1
    BY <1>2
  <2> HIDE DEF Place
  <2> QED
    BY <1>3, <1>4, <2>1
<1>6. PICK t : t = Inserted(s, e, order)
  OBVIOUS
<1>7. t = SubSeq(s, 1, place - 1) \o <<e>> \o SubSeq(s, place, n)
  BY <1>1, <1>4, <1>6 DEF Inserted, InsertAt
<1>8. t \in Seq(S)
  BY <1>6, InsertedIsList
<1>9. PICK k \in Int : place = k
  BY <1>5
<1>10. /\ Len(t) = n + 1
       /\ \A j \in 1..k - 1 : t[j] = s[j]
       /\ t[k] = e
       /\ \A j \in k + 1..n + 1 : t[j] = s[j - 1]
  <2>1. PICK x, y : x = SubSeq(s, 1, k - 1) /\ y = SubSeq(s, k, n)
    OBVIOUS
  <2>2. x \in Seq(S) /\ Len(x) = k - 1 /\ \A j \in 1..k - 1 : x[j] = s[j]
    BY <1>1, <1>5, <1>9, <2>1
  <2>3. y \in Seq(S) /\ Len(y) = n - k + 1 /\ \A j \in 1..n - k + 1 : y[j] = s[k + j - 1]
    BY <1>1, <1>5, <1>9, <2>1
  <2>4. t = (x \o <<e>>) \o y
    BY <1>7, <1>9, <2>1
  <2>5. k \in 1..n + 1
    BY <1>5, <1>9
  <2>6. /\ Len(t) = Len(x) + 1 + Len(y)
        /\ \A j \in 1..Len(x) : t[j] = x[j]
        /\ t[Len(x) + 1] = e
        /\ \A j \in 1..Len(y) : t[Len(x) + 1 + j] = y[j]
    <3>1. x \in Seq(S) /\ y \in Seq(S)
      BY <2>2, <2>3
    <3> HIDE DEF Place, B
    <3> QED
      BY <2>4, <3>1, PutBetween
  <2>7. Len(t) = n + 1 /\ t[k] = e /\ \A j \in 1..k - 1 : t[j] = s[j]
    BY <2>2, <2>3, <2>5, <2>6
  <2>8. ASSUME NEW j \in k + 1..n + 1 PROVE t[j] = s[j - 1]
    <3>1. PICK i1 \in Int : i1 = j - k
      BY <2>5
    <3>2. i1 \in 1..n - k + 1 /\ j = k + i1 /\ k + i1 - 1 = j - 1
      BY <2>5, <3>1
    <3>3. Len(x) + 1 + i1 = k + i1
      BY <2>2, <2>5, <3>2
    <3>4. t[j] = y[i1]
      BY <2>3, <2>6, <3>2, <3>3
    <3> QED
      BY <2>3, <3>2, <3>4
  <2> QED
    BY <2>7, <2>8
<1>11. k \in 1..n + 1 /\ Place(k)
  BY <1>5, <1>9
<1>12. Ascending(t, order)
  <2> SUFFICES ASSUME NEW a \in 1..n + 1, NEW b \in 1..n + 1, a < b
               PROVE  After(t[b], t[a], order)
    BY <1>10 DEF Ascending
  <2>1. CASE b < k
    <3>1. a \in 1..n /\ b \in 1..n /\ t[a] = s[a] /\ t[b] = s[b]
      BY <1>10, <1>11, <2>1
    <3> QED
      BY <1>1, <3>1 DEF Ascending
  <2>2. CASE b = k
    <3>1. a \in 1..n /\ k - 1 \in 1..n /\ k > 1 /\ t[a] = s[a] /\ t[b] = e
      BY <1>10, <1>11, <2>2
    <3>2. ~After(s[k - 1], e, order) /\ s[k - 1] # e /\ s[k - 1] \in S /\ s[a] \in S
      BY <1>1, <1>11, <3>1
    <3>3. After(e, s[k - 1], order)
      BY <3>2 DEF AfterOrders
    <3>4. CASE a = k - 1
      BY <3>1, <3>3, <3>4
    <3>5. CASE a < k - 1
      <4>1. After(s[k - 1], s[a], order)
        BY <1>1, <3>1, <3>5 DEF Ascending
      <4>2. After(e, s[a], order)
        BY <3>2, <3>3, <4>1 DEF AfterOrders
      <4> QED
        BY <3>1, <4>2
    <3>6. a = k - 1 \/ a < k - 1
      BY <2>2
    <3> QED
      BY <3>4, <3>5, <3>6
  <2>3. CASE b > k
    <3>1. b - 1 \in 1..n /\ b - 1 \in k..n /\ t[b] = s[b - 1]
      BY <1>10, <1>11, <2>3
    <3>2. CASE a < k
      <4>1. a \in 1..n /\ a < b - 1 /\ t[a] = s[a]
        BY <1>10, <1>11, <2>3, <3>2
      <4> QED
        BY <1>1, <3>1, <4>1 DEF Ascending
    <3>3. CASE a = k
      BY <1>10, <1>11, <3>1, <3>3
    <3>4. CASE a > k
      <4>1. a - 1 \in 1..n /\ a - 1 < b - 1 /\ t[a] = s[a - 1]
        BY <1>10, <1>11, <3>4
      <4> QED
        BY <1>1, <3>1, <4>1 DEF Ascending
    <3>5. a < k \/ a = k \/ a > k
      BY <1>11
    <3> QED
      BY <3>2, <3>3, <3>4, <3>5
  <2> QED
    BY <1>11, <2>1, <2>2, <2>3
<1>13. ASSUME NEW a \in 1..Len(t) PROVE t[a] = e \/ \E j \in 1..n : t[a] = s[j]
  <2>1. a \in 1..k - 1 \/ a = k \/ a \in k + 1..n + 1
    BY <1>10, <1>11
  <2>2. CASE a \in 1..k - 1
    <3>1. a \in 1..n
      BY <1>11, <2>2
    <3> QED
      BY <1>10, <2>2, <3>1
  <2>3. CASE a = k
    BY <1>10, <2>3
  <2>4. CASE a \in k + 1..n + 1
    <3>1. a - 1 \in 1..n
      BY <1>11, <2>4
    <3> QED
      BY <1>10, <2>4, <3>1
  <2> QED
    BY <2>1, <2>2, <2>3, <2>4
<1> QED
  BY <1>1, <1>6, <1>8, <1>12, <1>13

\* What holds of 0 and passes from i - 1 to i holds up to n.
LEMMA CountsUp ==
    ASSUME NEW n \in Nat, NEW S, 0 \in S, \A i \in 1..n : i - 1 \in S => i \in S
    PROVE  \A i \in 0..n : i \in S
<1>1. PICK h : h = [i \in 0..n |-> i]
  OBVIOUS
<1>2. h[0] \in S /\ \A i \in 1..n : h[i - 1] \in S => h[i] \in S
  <2>1. h[0] = 0 /\ \A i \in 1..n : h[i - 1] = i - 1 /\ h[i] = i
    BY <1>1
  <2> QED
    BY <2>1
<1>3. \A i \in 0..n : h[i] \in S
  BY <1>2, RecursionStays
<1> QED
  BY <1>1, <1>3

\* The list s is sorted and made of the entries, which are in S.
SortedFrom(s, S, order, entries) ==
    /\ s \in Seq(S) /\ Ascending(s, order)
    /\ \A a \in 1..Len(s) : \E b \in 1..Len(entries) : s[a] = entries[b]

\* What he_qsort sorts is sorted and is made of the entries.
LEMMA SortedAscends ==
    ASSUME NEW S, NEW order, order # <<>>, AfterOrders(S, order), NEW entries \in Seq(S),
           \A a, b \in 1..Len(entries) : a < b => entries[a] # entries[b]
    PROVE  SortedFrom(Sorted(entries, order), S, order, entries)
<1>0. PICK n \in Nat : n = Len(entries)
  OBVIOUS
<1> DEFINE Good(f) == f = [i \in 0..n |-> IF i = 0 THEN <<>> ELSE Inserted(f[i - 1], entries[i], order)]
<1>1. PICK T, o : T = Seq(S) /\ o = <<>>
  OBVIOUS
<1>2. ASSUME NEW i \in 1..n, NEW s \in T PROVE Inserted(s, entries[i], order) \in T
  <2>1. entries[i] \in S
    BY <1>0
  <2> QED
    BY <1>1, <2>1, InsertedIsList
<1>3. PICK g : g = [i \in 1..n |-> [s \in T |-> Inserted(s, entries[i], order)]]
  OBVIOUS
<1>4. g \in [1..n -> [T -> T]]
  BY <1>2, <1>3
<1>5. o \in T
  BY <1>1
<1>6. PICK f : IsRun(f, n, T, o, g)
  <2> HIDE DEF Good
  <2> QED
    BY <1>4, <1>5, RecursionExists
<1>7. Good(f)
  <2>1. f \in [0..n -> T] /\ f[0] = <<>> /\ \A i \in 1..n : f[i] = g[i][f[i - 1]]
    BY <1>1, <1>6 DEF IsRun
  <2>2. ASSUME NEW i \in 1..n PROVE f[i] = Inserted(f[i - 1], entries[i], order)
    <3>1. i - 1 \in 0..n
      OBVIOUS
    <3> QED
      BY <1>3, <2>1, <3>1
  <2>3. \A i \in 0..n : i = 0 \/ i \in 1..n
    OBVIOUS
  <2> QED
    BY <2>1, <2>2, <2>3
<1>8. PICK h : h = CHOOSE f1 : Good(f1)
  OBVIOUS
<1>9. Sorted(entries, order) = h[n]
  BY <1>0, <1>8 DEF Sorted
<1>10. h[0] = <<>> /\ \A i \in 1..n : h[i] = Inserted(h[i - 1], entries[i], order)
  <2>1. Good(h)
    <3> HIDE DEF Good
    <3> QED
      BY <1>7, <1>8
  <2>2. h[0] = <<>>
    BY <2>1
  <2>3. ASSUME NEW i \in 1..n PROVE h[i] = Inserted(h[i - 1], entries[i], order)
    <3>1. i \in 0..n /\ i # 0
      OBVIOUS
    <3> QED
      BY <2>1, <3>1
  <2> QED
    BY <2>2, <2>3
<1> HIDE DEF Good
<1> DEFINE Done(i) == /\ h[i] \in Seq(S) /\ Ascending(h[i], order)
                      /\ \A a \in 1..Len(h[i]) : \E b \in 1..i : h[i][a] = entries[b]
           D == {i \in 0..n : Done(i)}
<1>11. Done(0)
  <2>1. h[0] \in Seq(S) /\ Len(h[0]) = 0
    BY <1>10
  <2> QED
    BY <2>1 DEF Ascending
<1>12. ASSUME NEW i \in 1..n, Done(i - 1) PROVE Done(i)
  <2>1. PICK s \in Seq(S) : s = h[i - 1]
    BY <1>12
  <2>2. PICK e \in S : e = entries[i]
    BY <1>0
  <2>3. Ascending(s, order) /\ \A a \in 1..Len(s) : \E b \in 1..i - 1 : s[a] = entries[b]
    BY <1>12, <2>1
  <2>4. \A a \in 1..Len(s) : s[a] # e
    <3> SUFFICES ASSUME NEW a \in 1..Len(s) PROVE s[a] # e
      OBVIOUS
    <3>1. PICK b \in 1..i - 1 : s[a] = entries[b]
      BY <2>3
    <3>2. b \in 1..n /\ i \in 1..n /\ b < i
      OBVIOUS
    <3>3. entries[b] # entries[i]
      BY <1>0, <3>2
    <3> QED
      BY <2>2, <3>1, <3>3
  <2>5. PICK t : t = Inserted(s, e, order)
    OBVIOUS
  <2>6. /\ t \in Seq(S) /\ Ascending(t, order)
        /\ \A a \in 1..Len(t) : t[a] = e \/ \E j \in 1..Len(s) : t[a] = s[j]
    <3> HIDE DEF Done, D
    <3> QED
      BY <2>3, <2>4, <2>5, InsertAscends
  <2>7. h[i] = t
    BY <1>10, <2>1, <2>2, <2>5
  <2>8. ASSUME NEW a \in 1..Len(t) PROVE \E b \in 1..i : t[a] = entries[b]
    <3>1. CASE t[a] = e
      <4>1. i \in 1..i
        OBVIOUS
      <4> QED
        BY <2>2, <3>1, <4>1
    <3>2. CASE \E j \in 1..Len(s) : t[a] = s[j]
      <4>1. PICK j \in 1..Len(s) : t[a] = s[j]
        BY <3>2
      <4>2. PICK b \in 1..i - 1 : s[j] = entries[b]
        BY <2>3
      <4>3. b \in 1..i
        OBVIOUS
      <4> QED
        BY <4>1, <4>2, <4>3
    <3> QED
      BY <2>6, <3>1, <3>2
  <2> QED
    BY <2>6, <2>7, <2>8
<1>13. 0 \in D
  <2>1. 0 \in 0..n
    OBVIOUS
  <2> HIDE DEF Done
  <2> QED
    BY <1>11, <2>1
<1>14. \A i \in 1..n : i - 1 \in D => i \in D
  <2>1. \A i \in 1..n : i \in 0..n
    OBVIOUS
  <2> HIDE DEF Done
  <2> QED
    BY <1>12, <2>1
<1>15. \A i \in 0..n : i \in D
  <2> HIDE DEF D
  <2> QED
    BY <1>13, <1>14, CountsUp
<1>16. Done(n)
  <2>1. n \in 0..n
    OBVIOUS
  <2> HIDE DEF Done
  <2> QED
    BY <1>15, <2>1
<1> QED
  BY <1>0, <1>9, <1>16 DEF SortedFrom

\* The children that pass stand in the order of their places.
LEMMA PassingInOrder ==
    ASSUME NEW children, Len(children) \in Nat, NEW filters
    PROVE  LET s == Passing(children, filters) IN
           /\ s \in Seq(EntriesOf(children, Len(children)))
           /\ \A a, b \in 1..Len(s) : a < b => s[a].index < s[b].index
<1>0. PICK n \in Nat : n = Len(children)
  OBVIOUS
<1>1. PICK g : IsPassing(g, children, filters, n) /\ Passing(children, filters) = g[n]
  BY <1>0, PassingIs
<1>2. PICK E : E = EntriesOf(children, n)
  OBVIOUS
<1>3. /\ g[0] = <<>>
      /\ \A i \in 1..n : g[i] = IF ~Passes(children[i], filters) THEN g[i - 1]
                                ELSE Append(g[i - 1], [val |-> children[i], index |-> i])
      /\ \A i \in 0..n : g[i] \in Seq(E)
  BY <1>1, <1>2 DEF IsPassing
<1>4. \A e \in E : e.index \in 1..n
  BY <1>2 DEF EntriesOf
<1> DEFINE Done(i) == /\ \A a \in 1..Len(g[i]) : g[i][a].index <= i
                      /\ \A a, b \in 1..Len(g[i]) : a < b => g[i][a].index < g[i][b].index
           D == {i \in 0..n : Done(i)}
<1>5. Done(0)
  <2>1. Len(g[0]) = 0
    BY <1>3
  <2> QED
    BY <2>1
<1>6. ASSUME NEW i \in 1..n, Done(i - 1) PROVE Done(i)
  <2>1. i - 1 \in 0..n
    OBVIOUS
  <2>2. PICK s \in Seq(E) : s = g[i - 1]
    BY <1>3, <2>1
  <2>3. PICK m \in Nat : m = Len(s)
    OBVIOUS
  <2>4. /\ \A a \in 1..m : s[a] \in E /\ s[a].index \in Nat /\ s[a].index <= i - 1
        /\ \A a, b \in 1..m : a < b => s[a].index < s[b].index
    BY <1>4, <1>6, <2>2, <2>3
  <2>5. CASE ~Passes(children[i], filters)
    <3>1. g[i] = s
      BY <1>3, <2>2, <2>5
    <3> QED
      BY <2>3, <2>4, <3>1
  <2>6. CASE Passes(children[i], filters)
    <3>1. PICK e : e = [val |-> children[i], index |-> i]
      OBVIOUS
    <3>2. PICK t : t = Append(s, e)
      OBVIOUS
    <3>3. e.index = i /\ Len(t) = m + 1 /\ t[m + 1] = e /\ \A a \in 1..m : t[a] = s[a]
      BY <2>3, <3>1, <3>2
    <3>4. g[i] = t
      BY <1>3, <2>2, <2>6, <3>1, <3>2
    <3>5. ASSUME NEW a \in 1..m + 1 PROVE t[a].index <= i
      BY <2>4, <3>3
    <3>6. ASSUME NEW a \in 1..m + 1, NEW b \in 1..m + 1, a < b PROVE t[a].index < t[b].index
      <4>1. a \in 1..m
        BY <3>6
      <4>2. CASE b = m + 1
        <5>1. t[a].index = s[a].index /\ t[b].index = i
          BY <3>3, <4>1, <4>2
        <5> QED
          BY <2>4, <4>1, <5>1
      <4>3. CASE b \in 1..m
        BY <2>4, <3>3, <3>6, <4>1, <4>3
      <4> QED
        BY <4>2, <4>3
    <3> QED
      BY <3>3, <3>4, <3>5, <3>6
  <2> QED
    BY <2>5, <2>6
<1>7. 0 \in D
  <2>1. 0 \in 0..n
    OBVIOUS
  <2> HIDE DEF Done
  <2> QED
    BY <1>5, <2>1
<1>8. \A i \in 1..n : i - 1 \in D => i \in D
  <2>1. \A i \in 1..n : i \in 0..n
    OBVIOUS
  <2> HIDE DEF Done
  <2> QED
    BY <1>6, <2>1
<1>9. \A i \in 0..n : i \in D
  <2> HIDE DEF D
  <2> QED
    BY <1>7, <1>8, CountsUp
<1>10. Done(n)
  <2>1. n \in 0..n
    OBVIOUS
  <2> HIDE DEF Done
  <2> QED
    BY <1>9, <2>1
<1>11. g[n] \in Seq(E)
  <2>1. n \in 0..n
    OBVIOUS
  <2> QED
    BY <1>3, <2>1
<1> QED
  BY <1>0, <1>1, <1>2, <1>10, <1>11

\* What a number or a string counts as, and turned round if the order descends.
RankOf(v) == IF v \in Numbers THEN Num[v] ELSE StrOrder[v]
Signed(t, o) == IF o.ascending THEN RankOf(t[o.key]) ELSE -RankOf(t[o.key])

\* All the documents of T have the key of o, with numbers or all with strings there.
Ranked(T, o) ==
    /\ \A t \in T, m \in 0..Len(o.key) : SubSeq(o.key, 1, m) \in DOMAIN t
    /\ \/ \A t \in T : t[o.key] \in Numbers
       \/ \A t \in T : t[o.key] \in DOMAIN StrOrder

\* Then compare_entries follows the key to its end and compares the ranks.
LEMMA CompareIsRank ==
    ASSUME NEW T, NEW o \in [key : Path, ascending : BOOLEAN], Ranked(T, o),
           NEW e, NEW f, e.val \in T, f.val \in T
    PROVE  /\ Signed(e.val, o) \in Int /\ Signed(f.val, o) \in Int
           /\ CompareBy(e, f, o) = Signed(e.val, o) - Signed(f.val, o)
<1>1. PICK t \in T, u \in T : t = e.val /\ u = f.val
  OBVIOUS
<1>2. PICK key \in Path : key = o.key
  OBVIOUS
<1>3. PICK n \in Nat : n = Len(key)
  BY DEF Path
<1>4. \A m \in 0..n : SubSeq(key, 1, m) \in DOMAIN t /\ SubSeq(key, 1, m) \in DOMAIN u
  BY <1>2, <1>3 DEF Ranked
<1>5. SubSeq(key, 1, n) = key
  BY <1>3 DEF Path
<1>6. key \in DOMAIN t /\ key \in DOMAIN u
  <2>1. n \in 0..n
    OBVIOUS
  <2> QED
    BY <1>4, <1>5, <2>1
<1>7. Reach(t, u, key) = n
  <2> DEFINE Stops(i) == /\ i = n \/ \E s \in {t, u} : SubSeq(key, 1, i) \notin DOMAIN s
                         /\ \A m \in 0..i-1 : \A s \in {t, u} : SubSeq(key, 1, m) \in DOMAIN s
  <2>1. n \in 0..n /\ Stops(n)
    <3>1. \A m \in 0..n - 1 : m \in 0..n
      OBVIOUS
    <3> QED
      BY <1>4, <3>1
  <2>2. \A i \in 0..n : Stops(i) => i = n
    BY <1>4
  <2>3. Reach(t, u, key) = CHOOSE i \in 0..n : Stops(i)
    BY <1>3 DEF Reach
  <2> HIDE DEF Stops
  <2> QED
    BY <2>1, <2>2, <2>3
<1>8. PICK v, w : v = t[key] /\ w = u[key]
  OBVIOUS
<1>9. CompareBy(e, f, o) = IF o.ascending THEN CompareValues(v, w) ELSE -CompareValues(v, w)
  <2>1. ValueIn(t, key) = v /\ ValueIn(u, key) = w
    BY <1>6, <1>8 DEF ValueIn
  <2>2. SubSeq(o.key, 1, Reach(e.val, f.val, o.key)) = key
    BY <1>1, <1>2, <1>5, <1>7
  <2> QED
    BY <1>1, <2>1, <2>2 DEF CompareBy
<1>10. PICK x, y : x = RankOf(v) /\ y = RankOf(w)
  OBVIOUS
<1>11. x \in Int /\ y \in Int /\ CompareValues(v, w) = x - y
  <2>1. CASE \A s \in T : s[o.key] \in Numbers
    <3>1. v \in Numbers /\ w \in Numbers
      BY <1>2, <1>8, <2>1
    <3>2. x = Num[v] /\ y = Num[w]
      BY <1>10, <3>1 DEF RankOf
    <3>3. Num[v] \in Int /\ Num[w] \in Int
      BY <3>1, QueryAssumption
    <3>4. CompareValues(v, w) = Num[v] - Num[w]
      <4>1. v \notin DOMAIN StrOrder
        BY <3>1, QueryAssumption
      <4> QED
        BY <3>1, <4>1 DEF CompareValues
    <3> QED
      BY <3>2, <3>3, <3>4
  <2>2. CASE \A s \in T : s[o.key] \in DOMAIN StrOrder
    <3>1. v \in DOMAIN StrOrder /\ w \in DOMAIN StrOrder
      BY <1>2, <1>8, <2>2
    <3>5. v \notin Numbers /\ w \notin Numbers
      BY <3>1, QueryAssumption
    <3>2. x = StrOrder[v] /\ y = StrOrder[w]
      BY <1>10, <3>5 DEF RankOf
    <3>3. StrOrder[v] \in Int /\ StrOrder[w] \in Int
      BY <3>1, QueryAssumption
    <3>4. CompareValues(v, w) = StrOrder[v] - StrOrder[w]
      BY <3>1, <3>5 DEF CompareValues
    <3> QED
      BY <3>2, <3>3, <3>4
  <2> QED
    BY <2>1, <2>2 DEF Ranked
<1>12. /\ Signed(e.val, o) = IF o.ascending THEN x ELSE -x
       /\ Signed(f.val, o) = IF o.ascending THEN y ELSE -y
  BY <1>1, <1>2, <1>8, <1>10 DEF Signed
<1>13. CASE o.ascending
  <2>1. CompareBy(e, f, o) = x - y /\ Signed(e.val, o) = x /\ Signed(f.val, o) = y
    BY <1>9, <1>11, <1>12, <1>13
  <2> QED
    BY <1>11, <2>1
<1>14. CASE ~o.ascending
  <2>1. CompareBy(e, f, o) = -(x - y) /\ Signed(e.val, o) = -x /\ Signed(f.val, o) = -y
    BY <1>9, <1>11, <1>12, <1>14
  <2>2. -(x - y) = (-x) - (-y) /\ -x \in Int /\ -y \in Int
    BY <1>11
  <2> QED
    BY <2>1, <2>2
<1> QED
  BY <1>13, <1>14

\* The ranks of the entry e by the m keys of the order, and its place after them.
RanksOf(e, order, m) == [i \in 1..m + 1 |-> IF i = m + 1 THEN e.index ELSE Signed(e.val, order[i])]

\* An entry comes after another if its ranks do.
LEMMA AfterIsBeyond ==
    ASSUME NEW T, NEW order \in Seq([key : Path, ascending : BOOLEAN]),
           \A i \in 1..Len(order) : Ranked(T, order[i]),
           NEW e, NEW f, e.val \in T, f.val \in T, e.index \in Nat, f.index \in Nat
    PROVE  LET m == Len(order) IN
           /\ RanksOf(e, order, m) \in [1..m + 1 -> Int]
           /\ RanksOf(f, order, m) \in [1..m + 1 -> Int]
           /\ After(e, f, order) <=> Beyond(RanksOf(e, order, m), RanksOf(f, order, m), m + 1)
<1>1. PICK m \in Nat : m = Len(order)
  OBVIOUS
<1>2. PICK l \in Nat : l = m + 1
  OBVIOUS
<1>3. PICK a, b : a = RanksOf(e, order, m) /\ b = RanksOf(f, order, m)
  OBVIOUS
<1>4. ASSUME NEW i \in 1..m
      PROVE  /\ Signed(e.val, order[i]) \in Int /\ Signed(f.val, order[i]) \in Int
             /\ CompareBy(e, f, order[i]) = Signed(e.val, order[i]) - Signed(f.val, order[i])
  <2>1. PICK o \in [key : Path, ascending : BOOLEAN] : o = order[i]
    <3>1. PICK R : R = [key : Path, ascending : BOOLEAN]
      OBVIOUS
    <3>2. order \in Seq(R)
      BY <3>1
    <3>3. order[i] \in R
      BY <1>1, <3>2
    <3> QED
      BY <3>1, <3>3
  <2>2. Ranked(T, o)
    BY <1>1, <2>1
  <2> QED
    BY <2>1, <2>2, CompareIsRank
<1>5. /\ \A i \in 1..m : a[i] = Signed(e.val, order[i]) /\ b[i] = Signed(f.val, order[i])
      /\ a[l] = e.index /\ b[l] = f.index
  BY <1>2, <1>3 DEF RanksOf
<1>6. a \in [1..l -> Int] /\ b \in [1..l -> Int]
  <2>1. \A i \in 1..l : i = l \/ i \in 1..m
    BY <1>2
  <2>2. ASSUME NEW i \in 1..l PROVE a[i] \in Int /\ b[i] \in Int
    <3>1. CASE i = l
      BY <1>5, <3>1
    <3>2. CASE i \in 1..m
      <4>1. a[i] = Signed(e.val, order[i]) /\ b[i] = Signed(f.val, order[i])
        BY <1>5, <3>2
      <4>2. Signed(e.val, order[i]) \in Int /\ Signed(f.val, order[i]) \in Int
        BY <1>4, <3>2
      <4> QED
        BY <4>1, <4>2
    <3> QED
      BY <2>1, <3>1, <3>2
  <2>3. a = [i \in 1..l |-> a[i]] /\ b = [i \in 1..l |-> b[i]]
    BY <1>2, <1>3 DEF RanksOf
  <2> QED
    BY <2>2, <2>3
<1>7. \A i \in 1..m : a[i] \in Int /\ b[i] \in Int /\ CompareBy(e, f, order[i]) = a[i] - b[i]
  BY <1>4, <1>5
<1>8. \A i \in 1..m : /\ CompareBy(e, f, order[i]) > 0 <=> a[i] > b[i]
                      /\ CompareBy(e, f, order[i]) = 0 <=> a[i] = b[i]
  <2> SUFFICES ASSUME NEW i \in 1..m
               PROVE  /\ CompareBy(e, f, order[i]) > 0 <=> a[i] > b[i]
                      /\ CompareBy(e, f, order[i]) = 0 <=> a[i] = b[i]
    OBVIOUS
  <2>1. PICK x \in Int, y \in Int : x = a[i] /\ y = b[i] /\ CompareBy(e, f, order[i]) = x - y
    BY <1>7
  <2>2. (x - y > 0 <=> x > y) /\ (x - y = 0 <=> x = y)
    OBVIOUS
  <2> QED
    BY <2>1, <2>2
<1>9. ASSUME After(e, f, order) PROVE Beyond(a, b, l)
  <2>1. CASE \E i \in 1..m : /\ CompareBy(e, f, order[i]) > 0
                             /\ \A j \in 1..i-1 : CompareBy(e, f, order[j]) = 0
    <3>1. PICK i \in 1..m : /\ CompareBy(e, f, order[i]) > 0
                            /\ \A j \in 1..i-1 : CompareBy(e, f, order[j]) = 0
      BY <2>1
    <3>2. i \in 1..l /\ \A j \in 1..i - 1 : j \in 1..m
      BY <1>2
    <3> QED
      BY <1>8, <3>1, <3>2 DEF Beyond
  <2>2. CASE (\A i \in 1..m : CompareBy(e, f, order[i]) = 0) /\ e.index > f.index
    <3>1. a[l] > b[l] /\ l \in 1..l
      BY <1>2, <1>5, <2>2
    <3>2. \A j \in 1..l - 1 : a[j] = b[j]
      BY <1>2, <1>8, <2>2
    <3> QED
      BY <3>1, <3>2 DEF Beyond
  <2> QED
    BY <1>1, <1>9, <2>1, <2>2 DEF After
<1>10. ASSUME Beyond(a, b, l) PROVE After(e, f, order)
  <2>1. PICK i \in 1..l : a[i] > b[i] /\ \A j \in 1..i - 1 : a[j] = b[j]
    BY <1>10 DEF Beyond
  <2>2. CASE i = l
    <3>1. e.index > f.index
      BY <1>5, <2>1, <2>2
    <3>2. \A j \in 1..m : CompareBy(e, f, order[j]) = 0
      BY <1>2, <1>8, <2>1, <2>2
    <3> QED
      BY <1>1, <3>1, <3>2 DEF After
  <2>3. CASE i # l
    <3>1. i \in 1..m
      BY <1>2, <2>3
    <3>2. CompareBy(e, f, order[i]) > 0
      BY <1>8, <2>1, <3>1
    <3>3. \A j \in 1..i - 1 : CompareBy(e, f, order[j]) = 0
      BY <1>8, <2>1, <3>1
    <3> QED
      BY <1>1, <3>1, <3>2, <3>3 DEF After
  <2> QED
    BY <2>2, <2>3
<1> QED
  BY <1>1, <1>2, <1>3, <1>6, <1>9, <1>10

\* So he_qsort compares by a strict order, entries having places of their own.
LEMMA RanksOrder ==
    ASSUME NEW T, NEW order \in Seq([key : Path, ascending : BOOLEAN]),
           \A i \in 1..Len(order) : Ranked(T, order[i]),
           NEW S, \A e \in S : e.val \in T /\ e.index \in Nat,
           \A e, f \in S : e.index = f.index => e = f
    PROVE  AfterOrders(S, order)
<1>1. PICK m \in Nat : m = Len(order)
  OBVIOUS
<1>2. PICK l \in Nat : l = m + 1
  OBVIOUS
<1>3. PICK r : r = [e \in S |-> RanksOf(e, order, m)]
  OBVIOUS
<1>4. ASSUME NEW e \in S, NEW f \in S
      PROVE  /\ r[e] \in [1..l -> Int] /\ r[f] \in [1..l -> Int]
             /\ After(e, f, order) <=> Beyond(r[e], r[f], l)
  <2>1. e.val \in T /\ f.val \in T /\ e.index \in Nat /\ f.index \in Nat
    OBVIOUS
  <2> QED
    BY <1>1, <1>2, <1>3, <2>1, AfterIsBeyond
<1>5. \A e \in S : ~After(e, e, order)
  BY <1>4, BeyondOrders
<1>6. ASSUME NEW e \in S, NEW f \in S, e # f PROVE After(e, f, order) \/ After(f, e, order)
  <2>1. (\A i \in 1..l : r[e][i] = r[f][i]) \/ Beyond(r[e], r[f], l) \/ Beyond(r[f], r[e], l)
    BY <1>4, BeyondOrders
  <2>2. r[e][l] = e.index /\ r[f][l] = f.index /\ l \in 1..l
    BY <1>2, <1>3 DEF RanksOf
  <2>3. ~\A i \in 1..l : r[e][i] = r[f][i]
    BY <1>6, <2>2
  <2> QED
    BY <1>4, <2>1, <2>3
<1>7. ASSUME NEW e \in S, NEW f \in S, NEW g \in S, After(e, f, order), After(f, g, order)
      PROVE  After(e, g, order)
  <2>1. Beyond(r[e], r[f], l) /\ Beyond(r[f], r[g], l)
    BY <1>4, <1>7
  <2>2. Beyond(r[e], r[g], l)
    BY <1>4, <2>1, BeyondOrders
  <2> QED
    BY <1>4, <2>2
<1> QED
  BY <1>5, <1>6, <1>7 DEF AfterOrders

\* The least of a set of numbers.
LEMMA LeastIsMin ==
    ASSUME NEW B, B \subseteq Int, NEW n \in B, \A i \in B : n <= i
    PROVE  Min(B) = n
<1>1. \A x \in B : (\A y \in B : x <= y) => x = n
  OBVIOUS
<1> QED
  BY <1>1 DEF Min

\* The entries of children, each with a place of its own.
LEMMA EntriesOrder ==
    ASSUME NEW children, NEW n \in Nat, NEW T, \A i \in 1..n : children[i] \in T,
           NEW order \in Seq([key : Path, ascending : BOOLEAN]),
           \A i \in 1..Len(order) : Ranked(T, order[i])
    PROVE  /\ AfterOrders(EntriesOf(children, n), order)
           /\ \A e \in EntriesOf(children, n) : e.val \in T /\ e.index \in Nat
<1>1. PICK E : E = EntriesOf(children, n)
  OBVIOUS
<1>2. \A e \in E : e.index \in 1..n /\ e = [val |-> children[e.index], index |-> e.index]
  BY <1>1 DEF EntriesOf
<1>3. \A e \in E : e.val \in T /\ e.index \in Nat
  BY <1>2
<1>4. \A e, f \in E : e.index = f.index => e = f
  BY <1>2
<1>5. AfterOrders(E, order)
  BY <1>3, <1>4, RanksOrder
<1> QED
  BY <1>1, <1>3, <1>5

\* What comparable children have at the key counts as a number.
LEMMA RanksAreNumbers ==
    ASSUME NEW T, NEW o, Ranked(T, o), NEW t \in T
    PROVE  RankOf(t[o.key]) \in Int
<1>1. CASE t[o.key] \in Numbers
  BY <1>1, QueryAssumption DEF RankOf
<1>2. CASE t[o.key] \in DOMAIN StrOrder
  <2>1. t[o.key] \notin Numbers
    BY <1>2, QueryAssumption
  <2> QED
    BY <1>2, <2>1, QueryAssumption DEF RankOf
<1> QED
  BY <1>1, <1>2 DEF Ranked

\* The parts of SortedBy: the rank of a result by a key of the order, the keys that
\* tell two results apart, and that the second comes after the first by such a key.
RankAt(result, order, i, k) == RankOf(result[i][order[k].key])
KeysApart(result, order, m, i, j) ==
    {k \in 1..m : RankAt(result, order, i, k) # RankAt(result, order, j, k)}
Rises(result, order, i, j, k) ==
    IF order[k].ascending THEN RankAt(result, order, i, k) < RankAt(result, order, j, k)
    ELSE RankAt(result, order, i, k) > RankAt(result, order, j, k)
PairSorted(result, plain, order, m, y, i, j) ==
    IF KeysApart(result, order, m, i, j) # {}
    THEN Rises(result, order, i, j, Min(KeysApart(result, order, m, i, j)))
    ELSE \E k, l \in 1..y : k < l /\ plain[k] = result[i] /\ plain[l] = result[j]

\* A result is sorted if every two of it are.
LEMMA SortedByPairs ==
    ASSUME NEW result, NEW plain, NEW order,
           \A i, j \in 1..Len(result) :
              i < j => PairSorted(result, plain, order, Len(order), Len(plain), i, j)
    PROVE  SortedBy(result, plain, order)
BY DEF SortedBy, PairSorted, KeysApart, Rises, RankAt, RankOf

\* Sorted children are sorted, those with equal keys in the order of their places.
LEMMA EvaluatedIsSorted ==
    ASSUME NEW children, Len(children) \in Nat, NEW filters, NEW q, NEW r,
           q.skip = 0, q.take = 0, r.skip = 0, r.take = 0, r.order = <<>>,
           q.order \in Seq([key : Path, ascending : BOOLEAN]),
           NEW T, \A i \in 1..Len(children) : children[i] \in T,
           \A i \in 1..Len(q.order) : Ranked(T, q.order[i])
    PROVE  SortedBy(Evaluated(children, filters, q), Evaluated(children, filters, r), q.order)
<1>0. PICK n \in Nat : n = Len(children)
  OBVIOUS
<1>1. PICK order \in Seq([key : Path, ascending : BOOLEAN]) : order = q.order
  OBVIOUS
<1>2. PICK m \in Nat : m = Len(order)
  OBVIOUS
<1>3. PICK E : E = EntriesOf(children, n)
  OBVIOUS
<1>4. AfterOrders(E, order) /\ \A e \in E : e.val \in T /\ e.index \in Nat
  BY <1>0, <1>1, <1>3, EntriesOrder
<1>5. PICK entries \in Seq(E) :
          /\ entries = Passing(children, filters)
          /\ \A a, b \in 1..Len(entries) : a < b => entries[a].index < entries[b].index
  BY <1>0, <1>3, PassingInOrder
<1>6. \A a, b \in 1..Len(entries) : a < b => entries[a] # entries[b]
  <2> SUFFICES ASSUME NEW a \in 1..Len(entries), NEW b \in 1..Len(entries), a < b
               PROVE  entries[a] # entries[b]
    OBVIOUS
  <2>1. entries[a].index < entries[b].index /\ entries[a].index \in Nat
    BY <1>4, <1>5
  <2> QED
    BY <2>1
<1>7. PICK s : s = Sorted(entries, order)
  OBVIOUS
<1>8. /\ s \in Seq(E) /\ Ascending(s, order)
      /\ \A a \in 1..Len(s) : \E b \in 1..Len(entries) : s[a] = entries[b]
  <2>1. CASE order = <<>>
    <3>1. s = entries
      BY <1>7, <2>1 DEF Sorted
    <3>2. ASSUME NEW a \in 1..Len(entries), NEW b \in 1..Len(entries), a < b
          PROVE  After(entries[b], entries[a], order)
      <4>1. entries[b].index > entries[a].index
        BY <1>4, <1>5, <3>2
      <4>2. 1..Len(order) = {}
        BY <2>1
      <4> QED
        BY <4>1, <4>2 DEF After
    <3>3. Ascending(s, order)
      BY <3>1, <3>2 DEF Ascending
    <3> QED
      BY <3>1, <3>3
  <2>2. CASE order # <<>>
    <3>1. SortedFrom(Sorted(entries, order), E, order, entries)
      BY <1>4, <1>6, <2>2, SortedAscends
    <3> QED
      BY <1>7, <3>1 DEF SortedFrom
  <2> QED
    BY <2>1, <2>2
<1>9. PICK result, plain : /\ result = [i \in 1..Len(s) |-> s[i].val]
                           /\ plain = [i \in 1..Len(entries) |-> entries[i].val]
  OBVIOUS
<1>10. Evaluated(children, filters, q) = result
  <2>1. Page(s, q) = SubSeq(s, 1, Len(s))
    BY <1>8 DEF Page
  <2>2. SubSeq(s, 1, Len(s)) = s
    BY <1>8
  <2> QED
    BY <1>1, <1>5, <1>7, <1>9, <2>1, <2>2 DEF Evaluated
<1>11. Evaluated(children, filters, r) = plain
  <2>1. Page(entries, r) = SubSeq(entries, 1, Len(entries))
    BY DEF Page
  <2>2. SubSeq(entries, 1, Len(entries)) = entries
    OBVIOUS
  <2>3. Sorted(entries, r.order) = entries
    BY DEF Sorted
  <2> QED
    BY <1>5, <1>9, <2>1, <2>2, <2>3 DEF Evaluated
<1>12. PICK x, y \in Nat : x = Len(result) /\ y = Len(plain)
  BY <1>5, <1>8, <1>9
<1>13. x = Len(s) /\ y = Len(entries)
  BY <1>8, <1>9, <1>12
<1>14. ASSUME NEW i \in 1..x, NEW j \in 1..x, i < j
       PROVE  PairSorted(result, plain, order, m, y, i, j)
  <2>1. PICK e \in E, f \in E : e = s[i] /\ f = s[j]
    BY <1>8, <1>13
  <2>2. After(f, e, order)
    BY <1>8, <1>13, <1>14, <2>1 DEF Ascending
  <2>3. result[i] = e.val /\ result[j] = f.val
    BY <1>9, <1>13, <2>1
  <2>4. ASSUME NEW k \in 1..m
        PROVE  /\ RankAt(result, order, i, k) \in Int /\ RankAt(result, order, j, k) \in Int
               /\ CompareBy(f, e, order[k]) =
                      IF order[k].ascending THEN RankAt(result, order, j, k) - RankAt(result, order, i, k)
                      ELSE RankAt(result, order, i, k) - RankAt(result, order, j, k)
    <3>1. PICK o \in [key : Path, ascending : BOOLEAN] : o = order[k]
      <4>1. PICK R : R = [key : Path, ascending : BOOLEAN]
        OBVIOUS
      <4>2. order \in Seq(R)
        BY <4>1
      <4>3. order[k] \in R
        BY <1>2, <4>2
      <4> QED
        BY <4>1, <4>3
    <3>2. Ranked(T, o) /\ e.val \in T /\ f.val \in T
      BY <1>1, <1>2, <1>4, <3>1
    <3>3. /\ Signed(e.val, o) \in Int /\ Signed(f.val, o) \in Int
          /\ CompareBy(f, e, o) = Signed(f.val, o) - Signed(e.val, o)
      BY <3>2, CompareIsRank
    <3>4. PICK a, b : a = RankAt(result, order, i, k) /\ b = RankAt(result, order, j, k)
      OBVIOUS
    <3>5. a = RankOf(e.val[o.key]) /\ b = RankOf(f.val[o.key])
      BY <2>3, <3>1, <3>4 DEF RankAt
    <3>6. /\ Signed(e.val, o) = IF o.ascending THEN a ELSE -a
          /\ Signed(f.val, o) = IF o.ascending THEN b ELSE -b
      BY <3>5 DEF Signed
    <3>7. a \in Int /\ b \in Int
      <4>1. RankOf(e.val[o.key]) \in Int /\ RankOf(f.val[o.key]) \in Int
        <5>1. o.key \in Path
          OBVIOUS
        <5> QED
          BY <3>2, RanksAreNumbers
      <4> QED
        BY <3>5, <4>1
    <3>8. CompareBy(f, e, o) = IF o.ascending THEN b - a ELSE a - b
      <4>1. CASE o.ascending
        BY <3>3, <3>6, <4>1
      <4>2. CASE ~o.ascending
        <5>1. CompareBy(f, e, o) = (-b) - (-a)
          BY <3>3, <3>6, <4>2
        <5>2. (-b) - (-a) = a - b
          BY <3>7
        <5> QED
          BY <4>2, <5>1, <5>2
      <4> QED
        BY <4>1, <4>2
    <3> QED
      BY <3>1, <3>4, <3>7, <3>8
  <2>5. ASSUME NEW k \in 1..m, CompareBy(f, e, order[k]) = 0
        PROVE  RankAt(result, order, i, k) = RankAt(result, order, j, k)
    <3>1. PICK a \in Int, b \in Int : a = RankAt(result, order, i, k) /\ b = RankAt(result, order, j, k)
      BY <2>4
    <3>2. CompareBy(f, e, order[k]) = b - a \/ CompareBy(f, e, order[k]) = a - b
      BY <2>4, <3>1
    <3>3. (a - b = 0 => a = b) /\ (b - a = 0 => a = b)
      OBVIOUS
    <3> QED
      BY <2>5, <3>1, <3>2, <3>3
  <2>6. CASE \E k \in 1..m : /\ CompareBy(f, e, order[k]) > 0
                             /\ \A l \in 1..k - 1 : CompareBy(f, e, order[l]) = 0
    <3>1. PICK k \in 1..m : /\ CompareBy(f, e, order[k]) > 0
                            /\ \A l \in 1..k - 1 : CompareBy(f, e, order[l]) = 0
      BY <2>6
    <3>2. PICK B : B = KeysApart(result, order, m, i, j)
      OBVIOUS
    <3>3. Rises(result, order, i, j, k) /\ RankAt(result, order, i, k) # RankAt(result, order, j, k)
      BY <2>4, <3>1 DEF Rises
    <3>4. k \in B /\ B \subseteq Int
      BY <3>2, <3>3 DEF KeysApart
    <3>5. ASSUME NEW l \in B PROVE k <= l
      <4>1. l \in 1..m /\ RankAt(result, order, i, l) # RankAt(result, order, j, l)
        BY <3>2 DEF KeysApart
      <4>2. ASSUME l < k PROVE FALSE
        <5>1. l \in 1..k - 1
          BY <4>1, <4>2
        <5>2. CompareBy(f, e, order[l]) = 0
          BY <3>1, <5>1
        <5> QED
          BY <2>5, <4>1, <5>2
      <4> QED
        BY <4>1, <4>2
    <3>6. Min(B) = k
      BY <3>4, <3>5, LeastIsMin
    <3> QED
      BY <3>2, <3>3, <3>4, <3>6 DEF PairSorted
  <2>7. CASE (\A k \in 1..m : CompareBy(f, e, order[k]) = 0) /\ f.index > e.index
    <3>1. KeysApart(result, order, m, i, j) = {}
      BY <2>5, <2>7 DEF KeysApart
    <3>2. PICK k \in 1..y : e = entries[k]
      BY <1>8, <1>13, <2>1
    <3>3. PICK l \in 1..y : f = entries[l]
      BY <1>8, <1>13, <2>1
    <3>4. k < l
      <4>1. e.index \in Nat /\ f.index \in Nat
        BY <1>4
      <4>2. ~(f.index < e.index) /\ f.index # e.index
        BY <2>7, <4>1
      <4>3. ~(l < k)
        BY <1>5, <1>13, <3>2, <3>3, <4>2
      <4>4. l # k
        BY <3>2, <3>3, <4>2
      <4> QED
        BY <4>3, <4>4
    <3>5. plain[k] = result[i] /\ plain[l] = result[j]
      BY <1>9, <1>13, <2>3, <3>2, <3>3
    <3> QED
      BY <3>1, <3>4, <3>5 DEF PairSorted
  <2> QED
    BY <1>2, <2>2, <2>6, <2>7 DEF After
<1>15. SortedBy(result, plain, order)
  <2>1. \A i, j \in 1..x : i < j => PairSorted(result, plain, order, m, y, i, j)
    BY <1>14
  <2> QED
    BY <1>2, <1>12, <2>1, SortedByPairs
<1> QED
  BY <1>1, <1>10, <1>11, <1>15

\* A part of a JSON text below one of its keys.
LEMMA ChildOfText ==
    ASSUME NEW t, IsText(t), NEW k \in Keys, NEW c, c = Child(t, k), NEW x \in Path, <<k>> \o x \in DOMAIN t
    PROVE  /\ \A m \in 0..Len(x) : SubSeq(x, 1, m) \in DOMAIN c
           /\ c[x] = t[<<k>> \o x]
<1>1. PICK u \in Path : u = <<k>>
  BY OneKey
<1>2. c = [w \in {Rel(u, y) : y \in {y \in DOMAIN t : IsPrefix(u, y)}} |-> t[u \o w]]
  BY <1>1 DEF Child
<1>3. ASSUME NEW w \in Path, u \o w \in DOMAIN t PROVE w \in DOMAIN c
  <2>1. IsPrefix(u, u \o w) /\ Rel(u, u \o w) = w
    BY ConcatChar
  <2> QED
    BY <1>2, <1>3, <2>1
<1>4. u \o x \in DOMAIN t
  BY <1>1
<1>5. c[x] = t[u \o x]
  BY <1>2, <1>3, <1>4
<1>6. ASSUME NEW m \in 0..Len(x) PROVE SubSeq(x, 1, m) \in DOMAIN c
  <2>1. PICK w : w = SubSeq(x, 1, m)
    OBVIOUS
  <2>2. PICK l \in Nat : l = Len(x) /\ x \in [1..l -> Keys]
    BY DEF Path
  <2>3. w \in Path /\ Len(w) = m /\ \A i \in 1..m : w[i] = x[i]
    <3>1. w = [i \in 1..m |-> x[i]]
      <4>1. SubSeq(x, 1, m) = [i \in 1..(1 + m - 1) |-> x[i + 1 - 1]]
        OBVIOUS
      <4> QED
        BY <2>1, <2>2, <4>1
    <3>2. w \in [1..m -> Keys]
      BY <2>2, <3>1
    <3>3. w \in Seq(Keys)
      BY <2>2, <3>2
    <3> QED
      BY <2>2, <3>1, <3>3 DEF Path
  <2>4. IsPrefix(w, x)
    BY <2>2, <2>3, PrefixChar
  <2>5. u \o w \in Path /\ IsPrefix(u \o w, u \o x)
    <3>1. u \o w \in Path /\ u \o x \in Path /\ x = w \o Rel(w, x) /\ Rel(w, x) \in Path
      BY <2>3, <2>4, RelChar, ConcatChar
    <3>2. u \o x = (u \o w) \o Rel(w, x)
      <4>1. PICK z \in Path : z = Rel(w, x)
        BY <3>1
      <4>2. u \o (w \o z) = (u \o w) \o z
        BY <2>3, BelowBelow
      <4> QED
        BY <3>1, <4>1, <4>2
    <3> QED
      BY <3>1, <3>2, ConcatChar
  <2>6. u \o w \in DOMAIN t
    <3>1. u \o x \in Path
      BY ConcatChar
    <3>2. u \o w = u \o x \/ u \o w \in Ancestors(u \o x)
      BY <2>5, <3>1, AncestorChar
    <3> QED
      BY <1>4, <3>2 DEF IsText
  <2> QED
    BY <1>3, <2>1, <2>3, <2>6
<1> QED
  BY <1>1, <1>5, <1>6

\* Comparable documents have ranks.
LEMMA ComparableIsRanked ==
    ASSUME NEW t, IsText(t), NEW o, o.key \in Path, Comparable(t, o.key),
           NEW K, K = {Last(x) : x \in ChildPaths(t, Root)},
           NEW T, T = {Child(t, k) : k \in K}
    PROVE  Ranked(T, o)
<1>1. PICK x \in Path : x = o.key
  OBVIOUS
<1>2. PICK W : W = {ValueIn(t, y \o x) : y \in ChildPaths(t, Root)}
  OBVIOUS
<1>3. W \subseteq Numbers \/ W \subseteq DOMAIN StrOrder
  BY <1>1, <1>2 DEF Comparable
<1>4. ASSUME NEW k \in K
      PROVE  /\ k \in Keys /\ <<k>> \o x \in DOMAIN t
             /\ t[<<k>> \o x] \in W
  <2>1. PICK y \in ChildPaths(t, Root) : k = Last(y)
    OBVIOUS
  <2>2. y \in DOMAIN t /\ y # Root /\ Front(y) = Root /\ y \in Path
    BY DEF ChildPaths, IsText
  <2>3. k \in Keys /\ y = Append(Front(y), Last(y))
    BY <2>1, <2>2, SplitLast
  <2>4. y = <<k>>
    BY <2>1, <2>2, <2>3 DEF Root
  <2>5. ValueIn(t, <<k>> \o x) \in W
    BY <1>2, <2>4
  <2>6. Numbers \subseteq Values /\ DOMAIN StrOrder \subseteq Values
    BY QueryAssumption
  <2>7. ValueIn(t, <<k>> \o x) # Obj
    BY <1>3, <2>5, <2>6, ItemAssumption
  <2>8. <<k>> \o x \in DOMAIN t
    BY <2>7 DEF ValueIn
  <2> QED
    BY <2>3, <2>5, <2>8 DEF ValueIn
<1>5. ASSUME NEW k \in K
      PROVE  /\ \A m \in 0..Len(x) : SubSeq(x, 1, m) \in DOMAIN Child(t, k)
             /\ Child(t, k)[x] \in W
  <2>1. k \in Keys /\ <<k>> \o x \in DOMAIN t /\ t[<<k>> \o x] \in W
    BY <1>4
  <2>2. PICK c : c = Child(t, k)
    OBVIOUS
  <2>3. (\A m \in 0..Len(x) : SubSeq(x, 1, m) \in DOMAIN c) /\ c[x] = t[<<k>> \o x]
    BY <2>1, <2>2, ChildOfText
  <2> QED
    BY <2>1, <2>2, <2>3
<1>7. \A c \in T : c[x] \in W /\ \A m \in 0..Len(x) : SubSeq(x, 1, m) \in DOMAIN c
  BY <1>5
<1> QED
  BY <1>1, <1>3, <1>7 DEF Ranked

\* An order by keys at which all children have numbers, or all have strings, is one
\* (compare_entries, he_qsort): keys in turn, and what they leave equal in the order
\* of "/p".
THEOREM OrdersSort == Spec => []OrderedWhenComparable
<1>1. ASSUME FInv PROVE OrderedWhenComparable
  <2> SUFFICES ASSUME NEW p \in DocPaths, NEW q \in Queries, Readable(p),
                      \A i \in 1..Len(q.order) : Comparable(Extract(p), q.order[i].key)
               PROVE  SortedBy(Execute(p, [q EXCEPT !.skip = 0, !.take = 0]),
                               Execute(p, [q EXCEPT !.order = <<>>, !.skip = 0, !.take = 0]), q.order)
    BY DEF OrderedWhenComparable
  <2>1. p \in Path /\ IInv /\ Exists(p)
    BY <1>1, EngineAssumption DEF FInv, Readable
  <2>2. q = [filters |-> q.filters, order |-> q.order, skip |-> q.skip, take |-> q.take]
    BY QueryAssumption
  <2>3. PICK all, plain : /\ all = [q EXCEPT !.skip = 0, !.take = 0]
                          /\ plain = [q EXCEPT !.order = <<>>, !.skip = 0, !.take = 0]
    OBVIOUS
  <2>4. /\ all.skip = 0 /\ all.take = 0 /\ all.order = q.order /\ all.filters = q.filters
        /\ plain.skip = 0 /\ plain.take = 0 /\ plain.order = <<>> /\ plain.filters = q.filters
    BY <2>2, <2>3
  <2>5. PICK t, K : t = Extract(p) /\ K = {Last(x) : x \in ChildPaths(t, Root)}
    OBVIOUS
  <2>6. PICK R : R = [key : Path, ascending : BOOLEAN]
    OBVIOUS
  <2>7. PICK order \in Seq(R) : order = q.order
    BY <2>6, QueryAssumption
  <2>8. IsText(t)
    BY <2>1, <2>5, ExtractIsText
  <2>9. PICK T : T = {Child(t, k) : k \in K}
    OBVIOUS
  <2>10. ASSUME NEW i \in 1..Len(order) PROVE Ranked(T, order[i])
    <3>1. PICK o \in R : o = order[i]
      OBVIOUS
    <3>2. o.key \in Path /\ Comparable(t, o.key)
      BY <2>5, <2>6, <2>7, <3>1
    <3>3. Ranked(T, o)
      <4>1. K = {Last(x) : x \in ChildPaths(t, Root)}
        BY <2>5
      <4> QED
        BY <2>8, <2>9, <3>2, <4>1, Zenon, ComparableIsRanked
    <3> QED
      BY <3>1, <3>3
  <2>11. PICK keys : keys = KeysInOrder(K)
    OBVIOUS
  <2>12. Len(keys) \in Nat /\ \A i \in 1..Len(keys) : keys[i] \in K
    <3>1. K \subseteq Keys
      <4>1. ASSUME NEW y \in ChildPaths(t, Root) PROVE Last(y) \in Keys
        <5>1. y # Root /\ y \in Path
          BY <2>8 DEF ChildPaths, IsText
        <5> QED
          BY <5>1, SplitLast
      <4> QED
        BY <2>5, <4>1
    <3>2. IsFiniteSet(K)
      BY <1>1, <2>5, ChildKeysFinite
    <3>3. PICK n : n = Cardinality(K)
      OBVIOUS
    <3>4. n \in Nat /\ Len(keys) = n /\ keys \in [1..n -> K]
      BY <2>11, <3>1, <3>2, <3>3, KeysListed
    <3> QED
      BY <3>4
  <2>13. PICK children : children = [i \in 1..Len(keys) |-> Child(t, keys[i])]
    OBVIOUS
  <2>14. Len(children) \in Nat /\ \A i \in 1..Len(children) : children[i] \in T
    BY <2>9, <2>12, <2>13
  <2>15. /\ Execute(p, all) = Evaluated(children, q.filters, all)
         /\ Execute(p, plain) = Evaluated(children, q.filters, plain)
    <3>1. Execute(p, all) = Direct(p, all) /\ Execute(p, plain) = Direct(p, plain)
      BY <2>1, PathIsNoPattern DEF Execute
    <3>2. /\ Direct(p, all) = Evaluated(children, all.filters, all)
          /\ Direct(p, plain) = Evaluated(children, plain.filters, plain)
      BY <2>1, <2>5, <2>11, <2>13 DEF Direct
    <3> QED
      BY <2>4, <3>1, <3>2
  <2>16. SortedBy(Evaluated(children, q.filters, all), Evaluated(children, q.filters, plain), order)
    BY <2>4, <2>6, <2>7, <2>10, <2>14, EvaluatedIsSorted
  <2> QED
    BY <2>3, <2>7, <2>15, <2>16
<1> QED
  BY <1>1, TablesStayFinite, PTL

-----------------------------------------------------------------------------
(***************************************************************************)
(* Levels: two wildcards, one after the other                              *)
(***************************************************************************)

\* The rows a pattern takes, and what is extracted of rows.
Found(pattern)   == {r \in RowsThatMatch(pattern, {}) : Exists(r.path)}
TextsAt(rows)    == [i \in 1..Len(rows) |-> Extract(rows[i].path)]
IsList(rows, S)  == Listed(rows) /\ Range(rows) = S

\* Those are the rows of the matching paths that have a container.
LEMMA FoundChar ==
    ASSUME IInv, NEW pattern, ~WildcardMatches(Root, pattern)
    PROVE  /\ Found(pattern) \subseteq Exported(Root)
           /\ \A r \in Exported(Root) :
                 r \in Found(pattern) <=> r.path \in DOMAIN containers /\ WildcardMatches(r.path, pattern)
<1>1. PICK C, D : C = DOMAIN containers /\ D = DOMAIN primitives
  OBVIOUS
<1>2. C \subseteq Path /\ D \subseteq Path
  BY <1>1 DEF IInv, TypeOK
<1>3. PICK S : S = {x \in C \cup D : WildcardMatches(x, pattern)}
  OBVIOUS
<1>4. \A r : r \in RowsAt(S) <=> \/ \E x \in S \cap C : r = [path |-> x, slash |-> TRUE]
                                 \/ \E x \in S \cap D : r = [path |-> x, slash |-> FALSE]
  BY <1>1 DEF RowsAt
<1>5. \A r : r \in Found(pattern) <=> r \in RowsAt(S) /\ r.path \in C
  BY <1>1, <1>3 DEF Found, RowsThatMatch, Exists
<1>6. \A x \in Path : IsPrefix(Root, x)
  BY RootIsPath, PrefixChar
<1>7. ASSUME NEW r \in Found(pattern) PROVE r \in Exported(Root)
  <2>1. PICK x \in S : \/ x \in C /\ r = [path |-> x, slash |-> TRUE]
                       \/ x \in D /\ r = [path |-> x, slash |-> FALSE]
    BY <1>4, <1>5
  <2>2. x # Root /\ x \in Path
    BY <1>2, <1>3
  <2>3. /\ r = [path |-> r.path, slash |-> r.slash] /\ r.path = x
        /\ \/ r.slash = TRUE /\ r.path \in C
           \/ r.slash = FALSE /\ r.path \in D
    BY <2>1
  <2> QED
    BY <1>1, <1>6, <2>2, <2>3, ExportedChar
<1>8. ASSUME NEW r \in Exported(Root)
      PROVE  r \in Found(pattern) <=> r.path \in C /\ WildcardMatches(r.path, pattern)
  <2>1. /\ r = [path |-> r.path, slash |-> r.slash]
        /\ \/ r.slash = TRUE /\ r.path \in C
           \/ r.slash = FALSE /\ r.path \in D
    BY <1>1, ExportedChar
  <2>2. r \in RowsAt(S) <=> r.path \in S
    BY <1>4, <2>1
  <2> QED
    BY <1>3, <1>5, <2>2
<1> QED
  BY <1>1, <1>7, <1>8

\* Without filters, order and page all the children are the result.
LEMMA EvaluatedOfAll ==
    ASSUME NEW n \in Nat, NEW children, children = [i \in 1..n |-> children[i]]
    PROVE  Evaluated(children, {}, All) = children
<1>1. Len(children) = n
  OBVIOUS
<1>2. PICK g : IsPassing(g, children, {}, n) /\ Passing(children, {}) = g[n]
  BY <1>1, PassingIs
<1>3. \A i \in 1..n : Passes(children[i], {})
  BY DEF Passes
<1>4. PICK E : E = EntriesOf(children, n)
  OBVIOUS
<1>5. /\ g[0] = <<>>
      /\ \A i \in 1..n : g[i] = Append(g[i - 1], [val |-> children[i], index |-> i])
      /\ \A i \in 0..n : g[i] \in Seq(E)
  BY <1>2, <1>3, <1>4 DEF IsPassing
<1> DEFINE Done(i) == Len(g[i]) = i /\ \A a \in 1..i : g[i][a].val = children[a]
           D == {i \in 0..n : Done(i)}
<1>6. Done(0)
  BY <1>5
<1>7. ASSUME NEW i \in 1..n, Done(i - 1) PROVE Done(i)
  <2>1. i - 1 \in 0..n
    OBVIOUS
  <2>2. PICK s \in Seq(E) : s = g[i - 1]
    BY <1>5, <2>1
  <2>3. PICK e : e = [val |-> children[i], index |-> i]
    OBVIOUS
  <2>4. Len(s) = i - 1 /\ \A a \in 1..i - 1 : s[a].val = children[a]
    BY <1>7, <2>2
  <2>5. g[i] = Append(s, e)
    BY <1>5, <2>2, <2>3
  <2>6. Len(g[i]) = i /\ g[i][i] = e /\ \A a \in 1..i - 1 : g[i][a] = s[a]
    <3>1. PICK m \in Nat : m = i - 1 /\ i = m + 1
      OBVIOUS
    <3>2. PICK t : t = Append(s, e)
      OBVIOUS
    <3>3. Len(s) = m
      BY <2>4, <3>1
    <3>4. Len(t) = m + 1 /\ t[m + 1] = e /\ \A a \in 1..m : t[a] = s[a]
      BY <3>2, <3>3
    <3> QED
      BY <2>5, <3>1, <3>2, <3>4
  <2>7. ASSUME NEW a \in 1..i PROVE g[i][a].val = children[a]
    <3>1. CASE a = i
      BY <2>3, <2>6, <3>1
    <3>2. CASE a \in 1..i - 1
      <4>1. g[i][a] = s[a] /\ s[a].val = children[a]
        BY <2>4, <2>6, <3>2
      <4> QED
        BY <4>1
    <3> QED
      BY <3>1, <3>2
  <2> QED
    BY <2>6, <2>7
<1>8. 0 \in D
  <2>1. 0 \in 0..n
    OBVIOUS
  <2> HIDE DEF Done
  <2> QED
    BY <1>6, <2>1
<1>9. \A i \in 1..n : i - 1 \in D => i \in D
  <2>1. \A i \in 1..n : i \in 0..n
    OBVIOUS
  <2> HIDE DEF Done
  <2> QED
    BY <1>7, <2>1
<1>10. \A i \in 0..n : i \in D
  <2> HIDE DEF D
  <2> QED
    BY <1>8, <1>9, CountsUp
<1>11. Done(n)
  <2>1. n \in 0..n
    OBVIOUS
  <2> HIDE DEF Done
  <2> QED
    BY <1>10, <2>1
<1>12. PICK s \in Seq(E) : s = g[n]
  <2>1. n \in 0..n
    OBVIOUS
  <2> QED
    BY <1>5, <2>1
<1>13. All.order = <<>> /\ All.skip = 0 /\ All.take = 0
  BY DEF All
<1>14. Sorted(s, All.order) = s
  BY <1>13 DEF Sorted
<1>15. Page(s, All) = s
  <2>1. Page(s, All) = SubSeq(s, 1, Len(s))
    BY <1>13 DEF Page
  <2> QED
    BY <1>12, <2>1
<1>16. Evaluated(children, {}, All) = [i \in 1..Len(s) |-> s[i].val]
  BY <1>2, <1>12, <1>14, <1>15 DEF Evaluated
<1>17. Len(s) = n /\ \A a \in 1..n : s[a].val = children[a]
  BY <1>11, <1>12
<1>18. [i \in 1..n |-> s[i].val] = [i \in 1..n |-> children[i]]
  BY <1>17
<1> QED
  BY <1>16, <1>17, <1>18

\* Of such a pattern General gives what is extracted of the rows, in their order.
LEMMA GeneralOfAll ==
    ASSUME IInv, FInv, NEW pattern, ~WildcardMatches(Root, pattern)
    PROVE  \E rows : /\ IsList(rows, Found(pattern))
                     /\ General(pattern, All) = TextsAt(rows)
<1>1. PICK rows : rows = RowsInOrder(Found(pattern))
  OBVIOUS
<1>2. Found(pattern) \subseteq Exported(Root)
  BY FoundChar
<1>3. IsList(rows, Found(pattern))
  BY <1>1, <1>2, RootIsPath, LowerListed DEF IsList
<1>4. All.filters = {}
  BY DEF All
<1>5. PICK onSegment : onSegment = {f \in All.filters : OnSegment(f)} /\ onSegment = {}
  BY <1>4
<1>6. All.filters \ onSegment = {}
  BY <1>4
<1>7. General(pattern, All) = Evaluated(TextsAt(rows), {}, All)
  <2>1. {r \in RowsThatMatch(pattern, onSegment) : Exists(r.path)} = Found(pattern)
    BY <1>5 DEF Found
  <2> QED
    BY <1>1, <1>5, <1>6, <2>1 DEF General, TextsAt
<1>8. PICK n \in Nat : n = Len(rows)
  BY <1>3 DEF IsList, Listed
<1>9. PICK texts : texts = TextsAt(rows)
  OBVIOUS
<1>10. texts = [i \in 1..n |-> texts[i]]
  BY <1>8, <1>9 DEF TextsAt
<1>11. Evaluated(texts, {}, All) = texts
  BY <1>10, EvaluatedOfAll
<1> QED
  BY <1>3, <1>7, <1>9, <1>11

\* The list c is a, of the rows S, and after it b, of the rows T.
Joins(c, a, b, S, T) == IsList(c, S \cup T) /\ TextsAt(c) = TextsAt(a) \o TextsAt(b)

\* Rows before all others and those others make one list.
LEMMA ListsJoin ==
    ASSUME NEW S, NEW T, NEW a, IsList(a, S), NEW b, IsList(b, T),
           \A r \in S, s \in T : RowBefore(r, s)
    PROVE  \E c : Joins(c, a, b, S, T)
<1>1. PICK m \in Nat, n \in Nat : m = Len(a) /\ n = Len(b)
  BY DEF IsList, Listed
<1>2. /\ \A i \in 1..m : IsRow(a[i]) /\ a[i] \in S
      /\ \A i \in 1..n : IsRow(b[i]) /\ b[i] \in T
      /\ \A r \in S : \E i \in 1..m : a[i] = r
      /\ \A r \in T : \E i \in 1..n : b[i] = r
  BY <1>1 DEF IsList, Listed, Range
<1>3. /\ \A i, j \in 1..m : RowBefore(a[i], a[j]) <=> i < j
      /\ \A i, j \in 1..n : RowBefore(b[i], b[j]) <=> i < j
  BY <1>1 DEF IsList, Listed
<1>4. PICK c : c = [i \in 1..m + n |-> IF i <= m THEN a[i] ELSE b[i - m]]
  OBVIOUS
<1>5. Len(c) = m + n /\ DOMAIN c = 1..m + n
  BY <1>4
<1>6. ASSUME NEW i \in 1..m + n
      PROVE  \/ i \in 1..m /\ c[i] = a[i]
             \/ i - m \in 1..n /\ i > m /\ c[i] = b[i - m]
  BY <1>4
<1>7. \A i \in 1..m + n : IsRow(c[i]) /\ c[i] \in S \cup T
  BY <1>2, <1>6
<1>8. ASSUME NEW r, IsRow(r), NEW s, IsRow(s), RowBefore(r, s) PROVE ~RowBefore(s, r)
  <2>1. ~RowBefore(r, r)
    BY <1>8, RowsCompare
  <2>2. RowBefore(s, r) => RowBefore(r, r)
    BY <1>8, RowsFollow
  <2> QED
    BY <2>1, <2>2
<1>9. ASSUME NEW i \in 1..m + n, NEW j \in 1..m + n PROVE RowBefore(c[i], c[j]) <=> i < j
  <2>1. CASE i \in 1..m /\ c[i] = a[i] /\ j \in 1..m /\ c[j] = a[j]
    BY <1>3, <2>1
  <2>2. CASE i \in 1..m /\ c[i] = a[i] /\ j - m \in 1..n /\ j > m /\ c[j] = b[j - m]
    <3>1. i < j
      BY <2>2
    <3>2. c[i] \in S /\ c[j] \in T
      BY <1>2, <2>2
    <3> QED
      BY <3>1, <3>2
  <2>3. CASE i - m \in 1..n /\ i > m /\ c[i] = b[i - m] /\ j \in 1..m /\ c[j] = a[j]
    <3>1. ~(i < j)
      BY <2>3
    <3>2. c[i] \in T /\ c[j] \in S
      BY <1>2, <2>3
    <3>3. ~RowBefore(c[i], c[j])
      BY <1>7, <1>8, <3>2
    <3> QED
      BY <3>1, <3>3
  <2>4. CASE i - m \in 1..n /\ i > m /\ c[i] = b[i - m] /\ j - m \in 1..n /\ j > m /\ c[j] = b[j - m]
    <3>1. RowBefore(b[i - m], b[j - m]) <=> i - m < j - m
      BY <1>3, <2>4
    <3>2. i - m < j - m <=> i < j
      OBVIOUS
    <3> QED
      BY <2>4, <3>1, <3>2
  <2> QED
    BY <1>6, <2>1, <2>2, <2>3, <2>4
<1>10. ASSUME NEW r \in S \cup T PROVE \E i \in 1..m + n : c[i] = r
  <2>1. CASE r \in S
    <3>1. PICK i \in 1..m : a[i] = r
      BY <1>2, <2>1
    <3>2. i \in 1..m + n /\ c[i] = a[i]
      BY <1>4
    <3> QED
      BY <3>1, <3>2
  <2>2. CASE r \in T
    <3>1. PICK i \in 1..n : b[i] = r
      BY <1>2, <2>2
    <3>2. PICK j \in Nat : j = m + i
      OBVIOUS
    <3>3. j \in 1..m + n /\ ~(j <= m) /\ j - m = i
      BY <3>2
    <3>4. c[j] = b[i]
      BY <1>4, <3>3
    <3> QED
      BY <3>1, <3>3, <3>4
  <2> QED
    BY <2>1, <2>2
<1>11. IsList(c, S \cup T)
  <2>1. Range(c) = S \cup T
    BY <1>5, <1>7, <1>10 DEF Range
  <2>2. m + n \in Nat
    OBVIOUS
  <2>3. Listed(c)
    BY <1>5, <1>7, <1>9, <2>2 DEF Listed
  <2> QED
    BY <2>1, <2>3 DEF IsList
<1>12. TextsAt(c) = TextsAt(a) \o TextsAt(b)
  <2>1. PICK s, t, u : s = TextsAt(a) /\ t = TextsAt(b) /\ u = TextsAt(c)
    OBVIOUS
  <2>2. /\ s = [i \in 1..m |-> Extract(a[i].path)]
        /\ t = [i \in 1..n |-> Extract(b[i].path)]
        /\ u = [i \in 1..m + n |-> Extract(c[i].path)]
    BY <1>1, <1>5, <2>1 DEF TextsAt
  <2>3. Len(s) = m /\ Len(t) = n
    BY <2>2
  <2>4. s \o t = [i \in 1..m + n |-> IF i <= m THEN s[i] ELSE t[i - m]]
    BY <2>2, <2>3
  <2>5. ASSUME NEW i \in 1..m + n PROVE u[i] = IF i <= m THEN s[i] ELSE t[i - m]
    <3>1. CASE i \in 1..m /\ c[i] = a[i]
      BY <2>2, <3>1
    <3>2. CASE i - m \in 1..n /\ i > m /\ c[i] = b[i - m]
      BY <2>2, <3>2
    <3> QED
      BY <1>6, <3>1, <3>2
  <2>6. u = [i \in 1..m + n |-> u[i]]
    BY <2>2
  <2> QED
    BY <2>1, <2>4, <2>5, <2>6
<1> QED
  BY <1>11, <1>12 DEF Joins

\* Objects two levels deep come in the order of those above them, keys being
\* followed by a slash in both.
LEMMA BelowInOrder ==
    ASSUME NEW k \in Keys, NEW l \in Keys, NEW g, NEW h, g.path = <<k>>, h.path = <<l>>, g.slash, h.slash,
           g.slash \in BOOLEAN, h.slash \in BOOLEAN, RowBefore(g, h),
           NEW r, NEW s, r.path \in Path, s.path \in Path, Len(r.path) = 2, Len(s.path) = 2,
           r.path[1] = k, s.path[1] = l
    PROVE  RowBefore(r, s)
<1>1. PICK x \in Path, y \in Path : x = r.path /\ y = s.path
  OBVIOUS
<1>2. DOMAIN x = 1..2 /\ DOMAIN y = 1..2 /\ x[1] = k /\ y[1] = l
  BY <1>1 DEF Path
<1>3. SegmentBefore(k, TRUE, l, TRUE) /\ k # l
  <2>1. IsRow(g) /\ IsRow(h)
    BY OneKey DEF IsRow
  <2>2. k # l
    <3>1. g.path = h.path /\ g.slash = h.slash => ~RowBefore(g, h)
      BY <2>1, RowsCompare
    <3> QED
      BY <3>1
  <2>3. ~Above(g, h)
    <3>1. PICK u \in Path, w \in Path : u = <<k>> /\ w = <<l>>
      BY OneKey
    <3>2. Len(u) = 1 /\ Len(w) = 1 /\ u[1] = k /\ w[1] = l
      BY <3>1
    <3>3. ~IsPrefix(u, w)
      <4>1. 1 \in 1..Len(u) /\ u[1] # w[1]
        BY <2>2, <3>2
      <4>2. IsPrefix(u, w) => \A i \in 1..Len(u) : u[i] = w[i]
        BY PrefixChar
      <4> QED
        BY <4>1, <4>2
    <3> QED
      BY <3>1, <3>3 DEF Above, IsStrictPrefix
  <2>4. ~Beside(g, h)
    BY DEF Beside
  <2>5. PICK n \in DOMAIN g.path : PartBefore(g, h, n)
    BY <2>3, <2>4, RowBeforeIs
  <2>6. n = 1
    OBVIOUS
  <2>7. SlashAt(g, 1) /\ SlashAt(h, 1)
    BY DEF SlashAt
  <2>8. SegmentBefore(k, SlashAt(g, 1), l, SlashAt(h, 1))
    BY <2>5, <2>6 DEF PartBefore
  <2>9. SlashAt(g, 1) = TRUE /\ SlashAt(h, 1) = TRUE
    BY <2>7 DEF SlashAt
  <2> QED
    BY <2>2, <2>8, <2>9
<1>4. PartAt(x, y, 1)
  <2>1. 1 \in 1..2 /\ 1..1-1 = {}
    OBVIOUS
  <2> QED
    BY <1>2, <1>3, <2>1 DEF PartAt
<1>5. SlashAt(r, 1) = TRUE /\ SlashAt(s, 1) = TRUE
  BY DEF SlashAt
<1>6. PartBefore(r, s, 1)
  BY <1>1, <1>2, <1>3, <1>4, <1>5 DEF PartBefore
<1>7. 1 \in DOMAIN r.path
  BY <1>1, <1>2
<1> QED
  BY <1>6, <1>7, RowBeforeIs

\* What stands at the first level: the rows of containers there.
IsTop(h) == h.slash = TRUE /\ h.path \in DOMAIN containers /\ \E k \in Keys : h.path = <<k>>

\* The pattern with two wildcards takes the rows two levels deep, that of one of
\* the tops those below it.
LEMMA TwoLevels ==
    ASSUME IInv, NEW v \in Vars
    PROVE  /\ ~WildcardMatches(Root, <<Star, v>>)
           /\ Execute(<<Star, v>>, All) = General(<<Star, v>>, All)
           /\ \A r \in Exported(Root) :
                 r \in Found(<<Star, v>>) <=> r.path \in DOMAIN containers /\ Len(r.path) = 2
<1>1. PICK pattern : pattern = <<Star, v>>
  OBVIOUS
<1>2. Len(pattern) = 2 /\ pattern[1] = Star /\ pattern[2] = v
  BY <1>1
<1>3. IsWildcard(Star) /\ IsWildcard(v) /\ v # Star
  BY SegmentsAreNotKeys DEF IsWildcard
<1>4. ~WildcardMatches(Root, pattern)
  BY <1>2, RootIsPath DEF WildcardMatches
<1>5. Execute(pattern, All) = General(pattern, All)
  <2>1. 1 \in WildcardPlaces(pattern)
    BY <1>2, <1>3 DEF WildcardPlaces
  <2>2. Last(pattern) = v
    BY <1>2 DEF Last
  <2>3. ~IsSingleTail(pattern)
    BY <1>3, <2>2 DEF IsSingleTail
  <2> QED
    BY <2>1, <2>3 DEF Execute
<1>6. ASSUME NEW r \in Exported(Root)
      PROVE  r \in Found(pattern) <=> r.path \in DOMAIN containers /\ Len(r.path) = 2
  <2>1. r \in Found(pattern) <=> r.path \in DOMAIN containers /\ WildcardMatches(r.path, pattern)
    BY <1>4, FoundChar
  <2>2. WildcardMatches(r.path, pattern) <=> Len(r.path) = 2
    <3>1. \A i \in 1..2 : IsWildcard(pattern[i])
      BY <1>2, <1>3
    <3> QED
      BY <1>2, <3>1 DEF WildcardMatches
  <2> QED
    BY <2>1, <2>2
<1> QED
  BY <1>1, <1>4, <1>5, <1>6

LEMMA OneLevel ==
    ASSUME IInv, NEW v \in Vars, NEW h, IsTop(h)
    PROVE  /\ ~WildcardMatches(Root, Append(h.path, v))
           /\ Execute(Append(h.path, v), All) = General(Append(h.path, v), All)
           /\ \A r \in Exported(Root) :
                 r \in Found(Append(h.path, v))
                     <=> r.path \in DOMAIN containers /\ Len(r.path) = 2 /\ r.path[1] = h.path[1]
<1>1. PICK k \in Keys : h.path = <<k>>
  BY DEF IsTop
<1>2. PICK p \in Path : p = h.path /\ Len(p) = 1 /\ p[1] = k
  BY <1>1, OneKey
<1>3. IsWildcard(v) /\ v # Star
  BY SegmentsAreNotKeys DEF IsWildcard
<1>4. PICK pattern : pattern = Append(p, v)
  OBVIOUS
<1>5. /\ WildcardPlaces(pattern) # {} /\ ~IsSingleTail(pattern)
      /\ \A x \in Path : WildcardMatches(x, pattern) <=> Len(x) = Len(p) + 1 /\ IsPrefix(p, x)
  BY <1>3, <1>4, LastIsWild
<1>6. ASSUME NEW x \in Path PROVE WildcardMatches(x, pattern) <=> Len(x) = 2 /\ x[1] = k
  <2>1. Len(x) = 2 => (IsPrefix(p, x) <=> x[1] = k)
    <3>1. IsPrefix(p, x) <=> Len(p) <= Len(x) /\ \A i \in 1..Len(p) : p[i] = x[i]
      BY PrefixChar
    <3>2. \A i : i \in 1..Len(p) <=> i = 1
      BY <1>2
    <3> QED
      BY <1>2, <3>1, <3>2
  <2>2. Len(p) + 1 = 2
    BY <1>2
  <2> QED
    BY <1>5, <2>1, <2>2
<1>7. ~WildcardMatches(Root, pattern)
  BY <1>6, RootIsPath
<1>8. Execute(pattern, All) = General(pattern, All)
  BY <1>5 DEF Execute
<1>9. ASSUME NEW r \in Exported(Root)
      PROVE  r \in Found(pattern) <=> r.path \in DOMAIN containers /\ Len(r.path) = 2 /\ r.path[1] = k
  <2>1. r \in Found(pattern) <=> r.path \in DOMAIN containers /\ WildcardMatches(r.path, pattern)
    BY <1>7, FoundChar
  <2>2. r.path \in Path
    BY ExportedChar DEF IsRow
  <2> QED
    BY <1>6, <2>1, <2>2
<1> QED
  BY <1>2, <1>4, <1>7, <1>8, <1>9

\* The tops in their order.
LEMMA TopsListed ==
    ASSUME IInv, FInv, NEW tops, tops = RowsInOrder({r \in RowsAt({<<k>> : k \in Keys}) : r.slash})
    PROVE  /\ Listed(tops)
           /\ \A i \in 1..Len(tops) : IsTop(tops[i])
           /\ \A k \in Keys : <<k>> \in DOMAIN containers => \E i \in 1..Len(tops) : tops[i].path = <<k>>
<1>1. PICK U : U = {r \in RowsAt({<<k>> : k \in Keys}) : r.slash}
  OBVIOUS
<1>2. PICK L : L = {<<k>> : k \in Keys}
  OBVIOUS
<1>3. \A r : r \in U <=> \E x \in L \cap DOMAIN containers : r = [path |-> x, slash |-> TRUE]
  BY <1>1, <1>2 DEF RowsAt
<1>4. \A x \in Path : IsPrefix(Root, x)
  BY RootIsPath, PrefixChar
<1>5. ASSUME NEW r \in U PROVE r \in Exported(Root) /\ IsTop(r)
  <2>1. PICK x \in L : x \in DOMAIN containers /\ r = [path |-> x, slash |-> TRUE]
    BY <1>3
  <2>2. PICK k \in Keys : x = <<k>>
    BY <1>2
  <2>3. x \in Path
    BY <2>2, OneKey
  <2>4. r = [path |-> r.path, slash |-> r.slash] /\ r.path = x /\ r.slash = TRUE
    BY <2>1
  <2>5. r \in Exported(Root)
    BY <1>4, <2>1, <2>3, <2>4, ExportedChar
  <2> QED
    BY <2>1, <2>2, <2>4, <2>5 DEF IsTop
<1>6. U \subseteq Exported(Root)
  BY <1>5
<1>7. tops = RowsInOrder(U)
  BY <1>1
<1>8. /\ Listed(tops) /\ \A i \in 1..Len(tops) : tops[i] \in U
      /\ \A r \in U : \E i \in 1..Len(tops) : tops[i] = r
  <2>1. IsList(RowsInOrder(U), U)
    BY <1>6, RootIsPath, LowerListed DEF IsList
  <2>2. Listed(tops) /\ Range(tops) = U
    BY <1>7, <2>1 DEF IsList
  <2>3. Range(tops) = {tops[i] : i \in 1..Len(tops)}
    BY <2>2 DEF Listed, Range
  <2> QED
    BY <2>2, <2>3
<1>9. ASSUME NEW k \in Keys, <<k>> \in DOMAIN containers PROVE \E i \in 1..Len(tops) : tops[i].path = <<k>>
  <2>1. PICK r : r = [path |-> <<k>>, slash |-> TRUE]
    OBVIOUS
  <2>2. r \in U
    BY <1>2, <1>3, <1>9, <2>1
  <2>3. PICK i \in 1..Len(tops) : tops[i] = r
    BY <1>8, <2>2
  <2>4. tops[i].path = <<k>>
    <3>1. r.path = <<k>>
      BY <2>1
    <3>2. tops[i].path = r.path
      BY <2>3
    <3> QED
      BY <3>1, <3>2, Zenon
  <2> QED
    BY <2>4
<1> QED
  BY <1>5, <1>8, <1>9

\* The rows below the first i tops.
UpTo(tops, v, i) == {r \in Exported(Root) : \E j \in 1..i : r \in Found(Append(tops[j].path, v))}

\* One more top adds its list.
LEMMA LevelGrows ==
    ASSUME IInv, FInv, NEW v \in Vars, NEW tops, Listed(tops), \A i \in 1..Len(tops) : IsTop(tops[i]),
           NEW i \in 1..Len(tops), NEW a, IsList(a, UpTo(tops, v, i - 1))
    PROVE  \E c : /\ IsList(c, UpTo(tops, v, i))
                  /\ TextsAt(c) = TextsAt(a) \o Execute(Append(tops[i].path, v), All)
<1>1. PICK h : h = tops[i]
  OBVIOUS
<1>2. PICK F : F = Found(Append(h.path, v))
  OBVIOUS
<1>3. IsTop(h)
  BY <1>1
<1>4. /\ ~WildcardMatches(Root, Append(h.path, v))
      /\ Execute(Append(h.path, v), All) = General(Append(h.path, v), All)
      /\ \A r \in Exported(Root) :
            r \in F <=> r.path \in DOMAIN containers /\ Len(r.path) = 2 /\ r.path[1] = h.path[1]
  BY <1>2, <1>3, OneLevel
<1>5. F \subseteq Exported(Root)
  BY <1>2, <1>4, FoundChar
<1>6. PICK b : IsList(b, F) /\ General(Append(h.path, v), All) = TextsAt(b)
  BY <1>2, <1>4, GeneralOfAll
<1>7. PICK S : S = UpTo(tops, v, i - 1)
  OBVIOUS
<1>8. ASSUME NEW r \in S, NEW s \in F PROVE RowBefore(r, s)
  <2>1. PICK j \in 1..i - 1 : r \in Exported(Root) /\ r \in Found(Append(tops[j].path, v))
    BY <1>7 DEF UpTo
  <2>2. PICK g : g = tops[j]
    OBVIOUS
  <2>3. PICK n \in Nat : n = Len(tops)
    BY DEF Listed
  <2>4. j \in 1..Len(tops) /\ j < i
    BY <2>3
  <2>5. IsTop(g) /\ RowBefore(g, h)
    BY <1>1, <2>2, <2>4 DEF Listed
  <2>6. r \in Found(Append(g.path, v))
    BY <2>1, <2>2
  <2>7. r.path \in DOMAIN containers /\ Len(r.path) = 2 /\ r.path[1] = g.path[1]
    BY <2>1, <2>5, <2>6, OneLevel
  <2>8. s.path \in DOMAIN containers /\ Len(s.path) = 2 /\ s.path[1] = h.path[1]
    BY <1>4, <1>5
  <2>9. PICK k \in Keys : g.path = <<k>>
    BY <2>5 DEF IsTop
  <2>10. PICK l \in Keys : h.path = <<l>>
    BY <1>3 DEF IsTop
  <2>11. g.slash = TRUE /\ h.slash = TRUE
    BY <1>3, <2>5 DEF IsTop
  <2>12. r.path \in Path /\ s.path \in Path
    BY <2>7, <2>8 DEF IInv, TypeOK
  <2>13. r.path[1] = k /\ s.path[1] = l
    BY <2>7, <2>8, <2>9, <2>10
  <2> QED
    BY <2>5, <2>7, <2>8, <2>9, <2>10, <2>11, <2>12, <2>13, BelowInOrder
<1>9. PICK c : IsList(c, S \cup F) /\ TextsAt(c) = TextsAt(a) \o TextsAt(b)
  <2>1. IsList(a, S)
    BY <1>7
  <2>2. IsList(b, F)
    BY <1>6
  <2>3. \A r \in S, s \in F : RowBefore(r, s)
    BY <1>8
  <2> QED
    <3>1. PICK c : Joins(c, a, b, S, F)
      BY <2>1, <2>2, <2>3, ListsJoin
    <3> QED
      BY <3>1 DEF Joins
<1>10. UpTo(tops, v, i) = S \cup F
  <2>1. \A j : j \in 1..i <=> j \in 1..i - 1 \/ j = i
    OBVIOUS
  <2>2. \A r \in Exported(Root) :
           r \in UpTo(tops, v, i) <=> r \in S \/ r \in F
    BY <1>1, <1>2, <1>7, <2>1 DEF UpTo
  <2>3. S \subseteq Exported(Root) /\ UpTo(tops, v, i) \subseteq Exported(Root)
    BY <1>7 DEF UpTo
  <2> QED
    BY <1>5, <2>2, <2>3
<1>11. Execute(Append(tops[i].path, v), All) = TextsAt(b)
  BY <1>1, <1>4, <1>6
<1> QED
  BY <1>9, <1>10, <1>11

\* The lists of all the tops are one list, of the rows two levels deep.
LEMMA LevelsJoin ==
    ASSUME IInv, FInv, NEW v \in Vars, NEW tops, Listed(tops), \A i \in 1..Len(tops) : IsTop(tops[i]),
           NEW n \in Nat, n = Len(tops), NEW with,
           with = [i \in 0..n |-> IF i = 0 THEN <<>>
                                  ELSE with[i - 1] \o Execute(Append(tops[i].path, v), All)]
    PROVE  \E c : IsList(c, UpTo(tops, v, n)) /\ with[n] = TextsAt(c)
<1> DEFINE Done(i) == \E c : IsList(c, UpTo(tops, v, i)) /\ with[i] = TextsAt(c)
           D == {i \in 0..n : Done(i)}
<1>0. /\ with[0] = <<>>
      /\ \A i \in 1..n : with[i] = with[i - 1] \o Execute(Append(tops[i].path, v), All)
  <2>1. 0 \in 0..n /\ \A i \in 1..n : i \in 0..n /\ i # 0
    OBVIOUS
  <2> QED
    BY <2>1
<1>1. Done(0)
  <2>1. PICK c : c = <<>>
    OBVIOUS
  <2>2. Len(c) = 0 /\ DOMAIN c = {} /\ 1..0 = {}
    BY <2>1
  <2>3. Listed(c)
    BY <2>2 DEF Listed
  <2>4. Range(c) = {} /\ UpTo(tops, v, 0) = {}
    BY <2>2 DEF Range, UpTo
  <2>5. TextsAt(c) = <<>>
    <3>1. TextsAt(c) = [i \in {} |-> Extract(c[i].path)]
      BY <2>2 DEF TextsAt
    <3> QED
      BY <3>1
  <2> QED
    BY <1>0, <2>3, <2>4, <2>5 DEF IsList
<1>2. ASSUME NEW i \in 1..n, Done(i - 1) PROVE Done(i)
  <2>1. PICK a : IsList(a, UpTo(tops, v, i - 1)) /\ with[i - 1] = TextsAt(a)
    BY <1>2
  <2>2. i \in 1..Len(tops)
    OBVIOUS
  <2>3. PICK c : /\ IsList(c, UpTo(tops, v, i))
                 /\ TextsAt(c) = TextsAt(a) \o Execute(Append(tops[i].path, v), All)
    BY <2>1, <2>2, LevelGrows
  <2>4. with[i] = TextsAt(c)
    BY <1>0, <2>1, <2>3
  <2> QED
    BY <2>3, <2>4
<1>3. 0 \in D
  <2>1. 0 \in 0..n
    OBVIOUS
  <2> HIDE DEF Done
  <2> QED
    BY <1>1, <2>1
<1>4. \A i \in 1..n : i - 1 \in D => i \in D
  <2>1. \A i \in 1..n : i \in 0..n
    OBVIOUS
  <2> HIDE DEF Done
  <2> QED
    BY <1>2, <2>1
<1>5. \A i \in 0..n : i \in D
  <2> HIDE DEF D
  <2> QED
    BY <1>3, <1>4, CountsUp
<1>6. Done(n)
  <2>1. n \in 0..n
    OBVIOUS
  <2> HIDE DEF Done
  <2> QED
    BY <1>5, <2>1
<1> QED
  BY <1>6

\* What stands two levels deep stands below a container of the first.
LEMMA HasTop ==
    ASSUME IInv, NEW r, r.path \in DOMAIN containers, Len(r.path) = 2
    PROVE  r.path[1] \in Keys /\ <<r.path[1]>> \in DOMAIN containers
<1>1. PICK x \in Path : x = r.path /\ Len(x) = 2
  BY DEF IInv, TypeOK
<1>2. PICK k \in Keys : k = x[1]
  BY <1>1 DEF Path
<1>3. PICK u \in Path : u = <<k>>
  BY OneKey
<1>4. Len(u) = 1 /\ u[1] = k
  BY <1>3
<1>5. IsPrefix(u, x)
  <2>1. \A i \in 1..1 : u[i] = x[i]
    BY <1>2, <1>4
  <2>2. Len(u) <= Len(x) /\ \A i \in 1..Len(u) : u[i] = x[i]
    BY <1>1, <1>4, <2>1
  <2> QED
    BY <2>2, PrefixChar
<1>6. u \in Ancestors(x)
  <2>1. u # x
    BY <1>1, <1>4
  <2> QED
    BY <1>5, <2>1, AncestorChar
<1>7. Ancestors(x) \subseteq DOMAIN containers
  BY <1>1, IInvChar DEF ParentsIn
<1> QED
  BY <1>1, <1>2, <1>3, <1>6, <1>7

\* There is such a function.
LEMMA WithExists ==
    ASSUME IInv, FInv, NEW v \in Vars, NEW tops, Listed(tops), \A i \in 1..Len(tops) : IsTop(tops[i]),
           NEW n \in Nat, n = Len(tops)
    PROVE  \E with : with = [i \in 0..n |-> IF i = 0 THEN <<>>
                                            ELSE with[i - 1] \o Execute(Append(tops[i].path, v), All)]
<1>1. PICK V : V = {Extract(r.path) : r \in Exported(Root)}
  OBVIOUS
<1>2. ASSUME NEW i \in 1..n PROVE Execute(Append(tops[i].path, v), All) \in Seq(V)
  <2>1. PICK h : h = tops[i] /\ IsTop(h)
    OBVIOUS
  <2>2. /\ ~WildcardMatches(Root, Append(h.path, v))
        /\ Execute(Append(h.path, v), All) = General(Append(h.path, v), All)
    BY <2>1, OneLevel
  <2>3. PICK F : F = Found(Append(h.path, v)) /\ F \subseteq Exported(Root)
    BY <2>2, FoundChar
  <2>4. PICK b : IsList(b, F) /\ General(Append(h.path, v), All) = TextsAt(b)
    BY <2>2, <2>3, GeneralOfAll
  <2>5. PICK m \in Nat : m = Len(b)
    BY <2>4 DEF IsList, Listed
  <2>6. \A k \in 1..m : b[k] \in Exported(Root)
    BY <2>3, <2>4, <2>5 DEF IsList, Listed, Range
  <2>7. TextsAt(b) = [k \in 1..m |-> Extract(b[k].path)]
    BY <2>5 DEF TextsAt
  <2>8. \A k \in 1..m : Extract(b[k].path) \in V
    BY <1>1, <2>6
  <2>9. TextsAt(b) \in [1..m -> V]
    BY <2>7, <2>8
  <2>10. TextsAt(b) \in Seq(V)
    BY <2>9
  <2> QED
    BY <2>1, <2>2, <2>4, <2>10
<1>3. PICK S, o : S = Seq(V) /\ o = <<>>
  OBVIOUS
<1>4. PICK e : e = [i \in 1..n |-> Execute(Append(tops[i].path, v), All)]
  OBVIOUS
<1>5. PICK g : g = [i \in 1..n |-> [s \in S |-> s \o e[i]]]
  OBVIOUS
<1>6. g \in [1..n -> [S -> S]]
  <2>1. \A i \in 1..n : e[i] \in Seq(V)
    BY <1>2, <1>4
  <2>2. ASSUME NEW i \in 1..n, NEW s \in S PROVE s \o e[i] \in S
    BY <1>3, <2>1
  <2> QED
    BY <1>5, <2>2
<1>7. o \in S
  BY <1>3
<1>8. PICK f : IsRun(f, n, S, o, g)
  BY <1>6, <1>7, RecursionExists
<1>9. f \in [0..n -> S] /\ f[0] = <<>> /\ \A i \in 1..n : f[i] = g[i][f[i - 1]]
  BY <1>3, <1>8 DEF IsRun
<1>10. ASSUME NEW i \in 1..n PROVE f[i] = f[i - 1] \o Execute(Append(tops[i].path, v), All)
  <2>1. i - 1 \in 0..n
    OBVIOUS
  <2>2. f[i] = f[i - 1] \o e[i]
    BY <1>5, <1>9, <2>1
  <2> QED
    BY <1>4, <2>2
<1>11. \A i \in 0..n : i = 0 \/ i \in 1..n
  OBVIOUS
<1>12. f = [i \in 0..n |-> IF i = 0 THEN <<>> ELSE f[i - 1] \o Execute(Append(tops[i].path, v), All)]
  BY <1>9, <1>10, <1>11
<1> QED
  BY <1>12

\* A pattern with two wildcards gives what its instances give, one after the other
\* in the order of the rows (do_query_wildcard): range scan, matching and order fit
\* together across levels.
THEOREM LevelsAgree == Spec => []LevelsAddUp
<1>1. ASSUME FInv PROVE LevelsAddUp
  <2>1. IInv
    BY <1>1 DEF FInv
  <2>2. PICK tops : tops = RowsInOrder({r \in RowsAt({<<k>> : k \in Keys}) : r.slash})
    OBVIOUS
  <2>3. /\ Listed(tops)
        /\ \A i \in 1..Len(tops) : IsTop(tops[i])
        /\ \A k \in Keys : <<k>> \in DOMAIN containers => \E i \in 1..Len(tops) : tops[i].path = <<k>>
    BY <1>1, <2>1, <2>2, TopsListed
  <2>4. PICK n \in Nat : n = Len(tops)
    BY <2>3 DEF Listed
  <2> SUFFICES ASSUME NEW v \in Vars
               PROVE  LET with[i \in 0..Len(tops)] ==
                              IF i = 0 THEN <<>> ELSE with[i - 1] \o Execute(Append(tops[i].path, v), All)
                      IN Execute(<<Star, v>>, All) = with[Len(tops)]
    <3>1. ASSUME NEW v \in Vars
          PROVE  LET rows == RowsInOrder({r \in RowsAt({<<k>> : k \in Keys}) : r.slash})
                     with[i \in 0..Len(rows)] ==
                         IF i = 0 THEN <<>> ELSE with[i - 1] \o Execute(Append(rows[i].path, v), All)
                 IN Execute(<<Star, v>>, All) = with[Len(rows)]
      BY <2>2
    <3> QED
      BY <3>1, Zenon DEF LevelsAddUp
  <2> DEFINE Good(f) == f = [i \in 0..n |-> IF i = 0 THEN <<>>
                                            ELSE f[i - 1] \o Execute(Append(tops[i].path, v), All)]
  <2>5. PICK with : with = CHOOSE f : Good(f)
    OBVIOUS
  <2>6. Good(with)
    <3>1. \E f : Good(f)
      BY <1>1, <2>1, <2>3, <2>4, WithExists
    <3> HIDE DEF Good
    <3> QED
      BY <2>5, <3>1
  <2>7. PICK c : IsList(c, UpTo(tops, v, n)) /\ with[n] = TextsAt(c)
    BY <1>1, <2>1, <2>3, <2>4, <2>6, LevelsJoin
  <2>8. PICK F : F = Found(<<Star, v>>)
    OBVIOUS
  <2>9. /\ ~WildcardMatches(Root, <<Star, v>>)
        /\ Execute(<<Star, v>>, All) = General(<<Star, v>>, All)
        /\ \A r \in Exported(Root) : r \in F <=> r.path \in DOMAIN containers /\ Len(r.path) = 2
    BY <2>1, <2>8, TwoLevels
  <2>10. PICK b : IsList(b, F) /\ General(<<Star, v>>, All) = TextsAt(b)
    BY <1>1, <2>1, <2>8, <2>9, GeneralOfAll
  <2>11. UpTo(tops, v, n) = F
    <3>1. F \subseteq Exported(Root)
      BY <2>1, <2>8, <2>9, FoundChar
    <3>2. ASSUME NEW r \in UpTo(tops, v, n) PROVE r \in F
      <4>1. PICK j \in 1..n : r \in Exported(Root) /\ r \in Found(Append(tops[j].path, v))
        BY <3>2 DEF UpTo
      <4>2. PICK h : h = tops[j] /\ IsTop(h)
        BY <2>3, <2>4
      <4>3. r.path \in DOMAIN containers /\ Len(r.path) = 2
        BY <2>1, <4>1, <4>2, OneLevel
      <4> QED
        BY <2>9, <4>1, <4>3
    <3>3. ASSUME NEW r \in F PROVE r \in UpTo(tops, v, n)
      <4>1. r \in Exported(Root) /\ r.path \in DOMAIN containers /\ Len(r.path) = 2
        BY <2>9, <3>1
      <4>2. PICK k \in Keys : k = r.path[1] /\ <<k>> \in DOMAIN containers
        BY <2>1, <4>1, HasTop
      <4>3. PICK j \in 1..n : tops[j].path = <<k>>
        BY <2>3, <2>4, <4>2
      <4>4. PICK h : h = tops[j] /\ IsTop(h)
        BY <2>3, <2>4
      <4>5. r.path[1] = h.path[1]
        <5>1. h.path = <<k>>
          BY <4>3, <4>4
        <5>2. h.path[1] = k
          BY <5>1
        <5> QED
          BY <4>2, <5>2
      <4>6. r \in Found(Append(h.path, v))
        BY <2>1, <4>1, <4>4, <4>5, OneLevel
      <4> QED
        BY <4>1, <4>4, <4>6 DEF UpTo
    <3> QED
      BY <3>2, <3>3
  <2>12. Listed(b) /\ Listed(c) /\ Range(b) = Range(c)
    BY <2>7, <2>10, <2>11 DEF IsList
  <2>13. Len(b) = Len(c) /\ \A i \in 1..Len(b) : b[i] = c[i]
    BY <2>12, ListedOnce
  <2>14. TextsAt(b) = TextsAt(c)
    BY <2>13 DEF TextsAt
  <2>15. Execute(<<Star, v>>, All) = with[n]
    BY <2>7, <2>9, <2>10, <2>14
  <2> QED
    BY <2>4, <2>5, <2>15
<1> QED
  BY <1>1, TablesStayFinite, PTL
=============================================================================
