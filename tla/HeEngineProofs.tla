--------------------------- MODULE HeEngineProofs ---------------------------
(***************************************************************************)
(* Facts about paths and texts, the operators of HeDoc, on which all the   *)
(* proofs about the engine rest.                                           *)
(*                                                                         *)
(* And the first of those, for any keys, values, paths, texts and limits.  *)
(* To begin with, the rows of the engine are well formed and no row is an  *)
(* orphan.  Neither invariant is inductive alone: a full update flattens a *)
(* text that extract_json rebuilt, and that is a text only where every row *)
(* has its parents; the rows a call writes have their parents only if what *)
(* was flattened is a text.  Then, what a call leaves alone.               *)
(***************************************************************************)
EXTENDS HeEngine, SequenceTheorems, WellFoundedInduction, TLAPS

-----------------------------------------------------------------------------
(* Numbers *)

\* Any set of naturals that is not empty has a least element.
LEMMA LeastNat ==
    ASSUME NEW B, B \subseteq Nat, B # {}
    PROVE  \E m \in B : \A k \in B : m <= k
<1>1. \E m \in B : \A k \in B : <<k, m>> \notin OpToRel(<, Nat)
  BY NatLessThanWellFounded, WFMin
<1>2. PICK m \in B : \A k \in B : <<k, m>> \notin OpToRel(<, Nat)
  BY <1>1
<1>3. \A k \in B : ~(k < m)
  BY <1>2 DEF OpToRel
<1>4. m \in Nat /\ \A k \in B : k \in Nat
  OBVIOUS
<1> QED
  BY <1>3, <1>4

-----------------------------------------------------------------------------
(* Paths and texts *)

\* A prefix, index by index.
LEMMA PrefixChar ==
    ASSUME NEW p \in Path, NEW q \in Path
    PROVE  IsPrefix(p, q) <=> /\ Len(p) <= Len(q)
                              /\ \A i \in 1..Len(p) : p[i] = q[i]
BY DEF IsPrefix, Path

\* IsPrefix is a partial order.
LEMMA PrefixOrder ==
    ASSUME NEW p \in Path, NEW q \in Path, NEW r \in Path
    PROVE  /\ IsPrefix(p, p)
           /\ IsPrefix(p, q) /\ IsPrefix(q, r) => IsPrefix(p, r)
           /\ IsPrefix(p, q) /\ IsPrefix(q, p) => p = q
<1>1. IsPrefix(p, p)
  BY PrefixChar
<1>2. IsPrefix(p, q) /\ IsPrefix(q, r) => IsPrefix(p, r)
  BY PrefixChar DEF Path
<1>3. IsPrefix(p, q) /\ IsPrefix(q, p) => p = q
  BY PrefixChar, SeqEqual DEF Path
<1> QED
  BY <1>1, <1>2, <1>3

\* A prefix as long as the whole is the whole.
LEMMA PrefixOfSameLength ==
    ASSUME NEW p \in Path, NEW q \in Path, IsPrefix(p, q), Len(p) = Len(q)
    PROVE  p = q
BY PrefixChar, SeqEqual DEF Path

\* Ancestors are the strict prefixes, and shorter.
LEMMA AncestorChar ==
    ASSUME NEW q \in Path
    PROVE  /\ Ancestors(q) \subseteq Path
           /\ \A r \in Path : r \in Ancestors(q) <=> IsPrefix(r, q) /\ r # q
           /\ \A r \in Ancestors(q) : Len(r) < Len(q)
<1>1. \A l \in 0..Len(q) : /\ SubSeq(q, 1, l) \in Path
                           /\ Len(SubSeq(q, 1, l)) = l
                           /\ IsPrefix(SubSeq(q, 1, l), q)
  <2> TAKE l \in 0..Len(q)
  <2>1. l \in Int /\ \A i \in 1..l : q[i] \in Keys
    BY DEF Path
  <2>2. /\ SubSeq(q, 1, l) \in Path
        /\ Len(SubSeq(q, 1, l)) = l
        /\ \A i \in 1..l : SubSeq(q, 1, l)[i] = q[i]
    BY <2>1, SubSeqProperties DEF Path
  <2>3. IsPrefix(SubSeq(q, 1, l), q)
    <3>1. Len(SubSeq(q, 1, l)) <= Len(q)
      BY <2>2 DEF Path
    <3> QED
      BY <2>2, <3>1, PrefixChar
  <2> QED
    BY <2>2, <2>3
<1>2. \A r \in Path : IsPrefix(r, q) => r \in Prefixes(q)
  <2> SUFFICES ASSUME NEW r \in Path, IsPrefix(r, q)
               PROVE  r \in Prefixes(q)
    OBVIOUS
  <2>1. Len(r) \in 0..Len(q)
    BY PrefixChar DEF Path
  <2>2. r = SubSeq(q, 1, Len(r))
    BY SubSeqFull DEF IsPrefix, Path
  <2> QED
    BY <2>1, <2>2 DEF Prefixes
<1>3. \A r \in Prefixes(q) : r \in Path /\ IsPrefix(r, q) /\ Len(r) <= Len(q)
  <2> TAKE r \in Prefixes(q)
  <2>1. PICK l \in 0..Len(q) : r = SubSeq(q, 1, l)
    BY DEF Prefixes
  <2>2. r \in Path /\ IsPrefix(r, q)
    BY <1>1, <2>1
  <2> QED
    BY <2>2, PrefixChar
<1>4. \A r \in Ancestors(q) : Len(r) < Len(q)
  <2> TAKE r \in Ancestors(q)
  <2>1. r \in Path /\ IsPrefix(r, q) /\ Len(r) <= Len(q) /\ r # q
    BY <1>3 DEF Ancestors
  <2>2. Len(r) # Len(q)
    BY <2>1, PrefixOfSameLength
  <2> QED
    BY <2>1, <2>2 DEF Path
<1> QED
  BY <1>2, <1>3, <1>4 DEF Ancestors

\* An ancestor of an ancestor is an ancestor.
LEMMA AncestorTrans ==
    ASSUME NEW q \in Path, NEW r \in Ancestors(q)
    PROVE  Ancestors(r) \subseteq Ancestors(q)
<1>1. r \in Path /\ IsPrefix(r, q) /\ Len(r) < Len(q)
  BY AncestorChar
<1>2. ASSUME NEW s \in Ancestors(r) PROVE s \in Ancestors(q)
  <2>1. s \in Path /\ IsPrefix(s, r) /\ Len(s) < Len(r)
    BY <1>1, AncestorChar
  <2>2. IsPrefix(s, q)
    BY <1>1, <2>1, PrefixOrder
  <2>3. s # q
    BY <1>1, <2>1 DEF Path
  <2> QED
    BY <2>1, <2>2, <2>3, AncestorChar
<1> QED
  BY <1>2

\* The empty path.
LEMMA RootIsPath == Root \in Path /\ Len(Root) = 0 /\ Ancestors(Root) = {}
<1>1. Root \in Path /\ Len(Root) = 0
  BY DEF Root, Path
<1>2. ASSUME NEW r \in Ancestors(Root) PROVE FALSE
  <2>1. r \in Path /\ Len(r) < Len(Root)
    BY <1>1, AncestorChar
  <2> QED
    BY <1>1, <2>1 DEF Path
<1> QED
  BY <1>1, <1>2

\* p \o x is below p, and x is what Rel gives back.
LEMMA ConcatChar ==
    ASSUME NEW p \in Path, NEW x \in Path
    PROVE  /\ p \o x \in Path
           /\ Len(p \o x) = Len(p) + Len(x)
           /\ IsPrefix(p, p \o x)
           /\ Rel(p, p \o x) = x
           /\ p \o x = p <=> x = Root
<1>1. /\ p \o x \in Path
      /\ Len(p \o x) = Len(p) + Len(x)
      /\ \A i \in 1..Len(p) + Len(x) :
            (p \o x)[i] = IF i <= Len(p) THEN p[i] ELSE x[i - Len(p)]
  BY ConcatProperties DEF Path
<1>2. IsPrefix(p, p \o x)
  <2>1. Len(p) \in Nat /\ Len(x) \in Nat
    BY DEF Path
  <2>2. Len(p) <= Len(p \o x)
    BY <1>1, <2>1
  <2>3. \A i \in 1..Len(p) : p[i] = (p \o x)[i]
    BY <1>1, <2>1
  <2> QED
    BY <1>1, <2>2, <2>3, PrefixChar
<1>3. Rel(p, p \o x) = x
  <2> DEFINE s == SubSeq(p \o x, Len(p) + 1, Len(p \o x))
  <2>1. /\ Len(p) + 1 \in Int /\ Len(p \o x) \in Int
        /\ \A i \in Len(p) + 1 .. Len(p \o x) : (p \o x)[i] \in Keys
    BY <1>1 DEF Path
  <2>2. /\ s \in Seq(Keys)
        /\ Len(s) = IF Len(p) + 1 <= Len(p \o x) THEN Len(p \o x) - (Len(p) + 1) + 1 ELSE 0
        /\ \A i \in 1 .. Len(p \o x) - (Len(p) + 1) + 1 : s[i] = (p \o x)[Len(p) + 1 + i - 1]
    BY <2>1, SubSeqProperties
  <2>3. Len(s) = Len(x)
    BY <1>1, <2>2 DEF Path
  <2>4. \A i \in 1..Len(s) : s[i] = x[i]
    BY <1>1, <2>2, <2>3 DEF Path
  <2>5. s = x
    BY <2>2, <2>3, <2>4, SeqEqual DEF Path
  <2> QED
    BY <2>5 DEF Rel
<1>4. p \o x = p <=> x = Root
  BY ConcatEqualIffEmpty DEF Path, Root
<1> QED
  BY <1>1, <1>2, <1>3, <1>4

\* The segments of a path below p.
LEMMA ConcatAt ==
    ASSUME NEW p \in Path, NEW x \in Path
    PROVE  /\ \A i \in 1..Len(p) : (p \o x)[i] = p[i]
           /\ \A i \in 1..Len(x) : (p \o x)[Len(p) + i] = x[i]
<1>1. \A i \in 1..Len(p) + Len(x) : (p \o x)[i] = IF i <= Len(p) THEN p[i] ELSE x[i - Len(p)]
  BY ConcatProperties DEF Path
<1>2. Len(p) \in Nat /\ Len(x) \in Nat
  BY DEF Path
<1>3. \A i \in 1..Len(p) : (p \o x)[i] = p[i]
  BY <1>1, <1>2
<1>4. ASSUME NEW i \in 1..Len(x) PROVE (p \o x)[Len(p) + i] = x[i]
  <2>1. Len(p) + i \in 1..Len(p) + Len(x) /\ ~(Len(p) + i <= Len(p)) /\ Len(p) + i - Len(p) = i
    BY <1>2
  <2> QED
    BY <1>1, <2>1
<1> QED
  BY <1>3, <1>4

\* Paths below p are above each other as they are without p.
LEMMA ConcatPrefix ==
    ASSUME NEW p \in Path, NEW x \in Path, NEW y \in Path
    PROVE  /\ IsPrefix(p \o x, p \o y) <=> IsPrefix(x, y)
           /\ p \o x = p \o y <=> x = y
<1>1. /\ p \o x \in Path /\ Len(p \o x) = Len(p) + Len(x) /\ Rel(p, p \o x) = x
      /\ p \o y \in Path /\ Len(p \o y) = Len(p) + Len(y) /\ Rel(p, p \o y) = y
  BY ConcatChar
<1>2. Len(p) \in Nat /\ Len(x) \in Nat /\ Len(y) \in Nat
  BY DEF Path
<1>3. /\ \A i \in 1..Len(x) : (p \o x)[Len(p) + i] = x[i]
      /\ \A i \in 1..Len(y) : (p \o y)[Len(p) + i] = y[i]
      /\ \A i \in 1..Len(p) : (p \o x)[i] = p[i] /\ (p \o y)[i] = p[i]
  BY ConcatAt
<1>4. IsPrefix(p \o x, p \o y) => IsPrefix(x, y)
  <2> SUFFICES ASSUME IsPrefix(p \o x, p \o y) PROVE IsPrefix(x, y)
    OBVIOUS
  <2>1. /\ Len(p \o x) <= Len(p \o y)
        /\ \A i \in 1..Len(p \o x) : (p \o x)[i] = (p \o y)[i]
    BY <1>1, PrefixChar
  <2>2. Len(x) <= Len(y)
    BY <1>1, <1>2, <2>1
  <2>3. \A i \in 1..Len(x) : x[i] = y[i]
    <3> TAKE i \in 1..Len(x)
    <3>1. Len(p) + i \in 1..Len(p \o x) /\ i \in 1..Len(y)
      BY <1>1, <1>2, <2>2
    <3> QED
      BY <1>3, <2>1, <3>1
  <2> QED
    BY <2>2, <2>3, PrefixChar
<1>5. IsPrefix(x, y) => IsPrefix(p \o x, p \o y)
  <2> SUFFICES ASSUME IsPrefix(x, y) PROVE IsPrefix(p \o x, p \o y)
    OBVIOUS
  <2>1. Len(x) <= Len(y) /\ \A i \in 1..Len(x) : x[i] = y[i]
    BY PrefixChar
  <2>2. Len(p \o x) <= Len(p \o y)
    BY <1>1, <1>2, <2>1
  <2>3. \A i \in 1..Len(p \o x) : (p \o x)[i] = (p \o y)[i]
    <3> TAKE i \in 1..Len(p \o x)
    <3>1. CASE i <= Len(p)
      BY <1>1, <1>2, <1>3, <3>1
    <3>2. CASE ~(i <= Len(p))
      <4>1. PICK j \in 1..Len(x) : i = Len(p) + j
        <5>1. i - Len(p) \in 1..Len(x) /\ i = Len(p) + (i - Len(p))
          BY <1>1, <1>2, <3>2
        <5> QED
          BY <5>1
      <4>2. j \in 1..Len(y)
        BY <1>2, <2>1
      <4> QED
        BY <1>3, <2>1, <4>1, <4>2
    <3> QED
      BY <3>1, <3>2
  <2> QED
    BY <1>1, <2>2, <2>3, PrefixChar
<1> QED
  BY <1>1, <1>4, <1>5

\* A path at or below p is p followed by its Rel.
LEMMA RelChar ==
    ASSUME NEW p \in Path, NEW q \in Path, IsPrefix(p, q)
    PROVE  Rel(p, q) \in Path /\ q = p \o Rel(p, q)
<1>1. Len(p) <= Len(q) /\ \A i \in 1..Len(p) : p[i] = q[i]
  BY PrefixChar
<1> DEFINE s == Rel(p, q)
<1>2. /\ Len(p) + 1 \in Int /\ Len(q) \in Int
      /\ \A i \in Len(p) + 1 .. Len(q) : q[i] \in Keys
  BY DEF Path
<1>3. /\ s \in Seq(Keys)
      /\ Len(s) = IF Len(p) + 1 <= Len(q) THEN Len(q) - (Len(p) + 1) + 1 ELSE 0
      /\ \A i \in 1 .. Len(q) - (Len(p) + 1) + 1 : s[i] = q[Len(p) + 1 + i - 1]
  BY <1>2, SubSeqProperties DEF Rel
<1>4. /\ p \o s \in Path
      /\ Len(p \o s) = Len(p) + Len(s)
      /\ \A i \in 1..Len(p) + Len(s) :
            (p \o s)[i] = IF i <= Len(p) THEN p[i] ELSE s[i - Len(p)]
  BY <1>3, ConcatProperties DEF Path
<1>5. Len(p \o s) = Len(q)
  BY <1>1, <1>3, <1>4 DEF Path
<1>6. \A i \in 1..Len(q) : (p \o s)[i] = q[i]
  BY <1>1, <1>3, <1>4, <1>5 DEF Path
<1>7. p \o s = q
  BY <1>4, <1>5, <1>6, SeqEqual DEF Path
<1> QED
  BY <1>3, <1>7 DEF Path

\* Of two prefixes of one path, the shorter is a prefix of the longer.
LEMMA PrefixesComparable ==
    ASSUME NEW p \in Path, NEW r \in Path, NEW q \in Path,
           IsPrefix(p, q), IsPrefix(r, q), Len(p) <= Len(r)
    PROVE  IsPrefix(p, r)
BY PrefixChar DEF Path

\* The ancestors of p \o x are those of p, and p followed by those of x.
LEMMA AncestorsOfConcat ==
    ASSUME NEW p \in Path, NEW x \in Path, NEW r \in Ancestors(p \o x)
    PROVE  r \in Ancestors(p) \/ \E y \in Ancestors(x) : r = p \o y
<1>1. p \o x \in Path /\ Len(p \o x) = Len(p) + Len(x) /\ IsPrefix(p, p \o x)
  BY ConcatChar
<1>2. r \in Path /\ IsPrefix(r, p \o x) /\ r # p \o x
  BY <1>1, AncestorChar
<1>3. CASE Len(r) < Len(p)
  <2>1. IsPrefix(r, p)
    <3>1. Len(r) <= Len(p)
      BY <1>2, <1>3 DEF Path
    <3> QED
      BY <1>1, <1>2, <3>1, PrefixesComparable
  <2> QED
    BY <1>2, <1>3, <2>1, AncestorChar
<1>4. CASE Len(p) <= Len(r)
  <2>1. IsPrefix(p, r)
    BY <1>1, <1>2, <1>4, PrefixesComparable
  <2> DEFINE y == Rel(p, r)
  <2>2. y \in Path /\ r = p \o y
    BY <1>2, <2>1, RelChar
  <2>3. IsPrefix(y, x) /\ y # x
    <3>1. /\ Len(p \o y) = Len(p) + Len(y)
          /\ \A i \in 1..Len(p) + Len(y) :
                (p \o y)[i] = IF i <= Len(p) THEN p[i] ELSE y[i - Len(p)]
      BY <2>2, ConcatProperties DEF Path
    <3>2. \A i \in 1..Len(p) + Len(x) :
                (p \o x)[i] = IF i <= Len(p) THEN p[i] ELSE x[i - Len(p)]
      BY ConcatProperties DEF Path
    <3>3. Len(r) <= Len(p \o x) /\ \A i \in 1..Len(r) : r[i] = (p \o x)[i]
      BY <1>1, <1>2, PrefixChar
    <3>4. Len(y) <= Len(x)
      BY <1>1, <2>2, <3>1, <3>3 DEF Path
    <3>5. ASSUME NEW i \in 1..Len(y) PROVE y[i] = x[i]
      <4>1. Len(p) + i \in 1..Len(r) /\ ~(Len(p) + i <= Len(p)) /\ (Len(p) + i) - Len(p) = i
        BY <2>2, <3>1 DEF Path
      <4>2. r[Len(p) + i] = y[i]
        BY <4>1, <2>2, <3>1 DEF Path
      <4>3. (p \o x)[Len(p) + i] = x[i]
        BY <4>1, <3>2, <3>4, <2>2 DEF Path
      <4> QED
        BY <4>1, <4>2, <4>3, <3>3
    <3>6. IsPrefix(y, x)
      BY <2>2, <3>4, <3>5, PrefixChar
    <3> QED
      BY <1>2, <2>2, <3>6
  <2> HIDE DEF y
  <2>4. y \in Ancestors(x)
    BY <2>2, <2>3, AncestorChar
  <2> QED
    BY <2>2, <2>4
<1> QED
  BY <1>1, <1>2, <1>3, <1>4 DEF Path

-----------------------------------------------------------------------------
(***************************************************************************)
(* Texts                                                                   *)
(***************************************************************************)

\* Leaving the nulls out of a text leaves a text.
LEMMA ContentIsText ==
    ASSUME NEW t, IsText(t), t[Root] # Null
    PROVE  IsText(Content(t)) /\ Content(t)[Root] = t[Root]
<1> DEFINE D == {x \in DOMAIN t : t[x] # Null}
<1>1. DOMAIN Content(t) = D /\ \A x \in D : Content(t)[x] = t[x]
  BY DEF Content, Restrict
<1>2. \A x \in D : \A y \in Ancestors(x) : y \in D /\ t[y] = Obj
  BY ItemAssumption DEF IsText
<1> QED
  BY <1>1, <1>2 DEF IsText

\* A merge of two texts is a text: no entry is left below a scalar.
LEMMA MergeIsText ==
    ASSUME NEW c, IsText(c), NEW u, IsText(u), u[Root] = Obj
    PROVE  IsText(Merge(c, u)) /\ Merge(c, u)[Root] = Obj
<1> DEFINE C == {x \in DOMAIN u : Copied(c, u, x)}
           S == {x \in DOMAIN c : Survives(c, u, x)}
           m == Merge(c, u)
<1>1. /\ DOMAIN m = C \cup S
      /\ \A x \in C : m[x] = u[x]
      /\ \A x \in S : x \notin C => m[x] = c[x]
  BY DEF Merge, Override, Restrict
<1> HIDE DEF m
<1>2. \A x \in DOMAIN u : u[x] = Obj => x \in C
  BY ItemAssumption DEF Copied
<1>3. Root \in DOMAIN m /\ m[Root] = Obj
  BY <1>1, <1>2 DEF IsText
<1>4. DOMAIN m \subseteq Path /\ \A x \in DOMAIN m : m[x] \in Item
  BY <1>1 DEF IsText
<1>5. ASSUME NEW x \in DOMAIN m, NEW y \in Ancestors(x)
      PROVE  y \in DOMAIN m /\ m[y] = Obj
  <2>1. CASE x \in C
    <3>1. y \in DOMAIN u /\ u[y] = Obj
      BY <2>1 DEF IsText
    <3> QED
      BY <3>1, <1>1, <1>2
  <2>2. CASE x \in S
    <3>1. y \in DOMAIN c /\ c[y] = Obj
      BY <2>2 DEF IsText
    <3>2. x \in Path /\ y \in Path /\ Ancestors(y) \subseteq Ancestors(x)
      BY <1>4, AncestorChar, AncestorTrans
    <3>3. Prefixes(y) \subseteq Prefixes(x)
      BY <3>2 DEF Ancestors
    <3>4. Survives(c, u, y)
      BY <3>3, <2>2 DEF Survives
    <3>5. CASE y \in DOMAIN u
      <4>1. y \in Prefixes(x)
        BY DEF Ancestors
      <4>2. u[y] = Obj
        BY <4>1, <3>5, <2>2 DEF Survives
      <4> QED
        BY <4>2, <3>5, <1>1, <1>2
    <3>6. CASE y \notin DOMAIN u
      BY <3>1, <3>4, <3>6, <1>1
    <3> QED
      BY <3>5, <3>6
  <2> QED
    BY <1>1, <2>1, <2>2
<1> QED
  BY <1>3, <1>4, <1>5 DEF IsText, m

\* The update that EachChild builds is a text.
LEMMA EachChildIsText ==
    ASSUME NEW c, IsText(c), NEW u, IsText(u), u[Root] = Obj
    PROVE  IsText(EachChild(c, u)) /\ EachChild(c, u)[Root] = Obj
<1> DEFINE K == ChildPaths(c, Root)
           D == {Root} \cup {y \o z : y \in K, z \in DOMAIN u}
           e == EachChild(c, u)
<1>1. /\ DOMAIN e = D
      /\ e[Root] = Obj
      /\ \A x \in D : x # Root => e[x] = u[Rel(SubSeq(x, 1, 1), x)]
  BY DEF EachChild
<1>a. \A y \in K, z \in DOMAIN u : y \o z \in D
  OBVIOUS
<1>b. \A x \in D : x = Root \/ \E y \in K, z \in DOMAIN u : x = y \o z
  OBVIOUS
<1>c. K \subseteq {y \in DOMAIN c : y # Root /\ Front(y) = Root}
  BY DEF ChildPaths
<1>d. Root \in D
  OBVIOUS
<1> HIDE DEF e, D, K
<1>2. ASSUME NEW y \in K PROVE y \in Path /\ Len(y) = 1 /\ Ancestors(y) = {Root}
  <2>1. y \in Path /\ y # Root /\ Front(y) = Root
    BY <1>c DEF IsText
  <2>2. Len(y) \in Nat /\ Len(y) > 0
    BY <2>1, EmptySeq DEF Path, Root
  <2>3. Len(y) - 1 \in Int /\ \A i \in 1..Len(y) - 1 : y[i] \in Keys
    BY <2>1, <2>2 DEF Path
  <2>4. Len(Front(y)) = IF 1 <= Len(y) - 1 THEN Len(y) - 1 - 1 + 1 ELSE 0
    BY <2>3, SubSeqProperties DEF Front
  <2>5. Len(y) = 1
    <3>1. Len(Front(y)) = 0
      BY <2>1, RootIsPath
    <3>2. ASSUME NEW n \in Nat, n > 0, 0 = IF 1 <= n - 1 THEN n - 1 - 1 + 1 ELSE 0
          PROVE  n = 1
      BY <3>2
    <3> QED
      BY <3>1, <3>2, <2>2, <2>4
  <2>6. \A r \in Ancestors(y) : r = Root
    <3> TAKE r \in Ancestors(y)
    <3>1. r \in Path /\ Len(r) < 1
      BY <2>1, <2>5, AncestorChar
    <3> QED
      BY <3>1, EmptySeq DEF Path, Root
  <2>7. Root \in Ancestors(y)
    <3>1. IsPrefix(Root, y)
      BY <2>1, RootIsPath, PrefixChar, <2>2
    <3> QED
      BY <3>1, <2>1, RootIsPath, AncestorChar
  <2> QED
    BY <2>1, <2>5, <2>6, <2>7
<1>3. ASSUME NEW y \in K, NEW z \in DOMAIN u
      PROVE  y \o z \in Path /\ y \o z # Root /\ e[y \o z] = u[z] /\ y \o z \in D
  <2>1. y \in Path /\ Len(y) = 1 /\ z \in Path
    BY <1>2 DEF IsText
  <2>2. /\ y \o z \in Path /\ Len(y \o z) = Len(y) + Len(z)
        /\ IsPrefix(y, y \o z) /\ Rel(y, y \o z) = z
    BY <2>1, ConcatChar
  <2>3. y \o z # Root
    BY <2>1, <2>2, RootIsPath DEF Path
  <2>4. SubSeq(y \o z, 1, 1) = y
    BY <2>1, <2>2, SubSeqFull DEF IsPrefix, Path
  <2>5. y \o z \in D
    BY <1>a
  <2> QED
    BY <1>1, <2>2, <2>3, <2>4, <2>5
<1>4. DOMAIN e \subseteq Path /\ \A x \in DOMAIN e : e[x] \in Item
  <2> SUFFICES ASSUME NEW x \in D PROVE x \in Path /\ e[x] \in Item
    BY <1>1
  <2>1. CASE x = Root
    BY <2>1, <1>1, RootIsPath DEF Item
  <2>2. CASE x # Root
    <3>1. PICK y \in K, z \in DOMAIN u : x = y \o z
      BY <2>2, <1>b
    <3>2. x \in Path /\ e[x] = u[z] /\ u[z] \in Item
      BY <3>1, <1>3 DEF IsText
    <3> QED
      BY <3>2
  <2> QED
    BY <2>1, <2>2
<1>5. ASSUME NEW x \in DOMAIN e, NEW r \in Ancestors(x)
      PROVE  r \in DOMAIN e /\ e[r] = Obj
  <2>1. x # Root
    BY RootIsPath
  <2>2. PICK y \in K, z \in DOMAIN u : x = y \o z
    BY <1>1, <1>b, <2>1
  <2>3. y \in Path /\ z \in Path
    BY <1>2 DEF IsText
  <2>4. r \in Ancestors(y) \/ \E w \in Ancestors(z) : r = y \o w
    BY <2>2, <2>3, AncestorsOfConcat
  <2>5. CASE r \in Ancestors(y)
    BY <2>5, <1>1, <1>2, <1>d
  <2>6. CASE \E w \in Ancestors(z) : r = y \o w
    <3>1. PICK w \in Ancestors(z) : r = y \o w
      BY <2>6
    <3>2. w \in DOMAIN u /\ u[w] = Obj
      BY DEF IsText
    <3>3. y \o w \in D /\ e[y \o w] = u[w]
      BY <3>2, <1>3
    <3> QED
      BY <3>1, <3>2, <3>3, <1>1
  <2> QED
    BY <2>4, <2>5, <2>6
<1>6. IsText(e) /\ e[Root] = Obj
  BY <1>1, <1>4, <1>5, <1>d DEF IsText
<1> QED
  BY <1>6 DEF e

\* What leads to a node has a child on the way.
LEMMA ParentHasChild ==
    ASSUME NEW t, IsText(t), NEW x \in DOMAIN t, NEW y \in Ancestors(x)
    PROVE  ChildPaths(t, y) # {}
<1>1. x \in Path
  BY DEF IsText
<1>2. y \in Path /\ Len(y) < Len(x) /\ IsPrefix(y, x)
  BY <1>1, AncestorChar
<1> DEFINE z == SubSeq(x, 1, Len(y) + 1)
<1>3. /\ Len(y) + 1 \in Nat /\ Len(y) + 1 <= Len(x)
      /\ \A i \in 1..Len(y) + 1 : x[i] \in Keys
  BY <1>1, <1>2 DEF Path
<1>4. /\ z \in Path /\ Len(z) = Len(y) + 1
      /\ \A i \in 1..Len(y) + 1 : z[i] = x[i]
  BY <1>3, SubSeqProperties DEF Path
<1>5. z \in Prefixes(x)
  BY <1>3 DEF Prefixes
<1>6. z \in DOMAIN t
  <2>1. CASE z = x
    BY <2>1, <1>1
  <2>2. CASE z # x
    <3>1. z \in Ancestors(x)
      BY <1>5, <2>2 DEF Ancestors
    <3> QED
      BY <3>1, <1>1 DEF IsText
  <2> QED
    BY <2>1, <2>2
<1>7. Front(z) = y
  <2>1. Len(y) \in Nat /\ Len(z) - 1 = Len(y) /\ \A i \in 1..Len(y) : z[i] \in Keys
    BY <1>2, <1>3, <1>4 DEF Path
  <2>2. /\ SubSeq(z, 1, Len(y)) \in Seq(Keys)
        /\ Len(SubSeq(z, 1, Len(y))) = Len(y)
        /\ \A i \in 1..Len(y) : SubSeq(z, 1, Len(y))[i] = z[i]
    BY <2>1, SubSeqProperties
  <2>3. \A i \in 1..Len(y) : y[i] = x[i] /\ z[i] = x[i]
    BY <1>1, <1>2, <1>4, <2>1, PrefixChar
  <2>4. SubSeq(z, 1, Len(y)) = y
    BY <1>2, <2>2, <2>3, SeqEqual DEF Path
  <2> QED
    BY <2>1, <2>4 DEF Front
<1>8. z # Root
  BY <1>2, <1>4, RootIsPath DEF Path
<1> QED
  BY <1>6, <1>7, <1>8 DEF ChildPaths

\* What leads to a row of a text is a container row of the text.
LEMMA FlattenClosed ==
    ASSUME NEW t, IsText(t), NEW limit,
           NEW x \in ContainerPaths(t, limit) \cup PrimitivePaths(t, limit),
           NEW y \in Ancestors(x)
    PROVE  y \in ContainerPaths(t, limit)
<1>1. x # Root /\ x \in DOMAIN t /\ x \in Path
  BY RootIsPath DEF ContainerPaths, PrimitivePaths, DedicatedPaths, Stored, IsText
<1>2. y \in DOMAIN t /\ t[y] = Obj
  BY <1>1 DEF IsText
<1>3. CASE y = Root
  BY <1>3 DEF ContainerPaths
<1>4. CASE y # Root
  <2>1. ChildPaths(t, y) # {}
    BY <1>1, ParentHasChild
  <2>2. ~FitsInline(t, y, limit)
    BY <1>2, <2>1 DEF FitsInline
  <2>3. Stored(t, y)
    BY <1>2, <1>4, ItemAssumption DEF Stored
  <2> QED
    BY <1>2, <2>2, <2>3 DEF ContainerPaths, DedicatedPaths
<1> QED
  BY <1>3, <1>4

\* The rows of a text hold what the columns admit.
LEMMA FlattenTypes ==
    ASSUME NEW t, IsText(t), NEW limit
    PROVE  /\ ContainerPaths(t, limit) \subseteq Path
           /\ PrimitivePaths(t, limit) \subseteq Path
           /\ \A x \in PrimitivePaths(t, limit) : t[x] \in Values
           /\ \A x : InlineEntries(t, x, limit) \in UNION {[K -> Item] : K \in SUBSET Keys}
<1>1. ContainerPaths(t, limit) \subseteq Path /\ PrimitivePaths(t, limit) \subseteq Path
  BY RootIsPath DEF ContainerPaths, PrimitivePaths, DedicatedPaths, IsText
<1>2. \A x \in PrimitivePaths(t, limit) : t[x] \in Values
  BY DEF PrimitivePaths, DedicatedPaths, Stored, IsText, Item
<1>3. ASSUME NEW x PROVE InlineEntries(t, x, limit) \in UNION {[K -> Item] : K \in SUBSET Keys}
  <2> DEFINE K == {k \in Keys : Append(x, k) \in InlinePaths(t, limit)}
  <2>1. \A k \in K : t[Append(x, k)] \in Item
    BY DEF InlinePaths, IsText
  <2>2. InlineEntries(t, x, limit) \in [K -> Item]
    BY <2>1 DEF InlineEntries
  <2>3. K \in SUBSET Keys
    OBVIOUS
  <2> QED
    BY <2>2, <2>3
<1> QED
  BY <1>1, <1>2, <1>3

-----------------------------------------------------------------------------
(* The invariant *)

IInv == TypeOK /\ AncestorClosed

\* The two tables and the parents of a set of rows, as predicates on functions.
ContainersOK(c)  == DOMAIN c \subseteq Path /\ \A q \in DOMAIN c : c[q] \in ContainerRow
PrimitivesOK(r)  == DOMAIN r \subseteq Path /\ \A q \in DOMAIN r : r[q] \in PrimitiveRow
ParentsIn(S, c)  == \A q \in S : Ancestors(q) \subseteq DOMAIN c

\* The invariant by the two tables.
LEMMA IInvChar ==
    IInv <=> /\ ContainersOK(containers) /\ PrimitivesOK(primitives)
             /\ ParentsIn(DOMAIN containers, containers)
             /\ ParentsIn(DOMAIN primitives, containers)
             /\ DOMAIN hashes \subseteq Path
             /\ \A q \in DOMAIN hashes : /\ IsText(hashes[q].text)
                                         /\ hashes[q].limit \in Nat
                                         /\ hashes[q].rev \in Nat
             /\ clock \in 0..MaxWrites
BY DEF IInv, TypeOK, AncestorClosed, ContainersOK, PrimitivesOK, ParentsIn

-----------------------------------------------------------------------------
(* Functions put over one another *)

\* What is put over counts, the rest stays.
LEMMA OverrideChar ==
    ASSUME NEW n, NEW o
    PROVE  /\ DOMAIN Override(n, o) = DOMAIN n \cup DOMAIN o
           /\ \A q \in DOMAIN n : Override(n, o)[q] = n[q]
           /\ \A q \in DOMAIN o : q \notin DOMAIN n => Override(n, o)[q] = o[q]
BY DEF Override

\* Of containers.
LEMMA OverrideContainers ==
    ASSUME NEW n, NEW o, ContainersOK(n), ContainersOK(o)
    PROVE  ContainersOK(Override(n, o))
<1> DEFINE m == Override(n, o)
<1>1. /\ DOMAIN m = DOMAIN n \cup DOMAIN o
      /\ \A q \in DOMAIN n : m[q] = n[q]
      /\ \A q \in DOMAIN o : q \notin DOMAIN n => m[q] = o[q]
  BY OverrideChar
<1> HIDE DEF m
<1>2. ContainersOK(m)
  BY <1>1 DEF ContainersOK
<1> QED
  BY <1>2 DEF m

\* Of primitives.
LEMMA OverridePrimitives ==
    ASSUME NEW n, NEW o, PrimitivesOK(n), PrimitivesOK(o)
    PROVE  PrimitivesOK(Override(n, o))
<1> DEFINE m == Override(n, o)
<1>1. /\ DOMAIN m = DOMAIN n \cup DOMAIN o
      /\ \A q \in DOMAIN n : m[q] = n[q]
      /\ \A q \in DOMAIN o : q \notin DOMAIN n => m[q] = o[q]
  BY OverrideChar
<1> HIDE DEF m
<1>2. PrimitivesOK(m)
  BY <1>1 DEF PrimitivesOK
<1> QED
  BY <1>2 DEF m

\* What is left of a table is as it was.
LEMMA RestrictChar ==
    ASSUME NEW f, NEW S, S \subseteq DOMAIN f
    PROVE  /\ DOMAIN Restrict(f, S) = S
           /\ \A q \in S : Restrict(f, S)[q] = f[q]
           /\ ContainersOK(f) => ContainersOK(Restrict(f, S))
           /\ PrimitivesOK(f) => PrimitivesOK(Restrict(f, S))
BY DEF Restrict, ContainersOK, PrimitivesOK

\* An empty container is a row.
LEMMA FreshRowOK ==
    ASSUME NEW rev \in Nat, NEW nr \in Nat
    PROVE  [inline |-> Nothing, rev |-> rev, nr |-> nr] \in ContainerRow
<1>1. Nothing \in [{} -> Item]
  BY DEF Nothing
<1>2. Nothing \in UNION {[K -> Item] : K \in SUBSET Keys}
  BY <1>1
<1> QED
  BY <1>2 DEF ContainerRow

-----------------------------------------------------------------------------
(* The statements *)

\* ensure_intermediate_paths keeps the rows and adds exactly those that lead to p.
LEMMA EnsureChar ==
    ASSUME NEW c, NEW p \in Path, NEW rev \in Nat, ContainersOK(c)
    PROVE  /\ ContainersOK(EnsureIntermediate(c, p, rev))
           /\ DOMAIN EnsureIntermediate(c, p, rev) = DOMAIN c \cup Ancestors(p) \cup {Root}
           /\ ParentsIn(DOMAIN c, c) =>
                ParentsIn(DOMAIN EnsureIntermediate(c, p, rev), EnsureIntermediate(c, p, rev))
           /\ RevisionNr(EnsureIntermediate(c, p, rev), p) \in Nat
<1> DEFINE n == [q \in Ancestors(p) \cup {Root} |-> [inline |-> Nothing, rev |-> rev, nr |-> 1]]
           e == EnsureIntermediate(c, p, rev)
<1>1. e = Override(c, n) /\ DOMAIN n = Ancestors(p) \cup {Root}
  BY DEF EnsureIntermediate
<1>2. ContainersOK(n)
  <2>1. \A q \in DOMAIN n : n[q] = [inline |-> Nothing, rev |-> rev, nr |-> 1]
    OBVIOUS
  <2>2. DOMAIN n \subseteq Path
    BY <1>1, AncestorChar, RootIsPath
  <2>3. [inline |-> Nothing, rev |-> rev, nr |-> 1] \in ContainerRow
    BY FreshRowOK
  <2> QED
    BY <2>1, <2>2, <2>3 DEF ContainersOK
<1> HIDE DEF n, e
<1>3. ContainersOK(e)
  BY <1>1, <1>2, OverrideContainers
<1>4. DOMAIN e = DOMAIN c \cup Ancestors(p) \cup {Root}
  <2>1. DOMAIN Override(c, n) = DOMAIN c \cup DOMAIN n
    BY OverrideChar, Zenon
  <2> QED
    BY <1>1, <2>1
<1>5. ASSUME ParentsIn(DOMAIN c, c) PROVE ParentsIn(DOMAIN e, e)
  <2>1. \A q \in DOMAIN c : Ancestors(q) \subseteq DOMAIN e
    BY <1>4, <1>5 DEF ParentsIn
  <2>2. \A q \in Ancestors(p) : Ancestors(q) \subseteq DOMAIN e
    BY <1>4, AncestorTrans
  <2>3. Ancestors(Root) \subseteq DOMAIN e
    BY RootIsPath
  <2> QED
    BY <1>4, <2>1, <2>2, <2>3 DEF ParentsIn
<1>6. RevisionNr(e, p) \in Nat
  BY <1>3 DEF RevisionNr, ContainersOK, ContainerRow
<1> QED
  BY <1>3, <1>4, <1>5, <1>6 DEF e

\* The range that the deletion of p leaves has its own parents.
LEMMA OutsideChar ==
    ASSUME IInv, NEW p \in Path
    PROVE  LET c == Restrict(containers, Outside(p)) IN
           /\ ContainersOK(c) /\ DOMAIN c = Outside(p) /\ ParentsIn(DOMAIN c, c)
           /\ PrimitivesOK(Restrict(primitives, OutsideStrictly(p)))
           /\ DOMAIN Restrict(primitives, OutsideStrictly(p)) = OutsideStrictly(p)
           /\ ParentsIn(OutsideStrictly(p), c)
<1> DEFINE c == Restrict(containers, Outside(p))
<1>1. ContainersOK(c) /\ DOMAIN c = Outside(p)
  BY IInvChar, RestrictChar DEF Outside
<1>2. /\ PrimitivesOK(Restrict(primitives, OutsideStrictly(p)))
      /\ DOMAIN Restrict(primitives, OutsideStrictly(p)) = OutsideStrictly(p)
  BY IInvChar, RestrictChar DEF OutsideStrictly
<1>3. ASSUME NEW q \in Path, NEW r \in Ancestors(q), r \in DOMAIN containers,
             ~IsStrictPrefix(p, q)
      PROVE  r \in Outside(p)
  <2>1. r \in Path /\ IsPrefix(r, q) /\ Len(r) < Len(q)
    BY AncestorChar
  <2>2. ASSUME IsPrefix(p, r) PROVE FALSE
    <3>1. IsPrefix(p, q)
      BY <2>1, <2>2, PrefixOrder
    <3>2. Len(p) <= Len(r)
      BY <2>1, <2>2, PrefixChar
    <3>3. p # q
      BY <2>1, <3>2 DEF Path
    <3> QED
      BY <3>1, <3>3, <1>3 DEF IsStrictPrefix
  <2> QED
    BY <1>3, <2>2 DEF Outside
<1>4. ParentsIn(Outside(p), c)
  <2> SUFFICES ASSUME NEW q \in Outside(p), NEW r \in Ancestors(q)
               PROVE  r \in DOMAIN c
    BY DEF ParentsIn
  <2>1. q \in Path /\ q \in DOMAIN containers /\ r \in DOMAIN containers /\ ~IsStrictPrefix(p, q)
    BY IInvChar DEF Outside, ContainersOK, ParentsIn, IsStrictPrefix
  <2> QED
    BY <1>1, <1>3, <2>1
<1>5. ParentsIn(OutsideStrictly(p), c)
  <2> SUFFICES ASSUME NEW q \in OutsideStrictly(p), NEW r \in Ancestors(q)
               PROVE  r \in DOMAIN c
    BY DEF ParentsIn
  <2>1. q \in Path /\ r \in DOMAIN containers /\ ~IsStrictPrefix(p, q)
    BY IInvChar DEF OutsideStrictly, PrimitivesOK, ParentsIn
  <2> QED
    BY <1>1, <1>3, <2>1
<1> QED
  BY <1>1, <1>2, <1>4, <1>5

-----------------------------------------------------------------------------
(* The rows of a text *)

\* The rows of a text are containers and primitives.
LEMMA TextRowsChar ==
    ASSUME NEW p \in Path, NEW t, IsText(t), NEW limit, NEW rev \in Nat, NEW nr \in Nat
    PROVE  /\ ContainersOK(ContainerRows(p, t, limit, rev, nr))
           /\ PrimitivesOK(PrimitiveRows(p, t, limit, rev, nr))
<1> DEFINE c == ContainerRows(p, t, limit, rev, nr)
           r == PrimitiveRows(p, t, limit, rev, nr)
<1>1. DOMAIN c = {p \o x : x \in ContainerPaths(t, limit)}
  BY DEF ContainerRows
<1>2. DOMAIN r = {p \o x : x \in PrimitivePaths(t, limit)}
  BY DEF PrimitiveRows
<1>3. ASSUME NEW x \in ContainerPaths(t, limit)
      PROVE  p \o x \in Path /\ c[p \o x] \in ContainerRow
  <2>1. p \o x \in Path
    BY FlattenTypes, ConcatChar
  <2>2. c[p \o x] = [inline |-> InlineEntries(t, Rel(p, p \o x), limit), rev |-> rev, nr |-> nr]
    BY DEF ContainerRows
  <2>3. InlineEntries(t, Rel(p, p \o x), limit) \in UNION {[K -> Item] : K \in SUBSET Keys}
    BY FlattenTypes
  <2> QED
    BY <2>1, <2>2, <2>3 DEF ContainerRow
<1>4. ASSUME NEW x \in PrimitivePaths(t, limit)
      PROVE  p \o x \in Path /\ r[p \o x] \in PrimitiveRow
  <2>1. x \in Path /\ t[x] \in Values
    BY FlattenTypes
  <2>2. p \o x \in Path /\ Rel(p, p \o x) = x
    BY <2>1, ConcatChar
  <2>3. r[p \o x] = [val |-> t[Rel(p, p \o x)], rev |-> rev, nr |-> nr]
    BY DEF PrimitiveRows
  <2>4. r[p \o x] = [val |-> t[x], rev |-> rev, nr |-> nr]
    BY <2>2, <2>3
  <2> QED
    BY <2>1, <2>2, <2>4 DEF PrimitiveRow
<1> HIDE DEF c, r
<1>5. ContainersOK(c)
  BY <1>1, <1>3 DEF ContainersOK
<1>6. PrimitivesOK(r)
  BY <1>2, <1>4 DEF PrimitivesOK
<1> QED
  BY <1>5, <1>6 DEF c, r

\* The rows of a text at p have their parents among themselves and those of p.
LEMMA TextRowsClosed ==
    ASSUME NEW p \in Path, NEW t, IsText(t), NEW limit,
           NEW x \in ContainerPaths(t, limit) \cup PrimitivePaths(t, limit),
           NEW r \in Ancestors(p \o x)
    PROVE  r \in Ancestors(p) \cup {p \o y : y \in ContainerPaths(t, limit)}
<1>1. x \in Path
  BY FlattenTypes
<1>2. r \in Ancestors(p) \/ \E y \in Ancestors(x) : r = p \o y
  BY <1>1, AncestorsOfConcat
<1>3. \A y \in Ancestors(x) : y \in ContainerPaths(t, limit)
  BY FlattenClosed
<1> QED
  BY <1>2, <1>3

\* Rows of a text put over tables with their parents: set, full update, import.
LEMMA InsertTextClosed ==
    ASSUME NEW p \in Path, NEW t, IsText(t), NEW limit, NEW c, NEW d, NEW S,
           DOMAIN d = {p \o x : x \in ContainerPaths(t, limit)} \cup DOMAIN c,
           Ancestors(p) \subseteq DOMAIN c,
           ParentsIn(DOMAIN c, c), ParentsIn(S, c)
    PROVE  /\ ParentsIn(DOMAIN d, d)
           /\ ParentsIn({p \o x : x \in PrimitivePaths(t, limit)} \cup S, d)
<1>1. \A x \in ContainerPaths(t, limit) \cup PrimitivePaths(t, limit) : Ancestors(p \o x) \subseteq DOMAIN d
  BY TextRowsClosed
<1>2. \A q \in DOMAIN c \cup S : Ancestors(q) \subseteq DOMAIN d
  BY DEF ParentsIn
<1> QED
  BY <1>1, <1>2 DEF ParentsIn

-----------------------------------------------------------------------------
(* The document that extract_json rebuilds *)

\* What is read of a container is the text of an object.
LEMMA ExtractIsText ==
    ASSUME IInv, NEW p \in Path, Exists(p)
    PROVE  IsText(Extract(p)) /\ Extract(p)[Root] = Obj
<1> DEFINE e == Extract(p)
           A == {q \in DOMAIN containers : IsPrefix(p, q)}
           B == {q \in DOMAIN primitives : IsStrictPrefix(p, q)}
<1>1. /\ ContainersOK(containers) /\ PrimitivesOK(primitives)
      /\ ParentsIn(DOMAIN containers, containers) /\ ParentsIn(DOMAIN primitives, containers)
  BY IInvChar
<1>2. DOMAIN e = ExtractPaths(p)
  BY DEF Extract
<1>3. \A x \in ExtractPaths(p) :
         e[x] = IF p \o x \in DOMAIN containers THEN Obj
                ELSE IF p \o x \in DOMAIN primitives THEN primitives[p \o x].val
                ELSE containers[p \o Front(x)].inline[Last(x)]
  BY DEF Extract
<1> HIDE DEF e
\* Every container at or below p is in the text, as an object.
<1>4. ASSUME NEW y \in Path, p \o y \in DOMAIN containers
      PROVE  y \in ExtractPaths(p) /\ e[y] = Obj
  <2>1. IsPrefix(p, p \o y) /\ Rel(p, p \o y) = y
    BY ConcatChar
  <2>2. y \in ExtractPaths(p)
    BY <1>4, <2>1 DEF ExtractPaths
  <2> QED
    BY <1>3, <1>4, <2>2
\* The nodes of the text: rows below p and the entries inlined in them.
<1>5. ASSUME NEW x \in ExtractPaths(p)
      PROVE  \/ \E q \in A \cup B : x = Rel(p, q)
             \/ \E q \in A : \E k \in DOMAIN containers[q].inline : x = Append(Rel(p, q), k)
  BY DEF ExtractPaths
<1>6. \A q \in A : /\ q \in Path /\ IsPrefix(p, q) /\ Rel(p, q) \in Path /\ q = p \o Rel(p, q)
                   /\ DOMAIN containers[q].inline \subseteq Keys
                   /\ \A k \in DOMAIN containers[q].inline : containers[q].inline[k] \in Item
  <2> TAKE q \in A
  <2>1. q \in Path /\ IsPrefix(p, q) /\ containers[q] \in ContainerRow
    BY <1>1 DEF ContainersOK
  <2>2. PICK K \in SUBSET Keys : containers[q].inline \in [K -> Item]
    BY <2>1 DEF ContainerRow
  <2> QED
    BY <2>1, <2>2, RelChar
<1>7. \A q \in B : /\ q \in Path /\ IsPrefix(p, q) /\ Rel(p, q) \in Path /\ q = p \o Rel(p, q)
                   /\ primitives[q].val \in Values
  <2> TAKE q \in B
  <2>1. q \in Path /\ IsPrefix(p, q) /\ primitives[q] \in PrimitiveRow
    BY <1>1 DEF PrimitivesOK, IsStrictPrefix
  <2> QED
    BY <2>1, RelChar DEF PrimitiveRow
<1>8. Root \in ExtractPaths(p) /\ e[Root] = Obj
  <2>1. p \o Root = p
    BY ConcatChar, RootIsPath
  <2> QED
    BY <1>4, <2>1, RootIsPath DEF Exists
<1>9. ASSUME NEW q \in A, NEW k \in DOMAIN containers[q].inline
      PROVE  /\ Append(Rel(p, q), k) \in Path
             /\ Front(Append(Rel(p, q), k)) = Rel(p, q)
             /\ Last(Append(Rel(p, q), k)) = k
             /\ \A y \in Ancestors(Append(Rel(p, q), k)) : y = Rel(p, q) \/ y \in Ancestors(Rel(p, q))
  <2> DEFINE s == Rel(p, q)
             x == Append(s, k)
  <2>1. s \in Path /\ k \in Keys
    BY <1>6
  <2> HIDE DEF s
  <2>2. /\ x \in Seq(Keys) /\ Len(x) = Len(s) + 1
        /\ \A i \in 1..Len(s) : x[i] = s[i]
        /\ x[Len(s) + 1] = k
    BY <2>1, AppendProperties DEF Path
  <2> HIDE DEF x
  <2>3. Len(s) \in Nat
    BY <2>1 DEF Path
  <2>4. Len(x) - 1 = Len(s) /\ \A i \in 1..Len(s) : x[i] \in Keys
    BY <2>1, <2>2, <2>3 DEF Path
  <2>5. /\ SubSeq(x, 1, Len(s)) \in Seq(Keys)
        /\ Len(SubSeq(x, 1, Len(s))) = Len(s)
        /\ \A i \in 1..Len(s) : SubSeq(x, 1, Len(s))[i] = x[i]
    BY <2>3, <2>4, SubSeqProperties
  <2>6. SubSeq(x, 1, Len(s)) = s
    BY <2>1, <2>2, <2>5, SeqEqual DEF Path
  <2>7. Front(x) = s /\ Last(x) = k
    BY <2>2, <2>4, <2>6 DEF Front, Last
  <2>8. ASSUME NEW y \in Ancestors(x) PROVE y = s \/ y \in Ancestors(s)
    <3>1. y \in Path /\ IsPrefix(y, x) /\ Len(y) < Len(x)
      BY <2>2, AncestorChar DEF Path
    <3>2. IsPrefix(s, x)
      BY <2>1, <2>2, <2>3, PrefixChar DEF Path
    <3>3. Len(y) <= Len(s)
      BY <3>1, <2>2, <2>3 DEF Path
    <3>4. IsPrefix(y, s)
      BY <3>1, <3>2, <3>3, <2>1, <2>2, PrefixesComparable DEF Path
    <3> QED
      BY <3>1, <3>4, <2>1, AncestorChar
  <2> QED
    BY <2>2, <2>7, <2>8 DEF s, x, Path
<1>10. ASSUME NEW x \in ExtractPaths(p) PROVE x \in Path /\ e[x] \in Item
  <2>1. CASE \E q \in A \cup B : x = Rel(p, q)
    <3>1. PICK q \in A \cup B : x = Rel(p, q)
      BY <2>1
    <3>2. x \in Path /\ q = p \o x
      BY <3>1, <1>6, <1>7
    <3>3. CASE q \in DOMAIN containers
      BY <3>2, <3>3, <1>4 DEF Item
    <3>4. CASE q \notin DOMAIN containers
      <4>1. q \in B /\ q \in DOMAIN primitives
        BY <3>4
      <4> QED
        BY <3>2, <3>4, <4>1, <1>3, <1>7 DEF Item
    <3> QED
      BY <3>3, <3>4
  <2>2. CASE \E q \in A : \E k \in DOMAIN containers[q].inline : x = Append(Rel(p, q), k)
    <3>1. PICK q \in A : \E k \in DOMAIN containers[q].inline : x = Append(Rel(p, q), k)
      BY <2>2
    <3>a. PICK k \in DOMAIN containers[q].inline : x = Append(Rel(p, q), k)
      BY <3>1
    <3>2. x \in Path /\ Front(x) = Rel(p, q) /\ Last(x) = k /\ p \o Front(x) = q
      BY <3>a, <1>6, <1>9
    <3>3. CASE p \o x \in DOMAIN containers
      BY <3>2, <3>3, <1>4 DEF Item
    <3>4. CASE p \o x \notin DOMAIN containers /\ p \o x \in DOMAIN primitives
      <4>1. primitives[p \o x].val \in Values
        BY <3>4, <1>1 DEF PrimitivesOK, PrimitiveRow
      <4> QED
        BY <3>2, <3>4, <4>1, <1>3 DEF Item
    <3>5. CASE p \o x \notin DOMAIN containers /\ p \o x \notin DOMAIN primitives
      BY <3>a, <3>2, <3>5, <1>3, <1>6
    <3> QED
      BY <3>3, <3>4, <3>5
  <2> QED
    BY <1>5, <2>1, <2>2
\* The ancestors of a node are containers, for no row is an orphan.
<1>11. ASSUME NEW q \in A \cup B, NEW y \in Ancestors(Rel(p, q)) PROVE p \o y \in DOMAIN containers
  <2>1. Rel(p, q) \in Path /\ q \in Path /\ q = p \o Rel(p, q)
    BY <1>6, <1>7
  <2>2. y \in Path /\ IsPrefix(y, Rel(p, q)) /\ Len(y) < Len(Rel(p, q))
    BY <2>1, AncestorChar
  <2>3. /\ p \o y \in Path /\ Len(p \o y) = Len(p) + Len(y)
        /\ \A i \in 1..Len(p) + Len(y) : (p \o y)[i] = IF i <= Len(p) THEN p[i] ELSE y[i - Len(p)]
    BY <2>2, ConcatProperties DEF Path
  <2>4. /\ Len(q) = Len(p) + Len(Rel(p, q))
        /\ \A i \in 1..Len(p) + Len(Rel(p, q)) :
              q[i] = IF i <= Len(p) THEN p[i] ELSE Rel(p, q)[i - Len(p)]
    BY <2>1, ConcatProperties DEF Path
  <2>5. Len(p) \in Nat /\ Len(y) \in Nat /\ Len(Rel(p, q)) \in Nat
    BY <2>1, <2>2 DEF Path
  <2>6. \A i \in 1..Len(y) : y[i] = Rel(p, q)[i]
    BY <2>1, <2>2, PrefixChar
  <2>7. Len(p \o y) < Len(q)
    BY <2>2, <2>3, <2>4, <2>5
  <2>8. ASSUME NEW i \in 1..Len(p \o y) PROVE (p \o y)[i] = q[i]
    <3>1. i \in 1..Len(p) + Len(y) /\ i \in 1..Len(p) + Len(Rel(p, q))
      BY <2>2, <2>3, <2>5
    <3>2. CASE i <= Len(p)
      BY <3>1, <3>2, <2>3, <2>4
    <3>3. CASE ~(i <= Len(p))
      <4>1. i - Len(p) \in 1..Len(y)
        BY <3>1, <3>3, <2>5
      <4> QED
        BY <3>1, <3>3, <4>1, <2>3, <2>4, <2>6
    <3> QED
      BY <3>2, <3>3
  <2>9. IsPrefix(p \o y, q) /\ p \o y # q
    <3>1. Len(p \o y) <= Len(q) /\ Len(p \o y) # Len(q)
      BY <2>3, <2>4, <2>5, <2>7
    <3> QED
      BY <3>1, <2>1, <2>3, <2>8, PrefixChar
  <2>10. p \o y \in Ancestors(q)
    BY <2>1, <2>3, <2>9, AncestorChar
  <2> QED
    BY <2>10, <1>1 DEF ParentsIn
<1>12. ASSUME NEW x \in ExtractPaths(p), NEW y \in Ancestors(x) PROVE y \in ExtractPaths(p) /\ e[y] = Obj
  <2>1. y \in Path
    BY <1>10, AncestorChar
  <2>2. p \o y \in DOMAIN containers
    <3>1. CASE \E q \in A \cup B : x = Rel(p, q)
      BY <3>1, <1>11
    <3>2. CASE \E q \in A : \E k \in DOMAIN containers[q].inline : x = Append(Rel(p, q), k)
      <4>1. PICK q \in A : \E k \in DOMAIN containers[q].inline : x = Append(Rel(p, q), k)
        BY <3>2
      <4>a. PICK k \in DOMAIN containers[q].inline : x = Append(Rel(p, q), k)
        BY <4>1
      <4>2. y = Rel(p, q) \/ y \in Ancestors(Rel(p, q))
        BY <4>a, <1>9
      <4>3. CASE y = Rel(p, q)
        BY <4>3, <1>6
      <4>4. CASE y \in Ancestors(Rel(p, q))
        BY <4>4, <1>11
      <4> QED
        BY <4>2, <4>3, <4>4
    <3> QED
      BY <1>5, <3>1, <3>2
  <2> QED
    BY <1>4, <2>1, <2>2
<1>13. IsText(e) /\ e[Root] = Obj
  BY <1>2, <1>8, <1>10, <1>12 DEF IsText
<1> QED
  BY <1>13 DEF e

-----------------------------------------------------------------------------
(* The calls *)

\* Set and full update.
LEMMA WriteTextInv ==
    ASSUME IInv, NEW p \in Path, NEW t, IsText(t), NEW limit \in Nat, WriteText(p, t, limit)
    PROVE  IInv'
<1> DEFINE rev     == clock + 1
           out     == Restrict(containers, Outside(p))
           left    == Restrict(primitives, OutsideStrictly(p))
           ensured == EnsureIntermediate(out, p, rev)
           nr      == RevisionNr(ensured, p) + 1
           crows   == ContainerRows(p, t, limit, rev, nr)
           prows   == PrimitiveRows(p, t, limit, rev, nr)
<1>1. /\ clock < MaxWrites
      /\ clock' = rev
      /\ containers' = Override(crows, ensured)
      /\ primitives' = Override(prows, left)
      /\ hashes' = Override([q \in {p} |-> [text |-> t, limit |-> limit, rev |-> rev]], hashes)
  BY DEF WriteText
<1>2. rev \in Nat /\ clock' \in 0..MaxWrites
  BY <1>1, IInvChar, EngineAssumption
<1>3. /\ ContainersOK(out) /\ ParentsIn(DOMAIN out, out) /\ PrimitivesOK(left)
      /\ DOMAIN left = OutsideStrictly(p) /\ ParentsIn(DOMAIN left, out)
  BY OutsideChar
<1> HIDE DEF out, left
<1>4. /\ ContainersOK(ensured) /\ ParentsIn(DOMAIN ensured, ensured)
      /\ DOMAIN ensured = DOMAIN out \cup Ancestors(p) \cup {Root}
      /\ RevisionNr(ensured, p) \in Nat
  BY <1>2, <1>3, EnsureChar
<1>5. ParentsIn(DOMAIN left, ensured)
  BY <1>3, <1>4 DEF ParentsIn
<1>6. nr \in Nat
  BY <1>4
<1> HIDE DEF rev, ensured, nr
<1>7. /\ ContainersOK(crows) /\ DOMAIN crows = {p \o x : x \in ContainerPaths(t, limit)}
      /\ PrimitivesOK(prows) /\ DOMAIN prows = {p \o x : x \in PrimitivePaths(t, limit)}
  <2>1. rev \in Nat /\ nr \in Nat
    BY <1>2, <1>6
  <2>2. ContainersOK(ContainerRows(p, t, limit, rev, nr))
    BY <2>1, TextRowsChar
  <2>3. DOMAIN ContainerRows(p, t, limit, rev, nr) = {p \o x : x \in ContainerPaths(t, limit)}
    BY DEF ContainerRows
  <2>4. PrimitivesOK(PrimitiveRows(p, t, limit, rev, nr))
    BY <2>1, TextRowsChar
  <2>5. DOMAIN PrimitiveRows(p, t, limit, rev, nr) = {p \o x : x \in PrimitivePaths(t, limit)}
    BY DEF PrimitiveRows
  <2> QED
    BY <2>2, <2>3, <2>4, <2>5
<1> HIDE DEF crows, prows
<1>8. ContainersOK(containers') /\ PrimitivesOK(primitives')
  BY <1>1, <1>3, <1>4, <1>7, OverrideContainers, OverridePrimitives
<1>9. /\ DOMAIN containers' = DOMAIN crows \cup DOMAIN ensured
      /\ DOMAIN primitives' = DOMAIN prows \cup DOMAIN left
  BY <1>1, OverrideChar, Zenon
<1>10. ParentsIn(DOMAIN containers', containers') /\ ParentsIn(DOMAIN primitives', containers')
  <2>1. Ancestors(p) \subseteq DOMAIN ensured
    BY <1>4
  <2>2. DOMAIN containers' = {p \o x : x \in ContainerPaths(t, limit)} \cup DOMAIN ensured
    BY <1>7, <1>9
  <2>3. /\ ParentsIn(DOMAIN containers', containers')
        /\ ParentsIn({p \o x : x \in PrimitivePaths(t, limit)} \cup DOMAIN left, containers')
    BY <2>1, <2>2, <1>4, <1>5, InsertTextClosed
  <2> QED
    BY <2>3, <1>7, <1>9
<1>11. /\ DOMAIN hashes' \subseteq Path
       /\ \A q \in DOMAIN hashes' : /\ IsText(hashes'[q].text)
                                     /\ hashes'[q].limit \in Nat
                                     /\ hashes'[q].rev \in Nat
  BY <1>1, <1>2, IInvChar DEF Override
<1> QED
  BY <1>2, <1>8, <1>10, <1>11 DEF IInv, TypeOK, AncestorClosed, ContainersOK, PrimitivesOK, ParentsIn

\* Removal of a subtree.
LEMMA RemoveInv ==
    ASSUME IInv, NEW p \in Path, RemoveJson(p)
    PROVE  IInv'
<1>1. /\ containers' = Restrict(containers, Outside(p))
      /\ primitives' = Restrict(primitives, OutsideStrictly(p))
      /\ hashes' = Restrict(hashes, DOMAIN hashes \ {p})
      /\ clock' = clock
  BY DEF RemoveJson
<1>2. /\ ContainersOK(containers') /\ ParentsIn(DOMAIN containers', containers')
      /\ PrimitivesOK(primitives') /\ ParentsIn(DOMAIN primitives', containers')
  BY <1>1, OutsideChar
<1>3. /\ DOMAIN hashes' \subseteq Path
      /\ \A q \in DOMAIN hashes' : /\ IsText(hashes'[q].text)
                                    /\ hashes'[q].limit \in Nat
                                    /\ hashes'[q].rev \in Nat
  BY <1>1, IInvChar DEF Restrict
<1>4. clock' \in 0..MaxWrites
  BY <1>1, IInvChar
<1> QED
  BY <1>2, <1>3, <1>4 DEF IInv, TypeOK, AncestorClosed, ContainersOK, PrimitivesOK, ParentsIn

\* Import.
LEMMA ImportInv ==
    ASSUME IInv, NEW p \in Path, NEW t, IsText(t), t[Root] = Obj, NEW limit \in Nat,
           ImportCsv(p, t, limit)
    PROVE  IInv'
<1> DEFINE rev     == clock + 1
           out     == Restrict(containers, Outside(p))
           left    == Restrict(primitives, OutsideStrictly(p))
           ensured == EnsureIntermediate(out, p, rev)
           nr      == RevisionNr(ensured, p) + 1
           crows   == ContainerRows(p, t, limit, rev, nr)
           prows   == PrimitiveRows(p, t, limit, rev, nr)
           rooted  == Override(crows, ensured)
<1>1. /\ clock < MaxWrites
      /\ clock' = rev
      /\ containers' = Override(RootRow(p, rev, nr), rooted)
      /\ primitives' = Override(prows, left)
      /\ hashes' = Override([q \in {p} |-> [text |-> Content(t), limit |-> DefaultLimit, rev |-> rev]], hashes)
  BY DEF ImportCsv
<1>2. rev \in Nat /\ clock' \in 0..MaxWrites
  BY <1>1, IInvChar, EngineAssumption
<1>3. /\ ContainersOK(out) /\ ParentsIn(DOMAIN out, out) /\ PrimitivesOK(left)
      /\ DOMAIN left = OutsideStrictly(p) /\ ParentsIn(DOMAIN left, out)
  BY OutsideChar
<1> HIDE DEF out, left
<1>4. /\ ContainersOK(ensured) /\ ParentsIn(DOMAIN ensured, ensured)
      /\ DOMAIN ensured = DOMAIN out \cup Ancestors(p) \cup {Root}
      /\ RevisionNr(ensured, p) \in Nat
  BY <1>2, <1>3, EnsureChar
<1>5. ParentsIn(DOMAIN left, ensured)
  BY <1>3, <1>4 DEF ParentsIn
<1>6. nr \in Nat
  BY <1>4
<1> HIDE DEF rev, ensured, nr
<1>7. /\ ContainersOK(crows) /\ DOMAIN crows = {p \o x : x \in ContainerPaths(t, limit)}
      /\ PrimitivesOK(prows) /\ DOMAIN prows = {p \o x : x \in PrimitivePaths(t, limit)}
  <2>1. rev \in Nat /\ nr \in Nat
    BY <1>2, <1>6
  <2>2. ContainersOK(ContainerRows(p, t, limit, rev, nr))
    BY <2>1, TextRowsChar
  <2>3. DOMAIN ContainerRows(p, t, limit, rev, nr) = {p \o x : x \in ContainerPaths(t, limit)}
    BY DEF ContainerRows
  <2>4. PrimitivesOK(PrimitiveRows(p, t, limit, rev, nr))
    BY <2>1, TextRowsChar
  <2>5. DOMAIN PrimitiveRows(p, t, limit, rev, nr) = {p \o x : x \in PrimitivePaths(t, limit)}
    BY DEF PrimitiveRows
  <2> QED
    BY <2>2, <2>3, <2>4, <2>5
<1>a. p \in DOMAIN crows
  <2>1. Root \in ContainerPaths(t, limit) /\ p \o Root = p
    BY RootIsPath, ConcatChar DEF ContainerPaths
  <2> QED
    BY <1>7, <2>1
<1> HIDE DEF crows, prows
<1>8. ContainersOK(RootRow(p, rev, nr)) /\ DOMAIN RootRow(p, rev, nr) = {p}
  BY <1>2, <1>6, FreshRowOK DEF RootRow, ContainersOK
<1>9. /\ DOMAIN rooted = DOMAIN crows \cup DOMAIN ensured
      /\ DOMAIN containers' = DOMAIN RootRow(p, rev, nr) \cup DOMAIN rooted
      /\ DOMAIN primitives' = DOMAIN prows \cup DOMAIN left
  BY <1>1, OverrideChar, Zenon
<1>10. ContainersOK(rooted)
  BY <1>4, <1>7, OverrideContainers
<1> HIDE DEF rooted
<1>11. ContainersOK(containers') /\ PrimitivesOK(primitives')
  BY <1>1, <1>3, <1>7, <1>8, <1>10, OverrideContainers, OverridePrimitives
<1>12. ParentsIn(DOMAIN containers', containers') /\ ParentsIn(DOMAIN primitives', containers')
  <2>1. Ancestors(p) \subseteq DOMAIN ensured
    BY <1>4
  <2>2. DOMAIN containers' = {p \o x : x \in ContainerPaths(t, limit)} \cup DOMAIN ensured
    BY <1>7, <1>8, <1>9, <1>a
  <2>3. /\ ParentsIn(DOMAIN containers', containers')
        /\ ParentsIn({p \o x : x \in PrimitivePaths(t, limit)} \cup DOMAIN left, containers')
    BY <2>1, <2>2, <1>4, <1>5, InsertTextClosed
  <2> QED
    BY <2>3, <1>7, <1>9
<1>13. IsText(Content(t)) /\ DefaultLimit \in Nat
  BY ContentIsText, ItemAssumption, EngineAssumption
<1>14. /\ DOMAIN hashes' \subseteq Path
       /\ \A q \in DOMAIN hashes' : /\ IsText(hashes'[q].text)
                                     /\ hashes'[q].limit \in Nat
                                     /\ hashes'[q].rev \in Nat
  BY <1>1, <1>2, <1>13, IInvChar DEF Override
<1> QED
  BY <1>2, <1>11, <1>12, <1>14 DEF IInv, TypeOK, AncestorClosed, ContainersOK, PrimitivesOK, ParentsIn

\* The leaf path: what it deletes goes with all that is below, and what it
\* inserts stands right below p, whose row and parents it has just ensured.
LEMMA UpdateLeafInv ==
    ASSUME IInv, NEW p \in Path, NEW u, IsText(u), UpdateLeaf(p, u)
    PROVE  IInv'
<1> DEFINE rev     == clock + 1
           ensured == EnsureIntermediate(containers, p, rev)
           nr      == RevisionNr(ensured, p) + 1
           rooted  == Override(RootRow(p, rev, nr), ensured)
           E       == Erased(rooted, p, u)
           Kept(q) == \A x \in E : ~IsPrefix(p \o x, q)
           W       == {x \in DOMAIN u \ {Root} : u[x] # Null}
           written == [q \in {p \o x : x \in W} |-> [val |-> u[Rel(p, q)], rev |-> rev, nr |-> nr]]
           ckept   == {q \in DOMAIN rooted : Kept(q)}
           pkept   == {q \in DOMAIN primitives : Kept(q)}
<1>1. /\ IsLeafObject(u)
      /\ clock < MaxWrites
      /\ clock' = rev
      /\ containers' = Restrict(rooted, ckept)
      /\ primitives' = Override(written, Restrict(primitives, pkept))
      /\ hashes' = Restrict(hashes, DOMAIN hashes \ {p})
  BY DEF UpdateLeaf
<1>2. rev \in Nat /\ clock' \in 0..MaxWrites
  BY <1>1, IInvChar, EngineAssumption
<1>3. /\ ContainersOK(ensured) /\ ParentsIn(DOMAIN ensured, ensured)
      /\ DOMAIN ensured = DOMAIN containers \cup Ancestors(p) \cup {Root}
      /\ RevisionNr(ensured, p) \in Nat
  BY <1>2, IInvChar, EnsureChar
<1>4. nr \in Nat
  BY <1>3
<1> HIDE DEF rev, nr
<1>5. ContainersOK(RootRow(p, rev, nr)) /\ DOMAIN RootRow(p, rev, nr) = {p}
  BY <1>2, <1>4, FreshRowOK DEF RootRow, ContainersOK
<1>6. ContainersOK(rooted)
  BY <1>3, <1>5, OverrideContainers
<1>7. DOMAIN rooted = {p} \cup DOMAIN ensured
  <2>1. DOMAIN rooted = DOMAIN RootRow(p, rev, nr) \cup DOMAIN ensured
    BY OverrideChar, Zenon
  <2> QED
    BY <1>5, <2>1
<1> HIDE DEF ensured, rooted
<1>8. ParentsIn(DOMAIN rooted, rooted)
  BY <1>3, <1>7 DEF ParentsIn
<1>9. \A x \in E : x \in Path /\ x # Root
  BY DEF Erased, IsText
<1> HIDE DEF E
<1>10. ASSUME NEW q \in Path, Kept(q), NEW r \in Ancestors(q) PROVE Kept(r)
  <2> SUFFICES ASSUME NEW x \in E, IsPrefix(p \o x, r) PROVE FALSE
    OBVIOUS
  <2>1. p \o x \in Path /\ r \in Path /\ IsPrefix(r, q)
    BY <1>9, ConcatChar, AncestorChar
  <2>2. IsPrefix(p \o x, q)
    BY <2>1, PrefixOrder
  <2> QED
    BY <2>2, <1>10
<1>11. ASSUME NEW r \in Path, Len(r) <= Len(p) PROVE Kept(r)
  <2> SUFFICES ASSUME NEW x \in E, IsPrefix(p \o x, r) PROVE FALSE
    OBVIOUS
  <2>1. x \in Path /\ x # Root /\ p \o x \in Path /\ Len(p \o x) = Len(p) + Len(x)
    BY <1>9, ConcatChar
  <2>2. Len(x) \in Nat /\ Len(x) > 0
    BY <2>1, EmptySeq DEF Path, Root
  <2>3. Len(p \o x) <= Len(r)
    BY <2>1, PrefixChar
  <2> QED
    BY <1>11, <2>1, <2>2, <2>3 DEF Path
<1>12. ContainersOK(containers') /\ DOMAIN containers' = ckept
  BY <1>1, <1>6, RestrictChar
<1>13. ASSUME NEW q \in Path, Kept(q), Ancestors(q) \subseteq DOMAIN rooted
       PROVE  Ancestors(q) \subseteq DOMAIN containers'
  BY <1>10, <1>12, <1>13
<1>14. ParentsIn(DOMAIN containers', containers')
  BY <1>6, <1>8, <1>12, <1>13 DEF ParentsIn, ContainersOK
<1>15. /\ PrimitivesOK(Restrict(primitives, pkept))
       /\ DOMAIN Restrict(primitives, pkept) = pkept
  BY IInvChar, RestrictChar
<1>16. ParentsIn(pkept, containers')
  <2> SUFFICES ASSUME NEW q \in pkept PROVE Ancestors(q) \subseteq DOMAIN containers'
    BY DEF ParentsIn
  <2>1. q \in Path /\ Kept(q) /\ Ancestors(q) \subseteq DOMAIN containers
    BY IInvChar DEF PrimitivesOK, ParentsIn
  <2> QED
    BY <2>1, <1>3, <1>7, <1>13
<1>17. ASSUME NEW x \in W
       PROVE  /\ x \in Path /\ u[x] \in Values
              /\ p \o x \in Path /\ Rel(p, p \o x) = x
              /\ Ancestors(p \o x) \subseteq DOMAIN containers'
  <2>1. x \in Path /\ x # Root /\ x \in DOMAIN u /\ u[x] \in Values
    BY <1>1 DEF IsText, IsLeafObject, Item
  <2>2. p \o x \in Path /\ Rel(p, p \o x) = x
    BY <2>1, ConcatChar
  <2>3. ASSUME NEW r \in Ancestors(p \o x) PROVE r \in Ancestors(p) \cup {p}
    <3>1. \A y \in Ancestors(x) : y = Root
      BY <2>1, <1>1 DEF IsText, IsLeafObject
    <3>2. p \o Root = p
      BY RootIsPath, ConcatChar
    <3>3. r \in Ancestors(p) \/ \E y \in Ancestors(x) : r = p \o y
      BY <2>1, AncestorsOfConcat
    <3> QED
      BY <3>1, <3>2, <3>3
  <2>4. ASSUME NEW r \in Ancestors(p) \cup {p} PROVE r \in DOMAIN containers'
    <3>1. r \in Path /\ Len(r) <= Len(p)
      BY AncestorChar DEF Path
    <3>2. r \in DOMAIN rooted
      BY <1>3, <1>7
    <3> QED
      BY <3>1, <3>2, <1>11, <1>12
  <2> QED
    BY <2>1, <2>2, <2>3, <2>4
<1>18. PrimitivesOK(written)
  <2>1. ASSUME NEW q \in DOMAIN written PROVE q \in Path /\ written[q] \in PrimitiveRow
    <3>1. PICK x \in W : q = p \o x
      OBVIOUS
    <3>2. written[q] = [val |-> u[Rel(p, q)], rev |-> rev, nr |-> nr]
      OBVIOUS
    <3>3. u[Rel(p, q)] \in Values /\ q \in Path
      BY <3>1, <1>17
    <3> QED
      BY <3>2, <3>3, <1>2, <1>4 DEF PrimitiveRow
  <2> QED
    BY <2>1 DEF PrimitivesOK
<1>19. ParentsIn(DOMAIN written, containers')
  BY <1>17 DEF ParentsIn
<1> HIDE DEF written, pkept
<1>20. PrimitivesOK(primitives')
  BY <1>1, <1>15, <1>18, OverridePrimitives
<1>21. ParentsIn(DOMAIN primitives', containers')
  <2>1. DOMAIN primitives' = DOMAIN written \cup DOMAIN Restrict(primitives, pkept)
    BY <1>1, OverrideChar, Zenon
  <2> QED
    BY <2>1, <1>15, <1>16, <1>19 DEF ParentsIn
<1>22. /\ DOMAIN hashes' \subseteq Path
       /\ \A q \in DOMAIN hashes' : /\ IsText(hashes'[q].text)
                                     /\ hashes'[q].limit \in Nat
                                     /\ hashes'[q].rev \in Nat
  BY <1>1, IInvChar DEF Restrict
<1> QED
  BY <1>2, <1>12, <1>14, <1>20, <1>21, <1>22
     DEF IInv, TypeOK, AncestorClosed, ContainersOK, PrimitivesOK, ParentsIn

-----------------------------------------------------------------------------
(* The specification *)

\* Empty tables are closed.
LEMMA IInvInit == Init => IInv
BY EngineAssumption DEF Init, IInv, TypeOK, AncestorClosed, Nothing

\* Every call keeps the types and the containers that lead to each row.
LEMMA IInvNext == IInv /\ [Next]_vars => IInv'
<1> SUFFICES ASSUME IInv, [Next]_vars PROVE IInv'
  OBVIOUS
<1>1. CASE UNCHANGED vars
  <2>1. containers' = containers /\ primitives' = primitives /\ hashes' = hashes /\ clock' = clock
    BY <1>1 DEF vars
  <2> QED
    BY <2>1 DEF IInv, TypeOK, AncestorClosed
<1>2. ASSUME NEW p \in DocPaths, NEW t \in Texts, NEW limit \in Limits, SetJson(p, t, limit)
      PROVE  IInv'
  <2>1. p \in Path /\ IsText(t) /\ limit \in Nat
    BY EngineAssumption
  <2>2. CASE UNCHANGED <<containers, primitives, hashes, clock>>
    BY <2>2 DEF IInv, TypeOK, AncestorClosed
  <2>3. CASE WriteText(p, t, limit)
    BY <2>1, <2>3, WriteTextInv
  <2> QED
    BY <1>2, <2>2, <2>3 DEF SetJson
<1>3. ASSUME NEW p \in DocPaths, RemoveJson(p) PROVE IInv'
  BY <1>3, RemoveInv, EngineAssumption
<1>4. ASSUME NEW p \in DocPaths, NEW u \in Updates, UpdateLeaf(p, u) PROVE IInv'
  BY <1>4, UpdateLeafInv, EngineAssumption
<1>5. ASSUME NEW p \in DocPaths, NEW u \in Updates, UpdateFull(p, u) PROVE IInv'
  <2> DEFINE m == IF Exists(p) THEN Merge(Extract(p), u) ELSE u
  <2>1. p \in Path /\ IsText(u) /\ u[Root] = Obj /\ DefaultLimit \in Nat
    BY EngineAssumption
  <2>2. IsText(m)
    BY <2>1, ExtractIsText, MergeIsText
  <2>3. WriteText(p, m, DefaultLimit)
    BY <1>5 DEF UpdateFull
  <2> QED
    BY <2>1, <2>2, <2>3, WriteTextInv
<1>6. ASSUME NEW p \in DocPaths, NEW u \in Updates, UpdateWildcard(p, u) PROVE IInv'
  <2> DEFINE m == Merge(Extract(p), EachChild(Extract(p), u))
  <2>1. p \in Path /\ IsText(u) /\ u[Root] = Obj /\ DefaultLimit \in Nat
    BY EngineAssumption
  <2>2. Exists(p) /\ WriteText(p, m, DefaultLimit)
    BY <1>6 DEF UpdateWildcard
  <2>3. IsText(Extract(p))
    BY <2>1, <2>2, ExtractIsText
  <2>4. IsText(m)
    BY <2>1, <2>3, EachChildIsText, MergeIsText
  <2> QED
    BY <2>1, <2>2, <2>4, WriteTextInv
<1>7. ASSUME NEW p \in DocPaths, NEW t \in Texts, NEW limit \in Limits, ImportCsv(p, t, limit)
      PROVE  IInv'
  BY <1>7, ImportInv, EngineAssumption
<1>8. CASE Next
  BY <1>2, <1>3, <1>4, <1>5, <1>6, <1>7, <1>8 DEF Next
<1> QED
  BY <1>1, <1>8

\* Whatever clients call, the rows, hashes and revisions have the shapes that
\* the columns give them, and every hash recorded is that of a JSON text.
THEOREM EngineTypeCorrect == Spec => []TypeOK
<1>1. IInv => TypeOK
  BY DEF IInv
<1> QED
  BY <1>1, IInvInit, IInvNext, PTL DEF Spec

\* Whatever clients call, every row has all the containers that lead to it.
THEOREM EngineNoOrphans == Spec => []AncestorClosed
<1>1. IInv => AncestorClosed
  BY DEF IInv
<1> QED
  BY <1>1, IInvInit, IInvNext, PTL DEF Spec

-----------------------------------------------------------------------------
(***************************************************************************)
(* What a call leaves alone, and the revision it gives to what it does not.*)
(*                                                                         *)
(* Extract reads three places for one node: a container, a primitive and   *)
(* an inlined entry.  SameAt says that a step leaves all three; Edit(p)    *)
(* says where each call at p must leave them, and which rows it may write  *)
(* at all.  One lemma per writer establishes Edit(p), and both properties  *)
(* follow from it.                                                         *)
(***************************************************************************)
\* An entry inlined in the row of its container.
Inlined(c, z) == /\ z # Root
                 /\ Front(z) \in DOMAIN c
                 /\ Last(z) \in DOMAIN c[Front(z)].inline

\* The tables c, r and d, s say the same of the node z.
SameAt(c, r, d, s, z) ==
    /\ z \in DOMAIN c <=> z \in DOMAIN d
    /\ z \in DOMAIN r <=> z \in DOMAIN s
    /\ z \in DOMAIN r => r[z].val = s[z].val
    /\ Inlined(c, z) <=> Inlined(d, z)
    /\ Inlined(c, z) => c[Front(z)].inline[Last(z)] = d[Front(z)].inline[Last(z)]

\* Extract, as an operator on two tables.
NodesOf(c, r, p) ==
    {Rel(p, q) : q \in {q \in DOMAIN c : IsPrefix(p, q)}}
      \cup {Rel(p, q) : q \in {q \in DOMAIN r : IsStrictPrefix(p, q)}}
      \cup UNION {{Append(Rel(p, q), k) : k \in DOMAIN c[q].inline} :
                     q \in {q \in DOMAIN c : IsPrefix(p, q)}}

TextOf(c, r, p) ==
    [x \in NodesOf(c, r, p) |->
        IF p \o x \in DOMAIN c THEN Obj
        ELSE IF p \o x \in DOMAIN r THEN r[p \o x].val
        ELSE c[p \o Front(x)].inline[Last(x)]]

\* Extract of the rows there are, now and after the step.
LEMMA ExtractIsTextOf ==
    ASSUME NEW p
    PROVE  /\ Extract(p) = TextOf(containers, primitives, p)
           /\ Extract(p)' = TextOf(containers', primitives', p)
BY DEF Extract, ExtractPaths, TextOf, NodesOf

-----------------------------------------------------------------------------
(* Paths *)

\* The parts of a path made of an object and a key.
LEMMA FrontOfAppend ==
    ASSUME NEW s \in Path, NEW k \in Keys
    PROVE  /\ Append(s, k) \in Path
           /\ Append(s, k) # Root
           /\ Front(Append(s, k)) = s
           /\ Last(Append(s, k)) = k
<1> DEFINE x == Append(s, k)
<1>1. /\ x \in Seq(Keys) /\ Len(x) = Len(s) + 1
      /\ \A i \in 1..Len(s) : x[i] = s[i]
      /\ x[Len(s) + 1] = k
  BY AppendProperties DEF Path
<1> HIDE DEF x
<1>2. Len(s) \in Nat
  BY DEF Path
<1>3. Len(x) - 1 = Len(s) /\ \A i \in 1..Len(s) : x[i] \in Keys
  BY <1>1, <1>2 DEF Path
<1>4. /\ SubSeq(x, 1, Len(s)) \in Seq(Keys)
      /\ Len(SubSeq(x, 1, Len(s))) = Len(s)
      /\ \A i \in 1..Len(s) : SubSeq(x, 1, Len(s))[i] = x[i]
  BY <1>2, <1>3, SubSeqProperties
<1>5. SubSeq(x, 1, Len(s)) = s
  BY <1>1, <1>2, <1>4, SeqEqual DEF Path
<1>6. Front(x) = s /\ Last(x) = k
  BY <1>1, <1>3, <1>5 DEF Front, Last
<1>7. x # Root
  BY <1>1, <1>2, RootIsPath
<1> QED
  BY <1>1, <1>6, <1>7 DEF x, Path

\* Any path below the root is an object and a key.
LEMMA SplitLast ==
    ASSUME NEW x \in Path, x # Root
    PROVE  /\ Front(x) \in Path /\ Last(x) \in Keys
           /\ Len(Front(x)) = Len(x) - 1
           /\ IsPrefix(Front(x), x)
           /\ x = Append(Front(x), Last(x))
<1> DEFINE f == Front(x)
<1>1. Len(x) \in Nat /\ Len(x) > 0
  BY EmptySeq DEF Path, Root
<1>2. Len(x) - 1 \in Nat /\ \A i \in 1..Len(x) - 1 : x[i] \in Keys
  BY <1>1 DEF Path
<1>3. /\ f \in Seq(Keys)
      /\ Len(f) = Len(x) - 1
      /\ \A i \in 1..Len(x) - 1 : f[i] = x[i]
  <2> DEFINE n == Len(x) - 1
  <2>1. n \in Nat /\ n \in Int /\ \A i \in 1..n : x[i] \in Keys
    BY <1>2
  <2> HIDE DEF n
  <2>2. /\ SubSeq(x, 1, n) \in Seq(Keys)
        /\ Len(SubSeq(x, 1, n)) = IF 1 <= n THEN n - 1 + 1 ELSE 0
        /\ \A i \in 1..n - 1 + 1 : SubSeq(x, 1, n)[i] = x[1 + i - 1]
    BY <2>1, SubSeqProperties
  <2>3. Len(SubSeq(x, 1, n)) = n /\ \A i \in 1..n : SubSeq(x, 1, n)[i] = x[i]
    BY <2>1, <2>2
  <2> QED
    BY <2>2, <2>3 DEF Front, n
<1> HIDE DEF f
<1>4. IsPrefix(f, x)
  <2>1. Len(f) <= Len(x)
    BY <1>1, <1>3
  <2> QED
    BY <1>3, <2>1, PrefixChar DEF Path
<1>5. Last(x) = x[Len(x)] /\ x[Len(x)] \in Keys
  BY <1>1 DEF Last, Path
<1>6. /\ Append(f, Last(x)) \in Seq(Keys)
      /\ Len(Append(f, Last(x))) = Len(f) + 1
      /\ \A i \in 1..Len(f) : Append(f, Last(x))[i] = f[i]
      /\ Append(f, Last(x))[Len(f) + 1] = Last(x)
  BY <1>3, <1>5, AppendProperties
<1>7. Append(f, Last(x)) = x
  <2>1. Len(Append(f, Last(x))) = Len(x)
    BY <1>1, <1>3, <1>6
  <2>2. ASSUME NEW i \in 1..Len(x) PROVE Append(f, Last(x))[i] = x[i]
    <3>1. CASE i = Len(x)
      <4>1. Len(f) + 1 = Len(x)
        BY <1>1, <1>3
      <4> QED
        BY <3>1, <4>1, <1>5, <1>6
    <3>2. CASE i # Len(x)
      BY <3>2, <1>1, <1>3, <1>6
    <3> QED
      BY <3>1, <3>2
  <2> QED
    BY <1>6, <2>1, <2>2, SeqEqual DEF Path
<1> QED
  BY <1>3, <1>4, <1>5, <1>7 DEF f, Path

\* Below p, the object and the key are those of the rest.
LEMMA FrontOfConcat ==
    ASSUME NEW p \in Path, NEW x \in Path, x # Root
    PROVE  /\ p \o x # Root
           /\ Front(p \o x) = p \o Front(x)
           /\ Last(p \o x) = Last(x)
<1>1. Front(x) \in Path /\ Last(x) \in Keys /\ x = Append(Front(x), Last(x))
  BY SplitLast
<1>2. p \o Front(x) \in Path
  BY <1>1, ConcatChar
<1>3. p \o Append(Front(x), Last(x)) = Append(p \o Front(x), Last(x))
  BY <1>1 DEF Path
<1>4. p \o x = Append(p \o Front(x), Last(x))
  BY <1>1, <1>3
<1>5. /\ Append(p \o Front(x), Last(x)) # Root
      /\ Front(Append(p \o Front(x), Last(x))) = p \o Front(x)
      /\ Last(Append(p \o Front(x), Last(x))) = Last(x)
  BY <1>1, <1>2, FrontOfAppend, Zenon
<1> QED
  BY <1>4, <1>5, Zenon

\* Below the root a path is itself.
LEMMA RootConcat ==
    ASSUME NEW x \in Path
    PROVE  Root \o x = x
BY ConcatEmptySeq DEF Path, Root

-----------------------------------------------------------------------------
(* What extract_json reads *)

\* Entries are inlined under keys.
LEMMA InlineTypes ==
    ASSUME NEW c, ContainersOK(c), NEW q \in DOMAIN c
    PROVE  q \in Path /\ DOMAIN c[q].inline \subseteq Keys
<1>1. q \in Path /\ c[q] \in ContainerRow
  BY DEF ContainersOK
<1>2. PICK K \in SUBSET Keys : c[q].inline \in [K -> Item]
  BY <1>1 DEF ContainerRow
<1> QED
  BY <1>1, <1>2

\* The nodes below p are those of the three places.
LEMMA NodesChar ==
    ASSUME NEW c, NEW r, ContainersOK(c), PrimitivesOK(r), NEW p \in Path
    PROVE  /\ NodesOf(c, r, p) \subseteq Path
           /\ \A y \in Path : y \in NodesOf(c, r, p) <=>
                 \/ p \o y \in DOMAIN c
                 \/ y # Root /\ p \o y \in DOMAIN r
                 \/ y # Root /\ Inlined(c, p \o y)
<1>1. ASSUME NEW q \in DOMAIN c, IsPrefix(p, q)
      PROVE  q \in Path /\ Rel(p, q) \in Path /\ q = p \o Rel(p, q)
  BY <1>1, RelChar DEF ContainersOK
<1>2. ASSUME NEW q \in DOMAIN r, IsStrictPrefix(p, q)
      PROVE  q \in Path /\ Rel(p, q) \in Path /\ q = p \o Rel(p, q) /\ Rel(p, q) # Root
  <2>1. q \in Path /\ IsPrefix(p, q) /\ p # q
    BY <1>2 DEF PrimitivesOK, IsStrictPrefix
  <2>2. Rel(p, q) \in Path /\ q = p \o Rel(p, q)
    BY <2>1, RelChar
  <2> QED
    BY <2>1, <2>2, ConcatChar
<1>3. ASSUME NEW q \in DOMAIN c, IsPrefix(p, q), NEW k \in DOMAIN c[q].inline
      PROVE  /\ Append(Rel(p, q), k) \in Path /\ Append(Rel(p, q), k) # Root
             /\ Inlined(c, p \o Append(Rel(p, q), k))
  <2> DEFINE x == Append(Rel(p, q), k)
  <2>1. Rel(p, q) \in Path /\ q = p \o Rel(p, q) /\ k \in Keys
    BY <1>1, <1>3, InlineTypes
  <2>2. x \in Path /\ x # Root /\ Front(x) = Rel(p, q) /\ Last(x) = k
    BY <2>1, FrontOfAppend
  <2> HIDE DEF x
  <2>3. p \o x # Root /\ Front(p \o x) = p \o Front(x) /\ Last(p \o x) = Last(x)
    BY <2>2, FrontOfConcat
  <2>4. Front(p \o x) = q /\ Last(p \o x) = k
    BY <2>1, <2>2, <2>3
  <2> QED
    BY <2>2, <2>3, <2>4 DEF Inlined, x
<1>4. ASSUME NEW y \in NodesOf(c, r, p)
      PROVE  y \in Path /\ \/ p \o y \in DOMAIN c
                           \/ y # Root /\ p \o y \in DOMAIN r
                           \/ y # Root /\ Inlined(c, p \o y)
  <2>1. \/ \E q \in DOMAIN c : IsPrefix(p, q) /\ y = Rel(p, q)
        \/ \E q \in DOMAIN r : IsStrictPrefix(p, q) /\ y = Rel(p, q)
        \/ \E q \in DOMAIN c : IsPrefix(p, q) /\ \E k \in DOMAIN c[q].inline : y = Append(Rel(p, q), k)
    BY DEF NodesOf
  <2>2. CASE \E q \in DOMAIN c : IsPrefix(p, q) /\ y = Rel(p, q)
    BY <2>2, <1>1
  <2>3. CASE \E q \in DOMAIN r : IsStrictPrefix(p, q) /\ y = Rel(p, q)
    BY <2>3, <1>2
  <2>4. CASE \E q \in DOMAIN c : IsPrefix(p, q) /\ \E k \in DOMAIN c[q].inline : y = Append(Rel(p, q), k)
    BY <2>4, <1>3
  <2> QED
    BY <2>1, <2>2, <2>3, <2>4
<1>5. ASSUME NEW y \in Path, p \o y \in DOMAIN c PROVE y \in NodesOf(c, r, p)
  <2>1. IsPrefix(p, p \o y) /\ Rel(p, p \o y) = y
    BY ConcatChar
  <2> QED
    BY <2>1, <1>5 DEF NodesOf
<1>6. ASSUME NEW y \in Path, y # Root, p \o y \in DOMAIN r PROVE y \in NodesOf(c, r, p)
  <2>1. IsStrictPrefix(p, p \o y) /\ Rel(p, p \o y) = y
    BY <1>6, ConcatChar DEF IsStrictPrefix
  <2> QED
    BY <2>1, <1>6 DEF NodesOf
<1>7. ASSUME NEW y \in Path, y # Root, Inlined(c, p \o y) PROVE y \in NodesOf(c, r, p)
  <2>1. /\ Front(y) \in Path /\ y = Append(Front(y), Last(y))
        /\ Front(p \o y) = p \o Front(y) /\ Last(p \o y) = Last(y)
    BY <1>7, SplitLast, FrontOfConcat
  <2>2. p \o Front(y) \in DOMAIN c /\ Last(y) \in DOMAIN c[p \o Front(y)].inline
    BY <1>7, <2>1 DEF Inlined
  <2>3. IsPrefix(p, p \o Front(y)) /\ Rel(p, p \o Front(y)) = Front(y)
    BY <2>1, ConcatChar
  <2>4. y \in {Append(Rel(p, p \o Front(y)), k) : k \in DOMAIN c[p \o Front(y)].inline}
    BY <2>1, <2>2, <2>3
  <2> QED
    BY <2>2, <2>3, <2>4 DEF NodesOf
<1> QED
  BY <1>4, <1>5, <1>6, <1>7

\* Where two tables say the same, so do the texts they spell.
LEMMA TextSameAt ==
    ASSUME NEW c, NEW r, ContainersOK(c), PrimitivesOK(r),
           NEW d, NEW s, ContainersOK(d), PrimitivesOK(s),
           NEW p \in Path, NEW y \in Path, SameAt(c, r, d, s, p \o y)
    PROVE  /\ y \in NodesOf(c, r, p) <=> y \in NodesOf(d, s, p)
           /\ y \in NodesOf(c, r, p) => TextOf(c, r, p)[y] = TextOf(d, s, p)[y]
<1>1. y \in NodesOf(c, r, p) <=> y \in NodesOf(d, s, p)
  BY NodesChar DEF SameAt
<1>2. ASSUME y \in NodesOf(c, r, p) PROVE TextOf(c, r, p)[y] = TextOf(d, s, p)[y]
  <2>1. TextOf(c, r, p)[y] = IF p \o y \in DOMAIN c THEN Obj
                             ELSE IF p \o y \in DOMAIN r THEN r[p \o y].val
                             ELSE c[p \o Front(y)].inline[Last(y)]
    BY <1>2 DEF TextOf
  <2>2. TextOf(d, s, p)[y] = IF p \o y \in DOMAIN d THEN Obj
                             ELSE IF p \o y \in DOMAIN s THEN s[p \o y].val
                             ELSE d[p \o Front(y)].inline[Last(y)]
    BY <1>1, <1>2 DEF TextOf
  <2>3. CASE p \o y \in DOMAIN c \cup DOMAIN r
    BY <2>1, <2>2, <2>3 DEF SameAt
  <2>4. CASE p \o y \notin DOMAIN c \cup DOMAIN r
    <3>1. y # Root /\ Inlined(c, p \o y)
      BY <1>2, <2>4, NodesChar
    <3>2. Front(p \o y) = p \o Front(y) /\ Last(p \o y) = Last(y)
      BY <3>1, FrontOfConcat
    <3>3. p \o y \notin DOMAIN d /\ p \o y \notin DOMAIN s
      BY <2>4 DEF SameAt
    <3>4. c[p \o Front(y)].inline[Last(y)] = d[p \o Front(y)].inline[Last(y)]
      BY <3>1, <3>2 DEF SameAt
    <3> QED
      BY <2>1, <2>2, <2>4, <3>3, <3>4
  <2> QED
    BY <2>3, <2>4
<1> QED
  BY <1>1, <1>2

\* A document all of whose nodes stay is the same text.
LEMMA TextSame ==
    ASSUME NEW c, NEW r, ContainersOK(c), PrimitivesOK(r),
           NEW d, NEW s, ContainersOK(d), PrimitivesOK(s),
           NEW p \in Path, p \in DOMAIN c, p \in DOMAIN d,
           \A z \in Path : IsStrictPrefix(p, z) => SameAt(c, r, d, s, z)
    PROVE  TextOf(c, r, p) = TextOf(d, s, p)
<1>1. p \o Root = p /\ Root \in Path
  BY RootIsPath, ConcatChar
<1>2. /\ Root \in NodesOf(c, r, p) /\ Root \in NodesOf(d, s, p)
      /\ TextOf(c, r, p)[Root] = Obj /\ TextOf(d, s, p)[Root] = Obj
  <2>1. Root \in NodesOf(c, r, p) /\ Root \in NodesOf(d, s, p)
    BY <1>1, NodesChar
  <2> QED
    BY <1>1, <2>1 DEF TextOf
<1>3. ASSUME NEW y \in Path, y # Root
      PROVE  /\ y \in NodesOf(c, r, p) <=> y \in NodesOf(d, s, p)
             /\ y \in NodesOf(c, r, p) => TextOf(c, r, p)[y] = TextOf(d, s, p)[y]
  <2>1. p \o y \in Path /\ IsStrictPrefix(p, p \o y)
    BY <1>3, ConcatChar DEF IsStrictPrefix
  <2> QED
    BY <2>1, TextSameAt
<1>4. NodesOf(c, r, p) = NodesOf(d, s, p)
  BY <1>2, <1>3, NodesChar
<1>5. \A y \in NodesOf(c, r, p) : TextOf(c, r, p)[y] = TextOf(d, s, p)[y]
  BY <1>2, <1>3, NodesChar
<1>6. /\ TextOf(c, r, p) = [y \in NodesOf(c, r, p) |-> TextOf(c, r, p)[y]]
      /\ TextOf(d, s, p) = [y \in NodesOf(d, s, p) |-> TextOf(d, s, p)[y]]
  BY DEF TextOf
<1> QED
  BY <1>4, <1>5, <1>6, Zenon

-----------------------------------------------------------------------------
(* What a call at p may change *)

Retained(q) == q \in DOMAIN containers /\ containers'[q] = containers[q]
New(q)  == clock' = clock + 1 /\ containers'[q].rev = clock'

SameBelow(q) ==
    \A z \in Path : IsStrictPrefix(q, z) => SameAt(containers, primitives, containers', primitives', z)

\* Not at or below p: rows stay, and only empty containers that lead to p appear.
Frame(p) ==
    /\ \A q \in DOMAIN containers : ~IsPrefix(p, q) => q \in DOMAIN containers' /\ Retained(q)
    /\ \A q \in DOMAIN containers' :
          ~IsPrefix(p, q) => Retained(q) \/ (IsPrefix(q, p) /\ containers'[q].inline = Nothing)
    /\ \A q \in Path : ~IsPrefix(p, q) => (q \in DOMAIN primitives <=> q \in DOMAIN primitives')
    /\ \A q \in DOMAIN primitives : ~IsPrefix(p, q) => primitives'[q] = primitives[q]

\* Every container is as it was or has the revision of this call; at and below
\* p it has that revision or stands over what it stood over.
Dated    == \A q \in DOMAIN containers' : Retained(q) \/ New(q)
Below(p) == \A q \in DOMAIN containers' :
               IsPrefix(p, q) => New(q) \/ (q \in DOMAIN containers /\ SameBelow(q))

Edit(p) == Frame(p) /\ Dated /\ Below(p)

\* Apart from p nothing changes.
LEMMA FrameSame ==
    ASSUME IInv, IInv', NEW p \in Path, Frame(p),
           NEW z \in Path, ~IsPrefix(p, z), ~IsPrefix(z, p)
    PROVE  SameAt(containers, primitives, containers', primitives', z)
<1>1. DOMAIN containers \subseteq Path /\ DOMAIN containers' \subseteq Path
  BY DEF IInv, TypeOK
<1>2. z \in DOMAIN containers <=> z \in DOMAIN containers'
  BY DEF Frame, Retained
<1>3. /\ z \in DOMAIN primitives <=> z \in DOMAIN primitives'
      /\ z \in DOMAIN primitives => primitives[z].val = primitives'[z].val
  BY DEF Frame
<1> DEFINE f == Front(z)
<1>4. ~IsPrefix(p, f)
  <2>1. z # Root
    BY PrefixChar, RootIsPath DEF Path
  <2>2. f \in Path /\ IsPrefix(f, z)
    BY <2>1, SplitLast
  <2> QED
    BY <2>2, PrefixOrder
<1>5. CASE f \in DOMAIN containers
  <2>1. f \in DOMAIN containers' /\ containers'[f] = containers[f]
    BY <1>4, <1>5 DEF Frame, Retained
  <2> QED
    BY <1>2, <1>3, <1>5, <2>1 DEF SameAt, Inlined
<1>6. CASE f \notin DOMAIN containers
  <2>1. f \in DOMAIN containers' => containers'[f].inline = Nothing
    BY <1>4, <1>6 DEF Frame, Retained
  <2>2. DOMAIN Nothing = {}
    BY DEF Nothing
  <2>3. ~Inlined(containers, z) /\ ~Inlined(containers', z)
    BY <1>6, <2>1, <2>2 DEF Inlined
  <2> QED
    BY <1>2, <1>3, <2>3 DEF SameAt
<1> QED
  BY <1>5, <1>6

\* Containers that lead to p are added empty and with the revision of the call.
LEMMA EnsuredRows ==
    ASSUME NEW c, NEW p \in Path, NEW rev, NEW e, e = EnsureIntermediate(c, p, rev)
    PROVE  /\ \A q \in DOMAIN c : q \in DOMAIN e /\ e[q] = c[q]
           /\ \A q \in DOMAIN e : \/ q \in DOMAIN c
                                  \/ /\ q \in Path /\ IsPrefix(q, p) /\ q \in Ancestors(p) \cup {Root}
                                     /\ e[q].inline = Nothing /\ e[q].rev = rev
<1> DEFINE row == [inline |-> Nothing, rev |-> rev, nr |-> 1]
           n   == [q \in Ancestors(p) \cup {Root} |-> row]
<1>1. \A q \in Ancestors(p) \cup {Root} : q \in Path /\ IsPrefix(q, p)
  <2>1. \A q \in Ancestors(p) : q \in Path /\ IsPrefix(q, p)
    BY AncestorChar
  <2>2. Root \in Path /\ IsPrefix(Root, p)
    <3>1. Root \in Path /\ Len(Root) = 0 /\ Len(p) \in Nat
      BY RootIsPath DEF Path
    <3> QED
      BY <3>1, PrefixChar
  <2> QED
    BY <2>1, <2>2
<1>2. DOMAIN n = Ancestors(p) \cup {Root} /\ \A q \in DOMAIN n : n[q] = row
  OBVIOUS
<1>3. row.inline = Nothing /\ row.rev = rev
  OBVIOUS
<1>4. e = Override(c, n)
  BY DEF EnsureIntermediate
<1> HIDE DEF n, row
<1>5. /\ DOMAIN e = DOMAIN c \cup DOMAIN n
      /\ \A q \in DOMAIN c : e[q] = c[q]
      /\ \A q \in DOMAIN n : q \notin DOMAIN c => e[q] = n[q]
  <2>1. /\ DOMAIN Override(c, n) = DOMAIN c \cup DOMAIN n
        /\ \A q \in DOMAIN c : Override(c, n)[q] = c[q]
        /\ \A q \in DOMAIN n : q \notin DOMAIN c => Override(c, n)[q] = n[q]
    BY OverrideChar
  <2> QED
    BY <1>4, <2>1, Zenon
<1>6. \A q \in DOMAIN c : q \in DOMAIN e /\ e[q] = c[q]
  BY <1>5
<1>7. ASSUME NEW q \in DOMAIN e, q \notin DOMAIN c
      PROVE  /\ q \in Path /\ IsPrefix(q, p) /\ q \in Ancestors(p) \cup {Root}
             /\ e[q].inline = Nothing /\ e[q].rev = rev
  <2>1. q \in Ancestors(p) \cup {Root} /\ e[q] = row
    BY <1>2, <1>5, <1>7
  <2> QED
    BY <2>1, <1>1, <1>3
<1> QED
  BY <1>6, <1>7

\* Set, full update and import: the rows w and v, all at or below p, are put
\* over what the deletion leaves and the containers that lead to p.
LEMMA WriteEdit ==
    ASSUME IInv, NEW p \in Path, NEW w, NEW v,
           \A q \in DOMAIN w : IsPrefix(p, q) /\ w[q].rev = clock + 1,
           \A q \in DOMAIN v : IsPrefix(p, q),
           clock' = clock + 1,
           containers' = Override(w, EnsureIntermediate(Restrict(containers, Outside(p)), p, clock + 1)),
           primitives' = Override(v, Restrict(primitives, OutsideStrictly(p)))
    PROVE  Edit(p)
<1> DEFINE out  == Restrict(containers, Outside(p))
           left == Restrict(primitives, OutsideStrictly(p))
           e    == EnsureIntermediate(out, p, clock + 1)
<1>1. /\ DOMAIN out = Outside(p) /\ \A q \in Outside(p) : out[q] = containers[q]
      /\ DOMAIN left = OutsideStrictly(p) /\ \A q \in OutsideStrictly(p) : left[q] = primitives[q]
  BY DEF Restrict, Outside, OutsideStrictly
<1>2. /\ \A q \in DOMAIN out : q \in DOMAIN e /\ e[q] = out[q]
      /\ \A q \in DOMAIN e : \/ q \in DOMAIN out
                             \/ IsPrefix(q, p) /\ e[q].inline = Nothing /\ e[q].rev = clock + 1
  BY EnsuredRows
<1>3. /\ containers' = Override(w, e)
      /\ primitives' = Override(v, left)
  OBVIOUS
<1> HIDE DEF out, left, e
<1>4. /\ DOMAIN containers' = DOMAIN w \cup DOMAIN e
      /\ \A q \in DOMAIN w : containers'[q] = w[q]
      /\ \A q \in DOMAIN e : q \notin DOMAIN w => containers'[q] = e[q]
  <2>1. /\ DOMAIN Override(w, e) = DOMAIN w \cup DOMAIN e
        /\ \A q \in DOMAIN w : Override(w, e)[q] = w[q]
        /\ \A q \in DOMAIN e : q \notin DOMAIN w => Override(w, e)[q] = e[q]
    BY OverrideChar
  <2> QED
    BY <1>3, <2>1, Zenon
<1>5. /\ DOMAIN primitives' = DOMAIN v \cup DOMAIN left
      /\ \A q \in DOMAIN left : q \notin DOMAIN v => primitives'[q] = left[q]
  <2>1. /\ DOMAIN Override(v, left) = DOMAIN v \cup DOMAIN left
        /\ \A q \in DOMAIN left : q \notin DOMAIN v => Override(v, left)[q] = left[q]
    BY OverrideChar
  <2> QED
    BY <1>3, <2>1, Zenon
<1>6. ASSUME NEW q \in DOMAIN containers'
      PROVE  \/ IsPrefix(p, q) /\ New(q)
             \/ ~IsPrefix(p, q) /\ Retained(q)
             \/ IsPrefix(q, p) /\ containers'[q].inline = Nothing /\ New(q)
  <2>1. CASE q \in DOMAIN w
    BY <2>1, <1>4 DEF New
  <2>2. CASE q \notin DOMAIN w
    <3>1. q \in DOMAIN e /\ containers'[q] = e[q]
      BY <2>2, <1>4
    <3>2. CASE q \in DOMAIN out
      <4>1. q \in DOMAIN containers /\ ~IsPrefix(p, q) /\ e[q] = containers[q]
        BY <3>2, <1>1, <1>2 DEF Outside
      <4> QED
        BY <3>1, <4>1 DEF Retained
    <3>3. CASE q \notin DOMAIN out
      BY <3>1, <3>3, <1>2 DEF New
    <3> QED
      BY <3>2, <3>3
  <2> QED
    BY <2>1, <2>2
<1>7. ASSUME NEW q \in DOMAIN containers, ~IsPrefix(p, q)
      PROVE  q \in DOMAIN containers' /\ Retained(q)
  <2>1. q \in DOMAIN out /\ q \in DOMAIN e /\ e[q] = containers[q] /\ q \notin DOMAIN w
    BY <1>7, <1>1, <1>2 DEF Outside
  <2> QED
    BY <2>1, <1>4 DEF Retained
<1>8. ASSUME NEW q \in Path, ~IsPrefix(p, q)
      PROVE  /\ q \in DOMAIN primitives <=> q \in DOMAIN primitives'
             /\ q \in DOMAIN primitives => primitives'[q] = primitives[q]
  <2>1. q \notin DOMAIN v
    BY <1>8
  <2>2. q \in DOMAIN primitives <=> q \in OutsideStrictly(p)
    BY <1>8 DEF OutsideStrictly, IsStrictPrefix
  <2> QED
    BY <2>1, <2>2, <1>1, <1>5
<1>9. Frame(p)
  <2>1. DOMAIN primitives \subseteq Path
    BY DEF IInv, TypeOK
  <2>2. \A q \in DOMAIN containers : ~IsPrefix(p, q) => q \in DOMAIN containers' /\ Retained(q)
    BY <1>7
  <2>3. \A q \in DOMAIN containers' :
           ~IsPrefix(p, q) => Retained(q) \/ (IsPrefix(q, p) /\ containers'[q].inline = Nothing)
    BY <1>6
  <2> QED
    BY <2>1, <2>2, <2>3, <1>8 DEF Frame
<1>10. Dated
  BY <1>6 DEF Dated
<1>11. Below(p)
  BY <1>6 DEF Below
<1> QED
  BY <1>9, <1>10, <1>11 DEF Edit

\* The rows of a text at p lie at and below p and have the revision given.
LEMMA TextRowsBelow ==
    ASSUME NEW p \in Path, NEW t, IsText(t), NEW limit, NEW rev, NEW nr
    PROVE  /\ \A q \in DOMAIN ContainerRows(p, t, limit, rev, nr) :
                 IsPrefix(p, q) /\ ContainerRows(p, t, limit, rev, nr)[q].rev = rev
           /\ \A q \in DOMAIN PrimitiveRows(p, t, limit, rev, nr) : IsPrefix(p, q)
<1>1. \A x \in ContainerPaths(t, limit) \cup PrimitivePaths(t, limit) : IsPrefix(p, p \o x)
  BY FlattenTypes, ConcatChar
<1>2. \A q \in DOMAIN ContainerRows(p, t, limit, rev, nr) :
         IsPrefix(p, q) /\ ContainerRows(p, t, limit, rev, nr)[q].rev = rev
  BY <1>1 DEF ContainerRows
<1>3. \A q \in DOMAIN PrimitiveRows(p, t, limit, rev, nr) : IsPrefix(p, q)
  BY <1>1 DEF PrimitiveRows
<1> QED
  BY <1>2, <1>3

\* INSERT of a text at p.
LEMMA WriteTextEdit ==
    ASSUME IInv, NEW p \in Path, NEW t, IsText(t), NEW limit, WriteText(p, t, limit)
    PROVE  Edit(p)
<1> DEFINE ensured == EnsureIntermediate(Restrict(containers, Outside(p)), p, clock + 1)
           nr      == RevisionNr(ensured, p) + 1
           w       == ContainerRows(p, t, limit, clock + 1, nr)
           v       == PrimitiveRows(p, t, limit, clock + 1, nr)
<1>1. /\ clock' = clock + 1
      /\ containers' = Override(w, ensured)
      /\ primitives' = Override(v, Restrict(primitives, OutsideStrictly(p)))
  BY DEF WriteText
<1>2. /\ \A q \in DOMAIN w : IsPrefix(p, q) /\ w[q].rev = clock + 1
      /\ \A q \in DOMAIN v : IsPrefix(p, q)
  BY TextRowsBelow
<1> HIDE DEF w, v
<1> QED
  BY <1>1, <1>2, WriteEdit

\* Putting one set of rows over another over a third.
LEMMA OverrideTwice ==
    ASSUME NEW m, NEW n, NEW o
    PROVE  Override(m, Override(n, o)) = Override(Override(m, n), o)
BY DEF Override

\* import_csv at p.
LEMMA ImportEdit ==
    ASSUME IInv, NEW p \in Path, NEW t, IsText(t), NEW limit, ImportCsv(p, t, limit)
    PROVE  Edit(p)
<1> DEFINE ensured == EnsureIntermediate(Restrict(containers, Outside(p)), p, clock + 1)
           nr      == RevisionNr(ensured, p) + 1
           root    == RootRow(p, clock + 1, nr)
           rows    == ContainerRows(p, t, limit, clock + 1, nr)
           w       == Override(root, rows)
           v       == PrimitiveRows(p, t, limit, clock + 1, nr)
<1>1. /\ clock' = clock + 1
      /\ containers' = Override(root, Override(rows, ensured))
      /\ primitives' = Override(v, Restrict(primitives, OutsideStrictly(p)))
  BY DEF ImportCsv
<1>2. /\ \A q \in DOMAIN rows : IsPrefix(p, q) /\ rows[q].rev = clock + 1
      /\ \A q \in DOMAIN v : IsPrefix(p, q)
  BY TextRowsBelow
<1>3. \A q \in DOMAIN root : IsPrefix(p, q) /\ root[q].rev = clock + 1
  BY PrefixOrder DEF RootRow
<1> HIDE DEF root, rows, v, ensured
<1>4. containers' = Override(w, ensured)
  <2>1. Override(root, Override(rows, ensured)) = Override(Override(root, rows), ensured)
    BY OverrideTwice
  <2> QED
    BY <1>1, <2>1
<1>5. \A q \in DOMAIN w : IsPrefix(p, q) /\ w[q].rev = clock + 1
  <2>1. /\ DOMAIN w = DOMAIN root \cup DOMAIN rows
        /\ \A q \in DOMAIN root : w[q] = root[q]
        /\ \A q \in DOMAIN rows : q \notin DOMAIN root => w[q] = rows[q]
    BY OverrideChar
  <2> HIDE DEF w
  <2> QED
    BY <2>1, <1>2, <1>3
<1> HIDE DEF w
<1> QED
  BY <1>1, <1>2, <1>4, <1>5, WriteEdit DEF ensured

\* remove_json at p.
LEMMA RemoveEdit ==
    ASSUME IInv, NEW p \in Path, RemoveJson(p)
    PROVE  Edit(p)
<1>1. /\ DOMAIN containers' = Outside(p) /\ \A q \in Outside(p) : containers'[q] = containers[q]
      /\ DOMAIN primitives' = OutsideStrictly(p)
      /\ \A q \in OutsideStrictly(p) : primitives'[q] = primitives[q]
  <2>1. /\ containers' = Restrict(containers, Outside(p))
        /\ primitives' = Restrict(primitives, OutsideStrictly(p))
    BY DEF RemoveJson
  <2>2. Outside(p) \subseteq DOMAIN containers /\ OutsideStrictly(p) \subseteq DOMAIN primitives
    BY DEF Outside, OutsideStrictly
  <2> QED
    BY <2>1, <2>2 DEF Restrict
<1>2. Outside(p) = {q \in DOMAIN containers : ~IsPrefix(p, q)}
  BY DEF Outside
<1>3. Dated /\ Below(p)
  BY <1>1, <1>2 DEF Dated, Below, Retained
<1>4. Frame(p)
  <2>1. \A q \in DOMAIN primitives : ~IsPrefix(p, q) => q \in OutsideStrictly(p)
    BY DEF OutsideStrictly, IsStrictPrefix
  <2>2. OutsideStrictly(p) \subseteq DOMAIN primitives
    BY DEF OutsideStrictly
  <2> QED
    BY <1>1, <1>2, <2>1, <2>2 DEF Frame, Retained
<1> QED
  BY <1>3, <1>4 DEF Edit

\* A prefix that is not the whole is shorter.
LEMMA StrictShorter ==
    ASSUME NEW a \in Path, NEW b \in Path, IsPrefix(a, b), a # b
    PROVE  Len(a) \in Nat /\ Len(b) \in Nat /\ Len(a) < Len(b)
<1>1. Len(a) <= Len(b) /\ Len(a) # Len(b)
  BY PrefixChar, PrefixOfSameLength
<1> QED
  BY <1>1 DEF Path

\* The entries of an update of leaves are the children of its root.
LEMMA LeavesAreChildren ==
    ASSUME NEW u, IsText(u), IsLeafObject(u), NEW x \in DOMAIN u, x # Root
    PROVE  x \in Path /\ Len(x) = 1
<1>1. x \in Path
  BY DEF IsText
<1>2. Front(x) \in Path /\ Len(Front(x)) = Len(x) - 1 /\ IsPrefix(Front(x), x)
  BY <1>1, SplitLast
<1>3. Len(x) \in Nat /\ Front(x) # x
  BY <1>1, <1>2 DEF Path
<1>4. Front(x) \in Ancestors(x)
  BY <1>1, <1>2, <1>3, AncestorChar
<1>5. Front(x) = Root
  BY <1>4 DEF IsText, IsLeafObject
<1> QED
  BY <1>1, <1>2, <1>3, <1>5, RootIsPath

\* update_json at a leaf of p.
LEMMA LeafEdit ==
    ASSUME IInv, IInv', NEW p \in Path, NEW u, IsText(u), UpdateLeaf(p, u)
    PROVE  Edit(p)
<1> DEFINE rev == clock + 1
           e   == EnsureIntermediate(containers, p, rev)
<1>2. /\ \A q \in DOMAIN containers : q \in DOMAIN e /\ e[q] = containers[q]
      /\ \A q \in DOMAIN e : \/ q \in DOMAIN containers
                             \/ IsPrefix(q, p) /\ e[q].inline = Nothing /\ e[q].rev = rev
  BY EnsuredRows
<1> DEFINE nr        == RevisionNr(e, p) + 1
           root      == RootRow(p, rev, nr)
           rooted    == Override(root, e)
           E         == Erased(rooted, p, u)
           Spared(q) == \A x \in E : ~IsPrefix(p \o x, q)
           W         == {x \in DOMAIN u \ {Root} : u[x] # Null}
           written   == [q \in {p \o x : x \in W} |-> [val |-> u[Rel(p, q)], rev |-> rev, nr |-> nr]]
           ckept     == {q \in DOMAIN rooted : Spared(q)}
           pkept     == {q \in DOMAIN primitives : Spared(q)}
           left      == Restrict(primitives, pkept)
<1>1. /\ IsLeafObject(u)
      /\ clock' = rev
      /\ containers' = Restrict(rooted, ckept)
      /\ primitives' = Override(written, left)
  BY DEF UpdateLeaf
<1>3. DOMAIN root = {p} /\ root[p].rev = rev
  BY DEF RootRow
<1>4. DOMAIN written = {p \o x : x \in W}
  OBVIOUS
<1>5. W \subseteq DOMAIN u \ {Root} /\ E \subseteq DOMAIN u \ {Root}
  BY DEF Erased
<1>6. DOMAIN left = pkept /\ \A q \in pkept : left[q] = primitives[q]
  BY DEF Restrict
<1> HIDE DEF e, nr, root, E, W, written, left
<1>7. /\ DOMAIN rooted = {p} \cup DOMAIN e
      /\ rooted[p].rev = rev
      /\ \A q \in DOMAIN e : q # p => rooted[q] = e[q]
  <2>1. /\ DOMAIN rooted = DOMAIN root \cup DOMAIN e
        /\ \A q \in DOMAIN root : rooted[q] = root[q]
        /\ \A q \in DOMAIN e : q \notin DOMAIN root => rooted[q] = e[q]
    BY OverrideChar
  <2> HIDE DEF rooted
  <2> QED
    BY <2>1, <1>3
<1> HIDE DEF rooted
<1>8. DOMAIN containers' = ckept /\ \A q \in ckept : containers'[q] = rooted[q]
  BY <1>1 DEF Restrict
<1>9. /\ DOMAIN primitives' = DOMAIN written \cup pkept
      /\ \A q \in pkept : q \notin DOMAIN written => primitives'[q] = primitives[q]
  <2>1. /\ DOMAIN Override(written, left) = DOMAIN written \cup DOMAIN left
        /\ \A q \in DOMAIN left : q \notin DOMAIN written => Override(written, left)[q] = left[q]
    BY OverrideChar
  <2> QED
    BY <2>1, <1>1, <1>6
<1>10. \A x \in W \cup E : /\ x \in Path /\ p \o x \in Path /\ IsPrefix(p, p \o x)
                           /\ Len(p \o x) = Len(p) + 1
  <2> TAKE x \in W \cup E
  <2>1. x \in Path /\ Len(x) = 1
    BY <1>1, <1>5, LeavesAreChildren
  <2> QED
    BY <2>1, ConcatChar
<1>11. DOMAIN containers \subseteq Path /\ DOMAIN containers' \subseteq Path /\ DOMAIN primitives \subseteq Path
  BY DEF IInv, TypeOK
<1>12. ASSUME NEW q \in Path, ~IsPrefix(p, q) PROVE Spared(q) /\ q \notin DOMAIN written /\ q # p
  <2>1. \A x \in E : ~IsPrefix(p \o x, q)
    BY <1>10, <1>12, PrefixOrder
  <2>2. q \notin DOMAIN written
    BY <1>4, <1>10, <1>12
  <2>3. q # p
    BY <1>12, PrefixOrder
  <2> QED
    BY <2>1, <2>2, <2>3
<1>13. ASSUME NEW q \in DOMAIN containers', q # p
       PROVE  /\ q \in DOMAIN e /\ containers'[q] = e[q] /\ Spared(q)
              /\ \/ q \in DOMAIN containers /\ Retained(q)
                 \/ IsPrefix(q, p) /\ containers'[q].inline = Nothing /\ New(q)
  <2>1. q \in DOMAIN e /\ containers'[q] = e[q] /\ Spared(q)
    BY <1>7, <1>8, <1>13
  <2>2. CASE q \in DOMAIN containers
    BY <2>1, <2>2, <1>2 DEF Retained
  <2>3. CASE q \notin DOMAIN containers
    BY <2>1, <2>3, <1>1, <1>2 DEF New
  <2> QED
    BY <2>1, <2>2, <2>3
<1>14. ASSUME p \in DOMAIN containers' PROVE New(p)
  <2>1. containers'[p] = rooted[p]
    BY <1>8, <1>14
  <2> QED
    BY <2>1, <1>1, <1>7 DEF New
<1>15. ASSUME NEW q \in DOMAIN containers, q # p, Spared(q)
       PROVE  q \in DOMAIN containers' /\ containers'[q] = containers[q]
  BY <1>2, <1>7, <1>8, <1>15
<1>16. Frame(p)
  <2>1. \A q \in DOMAIN containers : ~IsPrefix(p, q) => q \in DOMAIN containers' /\ Retained(q)
    BY <1>11, <1>12, <1>15 DEF Retained
  <2>2. \A q \in DOMAIN containers' :
           ~IsPrefix(p, q) => Retained(q) \/ (IsPrefix(q, p) /\ containers'[q].inline = Nothing)
    BY <1>11, <1>12, <1>13
  <2>3. \A q \in Path : ~IsPrefix(p, q) =>
           /\ q \in DOMAIN primitives <=> q \in DOMAIN primitives'
           /\ q \in DOMAIN primitives => primitives'[q] = primitives[q]
    BY <1>9, <1>12
  <2> QED
    BY <2>1, <2>2, <2>3, <1>11 DEF Frame
<1>17. Dated
  BY <1>13, <1>14 DEF Dated
\* A container that stays below p was not at an entry of u; what is below it stays.
<1>18. ASSUME NEW q \in DOMAIN containers', IsPrefix(p, q), q # p
       PROVE  q \in DOMAIN containers /\ SameBelow(q)
  <2>1. q \in Path /\ Spared(q) /\ Len(p) \in Nat /\ Len(q) \in Nat /\ Len(p) < Len(q)
    BY <1>11, <1>13, <1>18, StrictShorter
  <2>2. ASSUME NEW z \in Path, IsPrefix(q, z)
        PROVE  /\ Spared(z) /\ z # p /\ ~IsPrefix(z, p)
    <3>1. ASSUME NEW x \in E, IsPrefix(p \o x, z) PROVE FALSE
      <4>1. p \o x \in Path /\ Len(p \o x) <= Len(q)
        BY <1>10, <2>1
      <4>2. IsPrefix(p \o x, q)
        BY <4>1, <2>1, <2>2, <3>1, PrefixesComparable
      <4> QED
        BY <4>2, <2>1
    <3>2. ~IsPrefix(z, p)
      BY <2>1, <2>2, <1>18, PrefixOrder
    <3>3. z # p
      BY <3>2, PrefixOrder
    <3> QED
      BY <3>1, <3>2, <3>3
  <2>3. ASSUME NEW z \in Path, IsPrefix(q, z)
        PROVE  /\ z \in DOMAIN containers <=> z \in DOMAIN containers'
               /\ z \in DOMAIN containers => containers'[z] = containers[z]
    <3>1. Spared(z) /\ z # p /\ ~IsPrefix(z, p)
      BY <2>2, <2>3
    <3> QED
      BY <3>1, <1>13, <1>15
  <2>4. q \in DOMAIN containers
    BY <2>1, <2>3, PrefixOrder
  <2>5. ASSUME NEW z \in Path, IsStrictPrefix(q, z)
        PROVE  SameAt(containers, primitives, containers', primitives', z)
    <3>1. IsPrefix(q, z) /\ q # z /\ Len(z) \in Nat /\ Len(q) < Len(z)
      BY <2>1, <2>5, StrictShorter DEF IsStrictPrefix
    <3>2. z \notin DOMAIN written
      <4>1. \A x \in W : Len(p \o x) # Len(z)
        BY <1>10, <2>1, <3>1
      <4> QED
        BY <4>1, <1>4
    <3>3. /\ z \in DOMAIN primitives <=> z \in DOMAIN primitives'
          /\ z \in DOMAIN primitives => primitives[z].val = primitives'[z].val
      BY <3>1, <3>2, <2>2, <1>9
    <3>4. z # Root
      BY <2>1, <3>1, RootIsPath
    <3>5. Front(z) \in Path /\ IsPrefix(Front(z), z) /\ Len(Front(z)) = Len(z) - 1
      BY <3>4, SplitLast
    <3>6. IsPrefix(q, Front(z))
      <4>1. Len(q) <= Len(Front(z))
        BY <2>1, <3>1, <3>5
      <4> QED
        BY <4>1, <2>1, <3>1, <3>5, PrefixesComparable
    <3>7. /\ Front(z) \in DOMAIN containers <=> Front(z) \in DOMAIN containers'
          /\ Front(z) \in DOMAIN containers => containers'[Front(z)] = containers[Front(z)]
      BY <2>3, <3>5, <3>6
    <3>8. z \in DOMAIN containers <=> z \in DOMAIN containers'
      BY <2>3, <3>1
    <3> QED
      BY <3>3, <3>7, <3>8 DEF SameAt, Inlined
  <2> QED
    BY <2>4, <2>5 DEF SameBelow
<1>19. Below(p)
  BY <1>14, <1>18 DEF Below
<1> QED
  BY <1>16, <1>17, <1>19 DEF Edit

-----------------------------------------------------------------------------
(* The specification *)

\* No row has a revision that was not drawn yet.
RevsDrawn == \A q \in DOMAIN containers : containers[q].rev <= clock

EInv == IInv /\ RevsDrawn

\* Every call edits at the path it names, or is a set that is skipped.
LEMMA NextEdits ==
    ASSUME IInv, IInv', Next
    PROVE  /\ call'.path \in DocPaths
           /\ \/ UNCHANGED <<containers, primitives, clock>>
              \/ Edit(call'.path) /\ clock' \in {clock, clock + 1}
<1>1. ASSUME NEW p \in DocPaths, NEW t \in Texts, NEW limit \in Limits, SetJson(p, t, limit)
      PROVE  call'.path = p /\ \/ UNCHANGED <<containers, primitives, clock>>
                               \/ Edit(p) /\ clock' \in {clock, clock + 1}
  <2>1. p \in Path /\ IsText(t)
    BY EngineAssumption
  <2>2. CASE UNCHANGED <<containers, primitives, hashes, clock>>
    BY <2>2, <1>1 DEF SetJson, Called
  <2>3. CASE WriteText(p, t, limit)
    <3>1. Edit(p)
      BY <2>1, <2>3, WriteTextEdit
    <3> QED
      BY <3>1, <2>3, <1>1 DEF SetJson, Called, WriteText
  <2> QED
    BY <1>1, <2>2, <2>3 DEF SetJson
<1>2. ASSUME NEW p \in DocPaths, RemoveJson(p)
      PROVE  call'.path = p /\ Edit(p) /\ clock' \in {clock, clock + 1}
  <2>1. Edit(p)
    BY <1>2, RemoveEdit, EngineAssumption
  <2> QED
    BY <2>1, <1>2 DEF RemoveJson, Called
<1>3. ASSUME NEW p \in DocPaths, NEW u \in Updates, UpdateLeaf(p, u)
      PROVE  call'.path = p /\ Edit(p) /\ clock' \in {clock, clock + 1}
  <2>1. Edit(p)
    BY <1>3, LeafEdit, EngineAssumption
  <2> QED
    BY <2>1, <1>3 DEF UpdateLeaf, Called
<1>4. ASSUME NEW p \in DocPaths, NEW u \in Updates, UpdateFull(p, u)
      PROVE  call'.path = p /\ Edit(p) /\ clock' \in {clock, clock + 1}
  <2> DEFINE m == IF Exists(p) THEN Merge(Extract(p), u) ELSE u
  <2>1. p \in Path /\ IsText(u) /\ u[Root] = Obj
    BY EngineAssumption
  <2>2. IsText(m)
    BY <2>1, ExtractIsText, MergeIsText
  <2>3. WriteText(p, m, DefaultLimit) /\ call'.path = p
    BY <1>4 DEF UpdateFull, Called
  <2>4. Edit(p)
    BY <2>1, <2>2, <2>3, WriteTextEdit
  <2> QED
    BY <2>3, <2>4 DEF WriteText
<1>5. ASSUME NEW p \in DocPaths, NEW u \in Updates, UpdateWildcard(p, u)
      PROVE  call'.path = p /\ Edit(p) /\ clock' \in {clock, clock + 1}
  <2> DEFINE m == Merge(Extract(p), EachChild(Extract(p), u))
  <2>1. p \in Path /\ IsText(u) /\ u[Root] = Obj
    BY EngineAssumption
  <2>2. Exists(p) /\ WriteText(p, m, DefaultLimit) /\ call'.path = p
    BY <1>5 DEF UpdateWildcard, Called
  <2>3. IsText(m)
    BY <2>1, <2>2, ExtractIsText, EachChildIsText, MergeIsText
  <2>4. Edit(p)
    BY <2>1, <2>2, <2>3, WriteTextEdit
  <2> QED
    BY <2>2, <2>4 DEF WriteText
<1>6. ASSUME NEW p \in DocPaths, NEW t \in Texts, NEW limit \in Limits, ImportCsv(p, t, limit)
      PROVE  call'.path = p /\ Edit(p) /\ clock' \in {clock, clock + 1}
  <2>1. Edit(p)
    BY <1>6, ImportEdit, EngineAssumption
  <2> QED
    BY <2>1, <1>6 DEF ImportCsv, Called
<1> QED
  BY <1>1, <1>2, <1>3, <1>4, <1>5, <1>6 DEF Next

\* At first no revision is drawn.
LEMMA EInvInit == Init => EInv
BY IInvInit DEF Init, EInv, RevsDrawn, Nothing

\* Every revision in the rows was drawn from the clock.
LEMMA EInvNext == EInv /\ [Next]_vars => EInv'
<1> SUFFICES ASSUME EInv, [Next]_vars PROVE EInv'
  OBVIOUS
<1>1. IInv /\ IInv'
  BY IInvNext DEF EInv
<1>2. clock \in Nat /\ \A q \in DOMAIN containers : containers[q].rev \in Nat /\ containers[q].rev <= clock
  BY <1>1 DEF EInv, RevsDrawn, IInv, TypeOK, ContainerRow
<1>3. CASE UNCHANGED <<containers, primitives, clock>>
  BY <1>1, <1>2, <1>3 DEF EInv, RevsDrawn
<1>4. CASE Dated /\ clock' \in {clock, clock + 1}
  <2>1. ASSUME NEW q \in DOMAIN containers' PROVE containers'[q].rev <= clock'
    BY <2>1, <1>2, <1>4 DEF Dated, Retained, New
  <2> QED
    BY <1>1, <2>1 DEF EInv, RevsDrawn
<1> QED
  BY <1>1, <1>3, <1>4, NextEdits DEF Edit, vars

\* Apart from p the database is the same text.
LEMMA ApartSame ==
    ASSUME IInv, IInv', NEW p \in Path, Frame(p),
           NEW x \in Path, ~IsPrefix(p, x), ~IsPrefix(x, p)
    PROVE  /\ x \in DOMAIN Extract(Root) <=> x \in DOMAIN Extract(Root)'
           /\ x \in DOMAIN Extract(Root) => Extract(Root)[x] = Extract(Root)'[x]
<1>1. /\ ContainersOK(containers) /\ PrimitivesOK(primitives)
      /\ ContainersOK(containers') /\ PrimitivesOK(primitives')
  BY DEF IInv, TypeOK, ContainersOK, PrimitivesOK
<1>2. SameAt(containers, primitives, containers', primitives', Root \o x)
  BY FrameSame, RootConcat
<1>3. /\ x \in NodesOf(containers, primitives, Root) <=> x \in NodesOf(containers', primitives', Root)
      /\ x \in NodesOf(containers, primitives, Root) =>
            TextOf(containers, primitives, Root)[x] = TextOf(containers', primitives', Root)[x]
  <2>1. Root \in Path
    BY RootIsPath
  <2>2. ASSUME NEW o \in Path, SameAt(containers, primitives, containers', primitives', o \o x)
        PROVE  /\ x \in NodesOf(containers, primitives, o) <=> x \in NodesOf(containers', primitives', o)
               /\ x \in NodesOf(containers, primitives, o) =>
                     TextOf(containers, primitives, o)[x] = TextOf(containers', primitives', o)[x]
    BY <1>1, <2>2, TextSameAt
  <2> QED
    BY <1>2, <2>1, <2>2
<1>4. /\ DOMAIN TextOf(containers, primitives, Root) = NodesOf(containers, primitives, Root)
      /\ DOMAIN TextOf(containers', primitives', Root) = NodesOf(containers', primitives', Root)
  BY DEF TextOf
<1> QED
  BY <1>3, <1>4, ExtractIsTextOf

\* What is read stands at paths.
LEMMA ExtractInPath ==
    ASSUME IInv, IInv'
    PROVE  DOMAIN Extract(Root) \subseteq Path /\ DOMAIN Extract(Root)' \subseteq Path
<1>1. /\ ContainersOK(containers) /\ PrimitivesOK(primitives)
      /\ ContainersOK(containers') /\ PrimitivesOK(primitives')
  BY DEF IInv, TypeOK, ContainersOK, PrimitivesOK
<1>2. /\ NodesOf(containers, primitives, Root) \subseteq Path
      /\ NodesOf(containers', primitives', Root) \subseteq Path
  BY <1>1, RootIsPath, NodesChar
<1>3. /\ DOMAIN TextOf(containers, primitives, Root) = NodesOf(containers, primitives, Root)
      /\ DOMAIN TextOf(containers', primitives', Root) = NodesOf(containers', primitives', Root)
  BY DEF TextOf
<1> QED
  BY <1>2, <1>3, ExtractIsTextOf

\* For any keys, values, paths and texts: a call changes nothing that neither lies
\* below the path it names nor leads to it, inlined values included.
THEOREM EditsStayBelow == Spec => OnlyAddressedPathsChange
<1> DEFINE Same(p) == LET Apart(x) == ~IsPrefix(p, x) /\ ~IsPrefix(x, p) IN
                      RestrictDomain(Extract(Root), Apart) = RestrictDomain(Extract(Root)', Apart)
<1>1. ASSUME IInv, IInv', NEW p \in Path, Frame(p) PROVE Same(p)
  <2> DEFINE before == Extract(Root)
             after  == Extract(Root)'
             A(t)   == {x \in DOMAIN t : ~IsPrefix(p, x) /\ ~IsPrefix(x, p)}
  <2>1. DOMAIN before \subseteq Path /\ DOMAIN after \subseteq Path
    BY <1>1, ExtractInPath
  <2>2. \A x \in Path : (~IsPrefix(p, x) /\ ~IsPrefix(x, p)) =>
           /\ x \in DOMAIN before <=> x \in DOMAIN after
           /\ x \in DOMAIN before => before[x] = after[x]
    BY <1>1, ApartSame
  <2>3. Same(p) <=> Restrict(before, A(before)) = Restrict(after, A(after))
    BY DEF RestrictDomain
  <2> HIDE DEF before, after, Same
  <2>4. A(before) = A(after) /\ \A x \in A(before) : before[x] = after[x]
    BY <2>1, <2>2
  <2>5. Restrict(before, A(before)) = Restrict(after, A(after))
    BY <2>4 DEF Restrict
  <2> QED
    BY <2>3, <2>5
<1>2. ASSUME IInv, IInv', Next PROVE Same(call'.path)
  <2>1. CASE UNCHANGED <<containers, primitives, clock>>
    <3>1. Extract(Root)' = Extract(Root)
      BY <2>1, ExtractIsTextOf
    <3> QED
      BY <3>1
  <2>2. CASE Edit(call'.path)
    <3>1. call'.path \in Path
      BY <1>2, NextEdits, EngineAssumption
    <3> QED
      BY <1>1, <1>2, <2>2, <3>1 DEF Edit
  <2> QED
    BY <1>2, <2>1, <2>2, NextEdits
<1>3. IInv /\ IInv' /\ [Next]_vars =>
         [LET p         == call'.path
              before    == Extract(Root)
              after     == Extract(Root)'
              Apart(x)  == ~IsPrefix(p, x) /\ ~IsPrefix(x, p)
          IN RestrictDomain(before, Apart) = RestrictDomain(after, Apart)]_vars
  BY <1>2
<1> QED
  BY <1>3, IInvInit, IInvNext, PTL DEF Spec, OnlyAddressedPathsChange

\* A document whose root row keeps its revision is the same, unless the call named
\* a path strictly below it.
LEMMA SameRevisionSameText ==
    ASSUME EInv, IInv', NEW p \in Path, Edit(p), NEW q \in Path,
           Exists(q), Exists(q)', ~IsStrictPrefix(q, p), ~New(q)
    PROVE  Extract(q)' = Extract(q)
<1>1. /\ ContainersOK(containers) /\ PrimitivesOK(primitives)
      /\ ContainersOK(containers') /\ PrimitivesOK(primitives')
      /\ q \in DOMAIN containers /\ q \in DOMAIN containers'
  BY DEF EInv, IInv, TypeOK, ContainersOK, PrimitivesOK, Exists
<1>2. SameBelow(q)
  <2>1. CASE IsPrefix(p, q)
    BY <2>1, <1>1 DEF Edit, Below
  <2>2. CASE ~IsPrefix(p, q)
    <3>1. ~IsPrefix(q, p)
      BY <2>2 DEF IsStrictPrefix
    <3>2. ASSUME NEW z \in Path, IsStrictPrefix(q, z)
          PROVE  SameAt(containers, primitives, containers', primitives', z)
      <4>1. IsPrefix(q, z)
        BY <3>2 DEF IsStrictPrefix
      <4>2. ~IsPrefix(z, p)
        BY <4>1, <3>1, PrefixOrder
      <4>3. ~IsPrefix(p, z)
        <5>1. Len(p) <= Len(q) \/ Len(q) <= Len(p)
          BY DEF Path
        <5> QED
          BY <5>1, <4>1, <2>2, <3>1, PrefixesComparable
      <4> QED
        BY <4>2, <4>3, FrameSame DEF Edit, EInv
    <3> QED
      BY <3>2 DEF SameBelow
  <2> QED
    BY <2>1, <2>2
<1>3. TextOf(containers, primitives, q) = TextOf(containers', primitives', q)
  BY <1>1, <1>2, TextSame DEF SameBelow
<1> QED
  BY <1>3, ExtractIsTextOf

\* For any keys, values, paths and texts: a document does not change without a new
\* revision of its root row, unless the call named a path strictly below it.
THEOREM RevisionsTellEdits == Spec => RevisionTracksContent
<1>1. ASSUME EInv, NEW q, Exists(q), containers'[q].rev = containers[q].rev
      PROVE  ~New(q)
  <2>1. clock \in Nat /\ containers[q].rev \in Nat /\ containers[q].rev <= clock
    BY <1>1 DEF EInv, RevsDrawn, IInv, TypeOK, ContainerRow, Exists
  <2> QED
    BY <2>1, <1>1 DEF New
<1>2. ASSUME EInv, IInv', Next, NEW q \in DocPaths,
             Exists(q), Exists(q)', Extract(q)' # Extract(q), ~IsStrictPrefix(q, call'.path)
      PROVE  containers'[q].rev # containers[q].rev
  <2>1. IInv
    BY <1>2 DEF EInv
  <2>2. CASE UNCHANGED <<containers, primitives, clock>>
    <3>1. Extract(q)' = Extract(q)
      BY <2>2, ExtractIsTextOf
    <3> QED
      BY <3>1, <1>2
  <2>3. CASE Edit(call'.path)
    <3>1. call'.path \in Path /\ q \in Path
      BY <1>2, <2>1, NextEdits, EngineAssumption
    <3>2. containers'[q].rev # containers[q].rev \/ ~New(q)
      BY <1>1, <1>2
    <3> QED
      BY <1>2, <2>3, <3>1, <3>2, SameRevisionSameText
  <2> QED
    BY <1>2, <2>1, <2>2, <2>3, NextEdits
<1>3. EInv /\ EInv' /\ [Next]_vars =>
         [\A q \in DocPaths :
             (Exists(q) /\ Exists(q)' /\ Extract(q)' # Extract(q) /\ ~IsStrictPrefix(q, call'.path))
                => containers'[q].rev # containers[q].rev]_vars
  BY <1>2 DEF EInv
<1> QED
  BY <1>3, EInvInit, EInvNext, PTL DEF Spec, RevisionTracksContent
=============================================================================
