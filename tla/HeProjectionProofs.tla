-------------------------- MODULE HeProjectionProofs --------------------------
(***************************************************************************)
(* What projections show, for any keys, values, texts and projections.     *)
(*                                                                         *)
(* How a node is reached is defined by recursion from the root; ReachedIs  *)
(* shows that the recursion has a solution.  Both properties then go down  *)
(* from the root: what leads to an excluded node hands the exclude on      *)
(* (ExcludeDescends), and where all that is named is there a node is       *)
(* reached with just what the lists say below it (Rightly).  Of a list all *)
(* that counts is the paths that no earlier one extends (Heeded): those of *)
(* the parsed list are the decisive ones, and a descent keeps them.        *)
(***************************************************************************)
EXTENDS HeProjection, HeEngineProofs

-----------------------------------------------------------------------------
(* Going up *)

\* No set of paths below the root has the object of each of its paths.
LEMMA NoDescent ==
    ASSUME NEW B, B \subseteq Path, \A x \in B : x # Root /\ Front(x) \in B
    PROVE  B = {}
<1> SUFFICES ASSUME B # {} PROVE FALSE
  OBVIOUS
<1> DEFINE L == {Len(x) : x \in B}
<1>1. L \subseteq Nat /\ L # {}
  <2>1. \A x \in B : Len(x) \in Nat
    BY DEF Path
  <2> QED
    BY <2>1
<1>2. PICK m \in L : \A n \in L : m <= n
  <2> HIDE DEF L
  <2> QED
    BY <1>1, LeastNat
<1>3. PICK x \in B : Len(x) = m
  BY <1>2
<1>4. Front(x) \in B /\ Len(Front(x)) = Len(x) - 1
  BY SplitLast
<1>5. Len(Front(x)) \in L
  BY <1>4
<1> QED
  BY <1>1, <1>2, <1>3, <1>4, <1>5

-----------------------------------------------------------------------------
(* Lists of paths *)

\* A function from places to paths.
IsList(l) == /\ l = [i \in DOMAIN l |-> l[i]]
             /\ DOMAIN l \subseteq Nat
             /\ \A i \in DOMAIN l : l[i] \in Path

IsProj(proj) == /\ proj = [include |-> proj.include, exclude |-> proj.exclude]
                /\ IsList(proj.include)
                /\ IsList(proj.exclude)

\* The paths of a list that are looked at: no earlier one extends them.
Heeded(l) == {l[i] : i \in {i \in DOMAIN l : \A j \in DOMAIN l : j < i => ~IsStrictPrefix(l[i], l[j])}}

\* They are of the list.
LEMMA HeededOfList ==
    ASSUME NEW l, IsList(l)
    PROVE  \A q \in Heeded(l) : q \in Range(l) /\ q \in Path
BY DEF Heeded, IsList, Range

\* The list without places is the empty one, and any other has a path that is
\* looked at, the first.
LEMMA EmptyList ==
    ASSUME NEW l, IsList(l)
    PROVE  /\ l = <<>> <=> Range(l) = {}
           /\ l = <<>> <=> Heeded(l) = {}
<1>1. l = <<>> => DOMAIN l = {}
  OBVIOUS
<1>2. ASSUME DOMAIN l = {} PROVE l = <<>>
  <2>1. PICK e : e = <<>>
    OBVIOUS
  <2>2. e = [i \in DOMAIN e |-> e[i]] /\ DOMAIN e = {}
    BY <2>1
  <2> QED
    BY <1>2, <2>1, <2>2 DEF IsList
<1>3. Range(l) = {} <=> DOMAIN l = {}
  BY DEF Range
<1>4. DOMAIN l = {} => Heeded(l) = {}
  BY DEF Heeded
<1>5. ASSUME DOMAIN l # {} PROVE Heeded(l) # {}
  <2>1. DOMAIN l \subseteq Nat
    BY DEF IsList
  <2>2. PICK m \in DOMAIN l : \A j \in DOMAIN l : m <= j
    BY <1>5, <2>1, LeastNat
  <2>3. \A j \in DOMAIN l : ~(j < m)
    BY <2>1, <2>2
  <2>4. l[m] \in Heeded(l)
    BY <2>2, <2>3 DEF Heeded
  <2> QED
    BY <2>4
<1> QED
  BY <1>1, <1>2, <1>3, <1>4, <1>5

\* What clients send are lists.
LEMMA SequencesAreLists ==
    ASSUME NEW l \in Seq(Path)
    PROVE  IsList(l)
<1>1. DOMAIN l = 1..Len(l) /\ Len(l) \in Nat /\ \A i \in 1..Len(l) : l[i] \in Path
  OBVIOUS
<1>2. l = [i \in DOMAIN l |-> l[i]]
  OBVIOUS
<1> QED
  BY <1>1, <1>2 DEF IsList

\* A key is a path.
LEMMA KeyPath ==
    ASSUME NEW k \in Keys
    PROVE  <<k>> \in Path /\ Len(<<k>>) = 1 /\ <<k>>[1] = k /\ <<k>> # Root
BY DEF Path, Root

\* A key is a prefix of the paths that begin with it.
LEMMA KeyPrefix ==
    ASSUME NEW k \in Keys, NEW q \in Path
    PROVE  /\ <<k>> \in Path /\ Len(<<k>>) = 1 /\ <<k>> # Root
           /\ IsPrefix(<<k>>, q) <=> q # Root /\ q[1] = k
           /\ IsPrefix(<<k>>, q) => /\ Rel(<<k>>, q) \in Path
                                    /\ q = <<k>> \o Rel(<<k>>, q)
                                    /\ Rel(<<k>>, q) = Root <=> q = <<k>>
<1>1. <<k>> \in Path /\ Len(<<k>>) = 1 /\ <<k>> # Root /\ <<k>>[1] = k
  BY DEF Path, Root
<1>2. IsPrefix(<<k>>, q) <=> q # Root /\ q[1] = k
  <2>1. 1 <= Len(q) <=> q # Root
    BY EmptySeq DEF Path, Root
  <2>2. \A i \in 1..Len(<<k>>) : i = 1
    BY <1>1
  <2>3. 1 \in 1..Len(<<k>>)
    BY <1>1
  <2> QED
    BY <1>1, <2>1, <2>2, <2>3, PrefixChar
<1>3. ASSUME IsPrefix(<<k>>, q)
      PROVE  /\ Rel(<<k>>, q) \in Path
             /\ q = <<k>> \o Rel(<<k>>, q)
             /\ Rel(<<k>>, q) = Root <=> q = <<k>>
  <2>1. PICK z, r : z = <<k>> /\ r = Rel(z, q)
    OBVIOUS
  <2>2. z \in Path /\ r \in Path /\ q = z \o r
    BY <1>1, <1>3, <2>1, RelChar
  <2>3. z \o r = z <=> r = Root
    BY <2>2, ConcatChar
  <2> QED
    BY <2>1, <2>2, <2>3
<1> QED
  BY <1>1, <1>2, <1>3

\* What a list says of a key, by what is in it.
LEMMA KindChar ==
    ASSUME NEW l, IsList(l), NEW k \in Keys
    PROVE  /\ Kind(l, k) \in {"nothing", "whole", "part"}
           /\ Kind(l, k) = "nothing" <=> \A q \in Heeded(l) : ~IsPrefix(<<k>>, q)
           /\ Kind(l, k) = "whole" <=> <<k>> \in Heeded(l)
<1> DEFINE about == {i \in DOMAIN l : IsPrefix(<<k>>, l[i])}
<1>0. PICK z : z = <<k>> /\ z \in Path /\ IsPrefix(z, z)
  <2>1. PICK z \in Path : z = <<k>>
    BY KeyPath
  <2> QED
    BY <2>1, PrefixOrder
<1>1. CASE about = {}
  <2>1. Kind(l, k) = "nothing"
    BY <1>1 DEF Kind
  <2>2. \A q \in Heeded(l) : ~IsPrefix(<<k>>, q)
    BY <1>1 DEF Heeded
  <2> QED
    BY <1>0, <2>1, <2>2
<1>2. CASE about # {}
  <2>1. about \subseteq Nat /\ about \subseteq DOMAIN l /\ DOMAIN l \subseteq Nat
    BY DEF IsList
  <2>2. \E m \in about : \A j \in about : m <= j
    <3> HIDE DEF about
    <3> QED
      BY <1>2, <2>1, LeastNat
  <2>3. PICK m : m = Min(about)
    OBVIOUS
  <2>4. m \in about /\ \A j \in about : m <= j
    <3> HIDE DEF about
    <3> QED
      BY <2>2, <2>3 DEF Min
  <2>5. Kind(l, k) = IF l[m] = <<k>> THEN "whole" ELSE "part"
    BY <1>2, <2>3 DEF Kind
  <2>6. m \in DOMAIN l /\ m \in Nat /\ l[m] \in Path /\ IsPrefix(z, l[m])
    BY <1>0, <2>1, <2>4 DEF IsList
  <2>7. ASSUME NEW j \in DOMAIN l, j < m PROVE ~IsPrefix(z, l[j])
    <3>1. j \in Nat /\ ~(m <= j)
      BY <2>1, <2>6, <2>7
    <3> QED
      BY <1>0, <2>4, <3>1
  <2>8. l[m] \in Heeded(l)
    <3>1. ASSUME NEW j \in DOMAIN l, j < m PROVE ~IsStrictPrefix(l[m], l[j])
      <4>1. l[j] \in Path
        BY DEF IsList
      <4>2. IsPrefix(l[m], l[j]) => IsPrefix(z, l[j])
        BY <1>0, <2>6, <4>1, PrefixOrder
      <4> QED
        BY <2>7, <3>1, <4>2 DEF IsStrictPrefix
    <3> QED
      BY <2>6, <3>1 DEF Heeded
  <2>9. ASSUME z \in Heeded(l) PROVE l[m] = z
    <3>1. PICK j \in DOMAIN l : l[j] = z /\ \A i \in DOMAIN l : i < j => ~IsStrictPrefix(l[j], l[i])
      BY <2>9 DEF Heeded
    <3>2. j \in Nat /\ m <= j
      BY <1>0, <2>1, <2>4, <3>1
    <3>3. m = j \/ m < j
      BY <2>6, <3>2
    <3> QED
      BY <2>6, <3>1, <3>3 DEF IsStrictPrefix
  <2> QED
    BY <1>0, <2>5, <2>6, <2>8, <2>9
<1> QED
  BY <1>1, <1>2

\* What descends below a key is what follows it.
LEMMA DescendChar ==
    ASSUME NEW l, IsList(l), NEW k \in Keys
    PROVE  /\ IsList(DescendIn(l, k))
           /\ \A q : q \in Heeded(DescendIn(l, k)) <=> q \in Path /\ q # Root /\ <<k>> \o q \in Heeded(l)
<1> DEFINE D == {i \in DOMAIN l : IsStrictPrefix(<<k>>, l[i])}
<1>1. PICK d : d = DescendIn(l, k)
  OBVIOUS
<1>2. d = [i \in D |-> Rel(<<k>>, l[i])]
  BY <1>1 DEF DescendIn
<1>3. DOMAIN d = D /\ \A i \in D : d[i] = Rel(<<k>>, l[i])
  BY <1>2
<1>4. ASSUME NEW i \in D PROVE /\ i \in Nat /\ i \in DOMAIN l /\ l[i] \in Path /\ d[i] \in Path /\ d[i] # Root
                               /\ l[i] = <<k>> \o d[i]
  <2>1. i \in Nat /\ i \in DOMAIN l /\ l[i] \in Path
    BY DEF IsList
  <2>2. IsPrefix(<<k>>, l[i]) /\ l[i] # <<k>>
    BY DEF IsStrictPrefix
  <2> QED
    BY <1>3, <2>1, <2>2, KeyPrefix
<1>5. IsList(d)
  <2>1. d = [i \in DOMAIN d |-> d[i]]
    BY <1>2, <1>3
  <2> HIDE DEF D
  <2> QED
    BY <1>3, <1>4, <2>1 DEF IsList
\* What precedes below a key precedes in the list.
<1>6. ASSUME NEW i \in D, NEW j \in D, IsStrictPrefix(d[i], d[j]) PROVE IsStrictPrefix(l[i], l[j])
  <2>1. PICK x, y, z : x = d[i] /\ y = d[j] /\ z = <<k>>
    OBVIOUS
  <2>2. x \in Path /\ y \in Path /\ z \in Path /\ IsPrefix(x, y) /\ x # y
    BY <1>4, <1>6, <2>1, KeyPrefix DEF IsStrictPrefix
  <2>3. PICK w \in Path : y = x \o w
    BY <2>2, RelChar
  <2>4. z \o y = (z \o x) \o w
    BY <2>2, <2>3, ConcatAssociative DEF Path
  <2>5. z \o x \in Path /\ IsPrefix(z \o x, z \o y)
    BY <2>2, <2>3, <2>4, ConcatChar
  <2>6. z \o x # z \o y
    <3>1. Rel(z, z \o x) = x /\ Rel(z, z \o y) = y
      BY <2>2, ConcatChar
    <3> QED
      BY <2>2, <3>1
  <2>7. l[i] = z \o x /\ l[j] = z \o y
    BY <1>4, <2>1
  <2> QED
    BY <2>5, <2>6, <2>7 DEF IsStrictPrefix
<1>7. ASSUME NEW i \in D, NEW j \in DOMAIN l, IsStrictPrefix(l[i], l[j])
      PROVE  j \in D /\ IsStrictPrefix(d[i], d[j])
  <2>1. PICK x, z : x = d[i] /\ z = <<k>>
    OBVIOUS
  <2>2. /\ x \in Path /\ x # Root /\ z \in Path /\ l[i] = z \o x
        /\ l[j] \in Path /\ IsPrefix(z \o x, l[j]) /\ z \o x # l[j]
    BY <1>4, <1>7, <2>1, KeyPath DEF IsStrictPrefix, IsList
  <2>3. z \o x \in Path /\ IsPrefix(z, z \o x) /\ z \o x # z
    BY <2>2, ConcatChar
  <2>4. IsPrefix(z, l[j]) /\ l[j] # z
    BY <2>2, <2>3, PrefixOrder
  <2>5. j \in D
    BY <2>1, <2>4 DEF IsStrictPrefix
  <2>6. PICK w \in Path : l[j] = (z \o x) \o w
    BY <2>2, <2>3, RelChar
  <2>7. l[j] = z \o (x \o w) /\ x \o w \in Path /\ IsPrefix(x, x \o w)
    BY <2>2, <2>6, ConcatAssociative, ConcatChar DEF Path
  <2>8. d[j] = x \o w
    <3>1. Rel(z, z \o (x \o w)) = x \o w
      BY <2>2, <2>7, ConcatChar
    <3> QED
      BY <1>3, <2>1, <2>5, <2>7, <3>1
  <2>9. x # x \o w
    BY <2>2, <2>7
  <2> QED
    BY <2>1, <2>5, <2>7, <2>8, <2>9 DEF IsStrictPrefix
<1>8. ASSUME NEW q PROVE q \in Heeded(d) <=> q \in Path /\ q # Root /\ <<k>> \o q \in Heeded(l)
  <2>1. ASSUME q \in Heeded(d) PROVE q \in Path /\ q # Root /\ <<k>> \o q \in Heeded(l)
    <3>1. PICK i \in D : q = d[i] /\ \A j \in D : j < i => ~IsStrictPrefix(d[i], d[j])
      <4> HIDE DEF D
      <4> QED
        BY <1>3, <2>1 DEF Heeded
    <3>2. \A j \in DOMAIN l : j < i => ~IsStrictPrefix(l[i], l[j])
      <4> HIDE DEF D
      <4> QED
        BY <1>7, <3>1
    <3>3. l[i] \in Heeded(l)
      <4>1. i \in DOMAIN l
        BY <1>4
      <4> HIDE DEF D
      <4> QED
        BY <3>2, <4>1 DEF Heeded
    <3> QED
      BY <1>4, <3>1, <3>3
  <2>2. ASSUME q \in Path, q # Root, <<k>> \o q \in Heeded(l) PROVE q \in Heeded(d)
    <3>1. PICK i \in DOMAIN l : /\ l[i] = <<k>> \o q
                                /\ \A j \in DOMAIN l : j < i => ~IsStrictPrefix(l[i], l[j])
      BY <2>2 DEF Heeded
    <3>2. /\ <<k>> \in Path /\ IsPrefix(<<k>>, <<k>> \o q) /\ <<k>> \o q # <<k>>
          /\ Rel(<<k>>, <<k>> \o q) = q
      BY <2>2, KeyPrefix, ConcatChar
    <3>3. i \in D /\ d[i] = q
      BY <1>3, <3>1, <3>2 DEF IsStrictPrefix
    <3>4. ASSUME NEW j \in D, j < i PROVE ~IsStrictPrefix(d[i], d[j])
      <4>1. j \in DOMAIN l
        BY <1>4
      <4> HIDE DEF D
      <4> QED
        BY <1>6, <3>1, <3>3, <3>4, <4>1
    <3> HIDE DEF D
    <3> QED
      BY <1>3, <3>3, <3>4 DEF Heeded
  <2> QED
    BY <2>1, <2>2
<1> QED
  BY <1>1, <1>5, <1>8

-----------------------------------------------------------------------------
(* How nodes are reached *)

\* The nodes of t down to the depth n, each reached from its object.
IsReach(f, t, proj, n) ==
    f = [x \in {x \in DOMAIN t : Len(x) <= n} |->
            IF x = Root THEN Shown(proj, FALSE) ELSE From(f[Front(x)], t, x)]

\* Reached is what it says: the recursion has a solution.
LEMMA ReachedIs ==
    ASSUME NEW t, IsText(t), NEW proj
    PROVE  /\ Reached(t, proj)[Root] = Shown(proj, FALSE)
           /\ \A x \in DOMAIN t : x # Root =>
                /\ Front(x) \in DOMAIN t
                /\ Reached(t, proj)[x] = From(Reached(t, proj)[Front(x)], t, x)
<1> DEFINE F(f) == f = [x \in DOMAIN t |->
                            IF x = Root THEN Shown(proj, FALSE) ELSE From(f[Front(x)], t, x)]
           D(n) == {x \in DOMAIN t : Len(x) <= n}
           Good(n) == \E f : IsReach(f, t, proj, n)
           Bad == {n \in Nat : ~Good(n)}
<1>1. DOMAIN t \subseteq Path /\ Root \in DOMAIN t /\ Len(Root) = 0
  BY RootIsPath DEF IsText
<1>2. ASSUME NEW x \in DOMAIN t, x # Root
      PROVE  /\ Front(x) \in DOMAIN t /\ Len(x) \in Nat /\ Len(Front(x)) \in Nat
             /\ Len(Front(x)) = Len(x) - 1
  <2>1. x \in Path
    BY <1>1
  <2>2. Front(x) \in Path /\ IsPrefix(Front(x), x) /\ Len(Front(x)) = Len(x) - 1
    BY <1>2, <2>1, SplitLast
  <2>3. Len(x) \in Nat /\ Len(Front(x)) \in Nat
    BY <2>1, <2>2 DEF Path
  <2>4. Front(x) \in Ancestors(x)
    BY <2>1, <2>2, <2>3, AncestorChar
  <2> QED
    BY <2>2, <2>3, <2>4 DEF IsText
<1>3. Good(0)
  <2>1. D(0) = {Root}
    <3>1. ASSUME NEW x \in DOMAIN t, x # Root PROVE ~(Len(x) <= 0)
      BY <1>2, <3>1
    <3> QED
      BY <1>1, <3>1
  <2>2. PICK f : f = [x \in D(0) |-> Shown(proj, FALSE)]
    OBVIOUS
  <2> HIDE DEF D
  <2>3. f = [x \in D(0) |-> IF x = Root THEN Shown(proj, FALSE) ELSE From(f[Front(x)], t, x)]
    BY <2>1, <2>2
  <2> QED
    BY <2>3 DEF IsReach, D
<1>4. ASSUME NEW n \in Nat, Good(n) PROVE Good(n + 1)
  <2>1. PICK f : IsReach(f, t, proj, n)
    BY <1>4
  <2>2. PICK g : g = [x \in D(n + 1) |-> IF x = Root THEN Shown(proj, FALSE) ELSE From(f[Front(x)], t, x)]
    OBVIOUS
  <2>3. ASSUME NEW x \in D(n + 1), x # Root PROVE f[Front(x)] = g[Front(x)]
    <3>1. PICK z : z = Front(x)
      OBVIOUS
    <3>2. z \in D(n) /\ z \in D(n + 1)
      BY <1>2, <2>3, <3>1
    <3>3. f[z] = IF z = Root THEN Shown(proj, FALSE) ELSE From(f[Front(z)], t, z)
      BY <2>1, <3>2 DEF IsReach
    <3> HIDE DEF D
    <3>4. g[z] = IF z = Root THEN Shown(proj, FALSE) ELSE From(f[Front(z)], t, z)
      BY <2>2, <3>2
    <3> QED
      BY <3>1, <3>3, <3>4
  <2> HIDE DEF D
  <2>4. g = [x \in D(n + 1) |-> IF x = Root THEN Shown(proj, FALSE) ELSE From(g[Front(x)], t, x)]
    BY <2>2, <2>3
  <2> QED
    BY <2>4 DEF IsReach, D
<1>5. ASSUME NEW n \in Nat PROVE Good(n)
  <2> SUFFICES ASSUME Bad # {} PROVE FALSE
    OBVIOUS
  <2>1. PICK m \in Bad : \A k \in Bad : m <= k
    <3>1. Bad \subseteq Nat
      OBVIOUS
    <3> HIDE DEF Bad
    <3> QED
      BY <3>1, LeastNat
  <2>2. m \in Nat /\ m # 0 /\ ~Good(m)
    BY <1>3, <2>1
  <2>3. m - 1 \in Nat /\ ~(m <= m - 1) /\ (m - 1) + 1 = m
    BY <2>2
  <2> HIDE DEF Good
  <2>4. Good(m - 1)
    BY <2>1, <2>3
  <2> QED
    BY <1>4, <2>2, <2>3, <2>4
<1> HIDE DEF Good, Bad
\* What is reached does not depend on how deep one looks.
<1>6. ASSUME NEW n \in Nat, NEW f, NEW g, IsReach(f, t, proj, n), IsReach(g, t, proj, n + 1)
      PROVE  \A x \in D(n) : f[x] = g[x]
  <2> DEFINE B == {x \in D(n) : f[x] # g[x]}
  <2>1. ASSUME NEW x \in B PROVE x # Root /\ Front(x) \in B
    <3>1. x \in D(n) /\ x \in D(n + 1) /\ f[x] # g[x]
      <4>1. x \in DOMAIN t /\ Len(x) <= n /\ Len(x) \in Nat
        BY <1>1 DEF Path
      <4> QED
        BY <4>1
    <3>2. /\ f[x] = IF x = Root THEN Shown(proj, FALSE) ELSE From(f[Front(x)], t, x)
          /\ g[x] = IF x = Root THEN Shown(proj, FALSE) ELSE From(g[Front(x)], t, x)
      BY <1>6, <3>1 DEF IsReach
    <3>3. x # Root /\ f[Front(x)] # g[Front(x)]
      BY <3>1, <3>2
    <3>4. Front(x) \in D(n)
      BY <1>2, <3>1, <3>3
    <3> QED
      BY <3>3, <3>4
  <2>2. B \subseteq Path
    BY <1>1
  <2> HIDE DEF B
  <2>3. B = {}
    BY <2>1, <2>2, NoDescent
  <2> QED
    BY <2>3 DEF B
<1>7. PICK R : R = [n \in Nat |-> CHOOSE f : IsReach(f, t, proj, n)]
  OBVIOUS
<1>8. \A n \in Nat : IsReach(R[n], t, proj, n)
  BY <1>5, <1>7 DEF Good
<1>9. PICK h : h = [x \in DOMAIN t |-> R[Len(x)][x]]
  OBVIOUS
<1>10. ASSUME NEW x \in DOMAIN t
       PROVE  h[x] = IF x = Root THEN Shown(proj, FALSE) ELSE From(h[Front(x)], t, x)
  <2>1. PICK n \in Nat : n = Len(x)
    BY <1>1 DEF Path
  <2>2. h[x] = IF x = Root THEN Shown(proj, FALSE) ELSE From(R[n][Front(x)], t, x)
    <3>1. x \in D(n)
      BY <2>1
    <3>2. R[n][x] = IF x = Root THEN Shown(proj, FALSE) ELSE From(R[n][Front(x)], t, x)
      BY <1>8, <3>1 DEF IsReach
    <3> QED
      BY <1>9, <2>1, <3>2
  <2>3. ASSUME x # Root PROVE R[n][Front(x)] = h[Front(x)]
    <3>1. PICK z : z = Front(x)
      OBVIOUS
    <3>2. PICK l \in Nat : l = Len(z) /\ l + 1 = n /\ z \in D(l)
      BY <1>2, <2>1, <2>3, <3>1
    <3>3. IsReach(R[l], t, proj, l) /\ IsReach(R[l + 1], t, proj, l + 1)
      BY <1>8, <3>2
    <3> HIDE DEF D
    <3>4. R[l][z] = R[l + 1][z]
      BY <1>6, <3>2, <3>3
    <3> QED
      BY <1>2, <1>9, <2>3, <3>1, <3>2, <3>4
  <2> QED
    BY <2>2, <2>3
<1>11. F(h)
  <2>1. h = [x \in DOMAIN t |-> h[x]]
    BY <1>9
  <2> QED
    BY <1>10, <2>1
<1>12. PICK r : r = CHOOSE f : F(f)
  OBVIOUS
<1>13. Reached(t, proj) = r
  BY <1>12 DEF Reached
<1> HIDE DEF F
<1>14. F(r)
  BY <1>11, <1>12
<1>15. \A x \in DOMAIN t : r[x] = IF x = Root THEN Shown(proj, FALSE) ELSE From(r[Front(x)], t, x)
  BY <1>14 DEF F
<1> QED
  BY <1>1, <1>2, <1>13, <1>15

\* A cut list is a list, and what is looked at of it are the decisive paths.
LEMMA CutIsList ==
    ASSUME NEW l \in Seq(Path), NEW m \in Nat, NEW c, c = [i \in 1..m |-> l[i]],
           \A i \in 1..m : i \in DOMAIN l,
           \A i \in DOMAIN l : i <= MaxProjKeys <=> i \in 1..m
    PROVE  IsList(c) /\ Heeded(c) = Decisive(l)
<1>1. DOMAIN c = 1..m /\ \A i \in 1..m : i \in DOMAIN l /\ c[i] = l[i]
  OBVIOUS
<1>2. IsList(c)
  <2>1. c = [i \in DOMAIN c |-> c[i]]
    OBVIOUS
  <2>2. \A i \in DOMAIN c : c[i] \in Path /\ i \in Nat
    BY <1>1
  <2> QED
    BY <2>1, <2>2 DEF IsList
<1>3. ASSUME NEW q \in Heeded(c) PROVE q \in Decisive(l)
  <2>1. PICK i \in 1..m : q = c[i] /\ \A j \in 1..m : j < i => ~IsStrictPrefix(c[i], c[j])
    BY <1>1, <1>3 DEF Heeded
  <2>2. ASSUME NEW j \in DOMAIN l, j < i PROVE ~IsStrictPrefix(l[i], l[j])
    <3>1. j \in 1..m
      BY <2>2
    <3> QED
      BY <1>1, <2>1, <2>2, <3>1
  <2>3. i \in DOMAIN l /\ i <= MaxProjKeys /\ q = l[i]
    BY <1>1, <2>1
  <2> QED
    BY <2>2, <2>3 DEF Decisive
<1>4. ASSUME NEW q \in Decisive(l) PROVE q \in Heeded(c)
  <2>1. PICK i \in DOMAIN l : /\ q = l[i] /\ i <= MaxProjKeys
                              /\ \A j \in DOMAIN l : j < i => ~IsStrictPrefix(l[i], l[j])
    BY <1>4 DEF Decisive
  <2>2. i \in 1..m
    BY <2>1
  <2>3. \A j \in DOMAIN c : j < i => ~IsStrictPrefix(c[i], c[j])
    BY <1>1, <2>1, <2>2
  <2> QED
    BY <1>1, <2>1, <2>2, <2>3 DEF Heeded
<1> QED
  BY <1>2, <1>3, <1>4

\* How a list is cut.
LEMMA CutHeeds ==
    ASSUME NEW l \in Seq(Path), NEW c, c = SubSeq(l, 1, Min({Len(l), MaxProjKeys}))
    PROVE  IsList(c) /\ Heeded(c) = Decisive(l)
<1>1. PICK n \in Nat : n = Len(l)
  OBVIOUS
<1>2. PICK m : m = Min({n, MaxProjKeys})
  OBVIOUS
<1>3. MaxProjKeys \in Nat
  BY ProjectionAssumption
<1>4. m \in {n, MaxProjKeys} /\ \A y \in {n, MaxProjKeys} : m <= y
  <2>1. \E x \in {n, MaxProjKeys} : \A y \in {n, MaxProjKeys} : x <= y
    BY <1>3
  <2> QED
    BY <1>2, <2>1 DEF Min
<1>5. m \in Nat /\ m <= n /\ \A i \in 1..n : i <= MaxProjKeys <=> i \in 1..m
  BY <1>3, <1>4
<1>6. c = SubSeq(l, 1, m) /\ DOMAIN l = 1..n
  BY <1>1, <1>2
<1>7. SubSeq(l, 1, m) = Restrict(l, 1..m)
  <2>1. m \in 0..Len(l)
    BY <1>1, <1>5
  <2> QED
    BY <2>1, SubSeqRestrict
<1>8. c = [i \in 1..m |-> l[i]]
  BY <1>6, <1>7 DEF Restrict
<1>9. \A i \in 1..m : i \in DOMAIN l
  BY <1>5, <1>6
<1>10. \A i \in DOMAIN l : i <= MaxProjKeys <=> i \in 1..m
  BY <1>5, <1>6
<1> QED
  BY <1>5, <1>8, <1>9, <1>10, CutIsList

\* So it is with the lists that are parsed.
LEMMA ParsedHeeds ==
    ASSUME NEW options \in Projections, NEW proj, proj = ParseProjection(options)
    PROVE  /\ IsProj(proj)
           /\ Heeded(proj.include) = Decisive(options.include)
           /\ Heeded(proj.exclude) = Decisive(options.exclude)
<1>1. options.include \in Seq(Path) /\ options.exclude \in Seq(Path)
  BY ProjectionAssumption
<1>2. PICK c, d : /\ c = SubSeq(options.include, 1, Min({Len(options.include), MaxProjKeys}))
                  /\ d = SubSeq(options.exclude, 1, Min({Len(options.exclude), MaxProjKeys}))
  OBVIOUS
<1>3. proj = [include |-> c, exclude |-> d]
  BY <1>2 DEF ParseProjection
<1>4. IsList(c) /\ Heeded(c) = Decisive(options.include)
  BY <1>1, <1>2, CutHeeds
<1>5. IsList(d) /\ Heeded(d) = Decisive(options.exclude)
  BY <1>1, <1>2, CutHeeds
<1> QED
  BY <1>3, <1>4, <1>5 DEF IsProj

\* What is hidden stays so all the way down.
LEMMA HiddenBelow ==
    ASSUME NEW t, IsText(t), NEW proj, NEW e \in DOMAIN t, ~Reached(t, proj)[e].shown
    PROVE  \A x \in DOMAIN t : IsPrefix(e, x) => ~Reached(t, proj)[x].shown
<1>0. \A y \in DOMAIN t : y # Root => /\ Front(y) \in DOMAIN t
                                       /\ Reached(t, proj)[y] = From(Reached(t, proj)[Front(y)], t, y)
  BY ReachedIs
<1> DEFINE B == {x \in DOMAIN t : IsPrefix(e, x) /\ Reached(t, proj)[x].shown}
<1>1. DOMAIN t \subseteq Path
  BY DEF IsText
<1>2. ASSUME NEW x \in B PROVE x # Root /\ Front(x) \in B
  <2>1. x \in Path /\ e \in Path /\ IsPrefix(e, x) /\ x # e
    BY <1>1
  <2>2. x # Root
    <3>1. Len(e) < Len(x)
      BY <2>1, StrictShorter
    <3> QED
      BY <2>1, <3>1, RootIsPath DEF Path
  <2>3. Front(x) \in DOMAIN t /\ Reached(t, proj)[x] = From(Reached(t, proj)[Front(x)], t, x)
    BY <1>0, <2>2, Zenon
  <2>4. Reached(t, proj)[Front(x)].shown
    <3>1. PICK up : up = Reached(t, proj)[Front(x)]
      OBVIOUS
    <3>2. From(up, t, x).shown
      BY <2>3, <3>1
    <3>3. ~up.shown => From(up, t, x) = Hidden
      BY DEF From
    <3> QED
      BY <3>1, <3>2, <3>3 DEF Hidden
  <2>5. IsPrefix(e, Front(x))
    <3>1. Len(e) < Len(x) /\ Front(x) \in Path /\ IsPrefix(Front(x), x) /\ Len(Front(x)) = Len(x) - 1
      BY <2>1, <2>2, StrictShorter, SplitLast
    <3>2. Len(e) <= Len(Front(x))
      BY <2>1, <3>1 DEF Path
    <3> QED
      BY <2>1, <3>1, <3>2, PrefixesComparable
  <2> QED
    BY <2>2, <2>3, <2>4, <2>5
<1>3. B \subseteq Path
  BY <1>1
<1> HIDE DEF B
<1>4. B = {}
  BY <1>2, <1>3, NoDescent
<1> QED
  BY <1>4 DEF B

\* What is below a child is below its object, after the key.
LEMMA FirstKey ==
    ASSUME NEW z \in Path, NEW k \in Keys, NEW q \in Path
    PROVE  Append(z, k) \o q = z \o (<<k>> \o q)
<1>1. Append(z, k) = z \o <<k>>
  BY DEF Path
<1> QED
  BY <1>1, KeyPath, ConcatAssociative DEF Path

\* Between a node and one below it there is a key of the former.
LEMMA NextNode ==
    ASSUME NEW t, IsText(t), NEW y \in Path, NEW q \in Path, q # Root, y \o q \in DOMAIN t
    PROVE  Append(y, q[1]) \in DOMAIN t
<1>1. PICK l : l = q[1]
  OBVIOUS
<1>2. l \in Keys
  BY <1>1, EmptySeq DEF Path, Root
<1>3. PICK w \in Path : q = <<l>> \o w
  <2>1. IsPrefix(<<l>>, q)
    BY <1>1, <1>2, KeyPrefix
  <2> QED
    BY <1>2, <2>1, KeyPrefix
<1>4. PICK x \in Path : x = Append(y, l)
  BY <1>2, FrontOfAppend
<1>5. y \o q = x \o w /\ y \o q \in Path
  <2>1. Append(y, l) \o w = y \o (<<l>> \o w)
    BY <1>2, FirstKey
  <2> QED
    BY <1>3, <1>4, <2>1 DEF IsText
<1>6. IsPrefix(x, y \o q)
  BY <1>5, ConcatChar
<1>7. x = y \o q \/ x \in Ancestors(y \o q)
  BY <1>5, <1>6, AncestorChar
<1> QED
  BY <1>1, <1>4, <1>7 DEF IsText

\* What leads to an excluded node is not a collection, and hands the exclude on.
LEMMA ExcludeDescends ==
    ASSUME NEW t, IsText(t), NEW proj, IsProj(proj),
           NEW e \in DOMAIN t, e # Root, e \in Heeded(proj.exclude)
    PROVE  \A y \in DOMAIN t, q \in Path :
              e = y \o q /\ q # Root /\ Reached(t, proj)[y].shown =>
                 LET up == Reached(t, proj)[y] IN
                 ~up.collection /\ IsProj(up.proj) /\ q \in Heeded(up.proj.exclude)
<1> DEFINE r(y) == Reached(t, proj)[y]
           Fine(y, q) == ~r(y).collection /\ IsProj(r(y).proj) /\ q \in Heeded(r(y).proj.exclude)
           B == {y \in DOMAIN t : \E q \in Path : e = y \o q /\ q # Root /\ r(y).shown /\ ~Fine(y, q)}
<1>1. DOMAIN t \subseteq Path
  BY DEF IsText
<1>2. Root \in DOMAIN t /\ r(Root) = Shown(proj, FALSE)
  BY ReachedIs DEF IsText
<1>3. ASSUME NEW y \in B PROVE y # Root /\ Front(y) \in B
  <2>1. PICK q \in Path : e = y \o q /\ q # Root /\ r(y).shown /\ ~Fine(y, q)
    OBVIOUS
  <2>2. y # Root
    <3> SUFFICES ASSUME y = Root PROVE FALSE
      OBVIOUS
    <3>1. e = q
      BY <2>1, RootConcat
    <3>2. Fine(y, q)
      BY <1>2, <3>1 DEF Shown
    <3> QED
      BY <2>1, <3>2
  <2>3. PICK z, k : z = Front(y) /\ k = Last(y)
    OBVIOUS
  <2>4. z \in Path /\ k \in Keys /\ y = Append(z, k) /\ y \in Path
    BY <1>1, <2>2, <2>3, SplitLast
  <2>5. z \in DOMAIN t /\ r(y) = From(r(z), t, y)
    BY <2>2, <2>3, ReachedIs
  <2>6. PICK w \in Path : w = <<k>> \o q /\ w # Root /\ IsPrefix(<<k>>, w) /\ w # <<k>>
    <3>1. PICK c \in Path : c = <<k>> /\ c # Root
      BY <2>4, KeyPath
    <3>2. c \o q \in Path /\ IsPrefix(c, c \o q) /\ c \o q # c
      BY <2>1, ConcatChar
    <3>3. c \o q # Root
      BY <2>1, FrontOfConcat
    <3> QED
      BY <3>1, <3>2, <3>3
  <2>7. e = z \o w
    BY <2>1, <2>4, <2>6, FirstKey
  <2> SUFFICES ASSUME z \notin B PROVE FALSE
    BY <2>2, <2>3
  <2>8. PICK up : up = r(z)
    OBVIOUS
  <2>9. up.shown
    <3>1. ~up.shown => From(up, t, y) = Hidden
      BY DEF From
    <3> QED
      BY <2>1, <2>5, <2>8, <3>1 DEF Hidden
  <2>10. ~up.collection /\ IsProj(up.proj) /\ w \in Heeded(up.proj.exclude)
    BY <2>5, <2>6, <2>7, <2>8, <2>9
  <2>11. r(y) = Field(up.proj, t, y)
    BY <2>5, <2>8, <2>9, <2>10 DEF From
  <2>12. IsList(up.proj.include) /\ IsList(up.proj.exclude)
    BY <2>10 DEF IsProj
  <2> DEFINE below == Descend(up.proj, k)
             included == Kind(up.proj.include, k)
             excluded == Kind(up.proj.exclude, k)
  <2>13. up.proj # Everything
    <3>1. up.proj.exclude # <<>>
      BY <2>10, <2>12, EmptyList
    <3> QED
      BY <3>1 DEF Everything
  <2>14. excluded = "part"
    <3>1. excluded \in {"nothing", "whole", "part"} /\ excluded # "nothing"
      <4>1. w \in Heeded(up.proj.exclude) /\ IsPrefix(<<k>>, w)
        BY <2>6, <2>10
      <4> QED
        BY <2>4, <2>12, <4>1, KindChar
    <3>2. excluded # "whole"
      <4>1. excluded = "whole" => Field(up.proj, t, y) = Hidden
        BY <2>3, <2>13 DEF Field
      <4> QED
        BY <2>1, <2>11, <4>1 DEF Hidden
    <3> QED
      BY <3>1, <3>2
  <2>15. /\ IsProj(below) /\ q \in Heeded(below.exclude)
    <3>1. PICK d : d = below
      OBVIOUS
    <3>2. d = [include |-> DescendIn(up.proj.include, k), exclude |-> DescendIn(up.proj.exclude, k)]
      BY <3>1 DEF Descend
    <3>3. IsList(d.include) /\ IsList(d.exclude)
      BY <2>4, <2>10, <2>12, <3>2, DescendChar
    <3>4. q \in Heeded(d.exclude)
      <4>1. <<k>> \o q \in Heeded(up.proj.exclude)
        BY <2>6, <2>10
      <4> QED
        BY <2>1, <2>4, <2>12, <3>2, <4>1, DescendChar
    <3> QED
      BY <3>1, <3>2, <3>3, <3>4 DEF IsProj
  <2>16. HasFieldMatch(below, t, y)
    <3>1. Append(y, q[1]) \in DOMAIN t
      BY <2>1, <2>4, NextNode
    <3>2. q \in Range(below.exclude)
      BY <2>15, HeededOfList DEF IsProj
    <3> QED
      BY <2>1, <3>1, <3>2 DEF HasFieldMatch
  <2>17. r(y) = Shown(below, FALSE)
    <3>1. Field(up.proj, t, y) # Hidden
      BY <2>1, <2>11 DEF Hidden
    <3>2. Field(up.proj, t, y) = Hidden \/ Field(up.proj, t, y) = Shown(below, t[y] = Obj /\ ~HasFieldMatch(below, t, y))
      BY <2>3, <2>13, <2>14 DEF Field
    <3>3. (t[y] = Obj /\ ~HasFieldMatch(below, t, y)) = FALSE
      BY <2>16
    <3> QED
      BY <2>11, <3>1, <3>2, <3>3
  <2>18. Fine(y, q)
    BY <2>15, <2>17 DEF Shown
  <2> QED
    BY <2>1, <2>18
<1>4. B \subseteq Path
  BY <1>1
<1>5. B = {}
  <2> HIDE DEF B
  <2> QED
    BY <1>3, <1>4, NoDescent
<1> QED
  BY <1>5

\* An excluded node is hidden.
LEMMA ExcludedHidden ==
    ASSUME NEW t, IsText(t), NEW proj, IsProj(proj),
           NEW e \in DOMAIN t, e # Root, e \in Heeded(proj.exclude)
    PROVE  ~Reached(t, proj)[e].shown
<1>1. PICK z, k : z = Front(e) /\ k = Last(e)
  OBVIOUS
<1>2. z \in Path /\ k \in Keys /\ e = Append(z, k) /\ e \in Path
  BY <1>1, SplitLast DEF IsText
<1>3. PICK up : up = Reached(t, proj)[z]
  OBVIOUS
<1>4. z \in DOMAIN t /\ Reached(t, proj)[e] = From(up, t, e)
  <2>1. \A y \in DOMAIN t : y # Root => /\ Front(y) \in DOMAIN t
                                       /\ Reached(t, proj)[y] = From(Reached(t, proj)[Front(y)], t, y)
    BY ReachedIs
  <2> QED
    BY <1>1, <1>3, <2>1
<1>5. CASE ~up.shown
  BY <1>4, <1>5 DEF From, Hidden
<1>6. CASE up.shown
  <2>1. <<k>> \in Path /\ <<k>> # Root /\ e = z \o <<k>>
    BY <1>2, KeyPath DEF Path
  <2>2. ~up.collection /\ IsProj(up.proj) /\ <<k>> \in Heeded(up.proj.exclude)
    BY <1>3, <1>4, <1>6, <2>1, ExcludeDescends
  <2>3. IsList(up.proj.exclude)
    BY <2>2 DEF IsProj
  <2>4. Kind(up.proj.exclude, k) = "whole"
    BY <1>2, <2>2, <2>3, KindChar
  <2>5. up.proj # Everything
    <3>1. up.proj.exclude # <<>>
      BY <2>2, <2>3, EmptyList
    <3> QED
      BY <3>1 DEF Everything
  <2>6. Field(up.proj, t, e) = Hidden
    BY <1>1, <2>4, <2>5 DEF Field
  <2>7. From(up, t, e) = Hidden
    BY <1>6, <2>2, <2>6 DEF From
  <2> QED
    BY <1>4, <2>7 DEF Hidden
<1> QED
  BY <1>5, <1>6

\* What is excluded is not shown, nor what is below it.
LEMMA ExcludedTree ==
    ASSUME NEW t, IsText(t), NEW options \in Projections,
           NEW x \in DOMAIN Project(t, options), NEW path \in Decisive(options.exclude), path # Root
    PROVE  ~IsPrefix(path, x)
<1> SUFFICES ASSUME IsPrefix(path, x) PROVE FALSE
  OBVIOUS
<1>1. PICK proj : proj = ParseProjection(options)
  OBVIOUS
<1>2. IsProj(proj) /\ path \in Heeded(proj.exclude)
  BY <1>1, ParsedHeeds
<1>3. x \in DOMAIN t /\ Reached(t, proj)[x].shown
  BY <1>1 DEF Project, Restrict
<1>4. path \in DOMAIN t
  <2>1. x \in Path /\ path \in Path
    BY <1>2, <1>3, HeededOfList DEF IsText, IsProj
  <2>2. path = x \/ path \in Ancestors(x)
    BY <2>1, AncestorChar
  <2> QED
    BY <1>3, <2>2 DEF IsText
<1>5. ~Reached(t, proj)[path].shown
  BY <1>2, <1>4, ExcludedHidden
<1> QED
  BY <1>3, <1>4, <1>5, HiddenBelow

\* Whatever clients call, nothing at or below a decisive excluded path, at any
\* depth, is shown to them, whatever else the lists say: a path that found room
\* and does not come after one it begins.
THEOREM ExcludedStaysHidden == Spec => []ExcludeWins
<1>1. IInv => ExcludeWins
  <2> SUFFICES ASSUME IInv, NEW p \in DocPaths, NEW proj \in Projections,
                      Exists(p),
                      NEW x \in DOMAIN Project(Extract(p), proj),
                      NEW path \in Decisive(proj.exclude) \ {Root}
               PROVE  ~IsPrefix(path, x)
    BY DEF ExcludeWins
  <2>1. PICK t : t = Extract(p)
    OBVIOUS
  <2>2. IsText(t)
    BY <2>1, ExtractIsText, EngineAssumption
  <2> QED
    BY <2>1, <2>2, ExcludedTree
<1> QED
  BY <1>1, IInvInit, IInvNext, PTL DEF Spec

-----------------------------------------------------------------------------
(* Documents that have all that is named *)

\* What a list names below x.
Sub(l, x) == {q \in Path : q # Root /\ x \o q \in Heeded(l)}

\* What is to be shown.
Included(l, x) == Heeded(l) = {} \/ \E path \in Heeded(l) : IsPrefix(path, x) \/ IsPrefix(x, path)
Excluded(l, x) == \E path \in Heeded(l) : IsPrefix(path, x)
Wants(proj, x) == Included(proj.include, x) /\ ~Excluded(proj.exclude, x)

\* A list says of the key k what the list it descends from says of the node y.
LEMMA NamedKind ==
    ASSUME NEW l, IsList(l), NEW m, IsList(m),
           NEW y \in Path, y # Root, Heeded(m) = Sub(l, Front(y)),
           NEW k, k = Last(y)
    PROVE  /\ Kind(m, k) \in {"nothing", "whole", "part"}
           /\ Kind(m, k) # "nothing" <=> \E p \in Heeded(l) : IsPrefix(y, p)
           /\ Kind(m, k) = "whole" <=> y \in Heeded(l)
           /\ Kind(m, k) = "part" <=> Sub(l, y) # {} /\ y \notin Heeded(l)
           /\ Heeded(DescendIn(m, k)) = Sub(l, y)
           /\ IsList(DescendIn(m, k))
<1>0. PICK z \in Path : z = Front(y) /\ k \in Keys /\ y = Append(z, k) /\ Heeded(m) = Sub(l, z)
  BY SplitLast
<1>1. y \in Path /\ <<k>> \in Path /\ <<k>> # Root /\ y = z \o <<k>>
  BY <1>0, KeyPath DEF Path
<1>2. \A q \in Path : /\ y \o q = z \o (<<k>> \o q)
                      /\ <<k>> \o q \in Path /\ <<k>> \o q # Root
                      /\ IsPrefix(<<k>>, <<k>> \o q)
  <2> TAKE q \in Path
  <2>1. y \o q = z \o (<<k>> \o q)
    <3>1. Append(z, k) \o q = z \o (<<k>> \o q)
      BY <1>0, FirstKey
    <3> QED
      BY <1>0, <3>1
  <2>2. PICK c \in Path : c = <<k>> /\ c # Root
    BY <1>1
  <2>3. c \o q \in Path /\ IsPrefix(c, c \o q) /\ (c \o q = c <=> q = Root)
    BY ConcatChar
  <2>4. c \o q # Root
    <3>1. q = Root => c \o q = c
      BY <2>3
    <3>2. q # Root => c \o q # Root
      BY FrontOfConcat
    <3> QED
      BY <2>2, <3>1, <3>2
  <2> QED
    BY <2>1, <2>2, <2>3, <2>4
<1>3. <<k>> \in Heeded(m) <=> y \in Heeded(l)
  BY <1>0, <1>1 DEF Sub
<1>4. \A q \in Path : <<k>> \o q \in Heeded(m) <=> y \o q \in Heeded(l)
  BY <1>0, <1>2 DEF Sub
<1>5. IsList(DescendIn(m, k)) /\ Heeded(DescendIn(m, k)) = Sub(l, y)
  <2>1. \A q : q \in Heeded(DescendIn(m, k)) <=> q \in Path /\ q # Root /\ <<k>> \o q \in Heeded(m)
    BY <1>0, DescendChar
  <2>2. \A q : q \in Heeded(DescendIn(m, k)) <=> q \in Sub(l, y)
    BY <1>4, <2>1 DEF Sub
  <2> QED
    BY <1>0, <2>2, DescendChar
<1>6. (\E q \in Heeded(m) : IsPrefix(<<k>>, q)) <=> \E p \in Heeded(l) : IsPrefix(y, p)
  <2>1. ASSUME NEW q \in Heeded(m), IsPrefix(<<k>>, q) PROVE \E p \in Heeded(l) : IsPrefix(y, p)
    <3>1. PICK w \in Path : q = <<k>> \o w
      BY <1>0, <2>1, HeededOfList, KeyPrefix
    <3>2. y \o w \in Heeded(l) /\ IsPrefix(y, y \o w)
      BY <1>1, <1>4, <2>1, <3>1, ConcatChar
    <3> QED
      BY <3>2
  <2>2. ASSUME NEW p \in Heeded(l), IsPrefix(y, p) PROVE \E q \in Heeded(m) : IsPrefix(<<k>>, q)
    <3>1. PICK w \in Path : p = y \o w
      <4>1. p \in Path
        BY <2>2, HeededOfList
      <4> QED
        BY <1>1, <2>2, <4>1, RelChar
    <3>2. <<k>> \o w \in Heeded(m) /\ IsPrefix(<<k>>, <<k>> \o w)
      BY <1>2, <1>4, <2>2, <3>1
    <3> QED
      BY <3>2
  <2> QED
    BY <2>1, <2>2
<1>7. y \notin Heeded(l) => (Sub(l, y) # {} <=> \E p \in Heeded(l) : IsPrefix(y, p))
  <2>1. ASSUME NEW w \in Sub(l, y) PROVE \E p \in Heeded(l) : IsPrefix(y, p)
    <3>1. w \in Path /\ y \o w \in Heeded(l) /\ IsPrefix(y, y \o w)
      BY <1>1, ConcatChar DEF Sub
    <3> QED
      BY <3>1
  <2>2. ASSUME NEW p \in Heeded(l), IsPrefix(y, p), y \notin Heeded(l) PROVE Sub(l, y) # {}
    <3>1. PICK w \in Path : p = y \o w
      <4>1. p \in Path
        BY <2>2, HeededOfList
      <4> QED
        BY <1>1, <2>2, <4>1, RelChar
    <3>2. w # Root
      <4>1. w = Root => y \o w = y
        BY <1>1, ConcatChar
      <4> QED
        BY <2>2, <3>1, <4>1
    <3>3. w \in Sub(l, y)
      BY <2>2, <3>1, <3>2 DEF Sub
    <3> QED
      BY <3>3
  <2> QED
    BY <2>1, <2>2
<1>8. /\ Kind(m, k) \in {"nothing", "whole", "part"}
      /\ Kind(m, k) = "nothing" <=> \A q \in Heeded(m) : ~IsPrefix(<<k>>, q)
      /\ Kind(m, k) = "whole" <=> <<k>> \in Heeded(m)
  BY <1>0, KindChar
<1> QED
  BY <1>3, <1>5, <1>6, <1>7, <1>8

\* What is shown of a node decides what is of the next.
LEMMA WantsNext ==
    ASSUME NEW proj, IsProj(proj),
           \A a, b \in Heeded(proj.include) : ~IsStrictPrefix(a, b),
           NEW z \in Path, NEW k \in Keys, NEW y, y = Append(z, k)
    PROVE  /\ Wants(proj, y) => Wants(proj, z)
           /\ Wants(proj, z) =>
                /\ Excluded(proj.exclude, y) <=> y \in Heeded(proj.exclude)
                /\ Included(proj.include, y) <=> \/ Sub(proj.include, z) = {}
                                                 \/ \E p \in Heeded(proj.include) : IsPrefix(y, p)
<1>1. y \in Path /\ z = Front(y) /\ y # Root /\ IsPrefix(z, y) /\ Len(z) = Len(y) - 1
  BY FrontOfAppend, SplitLast
<1>2. \A p \in Heeded(proj.include) \cup Heeded(proj.exclude) : p \in Path
  BY HeededOfList DEF IsProj
<1>3. \A p \in Path : IsPrefix(p, z) => IsPrefix(p, y)
  BY <1>1, PrefixOrder
<1>4. \A p \in Path : IsPrefix(y, p) => IsPrefix(z, p)
  BY <1>1, PrefixOrder
<1>5. ASSUME NEW p \in Path, IsPrefix(p, y), p # y PROVE IsPrefix(p, z)
  <2>1. Len(p) < Len(y)
    BY <1>1, <1>5, StrictShorter
  <2>2. PICK l, n \in Nat : l = Len(p) /\ n = Len(y)
    BY <1>1 DEF Path
  <2>3. Len(z) = n - 1
    BY <1>1, <2>2
  <2>4. l <= n - 1
    BY <2>1, <2>2
  <2>5. Len(p) <= Len(z)
    BY <2>2, <2>3, <2>4
  <2> QED
    BY <1>1, <1>5, <2>5, PrefixesComparable
<1>6. IsPrefix(y, y)
  BY <1>1, PrefixOrder
<1>7. Wants(proj, y) => Wants(proj, z)
  <2>1. Included(proj.include, y) => Included(proj.include, z)
    <3>1. ASSUME NEW p \in Heeded(proj.include), IsPrefix(p, y) \/ IsPrefix(y, p)
          PROVE  IsPrefix(p, z) \/ IsPrefix(z, p)
      BY <1>1, <1>2, <1>4, <1>5, <3>1
    <3> QED
      BY <3>1 DEF Included
  <2>2. Excluded(proj.exclude, z) => Excluded(proj.exclude, y)
    BY <1>2, <1>3 DEF Excluded
  <2> QED
    BY <2>1, <2>2 DEF Wants
<1>8. ASSUME Wants(proj, z) PROVE Excluded(proj.exclude, y) <=> y \in Heeded(proj.exclude)
  <2>1. \A p \in Heeded(proj.exclude) : ~IsPrefix(p, z)
    BY <1>8 DEF Wants, Excluded
  <2> QED
    BY <1>2, <1>5, <1>6, <2>1 DEF Excluded
<1>9. ASSUME Wants(proj, z), Included(proj.include, y), Sub(proj.include, z) # {}
      PROVE  \E p \in Heeded(proj.include) : IsPrefix(y, p)
  <2>1. PICK q \in Path : q # Root /\ z \o q \in Heeded(proj.include)
    BY <1>9 DEF Sub
  <2>2. IsPrefix(z, z \o q) /\ z \o q # z /\ z \o q \in Path
    BY <2>1, ConcatChar
  <2>3. PICK p \in Heeded(proj.include) : IsPrefix(p, y) \/ IsPrefix(y, p)
    BY <1>9, <2>1 DEF Included
  <2>4. CASE IsPrefix(y, p)
    BY <2>3, <2>4
  <2>5. CASE IsPrefix(p, y) /\ p # y
    <3>1. IsPrefix(p, z)
      BY <1>2, <1>5, <2>3, <2>5
    <3>2. IsPrefix(p, z \o q)
      BY <1>2, <2>2, <2>3, <3>1, PrefixOrder
    <3>3. p # z \o q
      BY <2>2, <3>1, PrefixOrder
    <3> QED
      BY <2>1, <2>3, <3>2, <3>3 DEF IsStrictPrefix
  <2> QED
    BY <1>6, <2>3, <2>4, <2>5
<1>10. ASSUME Wants(proj, z), Sub(proj.include, z) = {}
       PROVE  Included(proj.include, y)
  <2>1. CASE Heeded(proj.include) = {}
    BY <2>1 DEF Included
  <2>2. CASE Heeded(proj.include) # {}
    <3>1. PICK p \in Heeded(proj.include) : IsPrefix(p, z) \/ IsPrefix(z, p)
      BY <1>10, <2>2 DEF Wants, Included
    <3>2. CASE IsPrefix(p, z)
      BY <1>2, <1>3, <3>1, <3>2 DEF Included
    <3>3. CASE IsPrefix(z, p)
      <4>1. p \in Path
        BY <1>2
      <4>2. PICK q \in Path : p = z \o q
        BY <3>3, <4>1, RelChar
      <4>3. q = Root
        BY <1>10, <3>1, <4>2 DEF Sub
      <4>4. p = z
        BY <4>2, <4>3, ConcatChar
      <4> QED
        BY <1>1, <3>1, <4>4 DEF Included
    <3> QED
      BY <3>1, <3>2, <3>3
  <2> QED
    BY <2>1, <2>2
<1>11. (\E p \in Heeded(proj.include) : IsPrefix(y, p)) => Included(proj.include, y)
  BY DEF Included
<1> QED
  BY <1>7, <1>8, <1>9, <1>10, <1>11

\* How a node is reached where all that is named is there.
Rightly(t, proj, y) ==
    LET at == Reached(t, proj)[y] IN
    IF Wants(proj, y)
    THEN /\ at.shown /\ ~at.collection
         /\ IsProj(at.proj)
         /\ Heeded(at.proj.include) = Sub(proj.include, y)
         /\ Heeded(at.proj.exclude) = Sub(proj.exclude, y)
    ELSE ~at.shown

\* The whole value shows everything.
LEMMA EverythingIsProj ==
    IsProj(Everything) /\ Heeded(<<>>) = {}
<1>1. PICK e : e = <<>>
  OBVIOUS
<1>2. e \in Seq(Path) /\ DOMAIN e = {}
  BY <1>1
<1>3. IsList(e) /\ Heeded(e) = {}
  BY <1>2, SequencesAreLists DEF Heeded
<1> QED
  BY <1>1, <1>3 DEF IsProj, Everything

\* From a node to the next.
LEMMA RightlyNext ==
    ASSUME NEW t, IsText(t), NEW proj, IsProj(proj),
           \A a, b \in Heeded(proj.include) : ~IsStrictPrefix(a, b),
           Heeded(proj.include) \cup Heeded(proj.exclude) \subseteq DOMAIN t \ {Root},
           NEW y \in DOMAIN t, y # Root, Rightly(t, proj, Front(y))
    PROVE  Rightly(t, proj, y)
<1>1. PICK z, k : z = Front(y) /\ k = Last(y)
  OBVIOUS
<1>2. y \in Path /\ z \in Path /\ k \in Keys /\ y = Append(z, k)
  BY <1>1, SplitLast DEF IsText
<1>3. PICK up, at : up = Reached(t, proj)[z] /\ at = Reached(t, proj)[y]
  OBVIOUS
<1>4. at = From(up, t, y)
  BY <1>1, <1>3, ReachedIs
<1>5. CASE ~Wants(proj, z)
  <2>1. ~up.shown
    BY <1>1, <1>3, <1>5 DEF Rightly
  <2>2. ~at.shown
    BY <1>4, <2>1 DEF From, Hidden
  <2>3. ~Wants(proj, y)
    BY <1>2, <1>5, WantsNext
  <2> QED
    BY <1>3, <2>2, <2>3 DEF Rightly
<1>6. CASE Wants(proj, z)
  <2> DEFINE inc == Kind(up.proj.include, k)
             exc == Kind(up.proj.exclude, k)
             below == Descend(up.proj, k)
  <2>1. /\ up.shown /\ ~up.collection
        /\ IsProj(up.proj)
        /\ Heeded(up.proj.include) = Sub(proj.include, z)
        /\ Heeded(up.proj.exclude) = Sub(proj.exclude, z)
    BY <1>1, <1>3, <1>6 DEF Rightly
  <2>2. at = Field(up.proj, t, y)
    BY <1>4, <2>1 DEF From
  <2>3. /\ IsList(up.proj.include) /\ IsList(up.proj.exclude)
        /\ IsList(proj.include) /\ IsList(proj.exclude)
    BY <2>1 DEF IsProj
  <2>4. /\ inc \in {"nothing", "whole", "part"}
        /\ inc # "nothing" <=> \E p \in Heeded(proj.include) : IsPrefix(y, p)
        /\ inc = "whole" <=> y \in Heeded(proj.include)
        /\ inc = "part" <=> Sub(proj.include, y) # {} /\ y \notin Heeded(proj.include)
        /\ Heeded(DescendIn(up.proj.include, k)) = Sub(proj.include, y)
        /\ IsList(DescendIn(up.proj.include, k))
    <3>1. PICK l, m : l = proj.include /\ m = up.proj.include
      OBVIOUS
    <3>2. IsList(l) /\ IsList(m) /\ Heeded(m) = Sub(l, Front(y)) /\ y \in Path /\ k = Last(y)
      BY <1>1, <1>2, <2>1, <2>3, <3>1
    <3>3. /\ Kind(m, k) \in {"nothing", "whole", "part"}
          /\ Kind(m, k) # "nothing" <=> \E p \in Heeded(l) : IsPrefix(y, p)
          /\ Kind(m, k) = "whole" <=> y \in Heeded(l)
          /\ Kind(m, k) = "part" <=> Sub(l, y) # {} /\ y \notin Heeded(l)
          /\ Heeded(DescendIn(m, k)) = Sub(l, y)
          /\ IsList(DescendIn(m, k))
      <4> HIDE DEF inc, exc, below
      <4> QED
        BY <3>2, NamedKind
    <3> QED
      BY <3>1, <3>3
  <2>5. /\ exc \in {"nothing", "whole", "part"}
        /\ exc # "nothing" <=> \E p \in Heeded(proj.exclude) : IsPrefix(y, p)
        /\ exc = "whole" <=> y \in Heeded(proj.exclude)
        /\ exc = "part" <=> Sub(proj.exclude, y) # {} /\ y \notin Heeded(proj.exclude)
        /\ Heeded(DescendIn(up.proj.exclude, k)) = Sub(proj.exclude, y)
        /\ IsList(DescendIn(up.proj.exclude, k))
    <3>1. PICK l, m : l = proj.exclude /\ m = up.proj.exclude
      OBVIOUS
    <3>2. IsList(l) /\ IsList(m) /\ Heeded(m) = Sub(l, Front(y)) /\ y \in Path /\ k = Last(y)
      BY <1>1, <1>2, <2>1, <2>3, <3>1
    <3>3. /\ Kind(m, k) \in {"nothing", "whole", "part"}
          /\ Kind(m, k) # "nothing" <=> \E p \in Heeded(l) : IsPrefix(y, p)
          /\ Kind(m, k) = "whole" <=> y \in Heeded(l)
          /\ Kind(m, k) = "part" <=> Sub(l, y) # {} /\ y \notin Heeded(l)
          /\ Heeded(DescendIn(m, k)) = Sub(l, y)
          /\ IsList(DescendIn(m, k))
      <4> HIDE DEF inc, exc, below
      <4> QED
        BY <3>2, NamedKind
    <3> QED
      BY <3>1, <3>3
  <2>6. /\ Excluded(proj.exclude, y) <=> y \in Heeded(proj.exclude)
        /\ Included(proj.include, y) <=> \/ Sub(proj.include, z) = {}
                                         \/ \E p \in Heeded(proj.include) : IsPrefix(y, p)
    BY <1>2, <1>6, WantsNext
  <2>7. up.proj.include = <<>> <=> Sub(proj.include, z) = {}
    BY <2>1, <2>3, EmptyList
\* The included paths are set apart.
  <2>8. Sub(proj.include, y) # {} => y \notin Heeded(proj.include)
    <3>1. ASSUME NEW q \in Sub(proj.include, y) PROVE IsStrictPrefix(y, y \o q) /\ y \o q \in Heeded(proj.include)
      <4>1. q \in Path /\ q # Root /\ y \o q \in Heeded(proj.include)
        BY <3>1 DEF Sub
      <4>2. IsPrefix(y, y \o q) /\ y \o q # y
        BY <1>2, <4>1, ConcatChar
      <4> QED
        BY <4>1, <4>2 DEF IsStrictPrefix
    <3> QED
      BY <3>1
  <2>9. Wants(proj, y) <=> ~(exc = "whole" \/ (up.proj.include # <<>> /\ inc = "nothing"))
    BY <2>4, <2>5, <2>6, <2>7 DEF Wants
  <2>10. CASE up.proj = Everything
    <3>1. up.proj.include = <<>> /\ up.proj.exclude = <<>>
      BY <2>10 DEF Everything
    <3>2. at = Shown(Everything, FALSE)
      BY <2>2, <2>10 DEF Field
    <3>3. Heeded(up.proj.include) = {} /\ Heeded(up.proj.exclude) = {}
      BY <2>3, <3>1, EmptyList
    <3>4. exc = "nothing" /\ inc = "nothing"
      BY <1>2, <2>3, <3>3, KindChar
    <3>5. Wants(proj, y) /\ Sub(proj.include, y) = {} /\ Sub(proj.exclude, y) = {}
      BY <2>4, <2>5, <2>9, <3>1, <3>4
    <3> QED
      BY <1>3, <3>2, <3>5, EverythingIsProj DEF Rightly, Shown, Everything
  <2>11. CASE up.proj # Everything /\ ~Wants(proj, y)
    <3>1. at = Hidden
      BY <1>1, <2>2, <2>9, <2>11 DEF Field
    <3> QED
      BY <1>3, <2>11, <3>1 DEF Rightly, Hidden
  <2>12. CASE up.proj # Everything /\ Wants(proj, y) /\ "part" \notin {inc, exc}
    <3>1. at = Shown(Everything, FALSE)
      BY <1>1, <2>2, <2>9, <2>12 DEF Field
    <3>2. Sub(proj.include, y) = {} /\ Sub(proj.exclude, y) = {}
      BY <2>4, <2>5, <2>9, <2>12, <2>8
    <3> QED
      BY <1>3, <2>12, <3>1, <3>2, EverythingIsProj DEF Rightly, Shown, Everything
  <2>13. CASE up.proj # Everything /\ Wants(proj, y) /\ "part" \in {inc, exc}
    <3>1. PICK d : d = below
      OBVIOUS
    <3>2. d = [include |-> DescendIn(up.proj.include, k), exclude |-> DescendIn(up.proj.exclude, k)]
      BY <3>1 DEF Descend
    <3>3. /\ IsProj(d)
          /\ Heeded(d.include) = Sub(proj.include, y)
          /\ Heeded(d.exclude) = Sub(proj.exclude, y)
      BY <2>4, <2>5, <3>2 DEF IsProj
    <3>4. HasFieldMatch(d, t, y)
      <4>1. Sub(proj.include, y) # {} \/ Sub(proj.exclude, y) # {}
        BY <2>4, <2>5, <2>13
      <4>2. PICK q : q \in Sub(proj.include, y) \cup Sub(proj.exclude, y)
        BY <4>1
      <4>3. q \in Path /\ q # Root /\ y \o q \in DOMAIN t
        BY <4>2 DEF Sub
      <4>4. Append(y, q[1]) \in DOMAIN t
        BY <1>2, <4>3, NextNode
      <4>5. q \in Range(d.include) \cup Range(d.exclude)
        BY <3>3, <4>2, HeededOfList DEF IsProj
      <4> QED
        BY <4>3, <4>4, <4>5 DEF HasFieldMatch
    <3>5. at = Shown(d, t[y] = Obj /\ ~HasFieldMatch(d, t, y))
      BY <1>1, <2>2, <2>9, <2>13, <3>1 DEF Field
    <3>6. (t[y] = Obj /\ ~HasFieldMatch(d, t, y)) = FALSE
      BY <3>4
    <3>7. at = Shown(d, FALSE)
      BY <3>5, <3>6
    <3> QED
      BY <1>3, <2>13, <3>3, <3>7 DEF Rightly, Shown
  <2> QED
    BY <2>10, <2>11, <2>12, <2>13
<1> QED
  BY <1>5, <1>6

\* All the way down.
LEMMA RightlyReached ==
    ASSUME NEW t, IsText(t), NEW proj, IsProj(proj),
           \A a, b \in Heeded(proj.include) : ~IsStrictPrefix(a, b),
           Heeded(proj.include) \cup Heeded(proj.exclude) \subseteq DOMAIN t \ {Root}
    PROVE  \A y \in DOMAIN t : Rightly(t, proj, y)
<1> DEFINE B == {y \in DOMAIN t : ~Rightly(t, proj, y)}
<1>1. Rightly(t, proj, Root)
  <2>1. \A p \in Heeded(proj.include) \cup Heeded(proj.exclude) : p \in Path /\ p # Root
    BY DEF IsText
  <2>2. \A p \in Path : IsPrefix(Root, p) /\ (IsPrefix(p, Root) => p = Root) /\ Root \o p = p
    <3> TAKE p \in Path
    <3>1. Root \o p = p /\ Root \in Path
      BY RootConcat, RootIsPath
    <3>2. IsPrefix(Root, p)
      <4>1. IsPrefix(Root, Root \o p)
        BY <3>1, ConcatChar
      <4> QED
        BY <3>1, <4>1
    <3> QED
      BY <3>1, <3>2, PrefixOrder
  <2>3. Wants(proj, Root)
    <3>1. ~Excluded(proj.exclude, Root)
      BY <2>1, <2>2 DEF Excluded
    <3>2. Included(proj.include, Root)
      BY <2>1, <2>2 DEF Included
    <3> QED
      BY <3>1, <3>2 DEF Wants
  <2>4. \A q : q \in Sub(proj.include, Root) <=> q \in Heeded(proj.include)
    BY <2>1, <2>2 DEF Sub
  <2>5. \A q : q \in Sub(proj.exclude, Root) <=> q \in Heeded(proj.exclude)
    BY <2>1, <2>2 DEF Sub
  <2>6. Reached(t, proj)[Root] = Shown(proj, FALSE)
    BY ReachedIs
  <2>7. Heeded(proj.include) = Sub(proj.include, Root) /\ Heeded(proj.exclude) = Sub(proj.exclude, Root)
    BY <2>4, <2>5
  <2> QED
    BY <2>3, <2>6, <2>7 DEF Rightly, Shown
<1>2. ASSUME NEW y \in B PROVE y # Root /\ Front(y) \in B
  <2>1. y # Root
    BY <1>1
  <2>2. Front(y) \in DOMAIN t
    BY <2>1, ReachedIs
  <2> QED
    BY <2>1, <2>2, RightlyNext
<1>3. B \subseteq Path
  BY DEF IsText
<1>4. B = {}
  <2> HIDE DEF B
  <2> QED
    BY <1>2, <1>3, NoDescent
<1> QED
  BY <1>4

\* Whatever clients call, a document that has all the fields that the decisive
\* paths name is shown with just those that these want.
THEOREM NamedFieldsAreShown == Spec => []NamedFieldsExactly
<1>1. IInv => NamedFieldsExactly
  <2> SUFFICES ASSUME IInv, NEW p \in DocPaths, NEW options \in Projections,
                      Exists(p), NEW included, NEW excluded,
                      included = Decisive(options.include), excluded = Decisive(options.exclude),
                      included \cup excluded \subseteq DOMAIN Extract(p) \ {Root},
                      \A x, y \in included : ~IsStrictPrefix(x, y)
               PROVE  Project(Extract(p), options)
                        = Restrict(Extract(p),
                                   {x \in DOMAIN Extract(p) :
                                      /\ included = {} \/ \E path \in included :
                                                             IsPrefix(path, x) \/ IsPrefix(x, path)
                                      /\ ~\E path \in excluded : IsPrefix(path, x)})
    BY DEF NamedFieldsExactly, RestrictDomain
  <2>1. PICK t : t = Extract(p)
    OBVIOUS
  <2>2. IsText(t)
    BY <2>1, ExtractIsText, EngineAssumption
  <2>3. PICK proj : proj = ParseProjection(options)
    OBVIOUS
  <2>4. IsProj(proj) /\ Heeded(proj.include) = included /\ Heeded(proj.exclude) = excluded
    BY <2>3, ParsedHeeds
  <2>5. \A x \in DOMAIN t : Rightly(t, proj, x)
    BY <2>1, <2>2, <2>4, RightlyReached
  <2>6. \A x \in DOMAIN t : Reached(t, proj)[x].shown <=> Wants(proj, x)
    BY <2>5 DEF Rightly
  <2>7. Project(t, options) = Restrict(t, {x \in DOMAIN t : Reached(t, proj)[x].shown})
    BY <2>3 DEF Project
  <2>8. Project(t, options) = Restrict(t, {x \in DOMAIN t : Wants(proj, x)})
    BY <2>6, <2>7
  <2> QED
    BY <2>1, <2>4, <2>8 DEF Wants, Included, Excluded
<1> QED
  BY <1>1, IInvInit, IInvNext, PTL DEF Spec
=============================================================================
