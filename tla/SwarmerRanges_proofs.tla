------------------------ MODULE SwarmerRanges_proofs ------------------------
(***************************************************************************)
(* Proofs about SwarmerRanges for any file, any blocks of it, any          *)
(* uploaders and anything they declare, without a merge: ranges stay       *)
(* ordered, the holes of a block are the bytes that miss on the disk,      *)
(* references are counted right and a range that is held and open is a     *)
(* hole of the block that is downloaded now.                               *)
(*                                                                         *)
(* Every helper of the model maps a swarmer to a swarmer, so the parts of  *)
(* the invariant are predicates on a swarmer s, the uploaders v and the    *)
(* bytes d on the disk, and each helper is shown to preserve them.         *)
(***************************************************************************)
EXTENDS SwarmerRanges, FiniteSetTheorems, SequenceTheorems, WellFoundedInduction, TLAPS

-----------------------------------------------------------------------------
(* The inductive invariant.                                                *)

Nums == 1 .. Len(InitPos)
End(b) == IF b = Len(InitPos) THEN FileSize ELSE InitPos[b + 1]

BlockSet == [kind : Kinds, obj : ObjIds \cup {0}]
ObjSet == [num : Nums \cup {0}, from : Nat, to : Nat, chain : Seq(RangeIds)]
RangeSet == [from : Nat, to : Nat, nup : Nat, owner : ObjIds \cup {0}]
PartSet == [num : Nums, from : Nat, to : Nat]
EntrySet == [obj : ObjIds, from : Nat, to : Nat]
UploaderSet == [declared : BOOLEAN, complete : Seq(Nums), partial : Seq(PartSet),
                blocks : Seq(EntrySet), ranges : Seq(RangeIds)]

\* The swarmer has its fields, and they have their types; nothing is said of the
\* counters of bytes.
Fields == {"pos", "blocks", "obj", "remaining", "unselected", "range", "nuploading"}
Shape(s) ==
    /\ DOMAIN s = Fields
    /\ s.pos = InitPos
    /\ s.blocks \in [Nums -> BlockSet]
    /\ s.obj \in [ObjIds -> ObjSet]
    /\ s.range \in [RangeIds -> RangeSet]
    /\ s.nuploading \in [Nums -> Nat]

UpShape(v) == v \in [Uploaders -> UploaderSet]

\* A partial block has an object of its own, which knows its place.
Owned(s) ==
    \A b \in Nums :
        /\ s.blocks[b].kind = "Partial" <=> s.blocks[b].obj \in ObjIds
        /\ s.blocks[b].obj \in ObjIds =>
              /\ s.obj[s.blocks[b].obj].num = b
              /\ s.obj[s.blocks[b].obj].from = InitPos[b]
              /\ s.obj[s.blocks[b].obj].to = End(b)

\* Only the object of a partial block has ranges: its own, inside it, in order.
Linked(s) ==
    \A o \in ObjIds : \A i \in 1 .. Len(s.obj[o].chain) :
        LET r == s.range[s.obj[o].chain[i]] IN
        /\ s.obj[o].num \in Nums /\ s.blocks[s.obj[o].num].obj = o
        /\ r.owner = o
        /\ s.obj[o].from <= r.from /\ r.from < r.to /\ r.to <= s.obj[o].to
        /\ \A j \in 1 .. Len(s.obj[o].chain) : i < j => r.to <= s.range[s.obj[o].chain[j]].from

\* A byte misses in a block when the block is empty or a range of it has the byte.
InRange(s, r, x) == s.range[r].from <= x /\ x < s.range[r].to
InChain(s, o, x) == \E i \in 1 .. Len(s.obj[o].chain) : InRange(s, s.obj[o].chain[i], x)
Misses(s, b, x) == \/ s.blocks[b].kind = "Empty"
                   \/ s.blocks[b].obj \in ObjIds /\ InChain(s, s.blocks[b].obj, x)
OnDisk(s, d) ==
    \A b \in Nums : \A x \in InitPos[b] .. End(b) - 1 : x \in d <=> ~ Misses(s, b, x)

\* What an uploader refers to is an object of some block; a range that is held and
\* open is in the list of its object.
HeldLive(s, v) ==
    \A u \in Uploaders : \A r \in ToSet(v[u].ranges) :
        /\ s.range[r].owner \in ObjIds /\ s.obj[s.range[r].owner].num \in Nums
        /\ s.range[r].from < s.range[r].to => r \in ToSet(s.obj[s.range[r].owner].chain)
EntriesLive(s, v) ==
    \A u \in Uploaders : \A e \in ToSet(v[u].blocks) : s.obj[e.obj].num \in Nums

Sound(s, v, d) ==
    Shape(s) /\ Owned(s) /\ Linked(s) /\ OnDisk(s, d) /\ HeldLive(s, v) /\ EntriesLive(s, v)

\* Ranges are held once, and range_nuploading counts who holds them.
Holders(v, r) == {u \in Uploaders : r \in ToSet(v[u].ranges)}
Counted(s, v) ==
    /\ \A r \in RangeIds : s.range[r].nup = Cardinality(Holders(v, r))
    /\ \A u \in Uploaders : IsInjective(v[u].ranges)

\* Blocks are selected once, and s_nuploading counts who has selected them.
Selected(s, v, u) == {s.obj[e.obj].num : e \in ToSet(v[u].blocks)}
Selectors(s, v, b) == {u \in Uploaders : b \in Selected(s, v, u)}
NumsDiffer(s, list) ==
    \A i, j \in 1 .. Len(list) : s.obj[list[i].obj].num = s.obj[list[j].obj].num => i = j
Enlisted(s, v) ==
    /\ \A b \in Nums : s.nuploading[b] = Cardinality(Selectors(s, v, b))
    /\ \A u \in Uploaders : NumsDiffer(s, v[u].blocks) /\ IsInjective(v[u].complete)
    /\ \A u \in Uploaders : ~ v[u].declared => v[u].blocks = <<>>

IInv == UpShape(up) /\ Sound(swarmer, up, disk) /\ Counted(swarmer, up) /\ Enlisted(swarmer, up)

\* A range that is held is not longer than what its uploader asks for.
Short(s, v) ==
    \A u \in Uploaders : \A r \in ToSet(v[u].ranges) : s.range[r].to - s.range[r].from <= RangeSize[u]

-----------------------------------------------------------------------------
(* Induction and sequences *)

\* A set of natural numbers that is not empty has a least element.
LEMMA LeastElement ==
  ASSUME NEW T, T \subseteq Nat, T # {}
  PROVE  \E m \in T : \A n \in T : m <= n
<1> DEFINE R == {ss \in Nat \X Nat : ss[1] < ss[2]}
<1>1. R = OpToRel(<, Nat)
  BY Zenon DEF OpToRel
<1>2. \E x \in T : \A y \in T : ~ (<<y, x>> \in R)
  <2>1. IsWellFoundedOn(R, Nat)
    BY <1>1, NatLessThanWellFounded, Zenon
  <2> HIDE DEF R
  <2> QED BY <2>1, WFMin, Zenon
<1>3. \A x, y \in T : y < x => <<y, x>> \in R
  OBVIOUS
<1> HIDE DEF R
<1>4. PICK x \in T : \A y \in T : ~ (<<y, x>> \in R)
  BY <1>2
<1>5. \A y \in T : ~ (y < x)
  BY <1>3, <1>4
<1>6. \A y \in T : y \in Nat /\ x \in Nat
  OBVIOUS
<1>7. \A y \in T : x <= y
  BY <1>5, <1>6
<1> QED BY <1>7

\* Induction on the natural numbers, for the set P of those a fact holds of.
LEMMA Induction ==
  ASSUME NEW P, 0 \in P, \A n \in Nat : n \in P => n + 1 \in P
  PROVE  Nat \subseteq P
<1> SUFFICES ASSUME Nat \ P # {} PROVE FALSE
  OBVIOUS
<1>1. PICK n \in Nat \ P : \A k \in Nat \ P : n <= k
  BY LeastElement
<1>2. n - 1 \in Nat /\ n - 1 \notin Nat \ P
  BY <1>1
<1> QED BY <1>1, <1>2

\* g is the recursive function in Without(s, S).
Kept(g, s, S, n) ==
  g = [i \in 0..n |-> IF i = 0 THEN <<>>
                      ELSE IF s[i] \in S THEN g[i - 1] ELSE Append(g[i - 1], s[i])]

\* The recursive function in Without exists.
LEMMA KeptExists ==
  ASSUME NEW s, NEW S, NEW m \in Nat
  PROVE  \E g : Kept(g, s, S, m)
<1> DEFINE P == {n \in Nat : \E g : Kept(g, s, S, n)}
<1>1. 0 \in P
  <2> DEFINE g == [i \in 0..0 |-> <<>>]
  <2>1. Kept(g, s, S, 0)
    BY DEF Kept
  <2> QED BY <2>1
<1>2. ASSUME NEW n \in Nat, n \in P PROVE n + 1 \in P
  <2>1. PICK g : Kept(g, s, S, n)
    BY <1>2
  <2> DEFINE h == [i \in 0..n + 1 |-> IF i <= n THEN g[i]
                     ELSE IF s[n + 1] \in S THEN g[n] ELSE Append(g[n], s[n + 1])]
             body(i) == IF i = 0 THEN <<>>
                        ELSE IF s[i] \in S THEN h[i - 1] ELSE Append(h[i - 1], s[i])
  <2>2. ASSUME NEW i \in 0..n + 1 PROVE h[i] = body(i)
    <3>1. CASE i = 0
      BY <3>1, <2>1 DEF Kept
    <3>2. CASE i \in 1..n
      <4>1. g[i] = IF s[i] \in S THEN g[i - 1] ELSE Append(g[i - 1], s[i])
        <5>1. i \in 0..n /\ i # 0
          BY <3>2
        <5> QED BY <5>1, <2>1, Zenon DEF Kept
      <4> QED BY <3>2, <4>1
    <3>3. CASE i = n + 1
      BY <3>3
    <3> QED BY <3>1, <3>2, <3>3
  <2>3. h = [i \in 0..n + 1 |-> body(i)]
    <3>1. h = [i \in 0..n + 1 |-> h[i]]
      OBVIOUS
    <3> HIDE DEF h
    <3> QED BY <2>2, <3>1
  <2> HIDE DEF h
  <2>4. Kept(h, s, S, n + 1)
    BY <2>3, Zenon DEF Kept
  <2> QED BY <2>4
<1> HIDE DEF P
<1>3. m \in P
  BY <1>1, <1>2, Induction
<1> QED BY <1>3 DEF P

\* Without is the last value of that function.
LEMMA WithoutKept ==
  ASSUME NEW s, NEW S, Len(s) \in Nat
  PROVE  \E g : Kept(g, s, S, Len(s)) /\ Without(s, S) = g[Len(s)]
<1> DEFINE g == CHOOSE h : Kept(h, s, S, Len(s))
<1>1. Kept(g, s, S, Len(s))
  BY KeptExists, Zenon
<1>2. Without(s, S) = g[Len(s)]
  BY Zenon DEF Without, Kept
<1> QED BY <1>1, <1>2

\* What ToSet and IsInjective say of the elements of a sequence.
LEMMA SeqFacts ==
  ASSUME NEW X, NEW s \in Seq(X)
  PROVE  /\ \A x : x \in ToSet(s) <=> \E i \in 1..Len(s) : x = s[i]
         /\ IsInjective(s) <=> \A i, j \in 1..Len(s) : s[i] = s[j] => i = j
         /\ ToSet(s) \subseteq X
<1>1. DOMAIN s = 1..Len(s)
  OBVIOUS
<1>2. \A i \in 1..Len(s) : s[i] \in X
  OBVIOUS
<1>3. \A x : x \in ToSet(s) <=> \E i \in 1..Len(s) : x = s[i]
  BY <1>1, Zenon DEF ToSet
<1>4. IsInjective(s) <=> \A i, j \in 1..Len(s) : s[i] = s[j] => i = j
  BY <1>1 DEF IsInjective
<1> QED BY <1>2, <1>3, <1>4

\* The empty sequence has no element and repeats none.
LEMMA EmptyFacts == ToSet(<<>>) = {} /\ IsInjective(<<>>)
  BY DEF ToSet, IsInjective

\* One element is added to the set of a sequence.
LEMMA AppendProps ==
  ASSUME NEW X, NEW s \in Seq(X), NEW x \in X
  PROVE  /\ Append(s, x) \in Seq(X)
         /\ ToSet(Append(s, x)) = ToSet(s) \union {x}
         /\ IsInjective(s) /\ x \notin ToSet(s) => IsInjective(Append(s, x))
<1> DEFINE t == Append(s, x)
<1>1. /\ t \in Seq(X)
      /\ Len(t) = Len(s) + 1
      /\ \A i \in 1..Len(s) : t[i] = s[i]
      /\ t[Len(s) + 1] = x
  OBVIOUS
<1> HIDE DEF t
<1>2. ASSUME NEW y \in ToSet(t) PROVE y \in ToSet(s) \union {x}
  <2>1. PICK i \in 1..Len(s) + 1 : y = t[i]
    BY <1>1, <1>2, SeqFacts
  <2> QED BY <2>1, <1>1, SeqFacts
<1>3. ASSUME NEW y \in ToSet(s) PROVE y \in ToSet(t)
  <2>1. PICK i \in 1..Len(s) : y = s[i]
    BY SeqFacts
  <2> QED BY <2>1, <1>1, SeqFacts
<1>4. x \in ToSet(t)
  BY <1>1, SeqFacts
<1>5. ASSUME IsInjective(s), x \notin ToSet(s) PROVE IsInjective(t)
  <2>1. \A i, j \in 1..Len(s) : s[i] = s[j] => i = j
    BY <1>5, SeqFacts
  <2>2. \A i \in 1..Len(s) : s[i] # x
    BY <1>5, SeqFacts
  <2>3. \A i, j \in 1..Len(s) + 1 : t[i] = t[j] => i = j
    BY <2>1, <2>2, <1>1
  <2> QED BY <2>3, <1>1, SeqFacts
<1> QED BY <1>1, <1>2, <1>3, <1>4, <1>5 DEF t

\* w is the elements of s[1], ..., s[n] that are not in S, in the same order.
Drops(w, s, S, n) ==
  \E f \in [1..Len(w) -> 1..n] :
    /\ \A i \in 1..Len(w) : w[i] = s[f[i]] /\ s[f[i]] \notin S
    /\ \A i, j \in 1..Len(w) : i < j => f[i] < f[j]
    /\ \A k \in 1..n : s[k] \notin S => \E i \in 1..Len(w) : f[i] = k

\* Without drops the elements of S and keeps the order of the others.
LEMMA WithoutDrops ==
  ASSUME NEW X, NEW s \in Seq(X), NEW S
  PROVE  Without(s, S) \in Seq(X) /\ Drops(Without(s, S), s, S, Len(s))
<1>1. PICK g : Kept(g, s, S, Len(s)) /\ Without(s, S) = g[Len(s)]
  BY WithoutKept
<1> DEFINE P == {n \in Nat : n <= Len(s) => g[n] \in Seq(X) /\ Drops(g[n], s, S, n)}
<1>2. 0 \in P
  <2>1. g[0] = <<>>
    BY <1>1 DEF Kept
  <2>2. Drops(<<>>, s, S, 0)
    <3> DEFINE e == [i \in 1..0 |-> 1]
    <3>1. e \in [1..0 -> 1..0] /\ Len(<<>>) = 0 /\ 1..0 = {}
      OBVIOUS
    <3> HIDE DEF e
    <3>2. /\ \A i \in 1..Len(<<>>) : <<>>[i] = s[e[i]] /\ s[e[i]] \notin S
          /\ \A i, j \in 1..Len(<<>>) : i < j => e[i] < e[j]
          /\ \A k \in 1..0 : s[k] \notin S => \E i \in 1..Len(<<>>) : e[i] = k
      BY <3>1
    <3> QED BY <3>1, <3>2, Zenon DEF Drops
  <2>3. g[0] \in Seq(X) /\ Drops(g[0], s, S, 0)
    BY <2>1, <2>2
  <2> QED BY <2>3
<1>3. ASSUME NEW n \in Nat, n \in P PROVE n + 1 \in P
  <2> SUFFICES ASSUME n + 1 <= Len(s) PROVE g[n + 1] \in Seq(X) /\ Drops(g[n + 1], s, S, n + 1)
    OBVIOUS
  <2>1. g[n + 1] = IF s[n + 1] \in S THEN g[n] ELSE Append(g[n], s[n + 1])
    <3>1. n + 1 \in 0..Len(s) /\ n + 1 # 0 /\ (n + 1) - 1 = n
      OBVIOUS
    <3>2. g[n + 1] = IF s[n + 1] \in S THEN g[(n + 1) - 1]
                     ELSE Append(g[(n + 1) - 1], s[n + 1])
      BY <3>1, <1>1, Zenon DEF Kept
    <3> QED BY <3>1, <3>2
  <2>2. g[n] \in Seq(X) /\ Drops(g[n], s, S, n)
    BY <1>3
  <2>3. PICK f \in [1..Len(g[n]) -> 1..n] :
           /\ \A i \in 1..Len(g[n]) : g[n][i] = s[f[i]] /\ s[f[i]] \notin S
           /\ \A i, j \in 1..Len(g[n]) : i < j => f[i] < f[j]
           /\ \A k \in 1..n : s[k] \notin S => \E i \in 1..Len(g[n]) : f[i] = k
    BY <2>2 DEF Drops
  <2>4. s[n + 1] \in X
    OBVIOUS
  <2> HIDE DEF P
  <2>5. CASE s[n + 1] \in S
    <3>1. f \in [1..Len(g[n]) -> 1..n + 1]
      OBVIOUS
    <3>2. \A k \in 1..n + 1 : s[k] \notin S => \E i \in 1..Len(g[n]) : f[i] = k
      BY <2>3, <2>5
    <3>3. Drops(g[n], s, S, n + 1)
      BY <3>1, <3>2, <2>3 DEF Drops
    <3> QED BY <3>3, <2>1, <2>2, <2>5
  <2>6. CASE s[n + 1] \notin S
    <3> DEFINE w == Append(g[n], s[n + 1])
               h == [i \in 1..Len(g[n]) + 1 |-> IF i <= Len(g[n]) THEN f[i] ELSE n + 1]
    <3>1. w \in Seq(X) /\ Len(w) = Len(g[n]) + 1
      BY <2>2, <2>4
    <3>2. \A i \in 1..Len(g[n]) : w[i] = g[n][i]
      BY <2>2, <2>4
    <3>3. w[Len(g[n]) + 1] = s[n + 1]
      BY <2>2, <2>4
    <3>4. Len(g[n]) \in Nat
      BY <2>2
    <3>5. h \in [1..Len(g[n]) + 1 -> 1..n + 1]
      BY <3>4
    <3>6. (\A i \in 1..Len(g[n]) : h[i] = f[i]) /\ h[Len(g[n]) + 1] = n + 1
      BY <3>4
    <3> HIDE DEF w, h
    <3>7. \A i \in 1..Len(g[n]) + 1 : w[i] = s[h[i]] /\ s[h[i]] \notin S
      <4> TAKE i \in 1..Len(g[n]) + 1
      <4>1. CASE i = Len(g[n]) + 1
        BY <4>1, <3>3, <3>6, <2>6
      <4>2. CASE i \in 1..Len(g[n])
        BY <4>2, <3>2, <3>6, <2>3
      <4> QED BY <4>1, <4>2, <3>4
    <3>8. \A i, j \in 1..Len(g[n]) + 1 : i < j => h[i] < h[j]
      <4> TAKE i, j \in 1..Len(g[n]) + 1
      <4> HAVE i < j
      <4>1. i \in 1..Len(g[n]) /\ f[i] \in 1..n
        BY <3>4
      <4>2. CASE j = Len(g[n]) + 1
        BY <4>1, <4>2, <3>6
      <4>3. CASE j \in 1..Len(g[n])
        BY <4>1, <4>3, <3>6, <2>3
      <4> QED BY <4>2, <4>3, <3>4
    <3>9. \A k \in 1..n + 1 : s[k] \notin S => \E i \in 1..Len(g[n]) + 1 : h[i] = k
      <4> TAKE k \in 1..n + 1
      <4> HAVE s[k] \notin S
      <4>1. CASE k = n + 1
        BY <4>1, <3>4, <3>6
      <4>2. CASE k \in 1..n
        <5>1. PICK i \in 1..Len(g[n]) : f[i] = k
          BY <4>2, <2>3
        <5> QED BY <5>1, <3>4, <3>6
      <4> QED BY <4>1, <4>2
    <3>10. Drops(w, s, S, n + 1)
      <4>1. h \in [1..Len(w) -> 1..n + 1]
        BY <3>1, <3>5
      <4>2. /\ \A i \in 1..Len(w) : w[i] = s[h[i]] /\ s[h[i]] \notin S
            /\ \A i, j \in 1..Len(w) : i < j => h[i] < h[j]
            /\ \A k \in 1..n + 1 : s[k] \notin S => \E i \in 1..Len(w) : h[i] = k
        BY <3>1, <3>7, <3>8, <3>9, Zenon
      <4> QED BY <4>1, <4>2, Zenon DEF Drops
    <3> QED BY <3>1, <3>10, <2>1, <2>6 DEF w
  <2> QED BY <2>5, <2>6
<1> HIDE DEF P
<1>4. Len(s) \in P
  BY <1>2, <1>3, Induction
<1> QED BY <1>1, <1>4 DEF P

\* The elements of a list without those of S; it repeats none if the list does not.
LEMMA WithoutProps ==
  ASSUME NEW X, NEW s \in Seq(X), NEW S
  PROVE  /\ Without(s, S) \in Seq(X)
         /\ ToSet(Without(s, S)) = ToSet(s) \ S
         /\ IsInjective(s) => IsInjective(Without(s, S))
<1> DEFINE w == Without(s, S)
<1>1. w \in Seq(X) /\ Drops(w, s, S, Len(s))
  BY WithoutDrops
<1> HIDE DEF w
<1>2. PICK f \in [1..Len(w) -> 1..Len(s)] :
        /\ \A i \in 1..Len(w) : w[i] = s[f[i]] /\ s[f[i]] \notin S
        /\ \A i, j \in 1..Len(w) : i < j => f[i] < f[j]
        /\ \A k \in 1..Len(s) : s[k] \notin S => \E i \in 1..Len(w) : f[i] = k
  BY <1>1 DEF Drops
<1>3. ASSUME NEW x \in ToSet(w) PROVE x \in ToSet(s) \ S
  <2>1. PICK i \in 1..Len(w) : x = w[i]
    BY <1>1, SeqFacts
  <2>2. f[i] \in 1..Len(s)
    BY <2>1
  <2> QED BY <2>1, <2>2, <1>2, SeqFacts
<1>4. ASSUME NEW x \in ToSet(s) \ S PROVE x \in ToSet(w)
  <2>1. PICK k \in 1..Len(s) : x = s[k]
    BY SeqFacts
  <2>2. PICK i \in 1..Len(w) : f[i] = k
    BY <2>1, <1>2
  <2> QED BY <2>1, <2>2, <1>1, <1>2, SeqFacts
<1>5. ASSUME IsInjective(s) PROVE IsInjective(w)
  <2>1. \A i, j \in 1..Len(s) : s[i] = s[j] => i = j
    BY <1>5, SeqFacts
  <2>2. \A i, j \in 1..Len(w) : w[i] = w[j] => i = j
    <3> TAKE i, j \in 1..Len(w)
    <3> HAVE w[i] = w[j]
    <3>1. f[i] \in 1..Len(s) /\ f[j] \in 1..Len(s) /\ s[f[i]] = s[f[j]]
      BY <1>2
    <3>2. f[i] = f[j]
      BY <3>1, <2>1
    <3>3. Len(w) \in Nat
      BY <1>1
    <3> QED BY <3>1, <3>2, <3>3, <1>2
  <2> QED BY <2>2, <1>1, SeqFacts
<1> QED BY <1>1, <1>3, <1>4, <1>5 DEF w

-----------------------------------------------------------------------------
(* Blocks, bytes and identities *)

\* The least and the greatest of two numbers.
LEMMA MinMax ==
  ASSUME NEW a \in Int, NEW b \in Int
  PROVE  /\ Min({a, b}) = IF a <= b THEN a ELSE b
         /\ Max({a, b}) = IF a <= b THEN b ELSE a
<1> DEFINE lo == IF a <= b THEN a ELSE b
           hi == IF a <= b THEN b ELSE a
<1>1. lo \in {a, b} /\ \A y \in {a, b} : lo <= y
  OBVIOUS
<1>2. hi \in {a, b} /\ \A y \in {a, b} : hi >= y
  OBVIOUS
<1>3. \A x \in {a, b} : (\A y \in {a, b} : x <= y) => x = lo
  OBVIOUS
<1>4. \A x \in {a, b} : (\A y \in {a, b} : x >= y) => x = hi
  OBVIOUS
<1> HIDE DEF lo, hi
<1>5. Min({a, b}) = lo
  BY <1>1, <1>3 DEF Min
<1>6. Max({a, b}) = hi
  BY <1>2, <1>4 DEF Max
<1> QED BY <1>5, <1>6 DEF lo, hi

\* The blocks follow one another from the beginning of the file to its end.
LEMMA Positions ==
  /\ FileSize \in Nat \ {0}
  /\ Nums = DOMAIN InitPos /\ Len(InitPos) \in Nat \ {0}
  /\ \A b \in Nums : /\ InitPos[b] \in Nat /\ End(b) \in Nat
                     /\ InitPos[b] < End(b) /\ End(b) <= FileSize
  /\ \A b, c \in Nums : b < c => End(b) <= InitPos[c]
  /\ \A b, c \in Nums : InitPos[b] = InitPos[c] => b = c
<1>1. /\ InitPos \in Seq(0 .. FileSize - 1) /\ Len(InitPos) > 0
      /\ \A i, j \in DOMAIN InitPos : i < j => InitPos[i] < InitPos[j]
      /\ FileSize \in Nat \ {0}
  BY PosAssumption, SizesAssumption
<1>2. Nums = DOMAIN InitPos /\ Len(InitPos) \in Nat \ {0}
  BY <1>1 DEF Nums
<1>3. \A b \in Nums : InitPos[b] \in 0 .. FileSize - 1
  BY <1>1, <1>2
<1>4. \A b \in Nums : b # Len(InitPos) => b + 1 \in Nums
  BY <1>2 DEF Nums
<1>5. \A b \in Nums : b \in Int
  BY DEF Nums
<1>6. \A b \in Nums : /\ End(b) \in Nat
                      /\ InitPos[b] < End(b) /\ End(b) <= FileSize
  BY <1>1, <1>2, <1>3, <1>4, <1>5 DEF End
<1>7. ASSUME NEW b \in Nums, NEW c \in Nums, b < c PROVE End(b) <= InitPos[c]
  <2>1. b # Len(InitPos)
    BY <1>7, <1>2 DEF Nums
  <2>2. b + 1 \in Nums /\ End(b) = InitPos[b + 1]
    BY <2>1, <1>4 DEF End
  <2>3. b + 1 = c \/ b + 1 < c
    BY <1>7, <1>5
  <2> QED BY <2>2, <2>3, <1>1, <1>2, <1>3
<1>8. ASSUME NEW b \in Nums, NEW c \in Nums, InitPos[b] = InitPos[c] PROVE b = c
  <2>1. b < c \/ c < b \/ b = c
    BY <1>5
  <2> QED BY <2>1, <1>8, <1>1, <1>2, <1>3
<1> QED BY <1>1, <1>2, <1>3, <1>6, <1>7, <1>8

\* A byte is in one block at most.
LEMMA OneBlock ==
  ASSUME NEW b \in Nums, NEW c \in Nums, NEW x \in InitPos[b] .. End(b) - 1,
         x \in InitPos[c] .. End(c) - 1
  PROVE  b = c
<1>1. b < c \/ c < b \/ b = c
  BY DEF Nums
<1> QED BY <1>1, Positions

\* Where the blocks of a swarmer are.
LEMMA BlockPlaces ==
  ASSUME NEW s, s.pos = InitPos
  PROVE  /\ \A b \in Nums : BlockEnd(s, b) = End(b)
         /\ \A b \in Nums : BytesOf(s, b) = InitPos[b] .. End(b) - 1
         /\ DOMAIN s.pos = Nums
  BY Positions DEF BlockEnd, BytesOf, End

\* An identity that is not in use.
LEMMA Fresh ==
  ASSUME NEW s, NEW x
  PROVE  /\ FreeObjs(s, x) # {} =>
              /\ FreshObj(s, x) \in ObjIds /\ s.obj[FreshObj(s, x)] = NoObj
              /\ FreshObj(s, x) % FileSize = x
         /\ FreeRanges(s, x) # {} =>
              /\ FreshRange(s, x) \in RangeIds /\ s.range[FreshRange(s, x)] = NoRange
              /\ FreshRange(s, x) % FileSize = x
<1>1. ASSUME FreeObjs(s, x) # {} PROVE FreshObj(s, x) \in FreeObjs(s, x)
  <2>1. \E o \in ObjIds : o \in FreeObjs(s, x)
    BY <1>1 DEF FreeObjs
  <2> QED BY <2>1, Zenon DEF FreshObj
<1>2. ASSUME FreeRanges(s, x) # {} PROVE FreshRange(s, x) \in FreeRanges(s, x)
  <2>1. \E r \in RangeIds : r \in FreeRanges(s, x)
    BY <1>2 DEF FreeRanges
  <2> QED BY <2>1, Zenon DEF FreshRange
<1> QED BY <1>1, <1>2 DEF FreeObjs, FreeRanges

-----------------------------------------------------------------------------
(* What the invariant says of lists and of changes it does not see *)

\* The ranges in the list of an object, when the list is known by its places.
LEMMA InList ==
  ASSUME NEW s, s.obj \in [ObjIds -> ObjSet], NEW o \in ObjIds
  PROVE  /\ s.obj[o].chain \in Seq(RangeIds)
         /\ Len(s.obj[o].chain) \in Nat
         /\ \A i \in 1 .. Len(s.obj[o].chain) : s.obj[o].chain[i] \in RangeIds
         /\ \A r : r \in ToSet(s.obj[o].chain) <=>
                     \E i \in 1 .. Len(s.obj[o].chain) : r = s.obj[o].chain[i]
<1>1. s.obj[o].chain \in Seq(RangeIds)
  BY DEF ObjSet
<1> QED BY <1>1, SeqFacts

\* The lists of an uploader.
LEMMA UpFacts ==
  ASSUME NEW v, UpShape(v), NEW u \in Uploaders
  PROVE  /\ v[u] \in UploaderSet
         /\ v[u].ranges \in Seq(RangeIds) /\ ToSet(v[u].ranges) \subseteq RangeIds
         /\ v[u].blocks \in Seq(EntrySet) /\ ToSet(v[u].blocks) \subseteq EntrySet
         /\ v[u].complete \in Seq(Nums) /\ v[u].partial \in Seq(PartSet)
         /\ v[u].declared \in BOOLEAN
<1>1. /\ v[u] \in UploaderSet
      /\ v[u].ranges \in Seq(RangeIds) /\ v[u].blocks \in Seq(EntrySet)
      /\ v[u].complete \in Seq(Nums) /\ v[u].partial \in Seq(PartSet)
      /\ v[u].declared \in BOOLEAN
  BY DEF UpShape, UploaderSet
<1>2. ToSet(v[u].ranges) \subseteq RangeIds /\ ToSet(v[u].blocks) \subseteq EntrySet
  BY <1>1, SeqFacts
<1> QED BY <1>1, <1>2

\* The swarmer t differs from s only in counters.
SameRanges(s, t) ==
    /\ t.blocks = s.blocks /\ t.obj = s.obj
    /\ \A r \in RangeIds : /\ t.range[r].from = s.range[r].from /\ t.range[r].to = s.range[r].to
                           /\ t.range[r].owner = s.range[r].owner

\* Counters do not matter.
LEMMA SameSound ==
  ASSUME NEW s, NEW t, NEW v, NEW d, Sound(s, v, d), UpShape(v), Shape(t), SameRanges(s, t)
  PROVE  Sound(t, v, d)
<1>1. /\ Shape(s) /\ Owned(s) /\ Linked(s) /\ OnDisk(s, d) /\ HeldLive(s, v) /\ EntriesLive(s, v)
  BY DEF Sound
<1>2. /\ t.blocks = s.blocks /\ t.obj = s.obj
      /\ \A r \in RangeIds : /\ t.range[r].from = s.range[r].from /\ t.range[r].to = s.range[r].to
                             /\ t.range[r].owner = s.range[r].owner
  BY DEF SameRanges
<1>3. Owned(t)
  BY <1>1, <1>2 DEF Owned
<1>4. \A o \in ObjIds : \A i \in 1 .. Len(s.obj[o].chain) : s.obj[o].chain[i] \in RangeIds
  BY <1>1, InList DEF Shape
<1>5. Linked(t)
  <2> SUFFICES ASSUME NEW o \in ObjIds, NEW i \in 1 .. Len(t.obj[o].chain)
               PROVE  LET r == t.range[t.obj[o].chain[i]] IN
        /\ t.obj[o].num \in Nums /\ t.blocks[t.obj[o].num].obj = o
        /\ r.owner = o
        /\ t.obj[o].from <= r.from /\ r.from < r.to /\ r.to <= t.obj[o].to
        /\ \A j \in 1 .. Len(t.obj[o].chain) : i < j => r.to <= t.range[t.obj[o].chain[j]].from
    BY DEF Linked
  <2> DEFINE a == s.obj[o].chain
  <2>1. a = t.obj[o].chain /\ i \in 1 .. Len(a) /\ \A j \in 1 .. Len(a) : a[j] \in RangeIds
    BY <1>2, <1>4
  <2>2. /\ s.obj[o].num \in Nums /\ s.blocks[s.obj[o].num].obj = o
        /\ s.range[a[i]].owner = o
        /\ s.obj[o].from <= s.range[a[i]].from /\ s.range[a[i]].from < s.range[a[i]].to
        /\ s.range[a[i]].to <= s.obj[o].to
        /\ \A j \in 1 .. Len(a) : i < j => s.range[a[i]].to <= s.range[a[j]].from
    BY <1>1, <2>1 DEF Linked
  <2> HIDE DEF a
  <2> QED BY <1>2, <2>1, <2>2, Zenon
<1>6. \A o \in ObjIds : \A x : InChain(t, o, x) <=> InChain(s, o, x)
  BY <1>2, <1>4 DEF InChain, InRange
<1>7. OnDisk(t, d)
  BY <1>1, <1>2, <1>6 DEF OnDisk, Misses
<1>8. HeldLive(t, v)
  <2>1. \A u \in Uploaders : ToSet(v[u].ranges) \subseteq RangeIds
    BY UpFacts
  <2> QED BY <1>1, <1>2, <2>1 DEF HeldLive
<1>9. EntriesLive(t, v)
  BY <1>1, <1>2 DEF EntriesLive
<1> QED BY <1>3, <1>5, <1>7, <1>8, <1>9 DEF Sound

\* Uploaders may refer to less.
LEMMA FewerSound ==
  ASSUME NEW s, NEW v, NEW w, NEW d, Sound(s, v, d),
         \A u \in Uploaders : /\ ToSet(w[u].ranges) \subseteq ToSet(v[u].ranges)
                              /\ ToSet(w[u].blocks) \subseteq ToSet(v[u].blocks)
  PROVE  Sound(s, w, d)
<1>1. HeldLive(s, v) /\ EntriesLive(s, v)
  BY DEF Sound
<1>2. HeldLive(s, w)
  BY <1>1, Zenon DEF HeldLive
<1>3. EntriesLive(s, w)
  BY <1>1, Zenon DEF EntriesLive
<1> QED BY <1>2, <1>3 DEF Sound

\* What Collect changes: nothing that is referred to.
LEMMA CollectFields ==
  ASSUME NEW s, NEW v, Shape(s), UpShape(v)
  PROVE  LET c == Collect(s, v) IN
         /\ Shape(c)
         /\ c.blocks = s.blocks /\ c.nuploading = s.nuploading
         /\ \A o \in ObjIds : c.obj[o] \in {s.obj[o], NoObj}
         /\ \A r \in RangeIds : c.range[r] \in {s.range[r], NoRange}
         /\ \A b \in Nums : s.blocks[b].obj \in ObjIds =>
              /\ c.obj[s.blocks[b].obj] = s.obj[s.blocks[b].obj]
              /\ \A r \in ToSet(s.obj[s.blocks[b].obj].chain) : r \in RangeIds => c.range[r] = s.range[r]
         /\ \A u \in Uploaders : \A r \in ToSet(v[u].ranges) :
              /\ c.range[r] = s.range[r]
              /\ s.range[r].owner \in ObjIds => c.obj[s.range[r].owner] = s.obj[s.range[r].owner]
         /\ \A u \in Uploaders : \A e \in ToSet(v[u].blocks) : c.obj[e.obj] = s.obj[e.obj]
<1> DEFINE held == UNION {ToSet(v[u].ranges) : u \in Uploaders}
           objs == {s.blocks[b].obj : b \in DOMAIN s.blocks} \cup {s.range[r].owner : r \in held}
                     \cup UNION {{e.obj : e \in ToSet(v[u].blocks)} : u \in Uploaders}
           used == held \cup UNION {ToSet(s.obj[o].chain) : o \in objs \ {0}}
           c == Collect(s, v)
           rem == [o \in ObjIds |-> IF o \in objs THEN s.remaining[o] ELSE 0]
           uns == [o \in ObjIds |-> IF o \in objs THEN s.unselected[o] ELSE 0]
           obj == [o \in ObjIds |-> IF o \in objs THEN s.obj[o] ELSE NoObj]
           range == [r \in RangeIds |-> IF r \in used THEN s.range[r] ELSE NoRange]
<1>1. /\ DOMAIN s = Fields /\ s.pos = InitPos
      /\ s.blocks \in [Nums -> BlockSet]
      /\ s.obj \in [ObjIds -> ObjSet]
      /\ s.range \in [RangeIds -> RangeSet]
      /\ s.nuploading \in [Nums -> Nat]
  BY DEF Shape
<1>2. /\ \A u \in Uploaders : \A r \in ToSet(v[u].ranges) : r \in held /\ r \in RangeIds
      /\ \A u \in Uploaders : \A e \in ToSet(v[u].blocks) : e.obj \in objs /\ e.obj \in ObjIds
      /\ \A r \in held : s.range[r].owner \in objs /\ r \in used
      /\ \A b \in Nums : s.blocks[b].obj \in objs
      /\ 0 \notin ObjIds
      /\ \A o \in ObjIds : o \in objs => \A r \in ToSet(s.obj[o].chain) : r \in used
  <2>1. \A u \in Uploaders : ToSet(v[u].ranges) \subseteq RangeIds /\ ToSet(v[u].blocks) \subseteq EntrySet
    BY UpFacts
  <2>2. 0 \notin ObjIds
    BY IdsAssumption
  <2>3. \A e \in EntrySet : e.obj \in ObjIds
    BY DEF EntrySet
  <2>4. DOMAIN s.blocks = Nums
    BY <1>1
  <2> QED BY <2>1, <2>2, <2>3, <2>4
<1>3. c = [s EXCEPT !.obj = obj, !.remaining = rem, !.unselected = uns, !.range = range]
  BY Zenon DEF Collect
<1> HIDE DEF objs, used, held, c
<1> HIDE DEF rem, uns, obj, range
<1>4. /\ DOMAIN c = Fields /\ c.pos = InitPos
      /\ c.blocks = s.blocks /\ c.nuploading = s.nuploading
      /\ c.obj = obj /\ c.range = range
  BY <1>1, <1>3 DEF Fields
<1>6. NoObj \in ObjSet /\ NoRange \in RangeSet
  <2>1. <<>> \in Seq(RangeIds)
    OBVIOUS
  <2> QED BY <2>1 DEF NoObj, NoRange, ObjSet, RangeSet
<1>7. Shape(c)
  <2>1. c.obj \in [ObjIds -> ObjSet] /\ c.range \in [RangeIds -> RangeSet]
    BY <1>1, <1>4, <1>6 DEF obj, range
  <2> QED BY <2>1, <1>1, <1>4 DEF Shape
<1>8. /\ \A o \in ObjIds : c.obj[o] \in {s.obj[o], NoObj}
      /\ \A r \in RangeIds : c.range[r] \in {s.range[r], NoRange}
      /\ \A o \in ObjIds : o \in objs => c.obj[o] = s.obj[o]
      /\ \A r \in RangeIds : r \in used => c.range[r] = s.range[r]
  BY <1>4 DEF obj, range
<1>9. \A b \in Nums : s.blocks[b].obj \in ObjIds =>
         /\ c.obj[s.blocks[b].obj] = s.obj[s.blocks[b].obj]
         /\ \A r \in ToSet(s.obj[s.blocks[b].obj].chain) : r \in RangeIds => c.range[r] = s.range[r]
  BY <1>2, <1>8
<1>10. \A u \in Uploaders : \A r \in ToSet(v[u].ranges) :
         /\ c.range[r] = s.range[r]
         /\ s.range[r].owner \in ObjIds => c.obj[s.range[r].owner] = s.obj[s.range[r].owner]
  BY <1>2, <1>8
<1>11. \A u \in Uploaders : \A e \in ToSet(v[u].blocks) : c.obj[e.obj] = s.obj[e.obj]
  BY <1>2, <1>8
<1> QED BY <1>4, <1>7, <1>8, <1>9, <1>10, <1>11 DEF c

\* What is referred to is as sound as before.
LEMMA CollectSound ==
  ASSUME NEW s, NEW v, NEW d, Sound(s, v, d), UpShape(v)
  PROVE  Sound(Collect(s, v), v, d)
<1> DEFINE c == Collect(s, v)
<1>1. /\ Shape(s) /\ Owned(s) /\ Linked(s) /\ OnDisk(s, d) /\ HeldLive(s, v) /\ EntriesLive(s, v)
  BY DEF Sound
<1>2. /\ Shape(c)
      /\ c.blocks = s.blocks /\ c.nuploading = s.nuploading
      /\ \A o \in ObjIds : c.obj[o] \in {s.obj[o], NoObj}
      /\ \A r \in RangeIds : c.range[r] \in {s.range[r], NoRange}
      /\ \A b \in Nums : s.blocks[b].obj \in ObjIds =>
           /\ c.obj[s.blocks[b].obj] = s.obj[s.blocks[b].obj]
           /\ \A r \in ToSet(s.obj[s.blocks[b].obj].chain) : r \in RangeIds => c.range[r] = s.range[r]
      /\ \A u \in Uploaders : \A r \in ToSet(v[u].ranges) :
           /\ c.range[r] = s.range[r]
           /\ s.range[r].owner \in ObjIds => c.obj[s.range[r].owner] = s.obj[s.range[r].owner]
      /\ \A u \in Uploaders : \A e \in ToSet(v[u].blocks) : c.obj[e.obj] = s.obj[e.obj]
  BY <1>1, CollectFields
<1> HIDE DEF c
<1>3. \A o \in ObjIds : /\ Len(s.obj[o].chain) \in Nat
                        /\ \A i \in 1 .. Len(s.obj[o].chain) :
                             /\ s.obj[o].chain[i] \in RangeIds
                             /\ s.obj[o].chain[i] \in ToSet(s.obj[o].chain)
  BY <1>1, InList DEF Shape
<1>4. ASSUME NEW o \in ObjIds, NEW b \in Nums, s.blocks[b].obj = o
      PROVE  /\ c.obj[o] = s.obj[o]
             /\ \A i \in 1 .. Len(s.obj[o].chain) :
                  c.range[s.obj[o].chain[i]] = s.range[s.obj[o].chain[i]]
  <2>1. /\ c.obj[o] = s.obj[o]
        /\ \A r \in ToSet(s.obj[o].chain) : r \in RangeIds => c.range[r] = s.range[r]
    BY <1>2, <1>4
  <2> QED BY <1>3, <2>1
<1>5. Owned(c)
  <2> SUFFICES ASSUME NEW b \in Nums
               PROVE  /\ c.blocks[b].kind = "Partial" <=> c.blocks[b].obj \in ObjIds
                      /\ c.blocks[b].obj \in ObjIds =>
                            /\ c.obj[c.blocks[b].obj].num = b
                            /\ c.obj[c.blocks[b].obj].from = InitPos[b]
                            /\ c.obj[c.blocks[b].obj].to = End(b)
    BY DEF Owned
  <2>1. c.blocks[b] = s.blocks[b]
    BY <1>2
  <2>2. /\ s.blocks[b].kind = "Partial" <=> s.blocks[b].obj \in ObjIds
        /\ s.blocks[b].obj \in ObjIds =>
              /\ s.obj[s.blocks[b].obj].num = b
              /\ s.obj[s.blocks[b].obj].from = InitPos[b]
              /\ s.obj[s.blocks[b].obj].to = End(b)
    BY <1>1 DEF Owned
  <2>3. s.blocks[b].obj \in ObjIds => c.obj[s.blocks[b].obj] = s.obj[s.blocks[b].obj]
    BY <1>4
  <2> QED BY <2>1, <2>2, <2>3
<1>6. Linked(c)
  <2> SUFFICES ASSUME NEW o \in ObjIds, NEW i \in 1 .. Len(c.obj[o].chain)
               PROVE  LET r == c.range[c.obj[o].chain[i]] IN
        /\ c.obj[o].num \in Nums /\ c.blocks[c.obj[o].num].obj = o
        /\ r.owner = o
        /\ c.obj[o].from <= r.from /\ r.from < r.to /\ r.to <= c.obj[o].to
        /\ \A j \in 1 .. Len(c.obj[o].chain) : i < j => r.to <= c.range[c.obj[o].chain[j]].from
    BY DEF Linked
  <2> DEFINE a == s.obj[o].chain
  <2>1. c.obj[o] = s.obj[o]
    <3>1. c.obj[o] # NoObj
      BY DEF NoObj
    <3> QED BY <3>1, <1>2
  <2>2. /\ s.obj[o].num \in Nums /\ s.blocks[s.obj[o].num].obj = o
        /\ s.range[a[i]].owner = o
        /\ s.obj[o].from <= s.range[a[i]].from /\ s.range[a[i]].from < s.range[a[i]].to
        /\ s.range[a[i]].to <= s.obj[o].to
        /\ \A j \in 1 .. Len(a) : i < j => s.range[a[i]].to <= s.range[a[j]].from
    BY <1>1, <2>1 DEF Linked
  <2>3. a = c.obj[o].chain /\ i \in 1 .. Len(a) /\ \A j \in 1 .. Len(a) : c.range[a[j]] = s.range[a[j]]
    <3>1. s.obj[o].num \in Nums /\ s.blocks[s.obj[o].num].obj = o
      BY <2>2, Zenon
    <3>2. \A j \in 1 .. Len(a) : c.range[a[j]] = s.range[a[j]]
      BY <3>1, <1>4
    <3> QED BY <2>1, <3>2
  <2>4. /\ c.obj[o].num \in Nums /\ c.blocks[c.obj[o].num].obj = o
        /\ c.obj[o].from = s.obj[o].from /\ c.obj[o].to = s.obj[o].to
    BY <1>2, <2>1, <2>2, Zenon
  <2> HIDE DEF a
  <2> QED BY <2>2, <2>3, <2>4, Zenon
<1>7. OnDisk(c, d)
  <2>1. ASSUME NEW b \in Nums, NEW x, s.blocks[b].obj \in ObjIds
        PROVE  InChain(c, s.blocks[b].obj, x) <=> InChain(s, s.blocks[b].obj, x)
    <3> DEFINE o == s.blocks[b].obj
    <3>1. /\ c.obj[o] = s.obj[o]
          /\ \A i \in 1 .. Len(s.obj[o].chain) :
               c.range[s.obj[o].chain[i]] = s.range[s.obj[o].chain[i]]
      BY <2>1, <1>4
    <3> HIDE DEF o
    <3>2. InChain(c, o, x) <=> InChain(s, o, x)
      BY <3>1 DEF InChain, InRange
    <3> QED BY <3>2 DEF o
  <2>2. \A b \in Nums : \A x : Misses(c, b, x) <=> Misses(s, b, x)
    BY <1>2, <2>1 DEF Misses
  <2> QED BY <1>1, <2>2 DEF OnDisk
<1>8. HeldLive(c, v)
  BY <1>1, <1>2 DEF HeldLive
<1>9. EntriesLive(c, v)
  BY <1>1, <1>2 DEF EntriesLive
<1> QED BY <1>2, <1>5, <1>6, <1>7, <1>8, <1>9 DEF Sound, c

\* Ranges and blocks are counted as before.
LEMMA CollectCounts ==
  ASSUME NEW s, NEW v, NEW d, Sound(s, v, d), UpShape(v)
  PROVE  /\ Counted(s, v) => Counted(Collect(s, v), v)
         /\ Enlisted(s, v) => Enlisted(Collect(s, v), v)
         /\ Short(s, v) => Short(Collect(s, v), v)
<1> DEFINE c == Collect(s, v)
<1>1. Shape(s)
  BY DEF Sound
<1>2. /\ c.nuploading = s.nuploading
      /\ \A r \in RangeIds : c.range[r] \in {s.range[r], NoRange}
      /\ \A u \in Uploaders : \A r \in ToSet(v[u].ranges) : c.range[r] = s.range[r]
      /\ \A u \in Uploaders : \A e \in ToSet(v[u].blocks) : c.obj[e.obj] = s.obj[e.obj]
  BY <1>1, CollectFields
<1> HIDE DEF c
<1>3. ASSUME Counted(s, v) PROVE Counted(c, v)
  <2>1. ASSUME NEW r \in RangeIds PROVE c.range[r].nup = Cardinality(Holders(v, r))
    <3>1. s.range[r].nup = Cardinality(Holders(v, r))
      BY <1>3 DEF Counted
    <3>2. CASE c.range[r] = s.range[r]
      BY <3>1, <3>2
    <3>3. CASE c.range[r] # s.range[r]
      <4>1. Holders(v, r) = {}
        BY <1>2, <3>3 DEF Holders
      <4>2. c.range[r].nup = 0
        BY <1>2, <3>3 DEF NoRange
      <4> QED BY <4>1, <4>2, FS_EmptySet
    <3> QED BY <3>2, <3>3
  <2> QED BY <2>1, <1>3 DEF Counted
<1>4. ASSUME Enlisted(s, v) PROVE Enlisted(c, v)
  <2>1. \A u \in Uploaders : Selected(c, v, u) = Selected(s, v, u)
    BY <1>2 DEF Selected
  <2>2. \A b \in Nums : Selectors(c, v, b) = Selectors(s, v, b)
    BY <2>1 DEF Selectors
  <2>3. ASSUME NEW u \in Uploaders PROVE NumsDiffer(c, v[u].blocks)
    <3>1. \A i \in 1 .. Len(v[u].blocks) : v[u].blocks[i] \in ToSet(v[u].blocks)
      BY UpFacts, SeqFacts
    <3>2. NumsDiffer(s, v[u].blocks)
      BY <1>4 DEF Enlisted
    <3> QED BY <3>1, <3>2, <1>2 DEF NumsDiffer
  <2> QED BY <2>2, <2>3, <1>2, <1>4 DEF Enlisted
<1>5. ASSUME Short(s, v) PROVE Short(c, v)
  BY <1>2, <1>5 DEF Short
<1> QED BY <1>3, <1>4, <1>5 DEF c

-----------------------------------------------------------------------------
(* Releasing ranges and blocks *)

\* Release lowers range_nuploading of the ranges R.
LEMMA ReleaseFields ==
  ASSUME NEW s, NEW R, Shape(s)
  PROVE  LET t == Release(s, R) IN
         /\ Shape(t) /\ SameRanges(s, t) /\ t.nuploading = s.nuploading
         /\ \A r \in RangeIds :
              t.range[r].nup = IF r \in R /\ s.range[r].nup > 0 THEN s.range[r].nup - 1
                               ELSE s.range[r].nup
<1> DEFINE t == Release(s, R)
           free == {r \in R : s.range[r].nup <= 1}
           uns == [o \in ObjIds |-> s.unselected[o] + Size(s, {r \in free : s.range[r].owner = o})]
           range == LessOne(s, R)
<1>1. t = [s EXCEPT !.range = range, !.unselected = uns]
  BY Zenon DEF Release
<1> HIDE DEF uns, range, t
<1>2. /\ DOMAIN t = Fields /\ t.pos = InitPos /\ t.blocks = s.blocks /\ t.obj = s.obj
      /\ t.range = range /\ t.nuploading = s.nuploading
  BY <1>1 DEF Shape, Fields
<1>3. ASSUME NEW r \in RangeIds
      PROVE  /\ range[r] \in RangeSet
             /\ range[r].from = s.range[r].from /\ range[r].to = s.range[r].to
             /\ range[r].owner = s.range[r].owner
             /\ range[r].nup = IF r \in R /\ s.range[r].nup > 0 THEN s.range[r].nup - 1
                               ELSE s.range[r].nup
  <2>1. s.range[r] \in RangeSet
    BY DEF Shape
  <2>2. range[r] = IF r \in R /\ s.range[r].nup > 0 THEN [s.range[r] EXCEPT !.nup = s.range[r].nup - 1]
                   ELSE s.range[r]
    BY DEF range, LessOne
  <2> QED BY <2>1, <2>2 DEF RangeSet
<1>4. range \in [RangeIds -> RangeSet]
  <2>1. range = [r \in RangeIds |-> range[r]]
    BY DEF range, LessOne
  <2> QED BY <2>1, <1>3
<1>5. Shape(t) /\ SameRanges(s, t)
  BY <1>2, <1>3, <1>4 DEF Shape, SameRanges
<1> QED BY <1>2, <1>3, <1>5 DEF t

\* An uploader u that releases the ranges R does not hold them any more.
LEMMA ReleaseCounts ==
  ASSUME NEW s, NEW v, NEW w, NEW u \in Uploaders, NEW R, Shape(s), UpShape(v), UpShape(w),
         Counted(s, v), R \subseteq ToSet(v[u].ranges),
         ToSet(w[u].ranges) = ToSet(v[u].ranges) \ R, IsInjective(w[u].ranges),
         \A x \in Uploaders : x # u => w[x].ranges = v[x].ranges
  PROVE  Counted(Release(s, R), w)
<1> DEFINE t == Release(s, R)
<1>1. \A r \in RangeIds :
         t.range[r].nup = IF r \in R /\ s.range[r].nup > 0 THEN s.range[r].nup - 1
                          ELSE s.range[r].nup
  BY ReleaseFields
<1> HIDE DEF t
<1>2. ASSUME NEW r \in RangeIds PROVE t.range[r].nup = Cardinality(Holders(w, r))
  <2>1. s.range[r].nup = Cardinality(Holders(v, r))
    BY DEF Counted
  <2>2. IsFiniteSet(Holders(v, r))
    BY UploadersAssumption, FS_Subset DEF Holders
  <2>3. CASE r \in R
    <3>1. u \in Holders(v, r) /\ Holders(w, r) = Holders(v, r) \ {u}
      BY <2>3 DEF Holders
    <3>2. Cardinality(Holders(w, r)) = Cardinality(Holders(v, r)) - 1
      BY <3>1, <2>2, FS_RemoveElement
    <3>3. Cardinality(Holders(v, r)) \in Nat /\ Cardinality(Holders(v, r)) # 0
      BY <2>2, <3>1, FS_CardinalityType, FS_EmptySet
    <3> QED BY <3>2, <3>3, <2>1, <2>3, <1>1
  <2>4. CASE r \notin R
    <3>1. Holders(w, r) = Holders(v, r)
      BY <2>4 DEF Holders
    <3> QED BY <3>1, <2>1, <2>4, <1>1
  <2> QED BY <2>3, <2>4
<1>3. \A x \in Uploaders : IsInjective(w[x].ranges)
  BY DEF Counted
<1> QED BY <1>2, <1>3 DEF Counted, t

\* Who has selected a block does not depend on the ranges.
LEMMA SameEnlisted ==
  ASSUME NEW s, NEW t, NEW v, NEW w, Enlisted(s, v), t.obj = s.obj, t.nuploading = s.nuploading,
         \A u \in Uploaders : /\ w[u].blocks = v[u].blocks /\ w[u].complete = v[u].complete
                              /\ w[u].declared = v[u].declared
  PROVE  Enlisted(t, w)
<1>1. \A u \in Uploaders : Selected(t, w, u) = Selected(s, v, u)
  BY DEF Selected
<1>2. \A b \in Nums : Selectors(t, w, b) = Selectors(s, v, b)
  BY <1>1 DEF Selectors
<1>3. \A u \in Uploaders : NumsDiffer(t, w[u].blocks)
  <2> TAKE u \in Uploaders
  <2>1. NumsDiffer(s, v[u].blocks) /\ w[u].blocks = v[u].blocks
    BY Zenon DEF Enlisted
  <2> QED BY <2>1, Zenon DEF NumsDiffer
<1> QED BY <1>2, <1>3 DEF Enlisted

\* Unselect leaves the other uploaders in s_nuploading.
LeftBy(s, v, u, t) == \A b \in Nums : t.nuploading[b] = Cardinality(Selectors(s, v, b) \ {u})
LEMMA UnselectFields ==
  ASSUME NEW s, NEW u \in Uploaders, Shape(s), UpShape(up)
  PROVE  LET t == Unselect(s, u) IN
         /\ Shape(t) /\ t.blocks = s.blocks /\ t.obj = s.obj /\ t.range = s.range
         /\ Enlisted(s, up) => LeftBy(s, up, u, t)
<1> DEFINE t == Unselect(s, u)
           list == up[u].blocks
           at(b) == {i \in DOMAIN up[u].blocks : s.obj[up[u].blocks[i].obj].num = b}
           n(b) == Cardinality(at(b))
           nup == [b \in DOMAIN s.pos |-> Max({0, s.nuploading[b] - n(b)})]
<1>1. t = [s EXCEPT !.nuploading = nup]
  BY Zenon DEF Unselect
<1>2. DOMAIN s = Fields /\ s.pos = InitPos /\ DOMAIN s.pos = Nums /\ s.nuploading \in [Nums -> Nat]
  BY Positions DEF Shape
<1>3. ASSUME NEW b \in Nums PROVE n(b) \in Nat
  <2>1. DOMAIN list = 1 .. Len(list) /\ Len(list) \in Nat
    BY UpFacts
  <2>2. IsFiniteSet(1 .. Len(list))
    BY <2>1, FS_Interval
  <2>3. at(b) \subseteq 1 .. Len(list)
    BY <2>1
  <2> QED BY <2>2, <2>3, FS_Subset, FS_CardinalityType
<1>4. ASSUME NEW b \in Nums
      PROVE  /\ nup[b] = IF n(b) >= s.nuploading[b] THEN 0 ELSE s.nuploading[b] - n(b)
             /\ nup[b] \in Nat
  <2>1. s.nuploading[b] \in Nat /\ n(b) \in Nat
    BY <1>2, <1>3
  <2>2. nup[b] = Max({0, s.nuploading[b] - n(b)})
    BY <1>2
  <2> HIDE DEF n, nup
  <2> DEFINE k == s.nuploading[b] - n(b)
  <2>3. Max({0, k}) = IF 0 <= k THEN k ELSE 0
    <3>1. k \in Int
      BY <2>1
    <3> HIDE DEF k
    <3> QED BY <3>1, MinMax
  <2> QED BY <2>1, <2>2, <2>3
<1>5. nup \in [Nums -> Nat]
  <2>1. nup = [b \in Nums |-> nup[b]]
    BY <1>2
  <2> HIDE DEF nup
  <2> QED BY <2>1, <1>4
<1> HIDE DEF nup, t
<1>6. /\ DOMAIN t = Fields /\ t.pos = InitPos /\ t.blocks = s.blocks /\ t.obj = s.obj
      /\ t.range = s.range /\ t.nuploading = nup
  BY <1>1, <1>2 DEF Fields
<1>7. Shape(t)
  BY <1>5, <1>6 DEF Shape
<1>8. ASSUME Enlisted(s, up), NEW b \in Nums
      PROVE  nup[b] = Cardinality(Selectors(s, up, b) \ {u})
  <2>1. s.nuploading[b] = Cardinality(Selectors(s, up, b)) /\ NumsDiffer(s, list)
    BY <1>8 DEF Enlisted
  <2>2. IsFiniteSet(Selectors(s, up, b))
    BY UploadersAssumption, FS_Subset DEF Selectors
  <2>3. list \in Seq(EntrySet) /\ DOMAIN list = 1 .. Len(list)
    BY UpFacts
  <2>4. u \in Selectors(s, up, b) <=> \E i \in 1 .. Len(list) : s.obj[list[i].obj].num = b
    BY <2>3, SeqFacts DEF Selectors, Selected
  <2>5. CASE u \in Selectors(s, up, b)
    <3>1. PICK i \in 1 .. Len(list) : s.obj[list[i].obj].num = b
      BY <2>4, <2>5
    <3>2. at(b) = {i}
      BY <3>1, <2>1, <2>3 DEF NumsDiffer
    <3>3. n(b) = 1
      BY <3>2, FS_Singleton
    <3>4. Cardinality(Selectors(s, up, b)) \in Nat /\ Cardinality(Selectors(s, up, b)) # 0
      BY <2>2, <2>5, FS_CardinalityType, FS_EmptySet
    <3>5. Cardinality(Selectors(s, up, b) \ {u}) = Cardinality(Selectors(s, up, b)) - 1
      BY <2>2, <2>5, FS_RemoveElement
    <3> HIDE DEF n
    <3> QED BY <3>3, <3>4, <3>5, <2>1, <1>4
  <2>6. CASE u \notin Selectors(s, up, b)
    <3>1. at(b) = {}
      BY <2>3, <2>4, <2>6
    <3>2. n(b) = 0
      BY <3>1, FS_EmptySet
    <3>3. Selectors(s, up, b) \ {u} = Selectors(s, up, b)
      BY <2>6
    <3>4. Cardinality(Selectors(s, up, b)) \in Nat
      BY <2>2, FS_CardinalityType
    <3>5. nup[b] = IF n(b) >= s.nuploading[b] THEN 0 ELSE s.nuploading[b] - n(b)
      BY <1>4
    <3> HIDE DEF n
    <3>6. nup[b] = s.nuploading[b]
      BY <3>2, <3>4, <3>5, <2>1
    <3> QED BY <3>3, <3>6, <2>1
  <2> QED BY <2>5, <2>6
<1>9. Enlisted(s, up) => LeftBy(s, up, u, t)
  BY <1>6, <1>8 DEF LeftBy
<1> QED BY <1>6, <1>7, <1>9 DEF t

-----------------------------------------------------------------------------
(* The steps that do not touch the blocks *)

\* The invariant is about what an action is about to collect.
LEMMA Settled ==
  ASSUME NEW t, NEW w, NEW d, UpShape(w), Sound(t, w, d), Counted(t, w), Enlisted(t, w),
         up' = w, swarmer' = Collect(t, w), disk' = d
  PROVE  IInv' /\ (Short(t, w) => Short(swarmer', up'))
<1>1. Sound(swarmer', w, d) /\ Counted(swarmer', w) /\ Enlisted(swarmer', w)
  BY CollectSound, CollectCounts
<1>2. Short(t, w) => Short(swarmer', w)
  BY CollectCounts
<1> QED BY <1>1, <1>2 DEF IInv

\* u goes on with the ranges of the list.
GoesOn(v, w, u, list) ==
    /\ UpShape(w) /\ w[u].ranges = list
    /\ \A x \in Uploaders : x # u => w[x].ranges = v[x].ranges
    /\ \A x \in Uploaders : /\ w[x].blocks = v[x].blocks /\ w[x].complete = v[x].complete
                            /\ w[x].declared = v[x].declared

LEMMA SetRanges ==
  ASSUME NEW v, UpShape(v), NEW u \in Uploaders, NEW list \in Seq(RangeIds)
  PROVE  GoesOn(v, [v EXCEPT ![u].ranges = list], u, list)
<1> DEFINE w == [v EXCEPT ![u].ranges = list]
<1>1. \A x \in Uploaders : v[x] \in UploaderSet
  BY DEF UpShape
<1>2. /\ w \in [Uploaders -> UploaderSet]
      /\ w[u].ranges = list
      /\ \A x \in Uploaders : x # u => w[x] = v[x]
      /\ \A x \in Uploaders : /\ w[x].blocks = v[x].blocks /\ w[x].complete = v[x].complete
                              /\ w[x].declared = v[x].declared
  BY <1>1 DEF UploaderSet, UpShape
<1> QED BY <1>2 DEF UpShape, GoesOn

\* The lists of the elements of a finite set.
LEMMA Lists ==
  ASSUME NEW S, IsFiniteSet(S), NEW list \in [1 .. Cardinality(S) -> S]
  PROVE  list \in Seq(S) /\ DOMAIN list = 1 .. Len(list)
<1>1. Cardinality(S) \in Nat
  BY FS_CardinalityType
<1> QED BY <1>1

\* Sets of blocks are finite.
LEMMA NumsFinite == \A B : B \subseteq Nums => IsFiniteSet(B)
<1>1. IsFiniteSet(Nums)
  BY Positions, FS_Interval DEF Nums
<1> QED BY <1>1, FS_Subset

\* What an uploader may declare is a list of different blocks.
LEMMA CompleteProps ==
  ASSUME NEW s, s.pos = InitPos, NEW o, NEW list \in CompleteBlocks(s, o)
  PROVE  list \in Seq(Nums) /\ IsInjective(list)
<1> DEFINE S == {b \in DOMAIN s.pos : Within(s, b, o) /\ (o.bitv \/ Downloadable(s, b))}
           before(a, b) == IF o.bitv /\ ChunkOf(s, a) = ChunkOf(s, b) THEN a < b ELSE a > b
<1>1. /\ list \in [1 .. Cardinality(S) -> S]
      /\ \A i, j \in DOMAIN list : i < j => before(list[i], list[j])
  BY DEF CompleteBlocks, Sorted
<1>2. S \subseteq Nums
  BY BlockPlaces
<1> HIDE DEF S
<1>3. list \in Seq(S) /\ DOMAIN list = 1 .. Len(list)
  BY <1>1, <1>2, NumsFinite, Lists
<1>4. list \in Seq(Nums)
  BY <1>2, <1>3
<1>5. \A a \in Nums : ~ before(a, a)
  BY DEF Nums
<1>6. \A i \in 1 .. Len(list) : list[i] \in Nums
  BY <1>4
<1> HIDE DEF before
<1>7. \A i, j \in 1 .. Len(list) : list[i] = list[j] => i = j
  <2> TAKE i, j \in 1 .. Len(list)
  <2> HAVE list[i] = list[j]
  <2>1. i < j \/ j < i \/ i = j
    OBVIOUS
  <2> QED BY <2>1, <1>1, <1>3, <1>5, <1>6
<1> QED BY <1>4, <1>7, SeqFacts

\* The parts of blocks that an uploader may declare.
LEMMA PartialProps ==
  ASSUME NEW s, s.pos = InitPos, NEW o \in [bitv : BOOLEAN, from : Nat, to : Nat],
         NEW list \in PartialBlocks(s, o)
  PROVE  list \in Seq(PartSet)
<1> DEFINE B == {b \in DOMAIN s.pos :
                   ~ o.bitv /\ Downloadable(s, b) /\ Meets(s, b, o) /\ ~ Within(s, b, o)}
           entry(b) == [num |-> b, from |-> Max({s.pos[b], o.from}),
                        to |-> Min({BlockEnd(s, b), o.to})]
           S == {entry(b) : b \in B}
<1>1. list \in [1 .. Cardinality(S) -> S]
  BY DEF PartialBlocks, Sorted
<1>2. B \subseteq Nums
  BY BlockPlaces
<1> HIDE DEF B
<1>3. IsFiniteSet(S)
  <2> DEFINE f == [b \in B |-> entry(b)]
  <2>1. f \in Surjection(B, S)
    BY DEF Surjection
  <2> HIDE DEF f, entry, S
  <2> QED BY <2>1, <1>2, NumsFinite, FS_Surjection
<1>4. ASSUME NEW b \in B PROVE entry(b) \in PartSet
  <2>1. /\ s.pos[b] \in Nat /\ BlockEnd(s, b) \in Nat /\ o.from \in Nat /\ o.to \in Nat
        /\ b \in Nums
    BY <1>2, Positions, BlockPlaces
  <2>2. Max({s.pos[b], o.from}) \in Nat
    <3> DEFINE x == s.pos[b]
               y == o.from
    <3>1. x \in Nat /\ y \in Nat
      BY <2>1
    <3> HIDE DEF x, y
    <3>2. x \in Int /\ y \in Int
      BY <3>1
    <3>3. Max({x, y}) = IF x <= y THEN y ELSE x
      BY <3>2, MinMax
    <3>4. Max({x, y}) \in Nat
      BY <3>1, <3>3
    <3> QED BY <3>4 DEF x, y
  <2>3. Min({BlockEnd(s, b), o.to}) \in Nat
    <3> DEFINE x == BlockEnd(s, b)
               y == o.to
    <3>1. x \in Nat /\ y \in Nat
      BY <2>1
    <3> HIDE DEF x, y
    <3>2. x \in Int /\ y \in Int
      BY <3>1
    <3>3. Min({x, y}) = IF x <= y THEN x ELSE y
      BY <3>2, MinMax
    <3>4. Min({x, y}) \in Nat
      BY <3>1, <3>3
    <3> QED BY <3>4 DEF x, y
  <2> QED BY <2>1, <2>2, <2>3 DEF PartSet
<1>5. S \subseteq PartSet
  BY <1>4
<1> HIDE DEF S
<1>6. list \in Seq(S)
  BY <1>1, <1>3, Lists
<1> QED BY <1>5, <1>6

\* A peer declares what it has.
LEMMA DeclareStep ==
  ASSUME IInv, NEW u \in Uploaders, NEW o \in Offers[u], Declare(u, o)
  PROVE  IInv' /\ (Short(swarmer, up) => Short(swarmer', up'))
<1>1. /\ UpShape(up) /\ Sound(swarmer, up, disk) /\ Counted(swarmer, up) /\ Enlisted(swarmer, up)
  BY DEF IInv
<1>2. PICK complete \in CompleteBlocks(swarmer, o), partial \in PartialBlocks(swarmer, o) :
        up' = [up EXCEPT ![u] = [@ EXCEPT !.declared = TRUE, !.blocks = <<>>,
                                          !.complete = complete, !.partial = partial]]
  BY Zenon DEF Declare
<1>3. ~ up[u].declared /\ swarmer' = swarmer /\ disk' = disk
  BY DEF Declare
<1>4. swarmer.pos = InitPos
  BY <1>1 DEF Sound, Shape
<1>5. complete \in Seq(Nums) /\ IsInjective(complete) /\ partial \in Seq(PartSet)
  BY <1>4, CompleteProps, PartialProps, OffersAssumption
<1>6. \A x \in Uploaders : up[x] \in UploaderSet
  BY <1>1 DEF UpShape
<1>7. /\ UpShape(up')
      /\ up'[u].blocks = <<>> /\ up'[u].complete = complete /\ up'[u].declared
      /\ \A x \in Uploaders : up'[x].ranges = up[x].ranges /\ (x # u => up'[x] = up[x])
  <2>1. <<>> \in Seq(EntrySet)
    OBVIOUS
  <2> QED BY <1>1, <1>2, <1>5, <1>6, <2>1 DEF UpShape, UploaderSet
<1>8. up[u].blocks = <<>>
  BY <1>1, <1>3 DEF Enlisted
<1>9. \A x \in Uploaders : up'[x].blocks = up[x].blocks
  BY <1>7, <1>8
<1>10. Sound(swarmer, up', disk)
  BY <1>1, <1>7, <1>9, FewerSound
<1>11. Counted(swarmer, up')
  BY <1>1, <1>7 DEF Counted, Holders
<1>12. Enlisted(swarmer, up')
  <2>1. \A x \in Uploaders : Selected(swarmer, up', x) = Selected(swarmer, up, x)
    BY <1>9 DEF Selected
  <2>2. \A b \in Nums : Selectors(swarmer, up', b) = Selectors(swarmer, up, b)
    BY <2>1 DEF Selectors
  <2>3. \A x \in Uploaders : IsInjective(up'[x].complete)
    BY <1>1, <1>5, <1>7 DEF Enlisted
  <2>4. \A x \in Uploaders : ~ up'[x].declared => up'[x].blocks = <<>>
    BY <1>1, <1>7 DEF Enlisted
  <2> QED BY <1>1, <1>9, <2>2, <2>3, <2>4 DEF Enlisted
<1>13. Short(swarmer, up) => Short(swarmer, up')
  BY <1>7 DEF Short
<1>14. IInv'
  BY <1>3, <1>7, <1>10, <1>11, <1>12 DEF IInv
<1> QED BY <1>3, <1>13, <1>14

\* u is as a new uploader, but for its ranges.
Idle(v, w, u) ==
    /\ w[u].blocks = <<>> /\ w[u].complete = <<>> /\ ~ w[u].declared
    /\ \A x \in Uploaders : x # u => w[x] = v[x]

LEMMA SetIdle ==
  ASSUME NEW v, UpShape(v), NEW u \in Uploaders, NEW list \in Seq(RangeIds)
  PROVE  LET w == [v EXCEPT ![u] = [NoUploader EXCEPT !.ranges = list]] IN
         UpShape(w) /\ Idle(v, w, u) /\ w[u].ranges = list
<1> DEFINE idle == [NoUploader EXCEPT !.ranges = list]
           w == [v EXCEPT ![u] = idle]
<1>1. <<>> \in Seq(Nums) /\ <<>> \in Seq(PartSet) /\ <<>> \in Seq(EntrySet)
  OBVIOUS
<1>2. /\ idle \in UploaderSet
      /\ idle.ranges = list /\ idle.blocks = <<>> /\ idle.complete = <<>> /\ ~ idle.declared
  BY <1>1 DEF NoUploader, UploaderSet
<1> HIDE DEF idle
<1>3. /\ UpShape(w) /\ w[u] = idle
      /\ \A x \in Uploaders : x # u => w[x] = v[x]
  BY <1>2 DEF UpShape
<1> QED BY <1>2, <1>3 DEF idle, Idle

\* An uploader that has selected no block is not counted.
LEMMA IdleEnlisted ==
  ASSUME NEW s, NEW t, NEW v, NEW w, NEW u \in Uploaders, Enlisted(s, v), t.obj = s.obj,
         LeftBy(s, v, u, t), Idle(v, w, u)
  PROVE  Enlisted(t, w)
<1>1. Selected(t, w, u) = {}
  BY EmptyFacts DEF Selected, Idle
<1>2. \A x \in Uploaders : x # u => Selected(t, w, x) = Selected(s, v, x)
  BY DEF Selected, Idle
<1>3. \A b \in Nums : Selectors(t, w, b) = Selectors(s, v, b) \ {u}
  BY <1>1, <1>2 DEF Selectors
<1>4. ASSUME NEW x \in Uploaders
      PROVE  /\ NumsDiffer(t, w[x].blocks) /\ IsInjective(w[x].complete)
             /\ ~ w[x].declared => w[x].blocks = <<>>
  <2>1. CASE x = u
    <3>1. Len(<<>>) = 0
      OBVIOUS
    <3> QED BY <2>1, <3>1, EmptyFacts DEF NumsDiffer, Idle
  <2>2. CASE x # u
    <3>1. w[x] = v[x]
      BY <2>2 DEF Idle
    <3>2. /\ NumsDiffer(s, v[x].blocks) /\ IsInjective(v[x].complete)
          /\ ~ v[x].declared => v[x].blocks = <<>>
      BY DEF Enlisted
    <3>3. NumsDiffer(t, v[x].blocks)
      BY <3>2 DEF NumsDiffer
    <3> QED BY <3>1, <3>2, <3>3
  <2> QED BY <2>1, <2>2
<1>5. \A b \in Nums : t.nuploading[b] = Cardinality(Selectors(t, w, b))
  BY <1>3 DEF LeftBy
<1> QED BY <1>4, <1>5 DEF Enlisted

\* An uploader that has selected no block may be counted in no block.
LEMMA IdleSelectors ==
  ASSUME NEW s, NEW v, NEW u \in Uploaders, Enlisted(s, v), v[u].blocks = <<>>
  PROVE  LeftBy(s, v, u, s)
<1>1. Selected(s, v, u) = {}
  BY EmptyFacts DEF Selected
<1>2. \A b \in Nums : Selectors(s, v, b) = Selectors(s, v, b) \ {u}
  BY <1>1 DEF Selectors
<1> QED BY <1>2 DEF Enlisted, LeftBy

\* A peer chokes us, or declares other blocks.
LEMMA ClearUploaderIntervalsStep ==
  ASSUME IInv, NEW u \in Uploaders, ClearUploaderIntervals(u)
  PROVE  IInv' /\ (Short(swarmer, up) => Short(swarmer', up'))
<1> DEFINE w == [up EXCEPT ![u] = [NoUploader EXCEPT !.ranges = up[u].ranges]]
           t == Unselect(swarmer, u)
<1>1. /\ UpShape(up) /\ Sound(swarmer, up, disk) /\ Counted(swarmer, up) /\ Enlisted(swarmer, up)
  BY DEF IInv
<1>2. up' = w /\ swarmer' = Collect(t, w) /\ disk' = disk
  BY DEF ClearUploaderIntervals
<1>3. Shape(swarmer)
  BY <1>1 DEF Sound
<1>4. /\ Shape(t) /\ t.blocks = swarmer.blocks /\ t.obj = swarmer.obj /\ t.range = swarmer.range
      /\ LeftBy(swarmer, up, u, t)
  BY <1>1, <1>3, UnselectFields
<1>5. UpShape(w) /\ Idle(up, w, u) /\ w[u].ranges = up[u].ranges
  <2>1. up[u].ranges \in Seq(RangeIds)
    BY <1>1, UpFacts
  <2> QED BY <1>1, <2>1, SetIdle
<1> HIDE DEF t, w
<1>6. \A x \in Uploaders : w[x].ranges = up[x].ranges
  BY <1>5 DEF Idle
<1>7. Sound(t, w, disk)
  <2>1. Sound(t, up, disk)
    BY <1>1, <1>4, SameSound DEF SameRanges
  <2>2. \A x \in Uploaders : /\ ToSet(w[x].ranges) \subseteq ToSet(up[x].ranges)
                             /\ ToSet(w[x].blocks) \subseteq ToSet(up[x].blocks)
    BY <1>5, EmptyFacts DEF Idle
  <2> QED BY <2>1, <2>2, FewerSound
<1>8. Counted(t, w)
  BY <1>1, <1>4, <1>6 DEF Counted, Holders
<1>9. Enlisted(t, w)
  BY <1>1, <1>4, <1>5, IdleEnlisted
<1>10. Short(swarmer, up) => Short(t, w)
  BY <1>4, <1>6 DEF Short
<1> QED BY <1>2, <1>5, <1>7, <1>8, <1>9, <1>10, Settled

\* Less is held of a swarmer with the same ranges.
LEMMA SameShort ==
  ASSUME NEW s, NEW t, NEW v, NEW w, Short(s, v), UpShape(v), SameRanges(s, t),
         \A u \in Uploaders : ToSet(w[u].ranges) \subseteq ToSet(v[u].ranges)
  PROVE  Short(t, w)
<1>1. \A u \in Uploaders : \A r \in ToSet(w[u].ranges) : r \in ToSet(v[u].ranges) /\ r \in RangeIds
  BY UpFacts
<1> QED BY <1>1 DEF Short, SameRanges

\* A peer closes our slot.
LEMMA ClearUploaderRangesStep ==
  ASSUME IInv, NEW u \in Uploaders, ClearUploaderRanges(u)
  PROVE  IInv' /\ (Short(swarmer, up) => Short(swarmer', up'))
<1> DEFINE w == [up EXCEPT ![u].ranges = <<>>]
           R == ToSet(up[u].ranges)
           t == Release(swarmer, R)
<1>1. /\ UpShape(up) /\ Sound(swarmer, up, disk) /\ Counted(swarmer, up) /\ Enlisted(swarmer, up)
  BY DEF IInv
<1>2. up' = w /\ swarmer' = Collect(t, w) /\ disk' = disk
  BY DEF ClearUploaderRanges, Held
<1>3. Shape(swarmer)
  BY <1>1 DEF Sound
<1>4. Shape(t) /\ SameRanges(swarmer, t) /\ t.nuploading = swarmer.nuploading
  BY <1>3, ReleaseFields
<1>5. GoesOn(up, w, u, <<>>)
  <2>1. <<>> \in Seq(RangeIds)
    OBVIOUS
  <2> QED BY <1>1, <2>1, SetRanges
<1>6. Counted(t, w)
  <2> HIDE DEF w
  <2>1. ToSet(w[u].ranges) = ToSet(up[u].ranges) \ R /\ IsInjective(w[u].ranges)
    BY <1>5, EmptyFacts DEF GoesOn
  <2> QED BY <1>1, <1>3, <1>5, <2>1, ReleaseCounts DEF GoesOn
<1> HIDE DEF t, w
<1>7. \A x \in Uploaders : /\ ToSet(w[x].ranges) \subseteq ToSet(up[x].ranges)
                           /\ ToSet(w[x].blocks) \subseteq ToSet(up[x].blocks)
  BY <1>5, EmptyFacts DEF GoesOn
<1>8. Sound(t, w, disk)
  BY <1>1, <1>4, <1>7, SameSound, FewerSound
<1>9. Enlisted(t, w)
  BY <1>1, <1>4, <1>5, SameEnlisted DEF SameRanges, GoesOn
<1>10. Short(swarmer, up) => Short(t, w)
  BY <1>1, <1>4, <1>7, SameShort
<1> QED BY <1>2, <1>5, <1>6, <1>8, <1>9, <1>10, Settled DEF GoesOn

\* The peer disconnects.
LEMMA UnregisterUploaderStep ==
  ASSUME IInv, NEW u \in Uploaders, UnregisterUploader(u)
  PROVE  IInv' /\ (Short(swarmer, up) => Short(swarmer', up'))
<1> DEFINE w == [up EXCEPT ![u] = NoUploader]
           s == IF up[u].declared THEN Unselect(swarmer, u) ELSE swarmer
           R == ToSet(up[u].ranges)
           t == Release(s, R)
<1>1. /\ UpShape(up) /\ Sound(swarmer, up, disk) /\ Counted(swarmer, up) /\ Enlisted(swarmer, up)
  BY DEF IInv
<1>2. up' = w /\ swarmer' = Collect(t, w) /\ disk' = disk
  BY DEF UnregisterUploader, Held
<1>3. Shape(swarmer)
  BY <1>1 DEF Sound
<1>4. /\ Shape(s) /\ s.blocks = swarmer.blocks /\ s.obj = swarmer.obj /\ s.range = swarmer.range
      /\ LeftBy(swarmer, up, u, s)
  <2>1. CASE up[u].declared
    BY <1>1, <1>3, <2>1, UnselectFields
  <2>2. CASE ~ up[u].declared
    <3>1. up[u].blocks = <<>>
      BY <1>1, <2>2 DEF Enlisted
    <3> QED BY <1>1, <1>3, <2>2, <3>1, IdleSelectors
  <2>3. up[u].declared \in BOOLEAN
    BY <1>1, UpFacts
  <2> QED BY <2>1, <2>2, <2>3
<1>5. UpShape(w) /\ Idle(up, w, u) /\ w[u].ranges = <<>>
  <2> DEFINE idle == [NoUploader EXCEPT !.ranges = <<>>]
             x == [up EXCEPT ![u] = idle]
  <2>1. <<>> \in Seq(RangeIds)
    OBVIOUS
  <2>2. NoUploader = idle
    BY DEF NoUploader
  <2>3. w = x
    BY <2>2, Zenon
  <2> HIDE DEF w
  <2>4. UpShape(x) /\ Idle(up, x, u) /\ x[u].ranges = <<>>
    BY <1>1, <2>1, SetIdle
  <2> HIDE DEF x
  <2> QED BY <2>3, <2>4
<1> HIDE DEF s
<1>6. Shape(t) /\ SameRanges(s, t) /\ t.nuploading = s.nuploading
  BY <1>4, ReleaseFields
<1>7. Counted(s, up)
  BY <1>1, <1>4 DEF Counted
<1>8. Counted(t, w)
  <2> HIDE DEF w
  <2>1. ToSet(w[u].ranges) = ToSet(up[u].ranges) \ R /\ IsInjective(w[u].ranges)
    BY <1>5, EmptyFacts
  <2>2. \A x \in Uploaders : x # u => w[x].ranges = up[x].ranges
    BY <1>5 DEF Idle
  <2> QED BY <1>1, <1>4, <1>5, <1>7, <2>1, <2>2, ReleaseCounts
<1> HIDE DEF t, w
<1>9. \A x \in Uploaders : /\ ToSet(w[x].ranges) \subseteq ToSet(up[x].ranges)
                           /\ ToSet(w[x].blocks) \subseteq ToSet(up[x].blocks)
  BY <1>5, EmptyFacts DEF Idle
<1>10. SameRanges(swarmer, t)
  BY <1>4, <1>6 DEF SameRanges
<1>11. Sound(t, w, disk)
  BY <1>1, <1>6, <1>9, <1>10, SameSound, FewerSound
<1>12. Enlisted(t, w)
  <2>1. t.obj = swarmer.obj
    BY <1>10 DEF SameRanges
  <2>2. LeftBy(swarmer, up, u, t)
    BY <1>4, <1>6 DEF LeftBy
  <2> QED BY <1>1, <1>5, <2>1, <2>2, IdleEnlisted
<1>13. Short(swarmer, up) => Short(t, w)
  BY <1>1, <1>9, <1>10, SameShort
<1> QED BY <1>2, <1>5, <1>8, <1>11, <1>12, <1>13, Settled

\* The ranges of u that are over are released.
DropsOver(s, t, v, w, u, d) ==
    /\ Sound(t, w, d) /\ Counted(t, w) /\ (Enlisted(s, v) => Enlisted(t, w))
    /\ (Short(s, v) => Short(t, w))

LEMMA DropOver ==
  ASSUME NEW s, NEW x, NEW v, NEW d, NEW u \in Uploaders, UpShape(v), Sound(s, v, d), Counted(s, v),
         SameRanges(s, x)
  PROVE  LET t == Release(s, Over(s, ToSet(v[u].ranges)))
             list == Opened(x, v[u].ranges)
             w == [v EXCEPT ![u].ranges = list]
         IN  /\ list \in Seq(RangeIds)
             /\ ToSet(list) = ToSet(v[u].ranges) \ Over(s, ToSet(v[u].ranges))
             /\ IsInjective(list)
             /\ GoesOn(v, w, u, list) /\ DropsOver(s, t, v, w, u, d)
<1> DEFINE held == ToSet(v[u].ranges)
           R == Over(s, held)
           t == Release(s, R)
           list == Opened(x, v[u].ranges)
           w == [v EXCEPT ![u].ranges = list]
<1>1. /\ v[u].ranges \in Seq(RangeIds) /\ held \subseteq RangeIds /\ IsInjective(v[u].ranges)
  BY UpFacts DEF Counted
<1>2. Over(x, held) = R /\ R \subseteq held
  BY <1>1 DEF Over, SameRanges
<1>3. list = Without(v[u].ranges, R)
  BY <1>2 DEF Opened
<1> HIDE DEF list
<1>4. list \in Seq(RangeIds) /\ ToSet(list) = held \ R /\ IsInjective(list)
  BY <1>1, <1>3, WithoutProps
<1>5. GoesOn(v, w, u, list)
  BY <1>4, SetRanges
<1>6. Shape(s)
  BY DEF Sound
<1>7. Shape(t) /\ SameRanges(s, t) /\ t.nuploading = s.nuploading
  BY <1>6, ReleaseFields
<1> HIDE DEF w
<1>8. Counted(t, w)
  <2>1. UpShape(w) /\ ToSet(w[u].ranges) = ToSet(v[u].ranges) \ R /\ IsInjective(w[u].ranges)
    BY <1>4, <1>5 DEF GoesOn
  <2>2. \A y \in Uploaders : y # u => w[y].ranges = v[y].ranges
    BY <1>5 DEF GoesOn
  <2> HIDE DEF R
  <2> QED BY <1>2, <1>6, <2>1, <2>2, ReleaseCounts
<1> HIDE DEF t, R
<1>9. \A y \in Uploaders : /\ ToSet(w[y].ranges) \subseteq ToSet(v[y].ranges)
                           /\ ToSet(w[y].blocks) \subseteq ToSet(v[y].blocks)
  BY <1>4, <1>5 DEF GoesOn
<1>10. Sound(t, w, d)
  BY <1>7, <1>9, SameSound, FewerSound
<1>11. Enlisted(s, v) => Enlisted(t, w)
  BY <1>5, <1>7, SameEnlisted DEF SameRanges, GoesOn
<1>12. Short(s, v) => Short(t, w)
  BY <1>7, <1>9, SameShort
<1>13. DropsOver(s, t, v, w, u, d)
  BY <1>8, <1>10, <1>11, <1>12 DEF DropsOver
<1> QED BY <1>4, <1>5, <1>13 DEF t, R, list, w

\* find_range finds nothing.
LEMMA FindNoRangeStep ==
  ASSUME IInv, NEW u \in Uploaders, FindNoRange(u)
  PROVE  IInv' /\ (Short(swarmer, up) => Short(swarmer', up'))
<1> DEFINE t == Cleaned(swarmer, u)
           R == Over(swarmer, ToSet(up[u].ranges))
           list == Opened(t, up[u].ranges)
           w == [up EXCEPT ![u].ranges = list]
<1>1. /\ UpShape(up) /\ Sound(swarmer, up, disk) /\ Counted(swarmer, up) /\ Enlisted(swarmer, up)
  BY DEF IInv
<1>2. up' = w /\ swarmer' = Collect(t, w) /\ disk' = disk
  BY DEF FindNoRange
<1>3. t = Release(swarmer, R)
  BY DEF Cleaned, Held
<1>4. SameRanges(swarmer, t)
  <2>1. Shape(swarmer)
    BY <1>1 DEF Sound
  <2> HIDE DEF R
  <2> QED BY <1>3, <2>1, ReleaseFields
<1> HIDE DEF t
<1>5. GoesOn(up, w, u, list) /\ DropsOver(swarmer, t, up, w, u, disk)
  BY <1>1, <1>3, <1>4, DropOver
<1> HIDE DEF w
<1> QED BY <1>1, <1>2, <1>5, Settled DEF GoesOn, DropsOver

-----------------------------------------------------------------------------
(* Chunks *)

\* verify_chunk throws away a chunk, or keeps it.
LEMMA VerifyChunkStep ==
  ASSUME IInv, NEW c \in PrimaryChunks, NEW ok \in BOOLEAN, VerifyChunk(c, ok)
  PROVE  IInv' /\ (Short(swarmer, up) => Short(swarmer', up'))
<1> DEFINE s == swarmer
           C == PrimaryChunk(s, c)
           blocks == [b \in DOMAIN s.blocks |->
                        IF b \in C THEN Block(IF ok THEN "Verified" ELSE "Empty", 0) ELSE s.blocks[b]]
           t == [s EXCEPT !.blocks = blocks]
           d == IF ok THEN disk ELSE disk \ UNION {BytesOf(s, b) : b \in C}
<1>1. /\ UpShape(up) /\ Sound(s, up, disk) /\ Counted(s, up) /\ Enlisted(s, up)
  BY DEF IInv
<1>2. /\ \A b \in C : s.blocks[b].kind = "Complete"
      /\ swarmer' = t /\ disk' = d /\ up' = up
  BY DEF VerifyChunk
<1>3. /\ Shape(s) /\ Owned(s) /\ Linked(s) /\ OnDisk(s, disk) /\ HeldLive(s, up)
      /\ EntriesLive(s, up)
  BY <1>1 DEF Sound
<1>4. s.pos = InitPos /\ DOMAIN s.blocks = Nums /\ 0 \notin ObjIds
  BY <1>3, IdsAssumption DEF Shape
<1>5. C \subseteq Nums
  BY <1>4, BlockPlaces DEF PrimaryChunk
<1>6. \A b \in Nums : /\ b \in C => blocks[b] = Block(IF ok THEN "Verified" ELSE "Empty", 0)
                      /\ b \notin C => blocks[b] = s.blocks[b]
  BY <1>4
<1>7. blocks \in [Nums -> BlockSet]
  <2>1. blocks = [b \in Nums |-> blocks[b]]
    BY <1>4
  <2>2. \A b \in Nums : blocks[b] \in BlockSet
    BY <1>3, <1>6 DEF Shape, BlockSet, Block, Kinds
  <2> HIDE DEF blocks
  <2> QED BY <2>1, <2>2
<1> HIDE DEF blocks, C
<1>8. /\ Shape(t) /\ t.blocks = blocks /\ t.obj = s.obj /\ t.range = s.range
      /\ t.nuploading = s.nuploading
  BY <1>3, <1>7 DEF Shape, Fields
<1> HIDE DEF t, d
<1>9. \A b \in Nums : /\ b \in C => s.blocks[b].obj \notin ObjIds /\ blocks[b].obj \notin ObjIds
                                    /\ blocks[b].kind # "Partial"
                      /\ b \notin C => t.blocks[b] = s.blocks[b]
  BY <1>2, <1>3, <1>4, <1>6, <1>8 DEF Owned, Block
<1>10. Owned(t)
  BY <1>3, <1>8, <1>9 DEF Owned
<1>11. Linked(t)
  <2>1. ASSUME NEW o \in ObjIds, NEW b \in Nums, s.blocks[b].obj = o PROVE t.blocks[b].obj = o
    BY <1>9, <2>1
  <2> QED BY <1>3, <1>8, <2>1 DEF Linked
<1>12. OnDisk(t, d)
  <2> SUFFICES ASSUME NEW b \in Nums, NEW x \in InitPos[b] .. End(b) - 1
               PROVE  x \in d <=> ~ Misses(t, b, x)
    BY DEF OnDisk
  <2>1. x \in disk <=> ~ Misses(s, b, x)
    BY <1>3 DEF OnDisk
  <2>2. \A o : InChain(t, o, x) <=> InChain(s, o, x)
    BY <1>8 DEF InChain, InRange
  <2>3. CASE b \in C
    <3>1. x \in disk
      BY <1>2, <1>9, <2>1, <2>3 DEF Misses
    <3>2. t.blocks[b].kind = (IF ok THEN "Verified" ELSE "Empty") /\ t.blocks[b].obj \notin ObjIds
      BY <1>6, <1>8, <1>9, <2>3 DEF Block
    <3>3. CASE ok
      BY <3>1, <3>2, <3>3 DEF Misses, d
    <3>4. CASE ~ ok
      <4>1. x \notin d
        BY <1>4, <2>3, <3>4, BlockPlaces DEF d
      <4> QED BY <3>2, <3>4, <4>1 DEF Misses
    <3> QED BY <3>3, <3>4
  <2>4. CASE b \notin C
    <3>1. x \in d <=> x \in disk
      <4>1. ASSUME NEW e \in C, x \in BytesOf(s, e) PROVE FALSE
        <5>1. e \in Nums /\ x \in InitPos[e] .. End(e) - 1
          BY <1>4, <1>5, <4>1, BlockPlaces
        <5>2. e = b
          BY <5>1, OneBlock
        <5> QED BY <5>2, <2>4
      <4> QED BY <4>1 DEF d
    <3>2. Misses(t, b, x) <=> Misses(s, b, x)
      BY <1>9, <2>2, <2>4 DEF Misses
    <3> QED BY <2>1, <3>1, <3>2
  <2> QED BY <2>3, <2>4
<1>13. HeldLive(t, up) /\ EntriesLive(t, up)
  BY <1>3, <1>8 DEF HeldLive, EntriesLive
<1>14. Sound(t, up, d)
  BY <1>8, <1>10, <1>11, <1>12, <1>13 DEF Sound
<1>15. Counted(t, up)
  BY <1>1, <1>8 DEF Counted
<1>16. Enlisted(t, up)
  BY <1>1, <1>8, SameEnlisted
<1>17. Short(s, up) => Short(t, up)
  BY <1>8 DEF Short
<1> QED BY <1>1, <1>2, <1>14, <1>15, <1>16, <1>17 DEF IInv

\* Who has selected a block depends on the numbers of the objects only.
LEMMA SameNums ==
  ASSUME NEW s, NEW t, NEW v, Enlisted(s, v), UpShape(v), t.nuploading = s.nuploading,
         \A o \in ObjIds : t.obj[o].num = s.obj[o].num
  PROVE  Enlisted(t, v)
<1>1. \A u \in Uploaders : \A e \in ToSet(v[u].blocks) : e.obj \in ObjIds
  <2>1. \A e \in EntrySet : e.obj \in ObjIds
    BY DEF EntrySet
  <2> QED BY <2>1, UpFacts
<1>2. \A u \in Uploaders : Selected(t, v, u) = Selected(s, v, u)
  BY <1>1 DEF Selected
<1>3. \A b \in Nums : Selectors(t, v, b) = Selectors(s, v, b)
  BY <1>2 DEF Selectors
<1>4. ASSUME NEW u \in Uploaders PROVE NumsDiffer(t, v[u].blocks)
  <2>1. \A i \in 1 .. Len(v[u].blocks) : v[u].blocks[i].obj \in ObjIds
    BY <1>1, UpFacts, SeqFacts
  <2>2. NumsDiffer(s, v[u].blocks)
    BY DEF Enlisted
  <2> QED BY <2>1, <2>2 DEF NumsDiffer
<1> QED BY <1>3, <1>4 DEF Enlisted

\* What Completed changes.
LEMMA CompletedFields ==
  ASSUME NEW s, NEW B, Shape(s), Owned(s), B \subseteq Nums, \A b \in B : Downloadable(s, b)
  PROVE  LET t == Completed(s, B)
             objs == {s.blocks[b].obj : b \in B} \ {0}
             closed == UNION {ToSet(s.obj[o].chain) : o \in objs}
         IN  /\ Shape(t) /\ t.nuploading = s.nuploading
             /\ \A b \in Nums : t.blocks[b] = IF b \in B THEN Block("Complete", 0) ELSE s.blocks[b]
             /\ \A o \in ObjIds :
                  /\ t.obj[o].num = s.obj[o].num
                  /\ t.obj[o].from = s.obj[o].from /\ t.obj[o].to = s.obj[o].to
                  /\ t.obj[o].chain = IF o \in objs THEN <<>> ELSE s.obj[o].chain
             /\ \A r \in RangeIds :
                  /\ t.range[r].from = IF r \in closed THEN s.range[r].to ELSE s.range[r].from
                  /\ t.range[r].to = s.range[r].to /\ t.range[r].nup = s.range[r].nup
                  /\ t.range[r].owner = s.range[r].owner
<1> DEFINE objs == {s.blocks[b].obj : b \in B} \ {0}
           closed == UNION {ToSet(s.obj[o].chain) : o \in objs}
           t == Completed(s, B)
           blocks == [b \in DOMAIN s.pos |-> IF b \in B /\ Downloadable(s, b) THEN Block("Complete", 0)
                                             ELSE s.blocks[b]]
           range == [r \in RangeIds |-> IF r \in closed
                                        THEN [s.range[r] EXCEPT !.from = s.range[r].to]
                                        ELSE s.range[r]]
           obj == [o \in ObjIds |-> IF o \in objs THEN [s.obj[o] EXCEPT !.chain = <<>>]
                                    ELSE s.obj[o]]
           rem == [o \in ObjIds |-> IF o \in objs THEN 0 ELSE s.remaining[o]]
           uns == [o \in ObjIds |-> IF o \in objs THEN 0 ELSE s.unselected[o]]
<1>1. t = [s EXCEPT !.blocks = blocks, !.range = range, !.obj = obj, !.remaining = rem,
                    !.unselected = uns]
  BY Zenon DEF Completed
<1>2. DOMAIN s.pos = Nums
  BY Positions DEF Shape
<1> HIDE DEF objs, closed
<1>3. ASSUME NEW b \in Nums
      PROVE  /\ blocks[b] = IF b \in B THEN Block("Complete", 0) ELSE s.blocks[b]
             /\ blocks[b] \in BlockSet
  BY <1>2 DEF Shape, Block, BlockSet, Kinds
<1>4. ASSUME NEW o \in ObjIds
      PROVE  /\ obj[o] \in ObjSet
             /\ obj[o].num = s.obj[o].num
             /\ obj[o].from = s.obj[o].from /\ obj[o].to = s.obj[o].to
             /\ obj[o].chain = IF o \in objs THEN <<>> ELSE s.obj[o].chain
  <2>1. s.obj[o] \in ObjSet /\ <<>> \in Seq(RangeIds)
    BY DEF Shape
  <2> QED BY <2>1 DEF ObjSet
<1>5. ASSUME NEW r \in RangeIds
      PROVE  /\ range[r] \in RangeSet
             /\ range[r].from = IF r \in closed THEN s.range[r].to ELSE s.range[r].from
             /\ range[r].to = s.range[r].to /\ range[r].nup = s.range[r].nup
             /\ range[r].owner = s.range[r].owner
  <2>1. s.range[r] \in RangeSet
    BY DEF Shape
  <2> QED BY <2>1 DEF RangeSet
<1>6. blocks \in [Nums -> BlockSet]
  <2>1. blocks = [b \in Nums |-> blocks[b]]
    BY <1>2
  <2> HIDE DEF blocks
  <2> QED BY <2>1, <1>3
<1>7. obj \in [ObjIds -> ObjSet] /\ range \in [RangeIds -> RangeSet]
  <2>1. obj = [o \in ObjIds |-> obj[o]] /\ range = [r \in RangeIds |-> range[r]]
    OBVIOUS
  <2> HIDE DEF obj, range
  <2> QED BY <2>1, <1>4, <1>5
<1> HIDE DEF blocks, obj, range, rem, uns, t
<1>8. /\ DOMAIN t = Fields /\ t.pos = InitPos /\ t.blocks = blocks /\ t.obj = obj
      /\ t.range = range /\ t.nuploading = s.nuploading
  BY <1>1 DEF Shape, Fields
<1>9. Shape(t)
  BY <1>6, <1>7, <1>8 DEF Shape
<1> QED BY <1>3, <1>4, <1>5, <1>8, <1>9 DEF t, objs, closed

\* Blocks are completed: all their bytes are on the disk, and nobody's range of them
\* is open.
LEMMA CompletedSound ==
  ASSUME NEW s, NEW v, NEW d, NEW B, Sound(s, v, d), UpShape(v), B \subseteq Nums,
         \A b \in B : Downloadable(s, b)
  PROVE  Sound(Completed(s, B), v, d \cup UNION {BytesOf(s, b) : b \in B})
<1> DEFINE t == Completed(s, B)
           objs == {s.blocks[b].obj : b \in B} \ {0}
           closed == UNION {ToSet(s.obj[o].chain) : o \in objs}
           e == d \cup UNION {BytesOf(s, b) : b \in B}
<1>1. /\ Shape(s) /\ Owned(s) /\ Linked(s) /\ OnDisk(s, d) /\ HeldLive(s, v) /\ EntriesLive(s, v)
  BY DEF Sound
<1>2. /\ Shape(t)
      /\ \A b \in Nums : t.blocks[b] = IF b \in B THEN Block("Complete", 0) ELSE s.blocks[b]
      /\ \A o \in ObjIds :
           /\ t.obj[o].num = s.obj[o].num
           /\ t.obj[o].from = s.obj[o].from /\ t.obj[o].to = s.obj[o].to
           /\ t.obj[o].chain = IF o \in objs THEN <<>> ELSE s.obj[o].chain
      /\ \A r \in RangeIds :
           /\ t.range[r].from = IF r \in closed THEN s.range[r].to ELSE s.range[r].from
           /\ t.range[r].to = s.range[r].to
           /\ t.range[r].owner = s.range[r].owner
  BY <1>1, CompletedFields
<1> HIDE DEF t
<1>3. 0 \notin ObjIds
  BY IdsAssumption
<1>4. \A o \in ObjIds : o \in objs <=> \E b \in B : s.blocks[b].obj = o
  BY <1>3
<1>5. ASSUME NEW o \in ObjIds, NEW r \in ToSet(s.obj[o].chain)
      PROVE  r \in RangeIds /\ s.range[r].owner = o
  <2>1. s.obj \in [ObjIds -> ObjSet]
    BY <1>1 DEF Shape
  <2>2. PICK i \in 1 .. Len(s.obj[o].chain) : r = s.obj[o].chain[i]
    <3>1. s.obj[o].chain \in Seq(RangeIds)
      BY <2>1, InList
    <3> QED BY <3>1, SeqFacts
  <2>3. r \in RangeIds
    BY <2>1, <2>2, InList
  <2> QED BY <1>1, <2>2, <2>3 DEF Linked
<1>6. objs \subseteq ObjIds
  BY <1>1 DEF Shape, BlockSet
<1>7. ASSUME NEW o \in ObjIds, NEW r \in ToSet(s.obj[o].chain)
      PROVE  r \in closed <=> o \in objs
  <2>1. ASSUME NEW p \in objs, r \in ToSet(s.obj[p].chain) PROVE p = o
    BY <1>5, <1>6, <2>1
  <2> QED BY <2>1
<1> HIDE DEF objs, closed
<1>8. ASSUME NEW b \in Nums, s.blocks[b].obj \in ObjIds
      PROVE  s.blocks[b].obj \in objs <=> b \in B
  <2>1. ASSUME NEW c \in B, s.blocks[c].obj = s.blocks[b].obj PROVE c = b
    BY <1>1, <1>8, <2>1 DEF Owned
  <2> QED BY <1>4, <1>8, <2>1
<1>9. Owned(t)
  <2> SUFFICES ASSUME NEW b \in Nums
               PROVE  /\ t.blocks[b].kind = "Partial" <=> t.blocks[b].obj \in ObjIds
                      /\ t.blocks[b].obj \in ObjIds =>
                            /\ t.obj[t.blocks[b].obj].num = b
                            /\ t.obj[t.blocks[b].obj].from = InitPos[b]
                            /\ t.obj[t.blocks[b].obj].to = End(b)
    BY DEF Owned
  <2>1. CASE b \in B
    BY <1>2, <1>3, <2>1 DEF Block
  <2>2. CASE b \notin B
    <3>1. t.blocks[b] = s.blocks[b]
      BY <1>2, <2>2
    <3>2. /\ s.blocks[b].kind = "Partial" <=> s.blocks[b].obj \in ObjIds
          /\ s.blocks[b].obj \in ObjIds =>
                /\ s.obj[s.blocks[b].obj].num = b
                /\ s.obj[s.blocks[b].obj].from = InitPos[b]
                /\ s.obj[s.blocks[b].obj].to = End(b)
      BY <1>1, Zenon DEF Owned
    <3>3. \A o \in ObjIds : /\ t.obj[o].num = s.obj[o].num /\ t.obj[o].from = s.obj[o].from
                            /\ t.obj[o].to = s.obj[o].to
      BY <1>2
    <3> QED BY <3>1, <3>2, <3>3
  <2> QED BY <2>1, <2>2
<1>10. ASSUME NEW o \in ObjIds, o \notin objs
       PROVE  /\ t.obj[o].chain = s.obj[o].chain
              /\ \A i \in 1 .. Len(s.obj[o].chain) :
                   /\ t.range[s.obj[o].chain[i]].from = s.range[s.obj[o].chain[i]].from
                   /\ t.range[s.obj[o].chain[i]].to = s.range[s.obj[o].chain[i]].to
                   /\ t.range[s.obj[o].chain[i]].owner = s.range[s.obj[o].chain[i]].owner
  <2>1. t.obj[o].chain = s.obj[o].chain
    BY <1>2, <1>10
  <2>2. ASSUME NEW i \in 1 .. Len(s.obj[o].chain)
        PROVE  s.obj[o].chain[i] \in RangeIds /\ s.obj[o].chain[i] \notin closed
    <3>1. s.obj[o].chain[i] \in ToSet(s.obj[o].chain)
      BY <1>1, InList DEF Shape
    <3> QED BY <3>1, <1>5, <1>7, <1>10
  <2> QED BY <2>1, <2>2, <1>2
<1>11. Linked(t)
  <2> SUFFICES ASSUME NEW o \in ObjIds, NEW i \in 1 .. Len(t.obj[o].chain)
               PROVE  LET r == t.range[t.obj[o].chain[i]] IN
        /\ t.obj[o].num \in Nums /\ t.blocks[t.obj[o].num].obj = o
        /\ r.owner = o
        /\ t.obj[o].from <= r.from /\ r.from < r.to /\ r.to <= t.obj[o].to
        /\ \A j \in 1 .. Len(t.obj[o].chain) : i < j => r.to <= t.range[t.obj[o].chain[j]].from
    BY DEF Linked
  <2> DEFINE a == s.obj[o].chain
  <2>1. o \notin objs
    <3>1. Len(<<>>) = 0
      OBVIOUS
    <3> QED BY <1>2, <3>1
  <2>2. /\ t.obj[o].chain = a
        /\ \A j \in 1 .. Len(a) : /\ t.range[a[j]].from = s.range[a[j]].from
                                  /\ t.range[a[j]].to = s.range[a[j]].to
                                  /\ t.range[a[j]].owner = s.range[a[j]].owner
    BY <1>10, <2>1
  <2>3. /\ s.obj[o].num \in Nums /\ s.blocks[s.obj[o].num].obj = o
        /\ s.range[a[i]].owner = o
        /\ s.obj[o].from <= s.range[a[i]].from /\ s.range[a[i]].from < s.range[a[i]].to
        /\ s.range[a[i]].to <= s.obj[o].to
        /\ \A j \in 1 .. Len(a) : i < j => s.range[a[i]].to <= s.range[a[j]].from
    BY <1>1, <2>2, Zenon DEF Linked
  <2>4. s.obj[o].num \notin B
    BY <1>8, <2>1, <2>3, Zenon
  <2>5. /\ t.obj[o].num \in Nums /\ t.blocks[t.obj[o].num].obj = o
        /\ t.obj[o].from = s.obj[o].from /\ t.obj[o].to = s.obj[o].to
    BY <1>2, <2>3, <2>4, Zenon
  <2> HIDE DEF a
  <2> QED BY <2>2, <2>3, <2>5
<1>12. OnDisk(t, e)
  <2> SUFFICES ASSUME NEW b \in Nums, NEW x \in InitPos[b] .. End(b) - 1
               PROVE  x \in e <=> ~ Misses(t, b, x)
    BY DEF OnDisk
  <2>1. s.pos = InitPos
    BY <1>1 DEF Shape
  <2>2. CASE b \in B
    <3>1. x \in e
      BY <2>1, <2>2, BlockPlaces
    <3>2. ~ Misses(t, b, x)
      BY <1>2, <1>3, <2>2 DEF Misses, Block
    <3> QED BY <3>1, <3>2
  <2>3. CASE b \notin B
    <3>1. x \in e <=> x \in d
      <4>1. ASSUME NEW c \in B, x \in BytesOf(s, c) PROVE FALSE
        <5>1. c \in Nums /\ x \in InitPos[c] .. End(c) - 1
          BY <2>1, <4>1, BlockPlaces
        <5>2. c = b
          BY <5>1, OneBlock
        <5> QED BY <5>2, <2>3
      <4> QED BY <4>1
    <3>2. t.blocks[b] = s.blocks[b]
      BY <1>2, <2>3
    <3>3. ASSUME s.blocks[b].obj \in ObjIds
          PROVE  InChain(t, s.blocks[b].obj, x) <=> InChain(s, s.blocks[b].obj, x)
      <4> DEFINE o == s.blocks[b].obj
      <4>1. /\ t.obj[o].chain = s.obj[o].chain
            /\ \A i \in 1 .. Len(s.obj[o].chain) :
                 /\ t.range[s.obj[o].chain[i]].from = s.range[s.obj[o].chain[i]].from
                 /\ t.range[s.obj[o].chain[i]].to = s.range[s.obj[o].chain[i]].to
        BY <1>8, <1>10, <2>3, <3>3, Zenon
      <4> HIDE DEF o
      <4>2. InChain(t, o, x) <=> InChain(s, o, x)
        BY <4>1 DEF InChain, InRange
      <4> QED BY <4>2 DEF o
    <3>4. Misses(t, b, x) <=> Misses(s, b, x)
      BY <3>2, <3>3 DEF Misses
    <3>5. x \in d <=> ~ Misses(s, b, x)
      BY <1>1 DEF OnDisk
    <3> QED BY <3>1, <3>4, <3>5
  <2> QED BY <2>2, <2>3
<1>13. HeldLive(t, v)
  <2> SUFFICES ASSUME NEW u \in Uploaders, NEW r \in ToSet(v[u].ranges)
               PROVE  /\ t.range[r].owner \in ObjIds /\ t.obj[t.range[r].owner].num \in Nums
                      /\ t.range[r].from < t.range[r].to
                           => r \in ToSet(t.obj[t.range[r].owner].chain)
    BY DEF HeldLive
  <2> DEFINE o == s.range[r].owner
  <2>1. /\ r \in RangeIds /\ o \in ObjIds /\ s.obj[o].num \in Nums
        /\ s.range[r].from < s.range[r].to => r \in ToSet(s.obj[o].chain)
    BY <1>1, UpFacts DEF HeldLive
  <2>2. t.range[r].owner = o /\ t.obj[o].num \in Nums
    BY <1>2, <2>1
  <2>3. ASSUME t.range[r].from < t.range[r].to PROVE r \in ToSet(t.obj[o].chain)
    <3>1. r \notin closed /\ s.range[r].from < s.range[r].to
      <4>1. s.range[r].to \in Nat
        BY <1>1, <2>1 DEF Shape, RangeSet
      <4> QED BY <1>2, <2>1, <2>3, <4>1
    <3>2. r \in ToSet(s.obj[o].chain) /\ o \notin objs
      BY <1>7, <2>1, <3>1
    <3> QED BY <1>2, <2>1, <3>2
  <2> HIDE DEF o
  <2> QED BY <2>1, <2>2, <2>3
<1>14. EntriesLive(t, v)
  <2>1. \A x \in EntrySet : x.obj \in ObjIds
    BY DEF EntrySet
  <2>2. \A u \in Uploaders : \A x \in ToSet(v[u].blocks) : x.obj \in ObjIds
    BY <2>1, UpFacts
  <2> QED BY <1>1, <1>2, <2>2 DEF EntriesLive
<1> QED BY <1>2, <1>9, <1>11, <1>12, <1>13, <1>14 DEF Sound, t

\* Completed counts as before.
LEMMA CompletedCounts ==
  ASSUME NEW s, NEW v, NEW B, Shape(s), Owned(s), UpShape(v), B \subseteq Nums,
         \A b \in B : Downloadable(s, b)
  PROVE  /\ Counted(s, v) => Counted(Completed(s, B), v)
         /\ Enlisted(s, v) => Enlisted(Completed(s, B), v)
         /\ Short(s, v) => Short(Completed(s, B), v)
<1> DEFINE t == Completed(s, B)
           closed == UNION {ToSet(s.obj[o].chain) : o \in {s.blocks[b].obj : b \in B} \ {0}}
<1>1. /\ t.nuploading = s.nuploading
      /\ \A o \in ObjIds : t.obj[o].num = s.obj[o].num
      /\ \A r \in RangeIds :
           /\ t.range[r].from = IF r \in closed THEN s.range[r].to ELSE s.range[r].from
           /\ t.range[r].to = s.range[r].to /\ t.range[r].nup = s.range[r].nup
  BY CompletedFields
<1> HIDE DEF t, closed
<1>2. Counted(s, v) => Counted(t, v)
  BY <1>1 DEF Counted
<1>3. Enlisted(s, v) => Enlisted(t, v)
  BY <1>1, SameNums
<1>4. ASSUME Short(s, v) PROVE Short(t, v)
  <2> SUFFICES ASSUME NEW u \in Uploaders, NEW r \in ToSet(v[u].ranges)
               PROVE  t.range[r].to - t.range[r].from <= RangeSize[u]
    BY DEF Short
  <2>1. r \in RangeIds /\ RangeSize[u] \in Nat
    BY UpFacts, SizesAssumption
  <2>2. s.range[r].to \in Nat /\ s.range[r].to - s.range[r].from <= RangeSize[u]
    BY <1>4, <2>1 DEF Shape, RangeSet, Short
  <2> QED BY <1>1, <2>1, <2>2
<1> QED BY <1>2, <1>3, <1>4 DEF t

\* propagate_chunk has copied the chunk from elsewhere.
LEMMA PropagateChunkStep ==
  ASSUME IInv, NEW c \in PrimaryChunks, PropagateChunk(c)
  PROVE  IInv' /\ (Short(swarmer, up) => Short(swarmer', up'))
<1> DEFINE B == {b \in PrimaryChunk(swarmer, c) : Downloadable(swarmer, b)}
           t == Completed(swarmer, B)
           d == disk \cup UNION {BytesOf(swarmer, b) : b \in B}
<1>1. /\ UpShape(up) /\ Sound(swarmer, up, disk) /\ Counted(swarmer, up) /\ Enlisted(swarmer, up)
  BY DEF IInv
<1>2. swarmer' = Collect(t, up) /\ disk' = d /\ up' = up
  BY DEF PropagateChunk
<1>3. Shape(swarmer) /\ Owned(swarmer)
  BY <1>1 DEF Sound
<1>4. B \subseteq Nums /\ \A b \in B : Downloadable(swarmer, b)
  <2>1. swarmer.pos = InitPos /\ DOMAIN swarmer.blocks = Nums
    BY <1>3 DEF Shape
  <2> QED BY <2>1, BlockPlaces DEF PrimaryChunk
<1> HIDE DEF B
<1>5. Sound(t, up, d)
  BY <1>1, <1>4, CompletedSound
<1>6. /\ Counted(t, up) /\ Enlisted(t, up)
      /\ Short(swarmer, up) => Short(t, up)
  BY <1>1, <1>3, <1>4, CompletedCounts
<1> HIDE DEF t, d
<1> QED BY <1>1, <1>2, <1>5, <1>6, Settled

-----------------------------------------------------------------------------
(* find_blocks *)

\* There are identities for what the blocks B begin with.
HasRoom(s, B) == \A b \in B : FreeObjs(s, s.pos[b]) # {} /\ FreeRanges(s, s.pos[b]) # {}

\* What Started changes: block b gets the object obj[b], which has the range hole[b].
StartedBy(s, t, B, obj, hole) ==
    /\ Shape(t) /\ t.nuploading = s.nuploading
    /\ \A b \in B : /\ obj[b] \in ObjIds /\ hole[b] \in RangeIds
                    /\ s.obj[obj[b]] = NoObj /\ s.range[hole[b]] = NoRange
                    /\ t.obj[obj[b]] = [num |-> b, from |-> InitPos[b], to |-> End(b),
                                        chain |-> <<hole[b]>>]
                    /\ t.range[hole[b]] = [from |-> InitPos[b], to |-> End(b), nup |-> 0,
                                           owner |-> obj[b]]
    /\ \A b \in Nums : t.blocks[b] = IF b \in B THEN Block("Partial", obj[b]) ELSE s.blocks[b]
    /\ \A o \in ObjIds : (\A b \in B : o # obj[b]) => t.obj[o] = s.obj[o]
    /\ \A r \in RangeIds : (\A b \in B : r # hole[b]) => t.range[r] = s.range[r]

LEMMA StartedFields ==
  ASSUME NEW s, NEW B, Shape(s), B \subseteq Nums, HasRoom(s, B)
  PROVE  \E obj, hole : StartedBy(s, Started(s, B), B, obj, hole)
<1> DEFINE obj == [b \in B |-> FreshObj(s, s.pos[b])]
           hole == [b \in B |-> FreshRange(s, s.pos[b])]
           t == Started(s, B)
           objs == {FreshObj(s, s.pos[b]) : b \in B}
           holes == {FreshRange(s, s.pos[b]) : b \in B}
           objOf(o) == CHOOSE b \in B : FreshObj(s, s.pos[b]) = o
           holeOf(r) == CHOOSE b \in B : FreshRange(s, s.pos[b]) = r
           blocks == [b \in DOMAIN s.pos |-> IF b \in B THEN Block("Partial", FreshObj(s, s.pos[b]))
                                             ELSE s.blocks[b]]
           newObj == [o \in ObjIds |->
                        IF o \in objs
                        THEN [num |-> objOf(o), from |-> s.pos[objOf(o)],
                              to |-> BlockEnd(s, objOf(o)),
                              chain |-> <<FreshRange(s, s.pos[objOf(o)])>>]
                        ELSE s.obj[o]]
           newRange == [r \in RangeIds |->
                          IF r \in holes
                          THEN [from |-> s.pos[holeOf(r)], to |-> BlockEnd(s, holeOf(r)),
                                nup |-> 0, owner |-> FreshObj(s, s.pos[holeOf(r)])]
                          ELSE s.range[r]]
           rem == [o \in ObjIds |-> IF o \in objs THEN BlockEnd(s, objOf(o)) - s.pos[objOf(o)]
                                    ELSE s.remaining[o]]
           uns == [o \in ObjIds |-> IF o \in objs THEN BlockEnd(s, objOf(o)) - s.pos[objOf(o)]
                                    ELSE s.unselected[o]]
<1>1. t = [s EXCEPT !.blocks = blocks, !.obj = newObj, !.remaining = rem, !.unselected = uns,
                    !.range = newRange]
  BY Zenon DEF Started
<1>2. s.pos = InitPos /\ DOMAIN s.pos = Nums /\ \A b \in Nums : BlockEnd(s, b) = End(b)
  BY BlockPlaces DEF Shape
<1>3. ASSUME NEW b \in B
      PROVE  /\ obj[b] = FreshObj(s, s.pos[b]) /\ hole[b] = FreshRange(s, s.pos[b])
             /\ obj[b] \in ObjIds /\ s.obj[obj[b]] = NoObj /\ obj[b] % FileSize = InitPos[b]
             /\ hole[b] \in RangeIds /\ s.range[hole[b]] = NoRange
             /\ hole[b] % FileSize = InitPos[b]
  BY <1>2, Fresh DEF HasRoom
<1>4. ASSUME NEW b \in B, NEW c \in B, obj[b] = obj[c] \/ hole[b] = hole[c] PROVE b = c
  <2>1. InitPos[b] = InitPos[c]
    BY <1>3, <1>4
  <2> QED BY <2>1, Positions
<1>5. ASSUME NEW b \in B PROVE objOf(obj[b]) = b /\ holeOf(hole[b]) = b
  BY <1>3, <1>4
<1>6. \A o : o \in objs <=> \E b \in B : o = obj[b]
  BY <1>3
<1>7. \A r : r \in holes <=> \E b \in B : r = hole[b]
  BY <1>3
<1>8. \A b \in Nums : /\ InitPos[b] \in Nat /\ End(b) \in Nat
  BY Positions
<1>9. ASSUME NEW b \in B
      PROVE  /\ newObj[obj[b]] = [num |-> b, from |-> InitPos[b], to |-> End(b),
                                  chain |-> <<hole[b]>>]
             /\ newRange[hole[b]] = [from |-> InitPos[b], to |-> End(b), nup |-> 0,
                                     owner |-> obj[b]]
  <2> HIDE DEF obj, hole, objOf, holeOf, objs, holes
  <2>1. b \in Nums
    OBVIOUS
  <2>2. newObj[obj[b]] = [num |-> b, from |-> s.pos[b], to |-> BlockEnd(s, b),
                          chain |-> <<FreshRange(s, s.pos[b])>>]
    BY <1>3, <1>5, <1>6
  <2>3. newRange[hole[b]] = [from |-> s.pos[b], to |-> BlockEnd(s, b), nup |-> 0,
                             owner |-> FreshObj(s, s.pos[b])]
    BY <1>3, <1>5, <1>7
  <2> HIDE DEF newObj, newRange
  <2> QED BY <1>2, <1>3, <2>1, <2>2, <2>3
<1>10. \A o \in ObjIds : (\A b \in B : o # obj[b]) => newObj[o] = s.obj[o]
  BY <1>6
<1>11. \A r \in RangeIds : (\A b \in B : r # hole[b]) => newRange[r] = s.range[r]
  BY <1>7
<1>12. \A b \in Nums : blocks[b] = IF b \in B THEN Block("Partial", obj[b]) ELSE s.blocks[b]
  BY <1>2
<1>13. newObj \in [ObjIds -> ObjSet]
  <2>1. newObj = [o \in ObjIds |-> newObj[o]]
    OBVIOUS
  <2> HIDE DEF newObj, obj, hole
  <2>2. ASSUME NEW o \in ObjIds PROVE newObj[o] \in ObjSet
    <3>1. CASE \E b \in B : o = obj[b]
      <4>1. PICK b \in B : o = obj[b]
        BY <3>1
      <4>2. hole[b] \in RangeIds /\ b \in Nums /\ InitPos[b] \in Nat /\ End(b) \in Nat
        BY <1>3, <1>8
      <4>3. <<hole[b]>> \in Seq(RangeIds)
        BY <4>2
      <4>4. newObj[o] = [num |-> b, from |-> InitPos[b], to |-> End(b), chain |-> <<hole[b]>>]
        BY <4>1, <1>9
      <4> DEFINE chain == <<hole[b]>>
                 to == End(b)
                 from == InitPos[b]
      <4>5. from \in Nat /\ to \in Nat /\ chain \in Seq(RangeIds)
        BY <4>2, <4>3
      <4>6. newObj[o] = [num |-> b, from |-> from, to |-> to, chain |-> chain]
        BY <4>4
      <4> HIDE DEF chain, to, from
      <4> QED BY <4>2, <4>5, <4>6 DEF ObjSet
    <3>2. CASE \A b \in B : o # obj[b]
      BY <3>2, <1>10 DEF Shape
    <3> QED BY <3>1, <3>2
  <2> QED BY <2>1, <2>2
<1>14. newRange \in [RangeIds -> RangeSet]
  <2>1. newRange = [r \in RangeIds |-> newRange[r]]
    OBVIOUS
  <2> HIDE DEF newRange, obj, hole
  <2>2. ASSUME NEW r \in RangeIds PROVE newRange[r] \in RangeSet
    <3>1. CASE \E b \in B : r = hole[b]
      <4>1. PICK b \in B : r = hole[b]
        BY <3>1
      <4> DEFINE to == End(b)
                 from == InitPos[b]
                 o == obj[b]
      <4>2. from \in Nat /\ to \in Nat /\ o \in ObjIds
        BY <1>3, <1>8
      <4>3. newRange[r] = [from |-> from, to |-> to, nup |-> 0, owner |-> o]
        BY <4>1, <1>9
      <4> HIDE DEF o, to, from
      <4> QED BY <4>2, <4>3 DEF RangeSet
    <3>2. CASE \A b \in B : r # hole[b]
      BY <3>2, <1>11 DEF Shape
    <3> QED BY <3>1, <3>2
  <2> QED BY <2>1, <2>2
<1>15. blocks \in [Nums -> BlockSet]
  <2>1. blocks = [b \in Nums |-> blocks[b]]
    BY <1>2
  <2> HIDE DEF blocks, obj
  <2>2. ASSUME NEW b \in Nums PROVE blocks[b] \in BlockSet
    <3>1. CASE b \in B
      <4> DEFINE o == obj[b]
      <4>1. o \in ObjIds
        BY <3>1, <1>3
      <4>2. blocks[b] = Block("Partial", o)
        BY <3>1, <1>12
      <4> HIDE DEF o
      <4> QED BY <4>1, <4>2 DEF Block, BlockSet, Kinds
    <3>2. CASE b \notin B
      BY <3>2, <1>12 DEF Shape
    <3> QED BY <3>1, <3>2
  <2> QED BY <2>1, <2>2
<1> HIDE DEF blocks, newObj, newRange, rem, uns, obj, hole, t
<1>16. /\ DOMAIN t = Fields /\ t.pos = InitPos /\ t.blocks = blocks /\ t.obj = newObj
       /\ t.range = newRange /\ t.nuploading = s.nuploading
  BY <1>1 DEF Shape, Fields
<1>17. Shape(t)
  BY <1>13, <1>14, <1>15, <1>16 DEF Shape
<1>18. StartedBy(s, t, B, obj, hole)
  BY <1>3, <1>9, <1>10, <1>11, <1>12, <1>16, <1>17, Zenon DEF StartedBy
<1> QED BY <1>18 DEF t

\* A block that is started misses on the disk as before, and nobody refers to it yet.
LEMMA StartedSound ==
  ASSUME NEW s, NEW t, NEW B, NEW obj, NEW hole, NEW v, NEW d, Sound(s, v, d), UpShape(v),
         B \subseteq Nums, \A b \in B : s.blocks[b].kind = "Empty", StartedBy(s, t, B, obj, hole)
  PROVE  /\ Sound(t, v, d)
         /\ Counted(s, v) => Counted(t, v)
         /\ Enlisted(s, v) => Enlisted(t, v)
         /\ Short(s, v) => Short(t, v)
         /\ \A u \in Uploaders : \A e \in ToSet(v[u].blocks) : t.obj[e.obj] = s.obj[e.obj]
<1>1. /\ Shape(s) /\ Owned(s) /\ Linked(s) /\ OnDisk(s, d) /\ HeldLive(s, v) /\ EntriesLive(s, v)
  BY DEF Sound
<1>2. 0 \notin ObjIds /\ 0 \notin Nums
  BY IdsAssumption DEF Nums
<1>3. Shape(t) /\ t.nuploading = s.nuploading
  BY DEF StartedBy
<1>4. ASSUME NEW b \in B
      PROVE  /\ b \in Nums /\ s.blocks[b].kind = "Empty" /\ s.blocks[b].obj \notin ObjIds
             /\ t.blocks[b].kind = "Partial" /\ t.blocks[b].obj = obj[b]
             /\ obj[b] \in ObjIds /\ hole[b] \in RangeIds
             /\ s.obj[obj[b]].num = 0 /\ s.range[hole[b]].owner = 0 /\ s.range[hole[b]].nup = 0
             /\ t.obj[obj[b]].num = b /\ t.obj[obj[b]].from = InitPos[b]
             /\ t.obj[obj[b]].to = End(b) /\ t.obj[obj[b]].chain = <<hole[b]>>
             /\ t.range[hole[b]].from = InitPos[b] /\ t.range[hole[b]].to = End(b)
             /\ t.range[hole[b]].nup = 0 /\ t.range[hole[b]].owner = obj[b]
  <2>1. b \in Nums /\ s.blocks[b].kind = "Empty" /\ s.blocks[b].obj \notin ObjIds
    BY <1>1 DEF Owned
  <2>2. /\ obj[b] \in ObjIds /\ hole[b] \in RangeIds
        /\ s.obj[obj[b]] = NoObj /\ s.range[hole[b]] = NoRange
        /\ t.obj[obj[b]] = [num |-> b, from |-> InitPos[b], to |-> End(b), chain |-> <<hole[b]>>]
        /\ t.range[hole[b]] = [from |-> InitPos[b], to |-> End(b), nup |-> 0, owner |-> obj[b]]
        /\ t.blocks[b] = Block("Partial", obj[b])
    BY <2>1, Zenon DEF StartedBy
  <2>3. t.blocks[b].kind = "Partial" /\ t.blocks[b].obj = obj[b]
    BY <2>2 DEF Block
  <2>4. s.obj[obj[b]].num = 0 /\ s.range[hole[b]].owner = 0 /\ s.range[hole[b]].nup = 0
    BY <2>2 DEF NoObj, NoRange
  <2> QED BY <2>1, <2>2, <2>3, <2>4
<1>5. /\ \A b \in Nums : b \notin B => t.blocks[b] = s.blocks[b]
      /\ \A o \in ObjIds : (\A b \in B : o # obj[b]) => t.obj[o] = s.obj[o]
      /\ \A r \in RangeIds : (\A b \in B : r # hole[b]) => t.range[r] = s.range[r]
  BY DEF StartedBy
<1>6. \A o \in ObjIds : s.obj[o].num \in Nums => t.obj[o] = s.obj[o]
  BY <1>2, <1>4, <1>5
<1>7. \A r \in RangeIds : s.range[r].owner \in ObjIds => t.range[r] = s.range[r]
  BY <1>2, <1>4, <1>5
<1>8. \A r \in RangeIds : t.range[r].nup = s.range[r].nup
  BY <1>4, <1>5
<1>9. \A o \in ObjIds : /\ Len(s.obj[o].chain) \in Nat
                        /\ \A i \in 1 .. Len(s.obj[o].chain) : s.obj[o].chain[i] \in RangeIds
  BY <1>1, InList DEF Shape
<1>10. Owned(t)
  <2> SUFFICES ASSUME NEW b \in Nums
               PROVE  /\ t.blocks[b].kind = "Partial" <=> t.blocks[b].obj \in ObjIds
                      /\ t.blocks[b].obj \in ObjIds =>
                            /\ t.obj[t.blocks[b].obj].num = b
                            /\ t.obj[t.blocks[b].obj].from = InitPos[b]
                            /\ t.obj[t.blocks[b].obj].to = End(b)
    BY DEF Owned
  <2>1. CASE b \in B
    BY <1>4, <2>1
  <2>2. CASE b \notin B
    <3>1. t.blocks[b] = s.blocks[b]
      BY <1>5, <2>2
    <3>2. /\ s.blocks[b].kind = "Partial" <=> s.blocks[b].obj \in ObjIds
          /\ s.blocks[b].obj \in ObjIds =>
                /\ s.obj[s.blocks[b].obj].num = b
                /\ s.obj[s.blocks[b].obj].from = InitPos[b]
                /\ s.obj[s.blocks[b].obj].to = End(b)
      BY <1>1 DEF Owned
    <3>3. s.blocks[b].obj \in ObjIds => t.obj[s.blocks[b].obj] = s.obj[s.blocks[b].obj]
      BY <1>6, <3>2
    <3> QED BY <3>1, <3>2, <3>3
  <2> QED BY <2>1, <2>2
<1>11. Linked(t)
  <2> SUFFICES ASSUME NEW o \in ObjIds, NEW i \in 1 .. Len(t.obj[o].chain)
               PROVE  LET r == t.range[t.obj[o].chain[i]] IN
        /\ t.obj[o].num \in Nums /\ t.blocks[t.obj[o].num].obj = o
        /\ r.owner = o
        /\ t.obj[o].from <= r.from /\ r.from < r.to /\ r.to <= t.obj[o].to
        /\ \A j \in 1 .. Len(t.obj[o].chain) : i < j => r.to <= t.range[t.obj[o].chain[j]].from
    BY DEF Linked
  <2>1. CASE \E b \in B : o = obj[b]
    <3>1. PICK b \in B : o = obj[b]
      BY <2>1
    <3> DEFINE h == hole[b]
    <3>2. Len(<<h>>) = 1 /\ <<h>>[1] = h
      OBVIOUS
    <3>3. t.obj[o].chain = <<h>>
      BY <3>1, <1>4
    <3>4. i = 1 /\ Len(t.obj[o].chain) = 1 /\ t.obj[o].chain[i] = h
      BY <3>2, <3>3
    <3>5. InitPos[b] \in Nat /\ End(b) \in Nat /\ InitPos[b] < End(b)
      BY <1>4, Positions
    <3>6. \A j \in 1 .. Len(t.obj[o].chain) : ~ i < j
      BY <3>4
    <3> HIDE DEF h
    <3>7. t.range[h].owner = o /\ t.range[h].from = InitPos[b] /\ t.range[h].to = End(b)
      BY <3>1, <1>4 DEF h
    <3>8. t.obj[o].num = b /\ b \in Nums /\ t.blocks[b].obj = o
      BY <3>1, <1>4
    <3>9. t.obj[o].from = InitPos[b] /\ t.obj[o].to = End(b)
      BY <3>1, <1>4
    <3> QED BY <3>4, <3>5, <3>6, <3>7, <3>8, <3>9
  <2>2. CASE \A b \in B : o # obj[b]
    <3> DEFINE a == s.obj[o].chain
    <3>1. t.obj[o] = s.obj[o]
      BY <1>5, <2>2
    <3>2. \A j \in 1 .. Len(a) :
          /\ s.obj[o].num \in Nums /\ s.blocks[s.obj[o].num].obj = o
          /\ s.range[a[j]].owner = o
          /\ s.obj[o].from <= s.range[a[j]].from /\ s.range[a[j]].from < s.range[a[j]].to
          /\ s.range[a[j]].to <= s.obj[o].to
          /\ \A k \in 1 .. Len(a) : j < k => s.range[a[j]].to <= s.range[a[k]].from
      BY <1>1 DEF Linked
    <3>3. \A j \in 1 .. Len(a) : a[j] \in RangeIds /\ t.range[a[j]] = s.range[a[j]]
      BY <1>7, <1>9, <3>2
    <3>4. s.obj[o].num \notin B
      BY <1>4, <3>1, <3>2
    <3>5. t.blocks[s.obj[o].num].obj = o
      BY <1>5, <3>1, <3>2, <3>4
    <3> HIDE DEF a
    <3>6. t.obj[o].chain = a
      BY <3>1 DEF a
    <3> QED BY <3>1, <3>2, <3>3, <3>5, <3>6
  <2> QED BY <2>1, <2>2, Zenon
<1>12. OnDisk(t, d)
  <2> SUFFICES ASSUME NEW b \in Nums, NEW x \in InitPos[b] .. End(b) - 1
               PROVE  Misses(t, b, x) <=> Misses(s, b, x)
    BY <1>1 DEF OnDisk
  <2>1. CASE b \in B
    <3> DEFINE h == hole[b]
               o == obj[b]
    <3>1. /\ t.blocks[b].obj = o /\ o \in ObjIds /\ t.obj[o].chain = <<h>>
          /\ t.range[h].from = InitPos[b] /\ t.range[h].to = End(b)
          /\ s.blocks[b].kind = "Empty"
      BY <1>4, <2>1
    <3> HIDE DEF h, o
    <3>2. InitPos[b] <= x /\ x < End(b)
      BY Positions
    <3>3. InChain(t, o, x)
      <4>1. Len(<<h>>) = 1 /\ <<h>>[1] = h
        OBVIOUS
      <4>2. InRange(t, h, x)
        BY <3>1, <3>2 DEF InRange
      <4> QED BY <3>1, <4>1, <4>2 DEF InChain
    <3> QED BY <3>1, <3>3 DEF Misses
  <2>2. CASE b \notin B
    <3>1. t.blocks[b] = s.blocks[b]
      BY <1>5, <2>2
    <3>2. ASSUME s.blocks[b].obj \in ObjIds
          PROVE  InChain(t, s.blocks[b].obj, x) <=> InChain(s, s.blocks[b].obj, x)
      <4> DEFINE o == s.blocks[b].obj
      <4>1. t.obj[o] = s.obj[o]
        BY <1>1, <1>6, <3>2 DEF Owned
      <4>2. \A j \in 1 .. Len(s.obj[o].chain) : t.range[s.obj[o].chain[j]] = s.range[s.obj[o].chain[j]]
        BY <1>1, <1>7, <1>9, <3>2, Zenon DEF Linked
      <4> HIDE DEF o
      <4>3. InChain(t, o, x) <=> InChain(s, o, x)
        BY <4>1, <4>2 DEF InChain, InRange
      <4> QED BY <4>3 DEF o
    <3> QED BY <3>1, <3>2 DEF Misses
  <2> QED BY <2>1, <2>2
<1>13. ASSUME NEW u \in Uploaders, NEW r \in ToSet(v[u].ranges)
       PROVE  /\ r \in RangeIds /\ t.range[r] = s.range[r] /\ s.range[r].owner \in ObjIds
              /\ t.obj[s.range[r].owner] = s.obj[s.range[r].owner]
  <2>1. r \in RangeIds
    BY UpFacts
  <2>2. s.range[r].owner \in ObjIds /\ s.obj[s.range[r].owner].num \in Nums
    BY <1>1 DEF HeldLive
  <2> QED BY <1>6, <1>7, <2>1, <2>2
<1>14. HeldLive(t, v)
  BY <1>1, <1>13 DEF HeldLive
<1>15. ASSUME NEW u \in Uploaders, NEW e \in ToSet(v[u].blocks)
       PROVE  t.obj[e.obj] = s.obj[e.obj]
  <2>1. e.obj \in ObjIds
    BY UpFacts DEF EntrySet
  <2>2. s.obj[e.obj].num \in Nums
    BY <1>1 DEF EntriesLive
  <2> QED BY <1>6, <2>1, <2>2
<1>16. EntriesLive(t, v)
  BY <1>1, <1>15 DEF EntriesLive
<1>17. Counted(s, v) => Counted(t, v)
  BY <1>8 DEF Counted
<1>18. Short(s, v) => Short(t, v)
  BY <1>13 DEF Short
<1>19. ASSUME Enlisted(s, v) PROVE Enlisted(t, v)
  <2>1. \A u \in Uploaders : Selected(t, v, u) = Selected(s, v, u)
    BY <1>15 DEF Selected
  <2>2. \A b \in Nums : Selectors(t, v, b) = Selectors(s, v, b)
    BY <2>1 DEF Selectors
  <2>3. ASSUME NEW u \in Uploaders PROVE NumsDiffer(t, v[u].blocks)
    <3>1. \A i \in 1 .. Len(v[u].blocks) : v[u].blocks[i] \in ToSet(v[u].blocks)
      BY UpFacts, SeqFacts
    <3>2. NumsDiffer(s, v[u].blocks)
      BY <1>19 DEF Enlisted
    <3> QED BY <3>1, <3>2, <1>15 DEF NumsDiffer
  <2> QED BY <2>2, <2>3, <1>3, <1>19 DEF Enlisted
<1> QED BY <1>3, <1>10, <1>11, <1>12, <1>14, <1>15, <1>16, <1>17, <1>18, <1>19 DEF Sound

\* u selects parts of different blocks that miss.
LEMMA SelectStep ==
  ASSUME IInv, NEW u \in Uploaders, up[u].declared, NEW parts \in Seq(PartSet),
         \A i \in 1 .. Len(parts) : Downloadable(swarmer, parts[i].num),
         \A i, j \in 1 .. Len(parts) : parts[i].num = parts[j].num => i = j,
         NEW complete \in Seq(Nums), IsInjective(complete), NEW partial \in Seq(PartSet),
         Select(u, parts, complete, partial), disk' = disk
  PROVE  IInv' /\ (Short(swarmer, up) => Short(swarmer', up'))
<1> DEFINE nums == {parts[i].num : i \in DOMAIN parts}
           s == Unselect(swarmer, u)
           new == {b \in nums : s.blocks[b].kind = "Empty"}
           t == Started(s, new)
           entries == [i \in DOMAIN parts |-> [obj |-> t.blocks[parts[i].num].obj,
                                               from |-> parts[i].from, to |-> parts[i].to]]
           w == [up EXCEPT ![u].blocks = entries, ![u].complete = complete, ![u].partial = partial]
           nup == [b \in DOMAIN s.pos |-> IF b \in nums THEN t.nuploading[b] + 1
                                          ELSE t.nuploading[b]]
           x == [t EXCEPT !.nuploading = nup]
<1>1. /\ UpShape(up) /\ Sound(swarmer, up, disk) /\ Counted(swarmer, up) /\ Enlisted(swarmer, up)
  BY DEF IInv
<1>2. /\ HasRoom(s, new)
      /\ up' = w /\ swarmer' = Collect(x, w)
  BY Zenon DEF Select, HasRoom
<1>3. DOMAIN parts = 1 .. Len(parts) /\ Len(parts) \in Nat
  OBVIOUS
<1>4. \A i \in 1 .. Len(parts) : parts[i].num \in Nums /\ parts[i].from \in Nat /\ parts[i].to \in Nat
  <2>1. \A i \in 1 .. Len(parts) : parts[i] \in PartSet
    OBVIOUS
  <2> QED BY <2>1 DEF PartSet
<1>5. nums \subseteq Nums /\ \A b : b \in nums <=> \E i \in 1 .. Len(parts) : b = parts[i].num
  BY <1>3, <1>4
<1>6. Shape(swarmer)
  BY <1>1 DEF Sound
<1>7. /\ Shape(s) /\ s.blocks = swarmer.blocks /\ s.obj = swarmer.obj /\ s.range = swarmer.range
      /\ LeftBy(swarmer, up, u, s)
  BY <1>1, <1>6, UnselectFields
<1> HIDE DEF nums, s
<1>8. Sound(s, up, disk) /\ Counted(s, up) /\ (Short(swarmer, up) => Short(s, up))
  <2>1. Sound(s, up, disk)
    BY <1>1, <1>7, SameSound DEF SameRanges
  <2> QED BY <2>1, <1>1, <1>7 DEF Counted, Short
<1>9. new \subseteq Nums /\ \A b \in new : s.blocks[b].kind = "Empty"
  BY <1>5
<1> HIDE DEF new
<1>10. PICK obj, hole : StartedBy(s, t, new, obj, hole)
  BY <1>2, <1>7, <1>9, StartedFields, Zenon
<1> HIDE DEF t
<1>11. /\ Sound(t, up, disk) /\ Counted(t, up) /\ (Short(s, up) => Short(t, up))
       /\ \A y \in Uploaders : \A e \in ToSet(up[y].blocks) : t.obj[e.obj] = s.obj[e.obj]
  BY <1>1, <1>8, <1>9, <1>10, StartedSound
<1>12. Shape(t) /\ t.nuploading = s.nuploading
  BY <1>10 DEF StartedBy
<1>13. \A b \in Nums : /\ nup[b] = IF b \in nums THEN s.nuploading[b] + 1 ELSE s.nuploading[b]
                       /\ nup[b] \in Nat
  BY <1>7, <1>12, BlockPlaces DEF Shape
<1>14. nup \in [Nums -> Nat]
  <2>1. nup = [b \in Nums |-> nup[b]]
    BY <1>7, BlockPlaces DEF Shape
  <2> HIDE DEF nup
  <2> QED BY <2>1, <1>13
<1> HIDE DEF nup
<1>15. /\ Shape(x) /\ x.blocks = t.blocks /\ x.obj = t.obj /\ x.range = t.range
       /\ x.nuploading = nup
  BY <1>12, <1>14 DEF Shape, Fields
<1> HIDE DEF x
<1>16. Sound(x, up, disk)
  BY <1>1, <1>11, <1>15, SameSound DEF SameRanges
<1>17. ASSUME NEW i \in 1 .. Len(parts)
       PROVE  /\ entries[i].obj = t.blocks[parts[i].num].obj
              /\ entries[i] \in EntrySet
              /\ t.obj[entries[i].obj].num = parts[i].num
  <2>1. t.blocks[parts[i].num].kind = "Partial"
    <3>1. parts[i].num \in Nums /\ parts[i].num \in nums
      BY <1>4, <1>5
    <3>2. s.blocks[parts[i].num].kind \in {"Empty", "Partial"}
      BY <1>7 DEF Downloadable
    <3>3. CASE s.blocks[parts[i].num].kind = "Empty"
      <4>1. parts[i].num \in new
        BY <3>1, <3>3 DEF new
      <4>2. t.blocks[parts[i].num] = Block("Partial", obj[parts[i].num])
        BY <3>1, <4>1, <1>10 DEF StartedBy
      <4> QED BY <4>2 DEF Block
    <3>4. CASE s.blocks[parts[i].num].kind = "Partial"
      <4>1. parts[i].num \notin new
        BY <3>4 DEF new
      <4>2. t.blocks[parts[i].num] = s.blocks[parts[i].num]
        BY <3>1, <4>1, <1>10 DEF StartedBy
      <4> QED BY <4>2, <3>4
    <3> QED BY <3>2, <3>3, <3>4
  <2>2. /\ t.blocks[parts[i].num].obj \in ObjIds
        /\ t.obj[t.blocks[parts[i].num].obj].num = parts[i].num
    BY <1>4, <1>11, <2>1 DEF Sound, Owned
  <2>3. entries[i] = [obj |-> t.blocks[parts[i].num].obj, from |-> parts[i].from,
                      to |-> parts[i].to]
    BY <1>3
  <2> HIDE DEF entries
  <2> QED BY <2>2, <2>3, <1>4 DEF EntrySet
<1>18. entries \in Seq(EntrySet) /\ Len(entries) = Len(parts)
  <2>1. entries = [i \in 1 .. Len(parts) |-> entries[i]]
    BY <1>3
  <2> HIDE DEF entries
  <2> QED BY <2>1, <1>3, <1>17
<1> HIDE DEF entries
<1>19. /\ UpShape(w)
       /\ w[u].blocks = entries /\ w[u].complete = complete /\ w[u].declared
       /\ \A y \in Uploaders : w[y].ranges = up[y].ranges /\ (y # u => w[y] = up[y])
  <2> DEFINE z == [up[u] EXCEPT !.blocks = entries, !.complete = complete, !.partial = partial]
  <2>1. \A y \in Uploaders : up[y] \in UploaderSet
    BY <1>1 DEF UpShape
  <2>2. z \in UploaderSet /\ z.blocks = entries /\ z.complete = complete
    BY <1>18, <2>1 DEF UploaderSet
  <2>3. z.ranges = up[u].ranges /\ z.declared
    BY <2>1 DEF UploaderSet
  <2>4. w = [up EXCEPT ![u] = z]
    BY <1>1 DEF UpShape
  <2> HIDE DEF z, w
  <2> QED BY <1>1, <2>2, <2>3, <2>4 DEF UpShape
<1> HIDE DEF w
<1>20. Selected(x, w, u) = nums
  <2>1. \A e : e \in ToSet(entries) <=> \E i \in 1 .. Len(parts) : e = entries[i]
    BY <1>18, SeqFacts
  <2>2. ASSUME NEW b \in nums PROVE b \in Selected(x, w, u)
    <3>1. PICK i \in 1 .. Len(parts) : b = parts[i].num
      BY <1>5
    <3>2. entries[i] \in ToSet(entries) /\ x.obj[entries[i].obj].num = b
      BY <2>1, <3>1, <1>15, <1>17
    <3> QED BY <3>2, <1>19 DEF Selected
  <2>3. ASSUME NEW b \in Selected(x, w, u) PROVE b \in nums
    <3>1. PICK e \in ToSet(entries) : b = x.obj[e.obj].num
      BY <1>19, <2>3 DEF Selected
    <3>2. PICK i \in 1 .. Len(parts) : e = entries[i]
      BY <2>1, <3>1
    <3> QED BY <3>1, <3>2, <1>5, <1>15, <1>17
  <2> QED BY <2>2, <2>3
<1>21. ASSUME NEW y \in Uploaders, y # u PROVE Selected(x, w, y) = Selected(swarmer, up, y)
  <2>1. w[y] = up[y]
    BY <1>19, <1>21
  <2>2. \A e \in ToSet(up[y].blocks) : x.obj[e.obj] = swarmer.obj[e.obj]
    BY <1>7, <1>11, <1>15
  <2> QED BY <2>1, <2>2 DEF Selected
<1>22. Sound(x, w, disk)
  <2>1. HeldLive(x, up) /\ EntriesLive(x, up)
    BY <1>16 DEF Sound
  <2>2. HeldLive(x, w)
    BY <2>1, <1>19 DEF HeldLive
  <2>3. ASSUME NEW y \in Uploaders, NEW e \in ToSet(w[y].blocks) PROVE x.obj[e.obj].num \in Nums
    <3>1. CASE y = u
      <4>1. x.obj[e.obj].num \in Selected(x, w, u)
        BY <2>3, <3>1 DEF Selected
      <4> QED BY <4>1, <1>5, <1>20
    <3>2. CASE y # u
      BY <2>1, <3>2, <1>19 DEF EntriesLive
    <3> QED BY <3>1, <3>2
  <2> QED BY <2>2, <2>3, <1>16 DEF Sound, EntriesLive
<1>23. Counted(x, w)
  <2>1. \A r : Holders(w, r) = Holders(up, r)
    BY <1>19 DEF Holders
  <2> QED BY <2>1, <1>11, <1>15, <1>19 DEF Counted
<1>24. ASSUME NEW b \in Nums PROVE x.nuploading[b] = Cardinality(Selectors(x, w, b))
  <2> DEFINE others == Selectors(swarmer, up, b) \ {u}
  <2>1. s.nuploading[b] = Cardinality(others)
    BY <1>7 DEF LeftBy
  <2>2. IsFiniteSet(others)
    BY UploadersAssumption, FS_Subset DEF Selectors
  <2>3. Selectors(x, w, b) = IF b \in nums THEN others \cup {u} ELSE others
    BY <1>20, <1>21 DEF Selectors
  <2>4. Cardinality(others \cup {u}) = Cardinality(others) + 1
    BY <2>2, FS_AddElement
  <2> HIDE DEF others
  <2> QED BY <2>1, <2>3, <2>4, <1>13, <1>15
<1>25. ASSUME NEW y \in Uploaders PROVE NumsDiffer(x, w[y].blocks)
  <2>1. CASE y = u
    <3>1. \A i \in 1 .. Len(parts) : x.obj[entries[i].obj].num = parts[i].num
      BY <1>15, <1>17
    <3> QED BY <2>1, <3>1, <1>18, <1>19 DEF NumsDiffer
  <2>2. CASE y # u
    <3>1. w[y] = up[y]
      BY <1>19, <2>2
    <3>2. \A i \in 1 .. Len(up[y].blocks) : up[y].blocks[i] \in ToSet(up[y].blocks)
      BY <1>1, UpFacts, SeqFacts
    <3>3. \A i \in 1 .. Len(up[y].blocks) :
             x.obj[up[y].blocks[i].obj] = swarmer.obj[up[y].blocks[i].obj]
      BY <3>2, <1>7, <1>11, <1>15
    <3>4. NumsDiffer(swarmer, up[y].blocks)
      BY <1>1 DEF Enlisted
    <3>5. NumsDiffer(x, up[y].blocks)
      BY <3>3, <3>4, Zenon DEF NumsDiffer
    <3> QED BY <3>1, <3>5
  <2> QED BY <2>1, <2>2
<1>26. \A y \in Uploaders : IsInjective(w[y].complete) /\ (~ w[y].declared => w[y].blocks = <<>>)
  BY <1>1, <1>19 DEF Enlisted
<1>27. Enlisted(x, w)
  BY <1>24, <1>25, <1>26 DEF Enlisted
<1>28. Short(swarmer, up) => Short(x, w)
  BY <1>8, <1>11, <1>15, <1>19 DEF Short
<1> QED BY <1>2, <1>19, <1>22, <1>23, <1>27, <1>28, Settled

\* One block leaves the array.
LEMMA PermuteProps ==
  ASSUME NEW list \in Seq(Nums), IsInjective(list), NEW i
  PROVE  Permute(list, i) \in Seq(Nums) /\ IsInjective(Permute(list, i))
<1> DEFINE n == Len(list)
           t == [list EXCEPT ![i] = list[Len(list)]]
           p == Permute(list, i)
<1>1. n \in Nat /\ \A j, k \in 1 .. n : list[j] = list[k] => j = k
  BY SeqFacts
<1>2. DOMAIN t = 1 .. n /\ \A j \in 1 .. n : t[j] = IF j = i THEN list[n] ELSE list[j]
  OBVIOUS
<1>3. \A j \in 1 .. n : t[j] \in Nums
  <2>1. \A j \in 1 .. n : list[j] \in Nums
    OBVIOUS
  <2>2. \A j \in 1 .. n : n \in 1 .. n
    BY <1>1
  <2> QED BY <1>2, <2>1, <2>2
<1>4. t \in Seq(Nums) /\ Len(t) = n
  <2>1. t = [j \in 1 .. n |-> t[j]]
    OBVIOUS
  <2> HIDE DEF t, n
  <2> QED BY <1>1, <1>3, <2>1
<1>5. p = SubSeq(t, 1, n - 1)
  BY DEF Permute
<1> HIDE DEF t, n, p
<1>6. CASE n = 0
  <2>1. p = <<>>
    BY <1>4, <1>5, <1>6
  <2> QED BY <2>1, EmptyFacts DEF p
<1>7. CASE n # 0
  <2>1. /\ p \in Seq(Nums) /\ Len(p) = n - 1
        /\ \A j \in 1 .. n - 1 : p[j] = t[j]
    <3>1. n - 1 \in Nat /\ n - 1 <= Len(t)
      BY <1>1, <1>4, <1>7
    <3> QED BY <1>4, <1>5, <3>1
  <2>2. \A j, k \in 1 .. n - 1 : p[j] = p[k] => j = k
    BY <1>1, <1>2, <2>1
  <2> QED BY <2>1, <2>2, SeqFacts DEF p
<1> QED BY <1>6, <1>7

\* g is the recursive function in Permuted(list, choice).
Reorders(g, list, choice, n) ==
  g = [k \in 0 .. n |-> IF k = 0 THEN list ELSE Permute(g[k - 1], choice[k])]

LEMMA ReordersExists ==
  ASSUME NEW list, NEW choice, NEW m \in Nat
  PROVE  \E g : Reorders(g, list, choice, m)
<1> DEFINE P == {n \in Nat : \E g : Reorders(g, list, choice, n)}
<1>1. 0 \in P
  <2> DEFINE g == [k \in 0 .. 0 |-> list]
  <2>1. Reorders(g, list, choice, 0)
    BY DEF Reorders
  <2> QED BY <2>1
<1>2. ASSUME NEW n \in Nat, n \in P PROVE n + 1 \in P
  <2>1. PICK g : Reorders(g, list, choice, n)
    BY <1>2
  <2> DEFINE h == [k \in 0 .. n + 1 |-> IF k <= n THEN g[k] ELSE Permute(g[n], choice[n + 1])]
             body(k) == IF k = 0 THEN list ELSE Permute(h[k - 1], choice[k])
  <2>2. ASSUME NEW k \in 0 .. n + 1 PROVE h[k] = body(k)
    <3>1. CASE k = 0
      BY <3>1, <2>1 DEF Reorders
    <3>2. CASE k \in 1 .. n
      <4>1. g[k] = Permute(g[k - 1], choice[k])
        <5>1. k \in 0 .. n /\ k # 0
          BY <3>2
        <5> QED BY <5>1, <2>1, Zenon DEF Reorders
      <4>2. h[k] = g[k] /\ h[k - 1] = g[k - 1] /\ k # 0
        BY <3>2
      <4> QED BY <4>1, <4>2
    <3>3. CASE k = n + 1
      <4>1. h[k] = Permute(g[n], choice[n + 1]) /\ h[k - 1] = g[n] /\ k # 0
        BY <3>3
      <4> QED BY <3>3, <4>1
    <3> QED BY <3>1, <3>2, <3>3
  <2>3. h = [k \in 0 .. n + 1 |-> body(k)]
    <3>1. h = [k \in 0 .. n + 1 |-> h[k]]
      OBVIOUS
    <3> HIDE DEF h
    <3> QED BY <2>2, <3>1
  <2> HIDE DEF h
  <2>4. Reorders(h, list, choice, n + 1)
    BY <2>3, Zenon DEF Reorders
  <2> QED BY <2>4
<1> HIDE DEF P
<1>3. m \in P
  BY <1>1, <1>2, Induction
<1> QED BY <1>3 DEF P

\* No block is in the array twice, whichever leave it.
LEMMA PermutedProps ==
  ASSUME NEW list \in Seq(Nums), IsInjective(list), NEW choice, Len(choice) \in Nat
  PROVE  Permuted(list, choice) \in Seq(Nums) /\ IsInjective(Permuted(list, choice))
<1> DEFINE g == CHOOSE h : Reorders(h, list, choice, Len(choice))
<1>1. Reorders(g, list, choice, Len(choice))
  BY ReordersExists, Zenon
<1>2. Permuted(list, choice) = g[Len(choice)]
  BY Zenon DEF Permuted, Reorders
<1> HIDE DEF g
<1> DEFINE P == {n \in Nat : n <= Len(choice) => g[n] \in Seq(Nums) /\ IsInjective(g[n])}
<1>3. 0 \in P
  <2>1. 0 \in 0 .. Len(choice)
    OBVIOUS
  <2>2. g[0] = list
    BY <1>1, <2>1, Zenon DEF Reorders
  <2> QED BY <2>2
<1>4. ASSUME NEW n \in Nat, n \in P PROVE n + 1 \in P
  <2> SUFFICES ASSUME n + 1 <= Len(choice) PROVE g[n + 1] \in Seq(Nums) /\ IsInjective(g[n + 1])
    OBVIOUS
  <2>1. g[n] \in Seq(Nums) /\ IsInjective(g[n])
    BY <1>4
  <2>2. n + 1 \in 0 .. Len(choice) /\ n + 1 # 0 /\ (n + 1) - 1 = n
    OBVIOUS
  <2>3. g[n + 1] = Permute(g[(n + 1) - 1], choice[n + 1])
    BY <1>1, <2>2, Zenon DEF Reorders
  <2>4. g[n + 1] = Permute(g[n], choice[n + 1])
    BY <2>2, <2>3
  <2> HIDE DEF P
  <2> QED BY <2>1, <2>4, PermuteProps
<1> HIDE DEF P
<1>5. Len(choice) \in P
  BY <1>3, <1>4, Induction
<1> QED BY <1>2, <1>5 DEF P

\* The indices that select_blocks may return: no one twice, all of blocks that miss.
LEMMA ChoiceProps ==
  ASSUME NEW s, NEW u \in Uploaders, up[u].complete \in Seq(Nums), NEW choice \in BlockChoices(s, u)
  PROVE  /\ choice \in Seq(DOMAIN up[u].complete) /\ DOMAIN choice = 1 .. Len(choice)
         /\ \A i \in 1 .. Len(choice) : Downloadable(s, up[u].complete[choice[i]])
         /\ \A i, j \in 1 .. Len(choice) : choice[i] = choice[j] => i = j
<1> DEFINE list == up[u].complete
           idx == {i \in DOMAIN list : Downloadable(s, list[i])}
           run(i) == {k \in idx : \A j \in idx : (j \in i .. k \/ j \in k .. i) =>
                        ChunkOf(s, list[j]) = ChunkOf(s, list[i])}
<1>1. PICK i \in idx : choice \in Sorted(run(i), >)
  BY Zenon DEF BlockChoices
<1> DEFINE S == run(i)
<1>2. choice \in [1 .. Cardinality(S) -> S] /\ \A j, k \in DOMAIN choice : j < k => choice[j] > choice[k]
  BY <1>1 DEF Sorted
<1>3. DOMAIN list = 1 .. Len(list) /\ S \subseteq DOMAIN list
  OBVIOUS
<1>4. \A k \in S : Downloadable(s, list[k])
  OBVIOUS
<1>5. IsFiniteSet(S)
  <2>1. IsFiniteSet(1 .. Len(list))
    BY FS_Interval
  <2> HIDE DEF S
  <2> QED BY <1>3, <2>1, FS_Subset
<1> HIDE DEF S
<1>6. choice \in Seq(S) /\ DOMAIN choice = 1 .. Len(choice)
  BY <1>2, <1>5, Lists
<1>7. \A j \in 1 .. Len(choice) : choice[j] \in S /\ choice[j] \in Int
  BY <1>3, <1>6
<1>8. \A j, k \in 1 .. Len(choice) : choice[j] = choice[k] => j = k
  <2> TAKE j, k \in 1 .. Len(choice)
  <2> HAVE choice[j] = choice[k]
  <2>1. j < k \/ k < j \/ j = k
    OBVIOUS
  <2> QED BY <2>1, <1>2, <1>6, <1>7
<1>9. choice \in Seq(DOMAIN list)
  BY <1>3, <1>6
<1> QED BY <1>4, <1>6, <1>7, <1>8, <1>9

\* A block that is selected as a whole.
LEMMA WholeBlockProps ==
  ASSUME NEW s, s.pos = InitPos, NEW b \in Nums
  PROVE  WholeBlock(s, b) \in PartSet /\ WholeBlock(s, b).num = b
<1> DEFINE from == s.pos[b]
           to == BlockEnd(s, b)
<1>1. from \in Nat /\ to \in Nat
  BY BlockPlaces, Positions
<1>2. WholeBlock(s, b) = [num |-> b, from |-> from, to |-> to]
  BY DEF WholeBlock
<1> HIDE DEF from, to
<1> QED BY <1>1, <1>2 DEF PartSet

\* find_blocks selects blocks of one chunk.
LEMMA FindBlocksStep ==
  ASSUME IInv, NEW u \in Uploaders, FindBlocks(u)
  PROVE  IInv' /\ (Short(swarmer, up) => Short(swarmer', up'))
<1> DEFINE list == up[u].complete
<1>1. PICK choice \in BlockChoices(swarmer, u) :
        Select(u, [i \in DOMAIN choice |-> WholeBlock(swarmer, up[u].complete[choice[i]])],
               Permuted(up[u].complete, choice), up[u].partial)
  BY DEF FindBlocks
<1>2. up[u].declared /\ disk' = disk
  BY DEF FindBlocks
<1>3. swarmer.pos = InitPos
  BY DEF IInv, Sound, Shape
<1>4. /\ list \in Seq(Nums) /\ IsInjective(list) /\ up[u].partial \in Seq(PartSet)
      /\ \A i, j \in 1 .. Len(list) : list[i] = list[j] => i = j
  <2>1. list \in Seq(Nums) /\ IsInjective(list) /\ up[u].partial \in Seq(PartSet)
    BY UpFacts DEF IInv, Enlisted
  <2> QED BY <2>1, SeqFacts
<1>5. /\ choice \in Seq(DOMAIN list) /\ DOMAIN choice = 1 .. Len(choice)
      /\ \A i \in 1 .. Len(choice) : Downloadable(swarmer, list[choice[i]])
      /\ \A i, j \in 1 .. Len(choice) : choice[i] = choice[j] => i = j
  BY <1>4, ChoiceProps
<1> DEFINE parts == [i \in DOMAIN choice |-> WholeBlock(swarmer, list[choice[i]])]
           complete == Permuted(list, choice)
<1>6. Len(choice) \in Nat /\ \A i \in 1 .. Len(choice) : choice[i] \in 1 .. Len(list)
  <2>1. DOMAIN list = 1 .. Len(list)
    BY <1>4
  <2> HIDE DEF list
  <2> QED BY <1>5, <2>1
<1>7. complete \in Seq(Nums) /\ IsInjective(complete)
  BY <1>4, <1>6, PermutedProps
<1>8. Select(u, parts, complete, up[u].partial)
  BY <1>1
<1>9. ASSUME NEW i \in 1 .. Len(choice)
      PROVE  parts[i] \in PartSet /\ parts[i].num = list[choice[i]] /\ Downloadable(swarmer, parts[i].num)
  <2>1. list[choice[i]] \in Nums
    BY <1>4, <1>6
  <2>2. parts[i] = WholeBlock(swarmer, list[choice[i]])
    BY <1>5
  <2> HIDE DEF parts, list
  <2>3. parts[i] \in PartSet /\ parts[i].num = list[choice[i]]
    BY <1>3, <2>1, <2>2, WholeBlockProps
  <2> QED BY <1>5, <2>3
<1>10. parts \in Seq(PartSet) /\ Len(parts) = Len(choice)
  <2>1. parts = [i \in 1 .. Len(choice) |-> parts[i]]
    BY <1>5
  <2> HIDE DEF parts
  <2> QED BY <2>1, <1>6, <1>9
<1> HIDE DEF parts, complete
<1>11. \A i, j \in 1 .. Len(parts) : parts[i].num = parts[j].num => i = j
  <2> TAKE i, j \in 1 .. Len(parts)
  <2> HAVE parts[i].num = parts[j].num
  <2> HIDE DEF list
  <2>1. i \in 1 .. Len(choice) /\ j \in 1 .. Len(choice)
    BY <1>10
  <2>2. list[choice[i]] = list[choice[j]]
    BY <1>9, <2>1, Zenon
  <2>3. choice[i] = choice[j]
    BY <1>4, <1>6, <2>1, <2>2, Zenon
  <2> QED BY <1>5, <2>1, <2>3, Zenon
<1>12. \A i \in 1 .. Len(parts) : Downloadable(swarmer, parts[i].num)
  BY <1>9, <1>10
<1> QED BY <1>2, <1>4, <1>7, <1>8, <1>10, <1>11, <1>12, SelectStep

\* linear_select_blocks selects one block or a part of one, or none.
LEMMA FindBlocksLinearStep ==
  ASSUME IInv, NEW u \in Uploaders, FindBlocksLinear(u)
  PROVE  IInv' /\ (Short(swarmer, up) => Short(swarmer', up'))
<1> DEFINE list == up[u].complete
           part == up[u].partial
           nums == [k \in DOMAIN part |-> part[k].num]
<1>1. PICK i \in 0 .. Len(list), j \in 0 .. Len(part) :
        /\ LastToDo(swarmer, list, i) /\ LastToDo(swarmer, nums, j)
        /\ \/ i > 0 /\ Select(u, <<WholeBlock(swarmer, list[i])>>, SubSeq(list, 1, i - 1), part)
           \/ i = 0 /\ j > 0 /\ Select(u, <<part[j]>>, <<>>, SubSeq(part, 1, j - 1))
           \/ i = 0 /\ j = 0 /\ Select(u, <<>>, <<>>, <<>>)
  BY DEF FindBlocksLinear
<1>2. up[u].declared /\ disk' = disk
  BY DEF FindBlocksLinear
<1>3. swarmer.pos = InitPos
  BY DEF IInv, Sound, Shape
<1>4. list \in Seq(Nums) /\ IsInjective(list) /\ part \in Seq(PartSet)
  BY UpFacts DEF IInv, Enlisted
<1>5. <<>> \in Seq(PartSet) /\ <<>> \in Seq(Nums) /\ IsInjective(<<>>) /\ Len(<<>>) = 0
  BY EmptyFacts
<1>6. \A x \in PartSet : /\ <<x>> \in Seq(PartSet) /\ Len(<<x>>) = 1
                         /\ \A k \in 1 .. Len(<<x>>) : <<x>>[k] = x
  OBVIOUS
<1>7. CASE i > 0 /\ Select(u, <<WholeBlock(swarmer, list[i])>>, SubSeq(list, 1, i - 1), part)
  <2> DEFINE x == WholeBlock(swarmer, list[i])
             rest == SubSeq(list, 1, i - 1)
  <2>1. list[i] \in Nums /\ Downloadable(swarmer, list[i])
    BY <1>1, <1>4, <1>7 DEF LastToDo
  <2>2. x \in PartSet /\ x.num = list[i]
    BY <1>3, <2>1, WholeBlockProps
  <2>3. rest \in Seq(Nums) /\ Len(rest) = i - 1 /\ \A k \in 1 .. i - 1 : rest[k] = list[k]
    BY <1>4, <1>7
  <2>4. IsInjective(rest)
    <3>1. \A k, l \in 1 .. Len(list) : list[k] = list[l] => k = l
      BY <1>4, SeqFacts
    <3>2. \A k \in 1 .. i - 1 : k \in 1 .. Len(list)
      OBVIOUS
    <3> HIDE DEF rest, list
    <3>3. \A k, l \in 1 .. Len(rest) : rest[k] = rest[l] => k = l
      BY <2>3, <3>1, <3>2
    <3> QED BY <2>3, <3>3, SeqFacts
  <2>5. Select(u, <<x>>, rest, part)
    BY <1>7
  <2>6. Downloadable(swarmer, x.num)
    BY <2>1, <2>2
  <2> HIDE DEF x, rest, part, list
  <2>7. /\ <<x>> \in Seq(PartSet)
        /\ \A k \in 1 .. Len(<<x>>) : Downloadable(swarmer, <<x>>[k].num)
        /\ \A k, l \in 1 .. Len(<<x>>) : <<x>>[k].num = <<x>>[l].num => k = l
    BY <1>6, <2>2, <2>6
  <2> QED BY <1>2, <1>4, <2>3, <2>4, <2>5, <2>7, SelectStep
<1>8. CASE i = 0 /\ j > 0 /\ Select(u, <<part[j]>>, <<>>, SubSeq(part, 1, j - 1))
  <2> DEFINE x == part[j]
             rest == SubSeq(part, 1, j - 1)
  <2>1. x \in PartSet /\ j \in DOMAIN part
    BY <1>4, <1>8
  <2>2. Downloadable(swarmer, x.num)
    <3>1. Downloadable(swarmer, nums[j])
      BY <1>1, <1>8 DEF LastToDo
    <3> QED BY <2>1, <3>1
  <2>3. rest \in Seq(PartSet)
    BY <1>4, <1>8
  <2>4. Select(u, <<x>>, <<>>, rest)
    BY <1>8
  <2> HIDE DEF x, rest, part, list
  <2>5. /\ <<x>> \in Seq(PartSet)
        /\ \A k \in 1 .. Len(<<x>>) : Downloadable(swarmer, <<x>>[k].num)
        /\ \A k, l \in 1 .. Len(<<x>>) : <<x>>[k].num = <<x>>[l].num => k = l
    BY <1>6, <2>1, <2>2
  <2> QED BY <1>2, <1>5, <2>3, <2>4, <2>5, SelectStep
<1>9. CASE i = 0 /\ j = 0 /\ Select(u, <<>>, <<>>, <<>>)
  <2>1. /\ \A k \in 1 .. Len(<<>>) : Downloadable(swarmer, <<>>[k].num)
        /\ \A k, l \in 1 .. Len(<<>>) : <<>>[k].num = <<>>[l].num => k = l
    BY <1>5
  <2> QED BY <1>2, <1>5, <1>9, <2>1, SelectStep
<1> QED BY <1>1, <1>7, <1>8, <1>9

-----------------------------------------------------------------------------
(* received *)

\* What filling the ranges R up to the offset to changes, of which those in over end.
FilledBy(s, t, R, to, over) ==
    /\ Shape(t) /\ t.blocks = s.blocks /\ t.nuploading = s.nuploading
    /\ \A o \in ObjIds : /\ t.obj[o].num = s.obj[o].num
                         /\ t.obj[o].from = s.obj[o].from /\ t.obj[o].to = s.obj[o].to
                         /\ t.obj[o].chain = Without(s.obj[o].chain, over)
    /\ \A r \in RangeIds :
         /\ t.range[r].from = IF r \in R THEN (IF r \in over THEN s.range[r].to ELSE to)
                              ELSE s.range[r].from
         /\ t.range[r].to = s.range[r].to /\ t.range[r].nup = s.range[r].nup
         /\ t.range[r].owner = s.range[r].owner

LEMMA FilledFields ==
  ASSUME NEW s, Shape(s), NEW R, R \subseteq RangeIds, NEW to \in Nat
  PROVE  FilledBy(s, Filled(s, R, to), R, to, {r \in R : s.range[r].to <= to})
<1> DEFINE over == {r \in R : s.range[r].to <= to}
           got(o, Q) == Cardinality(Bytes(s, {r \in Q : s.range[r].owner = o}) \cap (0 .. to - 1))
           t == Filled(s, R, to)
           range == [r \in RangeIds |->
                       IF r \in R THEN [s.range[r] EXCEPT !.from = Min({to, s.range[r].to})]
                       ELSE s.range[r]]
           obj == [o \in ObjIds |-> [s.obj[o] EXCEPT !.chain = Without(s.obj[o].chain, over)]]
           rem == [o \in ObjIds |-> s.remaining[o] - got(o, R)]
           uns == [o \in ObjIds |-> s.unselected[o] - got(o, {r \in R : s.range[r].nup = 0})]
<1>1. t = [s EXCEPT !.range = range, !.obj = obj, !.remaining = rem, !.unselected = uns]
  BY Zenon DEF Filled
<1>2. ASSUME NEW r \in RangeIds
      PROVE  /\ range[r] \in RangeSet
             /\ range[r].from = IF r \in R THEN (IF r \in over THEN s.range[r].to ELSE to)
                                ELSE s.range[r].from
             /\ range[r].to = s.range[r].to /\ range[r].nup = s.range[r].nup
             /\ range[r].owner = s.range[r].owner
  <2>1. s.range[r] \in RangeSet
    BY DEF Shape
  <2> DEFINE end == s.range[r].to
             m == Min({to, end})
  <2>2. end \in Nat
    BY <2>1 DEF RangeSet
  <2>3. m = IF to <= end THEN to ELSE end
    <3> HIDE DEF end
    <3>1. end \in Int /\ to \in Int
      BY <2>2
    <3> QED BY <3>1, MinMax
  <2>4. r \in R => (r \in over <=> end <= to)
    OBVIOUS
  <2>5. m \in Nat /\ (r \in R => m = IF r \in over THEN end ELSE to)
    <3> HIDE DEF m, end, over
    <3> QED BY <2>2, <2>3, <2>4
  <2>6. range[r] = IF r \in R THEN [s.range[r] EXCEPT !.from = m] ELSE s.range[r]
    OBVIOUS
  <2> HIDE DEF m, over, range
  <2> QED BY <2>1, <2>5, <2>6 DEF RangeSet
<1> HIDE DEF over
<1>3. ASSUME NEW o \in ObjIds
      PROVE  /\ obj[o] \in ObjSet
             /\ obj[o].num = s.obj[o].num
             /\ obj[o].from = s.obj[o].from /\ obj[o].to = s.obj[o].to
             /\ obj[o].chain = Without(s.obj[o].chain, over)
  <2> DEFINE chain == Without(s.obj[o].chain, over)
  <2>1. s.obj[o] \in ObjSet /\ s.obj[o].chain \in Seq(RangeIds)
    BY InList DEF Shape
  <2>2. chain \in Seq(RangeIds)
    BY <2>1, WithoutDrops
  <2>3. obj[o] = [s.obj[o] EXCEPT !.chain = chain]
    OBVIOUS
  <2> HIDE DEF chain, obj
  <2>4. /\ obj[o] \in ObjSet /\ obj[o].chain = chain
        /\ obj[o].num = s.obj[o].num
        /\ obj[o].from = s.obj[o].from /\ obj[o].to = s.obj[o].to
    BY <2>1, <2>2, <2>3 DEF ObjSet
  <2> QED BY <2>4 DEF chain
<1>4. range \in [RangeIds -> RangeSet] /\ obj \in [ObjIds -> ObjSet]
  <2>1. obj = [o \in ObjIds |-> obj[o]] /\ range = [r \in RangeIds |-> range[r]]
    OBVIOUS
  <2> HIDE DEF obj, range
  <2> QED BY <2>1, <1>2, <1>3
<1> HIDE DEF range, obj, rem, uns, t
<1>5. /\ DOMAIN t = Fields /\ t.pos = InitPos /\ t.blocks = s.blocks /\ t.obj = obj
      /\ t.range = range /\ t.nuploading = s.nuploading
  BY <1>1 DEF Shape, Fields
<1>6. Shape(t)
  BY <1>4, <1>5 DEF Shape
<1> QED BY <1>2, <1>3, <1>5, <1>6 DEF FilledBy, t, over

\* Two ranges of a list have no byte in common.
LEMMA OneRange ==
  ASSUME NEW s, Shape(s), Linked(s), NEW o \in ObjIds, NEW i \in 1 .. Len(s.obj[o].chain),
         NEW j \in 1 .. Len(s.obj[o].chain), NEW x \in Int, InRange(s, s.obj[o].chain[i], x),
         InRange(s, s.obj[o].chain[j], x)
  PROVE  i = j
<1> DEFINE a == s.obj[o].chain
<1>1. \A k \in 1 .. Len(a) : s.range[a[k]].from \in Nat /\ s.range[a[k]].to \in Nat
  <2>1. \A r \in RangeIds : s.range[r].from \in Nat /\ s.range[r].to \in Nat
    BY DEF Shape, RangeSet
  <2>2. \A k \in 1 .. Len(a) : a[k] \in RangeIds
    BY InList DEF Shape
  <2> HIDE DEF a
  <2> QED BY <2>1, <2>2
<1>2. \A k, l \in 1 .. Len(a) : k < l => s.range[a[k]].to <= s.range[a[l]].from
  BY Zenon DEF Linked
<1>3. /\ s.range[a[i]].from <= x /\ x < s.range[a[i]].to
      /\ s.range[a[j]].from <= x /\ x < s.range[a[j]].to
      /\ i \in 1 .. Len(a) /\ j \in 1 .. Len(a)
  BY DEF InRange
<1> HIDE DEF a
<1>4. \A k, l \in 1 .. Len(a) :
         k < l => ~ (x < s.range[a[k]].to /\ s.range[a[l]].from <= x)
  <2> TAKE k, l \in 1 .. Len(a)
  <2> HAVE k < l
  <2>1. s.range[a[k]].to <= s.range[a[l]].from
    BY <1>2, Zenon
  <2>2. s.range[a[k]].to \in Nat /\ s.range[a[l]].from \in Nat
    BY <1>1
  <2> QED BY <2>1, <2>2
<1>5. ~ (i < j) /\ ~ (j < i)
  BY <1>3, <1>4, Zenon
<1> QED BY <1>3, <1>5

\* Where a range of a list is.
Placed(s, o, r) ==
    /\ s.obj[o].num \in Nums /\ s.blocks[s.obj[o].num].obj = o
    /\ s.blocks[s.obj[o].num].kind = "Partial"
    /\ s.range[r].owner = o /\ s.range[r].from \in Nat /\ s.range[r].to \in Nat
    /\ InitPos[s.obj[o].num] <= s.range[r].from /\ s.range[r].from < s.range[r].to
    /\ s.range[r].to <= End(s.obj[o].num)
LEMMA RangePlace ==
  ASSUME NEW s, Shape(s), Owned(s), Linked(s), NEW o \in ObjIds, NEW i \in 1 .. Len(s.obj[o].chain)
  PROVE  Placed(s, o, s.obj[o].chain[i])
<1> DEFINE r == s.obj[o].chain[i]
<1>1. /\ s.obj[o].num \in Nums /\ s.blocks[s.obj[o].num].obj = o
      /\ s.range[r].owner = o
      /\ s.obj[o].from <= s.range[r].from /\ s.range[r].from < s.range[r].to
      /\ s.range[r].to <= s.obj[o].to
  BY DEF Linked
<1>2. r \in RangeIds
  BY InList DEF Shape
<1>3. s.range[r].from \in Nat /\ s.range[r].to \in Nat
  BY <1>2 DEF Shape, RangeSet
<1>4. /\ s.blocks[s.obj[o].num].kind = "Partial"
      /\ s.obj[o].from = InitPos[s.obj[o].num] /\ s.obj[o].to = End(s.obj[o].num)
  <2> DEFINE b == s.obj[o].num
  <2>1. b \in Nums /\ s.blocks[b].obj = o
    BY <1>1
  <2> HIDE DEF b
  <2>2. s.blocks[b].kind = "Partial" /\ s.obj[o].from = InitPos[b] /\ s.obj[o].to = End(b)
    BY <2>1, Zenon DEF Owned
  <2> QED BY <2>2 DEF b
<1> HIDE DEF r
<1>5. Placed(s, o, r)
  BY <1>1, <1>3, <1>4 DEF Placed
<1> QED BY <1>5 DEF r

\* The data fills the beginnings of open ranges: exactly the bytes that arrive do not
\* miss any more.
LEMMA FilledSound ==
  ASSUME NEW s, NEW v, NEW d, Sound(s, v, d), UpShape(v), NEW R, R \subseteq RangeIds,
         NEW from \in Nat, NEW to \in Nat,
         \A r \in R : /\ from <= s.range[r].from /\ s.range[r].from < to
                      /\ s.range[r].owner \in ObjIds /\ r \in ToSet(s.obj[s.range[r].owner].chain),
         NEW t, FilledBy(s, t, R, to, {r \in R : s.range[r].to <= to})
  PROVE  Sound(t, v, d \cup (Bytes(s, R) \cap (from .. to - 1)))
<1> DEFINE over == {r \in R : s.range[r].to <= to}
           G == Bytes(s, R) \cap (from .. to - 1)
<1>1. /\ Shape(s) /\ Owned(s) /\ Linked(s) /\ OnDisk(s, d) /\ HeldLive(s, v) /\ EntriesLive(s, v)
  BY DEF Sound
<1>2. \A r \in R : r \in RangeIds /\ (r \in over <=> s.range[r].to <= to)
  OBVIOUS
<1>3. over \subseteq R
  OBVIOUS
<1>4. FilledBy(s, t, R, to, over)
  OBVIOUS
<1> HIDE DEF over
<1>5. /\ Shape(t) /\ t.blocks = s.blocks
      /\ \A o \in ObjIds : /\ t.obj[o].num = s.obj[o].num
                           /\ t.obj[o].from = s.obj[o].from /\ t.obj[o].to = s.obj[o].to
                           /\ t.obj[o].chain = Without(s.obj[o].chain, over)
      /\ \A r \in RangeIds :
           /\ t.range[r].from = IF r \in R THEN (IF r \in over THEN s.range[r].to ELSE to)
                                ELSE s.range[r].from
           /\ t.range[r].to = s.range[r].to /\ t.range[r].owner = s.range[r].owner
  BY <1>4 DEF FilledBy
<1>6. \A r \in RangeIds : s.range[r].from \in Nat /\ s.range[r].to \in Nat
  BY <1>1 DEF Shape, RangeSet
<1>7. \A r \in RangeIds : r \notin over =>
         /\ s.range[r].from <= t.range[r].from
         /\ r \in R => t.range[r].from = to /\ to < s.range[r].to
         /\ r \notin R => t.range[r].from = s.range[r].from
  BY <1>2, <1>5, <1>6
<1>8. Owned(t)
  <2> SUFFICES ASSUME NEW b \in Nums
               PROVE  /\ t.blocks[b].kind = "Partial" <=> t.blocks[b].obj \in ObjIds
                      /\ t.blocks[b].obj \in ObjIds =>
                            /\ t.obj[t.blocks[b].obj].num = b
                            /\ t.obj[t.blocks[b].obj].from = InitPos[b]
                            /\ t.obj[t.blocks[b].obj].to = End(b)
    BY DEF Owned
  <2> QED BY <1>1, <1>5 DEF Owned
<1>9. ASSUME NEW o \in ObjIds
      PROVE  /\ s.obj[o].chain \in Seq(RangeIds) /\ Len(s.obj[o].chain) \in Nat
             /\ \A i \in 1 .. Len(s.obj[o].chain) : s.obj[o].chain[i] \in RangeIds
             /\ Len(t.obj[o].chain) \in Nat
             /\ Drops(t.obj[o].chain, s.obj[o].chain, over, Len(s.obj[o].chain))
             /\ ToSet(t.obj[o].chain) = ToSet(s.obj[o].chain) \ over
  <2> DEFINE a == s.obj[o].chain
             w == Without(a, over)
  <2>1. /\ a \in Seq(RangeIds) /\ Len(a) \in Nat
        /\ \A i \in 1 .. Len(a) : a[i] \in RangeIds
    BY <1>1, InList DEF Shape
  <2>2. t.obj[o].chain = w
    BY <1>5
  <2> HIDE DEF a
  <2>3. w \in Seq(RangeIds) /\ Drops(w, a, over, Len(a)) /\ ToSet(w) = ToSet(a) \ over
    BY <2>1, WithoutDrops, WithoutProps
  <2> HIDE DEF w
  <2>4. Len(w) \in Nat
    BY <2>3
  <2> QED BY <2>1, <2>2, <2>3, <2>4 DEF a
<1>10. Linked(t)
  <2> SUFFICES ASSUME NEW o \in ObjIds, NEW i \in 1 .. Len(t.obj[o].chain)
               PROVE  LET r == t.range[t.obj[o].chain[i]] IN
        /\ t.obj[o].num \in Nums /\ t.blocks[t.obj[o].num].obj = o
        /\ r.owner = o
        /\ t.obj[o].from <= r.from /\ r.from < r.to /\ r.to <= t.obj[o].to
        /\ \A j \in 1 .. Len(t.obj[o].chain) : i < j => r.to <= t.range[t.obj[o].chain[j]].from
    BY Zenon DEF Linked
  <2> DEFINE a == s.obj[o].chain
             w == t.obj[o].chain
  <2>1. PICK f \in [1 .. Len(w) -> 1 .. Len(a)] :
           /\ \A k \in 1 .. Len(w) : w[k] = a[f[k]] /\ a[f[k]] \notin over
           /\ \A k, l \in 1 .. Len(w) : k < l => f[k] < f[l]
    BY <1>9 DEF Drops
  <2>2. \A k \in 1 .. Len(w) : f[k] \in 1 .. Len(a) /\ a[f[k]] \in RangeIds
    BY <1>9
  <2>3. \A k \in 1 .. Len(a) :
           /\ s.obj[o].num \in Nums /\ s.blocks[s.obj[o].num].obj = o
           /\ s.range[a[k]].owner = o
           /\ s.obj[o].from <= s.range[a[k]].from /\ s.range[a[k]].to <= s.obj[o].to
           /\ \A l \in 1 .. Len(a) : k < l => s.range[a[k]].to <= s.range[a[l]].from
    BY <1>1, Zenon DEF Linked
  <2>4. \A k \in 1 .. Len(w) : /\ w[k] \in RangeIds /\ w[k] \notin over
                               /\ s.range[w[k]].from <= t.range[w[k]].from
                               /\ t.range[w[k]].from < s.range[w[k]].to
                               /\ t.range[w[k]].to = s.range[w[k]].to
                               /\ t.range[w[k]].owner = s.range[w[k]].owner
    <3>1. \A k \in 1 .. Len(w) : s.range[w[k]].from < s.range[w[k]].to
      BY <1>1, <2>1, <2>2, Zenon DEF Linked
    <3> HIDE DEF w, a
    <3> TAKE k \in 1 .. Len(w)
    <3>2. w[k] \in RangeIds /\ w[k] \notin over
      BY <2>1, <2>2, Zenon
    <3> QED BY <1>5, <1>7, <3>1, <3>2, Zenon
  <2>5. /\ t.obj[o].num = s.obj[o].num /\ t.obj[o].from = s.obj[o].from
        /\ t.obj[o].to = s.obj[o].to /\ t.blocks = s.blocks
    BY <1>5
  <2>6. s.obj[o].from \in Nat
    BY <1>1 DEF Shape, ObjSet
  <2>7. \A j \in 1 .. Len(w) : /\ s.range[w[j]].from \in Nat /\ s.range[w[j]].to \in Nat
                               /\ t.range[w[j]].from \in Nat
    BY <1>5, <1>6, <2>4, Zenon DEF Shape, RangeSet
  <2>8. i \in 1 .. Len(w)
    BY DEF w
  <2> HIDE DEF w, a
  <2>9. /\ s.obj[o].num \in Nums /\ s.blocks[s.obj[o].num].obj = o
        /\ s.range[w[i]].owner = o
        /\ s.obj[o].from <= s.range[w[i]].from /\ s.range[w[i]].to <= s.obj[o].to
    BY <2>1, <2>2, <2>8, <2>3
  <2>10. ASSUME NEW j \in 1 .. Len(w), i < j
        PROVE  t.range[w[i]].to <= t.range[w[j]].from
    <3>1. f[i] \in 1 .. Len(a) /\ f[j] \in 1 .. Len(a) /\ f[i] < f[j]
      BY <2>1, <2>2, <2>10, <2>8
    <3>2. s.range[w[i]].to <= s.range[w[j]].from
      BY <2>1, <2>8, <2>3, <3>1
    <3>3. t.range[w[i]].to = s.range[w[i]].to /\ s.range[w[j]].from <= t.range[w[j]].from
      BY <2>4, <2>8
    <3> QED BY <2>7, <2>8, <3>2, <3>3
  <2>11. /\ s.obj[o].from <= t.range[w[i]].from /\ t.range[w[i]].from < t.range[w[i]].to
         /\ t.range[w[i]].to <= s.obj[o].to
    BY <2>4, <2>9, <2>6, <2>7, <2>8
  <2> QED BY <2>4, <2>9, <2>10, <2>5, <2>8, <2>11, Zenon DEF w
<1>11. ASSUME NEW r \in R
       PROVE  \E i \in 1 .. Len(s.obj[s.range[r].owner].chain) :
                 s.obj[s.range[r].owner].chain[i] = r
  BY <1>9, SeqFacts
<1>12. ASSUME NEW x \in G
       PROVE  \E o \in ObjIds : \E i \in 1 .. Len(s.obj[o].chain) :
                 s.obj[o].chain[i] \in R /\ InRange(s, s.obj[o].chain[i], x)
  <2>1. PICK r \in R : x \in s.range[r].from .. s.range[r].to - 1
    BY <1>12 DEF Bytes
  <2>2. InRange(s, r, x)
    BY <1>6, <2>1 DEF InRange
  <2>3. PICK i \in 1 .. Len(s.obj[s.range[r].owner].chain) : s.obj[s.range[r].owner].chain[i] = r
    BY <1>11
  <2> QED BY <2>2, <2>3
<1>13. OnDisk(t, d \cup G)
  <2> SUFFICES ASSUME NEW b \in Nums, NEW x \in InitPos[b] .. End(b) - 1
               PROVE  x \in d \cup G <=> ~ Misses(t, b, x)
    BY DEF OnDisk
  <2>1. x \in d <=> ~ Misses(s, b, x)
    BY <1>1 DEF OnDisk
  <2>2. x \in Int
    OBVIOUS
  <2>3. ASSUME x \in G
        PROVE  /\ s.blocks[b].obj \in ObjIds /\ s.blocks[b].kind # "Empty"
               /\ \E i \in 1 .. Len(s.obj[s.blocks[b].obj].chain) :
                     /\ s.obj[s.blocks[b].obj].chain[i] \in R
                     /\ InRange(s, s.obj[s.blocks[b].obj].chain[i], x)
    <3>1. PICK o \in ObjIds : \E i \in 1 .. Len(s.obj[o].chain) :
             s.obj[o].chain[i] \in R /\ InRange(s, s.obj[o].chain[i], x)
      BY <1>12, <2>3
    <3>2. PICK i \in 1 .. Len(s.obj[o].chain) :
             s.obj[o].chain[i] \in R /\ InRange(s, s.obj[o].chain[i], x)
      BY <3>1
    <3> DEFINE n == s.obj[o].num
               r == s.range[s.obj[o].chain[i]]
    <3>3. /\ n \in Nums /\ s.blocks[n].obj = o /\ s.blocks[n].kind = "Partial"
          /\ InitPos[n] <= r.from /\ r.to <= End(n) /\ r.from \in Nat /\ r.to \in Nat
      <4>1. Placed(s, o, s.obj[o].chain[i])
        BY <1>1, RangePlace, Zenon
      <4> QED BY <4>1, Zenon DEF Placed
    <3>4. r.from <= x /\ x < r.to
      BY <3>2 DEF InRange
    <3>5. InitPos[n] \in Nat /\ End(n) \in Nat
      BY <3>3, Positions
    <3> HIDE DEF n, r
    <3>6. x \in InitPos[n] .. End(n) - 1
      BY <2>2, <3>3, <3>4, <3>5
    <3>7. n = b
      BY <3>3, <3>6, OneBlock
    <3> QED BY <3>2, <3>3, <3>7
  <2>4. CASE s.blocks[b].kind = "Empty"
    BY <1>5, <2>1, <2>3, <2>4 DEF Misses
  <2>5. CASE s.blocks[b].kind # "Empty" /\ s.blocks[b].obj \notin ObjIds
    BY <1>5, <2>1, <2>5 DEF Misses
  <2>6. CASE s.blocks[b].kind # "Empty" /\ s.blocks[b].obj \in ObjIds
    <3> DEFINE o == s.blocks[b].obj
               a == s.obj[o].chain
               w == t.obj[o].chain
    <3>1. PICK f \in [1 .. Len(w) -> 1 .. Len(a)] :
             /\ \A k \in 1 .. Len(w) : w[k] = a[f[k]] /\ a[f[k]] \notin over
             /\ \A k \in 1 .. Len(a) : a[k] \notin over => \E i \in 1 .. Len(w) : f[i] = k
      BY <1>9, <2>6, Zenon DEF Drops
    <3>2. \A k \in 1 .. Len(a) : a[k] \in RangeIds
      BY <1>9, <2>6
    <3>3. /\ InChain(t, o, x) <=> \E i \in 1 .. Len(w) : InRange(t, w[i], x)
          /\ InChain(s, o, x) <=> \E k \in 1 .. Len(a) : InRange(s, a[k], x)
      BY DEF InChain
    <3>4. x \in G <=> x \in Bytes(s, R) /\ from <= x /\ x < to
      BY <2>2
    <3>5. x \in G => \E k \in 1 .. Len(a) : a[k] \in R /\ InRange(s, a[k], x)
      BY <2>3, Zenon
    <3>6. \A i, k \in 1 .. Len(a) : InRange(s, a[i], x) /\ InRange(s, a[k], x) => i = k
      BY <1>1, <2>2, <2>6, OneRange, Zenon
    <3>7. ASSUME NEW r \in RangeIds
          PROVE  /\ InRange(s, r, x) <=> s.range[r].from <= x /\ x < s.range[r].to
                 /\ InRange(t, r, x) <=> t.range[r].from <= x /\ x < s.range[r].to
                 /\ s.range[r].from \in Nat /\ s.range[r].to \in Nat /\ t.range[r].from \in Nat
                 /\ r \in R /\ InRange(s, r, x) => x \in Bytes(s, R) /\ from <= x
      <4>1. s.range[r].from \in Nat /\ s.range[r].to \in Nat /\ t.range[r].from \in Nat
        BY <1>5, <1>6 DEF Shape, RangeSet
      <4>2. /\ InRange(s, r, x) <=> s.range[r].from <= x /\ x < s.range[r].to
            /\ InRange(t, r, x) <=> t.range[r].from <= x /\ x < s.range[r].to
        BY <1>5 DEF InRange
      <4>3. ASSUME r \in R, InRange(s, r, x) PROVE x \in Bytes(s, R) /\ from <= x
        <5>1. x \in s.range[r].from .. s.range[r].to - 1
          BY <2>2, <4>1, <4>2, <4>3
        <5>2. from <= s.range[r].from
          BY <4>3
        <5>3. from <= x
          BY <2>2, <4>1, <4>2, <4>3, <5>2
        <5> QED BY <4>3, <5>1, <5>3 DEF Bytes
      <4> QED BY <4>1, <4>2, <4>3
    <3>8. \A r \in RangeIds : r \notin over =>
             /\ s.range[r].from <= t.range[r].from
             /\ r \in R => t.range[r].from = to
             /\ r \notin R => t.range[r].from = s.range[r].from
      BY <1>7
    <3>9. \A r \in over : r \in R /\ s.range[r].to <= to
      BY <1>2, <1>3
    <3> HIDE DEF a, w, o, G
    <3>10. ASSUME InChain(t, o, x) PROVE InChain(s, o, x) /\ x \notin G
      <4>1. PICK i \in 1 .. Len(w) : InRange(t, w[i], x)
        BY <3>10, <3>3
      <4>2. f[i] \in 1 .. Len(a) /\ w[i] = a[f[i]] /\ w[i] \notin over /\ w[i] \in RangeIds
        BY <3>1, <3>2
      <4>3. InRange(s, w[i], x) /\ (w[i] \in R => to <= x)
        BY <2>2, <3>7, <3>8, <4>1, <4>2
      <4>4. InChain(s, o, x)
        BY <3>3, <4>2, <4>3
      <4>5. ASSUME x \in G PROVE FALSE
        <5>1. PICK k \in 1 .. Len(a) : a[k] \in R /\ InRange(s, a[k], x)
          BY <3>5, <4>5
        <5>2. k = f[i]
          BY <3>6, <4>2, <4>3, <5>1
        <5>3. to <= x /\ x < to
          BY <3>4, <4>2, <4>3, <4>5, <5>1, <5>2
        <5> QED BY <2>2, <5>3
      <4> QED BY <4>4, <4>5
    <3>11. ASSUME InChain(s, o, x), x \notin G PROVE InChain(t, o, x)
      <4>1. PICK k \in 1 .. Len(a) : InRange(s, a[k], x)
        BY <3>11, <3>3
      <4>2. a[k] \in RangeIds
        BY <3>2
      <4>3. a[k] \in R => to <= x
        BY <2>2, <3>11, <3>4, <3>7, <4>1, <4>2
      <4>4. a[k] \notin over
        BY <2>2, <3>7, <3>9, <4>1, <4>2, <4>3
      <4>5. InRange(t, a[k], x)
        BY <3>7, <3>8, <4>1, <4>2, <4>3, <4>4
      <4>6. PICK i \in 1 .. Len(w) : f[i] = k
        BY <3>1, <4>4
      <4>7. w[i] = a[k]
        BY <3>1, <4>6
      <4> QED BY <3>3, <4>5, <4>7
    <3>12. InChain(t, o, x) <=> InChain(s, o, x) /\ x \notin G
      BY <3>10, <3>11
    <3>13. t.blocks[b] = s.blocks[b]
      BY <1>5
    <3> QED BY <2>1, <2>6, <3>12, <3>13 DEF Misses, o
  <2> QED BY <2>4, <2>5, <2>6
<1>14. HeldLive(t, v)
  <2> SUFFICES ASSUME NEW u \in Uploaders, NEW r \in ToSet(v[u].ranges)
               PROVE  /\ t.range[r].owner \in ObjIds /\ t.obj[t.range[r].owner].num \in Nums
                      /\ t.range[r].from < t.range[r].to
                           => r \in ToSet(t.obj[t.range[r].owner].chain)
    BY DEF HeldLive
  <2> DEFINE o == s.range[r].owner
  <2>1. /\ r \in RangeIds /\ o \in ObjIds /\ s.obj[o].num \in Nums
        /\ s.range[r].from < s.range[r].to => r \in ToSet(s.obj[o].chain)
    BY <1>1, UpFacts DEF HeldLive
  <2>2. t.range[r].owner = o /\ t.obj[o].num \in Nums
    BY <1>5, <2>1
  <2>3. ASSUME t.range[r].from < t.range[r].to PROVE r \in ToSet(t.obj[o].chain)
    <3>1. s.range[r].to \in Nat /\ s.range[r].from \in Nat /\ t.range[r].from \in Nat
      BY <1>5, <1>6, <2>1 DEF Shape, RangeSet
    <3>2. t.range[r].to = s.range[r].to /\ (r \in over => t.range[r].from = s.range[r].to)
      BY <1>3, <1>5, <2>1
    <3>3. r \notin over
      BY <2>3, <3>1, <3>2
    <3>4. s.range[r].from < s.range[r].to
      BY <1>7, <2>1, <2>3, <3>1, <3>2, <3>3
    <3> QED BY <1>9, <2>1, <3>3, <3>4
  <2> HIDE DEF o
  <2> QED BY <2>1, <2>2, <2>3
<1>15. EntriesLive(t, v)
  <2>1. \A x \in EntrySet : x.obj \in ObjIds
    BY DEF EntrySet
  <2>2. \A u \in Uploaders : \A x \in ToSet(v[u].blocks) : x.obj \in ObjIds
    BY <2>1, UpFacts
  <2> QED BY <1>1, <1>5, <2>2 DEF EntriesLive
<1> QED BY <1>5, <1>8, <1>10, <1>13, <1>14, <1>15 DEF Sound

\* Filling ranges counts as before.
LEMMA FilledCounts ==
  ASSUME NEW s, NEW v, Shape(s), UpShape(v), NEW R, NEW to \in Nat, NEW over, NEW t,
         FilledBy(s, t, R, to, over), \A r \in R : s.range[r].from < to /\ r \in RangeIds
  PROVE  /\ Counted(s, v) => Counted(t, v)
         /\ Enlisted(s, v) => Enlisted(t, v)
         /\ Short(s, v) => Short(t, v)
<1>1. /\ t.nuploading = s.nuploading
      /\ \A o \in ObjIds : t.obj[o].num = s.obj[o].num
      /\ \A r \in RangeIds :
           /\ t.range[r].from = IF r \in R THEN (IF r \in over THEN s.range[r].to ELSE to)
                                ELSE s.range[r].from
           /\ t.range[r].to = s.range[r].to /\ t.range[r].nup = s.range[r].nup
  BY DEF FilledBy
<1>2. Counted(s, v) => Counted(t, v)
  BY <1>1 DEF Counted
<1>3. Enlisted(s, v) => Enlisted(t, v)
  BY <1>1, SameNums
<1>4. ASSUME Short(s, v) PROVE Short(t, v)
  <2> SUFFICES ASSUME NEW u \in Uploaders, NEW r \in ToSet(v[u].ranges)
               PROVE  t.range[r].to - t.range[r].from <= RangeSize[u]
    BY DEF Short
  <2>1. r \in RangeIds /\ RangeSize[u] \in Nat
    BY UpFacts, SizesAssumption
  <2>2. /\ s.range[r].to \in Nat /\ s.range[r].from \in Nat
        /\ s.range[r].to - s.range[r].from <= RangeSize[u]
    BY <1>4, <2>1 DEF Shape, RangeSet, Short
  <2>3. r \in R => s.range[r].from < to
    OBVIOUS
  <2> QED BY <1>1, <2>1, <2>2, <2>3
<1> QED BY <1>2, <1>3, <1>4

\* Data arrives from u.
LEMMA ReceivedStep ==
  ASSUME IInv, NEW u \in Uploaders, NEW from \in HeldBytes(u), NEW final \in HeldBytes(u),
         NEW k \in DOMAIN up[u].ranges, Received(u, from, final + 1, k)
  PROVE  IInv' /\ (Short(swarmer, up) => Short(swarmer', up'))
<1> DEFINE to == final + 1
           R == Takers(swarmer, {up[u].ranges[i] : i \in 1 .. k}, from, to)
           t == Filled(swarmer, R, to)
           ended == {r \in R : swarmer.range[r].to <= to
                                 /\ t.obj[swarmer.range[r].owner].chain = <<>>}
           B == {swarmer.obj[swarmer.range[r].owner].num : r \in ended}
           s == Completed(t, B)
           d == disk \cup (Bytes(swarmer, R) \cap (from .. to - 1))
           over == {r \in R : swarmer.range[r].to <= to}
           x == Release(s, Over(s, ToSet(up[u].ranges)))
           list == Opened(s, up[u].ranges)
           w == [up EXCEPT ![u].ranges = list]
<1>1. /\ UpShape(up) /\ Sound(swarmer, up, disk) /\ Counted(swarmer, up) /\ Enlisted(swarmer, up)
  BY DEF IInv
<1>2. s = RangesReceived(swarmer, R, to)
  BY Zenon DEF RangesReceived
<1>3. disk' = d /\ up' = w /\ swarmer' = Collect(x, w)
  BY <1>2, Zenon DEF Received, Held
<1>4. /\ Shape(swarmer) /\ Owned(swarmer) /\ Linked(swarmer) /\ HeldLive(swarmer, up)
  BY <1>1 DEF Sound
<1>5. up[u].ranges \in Seq(RangeIds) /\ \A i \in 1 .. k : up[u].ranges[i] \in ToSet(up[u].ranges)
  <2>1. up[u].ranges \in Seq(RangeIds)
    BY <1>1, UpFacts
  <2>2. \A i \in 1 .. k : i \in 1 .. Len(up[u].ranges)
    BY <2>1
  <2> QED BY <2>1, <2>2, SeqFacts
<1>6. from \in Nat /\ to \in Nat
  <2>1. ASSUME NEW y \in HeldBytes(u) PROVE y \in Nat
    <3>1. PICK r \in ToSet(up[u].ranges) : y \in swarmer.range[r].from .. swarmer.range[r].to - 1
      BY DEF HeldBytes, Held, Bytes
    <3>2. swarmer.range[r].from \in Nat /\ swarmer.range[r].to \in Nat
      <4>1. r \in RangeIds
        BY <1>1, UpFacts
      <4> QED BY <1>4, <4>1 DEF Shape, RangeSet
    <3> QED BY <3>1, <3>2
  <2> QED BY <2>1
<1> HIDE DEF to
<1>7. ASSUME NEW r \in R
      PROVE  /\ r \in RangeIds
             /\ from <= swarmer.range[r].from /\ swarmer.range[r].from < to
             /\ swarmer.range[r].owner \in ObjIds
             /\ r \in ToSet(swarmer.obj[swarmer.range[r].owner].chain)
  <2> DEFINE end == swarmer.range[r].to
             m == Min({to, end})
  <2>1. /\ r \in ToSet(up[u].ranges)
        /\ from <= swarmer.range[r].from /\ swarmer.range[r].from < m
    BY <1>5 DEF Takers
  <2>2. r \in RangeIds
    BY <1>1, <2>1, UpFacts
  <2>3. swarmer.range[r].from \in Nat /\ end \in Nat
    BY <1>4, <2>2 DEF Shape, RangeSet
  <2>4. m = IF to <= end THEN to ELSE end
    <3> HIDE DEF end
    <3>1. end \in Int /\ to \in Int
      BY <1>6, <2>3
    <3> QED BY <3>1, MinMax
  <2>5. swarmer.range[r].from < to /\ swarmer.range[r].from < end
    <3> HIDE DEF m, end
    <3> QED BY <1>6, <2>1, <2>3, <2>4
  <2> QED BY <1>4, <2>1, <2>2, <2>5 DEF HeldLive
<1> HIDE DEF R
<1>8. R \subseteq RangeIds
  BY <1>7
<1>9. FilledBy(swarmer, t, R, to, over)
  BY <1>4, <1>6, <1>8, FilledFields
<1> HIDE DEF t
<1>10. Sound(t, up, d)
  BY <1>1, <1>6, <1>7, <1>8, <1>9, FilledSound
<1>11. /\ Counted(t, up) /\ Enlisted(t, up)
       /\ Short(swarmer, up) => Short(t, up)
  <2> HIDE DEF over
  <2> QED BY <1>1, <1>4, <1>6, <1>7, <1>9, FilledCounts
<1>12. Shape(t) /\ t.blocks = swarmer.blocks
  BY <1>9 DEF FilledBy
<1>13. ASSUME NEW b \in B
       PROVE  /\ b \in Nums /\ Downloadable(t, b) /\ t.blocks[b].obj \in ObjIds
              /\ t.obj[t.blocks[b].obj].chain = <<>> /\ t.blocks[b].kind # "Empty"
  <2>1. PICK r \in R : /\ b = swarmer.obj[swarmer.range[r].owner].num
                       /\ t.obj[swarmer.range[r].owner].chain = <<>>
    OBVIOUS
  <2> DEFINE o == swarmer.range[r].owner
  <2>2. o \in ObjIds /\ r \in ToSet(swarmer.obj[o].chain)
    BY <1>7
  <2>3. PICK i \in 1 .. Len(swarmer.obj[o].chain) : r = swarmer.obj[o].chain[i]
    <3>1. swarmer.obj[o].chain \in Seq(RangeIds)
      BY <1>4, <2>2, InList DEF Shape
    <3> QED BY <2>2, <3>1, SeqFacts
  <2> HIDE DEF o
  <2>4. /\ swarmer.obj[o].num \in Nums /\ swarmer.blocks[swarmer.obj[o].num].obj = o
        /\ swarmer.blocks[swarmer.obj[o].num].kind = "Partial"
    <3>1. Placed(swarmer, o, swarmer.obj[o].chain[i])
      BY <1>4, <2>2, <2>3, RangePlace, Zenon
    <3> QED BY <3>1, Zenon DEF Placed
  <2> QED BY <1>12, <2>1, <2>2, <2>4, Zenon DEF Downloadable, o
<1> HIDE DEF B
<1>14. B \subseteq Nums
  BY <1>13
<1>15. Sound(s, up, d)
  <2>1. Sound(s, up, d \cup UNION {BytesOf(t, b) : b \in B})
    BY <1>1, <1>10, <1>13, <1>14, CompletedSound
  <2>2. ASSUME NEW b \in B, NEW y \in BytesOf(t, b) PROVE y \in d
    <3>1. b \in Nums /\ y \in InitPos[b] .. End(b) - 1
      BY <1>12, <1>13, <2>2, BlockPlaces DEF Shape
    <3>2. ~ Misses(t, b, y)
      <4>1. Len(<<>>) = 0
        OBVIOUS
      <4>2. ~ InChain(t, t.blocks[b].obj, y)
        BY <1>13, <4>1 DEF InChain
      <4> QED BY <1>13, <4>2 DEF Misses
    <3> QED BY <1>10, <3>1, <3>2 DEF Sound, OnDisk
  <2>3. d \cup UNION {BytesOf(t, b) : b \in B} = d
    BY <2>2
  <2> HIDE DEF d
  <2> QED BY <2>1, <2>3
<1>16. /\ Counted(s, up) /\ Enlisted(s, up)
       /\ Short(t, up) => Short(s, up)
  BY <1>1, <1>10, <1>11, <1>12, <1>13, <1>14, CompletedCounts DEF Sound
<1> HIDE DEF s, d
<1>17. SameRanges(s, s)
  BY DEF SameRanges
<1>18. GoesOn(up, w, u, list) /\ DropsOver(s, x, up, w, u, d)
  BY <1>1, <1>15, <1>16, <1>17, DropOver
<1> HIDE DEF w, x
<1>19. UpShape(w)
  BY <1>18 DEF GoesOn
<1>20. /\ Sound(x, w, d) /\ Counted(x, w) /\ Enlisted(x, w)
       /\ Short(s, up) => Short(x, w)
  BY <1>16, <1>18 DEF DropsOver
<1> QED BY <1>3, <1>11, <1>16, <1>19, <1>20, Settled

-----------------------------------------------------------------------------
(* find_range *)

\* What follows place i of a list up to place m is taken out.
LEMMA CutList ==
  ASSUME NEW X, NEW a \in Seq(X), NEW i \in 1 .. Len(a), NEW m \in i .. Len(a)
  PROVE  LET c == SubSeq(a, 1, i) \o SubSeq(a, m + 1, Len(a)) IN
         /\ c \in Seq(X) /\ Len(c) = Len(a) - (m - i)
         /\ \A k \in 1 .. Len(c) : c[k] = a[IF k <= i THEN k ELSE k + (m - i)]
<1> DEFINE x == SubSeq(a, 1, i)
           y == SubSeq(a, m + 1, Len(a))
           c == x \o y
<1>1. Len(a) \in Nat /\ i \in Nat /\ m \in Nat /\ 1 <= i /\ i <= m /\ m <= Len(a)
  OBVIOUS
<1>2. x \in Seq(X) /\ Len(x) = i /\ \A k \in 1 .. i : x[k] = a[k]
  BY <1>1
<1>3. y \in Seq(X) /\ Len(y) = Len(a) - m /\ \A k \in 1 .. Len(a) - m : y[k] = a[m + k]
  <2>1. CASE m = Len(a)
    <3>1. y = <<>>
      BY <1>1, <2>1
    <3> QED BY <2>1, <3>1, <1>1
  <2>2. CASE m < Len(a)
    BY <1>1, <2>2
  <2> QED BY <1>1, <2>1, <2>2
<1> HIDE DEF x, y
<1>4. c \in Seq(X) /\ Len(c) = i + (Len(a) - m)
  BY <1>2, <1>3, ConcatProperties
<1>5. ASSUME NEW k \in 1 .. Len(c) PROVE c[k] = a[IF k <= i THEN k ELSE k + (m - i)]
  <2>1. CASE k <= i
    BY <1>1, <1>2, <1>3, <1>4, <2>1
  <2>2. CASE k > i
    <3>1. c[k] = y[k - i] /\ k - i \in 1 .. Len(a) - m
      BY <1>1, <1>2, <1>3, <1>4, <2>2
    <3> QED BY <1>1, <1>3, <2>2, <3>1
  <2> QED BY <1>4, <2>1, <2>2
<1> QED BY <1>1, <1>4, <1>5 DEF x, y

\* One element is put into a list after place i.
Inserted(a, i, e, c) ==
    /\ Len(c) = Len(a) + 1
    /\ \A k \in 1 .. Len(c) : c[k] = IF k <= i THEN a[k] ELSE IF k = i + 1 THEN e ELSE a[k - 1]
LEMMA InsertList ==
  ASSUME NEW X, NEW a \in Seq(X), NEW i \in 1 .. Len(a), NEW e \in X
  PROVE  InsertAt(a, i + 1, e) \in Seq(X) /\ Inserted(a, i, e, InsertAt(a, i + 1, e))
<1> DEFINE x == SubSeq(a, 1, i)
           y == SubSeq(a, i + 1, Len(a))
           z == Append(x, e)
           c == z \o y
<1>1. Len(a) \in Nat /\ i \in Nat /\ 1 <= i /\ i <= Len(a)
  OBVIOUS
<1>2. x \in Seq(X) /\ Len(x) = i /\ \A k \in 1 .. i : x[k] = a[k]
  BY <1>1
<1>3. y \in Seq(X) /\ Len(y) = Len(a) - i /\ \A k \in 1 .. Len(a) - i : y[k] = a[i + k]
  <2>1. CASE i = Len(a)
    <3>1. y = <<>>
      BY <1>1, <2>1
    <3> QED BY <2>1, <3>1, <1>1
  <2>2. CASE i < Len(a)
    BY <1>1, <2>2
  <2> QED BY <1>1, <2>1, <2>2
<1>4. InsertAt(a, i + 1, e) = (x \o <<e>>) \o y
  <2>1. (i + 1) - 1 = i
    BY <1>1
  <2> QED BY <2>1, Zenon DEF InsertAt
<1> HIDE DEF x, y
<1>5. z \in Seq(X) /\ Len(z) = i + 1 /\ z[i + 1] = e /\ \A k \in 1 .. i : z[k] = a[k]
  BY <1>1, <1>2
<1>6. x \o <<e>> = z
  BY <1>2
<1> HIDE DEF z
<1>7. c \in Seq(X) /\ Len(c) = Len(a) + 1
  <2>1. z \in Seq(X) /\ y \in Seq(X) /\ Len(z) = i + 1 /\ Len(y) = Len(a) - i
    BY <1>3, <1>5
  <2>2. c \in Seq(X) /\ Len(c) = Len(z) + Len(y)
    BY <2>1, ConcatProperties
  <2> QED BY <1>1, <2>1, <2>2
<1>8. ASSUME NEW k \in 1 .. Len(c)
      PROVE  c[k] = IF k <= i THEN a[k] ELSE IF k = i + 1 THEN e ELSE a[k - 1]
  <2>1. CASE k <= i + 1
    <3>1. c[k] = z[k]
      BY <1>1, <1>3, <1>5, <1>7, <2>1
    <3> QED BY <1>1, <1>5, <1>7, <2>1, <3>1
  <2>2. CASE k > i + 1
    <3>1. c[k] = y[k - (i + 1)] /\ k - (i + 1) \in 1 .. Len(a) - i
      BY <1>1, <1>3, <1>5, <1>7, <2>2
    <3>2. i + (k - (i + 1)) = k - 1
      BY <1>1, <1>7
    <3> QED BY <1>1, <1>3, <2>2, <3>1, <3>2
  <2> QED BY <1>1, <1>7, <2>1, <2>2
<1>9. InsertAt(a, i + 1, e) = c
  BY <1>4, <1>6
<1> HIDE DEF c
<1>10. c \in Seq(X) /\ Inserted(a, i, e, c)
  BY <1>7, <1>8 DEF Inserted
<1> QED BY <1>9, <1>10

\* The list of o is arranged anew, over the same bytes.
Reshapes(s, t, v, o) ==
    /\ Shape(t) /\ t.blocks = s.blocks /\ t.nuploading = s.nuploading
    /\ s.obj[o].num \in Nums /\ s.blocks[s.obj[o].num].obj = o
    /\ \A q \in ObjIds : /\ t.obj[q].num = s.obj[q].num
                         /\ t.obj[q].from = s.obj[q].from /\ t.obj[q].to = s.obj[q].to
                         /\ q # o => t.obj[q].chain = s.obj[q].chain
    /\ \A r \in RangeIds : /\ t.range[r].nup = s.range[r].nup
                           /\ s.range[r].owner \in ObjIds \ {o} => t.range[r] = s.range[r]
    /\ \A i \in 1 .. Len(t.obj[o].chain) :
          LET r == t.range[t.obj[o].chain[i]] IN
          /\ r.owner = o
          /\ s.obj[o].from <= r.from /\ r.from < r.to /\ r.to <= s.obj[o].to
          /\ \A j \in 1 .. Len(t.obj[o].chain) : i < j => r.to <= t.range[t.obj[o].chain[j]].from
    /\ \A x \in Int : InChain(t, o, x) <=> InChain(s, o, x)
    /\ \A u \in Uploaders : \A r \in ToSet(v[u].ranges) : s.range[r].owner = o =>
          /\ t.range[r].owner = o
          /\ t.range[r].from < t.range[r].to => r \in ToSet(t.obj[o].chain)

LEMMA ReshapedSound ==
  ASSUME NEW s, NEW t, NEW v, NEW d, Sound(s, v, d), UpShape(v), NEW o \in ObjIds,
         Reshapes(s, t, v, o)
  PROVE  /\ Sound(t, v, d)
         /\ Counted(s, v) => Counted(t, v)
         /\ Enlisted(s, v) => Enlisted(t, v)
<1>1. /\ Shape(s) /\ Owned(s) /\ Linked(s) /\ OnDisk(s, d) /\ HeldLive(s, v) /\ EntriesLive(s, v)
  BY DEF Sound
<1>2. /\ Shape(t) /\ t.blocks = s.blocks /\ t.nuploading = s.nuploading
      /\ s.obj[o].num \in Nums /\ s.blocks[s.obj[o].num].obj = o
      /\ \A q \in ObjIds : /\ t.obj[q].num = s.obj[q].num
                           /\ t.obj[q].from = s.obj[q].from /\ t.obj[q].to = s.obj[q].to
                           /\ q # o => t.obj[q].chain = s.obj[q].chain
      /\ \A r \in RangeIds : /\ t.range[r].nup = s.range[r].nup
                             /\ s.range[r].owner \in ObjIds \ {o} => t.range[r] = s.range[r]
      /\ \A x \in Int : InChain(t, o, x) <=> InChain(s, o, x)
  BY Zenon DEF Reshapes
<1>3. \A i \in 1 .. Len(t.obj[o].chain) :
         LET r == t.range[t.obj[o].chain[i]] IN
         /\ r.owner = o
         /\ s.obj[o].from <= r.from /\ r.from < r.to /\ r.to <= s.obj[o].to
         /\ \A j \in 1 .. Len(t.obj[o].chain) : i < j => r.to <= t.range[t.obj[o].chain[j]].from
  BY Zenon DEF Reshapes
<1>4. \A u \in Uploaders : \A r \in ToSet(v[u].ranges) : s.range[r].owner = o =>
         /\ t.range[r].owner = o
         /\ t.range[r].from < t.range[r].to => r \in ToSet(t.obj[o].chain)
  BY Zenon DEF Reshapes
<1>5. \A q \in ObjIds : /\ Len(s.obj[q].chain) \in Nat
                        /\ \A i \in 1 .. Len(s.obj[q].chain) : s.obj[q].chain[i] \in RangeIds
  BY <1>1, InList DEF Shape
<1>6. ASSUME NEW q \in ObjIds, q # o
      PROVE  /\ t.obj[q].chain = s.obj[q].chain
             /\ \A i \in 1 .. Len(s.obj[q].chain) :
                   t.range[s.obj[q].chain[i]] = s.range[s.obj[q].chain[i]]
  <2>1. \A i \in 1 .. Len(s.obj[q].chain) : s.range[s.obj[q].chain[i]].owner = q
    BY <1>1 DEF Linked
  <2> QED BY <1>2, <1>5, <1>6, <2>1
<1>7. Owned(t)
  <2> SUFFICES ASSUME NEW b \in Nums
               PROVE  /\ t.blocks[b].kind = "Partial" <=> t.blocks[b].obj \in ObjIds
                      /\ t.blocks[b].obj \in ObjIds =>
                            /\ t.obj[t.blocks[b].obj].num = b
                            /\ t.obj[t.blocks[b].obj].from = InitPos[b]
                            /\ t.obj[t.blocks[b].obj].to = End(b)
    BY DEF Owned
  <2> QED BY <1>1, <1>2 DEF Owned
<1>8. Linked(t)
  <2> SUFFICES ASSUME NEW q \in ObjIds, NEW i \in 1 .. Len(t.obj[q].chain)
               PROVE  LET r == t.range[t.obj[q].chain[i]] IN
        /\ t.obj[q].num \in Nums /\ t.blocks[t.obj[q].num].obj = q
        /\ r.owner = q
        /\ t.obj[q].from <= r.from /\ r.from < r.to /\ r.to <= t.obj[q].to
        /\ \A j \in 1 .. Len(t.obj[q].chain) : i < j => r.to <= t.range[t.obj[q].chain[j]].from
    BY DEF Linked
  <2>1. CASE q = o
    <3>1. /\ t.obj[q].num = s.obj[o].num /\ t.obj[q].from = s.obj[o].from /\ t.obj[q].to = s.obj[o].to
      BY <1>2, <2>1
    <3> QED BY <1>2, <1>3, <2>1, <3>1, Zenon
  <2>2. CASE q # o
    <3> DEFINE a == s.obj[q].chain
    <3>1. t.obj[q].chain = a /\ \A k \in 1 .. Len(a) : t.range[a[k]] = s.range[a[k]]
      BY <1>6, <2>2
    <3>2. \A k \in 1 .. Len(a) :
          /\ s.obj[q].num \in Nums /\ s.blocks[s.obj[q].num].obj = q
          /\ s.range[a[k]].owner = q
          /\ s.obj[q].from <= s.range[a[k]].from /\ s.range[a[k]].from < s.range[a[k]].to
          /\ s.range[a[k]].to <= s.obj[q].to
          /\ \A l \in 1 .. Len(a) : k < l => s.range[a[k]].to <= s.range[a[l]].from
      BY <1>1 DEF Linked
    <3>3. /\ t.obj[q].num = s.obj[q].num /\ t.obj[q].from = s.obj[q].from
          /\ t.obj[q].to = s.obj[q].to /\ t.blocks = s.blocks
      BY <1>2
    <3>4. i \in 1 .. Len(a)
      BY <3>1
    <3> HIDE DEF a
    <3> QED BY <3>1, <3>2, <3>3, <3>4
  <2> QED BY <2>1, <2>2, Zenon
<1>9. ASSUME NEW q \in ObjIds, NEW x \in Int
      PROVE  InChain(t, q, x) <=> InChain(s, q, x)
  <2>1. CASE q = o
    BY <1>2, <2>1
  <2>2. CASE q # o
    <3> DEFINE a == s.obj[q].chain
    <3>1. t.obj[q].chain = a /\ \A k \in 1 .. Len(a) : t.range[a[k]] = s.range[a[k]]
      BY <1>6, <2>2
    <3>2. /\ InChain(t, q, x) <=> \E k \in 1 .. Len(a) : InRange(t, a[k], x)
          /\ InChain(s, q, x) <=> \E k \in 1 .. Len(a) : InRange(s, a[k], x)
      BY <3>1 DEF InChain
    <3> HIDE DEF a
    <3> QED BY <3>1, <3>2 DEF InRange
  <2> QED BY <2>1, <2>2
<1>10. OnDisk(t, d)
  <2> SUFFICES ASSUME NEW b \in Nums, NEW x \in InitPos[b] .. End(b) - 1
               PROVE  Misses(t, b, x) <=> Misses(s, b, x)
    BY <1>1 DEF OnDisk
  <2>1. x \in Int
    OBVIOUS
  <2> QED BY <1>2, <1>9, <2>1 DEF Misses
<1>11. HeldLive(t, v)
  <2> SUFFICES ASSUME NEW u \in Uploaders, NEW r \in ToSet(v[u].ranges)
               PROVE  /\ t.range[r].owner \in ObjIds /\ t.obj[t.range[r].owner].num \in Nums
                      /\ t.range[r].from < t.range[r].to
                           => r \in ToSet(t.obj[t.range[r].owner].chain)
    BY DEF HeldLive
  <2> DEFINE q == s.range[r].owner
  <2>1. /\ r \in RangeIds /\ q \in ObjIds /\ s.obj[q].num \in Nums
        /\ s.range[r].from < s.range[r].to => r \in ToSet(s.obj[q].chain)
    BY <1>1, UpFacts DEF HeldLive
  <2>2. CASE q = o
    <3>1. t.range[r].owner = o /\ (t.range[r].from < t.range[r].to => r \in ToSet(t.obj[o].chain))
      BY <1>4, <2>2
    <3> QED BY <1>2, <3>1
  <2>3. CASE q # o
    <3>1. t.range[r] = s.range[r] /\ t.obj[q].chain = s.obj[q].chain /\ t.obj[q].num \in Nums
      BY <1>2, <2>1, <2>3
    <3> QED BY <2>1, <3>1
  <2> QED BY <2>2, <2>3
<1>12. EntriesLive(t, v)
  <2>1. \A x \in EntrySet : x.obj \in ObjIds
    BY DEF EntrySet
  <2>2. \A u \in Uploaders : \A x \in ToSet(v[u].blocks) : x.obj \in ObjIds
    BY <2>1, UpFacts
  <2> QED BY <1>1, <1>2, <2>2 DEF EntriesLive
<1>13. Counted(s, v) => Counted(t, v)
  BY <1>2 DEF Counted
<1>14. Enlisted(s, v) => Enlisted(t, v)
  BY <1>2, SameNums
<1> QED BY <1>2, <1>7, <1>8, <1>10, <1>11, <1>12, <1>13, <1>14 DEF Sound

\* What merge_ranges changes: o gets the list c, and its range grows to the offset end.
Merges(s, t, o, c, r, end) ==
    /\ Shape(t) /\ t.blocks = s.blocks /\ t.nuploading = s.nuploading
    /\ \A q \in ObjIds : /\ t.obj[q].num = s.obj[q].num
                         /\ t.obj[q].from = s.obj[q].from /\ t.obj[q].to = s.obj[q].to
                         /\ q # o => t.obj[q].chain = s.obj[q].chain
    /\ t.obj[o].chain = c
    /\ \A x \in RangeIds :
         /\ t.range[x].from = s.range[x].from /\ t.range[x].nup = s.range[x].nup
         /\ t.range[x].owner = s.range[x].owner
         /\ t.range[x].to = IF x = r THEN end ELSE s.range[x].to
         /\ x # r => t.range[x] = s.range[x]

LEMMA MergeFields ==
  ASSUME NEW s, Shape(s), NEW o \in ObjIds, NEW i \in 1 .. Len(s.obj[o].chain),
         NEW m \in i .. Len(s.obj[o].chain)
  PROVE  LET t == MergeRanges(s, o, i, m)
             a == s.obj[o].chain
             c == SubSeq(a, 1, i) \o SubSeq(a, m + 1, Len(a))
         IN  Merges(s, t, o, c, a[i], s.range[a[m]].to)
<1> DEFINE t == MergeRanges(s, o, i, m)
           a == s.obj[o].chain
           c == SubSeq(a, 1, i) \o SubSeq(a, m + 1, Len(a))
           end == s.range[a[m]].to
           first == a[i]
           range == [s.range EXCEPT ![first].to = end]
           obj == [s.obj EXCEPT ![o].chain = c]
<1>1. a \in Seq(RangeIds) /\ first \in RangeIds /\ a[m] \in RangeIds
  BY InList DEF Shape
<1>2. c \in Seq(RangeIds)
  <2>1. i \in 1 .. Len(a) /\ m \in i .. Len(a)
    OBVIOUS
  <2> HIDE DEF a
  <2> QED BY <1>1, <2>1, CutList
<1>3. s.range \in [RangeIds -> RangeSet] /\ s.obj \in [ObjIds -> ObjSet]
  BY DEF Shape
<1>4. end \in Nat
  BY <1>1, <1>3 DEF RangeSet
<1>5. t = [s EXCEPT !.range[first].to = end, !.obj[o].chain = c]
  BY Zenon DEF MergeRanges
<1> HIDE DEF a, c, end, first, t
<1>6. /\ DOMAIN t = Fields /\ t.pos = InitPos /\ t.blocks = s.blocks /\ t.obj = obj
      /\ t.range = range /\ t.nuploading = s.nuploading
  BY <1>5 DEF Shape, Fields
<1>7. /\ obj \in [ObjIds -> ObjSet]
      /\ \A q \in ObjIds : /\ obj[q].num = s.obj[q].num
                           /\ obj[q].from = s.obj[q].from /\ obj[q].to = s.obj[q].to
                           /\ q # o => obj[q].chain = s.obj[q].chain
      /\ obj[o].chain = c
  BY <1>2, <1>3 DEF ObjSet
<1>8. /\ range \in [RangeIds -> RangeSet]
      /\ \A r \in RangeIds :
           /\ range[r].from = s.range[r].from /\ range[r].nup = s.range[r].nup
           /\ range[r].owner = s.range[r].owner
           /\ range[r].to = IF r = first THEN end ELSE s.range[r].to
           /\ r # first => range[r] = s.range[r]
  BY <1>1, <1>3, <1>4 DEF RangeSet
<1> HIDE DEF obj, range
<1>9. Shape(t)
  BY <1>6, <1>7, <1>8 DEF Shape
<1>10. Merges(s, t, o, c, first, end)
  BY <1>6, <1>7, <1>8, <1>9 DEF Merges
<1> QED BY <1>10 DEF a, c, end, first, t

\* The ranges of a list are different.
LEMMA ChainInjective ==
  ASSUME NEW s, Shape(s), Linked(s), NEW o \in ObjIds, NEW i \in 1 .. Len(s.obj[o].chain),
         NEW j \in 1 .. Len(s.obj[o].chain), s.obj[o].chain[i] = s.obj[o].chain[j]
  PROVE  i = j
<1> DEFINE r == s.obj[o].chain[i]
           x == s.range[r].from
<1>1. r \in RangeIds /\ s.obj[o].chain[j] = r
  BY InList DEF Shape
<1>2. x \in Nat /\ s.range[r].to \in Nat /\ x < s.range[r].to
  <2>1. s.range[r].from < s.range[r].to
    BY DEF Linked
  <2>2. s.range[r] \in RangeSet
    BY <1>1 DEF Shape
  <2> HIDE DEF r
  <2> QED BY <2>1, <2>2 DEF RangeSet
<1>3. InRange(s, r, x)
  BY <1>2 DEF InRange
<1>4. InRange(s, s.obj[o].chain[i], x) /\ InRange(s, s.obj[o].chain[j], x) /\ x \in Int
  <2>1. x \in Int
    BY <1>2
  <2> HIDE DEF x
  <2> QED BY <1>3, <2>1 DEF InRange
<1> HIDE DEF x
<1> QED BY <1>4, OneRange

\* The ranges of a list from place i to place m follow one another without a gap.
NoGap(s, o, i, m) ==
    LET a == s.obj[o].chain
    IN  \A j \in i + 1 .. m : s.range[a[j]].nup = 0 /\ s.range[a[j]].from = s.range[a[j - 1]].to

\* They have the bytes from the beginning of the first one to the end of the last one.
LEMMA NoGapBytes ==
  ASSUME NEW s, Shape(s), Linked(s), NEW o \in ObjIds, NEW i \in 1 .. Len(s.obj[o].chain),
         NEW m \in i .. Len(s.obj[o].chain), NoGap(s, o, i, m), NEW x \in Int
  PROVE  LET a == s.obj[o].chain IN
         (\E k \in i .. m : InRange(s, a[k], x)) <=> s.range[a[i]].from <= x /\ x < s.range[a[m]].to
<1> DEFINE a == s.obj[o].chain
           from(k) == s.range[a[k]].from
           to(k) == s.range[a[k]].to
<1>1. \A k \in 1 .. Len(a) : from(k) \in Nat /\ to(k) \in Nat /\ from(k) < to(k)
  <2> TAKE k \in 1 .. Len(a)
  <2>1. a[k] \in RangeIds
    BY InList DEF Shape
  <2>2. from(k) < to(k)
    BY DEF Linked
  <2>3. s.range[a[k]] \in RangeSet
    BY <2>1 DEF Shape
  <2> HIDE DEF a
  <2> QED BY <2>2, <2>3 DEF RangeSet
<1>2. \A k, l \in 1 .. Len(a) : k < l => to(k) <= from(l)
  BY DEF Linked
<1>3. \A j \in i + 1 .. m : from(j) = to(j - 1)
  BY DEF NoGap
<1>4. \A k \in 1 .. Len(a) : InRange(s, a[k], x) <=> from(k) <= x /\ x < to(k)
  BY DEF InRange
<1>5. i \in 1 .. Len(a) /\ m \in i .. Len(a)
  OBVIOUS
<1> HIDE DEF a, from, to
<1>6. ASSUME NEW k \in i .. m, InRange(s, a[k], x) PROVE from(i) <= x /\ x < to(m)
  <2>1. k \in 1 .. Len(a) /\ m \in 1 .. Len(a)
    BY <1>5
  <2>2. k = i \/ i < k
    OBVIOUS
  <2>3. k = m \/ k < m
    OBVIOUS
  <2>4. from(i) <= from(k)
    BY <1>1, <1>2, <1>5, <2>1, <2>2
  <2>5. to(k) <= to(m)
    BY <1>1, <1>2, <2>1, <2>3
  <2> QED BY <1>1, <1>4, <1>5, <1>6, <2>1, <2>4, <2>5
<1>7. ASSUME from(i) <= x, x < to(m) PROVE \E k \in i .. m : InRange(s, a[k], x)
  <2> DEFINE T == {k \in i .. m : x < to(k)}
  <2>1. m \in T /\ T \subseteq Nat
    BY <1>5, <1>7
  <2>2. PICK k \in T : \A l \in T : k <= l
    BY <2>1, LeastElement
  <2>3. k \in i .. m /\ k \in 1 .. Len(a) /\ x < to(k)
    BY <1>5
  <2>4. from(k) <= x
    <3>1. CASE k = i
      BY <1>7, <3>1
    <3>2. CASE k # i
      <4>1. k - 1 \in i .. m /\ k \in i + 1 .. m /\ k - 1 \in 1 .. Len(a)
        BY <1>5, <2>3, <3>2
      <4>2. k - 1 \notin T
        BY <2>2, <2>3
      <4>3. ~ (x < to(k - 1))
        BY <4>1, <4>2
      <4> QED BY <1>1, <1>3, <4>1, <4>3
    <3> QED BY <3>1, <3>2
  <2> QED BY <1>4, <2>3, <2>4
<1> QED BY <1>6, <1>7 DEF a, from, to

\* Nobody holds a range that nobody downloads.
LEMMA Unheld ==
  ASSUME NEW s, NEW v, Counted(s, v), NEW r \in RangeIds, s.range[r].nup = 0
  PROVE  \A u \in Uploaders : r \notin ToSet(v[u].ranges)
<1>1. IsFiniteSet(Holders(v, r))
  BY UploadersAssumption, FS_Subset DEF Holders
<1>2. Cardinality(Holders(v, r)) = 0
  BY DEF Counted
<1>3. Holders(v, r) = {}
  BY <1>1, <1>2, FS_EmptySet
<1> QED BY <1>3 DEF Holders

\* Neighbours that nobody downloads become one range.
LEMMA MergedSound ==
  ASSUME NEW s, NEW v, NEW d, Sound(s, v, d), UpShape(v), Counted(s, v), NEW o \in ObjIds,
         NEW i \in 1 .. Len(s.obj[o].chain), NEW m \in i .. Len(s.obj[o].chain), NoGap(s, o, i, m)
  PROVE  /\ Reshapes(s, MergeRanges(s, o, i, m), v, o)
         /\ i = m \/ s.range[s.obj[o].chain[i]].nup = 0 =>
               (Short(s, v) => Short(MergeRanges(s, o, i, m), v))
<1> DEFINE t == MergeRanges(s, o, i, m)
           a == s.obj[o].chain
           c == SubSeq(a, 1, i) \o SubSeq(a, m + 1, Len(a))
           f(k) == IF k <= i THEN k ELSE k + (m - i)
<1>1. Shape(s) /\ Owned(s) /\ Linked(s) /\ HeldLive(s, v)
  BY DEF Sound
<1>2. /\ Shape(t) /\ t.blocks = s.blocks /\ t.nuploading = s.nuploading
      /\ \A q \in ObjIds : /\ t.obj[q].num = s.obj[q].num
                           /\ t.obj[q].from = s.obj[q].from /\ t.obj[q].to = s.obj[q].to
                           /\ q # o => t.obj[q].chain = s.obj[q].chain
      /\ t.obj[o].chain = c
      /\ \A r \in RangeIds :
           /\ t.range[r].from = s.range[r].from /\ t.range[r].nup = s.range[r].nup
           /\ t.range[r].owner = s.range[r].owner
           /\ t.range[r].to = IF r = a[i] THEN s.range[a[m]].to ELSE s.range[r].to
           /\ r # a[i] => t.range[r] = s.range[r]
  <2>1. Merges(s, t, o, c, a[i], s.range[a[m]].to)
    BY <1>1, MergeFields
  <2> QED BY <2>1, Zenon DEF Merges
<1> HIDE DEF t
<1>3. /\ a \in Seq(RangeIds) /\ Len(a) \in Nat /\ i \in 1 .. Len(a) /\ m \in 1 .. Len(a) /\ i <= m
      /\ \A k \in 1 .. Len(a) : a[k] \in RangeIds
  <2>1. a \in Seq(RangeIds) /\ Len(a) \in Nat /\ \A k \in 1 .. Len(a) : a[k] \in RangeIds
    BY <1>1, InList DEF Shape
  <2> QED BY <2>1
<1>4. /\ s.obj[o].num \in Nums /\ s.blocks[s.obj[o].num].obj = o
      /\ \A k \in 1 .. Len(a) :
          /\ s.range[a[k]].owner = o
          /\ s.obj[o].from <= s.range[a[k]].from /\ s.range[a[k]].from < s.range[a[k]].to
          /\ s.range[a[k]].to <= s.obj[o].to
          /\ \A l \in 1 .. Len(a) : k < l => s.range[a[k]].to <= s.range[a[l]].from
  BY <1>1, Zenon DEF Linked
<1>5. \A k, l \in 1 .. Len(a) : a[k] = a[l] => k = l
  BY <1>1, ChainInjective
<1>6. \A k \in 1 .. Len(a) : s.range[a[k]].from \in Nat /\ s.range[a[k]].to \in Nat
  <2>1. \A r \in RangeIds : s.range[r].from \in Nat /\ s.range[r].to \in Nat
    BY <1>1 DEF Shape, RangeSet
  <2> HIDE DEF a
  <2> QED BY <1>3, <2>1
<1>7. \A j \in i + 1 .. m : s.range[a[j]].nup = 0
  BY DEF NoGap
<1>8. \A x \in Int : (\E k \in i .. m : InRange(s, a[k], x))
                        <=> s.range[a[i]].from <= x /\ x < s.range[a[m]].to
  BY <1>1, NoGapBytes
<1>9. \A x : InChain(s, o, x) <=> \E k \in 1 .. Len(a) : InRange(s, a[k], x)
  BY DEF InChain
<1> DEFINE n == Len(c)
<1>10. \A x : InChain(t, o, x) <=> \E k \in 1 .. n : InRange(t, c[k], x)
  BY <1>2 DEF InChain
<1> HIDE DEF a
<1>11. c \in Seq(RangeIds) /\ n = Len(a) - (m - i) /\ \A k \in 1 .. n : c[k] = a[f(k)]
  <2>1. m \in i .. Len(a)
    BY <1>3
  <2>2. /\ c \in Seq(RangeIds) /\ Len(c) = Len(a) - (m - i)
        /\ \A k \in 1 .. Len(c) : c[k] = a[IF k <= i THEN k ELSE k + (m - i)]
    BY <1>3, <2>1, CutList, Zenon
  <2> HIDE DEF c
  <2> QED BY <2>2
<1>12. \A k \in 1 .. n : f(k) \in 1 .. Len(a) /\ (f(k) <= i \/ m < f(k)) /\ (f(k) = i <=> k = i)
  <2> HIDE DEF c
  <2> QED BY <1>3, <1>11
<1>13. \A l \in 1 .. Len(a) : l <= i \/ m < l => \E k \in 1 .. n : f(k) = l
  <2> TAKE l \in 1 .. Len(a)
  <2> HAVE l <= i \/ m < l
  <2>1. CASE l <= i
    <3>1. l \in 1 .. n /\ f(l) = l
      <4> HIDE DEF c
      <4> QED BY <1>3, <1>11, <2>1
    <3> QED BY <3>1
  <2>2. CASE m < l
    <3>1. l - (m - i) \in 1 .. n /\ f(l - (m - i)) = l
      <4> HIDE DEF c
      <4> QED BY <1>3, <1>11, <2>2
    <3> QED BY <3>1
  <2> QED BY <2>1, <2>2
<1>14. \A k, l \in 1 .. n : k < l => f(k) < f(l)
  <2> HIDE DEF c
  <2> QED BY <1>3, <1>11
<1> HIDE DEF c, f, n
<1>15. \A k \in 1 .. n : /\ c[k] \in RangeIds
                         /\ t.range[c[k]].owner = o
                         /\ t.range[c[k]].from = s.range[a[f(k)]].from
                         /\ t.range[c[k]].to = IF f(k) = i THEN s.range[a[m]].to
                                               ELSE s.range[a[f(k)]].to
  <2> TAKE k \in 1 .. n
  <2>1. c[k] = a[f(k)] /\ f(k) \in 1 .. Len(a) /\ a[f(k)] \in RangeIds
    BY <1>3, <1>11, <1>12
  <2>2. c[k] = a[i] <=> f(k) = i
    BY <1>3, <1>5, <2>1
  <2> QED BY <1>2, <1>4, <2>1, <2>2
<1>16. \A k \in 1 .. n :
         /\ s.obj[o].from <= t.range[c[k]].from /\ t.range[c[k]].from < t.range[c[k]].to
         /\ t.range[c[k]].to <= s.obj[o].to
  <2> TAKE k \in 1 .. n
  <2>1. f(k) \in 1 .. Len(a)
    BY <1>12
  <2>2. CASE f(k) = i
    <3>1. s.range[a[i]].from < s.range[a[m]].to
      <4>1. /\ s.range[a[i]].from \in Nat /\ s.range[a[i]].to \in Nat
            /\ s.range[a[m]].from \in Nat /\ s.range[a[m]].to \in Nat
            /\ s.range[a[i]].from < s.range[a[i]].to /\ s.range[a[m]].from < s.range[a[m]].to
        BY <1>3, <1>4, <1>6
      <4>2. i # m => s.range[a[i]].to <= s.range[a[m]].from
        BY <1>3, <1>4
      <4> DEFINE p == s.range[a[i]].from
                 q == s.range[a[i]].to
                 x == s.range[a[m]].from
                 y == s.range[a[m]].to
      <4>3. p \in Nat /\ q \in Nat /\ x \in Nat /\ y \in Nat /\ p < q /\ x < y
        BY <4>1, Zenon
      <4>4. i = m => p = x /\ q = y
        OBVIOUS
      <4>5. i # m => q <= x
        BY <4>2, Zenon
      <4> HIDE DEF p, q, x, y
      <4>6. p < y
        BY <4>3, <4>4, <4>5
      <4> QED BY <4>6 DEF p, y
    <3> QED BY <1>3, <1>4, <1>15, <2>2, <3>1
  <2>3. CASE f(k) # i
    BY <1>4, <1>15, <2>1, <2>3
  <2> QED BY <2>2, <2>3
<1>17. \A k, l \in 1 .. n : k < l => t.range[c[k]].to <= t.range[c[l]].from
  <2> TAKE k, l \in 1 .. n
  <2> HAVE k < l
  <2>1. f(k) < f(l) /\ f(k) \in 1 .. Len(a) /\ f(l) \in 1 .. Len(a)
    BY <1>12, <1>14
  <2>2. CASE f(k) = i
    <3>1. m < f(l)
      BY <1>3, <1>12, <2>1, <2>2
    <3> QED BY <1>3, <1>4, <1>15, <2>1, <2>2, <3>1
  <2>3. CASE f(k) # i
    BY <1>4, <1>15, <2>1, <2>3
  <2> QED BY <2>2, <2>3
<1>18. \A i_1 \in 1 .. Len(t.obj[o].chain) :
          LET r == t.range[t.obj[o].chain[i_1]] IN
          /\ r.owner = o
          /\ s.obj[o].from <= r.from /\ r.from < r.to /\ r.to <= s.obj[o].to
          /\ \A j \in 1 .. Len(t.obj[o].chain) : i_1 < j => r.to <= t.range[t.obj[o].chain[j]].from
  <2>1. t.obj[o].chain = c /\ Len(t.obj[o].chain) = n
    BY <1>2 DEF c, n, a
  <2> QED BY <1>15, <1>16, <1>17, <2>1
<1>19. ASSUME NEW x \in Int PROVE InChain(t, o, x) <=> InChain(s, o, x)
  <2>1. \A k \in 1 .. n : InRange(t, c[k], x) <=>
           IF f(k) = i THEN s.range[a[i]].from <= x /\ x < s.range[a[m]].to
           ELSE InRange(s, a[f(k)], x)
    BY <1>15 DEF InRange
  <2>2. ASSUME NEW k \in 1 .. n, InRange(t, c[k], x) PROVE InChain(s, o, x)
    <3>1. CASE f(k) = i
      <4>1. PICK l \in i .. m : InRange(s, a[l], x)
        BY <1>8, <2>1, <2>2, <3>1 DEF a
      <4>2. l \in 1 .. Len(a)
        BY <1>3
      <4> QED BY <1>9, <4>1, <4>2 DEF a
    <3>2. CASE f(k) # i
      <4>1. InRange(s, a[f(k)], x) /\ f(k) \in 1 .. Len(a)
        BY <1>12, <2>1, <2>2, <3>2
      <4> QED BY <1>9, <4>1 DEF a
    <3> QED BY <3>1, <3>2
  <2>3. ASSUME NEW l \in 1 .. Len(a), InRange(s, a[l], x) PROVE InChain(t, o, x)
    <3>1. CASE l \in i .. m
      <4>1. s.range[a[i]].from <= x /\ x < s.range[a[m]].to
        BY <1>8, <2>3, <3>1 DEF a
      <4>2. PICK k \in 1 .. n : f(k) = i
        BY <1>3, <1>13
      <4> QED BY <1>10, <2>1, <4>1, <4>2
    <3>2. CASE l \notin i .. m
      <4>1. (l <= i \/ m < l) /\ l # i
        BY <1>3, <3>2
      <4>2. PICK k \in 1 .. n : f(k) = l
        BY <1>13, <4>1
      <4> QED BY <1>10, <2>1, <2>3, <4>1, <4>2
    <3> QED BY <3>1, <3>2
  <2>4. InChain(s, o, x) => \E l \in 1 .. Len(a) : InRange(s, a[l], x)
    BY <1>9 DEF a
  <2> QED BY <1>10, <2>2, <2>3, <2>4
<1>20. ASSUME NEW u \in Uploaders, NEW r \in ToSet(v[u].ranges)
       PROVE  /\ r \in RangeIds
              /\ s.range[r].owner = o /\ t.range[r].from < t.range[r].to =>
                   r \in ToSet(t.obj[o].chain)
  <2>1. r \in RangeIds
    BY UpFacts
  <2>2. ASSUME s.range[r].owner = o, t.range[r].from < t.range[r].to
        PROVE  r \in ToSet(t.obj[o].chain)
    <3>1. \A k \in 1 .. n : c[k] \in ToSet(t.obj[o].chain)
      <4>1. t.obj[o].chain = c
        BY <1>2 DEF c, a
      <4> QED BY <1>11, <4>1, SeqFacts DEF n
    <3>2. CASE r = a[i]
      <4>1. PICK k \in 1 .. n : f(k) = i
        BY <1>3, <1>13
      <4>2. c[k] = r
        BY <1>11, <3>2, <4>1
      <4> QED BY <3>1, <4>2
    <3>3. CASE r # a[i]
      <4>1. s.range[r].from < s.range[r].to
        BY <1>2, <2>1, <2>2, <3>3 DEF a
      <4>2. r \in ToSet(a)
        BY <1>1, <2>2, <4>1 DEF HeldLive, a
      <4>3. PICK l \in 1 .. Len(a) : r = a[l]
        BY <1>3, <4>2, SeqFacts
      <4>4. l \notin i + 1 .. m
        <5>1. s.range[a[l]].nup # 0
          BY <1>3, <4>3, Unheld
        <5> QED BY <1>7, <5>1
      <4>5. l <= i \/ m < l
        BY <1>3, <4>4
      <4>6. PICK k \in 1 .. n : f(k) = l
        BY <1>13, <4>5
      <4>7. c[k] = r
        BY <1>11, <4>3, <4>6
      <4> QED BY <3>1, <4>7
    <3> QED BY <3>2, <3>3
  <2> QED BY <2>1, <2>2
<1>21. Reshapes(s, t, v, o)
  <2>1. \A r \in RangeIds : s.range[r].owner \in ObjIds \ {o} => t.range[r] = s.range[r]
    BY <1>2, <1>3, <1>4 DEF a
  <2>2. \A u \in Uploaders : \A r \in ToSet(v[u].ranges) : s.range[r].owner = o =>
          /\ t.range[r].owner = o
          /\ t.range[r].from < t.range[r].to => r \in ToSet(t.obj[o].chain)
    BY <1>2, <1>20
  <2>3. \A r \in RangeIds : t.range[r].nup = s.range[r].nup
    BY <1>2
  <2> QED BY <1>2, <1>4, <1>18, <1>19, <2>1, <2>2, <2>3, Zenon DEF Reshapes
<1>22. ASSUME i = m \/ s.range[a[i]].nup = 0, Short(s, v) PROVE Short(t, v)
  <2> SUFFICES ASSUME NEW u \in Uploaders, NEW r \in ToSet(v[u].ranges)
               PROVE  t.range[r].to = s.range[r].to /\ t.range[r].from = s.range[r].from
    BY <1>22 DEF Short
  <2>1. r \in RangeIds
    BY <1>20
  <2>2. CASE i = m
    BY <1>2, <2>1, <2>2 DEF a
  <2>3. CASE s.range[a[i]].nup = 0
    <3>1. r # a[i]
      BY <1>3, <2>3, Unheld
    <3> QED BY <1>2, <2>1, <3>1 DEF a
  <2> QED BY <1>22, <2>2, <2>3
<1> QED BY <1>21, <1>22 DEF t, a

\* What split_range changes: o gets the list c, its range r ends at the offset cut and
\* the rest of it is the range right.
SplitBy(s, t, o, c, r, right, cut) ==
    /\ Shape(t) /\ t.blocks = s.blocks /\ t.nuploading = s.nuploading
    /\ \A q \in ObjIds : /\ t.obj[q].num = s.obj[q].num
                         /\ t.obj[q].from = s.obj[q].from /\ t.obj[q].to = s.obj[q].to
                         /\ q # o => t.obj[q].chain = s.obj[q].chain
    /\ t.obj[o].chain = c
    /\ \A x \in RangeIds \ {r, right} : t.range[x] = s.range[x]
    /\ t.range[r].from = s.range[r].from /\ t.range[r].to = cut
    /\ t.range[r].nup = s.range[r].nup /\ t.range[r].owner = s.range[r].owner
    /\ t.range[right].from = cut /\ t.range[right].to = s.range[r].to
    /\ t.range[right].nup = 0 /\ t.range[right].owner = s.range[r].owner

LEMMA SplitFields ==
  ASSUME NEW s, Shape(s), NEW o \in ObjIds, NEW i \in 1 .. Len(s.obj[o].chain),
         NEW cut \in Nat, Splits(s, s.obj[o].chain[i], cut), FreeRanges(s, cut) # {},
         FreshRange(s, cut) # s.obj[o].chain[i]
  PROVE  LET a == s.obj[o].chain IN
         SplitBy(s, SplitRange(s, o, i, cut), o, InsertAt(a, i + 1, FreshRange(s, cut)), a[i],
                 FreshRange(s, cut), cut)
<1> DEFINE t == SplitRange(s, o, i, cut)
           a == s.obj[o].chain
           right == FreshRange(s, cut)
           c == InsertAt(a, i + 1, right)
           r == a[i]
           rest == [s.range[r] EXCEPT !.from = cut, !.nup = 0]
           range == [s.range EXCEPT ![r].to = cut, ![right] = rest]
           obj == [s.obj EXCEPT ![o].chain = c]
<1>1. a \in Seq(RangeIds) /\ r \in RangeIds /\ right \in RangeIds /\ r # right
  BY InList, Fresh DEF Shape
<1>2. c \in Seq(RangeIds)
  <2>1. i \in 1 .. Len(a)
    OBVIOUS
  <2> HIDE DEF a, right
  <2> QED BY <1>1, <2>1, InsertList
<1>3. s.range \in [RangeIds -> RangeSet] /\ s.obj \in [ObjIds -> ObjSet]
  BY DEF Shape
<1>4. t = [s EXCEPT !.range = range, !.obj[o].chain = c]
  BY Zenon DEF SplitRange
<1> HIDE DEF a, c, r, right, t
<1>5. /\ rest.from = cut /\ rest.to = s.range[r].to /\ rest.nup = 0
      /\ rest.owner = s.range[r].owner /\ rest \in RangeSet
  BY <1>1, <1>3 DEF RangeSet
<1> HIDE DEF rest
<1>6. /\ range \in [RangeIds -> RangeSet]
      /\ \A x \in RangeIds \ {r, right} : range[x] = s.range[x]
      /\ range[r].from = s.range[r].from /\ range[r].to = cut
      /\ range[r].nup = s.range[r].nup /\ range[r].owner = s.range[r].owner
      /\ range[right] = rest
  BY <1>1, <1>3, <1>5 DEF RangeSet
<1>7. /\ DOMAIN t = Fields /\ t.pos = InitPos /\ t.blocks = s.blocks /\ t.obj = obj
      /\ t.range = range /\ t.nuploading = s.nuploading
  <2> HIDE DEF range
  <2> QED BY <1>4 DEF Shape, Fields
<1>8. /\ obj \in [ObjIds -> ObjSet]
      /\ \A q \in ObjIds : /\ obj[q].num = s.obj[q].num
                           /\ obj[q].from = s.obj[q].from /\ obj[q].to = s.obj[q].to
                           /\ q # o => obj[q].chain = s.obj[q].chain
      /\ obj[o].chain = c
  BY <1>2, <1>3 DEF ObjSet
<1> HIDE DEF obj, range
<1>9. Shape(t)
  BY <1>6, <1>7, <1>8 DEF Shape
<1>10. SplitBy(s, t, o, c, r, right, cut)
  BY <1>5, <1>6, <1>7, <1>8, <1>9 DEF SplitBy
<1> QED BY <1>10 DEF a, c, r, right, t

\* A range is cut in two; the right half is nobody's.
Halved(s, t, v, o, r, cut) ==
    /\ Reshapes(s, t, v, o)
    /\ Short(s, v) => Short(t, v)
    /\ r \in ToSet(t.obj[o].chain)
    /\ t.range[r].from = s.range[r].from /\ t.range[r].to = cut
LEMMA SplitSound ==
  ASSUME NEW s, NEW v, NEW d, Sound(s, v, d), UpShape(v), NEW o \in ObjIds,
         NEW i \in 1 .. Len(s.obj[o].chain), NEW cut \in Nat,
         Splits(s, s.obj[o].chain[i], cut), FreeRanges(s, cut) # {}
  PROVE  Halved(s, SplitRange(s, o, i, cut), v, o, s.obj[o].chain[i], cut)
<1> DEFINE t == SplitRange(s, o, i, cut)
           a == s.obj[o].chain
           right == FreshRange(s, cut)
           c == InsertAt(a, i + 1, right)
           r == a[i]
           n == Len(c)
<1>1. Shape(s) /\ Linked(s) /\ HeldLive(s, v)
  BY DEF Sound
<1>2. right \in RangeIds /\ s.range[right] = NoRange
  BY Fresh
<1>3. /\ a \in Seq(RangeIds) /\ Len(a) \in Nat /\ i \in 1 .. Len(a)
      /\ \A k \in 1 .. Len(a) : a[k] \in RangeIds
  <2>1. a \in Seq(RangeIds) /\ Len(a) \in Nat /\ \A k \in 1 .. Len(a) : a[k] \in RangeIds
    BY <1>1, InList DEF Shape
  <2> QED BY <2>1
<1>4. /\ s.obj[o].num \in Nums /\ s.blocks[s.obj[o].num].obj = o
      /\ \A k \in 1 .. Len(a) :
          /\ s.range[a[k]].owner = o
          /\ s.obj[o].from <= s.range[a[k]].from /\ s.range[a[k]].from < s.range[a[k]].to
          /\ s.range[a[k]].to <= s.obj[o].to
          /\ \A l \in 1 .. Len(a) : k < l => s.range[a[k]].to <= s.range[a[l]].from
  BY <1>1, Zenon DEF Linked
<1>5. s.range[right].owner = 0 /\ s.range[right].nup = 0 /\ 0 \notin ObjIds
  BY <1>2, IdsAssumption DEF NoRange
<1>6. \A k \in 1 .. Len(a) : a[k] # right
  BY <1>4, <1>5
<1>7. s.range[r].from < cut /\ cut < s.range[r].to
  BY DEF Splits
<1>8. SplitBy(s, t, o, c, r, right, cut)
  <2>1. right # r
    BY <1>3, <1>6
  <2> QED BY <1>1, <2>1, SplitFields
<1> HIDE DEF t, right
<1>9. /\ Shape(t) /\ t.blocks = s.blocks /\ t.nuploading = s.nuploading
      /\ \A q \in ObjIds : /\ t.obj[q].num = s.obj[q].num
                           /\ t.obj[q].from = s.obj[q].from /\ t.obj[q].to = s.obj[q].to
                           /\ q # o => t.obj[q].chain = s.obj[q].chain
      /\ t.obj[o].chain = c
      /\ \A x \in RangeIds \ {r, right} : t.range[x] = s.range[x]
      /\ t.range[r].from = s.range[r].from /\ t.range[r].to = cut
      /\ t.range[r].nup = s.range[r].nup /\ t.range[r].owner = s.range[r].owner
      /\ t.range[right].from = cut /\ t.range[right].to = s.range[r].to
      /\ t.range[right].nup = 0 /\ t.range[right].owner = s.range[r].owner
  BY <1>8, Zenon DEF SplitBy
<1>10. \A x : InChain(s, o, x) <=> \E k \in 1 .. Len(a) : InRange(s, a[k], x)
  BY DEF InChain
<1>11. \A x : InChain(t, o, x) <=> \E k \in 1 .. n : InRange(t, c[k], x)
  BY <1>9 DEF InChain
<1>12. \A k \in 1 .. Len(a) : s.range[a[k]].from \in Nat /\ s.range[a[k]].to \in Nat
  <2>1. \A q \in RangeIds : s.range[q].from \in Nat /\ s.range[q].to \in Nat
    BY <1>1 DEF Shape, RangeSet
  <2> HIDE DEF a
  <2> QED BY <1>3, <2>1
<1>13. \A k, l \in 1 .. Len(a) : a[k] = a[l] => k = l
  BY <1>1, ChainInjective
<1>14. \A u \in Uploaders : \A q \in ToSet(v[u].ranges) :
          /\ q \in RangeIds
          /\ s.range[q].owner \in ObjIds
          /\ s.range[q].owner = o /\ s.range[q].from < s.range[q].to => q \in ToSet(a)
  BY <1>1, UpFacts DEF HeldLive
<1>15. t.obj[o].chain = c
  BY <1>9, Zenon
<1> HIDE DEF a
<1>16. /\ c \in Seq(RangeIds) /\ n = Len(a) + 1
       /\ \A k \in 1 .. n : c[k] = IF k <= i THEN a[k] ELSE IF k = i + 1 THEN right ELSE a[k - 1]
  <2>1. /\ c \in Seq(RangeIds) /\ Len(c) = Len(a) + 1
        /\ \A k \in 1 .. Len(c) :
              c[k] = IF k <= i THEN a[k] ELSE IF k = i + 1 THEN right ELSE a[k - 1]
    <3>1. a \in Seq(RangeIds) /\ i \in 1 .. Len(a) /\ right \in RangeIds
      BY <1>2, <1>3
    <3> HIDE DEF n, a
    <3>2. InsertAt(a, i + 1, right) \in Seq(RangeIds) /\ Inserted(a, i, right, InsertAt(a, i + 1, right))
      BY <3>1, InsertList, Zenon
    <3> QED BY <3>2, Zenon DEF Inserted, c
  <2> HIDE DEF c
  <2> QED BY <2>1
<1> HIDE DEF c, n
<1>17. /\ \A k \in 1 .. i : c[k] = a[k]
       /\ c[i + 1] = right
       /\ \A k \in i + 2 .. n : c[k] = a[k - 1] /\ k - 1 \in i + 1 .. Len(a)
       /\ i \in Nat /\ n \in Nat /\ i + 1 <= n
       /\ \A k \in 1 .. Len(a) : \E l \in 1 .. n : c[l] = a[k]
  <2>1. i \in Nat /\ n \in Nat /\ i + 1 <= n
    BY <1>3, <1>16
  <2>2. \A k \in 1 .. i : c[k] = a[k] /\ k \in 1 .. n
    BY <1>16, <2>1
  <2>3. c[i + 1] = right
    BY <1>16, <2>1
  <2>4. \A k \in i + 2 .. n : c[k] = a[k - 1] /\ k - 1 \in i + 1 .. Len(a)
    BY <1>3, <1>16, <2>1
  <2>5. ASSUME NEW k \in 1 .. Len(a) PROVE \E l \in 1 .. n : c[l] = a[k]
    <3>1. CASE k <= i
      BY <2>2, <3>1
    <3>2. CASE k > i
      <4>1. k + 1 \in i + 2 .. n /\ k + 1 \in 1 .. n /\ (k + 1) - 1 = k
        BY <1>3, <1>16, <2>1, <3>2
      <4> QED BY <2>4, <4>1
    <3> QED BY <1>3, <3>1, <3>2
  <2> QED BY <2>1, <2>2, <2>3, <2>4, <2>5
<1> DEFINE from(k) == t.range[c[k]].from
           to(k) == t.range[c[k]].to
           left(k) == IF k <= i THEN k ELSE k - 1
<1>18. ASSUME NEW k \in 1 .. n
       PROVE  /\ t.range[c[k]].owner = o /\ left(k) \in 1 .. Len(a)
              /\ from(k) = IF k = i + 1 THEN cut ELSE s.range[a[left(k)]].from
              /\ to(k) = IF k = i THEN cut ELSE s.range[a[left(k)]].to
  <2>1. CASE k = i
    BY <1>3, <1>4, <1>9, <1>17, <2>1
  <2>2. CASE k = i + 1
    BY <1>3, <1>4, <1>9, <1>17, <2>2
  <2>3. CASE k < i
    <3>1. k \in 1 .. i /\ k \in 1 .. Len(a) /\ k # i
      BY <1>3, <2>3
    <3>2. a[k] \in RangeIds \ {r, right}
      BY <1>3, <1>6, <1>13, <3>1
    <3> QED BY <1>4, <1>9, <1>17, <2>3, <3>1, <3>2
  <2>4. CASE k > i + 1
    <3>1. c[k] = a[k - 1] /\ k - 1 \in 1 .. Len(a) /\ k - 1 # i
      BY <1>3, <1>17, <2>4
    <3>2. a[k - 1] \in RangeIds \ {r, right}
      BY <1>3, <1>6, <1>13, <3>1
    <3> QED BY <1>3, <1>4, <1>9, <2>4, <3>1, <3>2
  <2> QED BY <1>3, <1>17, <2>1, <2>2, <2>3, <2>4
<1> HIDE DEF from, to
<1>19. ASSUME NEW k \in 1 .. n
       PROVE  /\ s.obj[o].from <= from(k) /\ from(k) < to(k) /\ to(k) <= s.obj[o].to
              /\ from(k) \in Nat /\ to(k) \in Nat
  <2>1. s.obj[o].from \in Nat /\ s.obj[o].to \in Nat
    BY <1>1 DEF Shape, ObjSet
  <2> DEFINE z == s.range[a[left(k)]]
  <2>2. /\ z.from \in Nat /\ z.to \in Nat /\ s.obj[o].from <= z.from /\ z.from < z.to
        /\ z.to <= s.obj[o].to
    BY <1>4, <1>12, <1>18
  <2>3. k \in {i, i + 1} => z.from < cut /\ cut < z.to
    BY <1>3, <1>7
  <2>4. /\ from(k) = IF k = i + 1 THEN cut ELSE z.from
        /\ to(k) = IF k = i THEN cut ELSE z.to
    BY <1>18
  <2> HIDE DEF z, left
  <2> QED BY <2>1, <2>2, <2>3, <2>4
<1>20. ASSUME NEW k \in 1 .. n, NEW l \in 1 .. n, k < l PROVE to(k) <= from(l)
  <2>1. left(k) \in 1 .. Len(a) /\ left(l) \in 1 .. Len(a)
    BY <1>18
  <2>2. left(k) < left(l) \/ (k = i /\ l = i + 1)
    BY <1>17, <1>20
  <2>3. CASE k = i /\ l = i + 1
    BY <1>18, <2>3
  <2>4. CASE left(k) < left(l)
    <3> DEFINE high == s.range[a[left(k)]].to
               low == s.range[a[left(l)]].from
    <3>1. high <= low /\ high \in Nat /\ low \in Nat
      BY <1>4, <1>12, <2>1, <2>4
    <3>2. to(k) = IF k = i THEN cut ELSE high
      BY <1>18
    <3>3. from(l) = IF l = i + 1 THEN cut ELSE low
      BY <1>18
    <3>4. k = i => cut < high
      <4>1. k = i => left(k) = i
        BY <1>17
      <4> QED BY <1>7, <4>1
    <3>5. l = i + 1 => low < cut
      <4>1. l = i + 1 => left(l) = i
        BY <1>17
      <4> QED BY <1>7, <4>1
    <3> HIDE DEF high, low
    <3> QED BY <1>19, <3>1, <3>2, <3>3, <3>4, <3>5
  <2> QED BY <2>2, <2>3, <2>4
<1>21. \A k \in 1 .. Len(t.obj[o].chain) :
          LET q == t.range[t.obj[o].chain[k]] IN
          /\ q.owner = o
          /\ s.obj[o].from <= q.from /\ q.from < q.to /\ q.to <= s.obj[o].to
          /\ \A j \in 1 .. Len(t.obj[o].chain) : k < j => q.to <= t.range[t.obj[o].chain[j]].from
  <2>1. t.obj[o].chain = c /\ Len(t.obj[o].chain) = n
    BY <1>15 DEF n
  <2> QED BY <1>18, <1>19, <1>20, <2>1 DEF from, to
<1>22. ASSUME NEW x \in Int PROVE InChain(t, o, x) <=> InChain(s, o, x)
  <2>1. \A k \in 1 .. n : InRange(t, c[k], x) <=> from(k) <= x /\ x < to(k)
    BY DEF InRange, from, to
  <2>2. \A k \in 1 .. Len(a) : InRange(s, a[k], x) <=> s.range[a[k]].from <= x /\ x < s.range[a[k]].to
    BY DEF InRange
  <2>3. ASSUME NEW k \in 1 .. n, InRange(t, c[k], x) PROVE InRange(s, a[left(k)], x)
    <3> DEFINE z == s.range[a[left(k)]]
    <3>1. left(k) \in 1 .. Len(a) /\ z.from \in Nat /\ z.to \in Nat
      BY <1>12, <1>18
    <3>2. k \in {i, i + 1} => z.from < cut /\ cut < z.to
      BY <1>3, <1>7
    <3>3. /\ from(k) = IF k = i + 1 THEN cut ELSE z.from
          /\ to(k) = IF k = i THEN cut ELSE z.to
      BY <1>18
    <3>4. from(k) <= x /\ x < to(k)
      BY <2>1, <2>3
    <3>5. InRange(s, a[left(k)], x) <=> z.from <= x /\ x < z.to
      BY <2>2, <3>1
    <3> HIDE DEF z, left
    <3> QED BY <3>1, <3>2, <3>3, <3>4, <3>5
  <2>4. ASSUME NEW k \in 1 .. Len(a), InRange(s, a[k], x) PROVE \E l \in 1 .. n : InRange(t, c[l], x)
    <3> DEFINE low == s.range[a[k]].from
               high == s.range[a[k]].to
    <3>1. low \in Nat /\ high \in Nat /\ low <= x /\ x < high
      BY <1>12, <2>2, <2>4
    <3>2. CASE k = i /\ x < cut
      <4>1. i \in 1 .. n /\ left(i) = i /\ i # i + 1
        BY <1>17, <1>3
      <4>2. from(i) = low /\ to(i) = cut
        BY <1>18, <3>2, <4>1
      <4> QED BY <2>1, <3>1, <3>2, <4>1, <4>2
    <3>3. CASE k = i /\ ~ (x < cut)
      <4>1. i + 1 \in 1 .. n /\ left(i + 1) = i /\ i + 1 # i
        BY <1>17, <1>3
      <4>2. from(i + 1) = cut /\ to(i + 1) = high
        BY <1>18, <3>3, <4>1
      <4> QED BY <2>1, <3>1, <3>3, <4>1, <4>2
    <3>4. CASE k < i
      <4>1. k \in 1 .. n /\ left(k) = k /\ k # i + 1 /\ k # i
        BY <1>17, <1>3, <3>4
      <4>2. from(k) = low /\ to(k) = high
        BY <1>18, <4>1
      <4> QED BY <2>1, <3>1, <4>1, <4>2
    <3>5. CASE k > i
      <4>1. k + 1 \in 1 .. n /\ left(k + 1) = k /\ k + 1 # i + 1 /\ k + 1 # i
        BY <1>16, <1>17, <1>3, <3>5
      <4>2. from(k + 1) = low /\ to(k + 1) = high
        BY <1>18, <4>1
      <4> QED BY <2>1, <3>1, <4>1, <4>2
    <3> QED BY <1>3, <3>2, <3>3, <3>4, <3>5
  <2>5. \A k \in 1 .. n : left(k) \in 1 .. Len(a)
    BY <1>18
  <2> HIDE DEF left
  <2>6. InChain(s, o, x) <=> \E k \in 1 .. Len(a) : InRange(s, a[k], x)
    BY <1>10 DEF a
  <2>7. InChain(t, o, x) <=> \E k \in 1 .. n : InRange(t, c[k], x)
    BY <1>11
  <2> QED BY <2>3, <2>4, <2>5, <2>6, <2>7
<1>23. ToSet(a) \subseteq ToSet(t.obj[o].chain)
  <2>1. \A q : q \in ToSet(a) <=> \E k \in 1 .. Len(a) : q = a[k]
    BY <1>3, SeqFacts
  <2>2. \A q : q \in ToSet(c) <=> \E k \in 1 .. n : q = c[k]
    BY <1>16, SeqFacts DEF n
  <2> QED BY <1>15, <1>17, <2>1, <2>2
<1>24. r \in ToSet(t.obj[o].chain)
  BY <1>3, <1>23, SeqFacts
<1>25. ASSUME NEW u \in Uploaders, NEW q \in ToSet(v[u].ranges)
       PROVE  /\ q \in RangeIds \ {right}
              /\ s.range[q].owner = o => t.range[q].owner = o
              /\ s.range[q].owner = o /\ t.range[q].from < t.range[q].to =>
                   q \in ToSet(t.obj[o].chain)
  <2>1. q \in RangeIds \ {right}
    BY <1>5, <1>14
  <2>2. q \in ToSet(a) => q \in ToSet(t.obj[o].chain)
    BY <1>23
  <2>3. CASE q = r
    BY <1>9, <1>24, <2>1, <2>3, Zenon DEF a
  <2>4. CASE q # r
    <3>1. t.range[q] = s.range[q]
      BY <1>9, <2>1, <2>4 DEF a
    <3> QED BY <1>14, <2>1, <2>2, <3>1
  <2> QED BY <2>3, <2>4
<1>26. Reshapes(s, t, v, o)
  <2>1. \A q \in RangeIds : s.range[q].owner \in ObjIds \ {o} => t.range[q] = s.range[q]
    <3>1. s.range[r].owner = o
      BY <1>3, <1>4
    <3> QED BY <1>5, <1>9, <3>1 DEF a
  <2>2. \A u \in Uploaders : \A q \in ToSet(v[u].ranges) : s.range[q].owner = o =>
          /\ t.range[q].owner = o
          /\ t.range[q].from < t.range[q].to => q \in ToSet(t.obj[o].chain)
    BY <1>25
  <2>3. \A q \in RangeIds : t.range[q].nup = s.range[q].nup
    BY <1>5, <1>9, Zenon DEF a
  <2>4. /\ Shape(t) /\ t.blocks = s.blocks /\ t.nuploading = s.nuploading
        /\ \A q \in ObjIds : /\ t.obj[q].num = s.obj[q].num
                             /\ t.obj[q].from = s.obj[q].from /\ t.obj[q].to = s.obj[q].to
                             /\ q # o => t.obj[q].chain = s.obj[q].chain
    BY <1>9
  <2> QED BY <1>4, <1>21, <1>22, <2>1, <2>2, <2>3, <2>4, Zenon DEF Reshapes
<1>27. ASSUME Short(s, v) PROVE Short(t, v)
  <2> SUFFICES ASSUME NEW u \in Uploaders, NEW q \in ToSet(v[u].ranges)
               PROVE  t.range[q].to - t.range[q].from <= RangeSize[u]
    BY DEF Short
  <2>1. q \in RangeIds \ {right} /\ s.range[q].to - s.range[q].from <= RangeSize[u]
    BY <1>25, <1>27 DEF Short
  <2>2. CASE q = r
    <3>1. t.range[q].from = s.range[q].from /\ t.range[q].to = cut /\ cut < s.range[q].to
      BY <1>7, <1>9, <2>2, Zenon DEF a
    <3>2. s.range[q].from \in Nat /\ s.range[q].to \in Nat
      BY <1>3, <1>12, <2>2
    <3>3. RangeSize[u] \in Nat
      BY SizesAssumption
    <3> QED BY <2>1, <3>1, <3>2, <3>3
  <2>3. CASE q # r
    BY <1>9, <2>1, <2>3, Zenon DEF a
  <2> QED BY <2>2, <2>3
<1>28. t.range[r].from = s.range[r].from /\ t.range[r].to = cut
  BY <1>9 DEF a
<1>29. Halved(s, t, v, o, r, cut)
  BY <1>24, <1>26, <1>27, <1>28, Zenon DEF Halved
<1> QED BY <1>29, Zenon DEF t, a

\* An open range of a list is taken by an uploader that does not hold it.
LEMMA TakenSound ==
  ASSUME NEW t, NEW v, NEW w, NEW d, Sound(t, v, d), Counted(t, v), Enlisted(t, v), UpShape(v),
         NEW u \in Uploaders, NEW o \in ObjIds, t.obj[o].num \in Nums, NEW r \in ToSet(t.obj[o].chain),
         r \in RangeIds, t.range[r].owner = o, r \notin ToSet(v[u].ranges),
         GoesOn(v, w, u, Append(v[u].ranges, r)), NEW n
  PROVE  LET x == [t EXCEPT !.range[r].nup = @ + 1, !.unselected[t.range[r].owner] = @ - n] IN
         /\ Sound(x, w, d) /\ Counted(x, w) /\ Enlisted(x, w)
         /\ Short(t, v) /\ t.range[r].to - t.range[r].from <= RangeSize[u] => Short(x, w)
<1> DEFINE x == [t EXCEPT !.range[r].nup = @ + 1, !.unselected[t.range[r].owner] = @ - n]
           range == [t.range EXCEPT ![r].nup = @ + 1]
<1>1. Shape(t) /\ HeldLive(t, v) /\ EntriesLive(t, v)
  BY DEF Sound
<1>2. t.range \in [RangeIds -> RangeSet]
  BY <1>1 DEF Shape
<1>3. /\ range \in [RangeIds -> RangeSet]
      /\ \A q \in RangeIds :
           /\ range[q].from = t.range[q].from /\ range[q].to = t.range[q].to
           /\ range[q].owner = t.range[q].owner
           /\ range[q].nup = IF q = r THEN t.range[r].nup + 1 ELSE t.range[q].nup
  BY <1>2 DEF RangeSet
<1>4. /\ DOMAIN x = Fields /\ x.pos = InitPos /\ x.blocks = t.blocks /\ x.obj = t.obj
      /\ x.range = range /\ x.nuploading = t.nuploading
  <2>1. x = [t EXCEPT !.range = range, !.unselected[t.range[r].owner] = @ - n]
    OBVIOUS
  <2> HIDE DEF x, range
  <2> QED BY <1>1, <2>1 DEF Shape, Fields
<1> HIDE DEF x, range
<1>5. Shape(x) /\ SameRanges(t, x)
  BY <1>1, <1>3, <1>4 DEF Shape, SameRanges
<1>6. Sound(x, v, d)
  BY <1>5, SameSound
<1>7. /\ UpShape(w) /\ w[u].ranges = Append(v[u].ranges, r)
      /\ \A y \in Uploaders : y # u => w[y].ranges = v[y].ranges
      /\ \A y \in Uploaders : /\ w[y].blocks = v[y].blocks /\ w[y].complete = v[y].complete
                              /\ w[y].declared = v[y].declared
  BY DEF GoesOn
<1>8. v[u].ranges \in Seq(RangeIds)
  BY UpFacts
<1>9. /\ ToSet(w[u].ranges) = ToSet(v[u].ranges) \cup {r}
      /\ IsInjective(v[u].ranges) => IsInjective(w[u].ranges)
  BY <1>7, <1>8, AppendProps
<1>10. Sound(x, w, d)
  <2>1. HeldLive(x, w)
    <3> SUFFICES ASSUME NEW y \in Uploaders, NEW q \in ToSet(w[y].ranges)
                 PROVE  /\ x.range[q].owner \in ObjIds /\ x.obj[x.range[q].owner].num \in Nums
                        /\ x.range[q].from < x.range[q].to
                             => q \in ToSet(x.obj[x.range[q].owner].chain)
      BY DEF HeldLive
    <3>1. CASE y = u /\ q = r
      BY <1>5, <3>1 DEF SameRanges
    <3>2. CASE ~ (y = u /\ q = r)
      <4>1. q \in ToSet(v[y].ranges)
        BY <1>7, <1>9, <3>2
      <4> QED BY <1>6, <4>1 DEF Sound, HeldLive
    <3> QED BY <3>1, <3>2
  <2>2. EntriesLive(x, w)
    BY <1>6, <1>7 DEF Sound, EntriesLive
  <2> QED BY <1>6, <2>1, <2>2 DEF Sound
<1>11. Counted(x, w)
  <2>1. ASSUME NEW q \in RangeIds PROVE x.range[q].nup = Cardinality(Holders(w, q))
    <3>1. t.range[q].nup = Cardinality(Holders(v, q))
      BY DEF Counted
    <3>2. CASE q = r
      <4>1. IsFiniteSet(Holders(v, q))
        BY UploadersAssumption, FS_Subset DEF Holders
      <4>2. u \notin Holders(v, q) /\ Holders(w, q) = Holders(v, q) \cup {u}
        BY <1>7, <1>9, <3>2 DEF Holders
      <4>3. Cardinality(Holders(w, q)) = Cardinality(Holders(v, q)) + 1
        BY <4>1, <4>2, FS_AddElement
      <4> QED BY <1>3, <1>4, <3>1, <3>2, <4>3
    <3>3. CASE q # r
      <4>1. Holders(w, q) = Holders(v, q)
        BY <1>7, <1>9, <3>3 DEF Holders
      <4> QED BY <1>3, <1>4, <3>1, <3>3, <4>1
    <3> QED BY <3>2, <3>3
  <2>2. \A y \in Uploaders : IsInjective(w[y].ranges)
    BY <1>7, <1>9 DEF Counted
  <2> QED BY <2>1, <2>2 DEF Counted
<1>12. Enlisted(x, w)
  BY <1>4, <1>7, SameEnlisted
<1>13. ASSUME Short(t, v), t.range[r].to - t.range[r].from <= RangeSize[u] PROVE Short(x, w)
  <2> SUFFICES ASSUME NEW y \in Uploaders, NEW q \in ToSet(w[y].ranges)
               PROVE  x.range[q].to - x.range[q].from <= RangeSize[y]
    BY DEF Short
  <2>1. q \in RangeIds /\ x.range[q].to = t.range[q].to /\ x.range[q].from = t.range[q].from
    BY <1>5, <1>7, UpFacts DEF SameRanges
  <2>2. CASE y = u /\ q = r
    BY <1>13, <2>1, <2>2
  <2>3. CASE ~ (y = u /\ q = r)
    <3>1. q \in ToSet(v[y].ranges)
      BY <1>7, <1>9, <2>3
    <3> QED BY <1>13, <2>1, <3>1 DEF Short
  <2> QED BY <2>2, <2>3
<1> QED BY <1>10, <1>11, <1>12, <1>13 DEF x

\* A place is one of the list of an object that u has selected.
LEMMA PlaceProps ==
  ASSUME NEW s, Shape(s), UpShape(up), NEW u \in Uploaders, NEW p \in Places(s, u)
  PROVE  LET e == up[u].blocks[p[1]] IN
         /\ p[1] \in 1 .. Len(up[u].blocks) /\ e \in EntrySet
         /\ p[2] \in 1 .. Len(s.obj[e.obj].chain) /\ Open(s, u, e, s.obj[e.obj].chain[p[2]])
         /\ up[u].blocks[Len(up[u].blocks)] \in EntrySet
         /\ p = <<p[1], p[2]>>
<1> DEFINE list == up[u].blocks
<1>1. list \in Seq(EntrySet)
  BY UpFacts
<1>2. PICK k \in DOMAIN list :
         p \in {<<k, i>> : i \in {j \in DOMAIN Chain(s, u, k) : Open(s, u, list[k], Chain(s, u, k)[j])}}
  BY DEF Places
<1>3. PICK i \in DOMAIN Chain(s, u, k) : p = <<k, i>> /\ Open(s, u, list[k], Chain(s, u, k)[i])
  BY <1>2
<1> HIDE DEF list
<1>4. k \in 1 .. Len(list) /\ Len(list) \in Nat
  BY <1>1
<1>5. list[k] \in EntrySet /\ list[Len(list)] \in EntrySet
  BY <1>1, <1>4
<1>6. list[k].obj \in ObjIds
  BY <1>5 DEF EntrySet
<1>7. Chain(s, u, k) = s.obj[list[k].obj].chain
  BY DEF Chain, list
<1>8. s.obj[list[k].obj].chain \in Seq(RangeIds)
  BY <1>6, InList DEF Shape
<1>9. i \in 1 .. Len(s.obj[list[k].obj].chain)
  BY <1>3, <1>7, <1>8
<1>10. p[1] = k /\ p[2] = i /\ p = <<p[1], p[2]>>
  BY <1>3
<1> QED BY <1>3, <1>4, <1>5, <1>7, <1>9, <1>10, Zenon DEF list

\* The cluster that find_range merges has no gap; a range that others download is
\* not merged with what follows.
LEMMA ClusterProps ==
  ASSUME NEW s, Shape(s), UpShape(up), NEW u \in Uploaders, NEW p \in Places(s, u),
         NEW m \in DOMAIN Chain(s, u, p[1]), Best(s, u, p), ClusterEnd(s, u, p, m)
  PROVE  LET o == up[u].blocks[p[1]].obj IN
         /\ m \in p[2] .. Len(s.obj[o].chain) /\ NoGap(s, o, p[2], m)
         /\ p[2] = m \/ s.range[s.obj[o].chain[p[2]]].nup = 0
<1> DEFINE e == up[u].blocks[p[1]]
           a == s.obj[e.obj].chain
<1>1. /\ p[1] \in 1 .. Len(up[u].blocks) /\ e \in EntrySet /\ p[2] \in 1 .. Len(a)
      /\ p = <<p[1], p[2]>>
  BY PlaceProps
<1>2. Chain(s, u, p[1]) = a
  BY DEF Chain
<1>3. a \in Seq(RangeIds)
  <2>1. e.obj \in ObjIds
    BY <1>1 DEF EntrySet
  <2> QED BY <2>1, InList DEF Shape
<1>4. m \in 1 .. Len(a) /\ p[2] <= m /\ \A j \in p[2] + 1 .. m : Joins(s, u, p, j)
  BY <1>2, <1>3 DEF ClusterEnd
<1>5. \A j : Joins(s, u, p, j) =>
         /\ Open(s, u, e, a[j]) /\ s.range[a[j]].nup = 0
         /\ s.range[a[j]].from = s.range[a[j - 1]].to
  BY <1>2, Zenon DEF Joins
<1>6. NoGap(s, e.obj, p[2], m)
  BY <1>4, <1>5, Zenon DEF NoGap
<1>7. ASSUME p[2] # m PROVE s.range[a[p[2]]].nup = 0
  <2> DEFINE j == p[2] + 1
             q == <<p[1], j>>
  <2>1. j \in p[2] + 1 .. m /\ j \in 1 .. Len(a)
    <3> DEFINE i == p[2]
    <3>1. m \in 1 .. Len(a) /\ i \in 1 .. Len(a) /\ i <= m /\ i # m
      BY <1>1, <1>4, <1>7
    <3> HIDE DEF a
    <3>2. Len(a) \in Nat
      BY <1>3
    <3> HIDE DEF i
    <3> QED BY <3>1, <3>2 DEF i
  <2>2. Open(s, u, e, a[j]) /\ s.range[a[j]].nup = 0
    BY <1>4, <1>5, <2>1, Zenon
  <2>3. q \in Places(s, u)
    <3>1. p[1] \in DOMAIN up[u].blocks
      <4>1. up[u].blocks \in Seq(EntrySet)
        BY UpFacts
      <4> QED BY <1>1, <4>1
    <3> HIDE DEF a, j
    <3>2. j \in DOMAIN Chain(s, u, p[1])
      BY <1>2, <1>3, <2>1
    <3>3. Open(s, u, up[u].blocks[p[1]], Chain(s, u, p[1])[j])
      BY <1>2, <2>2
    <3> DEFINE at(k) == {<<k, i>> : i \in {l \in DOMAIN Chain(s, u, k) :
                                             Open(s, u, up[u].blocks[k], Chain(s, u, k)[l])}}
    <3>4. q \in at(p[1])
      BY <3>2, <3>3
    <3>5. Places(s, u) = UNION {at(k) : k \in DOMAIN up[u].blocks}
      BY Zenon DEF Places
    <3> HIDE DEF at, q
    <3> QED BY <3>1, <3>4, <3>5
  <2>4. q # p /\ q[1] = p[1] /\ q[2] = j
    BY <1>1
  <2>5. RangeAt(s, u, q) = a[j] /\ RangeAt(s, u, p) = a[p[2]]
    BY <1>2, <2>4 DEF RangeAt
  <2>6. s.range[a[p[2]]].nup \in Nat
    <3>1. a[p[2]] \in RangeIds
      BY <1>1, <1>3
    <3> QED BY <3>1, Zenon DEF Shape, RangeSet
  <2> HIDE DEF q, j, a
  <2>7. ASSUME s.range[a[p[2]]].nup # 0 PROVE FALSE
    <3>1. LET n(y) == s.range[RangeAt(s, u, y)].nup IN
          n(p) < n(q) \/ (n(p) = n(q) /\ Earlier(q, p))
      BY <2>3, <2>4, <2>5, <2>7 DEF Best
    <3> QED BY <2>2, <2>5, <2>6, <2>7, <3>1
  <2> QED BY <2>7
<1>8. m \in p[2] .. Len(a)
  BY <1>1, <1>4
<1> QED BY <1>6, <1>7, <1>8, Zenon

\* Uploaders of networks that ask for the same size.
SameSizes == \A x, y \in Uploaders : RangeSize[x] = RangeSize[y]

LEMMA SizePositive == \A u \in Uploaders : RangeSize[u] \in Nat /\ RangeSize[u] > 0
  BY SizesAssumption

\* Where find_range cuts.
CutAt(from, size, stop) == Min({from + size, stop})

LEMMA CutProps ==
  ASSUME NEW from \in Nat, NEW to \in Nat, NEW size \in Nat, size > 0, NEW stop \in Nat
  PROVE  LET cut == CutAt(from, size, stop) IN
         /\ cut \in Nat
         /\ from < cut => cut - from <= size
         /\ from < stop /\ ~ (from < cut /\ cut < to) => to - from <= size
<1> DEFINE high == from + size
           cut == Min({high, stop})
<1>1. high \in Int /\ stop \in Int
  OBVIOUS
<1>2. high = from + size
  OBVIOUS
<1> HIDE DEF high
<1>3. cut = IF high <= stop THEN high ELSE stop
  BY <1>1, MinMax
<1> HIDE DEF cut
<1>4. /\ cut \in Nat
      /\ from < cut => cut - from <= size
      /\ from < stop /\ ~ (from < cut /\ cut < to) => to - from <= size
  BY <1>2, <1>3
<1> QED BY <1>4 DEF cut, high, CutAt

\* find_range asks for a range that is not longer than the uploader's range_size: when
\* others download it, because they ask for the same size.
LEMMA CutShort ==
  ASSUME NEW s, NEW v, Short(s, v), SameSizes, Counted(s, v), NEW u \in Uploaders, NEW r \in RangeIds,
         s.range[r].nup # 0
  PROVE  s.range[r].to - s.range[r].from <= RangeSize[u]
<1>1. Holders(v, r) # {}
  <2>1. s.range[r].nup = Cardinality(Holders(v, r))
    BY DEF Counted
  <2> QED BY <2>1, FS_EmptySet
<1>2. PICK y \in Uploaders : r \in ToSet(v[y].ranges)
  BY <1>1 DEF Holders
<1>3. s.range[r].to - s.range[r].from <= RangeSize[y]
  BY <1>2 DEF Short
<1> QED BY <1>3 DEF SameSizes

\* What find_range knows of the range that it merges, up to place m, and cuts.
Cuttable(s, u, o, i, m, stop, cut) ==
    LET a == s.obj[o].chain
        x == MergeRanges(s, o, i, m)
    IN  /\ NoGap(s, o, i, m)
        /\ i = m \/ s.range[a[i]].nup = 0
        /\ cut = CutAt(s.range[a[i]].from, RangeSize[u], stop)
        /\ s.range[a[i]].nup = 0 => s.range[a[i]].from < stop
        /\ Splits(x, a[i], cut) => FreeRanges(x, cut) # {}

\* The range r of object o may be taken by u.
Takeable(s, t, v, d, u, o, r) ==
    /\ Sound(t, v, d) /\ Counted(t, v) /\ Enlisted(t, v)
    /\ t.obj[o].num \in Nums /\ r \in ToSet(t.obj[o].chain)
    /\ r \in RangeIds /\ t.range[r].owner = o
    /\ Short(s, v) => Short(t, v)
    /\ SameSizes /\ Short(s, v) => t.range[r].to - t.range[r].from <= RangeSize[u]

\* Merging and splitting leave the swarmer sound, and give the range that is taken.
LEMMA RangeCut ==
  ASSUME NEW s, NEW v, NEW d, Sound(s, v, d), Counted(s, v), Enlisted(s, v), UpShape(v),
         NEW u \in Uploaders, NEW o \in ObjIds, NEW i \in 1 .. Len(s.obj[o].chain),
         NEW m \in i .. Len(s.obj[o].chain), NEW stop \in Nat, NEW cut \in Nat,
         Cuttable(s, u, o, i, m, stop, cut)
  PROVE  LET t == SplitRange(MergeRanges(s, o, i, m), o, i, cut)
             r == s.obj[o].chain[i]
         IN  Takeable(s, t, v, d, u, o, r)
<1> DEFINE x == MergeRanges(s, o, i, m)
           t == SplitRange(x, o, i, cut)
           r == s.obj[o].chain[i]
           end == s.range[s.obj[o].chain[m]].to
           from == s.range[r].from
<1>1. Shape(s) /\ Linked(s)
  BY DEF Sound
<1>2. /\ Reshapes(s, x, v, o)
      /\ Short(s, v) => Short(x, v)
  <2>1. NoGap(s, o, i, m) /\ (i = m \/ s.range[s.obj[o].chain[i]].nup = 0)
    BY Zenon DEF Cuttable
  <2> QED BY <2>1, MergedSound
<1>3. /\ Sound(x, v, d) /\ Counted(x, v) /\ Enlisted(x, v)
  BY <1>2, ReshapedSound
<1>4. /\ x.obj[o].chain[i] = r /\ i \in 1 .. Len(x.obj[o].chain)
      /\ x.range[r].from = from /\ x.range[r].to = end
      /\ r \in RangeIds
  <2> DEFINE a == s.obj[o].chain
             c == SubSeq(a, 1, i) \o SubSeq(a, m + 1, Len(a))
  <2>1. Merges(s, x, o, c, r, end)
    BY <1>1, MergeFields
  <2>2. r \in RangeIds
    BY <1>1, InList DEF Shape
  <2>3. x.obj[o].chain = c /\ x.range[r].from = from /\ x.range[r].to = end
    BY <2>1, <2>2 DEF Merges
  <2>4. a \in Seq(RangeIds) /\ i \in 1 .. Len(a) /\ m \in i .. Len(a)
    BY <1>1, InList DEF Shape
  <2>5. c[i] = r /\ i \in 1 .. Len(c)
    <3>1. r = a[i]
      OBVIOUS
    <3> HIDE DEF a, r
    <3>2. /\ Len(c) = Len(a) - (m - i)
          /\ \A k \in 1 .. Len(c) : c[k] = a[IF k <= i THEN k ELSE k + (m - i)]
      BY <2>4, CutList, Zenon
    <3> HIDE DEF c
    <3>3. Len(a) \in Nat
      BY <2>4
    <3>4. i \in 1 .. Len(c)
      BY <2>4, <3>2, <3>3
    <3> QED BY <3>1, <3>2, <3>4
  <2> QED BY <2>2, <2>3, <2>5
<1>5. from \in Nat /\ end \in Nat
  <2> DEFINE a == s.obj[o].chain
  <2>1. a \in Seq(RangeIds) /\ m \in i .. Len(a) /\ i \in 1 .. Len(a)
    BY <1>1, InList DEF Shape
  <2>2. end = s.range[a[m]].to
    OBVIOUS
  <2> HIDE DEF a, end
  <2>3. a[m] \in RangeIds
    <3>1. Len(a) \in Nat
      BY <2>1
    <3>2. m \in 1 .. Len(a)
      BY <2>1, <3>1
    <3> QED BY <2>1, <3>2
  <2>4. \A q \in RangeIds : s.range[q].from \in Nat /\ s.range[q].to \in Nat
    BY <1>1 DEF Shape, RangeSet
  <2> QED BY <1>4, <2>2, <2>3, <2>4
<1>6. /\ from < cut => cut - from <= RangeSize[u]
      /\ SameSizes /\ Short(s, v) /\ ~ (from < cut /\ cut < end) => end - from <= RangeSize[u]
  <2> DEFINE size == RangeSize[u]
  <2>1. size \in Nat /\ size > 0
    BY SizePositive
  <2>2. cut = CutAt(from, size, stop) /\ (s.range[r].nup = 0 => from < stop)
    BY Zenon DEF Cuttable
  <2>3. s.range[r].nup # 0 => i = m
    BY Zenon DEF Cuttable
  <2>4. i = m => end = s.range[r].to
    OBVIOUS
  <2>5. from = s.range[r].from
    OBVIOUS
  <2>6. SameSizes /\ Short(s, v) /\ s.range[r].nup # 0 => s.range[r].to - s.range[r].from <= size
    BY <1>4, CutShort
  <2> HIDE DEF from, end, size, r
  <2>7. /\ from < cut => cut - from <= size
        /\ from < stop /\ ~ (from < cut /\ cut < end) => end - from <= size
    BY <1>5, <2>1, <2>2, CutProps
  <2>8. SameSizes /\ Short(s, v) /\ s.range[r].nup # 0 => end - from <= size
    BY <2>3, <2>4, <2>5, <2>6
  <2> QED BY <2>2, <2>7, <2>8 DEF size
<1>7. Splits(x, r, cut) => FreeRanges(x, cut) # {}
  BY Zenon DEF Cuttable
<1> HIDE DEF x, r, end, from
<1>8. Splits(x, r, cut) <=> from < cut /\ cut < end
  BY <1>4 DEF Splits
<1>9. CASE Splits(x, r, cut)
  <2>1. /\ Reshapes(x, t, v, o)
        /\ Short(x, v) => Short(t, v)
        /\ r \in ToSet(t.obj[o].chain)
        /\ t.range[r].from = from /\ t.range[r].to = cut
    <3> DEFINE q == x.obj[o].chain[i]
    <3>1. q = r
      BY <1>4
    <3>2. Splits(x, q, cut) /\ FreeRanges(x, cut) # {} /\ i \in 1 .. Len(x.obj[o].chain)
      BY <1>4, <1>7, <1>9
    <3>3. /\ Reshapes(x, t, v, o)
          /\ Short(x, v) => Short(t, v)
          /\ q \in ToSet(t.obj[o].chain)
          /\ t.range[q].from = x.range[q].from /\ t.range[q].to = cut
      <4>1. Halved(x, SplitRange(x, o, i, cut), v, o, x.obj[o].chain[i], cut)
        BY <1>3, <3>2, SplitSound, Zenon
      <4> QED BY <1>9, <4>1, Zenon DEF Halved, t
    <3> HIDE DEF q
    <3> QED BY <1>4, <3>1, <3>3
  <2> HIDE DEF t
  <2>2. Sound(t, v, d) /\ Counted(t, v) /\ Enlisted(t, v)
    BY <1>3, <2>1, ReshapedSound
  <2>3. t.range[r].to - t.range[r].from <= RangeSize[u]
    BY <1>6, <1>8, <1>9, <2>1
  <2>4. t.obj[o].num \in Nums /\ t.range[r].owner = o
    <3>1. Shape(t) /\ Linked(t)
      BY <2>2 DEF Sound
    <3>2. PICK k \in 1 .. Len(t.obj[o].chain) : r = t.obj[o].chain[k]
      <4>1. t.obj[o].chain \in Seq(RangeIds)
        BY <3>1, InList DEF Shape
      <4> QED BY <2>1, <4>1, SeqFacts
    <3> QED BY <3>1, <3>2 DEF Linked
  <2> QED BY <1>2, <1>4, <2>1, <2>2, <2>3, <2>4 DEF Takeable, t, x, r
<1>10. CASE ~ Splits(x, r, cut)
  <2>1. t = x
    BY <1>4, <1>10 DEF SplitRange
  <2> HIDE DEF t
  <2>2. r \in ToSet(x.obj[o].chain)
    <3>1. Shape(x)
      BY <1>3 DEF Sound
    <3>2. x.obj[o].chain \in Seq(RangeIds)
      BY <3>1, InList DEF Shape
    <3> QED BY <1>4, <3>2, SeqFacts
  <2>3. x.obj[o].num \in Nums /\ x.range[r].owner = o
    <3>1. Linked(x)
      BY <1>3 DEF Sound
    <3> QED BY <1>4, <3>1 DEF Linked
  <2>4. SameSizes /\ Short(s, v) => x.range[r].to - x.range[r].from <= RangeSize[u]
    BY <1>4, <1>6, <1>8, <1>10
  <2> QED BY <1>2, <1>3, <1>4, <2>1, <2>2, <2>3, <2>4 DEF Takeable, t, x, r
<1> QED BY <1>9, <1>10

\* find_range first releases the ranges that are over.
LEMMA CleanedProps ==
  ASSUME IInv, NEW u \in Uploaders
  PROVE  LET s == Cleaned(swarmer, u)
             list == Opened(s, up[u].ranges)
             v == [up EXCEPT ![u].ranges = list]
         IN  /\ Shape(s)
             /\ list \in Seq(RangeIds) /\ ToSet(list) \subseteq ToSet(up[u].ranges)
             /\ GoesOn(up, v, u, list) /\ DropsOver(swarmer, s, up, v, u, disk)
<1> DEFINE s == Cleaned(swarmer, u)
           R == Over(swarmer, ToSet(up[u].ranges))
           list == Opened(s, up[u].ranges)
           v == [up EXCEPT ![u].ranges = list]
<1>1. UpShape(up) /\ Sound(swarmer, up, disk) /\ Counted(swarmer, up)
  BY DEF IInv
<1>2. s = Release(swarmer, R)
  BY DEF Cleaned, Held
<1>3. Shape(s) /\ SameRanges(swarmer, s)
  <2>1. Shape(swarmer)
    BY <1>1 DEF Sound
  <2> HIDE DEF R
  <2> QED BY <1>2, <2>1, ReleaseFields
<1> HIDE DEF s
<1>4. GoesOn(up, v, u, list) /\ DropsOver(swarmer, s, up, v, u, disk)
  BY <1>1, <1>2, <1>3, DropOver
<1>5. list \in Seq(RangeIds) /\ ToSet(list) \subseteq ToSet(up[u].ranges)
  <2> DEFINE S == Over(s, ToSet(up[u].ranges))
  <2>1. up[u].ranges \in Seq(RangeIds) /\ list = Without(up[u].ranges, S)
    BY <1>1, UpFacts DEF Opened
  <2> HIDE DEF S, list
  <2>2. list \in Seq(RangeIds) /\ ToSet(list) = ToSet(up[u].ranges) \ S
    BY <1>1, <2>1, WithoutProps DEF Counted
  <2> QED BY <2>2
<1> QED BY <1>3, <1>4, <1>5 DEF s

\* find_range selects a range.
LEMMA FindRangeStep ==
  ASSUME IInv, NEW u \in Uploaders, FindRange(u)
  PROVE  IInv' /\ (SameSizes /\ Short(swarmer, up) => Short(swarmer', up'))
<1> DEFINE s == Cleaned(swarmer, u)
           list == Opened(s, up[u].ranges)
           v == [up EXCEPT ![u].ranges = list]
<1>1. /\ UpShape(up) /\ Sound(swarmer, up, disk) /\ Counted(swarmer, up) /\ Enlisted(swarmer, up)
  BY DEF IInv
<1>2. PICK p \in Places(s, u) : \E m \in DOMAIN Chain(s, u, p[1]) :
              LET o == up[u].blocks[p[1]].obj
                  r == RangeAt(s, u, p)
                  stop == IF s.range[r].nup = 0 THEN up[u].blocks[p[1]]
                          ELSE up[u].blocks[Len(up[u].blocks)]
                  cut == Min({s.range[r].from + RangeSize[u], stop.to})
                  merged == MergeRanges(s, o, p[2], m)
                  t == SplitRange(merged, o, p[2], cut)
                  n == IF t.range[r].nup = 0 THEN Length(t, r) ELSE 0
              IN  /\ Best(s, u, p)
                  /\ ~ GivesUp(s, u, p)
                  /\ ClusterEnd(s, u, p, m)
                  /\ Splits(merged, r, cut) => FreeRanges(merged, cut) # {}
                  /\ up' = [up EXCEPT ![u].ranges = Append(Opened(s, @), r)]
                  /\ swarmer' = Collect([t EXCEPT !.range[r].nup = @ + 1,
                                                  !.unselected[t.range[r].owner] = @ - n], up')
  BY Zenon DEF FindRange
<1> DEFINE e == up[u].blocks[p[1]]
           last == up[u].blocks[Len(up[u].blocks)]
           o == e.obj
           r == RangeAt(s, u, p)
           stop == (IF s.range[r].nup = 0 THEN e ELSE last).to
           cut == Min({s.range[r].from + RangeSize[u], stop})
           a == s.obj[o].chain
           i == p[2]
<1>3. PICK m \in DOMAIN Chain(s, u, p[1]) :
              LET merged == MergeRanges(s, o, i, m)
                  t == SplitRange(merged, o, i, cut)
                  n == IF t.range[r].nup = 0 THEN Length(t, r) ELSE 0
              IN  /\ Best(s, u, p)
                  /\ ClusterEnd(s, u, p, m)
                  /\ Splits(merged, r, cut) => FreeRanges(merged, cut) # {}
                  /\ up' = [up EXCEPT ![u].ranges = Append(list, r)]
                  /\ swarmer' = Collect([t EXCEPT !.range[r].nup = @ + 1,
                                                  !.unselected[t.range[r].owner] = @ - n], up')
  BY <1>2, Zenon
<1> DEFINE merged == MergeRanges(s, o, i, m)
           t == SplitRange(merged, o, i, cut)
           n == IF t.range[r].nup = 0 THEN Length(t, r) ELSE 0
           x == [t EXCEPT !.range[r].nup = @ + 1, !.unselected[t.range[r].owner] = @ - n]
           w == [up EXCEPT ![u].ranges = Append(list, r)]
<1>4. /\ Best(s, u, p) /\ ClusterEnd(s, u, p, m)
      /\ Splits(merged, r, cut) => FreeRanges(merged, cut) # {}
      /\ up' = w /\ swarmer' = Collect(x, w)
  BY <1>3, Zenon
<1>5. disk' = disk
  BY Zenon DEF FindRange
<1>6. /\ Shape(s)
      /\ list \in Seq(RangeIds) /\ ToSet(list) \subseteq ToSet(up[u].ranges)
      /\ GoesOn(up, v, u, list) /\ DropsOver(swarmer, s, up, v, u, disk)
  BY CleanedProps
<1> HIDE DEF s
<1>7. Shape(s)
  BY <1>6
<1>8. /\ list \in Seq(RangeIds) /\ ToSet(list) \subseteq ToSet(up[u].ranges)
      /\ GoesOn(up, v, u, list) /\ DropsOver(swarmer, s, up, v, u, disk)
  BY <1>6
<1> HIDE DEF v, list
<1>9. /\ Sound(s, v, disk) /\ Counted(s, v) /\ Enlisted(s, v) /\ UpShape(v)
      /\ Short(swarmer, up) => Short(s, v)
  BY <1>1, <1>8 DEF DropsOver, GoesOn
<1>10. /\ e \in EntrySet /\ last \in EntrySet /\ i \in 1 .. Len(a) /\ Open(s, u, e, a[i])
  BY <1>1, <1>7, PlaceProps, Zenon
<1>11. o \in ObjIds /\ e.to \in Nat /\ last.to \in Nat
  BY <1>10, Zenon DEF EntrySet
<1>12. r = a[i]
  BY DEF RangeAt, Chain
<1>13. m \in i .. Len(a) /\ NoGap(s, o, i, m) /\ (i = m \/ s.range[a[i]].nup = 0)
  BY <1>1, <1>4, <1>7, ClusterProps, Zenon
<1> HIDE DEF e, last, o, r, i
<1>14. r \in RangeIds /\ r \notin ToSet(list)
  <2>1. a[i] \in RangeIds
    BY <1>7, <1>10, <1>11, InList DEF Shape
  <2> QED BY <1>8, <1>10, <1>12, <2>1 DEF Open, Held
<1>15. stop \in Nat /\ (s.range[r].nup = 0 => s.range[r].from < stop)
  BY <1>10, <1>11, <1>12 DEF Open
<1>16. cut = CutAt(s.range[r].from, RangeSize[u], stop)
  BY DEF CutAt
<1> HIDE DEF stop, cut
<1>17. cut \in Nat
  <2>1. s.range[r].from \in Nat
    BY <1>7, <1>14 DEF Shape, RangeSet
  <2> QED BY <1>15, <1>16, <2>1, SizePositive, CutProps
<1>18. /\ Sound(t, v, disk) /\ Counted(t, v) /\ Enlisted(t, v)
       /\ t.obj[o].num \in Nums /\ r \in ToSet(t.obj[o].chain)
       /\ t.range[r].owner = o
       /\ Short(s, v) => Short(t, v)
       /\ SameSizes /\ Short(s, v) => t.range[r].to - t.range[r].from <= RangeSize[u]
  <2>1. Splits(merged, a[i], cut) => FreeRanges(merged, cut) # {}
    BY <1>4, <1>12, Zenon
  <2>2. /\ cut = CutAt(s.range[a[i]].from, RangeSize[u], stop)
        /\ s.range[a[i]].nup = 0 => s.range[a[i]].from < stop
    BY <1>12, <1>15, <1>16, Zenon
  <2>3. Cuttable(s, u, o, i, m, stop, cut)
    BY <1>13, <2>1, <2>2, Zenon DEF Cuttable
  <2>4. /\ i \in 1 .. Len(s.obj[o].chain) /\ m \in i .. Len(s.obj[o].chain)
        /\ stop \in Nat
    BY <1>10, <1>13, <1>15
  <2>5. Takeable(s, t, v, disk, u, o, a[i])
    BY <1>9, <1>11, <1>17, <2>3, <2>4, RangeCut
  <2> HIDE DEF t
  <2> QED BY <1>12, <2>5 DEF Takeable
<1> HIDE DEF t, n
<1>19. GoesOn(v, w, u, Append(v[u].ranges, r)) /\ v[u].ranges = list
  <2>1. Append(list, r) \in Seq(RangeIds)
    BY <1>8, <1>14
  <2>2. GoesOn(up, w, u, Append(list, r))
    BY <1>1, <2>1, SetRanges
  <2> HIDE DEF w
  <2> QED BY <1>8, <2>2 DEF GoesOn
<1> HIDE DEF w
<1>20. /\ Sound(x, w, disk) /\ Counted(x, w) /\ Enlisted(x, w)
       /\ Short(t, v) /\ t.range[r].to - t.range[r].from <= RangeSize[u] => Short(x, w)
  BY <1>9, <1>11, <1>14, <1>18, <1>19, TakenSound, Zenon
<1> HIDE DEF x
<1>21. UpShape(w)
  BY <1>19 DEF GoesOn
<1>22. IInv' /\ (Short(x, w) => Short(swarmer', up'))
  BY <1>4, <1>5, <1>20, <1>21, Settled
<1> QED BY <1>9, <1>18, <1>20, <1>22

-----------------------------------------------------------------------------
(* The theorems                                                            *)

\* Nobody has begun: every block is empty.
LEMMA InitInv == Init => IInv /\ Short(swarmer, up)
<1> SUFFICES ASSUME Init PROVE IInv /\ Short(swarmer, up)
  OBVIOUS
<1>1. /\ swarmer = [pos |-> InitPos, blocks |-> [b \in Nums |-> Block("Empty", 0)],
                    obj |-> [o \in ObjIds |-> NoObj], remaining |-> [o \in ObjIds |-> 0],
                    unselected |-> [o \in ObjIds |-> 0], range |-> [r \in RangeIds |-> NoRange],
                    nuploading |-> [b \in Nums |-> 0]]
      /\ up = [u \in Uploaders |-> NoUploader] /\ disk = {}
  BY Positions DEF Init
<1>2. /\ DOMAIN swarmer = Fields /\ swarmer.pos = InitPos
      /\ swarmer.blocks = [b \in Nums |-> Block("Empty", 0)]
      /\ swarmer.obj = [o \in ObjIds |-> NoObj]
      /\ swarmer.range = [r \in RangeIds |-> NoRange]
      /\ swarmer.nuploading = [b \in Nums |-> 0]
  BY <1>1 DEF Fields
<1>3. NoObj \in ObjSet /\ Len(NoObj.chain) = 0
  <2>1. <<>> \in Seq(RangeIds) /\ Len(<<>>) = 0
    OBVIOUS
  <2> QED BY <2>1 DEF NoObj, ObjSet
<1>4. NoRange \in RangeSet /\ Block("Empty", 0) \in BlockSet
  BY DEF NoRange, RangeSet, Block, BlockSet, Kinds
<1>5. Shape(swarmer)
  BY <1>2, <1>3, <1>4 DEF Shape
<1>6. \A b \in Nums : swarmer.blocks[b].kind = "Empty" /\ swarmer.blocks[b].obj = 0
  BY <1>2 DEF Block
<1>7. Owned(swarmer)
  BY <1>6, IdsAssumption DEF Owned
<1>8. \A o \in ObjIds : Len(swarmer.obj[o].chain) = 0
  BY <1>2, <1>3
<1>9. Linked(swarmer)
  BY <1>8 DEF Linked
<1>10. OnDisk(swarmer, disk)
  BY <1>1, <1>6 DEF OnDisk, Misses
<1>11. \A u \in Uploaders : /\ up[u].ranges = <<>> /\ up[u].blocks = <<>>
                            /\ up[u].complete = <<>> /\ ~ up[u].declared
                            /\ up[u] \in UploaderSet
  <2>1. NoUploader \in UploaderSet
    <3>1. \A S : <<>> \in Seq(S)
      OBVIOUS
    <3> QED BY <3>1 DEF NoUploader, UploaderSet
  <2> QED BY <1>1, <2>1 DEF NoUploader
<1>12. UpShape(up)
  BY <1>1, <1>11 DEF UpShape
<1>13. HeldLive(swarmer, up) /\ EntriesLive(swarmer, up) /\ Short(swarmer, up)
  BY <1>11, EmptyFacts DEF HeldLive, EntriesLive, Short
<1>14. Counted(swarmer, up)
  <2>1. \A r : Holders(up, r) = {}
    BY <1>11, EmptyFacts DEF Holders
  <2>2. \A r \in RangeIds : swarmer.range[r].nup = 0
    BY <1>2 DEF NoRange
  <2> QED BY <1>11, <2>1, <2>2, EmptyFacts, FS_EmptySet DEF Counted
<1>15. Enlisted(swarmer, up)
  <2>1. \A b : Selectors(swarmer, up, b) = {}
    BY <1>11, EmptyFacts DEF Selectors, Selected
  <2>2. \A b \in Nums : swarmer.nuploading[b] = 0
    BY <1>2
  <2>3. \A u \in Uploaders : NumsDiffer(swarmer, up[u].blocks)
    <3>1. Len(<<>>) = 0
      OBVIOUS
    <3> QED BY <1>11, <3>1 DEF NumsDiffer
  <2> QED BY <1>11, <2>1, <2>2, <2>3, EmptyFacts, FS_EmptySet DEF Enlisted
<1> QED BY <1>5, <1>7, <1>9, <1>10, <1>12, <1>13, <1>14, <1>15 DEF IInv, Sound

\* Every step preserves the invariant.
LEMMA NextInv ==
  ASSUME IInv, [Next]_vars
  PROVE  IInv' /\ (SameSizes /\ Short(swarmer, up) => Short(swarmer', up'))
<1>1. ASSUME NEW u \in Uploaders, NEW o \in Offers[u], Declare(u, o)
      PROVE  IInv' /\ (Short(swarmer, up) => Short(swarmer', up'))
  BY <1>1, DeclareStep
<1>2. ASSUME NEW u \in Uploaders, ClearUploaderIntervals(u)
      PROVE  IInv' /\ (Short(swarmer, up) => Short(swarmer', up'))
  BY <1>2, ClearUploaderIntervalsStep
<1>3. ASSUME NEW u \in Uploaders, ClearUploaderRanges(u)
      PROVE  IInv' /\ (Short(swarmer, up) => Short(swarmer', up'))
  BY <1>3, ClearUploaderRangesStep
<1>4. ASSUME NEW u \in Uploaders, UnregisterUploader(u)
      PROVE  IInv' /\ (Short(swarmer, up) => Short(swarmer', up'))
  BY <1>4, UnregisterUploaderStep
<1>5. ASSUME NEW u \in Uploaders, FindBlocks(u)
      PROVE  IInv' /\ (Short(swarmer, up) => Short(swarmer', up'))
  BY <1>5, FindBlocksStep
<1>6. ASSUME NEW u \in Uploaders, FindBlocksLinear(u)
      PROVE  IInv' /\ (Short(swarmer, up) => Short(swarmer', up'))
  BY <1>6, FindBlocksLinearStep
<1>7. ASSUME NEW u \in Uploaders, FindRange(u)
      PROVE  IInv' /\ (SameSizes /\ Short(swarmer, up) => Short(swarmer', up'))
  BY <1>7, FindRangeStep
<1>8. ASSUME NEW u \in Uploaders, FindNoRange(u)
      PROVE  IInv' /\ (Short(swarmer, up) => Short(swarmer', up'))
  BY <1>8, FindNoRangeStep
<1>9. ASSUME NEW u \in Uploaders, NEW from \in HeldBytes(u), NEW last \in HeldBytes(u),
             NEW k \in DOMAIN up[u].ranges, Received(u, from, last + 1, k)
      PROVE  IInv' /\ (Short(swarmer, up) => Short(swarmer', up'))
  BY <1>9, ReceivedStep
<1>10. ASSUME NEW c \in PrimaryChunks, NEW ok \in BOOLEAN, VerifyChunk(c, ok)
       PROVE  IInv' /\ (Short(swarmer, up) => Short(swarmer', up'))
  BY <1>10, VerifyChunkStep
<1>11. ASSUME NEW c \in PrimaryChunks, PropagateChunk(c)
       PROVE  IInv' /\ (Short(swarmer, up) => Short(swarmer', up'))
  BY <1>11, PropagateChunkStep
<1>12. ASSUME UNCHANGED vars
       PROVE  IInv' /\ (Short(swarmer, up) => Short(swarmer', up'))
  BY <1>12 DEF IInv, vars
<1> QED BY <1>1, <1>2, <1>3, <1>4, <1>5, <1>6, <1>7, <1>8, <1>9, <1>10, <1>11, <1>12, Zenon DEF Next

\* The inductive invariant holds of every state.
THEOREM Invariance == Spec => []IInv
<1>1. Init => IInv
  BY InitInv
<1>2. IInv /\ [Next]_vars => IInv'
  BY NextInv
<1> QED BY <1>1, <1>2, PTL DEF Spec

\* Where uploaders ask for one size, no range that is held is longer.
LEMMA ShortInvariance ==
  ASSUME SameSizes
  PROVE  Spec => [](IInv /\ Short(swarmer, up))
<1> DEFINE I == IInv /\ Short(swarmer, up)
<1>1. Init => I
  BY InitInv
<1>2. I /\ [Next]_vars => I'
  <2> SUFFICES ASSUME I, [Next]_vars PROVE I'
    OBVIOUS
  <2>1. IInv' /\ Short(swarmer', up')
    BY NextInv
  <2> QED BY <2>1 DEF Short
<1> HIDE DEF I
<1>3. Spec => []I
  BY <1>1, <1>2, PTL DEF Spec
<1> QED BY <1>3 DEF I

\* A byte is missing exactly when it is in a hole: no block is ever complete over
\* missing data, and no byte that is there is asked for again, whatever range_received,
\* set_completed_block and the failed verifications did before.
THEOREM HolesCorrect == Spec => []HolesAreMissing
<1>1. IInv => HolesAreMissing
  <2> SUFFICES ASSUME IInv, NEW b \in DOMAIN swarmer.blocks
               PROVE  disk \cap BytesOf(swarmer, b) = BytesOf(swarmer, b) \ Holes(b)
    BY DEF HolesAreMissing
  <2>1. Shape(swarmer) /\ Owned(swarmer) /\ OnDisk(swarmer, disk)
    BY DEF IInv, Sound
  <2>2. b \in Nums /\ swarmer.blocks[b] \in BlockSet
    BY <2>1 DEF Shape
  <2>3. BytesOf(swarmer, b) = InitPos[b] .. End(b) - 1
    BY <2>1, <2>2, BlockPlaces DEF Shape
  <2> DEFINE o == swarmer.blocks[b].obj
             kind == swarmer.blocks[b].kind
  <2>4. ASSUME NEW x \in BytesOf(swarmer, b) PROVE x \in Holes(b) <=> Misses(swarmer, b, x)
    <3>1. CASE kind = "Empty"
      BY <3>1 DEF Misses, Holes
    <3>2. CASE kind = "Partial"
      <4>1. o \in ObjIds /\ kind # "Empty"
        BY <2>1, <2>2, <3>2 DEF Owned
      <4> DEFINE chain == swarmer.obj[o].chain
      <4>2. Holes(b) = Bytes(swarmer, ToSet(chain))
        BY <3>2 DEF Holes, ObjOf
      <4>3. chain \in Seq(RangeIds)
        BY <2>1, <4>1, InList DEF Shape
      <4>4. Misses(swarmer, b, x) <=> \E i \in 1 .. Len(chain) : InRange(swarmer, chain[i], x)
        BY <4>1 DEF Misses, InChain
      <4> HIDE DEF chain
      <4>5. x \in Holes(b) <=>
               \E r \in ToSet(chain) : x \in swarmer.range[r].from .. swarmer.range[r].to - 1
        BY <4>2 DEF Bytes
      <4>6. \A r \in ToSet(chain) : r \in RangeIds
        BY <4>3, SeqFacts
      <4>7. \A r \in RangeIds : x \in swarmer.range[r].from .. swarmer.range[r].to - 1
                                  <=> InRange(swarmer, r, x)
        <5>1. x \in Int
          <6>1. InitPos[b] \in Nat /\ End(b) \in Nat
            BY <2>2, Positions
          <6> QED BY <2>3, <6>1
        <5>2. \A r \in RangeIds : swarmer.range[r].from \in Nat /\ swarmer.range[r].to \in Nat
          BY <2>1 DEF Shape, RangeSet
        <5> QED BY <5>1, <5>2 DEF InRange
      <4>8. \A r : r \in ToSet(chain) <=> \E i \in 1 .. Len(chain) : r = chain[i]
        BY <4>3, SeqFacts
      <4> QED BY <4>4, <4>5, <4>6, <4>7, <4>8
    <3>3. CASE kind \notin {"Empty", "Partial"}
      BY <2>1, <2>2, <3>3 DEF Misses, Holes, Owned
    <3> QED BY <3>1, <3>2, <3>3
  <2>5. \A x \in BytesOf(swarmer, b) : x \in disk <=> ~ Misses(swarmer, b, x)
    BY <2>1, <2>2, <2>3 DEF OnDisk
  <2> QED BY <2>4, <2>5
<1> QED BY <1>1, Invariance, PTL

\* range_nuploading is the number of uploaders that hold the range, no uploader holds a
\* range twice, and s_nuploading is the number of those that have selected the block,
\* however selections, releases, merges and failed verifications interleave.
THEOREM ReferencesCorrect == Spec => []ReferencesAgree
<1>1. IInv => ReferencesAgree
  <2> SUFFICES ASSUME IInv PROVE ReferencesAgree
    OBVIOUS
  <2>1. UpShape(up) /\ Shape(swarmer) /\ Counted(swarmer, up) /\ Enlisted(swarmer, up)
    BY DEF IInv, Sound
  <2>2. \A r \in RangeIds : swarmer.range[r].nup = Cardinality({u \in Uploaders : r \in Held(u)})
    BY <2>1 DEF Counted, Holders, Held
  <2>3. ASSUME NEW u \in Uploaders PROVE Len(up[u].ranges) = Cardinality(Held(u))
    <3> DEFINE list == up[u].ranges
    <3>1. list \in Seq(RangeIds) /\ IsInjective(list)
      BY <2>1, UpFacts DEF Counted
    <3> HIDE DEF list
    <3>2. Len(list) \in Nat
      BY <3>1
    <3>3. /\ \A x : x \in ToSet(list) <=> \E i \in 1 .. Len(list) : x = list[i]
          /\ \A i, j \in 1 .. Len(list) : list[i] = list[j] => i = j
          /\ list \in [1 .. Len(list) -> RangeIds]
      BY <3>1, SeqFacts
    <3>4. list \in Bijection(1 .. Len(list), ToSet(list))
      BY <3>3 DEF Bijection, Injection, Surjection, IsInjective
    <3>5. Cardinality(ToSet(list)) = Len(list)
      BY <3>2, <3>4, FS_CountingElements DEF ExistsBijection
    <3> QED BY <3>5 DEF list, Held
  <2>4. ASSUME NEW b \in DOMAIN swarmer.blocks
        PROVE  swarmer.nuploading[b] =
                 Cardinality({u \in Uploaders : \E e \in ToSet(up[u].blocks) :
                                                   swarmer.obj[e.obj].num = b})
    <3>1. b \in Nums
      BY <2>1 DEF Shape
    <3>2. Selectors(swarmer, up, b) =
            {u \in Uploaders : \E e \in ToSet(up[u].blocks) : swarmer.obj[e.obj].num = b}
      BY DEF Selectors, Selected
    <3> QED BY <2>1, <3>1, <3>2 DEF Enlisted
  <2> QED BY <2>2, <2>3, <2>4 DEF ReferencesAgree
<1> QED BY <1>1, Invariance, PTL

\* The ranges of a partial block are its own, lie inside it, are sorted, do not overlap
\* and are not void, through every merge, split, cut and removal.
THEOREM RangesStayOrdered == Spec => []RangesOrdered
<1>1. IInv => RangesOrdered
  <2> SUFFICES ASSUME IInv, NEW b \in PartialBlockNums
               PROVE  LET chain == ObjOf(b).chain IN
        /\ ObjOf(b).num = b /\ ObjOf(b).from = swarmer.pos[b] /\ ObjOf(b).to = BlockEnd(swarmer, b)
        /\ \A i \in DOMAIN chain :
              LET r == swarmer.range[chain[i]] IN
              /\ r.owner = swarmer.blocks[b].obj
              /\ ObjOf(b).from <= r.from /\ r.from < r.to /\ r.to <= ObjOf(b).to
              /\ i < Len(chain) => r.to <= swarmer.range[chain[i + 1]].from
    BY DEF RangesOrdered
  <2>1. Shape(swarmer) /\ Owned(swarmer) /\ Linked(swarmer)
    BY DEF IInv, Sound
  <2> DEFINE o == swarmer.blocks[b].obj
             chain == swarmer.obj[o].chain
  <2>2. b \in Nums /\ swarmer.blocks[b].kind = "Partial"
    BY <2>1 DEF PartialBlockNums, Shape
  <2>3. /\ o \in ObjIds /\ swarmer.obj[o].num = b /\ swarmer.obj[o].from = InitPos[b]
        /\ swarmer.obj[o].to = End(b)
    BY <2>1, <2>2 DEF Owned
  <2>4. swarmer.pos[b] = InitPos[b] /\ BlockEnd(swarmer, b) = End(b)
    BY <2>1, <2>2, BlockPlaces DEF Shape
  <2>5. \A i \in 1 .. Len(chain) :
          /\ swarmer.range[chain[i]].owner = o
          /\ swarmer.obj[o].from <= swarmer.range[chain[i]].from
          /\ swarmer.range[chain[i]].from < swarmer.range[chain[i]].to
          /\ swarmer.range[chain[i]].to <= swarmer.obj[o].to
          /\ \A j \in 1 .. Len(chain) :
                i < j => swarmer.range[chain[i]].to <= swarmer.range[chain[j]].from
    BY <2>1, <2>3, Zenon DEF Linked
  <2>6. chain \in Seq(RangeIds)
    BY <2>1, <2>3, InList DEF Shape
  <2>7. ObjOf(b) = swarmer.obj[o]
    BY DEF ObjOf
  <2> HIDE DEF chain
  <2>8. DOMAIN chain = 1 .. Len(chain) /\ Len(chain) \in Nat
    BY <2>6
  <2>9. \A i \in DOMAIN chain : i < Len(chain) => i + 1 \in 1 .. Len(chain) /\ i < i + 1
    BY <2>8
  <2>10. \A i \in DOMAIN chain :
          /\ swarmer.range[chain[i]].owner = o
          /\ swarmer.obj[o].from <= swarmer.range[chain[i]].from
          /\ swarmer.range[chain[i]].from < swarmer.range[chain[i]].to
          /\ swarmer.range[chain[i]].to <= swarmer.obj[o].to
          /\ i < Len(chain) => swarmer.range[chain[i]].to <= swarmer.range[chain[i + 1]].from
    BY <2>5, <2>8, <2>9
  <2> QED BY <2>3, <2>4, <2>7, <2>10, Zenon DEF chain
<1> QED BY <1>1, Invariance, PTL

\* A range that an uploader holds and that is still open is a hole of the block that is
\* downloaded now, though the block was completed by others, failed and begun again since;
\* where uploaders ask for one size, it is short enough to be asked for.
THEOREM HeldRangesCorrect ==
  ASSUME SameSizes
  PROVE  Spec => []HeldRangesAreLive
<1>1. IInv /\ Short(swarmer, up) => HeldRangesAreLive
  <2> SUFFICES ASSUME IInv, Short(swarmer, up), NEW u \in Uploaders, NEW r \in Held(u)
               PROVE  /\ Length(swarmer, r) <= RangeSize[u]
                      /\ swarmer.range[r].from < swarmer.range[r].to =>
                            \E b \in PartialBlockNums : r \in ToSet(ObjOf(b).chain)
    BY DEF HeldRangesAreLive
  <2>1. r \in ToSet(up[u].ranges)
    BY DEF Held
  <2>2. Length(swarmer, r) <= RangeSize[u]
    BY <2>1 DEF Short, Length
  <2>3. ASSUME swarmer.range[r].from < swarmer.range[r].to
        PROVE  \E b \in PartialBlockNums : r \in ToSet(ObjOf(b).chain)
    <3> DEFINE o == swarmer.range[r].owner
    <3>1. Shape(swarmer) /\ Owned(swarmer) /\ Linked(swarmer) /\ HeldLive(swarmer, up)
      BY DEF IInv, Sound
    <3>2. o \in ObjIds /\ r \in ToSet(swarmer.obj[o].chain)
      BY <2>1, <2>3, <3>1 DEF HeldLive
    <3>3. swarmer.obj[o].chain \in Seq(RangeIds)
      BY <3>1, <3>2, InList DEF Shape
    <3>4. PICK i \in 1 .. Len(swarmer.obj[o].chain) : r = swarmer.obj[o].chain[i]
      BY <3>2, <3>3, SeqFacts
    <3> HIDE DEF o
    <3>5. /\ swarmer.obj[o].num \in Nums /\ swarmer.blocks[swarmer.obj[o].num].obj = o
          /\ swarmer.blocks[swarmer.obj[o].num].kind = "Partial"
      <4>1. Placed(swarmer, o, swarmer.obj[o].chain[i])
        BY <3>1, <3>2, <3>4, RangePlace, Zenon
      <4> QED BY <4>1, Zenon DEF Placed
    <3>6. swarmer.obj[o].num \in PartialBlockNums
      BY <3>1, <3>5 DEF PartialBlockNums, Shape
    <3> QED BY <3>2, <3>5, <3>6 DEF ObjOf
  <2> QED BY <2>2, <2>3
<1> QED BY <1>1, ShortInvariance, PTL

=============================================================================
