----------------------- MODULE SwarmerCounters_proofs -----------------------
(***************************************************************************)
(* Proofs about the counters of bytes in SwarmerRanges: block_remaining is *)
(* what the ranges of the block miss, and, where uploaders ask for one     *)
(* size and offer whole blocks, block_unselected_remaining is what nobody  *)
(* has selected of it; so the block invariant of the code holds.           *)
(*                                                                         *)
(* Each helper of the model is shown to keep the counters in step, from    *)
(* what SwarmerRanges_proofs says of the swarmers before and after it.     *)
(***************************************************************************)
EXTENDS SwarmerRanges_proofs

-----------------------------------------------------------------------------
(* What the counters count.                                                *)

\* The bytes of the ranges of Q that are in the list of o.
Part(s, o, Q) == Bytes(s, {r \in ToSet(s.obj[o].chain) : r \in Q})
NotAsked(s) == {r \in RangeIds : s.range[r].nup = 0}

\* f counts them.
Tally(s, f, Q) ==
    f \in [ObjIds -> Nat] /\ \A o \in ObjIds : f[o] = Cardinality(Part(s, o, Q))
Remains(s) == Tally(s, s.remaining, RangeIds)
Unasked(s) == Tally(s, s.unselected, NotAsked(s))

\* The counters of t are right if those of s are.
Tallies(s, t) == (Remains(s) => Remains(t)) /\ (Unasked(s) => Unasked(t))

\* The bytes of ranges.
LEMMA InBytes ==
  ASSUME NEW s, Shape(s), NEW R, R \subseteq RangeIds, NEW x
  PROVE  x \in Bytes(s, R) <=> x \in Int /\ \E r \in R : InRange(s, r, x)
<1>1. \A r \in R : s.range[r].from \in Nat /\ s.range[r].to \in Nat
  BY DEF Shape, RangeSet
<1>2. \A r \in R : x \in s.range[r].from .. s.range[r].to - 1 <=> x \in Int /\ InRange(s, r, x)
  BY <1>1 DEF InRange
<1>3. x \in Bytes(s, R) <=> \E r \in R : x \in s.range[r].from .. s.range[r].to - 1
  BY DEF Bytes
<1> QED BY <1>2, <1>3

\* The bytes in the list of an object.
LEMMA InPart ==
  ASSUME NEW s, Shape(s), NEW o \in ObjIds, NEW Q, NEW x
  PROVE  x \in Part(s, o, Q) <=>
           x \in Int /\ \E i \in 1 .. Len(s.obj[o].chain) :
                           s.obj[o].chain[i] \in Q /\ InRange(s, s.obj[o].chain[i], x)
<1> DEFINE a == s.obj[o].chain
           R == {r \in ToSet(a) : r \in Q}
<1>1. a \in Seq(RangeIds)
  BY InList DEF Shape
<1> HIDE DEF a
<1>2. ToSet(a) \subseteq RangeIds /\ \A r : r \in ToSet(a) <=> \E i \in 1 .. Len(a) : r = a[i]
  BY <1>1, SeqFacts
<1>3. R \subseteq RangeIds
  BY <1>2
<1>4. \A r : r \in R <=> r \in Q /\ \E i \in 1 .. Len(a) : r = a[i]
  BY <1>2
<1> HIDE DEF R
<1>5. x \in Bytes(s, R) <=> x \in Int /\ \E r \in R : InRange(s, r, x)
  BY <1>3, InBytes
<1>6. (\E r \in R : InRange(s, r, x)) <=> \E i \in 1 .. Len(a) : a[i] \in Q /\ InRange(s, a[i], x)
  BY <1>4, Zenon
<1> QED BY <1>5, <1>6 DEF Part, a, R

\* They are finitely many.
LEMMA PartFinite ==
  ASSUME NEW s, Shape(s), Linked(s), NEW o \in ObjIds, NEW Q
  PROVE  IsFiniteSet(Part(s, o, Q)) /\ Cardinality(Part(s, o, Q)) \in Nat
<1> DEFINE from == s.obj[o].from
           to == s.obj[o].to
           a == s.obj[o].chain
<1>1. from \in Nat /\ to \in Nat
  BY DEF Shape, ObjSet
<1>2. \A i \in 1 .. Len(a) : from <= s.range[a[i]].from /\ s.range[a[i]].to <= to
  BY DEF Linked
<1>3. \A i \in 1 .. Len(a) : s.range[a[i]].from \in Nat /\ s.range[a[i]].to \in Nat
  <2>1. \A i \in 1 .. Len(a) : a[i] \in RangeIds
    BY InList DEF Shape
  <2> HIDE DEF a
  <2> QED BY <2>1 DEF Shape, RangeSet
<1>4. \A x : x \in Part(s, o, Q) => x \in Int /\ \E i \in 1 .. Len(a) : InRange(s, a[i], x)
  BY InPart, Zenon
<1> HIDE DEF a, from, to
<1>5. Part(s, o, Q) \subseteq from .. to - 1
  <2> SUFFICES ASSUME NEW x \in Part(s, o, Q) PROVE x \in from .. to - 1
    OBVIOUS
  <2>1. PICK i \in 1 .. Len(a) : x \in Int /\ InRange(s, a[i], x)
    BY <1>4
  <2> QED BY <2>1, <1>1, <1>2, <1>3 DEF InRange
<1>6. IsFiniteSet(from .. to - 1)
  BY <1>1, FS_Interval
<1> QED BY <1>5, <1>6, FS_Subset, FS_CardinalityType

\* A list of which nothing has changed.
LEMMA SamePart ==
  ASSUME NEW s, NEW t, Shape(s), Shape(t), NEW o \in ObjIds, NEW Q, NEW P,
         t.obj[o].chain = s.obj[o].chain,
         \A i \in 1 .. Len(s.obj[o].chain) :
            LET r == s.obj[o].chain[i] IN
            /\ t.range[r].from = s.range[r].from /\ t.range[r].to = s.range[r].to
            /\ r \in P <=> r \in Q
  PROVE  Part(t, o, P) = Part(s, o, Q)
<1> DEFINE a == s.obj[o].chain
<1>1. \A x : x \in Part(s, o, Q) <=>
           x \in Int /\ \E i \in 1 .. Len(a) : a[i] \in Q /\ InRange(s, a[i], x)
  BY InPart, Zenon
<1>2. \A x : x \in Part(t, o, P) <=>
           x \in Int /\ \E i \in 1 .. Len(a) : a[i] \in P /\ InRange(t, a[i], x)
  BY InPart, Zenon
<1>3. \A i \in 1 .. Len(a) : \A x : /\ a[i] \in P <=> a[i] \in Q
                                    /\ InRange(t, a[i], x) <=> InRange(s, a[i], x)
  BY Zenon DEF InRange
<1> HIDE DEF a
<1> QED BY <1>1, <1>2, <1>3

\* A list that is empty.
LEMMA EmptyPart ==
  ASSUME NEW s, NEW o, s.obj[o].chain = <<>>, NEW Q
  PROVE  Part(s, o, Q) = {} /\ Cardinality(Part(s, o, Q)) = 0
<1>1. {r \in ToSet(s.obj[o].chain) : r \in Q} = {}
  BY EmptyFacts
<1>2. Part(s, o, Q) = {}
  BY <1>1, Zenon DEF Part, Bytes
<1> QED BY <1>2, FS_EmptySet

\* Counters of finite sets are natural numbers.
LEMMA TallyProps ==
  ASSUME NEW s, Shape(s), Linked(s), NEW f, NEW Q, f = [o \in ObjIds |-> f[o]],
         \A o \in ObjIds : f[o] = Cardinality(Part(s, o, Q))
  PROVE  Tally(s, f, Q)
<1>1. \A o \in ObjIds : f[o] \in Nat
  BY PartFinite
<1>2. f \in [ObjIds -> Nat]
  BY <1>1
<1> QED BY <1>2 DEF Tally

\* Nothing that counts has changed.
LEMMA SameTallies ==
  ASSUME NEW s, NEW t, Shape(s), Shape(t), t.remaining = s.remaining,
         t.unselected = s.unselected, t.obj = s.obj, t.range = s.range
  PROVE  Tallies(s, t)
<1>1. \A o \in ObjIds : \A Q : Part(t, o, Q) = Part(s, o, Q)
  BY Zenon DEF Part, Bytes
<1>2. NotAsked(t) = NotAsked(s)
  BY DEF NotAsked
<1> QED BY <1>1, <1>2, Zenon DEF Tallies, Remains, Unasked, Tally

\* The counters of objects that are reclaimed begin at 0 again.
LEMMA CollectTallies ==
  ASSUME NEW s, NEW v, Shape(s), UpShape(v), Linked(s), Linked(Collect(s, v))
  PROVE  Tallies(s, Collect(s, v))
<1> DEFINE held == UNION {ToSet(v[u].ranges) : u \in Uploaders}
           objs == {s.blocks[b].obj : b \in DOMAIN s.blocks} \cup {s.range[r].owner : r \in held}
                     \cup UNION {{e.obj : e \in ToSet(v[u].blocks)} : u \in Uploaders}
           used == held \cup UNION {ToSet(s.obj[o].chain) : o \in objs \ {0}}
           c == Collect(s, v)
           rem == [o \in ObjIds |-> IF o \in objs THEN s.remaining[o] ELSE 0]
           uns == [o \in ObjIds |-> IF o \in objs THEN s.unselected[o] ELSE 0]
           obj == [o \in ObjIds |-> IF o \in objs THEN s.obj[o] ELSE NoObj]
           range == [r \in RangeIds |-> IF r \in used THEN s.range[r] ELSE NoRange]
<1>1. c = [s EXCEPT !.obj = obj, !.remaining = rem, !.unselected = uns, !.range = range]
  BY Zenon DEF Collect
<1>2. Shape(c)
  BY CollectFields
<1>3. \A o \in ObjIds : o \in objs => \A r \in ToSet(s.obj[o].chain) : r \in used
  <2>1. 0 \notin ObjIds
    BY IdsAssumption
  <2> QED BY <2>1
<1> HIDE DEF objs, used, held, c
<1>4. c.obj = obj /\ c.range = range /\ c.remaining = rem /\ c.unselected = uns
  <2> HIDE DEF rem, uns, obj, range
  <2> QED BY <1>1 DEF Shape, Fields
<1>5. ASSUME NEW o \in ObjIds, o \in objs, NEW P, NEW Q,
             \A r \in ToSet(s.obj[o].chain) : r \in P <=> r \in Q
      PROVE  Part(c, o, P) = Part(s, o, Q)
  <2>1. c.obj[o].chain = s.obj[o].chain
    BY <1>4, <1>5
  <2>2. \A r \in ToSet(s.obj[o].chain) : r \in RangeIds /\ c.range[r] = s.range[r]
    <3>1. s.obj[o].chain \in Seq(RangeIds)
      BY InList DEF Shape
    <3>2. \A r \in ToSet(s.obj[o].chain) : r \in RangeIds
      BY <3>1, SeqFacts
    <3> QED BY <3>2, <1>3, <1>4, <1>5
  <2>3. {r \in ToSet(s.obj[o].chain) : r \in P} = {r \in ToSet(s.obj[o].chain) : r \in Q}
    BY <1>5
  <2> DEFINE R == {r \in ToSet(s.obj[o].chain) : r \in Q}
  <2>4. \A r \in R : c.range[r] = s.range[r]
    BY <2>2
  <2>5. Part(c, o, P) = Bytes(c, R) /\ Part(s, o, Q) = Bytes(s, R)
    BY <2>1, <2>3, Zenon DEF Part
  <2> HIDE DEF R
  <2> QED BY <2>4, <2>5 DEF Bytes
<1>6. ASSUME NEW o \in ObjIds, o \notin objs, NEW Q PROVE Cardinality(Part(c, o, Q)) = 0
  <2>1. c.obj[o].chain = <<>>
    BY <1>4, <1>6 DEF NoObj
  <2> QED BY <2>1, EmptyPart
<1>7. ASSUME NEW f, NEW g, NEW P, NEW Q, Tally(s, f, Q), g = [o \in ObjIds |-> g[o]],
             \A o \in ObjIds : g[o] = IF o \in objs THEN f[o] ELSE 0,
             \A o \in ObjIds : o \in objs => \A r \in ToSet(s.obj[o].chain) : r \in P <=> r \in Q
      PROVE  Tally(c, g, P)
  <2>1. ASSUME NEW o \in ObjIds PROVE g[o] = Cardinality(Part(c, o, P))
    <3>1. CASE o \in objs
      <4>1. Part(c, o, P) = Part(s, o, Q)
        BY <1>5, <1>7, <3>1
      <4> QED BY <4>1, <1>7, <3>1 DEF Tally
    <3>2. CASE o \notin objs
      BY <1>6, <1>7, <3>2
    <3> QED BY <3>1, <3>2
  <2> QED BY <2>1, <1>2, <1>7, TallyProps DEF c
<1>8. Remains(s) => Remains(c)
  <2>1. \A o \in ObjIds : rem[o] = IF o \in objs THEN s.remaining[o] ELSE 0
    OBVIOUS
  <2>2. rem = [o \in ObjIds |-> rem[o]]
    OBVIOUS
  <2> HIDE DEF rem
  <2> QED BY <1>4, <1>7, <2>1, <2>2 DEF Remains
<1>9. Unasked(s) => Unasked(c)
  <2>1. \A o \in ObjIds : uns[o] = IF o \in objs THEN s.unselected[o] ELSE 0
    OBVIOUS
  <2>2. uns = [o \in ObjIds |-> uns[o]]
    OBVIOUS
  <2>3. ASSUME NEW o \in ObjIds, o \in objs, NEW r \in ToSet(s.obj[o].chain)
        PROVE  r \in NotAsked(c) <=> r \in NotAsked(s)
    <3>1. r \in RangeIds => c.range[r] = s.range[r]
      BY <1>3, <1>4, <2>3
    <3> QED BY <3>1 DEF NotAsked
  <2> HIDE DEF uns
  <2> QED BY <1>4, <1>7, <2>1, <2>2, <2>3 DEF Unasked
<1> QED BY <1>8, <1>9 DEF Tallies, c

\* s_nuploading counts no bytes.
LEMMA UnselectTallies ==
  ASSUME NEW s, NEW u \in Uploaders, Shape(s), UpShape(up)
  PROVE  Tallies(s, Unselect(s, u))
<1> DEFINE t == Unselect(s, u)
           n(b) == Cardinality({i \in DOMAIN up[u].blocks : s.obj[up[u].blocks[i].obj].num = b})
           nup == [b \in DOMAIN s.pos |-> Max({0, s.nuploading[b] - n(b)})]
<1>1. t = [s EXCEPT !.nuploading = nup]
  BY Zenon DEF Unselect
<1>2. Shape(t) /\ t.obj = s.obj /\ t.range = s.range
  BY UnselectFields
<1> HIDE DEF t, nup
<1>3. t.remaining = s.remaining /\ t.unselected = s.unselected
  BY <1>1 DEF Shape, Fields
<1> QED BY <1>2, <1>3, SameTallies DEF t

\* A range that is held is counted.
LEMMA HeldAsked ==
  ASSUME NEW s, NEW v, Shape(s), Counted(s, v), NEW u \in Uploaders, NEW r \in ToSet(v[u].ranges),
         r \in RangeIds
  PROVE  s.range[r].nup \in Nat /\ s.range[r].nup # 0
<1>1. s.range[r].nup = Cardinality(Holders(v, r))
  BY DEF Counted
<1>2. IsFiniteSet(Holders(v, r)) /\ u \in Holders(v, r)
  BY UploadersAssumption, FS_Subset DEF Holders
<1> QED BY <1>1, <1>2, FS_CardinalityType, FS_EmptySet

\* What nobody else holds of the ranges R is not asked for any more.
LEMMA ReleaseTallies ==
  ASSUME NEW s, NEW v, NEW d, Sound(s, v, d), Counted(s, v), UpShape(v), NEW u \in Uploaders,
         NEW R, R \subseteq ToSet(v[u].ranges)
  PROVE  Tallies(s, Release(s, R))
<1> DEFINE t == Release(s, R)
           free == {r \in R : s.range[r].nup <= 1}
           Freed(o) == {r \in free : s.range[r].owner = o}
           uns == [o \in ObjIds |-> s.unselected[o] + Size(s, Freed(o))]
           range == LessOne(s, R)
<1>1. /\ Shape(s) /\ Linked(s) /\ HeldLive(s, v)
  BY DEF Sound
<1>2. t = [s EXCEPT !.range = range, !.unselected = uns]
  BY Zenon DEF Release
<1>3. /\ Shape(t) /\ SameRanges(s, t)
      /\ \A r \in RangeIds :
           t.range[r].nup = IF r \in R /\ s.range[r].nup > 0 THEN s.range[r].nup - 1
                            ELSE s.range[r].nup
  BY <1>1, ReleaseFields
<1> HIDE DEF t
<1>4. t.remaining = s.remaining /\ t.unselected = uns
  <2> HIDE DEF uns, range
  <2> QED BY <1>1, <1>2 DEF Shape, Fields
<1>5. ASSUME NEW r \in R
      PROVE  /\ r \in RangeIds /\ s.range[r].nup \in Nat /\ s.range[r].nup # 0
             /\ s.range[r].from < s.range[r].to => r \in ToSet(s.obj[s.range[r].owner].chain)
  <2>1. r \in RangeIds /\ r \in ToSet(v[u].ranges)
    BY UpFacts
  <2> QED BY <2>1, <1>1, HeldAsked DEF HeldLive
<1>6. ASSUME NEW o \in ObjIds
      PROVE  /\ s.obj[o].chain \in Seq(RangeIds)
             /\ \A i \in 1 .. Len(s.obj[o].chain) :
                   /\ s.obj[o].chain[i] \in RangeIds
                   /\ s.range[s.obj[o].chain[i]].owner = o
             /\ \A r : r \in ToSet(s.obj[o].chain) <=>
                         \E i \in 1 .. Len(s.obj[o].chain) : r = s.obj[o].chain[i]
  <2>1. s.obj \in [ObjIds -> ObjSet]
    BY <1>1 DEF Shape
  <2>2. \A i \in 1 .. Len(s.obj[o].chain) : s.range[s.obj[o].chain[i]].owner = o
    BY <1>1, Zenon DEF Linked
  <2> QED BY <2>1, <2>2, InList, Zenon
<1>7. ASSUME NEW o \in ObjIds, NEW P, NEW Q,
             \A i \in 1 .. Len(s.obj[o].chain) : s.obj[o].chain[i] \in P <=> s.obj[o].chain[i] \in Q
      PROVE  Part(t, o, P) = Part(s, o, Q)
  <2>1. t.obj[o].chain = s.obj[o].chain
    BY <1>3 DEF SameRanges
  <2>2. \A r \in RangeIds : t.range[r].from = s.range[r].from /\ t.range[r].to = s.range[r].to
    BY <1>3 DEF SameRanges
  <2>3. \A i \in 1 .. Len(s.obj[o].chain) :
            LET r == s.obj[o].chain[i] IN
            /\ t.range[r].from = s.range[r].from /\ t.range[r].to = s.range[r].to
            /\ r \in P <=> r \in Q
    BY <1>6, <1>7, <2>2, Zenon
  <2> QED BY <1>1, <1>3, <2>1, <2>3, SamePart
<1>8. Remains(s) => Remains(t)
  <2>1. \A o \in ObjIds : Part(t, o, RangeIds) = Part(s, o, RangeIds)
    BY <1>7
  <2> QED BY <2>1, <1>4 DEF Remains, Tally
<1>9. ASSUME NEW o \in ObjIds
      PROVE  Cardinality(Part(t, o, NotAsked(t))) = Cardinality(Part(s, o, NotAsked(s))) + Size(s, Freed(o))
  <2> DEFINE a == s.obj[o].chain
             A == Part(s, o, NotAsked(s))
             F == Bytes(s, Freed(o))
  <2>1. \A i \in 1 .. Len(a) : a[i] \in RangeIds /\ s.range[a[i]].owner = o
    BY <1>6
  <2>2. \A x : x \in A <=> x \in Int /\ \E i \in 1 .. Len(a) : s.range[a[i]].nup = 0 /\ InRange(s, a[i], x)
    <3>1. \A x : x \in A <=> x \in Int /\ \E i \in 1 .. Len(a) : a[i] \in NotAsked(s) /\ InRange(s, a[i], x)
      BY <1>1, InPart, Zenon
    <3>2. \A i \in 1 .. Len(a) : a[i] \in NotAsked(s) <=> s.range[a[i]].nup = 0
      BY <2>1 DEF NotAsked
    <3> HIDE DEF a, A
    <3> QED BY <3>1, <3>2
  <2>3. \A x : x \in F <=> x \in Int /\ \E r \in Freed(o) : InRange(s, r, x)
    <3>1. Freed(o) \subseteq RangeIds
      BY <1>5
    <3> QED BY <1>1, <3>1, InBytes, Zenon
  <2>4. Part(t, o, NotAsked(t)) = Part(s, o, NotAsked(t))
    BY <1>7
  <2>5. \A x : x \in Part(s, o, NotAsked(t)) <=>
           x \in Int /\ \E i \in 1 .. Len(a) : t.range[a[i]].nup = 0 /\ InRange(s, a[i], x)
    <3>1. \A x : x \in Part(s, o, NotAsked(t)) <=>
             x \in Int /\ \E i \in 1 .. Len(a) : a[i] \in NotAsked(t) /\ InRange(s, a[i], x)
      BY <1>1, InPart, Zenon
    <3>2. \A i \in 1 .. Len(a) : a[i] \in NotAsked(t) <=> t.range[a[i]].nup = 0
      BY <2>1 DEF NotAsked
    <3> HIDE DEF a
    <3> QED BY <3>1, <3>2
  <2>6. \A r \in RangeIds : InRange(s, r, 0) \in BOOLEAN /\ s.range[r].nup \in Nat
    BY <1>1 DEF Shape, RangeSet, InRange
  <2>7. \A i \in 1 .. Len(a) : t.range[a[i]].nup = 0 <=> s.range[a[i]].nup = 0 \/ a[i] \in Freed(o)
    <3> TAKE i \in 1 .. Len(a)
    <3> DEFINE r == a[i]
    <3>1. r \in RangeIds /\ s.range[r].owner = o /\ s.range[r].nup \in Nat
      BY <2>1, <2>6
    <3> HIDE DEF r
    <3>2. r \in Freed(o) <=> r \in R /\ s.range[r].nup <= 1
      BY <3>1
    <3>3. r \in R => s.range[r].nup # 0
      BY <1>5
    <3>4. t.range[r].nup = IF r \in R /\ s.range[r].nup > 0 THEN s.range[r].nup - 1
                           ELSE s.range[r].nup
      BY <1>3, <3>1
    <3>5. t.range[r].nup = 0 <=> s.range[r].nup = 0 \/ r \in Freed(o)
      <4> HIDE DEF Freed
      <4> QED BY <3>1, <3>2, <3>3, <3>4
    <3> QED BY <3>5 DEF r
  <2>8. ASSUME NEW r \in Freed(o), NEW x \in Int, InRange(s, r, x)
        PROVE  \E i \in 1 .. Len(a) : r = a[i]
    <3>1. r \in R /\ s.range[r].owner = o
      OBVIOUS
    <3>2. s.range[r].from \in Nat /\ s.range[r].to \in Nat
      BY <1>1, <1>5, <3>1 DEF Shape, RangeSet
    <3>3. s.range[r].from < s.range[r].to
      BY <2>8, <3>2 DEF InRange
    <3>4. r \in ToSet(s.obj[o].chain)
      BY <1>5, <3>1, <3>3
    <3> QED BY <1>6, <3>4
  <2>9. \A r \in Freed(o) : s.range[r].nup # 0
    BY <1>5
  <2>10. \A i, j \in 1 .. Len(a) : \A x \in Int : InRange(s, a[i], x) /\ InRange(s, a[j], x) => i = j
    BY <1>1, OneRange, Zenon
  <2> HIDE DEF a, A, F, Freed
  <2>11. Part(s, o, NotAsked(t)) = A \cup F
    <3>1. ASSUME NEW x \in Part(s, o, NotAsked(t)) PROVE x \in A \cup F
      <4>1. PICK i \in 1 .. Len(a) : x \in Int /\ t.range[a[i]].nup = 0 /\ InRange(s, a[i], x)
        BY <2>5
      <4> QED BY <4>1, <2>2, <2>3, <2>7
    <3>2. ASSUME NEW x \in A PROVE x \in Part(s, o, NotAsked(t))
      BY <2>2, <2>5, <2>7
    <3>3. ASSUME NEW x \in F PROVE x \in Part(s, o, NotAsked(t))
      <4>1. PICK r \in Freed(o) : x \in Int /\ InRange(s, r, x)
        BY <2>3
      <4>2. PICK i \in 1 .. Len(a) : r = a[i]
        BY <4>1, <2>8
      <4> QED BY <4>1, <4>2, <2>5, <2>7
    <3> QED BY <3>1, <3>2, <3>3
  <2>12. A \cap F = {}
    <3> SUFFICES ASSUME NEW x, x \in A, x \in F PROVE FALSE
      OBVIOUS
    <3>1. PICK i \in 1 .. Len(a) : x \in Int /\ s.range[a[i]].nup = 0 /\ InRange(s, a[i], x)
      BY <2>2
    <3>2. PICK r \in Freed(o) : InRange(s, r, x)
      BY <2>3
    <3>3. PICK j \in 1 .. Len(a) : r = a[j]
      BY <3>1, <3>2, <2>8
    <3>4. i = j
      BY <3>1, <3>2, <3>3, <2>10, Zenon
    <3> QED BY <3>1, <3>2, <3>3, <3>4, <2>9
  <2>13. IsFiniteSet(A) /\ Cardinality(A) \in Nat
    BY <1>1, PartFinite DEF A
  <2>14. IsFiniteSet(F) /\ Cardinality(F) \in Nat
    <3>1. F \subseteq Part(s, o, NotAsked(t))
      BY <2>11
    <3>2. IsFiniteSet(Part(s, o, NotAsked(t)))
      BY <1>1, PartFinite
    <3> QED BY <3>1, <3>2, FS_Subset, FS_CardinalityType
  <2>15. Cardinality(A \cup F) = Cardinality(A) + Cardinality(F)
    <3>1. Cardinality(A \cup F) = Cardinality(A) + Cardinality(F) - Cardinality(A \cap F)
      BY <2>13, <2>14, FS_Union
    <3>2. Cardinality(A \cap F) = 0
      BY <2>12, FS_EmptySet
    <3> QED BY <3>1, <3>2, <2>13, <2>14
  <2> QED BY <2>4, <2>11, <2>15 DEF A, F, Size
<1>10. Linked(t)
  <2>1. Sound(t, v, d)
    BY <1>3, SameSound
  <2> QED BY <2>1 DEF Sound
<1>11. Unasked(s) => Unasked(t)
  <2> SUFFICES ASSUME Unasked(s) PROVE Unasked(t)
    OBVIOUS
  <2>1. \A o \in ObjIds : uns[o] = s.unselected[o] + Size(s, Freed(o))
    OBVIOUS
  <2>2. uns = [o \in ObjIds |-> uns[o]]
    OBVIOUS
  <2>3. \A o \in ObjIds : s.unselected[o] = Cardinality(Part(s, o, NotAsked(s)))
    BY DEF Unasked, Tally
  <2> HIDE DEF uns, Freed
  <2>4. \A o \in ObjIds : uns[o] = Cardinality(Part(t, o, NotAsked(t)))
    BY <1>9, <2>1, <2>3
  <2>5. Tally(t, uns, NotAsked(t))
    BY <1>3, <1>10, <2>2, <2>4, TallyProps
  <2> QED BY <1>4, <2>5 DEF Unasked
<1> QED BY <1>8, <1>11 DEF Tallies, t

\* The counters of the objects of completed blocks are 0.
LEMMA CompletedTallies ==
  ASSUME NEW s, NEW B, Shape(s), Owned(s), Linked(s), B \subseteq Nums,
         \A b \in B : Downloadable(s, b), Linked(Completed(s, B))
  PROVE  Tallies(s, Completed(s, B))
<1> DEFINE t == Completed(s, B)
           objs == {s.blocks[b].obj : b \in B} \ {0}
           closed == UNION {ToSet(s.obj[o].chain) : o \in objs}
           blocks == [b \in DOMAIN s.pos |->
                        IF b \in B /\ Downloadable(s, b) THEN Block("Complete", 0) ELSE s.blocks[b]]
           range == [r \in RangeIds |-> IF r \in closed THEN [s.range[r] EXCEPT !.from = s.range[r].to]
                                        ELSE s.range[r]]
           obj == [o \in ObjIds |-> IF o \in objs THEN [s.obj[o] EXCEPT !.chain = <<>>]
                                    ELSE s.obj[o]]
           rem == [o \in ObjIds |-> IF o \in objs THEN 0 ELSE s.remaining[o]]
           uns == [o \in ObjIds |-> IF o \in objs THEN 0 ELSE s.unselected[o]]
<1>1. t = [s EXCEPT !.blocks = blocks, !.range = range, !.obj = obj, !.remaining = rem,
                    !.unselected = uns]
  BY Zenon DEF Completed
<1>2. /\ Shape(t)
      /\ \A o \in ObjIds : t.obj[o].chain = IF o \in objs THEN <<>> ELSE s.obj[o].chain
      /\ \A r \in RangeIds :
           /\ t.range[r].from = IF r \in closed THEN s.range[r].to ELSE s.range[r].from
           /\ t.range[r].to = s.range[r].to /\ t.range[r].nup = s.range[r].nup
  BY CompletedFields
<1>3. objs \subseteq ObjIds
  BY DEF Shape, BlockSet
<1> HIDE DEF t, objs
<1>4. t.remaining = rem /\ t.unselected = uns
  <2> HIDE DEF blocks, range, obj, rem, uns
  <2> QED BY <1>1 DEF Shape, Fields
<1>5. \A o \in ObjIds : \A i \in 1 .. Len(s.obj[o].chain) :
         s.obj[o].chain[i] \in RangeIds /\ s.range[s.obj[o].chain[i]].owner = o
  BY InList DEF Shape, Linked
<1>6. ASSUME NEW o \in ObjIds \ objs, NEW i \in 1 .. Len(s.obj[o].chain)
      PROVE  s.obj[o].chain[i] \notin closed
  <2> SUFFICES ASSUME NEW q \in objs, s.obj[o].chain[i] \in ToSet(s.obj[q].chain) PROVE FALSE
    OBVIOUS
  <2>1. PICK j \in 1 .. Len(s.obj[q].chain) : s.obj[o].chain[i] = s.obj[q].chain[j]
    <3>1. s.obj[q].chain \in Seq(RangeIds)
      BY <1>3, InList DEF Shape
    <3> QED BY <3>1, SeqFacts
  <2>2. s.range[s.obj[o].chain[i]].owner = o
    BY <1>5, Zenon
  <2>3. q \in ObjIds /\ s.range[s.obj[q].chain[j]].owner = q
    BY <1>3, <1>5, Zenon
  <2> QED BY <2>1, <2>2, <2>3
<1> HIDE DEF closed
<1>7. ASSUME NEW o \in ObjIds \ objs, NEW P, NEW Q,
             \A r \in RangeIds : r \in P <=> r \in Q
      PROVE  Part(t, o, P) = Part(s, o, Q)
  <2>1. t.obj[o].chain = s.obj[o].chain
    BY <1>2
  <2>2. \A i \in 1 .. Len(s.obj[o].chain) :
            LET r == s.obj[o].chain[i] IN
            /\ t.range[r].from = s.range[r].from /\ t.range[r].to = s.range[r].to
            /\ r \in P <=> r \in Q
    <3> TAKE i \in 1 .. Len(s.obj[o].chain)
    <3>1. s.obj[o].chain[i] \in RangeIds /\ s.obj[o].chain[i] \notin closed
      BY <1>5, <1>6, Zenon
    <3> QED BY <3>1, <1>2, <1>7, Zenon
  <2>3. o \in ObjIds /\ Shape(t)
    BY <1>2
  <2> QED BY <2>1, <2>2, <2>3, SamePart
<1>8. ASSUME NEW f, NEW g, NEW P, NEW Q, Tally(s, f, Q), g = [o \in ObjIds |-> g[o]],
             \A o \in ObjIds : g[o] = IF o \in objs THEN 0 ELSE f[o],
             \A r \in RangeIds : r \in P <=> r \in Q
      PROVE  Tally(t, g, P)
  <2>1. ASSUME NEW o \in ObjIds PROVE g[o] = Cardinality(Part(t, o, P))
    <3>1. CASE o \in objs
      BY <1>2, <1>8, <3>1, EmptyPart
    <3>2. CASE o \notin objs
      <4>1. Part(t, o, P) = Part(s, o, Q)
        BY <1>7, <1>8, <3>2
      <4> QED BY <4>1, <1>8, <3>2 DEF Tally
    <3> QED BY <3>1, <3>2
  <2> QED BY <2>1, <1>2, <1>8, TallyProps DEF t
<1>9. Remains(s) => Remains(t)
  <2>1. \A o \in ObjIds : rem[o] = IF o \in objs THEN 0 ELSE s.remaining[o]
    OBVIOUS
  <2>2. rem = [o \in ObjIds |-> rem[o]]
    OBVIOUS
  <2> HIDE DEF rem
  <2> QED BY <1>4, <1>8, <2>1, <2>2 DEF Remains
<1>10. Unasked(s) => Unasked(t)
  <2>1. \A o \in ObjIds : uns[o] = IF o \in objs THEN 0 ELSE s.unselected[o]
    OBVIOUS
  <2>2. uns = [o \in ObjIds |-> uns[o]]
    OBVIOUS
  <2>3. \A r \in RangeIds : r \in NotAsked(t) <=> r \in NotAsked(s)
    BY <1>2 DEF NotAsked
  <2> HIDE DEF uns
  <2> QED BY <1>4, <1>8, <2>1, <2>2, <2>3 DEF Unasked
<1> QED BY <1>9, <1>10 DEF Tallies, t

\* The counters of a block that is started are its size.
LEMMA StartedTallies ==
  ASSUME NEW s, NEW B, Shape(s), Linked(s), B \subseteq Nums, HasRoom(s, B),
         Linked(Started(s, B))
  PROVE  Tallies(s, Started(s, B))
<1> DEFINE t == Started(s, B)
           new(b) == FreshObj(s, s.pos[b])
           first(b) == FreshRange(s, s.pos[b])
           objOf(o) == CHOOSE b \in B : new(b) = o
           holeOf(r) == CHOOSE b \in B : first(b) = r
           objs == {new(b) : b \in B}
           size(b) == BlockEnd(s, b) - s.pos[b]
           blocks == [b \in DOMAIN s.pos |-> IF b \in B THEN Block("Partial", new(b)) ELSE s.blocks[b]]
           obj2 == [o \in ObjIds |->
                      IF o \in objs
                      THEN [num |-> objOf(o), from |-> s.pos[objOf(o)],
                            to |-> BlockEnd(s, objOf(o)), chain |-> <<first(objOf(o))>>]
                      ELSE s.obj[o]]
           rem == [o \in ObjIds |-> IF o \in objs THEN size(objOf(o)) ELSE s.remaining[o]]
           uns == [o \in ObjIds |-> IF o \in objs THEN size(objOf(o)) ELSE s.unselected[o]]
           range == [r \in RangeIds |->
                        IF r \in {first(b) : b \in B}
                        THEN [from |-> s.pos[holeOf(r)], to |-> BlockEnd(s, holeOf(r)),
                              nup |-> 0, owner |-> new(holeOf(r))]
                        ELSE s.range[r]]
<1>1. t = [s EXCEPT !.blocks = blocks, !.obj = obj2, !.remaining = rem, !.unselected = uns,
                    !.range = range]
  BY Zenon DEF Started
<1>2. PICK obj, hole : StartedBy(s, t, B, obj, hole)
  BY StartedFields, Zenon
<1> HIDE DEF t
<1>3. t.obj = obj2 /\ t.remaining = rem /\ t.unselected = uns
  <2> HIDE DEF blocks, range, obj2, rem, uns
  <2> QED BY <1>1 DEF Shape, Fields
<1>4. ASSUME NEW o \in ObjIds, o \in objs
      PROVE  /\ rem[o] = size(t.obj[o].num) /\ uns[o] = size(t.obj[o].num)
             /\ t.obj[o].chain # <<>> /\ s.obj[o] = NoObj
  <2>1. obj2[o] = [num |-> objOf(o), from |-> s.pos[objOf(o)], to |-> BlockEnd(s, objOf(o)),
                   chain |-> <<first(objOf(o))>>]
    BY <1>4
  <2>2. t.obj[o].num = objOf(o) /\ t.obj[o].chain = <<first(objOf(o))>>
    <3> HIDE DEF obj2, objOf, first
    <3> QED BY <1>3, <2>1
  <2>3. rem[o] = size(objOf(o)) /\ uns[o] = size(objOf(o))
    BY <1>4
  <2>4. t.obj[o].chain # <<>>
    <3> HIDE DEF first, objOf
    <3> QED BY <2>2
  <2>5. s.obj[o] = NoObj
    <3>1. PICK b \in B : o = new(b)
      BY <1>4
    <3> QED BY <3>1, Fresh, Zenon DEF HasRoom
  <2> HIDE DEF rem, uns, size, objOf
  <2> QED BY <2>2, <2>3, <2>4, <2>5
<1>5. ASSUME NEW o \in ObjIds, o \notin objs
      PROVE  rem[o] = s.remaining[o] /\ uns[o] = s.unselected[o] /\ t.obj[o] = s.obj[o]
  BY <1>3, <1>5
<1>6. rem = [o \in ObjIds |-> rem[o]] /\ uns = [o \in ObjIds |-> uns[o]]
  OBVIOUS
<1> HIDE DEF rem, uns, obj2, objs
<1>7. Shape(t)
  BY <1>2 DEF StartedBy
<1>8. ASSUME NEW b \in B
      PROVE  /\ obj[b] \in ObjIds /\ hole[b] \in RangeIds
             /\ s.obj[obj[b]] = NoObj /\ s.range[hole[b]] = NoRange
             /\ t.obj[obj[b]].num = b /\ t.obj[obj[b]].chain = <<hole[b]>>
             /\ t.range[hole[b]].from = InitPos[b] /\ t.range[hole[b]].to = End(b)
             /\ t.range[hole[b]].nup = 0
             /\ InitPos[b] \in Nat /\ End(b) \in Nat /\ InitPos[b] < End(b)
             /\ size(b) = End(b) - InitPos[b]
  <2>1. s.pos = InitPos /\ b \in Nums
    BY DEF Shape
  <2>2. size(b) = End(b) - InitPos[b]
    BY <2>1, BlockPlaces
  <2>3. InitPos[b] \in Nat /\ End(b) \in Nat /\ InitPos[b] < End(b)
    BY <2>1, Positions
  <2>4. /\ obj[b] \in ObjIds /\ hole[b] \in RangeIds
        /\ s.obj[obj[b]] = NoObj /\ s.range[hole[b]] = NoRange
        /\ t.obj[obj[b]] = [num |-> b, from |-> InitPos[b], to |-> End(b), chain |-> <<hole[b]>>]
        /\ t.range[hole[b]] = [from |-> InitPos[b], to |-> End(b), nup |-> 0, owner |-> obj[b]]
    BY <1>2, Zenon DEF StartedBy
  <2> HIDE DEF size
  <2> QED BY <2>2, <2>3, <2>4
<1>9. \A r \in RangeIds : (\A b \in B : r # hole[b]) => t.range[r] = s.range[r]
  BY <1>2 DEF StartedBy
<1> HIDE DEF size
<1>10. ASSUME NEW b \in B
       PROVE  /\ obj[b] \in objs
              /\ \A Q : hole[b] \in Q =>
                    Cardinality(Part(t, obj[b], Q)) = size(b)
  <2>1. obj[b] \in objs
    <3>1. NoObj.num = 0 /\ b # 0
      <4>1. b \in Nums
        OBVIOUS
      <4> QED BY <4>1 DEF NoObj, Nums
    <3>2. obj[b] \in ObjIds /\ s.obj[obj[b]] = NoObj /\ t.obj[obj[b]].num = b
      BY <1>8, Zenon
    <3>3. t.obj[obj[b]] # s.obj[obj[b]]
      BY <3>1, <3>2, Zenon
    <3> QED BY <3>2, <3>3, <1>5, Zenon
  <2>2. ASSUME NEW Q, hole[b] \in Q PROVE Cardinality(Part(t, obj[b], Q)) = size(b)
    <3>1. {r \in ToSet(t.obj[obj[b]].chain) : r \in Q} = {hole[b]}
      <4> DEFINE h == hole[b]
      <4>1. ToSet(<<h>>) = {h}
        BY DEF ToSet
      <4> HIDE DEF h
      <4> QED BY <4>1, <1>8, <2>2 DEF h
    <3>2. Part(t, obj[b], Q) = InitPos[b] .. End(b) - 1
      BY <3>1, <1>8 DEF Part, Bytes
    <3> QED BY <3>2, <1>8, FS_Interval
  <2> QED BY <2>1, <2>2
<1>11. ASSUME NEW o \in ObjIds, \A b \in B : o # obj[b]
       PROVE  /\ o \notin objs
              /\ \A P, Q : (\A r \in RangeIds : t.range[r] = s.range[r] => (r \in P <=> r \in Q)) =>
                    Part(t, o, P) = Part(s, o, Q)
  <2>1. t.obj[o] = s.obj[o]
    BY <1>2, <1>11 DEF StartedBy
  <2>2. o \notin objs
    <3>1. NoObj.chain = <<>>
      BY DEF NoObj
    <3> QED BY <3>1, <2>1, <1>4
  <2>3. ASSUME NEW i \in 1 .. Len(s.obj[o].chain)
        PROVE  s.obj[o].chain[i] \in RangeIds /\ t.range[s.obj[o].chain[i]] = s.range[s.obj[o].chain[i]]
    <3>1. s.obj[o].chain[i] \in RangeIds /\ s.range[s.obj[o].chain[i]].owner = o
      BY InList DEF Shape, Linked
    <3>2. o # 0
      BY IdsAssumption
    <3>3. \A b \in B : s.range[hole[b]].owner = 0
      BY <1>8 DEF NoRange
    <3>4. \A b \in B : s.obj[o].chain[i] # hole[b]
      BY <3>1, <3>2, <3>3, Zenon
    <3> QED BY <3>1, <3>4, <1>9
  <2>4. ASSUME NEW P, NEW Q, \A r \in RangeIds : t.range[r] = s.range[r] => (r \in P <=> r \in Q)
        PROVE  Part(t, o, P) = Part(s, o, Q)
    <3>1. \A i \in 1 .. Len(s.obj[o].chain) :
            LET r == s.obj[o].chain[i] IN
            /\ t.range[r].from = s.range[r].from /\ t.range[r].to = s.range[r].to
            /\ r \in P <=> r \in Q
      BY <2>3, <2>4
    <3> QED BY <1>7, <2>1, <3>1, SamePart
  <2> QED BY <2>2, <2>4
<1>12. ASSUME NEW f, NEW g, NEW P, NEW Q, Tally(s, f, Q), g = [o \in ObjIds |-> g[o]],
              \A o \in ObjIds : /\ o \in objs => g[o] = size(t.obj[o].num)
                                /\ o \notin objs => g[o] = f[o],
              \A b \in B : hole[b] \in P,
              \A r \in RangeIds : t.range[r] = s.range[r] => (r \in P <=> r \in Q)
       PROVE  Tally(t, g, P)
  <2>1. ASSUME NEW o \in ObjIds PROVE g[o] = Cardinality(Part(t, o, P))
    <3>1. CASE \E b \in B : o = obj[b]
      <4>1. PICK b \in B : o = obj[b]
        BY <3>1
      <4>2. o \in objs /\ t.obj[o].num = b /\ Cardinality(Part(t, o, P)) = size(b)
        BY <4>1, <1>8, <1>10, <1>12
      <4> QED BY <4>2, <1>12
    <3>2. CASE \A b \in B : o # obj[b]
      <4>1. o \notin objs
        BY <1>11, <3>2
      <4>2. Part(t, o, P) = Part(s, o, Q)
        BY <1>11, <1>12, <3>2
      <4> QED BY <4>1, <4>2, <1>12 DEF Tally
    <3> QED BY <3>1, <3>2
  <2> QED BY <2>1, <1>7, <1>12, TallyProps DEF t
<1>13. Remains(s) => Remains(t)
  BY <1>3, <1>4, <1>5, <1>6, <1>8, <1>12 DEF Remains
<1>14. Unasked(s) => Unasked(t)
  <2>1. \A b \in B : hole[b] \in NotAsked(t)
    BY <1>8 DEF NotAsked
  <2>2. \A r \in RangeIds : t.range[r] = s.range[r] => (r \in NotAsked(t) <=> r \in NotAsked(s))
    BY DEF NotAsked
  <2> QED BY <1>3, <1>4, <1>5, <1>6, <1>12, <2>1, <2>2 DEF Unasked
<1> QED BY <1>13, <1>14 DEF Tallies, t

\* The bytes that arrive are taken from the counters.
LEMMA FilledTallies ==
  ASSUME NEW s, Shape(s), Linked(s), NEW R, R \subseteq RangeIds, NEW to \in Nat,
         \A r \in R : /\ s.range[r].from < to /\ s.range[r].owner \in ObjIds
                      /\ r \in ToSet(s.obj[s.range[r].owner].chain),
         Linked(Filled(s, R, to))
  PROVE  Tallies(s, Filled(s, R, to))
<1> DEFINE t == Filled(s, R, to)
           over == {r \in R : s.range[r].to <= to}
           early == 0 .. to - 1
           got(o, Q) == Cardinality(Bytes(s, {r \in Q : s.range[r].owner = o}) \cap early)
           free == {r \in R : s.range[r].nup = 0}
           range == [r \in RangeIds |-> IF r \in R THEN [s.range[r] EXCEPT !.from = Min({to, s.range[r].to})]
                                        ELSE s.range[r]]
           obj == [o \in ObjIds |-> [s.obj[o] EXCEPT !.chain = Without(s.obj[o].chain, over)]]
           rem == [o \in ObjIds |-> s.remaining[o] - got(o, R)]
           uns == [o \in ObjIds |-> s.unselected[o] - got(o, free)]
<1>1. t = [s EXCEPT !.range = range, !.obj = obj, !.remaining = rem, !.unselected = uns]
  BY Zenon DEF Filled
<1>2. FilledBy(s, t, R, to, over)
  BY FilledFields
<1> HIDE DEF t
<1>3. t.remaining = rem /\ t.unselected = uns
  <2> HIDE DEF range, obj, rem, uns
  <2> QED BY <1>1 DEF Shape, Fields
<1>4. \A r \in RangeIds : s.range[r].from \in Nat /\ s.range[r].to \in Nat
  BY DEF Shape, RangeSet
<1>5. over \subseteq R /\ \A r \in R : r \in RangeIds /\ (r \in over <=> s.range[r].to <= to)
  OBVIOUS
<1> HIDE DEF over
<1>6. /\ Shape(t)
      /\ \A o \in ObjIds : t.obj[o].chain = Without(s.obj[o].chain, over)
      /\ \A r \in RangeIds : r \notin over =>
           /\ t.range[r].from = IF r \in R THEN to ELSE s.range[r].from
           /\ t.range[r].to = s.range[r].to
      /\ \A r \in RangeIds : t.range[r].nup = s.range[r].nup
  BY <1>2 DEF FilledBy
<1>7. ASSUME NEW o \in ObjIds, NEW Q, NEW S, S = {r \in R : r \in Q /\ s.range[r].owner = o}
      PROVE  Cardinality(Part(t, o, Q)) =
                Cardinality(Part(s, o, Q)) - Cardinality(Bytes(s, S) \cap early)
  <2> DEFINE a == s.obj[o].chain
             L == ToSet(a)
             A == Part(s, o, Q)
             T == Part(t, o, Q)
             G == Bytes(s, S) \cap early
  <2>1. a \in Seq(RangeIds)
    BY InList DEF Shape
  <2>2. L \subseteq RangeIds /\ \A r : r \in L <=> \E i \in 1 .. Len(a) : r = a[i]
    <3> HIDE DEF a
    <3> QED BY <2>1, SeqFacts
  <2>3. ToSet(t.obj[o].chain) = L \ over
    BY <1>6, <2>1, WithoutProps
  <2>4. \A r \in L : s.range[r].owner = o
    BY <2>2 DEF Linked
  <2>5. \A x \in Int : \A r, q \in L : InRange(s, r, x) /\ InRange(s, q, x) => r = q
    <3>1. \A i, j \in 1 .. Len(a) : \A x \in Int : InRange(s, a[i], x) /\ InRange(s, a[j], x) => i = j
      BY OneRange, Zenon
    <3> HIDE DEF a, L
    <3> TAKE x \in Int
    <3> TAKE r, q \in L
    <3>2. PICK i \in 1 .. Len(a) : r = a[i]
      BY <2>2
    <3>3. PICK j \in 1 .. Len(a) : q = a[j]
      BY <2>2
    <3> QED BY <3>1, <3>2, <3>3, Zenon
  <2>6. \A x : x \in A <=> x \in Int /\ \E r \in L : r \in Q /\ InRange(s, r, x)
    <3> DEFINE K == {r \in L : r \in Q}
    <3>1. K \subseteq RangeIds /\ A = Bytes(s, K)
      BY <2>2 DEF Part
    <3> HIDE DEF K, A
    <3>2. \A x : x \in A <=> x \in Int /\ \E r \in K : InRange(s, r, x)
      BY <3>1, InBytes, Zenon
    <3> QED BY <3>2 DEF K
  <2>7. \A x : x \in T <=> x \in Int /\ \E r \in L \ over : r \in Q /\ InRange(t, r, x)
    <3> DEFINE K == {r \in L \ over : r \in Q}
    <3>1. K \subseteq RangeIds /\ T = Bytes(t, K)
      BY <2>2, <2>3, Zenon DEF Part
    <3> HIDE DEF K, T
    <3>2. \A x : x \in T <=> x \in Int /\ \E r \in K : InRange(t, r, x)
      BY <1>6, <3>1, InBytes, Zenon
    <3> QED BY <3>2 DEF K
  <2>8. \A x : x \in G <=> x \in Int /\ x \in early /\ \E r \in S : InRange(s, r, x)
    <3>1. S \subseteq RangeIds
      BY <1>7
    <3>2. \A x : x \in Bytes(s, S) <=> x \in Int /\ \E r \in S : InRange(s, r, x)
      BY <3>1, InBytes, Zenon
    <3> HIDE DEF early
    <3> QED BY <3>2
  <2>9. \A r : r \in S <=> r \in R /\ r \in Q /\ s.range[r].owner = o
    BY <1>7
  <2>10. S \subseteq L
    BY <2>9
  <2>11. \A x \in Int : x \in early <=> 0 <= x /\ x < to
    OBVIOUS
  <2>12. IsFiniteSet(A) /\ Cardinality(A) \in Nat
    BY PartFinite
  <2> HIDE DEF a, L, A, T, G, early
  <2>13. ASSUME NEW x \in T PROVE x \in A /\ x \notin G
    <3>1. PICK r \in L \ over : x \in Int /\ r \in Q /\ InRange(t, r, x)
      BY <2>7
    <3>2. r \in RangeIds /\ s.range[r].from \in Nat /\ s.range[r].to \in Nat
      BY <2>2, <1>4
    <3>3. CASE r \in R
      <4>1. to <= x /\ x < s.range[r].to /\ s.range[r].from < to
        BY <1>6, <3>1, <3>2, <3>3 DEF InRange
      <4>2. s.range[r].from <= x
        BY <3>1, <3>2, <4>1
      <4> QED BY <2>6, <2>8, <2>11, <3>1, <4>1, <4>2 DEF InRange
    <3>4. CASE r \notin R
      <4>1. InRange(s, r, x)
        BY <1>6, <3>1, <3>2, <3>4 DEF InRange
      <4>2. x \notin G
        <5> SUFFICES ASSUME x \in G PROVE FALSE
          OBVIOUS
        <5>1. PICK q \in S : InRange(s, q, x)
          BY <2>8
        <5> QED BY <2>5, <2>9, <2>10, <3>1, <3>4, <4>1, <5>1
      <4> QED BY <2>6, <3>1, <4>1, <4>2
    <3> QED BY <3>3, <3>4
  <2>14. ASSUME NEW x \in A, x \notin G PROVE x \in T
    <3>1. PICK r \in L : x \in Int /\ r \in Q /\ InRange(s, r, x)
      BY <2>6
    <3>2. r \in RangeIds /\ s.range[r].from \in Nat /\ s.range[r].to \in Nat
      BY <2>2, <1>4
    <3>3. CASE r \in R
      <4>1. r \in S
        BY <2>4, <2>9, <3>1, <3>3
      <4>2. x \notin early
        BY <2>8, <2>14, <3>1, <4>1
      <4>3. s.range[r].from <= x /\ x < s.range[r].to
        BY <3>1 DEF InRange
      <4>4. to <= x
        BY <2>11, <3>1, <3>2, <4>2, <4>3
      <4>5. r \notin over
        BY <1>5, <3>1, <3>2, <3>3, <4>3, <4>4
      <4>6. InRange(t, r, x)
        BY <1>6, <3>2, <3>3, <4>3, <4>4, <4>5 DEF InRange
      <4> QED BY <2>7, <3>1, <4>5, <4>6
    <3>4. CASE r \notin R
      <4>1. r \notin over
        BY <1>5, <3>4
      <4>2. InRange(t, r, x)
        BY <1>6, <3>1, <3>2, <3>4, <4>1 DEF InRange
      <4> QED BY <2>7, <3>1, <4>1, <4>2
    <3> QED BY <3>3, <3>4
  <2>15. G \subseteq A
    BY <2>6, <2>8, <2>9, <2>10
  <2>16. T = A \ G
    <3>1. ASSUME NEW x PROVE x \in T <=> x \in A \ G
      BY <2>13, <2>14
    <3> QED BY <3>1
  <2>17. Cardinality(A \ G) = Cardinality(A) - Cardinality(G)
    <3>1. Cardinality(A \ G) = Cardinality(A) - Cardinality(A \cap G)
      BY <2>12, FS_Difference
    <3>2. A \cap G = G
      BY <2>15
    <3> QED BY <3>1, <3>2
  <2> QED BY <2>16, <2>17 DEF A, T, G
<1> HIDE DEF early
<1>8. Remains(s) => Remains(t)
  <2> SUFFICES ASSUME Remains(s) PROVE Remains(t)
    OBVIOUS
  <2> DEFINE S(o) == {r \in R : s.range[r].owner = o}
  <2>1. \A o \in ObjIds : rem[o] = s.remaining[o] - Cardinality(Bytes(s, S(o)) \cap early)
    OBVIOUS
  <2>2. \A o \in ObjIds : S(o) = {r \in R : r \in RangeIds /\ s.range[r].owner = o}
    OBVIOUS
  <2>3. rem = [o \in ObjIds |-> rem[o]]
    OBVIOUS
  <2> HIDE DEF rem, S
  <2>4. ASSUME NEW o \in ObjIds PROVE rem[o] = Cardinality(Part(t, o, RangeIds))
    <3>1. s.remaining[o] = Cardinality(Part(s, o, RangeIds))
      BY DEF Remains, Tally
    <3>2. Cardinality(Part(t, o, RangeIds)) =
             Cardinality(Part(s, o, RangeIds)) - Cardinality(Bytes(s, S(o)) \cap early)
      BY <1>7, <2>2
    <3> QED BY <2>1, <3>1, <3>2
  <2>5. Tally(t, rem, RangeIds)
    BY <1>6, <2>3, <2>4, TallyProps DEF t
  <2> QED BY <1>3, <2>5 DEF Remains
<1>9. Unasked(s) => Unasked(t)
  <2> SUFFICES ASSUME Unasked(s) PROVE Unasked(t)
    OBVIOUS
  <2> DEFINE S(o) == {r \in free : s.range[r].owner = o}
  <2>1. \A o \in ObjIds : uns[o] = s.unselected[o] - Cardinality(Bytes(s, S(o)) \cap early)
    OBVIOUS
  <2>2. \A o \in ObjIds : S(o) = {r \in R : r \in NotAsked(s) /\ s.range[r].owner = o}
    BY DEF NotAsked
  <2>3. uns = [o \in ObjIds |-> uns[o]]
    OBVIOUS
  <2>4. NotAsked(t) = NotAsked(s)
    BY <1>6 DEF NotAsked
  <2> HIDE DEF uns, S
  <2>5. ASSUME NEW o \in ObjIds PROVE uns[o] = Cardinality(Part(t, o, NotAsked(s)))
    <3>1. s.unselected[o] = Cardinality(Part(s, o, NotAsked(s)))
      BY DEF Unasked, Tally
    <3>2. Cardinality(Part(t, o, NotAsked(s))) =
             Cardinality(Part(s, o, NotAsked(s))) - Cardinality(Bytes(s, S(o)) \cap early)
      BY <1>7, <2>2
    <3> QED BY <2>1, <3>1, <3>2
  <2>6. Tally(t, uns, NotAsked(t))
    BY <1>6, <2>3, <2>4, <2>5, TallyProps DEF t
  <2> QED BY <1>3, <2>6 DEF Unasked
<1> QED BY <1>8, <1>9 DEF Tallies, t

\* A byte of a list is either in a range of Q or in another one.
LEMMA OtherPart ==
  ASSUME NEW s, Shape(s), Linked(s), NEW o \in ObjIds, NEW Q, NEW x
  PROVE  x \in Part(s, o, Q) <=> x \in Part(s, o, RangeIds) /\ x \notin Part(s, o, RangeIds \ Q)
<1> DEFINE a == s.obj[o].chain
<1>1. \A P : \A y : y \in Part(s, o, P) <=>
           y \in Int /\ \E i \in 1 .. Len(a) : a[i] \in P /\ InRange(s, a[i], y)
  BY InPart, Zenon
<1>2. \A i \in 1 .. Len(a) : a[i] \in RangeIds
  BY InList DEF Shape
<1>3. \A i, j \in 1 .. Len(a) : \A y \in Int : InRange(s, a[i], y) /\ InRange(s, a[j], y) => i = j
  BY OneRange, Zenon
<1> HIDE DEF a
<1>4. ASSUME x \in Part(s, o, Q)
      PROVE  x \in Part(s, o, RangeIds) /\ x \notin Part(s, o, RangeIds \ Q)
  <2>1. PICK i \in 1 .. Len(a) : x \in Int /\ a[i] \in Q /\ InRange(s, a[i], x)
    BY <1>1, <1>4
  <2>2. x \in Part(s, o, RangeIds)
    BY <1>1, <1>2, <2>1
  <2>3. ASSUME x \in Part(s, o, RangeIds \ Q) PROVE FALSE
    <3>1. PICK j \in 1 .. Len(a) : a[j] \in RangeIds \ Q /\ InRange(s, a[j], x)
      BY <1>1, <2>3
    <3> QED BY <1>3, <2>1, <3>1
  <2> QED BY <2>2, <2>3
<1>5. ASSUME x \in Part(s, o, RangeIds), x \notin Part(s, o, RangeIds \ Q)
      PROVE  x \in Part(s, o, Q)
  <2>1. PICK i \in 1 .. Len(a) : x \in Int /\ a[i] \in RangeIds /\ InRange(s, a[i], x)
    BY <1>1, <1>5
  <2>2. a[i] \in Q
    BY <1>1, <1>5, <2>1
  <2> QED BY <1>1, <2>1, <2>2
<1> QED BY <1>4, <1>5

\* The ranges that somebody downloads are as before.
SameAsked(s, t, o) ==
    \A r \in RangeIds : s.range[r].nup # 0 =>
        /\ t.range[r] = s.range[r]
        /\ r \in ToSet(t.obj[o].chain) <=> r \in ToSet(s.obj[o].chain)

\* A list that is arranged anew has the same bytes.
LEMMA ReshapedTallies ==
  ASSUME NEW s, NEW t, NEW v, Shape(s), Linked(s), Shape(t), Linked(t), NEW o \in ObjIds,
         Reshapes(s, t, v, o), t.remaining = s.remaining, t.unselected = s.unselected
  PROVE  /\ Remains(s) => Remains(t)
         /\ SameAsked(s, t, o) /\ Unasked(s) => Unasked(t)
<1>1. /\ \A q \in ObjIds : q # o => t.obj[q].chain = s.obj[q].chain
      /\ \A r \in RangeIds : /\ t.range[r].nup = s.range[r].nup
                             /\ s.range[r].owner \in ObjIds \ {o} => t.range[r] = s.range[r]
      /\ \A x \in Int : InChain(t, o, x) <=> InChain(s, o, x)
  BY Zenon DEF Reshapes
<1>2. NotAsked(t) = NotAsked(s)
  BY <1>1 DEF NotAsked
<1>3. ASSUME NEW q \in ObjIds, q # o, NEW Q PROVE Part(t, q, Q) = Part(s, q, Q)
  <2>1. \A i \in 1 .. Len(s.obj[q].chain) :
          LET r == s.obj[q].chain[i] IN
          /\ t.range[r].from = s.range[r].from /\ t.range[r].to = s.range[r].to
          /\ r \in Q <=> r \in Q
    <3> TAKE i \in 1 .. Len(s.obj[q].chain)
    <3>1. s.obj[q].chain[i] \in RangeIds
      BY InList DEF Shape
    <3>2. s.range[s.obj[q].chain[i]].owner = q
      BY Zenon DEF Linked
    <3> QED BY <3>1, <3>2, <1>1, <1>3
  <2>2. t.obj[q].chain = s.obj[q].chain
    BY <1>1, <1>3
  <2> QED BY <2>1, <2>2, SamePart
<1>4. \A x : x \in Part(t, o, RangeIds) <=> x \in Part(s, o, RangeIds)
  <2> TAKE x
  <2>1. x \in Part(s, o, RangeIds) <=>
           x \in Int /\ \E i \in 1 .. Len(s.obj[o].chain) :
                           s.obj[o].chain[i] \in RangeIds /\ InRange(s, s.obj[o].chain[i], x)
    BY InPart, Zenon
  <2>2. x \in Part(t, o, RangeIds) <=>
           x \in Int /\ \E i \in 1 .. Len(t.obj[o].chain) :
                           t.obj[o].chain[i] \in RangeIds /\ InRange(t, t.obj[o].chain[i], x)
    BY InPart, Zenon
  <2>3. /\ \A i \in 1 .. Len(s.obj[o].chain) : s.obj[o].chain[i] \in RangeIds
        /\ \A i \in 1 .. Len(t.obj[o].chain) : t.obj[o].chain[i] \in RangeIds
    BY InList DEF Shape
  <2>4. x \in Part(s, o, RangeIds) <=> x \in Int /\ InChain(s, o, x)
    BY <2>1, <2>3, Zenon DEF InChain
  <2>5. x \in Part(t, o, RangeIds) <=> x \in Int /\ InChain(t, o, x)
    BY <2>2, <2>3, Zenon DEF InChain
  <2> QED BY <1>1, <2>4, <2>5
<1>5. Remains(s) => Remains(t)
  <2>1. \A q \in ObjIds : Part(t, q, RangeIds) = Part(s, q, RangeIds)
    BY <1>3, <1>4
  <2> QED BY <2>1, Zenon DEF Remains, Tally
<1>6. ASSUME SameAsked(s, t, o), Unasked(s) PROVE Unasked(t)
  <2> DEFINE N == NotAsked(s)
             asked == RangeIds \ N
  <2>1. Part(t, o, asked) = Part(s, o, asked)
    <3> DEFINE K == {r \in ToSet(s.obj[o].chain) : r \in asked}
    <3>1. \A r \in asked : /\ t.range[r] = s.range[r]
                           /\ r \in ToSet(t.obj[o].chain) <=> r \in ToSet(s.obj[o].chain)
      BY <1>6 DEF SameAsked, NotAsked
    <3> HIDE DEF asked
    <3>2. {r \in ToSet(t.obj[o].chain) : r \in asked} = K
      BY <3>1
    <3>3. Part(t, o, asked) = Bytes(t, K) /\ Part(s, o, asked) = Bytes(s, K)
      BY <3>2, Zenon DEF Part
    <3>4. \A r \in K : t.range[r] = s.range[r]
      BY <3>1
    <3> HIDE DEF K
    <3> QED BY <3>3, <3>4 DEF Bytes
  <2> HIDE DEF N
  <2>2. \A x : x \in Part(t, o, N) <=> x \in Part(s, o, N)
    <3> TAKE x
    <3>1. x \in Part(s, o, N) <=> x \in Part(s, o, RangeIds) /\ x \notin Part(s, o, asked)
      BY OtherPart, Zenon
    <3>2. x \in Part(t, o, N) <=> x \in Part(t, o, RangeIds) /\ x \notin Part(t, o, asked)
      BY OtherPart, Zenon
    <3> QED BY <3>1, <3>2, <1>4, <2>1
  <2>3. Part(t, o, N) = Part(s, o, N)
    BY <2>2
  <2>4. \A q \in ObjIds : Part(t, q, N) = Part(s, q, N)
    BY <1>3, <2>3, Zenon
  <2> QED BY <2>4, <1>2, <1>6, Zenon DEF Unasked, Tally, N
<1> QED BY <1>5, <1>6

\* The counters are not touched when ranges are merged.
LEMMA MergedTallies ==
  ASSUME NEW s, NEW v, NEW d, Sound(s, v, d), UpShape(v), Counted(s, v), NEW o \in ObjIds,
         NEW i \in 1 .. Len(s.obj[o].chain), NEW m \in i .. Len(s.obj[o].chain), NoGap(s, o, i, m),
         i = m \/ s.range[s.obj[o].chain[i]].nup = 0
  PROVE  Tallies(s, MergeRanges(s, o, i, m))
<1> DEFINE t == MergeRanges(s, o, i, m)
           a == s.obj[o].chain
           c == SubSeq(a, 1, i) \o SubSeq(a, m + 1, Len(a))
           end == s.range[a[m]].to
           r == a[i]
<1>1. Shape(s) /\ Linked(s)
  BY DEF Sound
<1>2. Merges(s, t, o, c, r, end)
  BY <1>1, MergeFields
<1>3. Reshapes(s, t, v, o)
  BY MergedSound
<1>4. Shape(t) /\ Linked(t)
  <2>1. Sound(t, v, d)
    BY <1>3, ReshapedSound
  <2> QED BY <2>1 DEF Sound
<1>5. t = [s EXCEPT !.range[r].to = end, !.obj[o].chain = c]
  BY Zenon DEF MergeRanges
<1>6. t.remaining = s.remaining /\ t.unselected = s.unselected
  <2> HIDE DEF r, end, c, t
  <2> QED BY <1>1, <1>5 DEF Shape, Fields
<1>7. SameAsked(s, t, o)
  <2> SUFFICES ASSUME NEW q \in RangeIds, s.range[q].nup # 0
               PROVE  /\ t.range[q] = s.range[q]
                      /\ q \in ToSet(t.obj[o].chain) <=> q \in ToSet(a)
    BY DEF SameAsked
  <2>1. /\ a \in Seq(RangeIds) /\ Len(a) \in Nat
        /\ i \in 1 .. Len(a) /\ m \in i .. Len(a)
    BY <1>1, InList DEF Shape
  <2>2. q # r => t.range[q] = s.range[q]
    BY <1>2 DEF Merges
  <2>3. q = r => t.range[q] = s.range[q]
    <3> SUFFICES ASSUME q = r PROVE t.range[q] = s.range[q]
      OBVIOUS
    <3>1. i = m /\ end = s.range[r].to
      OBVIOUS
    <3>2. /\ t.range[r].from = s.range[r].from /\ t.range[r].nup = s.range[r].nup
          /\ t.range[r].owner = s.range[r].owner /\ t.range[r].to = end
      BY <1>2 DEF Merges
    <3>3. t.range[r] \in RangeSet /\ s.range[r] \in RangeSet
      BY <1>1, <1>4 DEF Shape
    <3> HIDE DEF r, end, t
    <3> QED BY <3>1, <3>2, <3>3 DEF RangeSet
  <2>4. t.obj[o].chain = c
    BY <1>2 DEF Merges
  <2>5. /\ c \in Seq(RangeIds) /\ Len(c) = Len(a) - (m - i)
        /\ \A k \in 1 .. Len(c) : c[k] = a[IF k <= i THEN k ELSE k + (m - i)]
    <3> HIDE DEF a
    <3> QED BY <2>1, CutList, Zenon
  <2>6. \A j \in i + 1 .. m : s.range[a[j]].nup = 0
    BY DEF NoGap
  <2>7. /\ \A x : x \in ToSet(a) <=> \E k \in 1 .. Len(a) : x = a[k]
        /\ \A x : x \in ToSet(c) <=> \E k \in 1 .. Len(c) : x = c[k]
    <3> HIDE DEF a, c
    <3> QED BY <2>1, <2>5, SeqFacts
  <2> HIDE DEF a, c, t, r, end
  <2>8. ASSUME q \in ToSet(c) PROVE q \in ToSet(a)
    <3>1. PICK k \in 1 .. Len(c) : q = c[k]
      BY <2>7, <2>8
    <3> DEFINE j == IF k <= i THEN k ELSE k + (m - i)
    <3>2. j \in 1 .. Len(a)
      BY <2>1, <2>5, <3>1
    <3>3. q = a[j]
      BY <2>5, <3>1
    <3> QED BY <2>7, <3>2, <3>3, Zenon
  <2>9. ASSUME q \in ToSet(a) PROVE q \in ToSet(c)
    <3>1. PICK k \in 1 .. Len(a) : q = a[k]
      BY <2>7, <2>9
    <3>2. k \notin i + 1 .. m
      BY <2>6, <3>1
    <3> DEFINE j == IF k <= i THEN k ELSE k - (m - i)
    <3>3. j \in 1 .. Len(c) /\ (IF j <= i THEN j ELSE j + (m - i)) = k
      BY <2>1, <2>5, <3>1, <3>2
    <3>4. c[j] = a[k]
      <4> HIDE DEF j
      <4> QED BY <2>5, <3>3
    <3> QED BY <2>7, <3>1, <3>3, <3>4, Zenon
  <2> QED BY <2>2, <2>3, <2>4, <2>8, <2>9
<1> HIDE DEF t
<1> QED BY <1>1, <1>3, <1>4, <1>6, <1>7, ReshapedTallies DEF Tallies, t

\* Nor when one that nobody downloads is cut; when somebody does, its right half is
\* nobody's and is missing in the second counter.
LEMMA SplitTallies ==
  ASSUME NEW s, NEW v, NEW d, Sound(s, v, d), UpShape(v), NEW o \in ObjIds,
         NEW i \in 1 .. Len(s.obj[o].chain), NEW cut \in Nat,
         Splits(s, s.obj[o].chain[i], cut), FreeRanges(s, cut) # {}
  PROVE  LET t == SplitRange(s, o, i, cut) IN
         /\ Remains(s) => Remains(t)
         /\ s.range[s.obj[o].chain[i]].nup = 0 => Tallies(s, t)
<1> DEFINE t == SplitRange(s, o, i, cut)
           a == s.obj[o].chain
           r == a[i]
           right == FreshRange(s, cut)
           c == InsertAt(a, i + 1, right)
           range == [s.range EXCEPT ![r].to = cut, ![right] = [s.range[r] EXCEPT !.from = cut, !.nup = 0]]
<1>1. Shape(s) /\ Linked(s)
  BY DEF Sound
<1>2. right \in RangeIds /\ s.range[right] = NoRange
  BY Fresh
<1>3. Reshapes(s, t, v, o)
  <2>1. Halved(s, t, v, o, r, cut)
    BY SplitSound, Zenon
  <2> QED BY <2>1, Zenon DEF Halved
<1>4. Shape(t) /\ Linked(t)
  <2>1. Sound(t, v, d)
    BY <1>3, ReshapedSound
  <2> QED BY <2>1 DEF Sound
<1>5. r # right
  <2>1. s.range[r].owner = o
    BY <1>1 DEF Linked
  <2> QED BY <2>1, <1>2, IdsAssumption DEF NoRange
<1>6. t = [s EXCEPT !.range = range, !.obj[o].chain = c]
  BY Zenon DEF SplitRange
<1>7. t.remaining = s.remaining /\ t.unselected = s.unselected
  <2> HIDE DEF range, c, t
  <2> QED BY <1>1, <1>6 DEF Shape, Fields
<1>8. ASSUME s.range[r].nup = 0 PROVE SameAsked(s, t, o)
  <2> SUFFICES ASSUME NEW q \in RangeIds, s.range[q].nup # 0
               PROVE  /\ t.range[q] = s.range[q]
                      /\ q \in ToSet(t.obj[o].chain) <=> q \in ToSet(a)
    BY DEF SameAsked
  <2>1. SplitBy(s, t, o, c, r, right, cut)
    BY <1>1, <1>5, SplitFields, Zenon
  <2>2. q # r /\ q # right
    BY <1>2, <1>8 DEF NoRange
  <2>3. t.range[q] = s.range[q] /\ t.obj[o].chain = c
    BY <2>1, <2>2, Zenon DEF SplitBy
  <2>4. a \in Seq(RangeIds) /\ i \in 1 .. Len(a) /\ Len(a) \in Nat
    BY <1>1, InList DEF Shape
  <2>5. c \in Seq(RangeIds) /\ Inserted(a, i, right, c)
    <3> HIDE DEF a, right
    <3> QED BY <1>2, <2>4, InsertList DEF right
  <2>6. /\ \A x : x \in ToSet(a) <=> \E k \in 1 .. Len(a) : x = a[k]
        /\ \A x : x \in ToSet(c) <=> \E k \in 1 .. Len(c) : x = c[k]
    <3> HIDE DEF a, c
    <3> QED BY <2>4, <2>5, SeqFacts
  <2> HIDE DEF a, c, t, r, right
  <2>7. /\ Len(c) = Len(a) + 1
        /\ \A k \in 1 .. Len(c) : c[k] = IF k <= i THEN a[k] ELSE IF k = i + 1 THEN right ELSE a[k - 1]
    BY <2>5 DEF Inserted
  <2>8. ASSUME q \in ToSet(c) PROVE q \in ToSet(a)
    <3>1. PICK k \in 1 .. Len(c) : q = c[k]
      BY <2>6, <2>8
    <3>2. k <= i \/ k > i + 1
      BY <2>2, <2>4, <2>7, <3>1
    <3> DEFINE j == IF k <= i THEN k ELSE k - 1
    <3>3. j \in 1 .. Len(a) /\ q = a[j]
      BY <2>4, <2>7, <3>1, <3>2
    <3> QED BY <2>6, <3>3, Zenon
  <2>9. ASSUME q \in ToSet(a) PROVE q \in ToSet(c)
    <3>1. PICK k \in 1 .. Len(a) : q = a[k]
      BY <2>6, <2>9
    <3> DEFINE j == IF k <= i THEN k ELSE k + 1
    <3>2. j \in 1 .. Len(c) /\ c[j] = a[k]
      BY <2>4, <2>7, <3>1
    <3> QED BY <2>6, <3>1, <3>2, Zenon
  <2> QED BY <2>3, <2>8, <2>9
<1> HIDE DEF t, r
<1>9. /\ Remains(s) => Remains(t)
      /\ SameAsked(s, t, o) /\ Unasked(s) => Unasked(t)
  BY <1>1, <1>3, <1>4, <1>7, ReshapedTallies
<1> QED BY <1>8, <1>9 DEF Tallies, t, r

\* A range that nobody else downloads is not asked for any more.
LEMMA TakenTallies ==
  ASSUME NEW t, Shape(t), Linked(t), NEW o \in ObjIds, NEW r \in ToSet(t.obj[o].chain), r \in RangeIds
  PROVE  LET n == IF t.range[r].nup = 0 THEN Length(t, r) ELSE 0
             x == [t EXCEPT !.range[r].nup = @ + 1, !.unselected[t.range[r].owner] = @ - n]
         IN  Tallies(t, x)
<1> DEFINE n == IF t.range[r].nup = 0 THEN Length(t, r) ELSE 0
           x == [t EXCEPT !.range[r].nup = @ + 1, !.unselected[t.range[r].owner] = @ - n]
           range == [t.range EXCEPT ![r].nup = @ + 1]
           owner == t.range[r].owner
           uns == [t.unselected EXCEPT ![owner] = @ - n]
<1>1. /\ t.obj[o].chain \in Seq(RangeIds)
      /\ \A q \in ObjIds : \A i \in 1 .. Len(t.obj[q].chain) :
            t.obj[q].chain[i] \in RangeIds /\ t.range[t.obj[q].chain[i]].owner = q
  <2>1. \A q \in ObjIds : \A i \in 1 .. Len(t.obj[q].chain) : t.obj[q].chain[i] \in RangeIds
    BY InList DEF Shape
  <2>2. t.obj[o].chain \in Seq(RangeIds)
    BY InList DEF Shape
  <2> QED BY <2>1, <2>2 DEF Linked
<1>2. PICK k \in 1 .. Len(t.obj[o].chain) : r = t.obj[o].chain[k]
  BY <1>1, SeqFacts
<1>3. owner = o
  BY <1>1, <1>2
<1>4. t.range \in [RangeIds -> RangeSet]
  BY DEF Shape
<1>5. /\ range \in [RangeIds -> RangeSet]
      /\ \A q \in RangeIds :
           /\ range[q].from = t.range[q].from /\ range[q].to = t.range[q].to
           /\ range[q].owner = t.range[q].owner
           /\ range[q].nup = IF q = r THEN t.range[r].nup + 1 ELSE t.range[q].nup
  BY <1>4 DEF RangeSet
<1>6. /\ DOMAIN x = Fields /\ x.pos = InitPos /\ x.blocks = t.blocks /\ x.obj = t.obj
      /\ x.range = range /\ x.nuploading = t.nuploading
      /\ x.remaining = t.remaining /\ x.unselected = uns
  <2>1. x = [t EXCEPT !.range = range, !.unselected = uns]
    OBVIOUS
  <2> HIDE DEF x, range, uns
  <2> QED BY <2>1 DEF Shape, Fields
<1> HIDE DEF x, range
<1>7. Shape(x) /\ Linked(x)
  <2>1. Shape(x)
    BY <1>5, <1>6 DEF Shape
  <2>2. ASSUME NEW q \in ObjIds, NEW i \in 1 .. Len(t.obj[q].chain)
        PROVE  /\ x.range[t.obj[q].chain[i]].from = t.range[t.obj[q].chain[i]].from
               /\ x.range[t.obj[q].chain[i]].to = t.range[t.obj[q].chain[i]].to
               /\ x.range[t.obj[q].chain[i]].owner = t.range[t.obj[q].chain[i]].owner
    <3>1. t.obj[q].chain[i] \in RangeIds
      BY <1>1
    <3> QED BY <3>1, <1>5, <1>6
  <2>3. Linked(x)
    <3> SUFFICES ASSUME NEW q \in ObjIds, NEW i \in 1 .. Len(x.obj[q].chain)
                 PROVE  LET y == x.range[x.obj[q].chain[i]] IN
                        /\ x.obj[q].num \in Nums /\ x.blocks[x.obj[q].num].obj = q
                        /\ y.owner = q
                        /\ x.obj[q].from <= y.from /\ y.from < y.to /\ y.to <= x.obj[q].to
                        /\ \A j \in 1 .. Len(x.obj[q].chain) :
                              i < j => y.to <= x.range[x.obj[q].chain[j]].from
      BY Zenon DEF Linked
    <3>1. x.obj[q] = t.obj[q] /\ x.blocks = t.blocks
      BY <1>6
    <3> DEFINE a == t.obj[q].chain
    <3>2. i \in 1 .. Len(a) /\ x.obj[q].chain = a
      BY <3>1
    <3>3. LET y == t.range[a[i]] IN
          /\ t.obj[q].num \in Nums /\ t.blocks[t.obj[q].num].obj = q
          /\ y.owner = q
          /\ t.obj[q].from <= y.from /\ y.from < y.to /\ y.to <= t.obj[q].to
          /\ \A j \in 1 .. Len(a) : i < j => y.to <= t.range[a[j]].from
      BY <3>2, Zenon DEF Linked
    <3>4. \A j \in 1 .. Len(a) : /\ x.range[a[j]].from = t.range[a[j]].from
                                 /\ x.range[a[j]].to = t.range[a[j]].to
                                 /\ x.range[a[j]].owner = t.range[a[j]].owner
      BY <2>2
    <3> HIDE DEF a
    <3> QED BY <3>1, <3>2, <3>3, <3>4
  <2> QED BY <2>1, <2>3
<1>8. ASSUME NEW q \in ObjIds, NEW P, NEW Q,
             \A i \in 1 .. Len(t.obj[q].chain) : t.obj[q].chain[i] \in P <=> t.obj[q].chain[i] \in Q
      PROVE  Part(x, q, P) = Part(t, q, Q)
  <2>1. \A i \in 1 .. Len(t.obj[q].chain) :
          LET y == t.obj[q].chain[i] IN
          /\ x.range[y].from = t.range[y].from /\ x.range[y].to = t.range[y].to
          /\ y \in P <=> y \in Q
    BY <1>1, <1>5, <1>6, <1>8
  <2>2. x.obj[q].chain = t.obj[q].chain
    BY <1>6
  <2> QED BY <2>1, <2>2, <1>7, SamePart
<1>9. Remains(t) => Remains(x)
  <2>1. \A q \in ObjIds : Part(x, q, RangeIds) = Part(t, q, RangeIds)
    BY <1>8
  <2> QED BY <2>1, <1>6, Zenon DEF Remains, Tally
<1>10. \A y : y \in NotAsked(x) <=> y \in NotAsked(t) /\ y # r
  <2>1. t.range[r].nup \in Nat
    BY <1>4 DEF RangeSet
  <2> QED BY <1>5, <1>6, <2>1 DEF NotAsked
<1>11. ASSUME Unasked(t) PROVE Unasked(x)
  <2> DEFINE from == t.range[r].from
             to == t.range[r].to
             A == Part(t, o, NotAsked(t))
             T == Part(x, o, NotAsked(x))
  <2>1. /\ t.unselected \in [ObjIds -> Nat]
        /\ \A q \in ObjIds : t.unselected[q] = Cardinality(Part(t, q, NotAsked(t)))
    BY <1>11 DEF Unasked, Tally
  <2>2. ASSUME NEW q \in ObjIds, q # o PROVE uns[q] = Cardinality(Part(x, q, NotAsked(x)))
    <3>1. \A i \in 1 .. Len(t.obj[q].chain) : t.obj[q].chain[i] # r
      BY <1>1, <1>3, <2>2
    <3>2. Part(x, q, NotAsked(x)) = Part(t, q, NotAsked(t))
      BY <1>8, <1>10, <3>1
    <3>3. uns[q] = t.unselected[q]
      BY <1>3, <2>1, <2>2
    <3> QED BY <2>1, <3>2, <3>3
  <2>3. CASE t.range[r].nup # 0
    <3>1. r \notin NotAsked(t)
      BY <2>3 DEF NotAsked
    <3>2. T = A
      BY <1>8, <1>10, <3>1
    <3>3. uns[o] = t.unselected[o]
      BY <1>3, <2>1, <2>3
    <3>4. uns[o] = Cardinality(T)
      BY <2>1, <3>2, <3>3
    <3>5. uns = [q \in ObjIds |-> uns[q]]
      BY <2>1
    <3>6. \A q \in ObjIds : uns[q] = Cardinality(Part(x, q, NotAsked(x)))
      BY <2>2, <3>4
    <3> HIDE DEF uns
    <3> QED BY <1>6, <1>7, <3>5, <3>6, TallyProps DEF Unasked
  <2>4. CASE t.range[r].nup = 0
    <3> DEFINE I == from .. to - 1
    <3>1. from \in Nat /\ to \in Nat /\ from < to
      BY <1>2, <1>4 DEF Linked, RangeSet
    <3>2. \A y : y \in I <=> y \in Int /\ InRange(t, r, y)
      BY <3>1 DEF InRange
    <3>3. IsFiniteSet(I) /\ Cardinality(I) = to - from
      <4> DEFINE last == to - 1
      <4>1. from \in Int /\ last \in Int /\ ~ (from > last) /\ last - from + 1 = to - from
        BY <3>1
      <4> HIDE DEF last, from, to
      <4>2. IsFiniteSet(from .. last) /\ Cardinality(from .. last) = to - from
        BY <4>1, FS_Interval
      <4> QED BY <4>2 DEF last
    <3>4. uns[o] = t.unselected[o] - (to - from)
      BY <1>3, <2>1, <2>4 DEF Length
    <3>5. r \in NotAsked(t)
      BY <2>4 DEF NotAsked
    <3> DEFINE a == t.obj[o].chain
    <3>6. \A y : y \in A <=> y \in Int /\ \E i \in 1 .. Len(a) : a[i] \in NotAsked(t) /\ InRange(t, a[i], y)
      BY InPart, Zenon
    <3>7. \A y : y \in T <=> y \in Int /\ \E i \in 1 .. Len(a) : a[i] \in NotAsked(x) /\ InRange(x, a[i], y)
      BY <1>6, <1>7, InPart, Zenon
    <3>8. \A i \in 1 .. Len(a) : \A y : InRange(x, a[i], y) <=> InRange(t, a[i], y)
      <4> TAKE i \in 1 .. Len(a)
      <4>1. a[i] \in RangeIds
        BY <1>1
      <4> QED BY <1>5, <1>6, <4>1 DEF InRange
    <3>9. \A i, j \in 1 .. Len(a) : \A y \in Int : InRange(t, a[i], y) /\ InRange(t, a[j], y) => i = j
      BY OneRange, Zenon
    <3>10. k \in 1 .. Len(a) /\ a[k] = r
      BY <1>2
    <3>11. IsFiniteSet(A) /\ Cardinality(A) \in Nat
      BY PartFinite
    <3> HIDE DEF a, I, A, T
    <3>12. I \subseteq A
      BY <3>2, <3>5, <3>6, <3>10
    <3>13. ASSUME NEW y \in T PROVE y \in A /\ y \notin I
      <4>1. PICK i \in 1 .. Len(a) : y \in Int /\ a[i] \in NotAsked(t) /\ a[i] # r /\ InRange(t, a[i], y)
        BY <1>10, <3>7, <3>8
      <4>2. y \in A
        BY <3>6, <4>1
      <4>3. y \notin I
        <5> SUFFICES ASSUME y \in I PROVE FALSE
          OBVIOUS
        <5>1. InRange(t, a[k], y)
          BY <3>2, <3>10
        <5>2. i = k
          BY <3>9, <3>10, <4>1, <5>1
        <5> QED BY <3>10, <4>1, <5>2
      <4> QED BY <4>2, <4>3
    <3>14. ASSUME NEW y \in A, y \notin I PROVE y \in T
      <4>1. PICK i \in 1 .. Len(a) : y \in Int /\ a[i] \in NotAsked(t) /\ InRange(t, a[i], y)
        BY <3>6
      <4>2. a[i] # r
        BY <3>2, <3>14, <4>1
      <4> QED BY <1>10, <3>7, <3>8, <4>1, <4>2
    <3>15. T = A \ I
      BY <3>13, <3>14
    <3>16. Cardinality(A \ I) = Cardinality(A) - Cardinality(I)
      <4>1. Cardinality(A \ I) = Cardinality(A) - Cardinality(A \cap I)
        BY <3>11, FS_Difference
      <4>2. A \cap I = I
        BY <3>12
      <4> QED BY <4>1, <4>2
    <3>17. uns[o] = Cardinality(T)
      BY <2>1, <3>3, <3>4, <3>15, <3>16 DEF A
    <3>18. uns = [q \in ObjIds |-> uns[q]]
      BY <2>1
    <3>19. \A q \in ObjIds : uns[q] = Cardinality(Part(x, q, NotAsked(x)))
      BY <2>2, <3>17 DEF T
    <3> HIDE DEF uns
    <3> QED BY <1>6, <1>7, <3>18, <3>19, TallyProps DEF Unasked
  <2> QED BY <2>3, <2>4
<1> QED BY <1>9, <1>11 DEF Tallies, x

-----------------------------------------------------------------------------
(* The steps that do not touch the blocks *)

\* The counters are about what an action is about to collect.
LEMMA CollectedTallies ==
  ASSUME NEW t, Shape(t), Linked(t), IInv', swarmer' = Collect(t, up')
  PROVE  Tallies(t, swarmer')
<1>1. UpShape(up') /\ Linked(swarmer')
  BY DEF IInv, Sound
<1>2. Linked(Collect(t, up'))
  BY <1>1
<1>3. Tallies(t, Collect(t, up'))
  BY <1>1, <1>2, CollectTallies
<1> QED BY <1>3

\* One change after another.
LEMMA TalliesChain ==
  ASSUME NEW s, NEW t, NEW x, Tallies(s, t), Tallies(t, x)
  PROVE  Tallies(s, x)
  BY DEF Tallies

\* What the invariant says of a swarmer whose blocks and ranges are as before.
LEMMA SameLinked ==
  ASSUME IInv, NEW t, Shape(t), SameRanges(swarmer, t)
  PROVE  Sound(t, up, disk) /\ Linked(t)
<1>1. Sound(t, up, disk)
  BY SameSound DEF IInv
<1> QED BY <1>1 DEF Sound

\* A peer chokes us, or declares other blocks.
LEMMA ClearUploaderIntervalsTallies ==
  ASSUME IInv, IInv', NEW u \in Uploaders, ClearUploaderIntervals(u)
  PROVE  Tallies(swarmer, swarmer')
<1> DEFINE t == Unselect(swarmer, u)
<1>1. UpShape(up) /\ Shape(swarmer)
  BY DEF IInv, Sound
<1>2. swarmer' = Collect(t, up')
  BY Zenon DEF ClearUploaderIntervals
<1>3. Shape(t) /\ t.blocks = swarmer.blocks /\ t.obj = swarmer.obj /\ t.range = swarmer.range
  BY <1>1, UnselectFields
<1>4. Tallies(swarmer, t)
  BY <1>1, UnselectTallies
<1> HIDE DEF t
<1>5. Linked(t)
  BY <1>3, SameLinked DEF SameRanges
<1>6. Tallies(t, swarmer')
  BY <1>2, <1>3, <1>5, CollectedTallies
<1> QED BY <1>4, <1>6, TalliesChain

\* A peer closes our slot.
LEMMA ClearUploaderRangesTallies ==
  ASSUME IInv, IInv', NEW u \in Uploaders, ClearUploaderRanges(u)
  PROVE  Tallies(swarmer, swarmer')
<1> DEFINE R == ToSet(up[u].ranges)
           t == Release(swarmer, R)
<1>1. UpShape(up) /\ Sound(swarmer, up, disk) /\ Counted(swarmer, up) /\ Shape(swarmer)
  BY DEF IInv, Sound
<1>2. swarmer' = Collect(t, up')
  BY DEF ClearUploaderRanges, Held
<1>3. Shape(t) /\ SameRanges(swarmer, t)
  <2> HIDE DEF R
  <2> QED BY <1>1, ReleaseFields
<1>4. Tallies(swarmer, t)
  BY <1>1, ReleaseTallies
<1> HIDE DEF t
<1>5. Linked(t)
  BY <1>3, SameLinked
<1>6. Tallies(t, swarmer')
  BY <1>2, <1>3, <1>5, CollectedTallies
<1> QED BY <1>4, <1>6, TalliesChain

\* The peer disconnects.
LEMMA UnregisterUploaderTallies ==
  ASSUME IInv, IInv', NEW u \in Uploaders, UnregisterUploader(u)
  PROVE  Tallies(swarmer, swarmer')
<1> DEFINE s == IF up[u].declared THEN Unselect(swarmer, u) ELSE swarmer
           R == ToSet(up[u].ranges)
           t == Release(s, R)
<1>1. UpShape(up) /\ Sound(swarmer, up, disk) /\ Counted(swarmer, up) /\ Shape(swarmer)
  BY DEF IInv, Sound
<1>2. swarmer' = Collect(t, up')
  BY DEF UnregisterUploader, Held
<1>3. /\ Shape(s) /\ s.blocks = swarmer.blocks /\ s.obj = swarmer.obj /\ s.range = swarmer.range
      /\ Tallies(swarmer, s)
  <2>1. CASE up[u].declared
    BY <1>1, <2>1, UnselectFields, UnselectTallies
  <2>2. CASE ~ up[u].declared
    <3>1. s = swarmer
      BY <2>2
    <3>2. Tallies(swarmer, swarmer)
      BY DEF Tallies
    <3> HIDE DEF s
    <3> QED BY <1>1, <3>1, <3>2
  <2>3. up[u].declared \in BOOLEAN
    BY <1>1, UpFacts
  <2> QED BY <2>1, <2>2, <2>3
<1> HIDE DEF s
<1>4. SameRanges(swarmer, s)
  BY <1>3 DEF SameRanges
<1>5. Sound(s, up, disk) /\ Counted(s, up)
  <2>1. Counted(s, up)
    BY <1>1, <1>3 DEF Counted
  <2> QED BY <1>3, <1>4, <2>1, SameLinked
<1>6. Shape(t) /\ SameRanges(s, t)
  <2> HIDE DEF R
  <2> QED BY <1>3, ReleaseFields
<1>7. Tallies(s, t)
  BY <1>1, <1>5, ReleaseTallies
<1> HIDE DEF t
<1>8. SameRanges(swarmer, t)
  BY <1>4, <1>6 DEF SameRanges
<1>9. Linked(t)
  BY <1>6, <1>8, SameLinked
<1>10. Tallies(t, swarmer')
  BY <1>2, <1>6, <1>9, CollectedTallies
<1> QED BY <1>3, <1>7, <1>10, TalliesChain

\* The ranges of u that are over are released.
LEMMA CleanedTallies ==
  ASSUME IInv, NEW u \in Uploaders
  PROVE  LET s == Cleaned(swarmer, u) IN
         Shape(s) /\ SameRanges(swarmer, s) /\ Tallies(swarmer, s)
<1> DEFINE s == Cleaned(swarmer, u)
           R == Over(swarmer, ToSet(up[u].ranges))
<1>1. UpShape(up) /\ Sound(swarmer, up, disk) /\ Counted(swarmer, up) /\ Shape(swarmer)
  BY DEF IInv, Sound
<1>2. s = Release(swarmer, R)
  BY DEF Cleaned, Held
<1>3. R \subseteq ToSet(up[u].ranges)
  BY DEF Over
<1> HIDE DEF s, R
<1>4. Shape(s) /\ SameRanges(swarmer, s)
  BY <1>1, <1>2, ReleaseFields
<1>5. Tallies(swarmer, s)
  BY <1>1, <1>2, <1>3, ReleaseTallies
<1> QED BY <1>4, <1>5 DEF s

\* find_range finds nothing.
LEMMA FindNoRangeTallies ==
  ASSUME IInv, IInv', NEW u \in Uploaders, FindNoRange(u)
  PROVE  Tallies(swarmer, swarmer')
<1> DEFINE t == Cleaned(swarmer, u)
<1>1. swarmer' = Collect(t, up')
  BY DEF FindNoRange
<1>2. Shape(t) /\ SameRanges(swarmer, t) /\ Tallies(swarmer, t)
  BY CleanedTallies
<1> HIDE DEF t
<1>3. Linked(t)
  BY <1>2, SameLinked
<1>4. Tallies(t, swarmer')
  BY <1>1, <1>2, <1>3, CollectedTallies
<1> QED BY <1>2, <1>4, TalliesChain

\* verify_chunk throws away a chunk, or keeps it.
LEMMA VerifyChunkTallies ==
  ASSUME IInv, IInv', NEW c, NEW ok, VerifyChunk(c, ok)
  PROVE  Tallies(swarmer, swarmer')
<1>1. Shape(swarmer) /\ Shape(swarmer')
  BY DEF IInv, Sound
<1>2. PICK blocks : swarmer' = [swarmer EXCEPT !.blocks = blocks]
  BY DEF VerifyChunk
<1>3. /\ swarmer'.remaining = swarmer.remaining /\ swarmer'.unselected = swarmer.unselected
      /\ swarmer'.obj = swarmer.obj /\ swarmer'.range = swarmer.range
  BY <1>1, <1>2 DEF Shape, Fields
<1> QED BY <1>1, <1>3, SameTallies

\* propagate_chunk has copied the chunk from elsewhere.
LEMMA PropagateChunkTallies ==
  ASSUME IInv, IInv', NEW c, PropagateChunk(c)
  PROVE  Tallies(swarmer, swarmer')
<1> DEFINE B == {b \in PrimaryChunk(swarmer, c) : Downloadable(swarmer, b)}
           t == Completed(swarmer, B)
           d == disk \cup UNION {BytesOf(swarmer, b) : b \in B}
<1>1. /\ UpShape(up) /\ Sound(swarmer, up, disk)
      /\ Shape(swarmer) /\ Owned(swarmer) /\ Linked(swarmer)
  BY DEF IInv, Sound
<1>2. swarmer' = Collect(t, up')
  BY DEF PropagateChunk
<1>3. B \subseteq Nums /\ \A b \in B : Downloadable(swarmer, b)
  <2>1. swarmer.pos = InitPos
    BY <1>1 DEF Shape
  <2> QED BY <2>1, BlockPlaces DEF PrimaryChunk
<1> HIDE DEF B
<1>4. Sound(t, up, d)
  BY <1>1, <1>3, CompletedSound
<1>5. Shape(t) /\ Linked(t)
  BY <1>4 DEF Sound
<1>6. Tallies(swarmer, t)
  BY <1>1, <1>3, <1>5, CompletedTallies
<1> HIDE DEF t, d
<1>7. Tallies(t, swarmer')
  BY <1>2, <1>5, CollectedTallies
<1> QED BY <1>6, <1>7, TalliesChain

-----------------------------------------------------------------------------
(* Blocks, data and ranges *)

\* u selects parts of blocks.
LEMMA SelectTallies ==
  ASSUME IInv, IInv', NEW u \in Uploaders, NEW parts \in Seq(PartSet), NEW complete, NEW partial,
         Select(u, parts, complete, partial)
  PROVE  Tallies(swarmer, swarmer')
<1> DEFINE nums == {parts[i].num : i \in DOMAIN parts}
           s == Unselect(swarmer, u)
           new == {b \in nums : s.blocks[b].kind = "Empty"}
           t == Started(s, new)
           nup == [b \in DOMAIN s.pos |-> IF b \in nums THEN t.nuploading[b] + 1
                                          ELSE t.nuploading[b]]
           x == [t EXCEPT !.nuploading = nup]
<1>1. /\ UpShape(up) /\ Shape(swarmer) /\ Counted(swarmer, up)
      /\ HasRoom(s, new) /\ swarmer' = Collect(x, up')
  <2>1. UpShape(up) /\ Shape(swarmer) /\ Counted(swarmer, up)
    BY DEF IInv, Sound
  <2>2. HasRoom(s, new)
    BY Zenon DEF Select, HasRoom
  <2>3. swarmer' = Collect(x, up')
    BY Zenon DEF Select
  <2> QED BY <2>1, <2>2, <2>3
<1>2. nums \subseteq Nums
  <2>1. DOMAIN parts = 1 .. Len(parts)
    OBVIOUS
  <2>2. \A i \in 1 .. Len(parts) : parts[i].num \in Nums
    <3>1. \A i \in 1 .. Len(parts) : parts[i] \in PartSet
      OBVIOUS
    <3> QED BY <3>1 DEF PartSet
  <2> QED BY <2>1, <2>2
<1>3. /\ Shape(s) /\ s.blocks = swarmer.blocks /\ s.obj = swarmer.obj /\ s.range = swarmer.range
      /\ Tallies(swarmer, s)
  BY <1>1, UnselectFields, UnselectTallies
<1> HIDE DEF nums, s
<1>4. Sound(s, up, disk) /\ Linked(s) /\ Counted(s, up)
  <2>1. SameRanges(swarmer, s)
    BY <1>3 DEF SameRanges
  <2>2. Counted(s, up)
    BY <1>1, <1>3 DEF Counted
  <2> QED BY <1>3, <2>1, <2>2, SameLinked
<1>5. new \subseteq Nums /\ \A b \in new : s.blocks[b].kind = "Empty"
  BY <1>2
<1> HIDE DEF new
<1>6. PICK obj, hole : StartedBy(s, t, new, obj, hole)
  BY <1>1, <1>3, <1>5, StartedFields, Zenon
<1>7. Sound(t, up, disk)
  <2> HIDE DEF t
  <2> QED BY <1>1, <1>4, <1>5, <1>6, StartedSound
<1>8. Shape(t) /\ Linked(t)
  BY <1>7 DEF Sound
<1>9. Tallies(s, t)
  BY <1>1, <1>3, <1>4, <1>5, <1>8, StartedTallies
<1> HIDE DEF t
<1>10. nup \in [Nums -> Nat]
  <2>1. \A b \in Nums : nup[b] \in Nat
    BY <1>3, <1>8, BlockPlaces DEF Shape
  <2>2. nup = [b \in Nums |-> nup[b]]
    BY <1>3, BlockPlaces DEF Shape
  <2> HIDE DEF nup
  <2> QED BY <2>1, <2>2
<1> HIDE DEF nup
<1>11. /\ Shape(x) /\ x.blocks = t.blocks /\ x.obj = t.obj /\ x.range = t.range
       /\ x.remaining = t.remaining /\ x.unselected = t.unselected
  BY <1>8, <1>10 DEF Shape, Fields
<1> HIDE DEF x
<1>12. Tallies(t, x)
  BY <1>8, <1>11, SameTallies
<1>13. Linked(x)
  <2>1. Sound(x, up, disk)
    BY <1>1, <1>7, <1>11, SameSound DEF SameRanges
  <2> QED BY <2>1 DEF Sound
<1>14. Tallies(x, swarmer')
  BY <1>1, <1>11, <1>13, CollectedTallies
<1> QED BY <1>3, <1>9, <1>12, <1>14, TalliesChain

\* Data arrives from u.
LEMMA ReceivedTallies ==
  ASSUME IInv, IInv', NEW u \in Uploaders, NEW from \in HeldBytes(u), NEW final \in HeldBytes(u),
         NEW k \in DOMAIN up[u].ranges, Received(u, from, final + 1, k)
  PROVE  Tallies(swarmer, swarmer')
<1> DEFINE to == final + 1
           R == Takers(swarmer, {up[u].ranges[i] : i \in 1 .. k}, from, to)
           t == Filled(swarmer, R, to)
           ended == {r \in R : swarmer.range[r].to <= to
                                 /\ t.obj[swarmer.range[r].owner].chain = <<>>}
           B == {swarmer.obj[swarmer.range[r].owner].num : r \in ended}
           s == Completed(t, B)
           d == disk \cup (Bytes(swarmer, R) \cap (from .. to - 1))
           e == d \cup UNION {BytesOf(t, b) : b \in B}
           over == {r \in R : swarmer.range[r].to <= to}
           O == Over(s, ToSet(up[u].ranges))
           x == Release(s, O)
<1>1. /\ UpShape(up) /\ Sound(swarmer, up, disk) /\ Counted(swarmer, up) /\ Enlisted(swarmer, up)
      /\ Shape(swarmer) /\ Owned(swarmer) /\ Linked(swarmer) /\ HeldLive(swarmer, up)
  BY DEF IInv, Sound
<1>2. s = RangesReceived(swarmer, R, to)
  BY Zenon DEF RangesReceived
<1>3. swarmer' = Collect(x, up')
  BY <1>2, Zenon DEF Received, Held
<1>4. up[u].ranges \in Seq(RangeIds) /\ \A i \in 1 .. k : up[u].ranges[i] \in ToSet(up[u].ranges)
  <2>1. up[u].ranges \in Seq(RangeIds)
    BY <1>1, UpFacts
  <2>2. \A i \in 1 .. k : i \in 1 .. Len(up[u].ranges)
    BY <2>1
  <2> QED BY <2>1, <2>2, SeqFacts
<1>5. from \in Nat /\ to \in Nat
  <2>1. ASSUME NEW y \in HeldBytes(u) PROVE y \in Nat
    <3>1. PICK r \in ToSet(up[u].ranges) : y \in swarmer.range[r].from .. swarmer.range[r].to - 1
      BY DEF HeldBytes, Held, Bytes
    <3>2. swarmer.range[r].from \in Nat /\ swarmer.range[r].to \in Nat
      <4>1. r \in RangeIds
        BY <1>1, UpFacts
      <4> QED BY <1>1, <4>1 DEF Shape, RangeSet
    <3> QED BY <3>1, <3>2
  <2> QED BY <2>1
<1> HIDE DEF to
<1>6. ASSUME NEW r \in R
      PROVE  /\ r \in RangeIds
             /\ from <= swarmer.range[r].from /\ swarmer.range[r].from < to
             /\ swarmer.range[r].owner \in ObjIds
             /\ r \in ToSet(swarmer.obj[swarmer.range[r].owner].chain)
  <2> DEFINE end == swarmer.range[r].to
             m == Min({to, end})
  <2>1. /\ r \in ToSet(up[u].ranges)
        /\ from <= swarmer.range[r].from /\ swarmer.range[r].from < m
    BY <1>4 DEF Takers
  <2>2. r \in RangeIds
    BY <1>1, <2>1, UpFacts
  <2>3. swarmer.range[r].from \in Nat /\ end \in Nat
    BY <1>1, <2>2 DEF Shape, RangeSet
  <2>4. m = IF to <= end THEN to ELSE end
    <3> HIDE DEF end
    <3>1. end \in Int /\ to \in Int
      BY <1>5, <2>3
    <3> QED BY <3>1, MinMax
  <2>5. swarmer.range[r].from < to /\ swarmer.range[r].from < end
    <3> HIDE DEF m, end
    <3> QED BY <1>5, <2>1, <2>3, <2>4
  <2> QED BY <1>1, <2>1, <2>2, <2>5 DEF HeldLive
<1> HIDE DEF R
<1>7. R \subseteq RangeIds
  BY <1>6
<1>8. FilledBy(swarmer, t, R, to, over)
  BY <1>1, <1>5, <1>7, FilledFields
<1>9. Sound(t, up, d)
  <2> HIDE DEF t
  <2> QED BY <1>1, <1>5, <1>6, <1>7, <1>8, FilledSound
<1>10. Shape(t) /\ Owned(t) /\ Linked(t)
  BY <1>9 DEF Sound
<1>11. Tallies(swarmer, t)
  BY <1>1, <1>5, <1>6, <1>7, <1>10, FilledTallies
<1> HIDE DEF t
<1>12. Counted(t, up)
  <2> HIDE DEF over
  <2> QED BY <1>1, <1>5, <1>6, <1>8, FilledCounts
<1>13. t.blocks = swarmer.blocks
  BY <1>8 DEF FilledBy
<1>14. ASSUME NEW b \in B PROVE b \in Nums /\ Downloadable(t, b)
  <2>1. PICK r \in R : b = swarmer.obj[swarmer.range[r].owner].num
    OBVIOUS
  <2> DEFINE o == swarmer.range[r].owner
  <2>2. o \in ObjIds /\ r \in ToSet(swarmer.obj[o].chain)
    BY <1>6
  <2>3. PICK i \in 1 .. Len(swarmer.obj[o].chain) : r = swarmer.obj[o].chain[i]
    <3>1. swarmer.obj[o].chain \in Seq(RangeIds)
      BY <1>1, <2>2, InList DEF Shape
    <3> QED BY <2>2, <3>1, SeqFacts
  <2> HIDE DEF o
  <2>4. /\ swarmer.obj[o].num \in Nums
        /\ swarmer.blocks[swarmer.obj[o].num].kind = "Partial"
    <3>1. Placed(swarmer, o, swarmer.obj[o].chain[i])
      BY <1>1, <2>2, <2>3, RangePlace, Zenon
    <3> QED BY <3>1, Zenon DEF Placed
  <2> QED BY <1>13, <2>1, <2>4 DEF Downloadable, o
<1> HIDE DEF B
<1>15. B \subseteq Nums
  BY <1>14
<1>16. Sound(s, up, e)
  BY <1>1, <1>9, <1>14, <1>15, CompletedSound
<1>17. Shape(s) /\ Linked(s)
  BY <1>16 DEF Sound
<1>18. Tallies(t, s)
  BY <1>10, <1>14, <1>15, <1>17, CompletedTallies
<1>19. Counted(s, up)
  BY <1>1, <1>10, <1>12, <1>14, <1>15, CompletedCounts
<1> HIDE DEF s
<1>20. O \subseteq ToSet(up[u].ranges)
  BY DEF Over
<1>21. Tallies(s, x)
  <2> HIDE DEF O, e
  <2> QED BY <1>1, <1>16, <1>19, <1>20, ReleaseTallies
<1>22. Shape(x) /\ SameRanges(s, x)
  <2> HIDE DEF O
  <2> QED BY <1>17, ReleaseFields
<1> HIDE DEF x
<1>23. Linked(x)
  <2>1. Sound(x, up, e)
    BY <1>1, <1>16, <1>22, SameSound
  <2> QED BY <2>1 DEF Sound
<1>24. Tallies(x, swarmer')
  BY <1>3, <1>22, <1>23, CollectedTallies
<1> QED BY <1>11, <1>18, <1>21, <1>24, TalliesChain

-----------------------------------------------------------------------------
(* find_range *)

\* An offset where some block ends.
EndsBlock(x) == \E b \in Nums : x = End(b)

\* No block ends inside a block.
LEMMA NoEndInside ==
  ASSUME NEW b \in Nums, NEW from \in Nat, NEW to \in Nat, InitPos[b] <= from, to <= End(b),
         NEW x, EndsBlock(x), from < x
  PROVE  x \in Nat /\ to <= x
<1>1. PICK c \in Nums : x = End(c)
  BY DEF EndsBlock
<1>2. b < c \/ c < b \/ b = c
  BY DEF Nums
<1>3. /\ InitPos[b] \in Nat /\ End(b) \in Nat /\ InitPos[c] \in Nat /\ End(c) \in Nat
      /\ InitPos[c] < End(c)
      /\ b < c => End(b) <= InitPos[c]
      /\ c < b => End(c) <= InitPos[b]
  BY Positions
<1> QED BY <1>1, <1>2, <1>3

\* A range that others download is not cut: they ask for the same size, and what the
\* uploader has selected ends where a block does.
LEMMA AskedUncut ==
  ASSUME NEW s, NEW v, Shape(s), Owned(s), Linked(s), Counted(s, v), Short(s, v), SameSizes,
         NEW u \in Uploaders, NEW o \in ObjIds, NEW i \in 1 .. Len(s.obj[o].chain),
         s.range[s.obj[o].chain[i]].nup # 0, NEW stop \in Nat, EndsBlock(stop)
  PROVE  LET r == s.obj[o].chain[i] IN
         ~ Splits(s, r, CutAt(s.range[r].from, RangeSize[u], stop))
<1> DEFINE r == s.obj[o].chain[i]
           b == s.obj[o].num
           from == s.range[r].from
           to == s.range[r].to
           size == RangeSize[u]
           high == from + size
           cut == CutAt(from, size, stop)
<1>1. Placed(s, o, r)
  BY RangePlace, Zenon
<1>2. r \in RangeIds
  BY InList DEF Shape
<1>3. to - from <= size
  BY <1>2, CutShort
<1>4. /\ b \in Nums /\ from \in Nat /\ to \in Nat /\ from < to
      /\ InitPos[b] <= from /\ to <= End(b)
  BY <1>1, Zenon DEF Placed
<1>5. size \in Nat
  BY SizePositive
<1>6. cut = Min({high, stop}) /\ high = from + size
  BY Zenon DEF CutAt
<1>7. Splits(s, r, cut) <=> from < cut /\ cut < to
  BY Zenon DEF Splits
<1> HIDE DEF from, to, size, high, cut, b
<1>8. high \in Int /\ stop \in Int
  BY <1>4, <1>5, <1>6
<1>9. cut = IF high <= stop THEN high ELSE stop
  BY <1>6, <1>8, MinMax
<1>10. from < stop => to <= stop
  BY <1>4, NoEndInside
<1>11. ~ (from < cut /\ cut < to)
  BY <1>3, <1>4, <1>5, <1>6, <1>9, <1>10
<1> QED BY <1>7, <1>11 DEF cut, from, size, r

\* Merging and splitting keep the counters.
LEMMA RangeCutTallies ==
  ASSUME NEW s, NEW v, NEW d, Sound(s, v, d), Counted(s, v), UpShape(v),
         NEW u \in Uploaders, NEW o \in ObjIds, NEW i \in 1 .. Len(s.obj[o].chain),
         NEW m \in i .. Len(s.obj[o].chain), NEW stop \in Nat, NEW cut \in Nat,
         Cuttable(s, u, o, i, m, stop, cut)
  PROVE  LET t == SplitRange(MergeRanges(s, o, i, m), o, i, cut) IN
         /\ Remains(s) => Remains(t)
         /\ SameSizes /\ Short(s, v) /\ EndsBlock(stop) => Tallies(s, t)
<1> DEFINE x == MergeRanges(s, o, i, m)
           t == SplitRange(x, o, i, cut)
           a == s.obj[o].chain
           r == a[i]
           c == SubSeq(a, 1, i) \o SubSeq(a, m + 1, Len(a))
           end == s.range[a[m]].to
<1>1. Shape(s) /\ Owned(s) /\ Linked(s)
  BY DEF Sound
<1>2. /\ NoGap(s, o, i, m)
      /\ i = m \/ s.range[r].nup = 0
      /\ cut = CutAt(s.range[r].from, RangeSize[u], stop)
      /\ Splits(x, r, cut) => FreeRanges(x, cut) # {}
  BY Zenon DEF Cuttable
<1>3. Reshapes(s, x, v, o) /\ Tallies(s, x)
  BY <1>2, MergedSound, MergedTallies
<1>4. Sound(x, v, d)
  BY <1>3, ReshapedSound
<1>5. Merges(s, x, o, c, r, end)
  BY <1>1, MergeFields
<1>6. a \in Seq(RangeIds) /\ i \in 1 .. Len(a) /\ m \in i .. Len(a) /\ r \in RangeIds
  BY <1>1, InList DEF Shape
<1>7. x.obj[o].chain = c /\ c[i] = r /\ i \in 1 .. Len(c)
  <2>1. x.obj[o].chain = c
    BY <1>5 DEF Merges
  <2>2. r = a[i]
    OBVIOUS
  <2> HIDE DEF a, r, x
  <2>3. /\ Len(c) = Len(a) - (m - i)
        /\ \A k \in 1 .. Len(c) : c[k] = a[IF k <= i THEN k ELSE k + (m - i)]
    BY <1>6, CutList, Zenon
  <2> HIDE DEF c
  <2>4. Len(a) \in Nat
    BY <1>6
  <2>5. i \in 1 .. Len(c)
    BY <1>6, <2>3, <2>4
  <2> QED BY <2>1, <2>2, <2>3, <2>5
<1>8. /\ x.range[r].from = s.range[r].from /\ x.range[r].to = end
      /\ x.range[r].nup = s.range[r].nup
  BY <1>5, <1>6 DEF Merges
<1>9. CASE ~ Splits(x, r, cut)
  <2>1. t = x
    BY <1>7, <1>9 DEF SplitRange
  <2> QED BY <1>3, <2>1 DEF Tallies
<1>10. CASE Splits(x, r, cut)
  <2>1. /\ Splits(x, x.obj[o].chain[i], cut) /\ FreeRanges(x, cut) # {}
        /\ i \in 1 .. Len(x.obj[o].chain) /\ x.obj[o].chain[i] = r
    BY <1>2, <1>7, <1>10
  <2>2. /\ Remains(x) => Remains(t)
        /\ x.range[r].nup = 0 => Tallies(x, t)
    <3> HIDE DEF x, r
    <3>1. /\ Remains(x) => Remains(t)
          /\ x.range[x.obj[o].chain[i]].nup = 0 => Tallies(x, t)
      BY <1>4, <2>1, SplitTallies
    <3> QED BY <2>1, <3>1
  <2> HIDE DEF t
  <2>3. ASSUME SameSizes, Short(s, v), EndsBlock(stop), s.range[r].nup # 0 PROVE FALSE
    <3>1. ~ Splits(s, r, cut)
      BY <1>1, <1>2, <2>3, AskedUncut
    <3>2. end = s.range[r].to
      BY <1>2, <2>3
    <3>3. Splits(s, r, cut)
      BY <1>8, <1>10, <3>2 DEF Splits
    <3> QED BY <3>1, <3>3
  <2> HIDE DEF x, r
  <2>4. /\ Remains(s) => Remains(t)
        /\ SameSizes /\ Short(s, v) /\ EndsBlock(stop) => Tallies(s, t)
    BY <1>3, <1>8, <2>2, <2>3 DEF Tallies
  <2> QED BY <2>4 DEF t, x
<1> QED BY <1>9, <1>10

\* What an uploader has selected, and what it may select, ends where blocks do.
EndsBlocks(list) == \A i \in 1 .. Len(list) : EndsBlock(list[i].to)
Ended(v) == \A u \in Uploaders : EndsBlocks(v[u].blocks) /\ EndsBlocks(v[u].partial)

\* A range that was asked for by one uploader more.
LEMMA TakenSettled ==
  ASSUME NEW t, NEW v, NEW d, Sound(t, v, d), Counted(t, v), Enlisted(t, v), UpShape(v), UpShape(up),
         NEW u \in Uploaders, NEW o \in ObjIds, NEW r \in ToSet(t.obj[o].chain), r \in RangeIds,
         t.obj[o].num \in Nums, t.range[r].owner = o, r \notin ToSet(v[u].ranges),
         GoesOn(v, up', u, Append(v[u].ranges, r)), IInv',
         swarmer' = LET n == IF t.range[r].nup = 0 THEN Length(t, r) ELSE 0
                    IN  Collect([t EXCEPT !.range[r].nup = @ + 1,
                                          !.unselected[t.range[r].owner] = @ - n], up')
  PROVE  Tallies(t, swarmer')
<1> DEFINE n == IF t.range[r].nup = 0 THEN Length(t, r) ELSE 0
           x == [t EXCEPT !.range[r].nup = @ + 1, !.unselected[t.range[r].owner] = @ - n]
<1>1. Shape(t) /\ Linked(t)
  BY DEF Sound
<1>2. swarmer' = Collect(x, up')
  BY Zenon
<1>3. Tallies(t, x)
  BY <1>1, TakenTallies
<1>4. Sound(x, up', d)
  <2> DEFINE w == up'
  <2>1. GoesOn(v, w, u, Append(v[u].ranges, r))
    OBVIOUS
  <2> HIDE DEF w, n
  <2>2. Sound(x, w, d)
    BY <2>1, TakenSound
  <2> QED BY <2>2 DEF w
<1> HIDE DEF x
<1>5. Shape(x) /\ Linked(x)
  BY <1>4 DEF Sound
<1>6. Tallies(x, swarmer')
  BY <1>2, <1>5, CollectedTallies
<1> QED BY <1>3, <1>6, TalliesChain

\* Of u, only the ranges that it holds change.
Relists(u) == \E list : up' = [up EXCEPT ![u].ranges = list]

\* find_range selects a range.
LEMMA FindRangeTallies ==
  ASSUME IInv, IInv', NEW u \in Uploaders, FindRange(u)
  PROVE  /\ Remains(swarmer) => Remains(swarmer')
         /\ SameSizes /\ Short(swarmer, up) /\ Ended(up) => Tallies(swarmer, swarmer')
         /\ Relists(u)
<1> DEFINE s == Cleaned(swarmer, u)
           list == Opened(s, up[u].ranges)
           v == [up EXCEPT ![u].ranges = list]
<1>1. /\ UpShape(up) /\ Sound(swarmer, up, disk) /\ Counted(swarmer, up) /\ Enlisted(swarmer, up)
  BY DEF IInv
<1>2. PICK p \in Places(s, u) : \E m \in DOMAIN Chain(s, u, p[1]) :
              LET o == up[u].blocks[p[1]].obj
                  r == RangeAt(s, u, p)
                  stop == IF s.range[r].nup = 0 THEN up[u].blocks[p[1]]
                          ELSE up[u].blocks[Len(up[u].blocks)]
                  cut == Min({s.range[r].from + RangeSize[u], stop.to})
                  merged == MergeRanges(s, o, p[2], m)
                  t == SplitRange(merged, o, p[2], cut)
                  n == IF t.range[r].nup = 0 THEN Length(t, r) ELSE 0
              IN  /\ Best(s, u, p)
                  /\ ~ GivesUp(s, u, p)
                  /\ ClusterEnd(s, u, p, m)
                  /\ Splits(merged, r, cut) => FreeRanges(merged, cut) # {}
                  /\ up' = [up EXCEPT ![u].ranges = Append(Opened(s, @), r)]
                  /\ swarmer' = Collect([t EXCEPT !.range[r].nup = @ + 1,
                                                  !.unselected[t.range[r].owner] = @ - n], up')
  BY Zenon DEF FindRange
<1> DEFINE e == up[u].blocks[p[1]]
           last == up[u].blocks[Len(up[u].blocks)]
           o == e.obj
           r == RangeAt(s, u, p)
           stop == (IF s.range[r].nup = 0 THEN e ELSE last).to
           cut == Min({s.range[r].from + RangeSize[u], stop})
           a == s.obj[o].chain
           i == p[2]
<1>3. PICK m \in DOMAIN Chain(s, u, p[1]) :
              LET merged == MergeRanges(s, o, i, m)
                  t == SplitRange(merged, o, i, cut)
                  n == IF t.range[r].nup = 0 THEN Length(t, r) ELSE 0
              IN  /\ Best(s, u, p)
                  /\ ClusterEnd(s, u, p, m)
                  /\ Splits(merged, r, cut) => FreeRanges(merged, cut) # {}
                  /\ up' = [up EXCEPT ![u].ranges = Append(list, r)]
                  /\ swarmer' = Collect([t EXCEPT !.range[r].nup = @ + 1,
                                                  !.unselected[t.range[r].owner] = @ - n], up')
  BY <1>2, Zenon
<1> DEFINE merged == MergeRanges(s, o, i, m)
           t == SplitRange(merged, o, i, cut)
           w == [up EXCEPT ![u].ranges = Append(list, r)]
<1>4. /\ Best(s, u, p) /\ ClusterEnd(s, u, p, m)
      /\ Splits(merged, r, cut) => FreeRanges(merged, cut) # {}
      /\ up' = w
      /\ swarmer' = LET n == IF t.range[r].nup = 0 THEN Length(t, r) ELSE 0
                    IN  Collect([t EXCEPT !.range[r].nup = @ + 1,
                                          !.unselected[t.range[r].owner] = @ - n], up')
  BY <1>3, Zenon
<1>0. Relists(u)
  <2>1. up' = [up EXCEPT ![u].ranges = Append(list, r)]
    BY <1>4
  <2> HIDE DEF list, r
  <2> QED BY <2>1 DEF Relists
<1>5. Tallies(swarmer, s)
  BY CleanedTallies
<1>6. /\ Shape(s)
      /\ list \in Seq(RangeIds) /\ ToSet(list) \subseteq ToSet(up[u].ranges)
      /\ GoesOn(up, v, u, list) /\ DropsOver(swarmer, s, up, v, u, disk)
  BY CleanedProps
<1> HIDE DEF s
<1>7. Shape(s)
  BY <1>6
<1>8. /\ list \in Seq(RangeIds) /\ ToSet(list) \subseteq ToSet(up[u].ranges)
      /\ GoesOn(up, v, u, list) /\ DropsOver(swarmer, s, up, v, u, disk)
  BY <1>6
<1> HIDE DEF v, list
<1>9. /\ Sound(s, v, disk) /\ Counted(s, v) /\ Enlisted(s, v) /\ UpShape(v)
      /\ Short(swarmer, up) => Short(s, v)
  BY <1>1, <1>8 DEF DropsOver, GoesOn
<1>10. /\ e \in EntrySet /\ last \in EntrySet /\ i \in 1 .. Len(a) /\ Open(s, u, e, a[i])
       /\ p[1] \in 1 .. Len(up[u].blocks)
  BY <1>1, <1>7, PlaceProps, Zenon
<1>11. o \in ObjIds /\ e.to \in Nat /\ last.to \in Nat
  BY <1>10, Zenon DEF EntrySet
<1>12. r = a[i]
  BY DEF RangeAt, Chain
<1>13. m \in i .. Len(a) /\ NoGap(s, o, i, m) /\ (i = m \/ s.range[a[i]].nup = 0)
  BY <1>1, <1>4, <1>7, ClusterProps, Zenon
<1>14. Ended(up) => EndsBlock(stop)
  <2> SUFFICES ASSUME EndsBlocks(up[u].blocks) PROVE EndsBlock(stop)
    BY DEF Ended
  <2> DEFINE q == up[u].blocks
  <2>1. q \in Seq(EntrySet)
    BY <1>1, UpFacts
  <2> HIDE DEF q
  <2>2. Len(q) \in Nat
    BY <2>1
  <2>3. p[1] \in 1 .. Len(q)
    BY <1>10 DEF q
  <2>4. Len(q) \in 1 .. Len(q)
    BY <2>2, <2>3
  <2>5. EndsBlock(q[p[1]].to) /\ EndsBlock(q[Len(q)].to)
    BY <2>3, <2>4, Zenon DEF EndsBlocks, q
  <2> QED BY <2>5, Zenon DEF q
<1> HIDE DEF e, last, o, r, i
<1>15. r \in RangeIds /\ r \notin ToSet(list)
  <2>1. a[i] \in RangeIds
    BY <1>7, <1>10, <1>11, InList DEF Shape
  <2> QED BY <1>8, <1>10, <1>12, <2>1 DEF Open, Held
<1>16. stop \in Nat /\ (s.range[r].nup = 0 => s.range[r].from < stop)
  BY <1>10, <1>11, <1>12 DEF Open
<1>17. cut = CutAt(s.range[r].from, RangeSize[u], stop)
  BY DEF CutAt
<1> HIDE DEF stop, cut
<1>18. cut \in Nat
  <2>1. s.range[r].from \in Nat
    BY <1>7, <1>15 DEF Shape, RangeSet
  <2> QED BY <1>16, <1>17, <2>1, SizePositive, CutProps
<1>19. /\ Takeable(s, t, v, disk, u, o, r)
       /\ Remains(s) => Remains(t)
       /\ SameSizes /\ Short(s, v) /\ EndsBlock(stop) => Tallies(s, t)
  <2>1. Splits(merged, a[i], cut) => FreeRanges(merged, cut) # {}
    BY <1>4, <1>12, Zenon
  <2>2. /\ cut = CutAt(s.range[a[i]].from, RangeSize[u], stop)
        /\ s.range[a[i]].nup = 0 => s.range[a[i]].from < stop
    BY <1>12, <1>16, <1>17, Zenon
  <2>3. Cuttable(s, u, o, i, m, stop, cut)
    BY <1>13, <2>1, <2>2, Zenon DEF Cuttable
  <2>4. /\ i \in 1 .. Len(s.obj[o].chain) /\ m \in i .. Len(s.obj[o].chain)
        /\ stop \in Nat
    BY <1>10, <1>13, <1>16
  <2>5. Takeable(s, t, v, disk, u, o, a[i])
    BY <1>9, <1>11, <1>18, <2>3, <2>4, RangeCut
  <2>6. /\ Remains(s) => Remains(t)
        /\ SameSizes /\ Short(s, v) /\ EndsBlock(stop) => Tallies(s, t)
    BY <1>9, <1>11, <1>18, <2>3, <2>4, RangeCutTallies
  <2> HIDE DEF t
  <2> QED BY <1>12, <2>5, <2>6
<1> HIDE DEF t
<1>20. /\ Sound(t, v, disk) /\ Counted(t, v) /\ Enlisted(t, v)
       /\ t.obj[o].num \in Nums /\ r \in ToSet(t.obj[o].chain) /\ t.range[r].owner = o
  BY <1>19 DEF Takeable
<1>21. GoesOn(v, up', u, Append(v[u].ranges, r)) /\ v[u].ranges = list
  <2>1. Append(list, r) \in Seq(RangeIds)
    BY <1>8, <1>15
  <2>2. GoesOn(up, w, u, Append(list, r))
    BY <1>1, <2>1, SetRanges
  <2> HIDE DEF w
  <2>3. GoesOn(v, w, u, Append(v[u].ranges, r)) /\ v[u].ranges = list
    BY <1>8, <2>2 DEF GoesOn
  <2> QED BY <1>4, <2>3
<1>22. Tallies(t, swarmer')
  BY <1>1, <1>4, <1>9, <1>11, <1>15, <1>20, <1>21, TakenSettled
<1> QED BY <1>0, <1>5, <1>9, <1>14, <1>19, <1>22 DEF Tallies

-----------------------------------------------------------------------------
(* Where selections end *)

\* Uploaders that declare intervals have whole blocks, but for where they begin.
WholeOffers ==
    \A u \in Uploaders : \A o \in Offers[u] : o.bitv \/ o.to >= FileSize \/ EndsBlock(o.to)

\* The parts of blocks that such an uploader declares end where blocks do.
LEMMA PartialEnds ==
  ASSUME NEW s, s.pos = InitPos, NEW o \in [bitv : BOOLEAN, from : Nat, to : Nat],
         o.bitv \/ o.to >= FileSize \/ EndsBlock(o.to), NEW list \in PartialBlocks(s, o)
  PROVE  EndsBlocks(list)
<1> DEFINE B == {b \in DOMAIN s.pos :
                   ~ o.bitv /\ Downloadable(s, b) /\ Meets(s, b, o) /\ ~ Within(s, b, o)}
           entry(b) == [num |-> b, from |-> Max({s.pos[b], o.from}),
                        to |-> Min({BlockEnd(s, b), o.to})]
           S == {entry(b) : b \in B}
<1>1. list \in [1 .. Cardinality(S) -> S]
  BY DEF PartialBlocks, Sorted
<1>2. B \subseteq Nums /\ \A b \in B : ~ o.bitv
  BY BlockPlaces
<1> HIDE DEF B
<1>3. IsFiniteSet(S)
  <2> DEFINE f == [b \in B |-> entry(b)]
  <2>1. f \in Surjection(B, S)
    BY DEF Surjection
  <2> HIDE DEF f, entry, S
  <2> QED BY <2>1, <1>2, NumsFinite, FS_Surjection
<1>4. ASSUME NEW b \in B PROVE EndsBlock(entry(b).to)
  <2> DEFINE x == BlockEnd(s, b)
             y == o.to
             z == Min({x, y})
  <2>1. b \in Nums /\ x = End(b) /\ x \in Nat /\ y \in Nat /\ x <= FileSize
    BY <1>2, Positions, BlockPlaces
  <2>2. entry(b).to = z
    BY Zenon
  <2>3. y >= FileSize \/ EndsBlock(y)
    BY <1>2
  <2>4. FileSize \in Nat
    BY Positions
  <2> HIDE DEF x, y
  <2>5. x \in Int /\ y \in Int
    BY <2>1
  <2>6. z = IF x <= y THEN x ELSE y
    BY <2>5, MinMax
  <2>7. EndsBlock(x)
    BY <2>1 DEF EndsBlock
  <2> HIDE DEF z, entry
  <2>8. EndsBlock(z)
    BY <2>1, <2>3, <2>4, <2>6, <2>7
  <2> QED BY <2>2, <2>8
<1>5. \A e \in S : EndsBlock(e.to)
  BY <1>4
<1> HIDE DEF S
<1>6. list \in Seq(S)
  BY <1>1, <1>3, Lists
<1>7. \A i \in 1 .. Len(list) : list[i] \in S
  BY <1>6
<1> QED BY <1>5, <1>7, Zenon DEF EndsBlocks

\* The list of nothing.
LEMMA EmptyEnds == EndsBlocks(<<>>)
  BY DEF EndsBlocks

\* Who holds which ranges does not matter.
LEMMA SameEnded ==
  ASSUME UpShape(up), Ended(up), NEW u \in Uploaders, NEW list, up' = [up EXCEPT ![u].ranges = list]
  PROVE  Ended(up)'
<1> SUFFICES ASSUME NEW x \in Uploaders
             PROVE  EndsBlocks(up'[x].blocks) /\ EndsBlocks(up'[x].partial)
  BY DEF Ended, EndsBlocks, EndsBlock
<1>1. up[x] \in UploaderSet
  BY UpFacts
<1>2. up'[x].blocks = up[x].blocks /\ up'[x].partial = up[x].partial
  BY <1>1 DEF UpShape, UploaderSet
<1>3. EndsBlocks(up[x].blocks) /\ EndsBlocks(up[x].partial)
  BY DEF Ended
<1> QED BY <1>2, <1>3

\* One uploader changes.
LEMMA OneEnded ==
  ASSUME UpShape(up), Ended(up), NEW u \in Uploaders, NEW z, up' = [up EXCEPT ![u] = z],
         EndsBlocks(z.blocks), EndsBlocks(z.partial)
  PROVE  Ended(up)'
<1> SUFFICES ASSUME NEW x \in Uploaders
             PROVE  EndsBlocks(up'[x].blocks) /\ EndsBlocks(up'[x].partial)
  BY DEF Ended, EndsBlocks, EndsBlock
<1>1. CASE x = u
  <2>1. up'[x] = z
    BY <1>1 DEF UpShape
  <2> QED BY <2>1
<1>2. CASE x # u
  <2>1. up'[x] = up[x]
    BY <1>2 DEF UpShape
  <2> QED BY <2>1 DEF Ended
<1> QED BY <1>1, <1>2

\* u selects parts of blocks.
LEMMA SelectEnded ==
  ASSUME IInv, Ended(up), NEW u \in Uploaders, NEW parts \in Seq(PartSet), NEW complete, NEW partial,
         Select(u, parts, complete, partial), EndsBlocks(parts), EndsBlocks(partial)
  PROVE  Ended(up)'
<1> DEFINE nums == {parts[i].num : i \in DOMAIN parts}
           s == Unselect(swarmer, u)
           new == {b \in nums : s.blocks[b].kind = "Empty"}
           t == Started(s, new)
           entries == [i \in DOMAIN parts |-> [obj |-> t.blocks[parts[i].num].obj,
                                               from |-> parts[i].from, to |-> parts[i].to]]
           z == [up[u] EXCEPT !.blocks = entries, !.complete = complete, !.partial = partial]
<1>1. UpShape(up) /\ up[u] \in UploaderSet
  BY UpFacts DEF IInv
<1>2. up' = [up EXCEPT ![u].blocks = entries, ![u].complete = complete, ![u].partial = partial]
  BY Zenon DEF Select
<1>3. EndsBlocks(entries)
  <2>1. Len(parts) \in Nat /\ DOMAIN parts = 1 .. Len(parts)
    OBVIOUS
  <2>2. \A i \in 1 .. Len(parts) : entries[i].to = parts[i].to
    BY <2>1
  <2>3. Len(entries) = Len(parts)
    <3>1. DOMAIN entries = 1 .. Len(parts)
      BY <2>1
    <3>2. entries \in Seq({entries[i] : i \in 1 .. Len(parts)})
      <4>1. entries = [i \in 1 .. Len(parts) |-> entries[i]]
        BY <2>1
      <4> HIDE DEF entries
      <4> QED BY <2>1, <4>1
    <3> HIDE DEF entries
    <3> QED BY <2>1, <3>1, <3>2
  <2> HIDE DEF entries
  <2> QED BY <2>2, <2>3 DEF EndsBlocks
<1> HIDE DEF entries
<1>4. z.blocks = entries /\ z.partial = partial
  BY <1>1 DEF UploaderSet
<1>5. up' = [up EXCEPT ![u] = z]
  BY <1>1, <1>2 DEF UpShape
<1> HIDE DEF z
<1> QED BY <1>1, <1>3, <1>4, <1>5, OneEnded

\* What find_blocks hands to select.
Selects(u, whole) ==
    \E parts \in Seq(PartSet), complete \in Seq(Nums), partial \in Seq(PartSet) :
        /\ Select(u, parts, complete, partial)
        /\ whole => EndsBlocks(parts) /\ EndsBlocks(partial)

\* A block that is selected as a whole ends where a block does.
LEMMA WholeEnds ==
  ASSUME NEW s, s.pos = InitPos, NEW b \in Nums
  PROVE  WholeBlock(s, b) \in PartSet /\ EndsBlock(WholeBlock(s, b).to)
<1>1. WholeBlock(s, b) \in PartSet
  BY WholeBlockProps
<1>2. WholeBlock(s, b).to = End(b)
  BY BlockPlaces DEF WholeBlock
<1> QED BY <1>1, <1>2 DEF EndsBlock

\* find_blocks takes blocks of one chunk.
LEMMA FindBlocksSelects ==
  ASSUME IInv, NEW u \in Uploaders, FindBlocks(u)
  PROVE  Selects(u, Ended(up))
<1> DEFINE list == up[u].complete
<1>1. PICK choice \in BlockChoices(swarmer, u) :
        Select(u, [i \in DOMAIN choice |-> WholeBlock(swarmer, up[u].complete[choice[i]])],
               Permuted(up[u].complete, choice), up[u].partial)
  BY DEF FindBlocks
<1>2. swarmer.pos = InitPos
  BY DEF IInv, Sound, Shape
<1>3. list \in Seq(Nums) /\ IsInjective(list) /\ up[u].partial \in Seq(PartSet)
  BY UpFacts DEF IInv, Enlisted
<1>4. /\ choice \in Seq(DOMAIN list) /\ DOMAIN choice = 1 .. Len(choice)
      /\ \A i, j \in 1 .. Len(choice) : choice[i] = choice[j] => i = j
  BY <1>3, ChoiceProps
<1> DEFINE parts == [i \in DOMAIN choice |-> WholeBlock(swarmer, list[choice[i]])]
           complete == Permuted(list, choice)
<1>5. Len(choice) \in Nat /\ \A i \in 1 .. Len(choice) : choice[i] \in 1 .. Len(list)
  <2>1. DOMAIN list = 1 .. Len(list)
    BY <1>3
  <2> HIDE DEF list
  <2> QED BY <1>4, <2>1
<1>6. complete \in Seq(Nums)
  <2>1. \A i, j \in 1 .. Len(list) : list[i] = list[j] => i = j
    BY <1>3, SeqFacts
  <2> QED BY <1>3, <1>4, <1>5, <2>1, PermutedProps
<1>7. Select(u, parts, complete, up[u].partial)
  BY <1>1
<1>8. ASSUME NEW i \in 1 .. Len(choice) PROVE parts[i] \in PartSet /\ EndsBlock(parts[i].to)
  <2>1. list[choice[i]] \in Nums
    BY <1>3, <1>5
  <2>2. parts[i] = WholeBlock(swarmer, list[choice[i]])
    BY <1>4
  <2> HIDE DEF parts, list
  <2> QED BY <1>2, <2>1, <2>2, WholeEnds
<1>9. parts \in Seq(PartSet) /\ Len(parts) = Len(choice)
  <2>1. parts = [i \in 1 .. Len(choice) |-> parts[i]]
    BY <1>4
  <2> HIDE DEF parts
  <2> QED BY <2>1, <1>5, <1>8
<1> HIDE DEF parts, complete
<1>10. EndsBlocks(parts)
  BY <1>8, <1>9 DEF EndsBlocks
<1>11. Ended(up) => EndsBlocks(up[u].partial)
  BY DEF Ended
<1> QED BY <1>3, <1>6, <1>7, <1>9, <1>10, <1>11, Zenon DEF Selects

\* linear_select_blocks takes one block, or a part of one, or none.
LEMMA FindBlocksLinearSelects ==
  ASSUME IInv, NEW u \in Uploaders, FindBlocksLinear(u)
  PROVE  Selects(u, Ended(up))
<1> DEFINE list == up[u].complete
           part == up[u].partial
           nums == [k \in DOMAIN part |-> part[k].num]
<1>1. PICK i \in 0 .. Len(list), j \in 0 .. Len(part) :
        /\ LastToDo(swarmer, list, i) /\ LastToDo(swarmer, nums, j)
        /\ \/ i > 0 /\ Select(u, <<WholeBlock(swarmer, list[i])>>, SubSeq(list, 1, i - 1), part)
           \/ i = 0 /\ j > 0 /\ Select(u, <<part[j]>>, <<>>, SubSeq(part, 1, j - 1))
           \/ i = 0 /\ j = 0 /\ Select(u, <<>>, <<>>, <<>>)
  BY DEF FindBlocksLinear
<1>2. swarmer.pos = InitPos
  BY DEF IInv, Sound, Shape
<1>3. list \in Seq(Nums) /\ part \in Seq(PartSet)
  BY UpFacts DEF IInv, Enlisted
<1>4. <<>> \in Seq(PartSet) /\ <<>> \in Seq(Nums)
  BY EmptyFacts
<1>5. \A x \in PartSet : /\ <<x>> \in Seq(PartSet)
                         /\ EndsBlock(x.to) => EndsBlocks(<<x>>)
  <2> TAKE x \in PartSet
  <2>1. <<x>> \in Seq(PartSet) /\ Len(<<x>>) = 1 /\ \A k \in 1 .. Len(<<x>>) : <<x>>[k] = x
    OBVIOUS
  <2> QED BY <2>1 DEF EndsBlocks
<1>6. Ended(up) => EndsBlocks(part)
  BY DEF Ended
<1>7. CASE i > 0 /\ Select(u, <<WholeBlock(swarmer, list[i])>>, SubSeq(list, 1, i - 1), part)
  <2> DEFINE x == WholeBlock(swarmer, list[i])
             rest == SubSeq(list, 1, i - 1)
  <2>1. list[i] \in Nums
    BY <1>3, <1>7
  <2>2. x \in PartSet /\ EndsBlock(x.to)
    BY <1>2, <2>1, WholeEnds
  <2>3. rest \in Seq(Nums)
    BY <1>3, <1>7
  <2>4. Select(u, <<x>>, rest, part)
    BY <1>7
  <2> HIDE DEF x, rest, part, list
  <2>5. <<x>> \in Seq(PartSet) /\ EndsBlocks(<<x>>)
    BY <1>5, <2>2
  <2> QED BY <1>3, <1>6, <2>3, <2>4, <2>5, Zenon DEF Selects
<1>8. CASE i = 0 /\ j > 0 /\ Select(u, <<part[j]>>, <<>>, SubSeq(part, 1, j - 1))
  <2> DEFINE x == part[j]
             rest == SubSeq(part, 1, j - 1)
  <2>1. x \in PartSet /\ j \in 1 .. Len(part)
    BY <1>3, <1>8
  <2>2. rest \in Seq(PartSet) /\ Len(rest) = j - 1 /\ \A k \in 1 .. j - 1 : rest[k] = part[k]
    BY <1>3, <1>8
  <2>3. Select(u, <<x>>, <<>>, rest)
    BY <1>8
  <2>4. Ended(up) => EndsBlock(x.to)
    BY <1>6, <2>1 DEF EndsBlocks
  <2>5. Ended(up) => EndsBlocks(rest)
    <3> SUFFICES ASSUME Ended(up), NEW k \in 1 .. Len(rest) PROVE EndsBlock(rest[k].to)
      BY DEF EndsBlocks
    <3>1. k \in 1 .. Len(part) /\ rest[k] = part[k]
      <4> HIDE DEF rest, part
      <4> QED BY <1>8, <2>1, <2>2
    <3> HIDE DEF rest
    <3> QED BY <1>6, <3>1 DEF EndsBlocks
  <2> HIDE DEF x, rest, part, list
  <2>6. <<x>> \in Seq(PartSet) /\ (EndsBlock(x.to) => EndsBlocks(<<x>>))
    BY <1>5, <2>1
  <2> QED BY <1>4, <2>2, <2>3, <2>4, <2>5, <2>6, Zenon DEF Selects
<1>9. CASE i = 0 /\ j = 0 /\ Select(u, <<>>, <<>>, <<>>)
  BY <1>4, <1>9, EmptyEnds, Zenon DEF Selects
<1> QED BY <1>1, <1>7, <1>8, <1>9

\* u selects blocks.
LEMMA SelectsStep ==
  ASSUME IInv, IInv', NEW u \in Uploaders, Selects(u, Ended(up))
  PROVE  Tallies(swarmer, swarmer') /\ (Ended(up) => Ended(up)')
<1>1. PICK parts \in Seq(PartSet), complete \in Seq(Nums), partial \in Seq(PartSet) :
         /\ Select(u, parts, complete, partial)
         /\ Ended(up) => EndsBlocks(parts) /\ EndsBlocks(partial)
  BY Zenon DEF Selects
<1>2. Tallies(swarmer, swarmer')
  BY <1>1, SelectTallies
<1>3. Ended(up) => Ended(up)'
  BY <1>1, SelectEnded
<1> QED BY <1>2, <1>3

\* u has selected nothing any more.
Resets(u) == \E z : up' = [up EXCEPT ![u] = z] /\ z.blocks = <<>> /\ EndsBlocks(z.partial)

LEMMA RelistsEnded ==
  ASSUME IInv, NEW u \in Uploaders, Relists(u)
  PROVE  Ended(up) => Ended(up)'
<1>1. PICK list : up' = [up EXCEPT ![u].ranges = list]
  BY DEF Relists
<1> QED BY <1>1, SameEnded DEF IInv

LEMMA ResetsEnded ==
  ASSUME IInv, NEW u \in Uploaders, Resets(u)
  PROVE  Ended(up) => Ended(up)'
<1>1. PICK z : up' = [up EXCEPT ![u] = z] /\ z.blocks = <<>> /\ EndsBlocks(z.partial)
  BY DEF Resets
<1>2. EndsBlocks(z.blocks)
  BY <1>1, EmptyEnds
<1> QED BY <1>1, <1>2, OneEnded DEF IInv

\* u declares what it has.
LEMMA DeclareEnded ==
  ASSUME IInv, WholeOffers, NEW u \in Uploaders, NEW o \in Offers[u], Declare(u, o)
  PROVE  Ended(up) => Ended(up)'
<1>1. PICK complete \in CompleteBlocks(swarmer, o), partial \in PartialBlocks(swarmer, o) :
        up' = [up EXCEPT ![u] = [@ EXCEPT !.declared = TRUE, !.blocks = <<>>,
                                          !.complete = complete, !.partial = partial]]
  BY Zenon DEF Declare
<1> DEFINE z == [up[u] EXCEPT !.declared = TRUE, !.blocks = <<>>,
                              !.complete = complete, !.partial = partial]
<1>2. up' = [up EXCEPT ![u] = z]
  BY <1>1
<1>3. up[u] \in UploaderSet
  BY UpFacts DEF IInv
<1>4. z.blocks = <<>> /\ z.partial = partial
  BY <1>3 DEF UploaderSet
<1>5. EndsBlocks(partial)
  <2>1. swarmer.pos = InitPos
    BY DEF IInv, Sound, Shape
  <2>2. /\ o \in [bitv : BOOLEAN, from : Nat, to : Nat]
        /\ o.bitv \/ o.to >= FileSize \/ EndsBlock(o.to)
    BY OffersAssumption DEF WholeOffers
  <2> QED BY <2>1, <2>2, PartialEnds
<1> HIDE DEF z
<1>6. Resets(u)
  BY <1>2, <1>4, <1>5 DEF Resets
<1> QED BY <1>6, ResetsEnded

\* u is as a new uploader, or keeps no more than its ranges.
LEMMA IdleEnded ==
  ASSUME IInv, NEW u \in Uploaders, ClearUploaderIntervals(u) \/ UnregisterUploader(u)
  PROVE  Ended(up) => Ended(up)'
<1>1. CASE ClearUploaderIntervals(u)
  <2> DEFINE z == [NoUploader EXCEPT !.ranges = up[u].ranges]
  <2>1. up' = [up EXCEPT ![u] = z]
    BY <1>1 DEF ClearUploaderIntervals
  <2>2. z.blocks = <<>> /\ EndsBlocks(z.partial)
    BY EmptyEnds DEF NoUploader
  <2> HIDE DEF z
  <2> QED BY <2>1, <2>2, ResetsEnded DEF Resets
<1>2. CASE UnregisterUploader(u)
  <2>1. up' = [up EXCEPT ![u] = NoUploader]
    BY <1>2 DEF UnregisterUploader
  <2>2. NoUploader.blocks = <<>> /\ EndsBlocks(NoUploader.partial)
    BY EmptyEnds DEF NoUploader
  <2> QED BY <2>1, <2>2, ResetsEnded DEF Resets
<1> QED BY <1>1, <1>2

\* Only the ranges that u holds change.
LEMMA RangesEnded ==
  ASSUME IInv, NEW u \in Uploaders,
         ClearUploaderRanges(u) \/ FindNoRange(u)
           \/ \E from, to, k : Received(u, from, to, k)
  PROVE  Ended(up) => Ended(up)'
<1>1. CASE ClearUploaderRanges(u)
  <2>1. Relists(u)
    BY <1>1 DEF ClearUploaderRanges, Relists
  <2> QED BY <2>1, RelistsEnded
<1>2. CASE FindNoRange(u)
  <2>1. Relists(u)
    BY <1>2 DEF FindNoRange, Relists
  <2> QED BY <2>1, RelistsEnded
<1>3. ASSUME NEW from, NEW to, NEW k, Received(u, from, to, k) PROVE Ended(up) => Ended(up)'
  <2>1. Relists(u)
    BY <1>3 DEF Received, Relists
  <2> QED BY <2>1, RelistsEnded
<1> QED BY <1>1, <1>2, <1>3

-----------------------------------------------------------------------------
(* Every step *)

\* What holds of the counters: block_remaining is right; so is block_unselected_remaining
\* where uploaders ask for one size and offer whole blocks.
Counts == Remains(swarmer)
InStep == Counts /\ Unasked(swarmer) /\ Short(swarmer, up) /\ Ended(up)

\* Nothing has been started.
LEMMA InitCounts == Init => InStep
<1> SUFFICES ASSUME Init PROVE InStep
  OBVIOUS
<1>1. IInv /\ Short(swarmer, up)
  BY InitInv
<1>2. Shape(swarmer) /\ Linked(swarmer)
  BY <1>1 DEF IInv, Sound
<1>3. /\ swarmer.remaining = [o \in ObjIds |-> 0] /\ swarmer.unselected = [o \in ObjIds |-> 0]
      /\ \A o \in ObjIds : swarmer.obj[o].chain = <<>>
  BY DEF Init, NoObj
<1>4. \A Q : \A o \in ObjIds : Cardinality(Part(swarmer, o, Q)) = 0
  BY <1>3, EmptyPart
<1>5. Remains(swarmer)
  <2>1. Tally(swarmer, swarmer.remaining, RangeIds)
    BY <1>2, <1>3, <1>4 DEF Tally
  <2> QED BY <2>1 DEF Remains
<1>6. Unasked(swarmer)
  <2>1. \A o \in ObjIds : Cardinality(Part(swarmer, o, NotAsked(swarmer))) = 0
    BY <1>4
  <2>2. Tally(swarmer, swarmer.unselected, NotAsked(swarmer))
    BY <1>2, <1>3, <2>1 DEF Tally
  <2> QED BY <2>2 DEF Unasked
<1>7. Ended(up)
  <2>1. \A u \in Uploaders : up[u].blocks = <<>> /\ up[u].partial = <<>>
    BY DEF Init, NoUploader
  <2> QED BY <2>1, EmptyEnds DEF Ended
<1> QED BY <1>1, <1>5, <1>6, <1>7 DEF Counts, InStep

\* Every step keeps the counters.
LEMMA NextCounts ==
  ASSUME IInv, [Next]_vars
  PROVE  /\ Remains(swarmer) => Remains(swarmer')
         /\ SameSizes /\ WholeOffers /\ Short(swarmer, up) /\ Ended(up) =>
               Tallies(swarmer, swarmer') /\ Ended(up)'
<1> DEFINE G == /\ Remains(swarmer) => Remains(swarmer')
                /\ SameSizes /\ WholeOffers /\ Short(swarmer, up) /\ Ended(up) =>
                      Tallies(swarmer, swarmer') /\ Ended(up)'
<1>0. IInv'
  BY NextInv
<1>1. ASSUME NEW u \in Uploaders, NEW o \in Offers[u], Declare(u, o) PROVE G
  <2>1. swarmer' = swarmer
    BY <1>1 DEF Declare
  <2>2. Tallies(swarmer, swarmer')
    BY <2>1 DEF Tallies
  <2> QED BY <1>1, <2>2, DeclareEnded DEF Tallies
<1>2. ASSUME NEW u \in Uploaders, ClearUploaderIntervals(u) PROVE G
  <2>1. Tallies(swarmer, swarmer')
    BY <1>0, <1>2, ClearUploaderIntervalsTallies
  <2> QED BY <1>2, <2>1, IdleEnded DEF Tallies
<1>3. ASSUME NEW u \in Uploaders, ClearUploaderRanges(u) PROVE G
  <2>1. Tallies(swarmer, swarmer')
    BY <1>0, <1>3, ClearUploaderRangesTallies
  <2> QED BY <1>3, <2>1, RangesEnded DEF Tallies
<1>4. ASSUME NEW u \in Uploaders, UnregisterUploader(u) PROVE G
  <2>1. Tallies(swarmer, swarmer')
    BY <1>0, <1>4, UnregisterUploaderTallies
  <2> QED BY <1>4, <2>1, IdleEnded DEF Tallies
<1>5. ASSUME NEW u \in Uploaders, FindBlocks(u) PROVE G
  <2>1. Tallies(swarmer, swarmer') /\ (Ended(up) => Ended(up)')
    BY <1>0, <1>5, FindBlocksSelects, SelectsStep
  <2> QED BY <2>1 DEF Tallies
<1>6. ASSUME NEW u \in Uploaders, FindBlocksLinear(u) PROVE G
  <2>1. Tallies(swarmer, swarmer') /\ (Ended(up) => Ended(up)')
    BY <1>0, <1>6, FindBlocksLinearSelects, SelectsStep
  <2> QED BY <2>1 DEF Tallies
<1>7. ASSUME NEW u \in Uploaders, FindRange(u) PROVE G
  <2>1. /\ Remains(swarmer) => Remains(swarmer')
        /\ SameSizes /\ Short(swarmer, up) /\ Ended(up) => Tallies(swarmer, swarmer')
        /\ Relists(u)
    BY <1>0, <1>7, FindRangeTallies
  <2> QED BY <2>1, RelistsEnded
<1>8. ASSUME NEW u \in Uploaders, FindNoRange(u) PROVE G
  <2>1. Tallies(swarmer, swarmer')
    BY <1>0, <1>8, FindNoRangeTallies
  <2> QED BY <1>8, <2>1, RangesEnded DEF Tallies
<1>9. ASSUME NEW u \in Uploaders, NEW from \in HeldBytes(u), NEW last \in HeldBytes(u),
             NEW k \in DOMAIN up[u].ranges, Received(u, from, last + 1, k)
      PROVE  G
  <2>1. Tallies(swarmer, swarmer')
    BY <1>0, <1>9, ReceivedTallies
  <2>2. Ended(up) => Ended(up)'
    BY <1>9, RangesEnded
  <2> QED BY <2>1, <2>2 DEF Tallies
<1>10. ASSUME NEW c \in PrimaryChunks, NEW ok \in BOOLEAN, VerifyChunk(c, ok) PROVE G
  <2>1. Tallies(swarmer, swarmer')
    BY <1>0, <1>10, VerifyChunkTallies
  <2>2. up' = up
    BY <1>10 DEF VerifyChunk
  <2> QED BY <2>1, <2>2 DEF Tallies, Ended, EndsBlocks, EndsBlock
<1>11. ASSUME NEW c \in PrimaryChunks, PropagateChunk(c) PROVE G
  <2>1. Tallies(swarmer, swarmer')
    BY <1>0, <1>11, PropagateChunkTallies
  <2>2. up' = up
    BY <1>11 DEF PropagateChunk
  <2> QED BY <2>1, <2>2 DEF Tallies, Ended, EndsBlocks, EndsBlock
<1>12. ASSUME UNCHANGED vars PROVE G
  <2>1. up' = up /\ swarmer' = swarmer
    BY <1>12 DEF vars
  <2> QED BY <2>1 DEF Tallies, Ended, EndsBlocks, EndsBlock
<1> HIDE DEF G
<1>13. G
  BY <1>1, <1>2, <1>3, <1>4, <1>5, <1>6, <1>7, <1>8, <1>9, <1>10, <1>11, <1>12, Zenon DEF Next
<1> QED BY <1>13 DEF G

-----------------------------------------------------------------------------
(* The counters of the blocks *)

\* The bytes that are missing in the list of an object are those of its ranges.
LEMMA WholePart ==
  ASSUME NEW s, Shape(s), NEW o \in ObjIds
  PROVE  /\ Part(s, o, RangeIds) = Bytes(s, ToSet(s.obj[o].chain))
         /\ Part(s, o, NotAsked(s)) = Bytes(s, {r \in ToSet(s.obj[o].chain) : s.range[r].nup = 0})
<1> DEFINE a == s.obj[o].chain
           R == {r \in ToSet(a) : s.range[r].nup = 0}
<1>1. a \in Seq(RangeIds)
  BY InList DEF Shape
<1> HIDE DEF a
<1>2. ToSet(a) \subseteq RangeIds
  BY <1>1, SeqFacts
<1>3. {r \in ToSet(a) : r \in RangeIds} = ToSet(a)
  BY <1>2
<1>4. {r \in ToSet(a) : r \in NotAsked(s)} = R
  BY <1>2 DEF NotAsked
<1> HIDE DEF R
<1> QED BY <1>3, <1>4 DEF Part, a, R

\* block_remaining is the number of bytes that the ranges of the block miss, through
\* every merge, split, cut and completion, whoever downloads what.
THEOREM RemainingCorrect == Spec => []RemainingAgrees
<1> DEFINE I == IInv /\ Counts
<1>1. Init => I
  BY InitInv, InitCounts DEF InStep
<1>2. I /\ [Next]_vars => I'
  <2> SUFFICES ASSUME I, [Next]_vars PROVE I'
    OBVIOUS
  <2>1. IInv'
    BY NextInv
  <2>2. Remains(swarmer')
    BY NextCounts DEF Counts
  <2>3. Counts'
    BY <2>2 DEF Counts, Remains, Tally, Part, Bytes
  <2> QED BY <2>1, <2>3
<1>3. I => RemainingAgrees
  <2> SUFFICES ASSUME I, NEW b \in PartialBlockNums
               PROVE  swarmer.remaining[swarmer.blocks[b].obj] = Cardinality(Holes(b))
    BY DEF RemainingAgrees
  <2> DEFINE o == swarmer.blocks[b].obj
  <2>1. Shape(swarmer) /\ Owned(swarmer)
    BY DEF IInv, Sound
  <2>2. b \in Nums /\ swarmer.blocks[b].kind = "Partial"
    BY <2>1 DEF PartialBlockNums, Shape
  <2>3. o \in ObjIds
    BY <2>1, <2>2 DEF Owned
  <2>4. Holes(b) = Bytes(swarmer, ToSet(swarmer.obj[o].chain))
    BY <2>2 DEF Holes, ObjOf
  <2>5. Part(swarmer, o, RangeIds) = Bytes(swarmer, ToSet(swarmer.obj[o].chain))
    BY <2>1, <2>3, WholePart
  <2>6. swarmer.remaining[o] = Cardinality(Part(swarmer, o, RangeIds))
    BY <2>3 DEF Counts, Remains, Tally
  <2> QED BY <2>4, <2>5, <2>6
<1> HIDE DEF I
<1> QED BY <1>1, <1>2, <1>3, PTL DEF Spec

\* Where uploaders ask for one size and offer whole blocks, both counters are right.
LEMMA SettledInvariance ==
  ASSUME SameSizes, WholeOffers
  PROVE  Spec => [](IInv /\ InStep)
<1> DEFINE I == IInv /\ InStep
<1>1. Init => I
  BY InitInv, InitCounts
<1>2. I /\ [Next]_vars => I'
  <2> SUFFICES ASSUME I, [Next]_vars PROVE I'
    OBVIOUS
  <2>1. IInv' /\ Short(swarmer', up')
    BY NextInv DEF InStep
  <2>2. Remains(swarmer') /\ Unasked(swarmer') /\ Ended(up)'
    BY NextCounts DEF InStep, Counts, Tallies
  <2>3. InStep'
    BY <2>1, <2>2 DEF InStep, Counts, Remains, Unasked, Tally, Part, Bytes, NotAsked, Short
  <2> QED BY <2>1, <2>3
<1> HIDE DEF I
<1>3. Spec => []I
  BY <1>1, <1>2, PTL DEF Spec
<1> QED BY <1>3 DEF I

\* The block invariant of the code: the ranges of a partial block are in order inside it,
\* block_remaining is what they miss and block_unselected_remaining what of it no uploader
\* has selected.
THEOREM BlockInvariantCorrect ==
  ASSUME SameSizes, WholeOffers
  PROVE  Spec => []BlockInvariant
<1>1. IInv /\ InStep => UnselectedAgrees
  <2> SUFFICES ASSUME IInv, InStep, NEW b \in PartialBlockNums
               PROVE  swarmer.unselected[swarmer.blocks[b].obj] =
                        Size(swarmer, {r \in ToSet(ObjOf(b).chain) : swarmer.range[r].nup = 0})
    BY DEF UnselectedAgrees
  <2> DEFINE o == swarmer.blocks[b].obj
             R == {r \in ToSet(swarmer.obj[o].chain) : swarmer.range[r].nup = 0}
  <2>1. Shape(swarmer) /\ Owned(swarmer)
    BY DEF IInv, Sound
  <2>2. b \in Nums /\ swarmer.blocks[b].kind = "Partial"
    BY <2>1 DEF PartialBlockNums, Shape
  <2>3. o \in ObjIds
    BY <2>1, <2>2 DEF Owned
  <2>4. Part(swarmer, o, NotAsked(swarmer)) = Bytes(swarmer, R)
    BY <2>1, <2>3, WholePart
  <2>5. swarmer.unselected[o] = Cardinality(Part(swarmer, o, NotAsked(swarmer)))
    BY <2>3 DEF InStep, Unasked, Tally
  <2>6. Size(swarmer, R) = Cardinality(Bytes(swarmer, R))
    BY DEF Size
  <2> QED BY <2>4, <2>5, <2>6 DEF ObjOf
<1>2. RangesOrdered /\ RemainingAgrees /\ UnselectedAgrees => BlockInvariant
  BY DEF BlockInvariant
<1> QED BY <1>1, <1>2, SettledInvariance, RangesStayOrdered, RemainingCorrect, PTL

-----------------------------------------------------------------------------
(* Types *)

\* A byte of a range in a list is a byte of the file.
LEMMA PartInside ==
  ASSUME NEW s, Shape(s), Owned(s), Linked(s), NEW o \in ObjIds, NEW Q
  PROVE  Part(s, o, Q) \subseteq 0 .. FileSize - 1
<1> SUFFICES ASSUME NEW x \in Part(s, o, Q) PROVE x \in 0 .. FileSize - 1
  OBVIOUS
<1> DEFINE a == s.obj[o].chain
<1>1. PICK i \in 1 .. Len(a) : x \in Int /\ InRange(s, a[i], x)
  BY InPart, Zenon
<1>2. Placed(s, o, a[i])
  BY RangePlace, Zenon
<1> DEFINE b == s.obj[o].num
           from == s.range[a[i]].from
           to == s.range[a[i]].to
<1>3. /\ b \in Nums /\ from \in Nat /\ to \in Nat /\ InitPos[b] <= from /\ to <= End(b)
  BY <1>2, Zenon DEF Placed
<1>4. from <= x /\ x < to
  BY <1>1 DEF InRange
<1> HIDE DEF from, to, b
<1>5. InitPos[b] \in Nat /\ End(b) \in Nat /\ End(b) <= FileSize /\ FileSize \in Nat
  BY <1>3, Positions
<1> QED BY <1>1, <1>3, <1>4, <1>5

\* A counter of bytes of a list is at most the size of the file.
LEMMA PartBounded ==
  ASSUME NEW s, Shape(s), Owned(s), Linked(s), NEW o \in ObjIds, NEW Q
  PROVE  /\ Cardinality(Part(s, o, Q)) \in 0 .. FileSize
         /\ Q \subseteq RangeIds => Cardinality(Part(s, o, Q)) <= Cardinality(Part(s, o, RangeIds))
<1>1. FileSize \in Nat
  BY Positions
<1>2. IsFiniteSet(0 .. FileSize - 1) /\ Cardinality(0 .. FileSize - 1) = FileSize
  <2> DEFINE last == FileSize - 1
  <2>1. last \in Int /\ 0 <= last + 1 /\ FileSize = last + 1
    BY <1>1
  <2> HIDE DEF last
  <2>2. IsFiniteSet(0 .. last) /\ Cardinality(0 .. last) = IF 0 > last THEN 0 ELSE last - 0 + 1
    BY <2>1, FS_Interval
  <2>3. IsFiniteSet(0 .. last) /\ Cardinality(0 .. last) = FileSize
    BY <2>1, <2>2
  <2> QED BY <2>3 DEF last
<1>3. Part(s, o, Q) \subseteq 0 .. FileSize - 1
  BY PartInside
<1>4. Cardinality(Part(s, o, Q)) <= FileSize
  <2> DEFINE S == 0 .. FileSize - 1
  <2> HIDE DEF S
  <2>1. IsFiniteSet(S) /\ Cardinality(S) = FileSize /\ Part(s, o, Q) \subseteq S
    BY <1>2, <1>3 DEF S
  <2> QED BY <2>1, FS_Subset
<1>5. Cardinality(Part(s, o, Q)) \in Nat
  BY PartFinite
<1>6. ASSUME Q \subseteq RangeIds
      PROVE  Cardinality(Part(s, o, Q)) <= Cardinality(Part(s, o, RangeIds))
  <2>1. Part(s, o, Q) \subseteq Part(s, o, RangeIds)
    BY <1>6 DEF Part, Bytes
  <2>2. IsFiniteSet(Part(s, o, RangeIds))
    BY PartFinite
  <2> QED BY <2>1, <2>2, FS_Subset
<1> QED BY <1>1, <1>4, <1>5, <1>6

\* The bytes of ranges that are held are bytes of the file.
LEMMA HeldInside ==
  ASSUME IInv, NEW u \in Uploaders
  PROVE  HeldBytes(u) \subseteq 0 .. FileSize - 1
<1> SUFFICES ASSUME NEW x \in HeldBytes(u) PROVE x \in 0 .. FileSize - 1
  OBVIOUS
<1>1. PICK r \in ToSet(up[u].ranges) : x \in swarmer.range[r].from .. swarmer.range[r].to - 1
  BY DEF HeldBytes, Held, Bytes
<1>2. Shape(swarmer) /\ Owned(swarmer) /\ Linked(swarmer) /\ HeldLive(swarmer, up) /\ UpShape(up)
  BY DEF IInv, Sound
<1>3. r \in RangeIds
  BY <1>2, UpFacts
<1>4. swarmer.range[r].from \in Nat /\ swarmer.range[r].to \in Nat
  BY <1>2, <1>3 DEF Shape, RangeSet
<1>5. x \in Int /\ InRange(swarmer, r, x) /\ swarmer.range[r].from < swarmer.range[r].to
  BY <1>1, <1>4 DEF InRange
<1> DEFINE o == swarmer.range[r].owner
<1>6. o \in ObjIds /\ r \in ToSet(swarmer.obj[o].chain)
  BY <1>2, <1>5 DEF HeldLive
<1>7. swarmer.obj[o].chain \in Seq(RangeIds)
  BY <1>2, <1>6, InList DEF Shape
<1>8. PICK i \in 1 .. Len(swarmer.obj[o].chain) : r = swarmer.obj[o].chain[i]
  BY <1>6, <1>7, SeqFacts
<1> HIDE DEF o
<1>9. x \in Part(swarmer, o, RangeIds)
  BY <1>2, <1>3, <1>5, <1>6, <1>8, InPart
<1> QED BY <1>2, <1>6, <1>9, PartInside

\* What is on the disk is part of the file.
Bounded == disk \subseteq 0 .. FileSize - 1 /\ fails \in 0 .. MaxFail

LEMMA BoundedStep ==
  ASSUME IInv, Bounded, [Next]_vars
  PROVE  Bounded'
<1>1. ASSUME NEW u \in Uploaders, NEW from, NEW to, NEW k \in DOMAIN up[u].ranges,
             Received(u, from, to, k)
      PROVE  Bounded'
  <2> DEFINE R == Takers(swarmer, {up[u].ranges[i] : i \in 1 .. k}, from, to)
  <2>1. disk' = disk \cup (Bytes(swarmer, R) \cap (from .. to - 1)) /\ fails' = fails
    BY <1>1 DEF Received
  <2>2. R \subseteq Held(u)
    <3>1. up[u].ranges \in Seq(RangeIds)
      BY UpFacts DEF IInv
    <3>2. \A i \in 1 .. k : i \in 1 .. Len(up[u].ranges)
      BY <3>1
    <3>3. \A i \in 1 .. k : up[u].ranges[i] \in ToSet(up[u].ranges)
      BY <3>1, <3>2, SeqFacts
    <3> QED BY <3>3 DEF Takers, Held
  <2>3. Bytes(swarmer, R) \subseteq HeldBytes(u)
    BY <2>2 DEF Bytes, HeldBytes
  <2>4. HeldBytes(u) \subseteq 0 .. FileSize - 1
    BY HeldInside
  <2> HIDE DEF R
  <2> QED BY <2>1, <2>3, <2>4 DEF Bounded
<1>2. ASSUME NEW c, NEW ok, VerifyChunk(c, ok) PROVE Bounded'
  <2>1. disk' \subseteq disk
    BY <1>2 DEF VerifyChunk
  <2>2. fails' \in 0 .. MaxFail
    <3>1. /\ ok \/ fails < MaxFail
          /\ fails' = IF ok THEN fails ELSE fails + 1
      BY <1>2 DEF VerifyChunk
    <3> QED BY <3>1, BoundAssumption DEF Bounded
  <2> QED BY <2>1, <2>2 DEF Bounded
<1>3. ASSUME NEW c, PropagateChunk(c) PROVE Bounded'
  <2> DEFINE todo == {b \in PrimaryChunk(swarmer, c) : Downloadable(swarmer, b)}
  <2>1. disk' = disk \cup UNION {BytesOf(swarmer, b) : b \in todo} /\ fails' = fails
    BY <1>3 DEF PropagateChunk
  <2>2. swarmer.pos = InitPos
    BY DEF IInv, Sound, Shape
  <2>3. \A b \in todo : b \in Nums
    BY <2>2, BlockPlaces DEF PrimaryChunk
  <2>4. \A b \in Nums : BytesOf(swarmer, b) = InitPos[b] .. End(b) - 1
    BY <2>2, BlockPlaces
  <2>5. ASSUME NEW b \in Nums PROVE BytesOf(swarmer, b) \subseteq 0 .. FileSize - 1
    <3>1. /\ InitPos[b] \in Nat /\ End(b) \in Nat /\ End(b) <= FileSize /\ FileSize \in Nat
      BY Positions
    <3> QED BY <2>4, <3>1
  <2> HIDE DEF todo
  <2> QED BY <2>1, <2>3, <2>5 DEF Bounded
<1>4. ASSUME disk' = disk, fails' = fails PROVE Bounded'
  BY <1>4 DEF Bounded
<1>5. ASSUME NEW u \in Uploaders,
             \/ \E o \in Offers[u] : Declare(u, o)
             \/ ClearUploaderIntervals(u) \/ ClearUploaderRanges(u) \/ UnregisterUploader(u)
      PROVE  Bounded'
  BY <1>4, <1>5 DEF Declare, ClearUploaderIntervals, ClearUploaderRanges, UnregisterUploader
<1>6. ASSUME NEW u \in Uploaders, FindBlocks(u) \/ FindBlocksLinear(u) PROVE Bounded'
  <2>1. disk' = disk /\ fails' = fails
    BY <1>6 DEF FindBlocks, FindBlocksLinear, Select
  <2> QED BY <1>4, <2>1
<1>7. ASSUME NEW u \in Uploaders, FindRange(u) \/ FindNoRange(u) PROVE Bounded'
  <2>1. disk' = disk /\ fails' = fails
    BY <1>7 DEF FindRange, FindNoRange
  <2> QED BY <1>4, <2>1
<1>8. ASSUME UNCHANGED vars PROVE Bounded'
  BY <1>4, <1>8 DEF vars
<1> QED BY <1>1, <1>2, <1>3, <1>5, <1>6, <1>7, <1>8, Zenon DEF Next

\* Every variable has its type, and the counters are in the bounds whose violation the code
\* logs: neither is negative, no block is selected by more uploaders than there are.
THEOREM TypesCorrect ==
  ASSUME SameSizes, WholeOffers
  PROVE  Spec => []TypeOK
<1>1. IInv /\ InStep /\ Bounded => TypeOK
  <2> SUFFICES ASSUME IInv, InStep, Bounded PROVE TypeOK
    OBVIOUS
  <2>1. /\ Shape(swarmer) /\ Owned(swarmer) /\ Linked(swarmer) /\ Enlisted(swarmer, up)
        /\ UpShape(up)
    BY DEF IInv, Sound
  <2>2. DOMAIN swarmer.blocks = Nums /\ \A b \in Nums : swarmer.blocks[b] \in BlockSet
    BY <2>1 DEF Shape
  <2>3. ASSUME NEW b \in Nums
        PROVE  /\ swarmer.blocks[b].kind \in Kinds
               /\ IF swarmer.blocks[b].kind = "Partial" THEN swarmer.blocks[b].obj \in ObjIds
                  ELSE swarmer.blocks[b].obj = 0
    BY <2>1, <2>2 DEF Owned, BlockSet
  <2>4. ASSUME NEW b \in Nums PROVE swarmer.nuploading[b] \in 0 .. Cardinality(Uploaders)
    <3> DEFINE S == Selectors(swarmer, up, b)
    <3>1. S \subseteq Uploaders
      BY DEF Selectors
    <3>2. swarmer.nuploading[b] = Cardinality(S)
      BY <2>1 DEF Enlisted
    <3> HIDE DEF S
    <3>3. /\ Cardinality(S) <= Cardinality(Uploaders) /\ Cardinality(S) \in Nat
          /\ Cardinality(Uploaders) \in Nat
      BY <3>1, UploadersAssumption, FS_Subset, FS_CardinalityType
    <3> QED BY <3>2, <3>3
  <2>5. ASSUME NEW o \in ObjIds
        PROVE  /\ swarmer.remaining[o] \in 0 .. FileSize
               /\ swarmer.unselected[o] \in 0 .. swarmer.remaining[o]
    <3>1. /\ swarmer.remaining[o] = Cardinality(Part(swarmer, o, RangeIds))
          /\ swarmer.unselected[o] = Cardinality(Part(swarmer, o, NotAsked(swarmer)))
      BY DEF InStep, Counts, Remains, Unasked, Tally
    <3>2. NotAsked(swarmer) \subseteq RangeIds
      BY DEF NotAsked
    <3>3. /\ Cardinality(Part(swarmer, o, RangeIds)) \in 0 .. FileSize
          /\ Cardinality(Part(swarmer, o, NotAsked(swarmer))) \in 0 .. FileSize
          /\ Cardinality(Part(swarmer, o, NotAsked(swarmer)))
               <= Cardinality(Part(swarmer, o, RangeIds))
      BY <2>1, <3>2, PartBounded
    <3>4. FileSize \in Nat
      BY Positions
    <3> QED BY <3>1, <3>3, <3>4
  <2>6. ASSUME NEW u \in Uploaders
        PROVE  Held(u) \subseteq RangeIds /\ ToSet(up[u].complete) \subseteq Nums
    <3>1. up[u].complete \in Seq(Nums) /\ ToSet(up[u].ranges) \subseteq RangeIds
      BY <2>1, UpFacts
    <3> QED BY <3>1, SeqFacts DEF Held
  <2> QED BY <2>2, <2>3, <2>4, <2>5, <2>6 DEF TypeOK, Bounded
<1>2. Init => Bounded
  BY BoundAssumption DEF Init, Bounded
<1>3. IInv /\ Bounded /\ [Next]_vars => Bounded'
  BY BoundedStep
<1>4. Spec => [](IInv /\ InStep)
  BY SettledInvariance
<1> QED BY <1>1, <1>2, <1>3, <1>4, PTL DEF Spec
=============================================================================
