-------------------------- MODULE HashQueue_proofs --------------------------
(***************************************************************************)
(* Proofs about HashQueue for any directories, files of any size, any      *)
(* blocks and any requests that ask for the parts of a BITPRINT after it:  *)
(* the safety properties hold in every reachable state.                    *)
(*                                                                         *)
(* A job captures the state of its client and is handled much later, so    *)
(* the invariant says what each job in the fifo has captured: the next     *)
(* piece of its file, and a tail of the queue without hashed files.        *)
(***************************************************************************)
EXTENDS HashQueue, SequenceTheorems, WellFoundedInduction, TLAPS

-----------------------------------------------------------------------------
(* Induction, sequences, and the operators that are recursive functions *)

\* A set of natural numbers that is not empty has a least element.
LEMMA LeastElement ==
  ASSUME NEW T, T \subseteq Nat, T # {}
  PROVE  \E m \in T : \A n \in T : m <= n
<1> DEFINE R == {ss \in Nat \X Nat : ss[1] < ss[2]}
<1>1. R = OpToRel(<, Nat)
  BY Zenon DEF OpToRel
<1>2. \E x \in T : \A y \in T : ~ (<<y, x>> \in R)
  <2>1. IsWellFoundedOn(R, Nat)
    BY <1>1, NatLessThanWellFounded, Zenon
  <2> HIDE DEF R
  <2> QED BY <2>1, WFMin, Zenon
<1>3. \A x, y \in T : y < x => <<y, x>> \in R
  OBVIOUS
<1> HIDE DEF R
<1>4. PICK x \in T : \A y \in T : ~ (<<y, x>> \in R)
  BY <1>2
<1>5. \A y \in T : ~ (y < x)
  BY <1>3, <1>4
<1>6. \A y \in T : y \in Nat /\ x \in Nat
  OBVIOUS
<1>7. \A y \in T : x <= y
  BY <1>5, <1>6
<1> QED BY <1>7

\* Induction on the natural numbers, for the set P of those a fact holds of.
LEMMA Induction ==
  ASSUME NEW P, 0 \in P, \A n \in Nat : n \in P => n + 1 \in P
  PROVE  Nat \subseteq P
<1> SUFFICES ASSUME Nat \ P # {} PROVE FALSE
  OBVIOUS
<1>1. PICK n \in Nat \ P : \A k \in Nat \ P : n <= k
  BY LeastElement
<1>2. n - 1 \in Nat /\ n - 1 \notin Nat \ P
  BY <1>1
<1> QED BY <1>1, <1>2

\* g is the recursive function in Without(s, S).
Kept(g, s, S, n) ==
  g = [i \in 0..n |-> IF i = 0 THEN <<>>
                      ELSE IF s[i] \in S THEN g[i - 1] ELSE Append(g[i - 1], s[i])]

\* The recursive function in Without exists.
LEMMA KeptExists ==
  ASSUME NEW s, NEW S, NEW m \in Nat
  PROVE  \E g : Kept(g, s, S, m)
<1> DEFINE P == {n \in Nat : \E g : Kept(g, s, S, n)}
<1>1. 0 \in P
  <2> DEFINE g == [i \in 0..0 |-> <<>>]
  <2>1. Kept(g, s, S, 0)
    BY DEF Kept
  <2> QED BY <2>1
<1>2. ASSUME NEW n \in Nat, n \in P PROVE n + 1 \in P
  <2>1. PICK g : Kept(g, s, S, n)
    BY <1>2
  <2> DEFINE h == [i \in 0..n + 1 |-> IF i <= n THEN g[i]
                     ELSE IF s[n + 1] \in S THEN g[n] ELSE Append(g[n], s[n + 1])]
             body(i) == IF i = 0 THEN <<>>
                        ELSE IF s[i] \in S THEN h[i - 1] ELSE Append(h[i - 1], s[i])
  <2>2. ASSUME NEW i \in 0..n + 1 PROVE h[i] = body(i)
    <3>1. CASE i = 0
      BY <3>1, <2>1 DEF Kept
    <3>2. CASE i \in 1..n
      <4>1. g[i] = IF s[i] \in S THEN g[i - 1] ELSE Append(g[i - 1], s[i])
        <5>1. i \in 0..n /\ i # 0
          BY <3>2
        <5> QED BY <5>1, <2>1, Zenon DEF Kept
      <4> QED BY <3>2, <4>1
    <3>3. CASE i = n + 1
      BY <3>3
    <3> QED BY <3>1, <3>2, <3>3
  <2>3. h = [i \in 0..n + 1 |-> body(i)]
    <3>1. h = [i \in 0..n + 1 |-> h[i]]
      OBVIOUS
    <3> HIDE DEF h
    <3> QED BY <2>2, <3>1
  <2> HIDE DEF h
  <2>4. Kept(h, s, S, n + 1)
    BY <2>3, Zenon DEF Kept
  <2> QED BY <2>4
<1> HIDE DEF P
<1>3. m \in P
  BY <1>1, <1>2, Induction
<1> QED BY <1>3 DEF P

\* Without is the last value of that function.
LEMMA WithoutKept ==
  ASSUME NEW s, NEW S, Len(s) \in Nat
  PROVE  \E g : Kept(g, s, S, Len(s)) /\ Without(s, S) = g[Len(s)]
<1> DEFINE g == CHOOSE h : Kept(h, s, S, Len(s))
<1>1. Kept(g, s, S, Len(s))
  BY KeptExists, Zenon
<1>2. Without(s, S) = g[Len(s)]
  BY Zenon DEF Without, Kept
<1> QED BY <1>1, <1>2

\* What ToSet and IsInjective say of the elements of a sequence.
LEMMA SeqFacts ==
  ASSUME NEW X, NEW s \in Seq(X)
  PROVE  /\ \A x : x \in ToSet(s) <=> \E i \in 1..Len(s) : x = s[i]
         /\ IsInjective(s) <=> \A i, j \in 1..Len(s) : s[i] = s[j] => i = j
         /\ ToSet(s) \subseteq X
<1>1. DOMAIN s = 1..Len(s)
  OBVIOUS
<1>2. \A i \in 1..Len(s) : s[i] \in X
  OBVIOUS
<1>3. \A x : x \in ToSet(s) <=> \E i \in 1..Len(s) : x = s[i]
  BY <1>1, Zenon DEF ToSet
<1>4. IsInjective(s) <=> \A i, j \in 1..Len(s) : s[i] = s[j] => i = j
  BY <1>1 DEF IsInjective
<1> QED BY <1>2, <1>3, <1>4

\* The empty sequence has no element and repeats none.
LEMMA EmptyFacts == ToSet(<<>>) = {} /\ IsInjective(<<>>)
  BY DEF ToSet, IsInjective

\* One element is added to the set of a sequence.
LEMMA AppendProps ==
  ASSUME NEW X, NEW s \in Seq(X), NEW x \in X
  PROVE  /\ Append(s, x) \in Seq(X)
         /\ ToSet(Append(s, x)) = ToSet(s) \union {x}
         /\ IsInjective(s) /\ x \notin ToSet(s) => IsInjective(Append(s, x))
<1> DEFINE t == Append(s, x)
<1>1. /\ t \in Seq(X)
      /\ Len(t) = Len(s) + 1
      /\ \A i \in 1..Len(s) : t[i] = s[i]
      /\ t[Len(s) + 1] = x
  OBVIOUS
<1> HIDE DEF t
<1>2. ASSUME NEW y \in ToSet(t) PROVE y \in ToSet(s) \union {x}
  <2>1. PICK i \in 1..Len(s) + 1 : y = t[i]
    BY <1>1, <1>2, SeqFacts
  <2> QED BY <2>1, <1>1, SeqFacts
<1>3. ASSUME NEW y \in ToSet(s) PROVE y \in ToSet(t)
  <2>1. PICK i \in 1..Len(s) : y = s[i]
    BY SeqFacts
  <2> QED BY <2>1, <1>1, SeqFacts
<1>4. x \in ToSet(t)
  BY <1>1, SeqFacts
<1>5. ASSUME IsInjective(s), x \notin ToSet(s) PROVE IsInjective(t)
  <2>1. \A i, j \in 1..Len(s) : s[i] = s[j] => i = j
    BY <1>5, SeqFacts
  <2>2. \A i \in 1..Len(s) : s[i] # x
    BY <1>5, SeqFacts
  <2>3. \A i, j \in 1..Len(s) + 1 : t[i] = t[j] => i = j
    BY <2>1, <2>2, <1>1
  <2> QED BY <2>3, <1>1, SeqFacts
<1> QED BY <1>1, <1>2, <1>3, <1>4, <1>5 DEF t

\* Without drops the elements of S and nothing else, and repeats none.
LEMMA WithoutProps ==
  ASSUME NEW X, NEW s \in Seq(X), NEW S
  PROVE  /\ Without(s, S) \in Seq(X)
         /\ ToSet(Without(s, S)) = ToSet(s) \ S
         /\ IsInjective(s) => IsInjective(Without(s, S))
<1>1. PICK g : Kept(g, s, S, Len(s)) /\ Without(s, S) = g[Len(s)]
  BY WithoutKept
<1> DEFINE Before(n) == {s[j] : j \in 1..n}
           P == {n \in Nat : n <= Len(s) =>
                   /\ g[n] \in Seq(X)
                   /\ ToSet(g[n]) = Before(n) \ S
                   /\ IsInjective(s) => IsInjective(g[n])}
<1>2. g[0] = <<>>
  BY <1>1 DEF Kept
<1>3. 0 \in P
  <2>1. <<>> \in Seq(X) /\ ToSet(<<>>) = {} /\ IsInjective(<<>>)
    BY EmptyFacts
  <2>2. Before(0) = {}
    OBVIOUS
  <2> QED BY <1>2, <2>1, <2>2
<1>4. ASSUME NEW n \in Nat, n \in P PROVE n + 1 \in P
  <2> SUFFICES ASSUME n + 1 <= Len(s)
               PROVE  /\ g[n + 1] \in Seq(X)
                      /\ ToSet(g[n + 1]) = Before(n + 1) \ S
                      /\ IsInjective(s) => IsInjective(g[n + 1])
    OBVIOUS
  <2>1. g[n + 1] = IF s[n + 1] \in S THEN g[n] ELSE Append(g[n], s[n + 1])
    <3>1. n + 1 \in 0..Len(s) /\ n + 1 # 0 /\ (n + 1) - 1 = n
      OBVIOUS
    <3>2. g[n + 1] = IF s[n + 1] \in S THEN g[(n + 1) - 1]
                     ELSE Append(g[(n + 1) - 1], s[n + 1])
      BY <3>1, <1>1, Zenon DEF Kept
    <3> QED BY <3>1, <3>2
  <2>2. /\ g[n] \in Seq(X)
        /\ ToSet(g[n]) = Before(n) \ S
        /\ IsInjective(s) => IsInjective(g[n])
    BY <1>4
  <2>3. Before(n + 1) = Before(n) \union {s[n + 1]}
    OBVIOUS
  <2>4. IsInjective(s) => s[n + 1] \notin Before(n)
    BY SeqFacts
  <2>5. s[n + 1] \in X
    OBVIOUS
  <2> HIDE DEF P, Before
  <2>6. CASE s[n + 1] \in S
    BY <2>1, <2>2, <2>3, <2>6
  <2>7. CASE s[n + 1] \notin S
    <3>1. g[n + 1] = Append(g[n], s[n + 1])
      BY <2>1, <2>7
    <3>2. /\ g[n + 1] \in Seq(X)
          /\ ToSet(g[n + 1]) = ToSet(g[n]) \union {s[n + 1]}
          /\ IsInjective(g[n]) /\ s[n + 1] \notin ToSet(g[n]) => IsInjective(g[n + 1])
      BY <3>1, <2>2, <2>5, AppendProps
    <3> QED BY <3>2, <2>2, <2>3, <2>4, <2>7
  <2> QED BY <2>6, <2>7
<1>5. Len(s) \in Nat /\ Before(Len(s)) = ToSet(s)
  BY SeqFacts
<1> HIDE DEF P
<1>6. Len(s) \in P
  BY <1>3, <1>4, <1>5, Induction
<1> QED BY <1>1, <1>5, <1>6 DEF P

\* A reversed sequence has the same elements, at the mirrored places.
LEMMA ReverseProps ==
  ASSUME NEW X, NEW s \in Seq(X)
  PROVE  /\ Reverse(s) \in Seq(X)
         /\ Len(Reverse(s)) = Len(s)
         /\ \A i \in 1..Len(s) : Reverse(s)[i] = s[Len(s) - i + 1]
         /\ ToSet(Reverse(s)) = ToSet(s)
         /\ IsInjective(s) => IsInjective(Reverse(s))
<1>1. Reverse(s) \in [1..Len(s) -> X]
  BY DEF Reverse
<1>2. Reverse(s) \in Seq(X) /\ Len(Reverse(s)) = Len(s)
  BY <1>1
<1>3. \A i \in 1..Len(s) : Reverse(s)[i] = s[Len(s) - i + 1]
  BY DEF Reverse
<1>4. ASSUME NEW x \in ToSet(Reverse(s)) PROVE x \in ToSet(s)
  <2>1. PICK i \in 1..Len(s) : x = Reverse(s)[i]
    BY <1>2, SeqFacts
  <2>2. Len(s) - i + 1 \in 1..Len(s) /\ x = s[Len(s) - i + 1]
    BY <2>1, <1>3
  <2> QED BY <2>2, SeqFacts
<1>5. ASSUME NEW x \in ToSet(s) PROVE x \in ToSet(Reverse(s))
  <2>1. PICK i \in 1..Len(s) : x = s[i]
    BY SeqFacts
  <2>2. Len(s) - i + 1 \in 1..Len(s) /\ x = Reverse(s)[Len(s) - i + 1]
    BY <2>1, <1>3
  <2> QED BY <2>2, <1>2, SeqFacts
<1>6. ASSUME IsInjective(s) PROVE IsInjective(Reverse(s))
  <2>1. \A i, j \in 1..Len(s) : s[i] = s[j] => i = j
    BY <1>6, SeqFacts
  <2>2. \A i, j \in 1..Len(s) : Reverse(s)[i] = Reverse(s)[j] => i = j
    BY <2>1, <1>3
  <2> QED BY <2>2, <1>2, SeqFacts
<1> QED BY <1>2, <1>3, <1>4, <1>5, <1>6

\* The elements of a concatenation, and where they are.
LEMMA ConcatProps ==
  ASSUME NEW X, NEW s \in Seq(X), NEW t \in Seq(X)
  PROVE  /\ s \o t \in Seq(X)
         /\ Len(s \o t) = Len(s) + Len(t)
         /\ DOMAIN (s \o t) = 1..Len(s) + Len(t)
         /\ \A i \in 1..Len(s) : (s \o t)[i] = s[i]
         /\ \A i \in 1..Len(t) : (s \o t)[Len(s) + i] = t[i]
         /\ ToSet(s \o t) = ToSet(s) \union ToSet(t)
         /\ IsInjective(s) /\ IsInjective(t) /\ ToSet(s) \intersect ToSet(t) = {}
              => IsInjective(s \o t)
<1>1. s \o t \in Seq(X) /\ Len(s \o t) = Len(s) + Len(t)
  OBVIOUS
<1>2. \A i \in 1..Len(s) + Len(t) :
        (s \o t)[i] = IF i <= Len(s) THEN s[i] ELSE t[i - Len(s)]
  OBVIOUS
<1>3. ASSUME NEW x \in ToSet(s \o t) PROVE x \in ToSet(s) \union ToSet(t)
  <2>1. PICK i \in 1..Len(s) + Len(t) : x = (s \o t)[i]
    BY <1>1, SeqFacts
  <2> QED BY <2>1, <1>2, SeqFacts
<1>4. ASSUME NEW x \in ToSet(s) PROVE x \in ToSet(s \o t)
  <2>1. PICK i \in 1..Len(s) : x = s[i]
    BY SeqFacts
  <2>2. i \in 1..Len(s) + Len(t) /\ x = (s \o t)[i]
    BY <2>1, <1>2
  <2> QED BY <2>2, <1>1, SeqFacts
<1>5. ASSUME NEW x \in ToSet(t) PROVE x \in ToSet(s \o t)
  <2>1. PICK i \in 1..Len(t) : x = t[i]
    BY SeqFacts
  <2>2. Len(s) + i \in 1..Len(s) + Len(t) /\ x = (s \o t)[Len(s) + i]
    BY <2>1, <1>2
  <2> QED BY <2>2, <1>1, SeqFacts
<1>6. ASSUME IsInjective(s), IsInjective(t), ToSet(s) \intersect ToSet(t) = {}
      PROVE  IsInjective(s \o t)
  <2>1. \A i \in 1..Len(s), j \in 1..Len(t) : s[i] # t[j]
    BY <1>6, SeqFacts
  <2>2. \A i, j \in 1..Len(s) : s[i] = s[j] => i = j
    BY <1>6, SeqFacts
  <2>3. \A i, j \in 1..Len(t) : t[i] = t[j] => i = j
    BY <1>6, SeqFacts
  <2>4. \A i, j \in 1..Len(s) + Len(t) : (s \o t)[i] = (s \o t)[j] => i = j
    BY <1>2, <2>1, <2>2, <2>3
  <2> QED BY <2>4, <1>1, SeqFacts
<1>7. DOMAIN (s \o t) = 1..Len(s) + Len(t)
  BY <1>1
<1>8. \A i \in 1..Len(s) : (s \o t)[i] = s[i]
  BY <1>2
<1>9. \A i \in 1..Len(t) : (s \o t)[Len(s) + i] = t[i]
  BY <1>2
<1> QED BY <1>1, <1>3, <1>4, <1>5, <1>6, <1>7, <1>8, <1>9

\* The head of a sequence and the rest of it.
LEMMA TailProps ==
  ASSUME NEW X, NEW s \in Seq(X), s # <<>>
  PROVE  /\ Head(s) \in X
         /\ Tail(s) \in Seq(X)
         /\ Len(Tail(s)) = Len(s) - 1
         /\ \A i \in 1..Len(s) - 1 : Tail(s)[i] = s[i + 1]
         /\ ToSet(s) = {Head(s)} \union ToSet(Tail(s))
         /\ IsInjective(s) => IsInjective(Tail(s)) /\ Head(s) \notin ToSet(Tail(s))
<1> DEFINE t == Tail(s)
           h == Head(s)
<1>1. /\ h = s[1] /\ h \in X
      /\ t \in Seq(X)
      /\ Len(t) = Len(s) - 1
      /\ \A i \in 1..Len(s) - 1 : t[i] = s[i + 1]
      /\ Len(s) \in Nat \ {0}
  OBVIOUS
<1> HIDE DEF t, h
<1>2. ASSUME NEW x \in ToSet(t) PROVE x \in ToSet(s)
  <2>1. PICK i \in 1..Len(t) : x = t[i]
    BY <1>1, SeqFacts
  <2>2. i + 1 \in 1..Len(s) /\ x = s[i + 1]
    BY <2>1, <1>1
  <2> QED BY <2>2, SeqFacts
<1>3. ASSUME NEW x \in ToSet(s) PROVE x \in {h} \union ToSet(t)
  <2>1. PICK i \in 1..Len(s) : x = s[i]
    BY SeqFacts
  <2>2. CASE i = 1
    BY <2>1, <2>2, <1>1
  <2>3. CASE i # 1
    <3>1. i - 1 \in 1..Len(t) /\ x = t[i - 1]
      BY <2>1, <2>3, <1>1
    <3> QED BY <3>1, <1>1, SeqFacts
  <2> QED BY <2>2, <2>3
<1>4. h \in ToSet(s)
  BY <1>1, SeqFacts
<1>5. ASSUME IsInjective(s) PROVE IsInjective(t) /\ h \notin ToSet(t)
  <2>1. \A i, j \in 1..Len(s) : s[i] = s[j] => i = j
    BY <1>5, SeqFacts
  <2>2. \A i, j \in 1..Len(t) : t[i] = t[j] => i = j
    BY <2>1, <1>1
  <2>3. \A i \in 1..Len(t) : t[i] # h
    BY <2>1, <1>1
  <2> QED BY <2>2, <2>3, <1>1, SeqFacts
<1> QED BY <1>1, <1>2, <1>3, <1>4, <1>5 DEF t, h

\* g is the recursive function in FlattenSeq(ss).
Flattened(g, ss, n) ==
  g = [i \in 1..n |-> IF i = 1 THEN ss[i] ELSE g[i - 1] \o ss[i]]

\* The recursive function in FlattenSeq exists.
LEMMA FlattenedExists ==
  ASSUME NEW ss, NEW m \in Nat
  PROVE  \E g : Flattened(g, ss, m)
<1> DEFINE P == {n \in Nat : \E g : Flattened(g, ss, n)}
<1>1. 0 \in P
  <2> DEFINE g == [i \in 1..0 |-> <<>>]
  <2>1. Flattened(g, ss, 0)
    BY DEF Flattened
  <2> QED BY <2>1
<1>2. ASSUME NEW n \in Nat, n \in P PROVE n + 1 \in P
  <2>1. PICK g : Flattened(g, ss, n)
    BY <1>2
  <2> DEFINE h == [i \in 1..n + 1 |-> IF i <= n THEN g[i]
                     ELSE IF i = 1 THEN ss[i] ELSE g[n] \o ss[n + 1]]
             body(i) == IF i = 1 THEN ss[i] ELSE h[i - 1] \o ss[i]
  <2>2. ASSUME NEW i \in 1..n + 1 PROVE h[i] = body(i)
    <3>1. CASE i \in 1..n
      <4>1. g[i] = IF i = 1 THEN ss[i] ELSE g[i - 1] \o ss[i]
        BY <3>1, <2>1, Zenon DEF Flattened
      <4>2. i # 1 => h[i - 1] = g[i - 1]
        BY <3>1
      <4>3. h[i] = g[i]
        BY <3>1
      <4> HIDE DEF h
      <4> QED BY <4>1, <4>2, <4>3
    <3>2. CASE i = n + 1 /\ i # 1
      <4>0. i - 1 = n /\ n <= n /\ n \in 1..n + 1 /\ ~ (n + 1 <= n)
        BY <3>2
      <4>1. h[n] = g[n] /\ h[i] = g[n] \o ss[n + 1]
        BY <3>2, <4>0, Zenon
      <4> HIDE DEF h
      <4> QED BY <4>0, <4>1, <3>2
    <3>3. CASE i = n + 1 /\ i = 1
      BY <3>3
    <3> QED BY <3>1, <3>2, <3>3
  <2>3. h = [i \in 1..n + 1 |-> body(i)]
    <3>1. h = [i \in 1..n + 1 |-> h[i]]
      OBVIOUS
    <3> HIDE DEF h
    <3> QED BY <2>2, <3>1
  <2> HIDE DEF h
  <2>4. Flattened(h, ss, n + 1)
    BY <2>3, Zenon DEF Flattened
  <2> QED BY <2>4
<1> HIDE DEF P
<1>3. m \in P
  BY <1>1, <1>2, Induction
<1> QED BY <1>3 DEF P

\* A flattened sequence of sequences has the elements of each of them.
LEMMA FlattenProps ==
  ASSUME NEW X, NEW ss \in Seq(Seq(X))
  PROVE  /\ FlattenSeq(ss) \in Seq(X)
         /\ \A i \in 1..Len(ss) : ToSet(ss[i]) \subseteq ToSet(FlattenSeq(ss))
<1>1. CASE Len(ss) = 0
  <2>1. FlattenSeq(ss) = ss
    BY <1>1, Zenon DEF FlattenSeq
  <2>2. ss = <<>> /\ <<>> \in Seq(X)
    BY <1>1
  <2>3. 1..Len(ss) = {}
    BY <1>1
  <2> QED BY <2>1, <2>2, <2>3
<1>2. CASE Len(ss) # 0
  <2> DEFINE g == CHOOSE h : Flattened(h, ss, Len(ss))
  <2>1. Flattened(g, ss, Len(ss))
    <3>1. Len(ss) \in Nat
      OBVIOUS
    <3> QED BY <3>1, FlattenedExists, Zenon
  <2>2. FlattenSeq(ss) = g[Len(ss)]
    BY <1>2, Zenon DEF FlattenSeq, Flattened
  <2> HIDE DEF g
  <2> DEFINE P == {n \in Nat : n \in 1..Len(ss) =>
                     /\ g[n] \in Seq(X)
                     /\ \A i \in 1..n : ToSet(ss[i]) \subseteq ToSet(g[n])}
  <2>3. 0 \in P
    OBVIOUS
  <2>4. ASSUME NEW n \in Nat, n \in P PROVE n + 1 \in P
    <3> SUFFICES ASSUME n + 1 \in 1..Len(ss)
                 PROVE  /\ g[n + 1] \in Seq(X)
                        /\ \A i \in 1..n + 1 : ToSet(ss[i]) \subseteq ToSet(g[n + 1])
      OBVIOUS
    <3>1. ss[n + 1] \in Seq(X)
      OBVIOUS
    <3>2. g[n + 1] = IF n + 1 = 1 THEN ss[n + 1] ELSE g[(n + 1) - 1] \o ss[n + 1]
      BY <2>1, Zenon DEF Flattened
    <3>3. CASE n = 0
      <4>1. g[n + 1] = ss[n + 1]
        BY <3>2, <3>3
      <4> QED BY <4>1, <3>1, <3>3
    <3>4. CASE n # 0
      <4>1. /\ g[n] \in Seq(X)
            /\ \A i \in 1..n : ToSet(ss[i]) \subseteq ToSet(g[n])
        BY <3>4, <2>4
      <4>2. g[n + 1] = g[n] \o ss[n + 1]
        <5>1. n + 1 # 1 /\ (n + 1) - 1 = n
          BY <3>4
        <5> QED BY <5>1, <3>2, Zenon
      <4>3. /\ g[n] \o ss[n + 1] \in Seq(X)
            /\ ToSet(g[n] \o ss[n + 1]) = ToSet(g[n]) \union ToSet(ss[n + 1])
        BY <4>1, <3>1, ConcatProps
      <4>4. \A i \in 1..n + 1 : i \in 1..n \/ i = n + 1
        OBVIOUS
      <4> HIDE DEF P
      <4> QED BY <4>1, <4>2, <4>3, <4>4, Zenon
    <3> QED BY <3>3, <3>4
  <2>5. Len(ss) \in Nat /\ Len(ss) \in 1..Len(ss)
    BY <1>2
  <2> HIDE DEF P
  <2>6. Len(ss) \in P
    BY <2>3, <2>4, <2>5, Induction
  <2> QED BY <2>2, <2>5, <2>6 DEF P
<1> QED BY <1>1, <1>2

-----------------------------------------------------------------------------
(* The invariant, pieces and jobs *)

\* The jobs of a client in q.
JobsBy(q, client) == {q[i] : i \in {k \in DOMAIN q : q[k].by = client}}

\* No client has two jobs in q.
OneEach(q) == \A i, j \in DOMAIN q : q[i].by = q[j].by => i = j

\* pieces is what a file that is cut in blocks has after Len(pieces) of them.
CutAt(f, pieces, block) ==
  EndPos(pieces) = IF Len(pieces) * block < Size[f] THEN Len(pieces) * block ELSE Size[f]

\* job computes the next piece of the request that is served.
UploadsJob(d, job) ==
  /\ d.current_job = job.file
  /\ job.id # "BITPRINT"
  /\ Contiguous(job.file, job.hashes)
  /\ job.piece = Piece(job.file, EndPos(job.hashes), UidBlock(job.file, job.id))

\* A recorded identifier was computed from the whole file.
CompleteUids(d) ==
  \A f \in Files : \A id \in Ids : d.uids[f][id] # None =>
    /\ Contiguous(f, d.uids[f][id])
    /\ EndPos(d.uids[f][id]) = Size[f]

\* NoAskForgotten, of the daemon d.
Asked(d) ==
  \A f \in Files :
    /\ d.asked[f] = d.answered[f] + Len(d.wanted[f]) + (IF d.current_job = f THEN 1 ELSE 0)
    /\ d.wanted[f] # <<>> => f \in ToSet(d.waiting)

\* A BITPRINT that is wanted finds its parts when it is served.
MadeReady(d, jobs) ==
  \A f \in Files : \A i \in DOMAIN d.wanted[f] :
    d.wanted[f][i] = "BITPRINT" => \A id \in {"TIGER", "SHA1"} :
      \/ d.uids[f][id] # None
      \/ \E j \in DOMAIN d.wanted[f] : j < i /\ d.wanted[f][j] = id
      \/ \E job \in jobs : job.file = f /\ job.id = id

\* The invariant of commonUploads, whose jobs are jobs, when g has vanished.
UploadsInv(d, jobs, g) ==
  /\ CompleteUids(d)
  /\ Asked(d)
  /\ \A job \in jobs : UploadsJob(d, job)
  /\ g = {} => /\ d.current_job # None => jobs # {}
               /\ MadeReady(d, jobs)

\* rest may become the queue when f is hashed.
RestOK(net, f, rest) ==
  /\ IsInjective(rest)
  /\ ToSet(rest) \intersect (net.hashed \union {f}) = {}

\* The files of a network are queued once until they are hashed, and the pieces
\* of each are those before the next block.
NetOK(net, block) ==
  /\ IsInjective(net.queue)
  /\ ToSet(net.queue) \intersect net.hashed = {}
  /\ \A f \in Files : /\ Contiguous(f, net.list[f])
                      /\ CutAt(f, net.list[f], block)
                      /\ f \in net.hashed => EndPos(net.list[f]) = Size[f]

\* job computes the next piece of its file.
NetJob(net, block, job) ==
  /\ net.computing
  /\ job.file \notin net.hashed
  /\ RestOK(net, job.file, job.rest)
  /\ job.piece = Piece(job.file, EndPos(net.list[job.file]), block)

\* The invariant of donkey.
DonkeyInv(net, jobs, g) ==
  /\ NetOK(net, Md4Block)
  /\ \A job \in jobs : /\ NetJob(net, Md4Block, job)
                       /\ job.file \in ToSet(net.queue)
  /\ g = {} => (net.computing => jobs # {})

\* The invariant of dc.
DcInv(net, jobs, g) ==
  /\ NetOK(net, TigerBlock)
  /\ ToSet(net.queue) \union net.hashed \subseteq net.known
  /\ \A job \in jobs : /\ NetJob(net, TigerBlock, job)
                       /\ ToSet(job.rest) \union {job.file} \subseteq net.known
  /\ g = {} => (net.computing => jobs # {})

\* The clients' invariants, and one job for each.
Inv(d, g) ==
  /\ OneEach(Queued(d))
  /\ UploadsInv(d, JobsBy(Queued(d), "uploads"), g)
  /\ DonkeyInv(d.donkey, JobsBy(Queued(d), "donkey"), g)
  /\ DcInv(d.dc, JobsBy(Queued(d), "dc"), g)

\* The inductive invariant: NetJob and RestOK, of the jobs in the fifo, are what
\* the handlers need, and are said by no property.
IInv == TypeOK /\ Inv(daemon, gone)

\* A piece begins where it must and ends with its block or with the file.
LEMMA PieceProps ==
  ASSUME NEW f \in Files, NEW begin \in Nat, begin <= Size[f], NEW block \in Nat \ {0}
  PROVE  /\ Piece(f, begin, block) \in Pieces
         /\ Piece(f, begin, block).begin = begin
         /\ begin + Piece(f, begin, block).len =
              IF begin + block < Size[f] THEN begin + block ELSE Size[f]
<1>1. Size[f] \in Nat \ {0}
  BY SizeAssumption
<1> QED BY <1>1 DEF Piece, Pieces

\* Where a sequence of pieces ends, and where it ends with one piece more.
LEMMA EndPosProps ==
  ASSUME NEW ps \in Seq(Pieces)
  PROVE  /\ EndPos(ps) \in Nat
         /\ ps = <<>> => EndPos(ps) = 0
         /\ \A p \in Pieces : EndPos(Append(ps, p)) = p.begin + p.len
<1>1. ASSUME ps # <<>> PROVE EndPos(ps) \in Nat
  <2>1. Last(ps) \in Pieces
    BY <1>1 DEF Last
  <2> QED BY <2>1, <1>1 DEF EndPos, Pieces
<1>2. ps = <<>> => EndPos(ps) = 0
  BY DEF EndPos
<1>3. ASSUME NEW p \in Pieces PROVE EndPos(Append(ps, p)) = p.begin + p.len
  <2>1. Append(ps, p) # <<>> /\ Last(Append(ps, p)) = p
    BY DEF Last
  <2> QED BY <2>1 DEF EndPos
<1> QED BY <1>1, <1>2, <1>3

\* Pieces that follow each other do not end behind the file.
LEMMA ContiguousProps ==
  ASSUME NEW f \in Files, NEW ps \in Seq(Pieces), Contiguous(f, ps)
  PROVE  EndPos(ps) <= Size[f]
<1>1. CASE ps = <<>>
  <2>1. Size[f] \in Nat
    BY SizeAssumption
  <2>2. EndPos(ps) = 0
    BY <1>1, EndPosProps
  <2> QED BY <2>1, <2>2
<1>2. CASE ps # <<>>
  <2>1. 1 \in 1..Len(ps)
    BY <1>2
  <2> QED BY <2>1 DEF Contiguous
<1> QED BY <1>1, <1>2

\* A piece that begins at their end keeps them contiguous.
LEMMA ContiguousAppend ==
  ASSUME NEW f \in Files, NEW ps \in Seq(Pieces), Contiguous(f, ps),
         NEW p \in Pieces, p.begin = EndPos(ps), p.begin + p.len <= Size[f]
  PROVE  Contiguous(f, Append(ps, p))
<1> DEFINE t == Append(ps, p)
<1>1. /\ t \in Seq(Pieces)
      /\ Len(t) = Len(ps) + 1
      /\ \A i \in 1..Len(ps) : t[i] = ps[i]
      /\ t[Len(ps) + 1] = p
  OBVIOUS
<1>2. EndPos(t) <= Size[f]
  BY EndPosProps
<1>3. ASSUME NEW i \in 1..Len(ps) + 1 PROVE SubSeq(t, 1, i - 1) = SubSeq(ps, 1, i - 1)
  OBVIOUS
<1>4. SubSeq(ps, 1, Len(ps)) = ps
  OBVIOUS
<1> HIDE DEF t
<1>5. ASSUME NEW i \in 1..Len(t) PROVE t[i].begin = EndPos(SubSeq(t, 1, i - 1))
  <2>1. CASE i \in 1..Len(ps)
    BY <2>1, <1>1, <1>3 DEF Contiguous
  <2>2. CASE i = Len(ps) + 1
    <3>1. i - 1 = Len(ps) /\ t[i] = p
      BY <2>2, <1>1
    <3>2. SubSeq(t, 1, i - 1) = ps
      BY <3>1, <2>2, <1>1, <1>3, <1>4
    <3> QED BY <3>1, <3>2
  <2> QED BY <2>1, <2>2, <1>1
<1>6. Contiguous(f, t)
  BY <1>2, <1>5 DEF Contiguous
<1> QED BY <1>6 DEF t

\* No pieces are contiguous.
LEMMA ContiguousEmpty == \A f \in Files : Contiguous(f, <<>>)
  BY DEF Contiguous

\* No pieces are what a file has before its first block.
LEMMA CutEmpty ==
  ASSUME NEW f \in Files, NEW block \in Nat \ {0} PROVE CutAt(f, <<>>, block)
<1>1. EndPos(<<>>) = 0 /\ Len(<<>>) = 0 /\ 0 * block = 0 /\ Size[f] \in Nat \ {0}
  BY SizeAssumption DEF EndPos
<1> QED BY <1>1 DEF CutAt

\* The next block of a file, behind the blocks before it.
LEMMA CutAppend ==
  ASSUME NEW f \in Files, NEW ps \in Seq(Pieces), NEW block \in Nat \ {0},
         Contiguous(f, ps), CutAt(f, ps, block),
         NEW p, p = Piece(f, EndPos(ps), block)
  PROVE  /\ p \in Pieces
         /\ Append(ps, p) \in Seq(Pieces)
         /\ Contiguous(f, Append(ps, p))
         /\ CutAt(f, Append(ps, p), block)
<1>1. Size[f] \in Nat \ {0} /\ EndPos(ps) \in Nat /\ EndPos(ps) <= Size[f]
  BY SizeAssumption, EndPosProps, ContiguousProps
<1>2. /\ p \in Pieces
      /\ p.begin = EndPos(ps)
      /\ EndPos(ps) + p.len =
           IF EndPos(ps) + block < Size[f] THEN EndPos(ps) + block ELSE Size[f]
  BY <1>1, PieceProps
<1>3. p.len \in Nat
  BY <1>2 DEF Pieces
<1>4. Append(ps, p) \in Seq(Pieces) /\ Len(Append(ps, p)) = Len(ps) + 1
  BY <1>2
<1>5. Contiguous(f, Append(ps, p))
  BY <1>1, <1>2, <1>3, ContiguousAppend
<1>6. EndPos(Append(ps, p)) = EndPos(ps) + p.len
  BY <1>2, EndPosProps
<1> DEFINE n == Len(ps)
<1>7. (n + 1) * block = n * block + block /\ n * block \in Nat
  <2>1. n \in Nat
    OBVIOUS
  <2> QED BY <2>1
<1>8. EndPos(ps) = IF n * block < Size[f] THEN n * block ELSE Size[f]
  BY DEF CutAt
<1>9. CutAt(f, Append(ps, p), block)
  <2> DEFINE a == n * block
  <2>1. a \in Nat /\ (n + 1) * block = a + block
    BY <1>7
  <2>2. EndPos(ps) = IF a < Size[f] THEN a ELSE Size[f]
    BY <1>8
  <2> HIDE DEF a
  <2>3. EndPos(Append(ps, p)) = IF a + block < Size[f] THEN a + block ELSE Size[f]
    BY <2>1, <2>2, <1>1, <1>2, <1>3, <1>6
  <2> QED BY <2>1, <2>3, <1>4 DEF CutAt
<1> QED BY <1>2, <1>4, <1>5, <1>9

\* get_nchunks blocks are the whole file.
LEMMA CutEnd ==
  ASSUME NEW f \in Files, NEW ps \in Seq(Pieces), NEW block \in Nat \ {0},
         CutAt(f, ps, block), Len(ps) = get_nchunks(f, block)
  PROVE  EndPos(ps) = Size[f]
<1>1. Size[f] \in Nat
  BY SizeAssumption
<1>2. (Size[f] \div block + 1) * block >= Size[f]
  BY <1>1
<1> QED BY <1>1, <1>2 DEF CutAt, get_nchunks

\* A job at the end of the fifo is one more job of its client.
LEMMA JobsByAppend ==
  ASSUME NEW q \in Seq(Jobs), NEW job \in Jobs
  PROVE  /\ Append(q, job) \in Seq(Jobs)
         /\ \A c : JobsBy(Append(q, job), c)
                     = JobsBy(q, c) \union (IF job.by = c THEN {job} ELSE {})
         /\ OneEach(q) /\ JobsBy(q, job.by) = {} => OneEach(Append(q, job))
<1> DEFINE t == Append(q, job)
<1>1. /\ t \in Seq(Jobs)
      /\ Len(t) = Len(q) + 1
      /\ \A i \in 1..Len(q) : t[i] = q[i]
      /\ t[Len(q) + 1] = job
      /\ Len(q) \in Nat
      /\ DOMAIN t = 1..Len(q) + 1
      /\ DOMAIN q = 1..Len(q)
  OBVIOUS
<1> HIDE DEF t
<1>2. ASSUME NEW c
      PROVE  JobsBy(t, c) = JobsBy(q, c) \union (IF job.by = c THEN {job} ELSE {})
  <2>1. \A x : x \in JobsBy(t, c) <=> \E i \in 1..Len(q) + 1 : t[i].by = c /\ x = t[i]
    BY <1>1 DEF JobsBy
  <2>2. \A x : x \in JobsBy(q, c) <=> \E i \in 1..Len(q) : q[i].by = c /\ x = q[i]
    BY <1>1 DEF JobsBy
  <2>3. \A i \in 1..Len(q) + 1 : i \in 1..Len(q) \/ i = Len(q) + 1
    BY <1>1
  <2>4. ASSUME NEW x \in JobsBy(t, c)
        PROVE  x \in JobsBy(q, c) \union (IF job.by = c THEN {job} ELSE {})
    BY <2>1, <2>2, <2>3, <2>4, <1>1
  <2>5. ASSUME NEW x \in JobsBy(q, c) PROVE x \in JobsBy(t, c)
    BY <2>1, <2>2, <2>5, <1>1
  <2>6. job.by = c => job \in JobsBy(t, c)
    BY <2>1, <1>1
  <2> QED BY <2>4, <2>5, <2>6
<1>3. ASSUME OneEach(q), JobsBy(q, job.by) = {} PROVE OneEach(t)
  <2>1. \A i \in 1..Len(q) : q[i].by # job.by
    BY <1>1, <1>3 DEF JobsBy
  <2>2. \A i, j \in 1..Len(q) : q[i].by = q[j].by => i = j
    BY <1>1, <1>3 DEF OneEach
  <2>3. \A i, j \in 1..Len(q) + 1 : t[i].by = t[j].by => i = j
    BY <1>1, <2>1, <2>2
  <2> QED BY <2>3, <1>1 DEF OneEach
<1> QED BY <1>1, <1>2, <1>3 DEF t

\* A job before the others is one more job of its client.
LEMMA JobsByFirst ==
  ASSUME NEW q \in Seq(Jobs), NEW job \in Jobs
  PROVE  /\ <<job>> \o q \in Seq(Jobs)
         /\ \A c : JobsBy(<<job>> \o q, c)
                     = JobsBy(q, c) \union (IF job.by = c THEN {job} ELSE {})
         /\ OneEach(<<job>> \o q) => OneEach(q) /\ JobsBy(q, job.by) = {}
<1> DEFINE t == <<job>> \o q
<1>1. /\ t \in Seq(Jobs)
      /\ Len(t) = Len(q) + 1
      /\ \A i \in 1..Len(q) : t[i + 1] = q[i]
      /\ t[1] = job
      /\ Len(q) \in Nat
      /\ DOMAIN t = 1..Len(q) + 1
      /\ DOMAIN q = 1..Len(q)
  OBVIOUS
<1> HIDE DEF t
<1>2. ASSUME NEW c
      PROVE  JobsBy(t, c) = JobsBy(q, c) \union (IF job.by = c THEN {job} ELSE {})
  <2>1. \A x : x \in JobsBy(t, c) <=> \E i \in 1..Len(q) + 1 : t[i].by = c /\ x = t[i]
    BY <1>1 DEF JobsBy
  <2>2. \A x : x \in JobsBy(q, c) <=> \E i \in 1..Len(q) : q[i].by = c /\ x = q[i]
    BY <1>1 DEF JobsBy
  <2>3. ASSUME NEW x \in JobsBy(t, c)
        PROVE  x \in JobsBy(q, c) \union (IF job.by = c THEN {job} ELSE {})
    <3>1. PICK i \in 1..Len(q) + 1 : t[i].by = c /\ x = t[i]
      BY <2>1, <2>3
    <3>2. CASE i = 1
      BY <3>1, <3>2, <1>1
    <3>3. CASE i # 1
      <4>1. i - 1 \in 1..Len(q) /\ (i - 1) + 1 = i
        BY <3>1, <3>3, <1>1
      <4>2. q[i - 1] = t[i]
        BY <4>1, <1>1
      <4> QED BY <3>1, <4>1, <4>2, <2>2
    <3> QED BY <3>2, <3>3
  <2>4. ASSUME NEW x \in JobsBy(q, c) PROVE x \in JobsBy(t, c)
    <3>1. PICK i \in 1..Len(q) : q[i].by = c /\ x = q[i]
      BY <2>2, <2>4
    <3>2. i + 1 \in 1..Len(q) + 1 /\ t[i + 1] = q[i]
      BY <3>1, <1>1
    <3> QED BY <3>1, <3>2, <2>1
  <2>5. job.by = c => job \in JobsBy(t, c)
    BY <2>1, <1>1
  <2> QED BY <2>3, <2>4, <2>5
<1>3. ASSUME OneEach(t) PROVE OneEach(q) /\ JobsBy(q, job.by) = {}
  <2>1. \A i, j \in 1..Len(q) + 1 : t[i].by = t[j].by => i = j
    BY <1>1, <1>3 DEF OneEach
  <2>2. \A i, j \in 1..Len(q) : q[i].by = q[j].by => i = j
    BY <1>1, <2>1
  <2>3. \A i \in 1..Len(q) : q[i].by # job.by
    <3> TAKE i \in 1..Len(q)
    <3>1. i + 1 \in 1..Len(q) + 1 /\ 1 \in 1..Len(q) + 1 /\ i + 1 # 1
      BY <1>1
    <3> QED BY <3>1, <1>1, <2>1
  <2> QED BY <2>2, <2>3, <1>1 DEF OneEach, JobsBy
<1> QED BY <1>1, <1>2, <1>3 DEF t

\* The jobs of the daemon are those of the fifo, behind the running one.
LEMMA QueueFacts ==
  ASSUME NEW d \in Daemons
  PROVE  /\ Queued(d) \in Seq(Jobs)
         /\ d.current = None => Queued(d) = d.fifo
         /\ d.current # None => d.current \in Jobs /\ Queued(d) = <<d.current>> \o d.fifo
<1>1. d.fifo \in Seq(Jobs) /\ d.current \in Jobs \union {None}
  BY DEF Daemons
<1>2. CASE d.current = None
  <2>1. Queued(d) = <<>> \o d.fifo
    BY <1>2 DEF Queued
  <2>2. <<>> \o d.fifo = d.fifo
    BY <1>1
  <2> QED BY <2>1, <2>2, <1>1, <1>2
<1>3. CASE d.current # None
  <2>1. d.current \in Jobs /\ Queued(d) = <<d.current>> \o d.fifo
    BY <1>1, <1>3 DEF Queued
  <2> QED BY <2>1, <1>1, <1>3, JobsByFirst
<1> QED BY <1>2, <1>3

-----------------------------------------------------------------------------
(* What the clients see of each other *)

\* What no client but c sees of a step from d to e.
OthersKeep(c, d, e) ==
  /\ e.current = d.current
  /\ \A c2 \in Clients \ {c} : JobsBy(Queued(e), c2) = JobsBy(Queued(d), c2)

\* The fields of commonUploads are the same in d and e.
KeepUploads(d, e) ==
  /\ e.wanted = d.wanted
  /\ e.waiting = d.waiting
  /\ e.current_job = d.current_job
  /\ e.uids = d.uids
  /\ e.asked = d.asked
  /\ e.answered = d.answered

\* The daemon with another fifo.
LEMMA SetFifo ==
  ASSUME NEW d \in Daemons, NEW q \in Seq(Jobs)
  PROVE  /\ [d EXCEPT !.fifo = q] \in Daemons
         /\ [d EXCEPT !.fifo = q].fifo = q
  BY DEF Daemons

\* The daemon after an answer.
LEMMA SetAnswer ==
  ASSUME NEW d \in Daemons, NEW a \in [Files -> Nat]
  PROVE  /\ [d EXCEPT !.answered = a, !.current_job = None] \in Daemons
         /\ [d EXCEPT !.answered = a, !.current_job = None].answered = a
         /\ [d EXCEPT !.answered = a, !.current_job = None].current_job = None
  BY DEF Daemons

\* A client without a job queues one: nothing else changes.
LEMMA ComputeProps ==
  ASSUME NEW d \in Daemons, OneEach(Queued(d)), NEW job \in Jobs,
         JobsBy(Queued(d), job.by) = {}
  PROVE  LET e == Compute(d, job)
         IN  /\ e \in Daemons
             /\ OneEach(Queued(e))
             /\ JobsBy(Queued(e), job.by) = {job}
             /\ OthersKeep(job.by, d, e)
             /\ KeepUploads(d, e)
             /\ e.donkey = d.donkey
             /\ e.dc = d.dc
<1> DEFINE e == Compute(d, job)
<1>1. d.fifo \in Seq(Jobs)
  BY DEF Daemons
<1>2. /\ e \in Daemons
      /\ e.fifo = Append(d.fifo, job)
      /\ e.current = d.current
      /\ KeepUploads(d, e)
      /\ e.donkey = d.donkey
      /\ e.dc = d.dc
  <2>1. Append(d.fifo, job) \in Seq(Jobs)
    BY <1>1
  <2>2. e = [d EXCEPT !.fifo = Append(d.fifo, job)]
    BY Zenon DEF Compute
  <2>3. e \in Daemons /\ e.fifo = Append(d.fifo, job)
    BY <2>1, <2>2, SetFifo
  <2> HIDE DEF e
  <2>4. /\ e.current = d.current
        /\ KeepUploads(d, e)
        /\ e.donkey = d.donkey
        /\ e.dc = d.dc
    BY <2>2 DEF KeepUploads
  <2> QED BY <2>3, <2>4
<1> HIDE DEF e
<1>3. Queued(e) = Append(Queued(d), job)
  <2>1. CASE d.current = None
    BY <2>1, <1>2, QueueFacts
  <2>2. CASE d.current # None
    <3>1. Queued(e) = <<d.current>> \o Append(d.fifo, job)
      BY <2>2, <1>2, QueueFacts
    <3>2. Queued(d) = <<d.current>> \o d.fifo /\ d.current \in Jobs
      BY <2>2, QueueFacts
    <3>3. <<d.current>> \o Append(d.fifo, job) = Append(<<d.current>> \o d.fifo, job)
      BY <1>1, <3>2
    <3> QED BY <3>1, <3>2, <3>3
  <2> QED BY <2>1, <2>2
<1>4. Queued(d) \in Seq(Jobs)
  BY QueueFacts
<1>5. /\ OneEach(Queued(e))
      /\ \A c : JobsBy(Queued(e), c)
                  = JobsBy(Queued(d), c) \union (IF job.by = c THEN {job} ELSE {})
  BY <1>3, <1>4, JobsByAppend
<1>6. JobsBy(Queued(e), job.by) = {job}
  BY <1>5
<1>7. OthersKeep(job.by, d, e)
  BY <1>2, <1>5 DEF OthersKeep
<1> QED BY <1>2, <1>5, <1>6, <1>7 DEF e

-----------------------------------------------------------------------------
(* commonUploads *)

\* Only the identifier id of f may be missing for a BITPRINT that is next.
ReadyBut(d, f, id) ==
  \A f2 \in Files : \A i \in DOMAIN d.wanted[f2] :
    d.wanted[f2][i] = "BITPRINT" => \A id2 \in {"TIGER", "SHA1"} :
      \/ d.uids[f2][id2] # None
      \/ \E j \in DOMAIN d.wanted[f2] : j < i /\ d.wanted[f2][j] = id2
      \/ f2 = f /\ id2 = id

\* The request for id, of f, is being served and no job is queued for it.
Serving(d, f, id) ==
  /\ d \in Daemons
  /\ OneEach(Queued(d))
  /\ JobsBy(Queued(d), "uploads") = {}
  /\ f \in Files
  /\ id \in Ids
  /\ d.current_job = f
  /\ CompleteUids(d)
  /\ Asked(d)
  /\ gone = {} => ReadyBut(d, f, id)

\* A step of commonUploads from d to e.
UploadsStep(d, e) ==
  /\ e \in Daemons
  /\ OneEach(Queued(e))
  /\ UploadsInv(e, JobsBy(Queued(e), "uploads"), gone)
  /\ OthersKeep("uploads", d, e)
  /\ e.donkey = d.donkey
  /\ e.dc = d.dc

\* An answer to the request that is served.
LEMMA AnswerStep ==
  ASSUME NEW d, NEW f, NEW id, Serving(d, f, id), d.uids[f][id] # None
  PROVE  UploadsStep(d, Answer(d, f))
<1> DEFINE e == Answer(d, f)
<1>1. /\ f \in Files
      /\ d.answered \in [Files -> Nat]
      /\ d.asked \in [Files -> Nat]
      /\ d.current_job = f
      /\ None \notin Files
  BY NoneAssumption DEF Serving, Daemons
<1>2. /\ e \in Daemons
      /\ e.current_job = None
      /\ e.answered = [d.answered EXCEPT ![f] = @ + 1]
      /\ e.current = d.current
      /\ e.fifo = d.fifo
      /\ e.wanted = d.wanted
      /\ e.waiting = d.waiting
      /\ e.uids = d.uids
      /\ e.asked = d.asked
      /\ e.donkey = d.donkey
      /\ e.dc = d.dc
  <2> DEFINE a == [d.answered EXCEPT ![f] = @ + 1]
  <2>1. e = [d EXCEPT !.answered = a, !.current_job = None]
    BY Zenon DEF Answer
  <2>2. a \in [Files -> Nat] /\ d \in Daemons
    BY <1>1 DEF Serving
  <2> HIDE DEF e, a
  <2>3. e \in Daemons /\ e.answered = a /\ e.current_job = None
    BY <2>1, <2>2, SetAnswer
  <2>4. /\ e.current = d.current
        /\ e.fifo = d.fifo
        /\ e.wanted = d.wanted
        /\ e.waiting = d.waiting
        /\ e.uids = d.uids
        /\ e.asked = d.asked
        /\ e.donkey = d.donkey
        /\ e.dc = d.dc
    BY <2>1
  <2> QED BY <2>3, <2>4 DEF a
<1> HIDE DEF e
<1>3. Queued(e) = Queued(d)
  BY <1>2 DEF Queued
<1>4. Asked(e)
  <2> SUFFICES ASSUME NEW g \in Files
               PROVE  /\ e.asked[g] = e.answered[g] + Len(e.wanted[g])
                                       + (IF e.current_job = g THEN 1 ELSE 0)
                      /\ e.wanted[g] # <<>> => g \in ToSet(e.waiting)
    BY DEF Asked
  <2>1. /\ d.asked[g] = d.answered[g] + Len(d.wanted[g])
                         + (IF d.current_job = g THEN 1 ELSE 0)
        /\ d.wanted[g] # <<>> => g \in ToSet(d.waiting)
    BY DEF Serving, Asked
  <2>2. Len(d.wanted[g]) \in Nat
    BY DEF Serving, Daemons
  <2>3. e.current_job # g
    BY <1>1, <1>2
  <2>4. CASE g = f
    <3>1. e.answered[f] = d.answered[f] + 1 /\ d.answered[f] \in Nat
      BY <1>1, <1>2
    <3>2. d.asked[f] = d.answered[f] + Len(d.wanted[f]) + 1
      BY <2>1, <2>4, <1>1
    <3> QED BY <2>1, <2>2, <2>3, <2>4, <3>1, <3>2, <1>2
  <2>5. CASE g # f
    BY <2>1, <2>2, <2>3, <2>5, <1>1, <1>2
  <2> QED BY <2>4, <2>5
<1>5. CompleteUids(e)
  BY <1>2 DEF CompleteUids, Serving
<1>6. gone = {} => MadeReady(e, {})
  <2>1. gone = {} => ReadyBut(d, f, id)
    BY DEF Serving
  <2> QED BY <2>1, <1>2 DEF ReadyBut, MadeReady
<1>7. JobsBy(Queued(e), "uploads") = {}
  BY <1>3 DEF Serving
<1>8. UploadsInv(e, {}, gone)
  BY <1>2, <1>4, <1>5, <1>6 DEF UploadsInv
<1> QED BY <1>2, <1>3, <1>7, <1>8 DEF UploadsStep, OthersKeep, Serving, e

\* The identifier is recorded and the request answered.
LEMMA AddUidStep ==
  ASSUME NEW d, NEW f, NEW id, Serving(d, f, id), NEW pieces \in Seq(Pieces),
         Contiguous(f, pieces), EndPos(pieces) = Size[f]
  PROVE  UploadsStep(d, AddUid(d, f, id, pieces))
<1> DEFINE c == [d EXCEPT !.uids[f][id] = pieces]
<1>1. f \in Files /\ id \in Ids /\ d \in Daemons /\ pieces # None
  BY NoneAssumption DEF Serving
<1>2. d.uids \in [Files -> [Ids -> Seq(Pieces) \union {None}]]
  BY <1>1 DEF Daemons
<1>3. /\ c \in Daemons
      /\ c.uids = [d.uids EXCEPT ![f][id] = pieces]
      /\ c.current = d.current
      /\ c.fifo = d.fifo
      /\ c.wanted = d.wanted
      /\ c.waiting = d.waiting
      /\ c.current_job = d.current_job
      /\ c.asked = d.asked
      /\ c.answered = d.answered
      /\ c.donkey = d.donkey
      /\ c.dc = d.dc
  BY <1>1, <1>2 DEF Daemons
<1> HIDE DEF c
<1>4. Queued(c) = Queued(d)
  BY <1>3 DEF Queued
<1>5. \A g \in Files : \A i \in Ids :
        c.uids[g][i] = IF g = f /\ i = id THEN pieces ELSE d.uids[g][i]
  BY <1>1, <1>2, <1>3
<1>6. CompleteUids(c)
  BY <1>5 DEF CompleteUids, Serving
<1>7. Asked(c)
  BY <1>3 DEF Asked, Serving
<1>8. gone = {} => ReadyBut(c, f, id)
  <2>1. {"TIGER", "SHA1"} \subseteq Ids
    BY DEF Ids
  <2>2. \A g \in Files : \A i \in Ids : d.uids[g][i] # None => c.uids[g][i] # None
    BY <1>1, <1>5
  <2>3. gone = {} => ReadyBut(d, f, id)
    BY DEF Serving
  <2> QED BY <2>1, <2>2, <2>3, <1>3 DEF ReadyBut
<1>9. Serving(c, f, id)
  BY <1>1, <1>3, <1>4, <1>6, <1>7, <1>8 DEF Serving
<1>10. c.uids[f][id] # None
  BY <1>1, <1>5
<1>11. UploadsStep(c, Answer(c, f))
  BY <1>9, <1>10, AnswerStep
<1>12. UploadsStep(d, Answer(c, f))
  BY <1>3, <1>4, <1>11 DEF UploadsStep, OthersKeep
<1> QED BY <1>12, Zenon DEF AddUid, c

\* A job for the next piece of the request that is served.
LEMMA UploadsPieceStep ==
  ASSUME NEW d, NEW f, NEW id, Serving(d, f, id), id # "BITPRINT",
         NEW hashes \in Seq(Pieces), Contiguous(f, hashes),
         NEW begin, begin = EndPos(hashes)
  PROVE  UploadsStep(d, UploadsPiece(d, f, id, begin, hashes))
<1> DEFINE piece == Piece(f, begin, UidBlock(f, id))
           job == Job("uploads", f, id, piece, hashes, <<>>)
           e == Compute(d, job)
<1>1. f \in Files /\ id \in Ids /\ d \in Daemons
  BY DEF Serving
<1>2. UidBlock(f, id) \in Nat \ {0}
  BY <1>1, SizeAssumption DEF UidBlock
<1>3. begin \in Nat /\ begin <= Size[f]
  BY <1>1, EndPosProps, ContiguousProps
<1>4. piece \in Pieces
  BY <1>1, <1>2, <1>3, PieceProps
<1> HIDE DEF piece
<1>5. /\ job \in Jobs
      /\ job.by = "uploads" /\ job.file = f /\ job.id = id
      /\ job.piece = piece /\ job.hashes = hashes
  <2>1. "uploads" \in Clients /\ <<>> \in Seq(Files)
    BY DEF Clients
  <2>2. job = [by |-> "uploads", file |-> f, id |-> id, piece |-> piece,
                hashes |-> hashes, rest |-> <<>>]
    BY Zenon DEF Job
  <2> HIDE DEF job
  <2> QED BY <1>1, <1>4, <2>1, <2>2 DEF Jobs
<1> HIDE DEF job
<1>6. /\ e \in Daemons
      /\ OneEach(Queued(e))
      /\ JobsBy(Queued(e), "uploads") = {job}
      /\ OthersKeep("uploads", d, e)
      /\ KeepUploads(d, e)
      /\ e.donkey = d.donkey
      /\ e.dc = d.dc
  <2>1. OneEach(Queued(d)) /\ JobsBy(Queued(d), job.by) = {}
    BY <1>5 DEF Serving
  <2> QED BY <1>1, <1>5, <2>1, ComputeProps
<1> HIDE DEF e
<1>7. UploadsJob(e, job)
  <2>1. e.current_job = f
    BY <1>6 DEF KeepUploads, Serving
  <2> QED BY <1>5, <2>1 DEF UploadsJob, piece
<1>8. CompleteUids(e) /\ Asked(e)
  BY <1>6 DEF CompleteUids, Asked, KeepUploads, Serving
<1>9. gone = {} => MadeReady(e, {job})
  <2>1. gone = {} => ReadyBut(d, f, id)
    BY DEF Serving
  <2> QED BY <2>1, <1>5, <1>6 DEF ReadyBut, MadeReady, KeepUploads
<1>10. UploadsInv(e, {job}, gone)
  BY <1>7, <1>8, <1>9 DEF UploadsInv
<1>11. UploadsStep(d, e)
  BY <1>6, <1>10 DEF UploadsStep
<1> QED BY <1>11, Zenon DEF UploadsPiece, e, job, piece

\* The handler of a job of commonUploads.
LEMMA UploadsHandlerStep ==
  ASSUME NEW d, NEW job \in Jobs, UploadsJob(d, job), Serving(d, job.file, job.id)
  PROVE  UploadsStep(d, UploadsHandler(d, job))
<1> DEFINE f == job.file
           hashes == Append(job.hashes, job.piece)
<1>1. f \in Files /\ job.id \in Ids /\ job.hashes \in Seq(Pieces) /\ job.piece \in Pieces
  BY DEF Jobs
<1>2. /\ job.id # "BITPRINT" /\ Contiguous(f, job.hashes)
      /\ job.piece = Piece(f, EndPos(job.hashes), UidBlock(f, job.id))
  BY DEF UploadsJob
<1>3. UidBlock(f, job.id) \in Nat \ {0}
  BY <1>1, SizeAssumption DEF UidBlock
<1>4. EndPos(job.hashes) \in Nat /\ EndPos(job.hashes) <= Size[f]
  BY <1>1, <1>2, EndPosProps, ContiguousProps
<1>5. /\ job.piece.begin = EndPos(job.hashes)
      /\ EndPos(job.hashes) + job.piece.len <= Size[f]
  <2>1. Size[f] \in Nat
    BY <1>1, SizeAssumption
  <2> DEFINE begin == EndPos(job.hashes)
             block == UidBlock(f, job.id)
             piece == Piece(f, begin, block)
  <2> HIDE DEF begin, block
  <2>2. /\ piece.begin = begin
        /\ begin + piece.len = IF begin + block < Size[f] THEN begin + block ELSE Size[f]
    <3>1. begin \in Nat /\ begin <= Size[f] /\ block \in Nat \ {0}
      BY <1>3, <1>4 DEF begin, block
    <3> QED BY <1>1, <3>1, PieceProps
  <2>3. job.piece = piece
    BY <1>2 DEF begin, block
  <2> HIDE DEF piece
  <2>4. begin \in Nat /\ block \in Nat
    BY <1>3, <1>4 DEF begin, block
  <2>5. begin + job.piece.len <= Size[f]
    BY <2>1, <2>2, <2>3, <2>4
  <2> QED BY <2>2, <2>3, <2>5 DEF begin
<1>6. hashes \in Seq(Pieces)
  BY <1>1
<1>7. Contiguous(f, hashes)
  BY <1>1, <1>2, <1>5, ContiguousAppend
<1>8. EndPos(hashes) <= Size[f] /\ EndPos(hashes) \in Nat /\ Size[f] \in Nat
  BY <1>1, <1>6, <1>7, SizeAssumption, EndPosProps, ContiguousProps
<1>9. UploadsHandler(d, job) =
        IF EndPos(hashes) < Size[f]
        THEN UploadsPiece(d, f, job.id, EndPos(hashes), hashes)
        ELSE AddUid(d, f, job.id, hashes)
  BY Zenon DEF UploadsHandler
<1> HIDE DEF hashes
<1>10. CASE EndPos(hashes) < Size[f]
  BY <1>2, <1>6, <1>7, <1>9, <1>10, UploadsPieceStep
<1>11. CASE EndPos(hashes) = Size[f]
  BY <1>6, <1>7, <1>8, <1>9, <1>11, AddUidStep
<1> QED BY <1>8, <1>10, <1>11

\* start_job_for on the request that was popped: as long as no file vanished,
\* a BITPRINT finds the identifiers it is made of.
LEMMA StartJobStep ==
  ASSUME NEW d, NEW f, NEW id, Serving(d, f, id),
         gone = {} /\ id = "BITPRINT"
           => d.uids[f]["SHA1"] # None /\ d.uids[f]["TIGER"] # None
  PROVE  UploadsStep(d, start_job_for(d, f, id))
<1>1. f \in Files /\ d \in Daemons
  BY DEF Serving
<1>2. CASE d.uids[f][id] # None
  BY <1>2, AnswerStep DEF start_job_for
<1>3. CASE d.uids[f][id] = None /\ id # "BITPRINT"
  <2>1. <<>> \in Seq(Pieces) /\ Contiguous(f, <<>>) /\ EndPos(<<>>) = 0
    BY <1>1, ContiguousEmpty DEF EndPos
  <2>2. start_job_for(d, f, id) = UploadsPiece(d, f, id, 0, <<>>)
    BY <1>3 DEF start_job_for
  <2> QED BY <1>3, <2>1, <2>2, UploadsPieceStep
<1>4. CASE /\ d.uids[f][id] = None /\ id = "BITPRINT"
           /\ d.uids[f]["SHA1"] # None /\ d.uids[f]["TIGER"] # None
  <2>1. start_job_for(d, f, id) = AddUid(d, f, id, d.uids[f]["TIGER"])
    BY <1>4 DEF start_job_for
  <2>2. "TIGER" \in Ids
    BY DEF Ids
  <2>3. d.uids[f]["TIGER"] \in Seq(Pieces)
    BY <1>1, <1>4, <2>2 DEF Daemons
  <2>4. Contiguous(f, d.uids[f]["TIGER"]) /\ EndPos(d.uids[f]["TIGER"]) = Size[f]
    BY <1>1, <1>4, <2>2 DEF Serving, CompleteUids
  <2> QED BY <2>1, <2>3, <2>4, AddUidStep
<1>5. CASE /\ d.uids[f][id] = None /\ id = "BITPRINT"
           /\ ~ (d.uids[f]["SHA1"] # None /\ d.uids[f]["TIGER"] # None)
  <2>1. start_job_for(d, f, id) = d
    BY <1>5 DEF start_job_for
  <2>2. gone # {}
    BY <1>5
  <2>3. UploadsStep(d, d)
    BY <2>2 DEF UploadsStep, UploadsInv, OthersKeep, Serving
  <2> QED BY <2>1, <2>3
<1> QED BY <1>2, <1>3, <1>4, <1>5

-----------------------------------------------------------------------------
(* commonUploads: shared_files_timer and ask_for_uids *)

\* The types of wanted and of asked.
Wants == [Files -> Seq(Ids)]

Counts == [Files -> Nat]

\* The daemon when a request begins.
LEMMA SetRequest ==
  ASSUME NEW d \in Daemons, NEW w \in Wants, NEW f \in Files
  PROVE  [d EXCEPT !.wanted = w, !.current_job = f] \in Daemons
  BY DEF Daemons, Wants

\* The daemon with another waiting_shared_files.
LEMMA SetWaiting ==
  ASSUME NEW d \in Daemons, NEW q \in Seq(Files)
  PROVE  /\ [d EXCEPT !.waiting = q] \in Daemons
         /\ [d EXCEPT !.waiting = q].waiting = q
  BY DEF Daemons

\* The daemon after the identifiers of some files are asked for.
LEMMA SetAsked ==
  ASSUME NEW d \in Daemons, NEW n \in 0..MaxShares, NEW a \in Counts,
         NEW w \in Wants, NEW q \in Seq(Files)
  PROVE  [d EXCEPT !.shares = n, !.asked = a, !.wanted = w, !.waiting = q] \in Daemons
  BY DEF Daemons, Wants, Counts

\* The invariant of commonUploads, of a state without a current job.
Idle(d) ==
  /\ d \in Daemons
  /\ OneEach(Queued(d))
  /\ UploadsInv(d, JobsBy(Queued(d), "uploads"), gone)
  /\ d.current_job = None

\* Without a current job, commonUploads has none in the fifo.
LEMMA IdleHasNoJob ==
  ASSUME NEW d, Idle(d)
  PROVE  JobsBy(Queued(d), "uploads") = {}
<1> SUFFICES ASSUME NEW job \in JobsBy(Queued(d), "uploads") PROVE FALSE
  OBVIOUS
<1>1. Queued(d) \in Seq(Jobs)
  BY QueueFacts DEF Idle
<1>2. job \in Jobs
  BY <1>1 DEF JobsBy
<1>3. d.current_job = job.file
  BY DEF Idle, UploadsInv, UploadsJob
<1>4. job.file \in Files
  BY <1>2 DEF Jobs
<1> QED BY <1>3, <1>4, NoneAssumption DEF Idle

\* shared_files_timer pops a file that wants nothing.
LEMMA PopStep ==
  ASSUME NEW d, Idle(d), d.waiting # <<>>, d.wanted[Head(d.waiting)] = <<>>
  PROVE  UploadsStep(d, [d EXCEPT !.waiting = Tail(@)])
<1> DEFINE e == [d EXCEPT !.waiting = Tail(@)]
           f == Head(d.waiting)
<1>1. d \in Daemons /\ d.waiting \in Seq(Files)
  BY DEF Idle, Daemons
<1>2. /\ Tail(d.waiting) \in Seq(Files)
      /\ ToSet(d.waiting) = {f} \union ToSet(Tail(d.waiting))
  BY <1>1, TailProps
<1>3. /\ e \in Daemons
      /\ e.waiting = Tail(d.waiting)
  BY <1>1, <1>2, SetWaiting
<1>4. /\ e.current = d.current
      /\ e.fifo = d.fifo
      /\ e.wanted = d.wanted
      /\ e.current_job = d.current_job
      /\ e.uids = d.uids
      /\ e.asked = d.asked
      /\ e.answered = d.answered
      /\ e.donkey = d.donkey
      /\ e.dc = d.dc
  OBVIOUS
<1> HIDE DEF e
<1>5. Queued(e) = Queued(d)
  BY <1>4 DEF Queued
<1>6. Asked(e)
  BY <1>2, <1>3, <1>4 DEF Asked, Idle, UploadsInv
<1>7. UploadsInv(e, JobsBy(Queued(e), "uploads"), gone)
  BY <1>4, <1>5, <1>6
     DEF Idle, UploadsInv, UploadsJob, CompleteUids, MadeReady
<1>8. UploadsStep(d, e)
  BY <1>3, <1>4, <1>5, <1>7 DEF UploadsStep, OthersKeep, Idle
<1> QED BY <1>8 DEF e

\* shared_files_timer starts the next request.
LEMMA ServeStep ==
  ASSUME NEW d, Idle(d), d.waiting # <<>>,
         NEW f, f = Head(d.waiting), d.wanted[f] # <<>>
  PROVE  UploadsStep(d, start_job_for([d EXCEPT !.wanted[f] = Tail(@), !.current_job = f],
                                      f, Head(d.wanted[f])))
<1> DEFINE c == [d EXCEPT !.wanted[f] = Tail(@), !.current_job = f]
           id == Head(d.wanted[f])
           w == [d.wanted EXCEPT ![f] = Tail(@)]
<1>1. d \in Daemons /\ d.waiting \in Seq(Files) /\ d.wanted \in [Files -> Seq(Ids)]
  BY DEF Idle, Daemons
<1>2. f \in Files
  BY <1>1
<1>3. /\ id \in Ids
      /\ Tail(d.wanted[f]) \in Seq(Ids)
      /\ Len(Tail(d.wanted[f])) = Len(d.wanted[f]) - 1
      /\ \A i \in 1..Len(d.wanted[f]) - 1 : Tail(d.wanted[f])[i] = d.wanted[f][i + 1]
  <2>1. d.wanted[f] \in Seq(Ids)
    BY <1>1, <1>2
  <2> QED BY <2>1, TailProps
<1>4. w \in [Files -> Seq(Ids)]
  BY <1>1, <1>2, <1>3
<1>5. /\ c \in Daemons
      /\ c.wanted = w
      /\ c.current_job = f
  <2>1. c = [d EXCEPT !.wanted = w, !.current_job = f]
    BY Zenon
  <2> HIDE DEF w, c
  <2>2. [d EXCEPT !.wanted = w, !.current_job = f] \in Daemons
    <3>1. d \in Daemons /\ w \in Wants /\ f \in Files
      BY <1>1, <1>2, <1>4 DEF Wants
    <3> QED BY <3>1, SetRequest, Zenon
  <2>3. c.wanted = w /\ c.current_job = f
    BY <1>1, <2>1 DEF Daemons
  <2> QED BY <2>1, <2>2, <2>3, Zenon
<1>6. /\ c.current = d.current
      /\ c.fifo = d.fifo
      /\ c.waiting = d.waiting
      /\ c.uids = d.uids
      /\ c.asked = d.asked
      /\ c.answered = d.answered
      /\ c.donkey = d.donkey
      /\ c.dc = d.dc
  OBVIOUS
<1> HIDE DEF c
<1>7. /\ c.wanted[f] = Tail(d.wanted[f])
      /\ \A g \in Files \ {f} : c.wanted[g] = d.wanted[g]
  BY <1>1, <1>2, <1>5
<1>8. Queued(c) = Queued(d)
  BY <1>6 DEF Queued
<1>9. JobsBy(Queued(c), "uploads") = {} /\ JobsBy(Queued(d), "uploads") = {}
  BY <1>8, IdleHasNoJob
<1>10. Asked(c)
  <2> SUFFICES ASSUME NEW g \in Files
               PROVE  /\ c.asked[g] = c.answered[g] + Len(c.wanted[g])
                                       + (IF c.current_job = g THEN 1 ELSE 0)
                      /\ c.wanted[g] # <<>> => g \in ToSet(c.waiting)
    BY DEF Asked
  <2>1. /\ d.asked[g] = d.answered[g] + Len(d.wanted[g])
                         + (IF d.current_job = g THEN 1 ELSE 0)
        /\ d.wanted[g] # <<>> => g \in ToSet(d.waiting)
    BY DEF Idle, UploadsInv, Asked
  <2>2. d.current_job # g
    BY NoneAssumption DEF Idle
  <2>3. CASE g = f
    <3>1. Len(d.wanted[f]) \in Nat /\ d.answered[f] \in Nat
      BY <1>1, <1>2 DEF Daemons
    <3>2. Len(c.wanted[f]) = Len(d.wanted[f]) - 1
      BY <1>3, <1>7
    <3> QED BY <2>1, <2>2, <2>3, <3>1, <3>2, <1>5, <1>6
  <2>4. CASE g # f
    BY <2>1, <2>2, <2>4, <1>5, <1>6, <1>7
  <2> QED BY <2>3, <2>4
<1>11. CompleteUids(c)
  BY <1>6 DEF CompleteUids, Idle, UploadsInv
<1>12. ASSUME gone = {} PROVE ReadyBut(c, f, id)
  <2>1. MadeReady(d, {})
    BY <1>9, <1>12 DEF Idle, UploadsInv
  <2> SUFFICES ASSUME NEW g \in Files, NEW i \in DOMAIN c.wanted[g],
                      c.wanted[g][i] = "BITPRINT", NEW id2 \in {"TIGER", "SHA1"}
               PROVE  \/ c.uids[g][id2] # None
                      \/ \E j \in DOMAIN c.wanted[g] : j < i /\ c.wanted[g][j] = id2
                      \/ g = f /\ id2 = id
    BY DEF ReadyBut
  <2>2. CASE g # f
    BY <2>1, <2>2, <1>6, <1>7 DEF MadeReady
  <2>3. CASE g = f
    <3>1. DOMAIN c.wanted[f] = 1..Len(d.wanted[f]) - 1 /\ DOMAIN d.wanted[f] = 1..Len(d.wanted[f])
      BY <1>1, <1>2, <1>3, <1>7
    <3>2. \A j \in 1..Len(d.wanted[f]) - 1 : c.wanted[f][j] = d.wanted[f][j + 1]
      BY <1>3, <1>7
    <3>3. Len(d.wanted[f]) \in Nat /\ d.wanted[f][1] = id
      BY <1>1, <1>2
    <3> HIDE DEF id, w
    <3>4. i + 1 \in DOMAIN d.wanted[f] /\ d.wanted[f][i + 1] = "BITPRINT"
      <4>1. i \in 1..Len(d.wanted[f]) - 1
        BY <2>3, <3>1
      <4>2. i + 1 \in 1..Len(d.wanted[f])
        BY <3>3, <4>1
      <4>3. c.wanted[f][i] = "BITPRINT"
        BY <2>3
      <4> QED BY <3>1, <3>2, <4>1, <4>2, <4>3
    <3>5. \/ d.uids[f][id2] # None
          \/ \E j \in DOMAIN d.wanted[f] : j < i + 1 /\ d.wanted[f][j] = id2
      BY <2>1, <3>4, <1>2 DEF MadeReady
    <3>6. ASSUME NEW j \in DOMAIN d.wanted[f], j < i + 1, d.wanted[f][j] = id2
          PROVE  \/ \E k \in DOMAIN c.wanted[f] : k < i /\ c.wanted[f][k] = id2
                 \/ id2 = id
      <4>1. CASE j = 1
        BY <4>1, <3>3, <3>6
      <4>2. CASE j # 1
        <5>1. j - 1 \in 1..Len(d.wanted[f]) - 1 /\ (j - 1) + 1 = j /\ j - 1 < i
          <6>1. j \in 1..Len(d.wanted[f]) /\ i \in 1..Len(d.wanted[f]) - 1
            BY <3>1, <3>6, <2>3
          <6> QED BY <4>2, <3>3, <3>6, <6>1
        <5>2. c.wanted[f][j - 1] = id2
          BY <5>1, <3>2, <3>6
        <5> QED BY <5>1, <5>2, <3>1
      <4> QED BY <4>1, <4>2
    <3> QED BY <2>3, <3>5, <3>6, <1>6
  <2> QED BY <2>2, <2>3
<1>13. ASSUME gone = {}, id = "BITPRINT"
       PROVE  c.uids[f]["SHA1"] # None /\ c.uids[f]["TIGER"] # None
  <2>1. MadeReady(d, {})
    BY <1>9, <1>13 DEF Idle, UploadsInv
  <2>2. 1 \in DOMAIN d.wanted[f] /\ d.wanted[f][1] = "BITPRINT" /\ DOMAIN d.wanted[f] \subseteq Nat \ {0}
    BY <1>1, <1>2, <1>13
  <2>3. \A j \in DOMAIN d.wanted[f] : ~ (j < 1)
    BY <2>2
  <2> QED BY <2>1, <2>2, <2>3, <1>2, <1>6 DEF MadeReady
<1>14. Serving(c, f, id)
  BY <1>2, <1>3, <1>5, <1>8, <1>9, <1>10, <1>11, <1>12 DEF Serving, Idle
<1> HIDE DEF id
<1>15. UploadsStep(c, start_job_for(c, f, id))
  BY <1>13, <1>14, StartJobStep
<1>16. UploadsStep(d, start_job_for(c, f, id))
  BY <1>6, <1>8, <1>15 DEF UploadsStep, OthersKeep
<1> QED BY <1>16 DEF id, c

\* max_shared_files is obeyed.
LEMMA AdmittedProps ==
  ASSUME NEW d \in Daemons, NEW files \in Seq(Files)
  PROVE  /\ Admitted(d, files) \in Seq(Files)
         /\ d.shares + Len(Admitted(d, files)) \in 0..MaxShares
<1> DEFINE n == IF d.shares + Len(files) <= MaxShares THEN Len(files) ELSE MaxShares - d.shares
<1>1. d.shares \in Nat /\ d.shares <= MaxShares /\ MaxShares \in Nat /\ Len(files) \in Nat
  BY BoundsAssumption DEF Daemons
<1>2. n \in 0..Len(files) /\ d.shares + n <= MaxShares
  BY <1>1
<1> HIDE DEF n
<1>3. SubSeq(files, 1, n) \in Seq(Files) /\ Len(SubSeq(files, 1, n)) = n
  BY <1>2
<1>4. Admitted(d, files) = SubSeq(files, 1, n)
  BY DEF Admitted, n
<1> QED BY <1>1, <1>2, <1>3, <1>4

\* Every file asked for is pushed on waiting_shared_files.
LEMMA PushesProps ==
  ASSUME NEW asked \in Seq(Files),
         NEW pushes,
         pushes = FlattenSeq([i \in 1..Len(asked) |-> [j \in 1..Len(Asks) |-> asked[i]]])
  PROVE  /\ Reverse(pushes) \in Seq(Files)
         /\ Asks # <<>> => ToSet(asked) \subseteq ToSet(Reverse(pushes))
<1> DEFINE ss == [i \in 1..Len(asked) |-> [j \in 1..Len(Asks) |-> asked[i]]]
<1>1. Len(Asks) \in Nat /\ Len(asked) \in Nat
  BY AsksAssumption
<1>2. ASSUME NEW i \in 1..Len(asked) PROVE ss[i] \in Seq(Files) /\ Len(ss[i]) = Len(Asks)
  <2>1. asked[i] \in Files
    OBVIOUS
  <2>2. [j \in 1..Len(Asks) |-> asked[i]] \in Seq(Files)
    BY <2>1, <1>1
  <2> QED BY <2>2, <1>1
<1>3. ss \in Seq(Seq(Files)) /\ Len(ss) = Len(asked)
  <2>1. ss \in [1..Len(asked) -> Seq(Files)]
    BY <1>2
  <2> HIDE DEF ss
  <2> QED BY <2>1, <1>1
<1>4. /\ pushes \in Seq(Files)
      /\ \A i \in 1..Len(asked) : ToSet(ss[i]) \subseteq ToSet(pushes)
  <2>1. pushes = FlattenSeq(ss)
    OBVIOUS
  <2> HIDE DEF ss
  <2> QED BY <2>1, <1>3, FlattenProps
<1>5. ASSUME Asks # <<>>, NEW f \in ToSet(asked) PROVE f \in ToSet(pushes)
  <2>1. PICK i \in 1..Len(asked) : f = asked[i]
    BY <1>5, SeqFacts
  <2>2. 1 \in 1..Len(Asks)
    BY <1>1, <1>5, AsksAssumption
  <2>3. ss[i][1] = f
    BY <2>1, <2>2
  <2>4. ss[i] \in Seq(Files) /\ 1 \in 1..Len(ss[i])
    BY <1>2, <2>1, <2>2
  <2> HIDE DEF ss
  <2>5. f \in ToSet(ss[i])
    BY <2>3, <2>4, SeqFacts
  <2> QED BY <2>1, <2>5, <1>4
<1> HIDE DEF ss
<1>6. Reverse(pushes) \in Seq(Files) /\ ToSet(Reverse(pushes)) = ToSet(pushes)
  BY <1>4, ReverseProps
<1> QED BY <1>5, <1>6

\* ask_for_uids of the networks, on the files of a directory.
LEMMA AskStep ==
  ASSUME NEW d \in Daemons, OneEach(Queued(d)),
         UploadsInv(d, JobsBy(Queued(d), "uploads"), gone), NEW files \in Seq(Files)
  PROVE  UploadsStep(d, AskForUids(d, files)) /\ AskForUids(d, files).current_job = d.current_job
<1> DEFINE asked == Admitted(d, files)
           pushes == FlattenSeq([i \in 1..Len(asked) |-> [j \in 1..Len(Asks) |-> asked[i]]])
           n == d.shares + Len(asked)
           a == [f \in Files |-> IF f \in ToSet(asked) THEN d.asked[f] + Len(Asks)
                                 ELSE d.asked[f]]
           w == [f \in Files |-> IF f \in ToSet(asked) THEN Reverse(Asks) \o d.wanted[f]
                                 ELSE d.wanted[f]]
           q == Reverse(pushes) \o d.waiting
           e == [d EXCEPT !.shares = n, !.asked = a, !.wanted = w, !.waiting = q]
<1>1. AskForUids(d, files) = e
  BY Zenon DEF AskForUids
<1>2. /\ d.asked \in [Files -> Nat]
      /\ d.answered \in [Files -> Nat]
      /\ d.wanted \in [Files -> Seq(Ids)]
      /\ d.waiting \in Seq(Files)
      /\ Len(Asks) \in Nat
      /\ Asks \in Seq(Ids)
      /\ DOMAIN Asks = 1..Len(Asks)
  BY AsksAssumption DEF Daemons
<1>3. asked \in Seq(Files) /\ n \in 0..MaxShares
  BY AdmittedProps
<1>4. /\ Reverse(pushes) \in Seq(Files)
      /\ Asks # <<>> => ToSet(asked) \subseteq ToSet(Reverse(pushes))
  BY <1>3, PushesProps
<1>5. /\ Reverse(Asks) \in Seq(Ids)
      /\ Len(Reverse(Asks)) = Len(Asks)
      /\ \A i \in 1..Len(Asks) : Reverse(Asks)[i] = Asks[Len(Asks) - i + 1]
  BY <1>2, ReverseProps
<1> HIDE DEF asked, pushes
<1>6. q \in Seq(Files) /\ ToSet(q) = ToSet(Reverse(pushes)) \union ToSet(d.waiting)
  BY <1>2, <1>4, ConcatProps
<1>7. a \in [Files -> Nat]
  BY <1>2
<1>8. w \in [Files -> Seq(Ids)]
  BY <1>2, <1>5
<1>9. \A f \in Files :
        /\ f \in ToSet(asked) => /\ a[f] = d.asked[f] + Len(Asks)
                                 /\ w[f] = Reverse(Asks) \o d.wanted[f]
        /\ f \notin ToSet(asked) => a[f] = d.asked[f] /\ w[f] = d.wanted[f]
  OBVIOUS
<1> HIDE DEF n, a, w, q
<1>10. e \in Daemons /\ e.asked = a /\ e.wanted = w /\ e.waiting = q
  <2>1. a \in Counts /\ w \in Wants /\ q \in Seq(Files)
    BY <1>6, <1>7, <1>8 DEF Counts, Wants
  <2>2. n \in 0..MaxShares
    BY <1>3
  <2>3. d \in Daemons
    OBVIOUS
  <2>4. e = [d EXCEPT !.shares = n, !.asked = a, !.wanted = w, !.waiting = q]
    OBVIOUS
  <2> HIDE DEF e
  <2>5. [d EXCEPT !.shares = n, !.asked = a, !.wanted = w, !.waiting = q] \in Daemons
    BY <2>1, <2>2, <2>3, SetAsked, Zenon
  <2>6. e.asked = a /\ e.wanted = w /\ e.waiting = q
    BY <2>3, <2>4 DEF Daemons
  <2> QED BY <2>4, <2>5, <2>6, Zenon
<1>11. /\ e.current = d.current
       /\ e.fifo = d.fifo
       /\ e.current_job = d.current_job
       /\ e.uids = d.uids
       /\ e.answered = d.answered
       /\ e.donkey = d.donkey
       /\ e.dc = d.dc
  OBVIOUS
<1> HIDE DEF e
<1>12. Queued(e) = Queued(d)
  BY <1>11 DEF Queued
<1>13. Asked(e)
  <2> SUFFICES ASSUME NEW f \in Files
               PROVE  /\ e.asked[f] = e.answered[f] + Len(e.wanted[f])
                                       + (IF e.current_job = f THEN 1 ELSE 0)
                      /\ e.wanted[f] # <<>> => f \in ToSet(e.waiting)
    BY DEF Asked
  <2>1. /\ d.asked[f] = d.answered[f] + Len(d.wanted[f])
                         + (IF d.current_job = f THEN 1 ELSE 0)
        /\ d.wanted[f] # <<>> => f \in ToSet(d.waiting)
    BY DEF UploadsInv, Asked
  <2>2. CASE f \notin ToSet(asked)
    BY <2>1, <2>2, <1>6, <1>9, <1>10, <1>11
  <2>3. CASE f \in ToSet(asked)
    <3>1. e.wanted[f] = Reverse(Asks) \o d.wanted[f] /\ e.asked[f] = d.asked[f] + Len(Asks)
      BY <2>3, <1>9, <1>10
    <3>2. d.wanted[f] \in Seq(Ids) /\ d.answered[f] \in Nat
      BY <1>2
    <3>3. Len(e.wanted[f]) = Len(Asks) + Len(d.wanted[f]) /\ Len(d.wanted[f]) \in Nat
      <4>1. Len(Reverse(Asks) \o d.wanted[f]) = Len(Reverse(Asks)) + Len(d.wanted[f])
        BY <3>2, <1>5, ConcatProps
      <4> QED BY <3>1, <3>2, <4>1, <1>5
    <3>4. e.asked[f] = e.answered[f] + Len(e.wanted[f])
                         + (IF e.current_job = f THEN 1 ELSE 0)
      <4>1. (IF d.current_job = f THEN 1 ELSE 0) \in Nat
        OBVIOUS
      <4> DEFINE z == IF d.current_job = f THEN 1 ELSE 0
      <4>2. d.asked[f] = d.answered[f] + Len(d.wanted[f]) + z
        BY <2>1
      <4>3. z \in Nat /\ z = IF e.current_job = f THEN 1 ELSE 0
        BY <1>11
      <4> HIDE DEF z
      <4>4. e.asked[f] = e.answered[f] + Len(e.wanted[f]) + z
        BY <3>1, <3>2, <3>3, <4>2, <4>3, <1>2, <1>11
      <4> QED BY <4>3, <4>4
    <3>5. CASE Asks = <<>>
      <4>1. Reverse(Asks) = <<>>
        BY <3>5, <1>5
      <4>2. e.wanted[f] = d.wanted[f]
        BY <3>1, <3>2, <4>1
      <4> QED BY <2>1, <3>4, <4>2, <1>6, <1>10
    <3>6. CASE Asks # <<>>
      BY <2>3, <3>4, <3>6, <1>4, <1>6, <1>10
    <3> QED BY <3>5, <3>6
  <2> QED BY <2>2, <2>3
<1>14. CompleteUids(e)
  BY <1>11 DEF CompleteUids, UploadsInv
<1>15. ASSUME NEW jobs, MadeReady(d, jobs) PROVE MadeReady(e, jobs)
  <2> SUFFICES ASSUME NEW f \in Files, NEW i \in DOMAIN e.wanted[f],
                      e.wanted[f][i] = "BITPRINT", NEW id \in {"TIGER", "SHA1"}
               PROVE  \/ e.uids[f][id] # None
                      \/ \E j \in DOMAIN e.wanted[f] : j < i /\ e.wanted[f][j] = id
                      \/ \E job \in jobs : job.file = f /\ job.id = id
    BY DEF MadeReady
  <2>1. CASE f \notin ToSet(asked)
    BY <2>1, <1>9, <1>10, <1>11, <1>15 DEF MadeReady
  <2>2. CASE f \in ToSet(asked)
    <3> DEFINE m == Len(Asks)
               k == Len(d.wanted[f])
    <3>1. d.wanted[f] \in Seq(Ids) /\ k \in Nat /\ m \in Nat /\ DOMAIN d.wanted[f] = 1..k
      BY <1>2
    <3>2. e.wanted[f] = Reverse(Asks) \o d.wanted[f]
      BY <2>2, <1>9, <1>10
    <3>3. DOMAIN e.wanted[f] = 1..m + k
      <4>1. DOMAIN (Reverse(Asks) \o d.wanted[f])
              = 1..Len(Reverse(Asks)) + Len(d.wanted[f])
        <5>1. d.wanted[f] \in Seq(Ids)
          BY <3>1
        <5>2. Reverse(Asks) \in Seq(Ids)
          BY <1>5
        <5> QED BY <5>1, <5>2, ConcatProps
      <4> QED BY <3>2, <4>1, <1>5 DEF m, k
    <3>4. \A j \in 1..m : e.wanted[f][j] = Asks[m - j + 1]
      BY <3>1, <3>2, <1>5
    <3>5. \A j \in 1..k : e.wanted[f][m + j] = d.wanted[f][j]
      BY <3>1, <3>2, <1>5
    <3> HIDE DEF m, k
    <3>6. CASE i \in 1..m
      <4>1. m - i + 1 \in DOMAIN Asks /\ Asks[m - i + 1] = "BITPRINT"
        BY <3>1, <3>4, <3>6, <1>2 DEF m
      <4>2. PICK j \in DOMAIN Asks : m - i + 1 < j /\ Asks[j] = id
        BY <4>1, AsksAssumption
      <4>3. m - j + 1 \in 1..m /\ m - j + 1 < i /\ m - (m - j + 1) + 1 = j
        BY <3>1, <3>6, <4>2, <1>2 DEF m
      <4>4. e.wanted[f][m - j + 1] = id
        BY <3>4, <4>2, <4>3
      <4>5. m - j + 1 \in DOMAIN e.wanted[f]
        BY <3>1, <3>3, <4>3
      <4> QED BY <4>3, <4>4, <4>5
    <3>7. CASE i \notin 1..m
      <4>1. i - m \in 1..k /\ m + (i - m) = i
        BY <3>1, <3>3, <3>7
      <4>2. d.wanted[f][i - m] = "BITPRINT"
        BY <3>5, <4>1
      <4>3. \/ d.uids[f][id] # None
            \/ \E j \in DOMAIN d.wanted[f] : j < i - m /\ d.wanted[f][j] = id
            \/ \E job \in jobs : job.file = f /\ job.id = id
        <5>1. i - m \in DOMAIN d.wanted[f]
          BY <3>1, <4>1
        <5>2. \A l \in DOMAIN d.wanted[f] : d.wanted[f][l] = "BITPRINT" =>
                 \/ d.uids[f][id] # None
                 \/ \E j \in DOMAIN d.wanted[f] : j < l /\ d.wanted[f][j] = id
                 \/ \E job \in jobs : job.file = f /\ job.id = id
          BY <1>15 DEF MadeReady
        <5> QED BY <4>2, <5>1, <5>2, Zenon
      <4>4. ASSUME NEW j \in DOMAIN d.wanted[f], j < i - m, d.wanted[f][j] = id
            PROVE  \E j2 \in DOMAIN e.wanted[f] : j2 < i /\ e.wanted[f][j2] = id
        <5>1. m + j \in DOMAIN e.wanted[f] /\ m + j < i /\ e.wanted[f][m + j] = id
          <6>1. j \in 1..k /\ j < i - m /\ d.wanted[f][j] = id
            BY <3>1, <4>4
          <6>2. m + j \in 1..m + k /\ m + j < i
            BY <3>1, <4>1, <6>1
          <6> QED BY <3>3, <3>5, <6>1, <6>2
        <5> QED BY <5>1
      <4> QED BY <4>3, <4>4, <1>11
    <3> QED BY <3>6, <3>7
  <2> QED BY <2>1, <2>2
<1>16. UploadsInv(e, JobsBy(Queued(e), "uploads"), gone)
  BY <1>11, <1>12, <1>13, <1>14, <1>15 DEF UploadsInv, UploadsJob
<1>17. UploadsStep(d, e)
  BY <1>10, <1>11, <1>12, <1>16 DEF UploadsStep, OthersKeep
<1> QED BY <1>1, <1>11, <1>17

-----------------------------------------------------------------------------
(* The queue of a network *)

\* list with one more piece of f.
WithPiece(list, f, p) == [list EXCEPT ![f] = Append(@, p)]

\* The next piece of a file is added to those hashed.
LEMMA NetAppend ==
  ASSUME NEW net, NEW block \in Nat \ {0}, NetOK(net, block),
         net.list \in [Files -> Seq(Pieces)], NEW f \in Files, f \notin net.hashed,
         NEW p, p = Piece(f, EndPos(net.list[f]), block),
         NEW new, new.queue = net.queue, new.hashed = net.hashed,
         new.list = WithPiece(net.list, f, p)
  PROVE  NetOK(new, block) /\ new.list \in [Files -> Seq(Pieces)]
<1>1. net.list[f] \in Seq(Pieces) /\ Contiguous(f, net.list[f]) /\ CutAt(f, net.list[f], block)
  BY DEF NetOK
<1>2. /\ Append(net.list[f], p) \in Seq(Pieces)
      /\ Contiguous(f, Append(net.list[f], p))
      /\ CutAt(f, Append(net.list[f], p), block)
  BY <1>1, CutAppend
<1>3. /\ new.list[f] = Append(net.list[f], p)
      /\ \A g \in Files \ {f} : new.list[g] = net.list[g]
  BY DEF WithPiece
<1>4. new.list \in [Files -> Seq(Pieces)]
  BY <1>2 DEF WithPiece
<1>5. ASSUME NEW g \in Files
      PROVE  /\ Contiguous(g, new.list[g])
             /\ CutAt(g, new.list[g], block)
             /\ g \in new.hashed => EndPos(new.list[g]) = Size[g]
  <2>1. CASE g = f
    BY <2>1, <1>2, <1>3
  <2>2. CASE g # f
    BY <2>2, <1>3 DEF NetOK
  <2> QED BY <2>1, <2>2
<1> QED BY <1>4, <1>5 DEF NetOK

\* A file with all its pieces is hashed, and leaves the queue.
LEMMA NetDone ==
  ASSUME NEW net, NEW block \in Nat \ {0}, NetOK(net, block),
         net.list \in [Files -> Seq(Pieces)], NEW f \in Files,
         Len(net.list[f]) = get_nchunks(f, block),
         NEW rest, RestOK(net, f, rest),
         NEW new, new.queue = rest, new.hashed = net.hashed \union {f},
         new.list = net.list
  PROVE  NetOK(new, block)
<1>1. EndPos(net.list[f]) = Size[f]
  BY CutEnd DEF NetOK
<1> QED BY <1>1 DEF NetOK, RestOK

\* The file at the head of a queue, and the rest a job captures.
LEMMA HeadProps ==
  ASSUME NEW net, NEW block, NetOK(net, block), net.queue \in Seq(Files), net.queue # <<>>
  PROVE  /\ Head(net.queue) \in Files
         /\ Head(net.queue) \in ToSet(net.queue)
         /\ Head(net.queue) \notin net.hashed
         /\ Tail(net.queue) \in Seq(Files)
         /\ ToSet(Tail(net.queue)) \subseteq ToSet(net.queue)
         /\ RestOK(net, Head(net.queue), Tail(net.queue))
<1> DEFINE q == net.queue
<1>1. /\ Head(q) \in Files
      /\ Tail(q) \in Seq(Files)
      /\ ToSet(q) = {Head(q)} \union ToSet(Tail(q))
      /\ IsInjective(q) => IsInjective(Tail(q)) /\ Head(q) \notin ToSet(Tail(q))
  BY TailProps
<1>2. IsInjective(q) /\ ToSet(q) \intersect net.hashed = {}
  BY DEF NetOK
<1> HIDE DEF q
<1>3. RestOK(net, Head(q), Tail(q))
  BY <1>1, <1>2 DEF RestOK
<1>4. Head(q) \notin net.hashed
  BY <1>1, <1>2
<1> QED BY <1>1, <1>3, <1>4 DEF q

\* A captured rest becomes the queue.
LEMMA NetQueue ==
  ASSUME NEW net, NEW block, NetOK(net, block), NEW f, NEW rest, RestOK(net, f, rest),
         NEW new, new.queue = rest, new.hashed = net.hashed, new.list = net.list
  PROVE  NetOK(new, block)
  BY DEF NetOK, RestOK

\* The files found by a scan go in front of the queue.
Found(net, found, new) ==
  /\ new.queue = Reverse(found) \o net.queue
  /\ new.hashed = net.hashed
  /\ \A f \in Files :
       \/ new.list[f] = net.list[f]
       \/ f \in ToSet(found) /\ new.list[f] = <<>>

\* The queue once the files found have gone in front of it.
Shared(net, block, known, files, found, new) ==
  /\ NetOK(new, block)
  /\ new.queue \in Seq(Files)
  /\ ToSet(new.queue) = ToSet(found) \union ToSet(net.queue)
  /\ ToSet(found) \intersect known = {}
  /\ ToSet(found) \subseteq Files

\* The files found by a scan were neither in the queue nor hashed.
LEMMA NetShare ==
  ASSUME NEW net, NEW block \in Nat \ {0}, NetOK(net, block),
         net.queue \in Seq(Files), net.list \in [Files -> Seq(Pieces)],
         NEW known, ToSet(net.queue) \union net.hashed \subseteq known,
         NEW files \in Seq(Files), IsInjective(files),
         NEW found, found = Without(files, known),
         NEW new, Found(net, found, new)
  PROVE  Shared(net, block, known, files, found, new)
<1>1. /\ found \in Seq(Files)
      /\ ToSet(found) = ToSet(files) \ known
      /\ IsInjective(found)
  BY WithoutProps
<1>2. /\ Reverse(found) \in Seq(Files)
      /\ ToSet(Reverse(found)) = ToSet(found)
      /\ IsInjective(Reverse(found))
  BY <1>1, ReverseProps
<1>3. ToSet(found) \intersect ToSet(net.queue) = {}
  BY <1>1
<1>4. /\ new.queue \in Seq(Files)
      /\ ToSet(new.queue) = ToSet(found) \union ToSet(net.queue)
      /\ IsInjective(new.queue)
  BY <1>2, <1>3, ConcatProps DEF NetOK, Found
<1>5. ToSet(new.queue) \intersect new.hashed = {}
  BY <1>1, <1>4 DEF NetOK, Found
<1>6. ASSUME NEW f \in Files
      PROVE  /\ Contiguous(f, new.list[f])
             /\ CutAt(f, new.list[f], block)
             /\ f \in new.hashed => EndPos(new.list[f]) = Size[f]
  <2>1. CASE new.list[f] = net.list[f]
    BY <2>1 DEF NetOK, Found
  <2>2. CASE f \in ToSet(found) /\ new.list[f] = <<>>
    <3>1. f \notin new.hashed
      BY <2>2, <1>4, <1>5
    <3> QED BY <2>2, <3>1, ContiguousEmpty, CutEmpty
  <2> QED BY <2>1, <2>2 DEF Found
<1>7. ToSet(found) \subseteq Files
  BY <1>1, SeqFacts
<1> QED BY <1>1, <1>4, <1>5, <1>6, <1>7 DEF NetOK, Shared

-----------------------------------------------------------------------------
(* donkeyShare *)

\* A step of donkey from d to e.
DonkeyStep(d, e) ==
  /\ e \in Daemons
  /\ OneEach(Queued(e))
  /\ DonkeyInv(e.donkey, JobsBy(Queued(e), "donkey"), gone)
  /\ OthersKeep("donkey", d, e)
  /\ KeepUploads(d, e)
  /\ e.dc = d.dc

\* The queue of donkey when no job of donkey is in the fifo.
DonkeyFree(d) ==
  /\ d \in Daemons
  /\ OneEach(Queued(d))
  /\ JobsBy(Queued(d), "donkey") = {}
  /\ NetOK(d.donkey, Md4Block)

\* d with another state of donkey.
WithDonkey(d, net) == [d EXCEPT !.donkey = net]

\* What changes and what stays when only the donkey part of d does.
LEMMA SetDonkey ==
  ASSUME NEW d \in Daemons, NEW net \in Donkeys
  PROVE  /\ WithDonkey(d, net) \in Daemons
         /\ WithDonkey(d, net).donkey = net
         /\ WithDonkey(d, net).dc = d.dc
         /\ WithDonkey(d, net).current_job = d.current_job
         /\ Queued(WithDonkey(d, net)) = Queued(d)
         /\ KeepUploads(d, WithDonkey(d, net))
         /\ OthersKeep("donkey", d, WithDonkey(d, net))
<1> DEFINE e == WithDonkey(d, net)
<1>1. e \in Daemons
  BY DEF WithDonkey, Daemons
<1>2. e.donkey = net
  BY DEF WithDonkey, Daemons
<1>3. /\ e.dc = d.dc
      /\ e.current = d.current
      /\ e.current_job = d.current_job
      /\ e.fifo = d.fifo
      /\ KeepUploads(d, e)
  BY DEF WithDonkey, KeepUploads
<1>4. Queued(e) = Queued(d)
  BY ONLY <1>3 DEF Queued
<1>5. OthersKeep("donkey", d, e)
  BY ONLY <1>3, <1>4 DEF OthersKeep
<1> QED BY <1>1, <1>2, <1>3, <1>4, <1>5

\* job_creater on a file of shared_files, when donkey has no job.
LEMMA JobCreaterStep ==
  ASSUME NEW d, DonkeyFree(d), NEW f \in Files, f \in ToSet(d.donkey.queue),
         f \notin d.donkey.hashed, NEW rest \in Seq(Files), RestOK(d.donkey, f, rest)
  PROVE  DonkeyStep(d, job_creater(d, f, rest))
<1> DEFINE net == d.donkey
<1>1. /\ d \in Daemons
      /\ net \in Donkeys
      /\ net.queue \in Seq(Files)
      /\ net.list \in [Files -> Seq(Pieces)]
  BY DEF DonkeyFree, Daemons, Donkeys
<1>2. CASE f \in gone
  <2> DEFINE new == [net EXCEPT !.queue = rest]
             e == WithDonkey(d, new)
  <2>1. job_creater(d, f, rest) = e
    BY <1>2, Zenon DEF job_creater, WithDonkey
  <2>2. new \in Donkeys /\ new.queue = rest /\ new.hashed = net.hashed /\ new.list = net.list
    BY <1>1 DEF Donkeys
  <2> HIDE DEF new
  <2>3. /\ e \in Daemons
        /\ e.donkey = new
        /\ e.dc = d.dc
        /\ Queued(e) = Queued(d)
        /\ KeepUploads(d, e)
        /\ OthersKeep("donkey", d, e)
    BY <1>1, <2>2, SetDonkey
  <2> HIDE DEF e
  <2>4. NetOK(new, Md4Block)
    BY <2>2, NetQueue DEF DonkeyFree
  <2>5. DonkeyInv(new, {}, gone)
    BY <2>4, <1>2 DEF DonkeyInv
  <2> QED BY <2>1, <2>3, <2>5 DEF DonkeyStep, DonkeyFree
<1>3. CASE f \notin gone
  <2> DEFINE new == [net EXCEPT !.computing = TRUE]
             c == WithDonkey(d, new)
             piece == Piece(f, EndPos(net.list[f]), Md4Block)
             job == Job("donkey", f, "ED2K", piece, <<>>, rest)
             e == Compute(c, job)
  <2>1. job_creater(d, f, rest) = e
    BY <1>3, Zenon DEF job_creater, WithDonkey
  <2>2. /\ new \in Donkeys /\ new.queue = net.queue /\ new.hashed = net.hashed
        /\ new.list = net.list /\ new.computing = TRUE
    BY <1>1 DEF Donkeys
  <2>3. piece \in Pieces
    <3>1. EndPos(net.list[f]) \in Nat /\ EndPos(net.list[f]) <= Size[f]
      BY <1>1, EndPosProps, ContiguousProps DEF DonkeyFree, NetOK
    <3> QED BY <3>1, PieceProps, SizeAssumption
  <2> HIDE DEF new, piece
  <2>4. /\ c \in Daemons
        /\ c.donkey = new
        /\ c.dc = d.dc
        /\ Queued(c) = Queued(d)
        /\ KeepUploads(d, c)
        /\ OthersKeep("donkey", d, c)
    BY <1>1, <2>2, SetDonkey
  <2> HIDE DEF c
  <2>5. /\ job \in Jobs /\ job.by = "donkey" /\ job.file = f
        /\ job.piece = piece /\ job.rest = rest
    <3>1. job = [by |-> "donkey", file |-> f, id |-> "ED2K", piece |-> piece,
                 hashes |-> <<>>, rest |-> rest]
      BY Zenon DEF Job
    <3>2. "donkey" \in Clients /\ "ED2K" \in Ids /\ <<>> \in Seq(Pieces)
      BY DEF Clients, Ids
    <3> HIDE DEF job
    <3> QED BY <2>3, <3>1, <3>2 DEF Jobs
  <2> HIDE DEF job
  <2>6. /\ e \in Daemons
        /\ OneEach(Queued(e))
        /\ JobsBy(Queued(e), "donkey") = {job}
        /\ OthersKeep("donkey", c, e)
        /\ KeepUploads(c, e)
        /\ e.donkey = c.donkey
        /\ e.dc = c.dc
    <3>1. OneEach(Queued(c)) /\ JobsBy(Queued(c), job.by) = {}
      BY <2>4, <2>5 DEF DonkeyFree
    <3> QED BY <2>4, <2>5, <3>1, ComputeProps
  <2> HIDE DEF e
  <2>7. OthersKeep("donkey", d, e) /\ KeepUploads(d, e)
    BY <2>4, <2>6 DEF OthersKeep, KeepUploads
  <2>8. NetJob(new, Md4Block, job)
    BY <2>2, <2>5 DEF NetJob, RestOK, piece
  <2>9. NetOK(new, Md4Block)
    BY <2>2 DEF NetOK, DonkeyFree
  <2>10. DonkeyInv(new, {job}, gone)
    BY <2>2, <2>5, <2>8, <2>9 DEF DonkeyInv
  <2> QED BY <2>1, <2>4, <2>6, <2>7, <2>10 DEF DonkeyStep
<1> QED BY <1>2, <1>3

\* The state of donkey between two steps of its handler.
DonkeyReady(d) ==
  /\ d \in Daemons
  /\ OneEach(Queued(d))
  /\ NetOK(d.donkey, Md4Block)
  /\ IF d.donkey.computing
     THEN DonkeyInv(d.donkey, JobsBy(Queued(d), "donkey"), gone)
     ELSE JobsBy(Queued(d), "donkey") = {}

\* check_shared_files
LEMMA CheckStep ==
  ASSUME NEW d, DonkeyReady(d)
  PROVE  DonkeyStep(d, check_shared_files(d))
<1>1. CASE d.donkey.computing \/ d.donkey.queue = <<>>
  <2>1. check_shared_files(d) = d
    BY <1>1 DEF check_shared_files
  <2>2. DonkeyInv(d.donkey, JobsBy(Queued(d), "donkey"), gone)
    BY <1>1 DEF DonkeyReady, DonkeyInv
  <2>3. DonkeyStep(d, d)
    BY <2>2 DEF DonkeyStep, DonkeyReady, OthersKeep, KeepUploads
  <2> QED BY <2>1, <2>3
<1>2. CASE ~ (d.donkey.computing \/ d.donkey.queue = <<>>)
  <2>1. check_shared_files(d) = job_creater(d, Head(d.donkey.queue), Tail(d.donkey.queue))
    BY <1>2 DEF check_shared_files
  <2>2. d.donkey.queue \in Seq(Files)
    BY DEF DonkeyReady, Daemons, Donkeys
  <2>3. DonkeyFree(d)
    BY <1>2 DEF DonkeyReady, DonkeyFree
  <2>4. /\ Head(d.donkey.queue) \in Files
        /\ Head(d.donkey.queue) \in ToSet(d.donkey.queue)
        /\ Head(d.donkey.queue) \notin d.donkey.hashed
        /\ Tail(d.donkey.queue) \in Seq(Files)
        /\ RestOK(d.donkey, Head(d.donkey.queue), Tail(d.donkey.queue))
    BY <1>2, <2>2, HeadProps DEF DonkeyReady
  <2> QED BY <2>1, <2>3, <2>4, JobCreaterStep
<1> QED BY <1>1, <1>2

\* The invariant of donkey lets check_shared_files run.
LEMMA DonkeyInvReady ==
  ASSUME NEW d \in Daemons, OneEach(Queued(d)),
         DonkeyInv(d.donkey, JobsBy(Queued(d), "donkey"), gone)
  PROVE  DonkeyReady(d)
  BY DEF DonkeyReady, DonkeyInv, NetJob

\* Two steps of donkey are one.
LEMMA DonkeyStepTwice ==
  ASSUME NEW d, NEW c, NEW e,
         OthersKeep("donkey", d, c), KeepUploads(d, c), c.dc = d.dc, DonkeyStep(c, e)
  PROVE  DonkeyStep(d, e)
  BY DEF DonkeyStep, OthersKeep, KeepUploads

\* The handler of a job of donkey: the rest it captured is a queue without
\* hashed files although scans added to shared_files meanwhile.
LEMMA DonkeyHandlerStep ==
  ASSUME NEW d, DonkeyFree(d), NEW job \in Jobs, NetJob(d.donkey, Md4Block, job),
         job.file \in ToSet(d.donkey.queue)
  PROVE  DonkeyStep(d, DonkeyHandler(d, job))
<1> DEFINE f == job.file
           net == d.donkey
           list == WithPiece(net.list, f, job.piece)
           new == [net EXCEPT !.computing = FALSE, !.list = list]
           c == WithDonkey(d, new)
<1>1. /\ d \in Daemons
      /\ net \in Donkeys
      /\ net.list \in [Files -> Seq(Pieces)]
      /\ f \in Files
      /\ job.rest \in Seq(Files)
      /\ Md4Block \in Nat \ {0}
  BY SizeAssumption DEF DonkeyFree, Daemons, Donkeys, Jobs
<1>2. new.list = list /\ new.queue = net.queue /\ new.hashed = net.hashed /\ ~ new.computing
  BY <1>1 DEF Donkeys
<1>3. /\ f \notin net.hashed
      /\ RestOK(net, f, job.rest)
      /\ job.piece = Piece(f, EndPos(net.list[f]), Md4Block)
  BY DEF NetJob
<1>4. NetOK(new, Md4Block) /\ new.list \in [Files -> Seq(Pieces)]
  <2>1. NetOK(net, Md4Block)
    BY DEF DonkeyFree
  <2>2. new.list = WithPiece(net.list, f, job.piece)
    BY <1>2
  <2> HIDE DEF new, list, net
  <2> QED BY <2>1, <2>2, <1>1, <1>2, <1>3, NetAppend
<1>5. new \in Donkeys
  BY <1>1, <1>2, <1>4 DEF Donkeys
<1>6. c = [d EXCEPT !.donkey.computing = FALSE, !.donkey.list[f] = Append(@, job.piece)]
  BY <1>1 DEF WithDonkey, WithPiece, Daemons, Donkeys
<1>7. DonkeyHandler(d, job) =
        IF Len(c.donkey.list[f]) # get_nchunks(f, Md4Block)
        THEN check_shared_files(job_creater(c, f, job.rest))
        ELSE IF f \in gone THEN c ELSE check_shared_files(DonkeyDone(c, f, job.rest))
  <2> DEFINE h == [d EXCEPT !.donkey.computing = FALSE,
                            !.donkey.list[f] = Append(@, job.piece)]
  <2>1. DonkeyHandler(d, job) =
          IF Len(h.donkey.list[f]) # get_nchunks(f, Md4Block)
          THEN check_shared_files(job_creater(h, f, job.rest))
          ELSE IF f \in gone THEN h ELSE check_shared_files(DonkeyDone(h, f, job.rest))
    BY Zenon DEF DonkeyHandler
  <2>2. c = h
    BY <1>6, Zenon
  <2> HIDE DEF c, h
  <2> QED BY <2>1, <2>2, Zenon
<1> HIDE DEF new
<1>8. /\ c \in Daemons
      /\ c.donkey = new
      /\ c.dc = d.dc
      /\ Queued(c) = Queued(d)
      /\ KeepUploads(d, c)
      /\ OthersKeep("donkey", d, c)
  BY <1>1, <1>5, SetDonkey
<1> HIDE DEF c
<1>9. DonkeyFree(c)
  BY <1>4, <1>8 DEF DonkeyFree
<1>10. RestOK(new, f, job.rest)
  BY <1>2, <1>3 DEF RestOK
<1>11. CASE Len(c.donkey.list[f]) # get_nchunks(f, Md4Block)
  <2> DEFINE e == job_creater(c, f, job.rest)
  <2>1. DonkeyStep(c, e)
    BY <1>1, <1>2, <1>3, <1>8, <1>9, <1>10, JobCreaterStep
  <2> HIDE DEF e
  <2>2. DonkeyReady(e)
    BY <2>1, DonkeyInvReady DEF DonkeyStep
  <2>3. DonkeyStep(e, check_shared_files(e))
    BY <2>2, CheckStep
  <2>4. DonkeyStep(c, check_shared_files(e))
    BY <2>1, <2>3, DonkeyStepTwice DEF DonkeyStep
  <2>5. DonkeyStep(d, check_shared_files(e))
    BY <2>4, <1>8, DonkeyStepTwice
  <2> QED BY <2>5, <1>7, <1>11 DEF e
<1>12. CASE Len(c.donkey.list[f]) = get_nchunks(f, Md4Block) /\ f \in gone
  <2>1. DonkeyInv(new, {}, gone)
    BY <1>2, <1>4 DEF DonkeyInv
  <2>2. DonkeyStep(d, c)
    BY <2>1, <1>8, <1>9 DEF DonkeyStep, DonkeyFree
  <2> QED BY <2>2, <1>7, <1>12
<1>13. CASE Len(c.donkey.list[f]) = get_nchunks(f, Md4Block) /\ f \notin gone
  <2> DEFINE last == [new EXCEPT !.hashed = @ \union {f}, !.queue = job.rest]
             e == WithDonkey(c, last)
  <2>1. DonkeyDone(c, f, job.rest) = e
    BY <1>5, <1>8 DEF DonkeyDone, WithDonkey, Daemons, Donkeys
  <2>2. /\ last \in Donkeys /\ last.queue = job.rest /\ last.list = new.list
        /\ last.hashed = new.hashed \union {f} /\ ~ last.computing
    BY <1>1, <1>2, <1>5 DEF Donkeys
  <2> HIDE DEF last
  <2>3. NetOK(last, Md4Block)
    BY <2>2, <1>1, <1>4, <1>8, <1>10, <1>13, NetDone
  <2>4. /\ e \in Daemons
        /\ e.donkey = last
        /\ e.dc = c.dc
        /\ Queued(e) = Queued(c)
        /\ KeepUploads(c, e)
        /\ OthersKeep("donkey", c, e)
    BY <1>8, <2>2, SetDonkey
  <2> HIDE DEF e
  <2>5. DonkeyReady(e)
    BY <2>2, <2>3, <2>4, <1>9 DEF DonkeyReady, DonkeyFree
  <2>6. DonkeyStep(e, check_shared_files(e))
    BY <2>5, CheckStep
  <2>7. DonkeyStep(c, check_shared_files(e))
    BY <2>4, <2>6, DonkeyStepTwice
  <2>8. DonkeyStep(d, check_shared_files(e))
    BY <2>7, <1>8, DonkeyStepTwice
  <2> QED BY <2>1, <2>8, <1>7, <1>13
<1> QED BY <1>11, <1>12, <1>13

\* op_network_share of donkey, while a job may run.
LEMMA DonkeyShareStep ==
  ASSUME NEW net \in Donkeys, NEW jobs, jobs \subseteq Jobs, DonkeyInv(net, jobs, gone),
         NEW files \in Seq(Files), IsInjective(files)
  PROVE  DonkeyShare(net, files) \in Donkeys /\ DonkeyInv(DonkeyShare(net, files), jobs, gone)
<1> DEFINE known == DonkeyKnows(net)
           found == Without(files, known)
           q == Reverse(found) \o net.queue
           list == [f \in Files |-> IF f \in ToSet(found) THEN <<>> ELSE net.list[f]]
           new == [net EXCEPT !.queue = q, !.list = list]
<1>1. DonkeyShare(net, files) = new
  BY Zenon DEF DonkeyShare
<1>2. net.queue \in Seq(Files) /\ net.list \in [Files -> Seq(Pieces)] /\ net.hashed \subseteq Files
  BY DEF Donkeys
<1>3. ToSet(net.queue) \union net.hashed = known
  BY DEF DonkeyKnows
<1> HIDE DEF known, found
<1>4. new.queue = q /\ new.list = list /\ new.hashed = net.hashed /\ new.computing = net.computing
  BY DEF Donkeys
<1>5. ASSUME NEW f \in Files
      PROVE  /\ f \in ToSet(found) => list[f] = <<>>
             /\ f \notin ToSet(found) => list[f] = net.list[f]
  OBVIOUS
<1>6. list \in [Files -> Seq(Pieces)]
  BY <1>2
<1>7. /\ NetOK(new, Md4Block)
      /\ new.queue \in Seq(Files)
      /\ ToSet(new.queue) = ToSet(found) \union ToSet(net.queue)
      /\ ToSet(found) \intersect known = {}
  <2>1. found = Without(files, known) /\ Md4Block \in Nat \ {0}
    BY SizeAssumption DEF found
  <2> HIDE DEF new, list
  <2>2. NetOK(net, Md4Block)
    BY DEF DonkeyInv
  <2>3. \A f \in Files : new.list[f] = net.list[f] \/ (f \in ToSet(found) /\ new.list[f] = <<>>)
    <3> SUFFICES ASSUME NEW f \in Files
                 PROVE  new.list[f] = net.list[f] \/ (f \in ToSet(found) /\ new.list[f] = <<>>)
      OBVIOUS
    <3>1. new.list[f] = list[f]
      BY <1>4
    <3>2. CASE f \in ToSet(found)
      BY <3>1, <3>2, <1>5
    <3>3. CASE f \notin ToSet(found)
      BY <3>1, <3>3, <1>5
    <3> QED BY <3>2, <3>3
  <2> HIDE DEF q
  <2>4. Found(net, found, new)
    <3>1. new.queue = Reverse(found) \o net.queue /\ new.hashed = net.hashed
      BY <1>4 DEF q
    <3> QED BY <2>3, <3>1 DEF Found
  <2>5. ToSet(net.queue) \union net.hashed \subseteq known
    BY <1>3
  <2>6. Shared(net, Md4Block, known, files, found, new)
    BY <2>1, <2>2, <2>4, <2>5, <1>2, NetShare
  <2> QED BY <2>6 DEF Shared
<1>8. new \in Donkeys
  BY <1>4, <1>6, <1>7 DEF Donkeys
<1> HIDE DEF new, list, q
<1>9. ASSUME NEW job \in jobs
      PROVE  NetJob(new, Md4Block, job) /\ job.file \in ToSet(new.queue)
  <2>1. NetJob(net, Md4Block, job) /\ job.file \in ToSet(net.queue) /\ job.file \in Files
    BY DEF DonkeyInv, Jobs
  <2>2. job.file \notin ToSet(found)
    BY <2>1, <1>3, <1>7
  <2>3. new.list[job.file] = net.list[job.file]
    BY <2>1, <2>2, <1>4, <1>5
  <2> QED BY <2>1, <2>3, <1>4, <1>7 DEF NetJob, RestOK
<1>10. DonkeyInv(new, jobs, gone)
  BY <1>4, <1>7, <1>9 DEF DonkeyInv
<1> QED BY <1>1, <1>8, <1>10

-----------------------------------------------------------------------------
(* dcShared *)

\* d with another state of dc.
WithDc(d, net) == [d EXCEPT !.dc = net]

\* A step of dc from d to e.
DcStep(d, e) ==
  /\ e \in Daemons
  /\ OneEach(Queued(e))
  /\ DcInv(e.dc, JobsBy(Queued(e), "dc"), gone)
  /\ OthersKeep("dc", d, e)
  /\ KeepUploads(d, e)
  /\ e.donkey = d.donkey

\* dc_files_to_hash when no job of dc is in the fifo.
DcFree(d) ==
  /\ d \in Daemons
  /\ OneEach(Queued(d))
  /\ JobsBy(Queued(d), "dc") = {}
  /\ NetOK(d.dc, TigerBlock)
  /\ ToSet(d.dc.queue) \union d.dc.hashed \subseteq d.dc.known

\* What changes and what stays when only the dc part of d does.
LEMMA SetDc ==
  ASSUME NEW d \in Daemons, NEW net \in Dcs
  PROVE  /\ WithDc(d, net) \in Daemons
         /\ WithDc(d, net).dc = net
         /\ WithDc(d, net).donkey = d.donkey
         /\ WithDc(d, net).current_job = d.current_job
         /\ Queued(WithDc(d, net)) = Queued(d)
         /\ KeepUploads(d, WithDc(d, net))
         /\ OthersKeep("dc", d, WithDc(d, net))
<1> DEFINE e == WithDc(d, net)
<1>1. e \in Daemons
  BY DEF WithDc, Daemons
<1>2. e.dc = net
  BY DEF WithDc, Daemons
<1>3. /\ e.donkey = d.donkey
      /\ e.current = d.current
      /\ e.current_job = d.current_job
      /\ e.fifo = d.fifo
      /\ KeepUploads(d, e)
  BY DEF WithDc, KeepUploads
<1>4. Queued(e) = Queued(d)
  BY ONLY <1>3 DEF Queued
<1>5. OthersKeep("dc", d, e)
  BY ONLY <1>3, <1>4 DEF OthersKeep
<1> QED BY <1>1, <1>2, <1>3, <1>4, <1>5

\* dc_check_hashed_files
LEMMA DcCheckStep ==
  ASSUME NEW d \in Daemons, OneEach(Queued(d)),
         DcInv(d.dc, JobsBy(Queued(d), "dc"), gone)
  PROVE  DcStep(d, dc_check_hashed_files(d))
<1> DEFINE net == d.dc
           f == Head(net.queue)
           rest == Tail(net.queue)
<1>1. /\ net \in Dcs
      /\ net.queue \in Seq(Files)
      /\ net.list \in [Files -> Seq(Pieces)]
      /\ TigerBlock \in Nat \ {0}
  BY SizeAssumption DEF Daemons, Dcs
<1>2. NetOK(net, TigerBlock) /\ ToSet(net.queue) \union net.hashed \subseteq net.known
  BY DEF DcInv
<1>3. CASE net.computing \/ net.queue = <<>>
  <2>1. dc_check_hashed_files(d) = d
    BY <1>3 DEF dc_check_hashed_files
  <2>2. DcStep(d, d)
    BY DEF DcStep, OthersKeep, KeepUploads
  <2> QED BY <2>1, <2>2
<1>4. CASE ~ (net.computing \/ net.queue = <<>>)
  <2>1. /\ f \in Files
        /\ f \in ToSet(net.queue)
        /\ f \notin net.hashed
        /\ rest \in Seq(Files)
        /\ ToSet(rest) \subseteq ToSet(net.queue)
        /\ RestOK(net, f, rest)
    BY <1>1, <1>2, <1>4, HeadProps
  <2>2. JobsBy(Queued(d), "dc") = {}
    BY <1>4 DEF DcInv, NetJob
  <2>3. CASE f \in gone
    <3> DEFINE new == [net EXCEPT !.queue = rest]
               e == WithDc(d, new)
    <3>1. dc_check_hashed_files(d) = e
      BY <1>4, <2>3, Zenon DEF dc_check_hashed_files, WithDc
    <3>2. /\ new \in Dcs /\ new.queue = rest /\ new.hashed = net.hashed
          /\ new.list = net.list /\ new.known = net.known
      BY <1>1, <2>1 DEF Dcs
    <3> HIDE DEF new
    <3>3. /\ e \in Daemons
          /\ e.dc = new
          /\ e.donkey = d.donkey
          /\ Queued(e) = Queued(d)
          /\ KeepUploads(d, e)
          /\ OthersKeep("dc", d, e)
      BY <3>2, SetDc
    <3> HIDE DEF e
    <3>4. NetOK(new, TigerBlock)
      BY <1>2, <2>1, <3>2, NetQueue
    <3>5. DcInv(new, {}, gone)
      BY <1>2, <2>1, <2>3, <3>2, <3>4 DEF DcInv
    <3> QED BY <2>2, <3>1, <3>3, <3>5 DEF DcStep
  <2>4. CASE f \notin gone
    <3> DEFINE new == [net EXCEPT !.computing = TRUE]
               c == WithDc(d, new)
               piece == Piece(f, EndPos(net.list[f]), TigerBlock)
               job == Job("dc", f, "TIGER", piece, <<>>, rest)
               e == Compute(c, job)
    <3>1. dc_check_hashed_files(d) = e
      BY <1>4, <2>4, Zenon DEF dc_check_hashed_files, WithDc
    <3>2. /\ new \in Dcs /\ new.queue = net.queue /\ new.hashed = net.hashed
          /\ new.list = net.list /\ new.known = net.known /\ new.computing = TRUE
      BY <1>1 DEF Dcs
    <3>3. piece \in Pieces
      <4>1. EndPos(net.list[f]) \in Nat /\ EndPos(net.list[f]) <= Size[f]
        BY <1>1, <1>2, <2>1, EndPosProps, ContiguousProps DEF NetOK
      <4> QED BY <1>1, <2>1, <4>1, PieceProps
    <3> HIDE DEF new, piece, f, rest
    <3>4. /\ c \in Daemons
          /\ c.dc = new
          /\ c.donkey = d.donkey
          /\ Queued(c) = Queued(d)
          /\ KeepUploads(d, c)
          /\ OthersKeep("dc", d, c)
      BY <3>2, SetDc
    <3> HIDE DEF c
    <3>5. /\ job \in Jobs /\ job.by = "dc" /\ job.file = f
          /\ job.piece = piece /\ job.rest = rest
      <4>1. job = [by |-> "dc", file |-> f, id |-> "TIGER", piece |-> piece,
                   hashes |-> <<>>, rest |-> rest]
        BY Zenon DEF Job
      <4>2. "dc" \in Clients /\ "TIGER" \in Ids /\ <<>> \in Seq(Pieces)
        BY DEF Clients, Ids
      <4> HIDE DEF job
      <4> QED BY <2>1, <3>3, <4>1, <4>2 DEF Jobs
    <3> HIDE DEF job
    <3>6. /\ e \in Daemons
          /\ OneEach(Queued(e))
          /\ JobsBy(Queued(e), "dc") = {job}
          /\ OthersKeep("dc", c, e)
          /\ KeepUploads(c, e)
          /\ e.donkey = c.donkey
          /\ e.dc = c.dc
      <4>1. OneEach(Queued(c)) /\ JobsBy(Queued(c), job.by) = {}
        BY <2>2, <3>4, <3>5
      <4> QED BY <3>4, <3>5, <4>1, ComputeProps
    <3> HIDE DEF e
    <3>7. OthersKeep("dc", d, e) /\ KeepUploads(d, e)
      BY <3>4, <3>6 DEF OthersKeep, KeepUploads
    <3>8. NetJob(new, TigerBlock, job)
      BY <2>1, <3>2, <3>5 DEF NetJob, RestOK, piece
    <3>9. NetOK(new, TigerBlock)
      BY <1>2, <3>2 DEF NetOK
    <3>10. ToSet(job.rest) \union {job.file} \subseteq new.known
      BY <1>2, <2>1, <3>2, <3>5
    <3>11. DcInv(new, {job}, gone)
      BY <1>2, <3>2, <3>5, <3>8, <3>9, <3>10 DEF DcInv
    <3> QED BY <3>1, <3>4, <3>6, <3>7, <3>11 DEF DcStep
  <2> QED BY <2>3, <2>4
<1> QED BY <1>3, <1>4

\* The handler of a job of dc.
LEMMA DcHandlerStep ==
  ASSUME NEW d, DcFree(d), NEW job \in Jobs, NetJob(d.dc, TigerBlock, job),
         ToSet(job.rest) \union {job.file} \subseteq d.dc.known
  PROVE  DcStep(d, DcHandler(d, job))
<1> DEFINE f == job.file
           net == d.dc
           list == WithPiece(net.list, f, job.piece)
           new == [net EXCEPT !.computing = FALSE, !.list = list]
           c == WithDc(d, new)
           last == [new EXCEPT !.hashed = @ \union {f}, !.queue = job.rest]
           e == WithDc(d, last)
<1>1. /\ d \in Daemons
      /\ net \in Dcs
      /\ net.list \in [Files -> Seq(Pieces)]
      /\ f \in Files
      /\ job.rest \in Seq(Files)
      /\ TigerBlock \in Nat \ {0}
  BY SizeAssumption DEF DcFree, Daemons, Dcs, Jobs
<1>2. /\ new.list = list /\ new.queue = net.queue /\ new.hashed = net.hashed
      /\ new.known = net.known /\ ~ new.computing
  BY <1>1 DEF Dcs
<1>3. /\ f \notin net.hashed
      /\ RestOK(net, f, job.rest)
      /\ job.piece = Piece(f, EndPos(net.list[f]), TigerBlock)
  BY DEF NetJob
<1>4. NetOK(new, TigerBlock) /\ new.list \in [Files -> Seq(Pieces)]
  <2>1. NetOK(net, TigerBlock)
    BY DEF DcFree
  <2>2. new.list = WithPiece(net.list, f, job.piece)
    BY <1>2
  <2> HIDE DEF new, list, net
  <2> QED BY <2>1, <2>2, <1>1, <1>2, <1>3, NetAppend
<1>5. new \in Dcs
  BY <1>1, <1>2, <1>4 DEF Dcs
<1>6. DcHandler(d, job) =
        IF Len(new.list[f]) = get_nchunks(f, TigerBlock) THEN e ELSE c
  <2> DEFINE h == [d EXCEPT !.dc.computing = FALSE, !.dc.list[f] = Append(@, job.piece)]
  <2>1. DcHandler(d, job) =
          IF Len(h.dc.list[f]) = get_nchunks(f, TigerBlock)
          THEN [h EXCEPT !.dc.hashed = @ \union {f}, !.dc.queue = job.rest]
          ELSE h
    BY Zenon DEF DcHandler
  <2>2. c = h
    BY <1>1 DEF WithDc, WithPiece, Daemons, Dcs
  <2>3. c.dc = new
    BY <1>1, <1>5, SetDc
  <2> HIDE DEF h, new
  <2>4. [c EXCEPT !.dc.hashed = @ \union {f}, !.dc.queue = job.rest] = e
    BY <1>1, <1>5 DEF WithDc, Daemons, Dcs
  <2> HIDE DEF c, e
  <2> QED BY <2>1, <2>2, <2>3, <2>4, Zenon
<1>7. /\ last \in Dcs /\ last.queue = job.rest /\ last.list = new.list
      /\ last.hashed = new.hashed \union {f} /\ last.known = new.known
      /\ ~ last.computing
  BY <1>1, <1>2, <1>5 DEF Dcs
<1> HIDE DEF new, last
<1>8. RestOK(new, f, job.rest)
  BY <1>2, <1>3 DEF RestOK
<1>9. JobsBy(Queued(d), "dc") = {} /\ OneEach(Queued(d))
      /\ ToSet(net.queue) \union net.hashed \subseteq net.known
  BY DEF DcFree
<1>10. CASE Len(new.list[f]) = get_nchunks(f, TigerBlock)
  <2>1. NetOK(last, TigerBlock)
    BY <1>1, <1>4, <1>7, <1>8, <1>10, NetDone
  <2>2. DcInv(last, {}, gone)
    BY <2>1, <1>2, <1>7, <1>9 DEF DcInv
  <2>3. /\ e \in Daemons
        /\ e.dc = last
        /\ e.donkey = d.donkey
        /\ Queued(e) = Queued(d)
        /\ KeepUploads(d, e)
        /\ OthersKeep("dc", d, e)
    BY <1>1, <1>7, SetDc
  <2> HIDE DEF e
  <2> QED BY <2>2, <2>3, <1>6, <1>9, <1>10 DEF DcStep
<1>11. CASE Len(new.list[f]) # get_nchunks(f, TigerBlock)
  <2>1. DcInv(new, {}, gone)
    BY <1>2, <1>4, <1>9 DEF DcInv
  <2>2. /\ c \in Daemons
        /\ c.dc = new
        /\ c.donkey = d.donkey
        /\ Queued(c) = Queued(d)
        /\ KeepUploads(d, c)
        /\ OthersKeep("dc", d, c)
    BY <1>1, <1>5, SetDc
  <2> HIDE DEF c
  <2> QED BY <2>1, <2>2, <1>6, <1>9, <1>11 DEF DcStep
<1> QED BY <1>10, <1>11

\* op_network_share of Direct Connect, while a job may run.
LEMMA DcShareStep ==
  ASSUME NEW net \in Dcs, NEW jobs, jobs \subseteq Jobs, DcInv(net, jobs, gone),
         NEW files \in Seq(Files), IsInjective(files)
  PROVE  DcShare(net, files) \in Dcs /\ DcInv(DcShare(net, files), jobs, gone)
<1> DEFINE found == Without(files, net.known)
           q == Reverse(found) \o net.queue
           new == [net EXCEPT !.queue = q, !.known = @ \union ToSet(found)]
<1>1. DcShare(net, files) = new
  BY Zenon DEF DcShare
<1>2. /\ net.queue \in Seq(Files) /\ net.list \in [Files -> Seq(Pieces)]
      /\ net.hashed \subseteq Files /\ net.known \subseteq Files
  BY DEF Dcs
<1>3. NetOK(net, TigerBlock) /\ ToSet(net.queue) \union net.hashed \subseteq net.known
  BY DEF DcInv
<1>4. found = Without(files, net.known) /\ TigerBlock \in Nat \ {0}
  BY SizeAssumption
<1> HIDE DEF found
<1>5. /\ new.queue = q /\ new.list = net.list /\ new.hashed = net.hashed
      /\ new.computing = net.computing /\ new.known = net.known \union ToSet(found)
  BY DEF Dcs
<1>6. Found(net, found, new)
  BY <1>5 DEF Found
<1> HIDE DEF new, q
<1>7. /\ NetOK(new, TigerBlock)
      /\ new.queue \in Seq(Files)
      /\ ToSet(new.queue) = ToSet(found) \union ToSet(net.queue)
      /\ ToSet(found) \subseteq Files
  <2> DEFINE known == net.known
  <2>1. ToSet(net.queue) \union net.hashed \subseteq known /\ found = Without(files, known)
    BY <1>3, <1>4
  <2>2. net.queue \in Seq(Files) /\ net.list \in [Files -> Seq(Pieces)]
    BY <1>2
  <2>3. NetOK(net, TigerBlock) /\ TigerBlock \in Nat \ {0}
    BY <1>3, <1>4
  <2> HIDE DEF known
  <2>4. Shared(net, TigerBlock, known, files, found, new)
    BY <2>1, <2>2, <2>3, <1>6, NetShare
  <2> QED BY <2>4 DEF Shared
<1>8. new \in Dcs
  <2>1. new = [net EXCEPT !.queue = q, !.known = @ \union ToSet(found)]
    BY DEF new
  <2>2. q \in Seq(Files) /\ net.known \union ToSet(found) \subseteq Files
    BY <1>2, <1>5, <1>7
  <2> QED BY <2>1, <2>2 DEF Dcs
<1>9. \A job \in jobs : /\ NetJob(new, TigerBlock, job)
                        /\ ToSet(job.rest) \union {job.file} \subseteq new.known
  BY <1>5 DEF DcInv, NetJob, RestOK
<1>10. DcInv(new, jobs, gone)
  BY <1>3, <1>5, <1>7, <1>9 DEF DcInv
<1> QED BY <1>1, <1>8, <1>10

-----------------------------------------------------------------------------
(* The actions *)

\* The invariant of commonUploads depends on its own fields only.
LEMMA UploadsFrame ==
  ASSUME NEW d, NEW e, KeepUploads(d, e), NEW jobs, UploadsInv(d, jobs, gone)
  PROVE  UploadsInv(e, jobs, gone)
<1>1. CompleteUids(e)
  BY DEF KeepUploads, UploadsInv, CompleteUids
<1>2. Asked(e)
  BY DEF KeepUploads, UploadsInv, Asked
<1>3. \A job \in jobs : UploadsJob(e, job)
  BY DEF KeepUploads, UploadsInv, UploadsJob
<1>4. gone = {} => (e.current_job # None => jobs # {}) /\ MadeReady(e, jobs)
  BY DEF KeepUploads, UploadsInv, MadeReady
<1> QED BY <1>1, <1>2, <1>3, <1>4 DEF UploadsInv

\* A step of commonUploads keeps the invariant of the others.
LEMMA AfterUploads ==
  ASSUME NEW d, NEW e, UploadsStep(d, e),
         DonkeyInv(d.donkey, JobsBy(Queued(d), "donkey"), gone),
         DcInv(d.dc, JobsBy(Queued(d), "dc"), gone)
  PROVE  e \in Daemons /\ Inv(e, gone) /\ e.current = d.current
<1>1. /\ JobsBy(Queued(e), "donkey") = JobsBy(Queued(d), "donkey")
      /\ JobsBy(Queued(e), "dc") = JobsBy(Queued(d), "dc")
      /\ e.current = d.current
  BY DEF UploadsStep, OthersKeep, Clients
<1> QED BY <1>1 DEF UploadsStep, Inv

\* A step of donkey keeps the invariant of the others.
LEMMA AfterDonkey ==
  ASSUME NEW d, NEW e, DonkeyStep(d, e),
         UploadsInv(d, JobsBy(Queued(d), "uploads"), gone),
         DcInv(d.dc, JobsBy(Queued(d), "dc"), gone)
  PROVE  e \in Daemons /\ Inv(e, gone) /\ e.current = d.current
<1>1. /\ JobsBy(Queued(e), "uploads") = JobsBy(Queued(d), "uploads")
      /\ JobsBy(Queued(e), "dc") = JobsBy(Queued(d), "dc")
      /\ e.current = d.current
  BY DEF DonkeyStep, OthersKeep, Clients
<1>2. UploadsInv(e, JobsBy(Queued(d), "uploads"), gone)
  BY UploadsFrame DEF DonkeyStep
<1> QED BY <1>1, <1>2 DEF DonkeyStep, Inv

\* A step of dc keeps the invariant of the others.
LEMMA AfterDc ==
  ASSUME NEW d, NEW e, DcStep(d, e),
         UploadsInv(d, JobsBy(Queued(d), "uploads"), gone),
         DonkeyInv(d.donkey, JobsBy(Queued(d), "donkey"), gone)
  PROVE  e \in Daemons /\ Inv(e, gone) /\ e.current = d.current
<1>1. /\ JobsBy(Queued(e), "uploads") = JobsBy(Queued(d), "uploads")
      /\ JobsBy(Queued(e), "donkey") = JobsBy(Queued(d), "donkey")
      /\ e.current = d.current
  BY DEF DcStep, OthersKeep, Clients
<1>2. UploadsInv(e, JobsBy(Queued(d), "uploads"), gone)
  BY UploadsFrame DEF DcStep
<1> QED BY <1>1, <1>2 DEF DcStep, Inv

\* The job that has run is handed to the handler of its client.
LEMMA FinishJobStep ==
  ASSUME NEW d \in Daemons, Inv(d, gone)
  PROVE  FinishJob(d) \in Daemons /\ Inv(FinishJob(d), gone) /\ FinishJob(d).current = None
<1> DEFINE job == d.current
           c == [d EXCEPT !.current = None]
<1>1. CASE job = None
  BY <1>1 DEF FinishJob
<1>2. CASE job # None
  <2>1. /\ job \in Jobs
        /\ Queued(d) = <<job>> \o d.fifo
        /\ d.fifo \in Seq(Jobs)
    BY <1>2, QueueFacts DEF Daemons
  <2>2. /\ c \in Daemons
        /\ c.current = None
        /\ c.fifo = d.fifo
        /\ c.donkey = d.donkey
        /\ c.dc = d.dc
        /\ KeepUploads(d, c)
    BY DEF Daemons, KeepUploads
  <2>3. FinishJob(d) = Handle(c, job)
    BY <1>2, Zenon DEF FinishJob
  <2> HIDE DEF c, job
  <2>4. Queued(c) = d.fifo
    BY <2>2, QueueFacts
  <2>5. /\ OneEach(Queued(c))
        /\ JobsBy(Queued(c), job.by) = {}
        /\ \A cl : JobsBy(Queued(d), cl)
                     = JobsBy(Queued(c), cl) \union (IF job.by = cl THEN {job} ELSE {})
    <3>1. OneEach(<<job>> \o d.fifo)
      BY <2>1 DEF Inv
    <3>2. /\ OneEach(d.fifo)
          /\ JobsBy(d.fifo, job.by) = {}
          /\ \A cl : JobsBy(<<job>> \o d.fifo, cl)
                       = JobsBy(d.fifo, cl) \union (IF job.by = cl THEN {job} ELSE {})
      BY <2>1, <3>1, JobsByFirst
    <3> QED BY <2>1, <2>4, <3>2
  <2>6. CASE job.by = "uploads"
    <3>1. /\ JobsBy(Queued(c), "uploads") = {}
          /\ JobsBy(Queued(d), "uploads") = {job}
          /\ JobsBy(Queued(c), "donkey") = JobsBy(Queued(d), "donkey")
          /\ JobsBy(Queued(c), "dc") = JobsBy(Queued(d), "dc")
      BY <2>5, <2>6
    <3>2. UploadsInv(d, {job}, gone)
      BY <3>1 DEF Inv
    <3>3. UploadsInv(c, {job}, gone)
      BY <3>2, <2>2, UploadsFrame
    <3>4. UploadsJob(c, job) /\ CompleteUids(c) /\ Asked(c)
      BY <3>3 DEF UploadsInv
    <3>5. gone = {} => ReadyBut(c, job.file, job.id)
      BY <3>3 DEF UploadsInv, MadeReady, ReadyBut
    <3>6. Serving(c, job.file, job.id)
      BY <2>1, <2>2, <2>5, <3>1, <3>4, <3>5 DEF Serving, UploadsJob, Jobs
    <3>7. UploadsStep(c, UploadsHandler(c, job))
      BY <2>1, <3>4, <3>6, UploadsHandlerStep
    <3>8. Handle(c, job) = UploadsHandler(c, job)
      BY <2>6 DEF Handle
    <3>9. DonkeyInv(c.donkey, JobsBy(Queued(c), "donkey"), gone)
      BY <2>2, <3>1 DEF Inv
    <3>10. DcInv(c.dc, JobsBy(Queued(c), "dc"), gone)
      BY <2>2, <3>1 DEF Inv
    <3> QED BY <2>2, <2>3, <3>7, <3>8, <3>9, <3>10, AfterUploads
  <2>7. CASE job.by = "donkey"
    <3>1. /\ JobsBy(Queued(c), "donkey") = {}
          /\ JobsBy(Queued(d), "donkey") = {job}
          /\ JobsBy(Queued(c), "uploads") = JobsBy(Queued(d), "uploads")
          /\ JobsBy(Queued(c), "dc") = JobsBy(Queued(d), "dc")
      BY <2>5, <2>7
    <3>2. DonkeyInv(c.donkey, {job}, gone)
      BY <2>2, <3>1 DEF Inv
    <3>3. DonkeyFree(c)
      BY <2>2, <2>5, <3>1, <3>2 DEF DonkeyFree, DonkeyInv
    <3>4. NetJob(c.donkey, Md4Block, job) /\ job.file \in ToSet(c.donkey.queue)
      BY <3>2 DEF DonkeyInv
    <3>5. DonkeyStep(c, DonkeyHandler(c, job))
      BY <2>1, <3>3, <3>4, DonkeyHandlerStep
    <3>6. Handle(c, job) = DonkeyHandler(c, job)
      BY <2>7 DEF Handle
    <3>7. UploadsInv(c, JobsBy(Queued(c), "uploads"), gone)
      BY <2>2, <3>1, UploadsFrame DEF Inv
    <3>8. DcInv(c.dc, JobsBy(Queued(c), "dc"), gone)
      BY <2>2, <3>1 DEF Inv
    <3> QED BY <2>2, <2>3, <3>5, <3>6, <3>7, <3>8, AfterDonkey
  <2>8. CASE job.by = "dc"
    <3>1. /\ JobsBy(Queued(c), "dc") = {}
          /\ JobsBy(Queued(d), "dc") = {job}
          /\ JobsBy(Queued(c), "uploads") = JobsBy(Queued(d), "uploads")
          /\ JobsBy(Queued(c), "donkey") = JobsBy(Queued(d), "donkey")
      BY <2>5, <2>8
    <3>2. DcInv(c.dc, {job}, gone)
      BY <2>2, <3>1 DEF Inv
    <3>3. DcFree(c)
      BY <2>2, <2>5, <3>1, <3>2 DEF DcFree, DcInv
    <3>4. /\ NetJob(c.dc, TigerBlock, job)
          /\ ToSet(job.rest) \union {job.file} \subseteq c.dc.known
      BY <3>2 DEF DcInv
    <3>5. DcStep(c, DcHandler(c, job))
      BY <2>1, <3>3, <3>4, DcHandlerStep
    <3>6. Handle(c, job) = DcHandler(c, job)
      BY <2>8 DEF Handle
    <3>7. UploadsInv(c, JobsBy(Queued(c), "uploads"), gone)
      BY <2>2, <3>1, UploadsFrame DEF Inv
    <3>8. DonkeyInv(c.donkey, JobsBy(Queued(c), "donkey"), gone)
      BY <2>2, <3>1 DEF Inv
    <3> QED BY <2>2, <2>3, <3>5, <3>6, <3>7, <3>8, AfterDc
  <2> QED BY <2>1, <2>6, <2>7, <2>8 DEF Jobs, Clients
<1> QED BY <1>1, <1>2

\* The next job is taken, or dropped when its file vanished.
LEMMA TakeJobStep ==
  ASSUME NEW d \in Daemons, Inv(d, gone), d.current = None
  PROVE  TakeJob(d) \in Daemons /\ Inv(TakeJob(d), gone)
<1>1. CASE d.fifo = <<>>
  BY <1>1 DEF TakeJob
<1>2. CASE d.fifo # <<>>
  <2> DEFINE job == Head(d.fifo)
             rest == Tail(d.fifo)
             cur == IF job.file \in gone THEN None ELSE job
             e == [d EXCEPT !.fifo = rest, !.current = cur]
  <2>1. /\ d.fifo \in Seq(Jobs)
        /\ job \in Jobs
        /\ rest \in Seq(Jobs)
        /\ d.fifo = <<job>> \o rest
    <3>1. d.fifo \in Seq(Jobs)
      BY DEF Daemons
    <3> QED BY <3>1, <1>2
  <2>2. TakeJob(d) = e
    BY <1>2, Zenon DEF TakeJob
  <2>3. cur \in Jobs \union {None}
    BY <2>1
  <2> HIDE DEF cur, job, rest
  <2>4. /\ e \in Daemons
        /\ e.current = cur
        /\ e.fifo = rest
        /\ e.donkey = d.donkey
        /\ e.dc = d.dc
        /\ KeepUploads(d, e)
    BY <2>1, <2>3 DEF Daemons, KeepUploads
  <2> HIDE DEF e
  <2>5. Queued(d) = <<job>> \o rest
    BY <2>1, QueueFacts
  <2>6. CASE job.file \notin gone
    <3>1. cur = job /\ job # None
      BY <2>1, <2>6, NoneAssumption DEF cur
    <3>2. Queued(e) = Queued(d)
      BY <2>4, <2>5, <3>1, QueueFacts
    <3>3. UploadsInv(e, JobsBy(Queued(e), "uploads"), gone)
      BY <2>4, <3>2, UploadsFrame DEF Inv
    <3> QED BY <2>2, <2>4, <3>2, <3>3 DEF Inv
  <2>7. CASE job.file \in gone
    <3>1. cur = None
      BY <2>7 DEF cur
    <3>2. Queued(e) = rest
      BY <2>4, <3>1, QueueFacts
    <3>3. OneEach(Queued(e)) /\ \A c : JobsBy(Queued(e), c) \subseteq JobsBy(Queued(d), c)
      BY <2>1, <2>5, <3>2, JobsByFirst DEF Inv
    <3>4. UploadsInv(e, JobsBy(Queued(d), "uploads"), gone)
      BY <2>4, UploadsFrame DEF Inv
    <3>5. gone # {}
      BY <2>7
    <3>6. UploadsInv(e, JobsBy(Queued(e), "uploads"), gone)
      BY <3>3, <3>4, <3>5 DEF UploadsInv
    <3>7. DonkeyInv(e.donkey, JobsBy(Queued(e), "donkey"), gone)
      BY <2>4, <3>3, <3>5 DEF Inv, DonkeyInv
    <3>8. DcInv(e.dc, JobsBy(Queued(e), "dc"), gone)
      BY <2>4, <3>3, <3>5 DEF Inv, DcInv
    <3> QED BY <2>2, <2>4, <3>3, <3>6, <3>7, <3>8 DEF Inv
  <2> QED BY <2>6, <2>7
<1> QED BY <1>1, <1>2

\* A scan shares a directory with the three clients.
LEMMA ScanStep ==
  ASSUME IInv, NEW dir \in Directories, ScanDirectory(dir)
  PROVE  daemon' \in Daemons /\ Inv(daemon', gone)
<1> DEFINE d == daemon
           present == Without(dir, gone)
           c == AskForUids(d, present)
           donkey == DonkeyShare(c.donkey, present)
           dc == DcShare(c.dc, present)
           b == WithDonkey(c, donkey)
           e == WithDc(b, dc)
<1>1. d \in Daemons /\ Inv(d, gone)
  BY DEF IInv, TypeOK
<1>2. present \in Seq(Files) /\ IsInjective(present)
  BY DirectoriesAssumption, WithoutProps
<1> HIDE DEF present
<1>3. UploadsStep(d, c)
  BY <1>1, <1>2, AskStep DEF Inv
<1> HIDE DEF c
<1>4. c \in Daemons /\ Inv(c, gone)
  BY <1>1, <1>3, AfterUploads DEF Inv
<1>5. c.donkey \in Donkeys /\ c.dc \in Dcs
  BY <1>4 DEF Daemons
<1>6. JobsBy(Queued(c), "donkey") \subseteq Jobs /\ JobsBy(Queued(c), "dc") \subseteq Jobs
  <2>1. Queued(c) \in Seq(Jobs)
    BY <1>4, QueueFacts
  <2> QED BY <2>1 DEF JobsBy
<1>7. donkey \in Donkeys /\ DonkeyInv(donkey, JobsBy(Queued(c), "donkey"), gone)
  BY <1>2, <1>4, <1>5, <1>6, DonkeyShareStep DEF Inv
<1>8. dc \in Dcs /\ DcInv(dc, JobsBy(Queued(c), "dc"), gone)
  BY <1>2, <1>4, <1>5, <1>6, DcShareStep DEF Inv
<1>9. daemon' = e
  <2>1. daemon' = [c EXCEPT !.donkey = DonkeyShare(@, present), !.dc = DcShare(@, present)]
    BY Zenon DEF ScanDirectory, c, present
  <2>2. daemon' = [c EXCEPT !.donkey = donkey, !.dc = dc]
    BY <2>1, Zenon
  <2> HIDE DEF donkey, dc
  <2> QED BY <2>2, <1>4 DEF WithDonkey, WithDc, Daemons
<1> HIDE DEF donkey, dc
<1>10. /\ b \in Daemons
       /\ b.donkey = donkey
       /\ b.dc = c.dc
       /\ Queued(b) = Queued(c)
       /\ KeepUploads(c, b)
  BY <1>4, <1>7, SetDonkey
<1> HIDE DEF b
<1>11. /\ e \in Daemons
       /\ e.dc = dc
       /\ e.donkey = b.donkey
       /\ Queued(e) = Queued(b)
       /\ KeepUploads(b, e)
  BY <1>8, <1>10, SetDc
<1> HIDE DEF e
<1>12. UploadsInv(e, JobsBy(Queued(e), "uploads"), gone)
  <2>1. KeepUploads(c, e)
    BY <1>10, <1>11 DEF KeepUploads
  <2> QED BY <2>1, <1>4, <1>10, <1>11, UploadsFrame DEF Inv
<1> QED BY <1>4, <1>7, <1>8, <1>9, <1>10, <1>11, <1>12 DEF Inv

\* shared_files_timer
LEMMA SharedFilesStep ==
  ASSUME IInv, SharedFilesTimer
  PROVE  daemon' \in Daemons /\ Inv(daemon', gone)
<1> DEFINE d == daemon
           f == Head(d.waiting)
<1>1. d \in Daemons /\ Inv(d, gone) /\ d.current_job = None /\ d.waiting # <<>>
  BY DEF IInv, TypeOK, SharedFilesTimer
<1>2. Idle(d)
  BY <1>1 DEF Idle, Inv
<1>3. DonkeyInv(d.donkey, JobsBy(Queued(d), "donkey"), gone)
      /\ DcInv(d.dc, JobsBy(Queued(d), "dc"), gone)
  BY <1>1 DEF Inv
<1>4. CASE d.wanted[f] = <<>>
  <2> DEFINE e == [d EXCEPT !.waiting = Tail(@)]
  <2>1. daemon' = e
    BY <1>4, Zenon DEF SharedFilesTimer
  <2>2. UploadsStep(d, e)
    BY <1>1, <1>2, <1>4, PopStep, Zenon
  <2> HIDE DEF e
  <2> QED BY <2>1, <2>2, <1>3, AfterUploads
<1>5. CASE d.wanted[f] # <<>>
  <2> DEFINE e == start_job_for([d EXCEPT !.wanted[f] = Tail(@), !.current_job = f],
                                f, Head(d.wanted[f]))
  <2>1. daemon' = e
    BY <1>5, Zenon DEF SharedFilesTimer
  <2>2. UploadsStep(d, e)
    BY <1>1, <1>2, <1>5, ServeStep, Zenon
  <2> HIDE DEF e
  <2> QED BY <2>1, <2>2, <1>3, AfterUploads
<1> QED BY <1>4, <1>5

\* When a file vanishes, no one is promised a call back any more.
LEMMA VanishStep ==
  ASSUME IInv, NEW f \in Files, Vanish(f)
  PROVE  IInv'
<1>1. daemon' = daemon /\ done' = done /\ gone' \in SUBSET Files /\ gone' # {}
  BY DEF IInv, TypeOK, Vanish
<1>2. UploadsInv(daemon, JobsBy(Queued(daemon), "uploads"), gone')
  BY <1>1 DEF IInv, Inv, UploadsInv
<1>3. DonkeyInv(daemon.donkey, JobsBy(Queued(daemon), "donkey"), gone')
  BY <1>1 DEF IInv, Inv, DonkeyInv
<1>4. DcInv(daemon.dc, JobsBy(Queued(daemon), "dc"), gone')
  BY <1>1 DEF IInv, Inv, DcInv
<1>5. Inv(daemon, gone')
  BY <1>2, <1>3, <1>4 DEF IInv, Inv
<1>6. Inv(daemon', gone')
  BY <1>1, <1>5
<1>7. TypeOK'
  BY <1>1 DEF IInv, TypeOK
<1> QED BY <1>6, <1>7 DEF IInv

\* five_second_timer of donkey
LEMMA DonkeyTimerStep ==
  ASSUME IInv, DonkeyTimer
  PROVE  daemon' \in Daemons /\ Inv(daemon', gone)
<1>1. daemon \in Daemons /\ Inv(daemon, gone) /\ daemon' = check_shared_files(daemon)
  BY DEF IInv, TypeOK, DonkeyTimer
<1>2. DonkeyReady(daemon)
  BY <1>1, DonkeyInvReady DEF Inv
<1>3. DonkeyStep(daemon, daemon')
  BY <1>1, <1>2, CheckStep
<1> QED BY <1>1, <1>3, AfterDonkey DEF Inv

\* hash_timer of Direct Connect
LEMMA DcTimerStep ==
  ASSUME IInv, DcTimer
  PROVE  daemon' \in Daemons /\ Inv(daemon', gone)
<1>1. daemon \in Daemons /\ Inv(daemon, gone) /\ daemon' = dc_check_hashed_files(daemon)
  BY DEF IInv, TypeOK, DcTimer
<1>2. DcStep(daemon, daemon')
  BY <1>1, DcCheckStep DEF Inv
<1> QED BY <1>1, <1>2, AfterDc DEF Inv

\* The timer of commonHasher.
LEMMA HasherTimerStep ==
  ASSUME IInv, HasherTimer
  PROVE  daemon' \in Daemons /\ Inv(daemon', gone)
<1>1. daemon \in Daemons /\ Inv(daemon, gone) /\ daemon' = TakeJob(FinishJob(daemon))
  BY DEF IInv, TypeOK, HasherTimer
<1>2. /\ FinishJob(daemon) \in Daemons
      /\ Inv(FinishJob(daemon), gone)
      /\ FinishJob(daemon).current = None
  BY <1>1, FinishJobStep
<1> QED BY <1>1, <1>2, TakeJobStep

\* The invariant holds in the initial state.
LEMMA InitInv == Init => IInv
<1> SUFFICES ASSUME Init PROVE IInv
  OBVIOUS
<1> DEFINE d == daemon
<1>1. /\ d.fifo = <<>> /\ d.current = None
      /\ d.wanted = [f \in Files |-> <<>>] /\ d.waiting = <<>> /\ d.current_job = None
      /\ d.uids = [f \in Files |-> [id \in Ids |-> None]]
      /\ d.asked = [f \in Files |-> 0] /\ d.answered = [f \in Files |-> 0]
      /\ d.donkey = [queue |-> <<>>, computing |-> FALSE, hashed |-> {},
                     list |-> [f \in Files |-> <<>>]]
      /\ d.dc = [queue |-> <<>>, computing |-> FALSE, hashed |-> {}, known |-> {},
                 list |-> [f \in Files |-> <<>>]]
  BY DEF Init
<1>2. d.donkey \in Donkeys /\ d.dc \in Dcs
  BY <1>1 DEF Donkeys, Dcs
<1>3. d \in Daemons
  <2>1. 0 \in 0..MaxShares
    BY BoundsAssumption
  <2> QED BY <1>2, <2>1 DEF Init, Daemons
<1>4. TypeOK
  BY <1>3 DEF Init, TypeOK
<1>5. Queued(d) = <<>>
  BY <1>1, <1>3, QueueFacts
<1>6. OneEach(Queued(d)) /\ \A c : JobsBy(Queued(d), c) = {}
  BY <1>5 DEF OneEach, JobsBy
<1>7. UploadsInv(d, {}, gone)
  <2>1. CompleteUids(d)
    BY <1>1 DEF CompleteUids
  <2>2. Asked(d)
    BY <1>1, NoneAssumption DEF Asked
  <2>3. MadeReady(d, {})
    BY <1>1 DEF MadeReady
  <2> QED BY <2>1, <2>2, <2>3, <1>1 DEF UploadsInv
<1>8. ASSUME NEW net, NEW block \in Nat \ {0}, net.queue = <<>>, net.hashed = {},
             net.list = [f \in Files |-> <<>>]
      PROVE  NetOK(net, block)
  <2>1. \A f \in Files : Contiguous(f, net.list[f]) /\ CutAt(f, net.list[f], block)
    BY <1>8, ContiguousEmpty, CutEmpty
  <2> QED BY <2>1, <1>8, EmptyFacts DEF NetOK
<1>9. NetOK(d.donkey, Md4Block) /\ NetOK(d.dc, TigerBlock)
  <2> DEFINE donkey == d.donkey
             dc == d.dc
  <2>1. donkey.queue = <<>> /\ donkey.hashed = {} /\ donkey.list = [f \in Files |-> <<>>]
    BY <1>1
  <2>2. dc.queue = <<>> /\ dc.hashed = {} /\ dc.list = [f \in Files |-> <<>>]
    BY <1>1
  <2> HIDE DEF donkey, dc
  <2>3. NetOK(donkey, Md4Block) /\ NetOK(dc, TigerBlock)
    BY <2>1, <2>2, <1>8, SizeAssumption
  <2> QED BY <2>3 DEF donkey, dc
<1>10. DonkeyInv(d.donkey, {}, gone) /\ DcInv(d.dc, {}, gone)
  BY <1>1, <1>9, EmptyFacts DEF DonkeyInv, DcInv
<1> QED BY <1>4, <1>6, <1>7, <1>10 DEF IInv, Inv

\* Every step preserves the invariant.
LEMMA NextInv == IInv /\ [Next]_vars => IInv'
<1> SUFFICES ASSUME IInv, [Next]_vars PROVE IInv'
  OBVIOUS
<1>1. ASSUME daemon' \in Daemons, Inv(daemon', gone), done' \in BOOLEAN, gone' = gone
      PROVE  IInv'
  BY <1>1 DEF IInv, TypeOK
<1>2. ASSUME NEW dir \in Directories, ScanDirectory(dir) PROVE IInv'
  BY <1>1, <1>2, ScanStep DEF IInv, TypeOK, ScanDirectory
<1>3. CASE SharedFilesTimer
  BY <1>1, <1>3, SharedFilesStep DEF IInv, TypeOK, SharedFilesTimer
<1>4. CASE DonkeyTimer
  BY <1>1, <1>4, DonkeyTimerStep DEF IInv, TypeOK, DonkeyTimer
<1>5. CASE DcTimer
  BY <1>1, <1>5, DcTimerStep DEF IInv, TypeOK, DcTimer
<1>6. CASE HasherTimer
  <2>1. done' \in BOOLEAN /\ gone' = gone
    BY <1>6 DEF HasherTimer
  <2> QED BY <1>1, <1>6, <2>1, HasherTimerStep
<1>7. CASE HasherThread
  BY <1>7 DEF HasherThread, IInv, TypeOK
<1>8. ASSUME NEW f \in Files, Vanish(f) PROVE IInv'
  BY <1>8, VanishStep
<1>9. CASE UNCHANGED vars
  BY <1>9 DEF vars, IInv, TypeOK
<1> QED BY <1>2, <1>3, <1>4, <1>5, <1>6, <1>7, <1>8, <1>9 DEF Next

\* The inductive invariant holds in every reachable state.
THEOREM Invariance == Spec => []IInv
  BY InitInv, NextInv, PTL DEF Spec

\* Every variable keeps its type and shared_files_counter its limit
\* (commonUploads, donkeyShare, dcShared).
THEOREM TypeCorrectness == Spec => []TypeOK
<1>1. IInv => TypeOK
  BY DEF IInv
<1> QED BY <1>1, Invariance, PTL

\* The pieces hashed for a file follow each other without overlap or gap, and
\* a file is called hashed only when they reach its end: scans, handlers with a
\* captured rest and dropped jobs never break it.
THEOREM CoverageCorrectness == Spec => []HashesCoverFile
<1>1. IInv => HashesCoverFile
  BY DEF IInv, Inv, UploadsInv, CompleteUids, DonkeyInv, DcInv, NetOK, HashesCoverFile
<1> QED BY <1>1, Invariance, PTL

\* Every identifier asked for is answered, wanted or being computed, and a file
\* that wants one is on waiting_shared_files.
THEOREM NoAskIsForgotten == Spec => []NoAskForgotten
<1>1. IInv => NoAskForgotten
  BY DEF IInv, Inv, UploadsInv, Asked, NoAskForgotten
<1> QED BY <1>1, Invariance, PTL

\* The places of the jobs of a client, and the jobs.
LEMMA JobsOfJobsBy ==
  ASSUME NEW d \in Daemons, OneEach(Queued(d)), NEW client
  PROVE  /\ \A i, j \in JobsOf(d, client) : i = j
         /\ JobsOf(d, client) = {} <=> JobsBy(Queued(d), client) = {}
  BY DEF JobsOf, JobsBy, OneEach

\* No client has two jobs, only a busy client has one, and the queues of files
\* repeat none and hold no hashed file.
THEOREM OneJobPerClient == Spec => []HashedOnce
<1>1. IInv => HashedOnce
  <2> SUFFICES ASSUME IInv PROVE HashedOnce
    OBVIOUS
  <2> DEFINE d == daemon
  <2>1. d \in Daemons /\ OneEach(Queued(d))
    BY DEF IInv, TypeOK, Inv
  <2>2. UploadsInv(d, JobsBy(Queued(d), "uploads"), gone)
    BY DEF IInv, Inv
  <2>3. DonkeyInv(d.donkey, JobsBy(Queued(d), "donkey"), gone)
    BY DEF IInv, Inv
  <2>4. DcInv(d.dc, JobsBy(Queued(d), "dc"), gone)
    BY DEF IInv, Inv
  <2>5. ASSUME NEW client \in Clients
        PROVE  /\ \A i, j \in JobsOf(d, client) : i = j
               /\ JobsOf(d, client) # {} => Busy(d, client)
               /\ Busy(d, client) /\ gone = {} => JobsOf(d, client) # {}
    <3>1. /\ \A i, j \in JobsOf(d, client) : i = j
          /\ JobsOf(d, client) = {} <=> JobsBy(Queued(d), client) = {}
      BY <2>1, JobsOfJobsBy
    <3>2. CASE client = "uploads"
      <4>1. \A job \in JobsBy(Queued(d), "uploads") : d.current_job # None
        <5> SUFFICES ASSUME NEW job \in JobsBy(Queued(d), "uploads"), d.current_job = None
                     PROVE  FALSE
          OBVIOUS
        <5>1. Idle(d)
          BY <2>1, <2>2 DEF Idle
        <5> QED BY <5>1, IdleHasNoJob
      <4> QED BY <2>2, <3>1, <3>2, <4>1 DEF UploadsInv, Busy
    <3>3. CASE client = "donkey"
      BY <2>3, <3>1, <3>3 DEF DonkeyInv, NetJob, Busy
    <3>4. CASE client = "dc"
      BY <2>4, <3>1, <3>4 DEF DcInv, NetJob, Busy
    <3> QED BY <3>2, <3>3, <3>4 DEF Clients
  <2>6. ASSUME NEW net \in {d.donkey, d.dc}
        PROVE  ToSet(net.queue) \intersect net.hashed = {} /\ IsInjective(net.queue)
    BY <2>3, <2>4 DEF DonkeyInv, DcInv, NetOK
  <2> QED BY <2>5, <2>6 DEF HashedOnce
<1> QED BY <1>1, Invariance, PTL

=============================================================================
