------------------------------ MODULE TextProofs ------------------------------
(***************************************************************************)
(* What the text rules do to texts of every length over every alphabet.    *)
(*                                                                         *)
(* Induction is over sets: what contains 0, or the empty sequence, and is  *)
(* closed under the next step contains everything.  A least counterexample *)
(* would be neither, and the natural numbers are well founded.             *)
(***************************************************************************)
EXTENDS TypedText, SequenceTheorems, WellFoundedInduction, TLAPS

-----------------------------------------------------------------------------
(* Induction. *)

\* A set of natural numbers that is not empty has a least one.
LEMMA LeastNumber ==
    ASSUME NEW S, S \subseteq Nat, S # {}
    PROVE  \E x \in S : \A y \in S : x <= y
<1> DEFINE less == OpToRel(<, Nat)
<1>1. IsWellFoundedOn(less, Nat)
  BY NatLessThanWellFounded
<1>2. \A x, y \in Nat : y < x => <<y, x>> \in less
  BY DEF OpToRel
<1> HIDE DEF less
<1>3. PICK x \in S : \A y \in S : <<y, x>> \notin less
  BY <1>1, WFMin
<1>4. \A y \in S : ~(y < x)
  BY <1>2, <1>3
<1> QED
  BY <1>4

\* A set with 0, and with the successor of each of its numbers, has every natural number.
LEMMA Induction ==
    ASSUME NEW T, 0 \in T, \A n \in Nat : n \in T => n + 1 \in T
    PROVE  Nat \subseteq T
<1> SUFFICES ASSUME Nat \ T # {} PROVE FALSE
  OBVIOUS
<1>1. PICK x \in Nat \ T : \A y \in Nat \ T : x <= y
  <2> DEFINE S == Nat \ T
  <2>1. S \subseteq Nat /\ S # {}
    OBVIOUS
  <2> HIDE DEF S
  <2>2. \E x \in S : \A y \in S : x <= y
    BY <2>1, LeastNumber
  <2> QED
    BY <2>2 DEF S
<1>2. x # 0 /\ x - 1 \in Nat
  BY <1>1
<1>3. x - 1 \in T
  BY <1>1, <1>2
<1> QED
  BY <1>1, <1>2, <1>3

\* A sequence is empty or one longer than another.
LEMMA SeqInduction ==
    ASSUME NEW V, NEW T, <<>> \in T,
           \A s \in Seq(V) : \A x \in V : s \in T => Append(s, x) \in T
    PROVE  Seq(V) \subseteq T
<1> DEFINE N == {n \in Nat : \A s \in Seq(V) : Len(s) = n => s \in T}
<1>1. 0 \in N
  BY EmptySeq
<1>2. ASSUME NEW n \in Nat, n \in N PROVE n + 1 \in N
  <2>1. SUFFICES ASSUME NEW s \in Seq(V), Len(s) = n + 1 PROVE s \in T
    OBVIOUS
  <2> DEFINE front == [i \in 1 .. n |-> s[i]]
  <2>2. s[n + 1] \in V /\ front \in Seq(V) /\ Len(front) = n
    BY <2>1
  <2>3. s = Append(front, s[n + 1])
    BY <2>1, <2>2
  <2>4. front \in T
    BY <1>2, <2>2
  <2> QED
    BY <2>2, <2>3, <2>4
<1> HIDE DEF N
<1>3. Nat \subseteq N
  BY <1>1, <1>2, Induction
<1> QED
  BY <1>3 DEF N

-----------------------------------------------------------------------------
(* The first and the last of some positions. *)

\* Smallest is a position of the set, and none is before it.
LEMMA SmallestIs ==
    ASSUME NEW S, S \subseteq Nat, S # {}
    PROVE  Smallest(S) \in S /\ \A j \in S : Smallest(S) <= j
  BY LeastNumber DEF Smallest

\* Largest is a position of the set, and none is after it.
LEMMA LargestIs ==
    ASSUME NEW n \in Nat, NEW S, S \subseteq 1 .. n, S # {}
    PROVE  Largest(S) \in S /\ \A j \in S : Largest(S) >= j
<1> DEFINE left == {n - i : i \in S}
<1>1. left \subseteq Nat /\ left # {}
  <2>1. \A i \in S : n - i \in Nat
    OBVIOUS
  <2> QED
    BY <2>1
<1>2. PICK x \in left : \A y \in left : x <= y
  <2> HIDE DEF left
  <2> QED
    BY <1>1, LeastNumber
<1>3. PICK i \in S : x = n - i
  OBVIOUS
<1>4. \A j \in S : n - i <= n - j
  BY <1>2, <1>3
<1>5. \A j \in S : i >= j
  BY <1>4
<1> QED
  BY <1>5 DEF Largest

-----------------------------------------------------------------------------
(* Only: the function it is read from, and what it is on longer texts. *)

\* f holds what is left of the first n characters of s, for n up to m.
IsKept(s, chars, m, f) ==
    f = [n \in 0 .. m |->
            IF n = 0 THEN <<>>
            ELSE IF s[n] \in chars THEN Append(f[n - 1], s[n])
            ELSE f[n - 1]]

\* There is such a function, of every length.
LEMMA KeptExists ==
    ASSUME NEW s, NEW chars, NEW m \in Nat
    PROVE  \E f : IsKept(s, chars, m, f)
<1> DEFINE T == {n \in Nat : \E f : IsKept(s, chars, n, f)}
<1>1. 0 \in T
  <2> DEFINE f == [n \in 0 .. 0 |-> <<>>]
  <2>1. IsKept(s, chars, 0, f)
    BY DEF IsKept
  <2> HIDE DEF f
  <2> QED
    BY <2>1
<1>2. ASSUME NEW n \in Nat, n \in T PROVE n + 1 \in T
  <2>1. PICK f : IsKept(s, chars, n, f)
    BY <1>2
  <2> DEFINE last == IF s[n + 1] \in chars THEN Append(f[n], s[n + 1]) ELSE f[n]
             g == [i \in 0 .. n + 1 |-> IF i = n + 1 THEN last ELSE f[i]]
  <2>2. \A i \in 0 .. n : f[i] = IF i = 0 THEN <<>>
                                 ELSE IF s[i] \in chars THEN Append(f[i - 1], s[i])
                                 ELSE f[i - 1]
    BY <2>1 DEF IsKept
  <2>3. /\ DOMAIN g = 0 .. n + 1 /\ g = [i \in 0 .. n + 1 |-> g[i]]
        /\ g[n + 1] = last /\ \A i \in 0 .. n : g[i] = f[i]
    OBVIOUS
  <2> HIDE DEF g
  <2>4. ASSUME NEW i \in 0 .. n + 1
        PROVE  g[i] = IF i = 0 THEN <<>>
                      ELSE IF s[i] \in chars THEN Append(g[i - 1], s[i])
                      ELSE g[i - 1]
    <3>1. CASE i = n + 1
      <4>1. n \in 0 .. n /\ i - 1 = n /\ i # 0
        BY <3>1
      <4> QED
        BY <2>3, <3>1, <4>1
    <3>2. CASE i # n + 1
      <4>1. i \in 0 .. n /\ (i # 0 => i - 1 \in 0 .. n)
        BY <3>2
      <4> QED
        BY <2>2, <2>3, <4>1
    <3> QED
      BY <3>1, <3>2
  <2>5. IsKept(s, chars, n + 1, g)
    <3> HIDE DEF last
    <3> QED
      BY <2>3, <2>4 DEF IsKept
  <2> QED
    BY <2>5
<1> HIDE DEF T
<1>3. Nat \subseteq T
  BY <1>1, <1>2, Induction
<1> QED
  BY <1>3 DEF T

\* Only is the last value of one.
LEMMA OnlyIsKept ==
    ASSUME NEW V, NEW s \in Seq(V), NEW chars
    PROVE  \E f : IsKept(s, chars, Len(s), f) /\ Only(s, chars) = f[Len(s)]
<1> DEFINE f == CHOOSE f : IsKept(s, chars, Len(s), f)
<1>1. IsKept(s, chars, Len(s), f)
  BY KeptExists
<1>2. Only(s, chars) = f[Len(s)]
  BY DEF Only, IsKept
<1> HIDE DEF f
<1> QED
  BY <1>1, <1>2

\* What is left of a text depends on its characters, and on which of them are kept.
LEMMA KeptAgree ==
    ASSUME NEW s, NEW chars, NEW m \in Nat, NEW f, IsKept(s, chars, m, f),
           NEW u, NEW others, NEW n \in Nat, NEW g, IsKept(u, others, n, g),
           m <= n,
           \A i \in 1 .. m : s[i] = u[i] /\ (s[i] \in chars <=> s[i] \in others)
    PROVE  f[m] = g[m]
<1> DEFINE T == {i \in Nat : i <= m => f[i] = g[i]}
<1>1. \A i \in 0 .. m : f[i] = IF i = 0 THEN <<>>
                               ELSE IF s[i] \in chars THEN Append(f[i - 1], s[i])
                               ELSE f[i - 1]
  BY DEF IsKept
<1>2. \A i \in 0 .. n : g[i] = IF i = 0 THEN <<>>
                               ELSE IF u[i] \in others THEN Append(g[i - 1], u[i])
                               ELSE g[i - 1]
  BY DEF IsKept
<1>3. 0 \in T
  BY <1>1, <1>2
<1>4. ASSUME NEW i \in Nat, i \in T PROVE i + 1 \in T
  <2>1. SUFFICES ASSUME i + 1 <= m PROVE f[i + 1] = g[i + 1]
    OBVIOUS
  <2>2. i + 1 \in 0 .. m /\ i + 1 \in 0 .. n /\ i + 1 \in 1 .. m /\ i + 1 # 0 /\ i + 1 - 1 = i
    BY <2>1
  <2>3. f[i] = g[i]
    BY <1>4, <2>1
  <2> QED
    BY <1>1, <1>2, <2>2, <2>3
<1> HIDE DEF T
<1>5. Nat \subseteq T
  BY <1>3, <1>4, Induction
<1> QED
  BY <1>5 DEF T

\* Two sets that agree on the characters of a text leave the same of it.
LEMMA OnlyAgree ==
    ASSUME NEW V, NEW s \in Seq(V), NEW chars, NEW others,
           \A i \in 1 .. Len(s) : s[i] \in chars <=> s[i] \in others
    PROVE  Only(s, chars) = Only(s, others)
<1>1. PICK f : IsKept(s, chars, Len(s), f) /\ Only(s, chars) = f[Len(s)]
  BY OnlyIsKept
<1>2. PICK g : IsKept(s, others, Len(s), g) /\ Only(s, others) = g[Len(s)]
  BY OnlyIsKept
<1>3. f[Len(s)] = g[Len(s)]
  BY <1>1, <1>2, KeptAgree
<1> QED
  BY <1>1, <1>2, <1>3

\* Nothing is left of nothing.
LEMMA OnlyOfNothing == ASSUME NEW chars PROVE Only(<<>>, chars) = <<>>
<1>1. <<>> \in Seq({}) /\ Len(<<>>) = 0
  BY EmptySeq
<1>2. PICK f : IsKept(<<>>, chars, 0, f) /\ Only(<<>>, chars) = f[0]
  BY <1>1, OnlyIsKept
<1> QED
  BY <1>2 DEF IsKept

\* One character more is left, or nothing is, as it is kept or not.
LEMMA OnlyOfLonger ==
    ASSUME NEW V, NEW s \in Seq(V), NEW x \in V, NEW chars
    PROVE  Only(Append(s, x), chars) = IF x \in chars THEN Append(Only(s, chars), x)
                                       ELSE Only(s, chars)
<1> DEFINE u == Append(s, x)
           n == Len(s)
<1>1. u \in Seq(V) /\ Len(u) = n + 1 /\ u[n + 1] = x /\ \A i \in 1 .. n : u[i] = s[i]
  OBVIOUS
<1> HIDE DEF u
<1>2. PICK f : IsKept(s, chars, n, f) /\ Only(s, chars) = f[n]
  BY OnlyIsKept
<1>3. PICK g : IsKept(u, chars, n + 1, g) /\ Only(u, chars) = g[n + 1]
  BY <1>1, OnlyIsKept
<1>4. n \in Nat
  OBVIOUS
<1> HIDE DEF n
<1>5. f[n] = g[n]
  BY <1>1, <1>2, <1>3, <1>4, KeptAgree
<1>6. g[n + 1] = IF u[n + 1] \in chars THEN Append(g[n], u[n + 1]) ELSE g[n]
  <2>1. \A i \in 0 .. n + 1 : g[i] = IF i = 0 THEN <<>>
                                     ELSE IF u[i] \in chars THEN Append(g[i - 1], u[i])
                                     ELSE g[i - 1]
    BY <1>3 DEF IsKept
  <2> DEFINE k == n + 1
  <2>2. k \in 0 .. n + 1 /\ k # 0 /\ k - 1 = n
    BY <1>4
  <2> HIDE DEF k
  <2>3. g[k] = IF u[k] \in chars THEN Append(g[n], u[k]) ELSE g[n]
    BY <2>1, <2>2
  <2> QED
    BY <2>3 DEF k
<1> QED
  BY <1>1, <1>2, <1>3, <1>5, <1>6 DEF u

\* What is left is a text of the characters kept.
LEMMA OnlyType ==
    ASSUME NEW V, NEW s \in Seq(V), NEW chars
    PROVE  Only(s, chars) \in Seq(V \cap chars)
<1> DEFINE T == {u \in Seq(V) : Only(u, chars) \in Seq(V \cap chars)}
<1>1. <<>> \in T
  BY OnlyOfNothing, EmptySeq
<1>2. ASSUME NEW u \in Seq(V), NEW x \in V, u \in T PROVE Append(u, x) \in T
  <2>1. Only(u, chars) \in Seq(V \cap chars)
    BY <1>2
  <2>2. Only(Append(u, x), chars) = IF x \in chars THEN Append(Only(u, chars), x)
                                    ELSE Only(u, chars)
    BY OnlyOfLonger
  <2>3. Append(u, x) \in Seq(V)
    OBVIOUS
  <2>4. Only(Append(u, x), chars) \in Seq(V \cap chars)
    <3> HIDE DEF T
    <3>1. CASE x \in chars
      <4>1. x \in V \cap chars
        BY <3>1
      <4> QED
        BY <2>1, <2>2, <3>1, <4>1
    <3>2. CASE x \notin chars
      BY <2>1, <2>2, <3>2
    <3> QED
      BY <3>1, <3>2
  <2> QED
    BY <2>3, <2>4
<1> HIDE DEF T
<1>3. Seq(V) \subseteq T
  BY <1>1, <1>2, SeqInduction
<1> QED
  BY <1>3 DEF T

\* A text is filtered part by part.
LEMMA OnlyOfConcat ==
    ASSUME NEW V, NEW s \in Seq(V), NEW t \in Seq(V), NEW chars
    PROVE  Only(s \o t, chars) = Only(s, chars) \o Only(t, chars)
<1> DEFINE T == {u \in Seq(V) : Only(s \o u, chars) = Only(s, chars) \o Only(u, chars)}
<1>1. <<>> \in T
  <2>1. s \o <<>> = s /\ Only(s, chars) \o <<>> = Only(s, chars)
    BY ConcatEmptySeq, OnlyType
  <2> QED
    BY <2>1, OnlyOfNothing, EmptySeq
<1>2. ASSUME NEW u \in Seq(V), NEW x \in V, u \in T PROVE Append(u, x) \in T
  <2>1. s \o Append(u, x) = Append(s \o u, x) /\ s \o u \in Seq(V)
    OBVIOUS
  <2>2. Only(Append(s \o u, x), chars) = IF x \in chars THEN Append(Only(s \o u, chars), x)
                                         ELSE Only(s \o u, chars)
    BY <2>1, OnlyOfLonger
  <2>3. Only(Append(u, x), chars) = IF x \in chars THEN Append(Only(u, chars), x)
                                    ELSE Only(u, chars)
    BY OnlyOfLonger
  <2>4. Only(s \o u, chars) = Only(s, chars) \o Only(u, chars)
    BY <1>2
  <2>5. Only(s, chars) \in Seq(V) /\ Only(u, chars) \in Seq(V)
    BY OnlyType, SeqMonotonic, V \cap chars \subseteq V
  <2>6. Only(s, chars) \o Append(Only(u, chars), x) = Append(Only(s, chars) \o Only(u, chars), x)
    BY <2>5
  <2>7. Append(u, x) \in Seq(V)
    OBVIOUS
  <2>8. Only(s \o Append(u, x), chars) = Only(s, chars) \o Only(Append(u, x), chars)
    <3> HIDE DEF T
    <3>1. CASE x \in chars
      BY <2>1, <2>2, <2>3, <2>4, <2>6, <3>1
    <3>2. CASE x \notin chars
      BY <2>1, <2>2, <2>3, <2>4, <3>2
    <3> QED
      BY <3>1, <3>2
  <2> QED
    BY <2>7, <2>8
<1> HIDE DEF T
<1>3. Seq(V) \subseteq T
  BY <1>1, <1>2, SeqInduction
<1> QED
  BY <1>3 DEF T

\* A text of characters that are kept is kept.
LEMMA OnlyOfAll ==
    ASSUME NEW chars, NEW s \in Seq(chars)
    PROVE  Only(s, chars) = s
<1> DEFINE T == {u \in Seq(chars) : Only(u, chars) = u}
<1>1. <<>> \in T
  BY OnlyOfNothing, EmptySeq
<1>2. ASSUME NEW u \in Seq(chars), NEW x \in chars, u \in T PROVE Append(u, x) \in T
  BY <1>2, OnlyOfLonger
<1> HIDE DEF T
<1>3. Seq(chars) \subseteq T
  BY <1>1, <1>2, SeqInduction
<1> QED
  BY <1>3 DEF T

\* Of a text of other characters nothing is left.
LEMMA OnlyOfNone ==
    ASSUME NEW V, NEW s \in Seq(V), NEW chars, V \cap chars = {}
    PROVE  Only(s, chars) = <<>>
<1>1. Only(s, chars) \in Seq({})
  BY OnlyType
<1> QED
  BY <1>1, LenProperties

\* Filtering twice is filtering once by what both keep.
LEMMA OnlyTwice ==
    ASSUME NEW V, NEW s \in Seq(V), NEW chars, NEW others
    PROVE  Only(Only(s, chars), others) = Only(s, chars \cap others)
<1> DEFINE T == {u \in Seq(V) : Only(Only(u, chars), others) = Only(u, chars \cap others)}
<1>1. <<>> \in T
  BY OnlyOfNothing, EmptySeq
<1>2. ASSUME NEW u \in Seq(V), NEW x \in V, u \in T PROVE Append(u, x) \in T
  <2>1. Only(Append(u, x), chars) = IF x \in chars THEN Append(Only(u, chars), x)
                                    ELSE Only(u, chars)
    BY OnlyOfLonger
  <2>2. Only(Append(u, x), chars \cap others) =
            IF x \in chars \cap others THEN Append(Only(u, chars \cap others), x)
            ELSE Only(u, chars \cap others)
    BY OnlyOfLonger
  <2>3. Only(u, chars) \in Seq(V)
    BY OnlyType, SeqMonotonic, V \cap chars \subseteq V
  <2>4. Only(Append(Only(u, chars), x), others) =
            IF x \in others THEN Append(Only(Only(u, chars), others), x)
            ELSE Only(Only(u, chars), others)
    BY <2>3, OnlyOfLonger
  <2>5. Only(Only(u, chars), others) = Only(u, chars \cap others)
    BY <1>2
  <2>6. Append(u, x) \in Seq(V)
    OBVIOUS
  <2>7. Only(Only(Append(u, x), chars), others) = Only(Append(u, x), chars \cap others)
    <3> HIDE DEF T
    <3>1. CASE x \in chars /\ x \in others
      <4>1. /\ Only(Append(u, x), chars) = Append(Only(u, chars), x)
            /\ Only(Append(u, x), chars \cap others) = Append(Only(u, chars \cap others), x)
        BY <2>1, <2>2, <3>1
      <4> QED
        BY <2>4, <2>5, <3>1, <4>1
    <3>2. CASE x \in chars /\ x \notin others
      <4>1. /\ Only(Append(u, x), chars) = Append(Only(u, chars), x)
            /\ Only(Append(u, x), chars \cap others) = Only(u, chars \cap others)
        BY <2>1, <2>2, <3>2
      <4> QED
        BY <2>4, <2>5, <3>2, <4>1
    <3>3. CASE x \notin chars
      BY <2>1, <2>2, <2>5, <3>3
    <3> QED
      BY <3>1, <3>2, <3>3
  <2> QED
    BY <2>6, <2>7
<1> HIDE DEF T
<1>3. Seq(V) \subseteq T
  BY <1>1, <1>2, SeqInduction
<1> QED
  BY <1>3 DEF T

\* Without removes what Only would keep.
LEMMA WithoutIsOnly ==
    ASSUME NEW V, NEW s \in Seq(V), NEW chars
    PROVE  Without(s, chars) = Only(s, V \ chars)
<1>1. \A i \in 1 .. Len(s) : s[i] \in {s[j] : j \in DOMAIN s} \ chars <=> s[i] \in V \ chars
  OBVIOUS
<1> QED
  BY <1>1, OnlyAgree DEF Without

-----------------------------------------------------------------------------
(* Strip: what is between the first and the last character that stays. *)

\* Three parts next to each other.
LEMMA InThree ==
    ASSUME NEW V, NEW s \in Seq(V), NEW i \in 1 .. Len(s), NEW j \in i .. Len(s)
    PROVE  s = (SubSeq(s, 1, i - 1) \o SubSeq(s, i, j)) \o SubSeq(s, j + 1, Len(s))
<1>1. SubSeq(s, 1, i - 1) \o SubSeq(s, i, j) = SubSeq(s, 1, j)
  <2> DEFINE k == i - 1
  <2>1. 1 \in 1 .. Len(s) + 1 /\ k \in 1 - 1 .. Len(s) /\ j \in k .. Len(s) /\ k + 1 = i
    OBVIOUS
  <2> HIDE DEF k
  <2>2. SubSeq(s, 1, k) \o SubSeq(s, k + 1, j) = SubSeq(s, 1, j)
    BY <2>1, ConcatAdjacentSubSeq
  <2> QED
    BY <2>1, <2>2 DEF k
<1>2. SubSeq(s, 1, j) \o SubSeq(s, j + 1, Len(s)) = SubSeq(s, 1, Len(s))
  <2>1. 1 \in 1 .. Len(s) + 1 /\ j \in 1 - 1 .. Len(s) /\ Len(s) \in j .. Len(s)
    OBVIOUS
  <2> QED
    BY <2>1, ConcatAdjacentSubSeq
<1>3. SubSeq(s, 1, Len(s)) = s
  BY SubSeqFull
<1> QED
  BY <1>1, <1>2, <1>3

\* Where the characters of two parts are.
LEMMA TwoParts ==
    ASSUME NEW V, NEW a \in Seq(V), NEW b \in Seq(V)
    PROVE  /\ a \o b \in Seq(V) /\ Len(a \o b) = Len(a) + Len(b)
           /\ \A k \in 1 .. Len(a) : (a \o b)[k] = a[k]
           /\ \A k \in 1 .. Len(b) : (a \o b)[Len(a) + k] = b[k]
  BY ConcatProperties

\* Where the characters of three parts are.
LEMMA ThreeParts ==
    ASSUME NEW V, NEW a \in Seq(V), NEW m \in Seq(V), NEW b \in Seq(V)
    PROVE  LET s == (a \o m) \o b
           IN  /\ s \in Seq(V)
               /\ Len(s) = Len(a) + Len(m) + Len(b)
               /\ \A k \in 1 .. Len(a) : s[k] = a[k]
               /\ \A k \in 1 .. Len(m) : s[Len(a) + k] = m[k]
               /\ \A k \in 1 .. Len(b) : s[Len(a) + Len(m) + k] = b[k]
<1> DEFINE am == a \o m
<1>0. am \in Seq(V)
  BY TwoParts
<1>1. /\ Len(am) = Len(a) + Len(m)
      /\ \A k \in 1 .. Len(a) : am[k] = a[k]
      /\ \A k \in 1 .. Len(m) : am[Len(a) + k] = m[k]
  BY TwoParts
<1> HIDE DEF am
<1>2. /\ am \o b \in Seq(V) /\ Len(am \o b) = Len(am) + Len(b)
      /\ \A k \in 1 .. Len(am) : (am \o b)[k] = am[k]
      /\ \A k \in 1 .. Len(b) : (am \o b)[Len(am) + k] = b[k]
  BY <1>0, TwoParts
<1>3. /\ \A k \in 1 .. Len(a) : k \in 1 .. Len(am)
      /\ \A k \in 1 .. Len(m) : Len(a) + k \in 1 .. Len(am)
  BY <1>1
<1> QED
  BY <1>0, <1>1, <1>2, <1>3 DEF am

\* Parts may be taken together in any way.  Join and Within are \o by names the
\* provers do not open.
Join(a, b) == a \o b

Within(a, m, b) == (a \o m) \o b

\* Two texts over one alphabet join to one over it.
LEMMA JoinType ==
    ASSUME NEW V, NEW a \in Seq(V), NEW b \in Seq(V) PROVE Join(a, b) \in Seq(V)
  BY DEF Join

\* Join is associative.
LEMMA JoinGroup ==
    ASSUME NEW V, NEW a \in Seq(V), NEW b \in Seq(V), NEW c \in Seq(V)
    PROVE  Join(Join(a, b), c) = Join(a, Join(b, c))
<1>1. (a \o b) \o c = a \o (b \o c)
  OBVIOUS
<1> QED
  BY <1>1, Zenon DEF Join

\* A character at the end of the second text is one at the end of both.
LEMMA JoinLonger ==
    ASSUME NEW V, NEW a \in Seq(V), NEW b \in Seq(V), NEW x \in V
    PROVE  Append(Join(a, b), x) = Join(a, Append(b, x))
<1>1. a \o Append(b, x) = Append(a \o b, x)
  OBVIOUS
<1> QED
  BY <1>1, Zenon DEF Join

\* Within is two joins.
LEMMA WithinIs ==
    ASSUME NEW a, NEW m, NEW b PROVE Within(a, m, b) = Join(Join(a, m), b)
  BY Zenon DEF Within, Join

\* What is within a text that is within others is within longer ones.
LEMMA WithinWithin ==
    ASSUME NEW V, NEW a \in Seq(V), NEW p \in Seq(V), NEW c \in Seq(V), NEW q \in Seq(V),
           NEW b \in Seq(V)
    PROVE  Within(a, Within(p, c, q), b) = Within(Join(a, p), c, Join(q, b))
<1>1. Join(a, Join(Join(p, c), q)) = Join(Join(Join(a, p), c), q)
  BY JoinType, JoinGroup
<1>2. Join(Join(a, Join(Join(p, c), q)), b) = Join(Join(Join(a, p), c), Join(q, b))
  BY <1>1, JoinType, JoinGroup
<1> QED
  BY <1>2, WithinIs

\* Nothing is left of a text of the characters stripped.
LEMMA StripNothing ==
    ASSUME NEW chars, NEW s \in Seq(chars) PROVE Strip(s, chars) = <<>>
<1>1. {i \in DOMAIN s : s[i] \notin chars} = {}
  OBVIOUS
<1> QED
  BY <1>1 DEF Strip

\* What stays is what stands between ends that are stripped.
LEMMA StripIs ==
    ASSUME NEW V, NEW chars, NEW a \in Seq(V \cap chars), NEW b \in Seq(V \cap chars),
           NEW m \in Seq(V), m # <<>>, m[1] \notin chars, m[Len(m)] \notin chars
    PROVE  Strip(Within(a, m, b), chars) = m
<1> DEFINE s == (a \o m) \o b
           la == Len(a)
           lm == Len(m)
           kept == {i \in DOMAIN s : s[i] \notin chars}
<1>1. a \in Seq(V) /\ b \in Seq(V)
  BY SeqMonotonic, V \cap chars \subseteq V
<1>2. /\ s \in Seq(V)
      /\ Len(s) = la + lm + Len(b)
      /\ \A k \in 1 .. la : s[k] = a[k]
      /\ \A k \in 1 .. lm : s[la + k] = m[k]
      /\ \A k \in 1 .. Len(b) : s[la + lm + k] = b[k]
  BY <1>1, ThreeParts
<1>3. la \in Nat /\ lm \in Nat \ {0} /\ Len(b) \in Nat
  BY EmptySeq
<1>4. /\ \A k \in 1 .. la : a[k] \in chars
      /\ \A k \in 1 .. Len(b) : b[k] \in chars
  BY ElementOfSeq
<1>5. DOMAIN s = 1 .. la + lm + Len(b)
  <2> HIDE DEF s
  <2> QED
    BY <1>2, LenProperties
<1> HIDE DEF s, la, lm
<1>6. la + 1 \in kept /\ la + lm \in kept
  <2>1. s[la + 1] = m[1] /\ s[la + lm] = m[lm]
    BY <1>2, <1>3
  <2> QED
    BY <1>3, <1>5, <2>1 DEF lm
<1>7. \A k \in kept : la + 1 <= k /\ k <= la + lm
  <2>1. SUFFICES ASSUME NEW k \in kept PROVE la + 1 <= k /\ k <= la + lm
    OBVIOUS
  <2>2. k \in 1 .. la + lm + Len(b) /\ s[k] \notin chars
    BY <1>5
  <2>3. ~(k \in 1 .. la)
    BY <1>2, <1>4, <2>2 DEF la
  <2>4. ~(k - (la + lm) \in 1 .. Len(b))
    <3>1. SUFFICES ASSUME k - (la + lm) \in 1 .. Len(b) PROVE FALSE
      OBVIOUS
    <3>2. la + lm + (k - (la + lm)) = k
      BY <1>3, <2>2
    <3> QED
      BY <1>2, <1>4, <2>2, <3>1, <3>2
  <2> QED
    BY <1>3, <2>2, <2>3, <2>4
<1> HIDE DEF kept
<1>8. kept \subseteq Nat /\ kept \subseteq 1 .. la + lm + Len(b) /\ la + lm + Len(b) \in Nat
  BY <1>3, <1>5 DEF kept
<1>9. Smallest(kept) = la + 1 /\ Largest(kept) = la + lm
  <2>1. Smallest(kept) \in kept /\ Smallest(kept) <= la + 1
    BY <1>6, <1>8, SmallestIs
  <2>2. Largest(kept) \in kept /\ Largest(kept) >= la + lm
    BY <1>6, <1>8, LargestIs
  <2>3. /\ Smallest(kept) \in Nat /\ la + 1 <= Smallest(kept)
        /\ Largest(kept) \in Nat /\ Largest(kept) <= la + lm
    BY <1>7, <1>8, <2>1, <2>2
  <2> QED
    BY <1>3, <2>1, <2>2, <2>3
<1>10. SubSeq(s, la + 1, la + lm) = m
  <2> DEFINE am == a \o m
  <2>1. am \in Seq(V) /\ Len(am) = la + lm /\ s = am \o b
    BY <1>1, ConcatProperties DEF la, lm, s
  <2>2. la + 1 \in 1 .. la + lm /\ la + lm \in 1 .. la + lm
    BY <1>3
  <2>3. SubSeq(s, la + 1, la + lm) = SubSeq(am, la + 1, la + lm)
    <3> HIDE DEF am
    <3> QED
      BY <1>1, <2>1, <2>2, SubSeqOfConcat1
  <2>4. la + 1 \in la + 1 .. la + lm /\ la + lm \in la + 1 .. la + lm
    BY <1>3
  <2>5. SubSeq(a \o m, la + 1, la + lm) = SubSeq(m, la + 1 - la, la + lm - la)
    BY <1>1, <2>4, SubSeqOfConcat2 DEF la, lm
  <2>6. la + 1 - la = 1 /\ la + lm - la = lm
    BY <1>3
  <2> QED
    BY <2>3, <2>5, <2>6, SubSeqFull DEF lm
<1>11. Strip(s, chars) = IF kept = {} THEN <<>> ELSE SubSeq(s, Smallest(kept), Largest(kept))
  BY DEF Strip, kept
<1> QED
  BY <1>6, <1>9, <1>10, <1>11 DEF s, Within

\* s is m with texts of W around it.
Around(s, m, W) == \E a, b \in Seq(W) : s = Within(a, m, b)

\* Every text is what is stripped, what stays, and what is stripped.
LEMMA StripSplits ==
    ASSUME NEW V, NEW s \in Seq(V), NEW chars
    PROVE  /\ Strip(s, chars) \in Seq(V)
           /\ Strip(s, chars) # <<>> =>
                  /\ Strip(s, chars)[1] \notin chars
                  /\ Strip(s, chars)[Len(Strip(s, chars))] \notin chars
           /\ Around(s, Strip(s, chars), V \cap chars)
<1> DEFINE kept == {i \in DOMAIN s : s[i] \notin chars}
<1>1. Strip(s, chars) = IF kept = {} THEN <<>> ELSE SubSeq(s, Smallest(kept), Largest(kept))
  BY DEF Strip
<1>2. CASE kept = {}
  <2>1. s \in Seq(V \cap chars)
    <3>1. \A k \in 1 .. Len(s) : s[k] \in V \cap chars
      BY <1>2
    <3>2. SubSeq(s, 1, Len(s)) \in Seq(V \cap chars)
      BY <3>1, SubSeqProperties
    <3> QED
      BY <3>2, SubSeqFull
  <2>2. Strip(s, chars) = <<>> /\ <<>> \in Seq(V) /\ <<>> \in Seq(V \cap chars)
    BY <1>1, <1>2, EmptySeq
  <2>3. s = Within(s, <<>>, <<>>)
    BY ConcatEmptySeq DEF Within
  <2> QED
    BY <2>1, <2>2, <2>3 DEF Around
<1>3. CASE kept # {}
  <2> DEFINE i == Smallest(kept)
             j == Largest(kept)
             n == Len(s)
  <2>1. n \in Nat /\ DOMAIN s = 1 .. n
    OBVIOUS
  <2>2. kept \subseteq Nat /\ kept \subseteq 1 .. n
    BY <2>1
  <2>3. \A k \in 1 .. n : k \notin kept => s[k] \in V \cap chars
    BY <2>1
  <2>4. \A k \in kept : k \in 1 .. n /\ s[k] \notin chars /\ s[k] \in V
    BY <2>1
  <2> HIDE DEF kept
  <2>5. i \in kept /\ j \in kept /\ \A k \in kept : i <= k /\ k <= j
    BY <1>3, <2>1, <2>2, SmallestIs, LargestIs
  <2> HIDE DEF i, j
  <2>6. i \in 1 .. n /\ j \in i .. n
    BY <2>1, <2>2, <2>5
  <2> DEFINE a == SubSeq(s, 1, i - 1)
             m == SubSeq(s, i, j)
             b == SubSeq(s, j + 1, n)
  <2>7. a \in Seq(V \cap chars)
    <3>1. \A k \in 1 .. i - 1 : s[k] \in V \cap chars
      BY <2>1, <2>3, <2>5, <2>6
    <3> QED
      BY <2>1, <2>6, <3>1, SubSeqProperties
  <2>8. b \in Seq(V \cap chars)
    <3>1. \A k \in j + 1 .. n : s[k] \in V \cap chars
      BY <2>1, <2>3, <2>5, <2>6
    <3> QED
      BY <2>1, <2>6, <3>1, SubSeqProperties
  <2>9. /\ m \in Seq(V) /\ Len(m) = j - i + 1
        /\ m[1] = s[i] /\ m[j - i + 1] = s[j]
    <3>1. \A k \in i .. j : s[k] \in V
      BY <2>1, <2>6
    <3>2. /\ m \in Seq(V) /\ Len(m) = j - i + 1
          /\ \A k \in 1 .. j - i + 1 : m[k] = s[i + k - 1]
      BY <2>1, <2>6, <3>1, SubSeqProperties
    <3>3. /\ 1 \in 1 .. j - i + 1 /\ j - i + 1 \in 1 .. j - i + 1
          /\ i + 1 - 1 = i /\ i + (j - i + 1) - 1 = j
      BY <2>1, <2>6
    <3> HIDE DEF m
    <3> QED
      BY <3>2, <3>3
  <2>10. s = Within(a, m, b)
    BY <2>6, InThree DEF Within
  <2>11. Strip(s, chars) = m
    BY <1>1, <1>3 DEF i, j
  <2>12. s[i] \notin chars /\ s[j] \notin chars
    BY <2>4, <2>5
  <2> HIDE DEF a, b, m, n
  <2>13. Around(s, m, V \cap chars)
    BY <2>7, <2>8, <2>10 DEF Around
  <2> QED
    BY <2>9, <2>11, <2>12, <2>13
<1> QED
  BY <1>2, <1>3

-----------------------------------------------------------------------------
(* normalize_phone *)

Digits == AsciiDigits \cup OtherDigits

\* What is dialled, before the plus is put in order.
Dial(s) == OnlyDialled(AfterChannel(s))

\* The number made of what is dialled.
Key(dialled) ==
    LET number == <<"+">> \o Without(Tail(WithPlus(dialled)), {"+"})
    IN  IF IsE164(number) THEN number ELSE Invalid

\* A text without a colon has no channel.
LEMMA NoChannel ==
    ASSUME NEW V, NEW s \in Seq(V \ {":"}) PROVE AfterChannel(s) = s
<1>1. \A i \in DOMAIN s : s[i] # ":"
  OBVIOUS
<1>2. {i \in DOMAIN s : s[i] = ":"} = {}
  BY <1>1
<1> QED
  BY <1>2 DEF AfterChannel

\* AfterChannel drops a channel and its colon.
LEMMA ChannelIs ==
    ASSUME NEW V, ":" \in V, NEW p \in Seq(V \ {":"}), NEW q \in Seq(V)
    PROVE  AfterChannel(Within(p, <<":">>, q)) = q
<1> DEFINE c == <<":">>
           s == (p \o c) \o q
           lp == Len(p)
           colons == {i \in DOMAIN s : s[i] = ":"}
<1>0. p \in Seq(V) /\ c \in Seq(V)
  BY SeqMonotonic, V \ {":"} \subseteq V
<1>1. Len(c) = 1 /\ c[1] = ":"
  OBVIOUS
<1>2. lp \in Nat /\ Len(q) \in Nat /\ \A k \in 1 .. lp : p[k] # ":"
  BY ElementOfSeq
<1> HIDE DEF c
<1>3. /\ s \in Seq(V)
      /\ Len(s) = lp + Len(c) + Len(q)
      /\ \A k \in 1 .. lp : s[k] = p[k]
      /\ \A k \in 1 .. Len(c) : s[lp + k] = c[k]
      /\ \A k \in 1 .. Len(q) : s[lp + Len(c) + k] = q[k]
  BY <1>0, ThreeParts
<1>4. DOMAIN s = 1 .. lp + 1 + Len(q)
  <2> HIDE DEF s
  <2> QED
    BY <1>1, <1>3, LenProperties
<1> HIDE DEF s, lp
<1>5. lp + 1 \in colons /\ s[lp + 1] = ":"
  <2>1. 1 \in 1 .. Len(c)
    BY <1>1
  <2>2. s[lp + 1] = ":"
    BY <1>1, <1>3, <2>1
  <2> QED
    BY <1>2, <1>4, <2>2
<1>6. \A k \in colons : k \in Nat /\ lp + 1 <= k
  <2>1. SUFFICES ASSUME NEW k \in colons PROVE k \in Nat /\ lp + 1 <= k
    OBVIOUS
  <2>2. k \in 1 .. lp + 1 + Len(q) /\ s[k] = ":"
    BY <1>4
  <2>3. ~(k \in 1 .. lp)
    BY <1>2, <1>3, <2>2
  <2> QED
    BY <1>2, <2>2, <2>3
<1> HIDE DEF colons
<1>7. Smallest(colons) = lp + 1
  <2>1. Smallest(colons) \in colons /\ Smallest(colons) <= lp + 1
    BY <1>5, <1>6, SmallestIs
  <2>2. Smallest(colons) \in Nat /\ lp + 1 <= Smallest(colons)
    BY <1>6, <2>1
  <2> QED
    BY <1>2, <2>1, <2>2
<1>8. AfterChannel(s) = SubSeq(s, lp + 1 + 1, Len(s))
  BY <1>5, <1>7 DEF AfterChannel, colons
<1>9. SubSeq(s, lp + 1 + 1, Len(s)) = q
  <2> DEFINE n == Len(q)
             from == lp + 1 + 1
             t == SubSeq(s, from, Len(s))
  <2>1. Len(s) = lp + 1 + n /\ n \in Nat /\ from \in Nat /\ from = lp + 2 /\ Len(s) \in Nat
    BY <1>1, <1>2, <1>3
  <2>2. \A k \in from .. Len(s) : s[k] \in V
    <3>1. \A k \in from .. Len(s) : k \in 1 .. Len(s)
      BY <1>2, <2>1
    <3> QED
      BY <1>3, <3>1, ElementOfSeq
  <2> HIDE DEF from, n
  <2>3. /\ t \in Seq(V)
        /\ Len(t) = IF from <= Len(s) THEN Len(s) - from + 1 ELSE 0
        /\ \A k \in 1 .. Len(s) - from + 1 : t[k] = s[from + k - 1]
    BY <2>1, <2>2, SubSeqProperties
  <2>4. Len(t) = n
    BY <1>2, <2>1, <2>3
  <2>5. ASSUME NEW k \in 1 .. n PROVE t[k] = q[k]
    <3>1. k \in 1 .. Len(s) - from + 1 /\ from + k - 1 = lp + Len(c) + k
      BY <1>1, <1>2, <2>1
    <3>2. t[k] = s[lp + Len(c) + k]
      BY <2>3, <3>1
    <3> QED
      BY <1>3, <3>2 DEF n
  <2> HIDE DEF t
  <2>6. t = q
    BY <2>3, <2>4, <2>5, SeqEqual DEF n
  <2> QED
    BY <2>6 DEF t, from
<1> QED
  BY <1>8, <1>9 DEF s, c, Within

\* Every text has no channel, or has one before its first colon.
LEMMA ChannelSplits ==
    ASSUME NEW V, NEW s \in Seq(V)
    PROVE  \/ s \in Seq(V \ {":"})
           \/ /\ ":" \in V
              /\ \E p \in Seq(V \ {":"}), q \in Seq(V) : s = Within(p, <<":">>, q)
<1> DEFINE colons == {i \in DOMAIN s : s[i] = ":"}
           n == Len(s)
<1>1. n \in Nat /\ DOMAIN s = 1 .. n
  OBVIOUS
<1>2. \A k \in 1 .. n : s[k] \in V /\ (k \notin colons => s[k] # ":")
  BY <1>1
<1>3. colons \subseteq Nat /\ \A k \in colons : k \in 1 .. n /\ s[k] = ":"
  BY <1>1
<1> HIDE DEF colons
<1>4. CASE colons = {}
  <2>1. \A k \in 1 .. n : s[k] \in V \ {":"}
    BY <1>2, <1>4
  <2>2. SubSeq(s, 1, n) \in Seq(V \ {":"})
    BY <1>1, <2>1, SubSeqProperties
  <2> QED
    BY <2>2, SubSeqFull
<1>5. CASE colons # {}
  <2> DEFINE i == Smallest(colons)
  <2>1. i \in colons /\ \A k \in colons : i <= k
    BY <1>3, <1>5, SmallestIs
  <2> HIDE DEF i
  <2>2. i \in 1 .. n /\ s[i] = ":" /\ ":" \in V
    BY <1>2, <1>3, <2>1
  <2> DEFINE p == SubSeq(s, 1, i - 1)
             q == SubSeq(s, i + 1, n)
  <2>3. s = (p \o SubSeq(s, i, i)) \o q
    <3>1. i \in 1 .. Len(s) /\ i \in i .. Len(s)
      BY <1>1, <2>2
    <3> QED
      BY <3>1, InThree
  <2>4. SubSeq(s, i, i) = <<":">>
    <3>1. \A k \in i .. i : s[k] \in V
      BY <1>2, <2>2
    <3>2. /\ SubSeq(s, i, i) \in Seq(V) /\ Len(SubSeq(s, i, i)) = 1
          /\ SubSeq(s, i, i)[1] = s[i]
      BY <1>1, <2>2, <3>1, SubSeqProperties
    <3>3. <<":">> \in Seq(V) /\ Len(<<":">>) = 1 /\ <<":">>[1] = ":"
      BY <2>2
    <3> DEFINE t == SubSeq(s, i, i)
               c == <<":">>
    <3>4. t \in Seq(V) /\ c \in Seq(V) /\ Len(t) = Len(c) /\ \A k \in 1 .. Len(t) : t[k] = c[k]
      BY <2>2, <3>2, <3>3
    <3> HIDE DEF t, c
    <3>5. t = c
      BY <3>4, SeqEqual
    <3> QED
      BY <3>5 DEF t, c
  <2>5. p \in Seq(V \ {":"})
    <3>1. \A k \in 1 .. i - 1 : s[k] \in V \ {":"}
      BY <1>1, <1>2, <2>1, <2>2
    <3> QED
      BY <1>1, <2>2, <3>1, SubSeqProperties
  <2>6. q \in Seq(V)
    <3>1. \A k \in i + 1 .. n : s[k] \in V
      BY <1>1, <1>2, <2>2
    <3> QED
      BY <1>1, <2>2, <3>1, SubSeqProperties
  <2>7. s = Within(p, <<":">>, q)
    BY <2>3, <2>4 DEF Within
  <2> HIDE DEF p, q
  <2> QED
    BY <2>2, <2>5, <2>6, <2>7
<1> QED
  BY <1>4, <1>5

\* What follows the channel is a text over the same alphabet.
LEMMA AfterChannelType ==
    ASSUME NEW V, NEW s \in Seq(V) PROVE AfterChannel(s) \in Seq(V)
<1>1. CASE s \in Seq(V \ {":"})
  BY <1>1, NoChannel
<1>2. CASE /\ ":" \in V
           /\ \E p \in Seq(V \ {":"}), q \in Seq(V) : s = Within(p, <<":">>, q)
  BY <1>2, ChannelIs
<1> QED
  BY <1>1, <1>2, ChannelSplits

Dialled == Digits \cup {"+"}

\* A colon is not dialled, and neither is a blank.
LEMMA Characters ==
    /\ Blanks \cap Dialled = {} /\ ":" \notin Blanks /\ ":" \notin Dialled
    /\ "+" \in Dialled /\ "+" \notin Digits /\ "0" \in Digits
    /\ AsciiDigits \subseteq Digits /\ Digits \subseteq Dialled
    /\ Digits = Dialled \ {"+"}
  BY DEF Blanks, Dialled, Digits, AsciiDigits, OtherDigits

\* Dial keeps what is dialled after the channel.
LEMMA DialIs == ASSUME NEW s PROVE Dial(s) = Only(AfterChannel(s), Dialled)
<1>1. AsciiDigits \cup OtherDigits \cup {"+"} = Dialled
  BY DEF Dialled, Digits
<1> QED
  BY <1>1 DEF Dial, OnlyDialled

\* What is dialled when there is a channel.
LEMMA DialInChannel ==
    ASSUME NEW V, ":" \in V, NEW p \in Seq(V \ {":"}), NEW q \in Seq(V)
    PROVE  Dial(Within(p, <<":">>, q)) = Only(q, Dialled)
  BY ChannelIs, DialIs

\* What is dialled when there is none.
LEMMA DialNoChannel ==
    ASSUME NEW V, NEW s \in Seq(V \ {":"}) PROVE Dial(s) = Only(s, Dialled)
  BY NoChannel, DialIs

\* Blanks at the ends of a text do not matter to what is dialled.
LEMMA BlankEnds ==
    ASSUME NEW V, NEW a \in Seq(V \cap Blanks), NEW m \in Seq(V), NEW b \in Seq(V \cap Blanks)
    PROVE  Only(Within(a, m, b), Dialled) = Only(m, Dialled)
<1>1. a \in Seq(V) /\ b \in Seq(V) /\ a \o m \in Seq(V)
  BY SeqMonotonic, ConcatProperties, V \cap Blanks \subseteq V
<1>2. V \cap Blanks \cap Dialled = {}
  BY Characters
<1>3. Only(a, Dialled) = <<>> /\ Only(b, Dialled) = <<>>
  BY <1>2, OnlyOfNone
<1>4. Only((a \o m) \o b, Dialled) = (Only(a, Dialled) \o Only(m, Dialled)) \o Only(b, Dialled)
  <2>1. Only(a \o m, Dialled) = Only(a, Dialled) \o Only(m, Dialled)
    BY <1>1, OnlyOfConcat
  <2> DEFINE am == a \o m
  <2>2. am \in Seq(V) /\ b \in Seq(V)
    BY <1>1
  <2> HIDE DEF am
  <2>3. Only(am \o b, Dialled) = Only(am, Dialled) \o Only(b, Dialled)
    BY <2>2, OnlyOfConcat
  <2> QED
    BY <2>1, <2>3 DEF am
<1>5. Only(m, Dialled) \in Seq(V \cap Dialled)
  BY OnlyType
<1> QED
  BY <1>3, <1>4, <1>5, ConcatEmptySeq DEF Within

\* Nor do they matter before a channel or after a number with one.
LEMMA EndsNotDialled ==
    ASSUME NEW V, NEW a \in Seq(V \cap Blanks), NEW m \in Seq(V), NEW b \in Seq(V \cap Blanks)
    PROVE  Dial(Within(a, m, b)) = Dial(m)
<1> DEFINE W == V \ {":"}
<1>1. V \cap Blanks \subseteq W /\ V \cap Blanks \subseteq V /\ W \subseteq V
  BY Characters
<1>2. a \in Seq(W) /\ b \in Seq(W)
  BY <1>1, SeqMonotonic
<1>3. a \in Seq(V) /\ b \in Seq(V)
  BY <1>1, SeqMonotonic
<1>4. CASE m \in Seq(W)
  <2>1. Within(a, m, b) \in Seq(W)
    BY <1>2, <1>4, WithinIs, JoinType
  <2>2. Dial(Within(a, m, b)) = Only(Within(a, m, b), Dialled)
    BY <2>1, DialNoChannel
  <2>3. Dial(m) = Only(m, Dialled)
    BY <1>4, DialNoChannel
  <2> QED
    BY <2>2, <2>3, BlankEnds
<1>5. CASE /\ ":" \in V
           /\ \E p \in Seq(W), q \in Seq(V) : m = Within(p, <<":">>, q)
  <2>1. PICK p \in Seq(W), q \in Seq(V) : m = Within(p, <<":">>, q)
    BY <1>5
  <2>2. p \in Seq(V)
    BY <1>1, SeqMonotonic
  <2> DEFINE c == <<":">>
  <2>3. c \in Seq(V)
    BY <1>5
  <2>4. m = Within(p, c, q)
    BY <2>1
  <2> HIDE DEF c
  <2>5. Within(a, m, b) = Within(Join(a, p), c, Join(q, b))
    BY <1>3, <2>2, <2>3, <2>4, WithinWithin
  <2>6. Join(a, p) \in Seq(W)
    BY <1>2, JoinType
  <2>7. Join(q, b) \in Seq(V)
    BY <1>3, JoinType
  <2>8. Dial(Within(a, m, b)) = Only(Join(q, b), Dialled)
    BY <1>5, <2>5, <2>6, <2>7, DialInChannel DEF c
  <2>9. Dial(m) = Only(q, Dialled)
    BY <1>5, <2>1, DialInChannel
  <2>10. Only(Join(q, b), Dialled) = Only(q, Dialled)
    <3>1. <<>> \in Seq(V \cap Blanks) /\ <<>> \o q = q
      BY EmptySeq, ConcatEmptySeq
    <3>2. Only(Within(<<>>, q, b), Dialled) = Only(q, Dialled)
      BY <3>1, BlankEnds
    <3>3. Within(<<>>, q, b) = Join(q, b)
      BY <3>1, Zenon DEF Within, Join
    <3> QED
      BY <3>2, <3>3
  <2> QED
    BY <2>8, <2>9, <2>10
<1> QED
  BY <1>4, <1>5, ChannelSplits

\* str.strip does not change what is dialled.
LEMMA StripNotDialled ==
    ASSUME NEW V, NEW s \in Seq(V)
    PROVE  Dial(Strip(s, Blanks)) = Dial(s)
<1> DEFINE m == Strip(s, Blanks)
<1>1. m \in Seq(V) /\ Around(s, m, V \cap Blanks)
  BY StripSplits
<1> HIDE DEF m
<1>2. PICK a \in Seq(V \cap Blanks), b \in Seq(V \cap Blanks) : s = Within(a, m, b)
  BY <1>1 DEF Around
<1>3. Dial(Within(a, m, b)) = Dial(m)
  BY <1>1, EndsNotDialled
<1> QED
  BY <1>2, <1>3 DEF m

\* normalize_phone depends on what is dialled after the first colon.
LEMMA NormalizeIs ==
    ASSUME NEW V, NEW s \in Seq(V) PROVE NormalizePhone(s) = Key(Dial(s))
<1>1. NormalizePhone(s) = Key(Dial(Strip(s, Blanks)))
  BY DEF NormalizePhone, Key, Dial
<1> QED
  BY <1>1, StripNotDialled

\* What is dialled is digits and pluses.
LEMMA DialType ==
    ASSUME NEW V, NEW s \in Seq(V) PROVE Dial(s) \in Seq(Dialled)
<1>1. ASSUME NEW t \in Seq(V) PROVE Only(t, Dialled) \in Seq(Dialled)
  BY OnlyType, SeqMonotonic, V \cap Dialled \subseteq Dialled
<1>2. CASE s \in Seq(V \ {":"})
  BY <1>1, <1>2, DialNoChannel
<1>3. CASE /\ ":" \in V
           /\ \E p \in Seq(V \ {":"}), q \in Seq(V) : s = Within(p, <<":">>, q)
  BY <1>1, <1>3, DialInChannel
<1> QED
  BY <1>2, <1>3, ChannelSplits

-----------------------------------------------------------------------------
(* Separators. *)

\* A character typed at the end of a text with a channel is typed after the channel.
LEMMA TypedWithin ==
    ASSUME NEW V, NEW p \in Seq(V), NEW c \in Seq(V), NEW q \in Seq(V), NEW x \in V
    PROVE  Append(Within(p, c, q), x) = Within(p, c, Append(q, x))
<1> DEFINE pc == Join(p, c)
<1>1. pc \in Seq(V)
  BY JoinType
<1> HIDE DEF pc
<1>2. Append(Join(pc, q), x) = Join(pc, Append(q, x))
  BY <1>1, JoinLonger
<1>3. \A b : Within(p, c, b) = Join(pc, b)
  BY WithinIs DEF pc
<1> QED
  BY <1>2, <1>3, Zenon

\* After a character that is not a colon: it is dialled, or nothing is.
LEMMA DialOfLonger ==
    ASSUME NEW V, NEW s \in Seq(V), NEW x \in V \ {":"}
    PROVE  Dial(Append(s, x)) = IF x \in Dialled THEN Append(Dial(s), x) ELSE Dial(s)
<1> DEFINE W == V \ {":"}
           longer == Append(s, x)
<1>1. CASE s \in Seq(W)
  <2>1. longer \in Seq(W)
    BY <1>1
  <2> HIDE DEF W
  <2>2. Only(longer, Dialled) = IF x \in Dialled THEN Append(Only(s, Dialled), x)
                                ELSE Only(s, Dialled)
    BY <1>1, OnlyOfLonger DEF W
  <2> HIDE DEF longer
  <2>3. Dial(longer) = Only(longer, Dialled) /\ Dial(s) = Only(s, Dialled)
    BY <1>1, <2>1, DialNoChannel DEF W
  <2> QED
    BY <2>2, <2>3 DEF longer
<1>2. CASE /\ ":" \in V
           /\ \E p \in Seq(W), q \in Seq(V) : s = Within(p, <<":">>, q)
  <2>1. PICK p \in Seq(W), q \in Seq(V) : s = Within(p, <<":">>, q)
    BY <1>2
  <2> DEFINE c == <<":">>
             next == Append(q, x)
  <2>2. c \in Seq(V) /\ next \in Seq(V)
    BY <1>2
  <2>3. p \in Seq(V)
    BY SeqMonotonic, W \subseteq V
  <2>4. s = Within(p, c, q)
    BY <2>1
  <2>5. Only(next, Dialled) = IF x \in Dialled THEN Append(Only(q, Dialled), x)
                              ELSE Only(q, Dialled)
    BY OnlyOfLonger
  <2> HIDE DEF c
  <2>6. Append(Within(p, c, q), x) = Within(p, c, Append(q, x))
    BY <2>2, <2>3, TypedWithin
  <2>7. longer = Within(p, c, next)
    BY <2>4, <2>6, Zenon
  <2> HIDE DEF longer, next
  <2>8. Dial(longer) = Only(next, Dialled) /\ Dial(s) = Only(q, Dialled)
    BY <1>2, <2>2, <2>4, <2>7, DialInChannel DEF c
  <2> QED
    BY <2>5, <2>8 DEF longer
<1> QED
  BY <1>1, <1>2, ChannelSplits

-----------------------------------------------------------------------------
(* What is typed. *)

TextType == text \in Seq(Alphabet)

\* Nothing typed is a text.
LEMMA TypingStarts == Init => TextType
  BY EmptySeq DEF Init, TextType

\* One more key is a text.
LEMMA TypingGoesOn == TextType /\ [Next]_text => TextType'
  BY DEF TextType, Next, Type

\* A text is typed with the keys there are.
LEMMA TextTyped == Spec => []TextType
  BY TypingStarts, TypingGoesOn, PTL DEF Spec

\* A separator typed after a number does not change its key.
THEOREM SeparatorsDoNotMatter == Spec => SeparatorsIrrelevant
<1>1. TextType /\ [Next]_text =>
          [ text'[Len(text')] \notin AsciiDigits \cup OtherDigits \cup {"+", ":"} =>
                NormalizePhone(text') = NormalizePhone(text) ]_text
  <2>1. SUFFICES ASSUME TextType, NEW ch \in Alphabet, Type(ch),
                        ch \notin Dialled /\ ch # ":"
                 PROVE  NormalizePhone(text') = NormalizePhone(text)
    <3>1. ASSUME NEW ch \in Alphabet, TextType, Type(ch) PROVE text'[Len(text')] = ch
      BY <3>1 DEF TextType, Type
    <3> QED
      BY <3>1 DEF Next, Dialled, Digits
  <2> DEFINE s == text
             longer == Append(s, ch)
  <2>2. s \in Seq(Alphabet) /\ longer \in Seq(Alphabet) /\ ch \in Alphabet \ {":"}
    BY <2>1 DEF TextType
  <2>3. text' = longer
    BY <2>1 DEF Type
  <2> HIDE DEF s
  <2>4. Dial(longer) = Dial(s)
    BY <2>1, <2>2, DialOfLonger
  <2> HIDE DEF longer
  <2>5. NormalizePhone(longer) = Key(Dial(longer)) /\ NormalizePhone(s) = Key(Dial(s))
    BY <2>2, NormalizeIs
  <2> QED
    BY <2>3, <2>4, <2>5 DEF s
<1> QED
  BY <1>1, TextTyped, PTL DEF Spec, SeparatorsIrrelevant

-----------------------------------------------------------------------------
(* Keys. *)

Plus(d) == <<"+">> \o d

International(d) == <<"0", "0">> \o d

\* The number a plus, an international prefix and digits make.
LEMMA PlusIs ==
    ASSUME NEW V, NEW d \in Seq(V)
    PROVE  /\ Plus(d) # <<>> /\ Plus(d)[1] = "+" /\ Len(Plus(d)) = Len(d) + 1
           /\ \A k \in 1 .. Len(d) : Plus(d)[k + 1] = d[k]
           /\ Tail(Plus(d)) = d
           /\ Plus(d) \in Seq(V \cup {"+"})
<1> DEFINE p == <<"+">>
<1>1. p \in Seq(V \cup {"+"}) /\ d \in Seq(V \cup {"+"}) /\ Len(p) = 1 /\ p[1] = "+"
  BY SeqMonotonic, V \subseteq V \cup {"+"}
<1> HIDE DEF p
<1>2. /\ p \o d \in Seq(V \cup {"+"}) /\ Len(p \o d) = 1 + Len(d)
      /\ (p \o d)[1] = "+"
      /\ \A k \in 1 .. Len(d) : (p \o d)[1 + k] = d[k]
  BY <1>1, TwoParts
<1>3. Tail(p \o d) = d
  BY <1>1, <1>2
<1> QED
  BY <1>2, <1>3 DEF Plus, p

\* The same number with 00 for the plus.
LEMMA InternationalIs ==
    ASSUME NEW V, NEW d \in Seq(V)
    PROVE  /\ Len(International(d)) = Len(d) + 2
           /\ International(d)[1] = "0" /\ International(d)[2] = "0"
           /\ SubSeq(International(d), 3, Len(International(d))) = d
           /\ International(d) \in Seq(V \cup {"0"})
<1> DEFINE p == <<"0", "0">>
           W == V \cup {"0"}
           s == p \o d
<1>1. p \in Seq(W) /\ d \in Seq(W) /\ Len(p) = 2 /\ p[1] = "0" /\ p[2] = "0"
  BY SeqMonotonic, V \subseteq V \cup {"0"}
<1> HIDE DEF p, W
<1>2. /\ s \in Seq(W) /\ Len(s) = 2 + Len(d)
      /\ s[1] = "0" /\ s[2] = "0"
      /\ \A k \in 1 .. Len(d) : s[2 + k] = d[k]
  <2>1. /\ s \in Seq(W) /\ Len(s) = Len(p) + Len(d)
        /\ \A k \in 1 .. Len(p) : s[k] = p[k]
        /\ \A k \in 1 .. Len(d) : s[Len(p) + k] = d[k]
    BY <1>1, TwoParts, SMTT(30)
  <2> HIDE DEF s
  <2>2. 1 \in 1 .. Len(p) /\ 2 \in 1 .. Len(p)
    BY <1>1
  <2> QED
    BY <1>1, <2>1, <2>2
<1> DEFINE n == Len(s)
           t == SubSeq(s, 3, n)
<1>3. n \in Nat /\ n >= 2
  BY <1>2
<1>4. \A k \in 3 .. n : s[k] \in W
  BY <1>2, <1>3
<1>5. /\ t \in Seq(W) /\ Len(t) = n - 2
      /\ \A k \in 1 .. n - 2 : t[k] = s[2 + k]
  <2> HIDE DEF n, s
  <2>1. 3 <= n => n - 3 + 1 = n - 2
    BY <1>3
  <2>2. Len(t) = n - 2
    BY <1>3, <1>4, <2>1, SubSeqProperties
  <2>3. t \in Seq(W) /\ \A k \in 1 .. n - 3 + 1 : t[k] = s[3 + k - 1]
    BY <1>3, <1>4, SubSeqProperties
  <2>4. ASSUME NEW k \in 1 .. n - 2 PROVE t[k] = s[2 + k]
    <3>1. k \in 1 .. n - 3 + 1 /\ 3 + k - 1 = 2 + k
      BY <1>3
    <3> QED
      BY <2>3, <3>1
  <2> QED
    BY <2>2, <2>3, <2>4
<1>6. t = d
  <2>1. Len(t) = Len(d)
    BY <1>2, <1>3, <1>5
  <2>2. \A k \in 1 .. Len(t) : t[k] = d[k]
    BY <1>2, <1>5, <2>1
  <2> HIDE DEF t
  <2> QED
    BY <1>1, <1>5, <2>1, <2>2, SeqEqual
<1> QED
  BY <1>2, <1>6 DEF International, p, W

\* There is no plus to remove from digits.
LEMMA PlusDigits ==
    ASSUME NEW d \in Seq(Digits)
    PROVE  Without(d, {"+"}) = d
<1>1. Without(d, {"+"}) = Only(d, Digits \ {"+"})
  BY WithoutIsOnly
<1>2. Digits \ {"+"} = Digits
  BY Characters
<1> QED
  BY <1>1, <1>2, OnlyOfAll

\* A number's key is the number, with the plus, with 00 for it, and without it.
LEMMA OneKey ==
    ASSUME NEW d \in Seq(Digits), d # <<>>, d[1] # "0", IsE164(Plus(d)), NEW x,
           \/ x = Plus(d)
           \/ x = d
           \/ x = International(d)
    PROVE  Key(x) = Plus(d)
<1>1. Len(d) \in Nat /\ Len(d) >= 1 /\ d[1] \in Digits
  BY EmptySeq
<1>2. d[1] # "+"
  BY <1>1, Characters
<1>3. WithPlus(x) = Plus(d)
  <2>1. CASE x = Plus(d)
    BY <2>1, PlusIs DEF WithPlus
  <2>2. CASE x = d
    <3>1. WithPlus(d) = <<"+">> \o d
      BY <1>1, <1>2 DEF WithPlus
    <3> QED
      BY <2>2, <3>1 DEF Plus
  <2>3. CASE x = International(d)
    <3> DEFINE i == International(d)
    <3>0. /\ Len(i) = Len(d) + 2 /\ i[1] = "0" /\ i[2] = "0"
          /\ SubSeq(i, 3, Len(i)) = d
      BY InternationalIs
    <3> HIDE DEF i
    <3>1. Len(x) >= 2 /\ x[1] = "0" /\ x[2] = "0" /\ SubSeq(x, 3, Len(x)) = d
      BY <1>1, <2>3, <3>0 DEF i
    <3>2. WithPlus(x) = <<"+">> \o SubSeq(x, 3, Len(x))
      BY <3>1 DEF WithPlus
    <3> QED
      BY <3>1, <3>2, Zenon DEF Plus
  <2> QED
    BY <2>1, <2>2, <2>3
<1>4. Without(Tail(WithPlus(x)), {"+"}) = d
  BY <1>3, PlusIs, PlusDigits
<1>5. Key(x) = IF IsE164(Plus(d)) THEN Plus(d) ELSE Invalid
  BY <1>4 DEF Key, Plus
<1> QED
  BY <1>5

\* A key is a plus and the digits dialled; the first of them is not zero.
LEMMA KeyIs ==
    ASSUME NEW v \in Seq(Dialled), Key(v) # Invalid
    PROVE  \E d \in Seq(Digits) :
               /\ Key(v) = Plus(d) /\ IsE164(Plus(d))
               /\ d # <<>> /\ d[1] # "0"
               /\ d = Only(Tail(WithPlus(v)), Digits)
<1> DEFINE w == WithPlus(v)
           d == Without(Tail(w), {"+"})
<1>1. Key(v) = Plus(d) /\ IsE164(Plus(d))
  BY DEF Key, Plus
<1>2. w \in Seq(Dialled) /\ w # <<>>
  <2>1. <<"+">> \in Seq(Dialled) /\ Len(<<"+">>) = 1
    BY Characters
  <2> DEFINE rest == SubSeq(v, 3, Len(v))
             p == <<"+">>
  <2>2. rest \in Seq(Dialled)
    BY SubSeqProperties
  <2> HIDE DEF rest, p
  <2>3. p \o rest \in Seq(Dialled) /\ Len(p \o rest) >= 1
    BY <2>1, <2>2, TwoParts DEF p
  <2>4. p \o v \in Seq(Dialled) /\ Len(p \o v) >= 1
    BY <2>1, TwoParts DEF p
  <2>5. (w = v /\ v # <<>>) \/ w = p \o rest \/ w = p \o v
    BY DEF WithPlus, p, rest
  <2>6. \A u \in Seq(Dialled) : Len(u) >= 1 => u # <<>>
    BY EmptySeq
  <2> HIDE DEF w
  <2>7. CASE w = v /\ v # <<>>
    BY <2>7
  <2>8. CASE w = p \o rest
    BY <2>3, <2>6, <2>8, Zenon
  <2>9. CASE w = p \o v
    BY <2>4, <2>6, <2>9, Zenon
  <2> QED
    BY <2>5, <2>7, <2>8, <2>9
<1>3. Tail(w) \in Seq(Dialled)
  BY <1>2
<1>4. d = Only(Tail(w), Digits)
  <2>1. Without(Tail(w), {"+"}) = Only(Tail(w), Dialled \ {"+"})
    BY <1>3, WithoutIsOnly
  <2> QED
    BY <2>1, Characters
<1>5. d \in Seq(Digits)
  <2>1. d \in Seq(Dialled \cap Digits)
    BY <1>3, <1>4, OnlyType
  <2> QED
    BY <2>1, Characters, SeqMonotonic, Dialled \cap Digits = Digits
<1> HIDE DEF d
<1>6. d # <<>> /\ d[1] # "0"
  <2>1. /\ Len(Plus(d)) = Len(d) + 1 /\ \A k \in 1 .. Len(d) : Plus(d)[k + 1] = d[k]
    BY <1>5, PlusIs
  <2>2. Len(Plus(d)) - 1 \in MinDigits .. MaxDigits /\ Plus(d)[2] # "0"
    BY <1>1 DEF IsE164
  <2>3. Len(d) \in Nat /\ Len(d) >= 1
    BY <1>5, <2>1, <2>2, TextAssumption
  <2> QED
    BY <2>1, <2>2, <2>3, EmptySeq
<1> QED
  BY <1>1, <1>4, <1>5, <1>6 DEF w

\* What is dialled is dialled whole.
LEMMA DialOfDialled == ASSUME NEW s \in Seq(Dialled) PROVE Dial(s) = s
<1>1. Dialled \ {":"} = Dialled
  BY Characters
<1>2. Dial(s) = Only(s, Dialled)
  BY <1>1, DialNoChannel
<1> QED
  BY <1>2, OnlyOfAll

\* The key of what is typed, when it is a number: a plus and its digits.
LEMMA NumberHasKey ==
    ASSUME TextType, Number # Invalid
    PROVE  \E d \in Seq(Digits) :
               /\ Number = Plus(d) /\ Tail(Number) = d /\ IsE164(Plus(d))
               /\ d # <<>> /\ d[1] # "0"
               /\ d = Only(Tail(WithPlus(Dial(text))), Digits)
<1> DEFINE v == Dial(text)
<1>1. v \in Seq(Dialled)
  BY DialType DEF TextType
<1>2. Number = Key(v)
  BY NormalizeIs DEF TextType, Number
<1> HIDE DEF v
<1>3. PICK d \in Seq(Digits) : /\ Key(v) = Plus(d) /\ IsE164(Plus(d))
                               /\ d # <<>> /\ d[1] # "0"
                               /\ d = Only(Tail(WithPlus(v)), Digits)
  BY <1>1, <1>2, KeyIs
<1>4. Tail(Plus(d)) = d
  BY PlusIs
<1> QED
  BY <1>2, <1>3, <1>4 DEF v

\* Joined to nothing a text stays what it is.
LEMMA JoinNothing ==
    ASSUME NEW V, NEW s \in Seq(V) PROVE Join(s, <<>>) = s /\ Join(<<>>, s) = s
<1>1. s \o <<>> = s /\ <<>> \o s = s
  BY ConcatEmptySeq
<1> QED
  BY <1>1, Zenon DEF Join

\* OnlyOfConcat by its name.
LEMMA OnlyOfJoin ==
    ASSUME NEW V, NEW s \in Seq(V), NEW t \in Seq(V), NEW chars
    PROVE  Only(Join(s, t), chars) = Join(Only(s, chars), Only(t, chars))
<1>1. Only(s \o t, chars) = Only(s, chars) \o Only(t, chars)
  BY OnlyOfConcat
<1> QED
  BY <1>1, Zenon DEF Join

\* One character is left, or nothing.
LEMMA OnlyOfOne ==
    ASSUME NEW x, NEW chars
    PROVE  /\ <<x>> \in Seq({x})
           /\ Only(<<x>>, chars) = IF x \in chars THEN <<x>> ELSE <<>>
<1> DEFINE s == <<x>>
<1>1. s \in Seq({x})
  OBVIOUS
<1> HIDE DEF s
<1>2. CASE x \in chars
  <2>1. s \in Seq(chars)
    BY <1>1, <1>2, SeqMonotonic, {x} \subseteq chars
  <2> QED
    BY <1>1, <1>2, <2>1, OnlyOfAll DEF s
<1>3. CASE x \notin chars
  <2>1. {x} \cap chars = {}
    BY <1>3
  <2> QED
    BY <1>1, <1>3, <2>1, OnlyOfNone DEF s
<1> QED
  BY <1>2, <1>3

\* Two characters are two texts joined.
LEMMA PairIs ==
    ASSUME NEW V, NEW a \in V, NEW b \in V
    PROVE  <<a, b>> \in Seq(V) /\ <<a, b>> = Join(<<a>>, <<b>>)
<1> DEFINE s == <<a>>
           t == <<b>>
           u == <<a, b>>
           st == s \o t
<1>1. s \in Seq(V) /\ Len(s) = 1 /\ s[1] = a /\ t \in Seq(V) /\ Len(t) = 1 /\ t[1] = b
  OBVIOUS
<1>2. u \in Seq(V) /\ Len(u) = 2 /\ u[1] = a /\ u[2] = b
  OBVIOUS
<1> HIDE DEF s, t, u
<1>3. /\ s \o t \in Seq(V) /\ Len(s \o t) = Len(s) + Len(t)
      /\ \A k \in 1 .. Len(s) : (s \o t)[k] = s[k]
      /\ \A k \in 1 .. Len(t) : (s \o t)[Len(s) + k] = t[k]
  <2>1. s \in Seq(V) /\ t \in Seq(V)
    BY <1>1
  <2> QED
    BY <2>1, TwoParts
<1> HIDE DEF st
<1>4. /\ st \in Seq(V) /\ Len(st) = Len(s) + Len(t)
      /\ \A k \in 1 .. Len(s) : st[k] = s[k]
      /\ \A k \in 1 .. Len(t) : st[Len(s) + k] = t[k]
  BY <1>3, Zenon DEF st
<1>5. Len(st) = 2 /\ st[1] = a /\ st[2] = b
  BY <1>1, <1>4
<1>6. u = st
  <2>1. \A k \in 1 .. Len(u) : u[k] = st[k]
    BY <1>2, <1>5
  <2> QED
    BY <1>2, <1>4, <1>5, <2>1, SeqEqual
<1> QED
  BY <1>2, <1>6, Zenon DEF Join, s, t, u, st

\* Four characters are two texts of two joined.
LEMMA FourIs ==
    ASSUME NEW V, NEW a \in V, NEW b \in V, NEW c \in V, NEW d \in V
    PROVE  <<a, b, c, d>> \in Seq(V) /\ <<a, b, c, d>> = Join(<<a, b>>, <<c, d>>)
<1>1. <<a, b, c, d>> \in Seq(V)
  OBVIOUS
<1>2. <<a, b, c, d>> = <<a, b>> \o <<c, d>>
  OBVIOUS
<1> QED
  BY <1>1, <1>2, Zenon DEF Join

\* Five characters are four and one.
LEMMA FiveIs ==
    ASSUME NEW V, NEW a \in V, NEW b \in V, NEW c \in V, NEW d \in V, NEW e \in V
    PROVE  <<a, b, c, d, e>> \in Seq(V) /\ <<a, b, c, d, e>> = <<a, b, c, d>> \o <<e>>
  OBVIOUS

\* Of four characters the first and the third are left.
LEMMA OnlyOfFour ==
    ASSUME NEW V, NEW a \in V, NEW b \in V, NEW c \in V, NEW d \in V, NEW chars,
           a \in chars, b \notin chars, c \in chars, d \notin chars
    PROVE  Only(<<a, b, c, d>>, chars) = Join(<<a>>, <<c>>)
<1> DEFINE ab == <<a, b>>
           cd == <<c, d>>
           sa == <<a>>
           sb == <<b>>
           sc == <<c>>
           sd == <<d>>
<1>1. /\ sa \in Seq(V) /\ sb \in Seq(V) /\ sc \in Seq(V) /\ sd \in Seq(V)
  OBVIOUS
<1>2. ab \in Seq(V) /\ ab = Join(sa, sb) /\ cd \in Seq(V) /\ cd = Join(sc, sd)
  BY PairIs
<1>3. /\ Only(sa, chars) = sa /\ Only(sb, chars) = <<>>
      /\ Only(sc, chars) = sc /\ Only(sd, chars) = <<>>
  BY OnlyOfOne
<1>4. <<a, b, c, d>> = Join(ab, cd)
  BY FourIs
<1> HIDE DEF ab, cd, sa, sb, sc, sd
<1>5. Only(ab, chars) = sa /\ Only(cd, chars) = sc
  BY <1>1, <1>2, <1>3, OnlyOfJoin, JoinNothing
<1>6. Only(Join(ab, cd), chars) = Join(sa, sc)
  BY <1>2, <1>5, OnlyOfJoin
<1> QED
  BY <1>4, <1>6, Zenon DEF sa, sc

\* The channel of an SMS is not dialled.
LEMMA DialOfSms ==
    ASSUME NEW x \in Seq(Dialled)
    PROVE  Dial(<<" ", "s", "m", "s", ":">> \o x) = x
<1> DEFINE V == Dialled \cup {" ", "s", "m", ":"}
           c == <<":">>
           p == <<" ", "s", "m", "s">>
<1>1. p \in Seq(V \ {":"}) /\ x \in Seq(V)
  <2>1. " " \in V \ {":"} /\ "s" \in V \ {":"} /\ "m" \in V \ {":"}
    OBVIOUS
  <2>2. x \in Seq(V)
    BY SeqMonotonic, Dialled \subseteq V
  <2> HIDE DEF V
  <2> QED
    BY <2>1, <2>2, FourIs
<1>2. <<" ", "s", "m", "s", ":">> = p \o c
  <2>1. " " \in V /\ "s" \in V /\ "m" \in V /\ ":" \in V
    OBVIOUS
  <2> DEFINE a == " "
             b == "s"
             d == "m"
             e == ":"
  <2>2. a \in V /\ b \in V /\ d \in V /\ e \in V
    BY <2>1
  <2> HIDE DEF V, a, b, d, e
  <2>3. <<a, b, d, b, e>> = <<a, b, d, b>> \o <<e>>
    BY <2>2, FiveIs
  <2> QED
    BY <2>3, Zenon DEF a, b, d, e
<1>3. <<" ", "s", "m", "s", ":">> \o x = Within(p, c, x)
  BY <1>2, Zenon DEF Within
<1>4. Dial(Within(p, c, x)) = Only(x, Dialled)
  <2>1. ":" \in V
    OBVIOUS
  <2> HIDE DEF V, p
  <2> QED
    BY <1>1, <2>1, DialInChannel
<1> QED
  BY <1>3, <1>4, OnlyOfAll

\* A sequence that is not empty is its first element and the rest.
LEMMA FirstAndRest ==
    ASSUME NEW V, NEW d \in Seq(V), d # <<>>
    PROVE  /\ d[1] \in V /\ <<d[1]>> \in Seq(V) /\ Tail(d) \in Seq(V)
           /\ d = Join(<<d[1]>>, Tail(d))
<1> DEFINE h == <<d[1]>>
           r == Tail(d)
           hr == h \o r
<1>1. d[1] \in V /\ Len(d) \in Nat /\ Len(d) >= 1
  BY EmptySeq
<1>2. h \in Seq(V) /\ Len(h) = 1 /\ h[1] = d[1]
  BY <1>1
<1>3. r \in Seq(V) /\ Len(r) = Len(d) - 1 /\ \A k \in 1 .. Len(d) - 1 : r[k] = d[k + 1]
  BY <1>1
<1> HIDE DEF h, r
<1>4. /\ hr \in Seq(V) /\ Len(hr) = Len(h) + Len(r)
      /\ \A k \in 1 .. Len(h) : hr[k] = h[k]
      /\ \A k \in 1 .. Len(r) : hr[Len(h) + k] = r[k]
  BY <1>2, <1>3, TwoParts
<1> HIDE DEF hr
<1>5. ASSUME NEW k \in 1 .. Len(d) PROVE d[k] = hr[k]
  <2>1. CASE k = 1
    BY <1>2, <1>4, <2>1
  <2>2. CASE k # 1
    <3>1. k - 1 \in 1 .. Len(r) /\ k - 1 \in 1 .. Len(d) - 1
          /\ Len(h) + (k - 1) = k /\ (k - 1) + 1 = k
      BY <1>1, <1>2, <1>3, <2>2
    <3> QED
      BY <1>3, <1>4, <3>1, ZenonT(40)
  <2> QED
    BY <2>1, <2>2
<1>6. d = hr
  <2>1. Len(d) = Len(hr)
    BY <1>1, <1>2, <1>3, <1>4
  <2> QED
    BY <1>4, <1>5, <2>1, SeqEqual
<1> QED
  BY <1>1, <1>2, <1>3, <1>6, Zenon DEF h, r, hr, Join

\* Separators within a number are not dialled.
LEMMA DialOfSeparated ==
    ASSUME NEW d \in Seq(Digits), d # <<>>
    PROVE  LET first == <<"+", " ", d[1], "-">>
           IN  /\ first \in Seq(Dialled \cup {" ", "-"})
               /\ Dial(first \o Tail(d)) = Plus(d)
<1> DEFINE V == Dialled \cup {" ", "-"}
           first == <<"+", " ", d[1], "-">>
           rest == Tail(d)
           p == <<"+">>
           h == <<d[1]>>
<1>1. /\ "+" \in V /\ " " \in V /\ "-" \in V /\ V \ {":"} = V
      /\ Dialled \subseteq V /\ Digits \subseteq Dialled /\ "+" \in Dialled
      /\ " " \notin Dialled /\ "-" \notin Dialled
  BY Characters DEF Dialled, Digits, AsciiDigits, OtherDigits
<1>2. d[1] \in Digits /\ rest \in Seq(Digits) /\ h \in Seq(Digits) /\ d = Join(h, rest)
  BY FirstAndRest
<1>3. d[1] \in Dialled /\ d[1] \in V
  BY <1>1, <1>2
<1> HIDE DEF V
<1>4. first \in Seq(V) /\ Only(first, Dialled) = Join(p, h)
  <2>1. first \in Seq(V)
    BY <1>1, <1>3, FourIs
  <2>2. Only(first, Dialled) = Join(p, h)
    <3> DEFINE a == "+"
               b == " "
               c == d[1]
               e == "-"
    <3>1. /\ a \in V /\ b \in V /\ c \in V /\ e \in V
          /\ a \in Dialled /\ b \notin Dialled /\ c \in Dialled /\ e \notin Dialled
      BY <1>1, <1>3
    <3> HIDE DEF a, b, c, e
    <3>2. Only(<<a, b, c, e>>, Dialled) = Join(<<a>>, <<c>>)
      BY <3>1, OnlyOfFour
    <3> QED
      BY <3>2, Zenon DEF a, b, c, e
  <2> QED
    BY <2>1, <2>2
<1>5. p \in Seq(Dialled)
  BY Characters
<1> HIDE DEF first, rest, p, h
<1>6. rest \in Seq(Dialled) /\ rest \in Seq(V) /\ h \in Seq(Dialled)
  BY <1>1, <1>2, SeqMonotonic
<1>7. Only(Join(first, rest), Dialled) = Join(Join(p, h), rest)
  <2>1. Only(rest, Dialled) = rest
    BY <1>6, OnlyOfAll
  <2> QED
    BY <1>4, <1>6, <2>1, OnlyOfJoin
<1>8. Join(Join(p, h), rest) = Join(p, d)
  BY <1>2, <1>5, <1>6, JoinGroup
<1>9. Dial(Join(first, rest)) = Only(Join(first, rest), Dialled)
  <2>1. Join(first, rest) \in Seq(V)
    BY <1>4, <1>6, JoinType
  <2> QED
    BY <1>1, <2>1, DialNoChannel
<1>10. Dial(Join(first, rest)) = Join(p, d)
  BY <1>7, <1>8, <1>9
<1>11. Dial(first \o rest) = Plus(d)
  BY <1>10, Zenon DEF Join, Plus, p
<1> QED
  BY <1>4, <1>11 DEF first, rest, V

\* All the ways to write a number lead to one key.
THEOREM EverySpellingAgrees == Spec => []SpellingsAgree
<1>1. TextType => SpellingsAgree
  <2>1. SUFFICES ASSUME TextType, Number # Invalid,
                        NEW spelling \in
                            {Number, Tail(Number), <<"0", "0">> \o Tail(Number),
                             <<" ", "s", "m", "s", ":">> \o Number,
                             <<"+", " ", Tail(Number)[1], "-">> \o Tail(Tail(Number))}
                 PROVE  NormalizePhone(spelling) = Number
    BY DEF SpellingsAgree
  <2>2. PICK d \in Seq(Digits) : /\ Number = Plus(d) /\ Tail(Number) = d /\ IsE164(Plus(d))
                                 /\ d # <<>> /\ d[1] # "0"
    BY <2>1, NumberHasKey
  <2>3. d \in Seq(Dialled) /\ Plus(d) \in Seq(Dialled) /\ International(d) \in Seq(Dialled)
    <3>1. Digits \subseteq Dialled /\ Digits \cup {"+"} \subseteq Dialled
          /\ Digits \cup {"0"} \subseteq Dialled
      BY Characters
    <3>2. Plus(d) \in Seq(Digits \cup {"+"}) /\ International(d) \in Seq(Digits \cup {"0"})
      BY PlusIs, InternationalIs
    <3> QED
      BY <3>1, <3>2, SeqMonotonic
  <2>4. Dial(spelling) \in {Plus(d), d, International(d)}
    <3>1. CASE spelling \in {Number, Tail(Number), <<"0", "0">> \o Tail(Number)}
      <4>1. spelling \in {Plus(d), d, International(d)}
        BY <2>2, <3>1 DEF International
      <4> QED
        BY <2>3, <4>1, DialOfDialled
    <3>2. CASE spelling = <<" ", "s", "m", "s", ":">> \o Number
      BY <2>2, <2>3, <3>2, DialOfSms
    <3>3. CASE spelling = <<"+", " ", Tail(Number)[1], "-">> \o Tail(Tail(Number))
      BY <2>2, <3>3, DialOfSeparated
    <3> QED
      BY <2>1, <3>1, <3>2, <3>3
  <2>5. \E W : spelling \in Seq(W)
    <3>1. CASE spelling \in {Number, Tail(Number), <<"0", "0">> \o Tail(Number)}
      BY <2>2, <2>3, <3>1 DEF International
    <3>2. CASE spelling = <<" ", "s", "m", "s", ":">> \o Number
      <4> DEFINE p == <<" ", "s", "m", "s", ":">>
                 W == Dialled \cup {" ", "s", "m", ":"}
      <4>0. Number \in Seq(W)
        BY <2>2, <2>3, SeqMonotonic, Dialled \subseteq W, ZenonT(40)
      <4>1. p \in Seq(W) /\ Number \in Seq(W)
        <5>1. " " \in W /\ "s" \in W /\ "m" \in W /\ ":" \in W
          OBVIOUS
        <5> HIDE DEF W
        <5> QED
          BY <4>0, <5>1, FiveIs, Zenon
      <4> HIDE DEF p, W
      <4>2. p \o Number \in Seq(W)
        BY <4>1, TwoParts
      <4> QED
        BY <3>2, <4>2 DEF p
    <3>3. CASE spelling = <<"+", " ", Tail(Number)[1], "-">> \o Tail(Tail(Number))
      <4> DEFINE p == <<"+", " ", d[1], "-">>
                 W == Dialled \cup {" ", "-"}
                 r == Tail(d)
      <4>1. p \in Seq(W)
        BY <2>2, DialOfSeparated
      <4>2. r \in Seq(W)
        BY <2>2, <2>3, FirstAndRest, SeqMonotonic, Dialled \subseteq W
      <4>3. spelling = p \o r
        BY <2>2, <3>3
      <4> HIDE DEF p, W, r
      <4>4. p \o r \in Seq(W)
        BY <4>1, <4>2, TwoParts
      <4> QED
        BY <4>3, <4>4
    <3> QED
      BY <2>1, <3>1, <3>2, <3>3
  <2>6. NormalizePhone(spelling) = Key(Dial(spelling))
    BY <2>5, NormalizeIs
  <2>7. Key(Dial(spelling)) = Plus(d)
    BY <2>2, <2>4, OneKey
  <2> QED
    BY <2>2, <2>6, <2>7
<1> QED
  BY <1>1, TextTyped, PTL

\* A number has the digits dialled, but for an international prefix.
LEMMA DigitsStay ==
    ASSUME NEW v \in Seq(Dialled), NEW d, d = Only(Tail(WithPlus(v)), Digits)
    PROVE  Only(v, Digits) \in {d, International(d)}
<1>1. CASE Len(v) >= 2 /\ v[1] = "0" /\ v[2] = "0"
  <2> DEFINE n == Len(v)
             r == SubSeq(v, 3, n)
             zeros == SubSeq(v, 1, 2)
             z == "0"
             zz == <<"0", "0">>
  <2>1. n \in Nat /\ n >= 2
    BY <1>1
  <2>2. /\ zeros \in Seq(Dialled) /\ Len(zeros) = 2 /\ zeros[1] = z /\ zeros[2] = z
        /\ r \in Seq(Dialled)
    <3>1. zeros \in Seq(Dialled) /\ r \in Seq(Dialled)
      <4>1. \A k \in 1 .. n : v[k] \in Dialled
        OBVIOUS
      <4> QED
        BY <2>1, <4>1, SubSeqProperties
    <3>2. Len(zeros) = 2 /\ zeros[1] = v[1] /\ zeros[2] = v[2]
      BY <1>1
    <3> HIDE DEF zeros, r
    <3> QED
      BY <1>1, <3>1, <3>2
  <2>3. zz \in Seq(Digits) /\ zz \in Seq(Dialled) /\ Len(zz) = 2 /\ zz[1] = z /\ zz[2] = z
    BY Characters
  <2>4. zeros \o r = v
    <3>1. /\ 1 \in 1 .. n + 1 /\ 2 \in 1 - 1 .. n /\ n \in 2 .. n
      BY <2>1
    <3>2. SubSeq(v, 1, 2) \o SubSeq(v, 2 + 1, n) = SubSeq(v, 1, n)
      BY <3>1, ConcatAdjacentSubSeq
    <3>3. SubSeq(v, 1, n) = v
      BY SubSeqFull
    <3> QED
      BY <3>2, <3>3
  <2>5. WithPlus(v) = Plus(r)
    BY <1>1 DEF WithPlus, Plus
  <2> HIDE DEF zeros, r, zz, z, n
  <2>6. zeros = zz
    <3>1. \A k \in 1 .. Len(zeros) : zeros[k] = zz[k]
      BY <2>2, <2>3
    <3> QED
      BY <2>2, <2>3, <3>1, SeqEqual
  <2>7. v = Join(zz, r)
    BY <2>4, <2>6, Zenon DEF Join
  <2>8. Only(v, Digits) = Join(Only(zz, Digits), Only(r, Digits))
    BY <2>2, <2>3, <2>7, OnlyOfJoin
  <2>9. Only(zz, Digits) = zz
    BY <2>3, OnlyOfAll
  <2>10. d = Only(r, Digits)
    BY <2>2, <2>5, PlusIs
  <2>11. Only(v, Digits) = Join(zz, d)
    BY <2>8, <2>9, <2>10
  <2>12. Only(v, Digits) = International(d)
    BY <2>11, Zenon DEF Join, International, zz
  <2> QED
    BY <2>12
<1>2. CASE ~(Len(v) >= 2 /\ v[1] = "0" /\ v[2] = "0") /\ v # <<>> /\ v[1] = "+"
  <2> DEFINE p == <<"+">>
             r == Tail(v)
  <2>1. WithPlus(v) = v
    BY <1>2 DEF WithPlus
  <2>2. v = Join(p, r) /\ r \in Seq(Dialled) /\ p \in Seq(Dialled)
    BY <1>2, FirstAndRest
  <2>3. Only(p, Digits) = <<>>
    BY OnlyOfOne, Characters
  <2>4. d = Only(r, Digits)
    BY <2>1
  <2> HIDE DEF p, r
  <2>5. Only(v, Digits) = Join(<<>>, d)
    BY <2>2, <2>3, <2>4, OnlyOfJoin
  <2>6. d \in Seq(Dialled \cap Digits)
    BY <2>2, <2>4, OnlyType
  <2> QED
    BY <2>5, <2>6, JoinNothing
<1>3. CASE ~(Len(v) >= 2 /\ v[1] = "0" /\ v[2] = "0") /\ ~(v # <<>> /\ v[1] = "+")
  <2>1. WithPlus(v) = Plus(v)
    BY <1>3 DEF WithPlus, Plus
  <2>2. Tail(Plus(v)) = v
    BY PlusIs
  <2> QED
    BY <2>1, <2>2
<1> QED
  BY <1>1, <1>2, <1>3

\* A key has every digit dialled after the channel, so that two numbers never share one.
THEOREM EveryDigitIsKept == Spec => []KeepsEveryDigit
<1>1. TextType => KeepsEveryDigit
  <2>1. SUFFICES ASSUME TextType, Number # Invalid
                 PROVE  \E i \in 0 .. Len(text) :
                            /\ \A j \in DOMAIN text : text[j] = ":" => 0 < i /\ i <= j
                            /\ i > 0 => text[i] = ":"
                            /\ Only(SubSeq(text, i + 1, Len(text)), Digits)
                               \in {Tail(Number), International(Tail(Number))}
    BY DEF KeepsEveryDigit, Digits, International
  <2>2. PICK d \in Seq(Digits) : /\ Tail(Number) = d
                                 /\ d = Only(Tail(WithPlus(Dial(text))), Digits)
    BY <2>1, NumberHasKey
  <2> DEFINE q == AfterChannel(text)
             colons == {i \in DOMAIN text : text[i] = ":"}
             n == Len(text)
  <2>3. text \in Seq(Alphabet) /\ n \in Nat /\ DOMAIN text = 1 .. n
    BY <2>1 DEF TextType
  <2>4. Only(q, Digits) \in {d, International(d)}
    <3>1. q \in Seq(Alphabet)
      BY <2>3, AfterChannelType
    <3> HIDE DEF q
    <3>2. Dial(text) = Only(q, Dialled)
      BY DialIs DEF q
    <3>3. Only(Only(q, Dialled), Digits) = Only(q, Digits)
      <4>1. Dialled \cap Digits = Digits
        BY Characters
      <4> QED
        BY <3>1, <4>1, OnlyTwice
    <3>4. Dial(text) \in Seq(Dialled)
      BY <2>3, DialType
    <3> QED
      BY <2>2, <3>2, <3>3, <3>4, DigitsStay
  <2>5. CASE colons = {}
    <3>1. q = text
      BY <2>5 DEF AfterChannel
    <3>2. SubSeq(text, 0 + 1, n) = text
      BY <2>3, SubSeqFull
    <3>3. \A j \in DOMAIN text : text[j] # ":"
      BY <2>5
    <3> DEFINE i == 0
    <3>4. i \in 0 .. n /\ ~(i > 0)
      BY <2>3
    <3>5. Only(SubSeq(text, i + 1, n), Digits) \in {Tail(Number), International(Tail(Number))}
      BY <2>2, <2>4, <3>1, <3>2
    <3> HIDE DEF i
    <3> QED
      BY <3>3, <3>4, <3>5
  <2>6. CASE colons # {}
    <3> DEFINE i == Smallest(colons)
    <3>1. colons \subseteq Nat
      BY <2>3
    <3>2. i \in colons /\ \A j \in colons : i <= j
      <4> HIDE DEF colons
      <4> QED
        BY <2>6, <3>1, SmallestIs
    <3>3. q = SubSeq(text, i + 1, n)
      BY <2>6 DEF AfterChannel
    <3> HIDE DEF i, q
    <3>4. i \in 1 .. n /\ text[i] = ":" /\ \A j \in DOMAIN text : text[j] = ":" => i <= j
      BY <2>3, <3>2
    <3>5. i \in 0 .. n /\ i > 0
      BY <2>3, <3>4
    <3>6. Only(SubSeq(text, i + 1, n), Digits) \in {Tail(Number), International(Tail(Number))}
      BY <2>2, <2>4, <3>3
    <3> QED
      BY <3>4, <3>5, <3>6
  <2> QED
    BY <2>5, <2>6
<1> QED
  BY <1>1, TextTyped, PTL

-----------------------------------------------------------------------------
(* classify_feedback *)

Punctuation == {".", "!"}

Removed == Blanks \cup Modifiers \cup Punctuation

Tokens == PositiveTokens \cup NegativeTokens

\* A message without its modifiers.
Plain(body) == Without(body, Modifiers)

\* More around a text of what is stripped does not matter.
LEMMA StripWithin ==
    ASSUME NEW V, NEW chars, NEW p \in Seq(V \cap chars), NEW s \in Seq(V),
           NEW q \in Seq(V \cap chars)
    PROVE  Strip(Within(p, s, q), chars) = Strip(s, chars)
<1> DEFINE m == Strip(s, chars)
           W == V \cap chars
<1>1. m \in Seq(V) /\ Around(s, m, W)
  BY StripSplits
<1>2. m # <<>> => m[1] \notin chars /\ m[Len(m)] \notin chars
  BY StripSplits
<1> HIDE DEF m
<1>3. PICK a \in Seq(W), b \in Seq(W) : s = Within(a, m, b)
  BY <1>1 DEF Around
<1>4. a \in Seq(V) /\ b \in Seq(V) /\ p \in Seq(V) /\ q \in Seq(V)
  BY SeqMonotonic, W \subseteq V
<1>5. Within(p, s, q) = Within(Join(p, a), m, Join(b, q))
  BY <1>1, <1>3, <1>4, WithinWithin
<1>6. Join(p, a) \in Seq(W) /\ Join(b, q) \in Seq(W)
  BY JoinType
<1>7. CASE m # <<>>
  BY <1>1, <1>2, <1>5, <1>6, <1>7, StripIs DEF m
<1>8. CASE m = <<>>
  <2>1. Within(p, s, q) \in Seq(W)
    <3>1. m \in Seq(W)
      BY <1>8, EmptySeq
    <3> QED
      BY <1>5, <1>6, <3>1, WithinIs, JoinType
  <2>2. Within(p, s, q) \in Seq(chars)
    BY <2>1, SeqMonotonic, W \subseteq chars
  <2> QED
    BY <1>8, <2>2, StripNothing DEF m
<1> QED
  BY <1>7, <1>8

\* Blanks may be stripped after the modifiers are removed instead of before it too.
LEMMA TokenIs ==
    ASSUME NEW V, NEW body \in Seq(V)
    PROVE  /\ Plain(body) = Only(body, V \ Modifiers)
           /\ Plain(body) \in Seq(V)
           /\ Token(body) = Casefold(Strip(Strip(Plain(body), Blanks), Punctuation))
<1> DEFINE m == Strip(body, Blanks)
           C == V \ Modifiers
           W == V \cap Blanks
<1>1. Plain(body) = Only(body, C) /\ Only(body, C) \in Seq(V)
  BY WithoutIsOnly, OnlyType, SeqMonotonic, V \cap C \subseteq V DEF Plain
<1>2. m \in Seq(V) /\ Around(body, m, W)
  BY StripSplits
<1> HIDE DEF m
<1>3. Without(m, Modifiers) = Only(m, C) /\ Only(m, C) \in Seq(V)
  BY <1>2, WithoutIsOnly, OnlyType, SeqMonotonic, V \cap C \subseteq V
<1>4. PICK a \in Seq(W), b \in Seq(W) : body = Within(a, m, b)
  BY <1>2 DEF Around
<1>5. W \subseteq C /\ W \subseteq V
  BY DEF Blanks, Modifiers
<1>6. a \in Seq(V) /\ b \in Seq(V) /\ a \in Seq(C) /\ b \in Seq(C)
  BY <1>5, SeqMonotonic
<1>7. Only(body, C) = Join(Join(Only(a, C), Only(m, C)), Only(b, C))
  BY <1>2, <1>4, <1>6, WithinIs, JoinType, OnlyOfJoin
<1>8. Only(body, C) = Within(a, Only(m, C), b)
  BY <1>6, <1>7, OnlyOfAll, WithinIs
<1>9. Strip(Only(body, C), Blanks) = Strip(Only(m, C), Blanks)
  BY <1>3, <1>8, StripWithin
<1>10. Token(body) = Casefold(Strip(Strip(Without(m, Modifiers), Blanks), Punctuation))
  BY DEF Token, Punctuation, m
<1> QED
  BY <1>1, <1>3, <1>9, <1>10

\* What is stripped surrounds what stays.
LEMMA StripCuts ==
    ASSUME NEW V, NEW s \in Seq(V), NEW chars, Strip(s, chars) # <<>>
    PROVE  \E i, j \in DOMAIN s : Surround(chars, s, i, j) /\ SubSeq(s, i, j) = Strip(s, chars)
<1> DEFINE kept == {i \in DOMAIN s : s[i] \notin chars}
<1>1. kept # {} /\ Strip(s, chars) = SubSeq(s, Smallest(kept), Largest(kept))
  BY DEF Strip
<1>2. kept \subseteq Nat /\ kept \subseteq 1 .. Len(s) /\ Len(s) \in Nat /\ DOMAIN s = 1 .. Len(s)
  OBVIOUS
<1>3. \A k \in DOMAIN s : s[k] \in chars \/ k \in kept
  OBVIOUS
<1> HIDE DEF kept
<1> DEFINE i == Smallest(kept)
           j == Largest(kept)
<1>4. i \in kept /\ j \in kept /\ \A k \in kept : i <= k /\ k <= j
  BY <1>1, <1>2, SmallestIs, LargestIs
<1>5. Strip(s, chars) = SubSeq(s, i, j)
  BY <1>1
<1> HIDE DEF i, j
<1>6. \A k \in DOMAIN s : k < i \/ j < k => k \notin kept
  BY <1>2, <1>4
<1>7. Surround(chars, s, i, j)
  BY <1>3, <1>6 DEF Surround
<1> QED
  BY <1>2, <1>4, <1>5, <1>7

\* What is surrounded by what is stripped, and does not begin or end with it, stays.
LEMMA CutStays ==
    ASSUME NEW V, NEW s \in Seq(V), NEW chars, NEW i \in DOMAIN s, NEW j \in DOMAIN s,
           i <= j, Surround(chars, s, i, j), s[i] \notin chars, s[j] \notin chars
    PROVE  Strip(s, chars) = SubSeq(s, i, j)
<1> DEFINE kept == {k \in DOMAIN s : s[k] \notin chars}
<1>1. i \in kept /\ j \in kept
  OBVIOUS
<1>2. kept \subseteq Nat /\ kept \subseteq 1 .. Len(s) /\ Len(s) \in Nat /\ DOMAIN s = 1 .. Len(s)
  OBVIOUS
<1>3. \A k \in kept : i <= k /\ k <= j
  BY <1>2 DEF Surround
<1>4. kept # {} /\ Strip(s, chars) = SubSeq(s, Smallest(kept), Largest(kept))
  BY <1>1 DEF Strip
<1> HIDE DEF kept
<1>5. Smallest(kept) \in kept /\ Smallest(kept) <= i
  BY <1>1, <1>2, SmallestIs
<1>6. Largest(kept) \in kept /\ Largest(kept) >= j
  BY <1>1, <1>2, LargestIs
<1>7. Smallest(kept) = i /\ Largest(kept) = j
  <2>1. i \in Nat /\ j \in Nat /\ Smallest(kept) \in Nat /\ Largest(kept) \in Nat
    BY <1>1, <1>2, <1>5, <1>6
  <2>2. i <= Smallest(kept) /\ Largest(kept) <= j
    BY <1>3, <1>5, <1>6
  <2> QED
    BY <1>5, <1>6, <2>1, <2>2
<1> QED
  BY <1>4, <1>7

\* The characters of the tokens.
Marks == {"thumbs up", "thumbs down", "0", "1", "+", "-"}

Letters == {"a", "b", "d", "e", "f", "g", "k", "l", "n", "o", "r", "s", "u", "w", "y"}

\* A token is made of them.
LEMMA TokensAreLetters == Tokens \subseteq Seq(Marks \cup Letters)
<1> DEFINE W == Marks \cup Letters
<1>1. /\ "thumbs up" \in W /\ "thumbs down" \in W
      /\ "0" \in W /\ "1" \in W /\ "+" \in W /\ "-" \in W
  BY DEF Marks
<1>2. /\ "a" \in W /\ "b" \in W /\ "d" \in W /\ "e" \in W /\ "f" \in W /\ "g" \in W
      /\ "k" \in W /\ "l" \in W /\ "n" \in W /\ "o" \in W /\ "r" \in W /\ "s" \in W
      /\ "u" \in W /\ "w" \in W /\ "y" \in W
  BY DEF Letters
<1> HIDE DEF W
<1>3. /\ <<"thumbs up">> \in Seq(W) /\ <<"thumbs down">> \in Seq(W)
      /\ <<"0">> \in Seq(W) /\ <<"1">> \in Seq(W) /\ <<"+">> \in Seq(W) /\ <<"-">> \in Seq(W)
  <2>1. \A x \in W : <<x>> \in Seq(W)
    OBVIOUS
  <2> QED
    BY <1>1, <2>1, Zenon
<1>4. /\ <<"y">> \in Seq(W) /\ <<"y", "e", "s">> \in Seq(W) /\ <<"o", "k">> \in Seq(W)
      /\ <<"o", "k", "a", "y">> \in Seq(W) /\ <<"g", "o", "o", "d">> \in Seq(W)
      /\ <<"u", "s", "e", "f", "u", "l">> \in Seq(W)
  BY <1>2
<1>5. /\ <<"n">> \in Seq(W) /\ <<"n", "o">> \in Seq(W) /\ <<"b", "a", "d">> \in Seq(W)
      /\ <<"u", "s", "e", "l", "e", "s", "s">> \in Seq(W)
      /\ <<"w", "r", "o", "n", "g">> \in Seq(W)
  BY <1>2
<1>6. PositiveTokens \subseteq Seq(W)
  BY <1>3, <1>4 DEF PositiveTokens
<1>7. NegativeTokens \subseteq Seq(W)
  BY <1>3, <1>5 DEF NegativeTokens
<1> QED
  BY <1>6, <1>7 DEF Tokens, W

\* None of them is removed from a message, and Casefold keeps those that are.
LEMMA TokenCharacters ==
    /\ \A t \in Tokens : \A i \in DOMAIN t : t[i] \notin Removed
    /\ \A ch \in Removed : ch \notin DOMAIN Lower
<1>1. (Marks \cup Letters) \cap Removed = {}
  BY DEF Marks, Letters, Removed, Blanks, Modifiers, Punctuation
<1>2. ASSUME NEW t \in Tokens, NEW i \in DOMAIN t PROVE t[i] \notin Removed
  <2>1. t \in Seq(Marks \cup Letters)
    BY TokensAreLetters
  <2>2. t[i] \in Marks \cup Letters
    BY <2>1
  <2> QED
    BY <1>1, <2>2
<1>3. \A ch \in Removed : ch \notin DOMAIN Lower
  BY DEF Lower, Removed, Blanks, Modifiers, Punctuation
<1> QED
  BY <1>2, <1>3

\* What is folded to a token has none of the characters removed.
LEMMA CoreOfToken ==
    ASSUME NEW V, NEW s \in Seq(V), Casefold(s) \in Tokens
    PROVE  s \in Seq(V \ Removed)
<1>1. ASSUME NEW i \in 1 .. Len(s) PROVE s[i] \in V \ Removed
  <2>1. i \in DOMAIN s /\ s[i] \in V
    OBVIOUS
  <2>2. Casefold(s)[i] = IF s[i] \in DOMAIN Lower THEN Lower[s[i]] ELSE s[i]
    BY <2>1 DEF Casefold
  <2>3. DOMAIN Casefold(s) = DOMAIN s
    BY DEF Casefold
  <2>4. Casefold(s)[i] \notin Removed
    BY <2>1, <2>3, TokenCharacters
  <2> QED
    BY <2>1, <2>2, <2>4, TokenCharacters
<1>2. SubSeq(s, 1, Len(s)) \in Seq(V \ Removed)
  BY <1>1, SubSeqProperties
<1> QED
  BY <1>2, SubSeqFull

\* The part of a text from one position to another.
LEMMA PartIs ==
    ASSUME NEW V, NEW s \in Seq(V), NEW i \in DOMAIN s, NEW j \in DOMAIN s, i <= j
    PROVE  /\ SubSeq(s, i, j) \in Seq(V) /\ DOMAIN SubSeq(s, i, j) = 1 .. j - i + 1
           /\ \A k \in 1 .. j - i + 1 : SubSeq(s, i, j)[k] = s[i + k - 1]
<1> DEFINE m == SubSeq(s, i, j)
<1>1. \A k \in i .. j : s[k] \in V
  OBVIOUS
<1>2. /\ m \in Seq(V) /\ Len(m) = j - i + 1
      /\ \A k \in 1 .. j - i + 1 : m[k] = s[i + k - 1]
  BY <1>1, SubSeqProperties
<1> HIDE DEF m
<1>3. DOMAIN m = 1 .. j - i + 1
  BY <1>2
<1> QED
  BY <1>2, <1>3 DEF m

\* How the words that mean yes begin, and the words that mean no.
LEMMA FirstCharacters ==
    /\ \A t \in PositiveTokens :
           /\ 1 \in DOMAIN t
           /\ \/ t[1] \in {"thumbs up", "1", "+", "y", "o", "g"}
              \/ t[1] = "u" /\ Len(t) = 6
    /\ \A t \in NegativeTokens :
           /\ 1 \in DOMAIN t
           /\ \/ t[1] \in {"thumbs down", "0", "-", "n", "b", "w"}
              \/ t[1] = "u" /\ Len(t) = 7
<1> DEFINE Yes(t) == /\ 1 \in DOMAIN t
                     /\ \/ t[1] \in {"thumbs up", "1", "+", "y", "o", "g"}
                        \/ t[1] = "u" /\ Len(t) = 6
           No(t) == /\ 1 \in DOMAIN t
                    /\ \/ t[1] \in {"thumbs down", "0", "-", "n", "b", "w"}
                       \/ t[1] = "u" /\ Len(t) = 7
<1>1. /\ \A x \in {"thumbs up", "1", "+", "y"} : Yes(<<x>>)
      /\ \A x \in {"thumbs down", "0", "-", "n"} : No(<<x>>)
  OBVIOUS
<1>2. /\ Yes(<<"y", "e", "s">>) /\ Yes(<<"o", "k">>) /\ Yes(<<"o", "k", "a", "y">>)
      /\ Yes(<<"g", "o", "o", "d">>) /\ Yes(<<"u", "s", "e", "f", "u", "l">>)
  OBVIOUS
<1>3. /\ No(<<"n", "o">>) /\ No(<<"b", "a", "d">>)
      /\ No(<<"u", "s", "e", "l", "e", "s", "s">>) /\ No(<<"w", "r", "o", "n", "g">>)
  OBVIOUS
<1> HIDE DEF Yes, No
<1>4. /\ Yes(<<"thumbs up">>) /\ Yes(<<"1">>) /\ Yes(<<"+">>) /\ Yes(<<"y">>)
      /\ No(<<"thumbs down">>) /\ No(<<"0">>) /\ No(<<"-">>) /\ No(<<"n">>)
  BY <1>1, Zenon
<1>5. \A t \in PositiveTokens : Yes(t)
  BY <1>2, <1>4, Zenon DEF PositiveTokens
<1>6. \A t \in NegativeTokens : No(t)
  BY <1>3, <1>4, Zenon DEF NegativeTokens
<1> QED
  BY <1>5, <1>6 DEF Yes, No

\* No token is empty.
LEMMA NotNothing == Casefold(<<>>) \notin Tokens
<1>1. DOMAIN Casefold(<<>>) = {}
  BY DEF Casefold
<1> QED
  BY <1>1, FirstCharacters DEF Tokens

\* A message consists of a token when normalize_feedback_token reduces it to one.
LEMMA ConsistsOfItsToken ==
    ASSUME TextType, NEW tokens, tokens \subseteq Tokens, Token(text) \in tokens
    PROVE  Consists(tokens)
<1> DEFINE plain == Plain(text)
           marked == Strip(plain, Blanks)
           core == Strip(marked, Punctuation)
<1>1. text \in Seq(Alphabet)
  BY DEF TextType
<1>2. plain \in Seq(Alphabet) /\ Casefold(core) \in tokens
  BY <1>1, TokenIs
<1>3. Consists(tokens) <=>
          \E a, b \in DOMAIN plain :
              /\ Surround(Blanks, plain, a, b)
              /\ \E i, j \in DOMAIN SubSeq(plain, a, b) :
                     /\ Surround(Punctuation, SubSeq(plain, a, b), i, j)
                     /\ Casefold(SubSeq(SubSeq(plain, a, b), i, j)) \in tokens
  BY DEF Consists, Plain, Punctuation
<1> HIDE DEF plain
<1>4. marked \in Seq(Alphabet)
  BY <1>2, StripSplits
<1>5. core # <<>>
  <2> HIDE DEF core
  <2> QED
    BY <1>2, NotNothing
<1>6. marked # <<>>
  <2>1. Strip(<<>>, Punctuation) = <<>>
    BY EmptySeq, StripNothing
  <2> QED
    BY <1>5, <2>1
<1>7. PICK a \in DOMAIN plain, b \in DOMAIN plain :
          Surround(Blanks, plain, a, b) /\ SubSeq(plain, a, b) = marked
  BY <1>2, <1>6, StripCuts
<1> HIDE DEF marked
<1>8. PICK i \in DOMAIN marked, j \in DOMAIN marked :
          Surround(Punctuation, marked, i, j) /\ SubSeq(marked, i, j) = core
  BY <1>4, <1>5, StripCuts
<1> QED
  BY <1>2, <1>3, <1>7, <1>8

\* And it is reduced to no other.
LEMMA TokenOfWhatConsists ==
    ASSUME TextType, NEW tokens, tokens \subseteq Tokens, Consists(tokens)
    PROVE  Token(text) \in tokens
<1> DEFINE plain == Plain(text)
<1>1. text \in Seq(Alphabet)
  BY DEF TextType
<1>2. /\ plain \in Seq(Alphabet)
      /\ Token(text) = Casefold(Strip(Strip(plain, Blanks), Punctuation))
  BY <1>1, TokenIs
<1>3. PICK a \in DOMAIN plain, b \in DOMAIN plain :
          /\ Surround(Blanks, plain, a, b)
          /\ \E i, j \in DOMAIN SubSeq(plain, a, b) :
                 /\ Surround(Punctuation, SubSeq(plain, a, b), i, j)
                 /\ Casefold(SubSeq(SubSeq(plain, a, b), i, j)) \in tokens
  BY DEF Consists, Plain, Punctuation
<1> HIDE DEF plain
<1> DEFINE marked == SubSeq(plain, a, b)
<1>4. PICK i \in DOMAIN marked, j \in DOMAIN marked :
          Surround(Punctuation, marked, i, j) /\ Casefold(SubSeq(marked, i, j)) \in tokens
  BY <1>3
<1>5. a \in Nat /\ b \in Nat /\ DOMAIN plain = 1 .. Len(plain)
  BY <1>2
<1>6. a <= b
  <2>1. SUFFICES ASSUME ~(a <= b) PROVE FALSE
    OBVIOUS
  <2>2. marked = <<>>
    BY <1>2, <1>5, <2>1, SubSeqEmpty
  <2>3. DOMAIN marked = {}
    BY <2>2
  <2> QED
    BY <2>3
<1>7. /\ marked \in Seq(Alphabet) /\ DOMAIN marked = 1 .. b - a + 1
      /\ \A k \in 1 .. b - a + 1 : marked[k] = plain[a + k - 1]
  BY <1>2, <1>6, PartIs
<1> HIDE DEF marked
<1> DEFINE core == SubSeq(marked, i, j)
<1>8. i <= j
  <2>1. SUFFICES ASSUME ~(i <= j) PROVE FALSE
    OBVIOUS
  <2>2. i \in Nat /\ j \in Nat
    BY <1>5, <1>7
  <2>3. core = <<>>
    BY <1>7, <2>1, <2>2, SubSeqEmpty
  <2> QED
    BY <1>4, <2>3, NotNothing
<1>9. /\ core \in Seq(Alphabet) /\ DOMAIN core = 1 .. j - i + 1
      /\ \A k \in 1 .. j - i + 1 : core[k] = marked[i + k - 1]
  BY <1>7, <1>8, PartIs
<1>10. Casefold(core) \in tokens
  BY <1>4
<1> HIDE DEF core
<1>11. core \in Seq(Alphabet \ Removed)
  BY <1>9, <1>10, CoreOfToken
<1>12. \A k \in i .. j : marked[k] \notin Removed
  <2>1. SUFFICES ASSUME NEW k \in i .. j PROVE marked[k] \notin Removed
    OBVIOUS
  <2>2. i \in Nat /\ j \in Nat
    BY <1>5, <1>7
  <2>3. k - i + 1 \in 1 .. j - i + 1 /\ i + (k - i + 1) - 1 = k
    BY <2>2
  <2>4. core[k - i + 1] = marked[k]
    BY <1>9, <2>3
  <2>5. \A n \in DOMAIN core : core[n] \in Alphabet \ Removed
    BY <1>11, ElementOfSeq
  <2>6. core[k - i + 1] \notin Removed
    BY <1>9, <2>3, <2>5
  <2> QED
    BY <2>4, <2>6
<1>13. Strip(marked, Punctuation) = core
  <2>1. i \in i .. j /\ j \in i .. j
    BY <1>5, <1>7, <1>8
  <2>2. marked[i] \notin Punctuation /\ marked[j] \notin Punctuation
    BY <1>12, <2>1 DEF Removed
  <2> QED
    BY <1>4, <1>7, <1>8, <2>2, CutStays DEF core
<1>14. \A k \in DOMAIN marked : marked[k] \notin Blanks
  <2>1. SUFFICES ASSUME NEW k \in DOMAIN marked PROVE marked[k] \notin Blanks
    OBVIOUS
  <2>2. k \in i .. j \/ k < i \/ j < k
    BY <1>5, <1>7
  <2>3. k < i \/ j < k => marked[k] \in Punctuation
    BY <1>4 DEF Surround
  <2>4. Punctuation \cap Blanks = {}
    BY DEF Punctuation, Blanks
  <2> QED
    BY <1>12, <2>2, <2>3, <2>4 DEF Removed
<1>15. plain[a] \notin Blanks /\ plain[b] \notin Blanks
  <2>1. /\ 1 \in 1 .. b - a + 1 /\ b - a + 1 \in 1 .. b - a + 1
        /\ a + 1 - 1 = a /\ a + (b - a + 1) - 1 = b
    BY <1>5, <1>6
  <2>2. plain[a] = marked[1] /\ plain[b] = marked[b - a + 1]
    BY <1>7, <2>1
  <2> QED
    BY <1>7, <1>14, <2>1, <2>2
<1>16. Strip(plain, Blanks) = marked
  BY <1>2, <1>3, <1>6, <1>15, CutStays DEF marked
<1> QED
  BY <1>2, <1>10, <1>13, <1>16

\* No word means yes and no.
LEMMA TokensDiffer == PositiveTokens \cap NegativeTokens = {}
<1>1. SUFFICES ASSUME NEW t \in PositiveTokens, t \in NegativeTokens PROVE FALSE
  OBVIOUS
<1>2. \/ t[1] \in {"thumbs up", "1", "+", "y", "o", "g"}
      \/ t[1] = "u" /\ Len(t) = 6
  BY FirstCharacters
<1>3. \/ t[1] \in {"thumbs down", "0", "-", "n", "b", "w"}
      \/ t[1] = "u" /\ Len(t) = 7
  BY <1>1, FirstCharacters
<1> DEFINE first == t[1]
           length == Len(t)
<1> HIDE DEF first, length
<1>4. \/ first \in {"thumbs up", "1", "+", "y", "o", "g"}
      \/ first = "u" /\ length = 6
  BY <1>2 DEF first, length
<1>5. \/ first \in {"thumbs down", "0", "-", "n", "b", "w"}
      \/ first = "u" /\ length = 7
  BY <1>3 DEF first, length
<1>6. CASE first = "u"
  <2>1. length = 6 /\ length = 7
    BY <1>4, <1>5, <1>6
  <2> QED
    BY <2>1
<1>7. CASE first # "u"
  BY <1>4, <1>5, <1>7
<1> QED
  BY <1>6, <1>7

(***************************************************************************)
(* A message of any length is a rating exactly when it consists of one of  *)
(* the tokens (OnlyTokensRate).                                            *)
(***************************************************************************)
THEOREM OnlyATokenRates == Spec => []OnlyTokensRate
<1>1. ASSUME TextType, NEW tokens, tokens \subseteq Tokens
      PROVE  Consists(tokens) <=> Token(text) \in tokens
  BY <1>1, ConsistsOfItsToken, TokenOfWhatConsists
<1>2. PositiveTokens \subseteq Tokens /\ NegativeTokens \subseteq Tokens
  BY DEF Tokens
<1>3. TextType => /\ Consists(PositiveTokens) <=> Token(text) \in PositiveTokens
                  /\ Consists(NegativeTokens) <=> Token(text) \in NegativeTokens
  BY <1>1, <1>2
<1>4. TextType => OnlyTokensRate
  BY <1>3, TokensDiffer DEF OnlyTokensRate, ClassifyFeedback
<1> QED
  BY <1>4, TextTyped, PTL

\* A character appended is a text of one joined.
LEMMA LongerIs ==
    ASSUME NEW V, NEW s \in Seq(V), NEW x \in V
    PROVE  <<x>> \in Seq(V) /\ Append(s, x) = Join(s, <<x>>)
<1>1. <<>> \in Seq(V) /\ <<x>> = Append(<<>>, x) /\ <<x>> \in Seq(V)
  BY EmptySeq
<1>2. Append(Join(s, <<>>), x) = Join(s, Append(<<>>, x))
  <2> DEFINE no == <<>>
  <2>1. no \in Seq(V)
    BY <1>1
  <2> HIDE DEF no
  <2>2. Append(Join(s, no), x) = Join(s, Append(no, x))
    BY <2>1, JoinLonger
  <2> QED
    BY <2>2 DEF no
<1>3. Join(s, <<>>) = s
  BY JoinNothing
<1> QED
  BY <1>1, <1>2, <1>3, Zenon

(***************************************************************************)
(* What follows a rating does not change it, when it is a blank or a       *)
(* modifier (RatingSurvives): Plain has one blank more at its end, or      *)
(* nothing more.                                                           *)
(***************************************************************************)
THEOREM RatingsSurvive == Spec => RatingSurvives
<1>1. TextType /\ [Next]_text =>
          [ /\ ClassifyFeedback(text) # "question"
            /\ text'[Len(text')] \in Blanks \cup Modifiers
            => ClassifyFeedback(text') = ClassifyFeedback(text) ]_text
  <2>1. SUFFICES ASSUME TextType, NEW ch \in Alphabet, Type(ch), ch \in Blanks \cup Modifiers
                 PROVE  ClassifyFeedback(text') = ClassifyFeedback(text)
    <3>1. ASSUME NEW ch \in Alphabet, TextType, Type(ch) PROVE text'[Len(text')] = ch
      BY <3>1 DEF TextType, Type
    <3> QED
      BY <3>1 DEF Next
  <2> DEFINE s == text
             longer == Append(s, ch)
             C == Alphabet \ Modifiers
  <2>2. s \in Seq(Alphabet) /\ longer \in Seq(Alphabet)
    BY <2>1 DEF TextType
  <2>3. text' = longer
    BY <2>1 DEF Type
  <2>4. Plain(longer) = IF ch \in C THEN Append(Plain(s), ch) ELSE Plain(s)
    <3>1. Plain(s) = Only(s, C) /\ Plain(longer) = Only(longer, C)
      BY <2>2, TokenIs
    <3> QED
      BY <2>2, <3>1, OnlyOfLonger
  <2>5. Plain(s) \in Seq(Alphabet)
    BY <2>2, TokenIs
  <2>6. Strip(Plain(longer), Blanks) = Strip(Plain(s), Blanks)
    <3>1. CASE ch \in Modifiers
      BY <2>4, <3>1
    <3>2. CASE ch \notin Modifiers
      <4> DEFINE one == <<ch>>
                 no == <<>>
      <4>1. ch \in Alphabet \cap Blanks
        BY <2>1, <3>2
      <4>2. one \in Seq(Alphabet \cap Blanks) /\ no \in Seq(Alphabet \cap Blanks)
        BY <4>1, EmptySeq
      <4>3. Plain(longer) = Join(Plain(s), one)
        BY <2>4, <2>5, <3>2, LongerIs
      <4>4. Join(no, Plain(s)) = Plain(s)
        BY <2>5, JoinNothing
      <4> HIDE DEF one, no, s, longer
      <4>5. Plain(longer) = Within(no, Plain(s), one)
        BY <4>3, <4>4, WithinIs
      <4> QED
        BY <2>5, <4>2, <4>5, StripWithin
    <3> QED
      BY <3>1, <3>2
  <2>7. Token(longer) = Token(s)
    BY <2>2, <2>6, TokenIs
  <2> QED
    BY <2>3, <2>7 DEF ClassifyFeedback
<1> QED
  BY <1>1, TextTyped, PTL DEF Spec, RatingSurvives

-----------------------------------------------------------------------------
(* _fit_sms *)

\* What is left of a part of a text, its blanks at the end stripped, is a shorter part.
LEMMA CutIs ==
    ASSUME NEW V, NEW t \in Seq(V), NEW k \in Nat, k < Len(t)
    PROVE  \E n \in 0 .. k : StripRight(UpTo(t, k)) = SubSeq(t, 1, n)
<1> DEFINE u == SubSeq(t, 1, k)
           kept == {i \in DOMAIN u : u[i] \notin Blanks}
<1>1. UpTo(t, k) = u
  <2>1. ~(k < 0) /\ ~(k > Len(t))
    OBVIOUS
  <2> QED
    BY <2>1 DEF UpTo
<1>2. u \in Seq(V) /\ Len(u) = k /\ DOMAIN u = 1 .. k
      /\ \A i \in 1 .. k : u[i] = t[i]
  <2>1. \A i \in 1 .. k : t[i] \in V
    OBVIOUS
  <2>2. /\ u \in Seq(V) /\ Len(u) = IF 1 <= k THEN k - 1 + 1 ELSE 0
        /\ \A i \in 1 .. k - 1 + 1 : u[i] = t[1 + i - 1]
    BY <2>1, SubSeqProperties
  <2> HIDE DEF u
  <2>3. Len(u) = k
    BY <2>2
  <2>4. \A i \in 1 .. k : i \in 1 .. k - 1 + 1 /\ 1 + i - 1 = i
    OBVIOUS
  <2>5. DOMAIN u = 1 .. k
    BY <2>2, <2>3, LenProperties
  <2> QED
    BY <2>2, <2>3, <2>4, <2>5
<1>3. StripRight(u) = IF kept = {} THEN <<>> ELSE SubSeq(u, 1, Largest(kept))
  BY DEF StripRight
<1>4. CASE kept = {}
  <2> DEFINE n == 0
  <2>1. SubSeq(t, 1, n) = <<>>
    BY SubSeqProperties, LenProperties
  <2>2. n \in 0 .. k
    OBVIOUS
  <2>3. StripRight(u) = <<>>
    BY <1>3, <1>4
  <2> HIDE DEF n, u
  <2>4. StripRight(UpTo(t, k)) = SubSeq(t, 1, n)
    BY <1>1, <2>1, <2>3
  <2> QED
    BY <2>2, <2>4
<1>5. CASE kept # {}
  <2> DEFINE n == Largest(kept)
  <2>1. kept \subseteq 1 .. k
    BY <1>2
  <2>2. n \in kept
    <3> HIDE DEF kept
    <3> QED
      BY <1>5, <2>1, LargestIs
  <2>3. n \in 1 .. k
    BY <2>1, <2>2
  <2>4. StripRight(u) = SubSeq(u, 1, n)
    BY <1>3, <1>5
  <2> HIDE DEF n, kept
  <2> DEFINE v == SubSeq(u, 1, n)
             w == SubSeq(t, 1, n)
  <2>5. v \in Seq(V) /\ Len(v) = n /\ \A i \in 1 .. n : v[i] = u[i]
    <3>1. \A i \in 1 .. n : u[i] \in V
      BY <1>2, <2>3
    <3> HIDE DEF u
    <3>2. /\ v \in Seq(V) /\ Len(v) = IF 1 <= n THEN n - 1 + 1 ELSE 0
          /\ \A i \in 1 .. n - 1 + 1 : v[i] = u[1 + i - 1]
      BY <2>3, <3>1, SubSeqProperties
    <3> HIDE DEF v
    <3>3. Len(v) = n
      BY <2>3, <3>2
    <3>4. \A i \in 1 .. n : i \in 1 .. n - 1 + 1 /\ 1 + i - 1 = i
      BY <2>3
    <3> QED
      BY <3>2, <3>3, <3>4
  <2>6. w \in Seq(V) /\ Len(w) = n /\ \A i \in 1 .. n : w[i] = t[i]
    <3>1. \A i \in 1 .. n : t[i] \in V
      BY <2>3
    <3>2. /\ w \in Seq(V) /\ Len(w) = IF 1 <= n THEN n - 1 + 1 ELSE 0
          /\ \A i \in 1 .. n - 1 + 1 : w[i] = t[1 + i - 1]
      BY <2>3, <3>1, SubSeqProperties
    <3> HIDE DEF w
    <3>3. Len(w) = n
      BY <2>3, <3>2
    <3>4. \A i \in 1 .. n : i \in 1 .. n - 1 + 1 /\ 1 + i - 1 = i
      BY <2>3
    <3> QED
      BY <3>2, <3>3, <3>4
  <2>7. v = w
    <3>1. \A i \in 1 .. Len(v) : v[i] = w[i]
      <4>1. \A i \in 1 .. n : i \in 1 .. k
        BY <2>3
      <4> HIDE DEF u, v, w
      <4> QED
        BY <1>2, <2>5, <2>6, <4>1
    <3> HIDE DEF u, v, w
    <3> QED
      BY <2>5, <2>6, <3>1, SeqEqual
  <2>8. n \in 0 .. k /\ StripRight(UpTo(t, k)) = w
    BY <1>1, <2>3, <2>4, <2>7
  <2> HIDE DEF u, v
  <2> QED
    BY <2>8
<1> QED
  BY <1>4, <1>5

\* A reply never exceeds the cap, and it is cut, marked with dots, only when it must be.
THEOREM EveryReplyFits == Spec => []RepliesFit
<1>1. TextType => RepliesFit
  <2> DEFINE t == Strip(text, Blanks)
  <2>1. SUFFICES ASSUME TextType, NEW limit \in Nat, limit >= 3
                 PROVE  /\ Len(FitSms(text, limit)) <= limit
                        /\ FitSms(text, limit) = <<>> => t = <<>>
                        /\ Len(t) <= limit => FitSms(text, limit) = t
                        /\ Len(t) > limit =>
                               \E n \in 0 .. limit - 3 :
                                   FitSms(text, limit) = SubSeq(t, 1, n) \o Dots
    BY TypingAssumption DEF RepliesFit
  <2>2. t \in Seq(Alphabet)
    BY <2>1, StripSplits DEF TextType
  <2> DEFINE fitted == FitSms(text, limit)
             cut == StripRight(UpTo(t, limit - 3))
  <2>3. fitted = IF Len(t) <= limit THEN t ELSE cut \o Dots
    BY DEF FitSms
  <2> HIDE DEF t
  <2>4. Len(t) \in Nat
    BY <2>2
  <2>5. CASE Len(t) <= limit
    <3>1. fitted = t
      BY <2>3, <2>5
    <3> HIDE DEF fitted
    <3>2. ~(Len(t) > limit)
      BY <2>4, <2>5
    <3> QED
      BY <2>5, <3>1, <3>2 DEF fitted
  <2>6. CASE ~(Len(t) <= limit)
    <3> DEFINE k == limit - 3
    <3>1. k \in Nat /\ k < Len(t)
      BY <2>1, <2>4, <2>6
    <3>2. PICK n \in 0 .. k : cut = SubSeq(t, 1, n)
      <4> HIDE DEF k
      <4>1. \E n \in 0 .. k : StripRight(UpTo(t, k)) = SubSeq(t, 1, n)
        BY <2>2, <3>1, CutIs
      <4> QED
        BY <4>1 DEF k
    <3>3. cut \in Seq(Alphabet) /\ Len(cut) = n
      <4>1. n \in Nat /\ n <= Len(t)
        BY <3>1, <3>2
      <4>2. SubSeq(t, 1, n) \in Seq(Alphabet) /\ Len(SubSeq(t, 1, n)) = n
        <5>1. \A i \in 1 .. n : t[i] \in Alphabet
          BY <2>2, <4>1
        <5>2. /\ SubSeq(t, 1, n) \in Seq(Alphabet)
              /\ Len(SubSeq(t, 1, n)) = IF 1 <= n THEN n - 1 + 1 ELSE 0
          BY <4>1, <5>1, SubSeqProperties
        <5> QED
          BY <4>1, <5>2
      <4> QED
        BY <3>2, <4>2
    <3> DEFINE V == Alphabet \cup {"."}
    <3>4. cut \in Seq(V)
      BY <3>3, SeqMonotonic, Alphabet \subseteq V
    <3>5. Dots \in Seq(V) /\ Len(Dots) = 3
      BY DEF Dots
    <3>6. fitted = cut \o Dots
      BY <2>3, <2>6
    <3> HIDE DEF cut, V, fitted
    <3>7. cut \o Dots \in Seq(V) /\ Len(cut \o Dots) = n + 3
      <4>1. Dots \in Seq(V)
        BY <3>5
      <4>2. cut \o Dots \in Seq(V) /\ Len(cut \o Dots) = Len(cut) + Len(Dots)
        BY <3>4, <4>1, TwoParts
      <4> QED
        BY <3>3, <3>5, <4>2
    <3>8. Len(fitted) <= limit /\ Len(fitted) >= 1 /\ fitted \in Seq(V)
      BY <3>1, <3>2, <3>6, <3>7 DEF k
    <3>9. fitted # <<>>
      BY <3>8, EmptySeq
    <3>10. fitted = SubSeq(t, 1, n) \o Dots
      BY <3>2, <3>6
    <3> QED
      BY <2>6, <3>2, <3>8, <3>9, <3>10 DEF fitted, k
  <2> QED
    BY <2>5, <2>6 DEF t
<1> QED
  BY <1>1, TextTyped, PTL
=============================================================================
