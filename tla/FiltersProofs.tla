--------------------------- MODULE FiltersProofs ---------------------------
(***************************************************************************)
(* What Keep computes, for every sequence.  Induction is over a set: one   *)
(* that has the empty sequence, and with a sequence each that is longer by *)
(* one element, has them all.                                              *)
(***************************************************************************)
EXTENDS Filters, Integers, SequencesExt, WellFoundedInduction, SequenceTheorems, TLAPS

LEMMA Smallest == ASSUME NEW T, T \subseteq Nat, T # {} PROVE \E x \in T : \A y \in T : x <= y
  <1>. DEFINE R == OpToRel(<, Nat)
  <1>1. IsWellFoundedOn(R, Nat)
    BY NatLessThanWellFounded
  <1>2. \A x, y \in Nat : x < y => <<x, y>> \in R
    BY DEF OpToRel
  <1>. HIDE DEF R
  <1>3. PICK x \in T : \A y \in T : ~ (<<y, x>> \in R)
    BY <1>1, WFMin
  <1>4. \A y \in T : ~(y < x)
    BY <1>2, <1>3
  <1>5. \A y \in T : x <= y
    BY <1>4
  <1>. QED
    BY <1>5

LEMMA Counting ==
    ASSUME NEW T, 0 \in T, \A n \in Nat : n \in T => n + 1 \in T
    PROVE  \A n \in Nat : n \in T
  <1>. SUFFICES ASSUME Nat \ T # {} PROVE FALSE
    OBVIOUS
  <1>1. PICK n \in Nat \ T : \A m \in Nat \ T : n <= m
    BY Smallest
  <1>2. n - 1 \in Nat /\ n - 1 \in T
    BY <1>1
  <1>. QED
    BY <1>2

LEMMA Growing ==
    ASSUME NEW U, NEW T, <<>> \in T,
           \A s \in Seq(U) : s \in T => \A e \in U : Append(s, e) \in T
    PROVE  \A s \in Seq(U) : s \in T
  <1>. DEFINE L == {n \in Nat : \A s \in Seq(U) : Len(s) = n => s \in T}
  <1>1. 0 \in L
    OBVIOUS
  <1>2. ASSUME NEW n \in Nat, n \in L PROVE n + 1 \in L
    <2>1. ASSUME NEW s \in Seq(U), Len(s) = n + 1 PROVE s \in T
      <3>1. s # <<>>
        BY <2>1
      <3>2. PICK r \in Seq(U), e \in U : s = Append(r, e)
        BY <3>1, SequenceEmptyOrAppend
      <3>3. Len(r) = n
        BY <2>1, <3>2
      <3>4. r \in T
        BY <1>2, <3>3
      <3>. QED
        BY <3>2, <3>4
    <2>. QED
      BY <2>1
  <1>. HIDE DEF L
  <1>3. \A n \in Nat : n \in L
    BY <1>1, <1>2, Counting
  <1>. QED
    BY <1>3 DEF L

-----------------------------------------------------------------------------
(* The function Keep is defined by: it exists, and it depends on the       *)
(* elements it has read only.                                              *)
Step(q, S, f, i) ==
    IF i = 0 THEN <<>> ELSE IF q[i] \in S THEN Append(f[i - 1], q[i]) ELSE f[i - 1]

Counts(q, S, n, f) == f = [i \in 0 .. n |-> Step(q, S, f, i)]

LEMMA Exists ==
    ASSUME NEW q, NEW S
    PROVE  \A n \in Nat : \E f : Counts(q, S, n, f)
  <1>. DEFINE T == {n \in Nat : \E f : Counts(q, S, n, f)}
  <1>1. 0 \in T
    <2>. DEFINE f == [i \in 0 .. 0 |-> <<>>]
    <2>1. Counts(q, S, 0, f)
      BY DEF Counts, Step
    <2>. QED
      BY <2>1
  <1>2. ASSUME NEW n \in Nat, n \in T PROVE n + 1 \in T
    <2>1. PICK g : Counts(q, S, n, g)
      BY <1>2
    <2>. DEFINE f == [i \in 0 .. n + 1 |-> IF i = n + 1 THEN Step(q, S, g, n + 1) ELSE g[i]]
    <2>2. \A j \in 0 .. n : g[j] = Step(q, S, g, j)
      BY <2>1 DEF Counts
    <2>3. \A j \in 0 .. n : f[j] = g[j]
      OBVIOUS
    <2>. HIDE DEF T
    <2>4. ASSUME NEW i \in 0 .. n + 1 PROVE f[i] = Step(q, S, f, i)
      <3>1. i = 0 \/ i - 1 \in 0 .. n
        OBVIOUS
      <3>2. f[i] = Step(q, S, g, i)
        BY <2>2, <2>3
      <3>. HIDE DEF f
      <3>3. Step(q, S, f, i) = Step(q, S, g, i)
        BY <2>3, <3>1 DEF Step
      <3>. QED
        BY <3>2, <3>3
    <2>5. Counts(q, S, n + 1, f)
      BY <2>4, Zenon DEF Counts
    <2>. QED
      BY <2>5 DEF T
  <1>. HIDE DEF T
  <1>3. \A n \in Nat : n \in T
    BY <1>1, <1>2, Counting
  <1>. QED
    BY <1>3 DEF T

LEMMA Unfold ==
    ASSUME NEW q, NEW S, Len(q) \in Nat
    PROVE  \E f : Counts(q, S, Len(q), f) /\ Keep(q, S) = f[Len(q)]
  <1>1. PICK g : Counts(q, S, Len(q), g)
    BY Exists
  <1>. DEFINE F == CHOOSE f : Counts(q, S, Len(q), f)
  <1>2. Counts(q, S, Len(q), F)
    BY <1>1, Zenon
  <1>3. Keep(q, S) = F[Len(q)]
    BY Zenon DEF Keep, Counts, Step
  <1>. QED
    BY <1>2, <1>3

LEMMA Agree ==
    ASSUME NEW q, NEW r, NEW S, NEW m \in Nat, NEW n \in Nat, m <= n, NEW f, NEW g,
           Counts(q, S, m, f), Counts(r, S, n, g), \A i \in 1 .. m : q[i] = r[i]
    PROVE  f[m] = g[m]
  <1>. DEFINE T == {k \in Nat : k <= m => f[k] = g[k]}
  <1>1. \A k \in 0 .. m : f[k] = Step(q, S, f, k)
    BY DEF Counts
  <1>2. \A k \in 0 .. n : g[k] = Step(r, S, g, k)
    BY DEF Counts
  <1>3. 0 \in T
    <2>1. f[0] = <<>> /\ g[0] = <<>>
      BY <1>1, <1>2 DEF Step
    <2>. QED
      BY <2>1
  <1>4. ASSUME NEW k \in Nat, k \in T PROVE k + 1 \in T
    <2>1. ASSUME k + 1 <= m PROVE f[k + 1] = g[k + 1]
      <3>1. f[k] = g[k] /\ q[k + 1] = r[k + 1]
        BY <1>4, <2>1
      <3>2. f[k + 1] = Step(q, S, f, k + 1) /\ g[k + 1] = Step(r, S, g, k + 1)
        BY <1>1, <1>2, <2>1
      <3>3. Step(q, S, f, k + 1) = Step(r, S, g, k + 1)
        BY <3>1 DEF Step
      <3>. QED
        BY <3>2, <3>3
    <2>. QED
      BY <2>1
  <1>. HIDE DEF T
  <1>5. \A k \in Nat : k \in T
    BY <1>3, <1>4, Counting
  <1>. QED
    BY <1>5 DEF T

LEMMA KeepEmpty == ASSUME NEW S PROVE Keep(<<>>, S) = <<>>
  <1>1. PICK f : Counts(<<>>, S, 0, f) /\ Keep(<<>>, S) = f[0]
    BY Unfold
  <1>. QED
    BY <1>1 DEF Counts, Step

LEMMA KeepAppend ==
    ASSUME NEW U, NEW S
    PROVE  \A q \in Seq(U) : \A e \in U :
              /\ e \in S => Keep(Append(q, e), S) = Append(Keep(q, S), e)
              /\ e \notin S => Keep(Append(q, e), S) = Keep(q, S)
  <1>. TAKE q \in Seq(U)
  <1>. TAKE e \in U
  <1>. DEFINE r == Append(q, e)  n == Len(q)
  <1>1. /\ n \in Nat /\ Len(r) = n + 1 /\ r[n + 1] = e
        /\ \A i \in 1 .. n : q[i] = r[i]
    OBVIOUS
  <1>. HIDE DEF r
  <1>2. PICK f : Counts(q, S, n, f) /\ Keep(q, S) = f[n]
    BY <1>1, Unfold
  <1>3. PICK g : Counts(r, S, n + 1, g) /\ Keep(r, S) = g[n + 1]
    <2>1. \E g : Counts(r, S, Len(r), g) /\ Keep(r, S) = g[Len(r)]
      BY <1>1, Unfold
    <2>. QED
      BY <1>1, <2>1
  <1>4. f[n] = g[n]
    BY <1>1, <1>2, <1>3, Agree
  <1>5. g[n + 1] = Step(r, S, g, n + 1)
    BY <1>1, <1>3 DEF Counts
  <1>. QED
    BY <1>1, <1>2, <1>3, <1>4, <1>5 DEF Step, r

-----------------------------------------------------------------------------
(* From here on Keep is known by these two equations. *)

LEMMA KeepType ==
    ASSUME NEW U, NEW S
    PROVE  \A q \in Seq(U) : Keep(q, S) \in Seq(U \intersect S)
  <1>. DEFINE T == {q \in Seq(U) : Keep(q, S) \in Seq(U \intersect S)}
  <1>1. <<>> \in T
    <2>1. <<>> \in Seq(U \intersect S) /\ <<>> \in Seq(U)
      OBVIOUS
    <2>. QED
      BY <2>1, KeepEmpty, Zenon
  <1>2. ASSUME NEW q \in Seq(U), q \in T, NEW e \in U PROVE Append(q, e) \in T
    <2>1. Keep(q, S) \in Seq(U \intersect S)
      BY <1>2
    <2>. HIDE DEF T
    <2>2. Keep(Append(q, e), S) = IF e \in S THEN Append(Keep(q, S), e) ELSE Keep(q, S)
      BY KeepAppend
    <2>3. Keep(Append(q, e), S) \in Seq(U \intersect S)
      BY <2>1, <2>2
    <2>. QED
      BY <2>3 DEF T
  <1>. HIDE DEF T
  <1>3. \A q \in Seq(U) : q \in T
    BY <1>1, <1>2, Growing
  <1>. QED
    BY <1>3 DEF T

LEMMA KeepSeq ==
    ASSUME NEW U, NEW S
    PROVE  \A q \in Seq(U) : Keep(q, S) \in Seq(U)
  <1>. TAKE q \in Seq(U)
  <1>1. Keep(q, S) \in Seq(U \intersect S)
    BY KeepType
  <1>. QED
    BY <1>1

LEMMA AppendToConcat ==
    ASSUME NEW U, NEW e \in U
    PROVE  \A q, r \in Seq(U) : Append(q \o r, e) = q \o Append(r, e)
  <1>. TAKE q, r \in Seq(U)
  <1>1. <<e>> \in Seq(U) /\ q \o r \in Seq(U)
    OBVIOUS
  <1>2. Append(q \o r, e) = (q \o r) \o <<e>> /\ Append(r, e) = r \o <<e>>
    BY <1>1, AppendIsConcat
  <1>3. (q \o r) \o <<e>> = q \o (r \o <<e>>)
    BY <1>1, ConcatAssociative
  <1>. QED
    BY <1>2, <1>3, Zenon

LEMMA KeepConcat ==
    ASSUME NEW U, NEW S
    PROVE  \A q, r \in Seq(U) : Keep(q \o r, S) = Keep(q, S) \o Keep(r, S)
  <1>. SUFFICES ASSUME NEW q \in Seq(U) PROVE \A r \in Seq(U) : Keep(q \o r, S) = Keep(q, S) \o Keep(r, S)
    OBVIOUS
  <1>. DEFINE T == {r \in Seq(U) : Keep(q \o r, S) = Keep(q, S) \o Keep(r, S)}
  <1>0. Keep(q, S) \in Seq(U)
    BY KeepSeq
  <1>1. <<>> \in T
    BY <1>0, KeepEmpty, ConcatEmptySeq
  <1>2. ASSUME NEW r \in Seq(U), r \in T, NEW e \in U PROVE Append(r, e) \in T
    <2>1. Keep(q \o r, S) = Keep(q, S) \o Keep(r, S)
      BY <1>2
    <2>. HIDE DEF T
    <2>2. q \o Append(r, e) = Append(q \o r, e) /\ q \o r \in Seq(U)
      <3>1. q \o r \in Seq(U)
        OBVIOUS
      <3>. QED
        BY <3>1, AppendToConcat, Zenon
    <2>3. Keep(r, S) \in Seq(U)
      BY KeepSeq
    <2>4. Append(Keep(q, S) \o Keep(r, S), e) = Keep(q, S) \o Append(Keep(r, S), e)
      BY <1>0, <2>3, AppendToConcat, Zenon
    <2>5. /\ e \in S => Keep(Append(r, e), S) = Append(Keep(r, S), e)
          /\ e \notin S => Keep(Append(r, e), S) = Keep(r, S)
      BY KeepAppend, Zenon
    <2>6. /\ e \in S => Keep(q \o Append(r, e), S) = Append(Keep(q \o r, S), e)
          /\ e \notin S => Keep(q \o Append(r, e), S) = Keep(q \o r, S)
      BY <2>2, KeepAppend, Zenon
    <2>7. Keep(q \o Append(r, e), S) = Keep(q, S) \o Keep(Append(r, e), S)
      BY <2>1, <2>4, <2>5, <2>6, Zenon
    <2>. QED
      BY <2>7 DEF T
  <1>. HIDE DEF T
  <1>3. \A r \in Seq(U) : r \in T
    BY <1>1, <1>2, Growing
  <1>. QED
    BY <1>3 DEF T

LEMMA KeepOne ==
    ASSUME NEW U, NEW e \in U, NEW S
    PROVE  /\ e \in S => Keep(<<e>>, S) = <<e>>
           /\ e \notin S => Keep(<<e>>, S) = <<>>
  <1>1. <<>> \in Seq(U) /\ <<e>> = Append(<<>>, e)
    OBVIOUS
  <1>2. Append(<<>>, e) = <<e>>
    OBVIOUS
  <1>3. /\ e \in S => Keep(Append(<<>>, e), S) = Append(Keep(<<>>, S), e)
        /\ e \notin S => Keep(Append(<<>>, e), S) = Keep(<<>>, S)
    BY <1>1, KeepAppend, Zenon
  <1>. QED
    BY <1>1, <1>2, <1>3, KeepEmpty

(* What is kept is what is in both, however one gets there. *)
LEMMA KeepKeep ==
    ASSUME NEW U, NEW S, NEW T
    PROVE  \A q \in Seq(U) : Keep(Keep(q, S), T) = Keep(q, S \intersect T)
  <1>. DEFINE R == S \intersect T
              V == {q \in Seq(U) : Keep(Keep(q, S), T) = Keep(q, R)}
  <1>1. <<>> \in V
    BY KeepEmpty
  <1>2. ASSUME NEW q \in Seq(U), q \in V, NEW e \in U PROVE Append(q, e) \in V
    <2>1. Keep(Keep(q, S), T) = Keep(q, R)
      BY <1>2
    <2>2. e \in R <=> e \in S /\ e \in T
      OBVIOUS
    <2>. HIDE DEF V, R
    <2>3. Keep(q, S) \in Seq(U)
      BY KeepSeq
    <2>4. /\ Keep(Append(q, e), R) = IF e \in R THEN Append(Keep(q, R), e) ELSE Keep(q, R)
          /\ Keep(Append(q, e), S) = IF e \in S THEN Append(Keep(q, S), e) ELSE Keep(q, S)
      BY KeepAppend
    <2>5. Keep(Append(Keep(q, S), e), T)
            = IF e \in T THEN Append(Keep(Keep(q, S), T), e) ELSE Keep(Keep(q, S), T)
      BY <2>3, KeepAppend
    <2>6. Keep(Keep(Append(q, e), S), T) = Keep(Append(q, e), R)
      BY <2>1, <2>2, <2>4, <2>5
    <2>. QED
      BY <2>6 DEF V
  <1>. HIDE DEF V
  <1>3. \A q \in Seq(U) : q \in V
    BY <1>1, <1>2, Growing
  <1>. QED
    BY <1>3 DEF V

(* Two sets that agree on the elements of q keep the same of it. *)
AgreeOn(q, S, T) == \A i \in 1 .. Len(q) : q[i] \in S <=> q[i] \in T

LEMMA KeepSame ==
    ASSUME NEW U, NEW S, NEW T
    PROVE  \A q \in Seq(U) : AgreeOn(q, S, T) => Keep(q, S) = Keep(q, T)
  <1>. DEFINE V == {q \in Seq(U) : AgreeOn(q, S, T) => Keep(q, S) = Keep(q, T)}
  <1>1. <<>> \in V
    BY KeepEmpty
  <1>2. ASSUME NEW q \in Seq(U), q \in V, NEW e \in U PROVE Append(q, e) \in V
    <2>1. AgreeOn(q, S, T) => Keep(q, S) = Keep(q, T)
      BY <1>2
    <2>. HIDE DEF V
    <2>2. ASSUME AgreeOn(Append(q, e), S, T) PROVE AgreeOn(q, S, T) /\ (e \in S <=> e \in T)
      <3>1. /\ Len(q) + 1 \in 1 .. Len(Append(q, e)) /\ Append(q, e)[Len(q) + 1] = e
            /\ \A i \in 1 .. Len(q) : i \in 1 .. Len(Append(q, e)) /\ Append(q, e)[i] = q[i]
        OBVIOUS
      <3>. QED
        BY <2>2, <3>1 DEF AgreeOn
    <2>3. /\ Keep(Append(q, e), S) = IF e \in S THEN Append(Keep(q, S), e) ELSE Keep(q, S)
          /\ Keep(Append(q, e), T) = IF e \in T THEN Append(Keep(q, T), e) ELSE Keep(q, T)
      BY KeepAppend
    <2>4. AgreeOn(Append(q, e), S, T) => Keep(Append(q, e), S) = Keep(Append(q, e), T)
      BY <2>1, <2>2, <2>3
    <2>. QED
      BY <2>4 DEF V
  <1>. HIDE DEF V
  <1>3. \A q \in Seq(U) : q \in V
    BY <1>1, <1>2, Growing
  <1>. QED
    BY <1>3 DEF V

(* What is kept was there. *)
Within(s, t) == \A i \in 1 .. Len(s) : \E j \in 1 .. Len(t) : s[i] = t[j]

LEMMA KeptIsThere ==
    ASSUME NEW U, NEW S
    PROVE  \A q \in Seq(U) : Within(Keep(q, S), q)
  <1>. DEFINE V == {q \in Seq(U) : Within(Keep(q, S), q)}
  <1>1. <<>> \in V
    BY KeepEmpty DEF Within
  <1>2. ASSUME NEW q \in Seq(U), q \in V, NEW e \in U PROVE Append(q, e) \in V
    <2>1. Within(Keep(q, S), q)
      BY <1>2
    <2>. HIDE DEF V
    <2>. DEFINE r == Append(q, e)  k == Keep(q, S)
    <2>2. /\ Len(q) + 1 \in 1 .. Len(r) /\ r[Len(q) + 1] = e
          /\ \A i \in 1 .. Len(q) : i \in 1 .. Len(r) /\ r[i] = q[i]
      OBVIOUS
    <2>3. k \in Seq(U)
      BY KeepSeq
    <2>4. Keep(r, S) = IF e \in S THEN Append(k, e) ELSE k
      BY KeepAppend
    <2>. HIDE DEF r, k
    <2>5. Within(k, r)
      BY <2>1, <2>2 DEF Within, k
    <2>6. CASE e \in S
      <3>1. Len(Keep(r, S)) = Len(k) + 1 /\ Keep(r, S)[Len(k) + 1] = e
        BY <2>3, <2>4, <2>6
      <3>2. \A i \in 1 .. Len(k) : Keep(r, S)[i] = k[i]
        BY <2>3, <2>4, <2>6
      <3>3. \A i \in 1 .. Len(Keep(r, S)) : i \in 1 .. Len(k) \/ i = Len(k) + 1
        BY <2>3, <3>1
      <3>. QED
        <4>1. Within(Keep(r, S), r)
          BY <2>2, <2>5, <3>1, <3>2, <3>3 DEF Within
        <4>. QED
          BY <4>1 DEF V, r
    <2>7. CASE e \notin S
      <3>1. Within(Keep(r, S), r)
        BY <2>4, <2>5, <2>7
      <3>. QED
        BY <3>1 DEF V, r
    <2>. QED
      BY <2>6, <2>7
  <1>. HIDE DEF V
  <1>3. \A q \in Seq(U) : q \in V
    BY <1>1, <1>2, Growing
  <1>. QED
    BY <1>3 DEF V
-----------------------------------------------------------------------------
(* Removing and inserting, of a sequence cut at the place. *)

UpTo(q, i) == SubSeq(q, 1, i)
From(q, i) == SubSeq(q, i, Len(q))

Both(a, b)   == a \o b
Put(a, e, b) == a \o <<e>> \o b

LEMMA CutAt ==
    ASSUME NEW U
    PROVE  \A q \in Seq(U) : \A i \in 1 .. Len(q) :
              /\ UpTo(q, i - 1) \in Seq(U) /\ Len(UpTo(q, i - 1)) = i - 1
              /\ From(q, i + 1) \in Seq(U)
              /\ q = Put(UpTo(q, i - 1), q[i], From(q, i + 1))
              /\ RemoveAt(q, i) = Both(UpTo(q, i - 1), From(q, i + 1))
  <1>. TAKE q \in Seq(U)
  <1>. TAKE i \in 1 .. Len(q)
  <1>. DEFINE a == SubSeq(q, 1, i - 1)  b == SubSeq(q, i + 1, Len(q))  c == SubSeq(q, i, Len(q))
  <1>1. /\ a \in Seq(U) /\ b \in Seq(U) /\ <<q[i]>> \in Seq(U) /\ Len(a) = i - 1
        /\ i - 1 \in 0 .. Len(q) /\ 1 \in 1 .. Len(q) + 1 /\ Len(q) \in i - 1 .. Len(q)
        /\ Len(q) \in i .. Len(q) /\ i - 1 + 1 = i
    OBVIOUS
  <1>2. SubSeq(q, 1, i - 1) \o SubSeq(q, i - 1 + 1, Len(q)) = SubSeq(q, 1, Len(q))
    <2>1. 1 - 1 = 0
      OBVIOUS
    <2>. QED
      BY <1>1, <2>1, ConcatAdjacentSubSeq, Zenon
  <1>3. SubSeq(q, 1, Len(q)) = q
    BY SubSeqFull, Zenon
  <1>4. c = <<q[i]>> \o b
    BY <1>1, SubSeqRecursiveFirst, Zenon
  <1>5. a \o (<<q[i]>> \o b) = a \o <<q[i]>> \o b
    <2>. DEFINE one == <<q[i]>>
    <2>1. one \in Seq(U)
      BY <1>1
    <2>. HIDE DEF a, b, one
    <2>2. a \o (one \o b) = (a \o one) \o b
      BY <1>1, <2>1
    <2>. QED
      BY <2>2 DEF one
  <1>6. q = a \o <<q[i]>> \o b
    BY <1>1, <1>2, <1>3, <1>4, <1>5, Zenon
  <1>7. RemoveAt(q, i) = a \o b
    BY Zenon DEF RemoveAt
  <1>. QED
    BY <1>1, <1>6, <1>7, Zenon DEF UpTo, From, Put, Both


LEMMA Halves ==
    ASSUME NEW U, NEW a \in Seq(U), NEW b \in Seq(U)
    PROVE  /\ SubSeq(a \o b, 1, Len(a)) = a
           /\ SubSeq(a \o b, Len(a) + 1, Len(a \o b)) = b
  <1>. DEFINE s == SubSeq(a \o b, 1, Len(a))  t == SubSeq(a \o b, Len(a) + 1, Len(a \o b))
  <1>1. /\ a \o b \in Seq(U) /\ Len(a \o b) = Len(a) + Len(b)
        /\ Len(a) \in Nat /\ Len(b) \in Nat
        /\ \A i \in 1 .. Len(a) : (a \o b)[i] = a[i]
        /\ \A i \in 1 .. Len(b) : (a \o b)[Len(a) + i] = b[i]
    BY ConcatProperties
  <1>2. s \in Seq(U) /\ Len(s) = Len(a) /\ \A i \in 1 .. Len(a) : s[i] = a[i]
    BY <1>1, SubSeqProperties
  <1>3. t \in Seq(U) /\ Len(t) = Len(b) /\ \A i \in 1 .. Len(b) : t[i] = b[i]
    BY <1>1, SubSeqProperties
  <1>. HIDE DEF s, t
  <1>4. s = a /\ t = b
    BY <1>2, <1>3, SeqEqual
  <1>. QED
    BY <1>4 DEF s, t

LEMMA Unfolded ==
    /\ \A q, k : RemoveAt(q, k) = SubSeq(q, 1, k - 1) \o SubSeq(q, k + 1, Len(q))
    /\ \A q, k, e : InsertAt(q, k, e) = SubSeq(q, 1, k - 1) \o <<e>> \o SubSeq(q, k, Len(q))
  BY Zenon DEF RemoveAt, InsertAt

LEMMA RemoveMiddle ==
    ASSUME NEW U
    PROVE  \A a, b \in Seq(U) : \A e \in U : RemoveAt(Put(a, e, b), Len(a) + 1) = Both(a, b)
  <1>. TAKE a, b \in Seq(U)
  <1>. TAKE e \in U
  <1>. DEFINE c == a \o <<e>>  q == c \o b  k == Len(a) + 1
  <1>1. /\ c \in Seq(U) /\ <<e>> \in Seq(U) /\ <<e>> \o b \in Seq(U)
        /\ Len(c) = k /\ k - 1 = Len(a)
    OBVIOUS
  <1>2. SubSeq(q, k + 1, Len(q)) = b
    BY <1>1, Halves
  <1>3. q = a \o (<<e>> \o b)
    BY <1>1, ConcatAssociative
  <1>4. SubSeq(q, 1, k - 1) = a
    BY <1>1, <1>3, Halves
  <1>. HIDE DEF q, k
  <1>5. RemoveAt(q, k) = a \o b
    BY <1>2, <1>4, Unfolded, Zenon
  <1>. QED
    BY <1>5 DEF q, k, Put, Both

LEMMA CutInsert ==
    ASSUME NEW U
    PROVE  \A q \in Seq(U) : \A i \in 1 .. Len(q) + 1 : \A e \in U :
              /\ UpTo(q, i - 1) \in Seq(U) /\ From(q, i) \in Seq(U)
              /\ q = Both(UpTo(q, i - 1), From(q, i))
              /\ InsertAt(q, i, e) = Put(UpTo(q, i - 1), e, From(q, i))
  <1>. TAKE q \in Seq(U)
  <1>. TAKE i \in 1 .. Len(q) + 1
  <1>. TAKE e \in U
  <1>. DEFINE a == SubSeq(q, 1, i - 1)  b == SubSeq(q, i, Len(q))
  <1>1. /\ a \in Seq(U) /\ b \in Seq(U) /\ Len(a) = i - 1
        /\ i - 1 \in 1 - 1 .. Len(q) /\ 1 \in 1 .. Len(q) + 1 /\ Len(q) \in i - 1 .. Len(q)
        /\ i - 1 + 1 = i
    OBVIOUS
  <1>2. SubSeq(q, 1, i - 1) \o SubSeq(q, i - 1 + 1, Len(q)) = SubSeq(q, 1, Len(q))
    BY <1>1, ConcatAdjacentSubSeq, Zenon
  <1>3. SubSeq(q, 1, Len(q)) = q
    BY SubSeqFull, Zenon
  <1>4. InsertAt(q, i, e) = a \o <<e>> \o b
    BY Zenon DEF InsertAt
  <1>. QED
    BY <1>1, <1>2, <1>3, <1>4, Zenon DEF UpTo, From, Put, Both

LEMMA InsertMiddle ==
    ASSUME NEW U
    PROVE  \A a, b \in Seq(U) : \A e \in U : InsertAt(Both(a, b), Len(a) + 1, e) = Put(a, e, b)
  <1>. TAKE a, b \in Seq(U)
  <1>. TAKE e \in U
  <1>. DEFINE q == a \o b  k == Len(a) + 1
  <1>1. k - 1 = Len(a)
    OBVIOUS
  <1>2. SubSeq(q, 1, k - 1) = a /\ SubSeq(q, k, Len(q)) = b
    BY <1>1, Halves
  <1>. HIDE DEF q, k
  <1>3. InsertAt(q, k, e) = a \o <<e>> \o b
    BY <1>2, Unfolded, Zenon
  <1>. QED
    BY <1>3 DEF q, k, Put, Both

LEMMA KeepMiddle ==
    ASSUME NEW U, NEW S
    PROVE  \A a, b \in Seq(U) : \A e \in U :
              /\ Keep(Both(a, b), S) = Both(Keep(a, S), Keep(b, S))
              /\ e \in S => Keep(Put(a, e, b), S) = Put(Keep(a, S), e, Keep(b, S))
              /\ e \notin S => Keep(Put(a, e, b), S) = Both(Keep(a, S), Keep(b, S))
  <1>. TAKE a, b \in Seq(U)
  <1>. TAKE e \in U
  <1>. DEFINE one == <<e>>  c == a \o one
  <1>1. c \in Seq(U) /\ one \in Seq(U)
    OBVIOUS
  <1>. HIDE DEF one
  <1>2. Keep(c \o b, S) = Keep(c, S) \o Keep(b, S)
    <2>. HIDE DEF c
    <2>. QED
      BY <1>1, KeepConcat
  <1>3. Keep(c, S) = Keep(a, S) \o Keep(one, S)
    BY <1>1, KeepConcat
  <1>. USE DEF one
  <1>4. (e \in S => Keep(one, S) = <<e>>) /\ (e \notin S => Keep(one, S) = <<>>)
    BY KeepOne
  <1>5. Keep(a, S) \in Seq(U)
    BY KeepSeq
  <1>6. Keep(a, S) \o <<>> = Keep(a, S)
    BY <1>5, ConcatEmptySeq
  <1>. QED
    <2>1. Keep(a \o b, S) = Keep(a, S) \o Keep(b, S)
      BY KeepConcat
    <2>. QED
      BY <1>2, <1>3, <1>4, <1>6, <2>1, Zenon DEF Put, Both

LEMMA MiddleOut ==
    ASSUME NEW U
    PROVE  \A a, b \in Seq(U) : \A e \in U : Within(Both(a, b), Put(a, e, b))
  <1>. TAKE a, b \in Seq(U)
  <1>. TAKE e \in U
  <1>1. ASSUME NEW j \in 1 .. Len(a \o b)
        PROVE  \E k \in 1 .. Len(a \o <<e>> \o b) : (a \o b)[j] = (a \o <<e>> \o b)[k]
    <2>1. CASE j <= Len(a)
      <3>1. j \in 1 .. Len(a \o <<e>> \o b) /\ (a \o b)[j] = (a \o <<e>> \o b)[j]
        BY <2>1
      <3>. QED
        BY <3>1
    <2>2. CASE j > Len(a)
      <3>1. j + 1 \in 1 .. Len(a \o <<e>> \o b) /\ (a \o b)[j] = (a \o <<e>> \o b)[j + 1]
        BY <2>2
      <3>. QED
        BY <3>1
    <2>. QED
      BY <2>1, <2>2
  <1>. QED
    BY <1>1 DEF Within, Put, Both

(* What is in r is e, or is in s. *)
OrIn(r, e, s) == \A k \in 1 .. Len(r) : r[k] = e \/ \E l \in 1 .. Len(s) : r[k] = s[l]

LEMMA MiddleIn ==
    ASSUME NEW U
    PROVE  \A a, b \in Seq(U) : \A e \in U : OrIn(Put(a, e, b), e, Both(a, b))
  <1>. USE DEF Put, Both, OrIn
  <1>. TAKE a, b \in Seq(U)
  <1>. TAKE e \in U
  <1>. TAKE k \in 1 .. Len(a \o <<e>> \o b)
  <1>1. CASE k <= Len(a)
    <2>1. k \in 1 .. Len(a \o b) /\ (a \o <<e>> \o b)[k] = (a \o b)[k]
      BY <1>1
    <2>. QED
      BY <2>1
  <1>2. CASE k = Len(a) + 1
    BY <1>2
  <1>3. CASE k > Len(a) + 1
    <2>1. k - 1 \in 1 .. Len(a \o b) /\ (a \o <<e>> \o b)[k] = (a \o b)[k - 1]
      BY <1>3
    <2>. QED
      BY <2>1
  <1>. QED
    BY <1>1, <1>2, <1>3
-----------------------------------------------------------------------------
(* What removing and moving an entry of q does to what is kept of it. *)

LEMMA KeepRemove ==
    ASSUME NEW U, NEW S, NEW q \in Seq(U), NEW i \in 1 .. Len(q)
    PROVE  /\ RemoveAt(q, i) \in Seq(U) /\ Within(RemoveAt(q, i), q)
           /\ \/ Keep(RemoveAt(q, i), S) = Keep(q, S)
              \/ \E k \in 1 .. Len(Keep(q, S)) : Keep(RemoveAt(q, i), S) = RemoveAt(Keep(q, S), k)
  <1>. DEFINE e == q[i]  a == UpTo(q, i - 1)  b == From(q, i + 1)
              A == Keep(a, S)  B == Keep(b, S)
  <1>1. /\ a \in Seq(U) /\ b \in Seq(U) /\ q = Put(a, e, b) /\ RemoveAt(q, i) = Both(a, b)
    BY CutAt, Zenon
  <1>2. e \in U
    OBVIOUS
  <1>. HIDE DEF e, a, b
  <1>3. RemoveAt(q, i) \in Seq(U) /\ Within(RemoveAt(q, i), q)
    <2>1. Both(a, b) \in Seq(U)
      BY <1>1 DEF Both
    <2>. QED
      BY <1>1, <1>2, <2>1, MiddleOut, Zenon
  <1>4. A \in Seq(U) /\ B \in Seq(U)
    BY <1>1, KeepSeq, Zenon
  <1>5. /\ Keep(RemoveAt(q, i), S) = Both(A, B)
        /\ e \in S => Keep(q, S) = Put(A, e, B)
        /\ e \notin S => Keep(q, S) = Both(A, B)
    BY <1>1, <1>2, KeepMiddle
  <1>. HIDE DEF A, B
  <1>6. RemoveAt(Put(A, e, B), Len(A) + 1) = Both(A, B)
    BY <1>2, <1>4, RemoveMiddle, Zenon
  <1>7. Len(A) + 1 \in 1 .. Len(Put(A, e, B))
    BY <1>2, <1>4 DEF Put
  <1>. QED
    BY <1>3, <1>5, <1>6, <1>7, Zenon

LEMMA KeepMove ==
    ASSUME NEW U, NEW S, NEW q \in Seq(U), NEW i \in 1 .. Len(q), NEW j \in 1 .. Len(q)
    PROVE  LET r == InsertAt(RemoveAt(q, i), j, q[i])
               Q == Keep(q, S)
           IN  /\ r \in Seq(U) /\ Within(r, q)
               /\ \/ Keep(r, S) = Q
                  \/ \E k, l \in 1 .. Len(Q) : Keep(r, S) = InsertAt(RemoveAt(Q, k), l, Q[k])
  <1>. DEFINE e == q[i]  a == UpTo(q, i - 1)  b == From(q, i + 1)
              r == InsertAt(RemoveAt(q, i), j, q[i])
  <1>1. /\ a \in Seq(U) /\ b \in Seq(U) /\ q = Put(a, e, b) /\ RemoveAt(q, i) = Both(a, b)
    BY CutAt, Zenon
  <1>2. e \in U /\ r = InsertAt(Both(a, b), j, e)
    BY <1>1
  <1>. HIDE DEF e, a, b, r
  <1>. DEFINE o == Both(a, b)  c == UpTo(o, j - 1)  d == From(o, j)
  <1>3. o \in Seq(U) /\ j \in 1 .. Len(o) + 1
    BY <1>1, <1>2, ConcatProperties DEF Put, Both
  <1>4. c \in Seq(U) /\ d \in Seq(U) /\ o = Both(c, d) /\ r = Put(c, e, d)
    <2>1. r = InsertAt(o, j, e)
      BY <1>2
    <2>. HIDE DEF o
    <2>. QED
      BY <1>2, <1>3, <2>1, CutInsert, Zenon
  <1>. HIDE DEF o, c, d
  <1>5. Both(a, b) = Both(c, d)
    BY <1>4 DEF o
  <1>6. r \in Seq(U)
    BY <1>2, <1>4 DEF Put
  <1>7. Within(r, q)
    <2>1. OrIn(r, e, o)
      BY <1>2, <1>4, MiddleIn, Zenon
    <2>2. Within(o, q)
      BY <1>1, <1>2, MiddleOut, Zenon DEF o
    <2>. QED
      BY <2>1, <2>2, Zenon DEF Within, OrIn, e
  <1>. DEFINE A == Keep(a, S)  B == Keep(b, S)  C == Keep(c, S)  D == Keep(d, S)
  <1>8. A \in Seq(U) /\ B \in Seq(U) /\ C \in Seq(U) /\ D \in Seq(U)
    BY <1>1, <1>4, KeepSeq, Zenon
  <1>9. Both(A, B) = Both(C, D)
    BY <1>1, <1>2, <1>4, <1>5, KeepMiddle
  <1>10. /\ e \in S => Keep(q, S) = Put(A, e, B) /\ Keep(r, S) = Put(C, e, D)
         /\ e \notin S => Keep(q, S) = Both(A, B) /\ Keep(r, S) = Both(C, D)
    BY <1>1, <1>2, <1>4, KeepMiddle
  <1>. HIDE DEF A, B, C, D
  <1>11. CASE e \in S
    <2>. DEFINE Q == Put(A, e, B)  k == Len(A) + 1  l == Len(C) + 1
    <2>1. RemoveAt(Q, k) = Both(C, D) /\ InsertAt(Both(C, D), l, e) = Put(C, e, D)
      BY <1>2, <1>8, <1>9, RemoveMiddle, InsertMiddle, Zenon
    <2>2. Q[k] = e /\ k \in 1 .. Len(Q) /\ l \in 1 .. Len(Q)
      <3>1. Len(A) + Len(B) = Len(C) + Len(D)
        BY <1>8, <1>9, ConcatProperties DEF Both
      <3>. QED
        BY <1>2, <1>8, <3>1 DEF Put
    <2>3. Keep(q, S) = Q /\ Keep(r, S) = Put(C, e, D)
      BY <1>10, <1>11
    <2>. HIDE DEF Q, k, l
    <2>4. Keep(r, S) = InsertAt(RemoveAt(Q, k), l, Q[k])
      BY <2>1, <2>2, <2>3, Zenon
    <2>. QED
      BY <1>6, <1>7, <2>2, <2>3, <2>4, Zenon DEF r
  <1>12. CASE e \notin S
    BY <1>6, <1>7, <1>9, <1>10, <1>12, Zenon DEF r
  <1>. QED
    BY <1>11, <1>12

LEMMA KeepTail ==
    ASSUME NEW U, NEW S, NEW q \in Seq(U), q # <<>>
    PROVE  /\ Tail(q) \in Seq(U) /\ Within(Tail(q), q)
           /\ \/ Keep(Tail(q), S) = Keep(q, S)
              \/ Keep(q, S) # <<>> /\ Keep(Tail(q), S) = Tail(Keep(q, S))
  <1>. DEFINE e == Head(q)  r == Tail(q)  kept == Keep(r, S)  none == <<>>
  <1>1. none \in Seq(U) /\ r \in Seq(U) /\ e \in U /\ q = Put(none, e, r)
    BY DEF Put
  <1>2. Within(r, q)
    <2>1. \A i \in 1 .. Len(r) : i + 1 \in 1 .. Len(q) /\ r[i] = q[i + 1]
      OBVIOUS
    <2>. QED
      BY <2>1, Zenon DEF Within
  <1>3. kept \in Seq(U) /\ Keep(none, S) = none
    BY <1>1, KeepSeq, KeepEmpty
  <1>4. Both(none, kept) = kept /\ Tail(Put(none, e, kept)) = kept /\ Put(none, e, kept) # <<>>
    BY <1>1, <1>3 DEF Both, Put
  <1>. HIDE DEF e, r, none
  <1>5. /\ e \in S => Keep(q, S) = Put(none, e, kept)
        /\ e \notin S => Keep(q, S) = Both(none, kept)
    BY <1>1, <1>3, KeepMiddle
  <1>. HIDE DEF kept
  <1>. QED
    BY <1>1, <1>2, <1>4, <1>5, Zenon DEF r, kept

-----------------------------------------------------------------------------
(* The first entries that were kept are what is kept of some first entries. *)
LEMMA KeepPrefix ==
    ASSUME NEW U, NEW S
    PROVE  \A t \in Seq(U) : \A m \in 0 .. Len(Keep(t, S)) :
              \E n \in 0 .. Len(t) : Keep(SubSeq(t, 1, n), S) = SubSeq(Keep(t, S), 1, m)
  <1>. DEFINE P(t) == \A m \in 0 .. Len(Keep(t, S)) :
                         \E n \in 0 .. Len(t) : Keep(SubSeq(t, 1, n), S) = SubSeq(Keep(t, S), 1, m)
              T == {t \in Seq(U) : P(t)}
  <1>1. <<>> \in T
    <2>1. Keep(<<>>, S) = <<>>
      BY KeepEmpty
    <2>2. SubSeq(<<>>, 1, 0) = <<>> /\ Len(<<>>) = 0 /\ <<>> \in Seq(U) /\ 0 \in 0 .. 0
      OBVIOUS
    <2>. SUFFICES ASSUME NEW m \in 0 .. 0
                  PROVE  \E n \in 0 .. Len(<<>>) : Keep(SubSeq(<<>>, 1, n), S) = SubSeq(<<>>, 1, m)
      BY <2>1, <2>2, Zenon
    <2>3. m = 0
      OBVIOUS
    <2>. QED
      BY <2>1, <2>2, <2>3, Zenon
  <1>2. ASSUME NEW t \in Seq(U), t \in T, NEW e \in U PROVE Append(t, e) \in T
    <2>. DEFINE t2 == Append(t, e)
                k == Keep(t, S)
    <2>1. k \in Seq(U) /\ t2 \in Seq(U) /\ Len(t2) = Len(t) + 1 /\ Len(t) \in Nat /\ Len(k) \in Nat
      BY KeepSeq
    <2>2. ASSUME NEW n \in 0 .. Len(t) PROVE SubSeq(t2, 1, n) = SubSeq(t, 1, n) /\ n \in 0 .. Len(t2)
      BY <2>1
    <2>3. /\ e \in S => Keep(t2, S) = Append(k, e)
          /\ e \notin S => Keep(t2, S) = k
      BY KeepAppend
    <2>4. SubSeq(t2, 1, Len(t2)) = t2
      BY <2>1
    <2>5. \A m \in 0 .. Len(k) : \E n \in 0 .. Len(t) : Keep(SubSeq(t, 1, n), S) = SubSeq(k, 1, m)
      BY <1>2
    <2>. HIDE DEF k, t2
    <2>6. \A m \in 0 .. Len(k) : \E n \in 0 .. Len(t2) : Keep(SubSeq(t2, 1, n), S) = SubSeq(k, 1, m)
      BY <2>2, <2>5
    <2>7. CASE e \notin S
      BY <2>1, <2>3, <2>6, <2>7 DEF t2
    <2>8. CASE e \in S
      <3>. SUFFICES ASSUME NEW m \in 0 .. Len(Append(k, e))
                    PROVE  \E n \in 0 .. Len(t2) : Keep(SubSeq(t2, 1, n), S) = SubSeq(Append(k, e), 1, m)
        BY <2>1, <2>3, <2>8 DEF t2
      <3>1. Len(Append(k, e)) = Len(k) + 1
        BY <2>1
      <3>2. CASE m <= Len(k)
        <4>1. m \in 0 .. Len(k) /\ SubSeq(Append(k, e), 1, m) = SubSeq(k, 1, m)
          BY <2>1, <3>1, <3>2
        <4>. QED
          BY <2>6, <4>1
      <3>3. CASE m = Len(k) + 1
        <4>1. SubSeq(Append(k, e), 1, m) = Append(k, e)
          BY <2>1, <3>1, <3>3
        <4>2. Keep(SubSeq(t2, 1, Len(t2)), S) = Append(k, e)
          BY <2>3, <2>4, <2>8
        <4>3. Len(t2) \in 0 .. Len(t2)
          BY <2>1
        <4>. QED
          BY <4>1, <4>2, <4>3
      <3>. QED
        BY <2>1, <3>1, <3>2, <3>3
    <2>. QED
      BY <2>7, <2>8
  <1>. HIDE DEF T
  <1>3. \A t \in Seq(U) : t \in T
    BY <1>1, <1>2, Growing
  <1>. QED
    BY <1>3 DEF T
=============================================================================
