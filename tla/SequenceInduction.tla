--------------------------- MODULE SequenceInduction ---------------------------
(***************************************************************************)
(* Induction over numbers, stated of sets and not of predicates so that it *)
(* can be cited, and what it shows of the concatenation of sequences.      *)
(***************************************************************************)
EXTENDS Integers, SequencesExt, SequenceTheorems, WellFoundedInduction, TLAPS

--------------------------------------------------------------------------------
(***************************************************************************)
(* Induction.                                                              *)
(***************************************************************************)
\* A set of which n is a member when all below n are holds every number.
LEMMA StrongInduction ==
    ASSUME NEW S, \A n \in Nat : (\A m \in 0..(n - 1) : m \in S) => n \in S
    PROVE  \A n \in Nat : n \in S
<1> DEFINE Less == OpToRel(<, Nat)
           Missing == Nat \ S
<1>1. IsWellFoundedOn(Less, Nat)
    BY NatLessThanWellFounded DEF OpToRel
<1>2. \A m, n \in Nat : m < n => <<m, n>> \in Less
    BY DEF OpToRel
<1> HIDE DEF Less
<1>3. ASSUME Missing # {} PROVE FALSE
  <2>1. PICK n \in Missing : \A m \in Missing : ~(<<m, n>> \in Less)
      BY <1>1, <1>3, WFMin
  <2>2. ASSUME NEW m \in 0..(n - 1) PROVE m \in S
    <3>1. m \in Nat /\ m < n /\ n \in Nat
        OBVIOUS
    <3>2. <<m, n>> \in Less
        BY <1>2, <3>1
    <3> QED  BY <2>1, <3>1, <3>2
  <2> QED  BY <2>1, <2>2
<1> QED  BY <1>3

LEMMA SetInduction ==
    ASSUME NEW S, 0 \in S, \A n \in Nat : n \in S => n + 1 \in S
    PROVE  \A n \in Nat : n \in S
<1>1. ASSUME NEW n \in Nat, \A m \in 0..(n - 1) : m \in S PROVE n \in S
  <2>1. CASE n = 0
      BY <2>1
  <2>2. CASE n # 0
    <3>1. n - 1 \in Nat /\ n - 1 \in 0..(n - 1) /\ (n - 1) + 1 = n
        BY <2>2
    <3> QED  BY <1>1, <3>1
  <2> QED  BY <2>1, <2>2
<1> QED  BY <1>1, StrongInduction

--------------------------------------------------------------------------------
(***************************************************************************)
(* FlattenSeq.                                                             *)
(***************************************************************************)
\* f[i] is the first i sequences, one after the other.
IsFlatten(f, seqs, n) ==
    f = [i \in 1..n |-> IF i = 1 THEN seqs[i] ELSE f[i - 1] \o seqs[i]]

LEMMA FlattenExists ==
    ASSUME NEW seqs PROVE \A n \in Nat : \E f : IsFlatten(f, seqs, n)
<1> DEFINE S == {n \in Nat : \E f : IsFlatten(f, seqs, n)}
<1>1. 0 \in S
  <2>1. IsFlatten([i \in 1..0 |-> << >>], seqs, 0)
      BY DEF IsFlatten
  <2> QED  BY <2>1
<1>2. ASSUME NEW n \in Nat, n \in S PROVE n + 1 \in S
  <2>1. PICK f : IsFlatten(f, seqs, n)
      BY <1>2
  <2> DEFINE last == IF n + 1 = 1 THEN seqs[n + 1] ELSE f[n] \o seqs[n + 1]
             g == [i \in 1..(n + 1) |-> IF i = n + 1 THEN last ELSE f[i]]
  <2>2. ASSUME NEW i \in 1..(n + 1)
        PROVE  g[i] = IF i = 1 THEN seqs[i] ELSE g[i - 1] \o seqs[i]
    <3> HIDE DEF last
    <3>1. CASE i = n + 1
      <4>1. g[i] = last
          BY <3>1
      <4>2. i # 1 => g[i - 1] = f[n]
          BY <3>1
      <4> QED  BY <3>1, <4>1, <4>2 DEF last
    <3>2. CASE i # n + 1
      <4>1. i \in 1..n /\ g[i] = f[i] /\ (i # 1 => i - 1 \in 1..n /\ g[i - 1] = f[i - 1])
          BY <3>2
      <4>2. f[i] = IF i = 1 THEN seqs[i] ELSE f[i - 1] \o seqs[i]
          BY <2>1, <4>1 DEF IsFlatten
      <4> QED  BY <4>1, <4>2
    <3> QED  BY <3>1, <3>2
  <2>3. IsFlatten(g, seqs, n + 1)
    <3>1. g = [i \in 1..(n + 1) |-> g[i]]
        OBVIOUS
    <3> HIDE DEF g
    <3> QED  BY <2>2, <3>1, Zenon DEF IsFlatten
  <2> HIDE DEF g
  <2> QED  BY <2>3
<1> HIDE DEF S
<1>3. \A n \in Nat : n \in S
    BY <1>1, <1>2, SetInduction
<1> QED  BY <1>3 DEF S

\* FlattenSeq is the last value of a function that grows by one sequence at a time.
LEMMA FlattenUnfolded ==
    ASSUME NEW seqs, Len(seqs) \in Nat \ {0}
    PROVE  \E f : IsFlatten(f, seqs, Len(seqs)) /\ FlattenSeq(seqs) = f[Len(seqs)]
<1> DEFINE f == CHOOSE f : IsFlatten(f, seqs, Len(seqs))
<1>1. IsFlatten(f, seqs, Len(seqs))
    BY FlattenExists
<1>2. FlattenSeq(seqs) = f[Len(seqs)]
    BY DEF FlattenSeq, IsFlatten
<1> QED  BY <1>1, <1>2
LEMMA FlattenUnique ==
    ASSUME NEW f, NEW g, NEW s, NEW t, NEW m \in Nat, NEW n \in Nat, m <= n,
           IsFlatten(f, s, m), IsFlatten(g, t, n), \A i \in 1..m : s[i] = t[i]
    PROVE  \A i \in 1..m : f[i] = g[i]
<1> DEFINE S == {k \in Nat : k + 1 \in 1..m => f[k + 1] = g[k + 1]}
<1>1. ASSUME NEW i \in 1..m
      PROVE  /\ f[i] = IF i = 1 THEN s[i] ELSE f[i - 1] \o s[i]
             /\ g[i] = IF i = 1 THEN s[i] ELSE g[i - 1] \o s[i]
  <2>1. i \in 1..n /\ s[i] = t[i]
      OBVIOUS
  <2>2. /\ f[i] = IF i = 1 THEN s[i] ELSE f[i - 1] \o s[i]
        /\ g[i] = IF i = 1 THEN t[i] ELSE g[i - 1] \o t[i]
      BY <2>1 DEF IsFlatten
  <2> QED  BY <2>1, <2>2
<1>2. 0 \in S
    BY <1>1
<1>3. ASSUME NEW k \in Nat, k \in S PROVE k + 1 \in S
  <2> SUFFICES ASSUME (k + 1) + 1 \in 1..m PROVE f[(k + 1) + 1] = g[(k + 1) + 1]
      OBVIOUS
  <2>1. k + 1 \in 1..m /\ ((k + 1) + 1) - 1 = k + 1 /\ (k + 1) + 1 # 1
      OBVIOUS
  <2>2. f[k + 1] = g[k + 1]
      BY <1>3, <2>1
  <2> QED  BY <1>1, <2>1, <2>2
<1> HIDE DEF S
<1>4. \A k \in Nat : k \in S
    BY <1>2, <1>3, SetInduction
<1>5. ASSUME NEW i \in 1..m PROVE f[i] = g[i]
  <2>1. i - 1 \in Nat /\ (i - 1) + 1 = i
      OBVIOUS
  <2> QED  BY <1>4, <2>1 DEF S
<1> QED  BY <1>5

LEMMA FlattenOne == ASSUME NEW x PROVE FlattenSeq(<<x>>) = x
<1> DEFINE s == <<x>>
<1>1. Len(s) = 1 /\ s[1] = x
    OBVIOUS
<1> HIDE DEF s
<1>2. PICK f : IsFlatten(f, s, Len(s)) /\ FlattenSeq(s) = f[Len(s)]
  <2>1. Len(s) \in Nat \ {0}
      BY <1>1
  <2> QED  BY <2>1, FlattenUnfolded, Zenon
<1>3. f[1] = s[1]
    BY <1>1, <1>2 DEF IsFlatten
<1> QED  BY <1>1, <1>2, <1>3 DEF s

\* Another sequence is put at the end.
LEMMA FlattenAppend ==
    ASSUME NEW T, NEW s \in Seq(T), NEW x \in T, s # << >>
    PROVE  FlattenSeq(Append(s, x)) = FlattenSeq(s) \o x
<1> DEFINE t == Append(s, x)
           n == Len(s)
<1>1. /\ n \in Nat \ {0} /\ Len(t) = n + 1
      /\ \A i \in 1..n : s[i] = t[i]
      /\ t[n + 1] = x
    BY EmptySeq, AppendProperties
<1> HIDE DEF t, n
<1>2. PICK f : IsFlatten(f, s, n) /\ FlattenSeq(s) = f[n]
    BY <1>1, FlattenUnfolded DEF n
<1>3. PICK g : IsFlatten(g, t, n + 1) /\ FlattenSeq(t) = g[n + 1]
    BY <1>1, FlattenUnfolded
<1>4. f[n] = g[n]
    BY <1>1, <1>2, <1>3, FlattenUnique
<1>5. g[n + 1] = g[n] \o t[n + 1]
  <2>1. n + 1 \in 1..(n + 1) /\ n + 1 # 1 /\ (n + 1) - 1 = n
      BY <1>1
  <2> QED  BY <1>3, <2>1 DEF IsFlatten
<1> QED  BY <1>1, <1>2, <1>3, <1>4, <1>5 DEF t

LEMMA FlattenTyped ==
    ASSUME NEW S, NEW seqs \in Seq(Seq(S)) PROVE FlattenSeq(seqs) \in Seq(S)
<1>1. CASE seqs = << >>
    BY <1>1 DEF FlattenSeq
<1>2. CASE seqs # << >>
  <2>1. Len(seqs) \in Nat \ {0} /\ \A i \in 1..Len(seqs) : seqs[i] \in Seq(S)
      BY <1>2, EmptySeq, ElementOfSeq
  <2>2. PICK f : IsFlatten(f, seqs, Len(seqs)) /\ FlattenSeq(seqs) = f[Len(seqs)]
      BY <2>1, FlattenUnfolded
  <2> DEFINE Good == {n \in Nat : n + 1 \in 1..Len(seqs) => f[n + 1] \in Seq(S)}
  <2>3. \A i \in 1..Len(seqs) : f[i] = IF i = 1 THEN seqs[i] ELSE f[i - 1] \o seqs[i]
      BY <2>2 DEF IsFlatten
  <2>4. 0 \in Good
      BY <2>1, <2>3
  <2>5. ASSUME NEW n \in Nat, n \in Good PROVE n + 1 \in Good
    <3> SUFFICES ASSUME (n + 1) + 1 \in 1..Len(seqs) PROVE f[(n + 1) + 1] \in Seq(S)
        OBVIOUS
    <3>1. n + 1 \in 1..Len(seqs) /\ ((n + 1) + 1) - 1 = n + 1 /\ (n + 1) + 1 # 1
        BY <2>1
    <3>2. f[n + 1] \in Seq(S) /\ seqs[(n + 1) + 1] \in Seq(S)
        BY <2>1, <2>5, <3>1
    <3>3. f[(n + 1) + 1] = f[n + 1] \o seqs[(n + 1) + 1]
        BY <2>3, <3>1
    <3> QED  BY <3>2, <3>3, ConcatProperties
  <2> HIDE DEF Good
  <2>6. \A n \in Nat : n \in Good
      BY <2>4, <2>5, SetInduction
  <2>7. Len(seqs) - 1 \in Nat /\ (Len(seqs) - 1) + 1 = Len(seqs) /\ Len(seqs) \in 1..Len(seqs)
      BY <2>1
  <2>8. Len(seqs) - 1 \in Good
      BY <2>6, <2>7
  <2> QED  BY <2>2, <2>7, <2>8 DEF Good
<1> QED  BY <1>1, <1>2

LEMMA Associative ==
    ASSUME NEW T, NEW a \in Seq(T), NEW b \in Seq(T), NEW c \in Seq(T)
    PROVE  (a \o b) \o c = a \o (b \o c)
BY ConcatAssociative

\* Another sequence is put at the front.
LEMMA FlattenFront ==
    ASSUME NEW S, NEW x \in Seq(S), NEW s \in Seq(Seq(S))
    PROVE  FlattenSeq(<<x>> \o s) = x \o FlattenSeq(s)
<1> DEFINE AtFront(t) == FlattenSeq(<<x>> \o t) = x \o FlattenSeq(t)
           Good == {n \in Nat : \A t \in Seq(Seq(S)) : Len(t) = n => AtFront(t)}
<1>1. 0 \in Good
  <2> SUFFICES ASSUME NEW t \in Seq(Seq(S)), Len(t) = 0 PROVE AtFront(t)
    <3> HIDE DEF AtFront
    <3> QED  OBVIOUS
  <2>1. t = << >> /\ FlattenSeq(t) = << >>
      BY EmptySeq DEF FlattenSeq
  <2>2. <<x>> \o t = <<x>> /\ x \o << >> = x
      BY <2>1, ConcatEmptySeq
  <2> QED  BY <2>1, <2>2, FlattenOne
<1>2. ASSUME NEW n \in Nat, n \in Good PROVE n + 1 \in Good
  <2> SUFFICES ASSUME NEW t \in Seq(Seq(S)), Len(t) = n + 1 PROVE AtFront(t)
    <3> HIDE DEF AtFront
    <3> QED  OBVIOUS
  <2>1. PICK u \in Seq(Seq(S)), y \in Seq(S) : t = Append(u, y)
    <3>1. t # << >>
        BY EmptySeq
    <3> DEFINE T == Seq(S)
    <3> HIDE DEF T
    <3> QED  BY <3>1, SequenceEmptyOrAppend DEF T
  <2>2. Len(u) = n
      BY <2>1, AppendProperties
  <2>3. FlattenSeq(<<x>> \o u) = x \o FlattenSeq(u)
      BY <1>2, <2>2
  <2>4. <<x>> \o t = Append(<<x>> \o u, y) /\ <<x>> \o u \in Seq(Seq(S)) /\ <<x>> \o u # << >>
      BY <2>1
  <2>5. FlattenSeq(<<x>> \o t) = (x \o FlattenSeq(u)) \o y
      BY <2>3, <2>4, FlattenAppend
  <2>6. FlattenSeq(u) \in Seq(S)
      BY FlattenTyped
  <2>7. (x \o FlattenSeq(u)) \o y = x \o (FlattenSeq(u) \o y)
    <3> DEFINE z == FlattenSeq(u)
    <3>1. z \in Seq(S)
        BY <2>6
    <3> HIDE DEF z
    <3>2. (x \o z) \o y = x \o (z \o y)
      <4> HIDE DEF Good
      <4>1. x \in Seq(S) /\ y \in Seq(S)
          OBVIOUS
      <4> QED  BY ONLY <3>1, <4>1, Associative, SMTT(60)
    <3> QED  BY <3>2 DEF z
  <2>8. FlattenSeq(t) = FlattenSeq(u) \o y
    <3>1. CASE u = << >>
      <4>1. t = <<y>> /\ FlattenSeq(u) = << >> /\ << >> \o y = y
          BY <2>1, <3>1, ConcatEmptySeq DEF FlattenSeq
      <4> QED  BY <4>1, FlattenOne
    <3>2. CASE u # << >>
        BY <2>1, <3>2, FlattenAppend
    <3> QED  BY <3>1, <3>2
  <2> QED  BY <2>5, <2>7, <2>8
<1> HIDE DEF Good
<1>3. \A n \in Nat : n \in Good
    BY <1>1, <1>2, SetInduction
<1>4. Len(s) \in Nat
    BY LenProperties
<1> QED  BY <1>3, <1>4 DEF Good
================================================================================
