----------------------- MODULE BlockedQueriesProofs -----------------------
(***************************************************************************)
(* The messages of DnsWire and the filters of BloomFilter, for every input: *)
(* what the decision of Blocking reads out of a datagram, and what a        *)
(* blocked client is sent.                                                  *)
(*                                                                         *)
(* What a loop over bytes or labels computes is proved by induction: a     *)
(* recursive function exists because its values are built one after the    *)
(* other, and a fact holds of all lengths because it holds of the next one. *)
(***************************************************************************)
EXTENDS BlockedQueries, BlockingProofs, SequenceTheorems, WellFoundedInduction

(* A set of numbers that has 0 and each next number has all of them.          *)
LEMMA Induction ==
  ASSUME NEW T \in SUBSET Nat, 0 \in T, \A n \in T : n + 1 \in T
  PROVE  T = Nat
<1> DEFINE R == {ss \in Nat \X Nat : ss[1] < ss[2]}
<1>1. SUFFICES ASSUME T # Nat PROVE FALSE
  OBVIOUS
<1>2. Nat \ T # {} /\ Nat \ T \subseteq Nat
  BY <1>1
<1>3. IsWellFoundedOn(R, Nat)
  BY NatLessThanWellFounded, Zenon DEF OpToRel
<1>4. PICK x \in Nat \ T : \A y \in Nat \ T : ~(<<y, x>> \in R)
  <2> HIDE DEF R
  <2> QED
    BY <1>2, <1>3, WFMin
<1>5. x # 0 /\ x - 1 \in Nat
  OBVIOUS
<1>6. <<x - 1, x>> \in R
  BY <1>5
<1>7. x - 1 \in T
  BY <1>4, <1>5, <1>6
<1> QED
  BY <1>5, <1>7

-----------------------------------------------------------------------------
(* Sequences of sequences, put one behind the other. *)

(* What FlattenSeq computes on the way, for one more part after the other.    *)
LEMMA FlattenExists ==
  ASSUME NEW ss, NEW n \in Nat
  PROVE  \E f : f = [i \in 1 .. n |-> IF i = 1 THEN ss[i] ELSE f[i - 1] \o ss[i]]
<1> DEFINE P(f, m) == f = [i \in 1 .. m |-> IF i = 1 THEN ss[i] ELSE f[i - 1] \o ss[i]]
           H(m) == \E f : P(f, m)
<1>1. H(0)
  <2>1. P(<<>>, 0)
    OBVIOUS
  <2> QED
    BY <2>1
<1>2. ASSUME NEW m \in Nat, H(m) PROVE H(m + 1)
  <2>1. PICK f : P(f, m)
    BY <1>2
  <2> DEFINE g == [i \in 1 .. m + 1 |->
                     IF i <= m THEN f[i]
                     ELSE IF i = 1 THEN ss[i] ELSE f[i - 1] \o ss[i]]
  <2>2. ASSUME NEW i \in 1 .. m + 1
        PROVE  g[i] = IF i = 1 THEN ss[i] ELSE g[i - 1] \o ss[i]
    <3>1. \A j \in 1 .. m : f[j] = IF j = 1 THEN ss[j] ELSE f[j - 1] \o ss[j]
      BY <2>1
    <3>2. \A j \in 1 .. m : g[j] = f[j]
      OBVIOUS
    <3>3. g[m + 1] = IF m + 1 = 1 THEN ss[m + 1] ELSE f[(m + 1) - 1] \o ss[m + 1]
      OBVIOUS
    <3> HIDE DEF g, P
    <3>4. CASE i = 1
      BY <3>1, <3>2, <3>3, <3>4
    <3>5. CASE i # 1
      <4>1. i - 1 \in 1 .. m /\ g[i - 1] = f[i - 1]
        BY <3>2, <3>5
      <4>2. g[i] = f[i - 1] \o ss[i]
        <5>1. CASE i \in 1 .. m
          BY <3>1, <3>2, <3>5, <5>1
        <5>2. CASE i = m + 1
          BY <3>3, <3>5, <5>2
        <5>3. i \in 1 .. m \/ i = m + 1
          OBVIOUS
        <5> QED
          BY <5>1, <5>2, <5>3
      <4> QED
        BY <3>5, <4>1, <4>2
    <3> QED
      BY <3>4, <3>5
  <2>3. P(g, m + 1)
    BY <2>2
  <2> HIDE DEF g, P
  <2> QED
    BY <2>3
<1> HIDE DEF H
<1> DEFINE T == {m \in Nat : H(m)}
<1>3. T \in SUBSET Nat /\ 0 \in T /\ \A m \in T : m + 1 \in T
  BY <1>1, <1>2
<1>4. T = Nat
  <2> HIDE DEF T
  <2> QED
    BY <1>3, Induction
<1>5. H(n)
  BY <1>4
<1> QED
  BY <1>5 DEF H

LEMMA FlattenSteps ==
  ASSUME NEW S, NEW ss \in Seq(Seq(S)), Len(ss) # 0
  PROVE  \E f : /\ f[1] = ss[1]
                /\ \A i \in 1 .. Len(ss) : i # 1 => f[i] = f[i - 1] \o ss[i]
                /\ FlattenSeq(ss) = f[Len(ss)]
<1> DEFINE P(f) == f = [i \in 1 .. Len(ss) |-> IF i = 1 THEN ss[i] ELSE f[i - 1] \o ss[i]]
           f == CHOOSE f : P(f)
<1>1. \E g : P(g)
  <2>1. Len(ss) \in Nat
    OBVIOUS
  <2> QED
    BY <2>1, FlattenExists
<1>2. P(f)
  BY <1>1, Zenon
<1>3. FlattenSeq(ss) = f[Len(ss)]
  BY Zenon DEF FlattenSeq
<1> HIDE DEF f
<1>4. ASSUME NEW i \in 1 .. Len(ss)
      PROVE  f[i] = IF i = 1 THEN ss[i] ELSE f[i - 1] \o ss[i]
  BY <1>2
<1>5. 1 \in 1 .. Len(ss)
  OBVIOUS
<1>6. f[1] = ss[1]
  BY <1>4, <1>5
<1> QED
  BY <1>3, <1>4, <1>6

LEMMA FlattenType ==
  ASSUME NEW S, NEW ss \in Seq(Seq(S))
  PROVE  FlattenSeq(ss) \in Seq(S)
<1>1. CASE Len(ss) = 0
  <2>1. ss = <<>>
    BY <1>1, EmptySeq
  <2> QED
    BY <2>1 DEF FlattenSeq
<1>2. CASE Len(ss) # 0
  <2>1. PICK f : /\ f[1] = ss[1]
                 /\ \A i \in 1 .. Len(ss) : i # 1 => f[i] = f[i - 1] \o ss[i]
                 /\ FlattenSeq(ss) = f[Len(ss)]
    BY <1>2, FlattenSteps
  <2> DEFINE H(n) == n + 1 <= Len(ss) => f[n + 1] \in Seq(S)
  <2>2. H(0)
    BY <2>1
  <2>3. ASSUME NEW n \in Nat, H(n) PROVE H(n + 1)
    <3>1. SUFFICES ASSUME n + 2 <= Len(ss) PROVE f[n + 2] \in Seq(S)
      OBVIOUS
    <3>2. n + 2 \in 1 .. Len(ss) /\ n + 2 # 1 /\ (n + 2) - 1 = n + 1
      BY <3>1
    <3>3. f[n + 2] = f[n + 1] \o ss[n + 2]
      BY <2>1, <3>2
    <3>4. f[n + 1] \in Seq(S) /\ ss[n + 2] \in Seq(S)
      BY <2>3, <3>1
    <3> QED
      BY <3>3, <3>4, ConcatProperties
  <2> HIDE DEF H
  <2> DEFINE T == {m \in Nat : H(m)}
  <2>4. T \in SUBSET Nat /\ 0 \in T /\ \A m \in T : m + 1 \in T
    BY <2>2, <2>3
  <2>5. T = Nat
    <3> HIDE DEF T
    <3> QED
      BY <2>4, Induction
  <2>6. Len(ss) - 1 \in Nat
    BY <1>2
  <2>7. H(Len(ss) - 1)
    BY <2>5, <2>6
  <2> QED
    BY <2>1, <2>6, <2>7 DEF H
<1> QED
  BY <1>1, <1>2

LEMMA FlattenCons ==
  ASSUME NEW S, NEW s \in Seq(S), NEW ss \in Seq(Seq(S))
  PROVE  FlattenSeq(<<s>> \o ss) = s \o FlattenSeq(ss)
<1> DEFINE t == <<s>> \o ss
<1>1. /\ t \in Seq(Seq(S)) /\ Len(t) = Len(ss) + 1 /\ t[1] = s
      /\ \A i \in 1 .. Len(ss) : t[i + 1] = ss[i]
  OBVIOUS
<1> HIDE DEF t
<1>2. PICK g : /\ g[1] = t[1]
               /\ \A i \in 1 .. Len(t) : i # 1 => g[i] = g[i - 1] \o t[i]
               /\ FlattenSeq(t) = g[Len(t)]
  <2>1. Len(t) # 0
    BY <1>1
  <2> QED
    BY <1>1, <2>1, FlattenSteps
<1>3. CASE Len(ss) = 0
  <2>1. FlattenSeq(t) = s
    BY <1>1, <1>2, <1>3
  <2>2. ss = <<>>
    BY <1>3, EmptySeq
  <2>3. FlattenSeq(ss) = <<>>
    BY <2>2 DEF FlattenSeq
  <2> QED
    BY <2>1, <2>3, ConcatEmptySeq DEF t
<1>4. CASE Len(ss) # 0
  <2>1. PICK f : /\ f[1] = ss[1]
                 /\ \A i \in 1 .. Len(ss) : i # 1 => f[i] = f[i - 1] \o ss[i]
                 /\ FlattenSeq(ss) = f[Len(ss)]
    BY <1>4, FlattenSteps
  <2> DEFINE H(n) == n + 1 <= Len(ss) => f[n + 1] \in Seq(S) /\ g[n + 2] = s \o f[n + 1]
  <2>2. H(0)
    <3>1. 2 \in 1 .. Len(t) /\ 1 \in 1 .. Len(ss) /\ 2 # 1 /\ 2 - 1 = 1 /\ t[2] = ss[1]
      BY <1>1, <1>4
    <3>2. g[2] = g[1] \o t[2]
      BY <1>2, <3>1
    <3>3. f[1] \in Seq(S) /\ g[2] = s \o f[1]
      BY <1>1, <1>2, <2>1, <3>1, <3>2
    <3> QED
      BY <3>3
  <2>3. ASSUME NEW n \in Nat, H(n) PROVE H(n + 1)
    <3>1. SUFFICES ASSUME n + 2 <= Len(ss)
                   PROVE  f[n + 2] \in Seq(S) /\ g[n + 3] = s \o f[n + 2]
      OBVIOUS
    <3>2. /\ n + 2 \in 1 .. Len(ss) /\ n + 2 # 1 /\ (n + 2) - 1 = n + 1
          /\ n + 3 \in 1 .. Len(t) /\ n + 3 # 1 /\ (n + 3) - 1 = n + 2
      <4> DEFINE k == Len(ss)
                 w == Len(t)
      <4>1. k \in Nat /\ w = k + 1 /\ n + 2 <= k
        BY <1>1, <3>1
      <4> HIDE DEF k, w
      <4>2. /\ n + 2 \in 1 .. k /\ n + 2 # 1 /\ (n + 2) - 1 = n + 1
            /\ n + 3 \in 1 .. w /\ n + 3 # 1 /\ (n + 3) - 1 = n + 2
        BY <4>1
      <4> QED
        BY <4>2 DEF k, w
    <3>3. f[n + 2] = f[n + 1] \o ss[n + 2]
      BY <2>1, <3>2
    <3>4. g[n + 3] = g[n + 2] \o t[n + 3]
      BY <1>2, <3>2
    <3>5. t[n + 3] = ss[n + 2]
      BY <1>1, <3>2
    <3>6. f[n + 1] \in Seq(S) /\ ss[n + 2] \in Seq(S) /\ g[n + 2] = s \o f[n + 1]
      BY <2>3, <3>1
    <3>7. f[n + 2] \in Seq(S)
      BY <3>3, <3>6, ConcatProperties
    <3>8. \A u, v \in Seq(S) : (s \o u) \o v = s \o (u \o v)
      BY ConcatAssociative
    <3>9. (s \o f[n + 1]) \o ss[n + 2] = s \o (f[n + 1] \o ss[n + 2])
      BY <3>6, <3>8
    <3> QED
      BY <3>3, <3>4, <3>5, <3>6, <3>7, <3>9
  <2> HIDE DEF H
  <2> DEFINE T == {m \in Nat : H(m)}
  <2>4. T \in SUBSET Nat /\ 0 \in T /\ \A m \in T : m + 1 \in T
    BY <2>2, <2>3
  <2>5. T = Nat
    <3> HIDE DEF T
    <3> QED
      BY <2>4, Induction
  <2>6. Len(ss) - 1 \in Nat /\ (Len(ss) - 1) + 2 = Len(t) /\ (Len(ss) - 1) + 1 = Len(ss)
    BY <1>1, <1>4
  <2>7. H(Len(ss) - 1)
    BY <2>5, <2>6
  <2>8. g[Len(t)] = s \o f[Len(ss)]
    <3>1. (Len(ss) - 1) + 1 <= Len(ss)
      BY <1>1, <2>6
    <3> QED
      BY <2>6, <2>7, <3>1, Zenon DEF H
  <2>9. FlattenSeq(t) = s \o FlattenSeq(ss)
    BY <1>2, <2>1, <2>8
  <2> QED
    BY <2>9 DEF t
<1> QED
  BY <1>3, <1>4

LEMMA FlattenNone == FlattenSeq(<<>>) = <<>>
BY DEF FlattenSeq

-----------------------------------------------------------------------------
(* Names and how they are encoded. *)

(* The labels of any name: the parser reads no other, DNS has no other.       *)
Part == {l \in Seq(Nat) : Len(l) \in 1 .. 63}

LowerEach(labels) == [j \in DOMAIN labels |-> LowerAll(labels[j])]

Prefixed(labels) == [j \in DOMAIN labels |-> <<Len(labels[j])>> \o labels[j]]

LEMMA Associative ==
  \A x, y, z \in Seq(Nat) : (x \o y) \o z = x \o (y \o z)
<1> SUFFICES ASSUME NEW x \in Seq(Nat), NEW y \in Seq(Nat), NEW z \in Seq(Nat)
             PROVE  (x \o y) \o z = x \o (y \o z)
  OBVIOUS
<1> QED
  BY SMTT(30)

LEMMA PartSeq ==
  ASSUME NEW ls \in Seq(Part)
  PROVE  ls \in Seq(Seq(Nat))
<1>1. Part \subseteq Seq(Nat)
  BY DEF Part
<1> QED
  BY <1>1, SeqMonotonic

LEMMA PrefixedType ==
  ASSUME NEW ls \in Seq(Seq(Nat))
  PROVE  /\ Prefixed(ls) \in Seq(Seq(Nat))
         /\ Len(Prefixed(ls)) = Len(ls)
         /\ \A j \in 1 .. Len(ls) : Prefixed(ls)[j] = <<Len(ls[j])>> \o ls[j]
<1>1. \A j \in 1 .. Len(ls) : <<Len(ls[j])>> \o ls[j] \in Seq(Nat)
  <2> SUFFICES ASSUME NEW j \in 1 .. Len(ls) PROVE <<Len(ls[j])>> \o ls[j] \in Seq(Nat)
    OBVIOUS
  <2>1. ls[j] \in Seq(Nat) /\ Len(ls[j]) \in Nat /\ <<Len(ls[j])>> \in Seq(Nat)
    OBVIOUS
  <2> QED
    BY <2>1, ConcatProperties
<1>2. DOMAIN ls = 1 .. Len(ls) /\ Len(ls) \in Nat
  OBVIOUS
<1>3. Prefixed(ls) = [j \in 1 .. Len(ls) |-> <<Len(ls[j])>> \o ls[j]]
  BY <1>2 DEF Prefixed
<1> HIDE DEF Prefixed
<1> QED
  BY <1>1, <1>2, <1>3

LEMMA EncodingType ==
  ASSUME NEW ls \in Seq(Seq(Nat))
  PROVE  Encoding(ls) \in Seq(Nat)
<1>1. FlattenSeq(Prefixed(ls)) \in Seq(Nat)
  BY PrefixedType, FlattenType
<1>2. Encoding(ls) = FlattenSeq(Prefixed(ls)) \o <<0>>
  BY DEF Encoding, Prefixed
<1>3. <<0>> \in Seq(Nat)
  OBVIOUS
<1> QED
  BY <1>1, <1>2, <1>3, ConcatProperties

LEMMA EncodingNone == Encoding(<<>>) = <<0>>
<1>1. Prefixed(<<>>) = <<>>
  BY DEF Prefixed
<1>2. Encoding(<<>>) = FlattenSeq(Prefixed(<<>>)) \o <<0>>
  BY DEF Encoding, Prefixed
<1> QED
  BY <1>1, <1>2, FlattenNone

(* A label goes before the encoding of the labels after it.                   *)
LEMMA EncodingCons ==
  ASSUME NEW l \in Seq(Nat), NEW ls \in Seq(Seq(Nat))
  PROVE  Encoding(<<l>> \o ls) = (<<Len(l)>> \o l) \o Encoding(ls)
<1> DEFINE t == <<l>> \o ls
           s == <<Len(l)>> \o l
<1>1. /\ t \in Seq(Seq(Nat)) /\ Len(t) = Len(ls) + 1 /\ t[1] = l
      /\ \A j \in 2 .. Len(t) : t[j] = ls[j - 1]
  OBVIOUS
<1>2. s \in Seq(Nat)
  OBVIOUS
<1>3. Prefixed(t) = <<s>> \o Prefixed(ls)
  <2> HIDE DEF t, s
  <2>1. /\ Prefixed(ls) \in Seq(Seq(Nat)) /\ Len(Prefixed(ls)) = Len(ls)
        /\ \A j \in 1 .. Len(ls) : Prefixed(ls)[j] = <<Len(ls[j])>> \o ls[j]
    BY PrefixedType
  <2>2. /\ Prefixed(t) \in Seq(Seq(Nat)) /\ Len(Prefixed(t)) = Len(t)
        /\ \A j \in 1 .. Len(t) : Prefixed(t)[j] = <<Len(t[j])>> \o t[j]
    BY <1>1, PrefixedType
  <2>3. /\ <<s>> \o Prefixed(ls) \in Seq(Seq(Nat))
        /\ Len(<<s>> \o Prefixed(ls)) = Len(ls) + 1
        /\ (<<s>> \o Prefixed(ls))[1] = s
        /\ \A j \in 2 .. Len(ls) + 1 : (<<s>> \o Prefixed(ls))[j] = Prefixed(ls)[j - 1]
    BY <1>2, <2>1
  <2>4. ASSUME NEW j \in 1 .. Len(t) PROVE Prefixed(t)[j] = (<<s>> \o Prefixed(ls))[j]
    <3>1. CASE j = 1
      BY <1>1, <2>2, <2>3, <3>1 DEF s
    <3>2. CASE j # 1
      <4>1. j \in 2 .. Len(t) /\ j - 1 \in 1 .. Len(ls) /\ j \in 2 .. Len(ls) + 1
        BY <1>1, <3>2
      <4> QED
        BY <1>1, <2>1, <2>2, <2>3, <4>1
    <3> QED
      BY <3>1, <3>2
  <2>5. /\ Len(Prefixed(t)) = Len(<<s>> \o Prefixed(ls))
        /\ \A j \in 1 .. Len(Prefixed(t)) : Prefixed(t)[j] = (<<s>> \o Prefixed(ls))[j]
    BY <1>1, <2>2, <2>3, <2>4
  <2> QED
    BY <2>2, <2>3, <2>5, SeqEqual, Zenon
<1>4. FlattenSeq(Prefixed(t)) = s \o FlattenSeq(Prefixed(ls))
  <2> HIDE DEF s, t
  <2> QED
    <3>1. s \in Seq(Nat) /\ Prefixed(ls) \in Seq(Seq(Nat))
      BY <1>2, PrefixedType
    <3>2. FlattenSeq(<<s>> \o Prefixed(ls)) = s \o FlattenSeq(Prefixed(ls))
      BY <3>1, FlattenCons, Zenon
    <3> QED
      BY <1>3, <3>2, Zenon
<1>5. FlattenSeq(Prefixed(ls)) \in Seq(Nat) /\ <<0>> \in Seq(Nat)
  BY PrefixedType, FlattenType
<1>6. /\ Encoding(t) = FlattenSeq(Prefixed(t)) \o <<0>>
      /\ Encoding(ls) = FlattenSeq(Prefixed(ls)) \o <<0>>
  BY DEF Encoding, Prefixed
<1>7. Encoding(t) = s \o Encoding(ls)
  <2> HIDE DEF s, t
  <2> QED
    BY <1>2, <1>4, <1>5, <1>6, ConcatAssociative
<1> QED
  BY <1>7

-----------------------------------------------------------------------------
(* What the parser reads at each position, from the last one back. *)

LEMMA NamesExist ==
  ASSUME NEW b \in Seq(Nat)
  PROVE  \E f : f = [p \in 1 .. Len(b) + 1 |-> ReadName(b, f, p)]
<1> DEFINE D(n) == Len(b) + 1 - n .. Len(b) + 1
           P(f, n) == f = [p \in D(n) |-> ReadName(b, f, p)]
           H(n) == n <= Len(b) => \E f : P(f, n)
<1>1. H(0)
  <2>1. P([p \in D(0) |-> NoName], 0)
    BY DEF ReadName
  <2> QED
    BY <2>1
<1>2. ASSUME NEW n \in Nat, H(n) PROVE H(n + 1)
  <2> SUFFICES ASSUME n < Len(b) PROVE \E f : P(f, n + 1)
    OBVIOUS
  <2>1. PICK f : f = [p \in D(n) |-> ReadName(b, f, p)]
    BY <1>2
  <2> DEFINE g == [p \in D(n + 1) |-> IF p \in D(n) THEN f[p] ELSE ReadName(b, f, p)]
  <2>2. D(n) \subseteq D(n + 1) /\ D(n + 1) \subseteq 1 .. Len(b) + 1
    OBVIOUS
  <2>3. ASSUME NEW p \in D(n + 1) PROVE ReadName(b, g, p) = ReadName(b, f, p)
    <3>1. p \in 1 .. Len(b) + 1
      BY <2>2
    <3>2. CASE p > Len(b) \/ b[p] = 0 \/ b[p] >= 64 \/ p + b[p] > Len(b)
      BY <3>2 DEF ReadName
    <3>3. CASE ~(p > Len(b) \/ b[p] = 0 \/ b[p] >= 64 \/ p + b[p] > Len(b))
      <4>1. b[p] \in Nat /\ b[p] # 0
        BY <3>1, <3>3
      <4>2. p + b[p] + 1 \in D(n)
        <5> DEFINE w == b[p]
                   k == Len(b)
        <5>1. w \in Nat /\ w # 0 /\ p + w <= k /\ k \in Nat
          BY <3>3, <4>1
        <5>2. p \in k + 1 - (n + 1) .. k + 1
          OBVIOUS
        <5> HIDE DEF w, k
        <5>3. p + w + 1 \in k + 1 - n .. k + 1
          BY <5>1, <5>2
        <5> QED
          BY <5>3 DEF w, k
      <4>3. g[p + b[p] + 1] = f[p + b[p] + 1]
        BY <2>2, <4>2
      <4> HIDE DEF g
      <4> QED
        BY <3>3, <4>3 DEF ReadName
    <3> QED
      BY <3>2, <3>3
  <2>4. ASSUME NEW p \in D(n + 1) PROVE g[p] = ReadName(b, g, p)
    BY <2>1, <2>3
  <2>5. P(g, n + 1)
    BY <2>4
  <2> HIDE DEF P, g
  <2> QED
    BY <2>5
<1> HIDE DEF H
<1> DEFINE T == {n \in Nat : H(n)}
<1>3. T \in SUBSET Nat /\ 0 \in T /\ \A n \in T : n + 1 \in T
  BY <1>1, <1>2
<1>4. T = Nat
  <2> HIDE DEF T
  <2> QED
    BY <1>3, Induction
<1>5. Len(b) \in Nat /\ D(Len(b)) = 1 .. Len(b) + 1
  OBVIOUS
<1>6. H(Len(b))
  BY <1>4, <1>5
<1> QED
  BY <1>5, <1>6 DEF H

LEMMA NameAt ==
  ASSUME NEW b \in Seq(Nat), NEW p \in 1 .. Len(b) + 1
  PROVE  NamesFrom(b)[p] = ReadName(b, NamesFrom(b), p)
<1>1. NamesFrom(b) = [q \in 1 .. Len(b) + 1 |-> ReadName(b, NamesFrom(b), q)]
  BY NamesExist, Zenon DEF NamesFrom
<1> QED
  BY <1>1, Zenon

LEMMA ByteOf ==
  ASSUME NEW b \in Seq(Nat), NEW p \in 1 .. Len(b)
  PROVE  b[p] \in Nat
OBVIOUS

LEMMA LowerNat ==
  ASSUME NEW c \in Nat
  PROVE  Lower(c) \in Nat
BY DEF Lower

(* A label as it is stored. *)
LEMMA LabelRead ==
  ASSUME NEW b \in Seq(Nat), NEW p \in Nat, NEW n \in 1 .. 63, p + n <= Len(b)
  PROVE  LET label == [j \in 1 .. n |-> Lower(b[p + j])]
         IN /\ label \in Part /\ Len(label) = n
            /\ \A j \in 1 .. n : label[j] = Lower(b[p + j])
<1> DEFINE label == [j \in 1 .. n |-> Lower(b[p + j])]
<1>1. ASSUME NEW j \in 1 .. n PROVE Lower(b[p + j]) \in Nat
  <2>1. p + j \in 1 .. Len(b)
    OBVIOUS
  <2> QED
    BY <2>1, ByteOf, LowerNat
<1>2. label \in Seq(Nat) /\ Len(label) = n
  BY <1>1
<1> QED
  BY <1>2 DEF Part

LEMMA LowerAllType ==
  ASSUME NEW s \in Seq(Nat)
  PROVE  /\ LowerAll(s) \in Seq(Nat) /\ Len(LowerAll(s)) = Len(s)
         /\ \A j \in 1 .. Len(s) : LowerAll(s)[j] = Lower(s[j])
<1>1. DOMAIN s = 1 .. Len(s) /\ Len(s) \in Nat
  OBVIOUS
<1>2. \A j \in 1 .. Len(s) : Lower(s[j]) \in Nat
  BY ByteOf, LowerNat
<1>3. LowerAll(s) = [j \in 1 .. Len(s) |-> Lower(s[j])]
  BY <1>1 DEF LowerAll
<1> QED
  BY <1>1, <1>2, <1>3

LEMMA LowerConcat ==
  ASSUME NEW s \in Seq(Nat), NEW t \in Seq(Nat)
  PROVE  LowerAll(s \o t) = LowerAll(s) \o LowerAll(t)
<1> DEFINE u == s \o t
           ls == LowerAll(s)
           lt == LowerAll(t)
           lu == LowerAll(u)
<1>1. /\ u \in Seq(Nat) /\ Len(u) = Len(s) + Len(t)
      /\ \A i \in 1 .. Len(s) + Len(t) : u[i] = IF i <= Len(s) THEN s[i] ELSE t[i - Len(s)]
  BY ConcatProperties
<1> HIDE DEF u
<1>2. /\ ls \in Seq(Nat) /\ Len(ls) = Len(s) /\ \A i \in 1 .. Len(s) : ls[i] = Lower(s[i])
      /\ lt \in Seq(Nat) /\ Len(lt) = Len(t) /\ \A i \in 1 .. Len(t) : lt[i] = Lower(t[i])
      /\ lu \in Seq(Nat) /\ Len(lu) = Len(u) /\ \A i \in 1 .. Len(u) : lu[i] = Lower(u[i])
  BY <1>1, LowerAllType
<1> HIDE DEF ls, lt, lu
<1>3. /\ ls \o lt \in Seq(Nat) /\ Len(ls \o lt) = Len(ls) + Len(lt)
      /\ \A i \in 1 .. Len(ls) + Len(lt) :
           (ls \o lt)[i] = IF i <= Len(ls) THEN ls[i] ELSE lt[i - Len(ls)]
  <2>1. ls \in Seq(Nat) /\ lt \in Seq(Nat)
    BY <1>2
  <2> QED
    BY <2>1, ConcatProperties, Zenon
<1>4. Len(lu) = Len(ls \o lt) /\ Len(s) \in Nat /\ Len(t) \in Nat
  BY <1>1, <1>2, <1>3
<1>5. ASSUME NEW i \in 1 .. Len(lu) PROVE lu[i] = (ls \o lt)[i]
  <2> DEFINE x == ls \o lt
             n == Len(s)
             k == Len(t)
  <2>0. /\ n \in Nat /\ k \in Nat /\ i \in 1 .. n + k
        /\ lu[i] = Lower(u[i]) /\ u[i] = IF i <= n THEN s[i] ELSE t[i - n]
        /\ x[i] = IF i <= n THEN ls[i] ELSE lt[i - n]
    BY <1>1, <1>2, <1>3, <1>4
  <2>3. /\ \A j \in 1 .. n : ls[j] = Lower(s[j])
        /\ \A j \in 1 .. k : lt[j] = Lower(t[j])
    BY <1>2
  <2> HIDE DEF x, n, k
  <2>1. CASE i <= n
    <3>1. i \in 1 .. n
      BY <2>0, <2>1
    <3> QED
      BY <2>0, <2>1, <2>3, <3>1 DEF x
  <2>2. CASE ~(i <= n)
    <3>1. i - n \in 1 .. k
      BY <2>0, <2>2
    <3> QED
      BY <2>0, <2>2, <2>3, <3>1 DEF x
  <2> QED
    BY <2>1, <2>2
<1>6. lu = ls \o lt
  BY <1>2, <1>3, <1>4, <1>5, SeqEqual, Zenon
<1> QED
  BY <1>6 DEF lu, ls, lt, u

(* A label and its length, in lower case: a length is no upper-case letter.   *)
LEMMA LowerLabel ==
  ASSUME NEW b \in Seq(Nat), NEW p \in 1 .. Len(b), NEW w \in 1 .. 63, b[p] = w,
         p + w <= Len(b), NEW label \in Seq(Nat), Len(label) = w,
         \A j \in 1 .. w : label[j] = Lower(b[p + j])
  PROVE  <<w>> \o label = LowerAll(SubSeq(b, p, p + w))
<1> DEFINE s == SubSeq(b, p, p + w)
           h == <<w>> \o label
           l == LowerAll(s)
<1>1. \A i \in p .. p + w : b[i] \in Nat
  BY ByteOf
<1>2. /\ s \in Seq(Nat) /\ Len(s) = w + 1
      /\ \A i \in 1 .. w + 1 : s[i] = b[p + i - 1]
  <2>1. p \in Int /\ p + w \in Int /\ p <= p + w /\ (p + w) - p + 1 = w + 1
    OBVIOUS
  <2> QED
    BY <1>1, <2>1, SubSeqProperties
<1> HIDE DEF s
<1>3. /\ l \in Seq(Nat) /\ Len(l) = w + 1
      /\ \A i \in 1 .. w + 1 : l[i] = Lower(s[i])
  BY <1>2, LowerAllType
<1>4. /\ h \in Seq(Nat) /\ Len(h) = w + 1 /\ h[1] = w
      /\ \A i \in 2 .. w + 1 : h[i] = label[i - 1]
  <2>1. <<w>> \in Seq(Nat) /\ Len(<<w>>) = 1 /\ <<w>>[1] = w
    OBVIOUS
  <2>2. /\ h \in Seq(Nat) /\ Len(h) = Len(<<w>>) + Len(label)
        /\ \A i \in 1 .. Len(<<w>>) + Len(label) :
             h[i] = IF i <= Len(<<w>>) THEN <<w>>[i] ELSE label[i - Len(<<w>>)]
    BY <2>1, ConcatProperties, Zenon
  <2> HIDE DEF h
  <2> QED
    BY <2>1, <2>2
<1> HIDE DEF h, l
<1>5. ASSUME NEW i \in 1 .. w + 1 PROVE h[i] = l[i]
  <2>1. CASE i = 1
    <3>1. s[1] = w
      BY <1>2
    <3>2. Lower(w) = w
      <4>1. w \in Nat /\ ~(65 <= w)
        OBVIOUS
      <4>2. w \notin 65 .. 90
        BY <4>1
      <4> QED
        BY <4>2, Zenon DEF Lower
    <3> QED
      BY <1>3, <1>4, <2>1, <3>1, <3>2
  <2>2. CASE i \in 2 .. w + 1
    <3>1. i - 1 \in 1 .. w /\ p + (i - 1) = p + i - 1
      BY <2>2
    <3> QED
      BY <1>2, <1>3, <1>4, <2>2, <3>1
  <2> QED
    BY <2>1, <2>2
<1>6. h = l
  BY <1>3, <1>4, <1>5, SeqEqual
<1> QED
  BY <1>6 DEF h, l, s

(* What is read as a name is one: labels, and the bytes that encode them.     *)
Sound(b, p) ==
  LET r == NamesFrom(b)[p]
  IN /\ r.ok \in BOOLEAN
     /\ r.labels \in Seq(Part)
     /\ r.ok => /\ r.next \in p + 1 .. Len(b) + 1
                /\ Encoding(r.labels) = LowerAll(SubSeq(b, p, r.next - 1))

LEMMA SoundStep ==
  ASSUME NEW b \in Seq(Nat), NEW p \in 1 .. Len(b) + 1,
         \A q \in p + 1 .. Len(b) + 1 : Sound(b, q)
  PROVE  Sound(b, p)
<1> DEFINE r == NamesFrom(b)[p]
<1>1. r = ReadName(b, NamesFrom(b), p)
  BY NameAt
<1>2. CASE p > Len(b)
  <2>1. r = NoName
    BY <1>1, <1>2 DEF ReadName
  <2> QED
    BY <2>1 DEF Sound, NoName
<1>3. CASE p <= Len(b) /\ b[p] = 0
  <2>1. r = [ok |-> TRUE, labels |-> <<>>, next |-> p + 1]
    BY <1>1, <1>3 DEF ReadName
  <2>2. SubSeq(b, p, p) \in Seq(Nat) /\ Len(SubSeq(b, p, p)) = 1 /\ SubSeq(b, p, p)[1] = 0
    BY <1>3
  <2>3. LowerAll(SubSeq(b, p, p)) = <<0>>
    <3> DEFINE s == SubSeq(b, p, p)
    <3> HIDE DEF s
    <3>1. s \in Seq(Nat) /\ Len(s) = 1 /\ s[1] = 0
      BY <2>2 DEF s
    <3>2. Lower(0) = 0
      BY DEF Lower
    <3> DEFINE l == LowerAll(s)
    <3>3. l \in Seq(Nat) /\ Len(l) = Len(s) /\ \A j \in 1 .. Len(s) : l[j] = Lower(s[j])
      BY <3>1, LowerAllType
    <3> HIDE DEF l
    <3>4. 1 \in 1 .. Len(s)
      BY <3>1
    <3>5. l = <<0>>
      BY <3>1, <3>2, <3>3, <3>4
    <3> QED
      BY <3>5 DEF s, l
  <2> QED
    BY <2>1, <2>3, <1>3, EncodingNone DEF Sound
<1>4. CASE p <= Len(b) /\ b[p] # 0 /\ (b[p] >= 64 \/ p + b[p] > Len(b))
  <2>1. r = NoName
    BY <1>1, <1>4 DEF ReadName
  <2> QED
    BY <2>1 DEF Sound, NoName
<1>5. CASE p <= Len(b) /\ b[p] # 0 /\ ~(b[p] >= 64 \/ p + b[p] > Len(b))
  <2> DEFINE w == b[p]
             label == [j \in 1 .. w |-> Lower(b[p + j])]
             q == p + w + 1
             rest == NamesFrom(b)[q]
  <2>1. r = [ok |-> rest.ok, labels |-> <<label>> \o rest.labels, next |-> rest.next]
    BY <1>1, <1>5 DEF ReadName
  <2>2. p \in 1 .. Len(b) /\ w \in Nat
    BY <1>5, ByteOf
  <2>3. b[p] = w /\ w # 0 /\ ~(w >= 64 \/ p + w > Len(b))
    BY <1>5
  <2> HIDE DEF w
  <2>4. w \in 1 .. 63 /\ p + w <= Len(b) /\ p \in Nat /\ Len(b) \in Nat
    BY <2>2, <2>3
  <2>5. /\ label \in Part /\ label \in Seq(Nat) /\ Len(label) = w
        /\ \A j \in 1 .. w : label[j] = Lower(b[p + j])
    <3>1. /\ label \in Part /\ Len(label) = w
          /\ \A j \in 1 .. w : label[j] = Lower(b[p + j])
      BY <2>4, LabelRead, Zenon
    <3> HIDE DEF label
    <3>2. label \in Seq(Nat)
      BY <3>1, Zenon DEF Part
    <3> QED
      BY <3>1, <3>2, Zenon
  <2> HIDE DEF label
  <2>6. q \in p + 1 .. Len(b) + 1 /\ q = p + w + 1
    BY <2>4
  <2> HIDE DEF q
  <2>7. Sound(b, q)
    BY <2>6, Zenon
  <2> HIDE DEF rest
  <2>8. /\ rest.ok \in BOOLEAN /\ rest.labels \in Seq(Part)
        /\ rest.ok => /\ rest.next \in q + 1 .. Len(b) + 1
                      /\ Encoding(rest.labels) = LowerAll(SubSeq(b, q, rest.next - 1))
    BY <2>7, Zenon DEF Sound, rest
  <2>9. <<label>> \o rest.labels \in Seq(Part)
    BY <2>5, <2>8
  <2>10. ASSUME rest.ok
         PROVE  /\ rest.next \in p + 1 .. Len(b) + 1
                /\ Encoding(<<label>> \o rest.labels) = LowerAll(SubSeq(b, p, rest.next - 1))
    <3> DEFINE n == rest.next - 1
    <3>1. rest.next \in q + 1 .. Len(b) + 1 /\ Encoding(rest.labels) = LowerAll(SubSeq(b, q, n))
      BY <2>8, <2>10
    <3>2. n \in q .. Len(b) /\ rest.next \in p + 1 .. Len(b) + 1
      BY <2>6, <3>1
    <3> HIDE DEF n
    <3>3. SubSeq(b, p, p + w) \in Seq(Nat) /\ SubSeq(b, q, n) \in Seq(Nat)
      <4>1. \A i \in 1 .. Len(b) : b[i] \in Nat
        BY ByteOf
      <4>2. /\ p \in Int /\ p + w \in Int /\ q \in Int /\ n \in Int
            /\ p .. p + w \subseteq 1 .. Len(b) /\ q .. n \subseteq 1 .. Len(b)
        BY <2>2, <2>4, <2>6, <3>2
      <4> QED
        BY <4>1, <4>2, SubSeqProperties
    <3>4. <<w>> \o label = LowerAll(SubSeq(b, p, p + w))
      BY <2>2, <2>3, <2>4, <2>5, LowerLabel
    <3>5. SubSeq(b, p, p + w) \o SubSeq(b, q, n) = SubSeq(b, p, n)
      <4>1. /\ p \in 1 .. Len(b) + 1 /\ p + w \in p - 1 .. Len(b) /\ n \in p + w .. Len(b)
            /\ (p + w) + 1 = q
        BY <2>2, <2>4, <2>6, <3>2
      <4> QED
        BY <4>1, ConcatAdjacentSubSeq
    <3>6. Encoding(<<label>> \o rest.labels) = (<<Len(label)>> \o label) \o Encoding(rest.labels)
      BY <2>5, <2>8, EncodingCons, PartSeq
    <3>7. Encoding(<<label>> \o rest.labels) = LowerAll(SubSeq(b, p, n))
      BY <2>5, <3>1, <3>3, <3>4, <3>5, <3>6, LowerConcat, Zenon
    <3> QED
      BY <3>2, <3>7 DEF n
  <2>11. r.ok = rest.ok /\ r.labels = <<label>> \o rest.labels /\ r.next = rest.next
    BY <2>1
  <2> QED
    BY <2>8, <2>9, <2>10, <2>11 DEF Sound
<1> QED
  BY <1>2, <1>3, <1>4, <1>5

LEMMA AllSound ==
  ASSUME NEW b \in Seq(Nat), NEW p \in 1 .. Len(b) + 1
  PROVE  Sound(b, p)
<1> DEFINE H(n) == \A q \in Len(b) + 1 - n .. Len(b) + 1 : q >= 1 => Sound(b, q)
<1>0. Len(b) \in Nat
  OBVIOUS
<1>1. H(0)
  <2> SUFFICES ASSUME NEW q \in Len(b) + 1 - 0 .. Len(b) + 1 PROVE Sound(b, q)
    OBVIOUS
  <2>1. q \in 1 .. Len(b) + 1 /\ \A x \in q + 1 .. Len(b) + 1 : Sound(b, x)
    BY <1>0
  <2> QED
    BY <2>1, SoundStep
<1>2. ASSUME NEW n \in Nat, H(n) PROVE H(n + 1)
  <2> SUFFICES ASSUME NEW q \in Len(b) + 1 - (n + 1) .. Len(b) + 1, q >= 1 PROVE Sound(b, q)
    OBVIOUS
  <2>1. CASE q \in Len(b) + 1 - n .. Len(b) + 1
    BY <1>2, <2>1
  <2>2. CASE q \notin Len(b) + 1 - n .. Len(b) + 1
    <3>1. q = Len(b) - n /\ q \in 1 .. Len(b) + 1
      BY <1>0, <2>2
    <3>2. \A x \in q + 1 .. Len(b) + 1 : x \in Len(b) + 1 - n .. Len(b) + 1 /\ x >= 1
      BY <1>0, <3>1
    <3>3. \A x \in q + 1 .. Len(b) + 1 : Sound(b, x)
      BY <1>2, <3>2
    <3> QED
      BY <3>1, <3>3, SoundStep
  <2> QED
    BY <2>1, <2>2
<1> HIDE DEF H
<1> DEFINE T == {n \in Nat : H(n)}
<1>3. T \in SUBSET Nat /\ 0 \in T /\ \A n \in T : n + 1 \in T
  BY <1>1, <1>2
<1>4. T = Nat
  <2> HIDE DEF T
  <2> QED
    BY <1>3, Induction
<1>5. H(Len(b))
  BY <1>0, <1>4
<1>6. p \in Len(b) + 1 - Len(b) .. Len(b) + 1 /\ p >= 1
  BY <1>0
<1> QED
  BY <1>5, <1>6 DEF H

(* A well-formed name is read to its end, wherever it stands.                  *)
LEMMA LowerEachType ==
  ASSUME NEW ls \in Seq(Part)
  PROVE  /\ LowerEach(ls) \in Seq(Part)
         /\ Len(LowerEach(ls)) = Len(ls)
         /\ \A j \in 1 .. Len(ls) : LowerEach(ls)[j] = LowerAll(ls[j])
<1>1. DOMAIN ls = 1 .. Len(ls) /\ Len(ls) \in Nat
  OBVIOUS
<1>2. ASSUME NEW j \in 1 .. Len(ls) PROVE LowerAll(ls[j]) \in Part
  <2>1. ls[j] \in Part
    OBVIOUS
  <2> DEFINE l == ls[j]
  <2> HIDE DEF l
  <2>2. l \in Seq(Nat) /\ Len(l) \in 1 .. 63
    BY <2>1 DEF Part, l
  <2>3. LowerAll(l) \in Seq(Nat) /\ Len(LowerAll(l)) = Len(l)
    BY <2>2, LowerAllType
  <2>4. LowerAll(l) \in Part
    BY <2>2, <2>3 DEF Part
  <2> QED
    BY <2>4 DEF l
<1>3. LowerEach(ls) = [j \in 1 .. Len(ls) |-> LowerAll(ls[j])]
  BY <1>1 DEF LowerEach
<1> QED
  BY <1>1, <1>2, <1>3

LEMMA LowerEachCons ==
  ASSUME NEW l \in Part, NEW ls \in Seq(Part)
  PROVE  LowerEach(<<l>> \o ls) = <<LowerAll(l)>> \o LowerEach(ls)
<1> DEFINE t == <<l>> \o ls
           e == <<LowerAll(l)>> \o LowerEach(ls)
<1>1. /\ t \in Seq(Part) /\ Len(t) = Len(ls) + 1 /\ t[1] = l
      /\ \A j \in 2 .. Len(t) : t[j] = ls[j - 1]
  OBVIOUS
<1> HIDE DEF t
<1>2. /\ LowerEach(t) \in Seq(Part) /\ Len(LowerEach(t)) = Len(t)
      /\ \A j \in 1 .. Len(t) : LowerEach(t)[j] = LowerAll(t[j])
  BY <1>1, LowerEachType
<1>3. /\ LowerEach(ls) \in Seq(Part) /\ Len(LowerEach(ls)) = Len(ls)
      /\ \A j \in 1 .. Len(ls) : LowerEach(ls)[j] = LowerAll(ls[j])
  BY LowerEachType
<1>4. LowerAll(l) \in Part
  <2>1. l \in Seq(Nat) /\ Len(l) \in 1 .. 63
    BY DEF Part
  <2>2. LowerAll(l) \in Seq(Nat) /\ Len(LowerAll(l)) = Len(l)
    BY <2>1, LowerAllType
  <2> QED
    BY <2>1, <2>2 DEF Part
<1>5. /\ e \in Seq(Part) /\ Len(e) = Len(ls) + 1 /\ e[1] = LowerAll(l)
      /\ \A j \in 2 .. Len(e) : e[j] = LowerEach(ls)[j - 1]
  BY <1>3, <1>4
<1> HIDE DEF e
<1>6. ASSUME NEW j \in 1 .. Len(LowerEach(t)) PROVE LowerEach(t)[j] = e[j]
  <2>1. CASE j = 1
    BY <1>1, <1>2, <1>5, <2>1
  <2>2. CASE j # 1
    <3>1. j \in 2 .. Len(t) /\ j \in 2 .. Len(e) /\ j \in 1 .. Len(t) /\ j - 1 \in 1 .. Len(ls)
      BY <1>1, <1>2, <1>5, <2>2
    <3> QED
      BY <1>1, <1>2, <1>3, <1>5, <3>1
  <2> QED
    BY <2>1, <2>2
<1>7. LowerEach(t) \in Seq(Part) /\ e \in Seq(Part) /\ Len(LowerEach(t)) = Len(e)
  BY <1>1, <1>2, <1>5
<1>8. LowerEach(t) = e
  BY <1>6, <1>7, SeqEqual, Zenon
<1> QED
  BY <1>8 DEF t, e

(* Any sequence of labels is empty or a label before others.                   *)
LEMMA FirstLabel ==
  ASSUME NEW ls \in Seq(Part), ls # <<>>
  PROVE  \E l \in Part, r \in Seq(Part) : ls = <<l>> \o r /\ Len(r) + 1 = Len(ls)
<1>1. /\ Head(ls) \in Part /\ Tail(ls) \in Seq(Part) /\ Len(Tail(ls)) = Len(ls) - 1
      /\ \A i \in 1 .. Len(Tail(ls)) : Tail(ls)[i] = ls[i + 1]
  BY HeadTailProperties
<1>2. Head(ls) = ls[1] /\ Len(ls) \in Nat
  OBVIOUS
<1> DEFINE l == Head(ls)
           r == Tail(ls)
           t == <<l>> \o r
<1> HIDE DEF l, r
<1>3. /\ l \in Part /\ r \in Seq(Part) /\ Len(r) + 1 = Len(ls) /\ l = ls[1]
      /\ \A i \in 1 .. Len(r) : r[i] = ls[i + 1]
  BY <1>1, <1>2 DEF l, r
<1>4. /\ t \in Seq(Part) /\ Len(t) = Len(r) + 1 /\ t[1] = l
      /\ \A j \in 2 .. Len(t) : t[j] = r[j - 1]
  BY <1>3
<1> HIDE DEF t
<1>5. ASSUME NEW j \in 1 .. Len(ls) PROVE ls[j] = t[j]
  <2>1. CASE j = 1
    BY <1>3, <1>4, <2>1
  <2>2. CASE j # 1
    <3>1. j - 1 \in 1 .. Len(r) /\ (j - 1) + 1 = j /\ j \in 2 .. Len(t)
      BY <1>3, <1>4, <2>2
    <3> QED
      BY <1>3, <1>4, <3>1
  <2> QED
    BY <2>1, <2>2
<1>6. ls = t
  <2>1. Len(ls) = Len(t)
    BY <1>3, <1>4
  <2> QED
    BY <1>4, <1>5, <2>1, SeqEqual, Zenon
<1> QED
  BY <1>3, <1>6 DEF t

ReadsAs(ls) ==
  \A pre, tail \in Seq(Nat) :
    NamesFrom(pre \o (Encoding(ls) \o tail))[Len(pre) + 1]
      = [ok |-> TRUE, labels |-> LowerEach(ls), next |-> Len(pre) + Len(Encoding(ls)) + 1]

LEMMA RootReads == ReadsAs(<<>>)
<1> SUFFICES ASSUME NEW pre \in Seq(Nat), NEW tail \in Seq(Nat)
             PROVE  NamesFrom(pre \o (Encoding(<<>>) \o tail))[Len(pre) + 1]
                      = [ok |-> TRUE, labels |-> LowerEach(<<>>),
                         next |-> Len(pre) + Len(Encoding(<<>>)) + 1]
  BY DEF ReadsAs
<1> DEFINE z == <<0>> \o tail
           b == pre \o z
           p == Len(pre) + 1
<1>1. z \in Seq(Nat) /\ Len(z) = 1 + Len(tail) /\ z[1] = 0
  OBVIOUS
<1> HIDE DEF z
<1>2. /\ b \in Seq(Nat) /\ Len(b) = Len(pre) + Len(z)
      /\ \A i \in 1 .. Len(pre) + Len(z) : b[i] = IF i <= Len(pre) THEN pre[i] ELSE z[i - Len(pre)]
  <2>1. z \in Seq(Nat)
    BY <1>1
  <2> QED
    BY <2>1, ConcatProperties, Zenon
<1> HIDE DEF b
<1>3. p \in 1 .. Len(b) + 1 /\ ~(p > Len(b)) /\ b[p] = 0
  <2>1. Len(pre) \in Nat /\ Len(tail) \in Nat
    OBVIOUS
  <2>2. p \in 1 .. Len(pre) + Len(z) /\ ~(p <= Len(pre)) /\ p - Len(pre) = 1
    BY <1>1, <2>1
  <2>3. Len(b) + 1 \in Nat /\ p <= Len(b)
    BY <1>1, <1>2, <2>1
  <2>4. b[p] = z[p - Len(pre)]
    BY <1>2, <2>2
  <2> QED
    BY <1>1, <2>1, <2>2, <2>3, <2>4
<1>4. NamesFrom(b)[p] = [ok |-> TRUE, labels |-> <<>>, next |-> p + 1]
  BY <1>2, <1>3, NameAt DEF ReadName
<1>5. LowerEach(<<>>) = <<>> /\ Len(<<0>>) = 1
  BY DEF LowerEach
<1>6. Len(pre) \in Nat
  OBVIOUS
<1>7. p + 1 = Len(pre) + 1 + 1
  OBVIOUS
<1> QED
  BY <1>4, <1>5, <1>7, EncodingNone DEF b, z

LEMMA LabelReads ==
  ASSUME NEW l \in Part, NEW r \in Seq(Part), ReadsAs(r)
  PROVE  ReadsAs(<<l>> \o r)
<1> SUFFICES ASSUME NEW pre \in Seq(Nat), NEW tail \in Seq(Nat)
             PROVE  NamesFrom(pre \o (Encoding(<<l>> \o r) \o tail))[Len(pre) + 1]
                      = [ok |-> TRUE, labels |-> LowerEach(<<l>> \o r),
                         next |-> Len(pre) + Len(Encoding(<<l>> \o r)) + 1]
  BY DEF ReadsAs
<1> DEFINE w == Len(l)
           s == <<w>> \o l
           er == Encoding(r)
           b == pre \o ((s \o er) \o tail)
           p == Len(pre) + 1
           q == p + w + 1
<1>1. l \in Seq(Nat) /\ w \in 1 .. 63 /\ r \in Seq(Seq(Nat)) /\ er \in Seq(Nat)
  BY PartSeq, EncodingType DEF Part
<1>2. Encoding(<<l>> \o r) = s \o er
  BY <1>1, EncodingCons
<1> HIDE DEF w, er
<1>3. /\ s \in Seq(Nat) /\ Len(s) = w + 1 /\ s[1] = w
      /\ \A j \in 1 .. w : s[j + 1] = l[j]
  <2>1. <<w>> \in Seq(Nat) /\ Len(<<w>>) = 1 /\ <<w>>[1] = w /\ Len(l) = w
    BY <1>1 DEF w
  <2>2. /\ s \in Seq(Nat) /\ Len(s) = Len(<<w>>) + Len(l)
        /\ \A i \in 1 .. Len(<<w>>) + Len(l) :
             s[i] = IF i <= Len(<<w>>) THEN <<w>>[i] ELSE l[i - Len(<<w>>)]
    <3>1. <<w>> \in Seq(Nat) /\ l \in Seq(Nat)
      BY <1>1, <2>1
    <3> QED
      BY <3>1, ConcatProperties, Zenon
  <2> HIDE DEF s
  <2> QED
    BY <1>1, <2>1, <2>2
<1> HIDE DEF s
<1>4. /\ er \o tail \in Seq(Nat) /\ s \o er \in Seq(Nat) /\ pre \o s \in Seq(Nat)
      /\ Len(er \o tail) = Len(er) + Len(tail) /\ Len(s \o er) = Len(s) + Len(er)
      /\ Len(pre \o s) = Len(pre) + Len(s)
  BY <1>1, <1>3, ConcatProperties
<1>5. b = pre \o (s \o (er \o tail)) /\ b = (pre \o s) \o (er \o tail)
  <2>1. (s \o er) \o tail = s \o (er \o tail)
    <3>1. s \in Seq(Nat) /\ er \in Seq(Nat) /\ tail \in Seq(Nat)
      BY <1>1, <1>3
    <3> QED
      BY <3>1, Associative
  <2>2. (pre \o s) \o (er \o tail) = pre \o (s \o (er \o tail))
    <3>1. pre \in Seq(Nat) /\ s \in Seq(Nat) /\ er \o tail \in Seq(Nat)
      BY <1>3, <1>4
    <3> QED
      BY <3>1, Associative
  <2> QED
    BY <2>1, <2>2, Zenon
<1>6. /\ b \in Seq(Nat) /\ Len(b) = Len(pre) + Len(s) + Len(er) + Len(tail)
      /\ \A j \in 1 .. Len(s) : b[Len(pre) + j] = s[j]
  <2> HIDE DEF b
  <2> DEFINE h == pre \o s
             t == er \o tail
  <2>1. \A j \in 1 .. Len(s) : h[Len(pre) + j] = s[j]
    BY <1>3
  <2> HIDE DEF h, t
  <2>2. h \in Seq(Nat) /\ t \in Seq(Nat) /\ Len(h) = Len(pre) + Len(s)
        /\ Len(t) = Len(er) + Len(tail)
    BY <1>4 DEF h, t
  <2>3. b = h \o t
    BY <1>5 DEF h, t
  <2>4. /\ b \in Seq(Nat) /\ Len(b) = Len(h) + Len(t)
        /\ \A i \in 1 .. Len(h) + Len(t) : b[i] = IF i <= Len(h) THEN h[i] ELSE t[i - Len(h)]
    <3>1. h \in Seq(Nat) /\ t \in Seq(Nat)
      BY <2>2
    <3> QED
      BY <2>3, <3>1, ConcatProperties, Zenon
  <2>5. Len(pre) \in Nat /\ Len(s) \in Nat /\ Len(t) \in Nat /\ Len(er) \in Nat /\ Len(tail) \in Nat
    <3>1. \A x \in Seq(Nat) : Len(x) \in Nat
      OBVIOUS
    <3>2. s \in Seq(Nat) /\ er \in Seq(Nat)
      BY <1>1, <1>3
    <3> QED
      BY <2>2, <3>1, <3>2
  <2>6. \A j \in 1 .. Len(s) : Len(pre) + j \in 1 .. Len(h) + Len(t) /\ Len(pre) + j <= Len(h)
    <3>1. \A x, y, z \in Nat : \A j \in 1 .. y : x + j \in 1 .. (x + y) + z /\ x + j <= x + y
      OBVIOUS
    <3>2. Len(h) = Len(pre) + Len(s)
      BY <2>2
    <3> QED
      BY <2>5, <3>1, <3>2, Zenon
  <2> QED
    BY <2>1, <2>2, <2>4, <2>5, <2>6
<1> HIDE DEF b
<1>7. /\ p \in 1 .. Len(b) /\ p + w <= Len(b) /\ b[p] = w
      /\ \A j \in 1 .. w : b[p + j] = l[j]
      /\ q = Len(pre \o s) + 1
  <2>1. /\ Len(pre) \in Nat /\ Len(s) = w + 1 /\ w \in 1 .. 63
        /\ Len(er) \in Nat /\ Len(tail) \in Nat
    BY <1>1, <1>3
  <2>2. p \in 1 .. Len(b) /\ p + w <= Len(b) /\ q = Len(pre \o s) + 1
    <3>1. Len(b) = Len(pre) + Len(s) + Len(er) + Len(tail) /\ Len(pre \o s) = Len(pre) + Len(s)
      BY <1>4, <1>6
    <3> QED
      BY <2>1, <3>1
  <2>3. b[p] = w
    <3>1. 1 \in 1 .. Len(s)
      BY <2>1
    <3> QED
      BY <1>3, <1>6, <3>1
  <2>4. ASSUME NEW j \in 1 .. w PROVE b[p + j] = l[j]
    <3>1. j + 1 \in 1 .. Len(s) /\ Len(pre) + (j + 1) = p + j
      BY <2>1
    <3>2. b[Len(pre) + (j + 1)] = s[j + 1]
      BY <1>6, <3>1
    <3> QED
      BY <1>3, <3>1, <3>2
  <2> QED
    BY <2>2, <2>3, <2>4
<1> DEFINE rest == NamesFrom(b)[q]
           label == [j \in 1 .. b[p] |-> Lower(b[p + j])]
<1>8. rest = [ok |-> TRUE, labels |-> LowerEach(r), next |-> Len(pre \o s) + Len(er) + 1]
  <2>1. NamesFrom((pre \o s) \o (Encoding(r) \o tail))[Len(pre \o s) + 1]
          = [ok |-> TRUE, labels |-> LowerEach(r), next |-> Len(pre \o s) + Len(Encoding(r)) + 1]
    BY <1>4, Zenon DEF ReadsAs
  <2>2. b = (pre \o s) \o (Encoding(r) \o tail) /\ er = Encoding(r)
    BY <1>5 DEF er
  <2> HIDE DEF p, q
  <2> QED
    BY <1>7, <2>1, <2>2, Zenon
<1>9. label = LowerAll(l)
  <2>1. DOMAIN l = 1 .. w
    BY <1>1 DEF w
  <2> QED
    BY <1>7, <2>1 DEF LowerAll
<1>10. NamesFrom(b)[p] = [ok |-> rest.ok, labels |-> <<label>> \o rest.labels, next |-> rest.next]
  <2> HIDE DEF q
  <2>1. p \in 1 .. Len(b) + 1 /\ ~(p > Len(b)) /\ b[p] # 0 /\ ~(b[p] >= 64 \/ p + b[p] > Len(b))
        /\ p + b[p] + 1 = q
    <3>1. Len(b) \in Nat
      BY <1>6
    <3> QED
      BY <1>1, <1>7, <3>1 DEF q
  <2>2. NamesFrom(b)[p] = ReadName(b, NamesFrom(b), p)
    BY <1>6, <2>1, NameAt
  <2> HIDE DEF p
  <2> QED
    BY <2>1, <2>2 DEF ReadName
<1> HIDE DEF rest, label
<1>11. NamesFrom(b)[p] = [ok |-> TRUE, labels |-> <<LowerAll(l)>> \o LowerEach(r),
                          next |-> Len(pre \o s) + Len(er) + 1]
  BY <1>8, <1>9, <1>10
<1>12. Len(pre \o s) + Len(er) + 1 = Len(pre) + Len(s \o er) + 1
  BY <1>1, <1>3, <1>4
<1>13. LowerEach(<<l>> \o r) = <<LowerAll(l)>> \o LowerEach(r)
  BY LowerEachCons
<1> QED
  BY <1>2, <1>11, <1>12, <1>13, Zenon DEF b

LEMMA NamesRead ==
  ASSUME NEW ls \in Seq(Part)
  PROVE  ReadsAs(ls)
<1> DEFINE H(n) == \A x \in Seq(Part) : Len(x) = n => ReadsAs(x)
<1>1. H(0)
  <2> SUFFICES ASSUME NEW x \in Seq(Part), Len(x) = 0 PROVE ReadsAs(x)
    OBVIOUS
  <2>1. x = <<>>
    BY EmptySeq
  <2> QED
    BY <2>1, RootReads
<1>2. ASSUME NEW n \in Nat, H(n) PROVE H(n + 1)
  <2> SUFFICES ASSUME NEW x \in Seq(Part), Len(x) = n + 1 PROVE ReadsAs(x)
    OBVIOUS
  <2>1. x # <<>>
    BY EmptySeq
  <2>2. PICK l \in Part, r \in Seq(Part) : x = <<l>> \o r /\ Len(r) + 1 = Len(x)
    BY <2>1, FirstLabel
  <2>3. Len(r) = n
    BY <2>2
  <2>4. ReadsAs(r)
    BY <1>2, <2>3
  <2> QED
    BY <2>2, <2>4, LabelReads
<1> HIDE DEF H
<1> DEFINE T == {n \in Nat : H(n)}
<1>3. T \in SUBSET Nat /\ 0 \in T /\ \A n \in T : n + 1 \in T
  BY <1>1, <1>2
<1>4. T = Nat
  <2> HIDE DEF T
  <2> QED
    BY <1>3, Induction
<1>5. Len(ls) \in Nat
  OBVIOUS
<1>6. H(Len(ls))
  BY <1>4, <1>5
<1> QED
  BY <1>6 DEF H

-----------------------------------------------------------------------------
(* The text of a name: labels with dots between them. *)

LEMMA JoinExists ==
  ASSUME NEW ls, NEW n \in Nat
  PROVE  \E f : f = [i \in 0 .. n |-> Dotted(ls, f, i)]
<1> DEFINE P(f, m) == f = [i \in 0 .. m |-> Dotted(ls, f, i)]
           H(m) == \E f : P(f, m)
<1>1. H(0)
  <2>1. P([i \in 0 .. 0 |-> <<>>], 0)
    BY DEF Dotted
  <2> QED
    BY <2>1
<1>2. ASSUME NEW m \in Nat, H(m) PROVE H(m + 1)
  <2>1. PICK f : P(f, m)
    BY <1>2
  <2> DEFINE g == [i \in 0 .. m + 1 |-> IF i <= m THEN f[i] ELSE Dotted(ls, f, i)]
  <2>2. ASSUME NEW i \in 0 .. m + 1 PROVE g[i] = Dotted(ls, g, i)
    <3>1. \A j \in 0 .. m : f[j] = Dotted(ls, f, j)
      BY <2>1
    <3>2. \A j \in 0 .. m : g[j] = f[j]
      OBVIOUS
    <3>3. g[m + 1] = Dotted(ls, f, m + 1)
      OBVIOUS
    <3> HIDE DEF g, P
    <3>4. Dotted(ls, g, i) = Dotted(ls, f, i)
      <4>1. CASE i = 0
        BY <4>1 DEF Dotted
      <4>2. CASE i # 0
        <5>1. i - 1 \in 0 .. m /\ g[i - 1] = f[i - 1]
          BY <3>2, <4>2
        <5> QED
          BY <4>2, <5>1 DEF Dotted
      <4> QED
        BY <4>1, <4>2
    <3>5. g[i] = Dotted(ls, f, i)
      <4>1. i \in 0 .. m \/ i = m + 1
        OBVIOUS
      <4> QED
        BY <3>1, <3>2, <3>3, <4>1
    <3> QED
      BY <3>4, <3>5
  <2>3. P(g, m + 1)
    BY <2>2
  <2> HIDE DEF g, P
  <2> QED
    BY <2>3
<1> HIDE DEF H
<1> DEFINE T == {m \in Nat : H(m)}
<1>3. T \in SUBSET Nat /\ 0 \in T /\ \A m \in T : m + 1 \in T
  BY <1>1, <1>2
<1>4. T = Nat
  <2> HIDE DEF T
  <2> QED
    BY <1>3, Induction
<1>5. H(n)
  BY <1>4
<1> QED
  BY <1>5 DEF H

LEMMA JoinSteps ==
  ASSUME NEW ls \in Seq(Part)
  PROVE  \E f : /\ f[0] = <<>>
                /\ \A i \in 1 .. Len(ls) :
                     f[i] = IF f[i - 1] = <<>> THEN ls[i] ELSE (f[i - 1] \o <<Dot>>) \o ls[i]
                /\ Join(ls) = f[Len(ls)]
<1> DEFINE f == Joined(ls)
<1>1. Len(ls) \in Nat
  OBVIOUS
<1>2. \E g : g = [i \in 0 .. Len(ls) |-> Dotted(ls, g, i)]
  BY <1>1, JoinExists
<1>3. f = [i \in 0 .. Len(ls) |-> Dotted(ls, f, i)]
  BY <1>2, Zenon DEF Joined
<1> HIDE DEF f
<1>4. \A i \in 0 .. Len(ls) : f[i] = Dotted(ls, f, i)
  BY <1>3
<1>5. f[0] = <<>>
  <2>1. 0 \in 0 .. Len(ls)
    BY <1>1
  <2> QED
    BY <1>4, <2>1 DEF Dotted
<1>6. ASSUME NEW i \in 1 .. Len(ls)
      PROVE  f[i] = IF f[i - 1] = <<>> THEN ls[i] ELSE (f[i - 1] \o <<Dot>>) \o ls[i]
  <2>1. i \in 0 .. Len(ls) /\ i # 0
    BY <1>1
  <2> QED
    BY <1>4, <2>1 DEF Dotted
<1>7. Join(ls) = f[Len(ls)]
  BY DEF Join, f
<1> QED
  BY <1>5, <1>6, <1>7

(* What the parser joins is the text of the name.                              *)
LEMMA JoinIsText ==
  ASSUME NEW ls \in Seq(Part)
  PROVE  Join(ls) = Text(ls) /\ Join(ls) \in Seq(Nat)
<1>1. PICK f : /\ f[0] = <<>>
               /\ \A i \in 1 .. Len(ls) :
                    f[i] = IF f[i - 1] = <<>> THEN ls[i] ELSE (f[i - 1] \o <<Dot>>) \o ls[i]
               /\ Join(ls) = f[Len(ls)]
  BY JoinSteps
<1>2. CASE ls = <<>>
  <2>1. Len(ls) = 0
    BY <1>2
  <2>2. Join(ls) = <<>>
    BY <1>1, <2>1
  <2>3. Text(ls) = <<>>
    BY <1>2 DEF Text
  <2>4. Join(ls) \in Seq(Nat)
    <3>1. <<>> \in Seq(Nat)
      OBVIOUS
    <3> QED
      BY <2>2, <3>1
  <2> QED
    BY <2>2, <2>3, <2>4
<1>3. CASE ls # <<>>
  <2> DEFINE dots == [j \in DOMAIN ls |-> <<Dot>> \o ls[j]]
             d == <<Dot>>
  <2>1. DOMAIN ls = 1 .. Len(ls) /\ Len(ls) \in Nat /\ Len(ls) # 0
    BY <1>3, EmptySeq
  <2>2. d \in Seq(Nat)
    BY DEF Dot
  <2>3. dots = [j \in 1 .. Len(ls) |-> d \o ls[j]]
    BY <2>1
  <2> HIDE DEF d
  <2>4. \A j \in 1 .. Len(ls) : ls[j] \in Seq(Nat) /\ Len(ls[j]) # 0
    <3> SUFFICES ASSUME NEW j \in 1 .. Len(ls) PROVE ls[j] \in Seq(Nat) /\ Len(ls[j]) # 0
      OBVIOUS
    <3> DEFINE l == ls[j]
    <3>1. l \in Part
      OBVIOUS
    <3> HIDE DEF l
    <3>2. l \in Seq(Nat) /\ Len(l) \in 1 .. 63
      BY <3>1 DEF Part
    <3>3. \A w \in 1 .. 63 : w # 0
      OBVIOUS
    <3>4. Len(l) # 0
      BY <3>2, <3>3, Zenon
    <3> QED
      BY <3>2, <3>4 DEF l
  <2>5. \A j \in 1 .. Len(ls) : d \o ls[j] \in Seq(Nat)
    BY <2>2, <2>4, ConcatProperties
  <2> HIDE DEF dots
  <2>6. /\ dots \in Seq(Seq(Nat)) /\ Len(dots) = Len(ls) /\ Len(dots) # 0
        /\ \A j \in 1 .. Len(ls) : dots[j] = d \o ls[j]
    <3>1. \A j \in 1 .. Len(ls) : dots[j] = d \o ls[j]
      BY <2>3
    <3> DEFINE N == Len(ls)
    <3>2. dots \in [1 .. N -> Seq(Nat)]
      BY <2>3, <2>5
    <3>3. N \in Nat /\ N # 0
      BY <2>1
    <3> HIDE DEF N
    <3>4. dots \in Seq(Seq(Nat)) /\ Len(dots) = N
      BY <3>2, <3>3
    <3> QED
      BY <3>1, <3>3, <3>4 DEF N
  <2>7. PICK h : /\ h[1] = dots[1]
                 /\ \A i \in 1 .. Len(dots) : i # 1 => h[i] = h[i - 1] \o dots[i]
                 /\ FlattenSeq(dots) = h[Len(dots)]
    BY <2>6, FlattenSteps
  <2> DEFINE H(n) == n + 1 <= Len(ls) => /\ f[n + 1] \in Seq(Nat) /\ f[n + 1] # <<>>
                                         /\ h[n + 1] = d \o f[n + 1]
  <2>8. H(0)
    <3>1. 1 \in 1 .. Len(ls) /\ 1 - 1 = 0
      BY <2>1
    <3>2. f[1] = ls[1] /\ h[1] = d \o ls[1]
      BY <1>1, <2>6, <2>7, <3>1
    <3>3. ls[1] \in Seq(Nat) /\ ls[1] # <<>>
      BY <2>4, <3>1
    <3>4. f[1] \in Seq(Nat) /\ f[1] # <<>> /\ h[1] = d \o f[1]
      BY <3>2, <3>3
    <3> QED
      BY <3>4
  <2>9. ASSUME NEW n \in Nat, H(n) PROVE H(n + 1)
    <3> SUFFICES ASSUME n + 2 <= Len(ls)
                 PROVE  /\ f[n + 2] \in Seq(Nat) /\ f[n + 2] # <<>>
                        /\ h[n + 2] = d \o f[n + 2]
      OBVIOUS
    <3>1. f[n + 1] \in Seq(Nat) /\ f[n + 1] # <<>> /\ h[n + 1] = d \o f[n + 1]
      BY <2>1, <2>9
    <3> DEFINE x == f[n + 1]
               y == ls[n + 2]
    <3>2. n + 2 \in 1 .. Len(ls) /\ n + 2 # 1 /\ (n + 2) - 1 = n + 1
      BY <2>1
    <3>3. f[n + 2] = (x \o d) \o y
      BY <1>1, <3>1, <3>2 DEF d
    <3>4. h[n + 2] = (d \o x) \o (d \o y)
      BY <2>6, <2>7, <3>1, <3>2
    <3>5. x \in Seq(Nat) /\ y \in Seq(Nat) /\ Len(y) # 0 /\ d \in Seq(Nat)
      BY <2>2, <2>4, <3>1, <3>2
    <3> HIDE DEF x, y
    <3>6. x \o d \in Seq(Nat) /\ d \o y \in Seq(Nat) /\ (x \o d) \o y \in Seq(Nat)
      BY <3>5, ConcatProperties
    <3>7. (d \o x) \o (d \o y) = d \o (x \o (d \o y))
      BY <3>5, <3>6, Associative, Zenon
    <3>10. (x \o d) \o y = x \o (d \o y)
      BY <3>5, Associative, Zenon
    <3>8. Len((x \o d) \o y) = Len(x \o d) + Len(y) /\ Len(x \o d) \in Nat /\ Len(y) \in Nat
      BY <3>5, <3>6, ConcatProperties
    <3>9. (x \o d) \o y # <<>>
      <4> DEFINE z == (x \o d) \o y
      <4> HIDE DEF z
      <4>1. Len(z) # 0
        BY <3>5, <3>8 DEF z
      <4>2. z # <<>>
        BY <4>1, EmptySeq
      <4> QED
        BY <4>2 DEF z
    <3> QED
      BY <3>3, <3>4, <3>6, <3>7, <3>9, <3>10
  <2> HIDE DEF H
  <2> DEFINE T == {n \in Nat : H(n)}
  <2>10. T \in SUBSET Nat /\ 0 \in T /\ \A n \in T : n + 1 \in T
    BY <2>8, <2>9
  <2>11. T = Nat
    <3> HIDE DEF T
    <3> QED
      BY <2>10, Induction
  <2>12. Len(ls) - 1 \in Nat /\ (Len(ls) - 1) + 1 = Len(ls)
    BY <2>1
  <2>13. H(Len(ls) - 1)
    BY <2>11, <2>12
  <2> DEFINE x == f[Len(ls)]
  <2>14. x \in Seq(Nat) /\ FlattenSeq(dots) = d \o x
    BY <2>6, <2>7, <2>12, <2>13 DEF H
  <2>15. Text(ls) = Tail(FlattenSeq(dots))
    BY <1>3 DEF Text, dots
  <2> HIDE DEF x
  <2>16. Tail(d \o x) = x
    <3> DEFINE z == d \o x
    <3>1. /\ z \in Seq(Nat) /\ Len(z) = Len(x) + 1 /\ z # <<>>
          /\ \A j \in 1 .. Len(x) : z[j + 1] = x[j]
      BY <2>14 DEF d, Dot
    <3> HIDE DEF z
    <3>2. /\ Tail(z) \in Seq(Nat) /\ Len(Tail(z)) = Len(z) - 1
          /\ \A i \in 1 .. Len(Tail(z)) : Tail(z)[i] = z[i + 1]
      BY <3>1, HeadTailProperties
    <3>3. Len(Tail(z)) = Len(x)
      <4>1. Len(x) \in Nat
        BY <2>14
      <4> QED
        BY <3>1, <3>2, <4>1
    <3>5. \A i \in 1 .. Len(Tail(z)) : Tail(z)[i] = x[i]
      BY <3>1, <3>2, <3>3, Zenon
    <3>4. Tail(z) = x
      BY <2>14, <3>2, <3>3, <3>5, SeqEqual, Zenon
    <3> QED
      BY <3>4 DEF z
  <2> QED
    BY <1>1, <2>14, <2>15, <2>16 DEF x
<1> QED
  BY <1>2, <1>3

(* Lower case can be taken label by label.                                     *)
LEMMA JoinLower ==
  ASSUME NEW ls \in Seq(Part)
  PROVE  Join(LowerEach(ls)) = LowerAll(Join(ls))
<1> DEFINE ks == LowerEach(ls)
           d == <<Dot>>
<1>1. /\ ks \in Seq(Part) /\ Len(ks) = Len(ls)
      /\ \A j \in 1 .. Len(ls) : ks[j] = LowerAll(ls[j])
  BY LowerEachType
<1> HIDE DEF ks
<1>2. PICK f : /\ f[0] = <<>>
               /\ \A i \in 1 .. Len(ls) :
                    f[i] = IF f[i - 1] = <<>> THEN ls[i] ELSE (f[i - 1] \o d) \o ls[i]
               /\ Join(ls) = f[Len(ls)]
  BY JoinSteps
<1>3. PICK g : /\ g[0] = <<>>
               /\ \A i \in 1 .. Len(ks) :
                    g[i] = IF g[i - 1] = <<>> THEN ks[i] ELSE (g[i - 1] \o d) \o ks[i]
               /\ Join(ks) = g[Len(ks)]
  BY <1>1, JoinSteps
<1>4. d \in Seq(Nat) /\ LowerAll(d) = d
  <2>1. d \in Seq(Nat) /\ Len(d) = 1 /\ d[1] = 46
    BY DEF Dot
  <2> HIDE DEF d
  <2>2. LowerAll(d) \in Seq(Nat) /\ Len(LowerAll(d)) = Len(d)
        /\ \A j \in 1 .. Len(d) : LowerAll(d)[j] = Lower(d[j])
    BY <2>1, LowerAllType
  <2>3. Lower(46) = 46
    BY DEF Lower
  <2>4. \A j \in 1 .. Len(d) : LowerAll(d)[j] = d[j]
    BY <2>1, <2>2, <2>3
  <2> QED
    BY <2>1, <2>2, <2>4, SeqEqual
<1> HIDE DEF d
<1> DEFINE H(n) == n <= Len(ls) => f[n] \in Seq(Nat) /\ g[n] = LowerAll(f[n])
<1>5. H(0)
  <2>1. LowerAll(<<>>) = <<>>
    BY DEF LowerAll
  <2> QED
    BY <1>2, <1>3, <2>1
<1>6. ASSUME NEW n \in Nat, H(n) PROVE H(n + 1)
  <2> SUFFICES ASSUME n + 1 <= Len(ls)
               PROVE  f[n + 1] \in Seq(Nat) /\ g[n + 1] = LowerAll(f[n + 1])
    OBVIOUS
  <2>1. Len(ls) \in Nat /\ n + 1 \in 1 .. Len(ls) /\ (n + 1) - 1 = n
    OBVIOUS
  <2>2. f[n] \in Seq(Nat) /\ g[n] = LowerAll(f[n])
    BY <1>6, <2>1
  <2> DEFINE x == f[n]
             y == ls[n + 1]
  <2>3. f[n + 1] = IF x = <<>> THEN y ELSE (x \o d) \o y
    BY <1>2, <2>1
  <2>4. g[n + 1] = IF LowerAll(x) = <<>> THEN LowerAll(y) ELSE (LowerAll(x) \o d) \o LowerAll(y)
    BY <1>1, <1>3, <2>1, <2>2
  <2>5. x \in Seq(Nat) /\ y \in Seq(Nat)
    <3>1. ls[n + 1] \in Part
      BY <2>1
    <3> QED
      BY <2>2, <3>1 DEF Part
  <2> HIDE DEF x, y
  <2>6. x = <<>> <=> LowerAll(x) = <<>>
    <3>1. LowerAll(x) \in Seq(Nat) /\ Len(LowerAll(x)) = Len(x)
      BY <2>5, LowerAllType
    <3>2. \A z \in Seq(Nat) : z = <<>> <=> Len(z) = 0
      BY EmptySeq
    <3> QED
      BY <2>5, <3>1, <3>2
  <2>7. x \o d \in Seq(Nat) /\ (x \o d) \o y \in Seq(Nat)
    BY <1>4, <2>5, ConcatProperties
  <2>8. LowerAll((x \o d) \o y) = (LowerAll(x) \o d) \o LowerAll(y)
    <3>1. LowerAll((x \o d) \o y) = LowerAll(x \o d) \o LowerAll(y)
      BY <2>5, <2>7, LowerConcat
    <3>2. LowerAll(x \o d) = LowerAll(x) \o LowerAll(d)
      BY <1>4, <2>5, LowerConcat
    <3> QED
      BY <1>4, <3>1, <3>2
  <2> QED
    BY <2>3, <2>4, <2>5, <2>6, <2>7, <2>8
<1> HIDE DEF H
<1> DEFINE T == {n \in Nat : H(n)}
<1>7. T \in SUBSET Nat /\ 0 \in T /\ \A n \in T : n + 1 \in T
  BY <1>5, <1>6
<1>8. T = Nat
  <2> HIDE DEF T
  <2> QED
    BY <1>7, Induction
<1>9. Len(ls) \in Nat
  OBVIOUS
<1>10. H(Len(ls))
  BY <1>8, <1>9
<1>11. g[Len(ls)] = LowerAll(f[Len(ls)])
  BY <1>9, <1>10 DEF H
<1> QED
  BY <1>1, <1>2, <1>3, <1>11 DEF ks

-----------------------------------------------------------------------------
(* The question of a message. *)

LEMMA MessageOf ==
  ASSUME NEW m \in Datagram, NEW b
  PROVE  LET mb == [m EXCEPT !.body = b]
         IN mb.body = b /\ mb.header = m.header /\ mb.qd = m.qd
BY DEF Datagram

LEMMA Bytes ==
  /\ Seq(Byte) \subseteq Seq(Nat)
  /\ Seq(Label) \subseteq Seq(Part)
<1>1. Byte \subseteq Nat
  BY DEF Byte
<1>2. Seq(Byte) \subseteq Seq(Nat)
  BY <1>1, SeqMonotonic
<1>3. Label \subseteq Part
  BY <1>2 DEF Label, Part
<1> QED
  BY <1>2, <1>3, SeqMonotonic

(* A name at the start of a body is read in lower case, and to its end.       *)
LEMMA NameRead ==
  ASSUME NEW labels \in Seq(Part), NEW tail \in Seq(Nat)
  PROVE  /\ Name(Encoding(labels) \o tail)
              = [ok |-> TRUE, labels |-> LowerEach(labels), next |-> Len(Encoding(labels)) + 1]
         /\ Encoding(labels) \in Seq(Nat)
<1> DEFINE e == Encoding(labels)
           b == e \o tail
<1>1. e \in Seq(Nat) /\ <<>> \in Seq(Nat) /\ Len(<<>>) = 0
  <2>1. e \in Seq(Nat)
    BY PartSeq, EncodingType
  <2> QED
    BY <2>1
<1>2. NamesFrom(<<>> \o b)[Len(<<>>) + 1]
        = [ok |-> TRUE, labels |-> LowerEach(labels), next |-> Len(<<>>) + Len(e) + 1]
  BY <1>1, NamesRead DEF ReadsAs
<1> HIDE DEF e
<1>3. b \in Seq(Nat)
  BY <1>1, ConcatProperties
<1>4. <<>> \o b = b
  BY <1>3, ConcatEmptySeq
<1>5. Len(<<>>) + 1 = 1 /\ Len(<<>>) + Len(e) + 1 = Len(e) + 1
  BY <1>1
<1>6. NamesFrom(b)[1] = [ok |-> TRUE, labels |-> LowerEach(labels), next |-> Len(e) + 1]
  BY <1>2, <1>4, <1>5
<1> QED
  BY <1>1, <1>6 DEF Name, e

(* A C string ends at its first zero byte.                                     *)

LEMMA Least ==
  ASSUME NEW S \in SUBSET Nat, S # {}
  PROVE  Min(S) \in S /\ \A y \in S : Min(S) <= y
<1> DEFINE H(n) == \A i \in 0 .. n : i \in S => \E x \in S : \A y \in S : x <= y
<1>1. H(0)
  OBVIOUS
<1>2. ASSUME NEW n \in Nat, H(n) PROVE H(n + 1)
  <2>1. CASE \E i \in 0 .. n : i \in S
    BY <1>2, <2>1
  <2>2. CASE ~\E i \in 0 .. n : i \in S
    <3>1. \A y \in S : n + 1 <= y
      BY <2>2
    <3> QED
      BY <2>2, <3>1
  <2> QED
    BY <2>1, <2>2
<1> HIDE DEF H
<1> DEFINE T == {n \in Nat : H(n)}
<1>3. T \in SUBSET Nat /\ 0 \in T /\ \A n \in T : n + 1 \in T
  BY <1>1, <1>2
<1>4. T = Nat
  <2> HIDE DEF T
  <2> QED
    BY <1>3, Induction
<1>5. PICK i \in S : TRUE
  OBVIOUS
<1>6. H(i)
  BY <1>4
<1>7. \E x \in S : \A y \in S : x <= y
  BY <1>6 DEF H
<1> QED
  BY <1>7 DEF Min

LEMMA EndsAtZero ==
  ASSUME NEW s \in Seq(Nat)
  PROVE  UpToZero(CString(s), s)
<1> DEFINE zeros == {j \in DOMAIN s : s[j] = 0}
           n == Len(s)
<1>1. n \in Nat /\ DOMAIN s = 1 .. n /\ zeros \in SUBSET Nat
  OBVIOUS
<1>2. CASE zeros = {}
  <2>1. CString(s) = s
    BY <1>2 DEF CString
  <2> QED
    BY <1>1, <1>2, <2>1 DEF UpToZero
<1>3. CASE zeros # {}
  <2> DEFINE z == Min(zeros)
             c == SubSeq(s, 1, z - 1)
  <2>1. z \in zeros /\ \A y \in zeros : z <= y
    BY <1>1, <1>3, Least
  <2>2. CString(s) = c
    BY <1>3 DEF CString
  <2> HIDE DEF z
  <2>3. z \in 1 .. n /\ s[z] = 0 /\ \A j \in 1 .. z - 1 : s[j] # 0
    BY <1>1, <2>1
  <2>4. c \in Seq(Nat) /\ Len(c) = z - 1 /\ \A j \in 1 .. z - 1 : c[j] = s[j]
    BY <2>3
  <2> HIDE DEF c
  <2>5. DOMAIN c = 1 .. z - 1
    BY <2>4
  <2> QED
    BY <1>1, <2>2, <2>3, <2>4, <2>5 DEF UpToZero
<1> QED
  BY <1>2, <1>3

(* ReadsEveryName, for any names, what follows them, and headers.             *)
LEMMA EveryNameIsQuestion ==
  ASSUME NEW names \in SUBSET Seq(Label), NEW tails \in SUBSET Seq(Byte),
         NEW messages \in SUBSET {m \in Datagram : m.header = DNS_WIRE_HEADER_LEN}
  PROVE  ReadsEveryName(names, tails, messages)
<1> SUFFICES ASSUME NEW labels \in names, NEW tail \in tails, NEW m \in messages
             PROVE  LET q == Question([m EXCEPT !.body = Encoding(labels) \o tail])
                    IN /\ q.ok <=> /\ m.qd # 0 /\ Len(tail) >= 4
                                   /\ Len(Text(labels)) < DNS_WIRE_MAX_NAME_LEN
                       /\ q.ok => /\ UpToZero(q.qname, LowerAll(Text(labels)))
                                  /\ q.question_end
                                       = DNS_WIRE_HEADER_LEN + Len(Encoding(labels)) + 4
  BY DEF ReadsEveryName
<1>1. labels \in Seq(Part) /\ tail \in Seq(Nat)
  BY Bytes
<1> DEFINE e == Encoding(labels)
           b == e \o tail
           mb == [m EXCEPT !.body = b]
           name == Name(mb.body)
           text == Join(name.labels)
           t == Text(labels)
<1>2. mb.body = b /\ mb.header = DNS_WIRE_HEADER_LEN /\ mb.qd = m.qd
  BY MessageOf
<1>3. /\ Name(b) = [ok |-> TRUE, labels |-> LowerEach(labels), next |-> Len(e) + 1]
      /\ e \in Seq(Nat)
  BY <1>1, NameRead
<1>4. name.ok = TRUE /\ name.labels = LowerEach(labels) /\ name.next = Len(e) + 1
  BY <1>2, <1>3
<1>5. Join(LowerEach(labels)) = LowerAll(Join(labels)) /\ Join(labels) = t /\ t \in Seq(Nat)
  BY <1>1, JoinLower, JoinIsText
<1>6. text = LowerAll(t)
  BY <1>4, <1>5
<1>7. Len(text) = Len(t) /\ UpToZero(CString(text), LowerAll(t))
  BY <1>5, <1>6, LowerAllType, EndsAtZero
<1>8. Len(b) = Len(e) + Len(tail) /\ Len(e) \in Nat /\ Len(tail) \in Nat
  BY <1>1, <1>3, ConcatProperties
<1> DEFINE q == Question(mb)
           end == QuestionEnd(name.next)
<1>9. end = Len(e) + 4
  BY <1>4, <1>8 DEF QuestionEnd
<1>10. q = IF /\ mb.header = DNS_WIRE_HEADER_LEN
              /\ mb.qd # 0
              /\ name.ok
              /\ Len(text) < DNS_WIRE_MAX_NAME_LEN
              /\ end <= Len(mb.body)
           THEN [ok |-> TRUE, qname |-> CString(text),
                 qtype |-> 256 * mb.body[name.next] + mb.body[name.next + 1],
                 question_end |-> DNS_WIRE_HEADER_LEN + end]
           ELSE NoQuestion
  BY DEF Question
<1> HIDE DEF q, end, text, name, mb
<1>11. end <= Len(mb.body) <=> Len(tail) >= 4
  <2> HIDE DEF b, e
  <2> QED
    BY <1>2, <1>8, <1>9
<1> DEFINE C == m.qd # 0 /\ Len(tail) >= 4 /\ Len(t) < DNS_WIRE_MAX_NAME_LEN
<1>12. CASE C
  <2>1. q.ok = TRUE /\ q.qname = CString(text) /\ q.question_end = DNS_WIRE_HEADER_LEN + end
    BY <1>2, <1>4, <1>7, <1>10, <1>11, <1>12
  <2>2. q.question_end = DNS_WIRE_HEADER_LEN + Len(e) + 4
    <3> HIDE DEF e
    <3> QED
      BY <1>8, <1>9, <2>1 DEF DNS_WIRE_HEADER_LEN
  <2> QED
    BY <1>7, <1>12, <2>1, <2>2 DEF q, mb
<1>13. CASE ~C
  <2>1. q.ok = FALSE
    BY <1>2, <1>7, <1>10, <1>11, <1>13 DEF NoQuestion
  <2> QED
    BY <1>13, <2>1 DEF q, mb
<1> QED
  BY <1>12, <1>13

(* ReadsOnlyNames, for any bytes and headers.                                  *)
LEMMA OnlyNamesAreQuestions ==
  ASSUME NEW bodies \in SUBSET Seq(Byte),
         NEW messages \in SUBSET {m \in Datagram : m.header = DNS_WIRE_HEADER_LEN}
  PROVE  ReadsOnlyNames(bodies, messages)
<1> SUFFICES ASSUME NEW b \in bodies, NEW m \in messages,
                    Question([m EXCEPT !.body = b]).ok
             PROVE  LET q == Question([m EXCEPT !.body = b])
                    IN /\ q.question_end
                            \in DNS_WIRE_HEADER_LEN + 5 .. DNS_WIRE_HEADER_LEN + Len(b)
                       /\ Encoding(Name(b).labels)
                            = LowerAll(SubSeq(b, 1, q.question_end - DNS_WIRE_HEADER_LEN - 4))
                       /\ UpToZero(q.qname, Text(Name(b).labels))
  BY DEF ReadsOnlyNames
<1> DEFINE mb == [m EXCEPT !.body = b]
           q == Question(mb)
           name == Name(b)
           next == name.next
           text == Join(name.labels)
           end == QuestionEnd(next)
<1>1. b \in Seq(Nat) /\ Len(b) \in Nat
  <2>1. b \in Seq(Nat)
    BY Bytes
  <2> QED
    BY <2>1
<1>2. mb.body = b
  BY MessageOf
<1>3. q = IF /\ mb.header = DNS_WIRE_HEADER_LEN
             /\ mb.qd # 0
             /\ name.ok
             /\ Len(text) < DNS_WIRE_MAX_NAME_LEN
             /\ end <= Len(b)
          THEN [ok |-> TRUE, qname |-> CString(text),
                qtype |-> 256 * b[next] + b[next + 1],
                question_end |-> DNS_WIRE_HEADER_LEN + end]
          ELSE NoQuestion
  BY <1>2 DEF Question
<1>4. NoQuestion.ok = FALSE
  BY DEF NoQuestion
<1>5. Sound(b, 1)
  <2>1. 1 \in 1 .. Len(b) + 1
    BY <1>1
  <2> QED
    BY <1>1, <2>1, AllSound
<1>6. q.ok
  OBVIOUS
<1> HIDE DEF q
<1>7. name.ok /\ end <= Len(b) /\ q.qname = CString(text) /\ q.question_end = DNS_WIRE_HEADER_LEN + end
  BY <1>3, <1>4, <1>6
<1>8. /\ name.labels \in Seq(Part)
      /\ next \in 2 .. Len(b) + 1
      /\ Encoding(name.labels) = LowerAll(SubSeq(b, 1, next - 1))
  BY <1>5, <1>7 DEF Sound, Name
<1> HIDE DEF name, text
<1>9. text = Text(name.labels) /\ UpToZero(CString(text), text)
  BY <1>8, JoinIsText, EndsAtZero DEF text
<1> HIDE DEF next
<1>10. end = next + 3
  BY DEF QuestionEnd
<1> HIDE DEF end
<1>11. q.question_end - DNS_WIRE_HEADER_LEN - 4 = next - 1
  BY <1>7, <1>8, <1>10 DEF DNS_WIRE_HEADER_LEN
<1>12. q.question_end \in DNS_WIRE_HEADER_LEN + 5 .. DNS_WIRE_HEADER_LEN + Len(b)
  <2> DEFINE n == Len(b)
             e == q.question_end
  <2>1. n \in Nat /\ end <= n /\ e = DNS_WIRE_HEADER_LEN + end /\ next \in 2 .. n + 1
    BY <1>1, <1>7, <1>8
  <2> HIDE DEF n, e
  <2>2. e \in DNS_WIRE_HEADER_LEN + 5 .. DNS_WIRE_HEADER_LEN + n
    BY <1>10, <2>1 DEF DNS_WIRE_HEADER_LEN
  <2> QED
    BY <2>2 DEF n, e
<1> QED
  BY <1>7, <1>8, <1>9, <1>11, <1>12 DEF q, name

(* What the question of a datagram is, if it has one.                         *)
LEMMA QuestionOf ==
  ASSUME NEW m \in Datagram, Question(m).ok
  PROVE  LET q == Question(m)
         IN /\ m.header = DNS_WIRE_HEADER_LEN
            /\ q.question_end - DNS_WIRE_HEADER_LEN \in 5 .. Len(m.body)
            /\ q.question_end \in Nat /\ q.qtype \in Nat
<1> DEFINE b == m.body
           q == Question(m)
           name == Name(b)
           next == name.next
           text == Join(name.labels)
           end == QuestionEnd(next)
<1>1. b \in Seq(Nat) /\ Len(b) \in Nat
  <2>1. b \in Seq(Nat)
    BY Bytes DEF Datagram
  <2> HIDE DEF b
  <2> QED
    BY <2>1
<1>3. q = IF /\ m.header = DNS_WIRE_HEADER_LEN
             /\ m.qd # 0
             /\ name.ok
             /\ Len(text) < DNS_WIRE_MAX_NAME_LEN
             /\ end <= Len(b)
          THEN [ok |-> TRUE, qname |-> CString(text),
                qtype |-> 256 * b[next] + b[next + 1],
                question_end |-> DNS_WIRE_HEADER_LEN + end]
          ELSE NoQuestion
  BY DEF Question
<1>4. NoQuestion.ok = FALSE
  BY DEF NoQuestion
<1>6. q.ok
  OBVIOUS
<1> HIDE DEF q, b
<1>5. Sound(b, 1)
  <2>1. 1 \in 1 .. Len(b) + 1
    BY <1>1
  <2> QED
    BY <1>1, <2>1, AllSound
<1>7. /\ m.header = DNS_WIRE_HEADER_LEN
      /\ name.ok /\ end <= Len(b) /\ q.qtype = 256 * b[next] + b[next + 1]
      /\ q.question_end = DNS_WIRE_HEADER_LEN + end
  BY <1>3, <1>4, <1>6
<1>8. next \in 2 .. Len(b) + 1
  BY <1>5, <1>7 DEF Sound, Name
<1> HIDE DEF next, name
<1>10. end = next + 3
  BY DEF QuestionEnd
<1> HIDE DEF end
<1>11. q.question_end - DNS_WIRE_HEADER_LEN = end
  BY <1>7, <1>8, <1>10 DEF DNS_WIRE_HEADER_LEN
<1>12. end \in 5 .. Len(b)
  BY <1>1, <1>7, <1>8, <1>10
<1>13. next \in 1 .. Len(b) /\ next + 1 \in 1 .. Len(b)
  BY <1>1, <1>7, <1>8, <1>10
<1>14. b[next] \in Nat /\ b[next + 1] \in Nat
  BY <1>1, <1>13, ByteOf
<1>15. q.qtype \in Nat
  <2> DEFINE x == b[next]
             y == b[next + 1]
  <2>1. x \in Nat /\ y \in Nat /\ q.qtype = 256 * x + y
    BY <1>7, <1>14
  <2> HIDE DEF x, y
  <2> QED
    BY <2>1
<1>16. q.question_end \in Nat
  <2>1. end \in Nat
    BY <1>8, <1>10
  <2> QED
    BY <1>7, <2>1 DEF DNS_WIRE_HEADER_LEN
<1> QED
  BY <1>7, <1>11, <1>12, <1>15, <1>16 DEF q, b

(* AnswersQuestion: what both answers keep of the query, *)
LEMMA ErrorOf ==
  ASSUME NEW m \in Datagram, m.header = DNS_WIRE_HEADER_LEN, NEW rcode
  PROVE  LET r == ErrorResponse(m, rcode)
         IN /\ r.qr = 1 /\ r.aatc = 0 /\ r.rcode = rcode
            /\ r.txid = m.txid /\ r.rd = m.rd /\ r.qd = m.qd
            /\ r.header = m.header /\ r.body = m.body
            /\ r.an = m.an /\ r.ns = m.ns /\ r.ar = m.ar
<1>1. ErrorResponse(m, rcode) = [m EXCEPT !.qr = 1, !.aatc = 0, !.ra = 1, !.rcode = rcode]
  BY DEF ErrorResponse, DNS_WIRE_HEADER_LEN
<1> QED
  BY <1>1 DEF Datagram

LEMMA ZeroOf ==
  ASSUME NEW m \in Datagram, m.header = DNS_WIRE_HEADER_LEN, NEW end, NEW cap, NEW qtype
  PROVE  LET r == ZeroAnswer(m, end, cap, qtype)
             C == qtype \in {DNS_TYPE_A, DNS_TYPE_AAAA} /\ ~(end + 12 + RdLength(qtype) > cap)
         IN /\ C => /\ r # NoAnswer
                    /\ r.qr = 1 /\ r.aatc = 0 /\ r.rcode = NOERROR
                    /\ r.txid = m.txid /\ r.rd = m.rd /\ r.qd = m.qd
                    /\ r.header = m.header
                    /\ r.an = 1 /\ r.ns = 0 /\ r.ar = 0
                    /\ r.body = SubSeq(m.body, 1, end - DNS_WIRE_HEADER_LEN) \o Answer(qtype)
            /\ ~C => r = NoAnswer
<1> DEFINE r == ZeroAnswer(m, end, cap, qtype)
           body == SubSeq(m.body, 1, end - DNS_WIRE_HEADER_LEN) \o Answer(qtype)
           C == qtype \in {DNS_TYPE_A, DNS_TYPE_AAAA} /\ ~(end + 12 + RdLength(qtype) > cap)
<1>1. ASSUME ~C PROVE r = NoAnswer
  BY <1>1 DEF ZeroAnswer
<1>2. ASSUME C
      PROVE  r = [[m EXCEPT !.qr = 1, !.aatc = 0, !.ra = 1, !.rcode = NOERROR] EXCEPT
                    !.an = 1, !.ns = 0, !.ar = 0,
                    !.body = SubSeq(@, 1, end - DNS_WIRE_HEADER_LEN) \o Answer(qtype)]
  BY <1>2 DEF ZeroAnswer, ErrorResponse, DNS_WIRE_HEADER_LEN
<1>3. ASSUME C
      PROVE  r = [header |-> m.header, txid |-> m.txid, qr |-> 1, aatc |-> 0, rd |-> m.rd,
                  ra |-> 1, rcode |-> NOERROR, qd |-> m.qd, an |-> 1, ns |-> 0, ar |-> 0,
                  body |-> body]
  BY <1>2, <1>3 DEF Datagram
<1> HIDE DEF r, body
<1>4. ASSUME C PROVE r # NoAnswer
  <2>1. "txid" \in DOMAIN r
    BY <1>3, <1>4
  <2>2. "txid" \notin DOMAIN NoAnswer
    BY DEF NoAnswer
  <2> QED
    BY <2>1, <2>2
<1>5. ASSUME C
      PROVE  /\ r.qr = 1 /\ r.aatc = 0 /\ r.rcode = NOERROR
             /\ r.txid = m.txid /\ r.rd = m.rd /\ r.qd = m.qd
             /\ r.header = m.header
             /\ r.an = 1 /\ r.ns = 0 /\ r.ar = 0
             /\ r.body = body
  BY <1>3, <1>5
<1> QED
  BY <1>1, <1>4, <1>5 DEF r, body

(* ... the record that is added, *)
LEMMA AnswerOf ==
  ASSUME NEW qtype \in {DNS_TYPE_A, DNS_TYPE_AAAA}
  PROVE  LET rr == Answer(qtype)
         IN /\ rr \in Seq(Nat) /\ Len(rr) = 12 + RdLength(qtype)
            /\ SubSeq(rr, 1, 2) = <<192, DNS_WIRE_HEADER_LEN>>
            /\ 256 * rr[3] + rr[4] = qtype
            /\ 256 * rr[11] + rr[12] = Len(rr) - 12
            /\ \A j \in 13 .. Len(rr) : rr[j] = 0
<1> DEFINE hi == qtype \div 256
           lo == qtype % 256
           n == RdLength(qtype)
           s == <<192, 12, hi, lo, 0, 1, 0, 0, 0, 60, 0, n>>
           z == [j \in 1 .. n |-> 0]
           rr == s \o z
<1>1. hi = 0 /\ lo = qtype /\ qtype \in Nat
  BY Z3 DEF DNS_TYPE_A, DNS_TYPE_AAAA
<1>2. n \in Nat
  BY DEF RdLength
<1> HIDE DEF hi, lo, n
<1>3. /\ s \in Seq(Nat) /\ Len(s) = 12 /\ s[1] = 192 /\ s[2] = 12
      /\ s[3] = hi /\ s[4] = lo /\ s[11] = 0 /\ s[12] = n
  BY <1>1, <1>2
<1>4. z \in Seq(Nat) /\ Len(z) = n /\ \A j \in 1 .. n : z[j] = 0
  BY <1>2
<1> HIDE DEF s, z
<1>5. /\ rr \in Seq(Nat) /\ Len(rr) = 12 + n
      /\ \A i \in 1 .. 12 + n : rr[i] = IF i <= 12 THEN s[i] ELSE z[i - 12]
  <2>1. /\ rr \in Seq(Nat) /\ Len(rr) = Len(s) + Len(z)
        /\ \A i \in 1 .. Len(s) + Len(z) : rr[i] = IF i <= Len(s) THEN s[i] ELSE z[i - Len(s)]
    <3>1. s \in Seq(Nat) /\ z \in Seq(Nat)
      BY <1>3, <1>4
    <3> QED
      BY <3>1, ConcatProperties, Zenon
  <2>2. Len(s) = 12 /\ Len(z) = n
    BY <1>3, <1>4
  <2> QED
    BY <2>1, <2>2
<1> HIDE DEF rr
<1>6. rr[1] = 192 /\ rr[2] = 12 /\ rr[3] = hi /\ rr[4] = lo /\ rr[11] = 0 /\ rr[12] = n
  BY <1>2, <1>3, <1>5
<1>7. \A j \in 13 .. Len(rr) : rr[j] = 0
  BY <1>2, <1>4, <1>5
<1>8. SubSeq(rr, 1, 2) = <<192, 12>>
  <2> DEFINE t == SubSeq(rr, 1, 2)
             u == <<192, 12>>
  <2>1. t \in Seq(Nat) /\ Len(t) = 2 /\ t[1] = rr[1] /\ t[2] = rr[2]
    BY <1>2, <1>5
  <2>2. u \in Seq(Nat) /\ Len(u) = 2 /\ u[1] = 192 /\ u[2] = 12
    OBVIOUS
  <2> HIDE DEF t, u
  <2>3. \A i \in 1 .. 2 : t[i] = u[i]
    BY <1>6, <2>1, <2>2
  <2>4. t = u
    <3>1. Len(t) = Len(u) /\ \A i \in 1 .. Len(t) : t[i] = u[i]
      BY <2>1, <2>2, <2>3, Zenon
    <3> QED
      BY <2>1, <2>2, <3>1, SeqEqual, Zenon
  <2> QED
    BY <2>4 DEF t, u
<1>9. 256 * rr[3] + rr[4] = qtype
  BY <1>1, <1>6
<1>10. 256 * rr[11] + rr[12] = Len(rr) - 12
  BY <1>2, <1>5, <1>6
<1>11. Answer(qtype) = rr
  BY DEF Answer, rr, s, z, hi, lo, n
<1> QED
  BY <1>5, <1>7, <1>8, <1>9, <1>10, <1>11 DEF n, DNS_WIRE_HEADER_LEN

LEMMA Halves ==
  ASSUME NEW s \in Seq(Nat), NEW t \in Seq(Nat)
  PROVE  /\ SubSeq(s \o t, 1, Len(s)) = s
         /\ SubSeq(s \o t, Len(s) + 1, Len(s \o t)) = t
<1> DEFINE u == s \o t
           n == Len(s)
           k == Len(t)
<1>1. /\ u \in Seq(Nat) /\ Len(u) = n + k /\ n \in Nat /\ k \in Nat
      /\ \A i \in 1 .. n + k : u[i] = IF i <= n THEN s[i] ELSE t[i - n]
  BY ConcatProperties
<1> HIDE DEF u, n, k
<1>2. SubSeq(u, 1, n) = s
  <2> DEFINE x == SubSeq(u, 1, n)
  <2>1. x \in Seq(Nat) /\ Len(x) = n /\ \A i \in 1 .. n : x[i] = u[i]
    BY <1>1
  <2> HIDE DEF x
  <2>2. \A i \in 1 .. n : x[i] = s[i]
    BY <1>1, <2>1
  <2>3. x = s
    BY <2>1, <2>2, SeqEqual DEF n
  <2> QED
    BY <2>3 DEF x
<1>3. SubSeq(u, n + 1, n + k) = t
  <2> DEFINE x == SubSeq(u, n + 1, n + k)
  <2>1. x \in Seq(Nat) /\ Len(x) = k /\ \A i \in 1 .. k : x[i] = u[n + i]
    BY <1>1
  <2> HIDE DEF x
  <2>2. \A i \in 1 .. k : n + i \in 1 .. n + k /\ ~(n + i <= n) /\ (n + i) - n = i
    BY <1>1
  <2>3. \A i \in 1 .. k : x[i] = t[i]
    BY <1>1, <2>1, <2>2
  <2>4. x = t
    BY <2>1, <2>3, SeqEqual DEF k
  <2> QED
    BY <2>4 DEF x
<1> QED
  BY <1>1, <1>2, <1>3 DEF u, n

(* ... and the whole, for any datagrams that fit in the receive buffer.       *)
LEMMA QuestionsAnswered ==
  ASSUME NEW messages \in SUBSET {m \in Datagram : Length(m) <= DNS_WIRE_MAX_MSG_LEN}
  PROVE  AnswersQuestion(messages)
<1> DEFINE Good(m, zero_ip) ==
      LET q    == Question(m)
          r    == BlockedResponse(m, zero_ip)
          head == q.question_end - DNS_WIRE_HEADER_LEN
          rr   == SubSeq(r.body, head + 1, Len(r.body))
          room == q.question_end + 12 + RdLength(q.qtype) <= DNS_WIRE_MAX_MSG_LEN
      IN q.ok =>
         /\ r.qr = 1 /\ r.aatc = 0 /\ r.txid = m.txid /\ r.rd = m.rd
         /\ Length(r) <= DNS_WIRE_MAX_MSG_LEN
         /\ IF zero_ip /\ q.qtype \in {DNS_TYPE_A, DNS_TYPE_AAAA} /\ room
              THEN /\ r.rcode = NOERROR
                   /\ <<r.an, r.ns, r.ar>> = <<1, 0, 0>>
                   /\ m.qd = 1 => r.qd = 1
                   /\ SubSeq(r.body, 1, head) = SubSeq(m.body, 1, head)
                   /\ SubSeq(rr, 1, 2) = <<192, DNS_WIRE_HEADER_LEN>>
                   /\ 256 * rr[3] + rr[4] = q.qtype
                   /\ 256 * rr[11] + rr[12] = Len(rr) - 12
                   /\ \A j \in 13 .. Len(rr) : rr[j] = 0
              ELSE /\ r.rcode = NXDOMAIN
                   /\ r.body = m.body
                   /\ <<r.qd, r.an, r.ns, r.ar>> = <<m.qd, m.an, m.ns, m.ar>>
<1>1. AnswersQuestion(messages) <=> \A m \in messages, zero_ip \in BOOLEAN : Good(m, zero_ip)
  BY DEF AnswersQuestion
<1>2. ASSUME NEW m \in messages, NEW zero_ip \in BOOLEAN, Question(m).ok
      PROVE  Good(m, zero_ip)
  <2> DEFINE q == Question(m)
             r == BlockedResponse(m, zero_ip)
             head == q.question_end - DNS_WIRE_HEADER_LEN
             zero == ZeroAnswer(m, q.question_end, DNS_WIRE_MAX_MSG_LEN, q.qtype)
             nx == ErrorResponse(m, NXDOMAIN)
             size == q.question_end + 12 + RdLength(q.qtype)
             room == size <= DNS_WIRE_MAX_MSG_LEN
             C == q.qtype \in {DNS_TYPE_A, DNS_TYPE_AAAA} /\ ~(size > DNS_WIRE_MAX_MSG_LEN)
  <2>1. m \in Datagram /\ Length(m) <= DNS_WIRE_MAX_MSG_LEN /\ DNS_WIRE_MAX_MSG_LEN \in Nat
    BY WireAssumption
  <2>2. m.header = DNS_WIRE_HEADER_LEN /\ head \in 5 .. Len(m.body) /\ q.qtype \in Nat
    BY <1>2, <2>1, QuestionOf
  <2>3. m.body \in Seq(Nat)
    <3>1. m.body \in Seq(Byte)
      BY <2>1 DEF Datagram
    <3> QED
      BY <3>1, Bytes
  <2>4. r = IF zero_ip /\ zero # NoAnswer THEN zero ELSE nx
    BY DEF BlockedResponse
  <2>5. /\ nx.qr = 1 /\ nx.aatc = 0 /\ nx.rcode = NXDOMAIN
        /\ nx.txid = m.txid /\ nx.rd = m.rd /\ nx.qd = m.qd
        /\ nx.header = m.header /\ nx.body = m.body
        /\ nx.an = m.an /\ nx.ns = m.ns /\ nx.ar = m.ar
    BY <2>1, <2>2, ErrorOf
  <2>6. /\ C => /\ zero # NoAnswer
                /\ zero.qr = 1 /\ zero.aatc = 0 /\ zero.rcode = NOERROR
                /\ zero.txid = m.txid /\ zero.rd = m.rd /\ zero.qd = m.qd
                /\ zero.header = m.header
                /\ zero.an = 1 /\ zero.ns = 0 /\ zero.ar = 0
                /\ zero.body = SubSeq(m.body, 1, head) \o Answer(q.qtype)
        /\ ~C => zero = NoAnswer
    BY <2>1, <2>2, ZeroOf
  <2>7. size \in Int /\ (room <=> ~(size > DNS_WIRE_MAX_MSG_LEN))
    <3> SUFFICES q.question_end \in Int /\ RdLength(q.qtype) \in Int
      BY <2>1
    <3>1. RdLength(q.qtype) \in Int
      BY DEF RdLength
    <3>2. q.question_end \in Int
      BY <1>2, <2>1, QuestionOf
    <3> QED
      BY <3>1, <3>2
  <2> HIDE DEF zero, nx, r
  <2>8. CASE zero_ip /\ C
    <3> DEFINE s == SubSeq(m.body, 1, head)
               a == Answer(q.qtype)
               rr == SubSeq(r.body, head + 1, Len(r.body))
    <3>1. r = zero
      BY <2>4, <2>6, <2>8
    <3>2. s \in Seq(Nat) /\ Len(s) = head
      <4> HIDE DEF head
      <4> QED
        BY <2>2, <2>3
    <3>3. /\ a \in Seq(Nat) /\ Len(a) = 12 + RdLength(q.qtype)
          /\ SubSeq(a, 1, 2) = <<192, DNS_WIRE_HEADER_LEN>>
          /\ 256 * a[3] + a[4] = q.qtype
          /\ 256 * a[11] + a[12] = Len(a) - 12
          /\ \A j \in 13 .. Len(a) : a[j] = 0
      BY <2>8, AnswerOf
    <3>4. r.body = s \o a
      BY <2>6, <2>8, <3>1
    <3> HIDE DEF s, a
    <3>5. SubSeq(r.body, 1, head) = s /\ rr = a
      <4>1. /\ SubSeq(s \o a, 1, Len(s)) = s
            /\ SubSeq(s \o a, Len(s) + 1, Len(s \o a)) = a
        BY <3>2, <3>3, Halves
      <4> QED
        BY <3>2, <3>4, <4>1, Zenon
    <3>6. Length(r) <= DNS_WIRE_MAX_MSG_LEN
      <4>1. Length(r) = DNS_WIRE_HEADER_LEN + (head + Len(a))
        <5>1. Len(s \o a) = Len(s) + Len(a)
          <6>1. s \in Seq(Nat) /\ a \in Seq(Nat)
            BY <3>2, <3>3
          <6> QED
            BY <6>1, ConcatProperties, Zenon
        <5>2. r.header = DNS_WIRE_HEADER_LEN /\ Len(r.body) = head + Len(a)
          BY <2>2, <2>6, <2>8, <3>1, <3>2, <3>4, <5>1
        <5> QED
          BY <5>2 DEF Length
      <4>2. DNS_WIRE_HEADER_LEN + (head + Len(a)) = size
        <5> DEFINE rd == RdLength(q.qtype)
                   end == q.question_end
                   n == Len(a)
        <5>1. end \in Nat /\ rd \in Nat /\ n = 12 + rd
          BY <1>2, <2>1, <3>3, QuestionOf DEF RdLength
        <5> HIDE DEF rd, end, n
        <5>2. DNS_WIRE_HEADER_LEN + ((end - DNS_WIRE_HEADER_LEN) + n) = end + 12 + rd
          BY <5>1 DEF DNS_WIRE_HEADER_LEN
        <5> QED
          BY <5>2 DEF rd, end, n
      <4> QED
        BY <2>7, <2>8, <4>1, <4>2
    <3> QED
      BY <2>6, <2>7, <2>8, <3>1, <3>3, <3>5, <3>6 DEF r, s
  <2>9. CASE ~(zero_ip /\ C)
    <3>1. r = nx
      BY <2>4, <2>6, <2>9
    <3>2. Length(r) = Length(m)
      BY <2>5, <3>1 DEF Length
    <3> QED
      BY <2>1, <2>5, <2>7, <2>9, <3>1, <3>2 DEF r
  <2> QED
    BY <2>8, <2>9
<1>3. ASSUME NEW m \in messages, NEW zero_ip \in BOOLEAN PROVE Good(m, zero_ip)
  BY <1>2
<1> QED
  BY <1>1, <1>3

-----------------------------------------------------------------------------
(* The properties of the decision's data: each holds of any state.            *)

(* "a bloom-filter miss is always trusted" (README.md:26): whenever a filter is *)
(* tested, it says of every name the builder put into one, of any size and any  *)
(* number of hashes, that it is there (bloom_filter.c:34-37).                    *)
THEOREM FiltersAlwaysComplete == Spec => []FiltersComplete
<1>1. FilterBuilds
  BY QueriesAssumption, MissIsTrusted DEF FilterBuilds
<1>2. FiltersComplete
  BY <1>1 DEF FiltersComplete
<1> QED
  BY <1>2, PTL

(* A test of a filter that bloom_filter_init accepted reads nothing beyond its  *)
(* buffer, for buffers of any length (bloom_filter.c:16-19).                     *)
THEOREM FiltersAlwaysInBounds == Spec => []FiltersInBounds
<1>1. FilterReads
  <2>1. Sizes \in SUBSET Nat /\ Counts \in SUBSET Nat /\ Lengths \in SUBSET Nat
    BY QueriesAssumption
  <2> QED
    BY <2>1, ReadsInBounds DEF FilterReads
<1>2. FiltersInBounds
  BY <1>1 DEF FiltersInBounds
<1> QED
  BY <1>2, PTL

(* A well-formed question of any client, with labels of any bytes and anything  *)
(* after it, is read to its end, unless the name is longer than the buffer; its *)
(* name is read in lower case, whole or, when a label holds a zero byte, what   *)
(* comes before the first one (dns_wire.c:32-66).                                *)
THEOREM EveryNameIsRead == Spec => []EveryNameRead
<1>1. WellFormed
  <2>1. Names \in SUBSET Seq(Label) /\ Tails \in SUBSET Seq(Byte)
        /\ Headers \in SUBSET {m \in Datagram : m.header = DNS_WIRE_HEADER_LEN}
    BY QueriesAssumption
  <2> QED
    BY <2>1, EveryNameIsQuestion DEF WellFormed
<1>2. EveryNameRead
  BY <1>1 DEF EveryNameRead
<1> QED
  BY <1>2, PTL

(* Whatever bytes arrive, what is read as a question is one: the bytes up to    *)
(* the reported end, which is within the datagram, encode labels, and the name  *)
(* is their text up to the first zero byte (dns_wire.c:32-66).                   *)
THEOREM OnlyNamesAreRead == Spec => []OnlyNamesRead
<1>1. AnyBytes
  <2>1. Bodies \in SUBSET Seq(Byte)
        /\ Headers \in SUBSET {m \in Datagram : m.header = DNS_WIRE_HEADER_LEN}
    BY QueriesAssumption
  <2> QED
    BY <2>1, OnlyNamesAreQuestions DEF AnyBytes
<1>2. OnlyNamesRead
  BY <1>1 DEF OnlyNamesRead
<1> QED
  BY <1>2, PTL

(* Any datagram that fits in the receive buffer and is blocked gets one answer  *)
(* to its own question that fits in it too, as AnswersQuestion describes it: of *)
(* a query with one question, well-formed (dns_proxy.c:387-398).                 *)
THEOREM BlockedAreAnswered == Spec => []BlockedAnswered
<1>1. Blocks
  <2>1. Queries \in SUBSET {m \in Datagram : Length(m) <= DNS_WIRE_MAX_MSG_LEN}
    BY QueriesAssumption
  <2> QED
    BY <2>1, QuestionsAnswered DEF Blocks
<1>2. BlockedAnswered
  BY <1>1 DEF BlockedAnswered
<1> QED
  BY <1>2, PTL
=============================================================================
