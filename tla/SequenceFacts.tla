--------------------------- MODULE SequenceFacts ---------------------------
(***************************************************************************)
(* Induction over sequences, and what FlattenSeq computes of any sequence  *)
(* of sequences, for the theorems of ReplyTextProofs.                      *)
(*                                                                         *)
(* The induction rules of the library take the predicate as a parameter.   *)
(* Here it is a set, so that a rule is an ordinary first-order fact: a set *)
(* that 0 is in, and n + 1 whenever n is, has every natural number in it.  *)
(* Were n missing, x |-> x - 1 would map the missing numbers up to n, a    *)
(* finite set, one-to-one into itself without reaching n.                  *)
(***************************************************************************)
EXTENDS Integers, Sequences, SequencesExt, FiniteSets, FiniteSetTheorems,
        SequenceTheorems, TLAPS

(* Induction over the natural numbers.                                     *)
LEMMA SetInduction ==
  ASSUME NEW S, 0 \in S, \A n \in Nat : n \in S => n + 1 \in S
  PROVE  Nat \subseteq S
<1>1. SUFFICES ASSUME NEW n \in Nat, n \notin S PROVE FALSE
  OBVIOUS
<1> DEFINE T == (0..n) \ S
<1> DEFINE f == [x \in T |-> x - 1]
<1>2. IsFiniteSet(T)
  <2>1. IsFiniteSet(0..n)
    BY FS_Interval
  <2>2. QED
    BY <2>1, FS_Subset
<1>3. f \in [T -> T]
  <2>1. \A x \in T : x - 1 \in T
    OBVIOUS
  <2>2. QED
    BY <2>1
<1>4. f \in Injection(T, T)
  BY <1>3 DEF Injection, IsInjective
<1>5. f \in Surjection(T, T)
  BY <1>2, <1>4, FS_Injection
<1>6. n \in T
  BY <1>1
<1>7. \A x \in T : f[x] = x - 1
  OBVIOUS
<1> HIDE DEF f
<1>8. PICK x \in T : f[x] = n
  BY <1>5, <1>6 DEF Surjection
<1>9. QED
  BY <1>7, <1>8

(* What holds of <<>>, and of Append(s, x) whenever of s, holds of all.    *)
LEMMA SeqInduction ==
  ASSUME NEW T, NEW P, <<>> \in P,
         \A s \in Seq(T), x \in T : s \in P => Append(s, x) \in P
  PROVE  Seq(T) \subseteq P
<1> DEFINE S == {n \in Nat : \A s \in Seq(T) : Len(s) = n => s \in P}
<1>1. 0 \in S
  <2>1. \A s \in Seq(T) : Len(s) = 0 => s = <<>>
    OBVIOUS
  <2>2. QED
    BY <2>1
<1>2. ASSUME NEW n \in Nat, n \in S PROVE n + 1 \in S
  <2>1. SUFFICES ASSUME NEW s \in Seq(T), Len(s) = n + 1 PROVE s \in P
    OBVIOUS
  <2> DEFINE r == SubSeq(s, 1, n)
  <2>2. r \in Seq(T) /\ Len(r) = n
    BY <2>1
  <2>3. s[n + 1] \in T
    BY <2>1
  <2>4. s = Append(r, s[n + 1])
    BY <2>1, <2>2, <2>3
  <2>5. r \in P
    BY <1>2, <2>2
  <2> HIDE DEF r
  <2>6. Append(r, s[n + 1]) \in P
    BY <2>2, <2>3, <2>5
  <2>7. QED
    BY <2>4, <2>6
<1>3. Nat \subseteq S
  <2> HIDE DEF S
  <2>1. QED
    BY <1>1, <1>2, SetInduction
<1>4. ASSUME NEW s \in Seq(T) PROVE s \in P
  BY <1>3
<1>5. QED
  BY <1>4

-----------------------------------------------------------------------------
(* The recursive function of FlattenSeq, for the first n sequences.        *)
IsFlattening(f, ss, n) ==
  f = [i \in 1..n |-> IF i = 1 THEN ss[i] ELSE f[i-1] \o ss[i]]

LEMMA FlattenUnfold ==
  ASSUME NEW ss, Len(ss) # 0
  PROVE  FlattenSeq(ss) = (CHOOSE h : IsFlattening(h, ss, Len(ss)))[Len(ss)]
BY Zenon DEF FlattenSeq, IsFlattening

(* It exists,                                                              *)
LEMMA FlatteningExists ==
  ASSUME NEW ss, NEW n \in Nat
  PROVE  \E f : IsFlattening(f, ss, n)
<1> DEFINE S == {m \in Nat : \E f : IsFlattening(f, ss, m)}
<1>1. 0 \in S
  <2>1. IsFlattening([i \in 1..0 |-> ss[i]], ss, 0)
    BY DEF IsFlattening
  <2>2. QED
    BY <2>1
<1>2. ASSUME NEW m \in Nat, m \in S PROVE m + 1 \in S
  <2>1. PICK f : IsFlattening(f, ss, m)
    BY <1>2
  <2> DEFINE last == IF m = 0 THEN ss[m + 1] ELSE f[m] \o ss[m + 1]
  <2> DEFINE g == [i \in 1..(m + 1) |-> IF i = m + 1 THEN last ELSE f[i]]
  <2>2. \A i \in 1..m : g[i] = f[i]
    OBVIOUS
  <2>3. g[m + 1] = last
    OBVIOUS
  <2>4. \A i \in 1..m : f[i] = IF i = 1 THEN ss[i] ELSE f[i-1] \o ss[i]
    BY <2>1 DEF IsFlattening
  <2>5. \A i \in 1..(m + 1) : g[i] = IF i = 1 THEN ss[i] ELSE g[i-1] \o ss[i]
    <3> HIDE DEF g
    <3>1. ASSUME NEW i \in 1..m PROVE g[i] = IF i = 1 THEN ss[i] ELSE g[i-1] \o ss[i]
      BY <2>2, <2>4
    <3>2. g[m + 1] = IF m + 1 = 1 THEN ss[m + 1] ELSE g[m] \o ss[m + 1]
      BY <2>2, <2>3
    <3>3. QED
      BY <3>1, <3>2
  <2>6. g = [i \in 1..(m + 1) |-> g[i]]
    OBVIOUS
  <2>7. IsFlattening(g, ss, m + 1)
    <3> HIDE DEF g
    <3>1. QED
      BY <2>5, <2>6 DEF IsFlattening
  <2>8. QED
    BY <2>7
<1>3. Nat \subseteq S
  <2> HIDE DEF S
  <2>1. QED
    BY <1>1, <1>2, SetInduction
<1>4. QED
  BY <1>3

(* it satisfies its equation,                                              *)
LEMMA FlatteningAt ==
  ASSUME NEW ss, NEW n \in Nat, NEW f, IsFlattening(f, ss, n)
  PROVE  \A i \in 1..n : f[i] = IF i = 1 THEN ss[i] ELSE f[i-1] \o ss[i]
<1> DEFINE g == [j \in 1..n |-> IF j = 1 THEN ss[j] ELSE f[j-1] \o ss[j]]
<1>1. f = g
  BY DEF IsFlattening
<1>2. \A i \in 1..n : g[i] = IF i = 1 THEN ss[i] ELSE f[i-1] \o ss[i]
  OBVIOUS
<1> HIDE DEF g
<1>3. QED
  BY <1>1, <1>2

LEMMA FlatteningFirst ==
  ASSUME NEW ss, NEW f, IsFlattening(f, ss, 1)
  PROVE  f[1] = ss[1]
<1> DEFINE g == [j \in 1..1 |-> IF j = 1 THEN ss[j] ELSE f[j-1] \o ss[j]]
<1>1. f = g
  BY DEF IsFlattening
<1>2. g[1] = ss[1]
  OBVIOUS
<1>3. QED
  BY <1>1, <1>2

(* and is determined by the sequences it has gone through.                 *)
LEMMA FlatteningUnique ==
  ASSUME NEW ss, NEW tt, NEW f, NEW g, NEW m \in Nat, NEW n \in Nat
  PROVE  IsFlattening(f, ss, m) /\ IsFlattening(g, tt, n) /\ (\A i \in 1..m : ss[i] = tt[i])
           => \A i \in (1..m) \cap (1..n) : f[i] = g[i]
<1>1. SUFFICES ASSUME IsFlattening(f, ss, m), IsFlattening(g, tt, n),
                      \A i \in 1..m : ss[i] = tt[i]
               PROVE  \A i \in (1..m) \cap (1..n) : f[i] = g[i]
  OBVIOUS
<1>2. \A i \in 1..m : f[i] = IF i = 1 THEN ss[i] ELSE f[i-1] \o ss[i]
  BY <1>1, FlatteningAt
<1>3. \A i \in 1..n : g[i] = IF i = 1 THEN tt[i] ELSE g[i-1] \o tt[i]
  BY <1>1, FlatteningAt
<1> DEFINE S == {k \in Nat : k \in (1..m) \cap (1..n) => f[k] = g[k]}
<1>4. 0 \in S
  OBVIOUS
<1>5. ASSUME NEW k \in Nat, k \in S PROVE k + 1 \in S
  <2>1. SUFFICES ASSUME k + 1 \in 1..m, k + 1 \in 1..n PROVE f[k + 1] = g[k + 1]
    OBVIOUS
  <2>2. PICK j : j = k + 1
    OBVIOUS
  <2>3. j \in 1..m /\ j \in 1..n /\ (j = 1 <=> k = 0)
    BY <2>1, <2>2
  <2>4. j - 1 = k
    BY <2>2
  <2>5. f[j] = IF j = 1 THEN ss[j] ELSE f[j-1] \o ss[j]
    BY <1>2, <2>3
  <2>6. g[j] = IF j = 1 THEN tt[j] ELSE g[j-1] \o tt[j]
    BY <1>3, <2>3
  <2>7. k # 0 => f[k] = g[k]
    BY <1>5, <2>1
  <2>8. ss[j] = tt[j]
    BY <1>1, <2>3
  <2>9. f[j] = g[j]
    BY <2>3, <2>4, <2>5, <2>6, <2>7, <2>8
  <2>10. QED
    BY <2>2, <2>9
<1>6. Nat \subseteq S
  <2> HIDE DEF S
  <2>1. QED
    BY <1>4, <1>5, SetInduction
<1>7. QED
  BY <1>6

-----------------------------------------------------------------------------
(* FlattenSeq appends the last sequence to the others.                     *)
LEMMA FlattenLast ==
  ASSUME NEW T, NEW ss \in Seq(Seq(T)), NEW x \in Seq(T)
  PROVE  FlattenSeq(Append(ss, x)) = FlattenSeq(ss) \o x
<1> DEFINE tt == Append(ss, x)
<1> DEFINE n == Len(ss)
<1>1. n \in Nat /\ Len(tt) = n + 1 /\ tt[n + 1] = x /\ \A i \in 1..n : ss[i] = tt[i]
  OBVIOUS
<1>2. CASE ss = <<>>
  <2>1. n = 0
    BY <1>2
  <2>2. FlattenSeq(ss) = <<>>
    BY <1>2, <2>1 DEF FlattenSeq
  <2>3. PICK g : g = CHOOSE h : IsFlattening(h, tt, 1)
    OBVIOUS
  <2>4. IsFlattening(g, tt, 1)
    BY <2>3, FlatteningExists
  <2>5. tt[1] = x
    BY <1>1, <2>1
  <2>6. g[1] = x
    <3> HIDE DEF tt
    <3>1. QED
      BY <2>4, <2>5, FlatteningFirst
  <2>7. Len(tt) = 1
    BY <1>1, <2>1
  <2>8. FlattenSeq(tt) = g[1]
    <3> HIDE DEF tt
    <3>1. Len(tt) # 0
      BY <2>7
    <3>2. QED
      BY <2>3, <2>7, <3>1, FlattenUnfold, Zenon
  <2>9. <<>> \o x = x
    OBVIOUS
  <2>10. QED
    BY <2>2, <2>6, <2>8, <2>9
<1>3. CASE ss # <<>>
  <2>1. n # 0
    BY <1>3
  <2>2. PICK f : f = CHOOSE h : IsFlattening(h, ss, n)
    OBVIOUS
  <2>3. PICK g : g = CHOOSE h : IsFlattening(h, tt, n + 1)
    OBVIOUS
  <2>4. IsFlattening(f, ss, n)
    BY <1>1, <2>2, FlatteningExists
  <2>5. IsFlattening(g, tt, n + 1)
    BY <1>1, <2>3, FlatteningExists
  <2>6. PICK m : m = n + 1
    OBVIOUS
  <2>7. m \in Nat /\ n \in 1..m /\ n \in 1..n /\ m \in 1..m /\ n = m - 1 /\ m # 1
    BY <1>1, <2>1, <2>6
  <2>8. IsFlattening(g, tt, m)
    BY <2>5, <2>6
  <2>9. f[n] = g[n]
    <3> HIDE DEF n, tt
    <3>1. \A i \in (1..n) \cap (1..m) : f[i] = g[i]
      BY <1>1, <2>4, <2>7, <2>8, FlatteningUnique
    <3>2. QED
      BY <3>1, <2>7
  <2>10. g[n + 1] = g[n] \o x
    <3> HIDE DEF n, tt
    <3>1. \A i \in 1..m : g[i] = IF i = 1 THEN tt[i] ELSE g[i-1] \o tt[i]
      BY <2>7, <2>8, FlatteningAt
    <3>2. g[m] = g[m-1] \o tt[m]
      BY <2>7, <3>1
    <3>3. QED
      BY <1>1, <2>6, <2>7, <3>2
  <2>11. FlattenSeq(ss) = f[n]
    BY <1>1, <2>1, <2>2, FlattenUnfold
  <2>12. FlattenSeq(tt) = g[n + 1]
    <3> HIDE DEF n, tt
    <3>1. Len(tt) = n + 1 /\ Len(tt) # 0
      BY <1>1
    <3>2. QED
      BY <2>3, <3>1, FlattenUnfold, Zenon
  <2>13. QED
    BY <2>9, <2>10, <2>11, <2>12
<1>4. QED
  BY <1>2, <1>3

LEMMA FlattenEmpty == FlattenSeq(<<>>) = <<>>
BY DEF FlattenSeq

(* It makes a sequence of the elements of its sequences,                   *)
LEMMA FlattenType ==
  ASSUME NEW T
  PROVE  \A ss \in Seq(Seq(T)) : FlattenSeq(ss) \in Seq(T)
<1> DEFINE P == {ss \in Seq(Seq(T)) : FlattenSeq(ss) \in Seq(T)}
<1>1. <<>> \in P
  <2>1. <<>> \in Seq(Seq(T)) /\ <<>> \in Seq(T)
    OBVIOUS
  <2>2. QED
    BY <2>1, FlattenEmpty, Zenon
<1>2. ASSUME NEW ss \in Seq(Seq(T)), NEW x \in Seq(T), ss \in P PROVE Append(ss, x) \in P
  <2>1. FlattenSeq(Append(ss, x)) = FlattenSeq(ss) \o x
    BY FlattenLast
  <2>2. FlattenSeq(ss) \in Seq(T)
    BY <1>2
  <2>3. FlattenSeq(ss) \o x \in Seq(T)
    BY <2>2
  <2>4. Append(ss, x) \in Seq(Seq(T))
    OBVIOUS
  <2>5. QED
    BY <2>1, <2>3, <2>4
<1>3. Seq(Seq(T)) \subseteq P
  <2> HIDE DEF P
  <2>1. QED
    BY <1>1, <1>2, SeqInduction
<1>4. QED
  BY <1>3

(* and distributes over concatenation.                                     *)
LEMMA FlattenConcat ==
  ASSUME NEW T, NEW ss \in Seq(Seq(T))
  PROVE  \A tt \in Seq(Seq(T)) : FlattenSeq(ss \o tt) = FlattenSeq(ss) \o FlattenSeq(tt)
<1> DEFINE P == {tt \in Seq(Seq(T)) : FlattenSeq(ss \o tt) = FlattenSeq(ss) \o FlattenSeq(tt)}
<1>1. FlattenSeq(ss) \in Seq(T)
  BY FlattenType
<1>2. <<>> \in P
  <2>1. ss \o <<>> = ss
    OBVIOUS
  <2>2. FlattenSeq(ss) \o <<>> = FlattenSeq(ss)
    BY <1>1
  <2>3. <<>> \in Seq(Seq(T))
    OBVIOUS
  <2>4. QED
    BY <2>1, <2>2, <2>3, FlattenEmpty, Zenon
<1>3. ASSUME NEW tt \in Seq(Seq(T)), NEW x \in Seq(T), tt \in P PROVE Append(tt, x) \in P
  <2>1. ss \o Append(tt, x) = Append(ss \o tt, x) /\ ss \o tt \in Seq(Seq(T))
    OBVIOUS
  <2>2. FlattenSeq(Append(ss \o tt, x)) = FlattenSeq(ss \o tt) \o x
    BY <2>1, FlattenLast
  <2>3. FlattenSeq(Append(tt, x)) = FlattenSeq(tt) \o x
    BY FlattenLast
  <2>4. FlattenSeq(ss \o tt) = FlattenSeq(ss) \o FlattenSeq(tt)
    BY <1>3
  <2>5. FlattenSeq(tt) \in Seq(T)
    BY FlattenType
  <2>6. (FlattenSeq(ss) \o FlattenSeq(tt)) \o x = FlattenSeq(ss) \o (FlattenSeq(tt) \o x)
    BY <1>1, <2>5, ConcatAssociative
  <2>7. Append(tt, x) \in Seq(Seq(T))
    OBVIOUS
  <2>8. FlattenSeq(ss \o Append(tt, x)) = FlattenSeq(ss) \o FlattenSeq(Append(tt, x))
    BY <2>1, <2>2, <2>3, <2>4, <2>6
  <2>9. QED
    BY <2>7, <2>8
<1>4. Seq(Seq(T)) \subseteq P
  <2> HIDE DEF P
  <2>1. QED
    BY <1>2, <1>3, SeqInduction
<1>5. QED
  BY <1>4
=============================================================================
