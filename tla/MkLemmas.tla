------------------------------ MODULE MkLemmas ------------------------------
(***************************************************************************)
(* Lemmas about numbers and sequences that the proofs of several           *)
(* components need.                                                        *)
(***************************************************************************)
EXTENDS Integers, SequencesExt, SequenceTheorems, WellFoundedInduction,
        TLAPS

-----------------------------------------------------------------------------
(* A set of numbers that is not empty has a least one.  An induction over  *)
(* numbers is written with it: take the least number that is an exception. *)
LEMMA Least ==
  ASSUME NEW T, T \subseteq Nat, T # {}
  PROVE  Min(T) \in T /\ \A y \in T : Min(T) <= y
<1> DEFINE R == {ss \in Nat \X Nat : ss[1] < ss[2]}
<1>1. IsWellFoundedOn(R, Nat)
  BY NatLessThanWellFounded, Zenon DEF OpToRel
<1> HIDE DEF R
<1>2. PICK x \in T : \A y \in T : ~(<<y, x>> \in R)
  BY <1>1, WFMin
<1>3. \A y \in T : x <= y
  <2> SUFFICES ASSUME NEW y \in T, ~(x <= y) PROVE FALSE
    OBVIOUS
  <2>1. x \in Nat /\ y \in Nat
    OBVIOUS
  <2>2. y < x
    BY <2>1
  <2>3. <<y, x>> \in R
    BY <2>1, <2>2 DEF R
  <2> QED BY <1>2, <2>3
<1> QED BY <1>3 DEF Min

(* The numbers up to n that are no exceptions, when none is the first.     *)
LEMMA NoException ==
  ASSUME NEW n \in Nat, NEW T, T \subseteq 0..n,
         \A m \in T : m # 0 /\ m - 1 \in T
  PROVE  T = {}
<1> SUFFICES ASSUME T # {} PROVE FALSE
  OBVIOUS
<1>1. T \subseteq Nat
  OBVIOUS
<1>2. PICK m : m = Min(T)
  OBVIOUS
<1>3. m \in T /\ \A y \in T : m <= y
  BY <1>1, <1>2, Least
<1>4. m - 1 \in T /\ m \in Nat
  BY <1>1, <1>3
<1>5. m <= m - 1
  BY <1>3, <1>4
<1> QED BY <1>4, <1>5

-----------------------------------------------------------------------------
(* Sequences whatever their elements are.                                  *)
IsSeq(s) == s \in Seq(Range(s))

(* Every sequence is one.                                                  *)
LEMMA SeqIsSeq ==
  ASSUME NEW S, NEW s \in Seq(S)
  PROVE  IsSeq(s)
BY SeqOfRange DEF IsSeq

(* So is a function on 1..m.                                               *)
LEMMA Built ==
  ASSUME NEW m \in Nat, NEW f, f = [x \in 1..m |-> f[x]]
  PROVE  IsSeq(f) /\ Len(f) = m /\ DOMAIN f = 1..m
<1>1. DOMAIN f = 1..m
  OBVIOUS
<1>2. \A x \in 1..m : f[x] \in Range(f)
  BY <1>1 DEF Range
<1>3. f \in [1..m -> Range(f)]
  BY <1>2
<1>4. f \in Seq(Range(f))
  BY <1>3, SeqDef
<1>5. Len(f) = m
  BY <1>1, <1>4, LenProperties
<1> QED BY <1>1, <1>4, <1>5 DEF IsSeq

(* What is known of a sequence.                                            *)
LEMMA SeqFacts ==
  ASSUME NEW s, IsSeq(s)
  PROVE  /\ Len(s) \in Nat /\ DOMAIN s = 1..Len(s)
         /\ s = [x \in 1..Len(s) |-> s[x]]
BY LenProperties DEF IsSeq

(* u is s followed by t.                                                   *)
Joins(u, s, t) ==
  /\ IsSeq(u) /\ Len(u) = Len(s) + Len(t)
  /\ \A i \in 1..Len(s) : u[i] = s[i]
  /\ \A i \in 1..Len(t) : u[Len(s) + i] = t[i]

(* Concatenation.                                                          *)
LEMMA Joined ==
  ASSUME NEW s, NEW t, IsSeq(s), IsSeq(t), NEW u, u = s \o t
  PROVE  Joins(u, s, t)
<1>1. PICK S : S = Range(s) \cup Range(t)
  OBVIOUS
<1>2. s \in Seq(S) /\ t \in Seq(S)
  <2>1. Range(s) \subseteq S /\ Range(t) \subseteq S
    BY <1>1
  <2> QED BY <2>1, SeqMonotonic DEF IsSeq
<1>3. /\ u \in Seq(S) /\ Len(u) = Len(s) + Len(t)
      /\ \A i \in 1..(Len(s) + Len(t)) :
           u[i] = IF i <= Len(s) THEN s[i] ELSE t[i - Len(s)]
  BY <1>2, ConcatProperties
<1>4. Len(s) \in Nat /\ Len(t) \in Nat
  BY <1>2
<1>5. IsSeq(u)
  BY <1>3, SeqIsSeq
<1>6. ASSUME NEW i \in 1..Len(s) PROVE u[i] = s[i]
  <2>1. i \in 1..(Len(s) + Len(t)) /\ i <= Len(s)
    BY <1>4
  <2> QED BY <1>3, <2>1
<1>7. ASSUME NEW i \in 1..Len(t) PROVE u[Len(s) + i] = t[i]
  <2>1. /\ Len(s) + i \in 1..(Len(s) + Len(t)) /\ ~(Len(s) + i <= Len(s))
        /\ (Len(s) + i) - Len(s) = i
    BY <1>4
  <2> QED BY <1>3, <2>1
<1> QED BY <1>3, <1>5, <1>6, <1>7 DEF Joins

(* A sequence of two.                                                      *)
LEMMA Pair ==
  ASSUME NEW S, NEW a \in S, NEW b \in S
  PROVE  <<a>> \o <<b>> = <<a, b>>
<1>1. PICK u, v : u = <<a>> \o <<b>> /\ v = <<a, b>>
  OBVIOUS
<1>2. u \in Seq(S) /\ v \in Seq(S) /\ Len(u) = 2 /\ Len(v) = 2
  BY <1>1
<1>3. u[1] = a /\ u[2] = b /\ v[1] = a /\ v[2] = b
  BY <1>1
<1>4. \A i \in 1..2 : u[i] = v[i]
  BY <1>3
<1>5. u = v
  BY <1>2, <1>4, SeqEqual
<1> QED BY <1>1, <1>5

(* The beginning of a sequence.                                            *)
LEMMA Beginning ==
  ASSUME NEW s, IsSeq(s), NEW n \in 0..Len(s)
  PROVE  /\ IsSeq(SubSeq(s, 1, n)) /\ Len(SubSeq(s, 1, n)) = n
         /\ \A i \in 1..n : SubSeq(s, 1, n)[i] = s[i]
<1>1. Len(s) \in Nat /\ s \in Seq(Range(s)) /\ n \in Nat
  BY SeqFacts DEF IsSeq
<1>2. \A i \in 1..n : s[i] \in Range(s)
  BY <1>1, ElementOfSeq
<1>3. /\ SubSeq(s, 1, n) \in Seq(Range(s))
      /\ Len(SubSeq(s, 1, n)) = IF 1 <= n THEN n - 1 + 1 ELSE 0
      /\ \A i \in 1..(n - 1 + 1) : SubSeq(s, 1, n)[i] = s[1 + i - 1]
  BY <1>1, <1>2, SubSeqProperties
<1>4. \A i \in 1..n : i \in 1..(n - 1 + 1) /\ 1 + i - 1 = i
  BY <1>1
<1>5. IsSeq(SubSeq(s, 1, n))
  BY <1>3, SeqIsSeq
<1>6. Len(SubSeq(s, 1, n)) = n
  BY <1>1, <1>3
<1> QED BY <1>3, <1>4, <1>5, <1>6

(* The place of a number among sums that grow: P[j] is where the j-th of n *)
(* pieces ends.                                                            *)
Places(P, n) ==
  /\ P \in [0..n -> Nat] /\ P[0] = 0
  /\ \A j \in 1..n : P[j - 1] <= P[j]

(* The ends grow.                                                          *)
LEMMA PlacesGrow ==
  ASSUME NEW n \in Nat, NEW P, Places(P, n)
  PROVE  \A i, j \in 0..n : i <= j => P[i] <= P[j]
<1> SUFFICES ASSUME NEW i \in 0..n
             PROVE  \A j \in 0..n : i <= j => P[i] <= P[j]
  OBVIOUS
<1> DEFINE T == {j \in 0..n : i <= j /\ ~(P[i] <= P[j])}
<1>1. \A j \in 0..n : P[j] \in Nat
  BY DEF Places
<1>2. ASSUME NEW m \in T PROVE m # 0 /\ m - 1 \in T
  <2>1. m \in 0..n /\ i <= m /\ ~(P[i] <= P[m])
    OBVIOUS
  <2>2. m # i
    BY <1>1, <2>1
  <2>3. m # 0 /\ m - 1 \in 0..n /\ i <= m - 1 /\ m \in 1..n
    BY <2>1, <2>2
  <2>4. P[m - 1] <= P[m] /\ P[m] \in Nat /\ P[i] \in Nat /\ P[m - 1] \in Nat
    BY <1>1, <2>1, <2>3 DEF Places
  <2>5. ~(P[i] <= P[m - 1])
    BY <2>1, <2>4
  <2> QED BY <2>3, <2>5
<1>3. T \subseteq 0..n
  OBVIOUS
<1> HIDE DEF T
<1>4. T = {}
  BY <1>2, <1>3, NoException
<1> QED BY <1>4 DEF T

(* Every number up to the last end lies in one piece.                      *)
LEMMA Locate ==
  ASSUME NEW n \in Nat, NEW P, Places(P, n), NEW p \in 1..P[n]
  PROVE  \E j \in 1..n : \E x \in 1..(P[j] - P[j - 1]) : p = P[j - 1] + x
<1> DEFINE T == {j \in 0..n : p <= P[j]}
<1>1. P[n] \in Nat /\ n \in T /\ T \subseteq Nat /\ P[0] = 0
  BY DEF Places
<1>2. PICK j : j = Min(T)
  OBVIOUS
<1>3. j \in T /\ \A y \in T : j <= y
  <2> HIDE DEF T
  <2> QED BY <1>1, <1>2, Least
<1>4. j # 0
  BY <1>1, <1>3
<1>5. j \in 1..n /\ j - 1 \in 0..n
  BY <1>3, <1>4
<1>6. ~(p <= P[j - 1])
  BY <1>3, <1>5
<1>7. P[j] \in Nat /\ P[j - 1] \in Nat /\ p <= P[j] /\ p \in Nat
  BY <1>1, <1>3, <1>5 DEF Places
<1>8. p - P[j - 1] \in 1..(P[j] - P[j - 1]) /\ p = P[j - 1] + (p - P[j - 1])
  BY <1>6, <1>7
<1> QED BY <1>5, <1>8

(* The sequences in ss, and where each of them ends in their               *)
(* concatenation.                                                          *)
Pieces(ss, n, P) ==
  /\ ss = [j \in 1..n |-> ss[j]] /\ Places(P, n)
  /\ \A j \in 1..n : IsSeq(ss[j]) /\ P[j] = P[j - 1] + Len(ss[j])

(* The recursive function FlattenSeq is made of exists.                    *)
LEMMA FlattenExists ==
  ASSUME NEW n \in Nat \ {0}, NEW ss
  PROVE  \E g : g = [i \in 1..n |-> IF i = 1 THEN ss[i]
                                    ELSE g[i - 1] \o ss[i]]
<1> DEFINE Rec(g, m) ==
             /\ g = [i \in 1..m |-> g[i]]
             /\ \A i \in 1..m : g[i] = IF i = 1 THEN ss[i]
                                       ELSE g[i - 1] \o ss[i]
           T == {m \in 0..n : ~ \E g : Rec(g, m)}
<1>1. ASSUME NEW m \in T PROVE m # 0 /\ m - 1 \in T
  <2>1. m \in 0..n /\ ~ \E g : Rec(g, m)
    OBVIOUS
  <2>2. Rec([i \in 1..0 |-> 0], 0)
    OBVIOUS
  <2>3. m # 0
    BY <2>1, <2>2
  <2>4. m - 1 \in 0..n /\ m \in 1..n
    BY <2>1, <2>3
  <2>5. ASSUME NEW g, Rec(g, m - 1) PROVE FALSE
    <3> DEFINE h == [i \in 1..m |-> IF i = m
                       THEN IF i = 1 THEN ss[i] ELSE g[i - 1] \o ss[i]
                       ELSE g[i]]
    <3>1. \A i \in 1..m : i # m => i \in 1..(m - 1)
      BY <2>4
    <3>2. \A i \in 1..m : i # 1 => i - 1 \in 1..m /\ i - 1 # m
      BY <2>4
    <3>3. \A i \in 1..m : i # 1 => h[i - 1] = g[i - 1]
      BY <3>2
    <3>4. ASSUME NEW i \in 1..m
          PROVE  h[i] = IF i = 1 THEN ss[i] ELSE h[i - 1] \o ss[i]
      <4>1. CASE i = m
        BY <3>3, <4>1
      <4>2. CASE i # m
        <5>1. h[i] = g[i] /\ i \in 1..(m - 1)
          BY <3>1, <4>2
        <5>2. g[i] = IF i = 1 THEN ss[i] ELSE g[i - 1] \o ss[i]
          BY <2>5, <5>1
        <5> QED BY <3>3, <5>1, <5>2
      <4> QED BY <4>1, <4>2
    <3>5. h = [i \in 1..m |-> h[i]]
      OBVIOUS
    <3> HIDE DEF h
    <3>6. Rec(h, m)
      BY <3>4, <3>5
    <3> QED BY <2>1, <3>6
  <2> QED BY <2>3, <2>4, <2>5
<1>2. T \subseteq 0..n
  OBVIOUS
<1> HIDE DEF T
<1>3. T = {}
  BY <1>1, <1>2, NoException
<1>4. PICK g : Rec(g, n)
  BY <1>3 DEF T
<1>5. g = [i \in 1..n |-> IF i = 1 THEN ss[i] ELSE g[i - 1] \o ss[i]]
  BY <1>4
<1> QED BY <1>5

(* f is a sequence in which the x-th element of the j-th piece comes x     *)
(* places after the end of piece j - 1.                                    *)
Flattened(f, ss, n, P) ==
  /\ IsSeq(f) /\ Len(f) = P[n]
  /\ \A j \in 1..n : \A x \in 1..Len(ss[j]) : f[P[j - 1] + x] = ss[j][x]

(* What FlattenSeq returns.                                                *)
LEMMA Flat ==
  ASSUME NEW n \in Nat, NEW ss, NEW P, Pieces(ss, n, P),
         NEW f, f = FlattenSeq(ss)
  PROVE  Flattened(f, ss, n, P)
<1> USE DEF Flattened
<1>1. IsSeq(ss) /\ Len(ss) = n
  BY Built DEF Pieces
<1>2. CASE n = 0
  <2>1. f = ss
    BY <1>1, <1>2 DEF FlattenSeq
  <2> QED BY <1>1, <1>2, <2>1 DEF Pieces, Places
<1>3. CASE n # 0
  <2> DEFINE F == CHOOSE g : g = [i \in 1..n |-> IF i = 1 THEN ss[i]
                                    ELSE g[i - 1] \o ss[i]]
  <2>1. f = F[n]
    BY <1>1, <1>3, Zenon DEF FlattenSeq
  <2>2. F = [i \in 1..n |-> IF i = 1 THEN ss[i] ELSE F[i - 1] \o ss[i]]
    <3>1. n \in Nat \ {0}
      BY <1>3
    <3>2. \E g : g = [i \in 1..n |-> IF i = 1 THEN ss[i]
                                     ELSE g[i - 1] \o ss[i]]
      BY <3>1, FlattenExists
    <3> QED BY <3>2, Zenon
  <2> HIDE DEF F
  <2>3. \A i \in 1..n : F[i] = IF i = 1 THEN ss[i] ELSE F[i - 1] \o ss[i]
    BY <2>2, Zenon
  <2> DEFINE Good(i) ==
               /\ IsSeq(F[i]) /\ Len(F[i]) = P[i]
               /\ \A j \in 1..i : \A x \in 1..Len(ss[j]) :
                    F[i][P[j - 1] + x] = ss[j][x]
             T == {m \in 0..n : m # 0 /\ ~Good(m)}
  <2>4. ASSUME NEW m \in T PROVE m # 0 /\ m - 1 \in T
    <3>1. m \in 1..n /\ m \in Nat /\ ~Good(m) /\ m - 1 \in 0..n
      OBVIOUS
    <3>2. /\ IsSeq(ss[m]) /\ P[m] = P[m - 1] + Len(ss[m])
          /\ P[m - 1] \in Nat /\ P[0] = 0 /\ Len(ss[m]) \in Nat
      BY <3>1, SeqFacts DEF Pieces, Places
    <3>3. m # 1
      <4>1. SUFFICES ASSUME m = 1 PROVE FALSE
        OBVIOUS
      <4>2. F[1] = ss[1] /\ P[1] = Len(ss[1])
        BY <2>3, <3>1, <3>2, <4>1
      <4>3. Good(1)
        <5>1. \A j \in 1..1 : j = 1 /\ P[j - 1] = 0
          BY <3>2
        <5>2. \A x \in 1..Len(ss[1]) : 0 + x = x
          OBVIOUS
        <5> QED BY <3>2, <4>1, <4>2, <5>1, <5>2
      <4> QED BY <3>1, <4>1, <4>3
    <3>4. F[m] = F[m - 1] \o ss[m]
      BY <2>3, <3>1, <3>3
    <3>5. ASSUME Good(m - 1) PROVE FALSE
      <4>1. /\ IsSeq(F[m]) /\ Len(F[m]) = P[m]
            /\ \A i \in 1..P[m - 1] : F[m][i] = F[m - 1][i]
            /\ \A i \in 1..Len(ss[m]) : F[m][P[m - 1] + i] = ss[m][i]
        <5>1. IsSeq(F[m - 1]) /\ Len(F[m - 1]) = P[m - 1]
          BY <3>5
        <5>2. Joins(F[m], F[m - 1], ss[m])
          <6> HIDE DEF Good
          <6> QED BY <3>2, <3>4, <5>1, Joined, Zenon
        <5> QED BY <3>2, <5>1, <5>2 DEF Joins
      <4>2. ASSUME NEW j \in 1..m, NEW x \in 1..Len(ss[j])
            PROVE  F[m][P[j - 1] + x] = ss[j][x]
        <5>1. CASE j = m
          BY <4>1, <5>1
        <5>2. CASE j # m
          <6>1. /\ j \in 1..(m - 1) /\ j \in 0..n /\ j - 1 \in 0..n
                /\ j <= m - 1 /\ j \in 1..n
            BY <3>1, <5>2
          <6>2. P[j] = P[j - 1] + Len(ss[j]) /\ P[j - 1] \in Nat
            BY <6>1 DEF Pieces, Places
          <6>3. P[j] <= P[m - 1]
            BY <3>1, <6>1, PlacesGrow DEF Pieces
          <6>4. Len(ss[j]) \in Nat
            BY <6>1, SeqFacts DEF Pieces
          <6>5. P[j - 1] + x \in 1..P[m - 1]
            <7>1. PICK a, l, b : a = P[j - 1] /\ l = Len(ss[j]) /\ b = P[m - 1]
              OBVIOUS
            <7>2. a \in Nat /\ l \in Nat /\ b \in Nat /\ a + l <= b
              BY <3>2, <6>2, <6>3, <6>4, <7>1
            <7>3. x \in 1..l
              BY <7>1
            <7>4. a + x \in 1..b
              BY <7>2, <7>3
            <7> QED BY <7>1, <7>4
          <6> QED BY <3>5, <4>1, <6>1, <6>5
        <5> QED BY <5>1, <5>2
      <4> QED BY <3>1, <4>1, <4>2
    <3> QED BY <3>1, <3>3, <3>5
  <2>5. T \subseteq 0..n
    OBVIOUS
  <2> HIDE DEF T
  <2>6. T = {}
    BY <2>4, <2>5, NoException
  <2>7. Good(n)
    BY <1>3, <2>6 DEF T
  <2> QED BY <2>1, <2>7
<1> QED BY <1>2, <1>3

=============================================================================
