----------------------------- MODULE WireProofs -----------------------------
(***************************************************************************)
(* Induction for the proofs about the loops of the model, and what it      *)
(* shows first: what is written is what is read.  For every builtin type   *)
(* of BinaryTypes and every DataSetMessage the decoder applied to the      *)
(* encoded bytes gives the value back, calcSize is the number of these     *)
(* bytes, and the decoder refuses the bytes as soon as one is missing.     *)
(*                                                                         *)
(* A loop is a recursive function on an interval of the numbers, here and  *)
(* in the community modules; what it computes is proved by the least       *)
(* number principle, which has no operator as a parameter.                 *)
(***************************************************************************)
EXTENDS DataSetMessage, SequenceTheorems, FiniteSetTheorems, WellFoundedInduction, TLAPS

---------------------------------------------------------------------------
(* Induction, and loops that flatten and that add up. *)

\* Every set of numbers that is not empty has a least element.
LEMMA LeastNumber ==
    ASSUME NEW S, S \subseteq Nat, S # {}
    PROVE  \E n \in S : \A k \in S : n <= k
<1> DEFINE Less == {p \in Nat \X Nat : p[1] < p[2]}
<1>1. IsWellFoundedOn(Less, Nat)
  BY NatLessThanWellFounded DEF OpToRel
<1>2. PICK n \in S : \A k \in S : ~ (<<k, n>> \in Less)
  <2> HIDE DEF Less
  <2> QED
    BY <1>1, WFMin
<1>3. ASSUME NEW k \in S
      PROVE  n <= k
  <2>1. k \in Nat /\ n \in Nat
    OBVIOUS
  <2>2. k < n => <<k, n>> \in Less
    BY <2>1
  <2> QED
    BY <1>2, <2>1, <2>2
<1> QED
  BY <1>2, <1>3

\* Induction over the numbers, for a set in the place of a predicate.
LEMMA Induction ==
    ASSUME NEW T, 0 \in T, \A n \in Nat : n \in T => n + 1 \in T
    PROVE  \A n \in Nat : n \in T
<1> DEFINE S == {n \in Nat : n \notin T}
<1> SUFFICES ASSUME S # {} PROVE FALSE
  OBVIOUS
<1>1. PICK n \in S : \A k \in S : n <= k
  <2>1. S \subseteq Nat
    OBVIOUS
  <2> HIDE DEF S
  <2> QED
    BY <2>1, LeastNumber
<1>2. n - 1 \in Nat /\ (n - 1) + 1 = n
  OBVIOUS
<1>3. n - 1 \in T
  BY <1>1, <1>2
<1> QED
  BY <1>2, <1>3

---------------------------------------------------------------------------
(* FlattenSeq. *)

\* Concatenating one sequence after the other.
Flattens(f, seqs, n) == f = [i \in 1..n |-> IF i = 1 THEN seqs[i] ELSE f[i - 1] \o seqs[i]]

\* The recursive function FlattenSeq is defined with exists.
LEMMA FlattenExists ==
    ASSUME NEW seqs, NEW n \in Nat
    PROVE  \E f : Flattens(f, seqs, n)
<1> DEFINE Has(m) == \E f : Flattens(f, seqs, m)
<1>1. Has(0)
  <2>1. Flattens([i \in 1..0 |-> seqs[i]], seqs, 0)
    BY DEF Flattens
  <2> QED
    BY <2>1
<1>2. ASSUME NEW m \in Nat, Has(m)
      PROVE  Has(m + 1)
  <2>1. PICK f : Flattens(f, seqs, m)
    BY <1>2
  <2> DEFINE g == [i \in 1..(m + 1) |-> IF i # m + 1 THEN f[i]
                                        ELSE IF i = 1 THEN seqs[i] ELSE f[m] \o seqs[i]]
  <2>2. ASSUME NEW i \in 1..(m + 1)
        PROVE  g[i] = IF i = 1 THEN seqs[i] ELSE g[i - 1] \o seqs[i]
    <3>1. CASE i = m + 1
      <4>1. i # 1 => i - 1 \in 1..(m + 1) /\ i - 1 = m /\ i - 1 # m + 1
        BY <3>1
      <4>2. i # 1 => g[i - 1] = f[m]
        BY <4>1
      <4> QED
        BY <3>1, <4>2
    <3>2. CASE i # m + 1
      <4>1. i \in 1..m /\ (i # 1 => i - 1 \in 1..(m + 1) /\ i - 1 # m + 1)
        BY <3>2
      <4>2. f[i] = IF i = 1 THEN seqs[i] ELSE f[i - 1] \o seqs[i]
        BY <2>1, <4>1 DEF Flattens
      <4> QED
        BY <3>2, <4>1, <4>2
    <3> QED
      BY <3>1, <3>2
  <2>3. Flattens(g, seqs, m + 1)
    BY <2>2 DEF Flattens
  <2> QED
    BY <2>3
<1> DEFINE T == {m \in Nat : Has(m)}
<1> HIDE DEF Has
<1>3. 0 \in T /\ \A m \in Nat : m \in T => m + 1 \in T
  BY <1>1, <1>2
<1>4. n \in T
  <2> HIDE DEF T
  <2> QED
    BY <1>3, Induction
<1>5. Has(n)
  BY <1>4
<1> QED
  BY <1>5 DEF Has

\* FlattenSeq is the last value of that function.
LEMMA FlattenIsLast ==
    ASSUME NEW seqs, Len(seqs) \in Nat, Len(seqs) # 0
    PROVE  \E f : Flattens(f, seqs, Len(seqs)) /\ FlattenSeq(seqs) = f[Len(seqs)]
<1> DEFINE F == CHOOSE f : f = [i \in 1..Len(seqs) |->
                                   IF i = 1 THEN seqs[i] ELSE f[i - 1] \o seqs[i]]
<1>1. F = [i \in 1..Len(seqs) |-> IF i = 1 THEN seqs[i] ELSE F[i - 1] \o seqs[i]]
  BY FlattenExists DEF Flattens
<1>2. FlattenSeq(seqs) = F[Len(seqs)]
  BY DEF FlattenSeq
<1> QED
  BY <1>1, <1>2 DEF Flattens

\* Two such functions agree as far as their sequences do.
Agree(s, t, l) == \A i \in 1..l : s[i] = t[i]

\* There is at most one such function.
LEMMA FlattensUnique ==
    ASSUME NEW s, NEW t, NEW n \in Nat, NEW m \in Nat, NEW f, NEW g,
           Flattens(f, s, n), Flattens(g, t, m),
           NEW l \in Nat, l <= n, l <= m, Agree(s, t, l)
    PROVE  Agree(f, g, l)
<1> USE DEF Agree
<1> DEFINE T == {k \in Nat : k + 1 <= l => f[k + 1] = g[k + 1]}
<1>1. 0 \in T
  BY DEF Flattens
<1>2. ASSUME NEW k \in Nat, k \in T
      PROVE  k + 1 \in T
  <2> SUFFICES ASSUME (k + 1) + 1 <= l
               PROVE  f[(k + 1) + 1] = g[(k + 1) + 1]
    OBVIOUS
  <2>1. f[k + 1] = g[k + 1]
    BY <1>2
  <2>2. (k + 1) + 1 \in 1..n /\ (k + 1) + 1 \in 1..m /\ (k + 1) + 1 \in 1..l
        /\ (k + 1) + 1 # 1 /\ ((k + 1) + 1) - 1 = k + 1
    OBVIOUS
  <2>3. f[(k + 1) + 1] = f[k + 1] \o s[(k + 1) + 1]
    BY ZenonT(40), <2>2 DEF Flattens
  <2>4. g[(k + 1) + 1] = g[k + 1] \o t[(k + 1) + 1]
    BY <2>2 DEF Flattens
  <2> QED
    BY <2>1, <2>2, <2>3, <2>4
<1>3. \A k \in Nat : k \in T
  <2> HIDE DEF T
  <2> QED
    BY <1>1, <1>2, Induction
<1>4. ASSUME NEW i \in 1..l
      PROVE  f[i] = g[i]
  <2>1. i - 1 \in T /\ (i - 1) + 1 = i
    BY <1>3
  <2> QED
    BY <2>1
<1> QED
  BY <1>4

\* Flattening the empty sequence, and one sequence more.
LEMMA FlattenEmpty == FlattenSeq(<<>>) = <<>>
BY DEF FlattenSeq

\* FlattenSeq takes the last sequence last.
LEMMA FlattenAppend ==
    ASSUME NEW X, NEW s \in Seq(Seq(X)), NEW e \in Seq(X)
    PROVE  FlattenSeq(Append(s, e)) = FlattenSeq(s) \o e
<1> DEFINE n == Len(s)
           t == Append(s, e)
<1>1. n \in Nat /\ Len(t) = n + 1 /\ t[n + 1] = e /\ \A i \in 1..n : t[i] = s[i]
  OBVIOUS
<1>2. PICK g : Flattens(g, t, n + 1) /\ FlattenSeq(t) = g[n + 1]
  <2>1. Len(t) \in Nat /\ Len(t) # 0
    BY <1>1
  <2> HIDE DEF t
  <2> QED
    BY <1>1, <2>1, FlattenIsLast
<1>3. CASE n = 0
  <2>1. s = <<>> /\ FlattenSeq(s) = <<>>
    BY <1>3, FlattenEmpty
  <2>2. g[1] = e
    BY <1>1, <1>2, <1>3 DEF Flattens
  <2> QED
    BY <1>2, <1>3, <2>1, <2>2
<1>4. CASE n # 0
  <2>1. PICK f : Flattens(f, s, n) /\ FlattenSeq(s) = f[n]
    BY <1>1, <1>4, FlattenIsLast
  <2>2. f[n] = g[n]
    <3> DEFINE m == n + 1
    <3>1. n \in Nat /\ m \in Nat /\ n <= n /\ n <= m /\ Agree(s, t, n)
      BY <1>1 DEF Agree
    <3>2. Agree(f, g, n)
      <4>1. Flattens(g, t, m) /\ Flattens(f, s, n)
        BY <1>2, <2>1
      <4> HIDE DEF n, t, m
      <4> QED
        BY <3>1, <4>1, FlattensUnique
    <3> QED
      BY <1>1, <1>4, <3>2 DEF Agree
  <2>3. g[n + 1] = g[n] \o e
    <3>1. n + 1 \in 1..(n + 1) /\ n + 1 # 1 /\ (n + 1) - 1 = n
      BY <1>1, <1>4
    <3> QED
      BY <1>1, <1>2, <3>1 DEF Flattens
  <2> QED
    BY <1>2, <2>1, <2>2, <2>3
<1> QED
  BY <1>3, <1>4

\* Flattening sequences over a set gives a sequence over it.
LEMMA FlattenType ==
    ASSUME NEW X, NEW s \in Seq(Seq(X))
    PROVE  FlattenSeq(s) \in Seq(X)
<1> DEFINE n == Len(s)
<1>0. n \in Nat
  OBVIOUS
<1>1. CASE n = 0
  <2>1. s = <<>>
    BY <1>1
  <2>2. <<>> \in Seq(X)
    OBVIOUS
  <2> QED
    BY <2>1, <2>2, FlattenEmpty
<1>2. CASE n # 0
  <2>1. PICK f : Flattens(f, s, n) /\ FlattenSeq(s) = f[n]
    BY <1>0, <1>2, FlattenIsLast
  <2> DEFINE T == {k \in Nat : k + 1 <= n => f[k + 1] \in Seq(X)}
  <2>2. 0 \in T
    BY <2>1 DEF Flattens
  <2>3. ASSUME NEW k \in Nat, k \in T
        PROVE  k + 1 \in T
    <3> SUFFICES ASSUME (k + 1) + 1 <= n
                 PROVE  f[(k + 1) + 1] \in Seq(X)
      OBVIOUS
    <3>1. f[k + 1] \in Seq(X)
      BY <2>3
    <3>2. (k + 1) + 1 \in 1..n /\ (k + 1) + 1 # 1 /\ ((k + 1) + 1) - 1 = k + 1
      OBVIOUS
    <3>3. f[(k + 1) + 1] = f[k + 1] \o s[(k + 1) + 1]
      BY <2>1, <3>2 DEF Flattens
    <3> QED
      BY <3>1, <3>2, <3>3
  <2>4. \A k \in Nat : k \in T
    <3> HIDE DEF T
    <3> QED
      BY <2>2, <2>3, Induction
  <2>5. n - 1 \in T /\ (n - 1) + 1 = n
    <3>1. n - 1 \in Nat /\ (n - 1) + 1 = n
      BY <1>0, <1>2
    <3> HIDE DEF T
    <3> QED
      BY <2>4, <3>1
  <2> QED
    BY <1>0, <2>1, <2>5
<1> QED
  BY <1>1, <1>2

---------------------------------------------------------------------------
(* The sums of the module Functions. *)

\* The index a sum starts with.
Chosen(s) == CHOOSE x \in s : TRUE

\* The sums of fun over the subsets of D, one element after the other.
Sums(f, fun, D) ==
    f = [s \in D |-> IF s = {} THEN 0 ELSE fun[Chosen(s)] + f[s \ {Chosen(s)}]]

\* The subsets of S that have at most m elements.
Small(S, m) == {s \in SUBSET S : Cardinality(s) <= m}

\* What is left of a set without one of its elements.
LEMMA Smaller ==
    ASSUME NEW S, IsFiniteSet(S), S # {}
    PROVE  /\ Chosen(S) \in S /\ IsFiniteSet(S \ {Chosen(S)})
           /\ Cardinality(S \ {Chosen(S)}) = Cardinality(S) - 1
           /\ Cardinality(S) \in Nat
<1>1. Chosen(S) \in S
  BY DEF Chosen
<1> QED
  BY <1>1, FS_RemoveElement, FS_CardinalityType

\* The recursive function a sum is defined with exists.
LEMMA SumsExist ==
    ASSUME NEW fun, NEW S, IsFiniteSet(S)
    PROVE  \E f : Sums(f, fun, SUBSET S)
<1> DEFINE Has(m) == \E f : Sums(f, fun, Small(S, m))
<1>0. \A s \in SUBSET S : IsFiniteSet(s) /\ Cardinality(s) \in Nat /\ Cardinality(s) <= Cardinality(S)
  BY FS_Subset, FS_CardinalityType
<1>1. Has(0)
  <2>1. \A s \in Small(S, 0) : s = {}
    BY <1>0, FS_EmptySet DEF Small
  <2>2. Sums([s \in Small(S, 0) |-> 0], fun, Small(S, 0))
    BY <2>1 DEF Sums
  <2> QED
    BY <2>2
<1>2. ASSUME NEW m \in Nat, Has(m)
      PROVE  Has(m + 1)
  <2>1. PICK g : Sums(g, fun, Small(S, m))
    BY <1>2
  <2> DEFINE h == [s \in Small(S, m + 1) |->
                      IF s = {} THEN 0 ELSE fun[Chosen(s)] + g[s \ {Chosen(s)}]]
  <2>2. ASSUME NEW s \in Small(S, m + 1), s # {}
        PROVE  s \ {Chosen(s)} \in Small(S, m) /\ s \ {Chosen(s)} \in Small(S, m + 1)
    <3>1. s \in SUBSET S /\ Cardinality(s) <= m + 1 /\ IsFiniteSet(s)
      BY <1>0 DEF Small
    <3>2. Cardinality(s \ {Chosen(s)}) = Cardinality(s) - 1 /\ Cardinality(s) \in Nat
      BY <2>2, <3>1, Smaller
    <3> QED
      BY <3>1, <3>2 DEF Small
  <2>3. ASSUME NEW s \in Small(S, m)
        PROVE  s \in Small(S, m + 1) /\ g[s] = h[s]
    <3>1. s \in Small(S, m + 1)
      BY <1>0 DEF Small
    <3> QED
      BY <2>1, <3>1 DEF Sums
  <2>4. \A s \in Small(S, m + 1) :
           h[s] = IF s = {} THEN 0 ELSE fun[Chosen(s)] + h[s \ {Chosen(s)}]
    BY <2>2, <2>3
  <2>5. Sums(h, fun, Small(S, m + 1))
    <3> HIDE DEF h
    <3>1. h = [s \in Small(S, m + 1) |-> h[s]]
      BY DEF h
    <3> QED
      BY <2>4, <3>1 DEF Sums
  <2> QED
    BY <2>5
<1>3. Has(Cardinality(S))
  <2> DEFINE T == {m \in Nat : Has(m)}
  <2>1. 0 \in T /\ \A m \in Nat : m \in T => m + 1 \in T
    <3> HIDE DEF Has
    <3> QED
      BY <1>1, <1>2
  <2>2. \A m \in Nat : m \in T
    <3> HIDE DEF T
    <3> QED
      BY <2>1, Induction
  <2> QED
    BY <2>2, FS_CardinalityType
<1>4. Small(S, Cardinality(S)) = SUBSET S
  BY <1>0 DEF Small
<1> QED
  BY <1>3, <1>4

\* A sum is the last value of such a function.
LEMMA SumIsLast ==
    ASSUME NEW fun, NEW S, IsFiniteSet(S)
    PROVE  \E f : Sums(f, fun, SUBSET S) /\ SumFunctionOnSet(fun, S) = f[S]
<1> DEFINE F == CHOOSE f : Sums(f, fun, SUBSET S)
<1>1. Sums(F, fun, SUBSET S)
  BY SumsExist
<1>2. SumFunctionOnSet(fun, S) = F[S]
  BY DEF SumFunctionOnSet, FoldFunctionOnSet, MapThenFoldSet, Sums, Chosen
<1> QED
  BY <1>1, <1>2

\* Two such functions agree on the sets both are defined for.
LEMMA SumsUnique ==
    ASSUME NEW fun, NEW D, NEW E, NEW f, NEW g, NEW U,
           Sums(f, fun, D), Sums(g, fun, E),
           IsFiniteSet(U), SUBSET U \subseteq D, SUBSET U \subseteq E
    PROVE  f[U] = g[U]
<1> DEFINE Agrees(m) == \A s \in SUBSET U : Cardinality(s) <= m => f[s] = g[s]
           A == {m \in Nat : Agrees(m)}
<1>0. \A s \in SUBSET U : IsFiniteSet(s) /\ Cardinality(s) \in Nat
  BY FS_Subset, FS_CardinalityType
<1>1. Agrees(0)
  <2>1. \A s \in SUBSET U : Cardinality(s) <= 0 => s = {}
    BY <1>0, FS_EmptySet
  <2> QED
    BY <2>1 DEF Sums
<1>2. ASSUME NEW m \in Nat, Agrees(m)
      PROVE  Agrees(m + 1)
  <2> SUFFICES ASSUME NEW s \in SUBSET U, Cardinality(s) <= m + 1, s # {}
               PROVE  f[s] = g[s]
    BY DEF Sums
  <2>1. /\ s \ {Chosen(s)} \in SUBSET U
        /\ Cardinality(s \ {Chosen(s)}) <= m
    BY <1>0, Smaller
  <2>2. f[s \ {Chosen(s)}] = g[s \ {Chosen(s)}]
    BY <1>2, <2>1
  <2> QED
    BY <2>2 DEF Sums
<1>3. 0 \in A /\ \A m \in Nat : m \in A => m + 1 \in A
  <2> HIDE DEF Agrees
  <2> QED
    BY <1>1, <1>2
<1>4. \A m \in Nat : m \in A
  <2> HIDE DEF A
  <2> QED
    BY <1>3, Induction
<1>5. Agrees(Cardinality(U))
  BY <1>4, FS_CardinalityType
<1>6. U \in SUBSET U /\ Cardinality(U) <= Cardinality(U)
  BY <1>0
<1> QED
  BY <1>5, <1>6

\* The sum over no index, and over one index and the others.
LEMMA SumUnfolds ==
    ASSUME NEW fun, NEW S, IsFiniteSet(S)
    PROVE  /\ S = {} => SumFunctionOnSet(fun, S) = 0
           /\ S # {} => SumFunctionOnSet(fun, S)
                           = fun[Chosen(S)] + SumFunctionOnSet(fun, S \ {Chosen(S)})
<1>1. PICK f : Sums(f, fun, SUBSET S) /\ SumFunctionOnSet(fun, S) = f[S]
  BY SumIsLast
<1>2. CASE S = {}
  BY <1>1, <1>2 DEF Sums
<1>3. CASE S # {}
  <2> DEFINE U == S \ {Chosen(S)}
  <2>1. IsFiniteSet(U) /\ U \subseteq S
    BY <1>3, Smaller
  <2>2. PICK g : Sums(g, fun, SUBSET U) /\ SumFunctionOnSet(fun, U) = g[U]
    BY <2>1, SumIsLast
  <2>3. f[U] = g[U]
    <3>1. SUBSET U \subseteq SUBSET S /\ SUBSET U \subseteq SUBSET U
      BY <2>1
    <3> HIDE DEF U
    <3> QED
      BY <1>1, <2>1, <2>2, <3>1, SumsUnique
  <2>4. f[S] = fun[Chosen(S)] + f[U]
    BY <1>1, <1>3 DEF Sums
  <2> QED
    BY <1>1, <1>3, <2>2, <2>3, <2>4
<1> QED
  BY <1>2, <1>3

\* The sum of natural numbers is one.
LEMMA SumType ==
    ASSUME NEW fun, NEW S, IsFiniteSet(S), \A x \in S : fun[x] \in Nat
    PROVE  SumFunctionOnSet(fun, S) \in Nat
<1> DEFINE Typed(m) == \A s \in SUBSET S : Cardinality(s) <= m => SumFunctionOnSet(fun, s) \in Nat
           A == {m \in Nat : Typed(m)}
<1>0. \A s \in SUBSET S : IsFiniteSet(s) /\ Cardinality(s) \in Nat
  BY FS_Subset, FS_CardinalityType
<1>1. Typed(0)
  <2>1. \A s \in SUBSET S : Cardinality(s) <= 0 => s = {}
    BY <1>0, FS_EmptySet
  <2>2. SumFunctionOnSet(fun, {}) = 0
    BY FS_EmptySet, SumUnfolds
  <2> QED
    BY <2>1, <2>2
<1>2. ASSUME NEW m \in Nat, Typed(m)
      PROVE  Typed(m + 1)
  <2> SUFFICES ASSUME NEW s \in SUBSET S, Cardinality(s) <= m + 1
               PROVE  SumFunctionOnSet(fun, s) \in Nat
    OBVIOUS
  <2>1. CASE s = {}
    <3>1. SumFunctionOnSet(fun, {}) = 0
      BY FS_EmptySet, SumUnfolds
    <3> QED
      BY <2>1, <3>1
  <2>2. CASE s # {}
    <3>1. /\ s \ {Chosen(s)} \in SUBSET S /\ Chosen(s) \in S
          /\ Cardinality(s \ {Chosen(s)}) <= m
      BY <1>0, <2>2, Smaller
    <3>2. SumFunctionOnSet(fun, s \ {Chosen(s)}) \in Nat /\ fun[Chosen(s)] \in Nat
      BY <1>2, <3>1
    <3>3. SumFunctionOnSet(fun, s) = fun[Chosen(s)] + SumFunctionOnSet(fun, s \ {Chosen(s)})
      BY <1>0, <2>2, SumUnfolds
    <3> QED
      BY <3>2, <3>3
  <2> QED
    BY <2>1, <2>2
<1>3. 0 \in A /\ \A m \in Nat : m \in A => m + 1 \in A
  <2> HIDE DEF Typed
  <2> QED
    BY <1>1, <1>2
<1>4. \A m \in Nat : m \in A
  <2> HIDE DEF A
  <2> QED
    BY <1>3, Induction
<1> QED
  BY <1>4, FS_CardinalityType

\* A sum does not depend on the order of its indices.
LEMMA SumInsert ==
    ASSUME NEW fun, NEW S, IsFiniteSet(S), NEW x, x \notin S,
           \A y \in S \cup {x} : fun[y] \in Nat
    PROVE  SumFunctionOnSet(fun, S \cup {x}) = fun[x] + SumFunctionOnSet(fun, S)
<1> DEFINE Sum(s) == SumFunctionOnSet(fun, s)
           All == S \cup {x}
           Free(m) == \A s \in SUBSET All, y \in All :
                         y \notin s /\ Cardinality(s) <= m => Sum(s \cup {y}) = fun[y] + Sum(s)
           A == {m \in Nat : Free(m)}
<1>0. IsFiniteSet(All) /\ \A s \in SUBSET All : IsFiniteSet(s) /\ Cardinality(s) \in Nat
  BY FS_AddElement, FS_Subset, FS_CardinalityType
<1>1. \A s \in SUBSET All : Sum(s) \in Nat
  BY <1>0, SumType
<1>2. \A y \in All : Sum({y}) = fun[y]
  <2> TAKE y \in All
  <2>1. IsFiniteSet({y}) /\ Chosen({y}) = y /\ {y} \ {y} = {}
    BY FS_Singleton DEF Chosen
  <2>2. Sum({y}) = fun[y] + Sum({})
    BY <2>1, SumUnfolds
  <2>3. Sum({}) = 0
    BY FS_EmptySet, SumUnfolds
  <2> QED
    BY <2>2, <2>3
<1>3. Free(0)
  <2> SUFFICES ASSUME NEW s \in SUBSET All, NEW y \in All, Cardinality(s) <= 0
               PROVE  Sum(s \cup {y}) = fun[y] + Sum(s)
    OBVIOUS
  <2>1. s = {} /\ s \cup {y} = {y}
    BY <1>0, FS_EmptySet
  <2>2. Sum(s) = 0
    BY <2>1, FS_EmptySet, SumUnfolds
  <2>3. Sum(s \cup {y}) = fun[y] /\ fun[y] \in Nat
    BY <1>2, <2>1
  <2> HIDE DEF Sum
  <2> QED
    BY <2>2, <2>3
<1>4. ASSUME NEW m \in Nat, Free(m)
      PROVE  Free(m + 1)
  <2> SUFFICES ASSUME NEW s \in SUBSET All, NEW y \in All, y \notin s, Cardinality(s) <= m + 1,
                      s # {}
               PROVE  Sum(s \cup {y}) = fun[y] + Sum(s)
    <3>1. Sum({}) = 0
      BY FS_EmptySet, SumUnfolds
    <3>2. \A y \in All : Sum({} \cup {y}) = fun[y] + Sum({})
      <4> TAKE y \in All
      <4>1. {} \cup {y} = {y} /\ fun[y] \in Nat
        OBVIOUS
      <4>2. Sum({} \cup {y}) = fun[y]
        BY <1>2, <4>1
      <4> HIDE DEF Sum
      <4> QED
        BY <3>1, <4>1, <4>2
    <3> HIDE DEF Sum
    <3> QED
      BY <3>2
  <2> DEFINE t == s \cup {y}
             c == Chosen(t)
  <2>1. t \in SUBSET All /\ t # {} /\ IsFiniteSet(t)
    BY <1>0
  <2>2. c \in t /\ Sum(t) = fun[c] + Sum(t \ {c})
    BY <2>1, Smaller, SumUnfolds
  <2>3. CASE c = y
    <3>1. t \ {c} = s
      BY <2>3
    <3> QED
      BY <2>2, <2>3, <3>1
  <2>4. CASE c # y
    <3> DEFINE u == s \ {c}
    <3>1. c \in s /\ c \in All /\ u \in SUBSET All /\ t \ {c} = u \cup {y} /\ u \cup {c} = s
      BY <2>2, <2>4
    <3>2. Cardinality(u) <= m
      <4>1. IsFiniteSet(s)
        BY <1>0
      <4>2. Cardinality(u) = Cardinality(s) - 1
        BY <3>1, <4>1, FS_RemoveElement
      <4> QED
        BY <1>0, <4>2
    <3>3. Sum(u \cup {y}) = fun[y] + Sum(u)
      BY <1>4, <3>1, <3>2
    <3>4. Sum(u \cup {c}) = fun[c] + Sum(u)
      BY <1>4, <3>1, <3>2
    <3>5. Sum(u) \in Nat /\ fun[c] \in Nat /\ fun[y] \in Nat
      BY <1>1, <3>1
    <3> HIDE DEF u, c, t, Sum
    <3>6. Sum(t) = fun[c] + (fun[y] + Sum(u)) /\ Sum(s) = fun[c] + Sum(u)
      BY <2>2, <3>1, <3>3, <3>4
    <3> QED
      BY <3>5, <3>6 DEF t
  <2> QED
    BY <2>3, <2>4
<1>5. 0 \in A /\ \A m \in Nat : m \in A => m + 1 \in A
  <2> HIDE DEF Free
  <2> QED
    BY <1>3, <1>4
<1>6. \A m \in Nat : m \in A
  <2> HIDE DEF A
  <2> QED
    BY <1>5, Induction
<1>7. Free(Cardinality(S))
  BY <1>6, FS_CardinalityType
<1> QED
  BY <1>7, FS_CardinalityType

\* One index more, if it is among those that count.
LEMMA SumOver ==
    ASSUME NEW fun, NEW S, IsFiniteSet(S), NEW x, x \notin S, NEW T,
           \A y \in S \cup {x} : fun[y] \in Nat
    PROVE  /\ SumFunctionOnSet(fun, T \cap (S \cup {x}))
                = (IF x \in T THEN fun[x] ELSE 0) + SumFunctionOnSet(fun, T \cap S)
           /\ SumFunctionOnSet(fun, T \cap S) \in Nat
<1>1. IsFiniteSet(T \cap S) /\ x \notin T \cap S
  BY FS_Intersection
<1>2. SumFunctionOnSet(fun, T \cap S) \in Nat
  BY <1>1, SumType
<1>3. CASE x \in T
  <2>1. T \cap (S \cup {x}) = (T \cap S) \cup {x}
    BY <1>3
  <2> QED
    BY <1>1, <1>2, <1>3, <2>1, SumInsert
<1>4. CASE x \notin T
  <2>1. T \cap (S \cup {x}) = T \cap S
    BY <1>4
  <2>2. SumFunctionOnSet(fun, T \cap (S \cup {x})) = SumFunctionOnSet(fun, T \cap S)
    BY <2>1
  <2> QED
    BY <1>2, <1>4, <2>2
<1> QED
  BY <1>3, <1>4

\* A sum depends only on what is summed.
LEMMA SumAgrees ==
    ASSUME NEW f, NEW g, NEW S, IsFiniteSet(S), \A x \in S : f[x] = g[x]
    PROVE  SumFunctionOnSet(f, S) = SumFunctionOnSet(g, S)
<1> DEFINE Same(m) == \A s \in SUBSET S : Cardinality(s) <= m =>
                          SumFunctionOnSet(f, s) = SumFunctionOnSet(g, s)
           A == {m \in Nat : Same(m)}
<1>0. \A s \in SUBSET S : IsFiniteSet(s) /\ Cardinality(s) \in Nat
  BY FS_Subset, FS_CardinalityType
<1>1. SumFunctionOnSet(f, {}) = 0 /\ SumFunctionOnSet(g, {}) = 0
  BY FS_EmptySet, SumUnfolds
<1>2. Same(0)
  <2>1. \A s \in SUBSET S : Cardinality(s) <= 0 => s = {}
    BY <1>0, FS_EmptySet
  <2> QED
    BY <1>1, <2>1
<1>3. ASSUME NEW m \in Nat, Same(m)
      PROVE  Same(m + 1)
  <2> SUFFICES ASSUME NEW s \in SUBSET S, Cardinality(s) <= m + 1, s # {}
               PROVE  SumFunctionOnSet(f, s) = SumFunctionOnSet(g, s)
    BY <1>1
  <2>1. /\ s \ {Chosen(s)} \in SUBSET S /\ Chosen(s) \in S
        /\ Cardinality(s \ {Chosen(s)}) <= m
    BY <1>0, Smaller
  <2>2. SumFunctionOnSet(f, s \ {Chosen(s)}) = SumFunctionOnSet(g, s \ {Chosen(s)})
    BY <1>3, <2>1
  <2> QED
    BY <1>0, <2>1, <2>2, SumUnfolds
<1>4. 0 \in A /\ \A m \in Nat : m \in A => m + 1 \in A
  <2> HIDE DEF Same
  <2> QED
    BY <1>2, <1>3
<1>5. \A m \in Nat : m \in A
  <2> HIDE DEF A
  <2> QED
    BY <1>4, Induction
<1>6. Same(Cardinality(S))
  BY <1>5, FS_CardinalityType
<1>7. S \in SUBSET S /\ Cardinality(S) <= Cardinality(S)
  BY <1>0
<1> QED
  BY <1>6, <1>7

\* The sum of a sequence of numbers, last number last.
LEMMA SumAppend ==
    ASSUME NEW F, NEW n \in Nat, \A i \in 1..(n + 1) : F[i] \in Nat
    PROVE  /\ SumFunction([i \in 1..(n + 1) |-> F[i]])
                = SumFunction([i \in 1..n |-> F[i]]) + F[n + 1]
           /\ SumFunction([i \in 1..n |-> F[i]]) \in Nat
<1> DEFINE f == [i \in 1..(n + 1) |-> F[i]]
           g == [i \in 1..n |-> F[i]]
<1>1. IsFiniteSet(1..n) /\ 1..(n + 1) = (1..n) \cup {n + 1} /\ n + 1 \notin 1..n
  BY FS_Interval
<1>2. SumFunctionOnSet(f, (1..n) \cup {n + 1}) = f[n + 1] + SumFunctionOnSet(f, 1..n)
  <2>1. \A y \in (1..n) \cup {n + 1} : f[y] \in Nat
    BY <1>1
  <2> HIDE DEF f
  <2> QED
    BY <1>1, <2>1, SumInsert
<1>3. SumFunctionOnSet(f, 1..n) = SumFunctionOnSet(g, 1..n)
  <2>1. \A y \in 1..n : f[y] = g[y]
    OBVIOUS
  <2> HIDE DEF f, g
  <2> QED
    BY <1>1, <2>1, SumAgrees
<1>4. SumFunctionOnSet(g, 1..n) \in Nat
  <2>1. \A y \in 1..n : g[y] \in Nat
    OBVIOUS
  <2> HIDE DEF g
  <2> QED
    BY <1>1, <2>1, SumType
<1>5. SumFunction(f) = SumFunctionOnSet(f, 1..(n + 1)) /\ SumFunction(g) = SumFunctionOnSet(g, 1..n)
  BY DEF SumFunction
<1>6. f[n + 1] = F[n + 1] /\ F[n + 1] \in Nat
  OBVIOUS
<1> HIDE DEF f, g
<1>7. SumFunction(f) = SumFunction(g) + F[n + 1] /\ SumFunction(g) \in Nat
  <2>1. SumFunction(f) = f[n + 1] + SumFunctionOnSet(f, 1..n)
    BY <1>1, <1>2, <1>5
  <2>2. SumFunctionOnSet(f, 1..n) = SumFunction(g) /\ SumFunction(g) \in Nat
    BY <1>3, <1>4, <1>5
  <2> QED
    BY <1>6, <2>1, <2>2
<1> QED
  BY <1>7 DEF f, g

\* The empty sum.
LEMMA SumEmpty ==
    ASSUME NEW F
    PROVE  SumFunction([i \in 1..0 |-> F[i]]) = 0
<1>1. 1..0 = {} /\ DOMAIN [i \in 1..0 |-> F[i]] = {}
  OBVIOUS
<1> QED
  BY <1>1, FS_EmptySet, SumUnfolds DEF SumFunction

---------------------------------------------------------------------------
(* The loops of the model. *)

\* f[i] is the state in S after i of the n steps of a loop that starts with b.
Loops(f, S, b, n, step) ==
    f \in [0..n -> S] /\ f[0] = b /\ \A i \in 1..n : f[i] = step[<<f[i - 1], i>>]

\* A loop over n steps computes values of S when its steps do.
LEMMA LoopExists ==
    ASSUME NEW S, NEW b \in S, NEW n \in Nat, NEW step \in [S \X (1..n) -> S]
    PROVE  \E f : Loops(f, S, b, n, step)
<1> USE DEF Loops
<1> DEFINE Has(m) == \E f \in [0..m -> S] :
                        f[0] = b /\ \A i \in 1..m : i <= n => f[i] = step[<<f[i - 1], i>>]
           A == {m \in Nat : Has(m)}
<1>1. Has(0)
  <2> DEFINE f == [i \in 0..0 |-> b]
  <2>1. f \in [0..0 -> S] /\ f[0] = b /\ \A i \in 1..0 : i <= n => f[i] = step[<<f[i - 1], i>>]
    OBVIOUS
  <2> QED
    BY <2>1
<1>2. ASSUME NEW m \in Nat, Has(m)
      PROVE  Has(m + 1)
  <2>1. PICK f \in [0..m -> S] :
            f[0] = b /\ \A i \in 1..m : i <= n => f[i] = step[<<f[i - 1], i>>]
    BY <1>2
  <2> DEFINE v == IF m + 1 <= n THEN step[<<f[m], m + 1>>] ELSE b
             g == [i \in 0..(m + 1) |-> IF i = m + 1 THEN v ELSE f[i]]
  <2>2. v \in S
    OBVIOUS
  <2>3. g \in [0..(m + 1) -> S] /\ g[0] = b
    BY <2>1, <2>2
  <2>4. ASSUME NEW i \in 1..(m + 1), i <= n
        PROVE  g[i] = step[<<g[i - 1], i>>]
    <3>1. i - 1 \in 0..m /\ g[i - 1] = f[i - 1]
      OBVIOUS
    <3>2. CASE i = m + 1
      <4>1. i - 1 = m /\ g[i] = step[<<f[m], m + 1>>]
        BY <2>4, <3>2
      <4> QED
        BY <3>1, <3>2, <4>1
    <3>3. CASE i # m + 1
      <4>1. i \in 1..m /\ g[i] = f[i]
        BY <3>3
      <4> QED
        BY <2>1, <2>4, <3>1, <4>1
    <3> QED
      BY <3>2, <3>3
  <2> QED
    BY <2>3, <2>4
<1>3. 0 \in A /\ \A m \in Nat : m \in A => m + 1 \in A
  <2> HIDE DEF Has
  <2> QED
    BY <1>1, <1>2
<1>4. \A m \in Nat : m \in A
  <2> HIDE DEF A
  <2> QED
    BY <1>3, Induction
<1>5. Has(n)
  BY <1>4
<1> QED
  BY <1>5

---------------------------------------------------------------------------
(* Reading what was written. *)

\* src goes on with b at pos, as far as it reaches.
Follows(src, pos, b) == \A i \in 1..Len(b) : pos + i <= Len(src) => src[pos + i] = b[i]

\* A decoder that finds all of b returns v, and fails when a byte is missing.
Reads(src, pos, b, x, v) ==
    IF pos + Len(b) <= Len(src) THEN x.rv = "Good" /\ x.pos = pos + Len(b) /\ x.value = v
    ELSE x.rv # "Good"

Widths == {1, 2, 4, 8, 16}

Codes == {"Good", "BadDecodingError", "BadEncodingError", "BadNotImplemented",
          "BadInternalError"}

\* What a decoder of values of T returns, whatever the bytes are.
Outcomes(src, T) == [rv : Codes, pos : 0..Len(src), value : T]

---------------------------------------------------------------------------
(* Byte strings. *)

\* Two byte strings make one.
LEMMA OctetsConcat ==
    ASSUME NEW a \in Seq(Octet), NEW b \in Seq(Octet)
    PROVE  a \o b \in Seq(Octet) /\ Len(a \o b) = Len(a) + Len(b) /\ Len(a) \in Nat /\ Len(b) \in Nat
OBVIOUS

\* Bytes that follow one another.
LEMMA FollowsConcat ==
    ASSUME NEW src, NEW pos \in Nat, NEW a \in Seq(Octet), NEW b \in Seq(Octet)
    PROVE  /\ Follows(src, pos, a \o b) <=> Follows(src, pos, a) /\ Follows(src, pos + Len(a), b)
           /\ Len(a \o b) = Len(a) + Len(b) /\ a \o b \in Seq(Octet)
           /\ Len(a) \in Nat /\ Len(b) \in Nat
<1>1. Len(a) \in Nat /\ Len(b) \in Nat /\ Len(a \o b) = Len(a) + Len(b) /\ a \o b \in Seq(Octet)
  OBVIOUS
<1>2. \A i \in 1..Len(a) : (a \o b)[i] = a[i]
  OBVIOUS
<1>3. \A i \in 1..Len(b) : (a \o b)[Len(a) + i] = b[i]
  OBVIOUS
<1> DEFINE c == a \o b
<1>4. ASSUME Follows(src, pos, c)
      PROVE  Follows(src, pos, a)
  <2> SUFFICES ASSUME NEW i \in 1..Len(a), pos + i <= Len(src)
               PROVE  src[pos + i] = a[i]
    BY DEF Follows
  <2>1. i \in 1..Len(c) /\ c[i] = a[i]
    BY <1>1, <1>2
  <2> HIDE DEF c
  <2> QED
    BY <1>4, <2>1 DEF Follows
<1>5. ASSUME Follows(src, pos, c)
      PROVE  Follows(src, pos + Len(a), b)
  <2> SUFFICES ASSUME NEW i \in 1..Len(b), (pos + Len(a)) + i <= Len(src)
               PROVE  src[(pos + Len(a)) + i] = b[i]
    BY DEF Follows
  <2>1. Len(a) + i \in 1..Len(c) /\ pos + (Len(a) + i) = (pos + Len(a)) + i /\ c[Len(a) + i] = b[i]
    BY <1>1, <1>3
  <2> HIDE DEF c
  <2> QED
    BY <1>5, <2>1 DEF Follows
<1>6. ASSUME Follows(src, pos, a), Follows(src, pos + Len(a), b)
      PROVE  Follows(src, pos, c)
  <2> SUFFICES ASSUME NEW i \in 1..Len(c), pos + i <= Len(src)
               PROVE  src[pos + i] = c[i]
    BY DEF Follows
  <2>1. CASE i <= Len(a)
    <3>1. i \in 1..Len(a)
      BY <1>1, <2>1
    <3> QED
      BY <1>2, <1>6, <3>1 DEF Follows
  <2>2. CASE i > Len(a)
    <3> DEFINE j == i - Len(a)
    <3>1. j \in 1..Len(b) /\ (pos + Len(a)) + j = pos + i /\ Len(a) + j = i
      BY <1>1, <2>2
    <3>2. c[i] = b[j]
      BY <1>3, <3>1
    <3> HIDE DEF j
    <3> QED
      BY <1>6, <3>1, <3>2 DEF Follows
  <2> QED
    BY <1>1, <2>1, <2>2
<1> QED
  BY <1>1, <1>4, <1>5, <1>6

---------------------------------------------------------------------------
(* Integers. *)

\* w little-endian bytes.
LEMMA LEType ==
    ASSUME NEW v \in Nat, NEW w \in Nat
    PROVE  LE(v, w) \in Seq(Octet) /\ Len(LE(v, w)) = w
<1>1. \A i \in 1..w : LE(v, w)[i] \in Octet
  BY DEF LE, Octet
<1>2. LE(v, w) = [i \in 1..w |-> LE(v, w)[i]]
  BY DEF LE
<1> QED
  BY <1>1, <1>2

\* Three bytes hold a number below 2^24.
LEMMA ThreeBytes ==
    ASSUME NEW v \in Nat, v < 16777216
    PROVE  (v % 256) + 256 * ((v \div 256) % 256) + 65536 * ((v \div 65536) % 256) = v
BY SMT

\* Two bytes hold a number below 2^16.
LEMMA TwoBytes ==
    ASSUME NEW v \in Nat, v < 65536
    PROVE  (v % 256) + 256 * ((v \div 256) % 256) = v
BY SMT

\* An integer is read as it was written.
LEMMA IntegerReads ==
    ASSUME NEW src \in Seq(Octet), NEW pos \in Nat, NEW w \in Widths, NEW v \in Unsigned(w),
           Follows(src, pos, LE(v, w))
    PROVE  Reads(src, pos, LE(v, w), Read(src, pos, w), v)
<1>1. w \in Nat /\ v \in Nat /\ Len(LE(v, w)) = w
  BY SMT, LEType DEF Widths, Unsigned
<1>2. CASE pos + w <= Len(src)
  <2>1. \A i \in 1..w : src[pos + i] = LE(v, w)[i]
    BY SMT, <1>1, <1>2 DEF Follows
  <2>2. Num(src, pos, w) = v
    <3>1. CASE w = 1
      <4>1. src[pos + 1] = v % 256
        BY SMT, <2>1, <3>1 DEF LE
      <4> QED
        BY SMT, <3>1, <4>1 DEF Num, Unsigned, Limit
    <3>2. CASE w = 2
      <4>1. src[pos + 1] = v % 256 /\ src[pos + 2] = (v \div 256) % 256
        BY SMT, <2>1, <3>2 DEF LE
      <4> QED
        BY SMT, <3>2, <4>1, TwoBytes DEF Num, Unsigned, Limit
    <3>3. CASE w \notin {1, 2}
      <4>1. 1 \in 1..w /\ 2 \in 1..w /\ 3 \in 1..w
        BY SMT, <3>3 DEF Widths
      <4>2. /\ src[pos + 1] = v % 256 /\ src[pos + 2] = (v \div 256) % 256
            /\ src[pos + 3] = (v \div 65536) % 256
        BY SMT, <2>1, <4>1 DEF LE
      <4>3. v \in Nat /\ v < 16777216
        BY SMT, <3>3 DEF Unsigned, Limit
      <4> QED
        BY SMT, <3>3, <4>2, <4>3, ThreeBytes DEF Num
    <3> QED
      BY SMT, <3>1, <3>2, <3>3
  <2> QED
    BY SMT, <1>1, <1>2, <2>2 DEF Reads, Read
<1>3. CASE ~ (pos + w <= Len(src))
  BY SMT, <1>1, <1>3 DEF Reads, Read
<1> QED
  BY SMT, <1>2, <1>3

\* A byte is a number below 256.
LEMMA OctetRange == \A x \in Octet : x \in Nat /\ x < 256
BY DEF Octet

\* Whatever the bytes are, a number read has its width, and the offset stays in the buffer.
LEMMA ReadType ==
    ASSUME NEW src \in Seq(Octet), NEW pos \in 0..Len(src), NEW w \in Widths
    PROVE  Read(src, pos, w) \in Outcomes(src, Unsigned(w))
<1>1. CASE pos + w <= Len(src)
  <2>1. \A i \in 1..w : src[pos + i] \in Nat /\ src[pos + i] < 256
    <3> TAKE i \in 1..w
    <3>1. w \in Nat
      BY DEF Widths
    <3>2. pos + i \in 1..Len(src)
      BY <1>1, <3>1
    <3>3. src[pos + i] \in Octet
      BY <3>2
    <3> QED
      BY <3>3, OctetRange
  <2>2. Num(src, pos, w) \in Unsigned(w)
    <3>1. CASE w = 1
      <4>1. src[pos + 1] \in Nat /\ src[pos + 1] < 256
        BY <2>1, <3>1
      <4> QED
        BY SMT, <3>1, <4>1 DEF Num, Unsigned, Limit
    <3>2. CASE w = 2
      <4>1. \A i \in {1, 2} : src[pos + i] \in Nat /\ src[pos + i] < 256
        BY <2>1, <3>2
      <4> QED
        BY SMT, <3>2, <4>1 DEF Num, Unsigned, Limit
    <3>3. CASE w \notin {1, 2}
      <4>1. 1 \in 1..w /\ 2 \in 1..w /\ 3 \in 1..w
        BY SMT, <3>3 DEF Widths
      <4>2. \A i \in {1, 2, 3} : src[pos + i] \in Nat /\ src[pos + i] < 256
        BY <2>1, <4>1
      <4>3. Num(src, pos, w) = src[pos + 1] + 256 * src[pos + 2] + 65536 * src[pos + 3]
        BY SMT, <3>3 DEF Num
      <4>4. Unsigned(w) = {x \in Nat : x < 16777216}
        BY SMT, <3>3 DEF Unsigned, Limit
      <4>5. /\ src[pos + 1] \in Nat /\ src[pos + 1] < 256
            /\ src[pos + 2] \in Nat /\ src[pos + 2] < 256
            /\ src[pos + 3] \in Nat /\ src[pos + 3] < 256
        BY <4>2
      <4> DEFINE a == src[pos + 1]
                 b == src[pos + 2]
                 c == src[pos + 3]
      <4>6. Num(src, pos, w) \in Nat /\ Num(src, pos, w) < 16777216
        <5> HIDE DEF a, b, c
        <5>1. a \in Nat /\ b \in Nat /\ c \in Nat /\ a < 256 /\ b < 256 /\ c < 256
          BY <4>5 DEF a, b, c
        <5>2. Num(src, pos, w) = a + 256 * b + 65536 * c
          BY <4>3 DEF a, b, c
        <5> QED
          BY SMT, <5>1, <5>2
      <4> QED
        BY SMT, <4>4, <4>6
    <3> QED
      BY <3>1, <3>2, <3>3
  <2> QED
    BY SMT, <1>1, <2>2 DEF Read, Outcomes, Codes, Widths
<1>2. CASE ~ (pos + w <= Len(src))
  <2>1. 0 \in Unsigned(w)
    BY SMT DEF Unsigned, Limit
  <2> QED
    BY SMT, <1>2, <2>1 DEF Read, Outcomes, Codes
<1> QED
  BY <1>1, <1>2

---------------------------------------------------------------------------
(* Optional fields. *)

\* The bytes of an optional field.
OptionalBytes(on, val, f, w) == IF f \in on THEN LE(val[f], w) ELSE <<>>

Readers(src, D) == [rv : Codes, pos : 0..Len(src), val : [D -> Nat]]

\* A reader that started at pos has found all of b, or has failed.
Reached(src, pos, b, x) ==
    IF pos + Len(b) <= Len(src) THEN x.rv = "Good" /\ x.pos = pos + Len(b) ELSE x.rv # "Good"

\* Reading one optional field stays within the buffer.
LEMMA OptionalType ==
    ASSUME NEW src \in Seq(Octet), NEW D, NEW r \in Readers(src, D), NEW on,
           NEW f, f[1] \in D, f[2] \in Widths
    PROVE  ReadOptional(src, r, on, f) \in Readers(src, D)
<1>1. Read(src, r.pos, f[2]) \in Outcomes(src, Unsigned(f[2]))
  BY ReadType DEF Readers
<1>2. Unsigned(f[2]) \subseteq Nat
  BY DEF Unsigned
<1> QED
  BY <1>1, <1>2 DEF ReadOptional, PutField, Readers, Outcomes

\* The value v[f] of a field that is present, put among the values.
PutIf(val, on, f, v) == IF f \in on THEN [val EXCEPT ![f] = v[f]] ELSE val

\* One more optional field is read.
LEMMA OptionalReads ==
    ASSUME NEW src \in Seq(Octet), NEW D, NEW r \in Readers(src, D), NEW on,
           NEW f, f[1] \in D, f[2] \in Widths, NEW v, v[f[1]] \in Unsigned(f[2]),
           NEW pos \in Nat, NEW a \in Seq(Octet), Reached(src, pos, a, r),
           Follows(src, pos, a \o OptionalBytes(on, v, f[1], f[2])),
           NEW x, x = ReadOptional(src, r, on, f)
    PROVE  /\ Reached(src, pos, a \o OptionalBytes(on, v, f[1], f[2]), x)
           /\ x \in Readers(src, D)
           /\ x.rv = "Good" => r.rv = "Good" /\ x.val = PutIf(r.val, on, f[1], v)
<1> DEFINE o == OptionalBytes(on, v, f[1], f[2])
<1>0. x \in Readers(src, D)
  BY OptionalType
<1>1. CASE f[1] \notin on
  <2>1. o = <<>> /\ a \o o = a /\ x = r
    BY <1>1 DEF OptionalBytes, ReadOptional
  <2> QED
    BY <1>0, <1>1, <2>1 DEF PutIf
<1>2. CASE f[1] \in on
  <2>1. o = LE(v[f[1]], f[2])
    BY <1>2 DEF OptionalBytes
  <2>2. o \in Seq(Octet) /\ Len(o) \in Nat /\ v[f[1]] \in Nat
    <3>1. v[f[1]] \in Nat /\ f[2] \in Nat
      BY DEF Unsigned, Widths
    <3> HIDE DEF o
    <3>2. o \in Seq(Octet)
      BY <2>1, <3>1, LEType
    <3> QED
      BY <3>1, <3>2
  <2>3. /\ Follows(src, pos + Len(a), o) /\ Len(a \o o) = Len(a) + Len(o)
        /\ Len(a) \in Nat /\ a \o o \in Seq(Octet)
    <3> HIDE DEF o
    <3> QED
      BY <2>2, FollowsConcat DEF o
  <2>4. CASE r.rv # "Good"
    <3>1. x = r
      BY <2>4 DEF ReadOptional
    <3>2. ~ (pos + Len(a \o o) <= Len(src))
      <4> HIDE DEF o
      <4> QED
        BY <2>2, <2>3, <2>4 DEF Reached
    <3> QED
      BY <1>0, <2>3, <2>4, <3>1, <3>2 DEF Reached
  <2>5. CASE r.rv = "Good"
    <3> DEFINE y == Read(src, r.pos, f[2])
    <3>1. r.pos = pos + Len(a) /\ r.pos \in Nat
      BY <2>5 DEF Reached, Readers
    <3>2. Reads(src, r.pos, o, y, v[f[1]])
      BY <2>1, <2>3, <3>1, IntegerReads
    <3>3. x = PutField(r, y, f[1])
      BY <1>2, <2>5 DEF ReadOptional
    <3>4. x.rv = y.rv /\ x.pos = y.pos /\ x.val = [r.val EXCEPT ![f[1]] = y.value]
      BY <3>3 DEF PutField, Readers
    <3> HIDE DEF o, y
    <3>5. Reached(src, pos, a \o o, x)
      BY <2>2, <2>3, <3>1, <3>2, <3>4 DEF Reads, Reached
    <3>6. x.rv = "Good" => y.value = v[f[1]]
      BY <3>2, <3>4 DEF Reads
    <3> QED
      BY <1>0, <1>2, <2>3, <2>5, <3>4, <3>5, <3>6 DEF o, PutIf
  <2> QED
    BY <2>4, <2>5
<1> QED
  BY <1>1, <1>2

\* f is the loop that reads the optional fields, and x where it ends.
Unrolled(f, src, D, r, on, layout, x) ==
    /\ f \in [0..Len(layout) -> Readers(src, D)]
    /\ f[0] = r
    /\ \A i \in 1..Len(layout) : f[i] = ReadOptional(src, f[i - 1], on, layout[i])
    /\ x = f[Len(layout)]

\* The loop over the optional fields, step by step.
LEMMA FieldsUnfold ==
    ASSUME NEW src \in Seq(Octet), NEW D, NEW r \in Readers(src, D), NEW on,
           NEW layout \in Seq(D \X Widths), NEW x, x = ReadFields(src, r, on, layout)
    PROVE  \E f : Unrolled(f, src, D, r, on, layout, x)
<1> DEFINE n == Len(layout)
           S == Readers(src, D)
           step == [p \in S \X (1..n) |-> ReadOptional(src, p[1], on, layout[p[2]])]
           Runs(f) == f = [i \in 0..n |-> IF i = 0 THEN r
                                          ELSE ReadOptional(src, f[i - 1], on, layout[i])]
           F == CHOOSE f : Runs(f)
<1>1. n \in Nat /\ \A i \in 1..n : layout[i][1] \in D /\ layout[i][2] \in Widths
  OBVIOUS
<1>2. step \in [S \X (1..n) -> S]
  <2>1. \A y \in S, i \in 1..n : ReadOptional(src, y, on, layout[i]) \in S
    BY <1>1, OptionalType
  <2> HIDE DEF S, n
  <2> QED
    BY <2>1
<1>3. PICK f : Loops(f, S, r, n, step)
  <2>1. r \in S
    OBVIOUS
  <2> HIDE DEF S, step, n
  <2> QED
    BY <1>1, <1>2, <2>1, LoopExists
<1> USE DEF Loops
<1>4. \A i \in 1..n : f[i - 1] \in S /\ f[i] = ReadOptional(src, f[i - 1], on, layout[i])
  <2> TAKE i \in 1..n
  <2>1. i - 1 \in 0..n
    BY <1>1
  <2>2. f[i - 1] \in S
    BY <1>3, <2>1
  <2>3. step[<<f[i - 1], i>>] = ReadOptional(src, f[i - 1], on, layout[i])
    <3> HIDE DEF S, n
    <3> QED
      BY <2>2
  <2> QED
    BY <1>3, <2>2, <2>3
<1>5. Runs(f)
  <2> HIDE DEF S, step, n
  <2> QED
    BY <1>1, <1>3, <1>4
<1>6. Runs(F)
  <2> HIDE DEF Runs
  <2> QED
    BY <1>5
<1>7. ReadFields(src, r, on, layout) = F[n]
  BY DEF ReadFields
<1>8. \A i \in 0..n : F[i] = f[i]
  <2> DEFINE A == {k \in Nat : k <= n => F[k] = f[k]}
  <2>0. F[0] = r /\ \A i \in 1..n : F[i] = ReadOptional(src, F[i - 1], on, layout[i])
    <3> HIDE DEF F, n
    <3> QED
      BY <1>1, <1>6
  <2> HIDE DEF F
  <2>1. 0 \in A
    BY <1>1, <1>3, <2>0
  <2>2. ASSUME NEW k \in Nat, k \in A
        PROVE  k + 1 \in A
    <3> SUFFICES ASSUME k + 1 <= n PROVE F[k + 1] = f[k + 1]
      OBVIOUS
    <3>1. k + 1 \in 1..n /\ (k + 1) - 1 = k /\ F[k] = f[k]
      BY <1>1, <2>2
    <3>2. F[k + 1] = ReadOptional(src, F[k], on, layout[k + 1])
      BY <2>0, <3>1
    <3> QED
      BY <1>4, <3>1, <3>2
  <2>3. \A k \in Nat : k \in A
    <3> HIDE DEF A
    <3> QED
      BY <2>1, <2>2, Induction
  <2> HIDE DEF F
  <2> QED
    BY <1>1, <2>3
<1>9. F[n] = f[n] /\ n \in 0..n
  BY <1>1, <1>8
<1>10. x = f[n]
  BY <1>7, <1>9
<1> HIDE DEF F, step
<1> QED
  BY <1>1, <1>3, <1>4, <1>10 DEF Unrolled

---------------------------------------------------------------------------
(* Arrays and strings. *)

\* A number where there is one.
LEMMA NumType ==
    ASSUME NEW src \in Seq(Octet), NEW pos \in 0..Len(src), NEW w \in Widths, pos + w <= Len(src)
    PROVE  Num(src, pos, w) \in Unsigned(w)
<1>1. Read(src, pos, w) \in Outcomes(src, Unsigned(w))
  BY ReadType
<1> QED
  BY <1>1 DEF Read, Outcomes

\* The number that was written.
LEMMA NumReads ==
    ASSUME NEW src \in Seq(Octet), NEW pos \in Nat, NEW w \in Widths, NEW v \in Unsigned(w),
           pos + w <= Len(src), Follows(src, pos, LE(v, w))
    PROVE  Num(src, pos, w) = v
<1>1. Reads(src, pos, LE(v, w), Read(src, pos, w), v)
  BY IntegerReads
<1>2. v \in Nat /\ w \in Nat
  BY DEF Unsigned, Widths
<1>3. Len(LE(v, w)) = w
  BY <1>2, LEType
<1> QED
  BY <1>1, <1>3 DEF Reads, Read

\* Where byte j of element i is, for elements of w bytes.
LEMMA ElementIndex ==
    ASSUME NEW w \in Widths, NEW n \in Nat, NEW i \in 1..n, NEW j \in 1..w
    PROVE  /\ w * (i - 1) + j \in 1..(w * n)
           /\ ((w * (i - 1) + j) - 1) \div w = i - 1
           /\ ((w * (i - 1) + j) - 1) % w = j - 1
<1>1. CASE w = 1
  BY SMT, <1>1
<1>2. CASE w = 2
  BY SMT, <1>2
<1>3. CASE w = 4
  BY SMT, <1>3
<1>4. CASE w = 8
  BY SMT, <1>4
<1>5. CASE w = 16
  BY SMT, <1>5
<1> QED
  BY <1>1, <1>2, <1>3, <1>4, <1>5 DEF Widths

\* Which element byte k belongs to.
LEMMA ByteIndex ==
    ASSUME NEW w \in Widths, NEW n \in Nat, NEW k \in 1..(w * n)
    PROVE  /\ ((k - 1) \div w) + 1 \in 1..n /\ ((k - 1) % w) + 1 \in 1..w
<1>1. CASE w = 1
  BY SMT, <1>1
<1>2. CASE w = 2
  BY SMT, <1>2
<1>3. CASE w = 4
  BY SMT, <1>3
<1>4. CASE w = 8
  BY SMT, <1>4
<1>5. CASE w = 16
  BY SMT, <1>5
<1> QED
  BY <1>1, <1>2, <1>3, <1>4, <1>5 DEF Widths

\* A product with a width is a number.
LEMMA WidthProduct ==
    ASSUME NEW w \in Widths, NEW n \in Nat
    PROVE  w \in Nat /\ w * n \in Nat /\ w * n >= n /\ (n = 0 => w * n = 0)
<1>1. CASE w = 1
  BY SMT, <1>1
<1>2. CASE w = 2
  BY SMT, <1>2
<1>3. CASE w = 4
  BY SMT, <1>3
<1>4. CASE w = 8
  BY SMT, <1>4
<1>5. CASE w = 16
  BY SMT, <1>5
<1> QED
  BY <1>1, <1>2, <1>3, <1>4, <1>5 DEF Widths

\* Comparing with a quotient is comparing the product.
LEMMA WidthQuotient ==
    ASSUME NEW w \in Widths, NEW n \in Nat, NEW m \in Int
    PROVE  n > m \div w <=> w * n > m
<1>1. CASE w = 1
  BY SMT, <1>1
<1>2. CASE w = 2
  BY SMT, <1>2
<1>3. CASE w = 4
  BY SMT, <1>3
<1>4. CASE w = 8
  BY SMT, <1>4
<1>5. CASE w = 16
  BY SMT, <1>5
<1> QED
  BY <1>1, <1>2, <1>3, <1>4, <1>5 DEF Widths

\* The bytes of an array.
LEMMA ElementsType ==
    ASSUME NEW w \in Widths, NEW data \in Seq(Nat)
    PROVE  /\ ElementBytes(data, w) \in Seq(Octet) /\ Len(ElementBytes(data, w)) = w * Len(data)
           /\ \A i \in 1..Len(data), j \in 1..w :
                 ElementBytes(data, w)[w * (i - 1) + j] = LE(data[i], w)[j]
<1> DEFINE n == Len(data)
           b == ElementBytes(data, w)
<1>1. n \in Nat /\ w \in Nat /\ w * n \in Nat
  BY WidthProduct
<1>2. ASSUME NEW k \in 1..(w * n)
      PROVE  LE(data[((k - 1) \div w) + 1], w)[((k - 1) % w) + 1] \in Octet
  <2> DEFINE i == ((k - 1) \div w) + 1
             j == ((k - 1) % w) + 1
  <2>1. i \in 1..n /\ j \in 1..w
    BY <1>1, ByteIndex
  <2> HIDE DEF i, j
  <2>2. data[i] \in Nat
    BY <2>1
  <2>3. LE(data[i], w) \in Seq(Octet) /\ Len(LE(data[i], w)) = w
    BY <1>1, <2>2, LEType
  <2>4. LE(data[i], w)[j] \in Octet
    BY <1>1, <2>1, <2>3
  <2> QED
    BY <2>4 DEF i, j
<1>3. b = [k \in 1..(w * n) |-> LE(data[((k - 1) \div w) + 1], w)[((k - 1) % w) + 1]]
  BY DEF ElementBytes
<1>4. b \in Seq(Octet) /\ Len(b) = w * n
  <2> HIDE DEF b, n
  <2> QED
    BY <1>1, <1>2, <1>3
<1>5. ASSUME NEW i \in 1..n, NEW j \in 1..w
      PROVE  b[w * (i - 1) + j] = LE(data[i], w)[j]
  <2> DEFINE k == w * (i - 1) + j
  <2>1. k \in 1..(w * n) /\ (k - 1) \div w = i - 1 /\ (k - 1) % w = j - 1
    BY <1>1, ElementIndex
  <2>2. ((k - 1) \div w) + 1 = i /\ ((k - 1) % w) + 1 = j
    BY <1>1, <2>1
  <2> HIDE DEF k, b, n
  <2>3. b[k] = LE(data[((k - 1) \div w) + 1], w)[((k - 1) % w) + 1]
    BY <1>3, <2>1
  <2> QED
    BY <2>2, <2>3 DEF k
<1> QED
  BY <1>4, <1>5

\* The length in front of an array.
ArrayLength(src, pos) == src[pos + 1] + 256 * src[pos + 2] + 65536 * src[pos + 3]

\* What the decoder of an array returns.
NoArray(pos)    == [rv |-> "BadDecodingError", pos |-> pos, value |-> <<>>]
EmptyArray(pos) == [rv |-> "Good", pos |-> pos + 4, value |-> <<>>]
FullArray(src, pos, w, n) ==
    [rv |-> "Good", pos |-> (pos + 4) + w * n,
     value |-> [i \in 1..n |-> Num(src, (pos + 4) + w * (i - 1), w)]]

\* The cases of the decoder, one by one.
LEMMA ArrayCases ==
    ASSUME NEW src \in Seq(Octet), NEW pos \in 0..Len(src), NEW w \in Widths,
           NEW n, n = ArrayLength(src, pos)
    PROVE  \/ pos + 4 > Len(src) /\ DecodeArray(src, pos, w) = NoArray(pos)
           \/ /\ pos + 4 <= Len(src) /\ n \in Unsigned(4) /\ src[pos + 4] \in Nat
              /\ \/ /\ src[pos + 4] >= 128 \/ (src[pos + 4] = 0 /\ n = 0)
                    /\ DecodeArray(src, pos, w) = EmptyArray(pos)
                 \/ /\ src[pos + 4] \in 1..127
                    /\ DecodeArray(src, pos, w) = NoArray(pos)
                 \/ /\ src[pos + 4] = 0 /\ n # 0 /\ n > (Len(src) - (pos + 4)) \div w
                    /\ DecodeArray(src, pos, w) = NoArray(pos)
                 \/ /\ src[pos + 4] = 0 /\ n # 0 /\ ~ (n > (Len(src) - (pos + 4)) \div w)
                    /\ DecodeArray(src, pos, w) = FullArray(src, pos, w, n)
<1>1. CASE pos + 4 > Len(src)
  <2>1. DecodeArray(src, pos, w) = NoArray(pos)
    BY SMT, <1>1 DEF DecodeArray, NoArray
  <2> QED
    BY <1>1, <2>1
<1>2. CASE pos + 4 <= Len(src)
  <2>1. Num(src, pos, 4) \in Unsigned(4) /\ Num(src, pos, 4) = n
    BY SMT, <1>2, NumType DEF Num, ArrayLength, Widths
  <2>2. src[pos + 4] \in Octet
    BY <1>2
  <2>3. src[pos + 4] \in Nat
    BY <2>2, OctetRange
  <2>4. ~ (pos + 4 > Len(src))
    BY <1>2
  <2>5. n = src[pos + 1] + 256 * src[pos + 2] + 65536 * src[pos + 3]
    BY DEF ArrayLength
  <2>11. /\ src[pos + 4] \in 1..127 =>
               /\ ~ (src[pos + 4] >= 128) /\ src[pos + 4] < 128 /\ src[pos + 4] > 0
               /\ ~ (src[pos + 4] = 0)
         /\ src[pos + 4] >= 128 \/ src[pos + 4] \in 1..127 \/ src[pos + 4] = 0
    <3> DEFINE c == src[pos + 4]
    <3> HIDE DEF c
    <3>1. c \in Nat
      BY <2>3 DEF c
    <3>2. /\ c \in 1..127 => ~ (c >= 128) /\ c < 128 /\ c > 0 /\ ~ (c = 0)
          /\ c >= 128 \/ c \in 1..127 \/ c = 0
      BY <3>1
    <3> QED
      BY <3>2 DEF c
  <2>6. CASE src[pos + 4] >= 128
    <3>1. DecodeArray(src, pos, w) = EmptyArray(pos)
      BY SMT, <1>2, <2>3, <2>4, <2>6 DEF DecodeArray, EmptyArray
    <3> QED
      BY <1>2, <2>1, <2>3, <2>6, <3>1
  <2>7. CASE src[pos + 4] = 0 /\ n = 0
    <3>1. src[pos + 1] + 256 * src[pos + 2] + 65536 * src[pos + 3] = 0 /\ src[pos + 4] = 0
      BY SMT, <2>5, <2>7
    <3>2. ~ (0 > (Len(src) - (pos + 4)) \div w)
      <4>1. w * 0 = 0 /\ Len(src) - (pos + 4) \in Int /\ ~ (0 > Len(src) - (pos + 4))
        BY <1>2, WidthProduct
      <4> QED
        BY <4>1, WidthQuotient
    <3>3. DecodeArray(src, pos, w) = EmptyArray(pos)
      BY SMT, <1>2, <2>4, <3>1, <3>2 DEF DecodeArray, EmptyArray
    <3> QED
      BY <1>2, <2>1, <2>3, <2>7, <3>3
  <2>8. CASE src[pos + 4] \in 1..127
    <3>1. /\ ~ (src[pos + 4] >= 128) /\ src[pos + 4] < 128 /\ src[pos + 4] > 0
          /\ ~ (src[pos + 4] = 0)
      BY <2>8, <2>11
    <3>2. DecodeArray(src, pos, w) = NoArray(pos)
      BY SMT, <1>2, <2>4, <3>1 DEF DecodeArray, NoArray
    <3> QED
      BY <1>2, <2>1, <2>3, <2>8, <3>2
  <2>9. CASE src[pos + 4] = 0 /\ n # 0
    <3>1. /\ ~ (src[pos + 4] >= 128) /\ src[pos + 4] < 128 /\ ~ (src[pos + 4] > 0)
          /\ src[pos + 1] + 256 * src[pos + 2] + 65536 * src[pos + 3] # 0
      BY SMT, <2>3, <2>5, <2>9
    <3>2. CASE n > (Len(src) - (pos + 4)) \div w
      <4>1. DecodeArray(src, pos, w) = NoArray(pos)
        BY SMT, <1>2, <2>4, <2>5, <3>1, <3>2 DEF DecodeArray, NoArray
      <4> QED
        BY <1>2, <2>1, <2>3, <2>9, <3>2, <4>1
    <3>3. CASE ~ (n > (Len(src) - (pos + 4)) \div w)
      <4>1. DecodeArray(src, pos, w) = FullArray(src, pos, w, n)
        BY SMT, <1>2, <2>4, <2>5, <3>1, <3>3 DEF DecodeArray, FullArray
      <4> QED
        BY <1>2, <2>1, <2>3, <2>9, <3>3, <4>1
    <3> QED
      BY <3>2, <3>3
  <2> QED
    BY <2>6, <2>7, <2>8, <2>9, <2>11
<1> QED
  BY SMT, <1>1, <1>2

\* The elements of an array that fits are numbers of its type.
LEMMA FullArrayType ==
    ASSUME NEW src \in Seq(Octet), NEW pos \in 0..Len(src), NEW w \in Widths,
           NEW n \in Unsigned(4), pos + 4 <= Len(src), ~ (n > (Len(src) - (pos + 4)) \div w)
    PROVE  /\ FullArray(src, pos, w, n) \in Outcomes(src, Seq(Unsigned(w)))
           /\ Len(FullArray(src, pos, w, n).value) = n
<1> DEFINE start == pos + 4
<1>1. n \in Nat /\ Len(src) \in Nat /\ start \in Nat
  BY DEF Unsigned
<1>2. w * n \in Nat /\ start + w * n <= Len(src) /\ w \in Nat
  <2>1. Len(src) - start \in Int
    BY <1>1
  <2>2. w * n \in Nat /\ w \in Nat /\ ~ (w * n > Len(src) - start)
    BY <1>1, <2>1, WidthProduct, WidthQuotient
  <2> QED
    BY <1>1, <2>2
<1>3. ASSUME NEW i \in 1..n
      PROVE  Num(src, start + w * (i - 1), w) \in Unsigned(w)
  <2>1. w * (i - 1) + 1 \in 1..(w * n) /\ w * (i - 1) + w \in 1..(w * n)
    <3>1. 1 \in 1..w /\ w \in 1..w
      BY DEF Widths
    <3> QED
      BY <1>1, <3>1, ElementIndex
  <2> DEFINE k == w * (i - 1)
  <2>2. k \in Int
    BY <1>1, <1>2
  <2>3. start + k \in 0..Len(src) /\ (start + k) + w <= Len(src)
    <3> HIDE DEF k
    <3>1. k + 1 >= 1 /\ k + w <= w * n
      BY <1>2, <2>1, <2>2 DEF k
    <3> QED
      BY <1>1, <1>2, <2>2, <3>1
  <2> HIDE DEF k
  <2>4. Num(src, start + k, w) \in Unsigned(w)
    BY <2>3, NumType
  <2> QED
    BY <2>4 DEF k
<1> DEFINE v == [i \in 1..n |-> Num(src, start + w * (i - 1), w)]
<1>4. v \in Seq(Unsigned(w)) /\ Len(v) = n
  BY <1>1, <1>3
<1>5. FullArray(src, pos, w, n) = [rv |-> "Good", pos |-> start + w * n, value |-> v]
  BY DEF FullArray
<1> HIDE DEF v
<1> QED
  BY <1>1, <1>2, <1>4, <1>5 DEF Outcomes, Codes

\* Whatever the bytes are, an array read is one of its type, and the offset stays in the buffer.
LEMMA ArrayType ==
    ASSUME NEW src \in Seq(Octet), NEW pos \in 0..Len(src), NEW w \in Widths
    PROVE  /\ DecodeArray(src, pos, w) \in Outcomes(src, Seq(Unsigned(w)))
           /\ Len(DecodeArray(src, pos, w).value) \in Unsigned(4)
<1> DEFINE x == DecodeArray(src, pos, w)
           n == ArrayLength(src, pos)
<1>1. <<>> \in Seq(Unsigned(w)) /\ Len(<<>>) \in Unsigned(4)
  BY SMT DEF Unsigned, Limit
<1>2. CASE x = NoArray(pos)
  <2> HIDE DEF x
  <2> QED
    BY <1>1, <1>2 DEF Outcomes, Codes, NoArray, x
<1>3. CASE pos + 4 <= Len(src) /\ x = EmptyArray(pos)
  <2> HIDE DEF x
  <2> QED
    BY <1>1, <1>3 DEF Outcomes, Codes, EmptyArray, x
<1>4. CASE /\ pos + 4 <= Len(src) /\ n \in Unsigned(4) /\ ~ (n > (Len(src) - (pos + 4)) \div w)
           /\ x = FullArray(src, pos, w, n)
  <2> HIDE DEF n, x
  <2> QED
    BY <1>4, FullArrayType DEF x
<1>5. \/ x = NoArray(pos)
      \/ pos + 4 <= Len(src) /\ x = EmptyArray(pos)
      \/ /\ pos + 4 <= Len(src) /\ n \in Unsigned(4) /\ ~ (n > (Len(src) - (pos + 4)) \div w)
         /\ x = FullArray(src, pos, w, n)
  <2> HIDE DEF n
  <2> QED
    BY ArrayCases DEF n
<1> QED
  BY <1>2, <1>3, <1>4, <1>5

\* An array is read as it was written.
LEMMA ArrayReads ==
    ASSUME NEW src \in Seq(Octet), NEW pos \in 0..Len(src), NEW w \in Widths,
           NEW data \in Seq(Unsigned(w)), Len(data) \in Unsigned(4),
           Follows(src, pos, EncodeArray(data, w))
    PROVE  /\ Reads(src, pos, EncodeArray(data, w), DecodeArray(src, pos, w), data)
           /\ EncodeArray(data, w) \in Seq(Octet)
           /\ Len(EncodeArray(data, w)) = 4 + w * Len(data)
<1> DEFINE n == Len(data)
           l == LE(n, 4)
           e == ElementBytes(data, w)
           x == DecodeArray(src, pos, w)
<1>1. n \in Nat /\ w \in Nat /\ w * n \in Nat /\ Len(src) \in Nat /\ data \in Seq(Nat)
  <2>1. Unsigned(w) \subseteq Nat
    BY DEF Unsigned
  <2>2. n \in Nat /\ Len(src) \in Nat /\ data \in Seq(Nat)
    BY <2>1
  <2>3. w \in Nat /\ w * n \in Nat
    <3> HIDE DEF n
    <3> QED
      BY <2>2, WidthProduct
  <2> QED
    BY <2>2, <2>3
<1>2. l \in Seq(Octet) /\ Len(l) = 4 /\ e \in Seq(Octet) /\ Len(e) = w * n
  BY <1>1, LEType, ElementsType
<1>3. EncodeArray(data, w) = l \o e
  BY DEF EncodeArray
<1>4. /\ Len(l \o e) = 4 + w * n /\ l \o e \in Seq(Octet)
      /\ Follows(src, pos, l) /\ Follows(src, pos + 4, e)
  <2>1. Follows(src, pos, l \o e) /\ pos \in Nat
    BY <1>3
  <2> HIDE DEF l, e, n
  <2>2. /\ Len(l \o e) = Len(l) + Len(e) /\ l \o e \in Seq(Octet)
        /\ Follows(src, pos, l) /\ Follows(src, pos + Len(l), e)
    BY <1>2, <2>1, FollowsConcat
  <2> QED
    BY <1>2, <2>2
<1>5. pos + 4 <= Len(src) => ArrayLength(src, pos) = n /\ src[pos + 4] = 0
  <2> SUFFICES ASSUME pos + 4 <= Len(src) PROVE ArrayLength(src, pos) = n /\ src[pos + 4] = 0
    OBVIOUS
  <2>1. Num(src, pos, 4) = n
    <3>1. 4 \in Widths /\ n \in Unsigned(4) /\ pos \in Nat /\ Follows(src, pos, LE(n, 4))
      BY <1>4 DEF Widths
    <3> HIDE DEF n
    <3> QED
      BY <3>1, NumReads
  <2>2. Num(src, pos, 4) = ArrayLength(src, pos)
    BY SMT DEF Num, ArrayLength
  <2>3. src[pos + 4] = l[4]
    <3> HIDE DEF l
    <3> QED
      BY <1>2, <1>4 DEF Follows
  <2>4. l[4] = 0
    BY SMT DEF LE
  <2> QED
    BY <2>1, <2>2, <2>3, <2>4
<1>6. n > (Len(src) - (pos + 4)) \div w <=> (pos + 4) + w * n > Len(src)
  <2>1. Len(src) - (pos + 4) \in Int
    BY <1>1
  <2>2. n > (Len(src) - (pos + 4)) \div w <=> w * n > Len(src) - (pos + 4)
    BY <1>1, <2>1, WidthQuotient
  <2> HIDE DEF n
  <2> QED
    BY <1>1, <2>2
<1>7. ASSUME (pos + 4) + w * n <= Len(src)
      PROVE  FullArray(src, pos, w, n).value = data
  <2>1. ASSUME NEW i \in 1..n
        PROVE  Num(src, (pos + 4) + w * (i - 1), w) = data[i]
    <3> DEFINE k == w * (i - 1)
    <3>1. /\ k \in Nat /\ k + w <= w * n /\ data[i] \in Unsigned(w) /\ data[i] \in Nat
      <4>1. w * (i - 1) + w \in 1..(w * n) /\ i - 1 \in Nat
        <5>1. w \in 1..w /\ i - 1 \in Nat
          BY <1>1 DEF Widths
        <5> HIDE DEF n
        <5> QED
          BY <1>1, <5>1, ElementIndex
      <4>2. w * (i - 1) \in Nat
        BY <4>1, WidthProduct
      <4> QED
        BY <1>1, <4>1, <4>2
    <3> DEFINE p == (pos + 4) + k
    <3>2. p \in Nat /\ p + w <= Len(src)
      <4> HIDE DEF k, n
      <4> QED
        BY <1>1, <1>7, <3>1
    <3>3. Follows(src, p, LE(data[i], w))
      <4> SUFFICES ASSUME NEW j \in 1..w
                   PROVE  src[p + j] = LE(data[i], w)[j]
        BY <1>1, <3>1, LEType DEF Follows
      <4>1. k + j \in 1..(w * n) /\ (pos + 4) + (k + j) = p + j
        <5> HIDE DEF n
        <5>1. k + j \in 1..(w * n)
          BY <1>1, ElementIndex
        <5> QED
          BY <3>1, <5>1
      <4>2. e[k + j] = LE(data[i], w)[j]
        BY <1>1, ElementsType
      <4>3. p + j <= Len(src)
        <5> HIDE DEF p
        <5> QED
          BY <1>1, <3>2
      <4> HIDE DEF e, k, n, p
      <4> QED
        BY <1>2, <1>4, <4>1, <4>2, <4>3 DEF Follows
    <3> HIDE DEF p, n
    <3>4. Num(src, p, w) = data[i]
      BY <3>1, <3>2, <3>3, NumReads
    <3> QED
      BY <3>4 DEF p
  <2>2. FullArray(src, pos, w, n).value = [i \in 1..n |-> Num(src, (pos + 4) + w * (i - 1), w)]
    BY DEF FullArray
  <2>3. data = [i \in 1..n |-> data[i]]
    BY <1>1
  <2> HIDE DEF n
  <2> QED
    BY <2>1, <2>2, <2>3
<1>9. pos + 4 <= Len(src) =>
         /\ n = 0 => x = EmptyArray(pos)
         /\ n # 0 /\ n > (Len(src) - (pos + 4)) \div w => x = NoArray(pos)
         /\ n # 0 /\ ~ (n > (Len(src) - (pos + 4)) \div w) => x = FullArray(src, pos, w, n)
  <2> SUFFICES ASSUME pos + 4 <= Len(src)
               PROVE  /\ n = 0 => x = EmptyArray(pos)
                      /\ n # 0 /\ n > (Len(src) - (pos + 4)) \div w => x = NoArray(pos)
                      /\ n # 0 /\ ~ (n > (Len(src) - (pos + 4)) \div w)
                           => x = FullArray(src, pos, w, n)
    OBVIOUS
  <2>1. n = ArrayLength(src, pos) /\ src[pos + 4] = 0 /\ ~ (pos + 4 > Len(src))
    BY <1>1, <1>5
  <2>2. ~ (src[pos + 4] >= 128) /\ ~ (src[pos + 4] \in 1..127)
    BY <2>1
  <2> HIDE DEF n, x
  <2> QED
    BY <2>1, <2>2, ArrayCases DEF x
<1>8. Reads(src, pos, l \o e, x, data)
  <2> HIDE DEF n, l, e
  <2>1. CASE pos + 4 > Len(src)
    <3>1. x = NoArray(pos)
      BY <2>1, ArrayCases
    <3> QED
      BY <1>1, <1>4, <2>1, <3>1 DEF Reads, NoArray
  <2>2. CASE pos + 4 <= Len(src) /\ n = 0
    <3>1. x = EmptyArray(pos)
      BY <1>1, <1>9, <2>2
    <3>2. data = <<>> /\ w * n = 0
      BY <1>1, <2>2 DEF n
    <3> QED
      BY <1>1, <1>4, <2>2, <3>1, <3>2 DEF Reads, EmptyArray
  <2>3. CASE pos + 4 <= Len(src) /\ n # 0 /\ (pos + 4) + w * n > Len(src)
    <3>1. x = NoArray(pos)
      BY <1>1, <1>6, <1>9, <2>3
    <3> QED
      BY <1>1, <1>4, <2>3, <3>1 DEF Reads, NoArray
  <2>4. CASE pos + 4 <= Len(src) /\ n # 0 /\ (pos + 4) + w * n <= Len(src)
    <3>1. x = FullArray(src, pos, w, n)
      BY <1>1, <1>6, <1>9, <2>4
    <3>2. x.rv = "Good" /\ x.pos = (pos + 4) + w * n /\ x.value = data
      BY <1>7, <2>4, <3>1 DEF FullArray
    <3> QED
      BY <1>1, <1>4, <2>4, <3>2 DEF Reads
  <2> QED
    BY <1>1, <2>1, <2>2, <2>3, <2>4
<1> QED
  BY <1>3, <1>4, <1>8

---------------------------------------------------------------------------
(* Variants. *)

\* The width of a type the model has is one of the widths.
LEMMA WidthOfType == \A t : WidthOf(t) # 0 => WidthOf(t) \in Widths
BY DEF WidthOf, Widths

\* The empty Variant, a scalar and an array.
Value(type, arr, data) == [type |-> type, arr |-> arr, data |-> data]

\* The Variants of a type.
LEMMA VariantCases ==
    ASSUME NEW v \in Variants
    PROVE  \/ v = EmptyVariant
           \/ /\ v.type \in 1..25 /\ WidthOf(v.type) \in Widths /\ v.arr \in BOOLEAN
              /\ v.data \in Seq(Unsigned(WidthOf(v.type)))
              /\ v = Value(v.type, v.arr, v.data)
              /\ v.arr => Len(v.data) \in Unsigned(4)
              /\ ~v.arr => /\ Len(v.data) = 1 /\ v.data[1] \in Unsigned(WidthOf(v.type))
                           /\ v.data = <<v.data[1]>>
<1> SUFFICES ASSUME v # EmptyVariant
             PROVE  /\ v.type \in 1..25 /\ WidthOf(v.type) \in Widths /\ v.arr \in BOOLEAN
                    /\ v.data \in Seq(Unsigned(WidthOf(v.type)))
                    /\ v = Value(v.type, v.arr, v.data)
                    /\ v.arr => Len(v.data) \in Unsigned(4)
                    /\ ~v.arr => /\ Len(v.data) = 1 /\ v.data[1] \in Unsigned(WidthOf(v.type))
                                 /\ v.data = <<v.data[1]>>
  OBVIOUS
<1>1. /\ v \in [type : 1..25, arr : BOOLEAN, data : Seq(Unsigned(4))]
      /\ WidthOf(v.type) # 0
      /\ \A i \in DOMAIN v.data : v.data[i] \in Unsigned(WidthOf(v.type))
      /\ IF v.arr THEN Len(v.data) \in Unsigned(4) ELSE Len(v.data) = 1
  BY DEF Variants
<1>2. WidthOf(v.type) \in Widths
  BY <1>1, WidthOfType
<1>3. v.data \in Seq(Unsigned(WidthOf(v.type)))
  BY <1>1
<1>4. v = Value(v.type, v.arr, v.data)
  BY <1>1 DEF Value
<1>5. ~v.arr => Len(v.data) = 1 /\ v.data[1] \in Unsigned(WidthOf(v.type)) /\ v.data = <<v.data[1]>>
  <2> SUFFICES ASSUME ~v.arr
               PROVE  /\ Len(v.data) = 1 /\ v.data[1] \in Unsigned(WidthOf(v.type))
                      /\ v.data = <<v.data[1]>>
    OBVIOUS
  <2>1. Len(v.data) = 1
    BY <1>1
  <2>2. v.data[1] \in Unsigned(WidthOf(v.type))
    BY <1>3, <2>1
  <2>3. v.data = <<v.data[1]>>
    BY <1>3, <2>1
  <2> QED
    BY <2>1, <2>2, <2>3
<1> QED
  BY <1>1, <1>2, <1>3, <1>4, <1>5

\* A Variant of numbers of its type is one.
LEMMA VariantIs ==
    ASSUME NEW type \in 1..25, WidthOf(type) # 0, NEW data \in Seq(Unsigned(WidthOf(type))),
           NEW arr \in BOOLEAN,
           arr => Len(data) \in Unsigned(4), ~arr => Len(data) = 1
    PROVE  Value(type, arr, data) \in Variants
<1>1. Unsigned(WidthOf(type)) \subseteq Unsigned(4)
  BY SMT DEF Unsigned, Limit
<1>2. data \in Seq(Unsigned(4)) /\ \A i \in DOMAIN data : data[i] \in Unsigned(WidthOf(type))
  BY <1>1
<1> QED
  BY <1>2 DEF Variants, Value

\* The type id in an encoding byte.
TypeIn(b) == b.value % 64

\* The outcome x with v in the place of its value, when it is good.
Hold(x, v) == IF x.rv = "Good" THEN [x EXCEPT !.value = v] ELSE x

\* Behind the encoding byte 0 there is nothing, the value of a type without a fixed
\* width is passed over, and behind an unknown type nothing is read.
LEMMA NoContent ==
    ASSUME NEW src, NEW b, b.rv = "Good"
    PROVE  /\ b.value = 0 => DecodeContent(src, b) = [b EXCEPT !.value = EmptyVariant]
           /\ b.value # 0 /\ WidthOf(TypeIn(b)) = 0
                => \/ DecodeContent(src, b) = [b EXCEPT !.rv = "BadDecodingError"]
                   \/ DecodeContent(src, b) = DecodeStructured(src, b)
BY DEF DecodeContent, TypeIn, NoFixedWidth

\* Whatever the decoder of such a type takes, the offset stays in the buffer.
LEMMA StructuredType ==
    ASSUME NEW src, Len(src) \in Nat, NEW b, b.rv = "Good", b.pos \in 0..Len(src),
           b = [rv |-> b.rv, pos |-> b.pos, value |-> b.value],
           NEW x, x = DecodeStructured(src, b)
    PROVE  /\ x.rv \in Codes
           /\ x.rv = "Good" => x \in Outcomes(src, Variants) /\ x.pos >= b.pos
<1> DEFINE end == StructuredEnd(src, b.value, b.pos)
<1>1. EmptyVariant \in Variants /\ {"Good", "BadDecodingError"} \subseteq Codes
  BY DEF Variants, Codes
<1>2. CASE end \in b.pos..Len(src)
  <2>1. x = [rv |-> "Good", pos |-> end, value |-> EmptyVariant]
    BY <1>2 DEF DecodeStructured
  <2>2. end \in 0..Len(src) /\ end >= b.pos
    BY <1>2
  <2> HIDE DEF end
  <2> QED
    BY <1>1, <2>1, <2>2 DEF Outcomes
<1>3. CASE ~ (end \in b.pos..Len(src))
  <2>1. x.rv = "BadDecodingError"
    BY <1>3 DEF DecodeStructured
  <2> QED
    BY <1>1, <2>1
<1> QED
  BY <1>2, <1>3

\* Behind the encoding byte of an array there is an array.
LEMMA ArrayContent ==
    ASSUME NEW src, NEW b, b.rv = "Good", b.value # 0, WidthOf(TypeIn(b)) # 0, b.value >= 128,
           NEW x, x = DecodeArrayContent(src, b, WidthOf(TypeIn(b)))
    PROVE  DecodeContent(src, b) = Hold(x, Value(TypeIn(b), TRUE, x.value))
BY DEF DecodeContent, NoFixedWidth, Then, Value, TypeIn, Hold

\* Behind the encoding byte of a scalar there is an integer.
LEMMA ScalarContent ==
    ASSUME NEW src, NEW b, b.rv = "Good", b.value # 0, WidthOf(TypeIn(b)) # 0, ~ (b.value >= 128),
           NEW x, x = Read(src, b.pos, WidthOf(TypeIn(b)))
    PROVE  DecodeContent(src, b) = Hold(x, Value(TypeIn(b), FALSE, <<x.value>>))
<1> DEFINE type == b.value % 64
           Held(y, a) == [y EXCEPT !.value = [type |-> type, arr |-> a,
                                              data |-> IF a THEN y.value ELSE <<y.value>>]]
<1>1. DecodeContent(src, b) = IF x.rv = "Good" THEN Held(x, b.value >= 128) ELSE x
  BY DEF DecodeContent, NoFixedWidth, Then, TypeIn
<1>2. (b.value >= 128) = FALSE
  OBVIOUS
<1>3. Held(x, FALSE) = [x EXCEPT !.value = Value(TypeIn(b), FALSE, <<x.value>>)]
  BY DEF Value, TypeIn
<1>4. Held(x, b.value >= 128) = Held(x, FALSE)
  BY <1>2
<1> HIDE DEF Held
<1> QED
  BY <1>1, <1>3, <1>4 DEF Hold

\* An array that was read begins behind its length.
LEMMA ArrayForward ==
    ASSUME NEW src \in Seq(Octet), NEW pos \in 0..Len(src), NEW w \in Widths,
           DecodeArray(src, pos, w).rv = "Good"
    PROVE  DecodeArray(src, pos, w).pos >= pos + 4
<1> DEFINE x == DecodeArray(src, pos, w)
           n == ArrayLength(src, pos)
<1>1. CASE x = NoArray(pos)
  BY <1>1 DEF NoArray
<1>2. CASE x = EmptyArray(pos)
  BY <1>2 DEF EmptyArray
<1>3. CASE n \in Unsigned(4) /\ x = FullArray(src, pos, w, n)
  <2>1. x.pos = (pos + 4) + w * n
    BY <1>3 DEF FullArray
  <2>2. w * n \in Nat
    BY <1>3, WidthProduct DEF Unsigned
  <2> QED
    BY <2>1, <2>2
<1> HIDE DEF n
<1> QED
  BY <1>1, <1>2, <1>3, ArrayCases DEF n

\* Whatever the bytes are, an array with its dimensions is one of its type, and the
\* offset stays in the buffer.
LEMMA ArrayContentType ==
    ASSUME NEW src \in Seq(Octet), NEW b, b.pos \in 0..Len(src), NEW w \in Widths,
           NEW x, x = DecodeArrayContent(src, b, w)
    PROVE  /\ x \in Outcomes(src, Seq(Unsigned(w))) /\ Len(x.value) \in Unsigned(4)
           /\ x.rv = "Good" => x.pos >= b.pos
<1> DEFINE y == DecodeArray(src, b.pos, w)
           z == DecodeArray(src, y.pos, 4)
<1>1. y \in Outcomes(src, Seq(Unsigned(w))) /\ Len(y.value) \in Unsigned(4)
  BY ArrayType
<1>2. y.rv = "Good" => y.pos >= b.pos + 4
  BY ArrayForward
<1>3. y.pos \in 0..Len(src) /\ b.pos \in Nat
  BY <1>1 DEF Outcomes
<1>4. 4 \in Widths
  BY DEF Widths
<1>5. z \in Outcomes(src, Seq(Unsigned(4))) /\ (z.rv = "Good" => z.pos >= y.pos + 4)
  <2> HIDE DEF y
  <2> QED
    BY <1>3, <1>4, ArrayType, ArrayForward
<1>6. \/ x = y
      \/ y.rv = "Good" /\ x = [z EXCEPT !.value = y.value]
  BY DEF DecodeArrayContent, Then
<1> HIDE DEF y, z
<1>7. CASE x = y
  BY <1>1, <1>2, <1>3, <1>7
<1>8. CASE y.rv = "Good" /\ x = [z EXCEPT !.value = y.value]
  <2>1. x = [rv |-> z.rv, pos |-> z.pos, value |-> y.value]
    BY <1>5, <1>8 DEF Outcomes
  <2>2. z.rv \in Codes /\ z.pos \in 0..Len(src) /\ y.value \in Seq(Unsigned(w))
    BY <1>1, <1>5 DEF Outcomes
  <2>3. x \in Outcomes(src, Seq(Unsigned(w))) /\ Len(x.value) \in Unsigned(4)
    BY <1>1, <2>1, <2>2 DEF Outcomes
  <2>4. x.rv = "Good" => x.pos >= b.pos
    BY <1>2, <1>3, <1>5, <1>8, <2>1, <2>2
  <2> QED
    BY <2>3, <2>4
<1> QED
  BY <1>6, <1>7, <1>8

\* The type ids with a width.
LEMMA TypeIds == \A t : WidthOf(t) # 0 => t \in 1..25
BY DEF WidthOf

\* What follows the encoding byte of a Variant is a Variant, when it is read.
LEMMA ContentType ==
    ASSUME NEW src \in Seq(Octet), NEW b \in Outcomes(src, Unsigned(1)), b.rv = "Good",
           NEW x, x = DecodeContent(src, b)
    PROVE  x.rv \in Codes /\ (x.rv = "Good" => x \in Outcomes(src, Variants) /\ x.pos >= b.pos)
<1> DEFINE type == TypeIn(b)
           w == WidthOf(type)
<1>1. b.pos \in 0..Len(src) /\ b.rv \in Codes /\ b \in [rv : Codes, pos : 0..Len(src), value : Unsigned(1)]
  BY DEF Outcomes
<1>2. CASE b.value = 0
  <2>1. x = [b EXCEPT !.value = EmptyVariant]
    BY <1>2, NoContent
  <2>2. EmptyVariant \in Variants
    BY DEF Variants
  <2> QED
    BY <1>1, <2>1, <2>2 DEF Outcomes
<1>3. CASE b.value # 0 /\ w = 0
  <2>1. CASE x = [b EXCEPT !.rv = "BadDecodingError"]
    BY <1>1, <2>1 DEF Codes
  <2>2. CASE x = DecodeStructured(src, b)
    <3>1. b = [rv |-> b.rv, pos |-> b.pos, value |-> b.value] /\ Len(src) \in Nat
      BY <1>1
    <3> QED
      BY <1>1, <2>2, <3>1, StructuredType
  <2> QED
    BY <1>3, <2>1, <2>2, NoContent
<1>4. CASE b.value # 0 /\ w # 0 /\ b.value >= 128
  <2> DEFINE y == DecodeArrayContent(src, b, w)
  <2>1. x = Hold(y, Value(type, TRUE, y.value))
    BY <1>4, ArrayContent
  <2>2. w \in Widths /\ type \in 1..25
    BY <1>4, WidthOfType, TypeIds
  <2>3. /\ y \in Outcomes(src, Seq(Unsigned(w))) /\ Len(y.value) \in Unsigned(4)
        /\ y.rv = "Good" => y.pos >= b.pos
    BY <1>1, <2>2, ArrayContentType
  <2> HIDE DEF y, w, type
  <2>5. Value(type, TRUE, y.value) \in Variants
    BY <1>4, <2>2, <2>3, VariantIs DEF Outcomes, w
  <2> QED
    BY <2>1, <2>3, <2>5 DEF Outcomes, Hold
<1>5. CASE b.value # 0 /\ w # 0 /\ ~ (b.value >= 128)
  <2> DEFINE y == Read(src, b.pos, w)
  <2>1. x = Hold(y, Value(type, FALSE, <<y.value>>))
    BY <1>5, ScalarContent
  <2>2. w \in Widths /\ type \in 1..25
    BY <1>5, WidthOfType, TypeIds
  <2>3. y \in Outcomes(src, Unsigned(w))
    BY <1>1, <2>2, ReadType
  <2>4. y.rv = "Good" => y.pos >= b.pos
    BY <1>1, <2>2 DEF Read, Widths
  <2> HIDE DEF y, w, type
  <2>5. <<y.value>> \in Seq(Unsigned(w)) /\ Len(<<y.value>>) = 1
    BY <2>3 DEF Outcomes
  <2>6. Value(type, FALSE, <<y.value>>) \in Variants
    BY <1>5, <2>2, <2>5, VariantIs DEF w
  <2> QED
    BY <2>1, <2>3, <2>4, <2>6 DEF Outcomes, Hold
<1> QED
  BY <1>2, <1>3, <1>4, <1>5

\* Whatever the bytes are, a Variant read is a Variant and takes at least a byte.
LEMMA VariantType ==
    ASSUME NEW src \in Seq(Octet), NEW pos \in 0..Len(src)
    PROVE  /\ DecodeVariant(src, pos) \in Outcomes(src, Variants)
           /\ DecodeVariant(src, pos).rv = "Good" => DecodeVariant(src, pos).pos >= pos + 1
<1> DEFINE b == Read(src, pos, 1)
           y == IF b.rv = "Good" THEN DecodeContent(src, b) ELSE b
           x == DecodeVariant(src, pos)
<1>1. x = IF y.rv = "Good" THEN y
          ELSE [rv |-> "BadDecodingError", pos |-> pos, value |-> EmptyVariant]
  BY DEF DecodeVariant, Then, OrFail
<1>2. b \in Outcomes(src, Unsigned(1))
  BY ReadType DEF Widths
<1>3. y.rv = "Good" => y \in Outcomes(src, Variants) /\ y.pos >= pos + 1
  <2> SUFFICES ASSUME y.rv = "Good" PROVE y \in Outcomes(src, Variants) /\ y.pos >= pos + 1
    OBVIOUS
  <2>1. b.rv = "Good" /\ y = DecodeContent(src, b)
    OBVIOUS
  <2>2. b.pos = pos + 1
    BY <2>1 DEF Read
  <2> HIDE DEF b, y
  <2> QED
    BY <1>2, <2>1, <2>2, ContentType
<1>4. EmptyVariant \in Variants /\ "BadDecodingError" \in Codes
  BY DEF Variants, Codes
<1> HIDE DEF x, y
<1>5. CASE y.rv = "Good"
  BY <1>1, <1>3, <1>5 DEF x
<1>6. CASE y.rv # "Good"
  <2>1. x = [rv |-> "BadDecodingError", pos |-> pos, value |-> EmptyVariant]
    BY <1>1, <1>6
  <2> QED
    BY <1>4, <2>1 DEF Outcomes, x
<1> QED
  BY <1>5, <1>6

\* The bytes of a Variant that is not empty.
LEMMA VariantWrites ==
    ASSUME NEW v \in Variants, v # EmptyVariant
    PROVE  \/ /\ v.arr /\ WidthOf(v.type) \in Widths
              /\ EncodeVariant(v) = <<v.type + 128>> \o EncodeArray(v.data, WidthOf(v.type))
              /\ VariantSize(v) = 1 + (4 + WidthOf(v.type) * Len(v.data))
              /\ v.type + 128 \in Octet /\ (v.type + 128) % 64 = v.type /\ v.type + 128 # 0
           \/ /\ ~v.arr /\ WidthOf(v.type) \in Widths
              /\ EncodeVariant(v) = <<v.type>> \o LE(v.data[1], WidthOf(v.type))
              /\ VariantSize(v) = 1 + WidthOf(v.type)
              /\ v.type \in Octet /\ v.type % 64 = v.type /\ v.type # 0 /\ v.type < 128
<1>1. v.type \in 1..25 /\ WidthOf(v.type) \in Widths /\ v.arr \in BOOLEAN
  BY VariantCases
<1>2. v.type # 0 /\ v.type \in Nat /\ v.type + 0 = v.type
  BY <1>1
<1>3. /\ v.type + 128 \in Octet /\ (v.type + 128) % 64 = v.type /\ v.type + 128 # 0
      /\ v.type \in Octet /\ v.type % 64 = v.type /\ v.type # 0 /\ v.type < 128
  BY <1>1 DEF Octet
<1>4. CASE v.arr
  <2>1. EncodeVariant(v) = <<v.type + 128>> \o EncodeArray(v.data, WidthOf(v.type))
    BY Zenon, <1>2, <1>4 DEF EncodeVariant
  <2>2. VariantSize(v) = 1 + (4 + WidthOf(v.type) * Len(v.data))
    BY Zenon, <1>2, <1>4 DEF VariantSize, ArraySize
  <2> QED
    BY <1>1, <1>3, <1>4, <2>1, <2>2
<1>5. CASE ~v.arr
  <2>1. EncodeVariant(v) = <<v.type>> \o LE(v.data[1], WidthOf(v.type))
    BY Zenon, <1>2, <1>5 DEF EncodeVariant
  <2>2. VariantSize(v) = 1 + WidthOf(v.type)
    BY Zenon, <1>2, <1>5 DEF VariantSize
  <2> QED
    BY <1>1, <1>3, <1>5, <2>1, <2>2
<1> QED
  BY <1>4, <1>5

\* A string of one byte.
LEMMA OneByte ==
    ASSUME NEW x \in Octet
    PROVE  <<x>> \in Seq(Octet) /\ Len(<<x>>) = 1 /\ LE(x, 1) = <<x>> /\ x \in Unsigned(1)
<1>1. x \in Nat /\ x < 256
  BY OctetRange
<1>2. x \in Unsigned(1)
  BY SMT, <1>1 DEF Unsigned, Limit
<1>3. LE(x, 1) = <<x>>
  <2>1. LE(x, 1) = [i \in 1..1 |-> x]
    <3>1. \A i \in 1..1 : LE(x, 1)[i] = x
      BY SMT, <1>1 DEF LE
    <3>2. LE(x, 1) = [i \in 1..1 |-> LE(x, 1)[i]]
      BY DEF LE
    <3> QED
      BY <3>1, <3>2
  <2> QED
    BY <2>1
<1> QED
  BY <1>2, <1>3

\* The bytes of a Variant, and their number.
LEMMA VariantBytes ==
    ASSUME NEW v \in Variants
    PROVE  /\ EncodeVariant(v) \in Seq(Octet) /\ Len(EncodeVariant(v)) = VariantSize(v)
           /\ VariantSize(v) \in Nat /\ VariantSize(v) >= 1
<1>1. CASE v = EmptyVariant
  <2>1. EncodeVariant(v) = <<0>> /\ VariantSize(v) = 1
    BY <1>1 DEF EncodeVariant, VariantSize, EmptyVariant
  <2>2. 0 \in Octet
    BY DEF Octet
  <2> QED
    BY <2>1, <2>2
<1>2. CASE v # EmptyVariant
  <2> DEFINE w == WidthOf(v.type)
             c == IF v.arr THEN EncodeArray(v.data, w) ELSE LE(v.data[1], w)
  <2>1. /\ w \in Widths /\ v.data \in Seq(Unsigned(w)) /\ v.arr \in BOOLEAN
        /\ ~v.arr => Len(v.data) = 1 /\ v.data[1] \in Unsigned(w)
    BY <1>2, VariantCases
  <2>2. CASE v.arr
    <3>0. v.data \in Seq(Nat) /\ Len(v.data) \in Nat
      <4>1. Unsigned(w) \subseteq Nat
        BY DEF Unsigned
      <4> QED
        BY <2>1, <4>1
    <3>1. LE(Len(v.data), 4) \in Seq(Octet) /\ Len(LE(Len(v.data), 4)) = 4
      BY <3>0, LEType
    <3>2. ElementBytes(v.data, w) \in Seq(Octet) /\ Len(ElementBytes(v.data, w)) = w * Len(v.data)
      <4> HIDE DEF w
      <4> QED
        BY <2>1, <3>0, ElementsType
    <3>5. w * Len(v.data) \in Nat
      <4> HIDE DEF w
      <4> QED
        BY <2>1, <3>0, WidthProduct
    <3>3. EncodeArray(v.data, w) \in Seq(Octet) /\ Len(EncodeArray(v.data, w)) = 4 + w * Len(v.data)
      <4> HIDE DEF w
      <4>1. EncodeArray(v.data, w) = LE(Len(v.data), 4) \o ElementBytes(v.data, w)
        BY DEF EncodeArray
      <4> QED
        BY <3>1, <3>2, <4>1, OctetsConcat
    <3>4. /\ EncodeVariant(v) = <<v.type + 128>> \o EncodeArray(v.data, w)
          /\ VariantSize(v) = 1 + (4 + w * Len(v.data)) /\ v.type + 128 \in Octet
      BY <1>2, <2>2, VariantWrites
    <3> HIDE DEF w
    <3> QED
      BY <3>3, <3>4, <3>5
  <2>3. CASE ~v.arr
    <3>1. w \in Nat /\ v.data[1] \in Nat
      BY <2>1, <2>3 DEF Widths, Unsigned
    <3>2. LE(v.data[1], w) \in Seq(Octet) /\ Len(LE(v.data[1], w)) = w
      <4> HIDE DEF w
      <4> QED
        BY <3>1, LEType
    <3>3. /\ EncodeVariant(v) = <<v.type>> \o LE(v.data[1], w)
          /\ VariantSize(v) = 1 + w /\ v.type \in Octet
      BY <1>2, <2>3, VariantWrites
    <3> HIDE DEF w
    <3> QED
      BY <3>1, <3>2, <3>3
  <2> QED
    BY <2>1, <2>2, <2>3
<1> QED
  BY <1>1, <1>2

\* The Variants as the decoder finds them: the byte, then the content.
LEMMA DecodeVariantIs ==
    ASSUME NEW src, NEW pos, NEW b, b = Read(src, pos, 1), NEW y, y = DecodeContent(src, b)
    PROVE  DecodeVariant(src, pos) =
             IF b.rv = "Good" /\ y.rv = "Good" THEN y
             ELSE [rv |-> "BadDecodingError", pos |-> pos, value |-> EmptyVariant]
BY DEF DecodeVariant, Then, OrFail

\* A byte, and what follows it.
LEMMA ByteReads ==
    ASSUME NEW src \in Seq(Octet), NEW pos \in Nat, NEW t \in Octet, NEW c \in Seq(Octet),
           Follows(src, pos, <<t>> \o c), NEW b, b = Read(src, pos, 1)
    PROVE  /\ Len(<<t>> \o c) = 1 + Len(c) /\ Len(c) \in Nat /\ <<t>> \o c \in Seq(Octet)
           /\ pos + 1 <= Len(src) => /\ Follows(src, pos + 1, c) /\ b.value = t
                                     /\ b = [rv |-> "Good", pos |-> pos + 1, value |-> t]
           /\ ~ (pos + 1 <= Len(src)) => b.rv # "Good"
<1> DEFINE s == <<t>>
<1>1. s \in Seq(Octet) /\ Len(s) = 1 /\ LE(t, 1) = s /\ t \in Unsigned(1)
  BY OneByte
<1> HIDE DEF s
<1>2. Follows(src, pos, s \o c)
  BY DEF s
<1>3. Follows(src, pos, s) /\ Follows(src, pos + Len(s), c)
  BY <1>1, <1>2, FollowsConcat
<1>4. Reads(src, pos, s, b, t)
  <2>1. 1 \in Widths
    BY DEF Widths
  <2> QED
    BY <1>1, <1>3, <2>1, IntegerReads
<1>5. s \o c \in Seq(Octet) /\ Len(s \o c) = 1 + Len(c) /\ Len(c) \in Nat
  BY <1>1, OctetsConcat
<1>6. b = [rv |-> b.rv, pos |-> b.pos, value |-> b.value]
  BY DEF Read
<1>7. CASE pos + 1 <= Len(src)
  <2>1. b.rv = "Good" /\ b.pos = pos + 1 /\ b.value = t
    BY <1>1, <1>4, <1>7 DEF Reads
  <2> QED
    BY <1>1, <1>3, <1>5, <1>6, <1>7, <2>1 DEF s
<1>8. CASE ~ (pos + 1 <= Len(src))
  BY <1>1, <1>4, <1>5, <1>8 DEF Reads, s
<1> QED
  BY <1>7, <1>8

\* The array bit of the encoding byte.
LEMMA ArrayBit == \A k \in 1..25 : ~ (k >= 128) /\ k + 128 >= 128
OBVIOUS

\* The bit for array dimensions is never set with it.
LEMMA NoDimensions == \A k \in 1..25 : ~Bit(k + 128, 64)
BY DEF Bit

\* A Variant is read as it was written.
LEMMA VariantReads ==
    ASSUME NEW src \in Seq(Octet), NEW pos \in 0..Len(src), NEW v \in Variants,
           Follows(src, pos, EncodeVariant(v))
    PROVE  Reads(src, pos, EncodeVariant(v), DecodeVariant(src, pos), v)
<1> DEFINE b == Read(src, pos, 1)
           y == DecodeContent(src, b)
           x == DecodeVariant(src, pos)
           e == EncodeVariant(v)
<1>1. x = IF b.rv = "Good" /\ y.rv = "Good" THEN y
          ELSE [rv |-> "BadDecodingError", pos |-> pos, value |-> EmptyVariant]
  BY DecodeVariantIs
<1>2. e \in Seq(Octet) /\ Len(src) \in Nat /\ pos \in Nat /\ Len(e) \in Nat
  BY VariantBytes
<1>3. ASSUME NEW t \in Octet, NEW c \in Seq(Octet), e = <<t>> \o c
      PROVE  /\ Len(e) = 1 + Len(c) /\ Len(c) \in Nat
             /\ pos + 1 <= Len(src) => /\ Follows(src, pos + 1, c) /\ b.value = t
                                       /\ b = [rv |-> "Good", pos |-> pos + 1, value |-> t]
             /\ ~ (pos + 1 <= Len(src)) => b.rv # "Good"
  <2>1. Follows(src, pos, e)
    OBVIOUS
  <2> HIDE DEF b, e
  <2> QED
    BY <1>2, <1>3, <2>1, ByteReads DEF b
<1>4. CASE v = EmptyVariant
  <2> DEFINE c == <<>>
             t == 0
  <2>1. e = <<t>> \o c /\ t \in Octet /\ c \in Seq(Octet) /\ Len(c) = 0
    BY <1>4 DEF EncodeVariant, EmptyVariant, Octet
  <2>2. b.rv = "Good" /\ b.value = 0 => y = [b EXCEPT !.value = EmptyVariant]
    BY NoContent
  <2> HIDE DEF b, y, x, e, c, t
  <2>6. /\ Len(e) = 1 + Len(c)
        /\ pos + 1 <= Len(src) => b.value = t /\ b = [rv |-> "Good", pos |-> pos + 1, value |-> t]
        /\ ~ (pos + 1 <= Len(src)) => b.rv # "Good"
    BY <1>3, <2>1
  <2>3. /\ Len(e) = 1
        /\ pos + 1 <= Len(src) => b.value = 0 /\ b = [rv |-> "Good", pos |-> pos + 1, value |-> 0]
        /\ ~ (pos + 1 <= Len(src)) => b.rv # "Good"
    BY <2>1, <2>6 DEF t
  <2>4. CASE pos + 1 <= Len(src)
    <3>1. b = [rv |-> "Good", pos |-> pos + 1, value |-> 0] /\ b.rv = "Good" /\ b.value = 0
      BY <2>3, <2>4
    <3>2. y = [rv |-> "Good", pos |-> pos + 1, value |-> EmptyVariant]
      BY <2>2, <3>1
    <3> QED
      BY <1>1, <1>4, <2>3, <2>4, <3>1, <3>2 DEF Reads, e, x
  <2>5. CASE ~ (pos + 1 <= Len(src))
    BY <1>1, <2>3, <2>5 DEF Reads, e, x
  <2> QED
    BY <2>4, <2>5 DEF e, x
<1>5. CASE v # EmptyVariant
  <2> DEFINE w == WidthOf(v.type)
  <2>0. /\ w \in Widths /\ v.data \in Seq(Unsigned(w)) /\ v = Value(v.type, v.arr, v.data)
        /\ v.arr \in BOOLEAN /\ w # 0
        /\ v.arr => Len(v.data) \in Unsigned(4)
        /\ ~v.arr => v.data[1] \in Unsigned(w) /\ v.data = <<v.data[1]>>
    BY <1>5, VariantCases DEF Widths
  <2>1. CASE v.arr
    <3> DEFINE c == EncodeArray(v.data, w)
               t == v.type + 128
               z == DecodeArray(src, pos + 1, w)
    <3>1. t \in Octet /\ t % 64 = v.type /\ t # 0 /\ e = <<t>> \o c
      BY <1>5, <2>1, VariantWrites
    <3>2. c \in Seq(Octet)
      <4>1. Len(v.data) \in Nat /\ v.data \in Seq(Nat)
        BY <2>0 DEF Unsigned
      <4>2. LE(Len(v.data), 4) \in Seq(Octet) /\ ElementBytes(v.data, w) \in Seq(Octet)
        <5> HIDE DEF w
        <5> QED
          BY <2>0, <4>1, LEType, ElementsType
      <4> QED
        BY <4>2, OctetsConcat DEF EncodeArray
    <3>3. CASE pos + 1 <= Len(src)
      <4>1. /\ Follows(src, pos + 1, c) /\ b.value = t /\ Len(e) = 1 + Len(c) /\ Len(c) \in Nat
            /\ b = [rv |-> "Good", pos |-> pos + 1, value |-> t]
        <5> HIDE DEF b, c, t, e
        <5> QED
          BY <1>3, <3>1, <3>2, <3>3
      <4>2. Reads(src, pos + 1, c, z, v.data)
        <5>1. pos + 1 \in 0..Len(src)
          BY <1>2, <3>3
        <5> HIDE DEF w, z
        <5> QED
          BY <2>0, <2>1, <4>1, <5>1, ArrayReads DEF z
      <4>3. y = Hold(z, Value(v.type, TRUE, z.value))
        <5>1. b.rv = "Good" /\ b.pos = pos + 1 /\ TypeIn(b) = v.type /\ b.value # 0
          BY <3>1, <4>1 DEF TypeIn
        <5>2. b.value >= 128
          <6>1. v.type \in 1..25
            BY <1>5, VariantCases
          <6>2. b.value = v.type + 128
            BY <4>1
          <6> HIDE DEF b
          <6>3. ~ (v.type >= 128) /\ v.type + 128 >= 128
            BY <6>1, ArrayBit
          <6> QED
            BY Zenon, <6>2, <6>3
        <5>3. z = DecodeArrayContent(src, b, WidthOf(TypeIn(b)))
          <6>1. v.type \in 1..25
            BY <1>5, VariantCases
          <6>2. ~Bit(b.value, 64)
            BY <4>1, <6>1, NoDimensions
          <6> HIDE DEF b
          <6> QED
            BY <5>1, <6>2 DEF DecodeArrayContent
        <5>4. y = DecodeContent(src, b) /\ WidthOf(TypeIn(b)) # 0
          BY <2>0, <5>1
        <5> HIDE DEF b, z, w, y
        <5> QED
          <6>1. DecodeContent(src, b) = Hold(z, Value(TypeIn(b), TRUE, z.value))
            BY Zenon, <5>1, <5>2, <5>3, <5>4, ArrayContent
          <6> QED
            BY Zenon, <5>1, <5>4, <6>1
      <4>4. z = [rv |-> z.rv, pos |-> z.pos, value |-> z.value]
        <5>1. z \in Outcomes(src, Seq(Unsigned(w)))
          BY <1>2, <2>0, <3>3, ArrayType
        <5> HIDE DEF z
        <5> QED
          BY <5>1 DEF Outcomes
      <4> HIDE DEF b, c, z, y, x, e, w, t
      <4>5. CASE (pos + 1) + Len(c) <= Len(src)
        <5>1. z.rv = "Good" /\ z.pos = (pos + 1) + Len(c) /\ z.value = v.data
          BY <4>2, <4>5 DEF Reads
        <5>2. y = [rv |-> "Good", pos |-> (pos + 1) + Len(c), value |-> Value(v.type, TRUE, v.data)]
          BY <4>3, <4>4, <5>1 DEF Hold
        <5>3. v = Value(v.type, TRUE, v.data)
          BY <2>0, <2>1
        <5>4. b.rv = "Good" /\ y.rv = "Good"
          BY <4>1, <5>2
        <5>5. x.rv = "Good" /\ x.pos = (pos + 1) + Len(c) /\ x.value = v
          BY <1>1, <5>2, <5>3, <5>4
        <5> QED
          BY <1>2, <4>1, <4>5, <5>5 DEF Reads, e, x
      <4>6. CASE ~ ((pos + 1) + Len(c) <= Len(src))
        <5>1. z.rv # "Good" /\ y = z
          BY <4>2, <4>3, <4>6 DEF Reads, Hold
        <5>2. x.rv # "Good"
          BY <1>1, <5>1
        <5> QED
          BY <1>2, <4>1, <4>6, <5>2 DEF Reads, e, x
      <4> QED
        BY <4>5, <4>6 DEF e, x
    <3>4. CASE ~ (pos + 1 <= Len(src))
      <4> HIDE DEF b, c, t, e, x, y
      <4>1. b.rv # "Good" /\ Len(e) = 1 + Len(c) /\ Len(c) \in Nat
        BY <1>3, <3>1, <3>2, <3>4
      <4> QED
        BY <1>1, <1>2, <3>4, <4>1 DEF Reads, e, x
    <3> QED
      BY <3>3, <3>4
  <2>2. CASE ~v.arr
    <3> DEFINE c == LE(v.data[1], w)
               t == v.type
               z == Read(src, pos + 1, w)
    <3>1. t \in Octet /\ t % 64 = v.type /\ t # 0 /\ e = <<t>> \o c /\ t < 128
      BY <1>5, <2>2, VariantWrites
    <3>2. c \in Seq(Octet)
      <4>1. v.data[1] \in Nat /\ w \in Nat
        BY <2>0, <2>2 DEF Unsigned, Widths
      <4> QED
        BY <4>1, LEType
    <3>3. CASE pos + 1 <= Len(src)
      <4>1. /\ Follows(src, pos + 1, c) /\ b.value = t /\ Len(e) = 1 + Len(c) /\ Len(c) \in Nat
            /\ b = [rv |-> "Good", pos |-> pos + 1, value |-> t]
        <5> HIDE DEF b, c, t, e
        <5> QED
          BY <1>3, <3>1, <3>2, <3>3
      <4>2. Reads(src, pos + 1, c, z, v.data[1])
        <5>1. pos + 1 \in Nat /\ v.data[1] \in Unsigned(w)
          BY <1>2, <2>0, <2>2
        <5> HIDE DEF w, z
        <5> QED
          BY <2>0, <4>1, <5>1, IntegerReads DEF z
      <4>3. y = Hold(z, Value(v.type, FALSE, <<z.value>>))
        <5>1. b.rv = "Good" /\ b.pos = pos + 1 /\ TypeIn(b) = v.type /\ b.value # 0
          BY <3>1, <4>1 DEF TypeIn
        <5>2. ~ (b.value >= 128)
          <6>1. v.type \in 1..25
            BY <1>5, VariantCases
          <6>2. b.value = v.type
            BY <4>1
          <6> HIDE DEF b
          <6>3. ~ (v.type >= 128) /\ v.type + 128 >= 128
            BY <6>1, ArrayBit
          <6> QED
            BY Zenon, <6>2, <6>3
        <5>3. z = Read(src, b.pos, WidthOf(TypeIn(b)))
          BY <5>1
        <5>4. y = DecodeContent(src, b) /\ WidthOf(TypeIn(b)) # 0
          BY <2>0, <5>1
        <5> HIDE DEF b, z, w, y
        <5> QED
          <6>1. DecodeContent(src, b) = Hold(z, Value(TypeIn(b), FALSE, <<z.value>>))
            BY Zenon, <5>1, <5>2, <5>3, <5>4, ScalarContent
          <6> QED
            BY Zenon, <5>1, <5>4, <6>1
      <4>4. z = [rv |-> z.rv, pos |-> z.pos, value |-> z.value]
        BY DEF Read
      <4>5. v = Value(v.type, FALSE, <<v.data[1]>>)
        <5> HIDE DEF w
        <5> QED
          BY <2>0, <2>2
      <4> HIDE DEF b, c, z, y, x, e, w, t
      <4>6. CASE (pos + 1) + Len(c) <= Len(src)
        <5>1. z.rv = "Good" /\ z.pos = (pos + 1) + Len(c) /\ z.value = v.data[1]
          BY <4>2, <4>6 DEF Reads
        <5>2. y = [rv |-> "Good", pos |-> (pos + 1) + Len(c), value |-> Value(v.type, FALSE, <<v.data[1]>>)]
          BY <4>3, <4>4, <5>1 DEF Hold
        <5>4. b.rv = "Good" /\ y.rv = "Good"
          BY <4>1, <5>2
        <5>5. x.rv = "Good" /\ x.pos = (pos + 1) + Len(c) /\ x.value = v
          BY <1>1, <4>5, <5>2, <5>4
        <5> QED
          BY <1>2, <4>1, <4>6, <5>5 DEF Reads, e, x
      <4>7. CASE ~ ((pos + 1) + Len(c) <= Len(src))
        <5>1. z.rv # "Good" /\ y = z
          BY <4>2, <4>3, <4>7 DEF Reads, Hold
        <5>2. x.rv # "Good"
          BY <1>1, <5>1
        <5> QED
          BY <1>2, <4>1, <4>7, <5>2 DEF Reads, e, x
      <4> QED
        BY <4>6, <4>7 DEF e, x
    <3>4. CASE ~ (pos + 1 <= Len(src))
      <4> HIDE DEF b, c, t, e, x, y
      <4>1. b.rv # "Good" /\ Len(e) = 1 + Len(c) /\ Len(c) \in Nat
        BY <1>3, <3>1, <3>2, <3>4
      <4> QED
        BY <1>1, <1>2, <3>4, <4>1 DEF Reads, e, x
    <3> QED
      BY <3>3, <3>4
  <2> QED
    BY <2>0, <2>1, <2>2
<1> QED
  BY <1>4, <1>5

---------------------------------------------------------------------------
(* Flags. *)

\* What a feature adds to the byte of its flags.
Mask(on, f, mask) == IF f \in on THEN mask ELSE 0

\* The masks of the features in on add up to n over S.
SumIs(masks, on, S, n) ==
    /\ IsFiniteSet(S) /\ n \in Nat /\ \A f \in S : masks[f] \in Nat
    /\ SumFunctionOnSet(masks, on \cap S) = n

\* Over no feature the sum is 0.
LEMMA SumOfNone == \A masks, on : SumIs(masks, on, {}, 0)
<1> TAKE masks, on
<1>1. on \cap {} = {} /\ IsFiniteSet({})
  BY FS_EmptySet
<1> QED
  BY <1>1, SumUnfolds DEF SumIs

\* One feature more.
LEMMA SumMore ==
    ASSUME NEW masks, NEW on, NEW S, NEW n, SumIs(masks, on, S, n),
           NEW f, f \notin S, NEW k \in Nat, masks[f] = k
    PROVE  SumIs(masks, on, S \cup {f}, Mask(on, f, k) + n)
<1>1. IsFiniteSet(S) /\ n \in Nat /\ \A y \in S \cup {f} : masks[y] \in Nat
  BY DEF SumIs
<1>2. SumFunctionOnSet(masks, on \cap (S \cup {f})) = Mask(on, f, k) + n
  BY <1>1, SumOver DEF SumIs, Mask
<1>3. IsFiniteSet(S \cup {f})
  BY <1>1, FS_AddElement
<1>4. Mask(on, f, k) + n \in Nat
  BY <1>1 DEF Mask
<1> QED
  BY <1>1, <1>2, <1>3, <1>4 DEF SumIs

\* The byte of the flags of a DataValue.
LEMMA DataValueByte ==
    ASSUME NEW on, NEW v, v = FlagByte(on, DataValueMask)
    PROVE  /\ v \in Octet
           /\ FlagsIn(v, DataValueMask) = on \cap DOMAIN DataValueMask
<1> DEFINE m == DataValueMask
           s1 == {} \cup {"serverPicoseconds"}
           s2 == s1 \cup {"sourcePicoseconds"}
           s3 == s2 \cup {"serverTimestamp"}
           s4 == s3 \cup {"sourceTimestamp"}
           s5 == s4 \cup {"status"}
           s6 == s5 \cup {"value"}
<1>1. /\ m["value"] = 1 /\ m["status"] = 2 /\ m["sourceTimestamp"] = 4 /\ m["serverTimestamp"] = 8
      /\ m["sourcePicoseconds"] = 16 /\ m["serverPicoseconds"] = 32
      /\ DOMAIN m = {"value", "status", "sourceTimestamp", "serverTimestamp", "sourcePicoseconds", "serverPicoseconds"}
  BY DEF DataValueMask
<1> HIDE DEF m
<1>2. SumIs(m, on, s6, Mask(on, "value", 1) + (Mask(on, "status", 2) + (Mask(on, "sourceTimestamp", 4) + (Mask(on, "serverTimestamp", 8) + (Mask(on, "sourcePicoseconds", 16) + (Mask(on, "serverPicoseconds", 32) + 0))))))
  <2>1. SumIs(m, on, s1, Mask(on, "serverPicoseconds", 32) + 0)
    BY <1>1, SumOfNone, SumMore
  <2>2. SumIs(m, on, s2, Mask(on, "sourcePicoseconds", 16) + (Mask(on, "serverPicoseconds", 32) + 0))
    BY <1>1, <2>1, SumMore
  <2>3. SumIs(m, on, s3, Mask(on, "serverTimestamp", 8) + (Mask(on, "sourcePicoseconds", 16) + (Mask(on, "serverPicoseconds", 32) + 0)))
    BY <1>1, <2>2, SumMore
  <2>4. SumIs(m, on, s4, Mask(on, "sourceTimestamp", 4) + (Mask(on, "serverTimestamp", 8) + (Mask(on, "sourcePicoseconds", 16) + (Mask(on, "serverPicoseconds", 32) + 0))))
    BY <1>1, <2>3, SumMore
  <2>5. SumIs(m, on, s5, Mask(on, "status", 2) + (Mask(on, "sourceTimestamp", 4) + (Mask(on, "serverTimestamp", 8) + (Mask(on, "sourcePicoseconds", 16) + (Mask(on, "serverPicoseconds", 32) + 0)))))
    BY <1>1, <2>4, SumMore
  <2> QED
    BY <1>1, <2>5, SumMore
<1>3. on \cap DOMAIN m = on \cap s6
  BY <1>1
<1> HIDE DEF s6
<1> DEFINE b1 == IF "value" \in on THEN 1 ELSE 0
           b2 == IF "status" \in on THEN 1 ELSE 0
           b3 == IF "sourceTimestamp" \in on THEN 1 ELSE 0
           b4 == IF "serverTimestamp" \in on THEN 1 ELSE 0
           b5 == IF "sourcePicoseconds" \in on THEN 1 ELSE 0
           b6 == IF "serverPicoseconds" \in on THEN 1 ELSE 0
<1>4. v = 1 * b1 + 2 * b2 + 4 * b3 + 8 * b4 + 16 * b5 + 32 * b6
  <2>1. FlagByte(on, m) = Mask(on, "value", 1) + (Mask(on, "status", 2) + (Mask(on, "sourceTimestamp", 4) + (Mask(on, "serverTimestamp", 8) + (Mask(on, "sourcePicoseconds", 16) + (Mask(on, "serverPicoseconds", 32) + 0)))))
    BY <1>2, <1>3 DEF FlagByte, SumIs
  <2>2. /\ Mask(on, "value", 1) = 1 * b1
        /\ Mask(on, "status", 2) = 2 * b2
        /\ Mask(on, "sourceTimestamp", 4) = 4 * b3
        /\ Mask(on, "serverTimestamp", 8) = 8 * b4
        /\ Mask(on, "sourcePicoseconds", 16) = 16 * b5
        /\ Mask(on, "serverPicoseconds", 32) = 32 * b6
    BY DEF Mask
  <2>4. b1 \in {0, 1} /\ b2 \in {0, 1} /\ b3 \in {0, 1} /\ b4 \in {0, 1} /\ b5 \in {0, 1} /\ b6 \in {0, 1}
    OBVIOUS
  <2>5. v = FlagByte(on, m)
    BY DEF m
  <2> HIDE DEF b1, b2, b3, b4, b5, b6
  <2> QED
    BY <2>1, <2>2, <2>4, <2>5
<1>5. /\ b1 \in {0, 1} /\ b2 \in {0, 1} /\ b3 \in {0, 1} /\ b4 \in {0, 1} /\ b5 \in {0, 1} /\ b6 \in {0, 1}
      /\ (b1 = 1 <=> "value" \in on) /\ (b2 = 1 <=> "status" \in on) /\ (b3 = 1 <=> "sourceTimestamp" \in on) /\ (b4 = 1 <=> "serverTimestamp" \in on) /\ (b5 = 1 <=> "sourcePicoseconds" \in on) /\ (b6 = 1 <=> "serverPicoseconds" \in on)
  OBVIOUS
<1> HIDE DEF b1, b2, b3, b4, b5, b6
<1>6. v \in 0..255
  BY <1>4, <1>5
<1>7. /\ (v \div 1) % 2 = b1
      /\ (v \div 2) % 2 = b2
      /\ (v \div 4) % 2 = b3
      /\ (v \div 8) % 2 = b4
      /\ (v \div 16) % 2 = b5
      /\ (v \div 32) % 2 = b6
  BY SMT, <1>4, <1>5
<1>8. \A f \in DOMAIN m : Bit(v, m[f]) <=> f \in on
  BY <1>1, <1>5, <1>7 DEF Bit
<1>9. FlagsIn(v, m) = on \cap DOMAIN m
  BY <1>8 DEF FlagsIn
<1> QED
  BY <1>5, <1>6, <1>7, <1>9 DEF Octet, m

\* The first flags of a DataSetMessage, with the field encoding and the bit of the second byte.
LEMMA Flags1Byte ==
    ASSUME NEW on, NEW k \in 0..2, NEW top \in BOOLEAN, NEW v, v = 2 * k + FlagByte(on, Flags1Mask) + (IF top THEN 128 ELSE 0)
    PROVE  /\ v \in Octet
           /\ FlagsIn(v, Flags1Mask) = on \cap DOMAIN Flags1Mask
           /\ (v \div 2) % 4 = k
           /\ Bit(v, 128) <=> top
<1> DEFINE m == Flags1Mask
           s1 == {} \cup {"minorVersion"}
           s2 == s1 \cup {"majorVersion"}
           s3 == s2 \cup {"status"}
           s4 == s3 \cup {"sequenceNr"}
           s5 == s4 \cup {"valid"}
<1>1. /\ m["valid"] = 1 /\ m["sequenceNr"] = 8 /\ m["status"] = 16 /\ m["majorVersion"] = 32
      /\ m["minorVersion"] = 64
      /\ DOMAIN m = {"valid", "sequenceNr", "status", "majorVersion", "minorVersion"}
  BY DEF Flags1Mask
<1> HIDE DEF m
<1>2. SumIs(m, on, s5, Mask(on, "valid", 1) + (Mask(on, "sequenceNr", 8) + (Mask(on, "status", 16) + (Mask(on, "majorVersion", 32) + (Mask(on, "minorVersion", 64) + 0)))))
  <2>1. SumIs(m, on, s1, Mask(on, "minorVersion", 64) + 0)
    BY <1>1, SumOfNone, SumMore
  <2>2. SumIs(m, on, s2, Mask(on, "majorVersion", 32) + (Mask(on, "minorVersion", 64) + 0))
    BY <1>1, <2>1, SumMore
  <2>3. SumIs(m, on, s3, Mask(on, "status", 16) + (Mask(on, "majorVersion", 32) + (Mask(on, "minorVersion", 64) + 0)))
    BY <1>1, <2>2, SumMore
  <2>4. SumIs(m, on, s4, Mask(on, "sequenceNr", 8) + (Mask(on, "status", 16) + (Mask(on, "majorVersion", 32) + (Mask(on, "minorVersion", 64) + 0))))
    BY <1>1, <2>3, SumMore
  <2> QED
    BY <1>1, <2>4, SumMore
<1>3. on \cap DOMAIN m = on \cap s5
  BY <1>1
<1> HIDE DEF s5
<1> DEFINE b1 == IF "valid" \in on THEN 1 ELSE 0
           b2 == IF "sequenceNr" \in on THEN 1 ELSE 0
           b3 == IF "status" \in on THEN 1 ELSE 0
           b4 == IF "majorVersion" \in on THEN 1 ELSE 0
           b5 == IF "minorVersion" \in on THEN 1 ELSE 0
           c == IF top THEN 1 ELSE 0
<1>4. v = 2 * k + 1 * b1 + 8 * b2 + 16 * b3 + 32 * b4 + 64 * b5 + 128 * c
  <2>1. FlagByte(on, m) = Mask(on, "valid", 1) + (Mask(on, "sequenceNr", 8) + (Mask(on, "status", 16) + (Mask(on, "majorVersion", 32) + (Mask(on, "minorVersion", 64) + 0))))
    BY <1>2, <1>3 DEF FlagByte, SumIs
  <2>2. /\ Mask(on, "valid", 1) = 1 * b1
        /\ Mask(on, "sequenceNr", 8) = 8 * b2
        /\ Mask(on, "status", 16) = 16 * b3
        /\ Mask(on, "majorVersion", 32) = 32 * b4
        /\ Mask(on, "minorVersion", 64) = 64 * b5
    BY DEF Mask
  <2>3. (IF top THEN 128 ELSE 0) = 128 * c
    OBVIOUS
  <2>4. b1 \in {0, 1} /\ b2 \in {0, 1} /\ b3 \in {0, 1} /\ b4 \in {0, 1} /\ b5 \in {0, 1}
    OBVIOUS
  <2> DEFINE d == IF top THEN 128 ELSE 0
  <2>5. v = 2 * k + FlagByte(on, m) + d
    BY DEF m
  <2>6. d = 128 * c /\ c \in {0, 1}
    BY <2>3
  <2> HIDE DEF b1, b2, b3, b4, b5, c, d
  <2> QED
    BY <2>1, <2>2, <2>4, <2>5, <2>6
<1>5. /\ b1 \in {0, 1} /\ b2 \in {0, 1} /\ b3 \in {0, 1} /\ b4 \in {0, 1} /\ b5 \in {0, 1} /\ c \in {0, 1}
      /\ (b1 = 1 <=> "valid" \in on) /\ (b2 = 1 <=> "sequenceNr" \in on) /\ (b3 = 1 <=> "status" \in on) /\ (b4 = 1 <=> "majorVersion" \in on) /\ (b5 = 1 <=> "minorVersion" \in on)
      /\ (c = 1 <=> top)
  OBVIOUS
<1> HIDE DEF b1, b2, b3, b4, b5, c
<1>6. v \in 0..255
  BY <1>4, <1>5
<1>7. /\ (v \div 1) % 2 = b1
      /\ (v \div 8) % 2 = b2
      /\ (v \div 16) % 2 = b3
      /\ (v \div 32) % 2 = b4
      /\ (v \div 64) % 2 = b5
      /\ (v \div 128) % 2 = c
      /\ (v \div 2) % 4 = k
  <2>1. (v \div 1) % 2 = b1
    BY SMT, <1>4, <1>5
  <2>2. (v \div 8) % 2 = b2
    BY SMT, <1>4, <1>5
  <2>3. (v \div 16) % 2 = b3
    BY SMT, <1>4, <1>5
  <2>4. (v \div 32) % 2 = b4
    BY SMT, <1>4, <1>5
  <2>5. (v \div 64) % 2 = b5
    BY SMT, <1>4, <1>5
  <2>6. (v \div 128) % 2 = c
    BY SMT, <1>4, <1>5
  <2>7. (v \div 2) % 4 = k
    BY SMT, <1>4, <1>5
  <2> QED
    BY <2>1, <2>2, <2>3, <2>4, <2>5, <2>6, <2>7
<1>8. \A f \in DOMAIN m : Bit(v, m[f]) <=> f \in on
  BY <1>1, <1>5, <1>7 DEF Bit
<1>9. FlagsIn(v, m) = on \cap DOMAIN m
  BY <1>8 DEF FlagsIn
<1> QED
  BY <1>5, <1>6, <1>7, <1>9 DEF Octet, m, Bit

\* The second flags of a DataSetMessage, with its type.
LEMMA Flags2Byte ==
    ASSUME NEW on, NEW k \in 0..3, NEW v, v = k + FlagByte(on, Flags2Mask)
    PROVE  /\ v \in Octet
           /\ FlagsIn(v, Flags2Mask) = on \cap DOMAIN Flags2Mask
           /\ v % 16 = k
<1> DEFINE m == Flags2Mask
           s1 == {} \cup {"picoSeconds"}
           s2 == s1 \cup {"timestamp"}
<1>1. /\ m["timestamp"] = 16 /\ m["picoSeconds"] = 32
      /\ DOMAIN m = {"timestamp", "picoSeconds"}
  BY DEF Flags2Mask
<1> HIDE DEF m
<1>2. SumIs(m, on, s2, Mask(on, "timestamp", 16) + (Mask(on, "picoSeconds", 32) + 0))
  <2>1. SumIs(m, on, s1, Mask(on, "picoSeconds", 32) + 0)
    BY <1>1, SumOfNone, SumMore
  <2> QED
    BY <1>1, <2>1, SumMore
<1>3. on \cap DOMAIN m = on \cap s2
  BY <1>1
<1> HIDE DEF s2
<1> DEFINE b1 == IF "timestamp" \in on THEN 1 ELSE 0
           b2 == IF "picoSeconds" \in on THEN 1 ELSE 0
<1>4. v = k + 16 * b1 + 32 * b2
  <2>1. FlagByte(on, m) = Mask(on, "timestamp", 16) + (Mask(on, "picoSeconds", 32) + 0)
    BY <1>2, <1>3 DEF FlagByte, SumIs
  <2>2. /\ Mask(on, "timestamp", 16) = 16 * b1
        /\ Mask(on, "picoSeconds", 32) = 32 * b2
    BY DEF Mask
  <2>4. b1 \in {0, 1} /\ b2 \in {0, 1}
    OBVIOUS
  <2>5. v = k + FlagByte(on, m)
    BY DEF m
  <2> HIDE DEF b1, b2
  <2> QED
    BY <2>1, <2>2, <2>4, <2>5
<1>5. /\ b1 \in {0, 1} /\ b2 \in {0, 1}
      /\ (b1 = 1 <=> "timestamp" \in on) /\ (b2 = 1 <=> "picoSeconds" \in on)
  OBVIOUS
<1> HIDE DEF b1, b2
<1>6. v \in 0..255
  BY <1>4, <1>5
<1>7. /\ (v \div 16) % 2 = b1
      /\ (v \div 32) % 2 = b2
      /\ v % 16 = k
  BY SMT, <1>4, <1>5
<1>8. \A f \in DOMAIN m : Bit(v, m[f]) <=> f \in on
  BY <1>1, <1>5, <1>7 DEF Bit
<1>9. FlagsIn(v, m) = on \cap DOMAIN m
  BY <1>8 DEF FlagsIn
<1> QED
  BY <1>5, <1>6, <1>7, <1>9 DEF Octet, m

---------------------------------------------------------------------------
(* The optional fields of a layout. *)

\* Whatever the bytes are, the reader stays in the buffer and never goes back.
LEMMA FieldsType ==
    ASSUME NEW src \in Seq(Octet), NEW D, NEW r \in Readers(src, D), NEW on,
           NEW layout \in Seq(D \X Widths), NEW x, x = ReadFields(src, r, on, layout)
    PROVE  x \in Readers(src, D) /\ x.pos >= r.pos
<1> DEFINE n == Len(layout)
<1>0. PICK f : Unrolled(f, src, D, r, on, layout, x)
  BY FieldsUnfold
<1>1. /\ f \in [0..n -> Readers(src, D)] /\ f[0] = r
      /\ \A i \in 1..n : f[i] = ReadOptional(src, f[i - 1], on, layout[i])
      /\ x = f[n]
  BY <1>0 DEF Unrolled
<1>2. n \in Nat /\ r.pos \in Nat
  BY DEF Readers
<1>3. ASSUME NEW i \in 1..n
      PROVE  f[i].pos >= f[i - 1].pos
  <2>0. i - 1 \in 0..n
    BY <1>2
  <2>1. f[i - 1] \in Readers(src, D) /\ f[i] = ReadOptional(src, f[i - 1], on, layout[i])
    BY <1>1, <2>0
  <2>2. layout[i][2] \in Nat
    <3>1. layout[i] \in D \X Widths
      OBVIOUS
    <3> QED
      BY <3>1 DEF Widths
  <2>3. f[i] = f[i - 1] \/ f[i] = PutField(f[i - 1], Read(src, f[i - 1].pos, layout[i][2]), layout[i][1])
    BY <2>1 DEF ReadOptional
  <2>4. f[i].pos = f[i - 1].pos \/ f[i].pos = Read(src, f[i - 1].pos, layout[i][2]).pos
    BY <2>1, <2>3 DEF PutField, Readers
  <2>5. f[i - 1].pos \in Nat
    BY <2>1 DEF Readers
  <2> QED
    BY <2>2, <2>4, <2>5 DEF Read
<1> DEFINE T == {k \in Nat : k <= n => f[k].pos >= r.pos}
<1> HIDE DEF n
<1>4. 0 \in T
  BY <1>1, <1>2
<1>5. ASSUME NEW k \in Nat, k \in T
      PROVE  k + 1 \in T
  <2> SUFFICES ASSUME k + 1 <= n PROVE f[k + 1].pos >= r.pos
    OBVIOUS
  <2>1. k + 1 \in 1..n /\ (k + 1) - 1 = k /\ k \in 0..n /\ k + 1 \in 0..n
    BY <1>2
  <2>2. f[k + 1].pos >= f[k].pos /\ f[k].pos >= r.pos
    BY <1>3, <1>5, <2>1
  <2>3. f[k].pos \in Nat /\ f[k + 1].pos \in Nat
    <3>1. f[k] \in Readers(src, D) /\ f[k + 1] \in Readers(src, D)
      BY <1>1, <2>1
    <3> QED
      BY <3>1 DEF Readers
  <2> QED
    BY <1>2, <2>2, <2>3
<1>6. n \in T
  <2> HIDE DEF T
  <2> QED
    BY <1>2, <1>4, <1>5, Induction
<1> QED
  BY <1>1, <1>2, <1>6

\* The bytes of an optional field, and their number.
LEMMA OptionalBytesType ==
    ASSUME NEW on, NEW v, NEW f, NEW w \in Widths, v[f] \in Unsigned(w)
    PROVE  /\ OptionalBytes(on, v, f, w) \in Seq(Octet)
           /\ Len(OptionalBytes(on, v, f, w)) = IF f \in on THEN w ELSE 0
           /\ (IF f \in on THEN w ELSE 0) \in Nat
<1>1. v[f] \in Nat /\ w \in Nat
  BY DEF Unsigned, Widths
<1>2. CASE f \in on
  <2>1. OptionalBytes(on, v, f, w) = LE(v[f], w)
    BY <1>2 DEF OptionalBytes
  <2> QED
    BY <1>1, <1>2, <2>1, LEType
<1>3. CASE f \notin on
  <2>1. OptionalBytes(on, v, f, w) = <<>>
    BY <1>3 DEF OptionalBytes
  <2> QED
    BY <1>3, <2>1
<1> QED
  BY <1>2, <1>3

\* The byte strings of g go on field by field.
Grows(g, on, v, layout) ==
    /\ \A i \in 0..Len(layout) : g[i] \in Seq(Octet)
    /\ \A i \in 1..Len(layout) :
          g[i] = g[i - 1] \o OptionalBytes(on, v, layout[i][1], layout[i][2])

\* The values read of the optional fields.
Filled(x, r, on, v, layout, D) ==
    \A f \in D : x.val[f] = IF f \in on /\ \E i \in 1..Len(layout) : layout[i][1] = f
                            THEN v[f] ELSE r.val[f]

\* The optional fields are read as they were written: behind a, in the order of
\* the layout, g[i] being the bytes up to field i.
LEMMA FieldsReads ==
    ASSUME NEW src \in Seq(Octet), NEW D, NEW r \in Readers(src, D), NEW on,
           NEW layout \in Seq(D \X Widths), NEW v, FieldsFit(v, layout),
           NEW pos \in Nat, NEW g, Grows(g, on, v, layout), Reached(src, pos, g[0], r),
           Follows(src, pos, g[Len(layout)]), NEW x, x = ReadFields(src, r, on, layout)
    PROVE  /\ Reached(src, pos, g[Len(layout)], x) /\ x \in Readers(src, D)
           /\ x.rv = "Good" => r.rv = "Good" /\ Filled(x, r, on, v, layout, D)
<1> DEFINE n == Len(layout)
           In(k, f) == \E i \in 1..k : layout[i][1] = f
           Vals(k, y) == \A f \in D : y.val[f] = IF f \in on /\ In(k, f) THEN v[f] ELSE r.val[f]
<1>0. PICK s : Unrolled(s, src, D, r, on, layout, x)
  BY FieldsUnfold
<1>1. /\ s \in [0..n -> Readers(src, D)] /\ s[0] = r
      /\ \A i \in 1..n : s[i] = ReadOptional(src, s[i - 1], on, layout[i])
      /\ x = s[n]
  BY <1>0 DEF Unrolled
<1>2. /\ n \in Nat /\ g[0] \in Seq(Octet)
      /\ \A i \in 1..n : g[i] = g[i - 1] \o OptionalBytes(on, v, layout[i][1], layout[i][2])
  <2>1. n \in Nat /\ 0 \in 0..n
    OBVIOUS
  <2> HIDE DEF n
  <2> QED
    BY <2>1 DEF Grows, n
<1> DEFINE P(k) == /\ g[k] \in Seq(Octet)
                   /\ Follows(src, pos, g[k]) =>
                        /\ Reached(src, pos, g[k], s[k])
                        /\ s[k].rv = "Good" => r.rv = "Good" /\ Vals(k, s[k])
           T == {k \in Nat : k <= n => P(k)}
<1>3. 0 \in T
  <2>1. \A f : ~ In(0, f)
    OBVIOUS
  <2>2. Vals(0, r)
    BY <2>1
  <2> HIDE DEF Vals
  <2> QED
    BY <1>1, <1>2, <2>2
<1>4. ASSUME NEW k \in Nat, k \in T
      PROVE  k + 1 \in T
  <2> SUFFICES ASSUME k + 1 <= n PROVE P(k + 1)
    OBVIOUS
  <2> DEFINE l == layout[k + 1]
             o == OptionalBytes(on, v, l[1], l[2])
  <2>1. k + 1 \in 1..n /\ (k + 1) - 1 = k /\ k \in 0..n /\ k + 1 \in 0..n /\ P(k)
    BY <1>2, <1>4
  <2>2. s[k] \in Readers(src, D) /\ s[k + 1] = ReadOptional(src, s[k], on, l)
    BY <1>1, <2>1
  <2>3. g[k + 1] = g[k] \o o
    BY <1>2, <2>1
  <2>4. l[1] \in D /\ l[2] \in Widths /\ v[l[1]] \in Unsigned(l[2])
    BY <2>1 DEF FieldsFit
  <2>5. o \in Seq(Octet) /\ g[k] \in Seq(Octet)
    BY <2>1, <2>4, OptionalBytesType
  <2>6. g[k + 1] \in Seq(Octet) /\ (Follows(src, pos, g[k + 1]) => Follows(src, pos, g[k]))
    <3> HIDE DEF o, l, P
    <3> QED
      BY <2>3, <2>5, FollowsConcat
  <2>7. ASSUME Follows(src, pos, g[k + 1])
        PROVE  /\ Reached(src, pos, g[k + 1], s[k + 1])
               /\ s[k + 1].rv = "Good" => r.rv = "Good" /\ Vals(k + 1, s[k + 1])
    <3>1. Reached(src, pos, g[k], s[k]) /\ (s[k].rv = "Good" => r.rv = "Good" /\ Vals(k, s[k]))
      BY <2>1, <2>6, <2>7
    <3>2. /\ Reached(src, pos, g[k + 1], s[k + 1])
          /\ s[k + 1].rv = "Good" =>
                /\ s[k].rv = "Good"
                /\ s[k + 1].val = PutIf(s[k].val, on, l[1], v)
      <4>1. /\ Follows(src, pos, g[k] \o OptionalBytes(on, v, l[1], l[2]))
            /\ g[k + 1] = g[k] \o OptionalBytes(on, v, l[1], l[2])
        BY <2>3, <2>7
      <4> DEFINE y == s[k]
                 z == s[k + 1]
                 a == g[k]
      <4>2. /\ y \in Readers(src, D) /\ z = ReadOptional(src, y, on, l)
            /\ l[1] \in D /\ l[2] \in Widths /\ v[l[1]] \in Unsigned(l[2])
            /\ a \in Seq(Octet) /\ Reached(src, pos, a, y)
            /\ Follows(src, pos, a \o OptionalBytes(on, v, l[1], l[2]))
            /\ g[k + 1] = a \o OptionalBytes(on, v, l[1], l[2])
        BY <2>2, <2>4, <2>5, <3>1, <4>1
      <4> HIDE DEF l, P, Vals, o, y, z, a
      <4>3. /\ Reached(src, pos, a \o OptionalBytes(on, v, l[1], l[2]), z)
            /\ z.rv = "Good" => y.rv = "Good" /\ z.val = PutIf(y.val, on, l[1], v)
        BY <4>2, OptionalReads
      <4> QED
        BY <4>2, <4>3 DEF y, z
    <3>3. ASSUME s[k + 1].rv = "Good"
          PROVE  r.rv = "Good" /\ Vals(k + 1, s[k + 1])
      <4>1. r.rv = "Good" /\ Vals(k, s[k])
        BY <3>1, <3>2, <3>3
      <4>2. s[k].val \in [D -> Nat]
        BY <2>2 DEF Readers
      <4>3. ASSUME NEW f \in D
            PROVE  s[k + 1].val[f] = IF f \in on /\ In(k + 1, f) THEN v[f] ELSE r.val[f]
        <5>1. In(k + 1, f) <=> In(k, f) \/ l[1] = f
          <6>1. 1..(k + 1) = (1..k) \cup {k + 1}
            OBVIOUS
          <6> QED
            BY <6>1
        <5>2. s[k].val[f] = IF f \in on /\ In(k, f) THEN v[f] ELSE r.val[f]
          BY <4>1
        <5>3. s[k + 1].val = IF l[1] \in on THEN [s[k].val EXCEPT ![l[1]] = v[l[1]]] ELSE s[k].val
          BY <3>2, <3>3 DEF PutIf
        <5> HIDE DEF In, l, P
        <5>4. CASE l[1] = f
          BY <2>4, <4>2, <5>1, <5>2, <5>3, <5>4
        <5>5. CASE l[1] # f
          BY <2>4, <4>2, <5>1, <5>2, <5>3, <5>5
        <5> QED
          BY <5>4, <5>5
      <4> QED
        BY <4>1, <4>3
    <3> QED
      BY <3>2, <3>3
  <2> QED
    BY <2>6, <2>7
<1>5. n \in T
  <2> HIDE DEF T
  <2> QED
    BY <1>2, <1>3, <1>4, Induction
<1>6. P(n)
  BY <1>2, <1>5
<1> HIDE DEF n
<1>7. n \in 0..n
  BY <1>2
<1> QED
  BY <1>1, <1>6, <1>7 DEF n, Filled

---------------------------------------------------------------------------
(* DataValues. *)

Parts == DOMAIN DataValueMask \ {"value"}

\* The layout of the parts names every part once, and knows its width.
LEMMA PartsAre ==
    /\ PartsLayout \in Seq(Parts \X Widths) /\ Len(PartsLayout) = 5
    /\ PartsLayout[1] = <<"status", 4>> /\ PartsLayout[2] = <<"sourceTimestamp", 8>>
    /\ PartsLayout[3] = <<"sourcePicoseconds", 2>> /\ PartsLayout[4] = <<"serverTimestamp", 8>>
    /\ PartsLayout[5] = <<"serverPicoseconds", 2>>
    /\ \A f \in Parts : \E i \in 1..5 : PartsLayout[i][1] = f
    /\ NoParts = [f \in Parts |-> 0]
    /\ DOMAIN DataValueMask = {"value", "status", "sourceTimestamp", "serverTimestamp",
                               "sourcePicoseconds", "serverPicoseconds"}
<1>1. Parts = {"status", "sourceTimestamp", "sourcePicoseconds", "serverTimestamp",
               "serverPicoseconds"}
  BY DEF Parts, DataValueMask
<1>2. /\ PartsLayout[1] = <<"status", 4>> /\ PartsLayout[2] = <<"sourceTimestamp", 8>>
      /\ PartsLayout[3] = <<"sourcePicoseconds", 2>> /\ PartsLayout[4] = <<"serverTimestamp", 8>>
      /\ PartsLayout[5] = <<"serverPicoseconds", 2>> /\ Len(PartsLayout) = 5
  BY DEF PartsLayout
<1>3. PartsLayout \in Seq(Parts \X Widths)
  BY <1>1 DEF PartsLayout, Widths
<1>4. \A f \in Parts : \E i \in 1..5 : PartsLayout[i][1] = f
  <2>1. /\ PartsLayout[1][1] = "status" /\ PartsLayout[2][1] = "sourceTimestamp"
        /\ PartsLayout[3][1] = "sourcePicoseconds" /\ PartsLayout[4][1] = "serverTimestamp"
        /\ PartsLayout[5][1] = "serverPicoseconds"
    BY <1>2
  <2>2. 1 \in 1..5 /\ 2 \in 1..5 /\ 3 \in 1..5 /\ 4 \in 1..5 /\ 5 \in 1..5
    OBVIOUS
  <2> QED
    BY <1>1, <2>1, <2>2
<1>5. DOMAIN DataValueMask = {"value", "status", "sourceTimestamp", "serverTimestamp",
                              "sourcePicoseconds", "serverPicoseconds"}
  BY DEF DataValueMask
<1>6. NoParts = [f \in Parts |-> 0]
  BY DEF NoParts, Parts
<1> QED
  BY <1>2, <1>3, <1>4, <1>5, <1>6

\* The parts of a DataValue, and their types.
LEMMA DataValueHas ==
    ASSUME NEW d \in DataValues
    PROVE  /\ d.on \subseteq DOMAIN DataValueMask /\ d.value \in Variants
           /\ d.val \in [Parts -> Nat] /\ FieldsFit(d.val, PartsLayout)
           /\ d.val["status"] \in Unsigned(4) /\ d.val["sourceTimestamp"] \in Unsigned(8)
           /\ d.val["sourcePicoseconds"] \in Unsigned(2) /\ d.val["serverTimestamp"] \in Unsigned(8)
           /\ d.val["serverPicoseconds"] \in Unsigned(2)
<1>1. /\ d.on \subseteq DOMAIN DataValueMask /\ d.value \in Variants
      /\ d.val \in [Parts -> Nat] /\ FieldsFit(d.val, PartsLayout)
  BY DEF DataValues, Parts
<1>2. \A i \in 1..5 : d.val[PartsLayout[i][1]] \in Unsigned(PartsLayout[i][2])
  BY <1>1, PartsAre DEF FieldsFit
<1>3. 1 \in 1..5 /\ 2 \in 1..5 /\ 3 \in 1..5 /\ 4 \in 1..5 /\ 5 \in 1..5
  OBVIOUS
<1> QED
  BY <1>1, <1>2, <1>3, PartsAre

\* The byte of the flags, the value, and the other parts of a DataValue.
ValueByte(d)  == FlagByte(d.on, DataValueMask)
ValueBytes(d) == IF "value" \in d.on THEN EncodeVariant(d.value) ELSE <<>>
PartBytes(d, i) == OptionalBytes(d.on, d.val, PartsLayout[i][1], PartsLayout[i][2])

\* An optional part, and its size.
LEMMA PartType ==
    ASSUME NEW d \in DataValues, NEW i \in 1..5, NEW f, NEW w, PartsLayout[i] = <<f, w>>
    PROVE  PartBytes(d, i) \in Seq(Octet) /\ Len(PartBytes(d, i)) = IF f \in d.on THEN w ELSE 0
<1>1. PartsLayout[i][1] = f /\ PartsLayout[i][2] = w
  OBVIOUS
<1>2. w \in Widths
  <2>1. PartsLayout \in Seq(Parts \X Widths) /\ i \in 1..Len(PartsLayout)
    BY PartsAre
  <2>2. PartsLayout[i] \in Parts \X Widths
    BY <2>1
  <2> QED
    BY <1>1, <2>2
<1>3. d.val[f] \in Unsigned(w)
  BY <1>1, DataValueHas, PartsAre DEF FieldsFit
<1>4. PartBytes(d, i) = OptionalBytes(d.on, d.val, f, w)
  BY <1>1 DEF PartBytes
<1> QED
  BY <1>2, <1>3, <1>4, OptionalBytesType

\* The bytes of the value of a DataValue, and their number.
LEMMA ValueType ==
    ASSUME NEW d \in DataValues
    PROVE  /\ ValueByte(d) \in Octet /\ FlagsIn(ValueByte(d), DataValueMask) = d.on
           /\ <<ValueByte(d)>> \in Seq(Octet) /\ Len(<<ValueByte(d)>>) = 1
           /\ ValueBytes(d) \in Seq(Octet)
           /\ Len(ValueBytes(d)) = IF "value" \in d.on THEN VariantSize(d.value) ELSE 0
<1>1. ValueByte(d) \in Octet /\ FlagsIn(ValueByte(d), DataValueMask) = d.on \cap DOMAIN DataValueMask
  BY DataValueByte DEF ValueByte
<1>2. d.on \cap DOMAIN DataValueMask = d.on
  BY DataValueHas
<1>3. ValueBytes(d) \in Seq(Octet) /\ Len(ValueBytes(d)) = IF "value" \in d.on THEN VariantSize(d.value) ELSE 0
  <2>1. EncodeVariant(d.value) \in Seq(Octet) /\ Len(EncodeVariant(d.value)) = VariantSize(d.value)
    BY DataValueHas, VariantBytes
  <2> QED
    BY <2>1 DEF ValueBytes
<1> QED
  BY <1>1, <1>2, <1>3, OneByte

\* The bytes up to the value, and up to each of the parts.
Stages(d) ==
    << <<ValueByte(d)>> \o ValueBytes(d),
       <<ValueByte(d)>> \o ValueBytes(d) \o PartBytes(d, 1),
       <<ValueByte(d)>> \o ValueBytes(d) \o PartBytes(d, 1) \o PartBytes(d, 2),
       <<ValueByte(d)>> \o ValueBytes(d) \o PartBytes(d, 1) \o PartBytes(d, 2) \o PartBytes(d, 3),
       <<ValueByte(d)>> \o ValueBytes(d) \o PartBytes(d, 1) \o PartBytes(d, 2) \o PartBytes(d, 3)
            \o PartBytes(d, 4),
       <<ValueByte(d)>> \o ValueBytes(d) \o PartBytes(d, 1) \o PartBytes(d, 2) \o PartBytes(d, 3)
            \o PartBytes(d, 4) \o PartBytes(d, 5) >>

BytesTo(d) == [i \in 0..5 |-> Stages(d)[i + 1]]

\* A DataValue is written part by part.
LEMMA BytesToParts ==
    ASSUME NEW d \in DataValues
    PROVE  /\ BytesTo(d)[0] = <<ValueByte(d)>> \o ValueBytes(d)
           /\ BytesTo(d)[1] = BytesTo(d)[0] \o PartBytes(d, 1)
           /\ BytesTo(d)[2] = BytesTo(d)[1] \o PartBytes(d, 2)
           /\ BytesTo(d)[3] = BytesTo(d)[2] \o PartBytes(d, 3)
           /\ BytesTo(d)[4] = BytesTo(d)[3] \o PartBytes(d, 4)
           /\ BytesTo(d)[5] = BytesTo(d)[4] \o PartBytes(d, 5)
           /\ BytesTo(d)[5] = EncodeDataValue(d)
<1>1. /\ BytesTo(d)[0] = <<ValueByte(d)>> \o ValueBytes(d)
      /\ BytesTo(d)[1] = BytesTo(d)[0] \o PartBytes(d, 1)
      /\ BytesTo(d)[2] = BytesTo(d)[1] \o PartBytes(d, 2)
      /\ BytesTo(d)[3] = BytesTo(d)[2] \o PartBytes(d, 3)
      /\ BytesTo(d)[4] = BytesTo(d)[3] \o PartBytes(d, 4)
      /\ BytesTo(d)[5] = BytesTo(d)[4] \o PartBytes(d, 5)
  <2>1. /\ BytesTo(d)[0] = Stages(d)[1] /\ BytesTo(d)[1] = Stages(d)[2]
        /\ BytesTo(d)[2] = Stages(d)[3] /\ BytesTo(d)[3] = Stages(d)[4]
        /\ BytesTo(d)[4] = Stages(d)[5] /\ BytesTo(d)[5] = Stages(d)[6]
    BY DEF BytesTo
  <2> QED
    BY <2>1 DEF Stages
<1>2. /\ PartBytes(d, 1) = IF "status" \in d.on THEN LE(d.val["status"], 4) ELSE <<>>
      /\ PartBytes(d, 2) = IF "sourceTimestamp" \in d.on THEN LE(d.val["sourceTimestamp"], 8) ELSE <<>>
      /\ PartBytes(d, 3) = IF "sourcePicoseconds" \in d.on
                           THEN LE(d.val["sourcePicoseconds"], 2) ELSE <<>>
      /\ PartBytes(d, 4) = IF "serverTimestamp" \in d.on THEN LE(d.val["serverTimestamp"], 8) ELSE <<>>
      /\ PartBytes(d, 5) = IF "serverPicoseconds" \in d.on
                           THEN LE(d.val["serverPicoseconds"], 2) ELSE <<>>
  BY PartsAre DEF PartBytes, OptionalBytes
<1>3. BytesTo(d)[5] = <<ValueByte(d)>> \o ValueBytes(d) \o PartBytes(d, 1) \o PartBytes(d, 2)
                      \o PartBytes(d, 3) \o PartBytes(d, 4) \o PartBytes(d, 5)
  BY <1>1
<1>4. BytesTo(d)[5] = EncodeDataValue(d)
  BY <1>2, <1>3 DEF EncodeDataValue, ValueByte, ValueBytes
<1> QED
  BY <1>1, <1>4

\* A byte string that goes on.
LEMMA Longer ==
    ASSUME NEW a \in Seq(Octet), NEW b \in Seq(Octet), NEW c, c = a \o b
    PROVE  c \in Seq(Octet) /\ Len(c) = Len(a) + Len(b)
BY OctetsConcat

\* The bytes of a DataValue, and their number.
LEMMA DataValueBytes ==
    ASSUME NEW d \in DataValues
    PROVE  /\ EncodeDataValue(d) \in Seq(Octet) /\ Len(EncodeDataValue(d)) = DataValueSize(d)
           /\ DataValueSize(d) \in Nat /\ DataValueSize(d) >= 1
           /\ \A i \in 0..5 : BytesTo(d)[i] \in Seq(Octet)
<1> DEFINE g == BytesTo(d)
           s1 == IF "status" \in d.on THEN 4 ELSE 0
           s2 == IF "sourceTimestamp" \in d.on THEN 8 ELSE 0
           s3 == IF "sourcePicoseconds" \in d.on THEN 2 ELSE 0
           s4 == IF "serverTimestamp" \in d.on THEN 8 ELSE 0
           s5 == IF "serverPicoseconds" \in d.on THEN 2 ELSE 0
           v == IF "value" \in d.on THEN VariantSize(d.value) ELSE 0
<1>1. /\ PartBytes(d, 1) \in Seq(Octet) /\ Len(PartBytes(d, 1)) = s1
      /\ PartBytes(d, 2) \in Seq(Octet) /\ Len(PartBytes(d, 2)) = s2
      /\ PartBytes(d, 3) \in Seq(Octet) /\ Len(PartBytes(d, 3)) = s3
      /\ PartBytes(d, 4) \in Seq(Octet) /\ Len(PartBytes(d, 4)) = s4
      /\ PartBytes(d, 5) \in Seq(Octet) /\ Len(PartBytes(d, 5)) = s5
  <2>2. PartBytes(d, 1) \in Seq(Octet) /\ Len(PartBytes(d, 1)) = s1
    <3>1. PartsLayout[1] = <<"status", 4>> /\ 1 \in 1..5
      BY PartsAre
    <3> QED
      BY <3>1, PartType
  <2>3. PartBytes(d, 2) \in Seq(Octet) /\ Len(PartBytes(d, 2)) = s2
    <3>1. PartsLayout[2] = <<"sourceTimestamp", 8>> /\ 2 \in 1..5
      BY PartsAre
    <3> QED
      BY <3>1, PartType
  <2>4. PartBytes(d, 3) \in Seq(Octet) /\ Len(PartBytes(d, 3)) = s3
    <3>1. PartsLayout[3] = <<"sourcePicoseconds", 2>> /\ 3 \in 1..5
      BY PartsAre
    <3> QED
      BY <3>1, PartType
  <2>5. PartBytes(d, 4) \in Seq(Octet) /\ Len(PartBytes(d, 4)) = s4
    <3>1. PartsLayout[4] = <<"serverTimestamp", 8>> /\ 4 \in 1..5
      BY PartsAre
    <3> QED
      BY <3>1, PartType
  <2>6. PartBytes(d, 5) \in Seq(Octet) /\ Len(PartBytes(d, 5)) = s5
    <3>1. PartsLayout[5] = <<"serverPicoseconds", 2>> /\ 5 \in 1..5
      BY PartsAre
    <3> QED
      BY <3>1, PartType
  <2> QED
    BY <2>2, <2>3, <2>4, <2>5, <2>6
<1>2. s1 \in Nat /\ s2 \in Nat /\ s3 \in Nat /\ s4 \in Nat /\ s5 \in Nat /\ v \in Nat
  BY DataValueHas, VariantBytes
<1>3. g[0] \in Seq(Octet) /\ Len(g[0]) = 1 + v
  <2>1. g[0] = <<ValueByte(d)>> \o ValueBytes(d)
    BY BytesToParts
  <2> HIDE DEF g
  <2> QED
    BY <1>2, <2>1, ValueType, Longer
<1>4. DataValueSize(d) = 1 + v + s1 + s2 + s3 + s4 + s5
  BY DEF DataValueSize
<1> HIDE DEF g, s1, s2, s3, s4, s5, v
<1>5. g[1] \in Seq(Octet) /\ Len(g[1]) = 1 + v + s1
  <2>1. g[1] = g[0] \o PartBytes(d, 1)
    BY BytesToParts DEF g
  <2>2. g[1] \in Seq(Octet) /\ Len(g[1]) = Len(g[0]) + Len(PartBytes(d, 1))
    BY <1>1, <1>3, <2>1, Longer
  <2> QED
    BY <1>1, <1>3, <2>2
<1>6. g[2] \in Seq(Octet) /\ Len(g[2]) = 1 + v + s1 + s2
  <2>1. g[2] = g[1] \o PartBytes(d, 2)
    BY BytesToParts DEF g
  <2>2. g[2] \in Seq(Octet) /\ Len(g[2]) = Len(g[1]) + Len(PartBytes(d, 2))
    BY <1>1, <1>5, <2>1, Longer
  <2> QED
    BY <1>1, <1>5, <2>2
<1>7. g[3] \in Seq(Octet) /\ Len(g[3]) = 1 + v + s1 + s2 + s3
  <2>1. g[3] = g[2] \o PartBytes(d, 3)
    BY BytesToParts DEF g
  <2>2. g[3] \in Seq(Octet) /\ Len(g[3]) = Len(g[2]) + Len(PartBytes(d, 3))
    BY <1>1, <1>6, <2>1, Longer
  <2> QED
    BY <1>1, <1>6, <2>2
<1>8. g[4] \in Seq(Octet) /\ Len(g[4]) = 1 + v + s1 + s2 + s3 + s4
  <2>1. g[4] = g[3] \o PartBytes(d, 4)
    BY BytesToParts DEF g
  <2>2. g[4] \in Seq(Octet) /\ Len(g[4]) = Len(g[3]) + Len(PartBytes(d, 4))
    BY <1>1, <1>7, <2>1, Longer
  <2> QED
    BY <1>1, <1>7, <2>2
<1>9. g[5] \in Seq(Octet) /\ Len(g[5]) = 1 + v + s1 + s2 + s3 + s4 + s5
  <2>1. g[5] = g[4] \o PartBytes(d, 5)
    BY BytesToParts DEF g
  <2>2. g[5] \in Seq(Octet) /\ Len(g[5]) = Len(g[4]) + Len(PartBytes(d, 5))
    BY <1>1, <1>8, <2>1, Longer
  <2> QED
    BY <1>1, <1>8, <2>2
<1>10. \A i \in 0..5 : g[i] \in Seq(Octet)
  <2>1. \A i \in 0..5 : i = 0 \/ i = 1 \/ i = 2 \/ i = 3 \/ i = 4 \/ i = 5
    OBVIOUS
  <2> QED
    BY <1>3, <1>5, <1>6, <1>7, <1>8, <1>9, <2>1
<1>11. 1 + v + s1 + s2 + s3 + s4 + s5 \in Nat /\ 1 + v + s1 + s2 + s3 + s4 + s5 >= 1
  BY <1>2
<1> QED
  BY <1>4, <1>9, <1>10, <1>11, BytesToParts DEF g

---------------------------------------------------------------------------
(* Writes. *)

Segment == [kind : {"must", "try", "halt"}, bytes : Seq(Octet), keep : Nat, rv : Codes]

\* None of the writes s is a return, and together they write b.
Puts(s, b) ==
    /\ s \in Seq(Segment) /\ b \in Seq(Octet)
    /\ \E f \in [0..Len(s) -> Seq(Octet)] :
          /\ f[0] = <<>> /\ f[Len(s)] = b
          /\ \A i \in 1..Len(s) : s[i].kind # "halt" /\ f[i] = f[i - 1] \o s[i].bytes

\* The writes s contain a return of an error.
Halts(s) == \E i \in 1..Len(s) : s[i].kind = "halt" /\ s[i].rv # "Good"

\* No write writes nothing.
LEMMA PutsNone == Puts(<<>>, <<>>) /\ ~Halts(<<>>) /\ <<>> \in Seq(Segment)
<1> DEFINE f == [i \in 0..0 |-> <<>>]
<1>1. <<>> \in Seq(Segment) /\ Len(<<>>) = 0 /\ <<>> \in Seq(Octet)
  OBVIOUS
<1>2. f \in [0..0 -> Seq(Octet)] /\ f[0] = <<>>
  OBVIOUS
<1>3. \A i \in 1..0 : <<>>[i].kind # "halt" /\ f[i] = f[i - 1] \o <<>>[i].bytes
  OBVIOUS
<1>4. Puts(<<>>, <<>>)
  <2> HIDE DEF f
  <2> QED
    BY <1>1, <1>2, <1>3 DEF Puts
<1> QED
  BY <1>1, <1>4 DEF Halts

\* One write that is not a return.
LEMMA PutsOne ==
    ASSUME NEW b \in Seq(Octet), NEW s \in Segment, s.kind # "halt", s.bytes = b
    PROVE  Puts(<<s>>, b)
<1> DEFINE f == [i \in 0..1 |-> IF i = 0 THEN <<>> ELSE b]
           t == <<s>>
<1>1. t \in Seq(Segment) /\ Len(t) = 1 /\ t[1] = s
  OBVIOUS
<1>2. f \in [0..1 -> Seq(Octet)] /\ f[0] = <<>> /\ f[1] = b
  OBVIOUS
<1>3. <<>> \o b = b
  OBVIOUS
<1>4. \A i \in 1..1 : t[i].kind # "halt" /\ f[i] = f[i - 1] \o t[i].bytes
  <2>1. t[1].kind # "halt" /\ f[1] = f[1 - 1] \o t[1].bytes
    <3>1. 1 - 1 = 0
      OBVIOUS
    <3> HIDE DEF f, t
    <3> QED
      BY <1>1, <1>2, <1>3, <3>1
  <2> QED
    BY <2>1
<1> HIDE DEF f, t
<1>5. Puts(t, b)
  BY <1>1, <1>2, <1>4 DEF Puts
<1> QED
  BY <1>5 DEF t

\* A write whose statuscode is returned, one whose statuscode is dropped, and a return.
LEMMA MustPuts ==
    ASSUME NEW b \in Seq(Octet)
    PROVE  /\ Puts(Must(b), b) /\ Must(b) \in Seq(Segment) /\ ~Halts(Must(b))
           /\ \A k \in Nat : Puts(Try(b, k), b) /\ Try(b, k) \in Seq(Segment) /\ ~Halts(Try(b, k))
<1>1. ASSUME NEW k \in Nat, NEW kind \in {"must", "try"}, NEW s,
             s = [kind |-> kind, bytes |-> b, keep |-> k, rv |-> "Good"]
      PROVE  Puts(<<s>>, b) /\ <<s>> \in Seq(Segment) /\ ~Halts(<<s>>)
  <2>1. s \in Segment /\ s.kind # "halt" /\ s.bytes = b
    BY <1>1 DEF Segment, Codes
  <2>2. Puts(<<s>>, b)
    BY <2>1, PutsOne
  <2>3. <<s>> \in Seq(Segment) /\ Len(<<s>>) = 1 /\ <<s>>[1] = s
    BY <2>1
  <2> QED
    BY <2>1, <2>2, <2>3 DEF Halts
<1>2. Must(b) = <<[kind |-> "must", bytes |-> b, keep |-> 0, rv |-> "Good"]>> /\ 0 \in Nat
  BY DEF Must
<1>3. \A k : Try(b, k) = <<[kind |-> "try", bytes |-> b, keep |-> k, rv |-> "Good"]>>
  BY DEF Try
<1> QED
  BY <1>1, <1>2, <1>3

\* An error met on the way is one.
LEMMA HaltHalts ==
    ASSUME NEW rv \in Codes \ {"Good"}
    PROVE  Halt(rv) \in Seq(Segment) /\ Halts(Halt(rv))
<1> DEFINE s == [kind |-> "halt", bytes |-> <<>>, keep |-> 0, rv |-> rv]
<1>1. Halt(rv) = <<s>> /\ s \in Segment /\ s.kind = "halt" /\ s.rv # "Good"
  BY DEF Halt, Segment
<1> HIDE DEF s
<1>2. <<s>> \in Seq(Segment) /\ Len(<<s>>) = 1 /\ <<s>>[1] = s
  BY <1>1
<1> QED
  BY <1>1, <1>2 DEF Halts

\* Bytes joined in another order.
LEMMA Regroup ==
    ASSUME NEW a \in Seq(Octet), NEW b \in Seq(Octet), NEW c \in Seq(Octet)
    PROVE  a \o (b \o c) = (a \o b) \o c
BY SMTT(40), ConcatAssociative

\* One list of writes after another.
LEMMA PutsConcat ==
    ASSUME NEW s \in Seq(Segment), NEW t \in Seq(Segment)
    PROVE  /\ s \o t \in Seq(Segment)
           /\ Halts(s \o t) <=> Halts(s) \/ Halts(t)
           /\ \A a, b : Puts(s, a) /\ Puts(t, b) => Puts(s \o t, a \o b)
<1> DEFINE u == s \o t
           n == Len(s)
           m == Len(t)
<1>1. /\ u \in Seq(Segment) /\ Len(u) = n + m /\ n \in Nat /\ m \in Nat
      /\ \A i \in 1..n : u[i] = s[i]
      /\ \A i \in 1..m : u[n + i] = t[i]
      /\ \A i \in 1..(n + m) : i \notin 1..n => i - n \in 1..m /\ u[i] = t[i - n]
  OBVIOUS
<1> HIDE DEF u, n, m
<1>2. Halts(u) <=> Halts(s) \/ Halts(t)
  <2>1. Halts(u) => Halts(s) \/ Halts(t)
    BY <1>1 DEF Halts, n, m
  <2>2. Halts(s) => Halts(u)
    <3> SUFFICES ASSUME NEW i \in 1..n, s[i].kind = "halt", s[i].rv # "Good"
                 PROVE  Halts(u)
      BY DEF Halts, n
    <3>1. i \in 1..Len(u) /\ u[i] = s[i]
      BY <1>1
    <3> QED
      BY <3>1 DEF Halts
  <2>3. Halts(t) => Halts(u)
    <3> SUFFICES ASSUME NEW i \in 1..m, t[i].kind = "halt", t[i].rv # "Good"
                 PROVE  Halts(u)
      BY DEF Halts, m
    <3>1. n + i \in 1..Len(u) /\ u[n + i] = t[i]
      BY <1>1
    <3> QED
      BY <3>1 DEF Halts
  <2> QED
    BY <2>1, <2>2, <2>3
<1>3. ASSUME NEW a, NEW b, Puts(s, a), Puts(t, b)
      PROVE  Puts(u, a \o b)
  <2>1. PICK f \in [0..n -> Seq(Octet)] :
           /\ f[0] = <<>> /\ f[n] = a
           /\ \A i \in 1..n : s[i].kind # "halt" /\ f[i] = f[i - 1] \o s[i].bytes
    BY <1>3 DEF Puts, n
  <2>2. PICK g \in [0..m -> Seq(Octet)] :
           /\ g[0] = <<>> /\ g[m] = b
           /\ \A i \in 1..m : t[i].kind # "halt" /\ g[i] = g[i - 1] \o t[i].bytes
    BY <1>3 DEF Puts, m
  <2>3. a \in Seq(Octet) /\ b \in Seq(Octet) /\ a \o b \in Seq(Octet)
    BY <1>3 DEF Puts
  <2> DEFINE h == [i \in 0..(n + m) |-> IF i <= n THEN f[i] ELSE a \o g[i - n]]
  <2>4. ASSUME NEW i \in 0..(n + m)
        PROVE  h[i] \in Seq(Octet)
    <3>1. CASE i <= n
      <4>1. i \in 0..n
        BY <1>1, <3>1
      <4> QED
        BY <2>1, <3>1, <4>1
    <3>2. CASE ~ (i <= n)
      <4>1. i - n \in 0..m
        BY <1>1, <3>2
      <4>2. g[i - n] \in Seq(Octet)
        BY <2>2, <4>1
      <4> QED
        BY <2>3, <3>2, <4>2
    <3> QED
      BY <3>1, <3>2
  <2>5. h \in [0..(n + m) -> Seq(Octet)]
    BY <2>4
  <2>6. h[0] = <<>> /\ h[n] = a
    BY SMTT(40), <1>1, <2>1
  <2>7. a \o <<>> = a
    BY <2>3
  <2>8. h[n + m] = a \o b
    <3>1. n + m \in 0..(n + m) /\ (n + m) - n = m
      BY <1>1
    <3>2. CASE m = 0
      <4>1. n + m = n /\ b = <<>>
        BY <1>1, <2>2, <3>2
      <4> QED
        BY <2>6, <2>7, <4>1
    <3>3. CASE m # 0
      <4>1. ~ (n + m <= n)
        BY <1>1, <3>3
      <4>2. h[n + m] = a \o g[(n + m) - n]
        BY <3>1, <4>1
      <4> QED
        BY <2>2, <3>1, <4>2
    <3> QED
      BY <3>2, <3>3
  <2>9. ASSUME NEW i \in 1..(n + m)
        PROVE  u[i].kind # "halt" /\ h[i] = h[i - 1] \o u[i].bytes
    <3>1. CASE i <= n
      <4>1. i \in 1..n /\ i - 1 \in 0..(n + m) /\ i - 1 <= n /\ i \in 0..(n + m)
        BY <1>1, <3>1
      <4>2. h[i] = f[i] /\ h[i - 1] = f[i - 1]
        BY <3>1, <4>1
      <4> QED
        BY <1>1, <2>1, <4>1, <4>2
    <3>2. CASE ~ (i <= n)
      <4>1. i - n \in 1..m /\ (i - n) - 1 = (i - 1) - n /\ i - 1 \in 0..(n + m) /\ i \in 0..(n + m)
            /\ (i - n) - 1 \in 0..m
        BY <1>1, <3>2
      <4>2. u[i] = t[i - n]
        BY <1>1, <3>2
      <4>3. h[i - 1] = a \o g[(i - n) - 1]
        <5>1. CASE i - 1 = n
          <6>1. (i - n) - 1 = 0
            BY <1>1, <5>1
          <6>2. h[i - 1] = a
            BY <2>6, <5>1
          <6> QED
            BY <2>2, <2>7, <6>1, <6>2
        <5>2. CASE i - 1 # n
          <6>1. ~ (i - 1 <= n)
            BY <1>1, <3>2, <5>2
          <6> QED
            BY <4>1, <6>1
        <5> QED
          BY <5>1, <5>2
      <4>4. h[i] = a \o g[i - n]
        BY <3>2, <4>1
      <4>5. g[i - n] = g[(i - n) - 1] \o t[i - n].bytes /\ t[i - n].kind # "halt"
        BY <2>2, <4>1
      <4>6. g[(i - n) - 1] \in Seq(Octet) /\ t[i - n].bytes \in Seq(Octet)
        <5>1. t[i - n] \in Segment
          BY <4>1 DEF m
        <5> QED
          BY <2>2, <4>1, <5>1 DEF Segment
      <4> DEFINE p == g[(i - n) - 1]
                 q == t[i - n].bytes
      <4> HIDE DEF p, q, h
      <4>7. a \o (p \o q) = (a \o p) \o q
        <5>1. p \in Seq(Octet) /\ q \in Seq(Octet)
          BY <4>6 DEF p, q
        <5> QED
          BY <2>3, <5>1, Regroup
      <4> QED
        BY <4>2, <4>3, <4>4, <4>5, <4>7 DEF p, q
    <3> QED
      BY <1>1, <3>1, <3>2
  <2> HIDE DEF h
  <2> QED
    BY <1>1, <2>3, <2>5, <2>6, <2>8, <2>9 DEF Puts
<1> QED
  BY <1>1, <1>2, <1>3 DEF u

\* The first k of the sequences in s, one after another.
Joined(s, k) == FlattenSeq([i \in 1..k |-> s[i]])

\* They are joined one by one.
LEMMA JoinedMore ==
    ASSUME NEW X, NEW s \in Seq(Seq(X))
    PROVE  /\ Joined(s, 0) = <<>> /\ Joined(s, Len(s)) = FlattenSeq(s)
           /\ \A k \in 0..Len(s) : Joined(s, k) \in Seq(X)
           /\ \A k \in 1..Len(s) : Joined(s, k) = Joined(s, k - 1) \o s[k]
<1>1. \A k \in 0..Len(s) : [i \in 1..k |-> s[i]] \in Seq(Seq(X))
  OBVIOUS
<1>2. [i \in 1..0 |-> s[i]] = <<>> /\ [i \in 1..Len(s) |-> s[i]] = s
  OBVIOUS
<1>3. ASSUME NEW k \in 1..Len(s)
      PROVE  Joined(s, k) = Joined(s, k - 1) \o s[k]
  <2>1. [i \in 1..k |-> s[i]] = Append([i \in 1..(k - 1) |-> s[i]], s[k])
    OBVIOUS
  <2>2. s[k] \in Seq(X) /\ [i \in 1..(k - 1) |-> s[i]] \in Seq(Seq(X))
    OBVIOUS
  <2> QED
    BY <2>1, <2>2, FlattenAppend DEF Joined
<1> QED
  BY <1>1, <1>2, <1>3, FlattenEmpty, FlattenType DEF Joined

\* Lists of writes, one after another.
LEMMA PutsEach ==
    ASSUME NEW s \in Seq(Seq(Segment))
    PROVE  /\ FlattenSeq(s) \in Seq(Segment)
           /\ Halts(FlattenSeq(s)) <=> \E i \in 1..Len(s) : Halts(s[i])
           /\ \A b \in Seq(Seq(Octet)) :
                 Len(b) = Len(s) /\ (\A i \in 1..Len(s) : Puts(s[i], b[i]))
                    => Puts(FlattenSeq(s), FlattenSeq(b))
<1> DEFINE n == Len(s)
<1>1. n \in Nat /\ \A i \in 1..n : s[i] \in Seq(Segment)
  OBVIOUS
<1>2. /\ Joined(s, 0) = <<>> /\ Joined(s, n) = FlattenSeq(s)
      /\ \A k \in 0..n : Joined(s, k) \in Seq(Segment)
      /\ \A k \in 1..n : Joined(s, k) = Joined(s, k - 1) \o s[k]
  BY JoinedMore
<1> HIDE DEF n
<1>3. ASSUME NEW k \in 1..n
      PROVE  /\ Halts(Joined(s, k)) <=> Halts(Joined(s, k - 1)) \/ Halts(s[k])
             /\ \A a, c : Puts(Joined(s, k - 1), a) /\ Puts(s[k], c) => Puts(Joined(s, k), a \o c)
  <2>1. Joined(s, k - 1) \in Seq(Segment) /\ s[k] \in Seq(Segment)
        /\ Joined(s, k) = Joined(s, k - 1) \o s[k]
    <3>1. k - 1 \in 0..n
      BY <1>1
    <3> QED
      BY <1>1, <1>2, <3>1
  <2> QED
    BY <2>1, PutsConcat
<1>4. Halts(FlattenSeq(s)) <=> \E i \in 1..n : Halts(s[i])
  <2> DEFINE P(k) == k <= n => (Halts(Joined(s, k)) <=> \E i \in 1..k : Halts(s[i]))
             T == {k \in Nat : P(k)}
  <2>1. P(0)
    BY <1>2, PutsNone
  <2>2. ASSUME NEW k \in Nat, P(k)
        PROVE  P(k + 1)
    <3> SUFFICES ASSUME k + 1 <= n
                 PROVE  Halts(Joined(s, k + 1)) <=> \E i \in 1..(k + 1) : Halts(s[i])
      OBVIOUS
    <3>1. k + 1 \in 1..n /\ k <= n /\ (k + 1) - 1 = k
      BY <1>1
    <3>2. Halts(Joined(s, k + 1)) <=> Halts(Joined(s, k)) \/ Halts(s[k + 1])
      BY <1>3, <3>1
    <3>3. \A i : i \in 1..(k + 1) <=> i \in 1..k \/ i = k + 1
      OBVIOUS
    <3> QED
      BY <2>2, <3>1, <3>2, <3>3
  <2>3. 0 \in T /\ \A k \in Nat : k \in T => k + 1 \in T
    <3> HIDE DEF P
    <3> QED
      BY <2>1, <2>2
  <2>4. \A k \in Nat : k \in T
    <3> HIDE DEF T
    <3> QED
      BY <2>3, Induction
  <2>5. n \in T
    BY <1>1, <2>4
  <2> QED
    BY <1>1, <1>2, <2>5
<1>5. ASSUME NEW b \in Seq(Seq(Octet)), Len(b) = n, \A i \in 1..n : Puts(s[i], b[i])
      PROVE  Puts(FlattenSeq(s), FlattenSeq(b))
  <2>1. /\ Joined(b, 0) = <<>> /\ Joined(b, n) = FlattenSeq(b)
        /\ \A k \in 1..n : Joined(b, k) = Joined(b, k - 1) \o b[k]
    BY <1>5, JoinedMore
  <2> DEFINE P(k) == k <= n => Puts(Joined(s, k), Joined(b, k))
             T == {k \in Nat : P(k)}
  <2>2. P(0)
    BY <1>2, <2>1, PutsNone
  <2>3. ASSUME NEW k \in Nat, P(k)
        PROVE  P(k + 1)
    <3> SUFFICES ASSUME k + 1 <= n
                 PROVE  Puts(Joined(s, k + 1), Joined(b, k + 1))
      OBVIOUS
    <3>1. k + 1 \in 1..n /\ k <= n /\ (k + 1) - 1 = k
      BY <1>1
    <3>2. Joined(b, k + 1) = Joined(b, k) \o b[k + 1]
      BY <2>1, <3>1
    <3>3. Puts(s[k + 1], b[k + 1]) /\ Puts(Joined(s, k), Joined(b, k))
      BY <1>5, <2>3, <3>1
    <3> QED
      BY <1>3, <3>1, <3>2, <3>3
  <2>4. 0 \in T /\ \A k \in Nat : k \in T => k + 1 \in T
    <3> HIDE DEF P
    <3> QED
      BY <2>2, <2>3
  <2>5. \A k \in Nat : k \in T
    <3> HIDE DEF T
    <3> QED
      BY <2>4, Induction
  <2>6. n \in T
    BY <1>1, <2>5
  <2> QED
    BY <1>1, <1>2, <2>1, <2>6
<1>6. FlattenSeq(s) \in Seq(Segment)
  BY <1>1, <1>2
<1> QED
  BY <1>4, <1>5, <1>6 DEF n

\* The number of bytes in the joined byte strings is the sum of their numbers.
LEMMA JoinedSize ==
    ASSUME NEW b \in Seq(Seq(Octet)), NEW F, \A i \in 1..Len(b) : Len(b[i]) = F[i]
    PROVE  /\ FlattenSeq(b) \in Seq(Octet)
           /\ Len(FlattenSeq(b)) = SumFunction([i \in 1..Len(b) |-> F[i]])
           /\ SumFunction([i \in 1..Len(b) |-> F[i]]) \in Nat
<1> DEFINE n == Len(b)
           S(k) == SumFunction([i \in 1..k |-> F[i]])
           P(k) == k <= n => Len(Joined(b, k)) = S(k) /\ S(k) \in Nat
           T == {k \in Nat : P(k)}
<1>1. n \in Nat /\ \A i \in 1..n : b[i] \in Seq(Octet) /\ F[i] \in Nat /\ Len(b[i]) = F[i]
  OBVIOUS
<1>2. /\ Joined(b, 0) = <<>> /\ Joined(b, n) = FlattenSeq(b)
      /\ \A k \in 0..n : Joined(b, k) \in Seq(Octet)
      /\ \A k \in 1..n : Joined(b, k) = Joined(b, k - 1) \o b[k]
  BY JoinedMore
<1> HIDE DEF n
<1>3. P(0)
  <2>1. S(0) = 0
    BY SumEmpty
  <2> HIDE DEF S
  <2> QED
    BY <1>2, <2>1
<1>4. ASSUME NEW k \in Nat, P(k)
      PROVE  P(k + 1)
  <2> SUFFICES ASSUME k + 1 <= n
               PROVE  Len(Joined(b, k + 1)) = S(k + 1) /\ S(k + 1) \in Nat
    OBVIOUS
  <2>1. k + 1 \in 1..n /\ k \in 0..n /\ (k + 1) - 1 = k
    BY <1>1
  <2>2. \A i \in 1..(k + 1) : F[i] \in Nat
    BY <1>1
  <2>3. S(k + 1) = S(k) + F[k + 1] /\ S(k) \in Nat
    BY <2>2, SumAppend
  <2>4. Joined(b, k + 1) = Joined(b, k) \o b[k + 1] /\ Joined(b, k) \in Seq(Octet)
    BY <1>2, <2>1
  <2>5. Len(Joined(b, k + 1)) = Len(Joined(b, k)) + Len(b[k + 1])
    BY <1>1, <2>1, <2>4, OctetsConcat
  <2>6. Len(Joined(b, k)) = S(k)
    BY <1>1, <1>4, <2>1
  <2> HIDE DEF S
  <2> QED
    BY <1>1, <2>1, <2>3, <2>5, <2>6
<1>5. 0 \in T /\ \A k \in Nat : k \in T => k + 1 \in T
  <2> HIDE DEF P
  <2> QED
    BY <1>3, <1>4
<1>6. \A k \in Nat : k \in T
  <2> HIDE DEF T
  <2> QED
    BY <1>5, Induction
<1>7. n \in T /\ n \in 0..n
  BY <1>1, <1>6
<1>8. Len(Joined(b, n)) = S(n) /\ S(n) \in Nat
  BY <1>1, <1>7
<1> QED
  BY <1>2, <1>7, <1>8 DEF n

\* The writes s are the n bytes b.
Piece(s, b, n) == Puts(s, b) /\ Len(b) = n /\ n \in Nat

\* What a piece is made of.
LEMMA PieceType ==
    ASSUME NEW s, NEW b, NEW n, Piece(s, b, n)
    PROVE  s \in Seq(Segment) /\ b \in Seq(Octet) /\ n \in Nat /\ Len(b) = n /\ Puts(s, b) /\ ~Halts(s)
BY DEF Piece, Puts, Halts

\* No writes.
LEMMA PieceNone == Piece(<<>>, <<>>, 0)
BY PutsNone DEF Piece

\* One write.
LEMMA PieceMust ==
    ASSUME NEW b \in Seq(Octet), NEW n, n = Len(b)
    PROVE  Piece(Must(b), b, n) /\ \A k \in Nat : Piece(Try(b, k), b, n)
BY MustPuts DEF Piece

\* One piece behind another.
LEMMA PieceConcat ==
    ASSUME NEW s, NEW a, NEW n, Piece(s, a, n), NEW t, NEW b, NEW m, Piece(t, b, m)
    PROVE  Piece(s \o t, a \o b, n + m)
<1>1. /\ s \in Seq(Segment) /\ a \in Seq(Octet) /\ n \in Nat /\ Len(a) = n /\ Puts(s, a)
      /\ t \in Seq(Segment) /\ b \in Seq(Octet) /\ m \in Nat /\ Len(b) = m /\ Puts(t, b)
  BY PieceType
<1>2. Puts(s \o t, a \o b)
  BY <1>1, PutsConcat
<1>3. Len(a \o b) = Len(a) + Len(b)
  BY <1>1, OctetsConcat
<1> QED
  BY <1>1, <1>2, <1>3 DEF Piece

\* A loop of pieces.
LEMMA PieceEach ==
    ASSUME NEW s \in Seq(Seq(Segment)), NEW b \in Seq(Seq(Octet)), Len(b) = Len(s), NEW F,
           \A i \in 1..Len(s) : Piece(s[i], b[i], F[i])
    PROVE  Piece(FlattenSeq(s), FlattenSeq(b), SumFunction([i \in 1..Len(s) |-> F[i]]))
<1>1. \A i \in 1..Len(s) : Puts(s[i], b[i]) /\ Len(b[i]) = F[i]
  BY PieceType
<1>2. Puts(FlattenSeq(s), FlattenSeq(b))
  BY <1>1, PutsEach
<1>3. /\ Len(FlattenSeq(b)) = SumFunction([i \in 1..Len(b) |-> F[i]])
      /\ SumFunction([i \in 1..Len(b) |-> F[i]]) \in Nat
  BY <1>1, JoinedSize
<1> QED
  BY <1>2, <1>3 DEF Piece

\* An optional field.
LEMMA PieceField ==
    ASSUME NEW x, NEW f, NEW w \in Widths, x.val[f] \in Unsigned(w)
    PROVE  Piece(Field(x, f, w), OptionalBytes(x.on, x.val, f, w), SizeIf(x, f, w))
<1> DEFINE b == LE(x.val[f], w)
<1>1. b \in Seq(Octet) /\ Len(b) = w /\ w \in Nat
  <2>1. x.val[f] \in Nat /\ w \in Nat
    BY DEF Unsigned, Widths
  <2> QED
    BY <2>1, LEType
<1> HIDE DEF b
<1>2. CASE f \in x.on
  <2>1. Field(x, f, w) = Must(b) /\ OptionalBytes(x.on, x.val, f, w) = b /\ SizeIf(x, f, w) = w
    BY <1>2 DEF Field, OptionalBytes, SizeIf, b
  <2> QED
    BY <1>1, <2>1, PieceMust
<1>3. CASE f \notin x.on
  <2>1. Field(x, f, w) = <<>> /\ OptionalBytes(x.on, x.val, f, w) = <<>> /\ SizeIf(x, f, w) = 0
    BY <1>3 DEF Field, OptionalBytes, SizeIf
  <2> QED
    BY <2>1, PieceNone
<1> QED
  BY <1>2, <1>3

\* The bytes b, and then the optional fields of a layout: the first k of them.
OptionalsOf(on, v, layout) ==
    [i \in 1..Len(layout) |-> OptionalBytes(on, v, layout[i][1], layout[i][2])]
Fielded(b, on, v, layout) == [k \in 0..Len(layout) |-> b \o Joined(OptionalsOf(on, v, layout), k)]

\* The bytes up to each optional field.
LEMMA FieldedMore ==
    ASSUME NEW b \in Seq(Octet), NEW on, NEW v, NEW D, NEW layout \in Seq(D \X Widths),
           FieldsFit(v, layout), NEW g, g = Fielded(b, on, v, layout)
    PROVE  g[0] = b /\ Grows(g, on, v, layout)
<1> DEFINE n == Len(layout)
           o == OptionalsOf(on, v, layout)
<1>1. \A i \in 1..n : OptionalBytes(on, v, layout[i][1], layout[i][2]) \in Seq(Octet)
  <2> TAKE i \in 1..n
  <2>1. layout[i][2] \in Widths /\ v[layout[i][1]] \in Unsigned(layout[i][2])
    BY DEF FieldsFit
  <2> QED
    BY <2>1, OptionalBytesType
<1>2. n \in Nat /\ o \in Seq(Seq(Octet)) /\ Len(o) = n
      /\ \A i \in 1..n : o[i] = OptionalBytes(on, v, layout[i][1], layout[i][2])
  BY <1>1 DEF OptionalsOf
<1> HIDE DEF n, o
<1>3. /\ Joined(o, 0) = <<>> /\ \A k \in 0..n : Joined(o, k) \in Seq(Octet)
      /\ \A k \in 1..n : Joined(o, k) = Joined(o, k - 1) \o o[k]
  BY <1>2, JoinedMore
<1>4. \A k \in 0..n : g[k] = b \o Joined(o, k)
  BY DEF Fielded, n, o
<1>5. g[0] = b
  <2>1. b \o <<>> = b
    OBVIOUS
  <2>2. 0 \in 0..n
    BY <1>2
  <2> QED
    BY <1>3, <1>4, <2>1, <2>2
<1>6. \A i \in 0..n : g[i] \in Seq(Octet)
  BY <1>3, <1>4, OctetsConcat
<1>7. ASSUME NEW i \in 1..n
      PROVE  g[i] = g[i - 1] \o o[i]
  <2>1. i \in 0..n /\ i - 1 \in 0..n
    BY <1>2
  <2>2. Joined(o, i - 1) \in Seq(Octet) /\ o[i] \in Seq(Octet)
    <3>1. o[i] \in Seq(Octet)
      BY <1>1, <1>2
    <3> QED
      BY <1>3, <2>1, <3>1
  <2>3. b \o (Joined(o, i - 1) \o o[i]) = (b \o Joined(o, i - 1)) \o o[i]
    BY <2>2, Regroup
  <2> QED
    BY <1>3, <1>4, <2>1, <2>3
<1> QED
  BY <1>2, <1>5, <1>6, <1>7 DEF n, Grows

---------------------------------------------------------------------------
(* DataSetMessages: their bytes. *)

\* The optional fields of the header, one by one.
LEMMA HeaderLayoutIs ==
    /\ HeaderLayout \in Seq(DSMFields \X Widths) /\ Len(HeaderLayout) = 6
    /\ HeaderLayout[1] = <<"sequenceNr", 2>> /\ HeaderLayout[2] = <<"timestamp", 8>>
    /\ HeaderLayout[3] = <<"picoSeconds", 2>> /\ HeaderLayout[4] = <<"status", 2>>
    /\ HeaderLayout[5] = <<"majorVersion", 4>> /\ HeaderLayout[6] = <<"minorVersion", 4>>
    /\ \A f \in DSMFields : \E i \in 1..6 : HeaderLayout[i][1] = f
<1>1. /\ HeaderLayout[1] = <<"sequenceNr", 2>> /\ HeaderLayout[2] = <<"timestamp", 8>>
      /\ HeaderLayout[3] = <<"picoSeconds", 2>> /\ HeaderLayout[4] = <<"status", 2>>
      /\ HeaderLayout[5] = <<"majorVersion", 4>> /\ HeaderLayout[6] = <<"minorVersion", 4>>
      /\ Len(HeaderLayout) = 6
  BY DEF HeaderLayout
<1>2. HeaderLayout \in Seq(DSMFields \X Widths)
  BY DEF HeaderLayout, DSMFields, Widths
<1>3. \A f \in DSMFields : \E i \in 1..6 : HeaderLayout[i][1] = f
  <2>1. /\ HeaderLayout[1][1] = "sequenceNr" /\ HeaderLayout[2][1] = "timestamp"
        /\ HeaderLayout[3][1] = "picoSeconds" /\ HeaderLayout[4][1] = "status"
        /\ HeaderLayout[5][1] = "majorVersion" /\ HeaderLayout[6][1] = "minorVersion"
    BY <1>1
  <2>2. 1 \in 1..6 /\ 2 \in 1..6 /\ 3 \in 1..6 /\ 4 \in 1..6 /\ 5 \in 1..6 /\ 6 \in 1..6
    OBVIOUS
  <2> QED
    BY <2>1, <2>2 DEF DSMFields
<1> QED
  BY <1>1, <1>2, <1>3

\* The parts of a DataSetMessage, and their types.
LEMMA DSMHas ==
    ASSUME NEW d \in DataSetMessages
    PROVE  /\ d.on \subseteq DOMAIN Flags1Mask \cup DOMAIN Flags2Mask
           /\ d.type \in 0..3 /\ d.enc \in 0..2 /\ d.val \in [DSMFields -> Nat]
           /\ FieldsFit(d.val, HeaderLayout) /\ Len(d.fields) \in Unsigned(2)
           /\ d.type = KeyFrame => d.fields \in Seq(DataValues)
           /\ d.type = DeltaFrame => d.fields \in Seq(DeltaFields)
           /\ d.val["sequenceNr"] \in Unsigned(2) /\ d.val["timestamp"] \in Unsigned(8)
           /\ d.val["picoSeconds"] \in Unsigned(2) /\ d.val["status"] \in Unsigned(2)
           /\ d.val["majorVersion"] \in Unsigned(4) /\ d.val["minorVersion"] \in Unsigned(4)
<1>1. /\ d.on \subseteq DOMAIN Flags1Mask \cup DOMAIN Flags2Mask
      /\ d.type \in 0..3 /\ d.enc \in 0..2 /\ d.val \in [DSMFields -> Nat]
      /\ FieldsFit(d.val, HeaderLayout) /\ Len(d.fields) \in Unsigned(2)
      /\ d.type = KeyFrame => d.fields \in Seq(DataValues)
      /\ d.type = DeltaFrame => d.fields \in Seq(DeltaFields)
  BY DEF DataSetMessages
<1>2. \A i \in 1..6 : d.val[HeaderLayout[i][1]] \in Unsigned(HeaderLayout[i][2])
  BY <1>1, HeaderLayoutIs DEF FieldsFit
<1>3. 1 \in 1..6 /\ 2 \in 1..6 /\ 3 \in 1..6 /\ 4 \in 1..6 /\ 5 \in 1..6 /\ 6 \in 1..6
  OBVIOUS
<1> QED
  BY <1>1, <1>2, <1>3, HeaderLayoutIs

\* The bytes of the flags, and those of the header.
Flag1(d) == 2 * d.enc + FlagByte(d.on, Flags1Mask) + (IF DataSetFlags2Enabled(d) THEN 128 ELSE 0)
Flag2(d) == d.type + FlagByte(d.on, Flags2Mask)
FlagBytes(d) == <<Flag1(d)>> \o (IF DataSetFlags2Enabled(d) THEN <<Flag2(d)>> ELSE <<>>)
HeaderTo(d) == Fielded(FlagBytes(d), d.on, d.val, HeaderLayout)
HeaderBytes(d) == HeaderTo(d)[6]

\* The two flag bytes carry the flags, the encoding and the kind of frame.
LEMMA HeaderFlags ==
    ASSUME NEW d \in DataSetMessages
    PROVE  /\ Flag1(d) \in Octet /\ FlagsIn(Flag1(d), Flags1Mask) = d.on \cap DOMAIN Flags1Mask
           /\ (Flag1(d) \div 2) % 4 = d.enc /\ (Bit(Flag1(d), 128) <=> DataSetFlags2Enabled(d))
           /\ Flag2(d) \in Octet /\ FlagsIn(Flag2(d), Flags2Mask) = d.on \cap DOMAIN Flags2Mask
           /\ Flag2(d) % 16 = d.type
           /\ FlagBytes(d) \in Seq(Octet)
<1>1. d.enc \in 0..2 /\ d.type \in 0..3 /\ DataSetFlags2Enabled(d) \in BOOLEAN
  BY DSMHas DEF DataSetFlags2Enabled
<1>2. /\ Flag1(d) \in Octet /\ FlagsIn(Flag1(d), Flags1Mask) = d.on \cap DOMAIN Flags1Mask
      /\ (Flag1(d) \div 2) % 4 = d.enc /\ (Bit(Flag1(d), 128) <=> DataSetFlags2Enabled(d))
  <2> DEFINE top == DataSetFlags2Enabled(d)
             v == Flag1(d)
  <2>1. v = 2 * d.enc + FlagByte(d.on, Flags1Mask) + (IF top THEN 128 ELSE 0)
    BY DEF Flag1
  <2>2. top \in BOOLEAN
    BY <1>1
  <2> HIDE DEF top, v
  <2>3. /\ v \in Octet /\ FlagsIn(v, Flags1Mask) = d.on \cap DOMAIN Flags1Mask
        /\ (v \div 2) % 4 = d.enc /\ (Bit(v, 128) <=> top)
    BY <1>1, <2>1, <2>2, Flags1Byte
  <2> QED
    BY <2>3 DEF v, top
<1>3. /\ Flag2(d) \in Octet /\ FlagsIn(Flag2(d), Flags2Mask) = d.on \cap DOMAIN Flags2Mask
      /\ Flag2(d) % 16 = d.type
  BY <1>1, Flags2Byte DEF Flag2
<1>4. FlagBytes(d) \in Seq(Octet)
  BY <1>2, <1>3 DEF FlagBytes
<1> QED
  BY <1>2, <1>3, <1>4

\* The header grows field by field.
LEMMA HeaderGrows ==
    ASSUME NEW d \in DataSetMessages, NEW g, g = HeaderTo(d)
    PROVE  /\ g[0] = FlagBytes(d)
           /\ g[1] = g[0] \o OptionalBytes(d.on, d.val, "sequenceNr", 2)
           /\ g[2] = g[1] \o OptionalBytes(d.on, d.val, "timestamp", 8)
           /\ g[3] = g[2] \o OptionalBytes(d.on, d.val, "picoSeconds", 2)
           /\ g[4] = g[3] \o OptionalBytes(d.on, d.val, "status", 2)
           /\ g[5] = g[4] \o OptionalBytes(d.on, d.val, "majorVersion", 4)
           /\ g[6] = g[5] \o OptionalBytes(d.on, d.val, "minorVersion", 4)
<1>1. FlagBytes(d) \in Seq(Octet) /\ FieldsFit(d.val, HeaderLayout)
  BY HeaderFlags, DSMHas
<1>2. g = Fielded(FlagBytes(d), d.on, d.val, HeaderLayout)
  BY DEF HeaderTo
<1>3. HeaderLayout \in Seq(DSMFields \X Widths)
  BY HeaderLayoutIs
<1>4. g[0] = FlagBytes(d) /\ Grows(g, d.on, d.val, HeaderLayout)
  BY <1>1, <1>2, <1>3, FieldedMore
<1>5. g[1] = g[0] \o OptionalBytes(d.on, d.val, "sequenceNr", 2)
  <2>1. 1 \in 1..Len(HeaderLayout) /\ HeaderLayout[1] = <<"sequenceNr", 2>> /\ 1 - 1 = 0
    BY HeaderLayoutIs
  <2>2. g[1] = g[1 - 1] \o OptionalBytes(d.on, d.val, HeaderLayout[1][1], HeaderLayout[1][2])
    BY <1>4, <2>1 DEF Grows
  <2>3. HeaderLayout[1][1] = "sequenceNr" /\ HeaderLayout[1][2] = 2
    BY <2>1
  <2> QED
    BY <2>1, <2>2, <2>3
<1>6. g[2] = g[1] \o OptionalBytes(d.on, d.val, "timestamp", 8)
  <2>1. 2 \in 1..Len(HeaderLayout) /\ HeaderLayout[2] = <<"timestamp", 8>> /\ 2 - 1 = 1
    BY HeaderLayoutIs
  <2>2. g[2] = g[2 - 1] \o OptionalBytes(d.on, d.val, HeaderLayout[2][1], HeaderLayout[2][2])
    BY <1>4, <2>1 DEF Grows
  <2>3. HeaderLayout[2][1] = "timestamp" /\ HeaderLayout[2][2] = 8
    BY <2>1
  <2> QED
    BY <2>1, <2>2, <2>3
<1>7. g[3] = g[2] \o OptionalBytes(d.on, d.val, "picoSeconds", 2)
  <2>1. 3 \in 1..Len(HeaderLayout) /\ HeaderLayout[3] = <<"picoSeconds", 2>> /\ 3 - 1 = 2
    BY HeaderLayoutIs
  <2>2. g[3] = g[3 - 1] \o OptionalBytes(d.on, d.val, HeaderLayout[3][1], HeaderLayout[3][2])
    BY <1>4, <2>1 DEF Grows
  <2>3. HeaderLayout[3][1] = "picoSeconds" /\ HeaderLayout[3][2] = 2
    BY <2>1
  <2> QED
    BY <2>1, <2>2, <2>3
<1>8. g[4] = g[3] \o OptionalBytes(d.on, d.val, "status", 2)
  <2>1. 4 \in 1..Len(HeaderLayout) /\ HeaderLayout[4] = <<"status", 2>> /\ 4 - 1 = 3
    BY HeaderLayoutIs
  <2>2. g[4] = g[4 - 1] \o OptionalBytes(d.on, d.val, HeaderLayout[4][1], HeaderLayout[4][2])
    BY <1>4, <2>1 DEF Grows
  <2>3. HeaderLayout[4][1] = "status" /\ HeaderLayout[4][2] = 2
    BY <2>1
  <2> QED
    BY <2>1, <2>2, <2>3
<1>9. g[5] = g[4] \o OptionalBytes(d.on, d.val, "majorVersion", 4)
  <2>1. 5 \in 1..Len(HeaderLayout) /\ HeaderLayout[5] = <<"majorVersion", 4>> /\ 5 - 1 = 4
    BY HeaderLayoutIs
  <2>2. g[5] = g[5 - 1] \o OptionalBytes(d.on, d.val, HeaderLayout[5][1], HeaderLayout[5][2])
    BY <1>4, <2>1 DEF Grows
  <2>3. HeaderLayout[5][1] = "majorVersion" /\ HeaderLayout[5][2] = 4
    BY <2>1
  <2> QED
    BY <2>1, <2>2, <2>3
<1>10. g[6] = g[5] \o OptionalBytes(d.on, d.val, "minorVersion", 4)
  <2>1. 6 \in 1..Len(HeaderLayout) /\ HeaderLayout[6] = <<"minorVersion", 4>> /\ 6 - 1 = 5
    BY HeaderLayoutIs
  <2>2. g[6] = g[6 - 1] \o OptionalBytes(d.on, d.val, HeaderLayout[6][1], HeaderLayout[6][2])
    BY <1>4, <2>1 DEF Grows
  <2>3. HeaderLayout[6][1] = "minorVersion" /\ HeaderLayout[6][2] = 4
    BY <2>1
  <2> QED
    BY <2>1, <2>2, <2>3
<1> QED
  BY <1>4, <1>5, <1>6, <1>7, <1>8, <1>9, <1>10

\* The header is written byte by byte as its size says.
LEMMA HeaderPiece ==
    ASSUME NEW d \in DataSetMessages
    PROVE  Piece(HeaderSegments(d), HeaderBytes(d), HeaderSize(d)) /\ HeaderSize(d) >= 1
<1> DEFINE g == HeaderTo(d)
           p(f, w) == Field(d, f, w)
           z(f, w) == SizeIf(d, f, w)
           two == IF DataSetFlags2Enabled(d) THEN 1 ELSE 0
           s0 == Must(<<Flag1(d)>>) \o (IF DataSetFlags2Enabled(d) THEN Must(<<Flag2(d)>>) ELSE <<>>)
           n0 == 1 + two
<1>1. Piece(s0, FlagBytes(d), n0)
  <2>1. Piece(Must(<<Flag1(d)>>), <<Flag1(d)>>, 1)
    BY HeaderFlags, OneByte, PieceMust
  <2>2. CASE DataSetFlags2Enabled(d)
    <3>1. Piece(Must(<<Flag2(d)>>), <<Flag2(d)>>, 1)
      BY HeaderFlags, OneByte, PieceMust
    <3>2. s0 = Must(<<Flag1(d)>>) \o Must(<<Flag2(d)>>) /\ FlagBytes(d) = <<Flag1(d)>> \o <<Flag2(d)>>
          /\ n0 = 1 + 1
      BY <2>2 DEF FlagBytes
    <3> HIDE DEF s0, n0
    <3> QED
      BY <2>1, <3>1, <3>2, PieceConcat
  <2>3. CASE ~DataSetFlags2Enabled(d)
    <3>1. s0 = Must(<<Flag1(d)>>) \o <<>> /\ FlagBytes(d) = <<Flag1(d)>> \o <<>> /\ n0 = 1 + 0
      BY <2>3 DEF FlagBytes
    <3> HIDE DEF s0, n0
    <3> QED
      BY <2>1, <3>1, PieceNone, PieceConcat
  <2> QED
    BY <2>2, <2>3
<1>2. /\ g[0] = FlagBytes(d)
      /\ g[1] = g[0] \o OptionalBytes(d.on, d.val, "sequenceNr", 2)
      /\ g[2] = g[1] \o OptionalBytes(d.on, d.val, "timestamp", 8)
      /\ g[3] = g[2] \o OptionalBytes(d.on, d.val, "picoSeconds", 2)
      /\ g[4] = g[3] \o OptionalBytes(d.on, d.val, "status", 2)
      /\ g[5] = g[4] \o OptionalBytes(d.on, d.val, "majorVersion", 4)
      /\ g[6] = g[5] \o OptionalBytes(d.on, d.val, "minorVersion", 4)
  BY HeaderGrows
<1>3. /\ Piece(p("sequenceNr", 2), OptionalBytes(d.on, d.val, "sequenceNr", 2), z("sequenceNr", 2))
      /\ Piece(p("timestamp", 8), OptionalBytes(d.on, d.val, "timestamp", 8), z("timestamp", 8))
      /\ Piece(p("picoSeconds", 2), OptionalBytes(d.on, d.val, "picoSeconds", 2), z("picoSeconds", 2))
      /\ Piece(p("status", 2), OptionalBytes(d.on, d.val, "status", 2), z("status", 2))
      /\ Piece(p("majorVersion", 4), OptionalBytes(d.on, d.val, "majorVersion", 4),
               z("majorVersion", 4))
      /\ Piece(p("minorVersion", 4), OptionalBytes(d.on, d.val, "minorVersion", 4),
               z("minorVersion", 4))
  <2>1. 2 \in Widths /\ 4 \in Widths /\ 8 \in Widths
    BY DEF Widths
  <2> QED
    BY <2>1, DSMHas, PieceField
<1>4. HeaderSegments(d) = s0 \o p("sequenceNr", 2) \o p("timestamp", 8) \o p("picoSeconds", 2)
                          \o p("status", 2) \o p("majorVersion", 4) \o p("minorVersion", 4)
  BY DEF HeaderSegments, Flag1, Flag2
<1>5. HeaderSize(d) = n0 + z("sequenceNr", 2) + z("timestamp", 8) + z("picoSeconds", 2)
                      + z("status", 2) + z("majorVersion", 4) + z("minorVersion", 4)
  BY DEF HeaderSize
<1> HIDE DEF g, p, z, s0, n0
<1>6. Piece(s0 \o p("sequenceNr", 2), g[1], n0 + z("sequenceNr", 2))
  BY <1>1, <1>2, <1>3, PieceConcat
<1>7. Piece(s0 \o p("sequenceNr", 2) \o p("timestamp", 8), g[2],
            n0 + z("sequenceNr", 2) + z("timestamp", 8))
  BY <1>2, <1>3, <1>6, PieceConcat
<1>8. Piece(s0 \o p("sequenceNr", 2) \o p("timestamp", 8) \o p("picoSeconds", 2), g[3],
            n0 + z("sequenceNr", 2) + z("timestamp", 8) + z("picoSeconds", 2))
  BY <1>2, <1>3, <1>7, PieceConcat
<1>9. Piece(s0 \o p("sequenceNr", 2) \o p("timestamp", 8) \o p("picoSeconds", 2) \o p("status", 2),
            g[4], n0 + z("sequenceNr", 2) + z("timestamp", 8) + z("picoSeconds", 2) + z("status", 2))
  BY <1>2, <1>3, <1>8, PieceConcat
<1>10. Piece(s0 \o p("sequenceNr", 2) \o p("timestamp", 8) \o p("picoSeconds", 2) \o p("status", 2)
                \o p("majorVersion", 4), g[5],
             n0 + z("sequenceNr", 2) + z("timestamp", 8) + z("picoSeconds", 2) + z("status", 2)
                + z("majorVersion", 4))
  BY <1>2, <1>3, <1>9, PieceConcat
<1>11. Piece(HeaderSegments(d), g[6], HeaderSize(d))
  BY <1>2, <1>3, <1>4, <1>5, <1>10, PieceConcat
<1>12. HeaderSize(d) >= 1
  <2>1. \A f, w : w \in Widths => z(f, w) \in Nat
    BY DEF z, SizeIf, Widths
  <2>2. 2 \in Widths /\ 4 \in Widths /\ 8 \in Widths
    BY DEF Widths
  <2>3. n0 \in Nat /\ n0 >= 1
    BY DEF n0
  <2> QED
    BY <1>5, <2>1, <2>2, <2>3
<1> QED
  BY <1>11, <1>12 DEF HeaderBytes, g

\* The value of a field as the field encoding d.enc has it, and its size.
ValueSegments(v, enc) == IF enc = VariantEncoding THEN Must(EncodeVariant(v.value))
                         ELSE Must(EncodeDataValue(v))
ValueBytesIn(v, enc)  == IF enc = VariantEncoding THEN EncodeVariant(v.value)
                         ELSE EncodeDataValue(v)
ValueSizeIn(v, enc)   == IF enc = VariantEncoding THEN VariantSize(v.value) ELSE DataValueSize(v)

\* The value of a field in the encoding of its frame.
LEMMA ValuePiece ==
    ASSUME NEW v \in DataValues, NEW enc
    PROVE  Piece(ValueSegments(v, enc), ValueBytesIn(v, enc), ValueSizeIn(v, enc))
           /\ ValueSizeIn(v, enc) >= 1
<1>1. CASE enc = VariantEncoding
  <2>1. /\ EncodeVariant(v.value) \in Seq(Octet) /\ Len(EncodeVariant(v.value)) = VariantSize(v.value)
        /\ VariantSize(v.value) >= 1
    BY DataValueHas, VariantBytes
  <2>2. Piece(Must(EncodeVariant(v.value)), EncodeVariant(v.value), VariantSize(v.value))
    BY <2>1, PieceMust
  <2> QED
    BY <1>1, <2>1, <2>2 DEF ValueSegments, ValueBytesIn, ValueSizeIn
<1>2. CASE enc # VariantEncoding
  <2>1. /\ EncodeDataValue(v) \in Seq(Octet) /\ Len(EncodeDataValue(v)) = DataValueSize(v)
        /\ DataValueSize(v) >= 1
    BY DataValueBytes
  <2>2. Piece(Must(EncodeDataValue(v)), EncodeDataValue(v), DataValueSize(v))
    BY <2>1, PieceMust
  <2> QED
    BY <1>2, <2>1, <2>2 DEF ValueSegments, ValueBytesIn, ValueSizeIn
<1> QED
  BY <1>1, <1>2

\* Field i of a DataSetMessage.
FieldSegments(d, i) == IF d.type = KeyFrame THEN ValueSegments(d.fields[i], d.enc)
                       ELSE Must(LE(d.fields[i].index, 2)) \o ValueSegments(d.fields[i].value, d.enc)
FieldBytes(d, i)    == IF d.type = KeyFrame THEN ValueBytesIn(d.fields[i], d.enc)
                       ELSE LE(d.fields[i].index, 2) \o ValueBytesIn(d.fields[i].value, d.enc)
FieldSize(d, i)     == IF d.type = KeyFrame THEN ValueSizeIn(d.fields[i], d.enc)
                       ELSE 2 + ValueSizeIn(d.fields[i].value, d.enc)

\* A field of a key or delta frame.
LEMMA FieldPiece ==
    ASSUME NEW d \in DataSetMessages, d.type \in {KeyFrame, DeltaFrame}, NEW i \in 1..Len(d.fields)
    PROVE  Piece(FieldSegments(d, i), FieldBytes(d, i), FieldSize(d, i)) /\ FieldSize(d, i) >= 1
<1>1. CASE d.type = KeyFrame
  <2>1. d.fields[i] \in DataValues
    BY <1>1, DSMHas
  <2>2. Piece(ValueSegments(d.fields[i], d.enc), ValueBytesIn(d.fields[i], d.enc),
              ValueSizeIn(d.fields[i], d.enc)) /\ ValueSizeIn(d.fields[i], d.enc) >= 1
    BY <2>1, ValuePiece
  <2> QED
    BY <1>1, <2>2 DEF FieldSegments, FieldBytes, FieldSize
<1>2. CASE d.type # KeyFrame
  <2> DEFINE v == d.fields[i].value
             k == d.fields[i].index
  <2>1. v \in DataValues /\ k \in Unsigned(2)
    <3>1. d.fields[i] \in DeltaFields
      BY <1>2, DSMHas
    <3> QED
      BY <3>1 DEF DeltaFields
  <2>2. FieldSegments(d, i) = Must(LE(k, 2)) \o ValueSegments(v, d.enc)
        /\ FieldBytes(d, i) = LE(k, 2) \o ValueBytesIn(v, d.enc)
        /\ FieldSize(d, i) = 2 + ValueSizeIn(v, d.enc)
    BY <1>2 DEF FieldSegments, FieldBytes, FieldSize
  <2> HIDE DEF v, k
  <2>3. LE(k, 2) \in Seq(Octet) /\ Len(LE(k, 2)) = 2
    BY <2>1, LEType DEF Unsigned
  <2>4. Piece(Must(LE(k, 2)), LE(k, 2), 2)
    BY <2>3, PieceMust
  <2>5. Piece(ValueSegments(v, d.enc), ValueBytesIn(v, d.enc), ValueSizeIn(v, d.enc))
        /\ ValueSizeIn(v, d.enc) >= 1
    BY <2>1, ValuePiece
  <2>6. Piece(FieldSegments(d, i), FieldBytes(d, i), FieldSize(d, i))
    BY <2>2, <2>4, <2>5, PieceConcat
  <2> QED
    BY <2>2, <2>5, <2>6 DEF Piece
<1> QED
  BY <1>1, <1>2

\* The frames that the codec encodes: no events, and no raw fields.
Encodable(d) == d.type \in {KeyFrame, DeltaFrame, KeepAlive} /\ (d.enc # RawData \/ d.type = KeepAlive)

FieldsOf(d)   == [i \in 1..Len(d.fields) |-> FieldBytes(d, i)]
FramesOf(d)   == [i \in 1..Len(d.fields) |-> FieldSegments(d, i)]
SizesOf(d)    == [i \in 1..Len(d.fields) |-> FieldSize(d, i)]
BodyBytes(d)  == IF d.type = KeepAlive THEN <<>> ELSE LE(Len(d.fields), 2) \o FlattenSeq(FieldsOf(d))
DSMBytes(d)   == HeaderBytes(d) \o BodyBytes(d)

\* The fields of a frame, behind their number.
LEMMA FieldsPiece ==
    ASSUME NEW d \in DataSetMessages, d.type \in {KeyFrame, DeltaFrame}
    PROVE  /\ Piece(Must(LE(Len(d.fields), 2)) \o FlattenSeq(FramesOf(d)),
                    LE(Len(d.fields), 2) \o FlattenSeq(FieldsOf(d)), 2 + SumFunction(SizesOf(d)))
           /\ FieldsOf(d) \in Seq(Seq(Octet)) /\ Len(FieldsOf(d)) = Len(d.fields)
<1> DEFINE n == Len(d.fields)
           s == FramesOf(d)
           b == FieldsOf(d)
           F == SizesOf(d)
<1>1. n \in Nat /\ n \in Unsigned(2)
  BY DSMHas DEF Unsigned
<1>2. \A i \in 1..n : Piece(FieldSegments(d, i), FieldBytes(d, i), FieldSize(d, i))
  BY FieldPiece
<1>3. \A i \in 1..n : FieldSegments(d, i) \in Seq(Segment) /\ FieldBytes(d, i) \in Seq(Octet)
  BY <1>2, PieceType
<1>4. s \in Seq(Seq(Segment)) /\ b \in Seq(Seq(Octet)) /\ Len(s) = n /\ Len(b) = n
      /\ F = [i \in 1..n |-> F[i]]
  BY <1>1, <1>3 DEF FieldsOf, FramesOf, SizesOf
<1>5. \A i \in 1..n : Piece(s[i], b[i], F[i])
  BY <1>2 DEF FieldsOf, FramesOf, SizesOf
<1>6. LE(n, 2) \in Seq(Octet) /\ Len(LE(n, 2)) = 2
  BY <1>1, LEType
<1> HIDE DEF n, s, b, F
<1>7. Piece(FlattenSeq(s), FlattenSeq(b), SumFunction([i \in 1..Len(s) |-> F[i]]))
  BY <1>4, <1>5, PieceEach
<1>8. SumFunction([i \in 1..Len(s) |-> F[i]]) = SumFunction(F)
  BY Zenon, <1>4
<1>9. Piece(Must(LE(n, 2)), LE(n, 2), 2)
  BY <1>6, PieceMust
<1>10. Piece(Must(LE(n, 2)) \o FlattenSeq(s), LE(n, 2) \o FlattenSeq(b), 2 + SumFunction(F))
  <2>1. Piece(FlattenSeq(s), FlattenSeq(b), SumFunction(F))
    BY Zenon, <1>7, <1>8
  <2> QED
    BY <1>9, <2>1, PieceConcat
<1> QED
  BY <1>4, <1>10 DEF n, s, b, F

\* A DataSetMessage is written as its size says, or refused with an error.
LEMMA DSMPiece ==
    ASSUME NEW d \in DataSetMessages
    PROVE  /\ DSMSegments(d) \in Seq(Segment) /\ DSMSize(d) \in Nat
           /\ Encodable(d) => Piece(DSMSegments(d), DSMBytes(d), DSMSize(d)) /\ DSMSize(d) >= 1
           /\ ~Encodable(d) => Halts(DSMSegments(d))
<1> DEFINE h == HeaderSegments(d)
           n == Len(d.fields)
           c == Must(LE(n, 2))
           no == Halt("BadNotImplemented")
           f == c \o FlattenSeq(FramesOf(d))
           z == 2 + SumFunction(SizesOf(d))
           keys == [i \in 1..n |-> IF d.enc = VariantEncoding
                                   THEN Must(EncodeVariant(d.fields[i].value))
                                   ELSE Must(EncodeDataValue(d.fields[i]))]
           deltas == [i \in 1..n |-> Must(LE(d.fields[i].index, 2)) \o
                                     (IF d.enc = VariantEncoding
                                      THEN Must(EncodeVariant(d.fields[i].value.value))
                                      ELSE Must(EncodeDataValue(d.fields[i].value)))]
           sizes == [i \in 1..n |->
                        (IF d.type = DeltaFrame THEN 2 ELSE 0)
                        + (IF d.enc = VariantEncoding
                           THEN VariantSize((IF d.type = KeyFrame THEN d.fields[i]
                                             ELSE d.fields[i].value).value)
                           ELSE DataValueSize(IF d.type = KeyFrame THEN d.fields[i]
                                              ELSE d.fields[i].value))]
           raw == d.enc = RawData
<1>1. d.type \in 0..3 /\ d.enc \in 0..2 /\ n \in Unsigned(2) /\ KeyFrame = 0 /\ DeltaFrame = 1
      /\ KeepAlive = 3
  BY DSMHas DEF KeyFrame, DeltaFrame, KeepAlive
<1>2. Piece(h, HeaderBytes(d), HeaderSize(d)) /\ HeaderSize(d) >= 1 /\ h \in Seq(Segment)
      /\ HeaderSize(d) \in Nat
  <2>1. Piece(h, HeaderBytes(d), HeaderSize(d)) /\ HeaderSize(d) >= 1
    BY HeaderPiece
  <2> HIDE DEF h
  <2> QED
    BY <2>1, PieceType
<1>3. c \in Seq(Segment) /\ no \in Seq(Segment) /\ Halts(no)
  <2>1. LE(n, 2) \in Seq(Octet)
    BY <1>1, LEType DEF Unsigned
  <2>2. "BadNotImplemented" \in Codes \ {"Good"}
    BY DEF Codes
  <2> QED
    BY <2>1, <2>2, MustPuts, HaltHalts
<1>4. d.type = KeyFrame => FramesOf(d) = keys
  BY DEF FramesOf, FieldSegments, ValueSegments
<1>5. d.type = DeltaFrame => FramesOf(d) = deltas
  BY <1>1 DEF FramesOf, FieldSegments, ValueSegments
<1>6. d.type \in {KeyFrame, DeltaFrame} => SizesOf(d) = sizes
  <2> SUFFICES ASSUME d.type \in {KeyFrame, DeltaFrame}, NEW i \in 1..n
               PROVE  FieldSize(d, i) = sizes[i]
    BY DEF SizesOf
  <2>1. FieldSize(d, i) >= 1 /\ FieldSize(d, i) \in Nat
    BY FieldPiece, PieceType
  <2>2. CASE d.type = KeyFrame
    <3>1. sizes[i] = 0 + ValueSizeIn(d.fields[i], d.enc)
      BY <1>1, <2>2 DEF ValueSizeIn
    <3>2. FieldSize(d, i) = ValueSizeIn(d.fields[i], d.enc)
      BY <2>2 DEF FieldSize
    <3> HIDE DEF sizes
    <3> QED
      BY <2>1, <3>1, <3>2
  <2>3. CASE d.type = DeltaFrame
    BY <1>1, <2>3 DEF ValueSizeIn, FieldSize
  <2> QED
    BY <2>2, <2>3
<1>7. DSMSegments(d) = h \o
        (CASE d.type = KeyFrame /\ d.enc = RawData   -> no
           [] d.type = KeyFrame /\ d.enc # RawData   -> c \o FlattenSeq(keys)
           [] d.type = DeltaFrame /\ d.enc = RawData -> c \o no
           [] d.type = DeltaFrame /\ d.enc # RawData -> c \o FlattenSeq(deltas)
           [] d.type = KeepAlive                     -> <<>>
           [] OTHER                                  -> no)
  BY DEF DSMSegments, Each
<1>8. DSMSize(d) = HeaderSize(d) + (IF d.type \in {KeyFrame, DeltaFrame} /\ d.enc # RawData
                                    THEN 2 + SumFunction(sizes) ELSE 0)
  BY DEF DSMSize, SumOf
<1> HIDE DEF h, n, c, no, keys, deltas, sizes
<1>9. /\ d.type = KeyFrame /\ raw => DSMSegments(d) = h \o no
      /\ d.type = KeyFrame /\ ~raw => DSMSegments(d) = h \o f
      /\ d.type = DeltaFrame /\ raw => DSMSegments(d) = h \o (c \o no)
      /\ d.type = DeltaFrame /\ ~raw => DSMSegments(d) = h \o f
      /\ d.type = KeepAlive => DSMSegments(d) = h \o <<>>
      /\ d.type = 2 => DSMSegments(d) = h \o no
  <2>1. ASSUME d.type = KeyFrame, raw
        PROVE  DSMSegments(d) = h \o no
    BY <1>1, <1>7, <2>1
  <2>2. ASSUME d.type = KeyFrame, ~raw
        PROVE  DSMSegments(d) = h \o f
    <3>1. DSMSegments(d) = h \o (c \o FlattenSeq(keys))
      BY <1>1, <1>7, <2>2
    <3> QED
      BY <1>4, <2>2, <3>1
  <2>3. ASSUME d.type = DeltaFrame, raw
        PROVE  DSMSegments(d) = h \o (c \o no)
    BY <1>1, <1>7, <2>3
  <2>4. ASSUME d.type = DeltaFrame, ~raw
        PROVE  DSMSegments(d) = h \o f
    <3>1. DSMSegments(d) = h \o (c \o FlattenSeq(deltas))
      BY <1>1, <1>7, <2>4
    <3> QED
      BY <1>5, <2>4, <3>1
  <2>5. ASSUME d.type = KeepAlive
        PROVE  DSMSegments(d) = h \o <<>>
    BY <1>1, <1>7, <2>5
  <2>6. ASSUME d.type = 2
        PROVE  DSMSegments(d) = h \o no
    BY <1>1, <1>7, <2>6
  <2> QED
    BY <2>1, <2>2, <2>3, <2>4, <2>5, <2>6
<1>10. /\ d.type \in {KeyFrame, DeltaFrame} /\ ~raw => DSMSize(d) = HeaderSize(d) + z
       /\ ~ (d.type \in {KeyFrame, DeltaFrame} /\ ~raw) => DSMSize(d) = HeaderSize(d) + 0
  BY <1>6, <1>8
<1>11. Encodable(d) <=> (d.type \in {KeyFrame, DeltaFrame} /\ ~raw) \/ d.type = KeepAlive
  BY <1>1 DEF Encodable
<1>r. raw \in BOOLEAN /\ (d.type = 0 \/ d.type = 1 \/ d.type = 2 \/ d.type = 3)
  BY <1>1
<1> HIDE DEF raw
<1>12. CASE d.type \in {KeyFrame, DeltaFrame} /\ ~raw
  <2>1. Piece(f, LE(n, 2) \o FlattenSeq(FieldsOf(d)), z)
    BY <1>12, FieldsPiece DEF n, c
  <2>2. BodyBytes(d) = LE(n, 2) \o FlattenSeq(FieldsOf(d))
    BY <1>1, <1>12 DEF BodyBytes, n
  <2>3. DSMSegments(d) = h \o f /\ DSMSize(d) = HeaderSize(d) + z
    BY <1>9, <1>10, <1>12
  <2> HIDE DEF f, z
  <2>4. Piece(DSMSegments(d), DSMBytes(d), DSMSize(d))
    BY <1>2, <2>1, <2>2, <2>3, PieceConcat DEF DSMBytes
  <2>5. DSMSegments(d) \in Seq(Segment) /\ DSMSize(d) \in Nat /\ z \in Nat
    BY <2>1, <2>4, PieceType
  <2>6. DSMSize(d) >= 1
    BY <1>2, <2>3, <2>5
  <2> QED
    BY <1>11, <1>12, <2>4, <2>5, <2>6
<1>13. CASE d.type = KeepAlive
  <2>1. BodyBytes(d) = <<>> /\ DSMSegments(d) = h \o <<>> /\ DSMSize(d) = HeaderSize(d) + 0
    BY <1>1, <1>9, <1>10, <1>13 DEF BodyBytes
  <2>2. Piece(DSMSegments(d), DSMBytes(d), DSMSize(d))
    BY <1>2, <2>1, PieceNone, PieceConcat DEF DSMBytes
  <2>3. DSMSegments(d) \in Seq(Segment) /\ DSMSize(d) \in Nat
    BY <2>2, PieceType
  <2>4. DSMSize(d) >= 1
    BY <1>2, <2>1
  <2> QED
    BY <1>11, <1>13, <2>2, <2>3, <2>4
<1>14. CASE ~Encodable(d)
  <2>1. DSMSegments(d) = h \o no \/ DSMSegments(d) = h \o (c \o no)
    BY <1>1, <1>r, <1>9, <1>11, <1>14
  <2>2. /\ h \o no \in Seq(Segment) /\ Halts(h \o no)
        /\ h \o (c \o no) \in Seq(Segment) /\ Halts(h \o (c \o no))
    <3>1. c \o no \in Seq(Segment) /\ Halts(c \o no)
      BY <1>3, PutsConcat
    <3> QED
      BY <1>2, <1>3, <3>1, PutsConcat
  <2>3. DSMSize(d) = HeaderSize(d) + 0
    BY <1>10, <1>11, <1>14
  <2> QED
    <3>1. DSMSegments(d) \in Seq(Segment) /\ Halts(DSMSegments(d))
      BY Zenon, <2>1, <2>2
    <3>2. DSMSize(d) \in Nat
      BY <1>2, <2>3
    <3> QED
      BY <1>14, <3>1, <3>2
<1> QED
  BY <1>r, <1>11, <1>12, <1>13, <1>14

---------------------------------------------------------------------------
(* Loops, by invariants. *)

\* Every turn of a loop keeps Inv, a set of pairs: a state and the number of the
\* turns taken.
Preserves(Inv, S, n, step) ==
    \A s \in S, i \in 1..n : <<s, i - 1>> \in Inv => <<step[<<s, i>>], i>> \in Inv

\* What holds at first and after every turn of a loop holds at its end.
LEMMA LoopKeeps ==
    ASSUME NEW S, NEW b, NEW n \in Nat, NEW step, NEW f, Loops(f, S, b, n, step),
           NEW Inv, <<b, 0>> \in Inv, Preserves(Inv, S, n, step)
    PROVE  \A i \in 0..n : f[i] \in S /\ <<f[i], i>> \in Inv
<1> DEFINE T == {k \in Nat : k <= n => <<f[k], k>> \in Inv}
<1>1. f \in [0..n -> S] /\ f[0] = b /\ \A i \in 1..n : f[i] = step[<<f[i - 1], i>>]
  BY DEF Loops
<1>2. 0 \in T
  BY <1>1
<1>3. ASSUME NEW k \in Nat, k \in T
      PROVE  k + 1 \in T
  <2> SUFFICES ASSUME k + 1 <= n PROVE <<f[k + 1], k + 1>> \in Inv
    OBVIOUS
  <2> DEFINE j == k + 1
  <2>1. j \in 1..n /\ j - 1 = k /\ k \in 0..n /\ k <= n
    OBVIOUS
  <2>2. <<f[k], k>> \in Inv
    BY <1>3, <2>1
  <2> HIDE DEF j
  <2>3. f[j] = step[<<f[k], j>>] /\ f[k] \in S
    BY <1>1, <2>1
  <2>4. <<f[k], j - 1>> \in Inv
    BY <2>1, <2>2
  <2>5. <<step[<<f[k], j>>], j>> \in Inv
    BY <2>1, <2>3, <2>4 DEF Preserves
  <2>6. <<f[j], j>> \in Inv
    BY <2>3, <2>5
  <2> QED
    BY <2>6 DEF j
<1>4. \A k \in Nat : k \in T
  <2> HIDE DEF T
  <2> QED
    BY <1>2, <1>3, Induction
<1> QED
  <2> TAKE i \in 0..n
  <2>1. i \in Nat /\ i <= n /\ f[i] \in S
    BY <1>1
  <2> QED
    BY <1>4, <2>1

---------------------------------------------------------------------------
(* Reading a DataValue. *)

\* A DataValue as a decoder fills it, whatever the bytes are.
LooseValues == [on : SUBSET DOMAIN DataValueMask, value : Variants, val : [Parts -> Nat]]

Clamped(val) == [val EXCEPT !["sourcePicoseconds"] = Clamp(@), !["serverPicoseconds"] = Clamp(@)]

VariantIf(src, pos, on) == IF "value" \in on THEN DecodeVariant(src, pos)
                           ELSE [rv |-> "Good", pos |-> pos, value |-> EmptyVariant]

PartsRead(src, pos, on) == ReadFields(src, [rv |-> "Good", pos |-> pos, val |-> NoParts], on, PartsLayout)

\* The decoder of a DataValue: the mask, the Variant, the other parts.
LEMMA DecodeDataValueIs ==
    ASSUME NEW src, NEW pos, NEW b, b = Read(src, pos, 1),
           NEW on, on = FlagsIn(b.value, DataValueMask),
           NEW v, v = VariantIf(src, b.pos, on), NEW r, r = PartsRead(src, v.pos, on)
    PROVE  DecodeDataValue(src, pos) =
             IF b.rv = "Good" /\ v.rv = "Good" /\ r.rv = "Good"
             THEN [rv |-> "Good", pos |-> r.pos,
                   value |-> [on |-> on, value |-> v.value, val |-> Clamped(r.val)]]
             ELSE [rv |-> "BadDecodingError", pos |-> pos, value |-> EmptyDataValue]
<1> DEFINE fail == [rv |-> "BadDecodingError", pos |-> pos, value |-> EmptyDataValue]
           done == [rv |-> "Good", pos |-> r.pos,
                    value |-> [on |-> on, value |-> v.value, val |-> Clamped(r.val)]]
           p == IF v.rv = "Good" THEN (IF r.rv = "Good" THEN done ELSE r) ELSE v
<1>1. DecodeParts(src, on, b.pos) = p
  BY DEF DecodeParts, Then, VariantIf, PartsRead, Clamped
<1>2. DecodeDataValue(src, pos) = OrFail(IF b.rv = "Good" THEN p ELSE b, pos, EmptyDataValue)
  BY <1>1 DEF DecodeDataValue, Then
<1>3. done.rv = "Good"
  OBVIOUS
<1> HIDE DEF done, fail
<1>4. OrFail(IF b.rv = "Good" THEN p ELSE b, pos, EmptyDataValue)
        = IF b.rv = "Good" /\ v.rv = "Good" /\ r.rv = "Good" THEN done ELSE fail
  BY <1>3 DEF OrFail, fail
<1> QED
  BY <1>2, <1>4 DEF done, fail

\* A clamped number of picoseconds is a number.
LEMMA ClampType == \A n \in Nat : Clamp(n) \in Nat
BY DEF Clamp, MaxPicoSeconds

\* So are the clamped members of a DataValue.
LEMMA ClampedType == \A val \in [Parts -> Nat] : Clamped(val) \in [Parts -> Nat]
<1> TAKE val \in [Parts -> Nat]
<1>1. "sourcePicoseconds" \in Parts /\ "serverPicoseconds" \in Parts
  BY PartsAre DEF Parts
<1>2. val["sourcePicoseconds"] \in Nat /\ val["serverPicoseconds"] \in Nat
  BY <1>1
<1>3. [val EXCEPT !["sourcePicoseconds"] = Clamp(@)] \in [Parts -> Nat]
  BY <1>2, ClampType
<1>4. [val EXCEPT !["sourcePicoseconds"] = Clamp(@)]["serverPicoseconds"] \in Nat
  BY <1>1, <1>3
<1> QED
  BY <1>3, <1>4, ClampType DEF Clamped

\* The Variant of a DataValue, which may be absent.
LEMMA VariantIfType ==
    ASSUME NEW src \in Seq(Octet), NEW pos \in 0..Len(src), NEW on
    PROVE  /\ VariantIf(src, pos, on) \in Outcomes(src, Variants)
           /\ VariantIf(src, pos, on).rv = "Good" => VariantIf(src, pos, on).pos >= pos
<1>1. CASE "value" \in on
  <2> DEFINE x == DecodeVariant(src, pos)
  <2>1. VariantIf(src, pos, on) = x
    BY <1>1 DEF VariantIf
  <2>2. x \in Outcomes(src, Variants) /\ (x.rv = "Good" => x.pos >= pos + 1)
    BY VariantType
  <2> HIDE DEF x
  <2>3. x.pos \in Nat /\ pos \in Nat
    BY <2>2 DEF Outcomes
  <2> QED
    BY <2>1, <2>2, <2>3
<1>2. CASE "value" \notin on
  BY <1>2 DEF VariantIf, Outcomes, Variants, Codes
<1> QED
  BY <1>1, <1>2

\* The optional members of a DataValue.
LEMMA PartsReadType ==
    ASSUME NEW src \in Seq(Octet), NEW pos \in 0..Len(src), NEW on
    PROVE  PartsRead(src, pos, on) \in Readers(src, Parts) /\ PartsRead(src, pos, on).pos >= pos
<1> DEFINE r == [rv |-> "Good", pos |-> pos, val |-> NoParts]
<1>1. r \in Readers(src, Parts)
  BY PartsAre DEF Readers, Codes
<1>2. r.pos = pos /\ PartsRead(src, pos, on) = ReadFields(src, r, on, PartsLayout)
  BY DEF PartsRead
<1> HIDE DEF r
<1> QED
  BY <1>1, <1>2, PartsAre, FieldsType

\* Whatever the bytes are, the decoder of a DataValue returns a DataValue, and
\* takes a byte when it succeeds.
LEMMA DataValueType ==
    ASSUME NEW src \in Seq(Octet), NEW pos \in 0..Len(src), NEW x, x = DecodeDataValue(src, pos)
    PROVE  x \in Outcomes(src, LooseValues) /\ (x.rv = "Good" => x.pos >= pos + 1)
<1> DEFINE b == Read(src, pos, 1)
           on == FlagsIn(b.value, DataValueMask)
           v == VariantIf(src, b.pos, on)
           r == PartsRead(src, v.pos, on)
           y == [on |-> on, value |-> v.value, val |-> Clamped(r.val)]
<1>1. x = IF b.rv = "Good" /\ v.rv = "Good" /\ r.rv = "Good"
          THEN [rv |-> "Good", pos |-> r.pos, value |-> y]
          ELSE [rv |-> "BadDecodingError", pos |-> pos, value |-> EmptyDataValue]
  BY DecodeDataValueIs
<1>2. b \in Outcomes(src, Unsigned(1)) /\ (b.rv = "Good" => b.pos = pos + 1)
  BY ReadType DEF Widths, Read
<1>3. on \subseteq DOMAIN DataValueMask
  BY DEF FlagsIn
<1> HIDE DEF b, on
<1>4. b.pos \in 0..Len(src)
  BY <1>2 DEF Outcomes
<1>5. v \in Outcomes(src, Variants) /\ (v.rv = "Good" => v.pos >= b.pos)
  BY <1>4, VariantIfType
<1> HIDE DEF v
<1>6. v.pos \in 0..Len(src) /\ v.value \in Variants
  BY <1>5 DEF Outcomes
<1>7. r \in Readers(src, Parts) /\ r.pos >= v.pos
  BY <1>6, PartsReadType
<1> HIDE DEF r
<1>8. y \in LooseValues /\ r.pos \in 0..Len(src)
  BY <1>3, <1>6, <1>7, ClampedType DEF LooseValues, Readers
<1>9. EmptyDataValue \in LooseValues
  BY PartsAre DEF EmptyDataValue, LooseValues, Variants
<1> HIDE DEF y
<1>10. "Good" \in Codes /\ "BadDecodingError" \in Codes
  BY DEF Codes
<1>11. CASE b.rv = "Good" /\ v.rv = "Good" /\ r.rv = "Good"
  <2>1. x = [rv |-> "Good", pos |-> r.pos, value |-> y]
    BY <1>1, <1>11
  <2>2. r.pos >= pos + 1
    BY <1>2, <1>4, <1>5, <1>6, <1>7, <1>8, <1>11
  <2> QED
    BY <1>8, <1>10, <2>1, <2>2 DEF Outcomes
<1>12. CASE ~(b.rv = "Good" /\ v.rv = "Good" /\ r.rv = "Good")
  <2>1. x = [rv |-> "BadDecodingError", pos |-> pos, value |-> EmptyDataValue]
    BY <1>1, <1>12
  <2> QED
    BY <1>9, <1>10, <2>1 DEF Outcomes
<1> QED
  BY <1>11, <1>12

\* Optional fields do not change what stands in front of them.
LEMMA GrowsFollow ==
    ASSUME NEW on, NEW v, NEW D, NEW layout \in Seq(D \X Widths), FieldsFit(v, layout),
           NEW g, Grows(g, on, v, layout)
    PROVE  /\ \A i \in 0..Len(layout) : g[i] \in Seq(Octet) /\ Len(g[0]) <= Len(g[i])
           /\ \A src : \A pos \in Nat : Follows(src, pos, g[Len(layout)]) => Follows(src, pos, g[0])
<1> DEFINE n == Len(layout)
           P(k) == /\ Len(g[0]) <= Len(g[k])
                   /\ \A src : \A pos \in Nat : Follows(src, pos, g[k]) => Follows(src, pos, g[0])
           T == {k \in Nat : k <= n => P(k)}
<1>1. /\ \A i \in 0..n : g[i] \in Seq(Octet)
      /\ \A i \in 1..n : g[i] = g[i - 1] \o OptionalBytes(on, v, layout[i][1], layout[i][2])
  BY DEF Grows
<1>2. n \in Nat
  OBVIOUS
<1>3. 0 \in T
  <2>1. g[0] \in Seq(Octet)
    BY <1>1, <1>2
  <2> QED
    BY <2>1
<1>4. ASSUME NEW k \in Nat, k \in T
      PROVE  k + 1 \in T
  <2> SUFFICES ASSUME k + 1 <= n PROVE P(k + 1)
    OBVIOUS
  <2> DEFINE j == k + 1
             o == OptionalBytes(on, v, layout[j][1], layout[j][2])
             a == g[k]
             c == g[j]
  <2>1. j \in 1..n /\ j - 1 = k /\ k \in 0..n /\ j \in 0..n /\ 0 \in 0..n /\ P(k)
    BY <1>2, <1>4
  <2>2. o \in Seq(Octet)
    <3>1. layout[j][1] \in D /\ layout[j][2] \in Widths /\ v[layout[j][1]] \in Unsigned(layout[j][2])
      BY <2>1 DEF FieldsFit
    <3> HIDE DEF j
    <3> QED
      BY <3>1, OptionalBytesType
  <2>3. c = a \o o /\ a \in Seq(Octet) /\ g[0] \in Seq(Octet)
    BY <1>1, <2>1
  <2>4. Len(g[0]) <= Len(a) /\ \A src : \A pos \in Nat : Follows(src, pos, a) => Follows(src, pos, g[0])
    BY <2>1
  <2> HIDE DEF o, a, c, j
  <2>5. \A src : \A pos \in Nat : Follows(src, pos, c) => Follows(src, pos, g[0])
    BY <2>2, <2>3, <2>4, FollowsConcat
  <2>6. Len(c) = Len(a) + Len(o) /\ Len(a) \in Nat /\ Len(o) \in Nat /\ Len(g[0]) \in Nat
    BY <2>2, <2>3
  <2>7. Len(g[0]) <= Len(c)
    BY <2>4, <2>6
  <2> QED
    BY <2>5, <2>7 DEF c, j
<1>5. \A k \in Nat : k \in T
  <2> HIDE DEF T
  <2> QED
    BY <1>3, <1>4, Induction
<1>6. \A k \in 0..n : P(k)
  <2> HIDE DEF P
  <2> QED
    BY <1>2, <1>5
<1> QED
  BY <1>1, <1>2, <1>6

\* What a decoder makes of a DataValue: the parts that are not present are
\* zero, and the picoseconds are clamped.
ReceivedValue(d) ==
    [on |-> d.on, value |-> IF "value" \in d.on THEN d.value ELSE EmptyVariant,
     val |-> Clamped([f \in Parts |-> IF f \in d.on THEN d.val[f] ELSE 0])]

\* The bytes of a DataValue grow by one optional member after the other.
LEMMA BytesToGrows ==
    ASSUME NEW d \in DataValues
    PROVE  Grows(BytesTo(d), d.on, d.val, PartsLayout)
<1> DEFINE g == BytesTo(d)
<1>1. \A i \in 0..5 : g[i] \in Seq(Octet)
  BY DataValueBytes
<1>2. /\ g[1] = g[0] \o PartBytes(d, 1) /\ g[2] = g[1] \o PartBytes(d, 2)
      /\ g[3] = g[2] \o PartBytes(d, 3) /\ g[4] = g[3] \o PartBytes(d, 4)
      /\ g[5] = g[4] \o PartBytes(d, 5)
  BY BytesToParts
<1> HIDE DEF g
<1>3. \A i \in 1..5 : g[i] = g[i - 1] \o PartBytes(d, i)
  <2> TAKE i \in 1..5
  <2>1. \/ (i = 1 /\ i - 1 = 0) \/ (i = 2 /\ i - 1 = 1) \/ (i = 3 /\ i - 1 = 2)
        \/ (i = 4 /\ i - 1 = 3) \/ (i = 5 /\ i - 1 = 4)
    OBVIOUS
  <2> QED
    BY <1>2, <2>1
<1> QED
  BY <1>1, <1>3, PartsAre DEF Grows, PartBytes, g

\* The Variant of a DataValue is read back if it is there.
LEMMA VariantIfReads ==
    ASSUME NEW src \in Seq(Octet), NEW pos \in 0..Len(src), NEW d \in DataValues,
           Follows(src, pos, ValueBytes(d)), NEW v, v = VariantIf(src, pos, d.on)
    PROVE  Reads(src, pos, ValueBytes(d), v, IF "value" \in d.on THEN d.value ELSE EmptyVariant)
<1>1. CASE "value" \in d.on
  <2>1. ValueBytes(d) = EncodeVariant(d.value) /\ v = DecodeVariant(src, pos) /\ d.value \in Variants
    BY <1>1, DataValueHas DEF ValueBytes, VariantIf
  <2>2. Reads(src, pos, EncodeVariant(d.value), DecodeVariant(src, pos), d.value)
    BY <2>1, VariantReads
  <2> QED
    BY <1>1, <2>1, <2>2
<1>2. CASE "value" \notin d.on
  BY <1>2 DEF ValueBytes, VariantIf, Reads
<1> QED
  BY <1>1, <1>2

\* What is read of the parts of a DataValue.
LEMMA PartsReads ==
    ASSUME NEW src \in Seq(Octet), NEW pos \in 0..Len(src), NEW d \in DataValues,
           Follows(src, pos, EncodeDataValue(d)), NEW p \in 0..Len(src),
           p = pos + Len(BytesTo(d)[0]),
           NEW r, r = PartsRead(src, p, d.on)
    PROVE  /\ Reached(src, pos, EncodeDataValue(d), r)
           /\ r.rv = "Good" => r.val = [f \in Parts |-> IF f \in d.on THEN d.val[f] ELSE 0]
<1> DEFINE g == BytesTo(d)
           r0 == [rv |-> "Good", pos |-> p, val |-> NoParts]
<1>1. r0 \in Readers(src, Parts) /\ r0.val = [f \in Parts |-> 0]
  BY PartsAre DEF Readers, Codes
<1>2. Reached(src, pos, g[0], r0)
  BY DEF Reached
<1>3. r = ReadFields(src, r0, d.on, PartsLayout)
  BY DEF PartsRead
<1>4. g[0] \in Seq(Octet) /\ g[5] = EncodeDataValue(d)
  <2>1. \A i \in 0..5 : g[i] \in Seq(Octet)
    BY DataValueBytes
  <2>2. g[5] = EncodeDataValue(d)
    BY BytesToParts
  <2> QED
    BY <2>1, <2>2
<1>5. Len(PartsLayout) = 5 /\ PartsLayout \in Seq(Parts \X Widths) /\ FieldsFit(d.val, PartsLayout)
      /\ Grows(g, d.on, d.val, PartsLayout)
  BY BytesToGrows, PartsAre, DataValueHas
<1> HIDE DEF g, r0
<1>6. /\ Reached(src, pos, g[5], r) /\ r \in Readers(src, Parts)
      /\ r.rv = "Good" => Filled(r, r0, d.on, d.val, PartsLayout, Parts)
  <2>1. Follows(src, pos, g[Len(PartsLayout)]) /\ pos \in Nat
    BY <1>4, <1>5
  <2>2. /\ Reached(src, pos, g[Len(PartsLayout)], r) /\ r \in Readers(src, Parts)
        /\ r.rv = "Good" => Filled(r, r0, d.on, d.val, PartsLayout, Parts)
    <3> DEFINE v == d.val
               on == d.on
               L == PartsLayout
    <3>1. /\ L \in Seq(Parts \X Widths) /\ FieldsFit(v, L) /\ Grows(g, on, v, L)
          /\ Follows(src, pos, g[Len(L)]) /\ pos \in Nat
          /\ r = ReadFields(src, r0, on, L)
      BY <1>3, <1>5, <2>1
    <3>2. r0 \in Readers(src, Parts) /\ Reached(src, pos, g[0], r0)
      BY <1>1, <1>2
    <3> HIDE DEF v, on, L
    <3>3. /\ Reached(src, pos, g[Len(L)], r) /\ r \in Readers(src, Parts)
          /\ r.rv = "Good" => Filled(r, r0, on, v, L, Parts)
      BY <3>1, <3>2, FieldsReads
    <3> QED
      BY <3>3 DEF v, on, L
  <2> QED
    BY <1>5, <2>2
<1>7. ASSUME r.rv = "Good"
      PROVE  r.val = [f \in Parts |-> IF f \in d.on THEN d.val[f] ELSE 0]
  <2>1. r.val \in [Parts -> Nat]
    BY <1>6 DEF Readers
  <2>2. \A f \in Parts : r.val[f] = IF f \in d.on THEN d.val[f] ELSE 0
    <3> TAKE f \in Parts
    <3>1. \E i \in 1..Len(PartsLayout) : PartsLayout[i][1] = f
      BY PartsAre
    <3>2. r0.val[f] = 0
      BY <1>1
    <3> QED
      BY <1>6, <1>7, <3>1, <3>2 DEF Filled
  <2> QED
    BY <2>1, <2>2
<1> QED
  BY <1>4, <1>6, <1>7

\* A DataValue is read back, and refused when a byte is missing.
LEMMA DataValueReads ==
    ASSUME NEW src \in Seq(Octet), NEW pos \in 0..Len(src), NEW d \in DataValues,
           Follows(src, pos, EncodeDataValue(d)), NEW x, x = DecodeDataValue(src, pos)
    PROVE  Reads(src, pos, EncodeDataValue(d), x, ReceivedValue(d))
<1> DEFINE b == Read(src, pos, 1)
           on == FlagsIn(b.value, DataValueMask)
           v == VariantIf(src, b.pos, on)
           r == PartsRead(src, v.pos, on)
           y == [on |-> on, value |-> v.value, val |-> Clamped(r.val)]
           g0 == BytesTo(d)[0]
           e == EncodeDataValue(d)
<1>1. x = IF b.rv = "Good" /\ v.rv = "Good" /\ r.rv = "Good"
          THEN [rv |-> "Good", pos |-> r.pos, value |-> y]
          ELSE [rv |-> "BadDecodingError", pos |-> pos, value |-> EmptyDataValue]
  BY DecodeDataValueIs
<1>2. g0 \in Seq(Octet) /\ Len(g0) <= Len(e) /\ Follows(src, pos, g0) /\ e \in Seq(Octet)
  <2>1. FieldsFit(d.val, PartsLayout) /\ PartsLayout \in Seq(Parts \X Widths) /\ Len(PartsLayout) = 5
    BY DataValueHas, PartsAre
  <2> DEFINE g == BytesTo(d)
  <2>2. g[5] = e /\ pos \in Nat /\ g[0] = g0
    <3>1. g[5] = e
      BY BytesToParts
    <3> QED
      BY <3>1
  <2>3. Follows(src, pos, g[Len(PartsLayout)])
    BY <2>1, <2>2
  <2>4. Grows(g, d.on, d.val, PartsLayout)
    BY BytesToGrows
  <2> HIDE DEF e, g, g0
  <2>5. /\ \A i \in 0..5 : g[i] \in Seq(Octet) /\ Len(g[0]) <= Len(g[i])
        /\ \A s : \A p \in Nat : Follows(s, p, g[Len(PartsLayout)]) => Follows(s, p, g[0])
    BY <2>1, <2>4, GrowsFollow
  <2>6. Follows(src, pos, g[0])
    BY <2>2, <2>3, <2>5, Zenon
  <2> QED
    BY <2>2, <2>5, <2>6
<1>3. g0 = <<ValueByte(d)>> \o ValueBytes(d) /\ ValueByte(d) \in Octet /\ ValueBytes(d) \in Seq(Octet)
      /\ FlagsIn(ValueByte(d), DataValueMask) = d.on
  BY BytesToParts, ValueType
<1>4. Len(g0) \in Nat /\ Len(e) \in Nat /\ pos \in Nat /\ Len(src) \in Nat
  BY <1>2
<1> HIDE DEF g0, e
<1>5. /\ Len(g0) = 1 + Len(ValueBytes(d)) /\ Len(ValueBytes(d)) \in Nat
      /\ pos + 1 <= Len(src) => /\ Follows(src, pos + 1, ValueBytes(d)) /\ b.value = ValueByte(d)
                                /\ b.rv = "Good" /\ b.pos = pos + 1
      /\ ~ (pos + 1 <= Len(src)) => b.rv # "Good"
  <2>1. Follows(src, pos, <<ValueByte(d)>> \o ValueBytes(d))
    BY <1>2, <1>3
  <2> HIDE DEF b
  <2>2. b = Read(src, pos, 1)
    BY DEF b
  <2>3. /\ Len(<<ValueByte(d)>> \o ValueBytes(d)) = 1 + Len(ValueBytes(d)) /\ Len(ValueBytes(d)) \in Nat
        /\ pos + 1 <= Len(src) => /\ Follows(src, pos + 1, ValueBytes(d)) /\ b.value = ValueByte(d)
                                  /\ b = [rv |-> "Good", pos |-> pos + 1, value |-> ValueByte(d)]
        /\ ~ (pos + 1 <= Len(src)) => b.rv # "Good"
    BY <1>3, <1>4, <2>1, <2>2, ByteReads
  <2> QED
    BY <1>3, <2>3
<1> HIDE DEF b
<1>6. CASE ~ (pos + 1 <= Len(src))
  BY <1>1, <1>2, <1>4, <1>5, <1>6 DEF Reads, e
<1>7. ASSUME pos + 1 <= Len(src)
      PROVE  Reads(src, pos, e, x, ReceivedValue(d))
  <2>1. on = d.on /\ b.pos = pos + 1 /\ b.pos \in 0..Len(src) /\ b.rv = "Good"
    BY <1>3, <1>4, <1>5, <1>7
  <2> DEFINE val == IF "value" \in d.on THEN d.value ELSE EmptyVariant
  <2> HIDE DEF on, val
  <2>2. Reads(src, b.pos, ValueBytes(d), v, val)
    BY <1>5, <1>7, <2>1, VariantIfReads DEF val
  <2> HIDE DEF v
  <2>3. CASE v.rv # "Good"
    <3>1. ~ (pos + Len(g0) <= Len(src))
      BY <1>4, <1>5, <2>1, <2>2, <2>3 DEF Reads
    <3>2. ~ (pos + Len(e) <= Len(src))
      BY <1>2, <1>4, <3>1
    <3>3. x.rv # "Good"
      BY <1>1, <2>3
    <3> QED
      BY <3>2, <3>3 DEF Reads
  <2>4. CASE v.rv = "Good"
    <3>1. v.pos = pos + Len(g0) /\ v.pos \in 0..Len(src) /\ v.value = val
      BY <1>4, <1>5, <2>1, <2>2, <2>4 DEF Reads
    <3>2. /\ Reached(src, pos, e, r)
          /\ r.rv = "Good" => r.val = [f \in Parts |-> IF f \in d.on THEN d.val[f] ELSE 0]
      BY <2>1, <3>1, PartsReads DEF e, g0
    <3> HIDE DEF r
    <3>3. CASE r.rv = "Good"
      <4>1. y = ReceivedValue(d)
        BY <2>1, <3>1, <3>2, <3>3 DEF ReceivedValue, val
      <4>2. x = [rv |-> "Good", pos |-> r.pos, value |-> y]
        BY <1>1, <2>1, <2>4, <3>3
      <4> HIDE DEF y
      <4> QED
        BY <3>2, <3>3, <4>1, <4>2 DEF Reached, Reads
    <3>4. CASE r.rv # "Good"
      <4>1. x.rv # "Good"
        BY <1>1, <3>4
      <4> QED
        BY <3>2, <3>4, <4>1 DEF Reached, Reads
    <3> QED
      BY <3>3, <3>4
  <2> QED
    BY <2>3, <2>4
<1> QED
  BY <1>6, <1>7 DEF e

\* A reader that has failed reads no more.
LEMMA FieldsStop ==
    ASSUME NEW src \in Seq(Octet), NEW D, NEW r \in Readers(src, D), NEW on,
           NEW layout \in Seq(D \X Widths), r.rv # "Good", NEW x, x = ReadFields(src, r, on, layout)
    PROVE  x = r
<1> DEFINE n == Len(layout)
<1>0. PICK f : Unrolled(f, src, D, r, on, layout, x)
  BY FieldsUnfold
<1>1. /\ f[0] = r /\ x = f[n] /\ n \in Nat
      /\ \A i \in 1..n : f[i] = ReadOptional(src, f[i - 1], on, layout[i])
  BY <1>0 DEF Unrolled
<1> DEFINE T == {k \in Nat : k <= n => f[k] = r}
<1> HIDE DEF n
<1>2. 0 \in T
  BY <1>1
<1>3. ASSUME NEW k \in Nat, k \in T
      PROVE  k + 1 \in T
  <2> SUFFICES ASSUME k + 1 <= n PROVE f[k + 1] = r
    OBVIOUS
  <2>0. k + 1 \in 1..n /\ (k + 1) - 1 = k /\ k <= n
    BY <1>1
  <2>1. k + 1 \in 1..n /\ (k + 1) - 1 = k /\ f[k] = r
    BY <1>3, <2>0
  <2>2. f[k + 1] = ReadOptional(src, f[k], on, layout[k + 1])
    BY <1>1, <2>1
  <2> QED
    BY <2>1, <2>2 DEF ReadOptional
<1>4. n \in T
  <2> HIDE DEF T
  <2> QED
    BY <1>1, <1>2, <1>3, Induction
<1> QED
  BY <1>1, <1>4

---------------------------------------------------------------------------
(* Reading the header of a DataSetMessage. *)

LooseDeltas == [index : Nat, value : LooseValues]

\* A DataSetMessage as a decoder fills it, whatever the bytes are.
LooseDSMs == [on : SUBSET (DOMAIN Flags1Mask \cup DOMAIN Flags2Mask), type : Nat, enc : Nat,
              val : [DSMFields -> Nat], fields : Seq(LooseValues \cup LooseDeltas),
              count : Nat, owns : BOOLEAN]

Frames(src) == [rv : Codes, pos : 0..Len(src), dsm : LooseDSMs]

NoDSMFields == [f \in DSMFields |-> 0]

SecondByte(src, b1) == IF Bit(b1.value, 128) THEN Read(src, b1.pos, 1)
                       ELSE [b1 EXCEPT !.value = KeyFrame]

FlagsOf(b1, b2) == FlagsIn(b1.value, Flags1Mask) \cup FlagsIn(b2.value, Flags2Mask)

EmptyDSM(on, type, enc, val) ==
    [on |-> on, type |-> type, enc |-> enc, val |-> val, fields |-> <<>>, count |-> 0, owns |-> FALSE]

\* The decoder of the header: two bytes of flags and the optional fields.
LEMMA DecodeHeaderIs ==
    ASSUME NEW src, NEW pos, NEW b1, b1 = Read(src, pos, 1), NEW b2, b2 = SecondByte(src, b1),
           NEW on, on = FlagsOf(b1, b2),
           NEW r, r = ReadFields(src, [rv |-> b2.rv, pos |-> b2.pos, val |-> NoDSMFields], on, HeaderLayout)
    PROVE  DecodeHeader(src, pos) =
             [rv |-> r.rv, pos |-> r.pos,
              dsm |-> EmptyDSM(on, b2.value % 16, (b1.value \div 2) % 4, r.val)]
BY DEF DecodeHeader, SecondByte, FlagsOf, EmptyDSM, NoDSMFields

\* The first bytes, whatever they are.
LEMMA FirstBytesType ==
    ASSUME NEW src \in Seq(Octet), NEW pos \in 0..Len(src), NEW b1, b1 = Read(src, pos, 1),
           NEW b2, b2 = SecondByte(src, b1)
    PROVE  /\ b1 \in Outcomes(src, Unsigned(1)) /\ b2 \in Outcomes(src, Unsigned(1))
           /\ b2.rv = "Good" => b2.pos >= pos + 1
           /\ b1.rv # "Good" => b2.rv # "Good"
<1>1. b1 \in Outcomes(src, Unsigned(1))
  BY ReadType DEF Widths
<1>2. b1.pos \in 0..Len(src) /\ (b1.rv = "Good" => b1.pos = pos + 1)
  BY <1>1 DEF Outcomes, Read
<1>3. CASE Bit(b1.value, 128)
  <2>1. b2 = Read(src, b1.pos, 1)
    BY <1>3 DEF SecondByte
  <2> DEFINE p == b1.pos
  <2>0. p \in 0..Len(src) /\ b2 = Read(src, p, 1)
    BY <1>2, <2>1
  <2> HIDE DEF p
  <2>4. b2 \in Outcomes(src, Unsigned(1)) /\ (b2.rv = "Good" => b2.pos = p + 1)
    <3>1. Read(src, p, 1) \in Outcomes(src, Unsigned(1))
      BY <2>0, ReadType DEF Widths
    <3>2. Read(src, p, 1).rv = "Good" => Read(src, p, 1).pos = p + 1
      BY DEF Read
    <3> QED
      BY <2>0, <3>1, <3>2
  <2>2. b2 \in Outcomes(src, Unsigned(1)) /\ (b2.rv = "Good" => b2.pos = b1.pos + 1)
    BY <2>4 DEF p
  <2>3. b1.rv = "Good"
    BY <1>3 DEF Bit, Read
  <2> QED
    BY <1>1, <1>2, <2>2, <2>3
<1>4. CASE ~Bit(b1.value, 128)
  <2>1. b2 = [b1 EXCEPT !.value = KeyFrame]
    BY <1>4 DEF SecondByte
  <2>2. KeyFrame \in Unsigned(1)
    BY DEF KeyFrame, Unsigned, Limit
  <2>3. b2 \in Outcomes(src, Unsigned(1)) /\ b2.rv = b1.rv /\ b2.pos = b1.pos
    BY <1>1, <2>1, <2>2 DEF Outcomes
  <2> QED
    BY <1>1, <1>2, <2>3
<1> QED
  BY <1>3, <1>4

\* Whatever the bytes are, the header decoder fills a header.
LEMMA HeaderType ==
    ASSUME NEW src \in Seq(Octet), NEW pos \in 0..Len(src), NEW x, x = DecodeHeader(src, pos)
    PROVE  /\ x \in Frames(src) /\ (x.rv = "Good" => x.pos >= pos + 1)
           /\ x.dsm.fields = <<>> /\ x.dsm.owns = FALSE
<1> DEFINE b1 == Read(src, pos, 1)
           b2 == SecondByte(src, b1)
           on == FlagsOf(b1, b2)
           r0 == [rv |-> b2.rv, pos |-> b2.pos, val |-> NoDSMFields]
           r == ReadFields(src, r0, on, HeaderLayout)
           dsm == EmptyDSM(on, b2.value % 16, (b1.value \div 2) % 4, r.val)
<1>1. x = [rv |-> r.rv, pos |-> r.pos, dsm |-> dsm]
  BY DecodeHeaderIs
<1>2. /\ b1 \in Outcomes(src, Unsigned(1)) /\ b2 \in Outcomes(src, Unsigned(1))
      /\ b2.rv = "Good" => b2.pos >= pos + 1
  BY FirstBytesType
<1> HIDE DEF b1, b2
<1>3. on \subseteq DOMAIN Flags1Mask \cup DOMAIN Flags2Mask
  BY DEF FlagsOf, FlagsIn
<1>4. r0 \in Readers(src, DSMFields) /\ r0.pos = b2.pos /\ r0.rv = b2.rv
  BY <1>2 DEF Readers, Outcomes, NoDSMFields
<1> HIDE DEF r0, on
<1>5. r \in Readers(src, DSMFields) /\ r.pos >= r0.pos /\ (r.rv = "Good" => r0.rv = "Good")
  <2>1. HeaderLayout \in Seq(DSMFields \X Widths)
    BY HeaderLayoutIs
  <2>2. r \in Readers(src, DSMFields) /\ r.pos >= r0.pos
    BY <1>4, <2>1, FieldsType
  <2>3. r0.rv # "Good" => r = r0
    BY <1>4, <2>1, FieldsStop
  <2> QED
    BY <2>2, <2>3
<1> HIDE DEF r
<1>6. b2.value \in Nat /\ b1.value \in Nat /\ r.val \in [DSMFields -> Nat] /\ b2.pos \in Nat
  BY <1>2, <1>5 DEF Outcomes, Unsigned, Readers
<1>7. b2.value % 16 \in Nat /\ (b1.value \div 2) % 4 \in Nat
  BY <1>6
<1>8. dsm \in LooseDSMs /\ dsm.fields = <<>> /\ dsm.owns = FALSE
  BY <1>3, <1>6, <1>7 DEF LooseDSMs, EmptyDSM
<1> HIDE DEF dsm
<1>9. x \in Frames(src)
  BY <1>1, <1>5, <1>8 DEF Frames, Readers
<1>10. ASSUME x.rv = "Good" PROVE x.pos >= pos + 1
  <2>1. r.rv = "Good" /\ x.pos = r.pos /\ r.pos \in Nat
    BY <1>1, <1>5, <1>10 DEF Readers
  <2> QED
    BY <1>2, <1>4, <1>5, <1>6, <2>1
<1> QED
  BY <1>1, <1>8, <1>9, <1>10

\* What a decoder makes of the header of a DataSetMessage.
ReceivedHeader(d) ==
    EmptyDSM(d.on, d.type, d.enc, [f \in DSMFields |-> IF f \in d.on THEN d.val[f] ELSE 0])

\* The bytes of flags are read back.
LEMMA FlagsRead ==
    ASSUME NEW src \in Seq(Octet), NEW pos \in 0..Len(src), NEW d \in DataSetMessages,
           Follows(src, pos, FlagBytes(d)), NEW b1, b1 = Read(src, pos, 1),
           NEW b2, b2 = SecondByte(src, b1)
    PROVE  /\ Reached(src, pos, FlagBytes(d), b2)
           /\ b2.rv = "Good" => /\ FlagsOf(b1, b2) = d.on /\ b2.value % 16 = d.type
                                /\ (b1.value \div 2) % 4 = d.enc
<1> DEFINE c == IF DataSetFlags2Enabled(d) THEN <<Flag2(d)>> ELSE <<>>
           t == Flag1(d)
<1>1. /\ t \in Octet /\ FlagsIn(t, Flags1Mask) = d.on \cap DOMAIN Flags1Mask
      /\ (t \div 2) % 4 = d.enc /\ (Bit(t, 128) <=> DataSetFlags2Enabled(d))
      /\ Flag2(d) \in Octet /\ FlagsIn(Flag2(d), Flags2Mask) = d.on \cap DOMAIN Flags2Mask
      /\ Flag2(d) % 16 = d.type
  BY HeaderFlags
<1>2. c \in Seq(Octet) /\ FlagBytes(d) = <<t>> \o c
  BY <1>1 DEF FlagBytes
<1>3. d.on \subseteq DOMAIN Flags1Mask \cup DOMAIN Flags2Mask
  BY DSMHas
<1> HIDE DEF c, t
<1>4. /\ Len(<<t>> \o c) = 1 + Len(c) /\ Len(c) \in Nat
      /\ pos + 1 <= Len(src) => /\ Follows(src, pos + 1, c) /\ b1.value = t
                                /\ b1 = [rv |-> "Good", pos |-> pos + 1, value |-> t]
      /\ ~ (pos + 1 <= Len(src)) => b1.rv # "Good"
  <2>1. Follows(src, pos, <<t>> \o c) /\ pos \in Nat
    BY <1>2
  <2> QED
    BY <1>1, <1>2, <2>1, ByteReads
<1>5. CASE ~ (pos + 1 <= Len(src))
  <2>1. b1.rv # "Good"
    BY <1>4, <1>5
  <2>2. b2.rv # "Good"
    BY <2>1, FirstBytesType
  <2>3. ~ (pos + Len(FlagBytes(d)) <= Len(src))
    <3> DEFINE n == Len(c)
               m == Len(src)
               l == Len(FlagBytes(d))
    <3>1. l = 1 + n /\ n \in Nat /\ m \in Nat /\ pos \in Nat /\ ~ (pos + 1 <= m)
      BY <1>2, <1>4, <1>5
    <3> HIDE DEF n, m, l
    <3>2. ~ (pos + l <= m)
      BY <3>1
    <3> QED
      BY <3>2 DEF l, m
  <2> QED
    BY <2>2, <2>3 DEF Reached
<1>6. CASE pos + 1 <= Len(src) /\ DataSetFlags2Enabled(d)
  <2> DEFINE u == Flag2(d)
             b3 == Read(src, pos + 1, 1)
  <2>1. b1.pos = pos + 1 /\ b1.value = t /\ b2 = b3 /\ c = <<u>> /\ Follows(src, pos + 1, c)
    BY <1>1, <1>4, <1>6 DEF SecondByte, c
  <2>2. u \in Octet /\ <<u>> \in Seq(Octet) /\ LE(u, 1) = <<u>> /\ Len(<<u>>) = 1 /\ u \in Unsigned(1)
    BY <1>1, OneByte
  <2> HIDE DEF u
  <2>3. Reads(src, pos + 1, LE(u, 1), Read(src, pos + 1, 1), u)
    <3>1. pos + 1 \in Nat /\ Follows(src, pos + 1, LE(u, 1)) /\ 1 \in Widths
      BY <2>1, <2>2 DEF Widths
    <3> QED
      BY <2>2, <3>1, IntegerReads
  <2>4. Len(FlagBytes(d)) = 2
    BY <1>2, <1>4, <2>1, <2>2
  <2>5. Reached(src, pos, FlagBytes(d), b2) /\ (b2.rv = "Good" => b2.value = u)
    <3>1. Reads(src, pos + 1, <<u>>, b2, u) /\ Len(<<u>>) = 1 /\ pos + 1 + 1 = pos + 2
      BY <2>1, <2>2, <2>3
    <3> HIDE DEF b3
    <3> QED
      BY <2>4, <3>1 DEF Reads, Reached
  <2>6. ASSUME b2.rv = "Good"
        PROVE  FlagsOf(b1, b2) = d.on /\ b2.value % 16 = d.type /\ (b1.value \div 2) % 4 = d.enc
    <3>1. b2.value = u /\ b1.value = t
      BY <2>1, <2>5, <2>6
    <3>2. FlagsOf(b1, b2) = (d.on \cap DOMAIN Flags1Mask) \cup (d.on \cap DOMAIN Flags2Mask)
      BY <1>1, <3>1 DEF FlagsOf, u
    <3> QED
      BY <1>1, <1>3, <3>1, <3>2 DEF u
  <2> QED
    BY <2>5, <2>6
<1>7. CASE pos + 1 <= Len(src) /\ ~DataSetFlags2Enabled(d)
  <2>1. /\ b1 = [rv |-> "Good", pos |-> pos + 1, value |-> t] /\ c = <<>>
        /\ b2 = [b1 EXCEPT !.value = KeyFrame]
    BY <1>1, <1>4, <1>7 DEF SecondByte, c
  <2>2. b2.rv = "Good" /\ b2.pos = pos + 1 /\ b2.value = 0 /\ b1.value = t
    BY <2>1 DEF KeyFrame
  <2>3. Len(FlagBytes(d)) = 1
    BY <1>2, <1>4, <2>1
  <2>4. FlagsIn(0, Flags2Mask) = {}
    BY DEF FlagsIn, Bit, Flags2Mask
  <2>5. d.type = 0 /\ d.on \cap DOMAIN Flags2Mask = {}
    BY <1>7 DEF DataSetFlags2Enabled, KeyFrame, Flags2Mask
  <2>6. FlagsOf(b1, b2) = d.on \cap DOMAIN Flags1Mask
    BY <1>1, <2>2, <2>4 DEF FlagsOf
  <2>7. FlagsOf(b1, b2) = d.on
    BY <1>3, <2>5, <2>6
  <2> QED
    BY <1>1, <1>7, <2>2, <2>3, <2>5, <2>7 DEF Reached
<1> QED
  BY <1>5, <1>6, <1>7

\* The header is read back, and refused when a byte is missing.
LEMMA HeaderReads ==
    ASSUME NEW src \in Seq(Octet), NEW pos \in 0..Len(src), NEW d \in DataSetMessages,
           Follows(src, pos, HeaderBytes(d)), NEW x, x = DecodeHeader(src, pos)
    PROVE  /\ Reached(src, pos, HeaderBytes(d), x)
           /\ x.rv = "Good" => x.dsm = ReceivedHeader(d)
<1> DEFINE b1 == Read(src, pos, 1)
           b2 == SecondByte(src, b1)
           on == FlagsOf(b1, b2)
           r0 == [rv |-> b2.rv, pos |-> b2.pos, val |-> NoDSMFields]
           r == ReadFields(src, r0, on, HeaderLayout)
           g == HeaderTo(d)
           L == HeaderLayout
           v == d.val
<1>1. x = [rv |-> r.rv, pos |-> r.pos, dsm |-> EmptyDSM(on, b2.value % 16, (b1.value \div 2) % 4, r.val)]
  BY DecodeHeaderIs
<1>2. b2 \in Outcomes(src, Unsigned(1))
  BY FirstBytesType
<1>3. L \in Seq(DSMFields \X Widths) /\ Len(L) = 6 /\ FieldsFit(v, L)
      /\ \A f \in DSMFields : \E i \in 1..6 : L[i][1] = f
  BY HeaderLayoutIs, DSMHas
<1>4. g[0] = FlagBytes(d) /\ Grows(g, d.on, v, L) /\ g[6] = HeaderBytes(d)
  <2>1. FlagBytes(d) \in Seq(Octet) /\ g = Fielded(FlagBytes(d), d.on, v, L)
    BY HeaderFlags DEF HeaderTo
  <2>2. g[6] = HeaderBytes(d)
    BY DEF HeaderBytes
  <2> DEFINE fb == FlagBytes(d)
             don == d.on
  <2>3. fb \in Seq(Octet) /\ g = Fielded(fb, don, v, L)
    BY <2>1
  <2>5. L \in Seq(DSMFields \X Widths) /\ FieldsFit(v, L)
    BY <1>3
  <2> HIDE DEF g, L, v, fb, don
  <2>4. g[0] = fb /\ Grows(g, don, v, L)
    BY ZenonT(40), <2>3, <2>5, FieldedMore
  <2> QED
    BY <2>2, <2>4 DEF fb, don
<1>5. /\ \A i \in 0..6 : g[i] \in Seq(Octet) /\ Len(g[0]) <= Len(g[i])
      /\ Follows(src, pos, g[6]) => Follows(src, pos, g[0])
  <2> HIDE DEF g, L, v
  <2>1. /\ \A i \in 0..Len(L) : g[i] \in Seq(Octet) /\ Len(g[0]) <= Len(g[i])
        /\ \A s : \A p \in Nat : Follows(s, p, g[Len(L)]) => Follows(s, p, g[0])
    BY <1>3, <1>4, GrowsFollow
  <2>2. pos \in Nat
    OBVIOUS
  <2> QED
    BY <1>3, <2>1, <2>2
<1>6. Follows(src, pos, g[6]) /\ Follows(src, pos, FlagBytes(d))
  <2> HIDE DEF g
  <2> QED
    BY <1>4, <1>5
<1>7. /\ Reached(src, pos, FlagBytes(d), b2)
      /\ b2.rv = "Good" => on = d.on /\ b2.value % 16 = d.type /\ (b1.value \div 2) % 4 = d.enc
  BY <1>6, FlagsRead
<1>8. r0 \in Readers(src, DSMFields) /\ r0.pos = b2.pos /\ r0.rv = b2.rv /\ r0.val = NoDSMFields
  BY <1>2 DEF Readers, Outcomes, NoDSMFields
<1>9. Len(g[0]) \in Nat /\ Len(g[6]) \in Nat /\ Len(g[0]) <= Len(g[6]) /\ pos \in Nat /\ Len(src) \in Nat
  <2> HIDE DEF g
  <2>1. g[0] \in Seq(Octet) /\ g[6] \in Seq(Octet) /\ Len(g[0]) <= Len(g[6])
    BY <1>5
  <2> QED
    BY <2>1
<1> HIDE DEF b1, b2, on, r0, g, L
<1>10. CASE b2.rv # "Good"
  <2>1. r = r0
    BY <1>3, <1>8, <1>10, FieldsStop DEF L
  <2>2. x.rv # "Good"
    BY <1>1, <1>8, <1>10, <2>1
  <2>3. ~ (pos + Len(g[0]) <= Len(src))
    BY <1>4, <1>7, <1>10 DEF Reached
  <2>4. ~ (pos + Len(g[6]) <= Len(src))
    BY <1>9, <2>3
  <2> QED
    BY <1>4, <2>2, <2>4 DEF Reached
<1>11. CASE b2.rv = "Good"
  <2>1. on = d.on /\ b2.value % 16 = d.type /\ (b1.value \div 2) % 4 = d.enc
    BY <1>7, <1>11
  <2>2. Reached(src, pos, g[0], r0)
    BY <1>4, <1>7, <1>8 DEF Reached
  <2> DEFINE don == d.on
  <2>3. /\ L \in Seq(DSMFields \X Widths) /\ FieldsFit(v, L) /\ Grows(g, don, v, L)
        /\ Follows(src, pos, g[Len(L)]) /\ pos \in Nat
        /\ r = ReadFields(src, r0, don, L)
    BY <1>3, <1>4, <1>6, <2>1 DEF L
  <2> HIDE DEF don, v
  <2>4. /\ Reached(src, pos, g[Len(L)], r) /\ r \in Readers(src, DSMFields)
        /\ r.rv = "Good" => Filled(r, r0, don, v, L, DSMFields)
    <3> HIDE DEF r
    <3> QED
      BY <1>8, <2>2, <2>3, FieldsReads
  <2> HIDE DEF r
  <2>5. Reached(src, pos, HeaderBytes(d), r)
    BY <1>3, <1>4, <2>4
  <2>6. Reached(src, pos, HeaderBytes(d), x)
    BY <1>1, <2>5 DEF Reached
  <2>7. ASSUME x.rv = "Good" PROVE x.dsm = ReceivedHeader(d)
    <3>1. r.rv = "Good" /\ r.val \in [DSMFields -> Nat] /\ Filled(r, r0, don, v, L, DSMFields)
      BY <1>1, <2>4, <2>7 DEF Readers
    <3>2. r.val = [f \in DSMFields |-> IF f \in don THEN v[f] ELSE 0]
      <4>1. \A f \in DSMFields : r.val[f] = IF f \in don THEN v[f] ELSE 0
        <5> TAKE f \in DSMFields
        <5>1. \E i \in 1..Len(L) : L[i][1] = f
          BY <1>3
        <5>2. r0.val[f] = 0
          BY <1>8 DEF NoDSMFields
        <5> QED
          BY <3>1, <5>1, <5>2 DEF Filled
      <4> QED
        BY <3>1, <4>1
    <3>3. x.dsm = EmptyDSM(on, b2.value % 16, (b1.value \div 2) % 4, r.val)
      BY <1>1
    <3> QED
      BY <2>1, <3>2, <3>3 DEF ReceivedHeader, don, v
  <2> QED
    BY <2>6, <2>7
<1> QED
  BY <1>10, <1>11

---------------------------------------------------------------------------
(* Byte strings that grow piece by piece. *)

\* g goes on with the pieces of s.
Stacks(g, s, n) ==
    /\ \A i \in 0..n : g[i] \in Seq(Octet)
    /\ \A i \in 1..n : s[i] \in Seq(Octet) /\ g[i] = g[i - 1] \o s[i]

\* c starts with a.
Starts(a, c) ==
    Len(a) <= Len(c) /\ \A src : \A pos \in Nat : Follows(src, pos, c) => Follows(src, pos, a)

\* Less of it is a start of more of it.
LEMMA StacksStart ==
    ASSUME NEW n \in Nat, NEW g, NEW s, Stacks(g, s, n), NEW i \in 0..n
    PROVE  Starts(g[i], g[n]) /\ g[i] \in Seq(Octet)
<1> DEFINE T == {k \in Nat : k <= n => Starts(g[n - k], g[n])}
<1>1. /\ \A j \in 0..n : g[j] \in Seq(Octet)
      /\ \A j \in 1..n : s[j] \in Seq(Octet) /\ g[j] = g[j - 1] \o s[j]
  BY DEF Stacks
<1>2. 0 \in T
  <2>1. n \in 0..n /\ n - 0 = n
    OBVIOUS
  <2>2. g[n] \in Seq(Octet)
    BY <1>1, <2>1
  <2>3. Len(g[n]) \in Nat
    BY <2>2
  <2> QED
    BY <2>1, <2>3 DEF Starts
<1>3. ASSUME NEW k \in Nat, k \in T
      PROVE  k + 1 \in T
  <2> SUFFICES ASSUME k + 1 <= n PROVE Starts(g[n - (k + 1)], g[n])
    OBVIOUS
  <2> DEFINE j == n - k
  <2>1. j \in 1..n /\ j - 1 = n - (k + 1) /\ j - 1 \in 0..n /\ j \in 0..n /\ k <= n
    OBVIOUS
  <2>2. Starts(g[j], g[n])
    BY <1>3, <2>1
  <2> HIDE DEF j
  <2> DEFINE a == g[j - 1]
             b == s[j]
             c == g[j]
             e == g[n]
  <2>3. a \in Seq(Octet) /\ b \in Seq(Octet) /\ c = a \o b
    BY <1>1, <2>1
  <2>4. e \in Seq(Octet)
    <3>1. n \in 0..n
      OBVIOUS
    <3> QED
      BY <1>1, <3>1
  <2> HIDE DEF a, b, c, e
  <2>5. \A src : \A pos \in Nat : Follows(src, pos, c) => Follows(src, pos, a)
    BY <2>3, FollowsConcat
  <2>6. Len(c) = Len(a) + Len(b) /\ Len(a) \in Nat /\ Len(b) \in Nat /\ Len(e) \in Nat
    BY <2>3, <2>4, OctetsConcat
  <2>7. Len(c) <= Len(e) /\ \A src : \A pos \in Nat : Follows(src, pos, e) => Follows(src, pos, c)
    BY <2>2 DEF Starts, c, e
  <2>8. Starts(a, e)
    <3>1. Len(a) <= Len(e)
      BY <2>6, <2>7
    <3>2. \A src : \A pos \in Nat : Follows(src, pos, e) => Follows(src, pos, a)
      BY <2>5, <2>7
    <3> QED
      BY <3>1, <3>2 DEF Starts
  <2> QED
    BY <2>1, <2>8 DEF a, e
<1>4. \A k \in Nat : k \in T
  <2> HIDE DEF T
  <2> QED
    BY <1>2, <1>3, Induction
<1> DEFINE k == n - i
<1>5. k \in Nat /\ k <= n /\ n - k = i
  OBVIOUS
<1>6. Starts(g[n - k], g[n])
  <2> HIDE DEF k
  <2> QED
    BY <1>4, <1>5
<1>7. Starts(g[i], g[n])
  <2> HIDE DEF k
  <2> QED
    BY <1>5, <1>6
<1> QED
  BY <1>1, <1>7

\* Where every piece has a byte, i pieces have i bytes.
LEMMA StacksLong ==
    ASSUME NEW n \in Nat, NEW g, NEW s, Stacks(g, s, n), \A i \in 1..n : Len(s[i]) >= 1,
           NEW i \in 0..n
    PROVE  Len(g[i]) \in Nat /\ Len(g[i]) >= i
<1> DEFINE T == {k \in Nat : k <= n => Len(g[k]) >= k}
<1>1. /\ \A j \in 0..n : g[j] \in Seq(Octet)
      /\ \A j \in 1..n : s[j] \in Seq(Octet) /\ g[j] = g[j - 1] \o s[j]
  BY DEF Stacks
<1>2. 0 \in T
  <2>1. g[0] \in Seq(Octet)
    BY <1>1
  <2>2. Len(g[0]) \in Nat
    BY <2>1
  <2> QED
    BY <2>2
<1>3. ASSUME NEW k \in Nat, k \in T
      PROVE  k + 1 \in T
  <2> SUFFICES ASSUME k + 1 <= n PROVE Len(g[k + 1]) >= k + 1
    OBVIOUS
  <2> DEFINE j == k + 1
  <2>1. j \in 1..n /\ j - 1 = k /\ k \in 0..n /\ k <= n
    OBVIOUS
  <2>2. Len(g[k]) >= k
    BY <1>3, <2>1
  <2> HIDE DEF j
  <2>3. g[k] \in Seq(Octet) /\ s[j] \in Seq(Octet) /\ g[j] = g[k] \o s[j] /\ Len(s[j]) >= 1
    BY <1>1, <2>1
  <2> DEFINE a == g[k]
             b == s[j]
  <2>4. Len(g[j]) = Len(a) + Len(b) /\ Len(a) \in Nat /\ Len(b) \in Nat
    <3>1. a \in Seq(Octet) /\ b \in Seq(Octet) /\ g[j] = a \o b
      BY <2>3
    <3> HIDE DEF a, b
    <3> QED
      BY <3>1, OctetsConcat
  <2>5. Len(a) >= k /\ Len(b) >= 1
    BY <2>2, <2>3
  <2> HIDE DEF a, b
  <2> QED
    BY <2>4, <2>5 DEF j
<1>4. \A k \in Nat : k \in T
  <2> HIDE DEF T
  <2> QED
    BY <1>2, <1>3, Induction
<1>5. g[i] \in Seq(Octet)
  BY <1>1
<1>6. i \in Nat /\ i <= n
  OBVIOUS
<1> QED
  BY <1>4, <1>5, <1>6

\* The elements of a sequence of byte strings, behind a.
Stack(a, s) == [k \in 0..Len(s) |-> a \o Joined(s, k)]

\* A head and the elements of a sequence, stacked one after the other.
LEMMA StackStacks ==
    ASSUME NEW a \in Seq(Octet), NEW s \in Seq(Seq(Octet)), NEW g, g = Stack(a, s)
    PROVE  Stacks(g, s, Len(s)) /\ g[0] = a /\ g[Len(s)] = a \o FlattenSeq(s) /\ Len(s) \in Nat
<1> DEFINE n == Len(s)
<1>1. /\ Joined(s, 0) = <<>> /\ Joined(s, n) = FlattenSeq(s)
      /\ \A k \in 0..n : Joined(s, k) \in Seq(Octet)
      /\ \A k \in 1..n : Joined(s, k) = Joined(s, k - 1) \o s[k]
  BY JoinedMore
<1>2. n \in Nat /\ 0 \in 0..n /\ n \in 0..n
  OBVIOUS
<1>3. \A k \in 0..n : g[k] = a \o Joined(s, k)
  BY DEF Stack
<1>4. g[0] = a
  <2>1. g[0] = a \o Joined(s, 0)
    BY <1>2, <1>3
  <2>2. a \o <<>> = a
    OBVIOUS
  <2> QED
    BY <1>1, <2>1, <2>2
<1>5. \A k \in 0..n : g[k] \in Seq(Octet)
  <2> TAKE k \in 0..n
  <2> DEFINE b == Joined(s, k)
  <2>1. b \in Seq(Octet) /\ g[k] = a \o b
    BY <1>1, <1>3
  <2> HIDE DEF b
  <2> QED
    BY <2>1, OctetsConcat
<1>6. ASSUME NEW k \in 1..n
      PROVE  s[k] \in Seq(Octet) /\ g[k] = g[k - 1] \o s[k]
  <2>1. s[k] \in Seq(Octet) /\ k - 1 \in 0..n /\ k \in 0..n
    BY <1>2
  <2> DEFINE b == Joined(s, k - 1)
             c == s[k]
  <2>2. b \in Seq(Octet) /\ c \in Seq(Octet) /\ g[k] = a \o (b \o c) /\ g[k - 1] = a \o b
    BY <1>1, <1>3, <2>1
  <2> HIDE DEF b, c
  <2>3. g[k] = g[k - 1] \o c
    <3>1. a \o (b \o c) = (a \o b) \o c
      BY <2>2, Regroup
    <3> QED
      BY <2>2, <3>1
  <2> QED
    BY <2>1, <2>3 DEF c
<1> HIDE DEF n
<1>7. Stacks(g, s, n)
  BY <1>5, <1>6 DEF Stacks
<1>8. g[n] = a \o FlattenSeq(s)
  BY <1>1, <1>2, <1>3
<1> QED
  BY <1>2, <1>4, <1>7, <1>8 DEF n

---------------------------------------------------------------------------
(* Reading the fields of a DataSetMessage. *)

\* What a decoder makes of the value of a field.
ReceivedIn(v, enc) == IF enc = VariantEncoding THEN OnlyValue(v.value) ELSE ReceivedValue(v)

\* A Variant on its own is a value a decoder may return.
LEMMA OnlyValueType == \A v \in Variants : OnlyValue(v) \in LooseValues
BY PartsAre DEF OnlyValue, EmptyDataValue, LooseValues

\* How a field is decoded depends on the encoding of the message.
LEMMA FieldValueIs ==
    ASSUME NEW src, NEW pos, NEW enc, NEW v, v = DecodeVariant(src, pos)
    PROVE  FieldValue(src, pos, enc) =
             IF enc # VariantEncoding THEN DecodeDataValue(src, pos)
             ELSE IF v.rv = "Good" THEN [v EXCEPT !.value = OnlyValue(v.value)]
             ELSE [rv |-> "BadDecodingError", pos |-> pos, value |-> EmptyDataValue]
<1>1. CASE v.rv = "Good" /\ enc = VariantEncoding
  <2> DEFINE x == [v EXCEPT !.value = OnlyValue(v.value)]
  <2>1. FieldValue(src, pos, enc) = OrFail(x, pos, EmptyDataValue)
    BY <1>1 DEF FieldValue, Then
  <2>2. x.rv = "Good"
    BY <1>1
  <2> HIDE DEF x
  <2>3. OrFail(x, pos, EmptyDataValue) = x
    BY <2>2 DEF OrFail
  <2> QED
    BY <1>1, <2>1, <2>3 DEF x
<1>2. CASE v.rv # "Good" /\ enc = VariantEncoding
  BY <1>2 DEF FieldValue, Then, OrFail
<1>3. CASE enc # VariantEncoding
  BY <1>3 DEF FieldValue
<1> QED
  BY <1>1, <1>2, <1>3

\* Whatever the bytes are, the value of a field is a DataValue.
LEMMA FieldValueType ==
    ASSUME NEW src \in Seq(Octet), NEW pos \in 0..Len(src), NEW enc, NEW x, x = FieldValue(src, pos, enc)
    PROVE  x \in Outcomes(src, LooseValues) /\ (x.rv = "Good" => x.pos >= pos + 1)
<1> DEFINE v == DecodeVariant(src, pos)
<1>1. x = IF enc # VariantEncoding THEN DecodeDataValue(src, pos)
          ELSE IF v.rv = "Good" THEN [v EXCEPT !.value = OnlyValue(v.value)]
          ELSE [rv |-> "BadDecodingError", pos |-> pos, value |-> EmptyDataValue]
  BY FieldValueIs
<1>2. v \in Outcomes(src, Variants) /\ (v.rv = "Good" => v.pos >= pos + 1)
  BY VariantType
<1> HIDE DEF v
<1>3. CASE enc # VariantEncoding
  BY <1>1, <1>3, DataValueType
<1>4. CASE enc = VariantEncoding /\ v.rv = "Good"
  <2>1. x = [v EXCEPT !.value = OnlyValue(v.value)]
    BY <1>1, <1>4
  <2>2. OnlyValue(v.value) \in LooseValues
    BY <1>2, OnlyValueType DEF Outcomes
  <2> DEFINE y == OnlyValue(v.value)
  <2> HIDE DEF y
  <2>3. x = [v EXCEPT !.value = y] /\ y \in LooseValues
    BY <2>1, <2>2 DEF y
  <2>4. x \in Outcomes(src, LooseValues) /\ x.pos = v.pos
    BY <1>2, <2>3 DEF Outcomes
  <2> QED
    BY <1>2, <1>4, <2>4
<1>5. CASE enc = VariantEncoding /\ v.rv # "Good"
  <2>1. x = [rv |-> "BadDecodingError", pos |-> pos, value |-> EmptyDataValue]
    BY <1>1, <1>5
  <2>2. EmptyDataValue \in LooseValues
    BY PartsAre DEF EmptyDataValue, LooseValues, Variants
  <2> QED
    BY <2>1, <2>2 DEF Outcomes, Codes
<1> QED
  BY <1>3, <1>4, <1>5

\* The value of a field is read back.
LEMMA FieldValueReads ==
    ASSUME NEW src \in Seq(Octet), NEW pos \in 0..Len(src), NEW enc, NEW v \in DataValues,
           Follows(src, pos, ValueBytesIn(v, enc)), NEW x, x = FieldValue(src, pos, enc)
    PROVE  Reads(src, pos, ValueBytesIn(v, enc), x, ReceivedIn(v, enc))
<1> DEFINE y == DecodeVariant(src, pos)
<1>1. x = IF enc # VariantEncoding THEN DecodeDataValue(src, pos)
          ELSE IF y.rv = "Good" THEN [y EXCEPT !.value = OnlyValue(y.value)]
          ELSE [rv |-> "BadDecodingError", pos |-> pos, value |-> EmptyDataValue]
  BY FieldValueIs
<1>2. CASE enc # VariantEncoding
  <2>1. ValueBytesIn(v, enc) = EncodeDataValue(v) /\ ReceivedIn(v, enc) = ReceivedValue(v)
        /\ x = DecodeDataValue(src, pos)
    BY <1>1, <1>2 DEF ValueBytesIn, ReceivedIn
  <2>2. Reads(src, pos, EncodeDataValue(v), x, ReceivedValue(v))
    BY <2>1, DataValueReads
  <2> QED
    BY <2>1, <2>2
<1>3. CASE enc = VariantEncoding
  <2>1. ValueBytesIn(v, enc) = EncodeVariant(v.value) /\ ReceivedIn(v, enc) = OnlyValue(v.value)
    BY <1>3 DEF ValueBytesIn, ReceivedIn
  <2>2. v.value \in Variants
    BY DataValueHas
  <2>3. Reads(src, pos, EncodeVariant(v.value), y, v.value)
    BY <2>1, <2>2, VariantReads
  <2>4. y \in Outcomes(src, Variants)
    BY VariantType
  <2> DEFINE b == EncodeVariant(v.value)
             o == OnlyValue(v.value)
  <2>5. CASE y.rv = "Good"
    <3>1. y.value = v.value /\ pos + Len(b) <= Len(src) /\ y.pos = pos + Len(b)
      BY <2>3, <2>5 DEF Reads
    <3>2. x = [y EXCEPT !.value = OnlyValue(y.value)] /\ OnlyValue(y.value) = o
      BY <1>1, <1>3, <2>5, <3>1
    <3> HIDE DEF y, o, b
    <3>3. x.rv = "Good" /\ x.pos = pos + Len(b) /\ x.value = o
      BY <2>4, <2>5, <3>1, <3>2 DEF Outcomes
    <3> QED
      BY <2>1, <3>1, <3>3 DEF Reads, o, b
  <2>6. CASE y.rv # "Good"
    <3>1. ~ (pos + Len(b) <= Len(src)) /\ x.rv # "Good"
      BY <1>1, <1>3, <2>3, <2>6 DEF Reads
    <3> QED
      BY <2>1, <3>1 DEF Reads
  <2> QED
    BY <2>5, <2>6
<1> QED
  BY <1>2, <1>3

\* What a loop over the fields leaves as it is.
SameFrame(x, y) ==
    /\ x.dsm.type = y.dsm.type /\ x.dsm.enc = y.dsm.enc /\ x.dsm.owns = y.dsm.owns

\* A field has been read, or not.
FieldRead(src, f) ==
    f.rv \in Codes /\ f.pos \in 0..Len(src) /\ f.value \in LooseValues \cup LooseDeltas

WithField(d, v) == [d EXCEPT !.fields = Append(d.fields, v)]

\* The states in front of and behind a field.
LEMMA AddFieldType ==
    ASSUME NEW src, NEW r \in Frames(src), NEW f, FieldRead(src, f), NEW x, x = AddField(r, f)
    PROVE  /\ x \in Frames(src) /\ SameFrame(x, r) /\ x.rv = f.rv /\ x.pos = f.pos
           /\ x.dsm = WithField(r.dsm, f.value)
<1> DEFINE d == [r.dsm EXCEPT !.fields = Append(@, f.value)]
<1>0. f.rv \in Codes /\ f.pos \in 0..Len(src) /\ f.value \in LooseValues \cup LooseDeltas
  BY DEF FieldRead
<1>1. x = [r EXCEPT !.rv = f.rv, !.pos = f.pos, !.dsm = d]
  BY DEF AddField
<1>2. r.dsm \in LooseDSMs
  BY DEF Frames
<1>3. r.dsm.fields \in Seq(LooseValues \cup LooseDeltas)
  BY <1>2 DEF LooseDSMs
<1>4. Append(r.dsm.fields, f.value) \in Seq(LooseValues \cup LooseDeltas)
  <2> DEFINE S == LooseValues \cup LooseDeltas
             s == r.dsm.fields
             v == f.value
  <2>1. s \in Seq(S) /\ v \in S
    BY <1>0, <1>3
  <2> HIDE DEF S, s, v
  <2>2. Append(s, v) \in Seq(S)
    BY <2>1
  <2> QED
    BY <2>2 DEF S, s, v
<1> DEFINE a == Append(r.dsm.fields, f.value)
<1>5. d = [r.dsm EXCEPT !.fields = a]
  OBVIOUS
<1> HIDE DEF a, d
<1>6. d \in LooseDSMs /\ d.type = r.dsm.type /\ d.enc = r.dsm.enc /\ d.owns = r.dsm.owns
  BY <1>2, <1>4, <1>5 DEF LooseDSMs, a
<1>7. x \in Frames(src) /\ x.dsm = d /\ x.rv = f.rv /\ x.pos = f.pos
  BY <1>0, <1>1, <1>6 DEF Frames
<1> QED
  BY <1>6, <1>7 DEF SameFrame, d, WithField

\* The index and the value of a field of a delta frame.
LEMMA IndexedType ==
    ASSUME NEW src, NEW n \in Nat, NEW f \in Outcomes(src, LooseValues), NEW x, x = Indexed(n, f)
    PROVE  /\ x \in Outcomes(src, LooseDeltas) /\ x.rv = f.rv /\ x.pos = f.pos
           /\ x.value = [index |-> n, value |-> f.value]
BY DEF Indexed, Outcomes, LooseDeltas

\* Whatever the bytes are, one turn of the loop leaves a message, and has taken
\* a byte if it succeeds.
LEMMA NextFieldType ==
    ASSUME NEW src \in Seq(Octet), NEW r \in Frames(src), NEW x, x = NextField(src, r)
    PROVE  /\ x \in Frames(src) /\ SameFrame(x, r)
           /\ r.rv # "Good" => x = r
           /\ x.rv = "Good" => x.pos >= r.pos + 1
<1>0. r.pos \in 0..Len(src) /\ r.rv \in Codes
  BY DEF Frames
<1>1. CASE r.rv # "Good"
  BY <1>1 DEF NextField, Then, SameFrame
<1>2. CASE r.rv = "Good" /\ r.dsm.type = KeyFrame
  <2> DEFINE f == FieldValue(src, r.pos, r.dsm.enc)
  <2>1. x = AddField(r, f)
    BY <1>2 DEF NextField, Then
  <2>2. f \in Outcomes(src, LooseValues) /\ (f.rv = "Good" => f.pos >= r.pos + 1)
    BY <1>0, FieldValueType
  <2> HIDE DEF f
  <2>3. /\ f.rv \in Codes /\ f.pos \in 0..Len(src) /\ f.value \in LooseValues \cup LooseDeltas
        /\ f.rv = "Good" => f.pos >= r.pos + 1
    BY <2>2 DEF Outcomes
  <2>4. x \in Frames(src) /\ SameFrame(x, r) /\ x.rv = f.rv /\ x.pos = f.pos
    <3>1. FieldRead(src, f)
      BY <2>3 DEF FieldRead
    <3> QED
      BY <2>1, <3>1, AddFieldType
  <2> QED
    BY <1>2, <2>3, <2>4
<1>3. CASE r.rv = "Good" /\ r.dsm.type # KeyFrame
  <2> DEFINE k == Read(src, r.pos, 2)
  <2>1. x = IF k.rv # "Good" THEN [r EXCEPT !.rv = k.rv]
            ELSE AddField(r, Indexed(k.value, FieldValue(src, k.pos, r.dsm.enc)))
    BY <1>3 DEF NextField, Then, DeltaField
  <2>2. k \in Outcomes(src, Unsigned(2))
    BY <1>0, ReadType DEF Widths
  <2>3. k.rv = "Good" => k.pos = r.pos + 2
    BY DEF Read
  <2> HIDE DEF k
  <2>4. CASE k.rv # "Good"
    <3>1. x = [r EXCEPT !.rv = k.rv] /\ k.rv \in Codes
      BY <2>1, <2>2, <2>4 DEF Outcomes
    <3>2. x \in Frames(src) /\ x.dsm = r.dsm /\ x.rv = k.rv
      BY <3>1 DEF Frames
    <3> QED
      BY <1>3, <2>4, <3>2 DEF SameFrame
  <2>5. CASE k.rv = "Good"
    <3> DEFINE f == FieldValue(src, k.pos, r.dsm.enc)
               i == Indexed(k.value, f)
               m == k.value
    <3>1. k.pos \in 0..Len(src) /\ m \in Nat
      BY <2>2 DEF Outcomes, Unsigned
    <3>2. f \in Outcomes(src, LooseValues) /\ (f.rv = "Good" => f.pos >= k.pos + 1)
      BY <3>1, FieldValueType
    <3> HIDE DEF f, m
    <3>3. i \in Outcomes(src, LooseDeltas) /\ i.rv = f.rv /\ i.pos = f.pos
      <4>1. i = Indexed(m, f)
        BY DEF m
      <4> HIDE DEF i
      <4>2. m \in Nat
        BY <3>1
      <4>3. f \in Outcomes(src, LooseValues)
        BY <3>2
      <4>4. /\ i \in Outcomes(src, LooseDeltas) /\ i.rv = f.rv /\ i.pos = f.pos
            /\ i.value = [index |-> m, value |-> f.value]
        BY <4>1, <4>2, <4>3, IndexedType
      <4> QED
        BY <4>4
    <3>4. x = AddField(r, i)
      BY <2>1, <2>5 DEF f
    <3> HIDE DEF i
    <3>5. FieldRead(src, i)
      BY <3>3 DEF Outcomes, FieldRead
    <3>6. x \in Frames(src) /\ SameFrame(x, r) /\ x.rv = i.rv /\ x.pos = i.pos
      BY <3>4, <3>5, AddFieldType
    <3>7. x.rv = "Good" => x.pos >= r.pos + 1
      <4>1. k.pos = r.pos + 2 /\ x.pos = f.pos /\ x.rv = f.rv /\ r.pos \in Nat /\ k.pos \in Nat
        BY <1>0, <2>3, <2>5, <3>1, <3>3, <3>6
      <4>2. x.rv = "Good" => x.pos \in Nat
        BY <3>6 DEF Frames
      <4> QED
        BY <3>2, <4>1, <4>2
    <3> QED
      BY <1>3, <3>6, <3>7
  <2> QED
    BY <2>4, <2>5
<1> QED
  BY <1>1, <1>2, <1>3

\* What a decoder makes of a field.
ReceivedField(d, i) ==
    IF d.type = KeyFrame THEN ReceivedIn(d.fields[i], d.enc)
    ELSE [index |-> d.fields[i].index, value |-> ReceivedIn(d.fields[i].value, d.enc)]

\* A byte string and the rest of it, when the first is there.
LEMMA ReachedThere ==
    ASSUME NEW src, Len(src) \in Nat, NEW pos \in Nat, NEW a \in Seq(Octet), NEW b \in Seq(Octet),
           NEW r, Reached(src, pos, a, r)
    PROVE  /\ Len(a \o b) = Len(a) + Len(b) /\ Len(a) \in Nat /\ Len(b) \in Nat
           /\ r.rv = "Good" => /\ r.pos = pos + Len(a) /\ r.pos \in 0..Len(src)
                               /\ \A x : Reached(src, r.pos, b, x) => Reached(src, pos, a \o b, x)
           /\ r.rv # "Good" => \A x : x.rv # "Good" => Reached(src, pos, a \o b, x)
<1> DEFINE m == Len(a)
           n == Len(b)
           l == Len(a \o b)
           k == Len(src)
<1>1. l = m + n /\ m \in Nat /\ n \in Nat /\ k \in Nat
  BY OctetsConcat
<1>2. IF pos + m <= k THEN r.rv = "Good" /\ r.pos = pos + m ELSE r.rv # "Good"
  BY DEF Reached
<1>3. ASSUME NEW x
      PROVE  Reached(src, pos, a \o b, x) <=> (IF pos + l <= k THEN x.rv = "Good" /\ x.pos = pos + l ELSE x.rv # "Good")
  BY DEF Reached
<1>4. ASSUME NEW x
      PROVE  Reached(src, r.pos, b, x) <=> (IF r.pos + n <= k THEN x.rv = "Good" /\ x.pos = r.pos + n ELSE x.rv # "Good")
  BY DEF Reached
<1> HIDE DEF m, n, l, k
<1>5. ASSUME r.rv = "Good"
      PROVE  /\ r.pos = pos + m /\ r.pos \in 0..k
             /\ \A x : Reached(src, r.pos, b, x) => Reached(src, pos, a \o b, x)
  <2>1. r.pos = pos + m /\ r.pos \in 0..k
    BY <1>1, <1>2, <1>5
  <2>2. r.pos + n = pos + l
    BY <1>1, <2>1
  <2> QED
    BY <1>3, <1>4, <2>1, <2>2
<1>6. ASSUME r.rv # "Good"
      PROVE  \A x : x.rv # "Good" => Reached(src, pos, a \o b, x)
  <2>1. ~ (pos + l <= k)
    BY <1>1, <1>2, <1>6
  <2> QED
    BY <1>3, <2>1
<1> QED
  BY <1>1, <1>5, <1>6 DEF m, n, l, k

\* A field is read back.
LEMMA NextFieldReads ==
    ASSUME NEW src \in Seq(Octet), NEW pos \in Nat, NEW d \in DataSetMessages,
           d.type \in {KeyFrame, DeltaFrame}, NEW i \in 1..Len(d.fields),
           NEW r \in Frames(src), r.rv = "Good" => r.dsm.type = d.type /\ r.dsm.enc = d.enc,
           NEW a \in Seq(Octet), Reached(src, pos, a, r), Follows(src, pos, a \o FieldBytes(d, i)),
           NEW x, x = NextField(src, r)
    PROVE  /\ Reached(src, pos, a \o FieldBytes(d, i), x)
           /\ x.rv = "Good" => /\ r.rv = "Good"
                               /\ x.dsm = WithField(r.dsm, ReceivedField(d, i))
<1> DEFINE b == FieldBytes(d, i)
<1>1. Piece(FieldSegments(d, i), b, FieldSize(d, i))
  BY FieldPiece
<1>2. b \in Seq(Octet) /\ Len(src) \in Nat
  BY <1>1, PieceType
<1>3. /\ Follows(src, pos, a) /\ Follows(src, pos + Len(a), b)
  <2> HIDE DEF b
  <2>1. Follows(src, pos, a \o b)
    BY DEF b
  <2> QED
    BY <1>2, <2>1, FollowsConcat
<1>4. /\ r.rv = "Good" => /\ r.pos = pos + Len(a) /\ r.pos \in 0..Len(src)
                          /\ \A y : Reached(src, r.pos, b, y) => Reached(src, pos, a \o b, y)
      /\ r.rv # "Good" => \A y : y.rv # "Good" => Reached(src, pos, a \o b, y)
  <2> HIDE DEF b
  <2> QED
    BY <1>2, ReachedThere
<1>5. CASE r.rv # "Good"
  <2>1. x = r
    BY <1>5, NextFieldType
  <2> QED
    BY <1>4, <1>5, <2>1
<1>6. CASE r.rv = "Good" /\ d.type = KeyFrame
  <2> DEFINE f == FieldValue(src, r.pos, r.dsm.enc)
             v == d.fields[i]
             e == d.enc
             w == ReceivedIn(v, e)
  <2>1. x = AddField(r, f) /\ r.dsm.enc = e
    BY <1>6 DEF NextField, Then
  <2>2. v \in DataValues /\ b = ValueBytesIn(v, e) /\ ReceivedField(d, i) = w
    BY <1>6, DSMHas DEF FieldBytes, ReceivedField
  <2>3. r.pos \in 0..Len(src) /\ Follows(src, r.pos, ValueBytesIn(v, e)) /\ f = FieldValue(src, r.pos, e)
    BY <1>3, <1>4, <1>6, <2>1, <2>2
  <2>4. f \in Outcomes(src, LooseValues)
    BY <2>3, FieldValueType
  <2>5. Reads(src, r.pos, ValueBytesIn(v, e), f, w)
    <3> HIDE DEF f, v, e, w
    <3>1. Reads(src, r.pos, ValueBytesIn(v, e), f, ReceivedIn(v, e))
      BY <2>2, <2>3, FieldValueReads
    <3> QED
      BY <3>1 DEF w
  <2> HIDE DEF f, v, e, w
  <2>6. FieldRead(src, f)
    BY <2>4 DEF Outcomes, FieldRead
  <2>7. x.rv = f.rv /\ x.pos = f.pos /\ x.dsm = WithField(r.dsm, f.value)
    BY <2>1, <2>6, AddFieldType
  <2>8. Reached(src, r.pos, b, x) /\ (x.rv = "Good" => f.value = w)
    BY <2>2, <2>5, <2>7 DEF Reads, Reached
  <2> QED
    BY <1>4, <1>6, <2>2, <2>7, <2>8
<1>7. CASE r.rv = "Good" /\ d.type = DeltaFrame
  <2> DEFINE k == Read(src, r.pos, 2)
             e == d.enc
             f == FieldValue(src, k.pos, e)
             n == d.fields[i].index
             v == d.fields[i].value
             w == ReceivedIn(v, e)
             z == Indexed(k.value, f)
             p == LE(n, 2)
             q == ValueBytesIn(v, e)
  <2>1. x = IF k.rv # "Good" THEN [r EXCEPT !.rv = k.rv] ELSE AddField(r, z)
    BY <1>7 DEF NextField, Then, DeltaField, KeyFrame, DeltaFrame
  <2>2. /\ n \in Unsigned(2) /\ v \in DataValues /\ b = p \o q
        /\ ReceivedField(d, i) = [index |-> n, value |-> w]
    <3>1. d.fields[i] \in DeltaFields
      BY <1>7, DSMHas
    <3>2. n \in Unsigned(2) /\ v \in DataValues
      BY <3>1 DEF DeltaFields
    <3> QED
      BY <1>7, <3>2 DEF FieldBytes, ReceivedField, KeyFrame, DeltaFrame
  <2>3. p \in Seq(Octet) /\ Len(p) = 2 /\ q \in Seq(Octet)
    <3> HIDE DEF n, v, e, k, f
    <3>1. n \in Nat
      BY <2>2 DEF Unsigned
    <3>2. Piece(ValueSegments(v, e), q, ValueSizeIn(v, e))
      BY <2>2, ValuePiece
    <3> QED
      BY <3>1, <3>2, LEType, PieceType
  <2>4. r.pos \in 0..Len(src) /\ r.pos \in Nat /\ Follows(src, r.pos, b)
    BY <1>3, <1>4, <1>7
  <2> HIDE DEF b, e, f, n, v, w, p, q, z
  <2>5. Follows(src, r.pos, p) /\ Follows(src, r.pos + 2, q)
    <3> DEFINE s == r.pos
    <3>1. s \in Nat /\ Len(src) \in Nat /\ Follows(src, s, p \o q)
      BY <1>2, <2>2, <2>4
    <3> HIDE DEF s
    <3>2. Follows(src, s, p) /\ Follows(src, s + Len(p), q)
      BY <2>3, <3>1, FollowsConcat
    <3>3. Follows(src, s, p) /\ Follows(src, s + 2, q)
      BY <2>3, <3>2
    <3> QED
      BY <3>3 DEF s
  <2>6. Reads(src, r.pos, p, k, n)
    <3>1. Follows(src, r.pos, LE(n, 2)) /\ 2 \in Widths
      BY <2>5 DEF p, Widths
    <3>2. Reads(src, r.pos, LE(n, 2), Read(src, r.pos, 2), n)
      BY <2>2, <2>4, <3>1, IntegerReads
    <3> QED
      BY <3>2 DEF p
  <2> HIDE DEF k
  <2>7. Reached(src, r.pos, p, k)
    BY <2>6 DEF Reads, Reached
  <2>8. /\ k.rv = "Good" => /\ k.pos = r.pos + Len(p) /\ k.pos \in 0..Len(src)
                            /\ \A y : Reached(src, k.pos, q, y) => Reached(src, r.pos, p \o q, y)
        /\ k.rv # "Good" => \A y : y.rv # "Good" => Reached(src, r.pos, p \o q, y)
    BY <1>2, <2>3, <2>4, <2>7, ReachedThere
  <2>9. CASE k.rv # "Good"
    <3>1. x.rv # "Good"
      BY <2>1, <2>9 DEF Frames
    <3>2. Reached(src, r.pos, b, x)
      BY <2>2, <2>8, <2>9, <3>1
    <3> QED
      BY <1>4, <1>7, <3>1, <3>2 DEF b
  <2>10. CASE k.rv = "Good"
    <3>1. k.pos = r.pos + 2 /\ k.pos \in 0..Len(src) /\ k.value = n /\ n \in Nat
      BY <2>2, <2>3, <2>6, <2>8, <2>10 DEF Reads, Unsigned
    <3>2. f \in Outcomes(src, LooseValues)
      BY <3>1, FieldValueType DEF f
    <3>3. Reads(src, k.pos, q, f, w)
      <4>1. Follows(src, k.pos, ValueBytesIn(v, e))
        BY <2>5, <3>1 DEF q
      <4>2. f = FieldValue(src, k.pos, e)
        BY DEF f
      <4>3. Reads(src, k.pos, ValueBytesIn(v, e), f, ReceivedIn(v, e))
        BY <2>2, <3>1, <4>1, <4>2, FieldValueReads
      <4> QED
        BY <4>3 DEF q, w
    <3>4. /\ z \in Outcomes(src, LooseDeltas) /\ z.rv = f.rv /\ z.pos = f.pos
          /\ z.value = [index |-> n, value |-> f.value]
      <4>1. z = Indexed(n, f)
        BY <3>1 DEF z
      <4> QED
        BY <3>1, <3>2, <4>1, IndexedType
    <3>5. FieldRead(src, z)
      BY <3>4 DEF Outcomes, FieldRead
    <3>6. x = AddField(r, z)
      BY <2>1, <2>10
    <3>7. x.rv = z.rv /\ x.pos = z.pos /\ x.dsm = WithField(r.dsm, z.value)
      BY <3>5, <3>6, AddFieldType
    <3>8. Reached(src, k.pos, q, x) /\ (x.rv = "Good" => f.value = w)
      BY <3>3, <3>4, <3>7 DEF Reads, Reached
    <3>9. Reached(src, r.pos, b, x)
      BY <2>2, <2>8, <2>10, <3>8
    <3>10. Reached(src, pos, a \o b, x)
      BY <1>4, <1>7, <3>9 DEF b
    <3>11. x.rv = "Good" => x.dsm = WithField(r.dsm, ReceivedField(d, i))
      BY <2>2, <3>4, <3>7, <3>8
    <3> QED
      BY <1>7, <3>10, <3>11 DEF b
  <2> QED
    BY <2>9, <2>10
<1> QED
  BY <1>5, <1>6, <1>7

\* The turns of the loop over the fields, and one of them.
Turns(src, count) == IF count > Len(src) THEN Len(src) + 1 ELSE count

FieldStep(src, n) == [p \in Frames(src) \X (1..n) |-> NextField(src, p[1])]

FieldRuns(f, src, r, n) == Loops(f, Frames(src), r, n, FieldStep(src, n))

\* The loop over the fields takes those turns.
LEMMA DecodeFieldsRuns ==
    ASSUME NEW src \in Seq(Octet), NEW r \in Frames(src), NEW n, n = Turns(src, r.dsm.count),
           NEW x, x = DecodeFields(src, r)
    PROVE  n \in Nat /\ \E f : FieldRuns(f, src, r, n) /\ x = f[n]
<1> DEFINE S == Frames(src)
           step == FieldStep(src, n)
           Runs(f) == f = [i \in 0..n |-> IF i = 0 THEN r ELSE NextField(src, f[i - 1])]
           F == CHOOSE f : Runs(f)
<1>1. n \in Nat
  <2> DEFINE c == r.dsm.count
             k == Len(src)
  <2>1. c \in Nat /\ k \in Nat
    BY DEF Frames, LooseDSMs
  <2>2. n = IF c > k THEN k + 1 ELSE c
    BY DEF Turns
  <2> HIDE DEF c, k
  <2> QED
    BY <2>1, <2>2
<1>2. /\ step \in [S \X (1..n) -> S]
      /\ \A y \in S, i \in 1..n : step[<<y, i>>] = NextField(src, y)
  <2>1. \A y \in S : NextField(src, y) \in S
    BY NextFieldType
  <2>2. step = [p \in S \X (1..n) |-> NextField(src, p[1])]
    BY DEF FieldStep
  <2> HIDE DEF S, step
  <2> QED
    BY <2>1, <2>2
<1>3. PICK f : Loops(f, S, r, n, step)
  <2>1. r \in S
    OBVIOUS
  <2> HIDE DEF S, step
  <2> QED
    BY <1>1, <1>2, <2>1, LoopExists
<1>4. \A i \in 1..n : f[i - 1] \in S /\ f[i] = NextField(src, f[i - 1])
  <2> TAKE i \in 1..n
  <2>1. i - 1 \in 0..n
    BY <1>1
  <2>2. f \in [0..n -> S] /\ f[i] = step[<<f[i - 1], i>>]
    BY <1>3 DEF Loops
  <2>3. f[i - 1] \in S
    BY <2>1, <2>2
  <2> HIDE DEF S, step
  <2> QED
    BY <1>2, <2>2, <2>3
<1>5. f \in [0..n -> S] /\ f[0] = r
  BY <1>3 DEF Loops
<1>6. Runs(f)
  <2> HIDE DEF S, step
  <2> QED
    BY <1>1, <1>4, <1>5
<1>7. ASSUME NEW g, Runs(g)
      PROVE  g[n] = f[n]
  <2> DEFINE T == {k \in Nat : k <= n => g[k] = f[k]}
  <2>1. 0 \in T
    BY <1>1, <1>5, <1>7
  <2>2. ASSUME NEW k \in Nat, k \in T
        PROVE  k + 1 \in T
    <3> SUFFICES ASSUME k + 1 <= n PROVE g[k + 1] = f[k + 1]
      OBVIOUS
    <3> DEFINE j == k + 1
    <3>1. j \in 1..n /\ j \in 0..n /\ j # 0 /\ j - 1 = k /\ k <= n
      BY <1>1
    <3>2. g[k] = f[k]
      BY <2>2, <3>1
    <3> HIDE DEF j
    <3>3. g[j] = NextField(src, g[k])
      BY <1>7, <3>1
    <3>4. f[j] = NextField(src, f[k])
      BY <1>4, <3>1
    <3> QED
      BY <3>2, <3>3, <3>4 DEF j
  <2>3. n \in T
    <3> HIDE DEF T
    <3> QED
      BY <1>1, <2>1, <2>2, Induction
  <2> QED
    BY <1>1, <2>3
<1>8. Runs(F)
  BY <1>6
<1>9. x = F[n]
  <2> DEFINE m == IF r.dsm.count > Len(src) THEN Len(src) + 1 ELSE r.dsm.count
  <2>1. m = n
    BY DEF Turns
  <2>2. x = (CHOOSE h : h = [i \in 0..m |-> IF i = 0 THEN r ELSE NextField(src, h[i - 1])])[m]
    BY DEF DecodeFields
  <2> HIDE DEF m
  <2> QED
    BY <2>1, <2>2
<1>10. F[n] = f[n]
  BY <1>7, <1>8
<1> QED
  BY <1>1, <1>3, <1>9, <1>10 DEF FieldRuns

\* A loop over the fields ends in a message of the same kind.
LEMMA DecodeFieldsType ==
    ASSUME NEW src \in Seq(Octet), NEW r \in Frames(src), NEW x, x = DecodeFields(src, r)
    PROVE  /\ x \in Frames(src) /\ SameFrame(x, r)
           /\ x.rv = "Good" => x.pos >= r.pos
<1> DEFINE n == Turns(src, r.dsm.count)
           Keeps(s) == SameFrame(s, r) /\ (s.rv = "Good" => s.pos >= r.pos)
           I == {p \in Frames(src) \X (0..n) : Keeps(p[1])}
           step == FieldStep(src, n)
<1>1. n \in Nat
  BY DecodeFieldsRuns
<1>2. PICK f : FieldRuns(f, src, r, n) /\ x = f[n]
  BY DecodeFieldsRuns
<1>3. <<r, 0>> \in I
  <2>1. r.pos \in Nat
    BY DEF Frames
  <2> QED
    BY <1>1, <2>1 DEF SameFrame
<1>4. ASSUME NEW s \in Frames(src), NEW i \in 1..n, <<s, i - 1>> \in I
      PROVE  <<step[<<s, i>>], i>> \in I
  <2> DEFINE y == NextField(src, s)
  <2>1. step[<<s, i>>] = y
    BY DEF FieldStep
  <2>2. Keeps(s)
    BY <1>4
  <2>3. y \in Frames(src) /\ SameFrame(y, s) /\ (s.rv # "Good" => y = s)
        /\ (y.rv = "Good" => y.pos >= s.pos + 1)
    BY NextFieldType
  <2> HIDE DEF y
  <2>4. Keeps(y)
    <3>1. SameFrame(y, r)
      BY <2>2, <2>3 DEF SameFrame
    <3>2. ASSUME y.rv = "Good" PROVE y.pos >= r.pos
      <4>1. s.rv = "Good"
        BY <2>3, <3>2
      <4>2. s.pos \in Nat /\ y.pos \in Nat /\ r.pos \in Nat
        BY <2>3 DEF Frames
      <4> QED
        BY <2>2, <2>3, <3>2, <4>1, <4>2
    <3> QED
      BY <3>1, <3>2
  <2>5. i \in 0..n
    BY <1>1
  <2> HIDE DEF Keeps, n, step
  <2> QED
    BY <2>1, <2>3, <2>4, <2>5
<1>5. f[n] \in Frames(src) /\ <<f[n], n>> \in I
  <2>1. Loops(f, Frames(src), r, n, step)
    BY <1>2 DEF FieldRuns
  <2>2. n \in 0..n /\ n \in Nat
    BY <1>1
  <2>3. Preserves(I, Frames(src), n, step)
    BY <1>4 DEF Preserves
  <2> HIDE DEF I, n, step
  <2>4. \A i \in 0..n : f[i] \in Frames(src) /\ <<f[i], i>> \in I
    BY <1>3, <2>1, <2>2, <2>3, LoopKeeps
  <2> QED
    BY <2>2, <2>4
<1> HIDE DEF n
<1> QED
  BY <1>2, <1>5

WithFields(d, s) == [d EXCEPT !.fields = s]

\* The first k fields as they are received.
ReceivedTo(d, k) == [i \in 1..k |-> ReceivedField(d, i)]

\* One more field received.
LEMMA ReceivedMore ==
    ASSUME NEW d, NEW e, NEW k \in Nat, NEW y, y = WithFields(e, ReceivedTo(d, k)), NEW D, e \in LooseDSMs
    PROVE  WithField(y, ReceivedField(d, k + 1)) = WithFields(e, ReceivedTo(d, k + 1))
<1> DEFINE s == ReceivedTo(d, k)
           t == ReceivedTo(d, k + 1)
           v == ReceivedField(d, k + 1)
<1>1. Append(s, v) = t
  <2>1. s = [i \in 1..k |-> ReceivedField(d, i)] /\ t = [i \in 1..(k + 1) |-> ReceivedField(d, i)]
    BY DEF ReceivedTo
  <2>2. Len(s) = k /\ s \in Seq({ReceivedField(d, i) : i \in 1..k})
    BY <2>1
  <2>3. Append(s, v) = [i \in 1..(k + 1) |-> IF i <= k THEN s[i] ELSE v]
    BY <2>2
  <2> QED
    BY <2>1, <2>3
<1>2. y = [e EXCEPT !.fields = s]
  BY DEF WithFields
<1> HIDE DEF s, t, v
<1>3. y.fields = s
  BY <1>2 DEF LooseDSMs
<1>4. WithField(y, v) = [y EXCEPT !.fields = t]
  BY <1>1, <1>3 DEF WithField
<1>5. WithField(y, v) = [e EXCEPT !.fields = t]
  BY <1>2, <1>4
<1> QED
  BY <1>5 DEF WithFields, t, v

\* What has been read of a frame of which k fields have been read.
FieldsRead(src, pos, g, d, r, s, k) ==
    Reached(src, pos, g[k], s) /\ (s.rv = "Good" => s.dsm = WithFields(r.dsm, ReceivedTo(d, k)))

\* The loop reads field after field.
LEMMA FieldsReadMore ==
    ASSUME NEW src \in Seq(Octet), NEW pos \in Nat, NEW d \in DataSetMessages,
           d.type \in {KeyFrame, DeltaFrame},
           NEW r \in Frames(src), r.dsm.type = d.type, r.dsm.enc = d.enc,
           NEW g, Stacks(g, FieldsOf(d), Len(d.fields)),
           NEW i \in 1..Len(d.fields), Follows(src, pos, g[i]),
           NEW s \in Frames(src), FieldsRead(src, pos, g, d, r, s, i - 1),
           NEW x, x = NextField(src, s)
    PROVE  FieldsRead(src, pos, g, d, r, x, i)
<1> DEFINE k == i - 1
           m == Len(d.fields)
           a == g[k]
<1>1. m \in Nat
  BY DSMHas DEF Unsigned
<1>2. k \in 0..m /\ k \in Nat /\ k + 1 = i
  BY <1>1
<1>3. a \in Seq(Octet) /\ g[i] = a \o FieldBytes(d, i)
  <2>1. FieldsOf(d)[i] = FieldBytes(d, i)
    BY DEF FieldsOf
  <2> HIDE DEF k, m
  <2> QED
    BY <1>2, <2>1 DEF Stacks, k, m
<1>4. Reached(src, pos, a, s) /\ (s.rv = "Good" => s.dsm = WithFields(r.dsm, ReceivedTo(d, k)))
  BY DEF FieldsRead
<1>5. r.dsm \in LooseDSMs
  BY DEF Frames
<1>6. s.rv = "Good" => s.dsm.type = d.type /\ s.dsm.enc = d.enc
  <2> DEFINE t == ReceivedTo(d, k)
  <2>1. s.rv = "Good" => s.dsm = [r.dsm EXCEPT !.fields = t]
    BY <1>4 DEF WithFields
  <2> HIDE DEF t
  <2> QED
    BY <1>5, <2>1 DEF LooseDSMs
<1> HIDE DEF a, k
<1>7. Follows(src, pos, a \o FieldBytes(d, i))
  BY <1>3
<1>8. /\ Reached(src, pos, a \o FieldBytes(d, i), x)
      /\ x.rv = "Good" => s.rv = "Good" /\ x.dsm = WithField(s.dsm, ReceivedField(d, i))
  BY <1>3, <1>4, <1>6, <1>7, NextFieldReads
<1>9. x.rv = "Good" => x.dsm = WithFields(r.dsm, ReceivedTo(d, i))
  <2> SUFFICES ASSUME x.rv = "Good" PROVE x.dsm = WithFields(r.dsm, ReceivedTo(d, i))
    OBVIOUS
  <2>1. s.dsm = WithFields(r.dsm, ReceivedTo(d, k))
    BY <1>4, <1>8
  <2>2. WithField(s.dsm, ReceivedField(d, k + 1)) = WithFields(r.dsm, ReceivedTo(d, k + 1))
    BY <1>2, <1>5, <2>1, ReceivedMore
  <2> QED
    BY <1>2, <1>8, <2>2
<1> QED
  BY <1>3, <1>8, <1>9 DEF FieldsRead

\* The fields of a frame are read back, behind a.
LEMMA DecodeFieldsReads ==
    ASSUME NEW src \in Seq(Octet), NEW pos \in Nat, NEW d \in DataSetMessages,
           d.type \in {KeyFrame, DeltaFrame},
           NEW r \in Frames(src), r.rv = "Good", r.dsm.type = d.type, r.dsm.enc = d.enc,
           r.dsm.count = Len(d.fields), r.dsm.fields = <<>>,
           NEW a \in Seq(Octet), Reached(src, pos, a, r),
           Follows(src, pos, a \o FlattenSeq(FieldsOf(d))),
           NEW x, x = DecodeFields(src, r)
    PROVE  /\ Reached(src, pos, a \o FlattenSeq(FieldsOf(d)), x)
           /\ x.rv = "Good" => x.dsm = WithFields(r.dsm, ReceivedTo(d, Len(d.fields)))
<1> DEFINE m == Len(d.fields)
           n == Turns(src, m)
           s == FieldsOf(d)
           g == Stack(a, s)
           c == Len(src)
           step == FieldStep(src, n)
<1>1. m \in Nat /\ c \in Nat
  BY DSMHas DEF Unsigned
<1>2. n = (IF m > c THEN c + 1 ELSE m)
  BY DEF Turns
<1>3. n \in Nat /\ n <= m
  <2> HIDE DEF m, c, n
  <2> QED
    BY <1>1, <1>2
<1>4. /\ s \in Seq(Seq(Octet)) /\ Len(s) = m
      /\ \A i \in 1..m : s[i] = FieldBytes(d, i)
  BY FieldsPiece DEF FieldsOf
<1>5. \A i \in 1..m : Len(s[i]) >= 1
  <2> TAKE i \in 1..m
  <2>1. Piece(FieldSegments(d, i), FieldBytes(d, i), FieldSize(d, i)) /\ FieldSize(d, i) >= 1
    BY FieldPiece
  <2>2. Len(FieldBytes(d, i)) >= 1
    BY <2>1 DEF Piece
  <2> QED
    BY <1>4, <2>2
<1> HIDE DEF m, n, s, g, step
<1>6. Stacks(g, s, m) /\ g[0] = a /\ g[m] = a \o FlattenSeq(s)
  BY <1>4, StackStacks DEF g
<1>7. \A i \in 0..m : Starts(g[i], g[m]) /\ g[i] \in Seq(Octet)
  BY <1>1, <1>6, StacksStart
<1>8. \A i \in 0..m : Follows(src, pos, g[i])
  <2>1. Follows(src, pos, g[m])
    BY <1>6 DEF s
  <2> QED
    BY <1>7, <2>1 DEF Starts
<1>9. PICK f : FieldRuns(f, src, r, n) /\ x = f[n]
  BY DecodeFieldsRuns DEF n, m
<1> DEFINE I == {p \in Frames(src) \X (0..n) : FieldsRead(src, pos, g, d, r, p[1], p[2])}
<1>10. <<r, 0>> \in I
  <2>1. r.dsm = WithFields(r.dsm, ReceivedTo(d, 0))
    <3>1. ReceivedTo(d, 0) = <<>>
      BY DEF ReceivedTo
    <3>2. r.dsm \in LooseDSMs
      BY DEF Frames
    <3>3. r.dsm = [r.dsm EXCEPT !.fields = <<>>]
      BY <3>2 DEF LooseDSMs
    <3> QED
      BY <3>1, <3>3 DEF WithFields
  <2>2. FieldsRead(src, pos, g, d, r, r, 0)
    BY <1>6, <2>1 DEF FieldsRead
  <2>3. 0 \in 0..n
    BY <1>3
  <2> QED
    BY <2>2, <2>3
<1>11. Preserves(I, Frames(src), n, step)
  <2> SUFFICES \A y \in Frames(src), i \in 1..n : <<y, i - 1>> \in I => <<step[<<y, i>>], i>> \in I
    BY DEF Preserves
  <2> TAKE y \in Frames(src), i \in 1..n
  <2> HAVE <<y, i - 1>> \in I
  <2> DEFINE z == NextField(src, y)
  <2>1. step[<<y, i>>] = z
    BY DEF step, FieldStep
  <2>2. i \in 0..n /\ i \in 1..m /\ i \in 0..m
    BY <1>1, <1>3
  <2>3. FieldsRead(src, pos, g, d, r, y, i - 1)
    OBVIOUS
  <2>4. z \in Frames(src)
    BY NextFieldType
  <2> HIDE DEF z
  <2>5. FieldsRead(src, pos, g, d, r, z, i)
    <3>1. Follows(src, pos, g[i]) /\ z = NextField(src, y)
      BY <1>8, <2>2 DEF z
    <3> QED
      BY <1>6, <2>2, <2>3, <3>1, FieldsReadMore DEF s, m
  <2> QED
    BY <2>1, <2>2, <2>4, <2>5
<1>12. FieldsRead(src, pos, g, d, r, x, n)
  <2>1. Loops(f, Frames(src), r, n, step)
    BY <1>9 DEF FieldRuns, step
  <2>2. n \in 0..n
    BY <1>3
  <2> HIDE DEF I
  <2>3. \A i \in 0..n : f[i] \in Frames(src) /\ <<f[i], i>> \in I
    BY <1>3, <1>10, <1>11, <2>1, LoopKeeps
  <2>4. <<x, n>> \in I
    BY <1>9, <2>2, <2>3
  <2> QED
    BY <2>4 DEF I
<1>13. CASE n = m
  BY <1>6, <1>12, <1>13 DEF FieldsRead, s, m
<1>14. CASE n # m
  <2>1. n = c + 1 /\ n \in 0..m /\ m \in 0..m
    BY <1>1, <1>2, <1>3, <1>14
  <2>2. Len(g[n]) \in Nat /\ Len(g[n]) >= n
    BY <1>1, <1>5, <1>6, <2>1, StacksLong
  <2>3. Len(g[n]) <= Len(g[m]) /\ Len(g[m]) \in Nat
    BY <1>7, <2>1 DEF Starts
  <2> DEFINE ln == Len(g[n])
             lm == Len(g[m])
  <2>4. ~ (pos + ln <= c) /\ ~ (pos + lm <= c)
    <3> HIDE DEF ln, lm, c
    <3>1. ln \in Nat /\ lm \in Nat /\ ln >= n /\ ln <= lm
      BY <2>2, <2>3 DEF ln, lm
    <3> QED
      BY <1>1, <2>1, <3>1
  <2>5. x.rv # "Good"
    BY <1>12, <2>4 DEF FieldsRead, Reached
  <2>6. Reached(src, pos, g[m], x)
    BY <2>4, <2>5 DEF Reached
  <2> QED
    BY <1>6, <2>5, <2>6 DEF s
<1> QED
  BY <1>13, <1>14

\* The message with the number of its fields, and their array.
CountedDSM(d, c) ==
    [d EXCEPT !.count = c.value,
              !.owns = c.rv = "Good" /\ d.enc \in {VariantEncoding, DataValueEncoding}]

\* The count of the fields is stored, and nothing else is changed.
LEMMA CountedType ==
    ASSUME NEW src, NEW h \in Frames(src), NEW c \in Outcomes(src, Unsigned(2)),
           NEW r, r = Counted(h, c)
    PROVE  /\ r \in Frames(src) /\ r.rv = c.rv /\ r.pos = c.pos
           /\ r.dsm.type = h.dsm.type /\ r.dsm.enc = h.dsm.enc /\ r.dsm.fields = h.dsm.fields
           /\ r.dsm = CountedDSM(h.dsm, c)
<1> DEFINE o == c.rv = "Good" /\ h.dsm.enc \in {VariantEncoding, DataValueEncoding}
           e == [h.dsm EXCEPT !.count = c.value, !.owns = o]
<1>1. r = [h EXCEPT !.rv = c.rv, !.pos = c.pos, !.dsm = e]
  BY DEF Counted
<1>2. c.rv \in Codes /\ c.pos \in 0..Len(src) /\ c.value \in Nat
  BY DEF Outcomes, Unsigned
<1>3. h.dsm \in LooseDSMs
  BY DEF Frames
<1>4. o \in BOOLEAN
  OBVIOUS
<1>5. e = [h.dsm EXCEPT !.count = c.value, !.owns = o]
  OBVIOUS
<1> HIDE DEF o, e
<1>6. e \in LooseDSMs /\ e.type = h.dsm.type /\ e.enc = h.dsm.enc /\ e.fields = h.dsm.fields
  BY <1>2, <1>3, <1>4, <1>5 DEF LooseDSMs
<1>7. r \in Frames(src) /\ r.dsm = e /\ r.rv = c.rv /\ r.pos = c.pos
  BY <1>1, <1>2, <1>6 DEF Frames
<1> QED
  BY <1>6, <1>7 DEF e, o, CountedDSM

\* Only a key or delta frame has an array of fields.
OwnsInFrame(x) == x.dsm.owns => x.dsm.type \in {KeyFrame, DeltaFrame}

\* What follows the header of a message.
LEMMA DecodeFrameType ==
    ASSUME NEW src \in Seq(Octet), NEW h \in Frames(src), h.dsm.owns = FALSE, h.rv = "Good",
           NEW x, x = DecodeFrame(src, h)
    PROVE  /\ x \in Frames(src) /\ OwnsInFrame(x)
           /\ x.rv = "Good" => x.pos >= h.pos
<1> DEFINE frame == h.dsm.type \in {KeyFrame, DeltaFrame}
           c == Read(src, h.pos, 2)
           r == Counted(h, c)
<1>0. h.pos \in 0..Len(src)
  BY DEF Frames
<1>1. CASE frame /\ h.dsm.enc # RawData
  <2>1. x = IF r.rv = "Good" THEN (IF r.dsm.owns THEN DecodeFields(src, r) ELSE r) ELSE r
    BY <1>1 DEF DecodeFrame, Then, KeepAlive, KeyFrame, DeltaFrame
  <2>2. c \in Outcomes(src, Unsigned(2))
    BY <1>0, ReadType DEF Widths
  <2>3. c.rv = "Good" => c.pos = h.pos + 2
    BY DEF Read
  <2> HIDE DEF c
  <2>4. r \in Frames(src) /\ r.rv = c.rv /\ r.pos = c.pos /\ r.dsm.type = h.dsm.type
    BY <2>2, CountedType
  <2> HIDE DEF r
  <2>5. r.rv = "Good" => r.pos >= h.pos
    <3>1. h.pos \in Nat
      BY <1>0
    <3> QED
      BY <2>3, <2>4, <3>1
  <2>6. CASE x = r
    BY <1>1, <2>4, <2>5, <2>6 DEF OwnsInFrame
  <2>7. CASE x = DecodeFields(src, r) /\ r.rv = "Good"
    <3>1. x \in Frames(src) /\ SameFrame(x, r) /\ (x.rv = "Good" => x.pos >= r.pos)
      BY <2>4, <2>7, DecodeFieldsType
    <3>2. x.pos \in Nat /\ r.pos \in Nat /\ h.pos \in Nat
      BY <1>0, <2>4, <3>1 DEF Frames
    <3> QED
      BY <1>1, <2>4, <2>5, <2>7, <3>1, <3>2 DEF OwnsInFrame, SameFrame
  <2> QED
    BY <2>1, <2>6, <2>7
<1>2. CASE frame /\ h.dsm.enc = RawData
  <2>1. x = h
    BY <1>2 DEF DecodeFrame, KeyFrame, DeltaFrame, KeepAlive
  <2> QED
    BY <1>0, <2>1 DEF OwnsInFrame
<1>3. CASE h.dsm.type = KeepAlive
  <2>1. x = h
    BY <1>3 DEF DecodeFrame, KeyFrame, DeltaFrame, KeepAlive
  <2> QED
    BY <1>0, <2>1 DEF OwnsInFrame
<1>4. CASE ~frame /\ h.dsm.type # KeepAlive
  <2>1. x = [h EXCEPT !.rv = "BadNotImplemented"]
    BY <1>4 DEF DecodeFrame
  <2>2. x \in Frames(src) /\ x.dsm = h.dsm /\ x.rv # "Good"
    BY <2>1 DEF Frames, Codes
  <2> QED
    BY <2>2 DEF OwnsInFrame
<1> QED
  BY <1>1, <1>2, <1>3, <1>4

\* Whatever the bytes are, decoding a message stays in the buffer, has taken a
\* byte if it succeeds, and leaves an array of fields only in a frame that
\* UA_DataSetMessage_free frees it for.
LEMMA DSMType ==
    ASSUME NEW src \in Seq(Octet), NEW pos \in 0..Len(src), NEW x, x = DecodeDSM(src, pos)
    PROVE  /\ x \in Frames(src) /\ OwnsInFrame(x)
           /\ x.rv = "Good" => x.pos >= pos + 1
<1> DEFINE h == DecodeHeader(src, pos)
<1>1. x = IF h.rv = "Good" THEN DecodeFrame(src, h) ELSE h
  BY DEF DecodeDSM, Then
<1>2. h \in Frames(src) /\ (h.rv = "Good" => h.pos >= pos + 1) /\ h.dsm.owns = FALSE
  BY HeaderType
<1> HIDE DEF h
<1>3. CASE h.rv # "Good"
  BY <1>1, <1>2, <1>3 DEF OwnsInFrame
<1>4. CASE h.rv = "Good"
  <2>1. x \in Frames(src) /\ OwnsInFrame(x) /\ (x.rv = "Good" => x.pos >= h.pos)
    BY <1>1, <1>2, <1>4, DecodeFrameType
  <2>2. x.pos \in Nat /\ h.pos \in Nat /\ pos \in Nat
    BY <1>2, <2>1 DEF Frames
  <2> QED
    BY <1>2, <1>4, <2>1, <2>2
<1> QED
  BY <1>3, <1>4

\* A DataSetMessage as its subscriber sees it: the fields that are present, the
\* others zero.
ReceivedDSM(d) ==
    IF d.type = KeepAlive THEN ReceivedHeader(d)
    ELSE WithFields([ReceivedHeader(d) EXCEPT !.count = Len(d.fields), !.owns = TRUE],
                    ReceivedTo(d, Len(d.fields)))

\* A DataSetMessage is read back: all of its bytes give the message, and a part
\* of them is refused.
THEOREM DSMReads ==
    ASSUME NEW src \in Seq(Octet), NEW pos \in 0..Len(src), NEW d \in DataSetMessages, Encodable(d),
           Follows(src, pos, DSMBytes(d)), NEW x, x = DecodeDSM(src, pos)
    PROVE  /\ Reached(src, pos, DSMBytes(d), x)
           /\ x.rv = "Good" => x.dsm = ReceivedDSM(d)
<1> DEFINE h == DecodeHeader(src, pos)
           a == HeaderBytes(d)
           b == BodyBytes(d)
<1>0. pos \in Nat /\ Len(src) \in Nat
  OBVIOUS
<1>1. x = IF h.rv = "Good" THEN DecodeFrame(src, h) ELSE h
  BY DEF DecodeDSM, Then
<1>2. h \in Frames(src) /\ h.dsm.owns = FALSE
  BY HeaderType
<1>3. a \in Seq(Octet) /\ b \in Seq(Octet) /\ DSMBytes(d) = a \o b
  <2>1. a \in Seq(Octet)
    BY HeaderPiece, PieceType
  <2>2. CASE d.type = KeepAlive
    BY <2>1, <2>2 DEF DSMBytes, BodyBytes
  <2>3. CASE d.type # KeepAlive
    <3>1. d.type \in {KeyFrame, DeltaFrame}
      BY <2>3 DEF Encodable
    <3>2. b = LE(Len(d.fields), 2) \o FlattenSeq(FieldsOf(d))
      BY <2>3 DEF BodyBytes
    <3> QED
      BY <2>1, <3>1, <3>2, FieldsPiece, PieceType DEF DSMBytes
  <2> QED
    BY <2>2, <2>3
<1> HIDE DEF a, b
<1>4. Follows(src, pos, a) /\ Follows(src, pos + Len(a), b) /\ Follows(src, pos, a \o b)
  BY <1>0, <1>3, FollowsConcat
<1>5. Reached(src, pos, a, h) /\ (h.rv = "Good" => h.dsm = ReceivedHeader(d))
  BY <1>4, HeaderReads DEF a
<1> HIDE DEF h
<1>6. /\ h.rv = "Good" => /\ h.pos = pos + Len(a) /\ h.pos \in 0..Len(src)
                          /\ \A y : Reached(src, h.pos, b, y) => Reached(src, pos, a \o b, y)
      /\ h.rv # "Good" => \A y : y.rv # "Good" => Reached(src, pos, a \o b, y)
  BY <1>0, <1>3, <1>5, ReachedThere
<1>7. CASE h.rv # "Good"
  BY <1>1, <1>3, <1>6, <1>7
<1>8. CASE h.rv = "Good" /\ d.type = KeepAlive
  <2>1. h.dsm = ReceivedHeader(d) /\ h.dsm.type = KeepAlive
    BY <1>5, <1>8 DEF ReceivedHeader, EmptyDSM
  <2>2. x = h
    BY <1>1, <1>8, <2>1 DEF DecodeFrame, KeyFrame, DeltaFrame, KeepAlive
  <2>3. a \o b = a
    BY <1>3, <1>8 DEF b, BodyBytes
  <2> QED
    BY <1>3, <1>5, <1>8, <2>1, <2>2, <2>3 DEF ReceivedDSM
<1>9. CASE h.rv = "Good" /\ d.type # KeepAlive
  <2> DEFINE m == Len(d.fields)
             p == LE(m, 2)
             q == FlattenSeq(FieldsOf(d))
             c == Read(src, h.pos, 2)
             r == Counted(h, c)
             e == ReceivedHeader(d)
  <2>1. /\ d.type \in {KeyFrame, DeltaFrame} /\ d.enc \in {VariantEncoding, DataValueEncoding}
        /\ d.enc # RawData
    BY <1>9, DSMHas DEF Encodable, VariantEncoding, DataValueEncoding, RawData
  <2>2. h.dsm = e /\ e.type = d.type /\ e.enc = d.enc /\ e.fields = <<>> /\ e \in LooseDSMs
    <3>1. h.dsm = e /\ h.dsm \in LooseDSMs
      BY <1>2, <1>5, <1>9 DEF Frames
    <3> QED
      BY <3>1 DEF ReceivedHeader, EmptyDSM
  <2>3. x = IF r.rv = "Good" THEN (IF r.dsm.owns THEN DecodeFields(src, r) ELSE r) ELSE r
    BY <1>1, <1>9, <2>1, <2>2 DEF DecodeFrame, Then, KeepAlive, KeyFrame, DeltaFrame
  <2>4. b = p \o q /\ p \in Seq(Octet) /\ q \in Seq(Octet) /\ m \in Unsigned(2) /\ Len(p) = 2
    <3>1. m \in Unsigned(2)
      BY DSMHas
    <3>2. m \in Nat
      BY <3>1 DEF Unsigned
    <3>3. FieldsOf(d) \in Seq(Seq(Octet))
      BY <2>1, FieldsPiece
    <3>4. q \in Seq(Octet)
      BY <3>3, FlattenType
    <3> QED
      BY <1>9, <3>1, <3>2, <3>4, LEType DEF b, BodyBytes
  <2>5. h.pos \in 0..Len(src) /\ Follows(src, h.pos, b)
    BY <1>4, <1>6, <1>9
  <2> HIDE DEF e, m, p, q
  <2>6. Follows(src, h.pos, p)
    <3> DEFINE s == h.pos
    <3>1. s \in Nat /\ Follows(src, s, p \o q)
      BY <1>0, <2>4, <2>5
    <3> HIDE DEF s
    <3>2. Follows(src, s, p)
      BY <2>4, <3>1, FollowsConcat
    <3> QED
      BY <3>2 DEF s
  <2>7. Reads(src, h.pos, p, c, m)
    <3>1. Follows(src, h.pos, LE(m, 2)) /\ 2 \in Widths
      BY <2>6 DEF p, Widths
    <3>2. Reads(src, h.pos, LE(m, 2), Read(src, h.pos, 2), m)
      BY <2>4, <2>5, <3>1, IntegerReads
    <3> QED
      BY <3>2 DEF p
  <2>8. c \in Outcomes(src, Unsigned(2))
    BY <2>5, ReadType DEF Widths
  <2> HIDE DEF c
  <2>9. /\ r \in Frames(src) /\ r.rv = c.rv /\ r.pos = c.pos
        /\ r.dsm.type = d.type /\ r.dsm.enc = d.enc /\ r.dsm.fields = <<>>
        /\ r.dsm = CountedDSM(e, c)
    BY <1>2, <2>2, <2>8, CountedType
  <2> HIDE DEF r
  <2>10. Reached(src, h.pos, p, r)
    BY <2>7, <2>9 DEF Reads, Reached
  <2>11. h.pos \in Nat
    BY <2>5
  <2>12. Reached(src, pos, a \o p, r) /\ a \o p \in Seq(Octet) /\ a \o b = (a \o p) \o q
    <3>1. /\ h.rv = "Good" => \A y : Reached(src, h.pos, p, y) => Reached(src, pos, a \o p, y)
      BY <1>0, <1>3, <1>5, <2>4, ReachedThere
    <3>2. a \o b = (a \o p) \o q
      BY SMTT(40), <1>3, <2>4
    <3>3. a \o p \in Seq(Octet)
      BY <1>3, <2>4
    <3> QED
      BY <1>9, <2>10, <3>1, <3>2, <3>3
  <2>13. CASE r.rv # "Good"
    <3>1. x = r
      BY <2>3, <2>13
    <3> DEFINE u == a \o p
    <3>2. Reached(src, pos, u, r) /\ u \in Seq(Octet) /\ a \o b = u \o q
      BY <2>12
    <3> HIDE DEF u
    <3>3. Reached(src, pos, u \o q, x)
      BY <1>0, <2>4, <2>13, <3>1, <3>2, ReachedThere
    <3> QED
      BY <1>3, <2>13, <3>1, <3>2, <3>3
  <2>14. CASE r.rv = "Good"
    <3>1. c.rv = "Good" /\ c.value = m
      BY <2>7, <2>9, <2>14 DEF Reads
    <3>2. r.dsm = [e EXCEPT !.count = m, !.owns = TRUE]
      BY <2>1, <2>2, <2>9, <3>1 DEF CountedDSM
    <3>3. r.dsm.owns = TRUE /\ r.dsm.count = m
      BY <2>2, <3>2 DEF LooseDSMs
    <3>4. x = DecodeFields(src, r)
      BY <2>3, <2>14, <3>3
    <3> DEFINE u == a \o p
    <3>5. Reached(src, pos, u, r) /\ u \in Seq(Octet) /\ a \o b = u \o q
      BY <2>12
    <3> HIDE DEF u
    <3>6. Follows(src, pos, u \o q)
      BY <1>4, <3>5
    <3>7. Reached(src, pos, u \o q, x) /\ (x.rv = "Good" => x.dsm = WithFields(r.dsm, ReceivedTo(d, m)))
      <4>1. Follows(src, pos, u \o FlattenSeq(FieldsOf(d))) /\ r.dsm.count = Len(d.fields)
        BY <3>3, <3>6 DEF q, m
      <4>2. /\ d.type \in {KeyFrame, DeltaFrame} /\ r \in Frames(src)
            /\ r.dsm.type = d.type /\ r.dsm.enc = d.enc /\ r.dsm.fields = <<>>
            /\ u \in Seq(Octet) /\ Reached(src, pos, u, r)
        BY <2>1, <2>9, <3>5
      <4>3. /\ Reached(src, pos, u \o FlattenSeq(FieldsOf(d)), x)
            /\ x.rv = "Good" => x.dsm = WithFields(r.dsm, ReceivedTo(d, Len(d.fields)))
        BY <1>0, <2>14, <3>4, <4>1, <4>2, DecodeFieldsReads
      <4> QED
        BY <4>3 DEF q, m
    <3>8. ReceivedDSM(d) = WithFields(r.dsm, ReceivedTo(d, m))
      BY <1>9, <3>2 DEF ReceivedDSM, e, m
    <3> QED
      BY <1>3, <3>5, <3>7, <3>8
  <2> QED
    BY <2>13, <2>14
<1> QED
  BY <1>7, <1>8, <1>9
=============================================================================
