-------------------------------- MODULE Sums --------------------------------
(***************************************************************************)
(* What the proofs about sums need: SumFunctionOnSet of the community      *)
(* module Functions, over finite sets, and induction.                      *)
(*                                                                         *)
(* Induction is stated for sets, not for predicates: a set of naturals     *)
(* with 0 and with every successor of its elements has them all, because   *)
(* < is well founded and a non-empty set of naturals so has a least        *)
(* element.                                                                *)
(***************************************************************************)
EXTENDS Integers, FiniteSets, Functions, FiniteSetTheorems, NaturalsInduction,
        WellFoundedInduction, TLAPS

\* A set of naturals has a least element: < is well founded on them.
LEMMA NatMin ==
  ASSUME NEW T \in SUBSET Nat, T # {}
  PROVE  \E x \in T : \A y \in T : x <= y
<1>1. \E x \in T : \A y \in T : ~ (<<y, x>> \in OpToRel(<,Nat))
  BY NatLessThanWellFounded, WFMin
<1>2. \A x, y \in Nat : <<y, x>> \in OpToRel(<,Nat) <=> y < x
  BY DEF OpToRel
<1>3. \E x \in T : \A y \in T : ~ (y < x)
  BY <1>1, <1>2, Zenon
<1> QED BY <1>3

\* Induction over the naturals, for a set: a least natural outside it cannot be.
LEMMA NatSets ==
  ASSUME NEW T, 0 \in T, \A n \in Nat : n \in T => n + 1 \in T
  PROVE  Nat \subseteq T
<1> SUFFICES ASSUME Nat \ T # {} PROVE FALSE
  OBVIOUS
<1>1. PICK x \in Nat \ T : \A y \in Nat \ T : x <= y
  BY NatMin
<1>2. x # 0 /\ x - 1 \in Nat
  BY <1>1
<1>3. x - 1 \in T
  BY <1>1, <1>2
<1> QED BY <1>2, <1>3, <1>1

\* What is needed of the subsets of a finite set, and of one without an element.
LEMMA Subsets ==
  ASSUME NEW S, IsFiniteSet(S)
  PROVE  \A T \in SUBSET S :
           /\ IsFiniteSet(T) /\ Cardinality(T) \in Nat /\ (Cardinality(T) = 0 <=> T = {})
           /\ \A x \in T : Cardinality(T \ {x}) = Cardinality(T) - 1
<1> SUFFICES ASSUME NEW T \in SUBSET S
             PROVE  /\ IsFiniteSet(T) /\ Cardinality(T) \in Nat /\ (Cardinality(T) = 0 <=> T = {})
                    /\ \A x \in T : Cardinality(T \ {x}) = Cardinality(T) - 1
  OBVIOUS
<1>1. IsFiniteSet(T) /\ Cardinality(T) \in Nat
  BY FS_Subset, FS_CardinalityType
<1> QED BY <1>1, FS_EmptySet, FS_RemoveElement

\* Induction over the subsets of a finite set, for a set of them.
LEMMA FiniteSubsets ==
  ASSUME NEW S, IsFiniteSet(S), NEW C, {} \in C,
         \A T \in SUBSET S : \A x \in S \ T : T \in C => T \cup {x} \in C
  PROVE  \A T \in SUBSET S : T \in C
<1> DEFINE Good == {n \in Nat : \A T \in SUBSET S : Cardinality(T) = n => T \in C}
<1>0. \A T \in SUBSET S :
        /\ IsFiniteSet(T) /\ Cardinality(T) \in Nat /\ (Cardinality(T) = 0 <=> T = {})
        /\ \A x \in T : Cardinality(T \ {x}) = Cardinality(T) - 1
  BY Subsets
<1>1. 0 \in Good
  BY <1>0
<1>2. ASSUME NEW n \in Nat, n \in Good
      PROVE  n + 1 \in Good
  <2> SUFFICES ASSUME NEW T \in SUBSET S, Cardinality(T) = n + 1
               PROVE  T \in C
    OBVIOUS
  <2>1. T # {}
    BY <1>0
  <2>2. PICK x \in T : TRUE
    BY <2>1
  <2>3. Cardinality(T \ {x}) = n
    BY <1>0, <2>2
  <2>4. T \ {x} \in SUBSET S /\ x \in S \ (T \ {x}) /\ (T \ {x}) \cup {x} = T
    BY <2>2
  <2>5. T \ {x} \in C
    BY <1>2, <2>3, <2>4
  <2> QED BY <2>4, <2>5
<1> HIDE DEF Good
<1>3. Nat \subseteq Good
  BY <1>1, <1>2, NatSets
<1> QED BY <1>0, <1>3 DEF Good

\* The fold of the module goes over a set in an order it chooses.
Some(s) == CHOOSE x \in s : TRUE
Iterates(it, f, U) ==
  it = [s \in U |-> IF s = {} THEN 0 ELSE f[Some(s)] + it[s \ {Some(s)}]]

\* Two iterations over the same elements find the same.
LEMMA IterUnique ==
  ASSUME NEW S, IsFiniteSet(S), NEW f, NEW U, SUBSET S \subseteq U, NEW V, SUBSET S \subseteq V,
         NEW it, Iterates(it, f, U), NEW jt, Iterates(jt, f, V)
  PROVE  \A s \in SUBSET S : it[s] = jt[s]
<1> DEFINE Good == {n \in Nat : \A T \in SUBSET S : Cardinality(T) = n => it[T] = jt[T]}
<1>0. \A T \in SUBSET S :
        /\ IsFiniteSet(T) /\ Cardinality(T) \in Nat /\ (Cardinality(T) = 0 <=> T = {})
        /\ \A x \in T : Cardinality(T \ {x}) = Cardinality(T) - 1
  BY Subsets
<1>a. /\ it[{}] = 0 /\ jt[{}] = 0
      /\ \A s \in SUBSET S : s # {} => it[s] = f[Some(s)] + it[s \ {Some(s)}]
      /\ \A s \in SUBSET S : s # {} => jt[s] = f[Some(s)] + jt[s \ {Some(s)}]
  <2>1. {} \in SUBSET S
    OBVIOUS
  <2> QED BY <2>1 DEF Iterates
<1>1. 0 \in Good
  BY <1>0, <1>a
<1>2. ASSUME NEW n \in Nat, n \in Good
      PROVE  n + 1 \in Good
  <2> SUFFICES ASSUME NEW T \in SUBSET S, Cardinality(T) = n + 1
               PROVE  it[T] = jt[T]
    OBVIOUS
  <2>1. T # {}
    BY <1>0
  <2>2. Some(T) \in T
    BY <2>1 DEF Some
  <2>3. Cardinality(T \ {Some(T)}) = n
    BY <1>0, <2>2
  <2>4. T \ {Some(T)} \in SUBSET S
    OBVIOUS
  <2>5. it[T \ {Some(T)}] = jt[T \ {Some(T)}]
    BY <1>2, <2>3, <2>4
  <2>6. /\ it[T] = f[Some(T)] + it[T \ {Some(T)}]
        /\ jt[T] = f[Some(T)] + jt[T \ {Some(T)}]
    BY <2>1, <1>a
  <2> QED BY <2>5, <2>6
<1> HIDE DEF Good
<1>3. Nat \subseteq Good
  BY <1>1, <1>2, NatSets
<1> QED BY <1>0, <1>3 DEF Good

\* The subsets of n elements at most.
Small(S, n) == {s \in SUBSET S : Cardinality(s) <= n}

\* There is an iteration over every finite set.
LEMMA IterExists ==
  ASSUME NEW S, IsFiniteSet(S), NEW f
  PROVE  \E it : Iterates(it, f, SUBSET S)
<1> DEFINE Good == {n \in Nat : \E it : Iterates(it, f, Small(S, n))}
<1>0. \A T \in SUBSET S :
        /\ IsFiniteSet(T) /\ Cardinality(T) \in Nat /\ (Cardinality(T) = 0 <=> T = {})
        /\ \A x \in T : Cardinality(T \ {x}) = Cardinality(T) - 1
  BY Subsets
<1>a. \A T \in SUBSET S : T # {} => /\ Some(T) \in T
                                    /\ Cardinality(T \ {Some(T)}) = Cardinality(T) - 1
  BY <1>0 DEF Some
<1>1. 0 \in Good
  <2>1. Small(S, 0) = {{}}
    BY <1>0 DEF Small
  <2>2. Iterates([s \in {{}} |-> 0], f, {{}})
    BY DEF Iterates
  <2> QED BY <2>1, <2>2
<1>2. ASSUME NEW n \in Nat, n \in Good
      PROVE  n + 1 \in Good
  <2>1. PICK it : Iterates(it, f, Small(S, n))
    BY <1>2
  <2> DEFINE jt == [s \in Small(S, n + 1) |->
                      IF s = {} THEN 0 ELSE f[Some(s)] + it[s \ {Some(s)}]]
  <2>2. \A s \in Small(S, n) : s \in Small(S, n + 1) /\ jt[s] = it[s]
    <3>1. \A s \in Small(S, n) : s \in Small(S, n + 1)
      BY <1>0 DEF Small
    <3>2. \A s \in Small(S, n) : it[s] = IF s = {} THEN 0 ELSE f[Some(s)] + it[s \ {Some(s)}]
      BY <2>1 DEF Iterates
    <3> QED BY <3>1, <3>2
  <2>3. \A s \in Small(S, n + 1) : s # {} => s \ {Some(s)} \in Small(S, n)
    BY <1>0, <1>a DEF Small
  <2>4. \A s \in Small(S, n + 1) : s # {} => it[s \ {Some(s)}] = jt[s \ {Some(s)}]
    BY <2>2, <2>3
  <2>5. jt = [s \in Small(S, n + 1) |->
                IF s = {} THEN 0 ELSE f[Some(s)] + jt[s \ {Some(s)}]]
    BY <2>4
  <2> HIDE DEF jt
  <2>6. Iterates(jt, f, Small(S, n + 1))
    BY <2>5 DEF Iterates
  <2> QED BY <2>6
<1> HIDE DEF Good
<1>3. Cardinality(S) \in Good
  BY <1>0, <1>1, <1>2, NatSets
<1>4. Small(S, Cardinality(S)) = SUBSET S
  BY <1>0, FS_Subset DEF Small
<1> QED BY <1>3, <1>4 DEF Good

\* The sum of f over S.
Sum(f, S) == SumFunctionOnSet(f, S)

\* The sum of the community module, one element at a time: a fold chooses the
\* element it begins with.
LEMMA SumUnfolds ==
  ASSUME NEW S, IsFiniteSet(S), NEW f
  PROVE  Sum(f, S) = IF S = {} THEN 0 ELSE f[Some(S)] + Sum(f, S \ {Some(S)})
<1> DEFINE it(s) == CHOOSE jt : Iterates(jt, f, SUBSET s)
<1>1. \A s \in SUBSET S : IsFiniteSet(s) /\ Iterates(it(s), f, SUBSET s)
  BY Subsets, IterExists
<1>2. \A s : Sum(f, s) = it(s)[s]
  BY DEF Sum, SumFunctionOnSet, FoldFunctionOnSet, MapThenFoldSet, Iterates, Some
<1> HIDE DEF it
<1>3. CASE S = {}
  BY <1>1, <1>2, <1>3 DEF Iterates
<1>4. CASE S # {}
  <2> DEFINE T == S \ {Some(S)}
  <2>1. T \in SUBSET S /\ SUBSET T \subseteq SUBSET S /\ S \in SUBSET S
    OBVIOUS
  <2> HIDE DEF T
  <2>2. \A s \in SUBSET T : it(S)[s] = it(T)[s]
    <3>1. /\ IsFiniteSet(T) /\ Iterates(it(S), f, SUBSET S) /\ Iterates(it(T), f, SUBSET T)
          /\ SUBSET T \subseteq SUBSET T
      BY <1>1, <2>1
    <3> QED BY <2>1, <3>1, IterUnique
  <2>3. it(S)[S] = f[Some(S)] + it(S)[T]
    BY <1>1, <1>4, <2>1 DEF Iterates, T
  <2> QED BY <1>2, <1>4, <2>2, <2>3 DEF T
<1> QED BY <1>3, <1>4

\* Nothing adds up to zero.
LEMMA SumOfNothing == ASSUME NEW f PROVE Sum(f, {}) = 0
BY SumUnfolds, FS_EmptySet

\* Whole numbers add up to a whole number.
LEMMA SumInt ==
  ASSUME NEW S, IsFiniteSet(S), NEW f, \A x \in S : f[x] \in Int
  PROVE  Sum(f, S) \in Int
<1> DEFINE Good == {n \in Nat : \A T \in SUBSET S : Cardinality(T) = n => Sum(f, T) \in Int}
<1>0. \A T \in SUBSET S :
        /\ IsFiniteSet(T) /\ Cardinality(T) \in Nat /\ (Cardinality(T) = 0 <=> T = {})
        /\ \A x \in T : Cardinality(T \ {x}) = Cardinality(T) - 1
  BY Subsets
<1>1. 0 \in Good
  BY <1>0, SumOfNothing
<1>2. ASSUME NEW n \in Nat, n \in Good
      PROVE  n + 1 \in Good
  <2> SUFFICES ASSUME NEW T \in SUBSET S, Cardinality(T) = n + 1
               PROVE  Sum(f, T) \in Int
    OBVIOUS
  <2>1. T # {} /\ Some(T) \in T
    BY <1>0 DEF Some
  <2>2. T \ {Some(T)} \in SUBSET S /\ Cardinality(T \ {Some(T)}) = n
    BY <1>0, <2>1
  <2>3. Sum(f, T \ {Some(T)}) \in Int
    BY <1>2, <2>2
  <2>4. Sum(f, T) = f[Some(T)] + Sum(f, T \ {Some(T)})
    BY <1>0, <2>1, SumUnfolds
  <2> QED BY <2>1, <2>3, <2>4
<1> HIDE DEF Good
<1>3. Nat \subseteq Good
  BY <1>1, <1>2, NatSets
<1>4. S \in SUBSET S /\ Cardinality(S) \in Good
  BY <1>0, <1>3
<1> QED BY <1>4 DEF Good

\* It does not matter which element is taken first.
LEMMA SumTakes ==
  ASSUME NEW S, IsFiniteSet(S), NEW f, \A x \in S : f[x] \in Int, NEW y \in S
  PROVE  Sum(f, S) = f[y] + Sum(f, S \ {y})
<1> DEFINE Good == {n \in Nat : \A T \in SUBSET S : Cardinality(T) = n =>
                       \A x \in T : Sum(f, T) = f[x] + Sum(f, T \ {x})}
<1>0. \A T \in SUBSET S :
        /\ IsFiniteSet(T) /\ Cardinality(T) \in Nat /\ (Cardinality(T) = 0 <=> T = {})
        /\ \A x \in T : Cardinality(T \ {x}) = Cardinality(T) - 1
  BY Subsets
<1>a. \A T \in SUBSET S : Sum(f, T) \in Int
  BY <1>0, SumInt
<1>1. 0 \in Good
  BY <1>0
<1>2. ASSUME NEW n \in Nat, n \in Good
      PROVE  n + 1 \in Good
  <2> SUFFICES ASSUME NEW T \in SUBSET S, Cardinality(T) = n + 1, NEW x \in T
               PROVE  Sum(f, T) = f[x] + Sum(f, T \ {x})
    OBVIOUS
  <2> DEFINE z == Some(T)
  <2>1. T # {} /\ z \in T
    BY <1>0 DEF Some
  <2> HIDE DEF z
  <2>2. Sum(f, T) = f[z] + Sum(f, T \ {z})
    BY <1>0, <2>1, SumUnfolds DEF z
  <2>3. CASE z = x
    BY <2>2, <2>3
  <2>4. CASE z # x
    <3> DEFINE W == (T \ {z}) \ {x}
    <3>1. /\ T \ {z} \in SUBSET S /\ Cardinality(T \ {z}) = n /\ x \in T \ {z}
          /\ T \ {x} \in SUBSET S /\ Cardinality(T \ {x}) = n /\ z \in T \ {x}
          /\ W = (T \ {x}) \ {z} /\ W \in SUBSET S
      BY <1>0, <2>1, <2>4
    <3>2. /\ Sum(f, T \ {z}) = f[x] + Sum(f, W)
          /\ Sum(f, T \ {x}) = f[z] + Sum(f, W)
      BY <1>2, <3>1
    <3> HIDE DEF W
    <3>3. /\ f[x] \in Int /\ f[z] \in Int /\ Sum(f, W) \in Int
          /\ Sum(f, T \ {z}) \in Int /\ Sum(f, T \ {x}) \in Int
      BY <1>a, <2>1, <3>1
    <3> QED BY <2>2, <3>2, <3>3
  <2> QED BY <2>3, <2>4
<1> HIDE DEF Good
<1>3. Nat \subseteq Good
  BY <1>1, <1>2, NatSets
<1>4. S \in SUBSET S /\ Cardinality(S) \in Good
  BY <1>0, <1>3
<1> QED BY <1>4 DEF Good

\* One element more adds its value.
LEMMA SumAdds ==
  ASSUME NEW S, IsFiniteSet(S), NEW f, NEW y, y \notin S, f[y] \in Int, \A x \in S : f[x] \in Int
  PROVE  Sum(f, S \cup {y}) = f[y] + Sum(f, S)
<1>1. IsFiniteSet(S \cup {y}) /\ (S \cup {y}) \ {y} = S
  BY FS_AddElement
<1> QED BY <1>1, SumTakes

\* Functions that agree on a set have the same sum over it.
LEMMA SumSame ==
  ASSUME NEW S, IsFiniteSet(S), NEW f, NEW g, \A x \in S : f[x] = g[x] /\ f[x] \in Int
  PROVE  Sum(f, S) = Sum(g, S)
<1> DEFINE C == {T \in SUBSET S : Sum(f, T) = Sum(g, T)}
<1>0. \A T \in SUBSET S : IsFiniteSet(T)
  BY FS_Subset
<1>1. {} \in C
  BY SumOfNothing
<1>2. ASSUME NEW T \in SUBSET S, NEW x \in S \ T, T \in C
      PROVE  T \cup {x} \in C
  <2>1. /\ Sum(f, T \cup {x}) = f[x] + Sum(f, T)
        /\ Sum(g, T \cup {x}) = g[x] + Sum(g, T)
    BY <1>0, SumAdds
  <2> QED BY <1>2, <2>1
<1> HIDE DEF C
<1>3. S \in C
  BY <1>1, <1>2, FiniteSubsets
<1> QED BY <1>3 DEF C

\* The sum of a sum, value by value, is the sum of the sums.
LEMMA SumPlus ==
  ASSUME NEW S, IsFiniteSet(S), NEW f, NEW g, NEW h,
         \A x \in S : f[x] \in Int /\ g[x] \in Int /\ h[x] = f[x] + g[x]
  PROVE  Sum(h, S) = Sum(f, S) + Sum(g, S)
<1> DEFINE C == {T \in SUBSET S : Sum(h, T) = Sum(f, T) + Sum(g, T)}
<1>0. \A T \in SUBSET S : IsFiniteSet(T) /\ Sum(f, T) \in Int /\ Sum(g, T) \in Int
  BY FS_Subset, SumInt
<1>1. {} \in C
  BY SumOfNothing
<1>2. ASSUME NEW T \in SUBSET S, NEW x \in S \ T, T \in C
      PROVE  T \cup {x} \in C
  <2>0. \A y \in S : h[y] \in Int
    OBVIOUS
  <2>1. /\ Sum(f, T \cup {x}) = f[x] + Sum(f, T)
        /\ Sum(g, T \cup {x}) = g[x] + Sum(g, T)
        /\ Sum(h, T \cup {x}) = h[x] + Sum(h, T)
    BY <1>0, <2>0, SumAdds
  <2> QED BY <1>0, <1>2, <2>1
<1> HIDE DEF C
<1>3. S \in C
  BY <1>1, <1>2, FiniteSubsets
<1> QED BY <1>3 DEF C

\* Where a function is zero it adds nothing.
LEMMA SumSupport ==
  ASSUME NEW S, IsFiniteSet(S), NEW f, \A x \in S : f[x] \in Int, NEW T \in SUBSET S,
         \A x \in S \ T : f[x] = 0
  PROVE  Sum(f, S) = Sum(f, T)
<1> DEFINE C == {Q \in SUBSET (S \ T) : Sum(f, T \cup Q) = Sum(f, T)}
<1>0. \A Q \in SUBSET S : IsFiniteSet(Q) /\ Sum(f, Q) \in Int
  BY FS_Subset, SumInt
<1>1. {} \in C
  OBVIOUS
<1>2. ASSUME NEW Q \in SUBSET (S \ T), NEW x \in (S \ T) \ Q, Q \in C
      PROVE  Q \cup {x} \in C
  <2> DEFINE U == T \cup Q
  <2>1. U \in SUBSET S /\ x \in S /\ x \notin U /\ T \cup (Q \cup {x}) = U \cup {x}
    OBVIOUS
  <2>2. f[x] = 0 /\ Sum(f, U) = Sum(f, T)
    BY <1>2
  <2> HIDE DEF U
  <2>3. Sum(f, U \cup {x}) = f[x] + Sum(f, U) /\ Sum(f, U) \in Int
    BY <1>0, <2>1, SumAdds
  <2>4. Sum(f, U \cup {x}) = Sum(f, T)
    BY <2>2, <2>3
  <2> QED BY <2>1, <2>4
<1> HIDE DEF C
<1>3. S \ T \in C
  <2> DEFINE R == S \ T
  <2>1. IsFiniteSet(R) /\ R \in SUBSET R
    BY <1>0
  <2>2. \A Q \in SUBSET R : \A x \in R \ Q : Q \in C => Q \cup {x} \in C
    BY <1>2
  <2> HIDE DEF R
  <2>3. R \in C
    BY <1>1, <2>1, <2>2, FiniteSubsets
  <2> QED BY <2>3 DEF R
<1>4. T \cup (S \ T) = S
  OBVIOUS
<1> QED BY <1>3, <1>4 DEF C

\* A function that differs from another in one place.
LEMMA SumChanged ==
  ASSUME NEW S, IsFiniteSet(S), NEW f, NEW g, NEW y \in S, f[y] \in Int, g[y] \in Int,
         \A x \in S \ {y} : f[x] = g[x] /\ f[x] \in Int
  PROVE  Sum(g, S) = Sum(f, S) - f[y] + g[y]
<1> DEFINE R == S \ {y}
<1>1. IsFiniteSet(R)
  BY FS_RemoveElement
<1>2. Sum(f, S) = f[y] + Sum(f, R) /\ Sum(g, S) = g[y] + Sum(g, R)
  BY SumTakes
<1>3. Sum(f, R) = Sum(g, R) /\ Sum(f, R) \in Int
  BY <1>1, SumSame, SumInt
<1> HIDE DEF R
<1> QED BY <1>2, <1>3

\* A value that is everywhere the same.
LEMMA SumConstant ==
  ASSUME NEW S, IsFiniteSet(S), NEW q \in Int, NEW f, \A x \in S : f[x] = q
  PROVE  Sum(f, S) = Cardinality(S) * q
<1> DEFINE C == {T \in SUBSET S : Sum(f, T) = Cardinality(T) * q}
<1>0. \A T \in SUBSET S : IsFiniteSet(T) /\ Cardinality(T) \in Nat
  BY FS_Subset, FS_CardinalityType
<1>1. {} \in C
  BY SumOfNothing, FS_EmptySet
<1>2. ASSUME NEW T \in SUBSET S, NEW x \in S \ T, T \in C
      PROVE  T \cup {x} \in C
  <2>1. Sum(f, T \cup {x}) = q + Sum(f, T)
    BY <1>0, SumAdds
  <2>2. Cardinality(T \cup {x}) = Cardinality(T) + 1
    BY <1>0, FS_AddElement
  <2>3. \A n \in Nat : (n + 1) * q = q + n * q
    OBVIOUS
  <2> QED BY <1>0, <1>2, <2>1, <2>2, <2>3
<1> HIDE DEF C
<1>3. S \in C
  BY <1>1, <1>2, FiniteSubsets
<1> QED BY <1>3 DEF C

\* The elements of D to which w gives the value x; they add up to D.
Fibre(D, w, x) == {d \in D : w[d] = x}

\* If every d of D is worth q to one x of S, all are worth q times their number.
LEMMA SumCounts ==
  ASSUME NEW S, IsFiniteSet(S), NEW D, IsFiniteSet(D), NEW w, \A d \in D : w[d] \in S,
         NEW q \in Int, NEW f, \A x \in S : f[x] = q * Cardinality(Fibre(D, w, x))
  PROVE  Sum(f, S) = q * Cardinality(D)
<1> DEFINE Into(T) == {d \in D : w[d] \in T}
           At(x) == Fibre(D, w, x)
           C == {T \in SUBSET S : Sum(f, T) = q * Cardinality(Into(T))}
<1>0. /\ \A T \in SUBSET S : /\ IsFiniteSet(T) /\ IsFiniteSet(Into(T))
                             /\ Cardinality(Into(T)) \in Nat
      /\ \A x \in S : IsFiniteSet(At(x)) /\ Cardinality(At(x)) \in Nat /\ f[x] \in Int
  <2>1. \A x \in S : At(x) \subseteq D
    BY DEF Fibre
  <2>2. \A x \in S : IsFiniteSet(At(x)) /\ Cardinality(At(x)) \in Nat /\ f[x] = q * Cardinality(At(x))
    BY <2>1, FS_Subset, FS_CardinalityType
  <2> HIDE DEF At
  <2>3. \A x \in S : f[x] \in Int
    BY <2>2
  <2>4. \A T \in SUBSET S : IsFiniteSet(T) /\ Into(T) \subseteq D
    BY FS_Subset
  <2> HIDE DEF Into
  <2>5. \A T \in SUBSET S : IsFiniteSet(Into(T)) /\ Cardinality(Into(T)) \in Nat
    BY <2>4, FS_Subset, FS_CardinalityType
  <2> QED BY <2>2, <2>3, <2>4, <2>5
<1>1. {} \in C
  <2>1. Into({}) = {}
    OBVIOUS
  <2>2. Sum(f, {}) = q * Cardinality({})
    BY SumOfNothing, FS_EmptySet
  <2> QED BY <2>1, <2>2
<1>2. ASSUME NEW T \in SUBSET S, NEW x \in S \ T, T \in C
      PROVE  T \cup {x} \in C
  <2>1. Sum(f, T \cup {x}) = f[x] + Sum(f, T)
    BY <1>0, SumAdds
  <2>2. Into(T \cup {x}) = At(x) \cup Into(T) /\ At(x) \cap Into(T) = {}
    BY DEF Fibre
  <2>3. Cardinality(Into(T \cup {x})) = Cardinality(At(x)) + Cardinality(Into(T))
    <3>1. IsFiniteSet(At(x)) /\ IsFiniteSet(Into(T))
      BY <1>0
    <3>2. Cardinality(At(x) \cup Into(T))
            = Cardinality(At(x)) + Cardinality(Into(T)) - Cardinality(At(x) \cap Into(T))
      BY <3>1, FS_Union
    <3>3. /\ Cardinality(At(x)) \in Nat /\ Cardinality(Into(T)) \in Nat
          /\ Cardinality(At(x) \cap Into(T)) = 0
      BY <1>0, <2>2, FS_EmptySet
    <3> HIDE DEF At, Into
    <3>4. Cardinality(Into(T \cup {x})) = Cardinality(At(x) \cup Into(T))
      BY <2>2
    <3> QED BY <3>2, <3>3, <3>4
  <2>4. f[x] = q * Cardinality(At(x)) /\ Sum(f, T) = q * Cardinality(Into(T))
    BY <1>2
  <2>5. \A m, n \in Nat : q * (m + n) = q * m + q * n
    OBVIOUS
  <2> HIDE DEF At, Into
  <2>6. q * Cardinality(Into(T \cup {x})) = q * Cardinality(At(x)) + q * Cardinality(Into(T))
    BY <1>0, <2>3, <2>5
  <2>7. Sum(f, T \cup {x}) = q * Cardinality(Into(T \cup {x}))
    BY <2>1, <2>4, <2>6
  <2> QED BY <2>7
<1> HIDE DEF C, Into
<1>3. S \in C
  BY <1>1, <1>2, FiniteSubsets
<1>4. Into(S) = D
  BY DEF Into
<1> QED BY <1>3, <1>4 DEF C
=============================================================================
