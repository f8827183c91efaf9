------------------------------ MODULE Recursion -----------------------------
(***************************************************************************)
(* The folds that the specifications use (Sum over the accounts of a       *)
(* ledger, FoldLeft over the transactions of a group) are recursive        *)
(* functions on the subsets of a finite set.  This module shows that the   *)
(* function exists and obeys its recursion equation; a module that needs   *)
(* a fold instantiates it with the step Op(c, x, rest) of that fold, where *)
(* c is what the step depends on besides the element x, and with the       *)
(* element Pick(T) that is taken out of T.                                 *)
(***************************************************************************)
EXTENDS Integers, FiniteSetTheorems, TLAPS

CONSTANTS Op(_, _, _), Pick(_)

\* No infinite descent among the subsets of D: D is finite.
Descends(D) ==
  \A F \in SUBSET SUBSET D :
    F # {} => \E T \in F : \A U \in F : U \subseteq T => U = T

Picks(D) == \A T \in SUBSET D : T # {} => Pick(T) \in T

Rest(T) == T \ {Pick(T)}

Solves(c, b, D, h) ==
  h = [T \in SUBSET D |-> IF T = {} THEN b ELSE Op(c, Pick(T), h[Rest(T)])]

FoldOver(c, b, D) == (CHOOSE h : Solves(c, b, D, h))[D]

-----------------------------------------------------------------------------

\* A solution for a set is a solution for its subsets.
LEMMA RestrictSolution ==
  ASSUME NEW c, NEW b, NEW D, NEW h, Solves(c, b, D, h), NEW E \in SUBSET D
  PROVE  Solves(c, b, E, [T \in SUBSET E |-> h[T]])
<1>. DEFINE g == [T \in SUBSET E |-> h[T]]
<1>1. ASSUME NEW T \in SUBSET E
      PROVE  g[T] = IF T = {} THEN b ELSE Op(c, Pick(T), g[Rest(T)])
  <2>1. T \in SUBSET D /\ Rest(T) \in SUBSET E
    BY DEF Rest
  <2>2. h[T] = IF T = {} THEN b ELSE Op(c, Pick(T), h[Rest(T)])
    BY <2>1 DEF Solves
  <2>. QED  BY <2>1, <2>2
<1>. HIDE DEF g
<1>2. g = [T \in SUBSET E |-> g[T]]
  BY DEF g
<1>. QED  BY <1>1, <1>2 DEF Solves, g

\* There is at most one solution.
LEMMA OneSolution ==
  ASSUME NEW c, NEW b, NEW D, Descends(D), Picks(D),
         NEW g, Solves(c, b, D, g), NEW h, Solves(c, b, D, h)
  PROVE  g = h
<1>. DEFINE F == {T \in SUBSET D : g[T] # h[T]}
<1>1. ASSUME F # {} PROVE FALSE
  <2>1. PICK T \in F : \A U \in F : U \subseteq T => U = T
    <3>1. F \in SUBSET SUBSET D
      OBVIOUS
    <3>. HIDE DEF F
    <3>. QED  BY <1>1, <3>1 DEF Descends
  <2>2. T # {}
    BY <2>1 DEF Solves
  <2>3. Rest(T) \in SUBSET D /\ Rest(T) \subseteq T /\ Rest(T) # T
    BY <2>1, <2>2 DEF Rest, Picks
  <2>4. g[Rest(T)] = h[Rest(T)]
    BY <2>1, <2>3
  <2>5. /\ g[T] = Op(c, Pick(T), g[Rest(T)])
        /\ h[T] = Op(c, Pick(T), h[Rest(T)])
    BY <2>1, <2>2 DEF Solves
  <2>. QED  BY <2>1, <2>4, <2>5
<1>2. /\ g = [T \in SUBSET D |-> g[T]]
      /\ h = [T \in SUBSET D |-> h[T]]
  BY DEF Solves
<1>. QED  BY <1>1, <1>2

\* A finite set has a solution: a set without one that is as small as possible
\* would get it from the solutions of its subsets.
LEMMA Solution ==
  ASSUME NEW c, NEW b, NEW D, Descends(D), Picks(D)
  PROVE  \E h : Solves(c, b, D, h)
<1>. DEFINE F == {T \in SUBSET D : ~ \E h : Solves(c, b, T, h)}
<1>1. SUFFICES ASSUME F # {} PROVE FALSE
  OBVIOUS
<1>2. PICK T \in F : \A U \in F : U \subseteq T => U = T
  <2>1. F \in SUBSET SUBSET D
    OBVIOUS
  <2>. HIDE DEF F
  <2>. QED  BY <1>1, <2>1 DEF Descends
<1>. DEFINE H(U) == CHOOSE h : Solves(c, b, U, h)
            V(U) == IF U = {} THEN b ELSE Op(c, Pick(U), H(Rest(U))[Rest(U)])
            g == [U \in SUBSET T |-> V(U)]
<1>3. ASSUME NEW U \in SUBSET T, U # T PROVE Solves(c, b, U, H(U))
  BY <1>2, <1>3
<1>4. ASSUME NEW U \in SUBSET T, U # {} PROVE Rest(U) \in SUBSET T /\ Rest(U) # T
  BY <1>4, <1>2 DEF Rest, Picks
<1>5. ASSUME NEW U \in SUBSET T, U # T PROVE V(U) = H(U)[U]
  <2>1. CASE U = {}
    <3>1. Solves(c, b, U, H(U))
      BY <1>3, <1>5
    <3>. HIDE DEF H
    <3>2. H(U)[U] = b
      BY <2>1, <3>1 DEF Solves
    <3>. QED  BY <2>1, <3>2
  <2>2. CASE U # {}
    <3>. DEFINE W == Rest(U)
                k == [X \in SUBSET W |-> H(U)[X]]
    <3>1. W \in SUBSET U /\ W \in SUBSET T /\ W # T
      BY <2>2, <1>4 DEF Rest
    <3>2. Solves(c, b, W, k)
      BY <3>1, <1>3, <1>5, RestrictSolution
    <3>3. Solves(c, b, W, H(W))
      BY <3>1, <1>3
    <3>4. Descends(W) /\ Picks(W)
      <4>1. W \in SUBSET D
        BY <3>1, <1>2
      <4>. QED  BY <4>1 DEF Descends, Picks
    <3>5. k = H(W)
      <4>. HIDE DEF W, k, H
      <4>. QED  BY <3>2, <3>3, <3>4, OneSolution
    <3>6. H(W)[W] = H(U)[W]
      BY <3>5
    <3>7. H(U)[U] = Op(c, Pick(U), H(U)[W])
      <4>1. Solves(c, b, U, H(U))
        BY <1>3, <1>5
      <4>. HIDE DEF H
      <4>. QED  BY <4>1, <2>2 DEF Solves
    <3>. QED  BY <2>2, <3>6, <3>7
  <2>. QED  BY <2>1, <2>2
<1>6. ASSUME NEW U \in SUBSET T
      PROVE  g[U] = IF U = {} THEN b ELSE Op(c, Pick(U), g[Rest(U)])
  <2>1. CASE U = {}
    BY <2>1
  <2>2. CASE U # {}
    <3>1. Rest(U) \in SUBSET T /\ V(Rest(U)) = H(Rest(U))[Rest(U)]
      BY <2>2, <1>4, <1>5
    <3>2. g[Rest(U)] = H(Rest(U))[Rest(U)]
      BY <3>1
    <3>. QED  BY <2>2, <3>2
  <2>. QED  BY <2>1, <2>2
<1>7. Solves(c, b, T, g)
  <2>. HIDE DEF V
  <2>1. g = [U \in SUBSET T |-> g[U]]
    OBVIOUS
  <2>. HIDE DEF g
  <2>. QED  BY <1>6, <2>1 DEF Solves
<1>. QED  BY <1>2, <1>7

-----------------------------------------------------------------------------

\* A fold over nothing is what it starts from.
THEOREM FoldOverNothing == \A c, b : FoldOver(c, b, {}) = b
<1>. SUFFICES ASSUME NEW c, NEW b PROVE FoldOver(c, b, {}) = b
  OBVIOUS
<1>1. Descends({}) /\ Picks({})
  <2>1. ASSUME NEW F \in SUBSET SUBSET {}, F # {}
        PROVE  \E T \in F : \A U \in F : U \subseteq T => U = T
    <3>1. {} \in F
      BY <2>1
    <3>. QED  BY <3>1
  <2>. QED  BY <2>1 DEF Descends, Picks
<1>2. PICK h : h = (CHOOSE k : Solves(c, b, {}, k)) /\ Solves(c, b, {}, h)
  BY <1>1, Solution
<1>3. h[{}] = b
  BY <1>2 DEF Solves
<1>. QED  BY <1>2, <1>3 DEF FoldOver

\* A fold over a set that is not empty takes one step after the fold over the
\* other elements.
THEOREM FoldOverStep ==
  \A c, b, D : Descends(D) /\ Picks(D) /\ D # {} =>
    FoldOver(c, b, D) = Op(c, Pick(D), FoldOver(c, b, Rest(D)))
<1>. SUFFICES ASSUME NEW c, NEW b, NEW D, Descends(D), Picks(D), D # {}
              PROVE  FoldOver(c, b, D) = Op(c, Pick(D), FoldOver(c, b, Rest(D)))
  OBVIOUS
<1>. DEFINE E == Rest(D)
<1>1. E \in SUBSET D
  BY DEF Rest
<1>2. Descends(E) /\ Picks(E)
  BY <1>1 DEF Descends, Picks
<1>3. PICK h : h = (CHOOSE k : Solves(c, b, D, k)) /\ Solves(c, b, D, h)
  BY Solution
<1>4. PICK g : g = (CHOOSE k : Solves(c, b, E, k)) /\ Solves(c, b, E, g)
  BY <1>2, Solution
<1>5. g = [T \in SUBSET E |-> h[T]]
  <2>1. Solves(c, b, D, h) /\ Solves(c, b, E, g)
    BY <1>3, <1>4
  <2>. HIDE DEF E
  <2>2. Solves(c, b, E, [T \in SUBSET E |-> h[T]])
    BY <1>1, <2>1, RestrictSolution
  <2>. QED  BY <1>2, <2>1, <2>2, OneSolution
<1>6. g[E] = h[E]
  BY <1>5
<1>7. h[D] = Op(c, Pick(D), h[E])
  BY <1>3 DEF Solves
<1>. QED  BY <1>3, <1>4, <1>6, <1>7 DEF FoldOver

\* Induction over the subsets of a set that a fold goes through.
THEOREM Induction ==
  \A D, G : Descends(D) /\ Picks(D) /\ {} \in G
            /\ (\A T \in SUBSET D : T # {} /\ Rest(T) \in G => T \in G) => D \in G
<1>. SUFFICES ASSUME NEW D, NEW G, Descends(D), Picks(D), {} \in G,
                     \A T \in SUBSET D : T # {} /\ Rest(T) \in G => T \in G
              PROVE  D \in G
  OBVIOUS
<1>. DEFINE F == (SUBSET D) \ G
<1>1. SUFFICES ASSUME F # {} PROVE FALSE
  OBVIOUS
<1>2. PICK T \in F : \A U \in F : U \subseteq T => U = T
  <2>1. F \in SUBSET SUBSET D
    OBVIOUS
  <2>. HIDE DEF F
  <2>. QED  BY <1>1, <2>1 DEF Descends
<1>3. T # {} /\ T \in SUBSET D
  OBVIOUS
<1>4. Rest(T) \in SUBSET D /\ Rest(T) \subseteq T /\ Rest(T) # T
  BY <1>3 DEF Rest, Picks
<1>. QED  BY <1>2, <1>3, <1>4

-----------------------------------------------------------------------------
(* The sets that a fold may go through                                     *)

\* Every family of subsets of a finite set has a member that contains no other:
\* what induction over the subsets of the set rests on.
THEOREM MinimalSubset ==
  \A D : IsFiniteSet(D) =>
    \A F \in SUBSET SUBSET D : F # {} => \E T \in F : \A U \in F : U \subseteq T => U = T
<1>. SUFFICES ASSUME NEW D, IsFiniteSet(D), NEW F \in SUBSET SUBSET D, F # {}
              PROVE  \E T \in F : \A U \in F : U \subseteq T => U = T
  OBVIOUS
<1>. DEFINE R == StrictSubsetOrdering(D)
<1>1. IsWellFoundedOn(R, FiniteSubsetsOf(D))
  BY FS_StrictSubsetOrderingWellFounded
<1>2. F \subseteq FiniteSubsetsOf(D)
  BY FS_Subset DEF FiniteSubsetsOf
<1>3. PICK T \in F : \A U \in F : <<U, T>> \notin R
  <2>. HIDE DEF R
  <2>. QED  BY <1>1, <1>2, WFMin
<1>4. ASSUME NEW U \in F, U \subseteq T PROVE U = T
  BY <1>3, <1>4 DEF StrictSubsetOrdering
<1>. QED  BY <1>4

\* So there is no infinite descent in a finite set.
THEOREM FiniteDescends == \A D : IsFiniteSet(D) => Descends(D)
BY MinimalSubset DEF Descends

-----------------------------------------------------------------------------
(* Folds over the positions of a sequence, the last one first              *)

Latest(T) == CHOOSE i \in T : \A j \in T : i >= j

PicksLast == \A T : Pick(T) = Latest(T)

\* A set of positions has a last one.
LEMMA LastPosition ==
  ASSUME NEW D, IsFiniteSet(D), D # {}, \A j \in D : j \in Nat
  PROVE  Latest(D) \in D /\ \A j \in D : Latest(D) >= j
<1>. DEFINE Over(i) == {j \in D : j >= i}
            F == {Over(i) : i \in D}
<1>1. PICK U \in F : \A V \in F : V \subseteq U => V = U
  <2>1. F \in SUBSET SUBSET D /\ F # {} /\ IsFiniteSet(D)
    OBVIOUS
  <2>. HIDE DEF F, Over
  <2>. QED  BY <2>1, MinimalSubset
<1>2. PICK i \in D : U = Over(i)
  OBVIOUS
<1>3. ASSUME NEW j \in D PROVE i >= j
  <2>. SUFFICES ASSUME ~ (i >= j) PROVE FALSE
    OBVIOUS
  <2>1. i \in Nat /\ j \in Nat /\ \A k \in D : k \in Nat
    OBVIOUS
  <2>2. Over(j) \in F
    OBVIOUS
  <2>3. ASSUME NEW k \in Over(j) PROVE k \in Over(i)
    <3>1. k \in D /\ k >= j
      OBVIOUS
    <3>2. k \in Nat /\ k >= i
      BY <2>1, <3>1
    <3>. QED  BY <3>1, <3>2
  <2>4. i \in Over(i) /\ i \notin Over(j)
    BY <2>1
  <2>. QED  BY <1>1, <1>2, <2>2, <2>3, <2>4
<1>. QED  BY <1>3 DEF Latest

\* In particular a set of positions has a greatest element.
THEOREM HasLast ==
  \A D : IsFiniteSet(D) /\ D # {} /\ (\A j \in D : j \in Nat)
         => \E i \in D : \A j \in D : i >= j
BY LastPosition

\* The positions of a sequence have one, and so has every set of them.
LEMMA LastOfSome ==
  ASSUME NEW n \in Nat
  PROVE  /\ IsFiniteSet(1..n)
         /\ \A T \in SUBSET (1..n) : T # {} => Latest(T) \in T
         /\ n > 0 => Latest(1..n) = n
<1>1. IsFiniteSet(1..n)
  <2>1. 1 \in Int /\ n \in Int
    OBVIOUS
  <2>. QED  BY <2>1, FS_Interval
<1>2. ASSUME NEW T \in SUBSET (1..n), T # {} PROVE Latest(T) \in T /\ \A j \in T : Latest(T) >= j
  <2>1. IsFiniteSet(T)
    BY <1>1, FS_Subset
  <2>2. \A j \in T : j \in Nat
    OBVIOUS
  <2>. QED  BY <1>2, <2>1, <2>2, LastPosition
<1>3. ASSUME n > 0 PROVE Latest(1..n) = n
  <2>1. 1..n \in SUBSET (1..n) /\ n \in 1..n
    BY <1>3
  <2>2. Latest(1..n) \in 1..n /\ Latest(1..n) >= n
    BY <1>2, <2>1
  <2>. QED  BY <2>2
<1>. QED  BY <1>1, <1>2, <1>3

\* So a fold may go through the positions of a sequence.
THEOREM Positions ==
  PicksLast => \A n \in Nat :
    Descends(1..n) /\ Picks(1..n) /\ (n > 0 => Pick(1..n) = n /\ Rest(1..n) = 1..(n - 1))
<1>. SUFFICES ASSUME \A T : Pick(T) = Latest(T), NEW n \in Nat
              PROVE  Descends(1..n) /\ Picks(1..n) /\ (n > 0 => Pick(1..n) = n /\ Rest(1..n) = 1..(n - 1))
  BY DEF PicksLast
<1>1. Descends(1..n)
  BY LastOfSome, FiniteDescends
<1>2. Picks(1..n)
  BY LastOfSome DEF Picks
<1>3. ASSUME n > 0 PROVE Pick(1..n) = n /\ Rest(1..n) = 1..(n - 1)
  <2>1. Pick(1..n) = n
    BY <1>3, LastOfSome
  <2>2. Rest(1..n) = 1..(n - 1)
    BY <2>1, <1>3 DEF Rest
  <2>. QED  BY <2>1, <2>2
<1>. QED  BY <1>1, <1>2, <1>3

-----------------------------------------------------------------------------
(* Folds that add up                                                       *)

\* Every step over an element of D adds a number of f.
Adds(c, f, D) == \A x \in D : f[x] \in Int /\ \A n : Op(c, x, n) = f[x] + n

Sum(c, D) == FoldOver(c, 0, D)

\* The sum over T is what f has for x and the sum over the others.
Splits(c, f, T, x) == Sum(c, T) = f[x] + Sum(c, T \ {x})

\* One step of a sum.
LEMMA SumStep ==
  ASSUME NEW c, NEW f, NEW D, IsFiniteSet(D), Picks(D), Adds(c, f, D),
         NEW T \in SUBSET D, T # {}
  PROVE  Pick(T) \in T /\ Sum(c, T) = f[Pick(T)] + Sum(c, T \ {Pick(T)})
<1>1. Descends(T) /\ Picks(T) /\ Pick(T) \in T
  BY FiniteDescends, FS_Subset DEF Picks
<1>2. FoldOver(c, 0, T) = Op(c, Pick(T), FoldOver(c, 0, Rest(T)))
  BY <1>1, FoldOverStep
<1>. QED  BY <1>1, <1>2 DEF Adds, Sum, Rest

\* A sum of integers is an integer.
THEOREM SumInt ==
  \A c, f, D : IsFiniteSet(D) /\ Picks(D) /\ Adds(c, f, D) =>
    \A T \in SUBSET D : Sum(c, T) \in Int
<1>. SUFFICES ASSUME NEW c, NEW f, NEW D, IsFiniteSet(D), Picks(D), Adds(c, f, D)
              PROVE  \A T \in SUBSET D : Sum(c, T) \in Int
  OBVIOUS
<1>. DEFINE F == {T \in SUBSET D : Sum(c, T) \notin Int}
<1>1. SUFFICES ASSUME F # {} PROVE FALSE
  OBVIOUS
<1>2. PICK T \in F : \A U \in F : U \subseteq T => U = T
  <2>1. F \in SUBSET SUBSET D
    OBVIOUS
  <2>. HIDE DEF F
  <2>. QED  BY <1>1, <2>1, MinimalSubset
<1>3. T \in SUBSET D /\ T # {}
  <2>1. Sum(c, {}) = 0
    BY FoldOverNothing DEF Sum
  <2>2. Sum(c, {}) \in Int
    BY <2>1
  <2>. QED  BY <1>2, <2>2
<1>4. Pick(T) \in T /\ Sum(c, T) = f[Pick(T)] + Sum(c, T \ {Pick(T)})
  BY <1>3, SumStep
<1>5. Sum(c, T \ {Pick(T)}) \in Int
  BY <1>2, <1>3, <1>4
<1>. QED  BY <1>2, <1>3, <1>4, <1>5 DEF Adds

\* Which element is taken out does not matter.
THEOREM SumWithout ==
  \A c, f, D : IsFiniteSet(D) /\ Picks(D) /\ Adds(c, f, D) =>
    \A T \in SUBSET D : \A x \in T : Splits(c, f, T, x)
<1>. SUFFICES ASSUME NEW c, NEW f, NEW D, IsFiniteSet(D), Picks(D), Adds(c, f, D),
                     NEW T0 \in SUBSET D, NEW x0 \in T0, ~Splits(c, f, T0, x0)
              PROVE  FALSE
  OBVIOUS
<1>. DEFINE F == {T \in SUBSET D : \E x \in T : ~Splits(c, f, T, x)}
<1>1. PICK T \in F : \A V \in F : V \subseteq T => V = T
  <2>1. F \in SUBSET SUBSET D /\ T0 \in F
    OBVIOUS
  <2>. HIDE DEF F
  <2>. QED  BY <2>1, MinimalSubset
<1>2. PICK y \in T : Sum(c, T) # f[y] + Sum(c, T \ {y})
  BY <1>1 DEF Splits
<1>. DEFINE z == Pick(T)
            U == (T \ {z}) \ {y}
<1>3. T \in SUBSET D /\ z \in T /\ Sum(c, T) = f[z] + Sum(c, T \ {z})
  <2>1. T \in SUBSET D /\ T # {}
    BY <1>1, <1>2
  <2>. QED  BY <2>1, SumStep
<1>. HIDE DEF z
<1>4. y # z
  BY <1>2, <1>3
<1>. DEFINE P == T \ {z}
            Q == T \ {y}
<1>5. /\ P \in SUBSET D /\ P \subseteq T /\ P # T /\ y \in P
       /\ Q \in SUBSET D /\ Q \subseteq T /\ Q # T /\ z \in Q
  BY <1>2, <1>3, <1>4
<1>6. P \notin F /\ Q \notin F
  <2>. HIDE DEF F, P, Q
  <2>. QED  BY <1>1, <1>5
<1>7. Splits(c, f, P, y) /\ Splits(c, f, Q, z)
  <2>. HIDE DEF P, Q
  <2>. QED  BY <1>5, <1>6
<1>8. Sum(c, T \ {z}) = f[y] + Sum(c, U)
  BY <1>7 DEF Splits
<1>9. Sum(c, T \ {y}) = f[z] + Sum(c, (T \ {y}) \ {z})
  BY <1>7 DEF Splits
<1>10. (T \ {y}) \ {z} = U
  OBVIOUS
<1>11. Sum(c, U) \in Int /\ f[y] \in Int /\ f[z] \in Int
  <2>1. U \in SUBSET D
    BY <1>3
  <2>. QED  BY <1>2, <1>3, <2>1, SumInt DEF Adds
<1>. HIDE DEF U
<1>12. /\ Sum(c, T) = f[z] + (f[y] + Sum(c, U))
       /\ f[y] + Sum(c, T \ {y}) = f[y] + (f[z] + Sum(c, U))
  BY <1>3, <1>8, <1>9, <1>10
<1>13. f[z] + (f[y] + Sum(c, U)) = f[y] + (f[z] + Sum(c, U))
  BY <1>11
<1>. QED  BY <1>2, <1>12, <1>13

\* A part of what is not below zero adds up to no more than all of it.
THEOREM SumPart ==
  \A c, f, D : IsFiniteSet(D) /\ Picks(D) /\ Adds(c, f, D) /\ (\A x \in D : f[x] >= 0) =>
    \A E \in SUBSET D : Sum(c, E) <= Sum(c, D)
<1>. SUFFICES ASSUME NEW c, NEW f, NEW D, IsFiniteSet(D), Picks(D), Adds(c, f, D),
                     \A x \in D : f[x] >= 0, NEW E \in SUBSET D
              PROVE  Sum(c, E) <= Sum(c, D)
  OBVIOUS
<1>. DEFINE F == {T \in SUBSET D : E \subseteq T /\ ~(Sum(c, E) <= Sum(c, T))}
<1>1. SUFFICES ASSUME F # {} PROVE FALSE
  OBVIOUS
<1>2. PICK T \in F : \A U \in F : U \subseteq T => U = T
  <2>1. F \in SUBSET SUBSET D
    OBVIOUS
  <2>. HIDE DEF F
  <2>. QED  BY <1>1, <2>1, MinimalSubset
<1>3. T \in SUBSET D /\ E \subseteq T /\ ~(Sum(c, E) <= Sum(c, T))
  BY <1>2
<1>4. Sum(c, E) \in Int /\ Sum(c, T) \in Int
  BY <1>3, SumInt
<1>5. T # E
  BY <1>3, <1>4
<1>6. PICK x \in T : x \notin E
  BY <1>3, <1>5
<1>7. Sum(c, T) = f[x] + Sum(c, T \ {x})
  BY <1>3, <1>6, SumWithout DEF Splits
<1>8. Sum(c, E) <= Sum(c, T \ {x})
  BY <1>2, <1>3, <1>6
<1>9. Sum(c, T \ {x}) \in Int /\ f[x] \in Int /\ f[x] >= 0
  BY <1>3, SumInt DEF Adds
<1>. QED  BY <1>3, <1>4, <1>7, <1>8, <1>9
=============================================================================
