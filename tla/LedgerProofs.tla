---------------------------- MODULE LedgerProofs ----------------------------
(***************************************************************************)
(* Facts about the operators of Ledger, for every value of its constants:  *)
(* each handler takes a sound ledger to a sound ledger, whether it returns *)
(* or throws.                                                              *)
(***************************************************************************)
EXTENDS Ledger, FiniteSetTheorems, TLAPS

Sound(s) ==
  /\ s \in State
  /\ MinCoversHoldings(s)
  /\ HoldingsWellFormed(s)
  /\ CreatorHolds(s)

\* What no handler of an asset touches.
SameAccounts(s, t) == t.acct = s.acct /\ t.amt = s.amt /\ t.auth = s.auth

-----------------------------------------------------------------------------
(* Sums over finite sets                                                   *)

\* Sum adds up the values of a function, taking out one element at a time.
Plus(f, x, n) == f[x] + n
Any(T) == CHOOSE x \in T : TRUE

Adding == INSTANCE Recursion WITH Op <- Plus, Pick <- Any

SumOver(f, D) == Adding!FoldOver(f, 0, D)

\* Every family of subsets of a finite set has a member that contains no other:
\* what induction over the subsets of the set rests on.
LEMMA MinimalSubset ==
  ASSUME NEW D, IsFiniteSet(D), NEW F \in SUBSET SUBSET D, F # {}
  PROVE  \E T \in F : \A U \in F : U \subseteq T => U = T
BY Adding!MinimalSubset DEF IsFiniteSet, Adding!IsFiniteSet

\* Sum is the fold of this module.
LEMMA SumIsFold ==
  ASSUME NEW f
  PROVE  Sum(f) = SumOver(f, DOMAIN f)
BY DEF Sum, FoldFunction, FoldFunctionOnSet, MapThenFoldSet, SumOver,
       Adding!FoldOver, Adding!Solves, Adding!Rest, Plus, Any

\* The sum over nothing is zero.
LEMMA SumOverNothing ==
  ASSUME NEW f
  PROVE  SumOver(f, {}) = 0
BY Adding!FoldOverNothing DEF SumOver

\* Any other sum is an element and the sum of the rest.
LEMMA SumOverStep ==
  ASSUME NEW f, NEW D, IsFiniteSet(D), D # {}
  PROVE  /\ Any(D) \in D
         /\ SumOver(f, D) = f[Any(D)] + SumOver(f, D \ {Any(D)})
<1>1. Adding!Descends(D)
  BY MinimalSubset DEF Adding!Descends
<1>2. Adding!Picks(D) /\ Any(D) \in D
  BY DEF Adding!Picks, Any
<1>3. Adding!FoldOver(f, 0, D) = Plus(f, Any(D), Adding!FoldOver(f, 0, Adding!Rest(D)))
  BY <1>1, <1>2, Adding!FoldOverStep
<1>. QED  BY <1>2, <1>3 DEF SumOver, Plus, Adding!Rest

\* A sum of integers is an integer.
LEMMA SumOverInt ==
  ASSUME NEW D, IsFiniteSet(D), NEW f, \A x \in D : f[x] \in Int
  PROVE  SumOver(f, D) \in Int
<1>1. Adding!Picks(D) /\ Adding!Adds(f, f, D)
  BY DEF Adding!Picks, Any, Adding!Adds, Plus
<1>. QED  BY <1>1, Adding!SumInt DEF IsFiniteSet, Adding!IsFiniteSet, SumOver, Adding!Sum

\* Which element is taken out does not matter.
LEMMA SumOverRemove ==
  ASSUME NEW D, IsFiniteSet(D), NEW f, \A x \in D : f[x] \in Int, NEW x \in D
  PROVE  SumOver(f, D) = f[x] + SumOver(f, D \ {x})
<1>1. Adding!Picks(D) /\ Adding!Adds(f, f, D)
  BY DEF Adding!Picks, Any, Adding!Adds, Plus
<1>2. Adding!Splits(f, f, D, x)
  BY <1>1, Adding!SumWithout DEF IsFiniteSet, Adding!IsFiniteSet
<1>. QED  BY <1>2 DEF Adding!Splits, SumOver, Adding!Sum

\* A sum depends on the values in its domain alone.
LEMMA SumOverSame ==
  ASSUME NEW D, IsFiniteSet(D), NEW f, NEW g, \A x \in D : f[x] = g[x]
  PROVE  SumOver(f, D) = SumOver(g, D)
<1>. DEFINE F == {T \in SUBSET D : SumOver(f, T) # SumOver(g, T)}
<1>. SUFFICES ASSUME F # {} PROVE FALSE
  OBVIOUS
<1>1. PICK T \in F : \A U \in F : U \subseteq T => U = T
  <2>1. F \in SUBSET SUBSET D
    OBVIOUS
  <2>. HIDE DEF F
  <2>. QED  BY <2>1, MinimalSubset
<1>2. T # {} /\ IsFiniteSet(T)
  BY <1>1, SumOverNothing, FS_Subset
<1>3. /\ Any(T) \in T
      /\ SumOver(f, T) = f[Any(T)] + SumOver(f, T \ {Any(T)})
      /\ SumOver(g, T) = g[Any(T)] + SumOver(g, T \ {Any(T)})
  BY <1>2, SumOverStep
<1>4. SumOver(f, T \ {Any(T)}) = SumOver(g, T \ {Any(T)})
  BY <1>1, <1>3
<1>. QED  BY <1>1, <1>3, <1>4

\* The sum of an integer-valued function is an integer.
LEMMA SumInt ==
  ASSUME NEW D, IsFiniteSet(D), NEW f \in [D -> Int]
  PROVE  Sum(f) \in Int
BY SumIsFold, SumOverInt

\* Changing one value changes the sum by the difference.
LEMMA SumUpdate ==
  ASSUME NEW D, IsFiniteSet(D), NEW f \in [D -> Int], NEW a \in D, NEW v \in Int
  PROVE  Sum([f EXCEPT ![a] = v]) = Sum(f) - f[a] + v
<1>. DEFINE g == [f EXCEPT ![a] = v]
<1>1. g \in [D -> Int] /\ g[a] = v /\ \A x \in D \ {a} : g[x] = f[x]
  OBVIOUS
<1>. HIDE DEF g
<1>2. Sum(g) = v + SumOver(g, D \ {a}) /\ Sum(f) = f[a] + SumOver(f, D \ {a})
  BY <1>1, SumIsFold, SumOverRemove
<1>3. SumOver(g, D \ {a}) = SumOver(f, D \ {a}) /\ SumOver(f, D \ {a}) \in Int
  BY <1>1, SumOverSame, SumOverInt, FS_Subset
<1>. QED  BY <1>2, <1>3 DEF g

\* A function that differs from another in one place.
LEMMA SumOfOneChange ==
  ASSUME NEW D, IsFiniteSet(D), NEW f \in [D -> Int], NEW g \in [D -> Int],
         NEW a \in D, \A x \in D \ {a} : g[x] = f[x]
  PROVE  Sum(g) = Sum(f) - f[a] + g[a]
<1>1. g = [f EXCEPT ![a] = g[a]] /\ g[a] \in Int
  OBVIOUS
<1>. QED  BY <1>1, SumUpdate

\* What one place loses and another gains leaves the sum as it was.
LEMMA SumOfMove ==
  ASSUME NEW D, IsFiniteSet(D), NEW f \in [D -> Int], NEW g \in [D -> Int],
         NEW a \in D, NEW b \in D, \A x \in D \ {a, b} : g[x] = f[x],
         IF a = b THEN g[a] = f[a] ELSE g[a] + g[b] = f[a] + f[b]
  PROVE  Sum(g) = Sum(f)
<1>. DEFINE h == [f EXCEPT ![a] = g[a]]
<1>1. /\ h \in [D -> Int] /\ h[a] = g[a] /\ f[a] \in Int /\ g[a] \in Int
      /\ \A x \in D \ {a} : h[x] = f[x]
  OBVIOUS
<1>2. h[b] \in Int /\ g[b] \in Int /\ \A x \in D \ {b} : g[x] = h[x]
  BY <1>1
<1>. HIDE DEF h
<1>3. Sum(h) = Sum(f) - f[a] + h[a] /\ Sum(f) \in Int /\ Sum(h) \in Int
  BY <1>1, SumOfOneChange, SumInt
<1>4. Sum(g) = Sum(h) - h[b] + g[b]
  BY <1>1, <1>2, SumOfOneChange
<1>5. h[b] = IF a = b THEN g[a] ELSE f[b]
  BY <1>1
<1>. QED  BY <1>1, <1>2, <1>3, <1>4, <1>5

\* The sum of zeros is zero.
LEMMA SumOfZeros ==
  ASSUME NEW D, IsFiniteSet(D), NEW f \in [D -> {0}]
  PROVE  Sum(f) = 0
<1>. DEFINE F == {T \in SUBSET D : SumOver(f, T) # 0}
<1>1. ASSUME F # {} PROVE FALSE
  <2>1. PICK T \in F : \A U \in F : U \subseteq T => U = T
    <3>1. F \in SUBSET SUBSET D
      OBVIOUS
    <3>. HIDE DEF F
    <3>. QED  BY <1>1, <3>1, MinimalSubset
  <2>2. T # {} /\ IsFiniteSet(T)
    BY <2>1, SumOverNothing, FS_Subset
  <2>3. Any(T) \in T /\ SumOver(f, T) = f[Any(T)] + SumOver(f, T \ {Any(T)})
    BY <2>2, SumOverStep
  <2>4. SumOver(f, T \ {Any(T)}) = 0
    BY <2>1, <2>3
  <2>. QED  BY <2>1, <2>3, <2>4
<1>. QED  BY <1>1, SumIsFold

-----------------------------------------------------------------------------
(* Handlers                                                                *)

\* An account has finitely many holdings.
LEMMA HoldingsFinite ==
  ASSUME NEW s \in State, HoldingsWellFormed(s), NEW a \in Addr
  PROVE  IsFiniteSet(s.opted[a]) /\ Cardinality(s.opted[a]) \in Nat
<1>1. s.opted[a] \in SUBSET (1..s.ctr) /\ s.ctr \in Nat
  BY LedgerAssumption DEF State, HoldingsWellFormed
<1>2. IsFiniteSet(1..s.ctr)
  BY <1>1, FS_Interval
<1>3. IsFiniteSet(s.opted[a])
  BY <1>1, <1>2, FS_Subset
<1>. QED  BY <1>3, FS_CardinalityType

\* Adding or removing one holding moves the price of the holdings by one fee.
LEMMA FeeSteps ==
  ASSUME NEW n \in Nat
  PROVE  /\ AssetFee * n \in Nat
         /\ AssetFee * (n + 1) = AssetFee * n + AssetFee
         /\ n > 0 => AssetFee * (n - 1) = AssetFee * n - AssetFee
BY LedgerAssumption DEF LedgerAssumption

\* A ledger that differs from a sound one only in Algos, signing authority,
\* units and freeze flags within holdings, and roles is sound.
LEMMA SameHoldings ==
  ASSUME NEW s, Sound(s), NEW t \in State,
         t.min = s.min, t.opted = s.opted, t.live = s.live, t.ctr = s.ctr,
         s.acct \subseteq t.acct,
         \A c \in Asset : t.def[c].creator = s.def[c].creator,
         \A a \in Addr : t.frozen[a] \subseteq s.opted[a],
         \A a \in Addr, c \in Asset : c \notin s.opted[a] => t.units[a][c] = 0
  PROVE  Sound(t)
<1>1. MinCoversHoldings(t)
  BY DEF Sound, MinCoversHoldings
<1>2. HoldingsWellFormed(t)
  BY DEF Sound, HoldingsWellFormed
<1>3. CreatorHolds(t)
  BY DEF Sound, CreatorHolds, State
<1>. QED  BY <1>1, <1>2, <1>3 DEF Sound

\* So is one that differs only in Algos.
LEMMA AlgosOnly ==
  ASSUME NEW s, Sound(s), NEW f \in [Addr -> Int]
  PROVE  Sound([s EXCEPT !.amt = f])
<1>. DEFINE t == [s EXCEPT !.amt = f]
<1>1. s \in State
  BY DEF Sound
<1>2. t \in State
  BY <1>1 DEF State
<1>3. /\ t.min = s.min /\ t.opted = s.opted /\ t.live = s.live /\ t.ctr = s.ctr
      /\ t.acct = s.acct /\ t.def = s.def /\ t.frozen = s.frozen /\ t.units = s.units
  BY <1>1 DEF State
<1>4. \A b \in Addr : t.frozen[b] \subseteq s.opted[b]
  BY <1>3 DEF Sound, HoldingsWellFormed
<1>5. \A b \in Addr, c \in Asset : c \notin s.opted[b] => t.units[b][c] = 0
  BY <1>3 DEF Sound, HoldingsWellFormed
<1>. HIDE DEF t
<1>6. Sound(t)
  BY <1>2, <1>3, <1>4, <1>5, SameHoldings
<1>. QED  BY <1>6 DEF t

\* In a sound ledger no minimum balance is negative.
LEMMA MinNonNegative ==
  ASSUME NEW s, Sound(s), NEW a \in Addr
  PROVE  s.min[a] \in Nat
<1>1. s \in State /\ HoldingsWellFormed(s) /\ MinCoversHoldings(s)
  BY DEF Sound
<1>2. Cardinality(s.opted[a]) \in Nat
  BY <1>1, HoldingsFinite
<1>3. AssetFee * Cardinality(s.opted[a]) \in Nat
  BY <1>2, FeeSteps
<1>4. s.min[a] >= AccountMin + AssetFee * Cardinality(s.opted[a]) /\ s.min[a] \in Int
  BY <1>1 DEF MinCoversHoldings, State
<1>. QED  BY <1>3, <1>4, LedgerAssumption DEF LedgerAssumption

\* Taking Algos from an account keeps a ledger sound.
LEMMA DebitSound ==
  ASSUME NEW s, Sound(s), NEW a \in Addr, NEW n \in Int
  PROVE  /\ Sound(Debit(s, a, n))
         /\ Debit(s, a, n).acct = s.acct /\ Debit(s, a, n).ctr = s.ctr
         /\ Debit(s, a, n).min = s.min /\ Debit(s, a, n).auth = s.auth
         /\ Debit(s, a, n).amt = [s.amt EXCEPT ![a] = s.amt[a] - n]
<1>. DEFINE f == [s.amt EXCEPT ![a] = s.amt[a] - n]
            t == [s EXCEPT !.amt = f]
<1>1. s \in State
  BY DEF Sound
<1>2. f \in [Addr -> Int]
  BY <1>1 DEF State
<1>3. Debit(s, a, n) = t
  BY <1>1 DEF State, Debit
<1>. HIDE DEF f
<1>4. /\ t.acct = s.acct /\ t.ctr = s.ctr /\ t.min = s.min
      /\ t.auth = s.auth /\ t.amt = f
  BY <1>1, <1>2 DEF State
<1>5. Sound(t)
  BY <1>2, AlgosOnly
<1>. QED  BY <1>3, <1>4, <1>5 DEF f

\* Giving Algos to an account keeps a ledger sound.
LEMMA CreditSound ==
  ASSUME NEW s, Sound(s), NEW a \in Addr, NEW n \in Int
  PROVE  /\ Sound(Credit(s, a, n))
         /\ Credit(s, a, n).acct = s.acct /\ Credit(s, a, n).ctr = s.ctr
         /\ Credit(s, a, n).min = s.min /\ Credit(s, a, n).auth = s.auth
         /\ Credit(s, a, n).amt = [s.amt EXCEPT ![a] = s.amt[a] + n]
<1>. DEFINE f == [s.amt EXCEPT ![a] = s.amt[a] + n]
            t == [s EXCEPT !.amt = f]
<1>1. s \in State
  BY DEF Sound
<1>2. f \in [Addr -> Int]
  BY <1>1 DEF State
<1>3. Credit(s, a, n) = t
  BY <1>1 DEF State, Credit
<1>. HIDE DEF f
<1>4. /\ t.acct = s.acct /\ t.ctr = s.ctr /\ t.min = s.min
      /\ t.auth = s.auth /\ t.amt = f
  BY <1>1, <1>2 DEF State
<1>5. Sound(t)
  BY <1>2, AlgosOnly
<1>. QED  BY <1>3, <1>4, <1>5 DEF f

\* Units move only between two holdings.
LEMMA MoveUnitsSound ==
  ASSUME NEW s, Sound(s), NEW a \in Addr, NEW b \in Addr, NEW c \in Asset,
         NEW n \in Nat, n <= s.units[a][c], Holds(s, a, c), Holds(s, b, c)
  PROVE  LET t == MoveUnits(s, a, b, c, n)
         IN  /\ Sound(t) /\ SameAccounts(s, t)
             /\ t.opted = s.opted /\ t.frozen = s.frozen /\ t.live = s.live
             /\ t.def = s.def /\ t.ctr = s.ctr
<1>. DEFINE less == [s.units EXCEPT ![a] = [s.units[a] EXCEPT ![c] = s.units[a][c] - n]]
            more == [less EXCEPT ![b] = [less[b] EXCEPT ![c] = less[b][c] + n]]
            t == [s EXCEPT !.units = more]
<1>1. s.units \in [Addr -> [Asset -> Nat]] /\ s.units[a][c] - n \in Nat
  BY DEF Sound, State
<1>2. less \in [Addr -> [Asset -> Nat]]
  BY <1>1
<1>3. less[b][c] + n \in Nat
  BY <1>2
<1>4. more \in [Addr -> [Asset -> Nat]]
  BY <1>2, <1>3
<1>5. MoveUnits(s, a, b, c, n) = t
  BY DEF MoveUnits, AddUnits, SubUnits, Sound, State
<1>6. t \in State
  BY <1>4 DEF Sound, State
<1>7. \A d \in Addr, e \in Asset : e \notin s.opted[d] => more[d][e] = 0
  BY <1>1, <1>2, <1>4 DEF Sound, HoldingsWellFormed, Holds
<1>8. \A d \in Addr : s.frozen[d] \subseteq s.opted[d]
  BY DEF Sound, HoldingsWellFormed
<1>9. /\ t.min = s.min /\ t.opted = s.opted /\ t.live = s.live /\ t.ctr = s.ctr
      /\ t.acct = s.acct /\ t.def = s.def /\ t.frozen = s.frozen /\ t.units = more
      /\ t.amt = s.amt /\ t.auth = s.auth
  BY DEF Sound, State
<1>. HIDE DEF more, t
<1>10. Sound(t)
  BY <1>6, <1>7, <1>8, <1>9, SameHoldings
<1>. QED  BY <1>5, <1>9, <1>10 DEF SameAccounts

\* A holding may be closed unless it is that of a live asset's creator.
LEMMA CloseAssetSound ==
  ASSUME NEW s, Sound(s), NEW a \in Addr, NEW c \in Asset, Holds(s, a, c),
         s.def[c].creator # a
  PROVE  LET t == CloseAsset(s, a, c)
         IN  Sound(t) /\ SameAccounts(s, t) /\ t.ctr = s.ctr
<1>. DEFINE t == CloseAsset(s, a, c)
<1>1. s \in State
  BY DEF Sound
<1>2. s.min[a] - AssetFee \in Int
  BY <1>1, LedgerAssumption DEF LedgerAssumption, State
<1>3. [s.units EXCEPT ![a][c] = 0] \in [Addr -> [Asset -> Nat]]
  BY <1>1 DEF State
<1>4. /\ t.acct = s.acct /\ t.amt = s.amt /\ t.auth = s.auth /\ t.ctr = s.ctr
      /\ t.live = s.live /\ t.def = s.def
      /\ t.min = [s.min EXCEPT ![a] = s.min[a] - AssetFee]
      /\ t.opted = [s.opted EXCEPT ![a] = s.opted[a] \ {c}]
      /\ t.frozen = [s.frozen EXCEPT ![a] = s.frozen[a] \ {c}]
      /\ t.units = [s.units EXCEPT ![a][c] = 0]
  BY <1>1 DEF State, CloseAsset
<1>5. t \in State
  BY <1>1, <1>2, <1>3 DEF State, CloseAsset
<1>. HIDE DEF t
<1>6. MinCoversHoldings(t)
  <2>. SUFFICES ASSUME NEW b \in Addr
                PROVE  t.min[b] >= AccountMin + AssetFee * Cardinality(t.opted[b])
    BY DEF MinCoversHoldings
  <2>1. CASE b # a
    BY <2>1, <1>1, <1>4 DEF Sound, MinCoversHoldings, State
  <2>2. CASE b = a
    <3>. DEFINE n == Cardinality(s.opted[a])
    <3>1. IsFiniteSet(s.opted[a]) /\ n \in Nat
      BY <1>1, HoldingsFinite DEF Sound
    <3>2. Cardinality(s.opted[a] \ {c}) = n - 1 /\ n - 1 \in Nat
      <4>1. /\ IsFiniteSet(s.opted[a] \ {c})
            /\ Cardinality(s.opted[a] \ {c}) = n - 1
        BY <3>1, FS_RemoveElement DEF Holds
      <4>. QED  BY <4>1, FS_CardinalityType
    <3>3. s.min[a] >= AccountMin + AssetFee * n
      BY DEF Sound, MinCoversHoldings
    <3>4. AssetFee * (n - 1) = AssetFee * n - AssetFee /\ AssetFee * n \in Nat
      BY <3>1, <3>2, FeeSteps
    <3>5. t.min[a] = s.min[a] - AssetFee /\ t.opted[a] = s.opted[a] \ {c}
          /\ s.min[a] \in Int
      BY <1>1, <1>4 DEF State
    <3>. HIDE DEF n
    <3>6. t.min[a] >= AccountMin + AssetFee * (n - 1)
      BY <3>3, <3>4, <3>5, LedgerAssumption DEF LedgerAssumption
    <3>. QED  BY <2>2, <3>2, <3>5, <3>6
  <2>. QED  BY <2>1, <2>2
<1>7. HoldingsWellFormed(t)
  BY <1>1, <1>4 DEF Sound, HoldingsWellFormed, State
<1>8. CreatorHolds(t)
  BY <1>1, <1>4 DEF Sound, CreatorHolds, State, Definition
<1>9. Sound(t)
  BY <1>5, <1>6, <1>7, <1>8 DEF Sound
<1>. QED  BY <1>4, <1>9 DEF t, SameAccounts

\* A new holding, priced by one more fee, is sound.
LEMMA AddHoldingSound ==
  ASSUME NEW s, Sound(s), NEW t \in State, NEW a \in Addr, NEW c \in Asset,
         a \in s.acct, ~Holds(s, a, c), SameAccounts(s, t),
         c \in 1..t.ctr, s.ctr <= t.ctr,
         t.min = [s.min EXCEPT ![a] = s.min[a] + AssetFee],
         t.opted = [s.opted EXCEPT ![a] = s.opted[a] \cup {c}],
         \A b \in Addr : t.frozen[b] \subseteq t.opted[b],
         \A b \in Addr, e \in Asset : e \notin t.opted[b] => t.units[b][e] = 0,
         \A e \in t.live : e \in t.opted[t.def[e].creator]
  PROVE  Sound(t)
<1>1. s \in State
  BY DEF Sound
<1>2. MinCoversHoldings(t)
  <2>. SUFFICES ASSUME NEW b \in Addr
                PROVE  t.min[b] >= AccountMin + AssetFee * Cardinality(t.opted[b])
    BY DEF MinCoversHoldings
  <2>1. CASE b # a
    BY <2>1, <1>1 DEF Sound, MinCoversHoldings, State
  <2>2. CASE b = a
    <3>. DEFINE n == Cardinality(s.opted[a])
    <3>1. IsFiniteSet(s.opted[a]) /\ n \in Nat
      BY <1>1, HoldingsFinite DEF Sound
    <3>2. Cardinality(s.opted[a] \cup {c}) = n + 1
      BY <3>1, FS_AddElement DEF Holds
    <3>3. s.min[a] >= AccountMin + AssetFee * n
      BY DEF Sound, MinCoversHoldings
    <3>4. AssetFee * (n + 1) = AssetFee * n + AssetFee /\ AssetFee * n \in Nat
      BY <3>1, FeeSteps
    <3>5. t.min[a] = s.min[a] + AssetFee /\ t.opted[a] = s.opted[a] \cup {c}
          /\ s.min[a] \in Int
      BY <1>1 DEF State
    <3>. HIDE DEF n
    <3>6. t.min[a] >= AccountMin + AssetFee * (n + 1)
      BY <3>3, <3>4, <3>5, LedgerAssumption DEF LedgerAssumption
    <3>. QED  BY <2>2, <3>2, <3>5, <3>6
  <2>. QED  BY <2>1, <2>2
<1>3. \A b \in Addr : t.opted[b] \subseteq 1..t.ctr
  BY <1>1 DEF Sound, HoldingsWellFormed, State
<1>4. \A b \in Addr : t.opted[b] # {} => b \in t.acct
  BY <1>1 DEF Sound, HoldingsWellFormed, State, SameAccounts
<1>5. HoldingsWellFormed(t)
  BY <1>3, <1>4 DEF HoldingsWellFormed
<1>. QED  BY <1>2, <1>5 DEF Sound, CreatorHolds

\* optInToASA leaves a sound ledger, whether it returns or throws.
LEMMA OptInSound ==
  ASSUME NEW s, Sound(s), NEW a \in Addr, NEW c \in Asset, NEW kind
  PROVE  LET t == OptInToASA(s, a, c, kind).s
         IN  /\ Sound(t) /\ SameAccounts(s, t) /\ t.ctr = s.ctr
             /\ t.def = s.def /\ t.units = s.units
<1>. DEFINE t == [s EXCEPT !.min[a]    = @ + AssetFee,
                           !.opted[a]  = @ \cup {c},
                           !.frozen[a] = IF s.def[c].defaultFrozen THEN @ \cup {c} ELSE @]
<1>1. s \in State
  BY DEF Sound
<1>2. CASE c \in s.live /\ a \in s.acct /\ ~Holds(s, a, c)
  <2>1. /\ t.acct = s.acct /\ t.amt = s.amt /\ t.auth = s.auth /\ t.ctr = s.ctr
        /\ t.live = s.live /\ t.def = s.def /\ t.units = s.units
        /\ t.min = [s.min EXCEPT ![a] = s.min[a] + AssetFee]
        /\ t.opted = [s.opted EXCEPT ![a] = s.opted[a] \cup {c}]
        /\ t.frozen = [s.frozen EXCEPT ![a] = IF s.def[c].defaultFrozen
                                              THEN s.frozen[a] \cup {c} ELSE s.frozen[a]]
    BY <1>1 DEF State
  <2>2. t \in State
    <3>. DEFINE m == [s.min EXCEPT ![a] = s.min[a] + AssetFee]
                o == [s.opted EXCEPT ![a] = s.opted[a] \cup {c}]
                f == [s.frozen EXCEPT ![a] = IF s.def[c].defaultFrozen
                                            THEN s.frozen[a] \cup {c} ELSE s.frozen[a]]
    <3>1. m \in [Addr -> Int]
      BY <1>1, LedgerAssumption DEF State, LedgerAssumption
    <3>2. o \in [Addr -> SUBSET Asset] /\ f \in [Addr -> SUBSET Asset]
      BY <1>1 DEF State
    <3>3. t = [s EXCEPT !.min = m, !.opted = o, !.frozen = f]
      BY <1>1 DEF State
    <3>. HIDE DEF m, o, f, t
    <3>. QED  BY <1>1, <3>1, <3>2, <3>3 DEF State
  <2>. HIDE DEF t
  <2>3. c \in 1..s.ctr
    BY <1>1, <1>2 DEF Sound, CreatorHolds, HoldingsWellFormed, State, Definition
  <2>4. \A b \in Addr : t.frozen[b] \subseteq t.opted[b]
    BY <1>1, <2>1 DEF Sound, HoldingsWellFormed, State
  <2>5. \A b \in Addr, e \in Asset : e \notin t.opted[b] => t.units[b][e] = 0
    BY <1>1, <2>1 DEF Sound, HoldingsWellFormed, State
  <2>6. \A e \in t.live : e \in t.opted[t.def[e].creator]
    BY <1>1, <2>1 DEF Sound, CreatorHolds, State
  <2>7. Sound(t)
    <3>1. SameAccounts(s, t) /\ c \in 1..t.ctr /\ s.ctr <= t.ctr
      BY <1>1, <2>1, <2>3 DEF SameAccounts, State
    <3>2. a \in s.acct /\ ~Holds(s, a, c)
      BY <1>2
    <3>. QED  BY <2>1, <2>2, <2>4, <2>5, <2>6, <3>1, <3>2, AddHoldingSound
  <2>8. OptInToASA(s, a, c, kind).s = t
    BY <1>2 DEF OptInToASA, t, Throw
  <2>. QED  BY <2>1, <2>7, <2>8 DEF SameAccounts
<1>3. CASE ~(c \in s.live /\ a \in s.acct /\ ~Holds(s, a, c))
  BY <1>3 DEF OptInToASA, Throw, SameAccounts
<1>. QED  BY <1>2, <1>3

\* A new asset needs room under the bound.
LEMMA DeploySound ==
  ASSUME NEW s, Sound(s), s.ctr < MaxAsset, NEW a \in Addr, NEW total \in Nat,
         NEW frozen \in BOOLEAN, NEW roles \in Roles, NEW bad, NEW kind
  PROVE  LET t == DeployASA(s, a, total, frozen, roles, bad, kind).s
         IN  Sound(t) /\ SameAccounts(s, t) /\ t.ctr \in s.ctr..(s.ctr + 1)
<1>. DEFINE id == s.ctr + 1
            made == [s EXCEPT
                 !.ctr          = id,
                 !.def[id]      = [creator |-> a, total |-> total,
                                   defaultFrozen |-> frozen, roles |-> roles],
                 !.min[a]       = @ + AssetFee,
                 !.opted[a]     = @ \cup {id},
                 !.units[a][id] = total]
            done == [made EXCEPT !.live = @ \cup {id}]
<1>1. s \in State /\ id \in Asset /\ id \in Nat /\ s.ctr \in Nat /\ id \in 0..MaxAsset
  BY LedgerAssumption DEF Sound, State, Asset, LedgerAssumption
<1>. DEFINE d == [creator |-> a, total |-> total, defaultFrozen |-> frozen, roles |-> roles]
<1>2. d \in Definition
  BY DEF Definition
<1>3. /\ made.acct = s.acct /\ made.amt = s.amt /\ made.auth = s.auth
      /\ made.ctr = id /\ made.live = s.live /\ made.frozen = s.frozen
      /\ made.def = [s.def EXCEPT ![id] = d]
      /\ made.min = [s.min EXCEPT ![a] = s.min[a] + AssetFee]
      /\ made.opted = [s.opted EXCEPT ![a] = s.opted[a] \cup {id}]
      /\ made.units = [s.units EXCEPT ![a][id] = total]
  BY <1>1 DEF State
<1>. HIDE DEF d
<1>4. made \in State
  <2>1. [s.def EXCEPT ![id] = d] \in [Asset -> Definition]
    BY <1>1, <1>2 DEF State
  <2>2. [s.units EXCEPT ![a][id] = total] \in [Addr -> [Asset -> Nat]]
    BY <1>1 DEF State
  <2>3. [s.min EXCEPT ![a] = s.min[a] + AssetFee] \in [Addr -> Int]
    BY <1>1, LedgerAssumption DEF State, LedgerAssumption
  <2>4. [s.opted EXCEPT ![a] = s.opted[a] \cup {id}] \in [Addr -> SUBSET Asset]
    BY <1>1 DEF State
  <2>. DEFINE D == [s.def EXCEPT ![id] = d]
              U == [s.units EXCEPT ![a][id] = total]
              m == [s.min EXCEPT ![a] = s.min[a] + AssetFee]
              o == [s.opted EXCEPT ![a] = s.opted[a] \cup {id}]
  <2>5. made = [s EXCEPT !.ctr = id, !.def = D, !.min = m, !.opted = o, !.units = U]
    BY <1>1 DEF State, d
  <2>. HIDE DEF D, U, m, o, made, id
  <2>. QED  BY <1>1, <2>1, <2>2, <2>3, <2>4, <2>5 DEF State, D, U, m, o
<1>5. done \in State
  <2>. DEFINE L == s.live \cup {id}
  <2>1. L \subseteq Asset /\ done = [made EXCEPT !.live = L]
    BY <1>1, <1>3 DEF State
  <2>. HIDE DEF L, made, done
  <2>. QED  BY <1>4, <2>1 DEF State
<1>6. /\ done.acct = made.acct /\ done.amt = made.amt /\ done.auth = made.auth
      /\ done.ctr = made.ctr /\ done.live = s.live \cup {id} /\ done.frozen = made.frozen
      /\ done.def = made.def /\ done.min = made.min /\ done.opted = made.opted
      /\ done.units = made.units
  BY <1>3, <1>4 DEF State
<1>. HIDE DEF made, done
<1>7. ~Holds(s, a, id)
  BY <1>1 DEF Sound, HoldingsWellFormed, Holds, State
<1>8. \A b \in Addr : made.frozen[b] \subseteq made.opted[b]
  BY <1>1, <1>3 DEF Sound, HoldingsWellFormed, State
<1>9. \A b \in Addr, e \in Asset : e \notin made.opted[b] => made.units[b][e] = 0
  BY <1>1, <1>3 DEF Sound, HoldingsWellFormed, State
<1>10. \A e \in s.live \cup {id} : e \in made.opted[made.def[e].creator]
  <2>1. id \in made.opted[made.def[id].creator]
    BY <1>1, <1>3 DEF State, d
  <2>2. \A e \in s.live : e # id
    BY <1>1 DEF Sound, CreatorHolds, HoldingsWellFormed, State, Definition
  <2>3. \A e \in s.live : e \in made.opted[s.def[e].creator]
    BY <1>1, <1>3 DEF Sound, CreatorHolds, State, Definition
  <2>4. \A e \in s.live : made.def[e] = s.def[e]
    BY <1>1, <1>3, <2>2 DEF State
  <2>. QED  BY <2>1, <2>3, <2>4
<1>11. s.ctr <= id /\ id \in 1..id /\ SameAccounts(s, made) /\ SameAccounts(s, done)
  BY <1>1, <1>3, <1>6 DEF SameAccounts
<1>12. ASSUME a \in s.acct, NEW t \in {made, done} PROVE Sound(t)
  <2>1. /\ t \in State /\ SameAccounts(s, t) /\ t.ctr = id /\ t.live \subseteq s.live \cup {id}
        /\ t.min = made.min /\ t.opted = made.opted /\ t.frozen = made.frozen
        /\ t.def = made.def /\ t.units = made.units
    BY <1>3, <1>4, <1>5, <1>6, <1>11, <1>12
  <2>2. id \in 1..t.ctr /\ s.ctr <= t.ctr
    BY <1>11, <2>1
  <2>3. \A e \in t.live : e \in t.opted[t.def[e].creator]
    BY <1>10, <2>1
  <2>4. /\ t.min = [s.min EXCEPT ![a] = s.min[a] + AssetFee]
        /\ t.opted = [s.opted EXCEPT ![a] = s.opted[a] \cup {id}]
    BY <1>3, <2>1
  <2>5. \A b \in Addr : t.frozen[b] \subseteq t.opted[b]
    BY <1>8, <2>1
  <2>6. \A b \in Addr, e \in Asset : e \notin t.opted[b] => t.units[b][e] = 0
    BY <1>9, <2>1
  <2>7. id \in Asset /\ t \in State
    BY <1>1, <2>1
  <2>. HIDE DEF id
  <2>. QED  BY <1>7, <1>12, <2>1, <2>2, <2>3, <2>4, <2>5, <2>6, <2>7, AddHoldingSound
<1>13. DeployASA(s, a, total, frozen, roles, bad, kind).s
         \in IF a \in s.acct THEN {made, done} ELSE {s}
  BY DEF DeployASA, Throw, Ok, made, done
<1>. QED
  BY <1>1, <1>3, <1>6, <1>11, <1>12, <1>13 DEF SameAccounts

\* The handlers of transfers of an asset, freezes and clawbacks.
LEMMA TransferAssetSound ==
  ASSUME NEW s, Sound(s), NEW tx \in Tx
  PROVE  LET t == TransferAsset(s, tx).s
         IN  Sound(t) /\ SameAccounts(s, t) /\ t.ctr = s.ctr
<1>. DEFINE x == tx.from
            c == tx.asset
            opt == IF tx.amt = 0 /\ x = tx.to THEN OptInToASA(s, x, c, tx.type) ELSE Ok(s)
            s1 == opt.s
            s2 == MoveUnits(s1, x, tx.to, c, tx.amt)
            s3 == MoveUnits(s2, x, tx.close, c, s2.units[x][c])
            s4 == CloseAsset(s3, x, c)
            mayMove == /\ opt.ok
                       /\ Holds(s1, x, c) /\ Holds(s1, tx.to, c)
                       /\ tx.amt # 0 => Unfrozen(s1, x, c) /\ Unfrozen(s1, tx.to, c)
                       /\ s1.units[x][c] >= tx.amt
            mayClose == /\ tx.close \in Addr \ {x, NoAddr}
                        /\ x # s1.def[c].creator
                        /\ Unfrozen(s1, tx.close, c)
<1>1. x \in Addr /\ tx.to \in Addr /\ c \in Asset /\ tx.amt \in Nat
  BY DEF Tx
<1>2. Sound(s1) /\ SameAccounts(s, s1) /\ s1.ctr = s.ctr
  BY <1>1, OptInSound DEF Ok, SameAccounts
<1>3. TransferAsset(s, tx) = IF ~mayMove THEN Throw(s1)
                             ELSE IF tx.close = NoAddr THEN Ok(s2)
                             ELSE IF mayClose THEN Ok(s4) ELSE Throw(s2)
  BY DEF TransferAsset
<1>. HIDE DEF x, c, opt, s1
<1>4. ASSUME mayMove
      PROVE  /\ Sound(s2) /\ SameAccounts(s1, s2) /\ s2.ctr = s1.ctr
             /\ s2.opted = s1.opted /\ s2.def = s1.def
  BY <1>1, <1>2, <1>4, MoveUnitsSound
<1>. HIDE DEF s2
<1>5. ASSUME mayMove, mayClose
      PROVE  /\ Sound(s4) /\ SameAccounts(s1, s4) /\ s4.ctr = s1.ctr
  <2>1. Holds(s2, x, c) /\ Holds(s2, tx.close, c) /\ tx.close \in Addr
    BY <1>4, <1>5 DEF Holds, Unfrozen
  <2>2. s2.units[x][c] \in Nat
    BY <1>1, <1>4, <1>5 DEF Sound, State
  <2>3. /\ Sound(s3) /\ SameAccounts(s2, s3) /\ s3.ctr = s2.ctr
        /\ s3.opted = s2.opted /\ s3.def = s2.def
    <3>1. s2.units[x][c] <= s2.units[x][c]
      BY <2>2
    <3>. QED  BY <1>1, <1>4, <1>5, <2>1, <2>2, <3>1, MoveUnitsSound
  <2>4. Holds(s3, x, c) /\ s3.def[c].creator # x
    BY <1>4, <1>5, <2>1, <2>3 DEF Holds
  <2>. HIDE DEF s3
  <2>5. Sound(s4) /\ SameAccounts(s3, s4) /\ s4.ctr = s3.ctr
    BY <1>1, <2>3, <2>4, CloseAssetSound
  <2>. QED  BY <1>4, <1>5, <2>3, <2>5 DEF SameAccounts
<1>6. SameAccounts(s, s1) /\ s1.ctr = s.ctr
  BY <1>2
<1>. HIDE DEF s4, mayMove, mayClose
<1>. QED  BY <1>2, <1>3, <1>4, <1>5 DEF Ok, Throw, SameAccounts

\* A clawback leaves a sound ledger.
LEMMA RevokeAssetSound ==
  ASSUME NEW s, Sound(s), NEW tx \in Tx
  PROVE  LET t == RevokeAsset(s, tx).s
         IN  Sound(t) /\ SameAccounts(s, t) /\ t.ctr = s.ctr
<1>. DEFINE t == MoveUnits(s, tx.target, tx.to, tx.asset, tx.amt)
            ready == /\ Holds(s, tx.target, tx.asset) /\ Holds(s, tx.to, tx.asset)
                     /\ s.units[tx.target][tx.asset] >= tx.amt
<1>1. tx.target \in Addr /\ tx.to \in Addr /\ tx.asset \in Asset /\ tx.amt \in Nat
  BY DEF Tx
<1>2. ASSUME ready PROVE Sound(t) /\ SameAccounts(s, t) /\ t.ctr = s.ctr
  <2>1. tx.amt <= s.units[tx.target][tx.asset]
    BY <1>1, <1>2 DEF Sound, State
  <2>. QED  BY <1>1, <1>2, <2>1, MoveUnitsSound
<1>3. RevokeAsset(s, tx).s = s \/ (ready /\ RevokeAsset(s, tx).s = t)
  BY DEF RevokeAsset, Ok, Throw
<1>. HIDE DEF t, ready
<1>. QED  BY <1>2, <1>3 DEF SameAccounts

\* Freezing or unfreezing a holding leaves a sound ledger.
LEMMA FreezeAssetSound ==
  ASSUME NEW s, Sound(s), NEW tx \in Tx
  PROVE  LET t == FreezeAsset(s, tx).s
         IN  Sound(t) /\ SameAccounts(s, t) /\ t.ctr = s.ctr
<1>. DEFINE x == tx.target
            c == tx.asset
            F == [s.frozen EXCEPT ![x] = IF tx.flag THEN s.frozen[x] \cup {c}
                                                    ELSE s.frozen[x] \ {c}]
            t == [s EXCEPT !.frozen = F]
<1>1. s \in State /\ x \in Addr /\ c \in Asset
  BY DEF Sound, Tx
<1>2. F \in [Addr -> SUBSET Asset]
  BY <1>1 DEF State
<1>3. FreezeAsset(s, tx).s = s \/ (Holds(s, x, c) /\ FreezeAsset(s, tx).s = t)
  BY <1>1 DEF FreezeAsset, Ok, Throw, State
<1>4. ASSUME Holds(s, x, c) PROVE \A b \in Addr : F[b] \subseteq s.opted[b]
  BY <1>1, <1>4 DEF Sound, HoldingsWellFormed, Holds, State
<1>. HIDE DEF F, c, x
<1>5. /\ t \in State
      /\ t.min = s.min /\ t.opted = s.opted /\ t.live = s.live /\ t.ctr = s.ctr
      /\ t.acct = s.acct /\ t.def = s.def /\ t.frozen = F /\ t.units = s.units
      /\ t.amt = s.amt /\ t.auth = s.auth
  BY <1>1, <1>2 DEF State
<1>6. \A b \in Addr, e \in Asset : e \notin s.opted[b] => t.units[b][e] = 0
  BY <1>5 DEF Sound, HoldingsWellFormed
<1>. HIDE DEF t
<1>7. ASSUME Holds(s, x, c) PROVE Sound(t)
  BY <1>4, <1>5, <1>6, <1>7, SameHoldings
<1>. QED  BY <1>3, <1>5, <1>7 DEF SameAccounts

\* A configuration leaves a sound ledger, also when it throws half-way.
LEMMA ModifyAssetSound ==
  ASSUME NEW s, Sound(s), NEW tx \in Tx
  PROVE  LET t == ModifyAsset(s, tx).s
         IN  Sound(t) /\ SameAccounts(s, t) /\ t.ctr = s.ctr
<1>. DEFINE c == tx.asset
            old == s.def[c].roles
            blocked(r) == old[r] = NoAddr /\ tx.roles[r] # NoAddr
            reached(r) == \A q \in Role : RoleRank[q] <= RoleRank[r] => ~blocked(q)
            new == [r \in Role |-> IF reached(r) /\ old[r] # NoAddr THEN tx.roles[r]
                                   ELSE old[r]]
            D == [s.def EXCEPT ![c] = [s.def[c] EXCEPT !.roles = new]]
            t == [s EXCEPT !.def = D]
<1>1. s \in State /\ c \in Asset /\ tx.roles \in Roles
  BY DEF Sound, Tx
<1>2. old \in Roles /\ s.def[c] \in Definition
  BY <1>1 DEF State, Definition
<1>3. new \in Roles
  BY <1>1, <1>2 DEF Roles
<1>4. ModifyAsset(s, tx).s = t
  BY <1>1 DEF ModifyAsset, State
<1>. HIDE DEF new
<1>5. D \in [Asset -> Definition] /\ \A e \in Asset : D[e].creator = s.def[e].creator
  BY <1>1, <1>2, <1>3 DEF State, Definition
<1>. HIDE DEF D, c
<1>6. /\ t \in State
      /\ t.min = s.min /\ t.opted = s.opted /\ t.live = s.live /\ t.ctr = s.ctr
      /\ t.acct = s.acct /\ t.def = D /\ t.frozen = s.frozen /\ t.units = s.units
      /\ t.amt = s.amt /\ t.auth = s.auth
  BY <1>1, <1>5 DEF State
<1>7. \A b \in Addr : t.frozen[b] \subseteq s.opted[b]
  BY <1>6 DEF Sound, HoldingsWellFormed
<1>8. \A b \in Addr, e \in Asset : e \notin s.opted[b] => t.units[b][e] = 0
  BY <1>6 DEF Sound, HoldingsWellFormed
<1>. HIDE DEF t
<1>9. Sound(t)
  BY <1>5, <1>6, <1>7, <1>8, SameHoldings
<1>. QED  BY <1>4, <1>6, <1>9 DEF SameAccounts

\* Destruction removes the holding of every account.
LEMMA DestroyAssetSound ==
  ASSUME NEW s, Sound(s), NEW tx \in Tx
  PROVE  LET t == DestroyAsset(s, tx).s
         IN  Sound(t) /\ SameAccounts(s, t) /\ t.ctr = s.ctr
<1>. DEFINE c == tx.asset
            a == s.def[c].creator
            m == [s.min EXCEPT ![a] = s.min[a] - AssetFee]
            o == [b \in Addr |-> s.opted[b] \ {c}]
            f == [b \in Addr |-> s.frozen[b] \ {c}]
            u == [b \in Addr |-> [s.units[b] EXCEPT ![c] = 0]]
            v == s.live \ {c}
            t == [s EXCEPT !.live = v, !.min = m, !.opted = o, !.frozen = f, !.units = u]
<1>1. s \in State /\ c \in Asset /\ a \in Addr
  BY DEF Sound, Tx, State, Definition
<1>2. /\ m \in [Addr -> Int] /\ o \in [Addr -> SUBSET Asset] /\ f \in [Addr -> SUBSET Asset]
      /\ u \in [Addr -> [Asset -> Nat]] /\ v \in SUBSET Asset
  BY <1>1, LedgerAssumption DEF State, LedgerAssumption
<1>3. DestroyAsset(s, tx).s = s \/ (Holds(s, a, c) /\ DestroyAsset(s, tx).s = t)
  BY <1>1 DEF DestroyAsset, Ok, Throw, State
<1>. HIDE DEF m, o, f, u, v
<1>4. /\ t \in State
      /\ t.min = m /\ t.opted = o /\ t.live = v /\ t.ctr = s.ctr
      /\ t.acct = s.acct /\ t.def = s.def /\ t.frozen = f /\ t.units = u
      /\ t.amt = s.amt /\ t.auth = s.auth
  BY <1>1, <1>2 DEF State
<1>. HIDE DEF t
<1>5. ASSUME Holds(s, a, c) PROVE MinCoversHoldings(t)
  <2>. SUFFICES ASSUME NEW b \in Addr
                PROVE  t.min[b] >= AccountMin + AssetFee * Cardinality(t.opted[b])
    BY DEF MinCoversHoldings
  <2>. DEFINE n == Cardinality(s.opted[b])
              k == Cardinality(s.opted[b] \ {c})
  <2>1. IsFiniteSet(s.opted[b]) /\ n \in Nat
    BY <1>1, HoldingsFinite DEF Sound
  <2>2. k = (IF c \in s.opted[b] THEN n - 1 ELSE n) /\ k \in Nat
    <3>1. /\ IsFiniteSet(s.opted[b] \ {c})
          /\ k = IF c \in s.opted[b] THEN n - 1 ELSE n
      BY <2>1, FS_RemoveElement
    <3>. QED  BY <3>1, FS_CardinalityType
  <2>3. s.min[b] >= AccountMin + AssetFee * n /\ s.min[b] \in Int
    BY <1>1 DEF Sound, MinCoversHoldings, State
  <2>4. /\ t.min[b] = IF b = a THEN s.min[b] - AssetFee ELSE s.min[b]
        /\ t.opted[b] = s.opted[b] \ {c}
    BY <1>1, <1>4 DEF State, m, o
  <2>5. b = a => c \in s.opted[b]
    BY <1>5 DEF Holds
  <2>. HIDE DEF n, k, a
  <2>6. /\ AssetFee * n \in Nat
        /\ k = n - 1 => AssetFee * k = AssetFee * n - AssetFee
    BY <2>1, <2>2, FeeSteps
  <2>7. t.min[b] >= AccountMin + AssetFee * k
    BY <2>1, <2>2, <2>3, <2>4, <2>5, <2>6, LedgerAssumption DEF LedgerAssumption
  <2>. QED  BY <2>4, <2>7 DEF k
<1>6. HoldingsWellFormed(t)
  BY <1>1, <1>4 DEF Sound, HoldingsWellFormed, State, o, f, u
<1>7. CreatorHolds(t)
  BY <1>1, <1>4 DEF Sound, CreatorHolds, State, Definition, o, v
<1>8. ASSUME Holds(s, a, c) PROVE Sound(t)
  BY <1>4, <1>5, <1>6, <1>7, <1>8 DEF Sound
<1>. QED  BY <1>3, <1>4, <1>8 DEF SameAccounts

\* So does a configuration that may be a destruction.
LEMMA ConfigAssetSound ==
  ASSUME NEW s, Sound(s), NEW tx \in Tx
  PROVE  LET t == ConfigAsset(s, tx).s
         IN  Sound(t) /\ SameAccounts(s, t) /\ t.ctr = s.ctr
<1>1. ConfigAsset(s, tx).s \in {s, DestroyAsset(s, tx).s, ModifyAsset(s, tx).s}
  BY DEF ConfigAsset, Throw
<1>. QED  BY <1>1, DestroyAssetSound, ModifyAssetSound DEF SameAccounts

-----------------------------------------------------------------------------
(* Transactions                                                            *)

\* What a transaction of x may do to the accounts: only x pays and is rekeyed.
OnlyAffects(x, s, t) ==
  \A a \in Addr \ {x} : t.amt[a] >= s.amt[a] /\ t.auth[a] = s.auth[a]

\* The fee changes nothing but the balance of the sender, never below zero.
LEMMA DeductFeeSound ==
  ASSUME NEW s, Sound(s), NEW tx \in Tx
  PROVE  LET o == DeductFee(s, tx)
         IN  /\ Sound(o.s) /\ o.s.ctr = s.ctr
             /\ OnlyAffects(tx.from, s, o.s)
             /\ o.ok /\ NonNegative(s) => NonNegative(o.s)
<1>. DEFINE x == tx.from
            n == ChargedFee(tx)
            d == Debit(s, x, n)
<1>1. x \in Addr /\ n \in Nat /\ n \in Int /\ s \in State
  BY LedgerAssumption DEF Tx, ChargedFee, LedgerAssumption, Sound
<1>2. /\ Sound(d) /\ d.ctr = s.ctr /\ d.auth = s.auth
      /\ d.amt = [s.amt EXCEPT ![x] = s.amt[x] - n]
  <2>. HIDE DEF x, n
  <2>. QED  BY <1>1, DebitSound
<1>3. \/ DeductFee(s, tx).s = s /\ ~DeductFee(s, tx).ok
      \/ DeductFee(s, tx).s = d /\ s.amt[x] >= n
  BY DEF DeductFee, Throw
<1>. HIDE DEF x, n, d
<1>4. OnlyAffects(x, s, d)
  BY <1>1, <1>2 DEF OnlyAffects, State
<1>5. OnlyAffects(x, s, s)
  BY <1>1 DEF OnlyAffects, State
<1>6. s.amt[x] >= n /\ NonNegative(s) => NonNegative(d)
  BY <1>1, <1>2 DEF NonNegative, State
<1>. QED  BY <1>2, <1>3, <1>4, <1>5, <1>6 DEF x

\* A payment may overdraw the sender only if it throws.
LEMMA TransferAlgoSound ==
  ASSUME NEW s, Sound(s), NEW tx \in Tx
  PROVE  LET o == TransferAlgo(s, tx)
         IN  /\ Sound(o.s) /\ o.s.ctr = s.ctr
             /\ OnlyAffects(tx.from, s, o.s)
             /\ o.ok /\ NonNegative(s) => NonNegative(o.s)
<1>. DEFINE x == tx.from
            y == tx.to
            z == tx.close
            A == s.acct \cup {y}
            known == [s EXCEPT !.acct = A]
            paid == Debit(known, x, tx.amt)
            moved == Credit(paid, y, tx.amt)
            rest == moved.amt[x]
            emptied == Debit(moved, x, rest)
            closed == Credit(emptied, z, rest)
            enough == moved.amt[x] >= moved.min[x]
            closes == enough /\ z \in moved.acct \ {x} /\ z # NoAddr
<1>1. /\ x \in Addr /\ y \in Addr /\ tx.amt \in Nat /\ tx.amt \in Int /\ s \in State
      /\ A \in SUBSET Addr /\ s.acct \subseteq A
  BY DEF Tx, Sound, State
<1>2. \/ TransferAlgo(s, tx) = Throw(moved)
      \/ enough /\ TransferAlgo(s, tx) = Ok(moved)
      \/ closes /\ TransferAlgo(s, tx) = Ok(closed)
  BY DEF TransferAlgo, AboveMin
<1>. HIDE DEF A
<1>3. /\ known \in State /\ known.acct = A /\ known.amt = s.amt /\ known.auth = s.auth
      /\ known.min = s.min /\ known.opted = s.opted /\ known.live = s.live
      /\ known.ctr = s.ctr /\ known.def = s.def /\ known.frozen = s.frozen
      /\ known.units = s.units
  BY <1>1 DEF State
<1>. HIDE DEF known
<1>4. Sound(known)
  <2>1. \A b \in Addr : known.frozen[b] \subseteq s.opted[b]
    BY <1>3 DEF Sound, HoldingsWellFormed
  <2>2. \A b \in Addr, e \in Asset : e \notin s.opted[b] => known.units[b][e] = 0
    BY <1>3 DEF Sound, HoldingsWellFormed
  <2>. QED  BY <1>1, <1>3, <2>1, <2>2, SameHoldings
<1>5. /\ Sound(paid) /\ paid.ctr = s.ctr /\ paid.auth = s.auth /\ paid.min = s.min
      /\ paid.amt = [s.amt EXCEPT ![x] = s.amt[x] - tx.amt]
  <2>. HIDE DEF x
  <2>1. /\ Sound(paid) /\ paid.ctr = known.ctr /\ paid.auth = known.auth
        /\ paid.min = known.min /\ paid.amt = [known.amt EXCEPT ![x] = known.amt[x] - tx.amt]
    BY <1>1, <1>4, DebitSound
  <2>. QED  BY <1>3, <2>1
<1>. HIDE DEF paid
<1>6. /\ Sound(moved) /\ moved.ctr = s.ctr /\ moved.auth = s.auth /\ moved.min = s.min
      /\ moved.amt = [paid.amt EXCEPT ![y] = paid.amt[y] + tx.amt]
  <2>. HIDE DEF y
  <2>1. /\ Sound(moved) /\ moved.ctr = paid.ctr /\ moved.auth = paid.auth
        /\ moved.min = paid.min /\ moved.amt = [paid.amt EXCEPT ![y] = paid.amt[y] + tx.amt]
    BY <1>1, <1>5, CreditSound
  <2>. QED  BY <1>5, <2>1
<1>. HIDE DEF moved
<1>7. OnlyAffects(x, s, moved)
  BY <1>1, <1>5, <1>6 DEF OnlyAffects, State
<1>8. ASSUME enough, NonNegative(s) PROVE NonNegative(moved)
  <2>1. moved.min[x] \in Nat
    BY <1>1, <1>6, MinNonNegative DEF State
  <2>2. moved.amt[x] >= 0
    BY <1>1, <1>6, <1>8, <2>1 DEF Sound, State
  <2>3. \A b \in Addr : s.amt[b] \in Int /\ moved.amt[b] \in Int
    BY <1>1, <1>6 DEF Sound, State
  <2>. QED  BY <1>7, <1>8, <2>2, <2>3 DEF NonNegative, OnlyAffects
<1>9. ASSUME closes
      PROVE  /\ Sound(closed) /\ closed.ctr = s.ctr /\ OnlyAffects(x, s, closed)
             /\ NonNegative(s) => NonNegative(closed)
  <2>1. z \in Addr /\ rest \in Int /\ z # x /\ moved.amt \in [Addr -> Int]
        /\ rest >= moved.min[x]
    BY <1>1, <1>6, <1>9 DEF Sound, State
  <2>2. /\ Sound(emptied) /\ emptied.ctr = s.ctr /\ emptied.auth = s.auth
        /\ emptied.amt = [moved.amt EXCEPT ![x] = 0]
    <3>. HIDE DEF x, rest
    <3>1. /\ Sound(emptied) /\ emptied.ctr = moved.ctr /\ emptied.auth = moved.auth
          /\ emptied.amt = [moved.amt EXCEPT ![x] = moved.amt[x] - rest]
      BY <1>1, <1>6, <2>1, DebitSound
    <3>2. moved.amt[x] - rest = 0
      BY <1>1, <2>1 DEF rest
    <3>. QED  BY <1>6, <3>1, <3>2
  <2>. HIDE DEF emptied
  <2>3. /\ Sound(closed) /\ closed.ctr = s.ctr /\ closed.auth = s.auth
        /\ closed.amt = [emptied.amt EXCEPT ![z] = emptied.amt[z] + rest]
    <3>. HIDE DEF z, rest
    <3>1. /\ Sound(closed) /\ closed.ctr = emptied.ctr /\ closed.auth = emptied.auth
          /\ closed.amt = [emptied.amt EXCEPT ![z] = emptied.amt[z] + rest]
      BY <2>1, <2>2, CreditSound
    <3>. QED  BY <2>2, <3>1
  <2>. HIDE DEF closed
  <2>4. moved.min[x] \in Nat
    BY <1>1, <1>6, MinNonNegative DEF State
  <2>5. rest >= 0
    BY <1>1, <1>6, <2>1, <2>4 DEF State
  <2>. HIDE DEF rest
  <2>6. OnlyAffects(x, s, closed)
    BY <1>1, <1>6, <1>7, <2>1, <2>2, <2>3, <2>5 DEF OnlyAffects, State
  <2>7. NonNegative(s) => NonNegative(closed)
    BY <1>1, <1>8, <1>9, <2>1, <2>2, <2>3, <2>5 DEF NonNegative
  <2>. QED  BY <2>3, <2>6, <2>7
<1>. HIDE DEF closed, enough
<1>. QED  BY <1>2, <1>6, <1>7, <1>8, <1>9 DEF Ok, Throw, x

\* Sets the signing authority of an account.
LEMMA RekeySound ==
  ASSUME NEW s, Sound(s), NEW tx \in Tx
  PROVE  LET t == Rekey(s, tx)
         IN  /\ Sound(t) /\ t.ctr = s.ctr /\ t.amt = s.amt
             /\ \A a \in Addr \ {tx.from} : t.auth[a] = s.auth[a]
<1>. DEFINE x == tx.from
            Set(k) == [s EXCEPT !.auth = [s.auth EXCEPT ![x] = k]]
<1>1. s \in State /\ x \in Addr /\ tx.close \in Addr \cup {NoAddr}
      /\ tx.rekey \in Addr \cup {NoAddr}
  BY DEF Sound, Tx
<1>2. ASSUME NEW k \in Addr
      PROVE  /\ Sound(Set(k)) /\ Set(k).ctr = s.ctr /\ Set(k).amt = s.amt
             /\ \A a \in Addr \ {x} : Set(k).auth[a] = s.auth[a]
  <2>. DEFINE f == [s.auth EXCEPT ![x] = k]
              t == [s EXCEPT !.auth = f]
  <2>1. f \in [Addr -> Addr] /\ \A a \in Addr \ {x} : f[a] = s.auth[a]
    BY <1>1 DEF State
  <2>. HIDE DEF f
  <2>2. /\ t \in State
        /\ t.min = s.min /\ t.opted = s.opted /\ t.live = s.live /\ t.ctr = s.ctr
        /\ t.acct = s.acct /\ t.def = s.def /\ t.frozen = s.frozen /\ t.units = s.units
        /\ t.amt = s.amt /\ t.auth = f
    BY <1>1, <2>1 DEF State
  <2>3. \A b \in Addr : t.frozen[b] \subseteq s.opted[b]
    BY <2>2 DEF Sound, HoldingsWellFormed
  <2>4. \A b \in Addr, e \in Asset : e \notin s.opted[b] => t.units[b][e] = 0
    BY <2>2 DEF Sound, HoldingsWellFormed
  <2>. HIDE DEF t
  <2>5. Sound(t)
    BY <2>2, <2>3, <2>4, SameHoldings
  <2>. QED  BY <2>1, <2>2, <2>5 DEF t, f
<1>3. Rekey(s, tx) = s \/ \E k \in Addr : Rekey(s, tx) = Set(k)
  BY <1>1 DEF Rekey, State
<1>. HIDE DEF Set
<1>. QED  BY <1>2, <1>3

\* One transaction of a group: from a sound ledger, with room for the asset
\* it may create, to a sound ledger, whether it succeeds or throws.
LEMMA ApplyTxSound ==
  ASSUME NEW base, NEW s, Sound(s), NEW tx \in Tx,
         tx.type = "create" => s.ctr < MaxAsset
  PROVE  LET o == ApplyTx(base, s, tx)
         IN  /\ Sound(o.s)
             /\ o.s.ctr \in s.ctr..(s.ctr + 1)
             /\ tx.type # "create" => o.s.ctr = s.ctr
             /\ OnlyAffects(tx.from, s, o.s)
             /\ o.ok /\ NonNegative(s) => NonNegative(o.s)
             /\ o.ok => Authorised(base, tx)
<1>. DEFINE paid == DeductFee(s, tx)
            p == paid.s
            done == Dispatch(p, tx)
            d == done.s
            r == Rekey(d, tx)
<1>1. /\ Sound(p) /\ p.ctr = s.ctr /\ OnlyAffects(tx.from, s, p)
      /\ paid.ok /\ NonNegative(s) => NonNegative(p)
  BY DeductFeeSound
<1>2. /\ tx.type \in TxType /\ tx.from \in Addr /\ tx.amt \in Nat /\ tx.flag \in BOOLEAN
      /\ tx.roles \in Roles /\ s.ctr \in Nat
  BY LedgerAssumption DEF Tx, Sound, State, LedgerAssumption
<1>. HIDE DEF p, paid
<1>3. /\ Sound(d) /\ d.ctr \in p.ctr..(p.ctr + 1)
      /\ tx.type # "create" => d.ctr = p.ctr
      /\ OnlyAffects(tx.from, p, d)
      /\ done.ok /\ NonNegative(p) => NonNegative(d)
  <2>0. p \in State /\ p.ctr \in Int
    BY <1>1 DEF Sound, State
  <2>. DEFINE Quiet(t) == Sound(t) /\ SameAccounts(p, t) /\ t.ctr = p.ctr
  <2>1. ASSUME NEW t, Sound(t), SameAccounts(p, t)
        PROVE  OnlyAffects(tx.from, p, t) /\ (NonNegative(p) => NonNegative(t))
    BY <2>0, <2>1 DEF SameAccounts, OnlyAffects, NonNegative, State
  <2>2. CASE tx.type = "pay"
    <3>1. done = TransferAlgo(p, tx)
      BY <2>2 DEF Dispatch
    <3>2. /\ Sound(d) /\ d.ctr = p.ctr /\ OnlyAffects(tx.from, p, d)
          /\ done.ok /\ NonNegative(p) => NonNegative(d)
      BY <1>1, <3>1, TransferAlgoSound
    <3>. QED  BY <2>0, <3>2
  <2>3. CASE tx.type = "create"
    <3>1. done = DeployASA(p, tx.from, tx.amt, tx.flag, tx.roles, FALSE, tx.type)
      BY <2>3 DEF Dispatch
    <3>2. Sound(d) /\ SameAccounts(p, d) /\ d.ctr \in p.ctr..(p.ctr + 1)
      <4>. DEFINE t == DeployASA(p, tx.from, tx.amt, tx.flag, tx.roles, FALSE, tx.type).s
      <4>1. Sound(p) /\ p.ctr < MaxAsset
        BY <1>1, <2>3
      <4>2. Sound(t) /\ SameAccounts(p, t) /\ t.ctr \in p.ctr..(p.ctr + 1)
        BY <1>2, <4>1, DeploySound
      <4>3. d = t
        BY <3>1
      <4>. HIDE DEF d, t
      <4>. QED  BY <4>2, <4>3
    <3>. HIDE DEF d
    <3>3. OnlyAffects(tx.from, p, d) /\ (NonNegative(p) => NonNegative(d))
      BY <2>1, <3>2
    <3>. QED  BY <2>3, <3>2, <3>3
  <2>4. CASE tx.type \notin {"pay", "create"}
    <3>1. Quiet(p)
      BY <1>1 DEF SameAccounts
    <3>2. /\ Quiet(ConfigAsset(p, tx).s) /\ Quiet(TransferAsset(p, tx).s)
          /\ Quiet(RevokeAsset(p, tx).s) /\ Quiet(FreezeAsset(p, tx).s)
      BY <1>1, ConfigAssetSound, TransferAssetSound, RevokeAssetSound, FreezeAssetSound
    <3>3. d \in {p, ConfigAsset(p, tx).s, TransferAsset(p, tx).s, RevokeAsset(p, tx).s,
                FreezeAsset(p, tx).s}
      BY <1>2, <2>4 DEF Dispatch, TxType, Ok
    <3>4. Quiet(d)
      BY <3>1, <3>2, <3>3
    <3>. QED  BY <2>0, <2>1, <3>4
  <2>. QED  BY <2>2, <2>3, <2>4
<1>. HIDE DEF d, done
<1>4. /\ Sound(r) /\ r.ctr = d.ctr /\ r.amt = d.amt
      /\ \A a \in Addr \ {tx.from} : r.auth[a] = d.auth[a]
  BY <1>3, RekeySound
<1>. HIDE DEF r
<1>5. \/ ApplyTx(base, s, tx) = Throw(p)
      \/ ApplyTx(base, s, tx) = Ok(r) /\ paid.ok /\ done.ok /\ Authorised(base, tx)
      \/ ApplyTx(base, s, tx) = done /\ ~done.ok
  BY DEF ApplyTx, p, paid, d, done, r
<1>6. s \in State /\ p \in State /\ d \in State /\ r \in State
  BY <1>1, <1>3, <1>4 DEF Sound
<1>7. OnlyAffects(tx.from, s, d)
  BY <1>1, <1>3, <1>6 DEF OnlyAffects, State
<1>8. OnlyAffects(tx.from, s, r)
  BY <1>4, <1>7 DEF OnlyAffects
<1>9. paid.ok /\ done.ok /\ NonNegative(s) => NonNegative(r)
  BY <1>1, <1>3, <1>4 DEF NonNegative
<1>10. CASE ApplyTx(base, s, tx) = Throw(p)
  BY <1>1, <1>2, <1>10 DEF Throw
<1>11. CASE ApplyTx(base, s, tx) = Ok(r) /\ paid.ok /\ done.ok /\ Authorised(base, tx)
  BY <1>1, <1>3, <1>4, <1>8, <1>9, <1>11 DEF Ok
<1>12. CASE ApplyTx(base, s, tx) = done /\ ~done.ok
  BY <1>1, <1>3, <1>7, <1>12 DEF d
<1>. QED  BY <1>5, <1>10, <1>11, <1>12

-----------------------------------------------------------------------------
(* Writes outside transactions                                             *)

\* Accounts may be replaced by new ones at any time.
LEMMA NewAccountsSound ==
  ASSUME NEW s, Sound(s), NEW addrs \in SUBSET Addr, NEW balance \in Nat
  PROVE  LET t == NewAccounts(s, addrs, balance)
         IN  /\ Sound(t) /\ t.ctr = s.ctr
             /\ NonNegative(s) => NonNegative(t)
             /\ \A a \in Addr \ addrs : t.amt[a] = s.amt[a] /\ t.auth[a] = s.auth[a]
<1>. DEFINE t == NewAccounts(s, addrs, balance)
            New(f, v) == [a \in Addr |-> IF a \in addrs THEN v ELSE f[a]]
            zero == [c \in Asset |-> 0]
            auth == [a \in Addr |-> IF a \in addrs THEN a ELSE s.auth[a]]
            live == {c \in s.live : s.def[c].creator \notin addrs}
            acct == s.acct \cup addrs
            amt == New(s.amt, balance)
            min == New(s.min, AccountMin)
            opted == New(s.opted, {})
            units == New(s.units, zero)
            frozen == New(s.frozen, {})
<1>1. s \in State
  BY DEF Sound
<1>2. /\ amt \in [Addr -> Int] /\ min \in [Addr -> Int] /\ auth \in [Addr -> Addr]
      /\ opted \in [Addr -> SUBSET Asset] /\ frozen \in [Addr -> SUBSET Asset]
      /\ live \in SUBSET Asset /\ acct \in SUBSET Addr
  BY <1>1, LedgerAssumption DEF State, LedgerAssumption
<1>3. units \in [Addr -> [Asset -> Nat]]
  BY <1>1 DEF State
<1>4. t = [s EXCEPT !.acct = acct, !.amt = amt, !.min = min, !.auth = auth,
                    !.opted = opted, !.units = units, !.frozen = frozen, !.live = live]
  BY <1>1 DEF NewAccounts, State
<1>. HIDE DEF t, acct, amt, min, auth, opted, units, frozen, live
<1>5. /\ t \in State
      /\ t.acct = acct /\ t.amt = amt /\ t.min = min /\ t.auth = auth /\ t.opted = opted
      /\ t.units = units /\ t.frozen = frozen /\ t.live = live
      /\ t.def = s.def /\ t.ctr = s.ctr
  BY <1>1, <1>2, <1>3, <1>4 DEF State
<1>6. MinCoversHoldings(t)
  <2>. SUFFICES ASSUME NEW b \in Addr
                PROVE  t.min[b] >= AccountMin + AssetFee * Cardinality(t.opted[b])
    BY DEF MinCoversHoldings
  <2>1. CASE b \in addrs
    <3>1. t.min[b] = AccountMin /\ t.opted[b] = {}
      BY <1>5, <2>1 DEF min, opted
    <3>2. Cardinality({}) = 0 /\ AssetFee * 0 = 0
      BY FS_EmptySet, LedgerAssumption DEF LedgerAssumption
    <3>. QED  BY <3>1, <3>2, LedgerAssumption DEF LedgerAssumption
  <2>2. CASE b \notin addrs
    <3>1. t.min[b] = s.min[b] /\ t.opted[b] = s.opted[b]
      BY <1>5, <2>2 DEF min, opted
    <3>. QED  BY <3>1 DEF Sound, MinCoversHoldings
  <2>. QED  BY <2>1, <2>2
<1>7. HoldingsWellFormed(t)
  BY <1>1, <1>5 DEF Sound, HoldingsWellFormed, State, acct, opted, units, frozen
<1>8. CreatorHolds(t)
  BY <1>1, <1>5 DEF Sound, CreatorHolds, State, Definition, live, opted
<1>9. NonNegative(s) => NonNegative(t)
  BY <1>5 DEF NonNegative, amt
<1>10. \A a \in Addr \ addrs : t.amt[a] = s.amt[a] /\ t.auth[a] = s.auth[a]
  BY <1>5 DEF amt, auth
<1>11. Sound(t)
  BY <1>5, <1>6, <1>7, <1>8 DEF Sound
<1>. QED  BY <1>5, <1>9, <1>10, <1>11 DEF t

\* The ledger of the constructor is sound.
LEMMA GenesisSound ==
  ASSUME NEW accounts \in SUBSET Addr, accounts # {}, NEW funds \in [accounts -> Nat]
  PROVE  LET t == Genesis(accounts, funds)
         IN  Sound(t) /\ NonNegative(t)
<1>. DEFINE t == Genesis(accounts, funds)
            def == [creator |-> CHOOSE a \in accounts : TRUE, total |-> 0,
                    defaultFrozen |-> FALSE, roles |-> NoRoles]
<1>1. (CHOOSE a \in accounts : TRUE) \in Addr
  OBVIOUS
<1>2. NoRoles \in Roles
  BY DEF NoRoles, Roles
<1>3. def \in Definition
  BY <1>1, <1>2 DEF Definition
<1>4. /\ t.acct = accounts /\ t.amt = [a \in Addr |-> IF a \in accounts THEN funds[a] ELSE 0]
      /\ t.min = [a \in Addr |-> AccountMin] /\ t.auth = [a \in Addr |-> a]
      /\ t.opted = [a \in Addr |-> {}] /\ t.frozen = [a \in Addr |-> {}]
      /\ t.units = [a \in Addr |-> [c \in Asset |-> 0]] /\ t.live = {}
      /\ t.def = [c \in Asset |-> def] /\ t.ctr = 0
  BY DEF Genesis
<1>. HIDE DEF def
<1>5. t \in State
  <2>1. Genesis(accounts, funds) =
          [acct |-> t.acct, amt |-> t.amt, min |-> t.min, auth |-> t.auth,
           opted |-> t.opted, units |-> t.units, frozen |-> t.frozen, live |-> t.live,
           def |-> t.def, ctr |-> t.ctr]
    BY DEF Genesis
  <2>2. /\ t.acct \in SUBSET Addr /\ t.amt \in [Addr -> Int] /\ t.min \in [Addr -> Int]
        /\ t.auth \in [Addr -> Addr] /\ t.opted \in [Addr -> SUBSET Asset]
        /\ t.frozen \in [Addr -> SUBSET Asset] /\ t.live \in SUBSET Asset
    BY <1>4, LedgerAssumption DEF LedgerAssumption
  <2>3. t.units \in [Addr -> [Asset -> Nat]]
    BY <1>4
  <2>4. t.def \in [Asset -> Definition] /\ t.ctr \in 0..MaxAsset
    BY <1>3, <1>4, LedgerAssumption DEF LedgerAssumption
  <2>. HIDE DEF t
  <2>. QED  BY <2>1, <2>2, <2>3, <2>4 DEF State, t
<1>. HIDE DEF t
<1>6. MinCoversHoldings(t)
  <2>1. Cardinality({}) = 0 /\ AssetFee * 0 = 0
    BY FS_EmptySet, LedgerAssumption DEF LedgerAssumption
  <2>. SUFFICES ASSUME NEW a \in Addr
                PROVE  t.min[a] >= AccountMin + AssetFee * Cardinality(t.opted[a])
    BY DEF MinCoversHoldings
  <2>2. t.min[a] = AccountMin /\ t.opted[a] = {}
    BY <1>4
  <2>. QED  BY <2>1, <2>2, LedgerAssumption DEF LedgerAssumption
<1>7. HoldingsWellFormed(t) /\ CreatorHolds(t) /\ NonNegative(t)
  BY <1>4 DEF HoldingsWellFormed, CreatorHolds, NonNegative
<1>. QED  BY <1>5, <1>6, <1>7 DEF Sound, t
=============================================================================
